-------------------------- MODULE PendingCallsProofs --------------------------
(***************************************************************************)
(* The bridge to the main thread loses no wake-up and implements           *)
(* MainThreadPost, for any number of posters and any size of CPython's     *)
(* queue.                                                                  *)
(***************************************************************************)
EXTENDS PendingCalls, TLAPS

USE PendingAssumption

In(q, p) == \E i \in 1 .. Len(q) : q[i] = p
Unique(q) == \A i, j \in 1 .. Len(q) : q[i] = q[j] => i = j

\* A callback is in one place at a time, and only after its post has begun.
Places ==
  /\ Unique(queue)
  /\ \A p \in Posters : In(queue, p) =>
       pc[p] \in {"full", "retry", "late", "returned"} /\ p \notin ran /\ p # current
  /\ (main = "callback") <=> (current \in Posters)
  /\ \A p \in Posters : p = current =>
       pc[p] \in {"full", "retry", "late", "returned", "raised"} /\ p \notin ran
  /\ \A p \in ran : pc[p] \in {"full", "retry", "late", "returned", "raised"}

\* One drain is under way at most.
OneDrain ==
  /\ \A i, j \in 1 .. Len(ring) : ring[i] = "drain" /\ ring[j] = "drain" => i = j
  /\ main # "eval" => \A i \in 1 .. Len(ring) : ring[i] # "drain"

PendingInv == TypeOK /\ Places /\ OneDrain /\ NoLostWakeup

------------------------------------------------------------------------------
(* The queues.                                                               *)

\* What an entry appended to a queue changes.
LEMMA AppendFacts ==
  ASSUME NEW S, NEW q \in Seq(S), NEW p \in S
  PROVE  /\ Append(q, p) \in Seq(S) /\ Len(Append(q, p)) = Len(q) + 1
         /\ \A r : In(Append(q, p), r) <=> In(q, r) \/ r = p
         /\ Unique(q) /\ ~In(q, p) => Unique(Append(q, p))
<1>1. /\ Append(q, p) \in Seq(S) /\ Len(Append(q, p)) = Len(q) + 1 /\ Len(q) \in Nat
      /\ \A i \in 1 .. Len(q) : Append(q, p)[i] = q[i]
      /\ Append(q, p)[Len(q) + 1] = p
  OBVIOUS
<1>2. \A r : In(Append(q, p), r) <=> In(q, r) \/ r = p
  BY <1>1 DEF In
<1>3. Unique(q) /\ ~In(q, p) => Unique(Append(q, p))
  BY <1>1 DEF In, Unique
<1> QED BY <1>1, <1>2, <1>3

\* What the first entry taken off a queue changes.
LEMMA TailFacts ==
  ASSUME NEW S, NEW q \in Seq(S), q # <<>>
  PROVE  /\ Head(q) \in S /\ Tail(q) \in Seq(S) /\ Len(Tail(q)) = Len(q) - 1
         /\ \A r : In(q, r) <=> In(Tail(q), r) \/ r = Head(q)
         /\ Unique(q) => Unique(Tail(q)) /\ ~In(Tail(q), Head(q))
<1>1. /\ Head(q) \in S /\ Tail(q) \in Seq(S) /\ Len(Tail(q)) = Len(q) - 1 /\ Len(q) \in Nat \ {0}
      /\ \A i \in 1 .. Len(q) - 1 : Tail(q)[i] = q[i + 1]
      /\ Head(q) = q[1]
  OBVIOUS
<1>2. \A r : In(q, r) => In(Tail(q), r) \/ r = Head(q)
  <2> SUFFICES ASSUME NEW i \in 1 .. Len(q), i # 1 PROVE In(Tail(q), q[i])
    BY <1>1 DEF In
  <2>1. i - 1 \in 1 .. Len(Tail(q)) /\ Tail(q)[i - 1] = q[i]
    BY <1>1
  <2> QED BY <2>1 DEF In
<1>3. \A r : In(Tail(q), r) \/ r = Head(q) => In(q, r)
  BY <1>1 DEF In
<1>4. Unique(q) => Unique(Tail(q)) /\ ~In(Tail(q), Head(q))
  BY <1>1 DEF In, Unique
<1> QED BY <1>1, <1>2, <1>3, <1>4

\* Withdrawal removes the callback and nothing else.
LEMMA WithoutFacts ==
  ASSUME NEW S, NEW q \in Seq(S), NEW p \in S, Unique(q)
  PROVE  /\ Without(q, p) \in Seq(S) /\ Unique(Without(q, p))
         /\ ~In(Without(q, p), p)
         /\ \A r : In(Without(q, p), r) => In(q, r)
<1>1. CASE ~In(q, p)
  BY <1>1 DEF Without, In
<1>2. CASE In(q, p)
  <2> DEFINE k == CHOOSE i \in 1 .. Len(q) : q[i] = p
             w == SubSeq(q, 1, k - 1) \o SubSeq(q, k + 1, Len(q))
  <2>1. k \in 1 .. Len(q) /\ q[k] = p /\ Without(q, p) = w
    BY <1>2 DEF In, Without
  <2> HIDE DEF k
  <2>2. /\ SubSeq(q, 1, k - 1) \in Seq(S) /\ Len(SubSeq(q, 1, k - 1)) = k - 1
        /\ \A i \in 1 .. k - 1 : SubSeq(q, 1, k - 1)[i] = q[i]
    BY <2>1
  <2>3. /\ SubSeq(q, k + 1, Len(q)) \in Seq(S)
        /\ Len(SubSeq(q, k + 1, Len(q))) = Len(q) - k
        /\ \A i \in 1 .. Len(q) - k : SubSeq(q, k + 1, Len(q))[i] = q[k + i]
    BY <2>1
  <2>4. /\ w \in Seq(S) /\ Len(w) = Len(q) - 1
        /\ \A i \in 1 .. Len(q) - 1 : w[i] = IF i < k THEN q[i] ELSE q[i + 1]
    <3> DEFINE a == SubSeq(q, 1, k - 1)
               b == SubSeq(q, k + 1, Len(q))
    <3>1. a \in Seq(S) /\ b \in Seq(S) /\ Len(a) = k - 1 /\ Len(b) = Len(q) - k
      BY <2>2, <2>3
    <3>2. /\ \A i \in 1 .. k - 1 : a[i] = q[i]
          /\ \A i \in 1 .. Len(q) - k : b[i] = q[k + i]
      BY <2>2, <2>3
    <3>3. Len(q) \in Nat /\ w = a \o b
      OBVIOUS
    <3> HIDE DEF a, b, w
    <3>4. /\ a \o b \in Seq(S) /\ Len(a \o b) = Len(a) + Len(b)
          /\ \A i \in 1 .. Len(a) + Len(b) :
               (a \o b)[i] = IF i <= Len(a) THEN a[i] ELSE b[i - Len(a)]
      BY <3>1, SMTT(40)
    <3>5. \A i \in 1 .. Len(q) - 1 : i >= k => b[i - (k - 1)] = q[i + 1]
      <4> SUFFICES ASSUME NEW i \in 1 .. Len(q) - 1, i >= k PROVE b[i - (k - 1)] = q[i + 1]
        OBVIOUS
      <4>1. i - (k - 1) \in 1 .. Len(q) - k /\ k + (i - (k - 1)) = i + 1
        BY <2>1, <3>3
      <4> QED BY <3>2, <4>1
    <3> QED BY <2>1, <3>1, <3>2, <3>3, <3>4, <3>5
  <2> HIDE DEF w
  <2>5. \A r : In(w, r) => In(q, r)
    BY <2>1, <2>4 DEF In
  <2>6. ~In(w, p)
    BY <2>1, <2>4 DEF In, Unique
  <2>7. Unique(w)
    BY <2>1, <2>4 DEF Unique
  <2> QED BY <2>1, <2>4, <2>5, <2>6, <2>7
<1> QED BY <1>1, <1>2
------------------------------------------------------------------------------
(* The invariant is inductive.                                               *)

LEMMA InitInv == Init => PendingInv
<1> SUFFICES ASSUME Init  PROVE PendingInv
  OBVIOUS
<1>1. queue = <<>> /\ ring = <<>> /\ 1 .. Len(<<>>) = {} /\ scheduled = FALSE /\ main = "eval"
  BY DEF Init
<1>2. TypeOK
  <2>1. queue \in Seq(Posters) /\ ring \in Seq({"drain", "other"}) /\ Len(ring) <= RingSize
    BY <1>1
  <2>2. pc \in [Posters -> {"idle", "start", "full", "retry", "late", "returned", "raised"}]
    BY DEF Init
  <2> QED BY <2>1, <2>2 DEF Init, TypeOK
<1>3. Places
  BY <1>1 DEF Init, Places, In, Unique
<1>4. OneDrain
  BY <1>1 DEF OneDrain
<1>5. ~DrainComing
  BY <1>1 DEF DrainComing
<1>6. \A p \in Posters : ~Waits(p)
  BY <1>1 DEF Waits
<1>7. NoLostWakeup
  BY <1>1, <1>5, <1>6 DEF NoLostWakeup
<1> QED BY <1>2, <1>3, <1>4, <1>7 DEF PendingInv

\* The callback a poster offers is in the queue, once, when its step ends.
LEMMA OfferedFacts ==
  ASSUME PendingInv, NEW p \in Posters, pc[p] \in {"start", "retry"}
  PROVE  /\ Offered(p) \in Seq(Posters) /\ Unique(Offered(p))
         /\ \A r \in Posters : In(Offered(p), r) => In(queue, r) \/ r = p
         /\ pc[p] = "start" => p \notin ran /\ p # current
         /\ pc[p] = "retry" /\ ~In(queue, p) => Offered(p) = queue
<1>1. queue \in Seq(Posters) /\ Unique(queue)
  BY DEF PendingInv, TypeOK, Places
<1>2. pc[p] = "start" => ~In(queue, p) /\ p \notin ran /\ p # current
  BY DEF PendingInv, Places
<1> QED BY <1>1, <1>2, AppendFacts DEF Offered

LEMMA PlacesNext ==
  ASSUME PendingInv, Next  PROVE Places'
<1> USE DEF PendingInv, TypeOK
<1>1. ASSUME NEW p \in Posters, Call(p)  PROVE Places'
  BY <1>1 DEF Call, Places
<1>2. ASSUME NEW p \in Posters, Posted(p) \/ RingFull(p)  PROVE Places'
  <2>1. /\ queue' = Offered(p) /\ UNCHANGED <<main, current, ran>>
        /\ pc[p] \in {"start", "retry"}
        /\ \E l \in {"returned", "full"} : pc' = [pc EXCEPT ![p] = l]
    BY <1>2 DEF Posted, RingFull
  <2>2. Unique(queue')
    BY <2>1, OfferedFacts
  <2>3. \A r \in Posters : In(queue', r) =>
          pc'[r] \in {"full", "retry", "late", "returned"} /\ r \notin ran' /\ r # current'
    <3> SUFFICES ASSUME NEW r \in Posters, In(queue', r)
                 PROVE pc'[r] \in {"full", "retry", "late", "returned"} /\ r \notin ran' /\ r # current'
      OBVIOUS
    <3>1. In(queue, r) \/ (r = p /\ pc[p] = "start")
      BY <2>1, OfferedFacts DEF Offered
    <3> QED BY <2>1, <3>1, OfferedFacts DEF Places
  <2> QED BY <2>1, <2>2, <2>3 DEF Places
<1>3. ASSUME NEW p \in Posters, Sleep(p) \/ Late(p)  PROVE Places'
  BY <1>3 DEF Sleep, Late, Places
<1>4. ASSUME NEW p \in Posters, Withdraw(p)  PROVE Places'
  <2>1. /\ Unique(Without(queue, p)) /\ ~In(Without(queue, p), p)
        /\ \A r : In(Without(queue, p), r) => In(queue, r)
    BY WithoutFacts DEF Places
  <2> QED BY <1>4, <2>1 DEF Withdraw, Places
<1>5. ASSUME OtherCall \/ PendingCall \/ Drained  PROVE Places'
  BY <1>5 DEF OtherCall, PendingCall, Drained, Places
<1>6. ASSUME Take  PROVE Places'
  <2>1. /\ Head(queue) \in Posters /\ In(queue, Head(queue))
        /\ \A r : In(Tail(queue), r) => In(queue, r)
        /\ Unique(Tail(queue)) /\ ~In(Tail(queue), Head(queue))
    BY <1>6, TailFacts DEF Take, Places
  <2> QED BY <1>6, <2>1 DEF Take, Places
<1>7. ASSUME RunCallback  PROVE Places'
  BY <1>7 DEF RunCallback, Places
<1> QED BY <1>1, <1>2, <1>3, <1>4, <1>5, <1>6, <1>7 DEF Next, Main, Poster

LEMMA TypeNext == PendingInv /\ Next => TypeOK'
<1> SUFFICES ASSUME PendingInv, Next  PROVE TypeOK'
  OBVIOUS
<1>1. ASSUME NEW p \in Posters, Posted(p) \/ RingFull(p)  PROVE TypeOK'
  <2>1. Offered(p) \in Seq(Posters)
    BY <1>1, OfferedFacts DEF Posted, RingFull
  <2>2. Len(ring) < RingSize =>
          Append(ring, "drain") \in Seq({"drain", "other"}) /\ Len(Append(ring, "drain")) <= RingSize
    BY DEF PendingInv, TypeOK
  <2> QED BY <1>1, <2>1, <2>2 DEF Posted, RingFull, PendingInv, TypeOK
<1>2. ASSUME NEW p \in Posters, Withdraw(p)  PROVE TypeOK'
  BY <1>2, WithoutFacts DEF Withdraw, PendingInv, TypeOK, Places
<1>3. ASSUME NEW p \in Posters, Call(p) \/ Sleep(p) \/ Late(p)  PROVE TypeOK'
  BY <1>3 DEF Call, Sleep, Late, PendingInv, TypeOK
<1>4. ASSUME OtherCall  PROVE TypeOK'
  <2>1. Append(ring, "other") \in Seq({"drain", "other"}) /\ Len(Append(ring, "other")) <= RingSize
    BY <1>4 DEF OtherCall, PendingInv, TypeOK
  <2> QED BY <1>4, <2>1 DEF OtherCall, PendingInv, TypeOK
<1>5. ASSUME PendingCall  PROVE TypeOK'
  <2>1. Tail(ring) \in Seq({"drain", "other"}) /\ Len(Tail(ring)) <= RingSize
    BY <1>5 DEF PendingCall, PendingInv, TypeOK
  <2> QED BY <1>5, <2>1 DEF PendingCall, PendingInv, TypeOK
<1>6. ASSUME Take  PROVE TypeOK'
  BY <1>6, TailFacts DEF Take, PendingInv, TypeOK
<1>7. ASSUME RunCallback \/ Drained  PROVE TypeOK'
  BY <1>7 DEF RunCallback, Drained, PendingInv, TypeOK, Places
<1> QED BY <1>1, <1>2, <1>3, <1>4, <1>5, <1>6, <1>7 DEF Next, Main, Poster

\* CPython's queue of pending calls and the flag.
LEMMA DrainNext ==
  ASSUME PendingInv, Next  PROVE OneDrain' /\ (scheduled <=> DrainComing)'
<1> USE DEF PendingInv, TypeOK, OneDrain, DrainComing, NoLostWakeup
<1>1. ASSUME NEW p \in Posters, Posted(p)  PROVE OneDrain' /\ (scheduled <=> DrainComing)'
  <2>1. CASE UNCHANGED <<scheduled, ring, main>>
    BY <2>1
  <2>2. CASE ~scheduled /\ scheduled' = TRUE /\ ring' = Append(ring, "drain") /\ main' = main
    <3>1. main = "eval" /\ \A i \in 1 .. Len(ring) : ring[i] # "drain"
      BY <2>2
    <3>2. /\ Len(ring') = Len(ring) + 1 /\ ring'[Len(ring) + 1] = "drain" /\ Len(ring) \in Nat
          /\ \A i \in 1 .. Len(ring) : ring'[i] = ring[i]
      BY <2>2
    <3> QED BY <2>2, <3>1, <3>2
  <2> QED BY <1>1, <2>1, <2>2 DEF Posted
<1>2. ASSUME OtherCall  PROVE OneDrain' /\ (scheduled <=> DrainComing)'
  <2>1. /\ Len(ring') = Len(ring) + 1 /\ ring'[Len(ring) + 1] = "other" /\ Len(ring) \in Nat
        /\ \A i \in 1 .. Len(ring) : ring'[i] = ring[i]
    BY <1>2 DEF OtherCall
  <2> QED BY <1>2, <2>1 DEF OtherCall
<1>3. ASSUME PendingCall  PROVE OneDrain' /\ (scheduled <=> DrainComing)'
  <2>1. /\ Len(ring') = Len(ring) - 1 /\ Len(ring) \in Nat \ {0} /\ Head(ring) = ring[1]
        /\ \A i \in 1 .. Len(ring) - 1 : ring'[i] = ring[i + 1]
    BY <1>3 DEF PendingCall
  <2>2. CASE Head(ring) = "drain"
    <3>1. main = "eval" /\ main' = "drain" /\ UNCHANGED scheduled
      BY <1>3, <2>2 DEF PendingCall
    <3>2. \A i \in 1 .. Len(ring') : i + 1 \in 1 .. Len(ring) /\ i + 1 # 1 /\ ring'[i] = ring[i + 1]
      BY <2>1
    <3>3. 1 \in 1 .. Len(ring) /\ ring[1] = "drain"
      BY <2>1, <2>2
    <3>4. \A i \in 1 .. Len(ring') : ring'[i] # "drain"
      BY <3>2, <3>3
    <3>5. scheduled
      BY <3>3
    <3>6. scheduled' /\ DrainComing'
      BY <3>1, <3>5
    <3>7. OneDrain'
      BY <3>4
    <3> QED BY <3>6, <3>7
  <2>3. CASE Head(ring) # "drain"
    <3>1. main = "eval" /\ main' = "eval" /\ UNCHANGED scheduled
      BY <1>3, <2>3 DEF PendingCall
    <3>2. \A i \in 1 .. Len(ring) : ring[i] = "drain" => i - 1 \in 1 .. Len(ring') /\ ring'[i - 1] = "drain"
      BY <2>1, <2>3
    <3>3. \A i \in 1 .. Len(ring') : i + 1 \in 1 .. Len(ring) /\ ring'[i] = ring[i + 1]
      BY <2>1
    <3>4. OneDrain'
      BY <2>1, <3>1, <3>3
    <3>5. (\E i \in 1 .. Len(ring) : ring[i] = "drain") <=> (\E i \in 1 .. Len(ring') : ring'[i] = "drain")
      BY <3>2, <3>3
    <3>6. (scheduled <=> DrainComing)'
      BY <3>1, <3>5
    <3> QED BY <3>4, <3>6
  <2> QED BY <2>2, <2>3
<1>4. ASSUME NEW p \in Posters, Call(p) \/ RingFull(p) \/ Sleep(p) \/ Late(p) \/ Withdraw(p)
      PROVE OneDrain' /\ (scheduled <=> DrainComing)'
  BY <1>4 DEF Call, RingFull, Sleep, Late, Withdraw
<1>5. ASSUME Take \/ RunCallback \/ Drained  PROVE OneDrain' /\ (scheduled <=> DrainComing)'
  BY <1>5 DEF Take, RunCallback, Drained
<1> QED BY <1>1, <1>2, <1>3, <1>4, <1>5 DEF Next, Main, Poster

\* A callback that waits although its post has returned has a drain to come.
LEMMA WaitingNext ==
  ASSUME PendingInv, Next  PROVE (\A p \in Posters : pc[p] = "returned" /\ Waits(p) => scheduled)'
<1> SUFFICES ASSUME NEW q \in Posters, pc'[q] = "returned", In(queue', q)  PROVE scheduled'
  BY DEF Waits, In
<1> USE DEF PendingInv, TypeOK, NoLostWakeup
<1>0. pc[q] = "returned" /\ In(queue, q) => scheduled
  BY DEF Waits, In
<1>1. ASSUME NEW p \in Posters, Posted(p)  PROVE scheduled'
  BY <1>1 DEF Posted
<1>2. ASSUME NEW p \in Posters, RingFull(p)  PROVE scheduled'
  <2>1. q # p /\ pc[q] = "returned"
    BY <1>2 DEF RingFull
  <2>2. In(queue, q)
    BY <1>2, <2>1, OfferedFacts DEF RingFull
  <2> QED BY <1>0, <1>2, <2>1, <2>2 DEF RingFull
<1>3. ASSUME NEW p \in Posters, Call(p) \/ Sleep(p) \/ Late(p)  PROVE scheduled'
  BY <1>0, <1>3 DEF Call, Sleep, Late
<1>4. ASSUME NEW p \in Posters, Withdraw(p)  PROVE scheduled'
  <2>1. In(queue, q)
    BY <1>4, WithoutFacts DEF Withdraw, Places
  <2> QED BY <1>0, <1>4, <2>1 DEF Withdraw
<1>5. ASSUME OtherCall \/ PendingCall \/ RunCallback  PROVE scheduled'
  BY <1>0, <1>5 DEF OtherCall, PendingCall, RunCallback
<1>6. ASSUME Take  PROVE scheduled'
  BY <1>6 DEF Take, DrainComing
<1>7. ASSUME Drained  PROVE scheduled'
  BY <1>7 DEF Drained, In
<1> QED BY <1>1, <1>2, <1>3, <1>4, <1>5, <1>6, <1>7 DEF Next, Main, Poster

\* What holds in every reachable state.
THEOREM PendingInvariant == Spec => []PendingInv
<1>1. PendingInv /\ [Next]_vars => PendingInv'
  <2>1. CASE Next
    BY <2>1, PlacesNext, TypeNext, DrainNext, WaitingNext DEF PendingInv, NoLostWakeup
  <2>2. CASE UNCHANGED vars
    BY <2>2 DEF vars, PendingInv, TypeOK, Places, OneDrain, NoLostWakeup, DrainComing, Waits, In, Unique
  <2> QED BY <2>1, <2>2
<1> QED BY InitInv, <1>1, PTL DEF Spec

\* No wake-up is lost: an accepted callback never waits without a drain to
\* come, for any number of posters.
THEOREM WakeupsKept == Spec => []NoLostWakeup
BY PendingInvariant, PTL DEF PendingInv

------------------------------------------------------------------------------
(* The bridge implements MainThreadPost.                                     *)

\* A step that changes the answer and the fate of one callback, as far as a
\* state function sees them.
LEMMA PointwiseStep ==
  ASSUME NEW p \in Posters, NEW a, NEW f,
         AnswerOf(p)' = a, FateOf(p)' = f,
         \A q \in Posters \ {p} : AnswerOf(q)' = AnswerOf(q) /\ FateOf(q)' = FateOf(q)
  PROVE  /\ [q \in Posters |-> AnswerOf(q)]' = [[q \in Posters |-> AnswerOf(q)] EXCEPT ![p] = a]
         /\ [q \in Posters |-> FateOf(q)]' = [[q \in Posters |-> FateOf(q)] EXCEPT ![p] = f]
OBVIOUS

\* A step that neither answers nor moves a callback is a stutter.
LEMMA Stutters ==
  ASSUME \A q \in Posters : AnswerOf(q)' = AnswerOf(q) /\ FateOf(q)' = FateOf(q)
  PROVE  UNCHANGED Post!vars
BY DEF Post!vars

LEMMA StepImplements == PendingInv /\ Next => [Post!Next]_(Post!vars)
<1> SUFFICES ASSUME PendingInv, Next  PROVE Post!Next \/ UNCHANGED Post!vars
  OBVIOUS
<1> USE DEF PendingInv
<1>0. /\ pc \in [Posters -> {"idle", "start", "full", "retry", "late", "returned", "raised"}]
      /\ "nobody" \notin Posters
  BY DEF TypeOK
<1>1. ASSUME NEW p \in Posters, Call(p)  PROVE Post!Call(p)
  <2>1. p \notin ran /\ p # current /\ pc[p] = "idle"
    BY <1>1 DEF Call, Places
  <2>2. AnswerOf(p) = "none"
    BY <2>1 DEF AnswerOf
  <2>3. AnswerOf(p)' = "open" /\ FateOf(p)' = "waiting"
    BY <1>0, <1>1, <2>1 DEF Call, AnswerOf, FateOf
  <2>4. \A q \in Posters \ {p} : AnswerOf(q)' = AnswerOf(q) /\ FateOf(q)' = FateOf(q)
    BY <1>0, <1>1 DEF Call, AnswerOf, FateOf
  <2> QED BY <2>2, <2>3, <2>4, PointwiseStep DEF Post!Call
<1>2. ASSUME NEW p \in Posters, Posted(p)  PROVE Post!Accept(p)
  <2>1. /\ pc[p] \in {"start", "retry"} /\ pc' = [pc EXCEPT ![p] = "returned"]
        /\ UNCHANGED <<ran, current>>
    BY <1>2 DEF Posted
  <2>2. AnswerOf(p) = "open" /\ AnswerOf(p)' = "accepted" /\ FateOf(p)' = FateOf(p)
    BY <1>0, <2>1 DEF AnswerOf, FateOf
  <2>3. \A q \in Posters \ {p} : AnswerOf(q)' = AnswerOf(q) /\ FateOf(q)' = FateOf(q)
    BY <1>0, <2>1 DEF AnswerOf, FateOf
  <2>4. /\ [q \in Posters |-> AnswerOf(q)]' = [[q \in Posters |-> AnswerOf(q)] EXCEPT ![p] = "accepted"]
        /\ [q \in Posters |-> FateOf(q)]' = [q \in Posters |-> FateOf(q)]
    BY <2>2, <2>3, PointwiseStep
  <2> QED BY <2>2, <2>4 DEF Post!Accept
<1>3. ASSUME NEW p \in Posters, RingFull(p) \/ Sleep(p) \/ Late(p)  PROVE UNCHANGED Post!vars
  <2>1. /\ pc[p] \in {"start", "retry", "full"}
        /\ \E l \in {"full", "retry", "late"} : pc' = [pc EXCEPT ![p] = l]
        /\ UNCHANGED <<ran, current>>
    BY <1>3 DEF RingFull, Sleep, Late
  <2> QED BY <1>0, <2>1, Stutters DEF AnswerOf, FateOf
<1>4. ASSUME NEW p \in Posters, Withdraw(p)  PROVE Post!Refuse(p)
  <2>1. pc[p] = "late" /\ pc' = [pc EXCEPT ![p] = "raised"] /\ UNCHANGED <<ran, current>>
    BY <1>4 DEF Withdraw
  <2>2. AnswerOf(p) = "open" /\ AnswerOf(p)' = "refused"
    BY <1>0, <2>1 DEF AnswerOf
  <2>3. FateOf(p)' = IF FateOf(p) = "waiting" THEN "withdrawn" ELSE FateOf(p)
    BY <1>0, <2>1 DEF FateOf
  <2>4. \A q \in Posters \ {p} : AnswerOf(q)' = AnswerOf(q) /\ FateOf(q)' = FateOf(q)
    BY <1>0, <2>1 DEF AnswerOf, FateOf
  <2>5. [q \in Posters |-> AnswerOf(q)]' = [[q \in Posters |-> AnswerOf(q)] EXCEPT ![p] = "refused"]
    BY <2>2, <2>4
  <2>6. [q \in Posters |-> FateOf(q)]' =
          [[q \in Posters |-> FateOf(q)] EXCEPT ![p] = IF @ = "waiting" THEN "withdrawn" ELSE @]
    BY <2>3, <2>4
  <2> QED BY <2>2, <2>5, <2>6 DEF Post!Refuse
<1>5. ASSUME OtherCall \/ PendingCall \/ Drained  PROVE UNCHANGED Post!vars
  BY <1>5, Stutters DEF OtherCall, PendingCall, Drained, AnswerOf, FateOf
<1>6. ASSUME Take  PROVE \E p \in Posters : Post!Take(p)
  <2>1. PICK h \in Posters : h = Head(queue)
    BY <1>6, TailFacts DEF Take, TypeOK
  <2>2. /\ pc[h] \in {"full", "retry", "late", "returned"} /\ h \notin ran /\ h # current
        /\ current \notin Posters
    BY <1>6, <2>1, TailFacts DEF Take, Places, TypeOK
  <2>3. current' = h /\ UNCHANGED <<pc, ran>>
    BY <1>6, <2>1 DEF Take
  <2>4. FateOf(h) = "waiting" /\ FateOf(h)' = "taken" /\ AnswerOf(h)' = AnswerOf(h)
    BY <2>1, <2>2, <2>3 DEF FateOf, AnswerOf
  <2>5. \A q \in Posters \ {h} : AnswerOf(q)' = AnswerOf(q) /\ FateOf(q)' = FateOf(q)
    BY <2>1, <2>2, <2>3 DEF FateOf, AnswerOf
  <2>6. \A q \in Posters : FateOf(q) # "taken"
    BY <2>2 DEF FateOf
  <2>7. /\ [q \in Posters |-> AnswerOf(q)]' = [q \in Posters |-> AnswerOf(q)]
        /\ [q \in Posters |-> FateOf(q)]' = [[q \in Posters |-> FateOf(q)] EXCEPT ![h] = "taken"]
    BY <2>1, <2>4, <2>5, PointwiseStep
  <2> QED BY <2>4, <2>6, <2>7 DEF Post!Take
<1>7. ASSUME RunCallback  PROVE \E p \in Posters : Post!Run(p)
  <2>1. /\ current \in Posters /\ current \notin ran /\ current' = "nobody"
        /\ ran' = ran \cup {current} /\ UNCHANGED pc
    BY <1>7 DEF RunCallback, Places
  <2>2. FateOf(current) = "taken"
    BY <2>1 DEF FateOf
  <2>3. PICK p \in Posters : p = current
    BY <2>1
  <2>4. FateOf(p)' = "run" /\ AnswerOf(p)' = AnswerOf(p)
    BY <2>1, <2>3 DEF FateOf, AnswerOf
  <2>5. \A q \in Posters \ {p} : AnswerOf(q)' = AnswerOf(q) /\ FateOf(q)' = FateOf(q)
    BY <1>0, <2>1, <2>3 DEF FateOf, AnswerOf
  <2>6. /\ [q \in Posters |-> AnswerOf(q)]' = [q \in Posters |-> AnswerOf(q)]
        /\ [q \in Posters |-> FateOf(q)]' = [[q \in Posters |-> FateOf(q)] EXCEPT ![p] = "run"]
    BY <2>4, <2>5, PointwiseStep
  <2> QED BY <2>2, <2>3, <2>6 DEF Post!Run
<1> QED
  BY <1>1, <1>2, <1>3, <1>4, <1>5, <1>6, <1>7 DEF Next, Main, Poster, Post!Next

\* The initial states of the bridge are initial states of the promise.
LEMMA InitImplements == Init => Post!Init
<1> SUFFICES ASSUME Init, NEW p \in Posters
             PROVE  AnswerOf(p) = "none" /\ FateOf(p) = "none"
  BY DEF Post!Init
<1>1. pc[p] = "idle" /\ p \notin ran /\ p # current
  BY DEF Init
<1> QED BY <1>1 DEF AnswerOf, FateOf

\* The bridge implements the abstract post: a callback runs at most once, and
\* never after it was withdrawn, for any number of posters and any size of
\* CPython's queue.
THEOREM BridgeImplementsPost == Spec => Refines
<1>1. PendingInv /\ [Next]_vars => [Post!Next]_(Post!vars)
  <2>1. CASE UNCHANGED vars
    BY <2>1, Stutters DEF vars, AnswerOf, FateOf
  <2> QED BY <2>1, StepImplements
<1> QED BY InitImplements, PendingInvariant, <1>1, PTL DEF Spec, Refines, Post!Spec
==============================================================================
