----------------------------- MODULE PendingCalls -----------------------------
(***************************************************************************)
(* The bridge to CPython's main thread (src/src/signals.py 76-145).        *)
(* Threads append a callback to _PENDING_CALLS and, unless a drain is      *)
(* already scheduled, put one into CPython's queue of pending calls, which *)
(* may be full: then they try again until their time is up, and withdraw   *)
(* the callback.  The main thread takes pending calls in order; the drain  *)
(* runs callbacks until none is left and clears the flag.  A with-block    *)
(* under _PENDING_CALLS_LOCK is one step.                                  *)
(*                                                                         *)
(* A callback stands for its poster: a coordinator posts its finalizer at  *)
(* most once, so no two entries of the queue are equal.  An exception of a *)
(* callback is swallowed (93-96) and leaves no trace here.                 *)
(***************************************************************************)
EXTENDS Integers, Sequences

CONSTANTS
  Posters,
  RingSize            \* slots of CPython's queue of pending calls

ASSUME PendingAssumption == RingSize \in Nat \ {0} /\ "nobody" \notin Posters

VARIABLES
  queue,              \* _PENDING_CALLS
  scheduled,          \* _PENDING_CALL_SCHEDULED
  ring,               \* CPython's queue: "drain", and "other" calls of others
  pc,                 \* the poster: idle, start, full, retry, late, returned, raised
  main,               \* the main thread: eval (bytecode), drain, callback
  current,            \* the callback it has taken
  ran                 \* history: callbacks that have run

vars == <<queue, scheduled, ring, pc, main, current, ran>>

Init ==
  /\ queue = <<>> /\ scheduled = FALSE /\ ring = <<>>
  /\ pc = [p \in Posters |-> "idle"]
  /\ main = "eval" /\ current = "nobody" /\ ran = {}

------------------------------------------------------------------------------
(* _post_to_main_thread.                                                     *)

Call(p) ==
  /\ pc[p] = "idle"
  /\ pc' = [pc EXCEPT ![p] = "start"]
  /\ UNCHANGED <<queue, scheduled, ring, main, current, ran>>

\* What the queue is once the poster has made sure its callback is in it.
Offered(p) == IF pc[p] = "start" THEN Append(queue, p) ELSE queue

\* The drain is already scheduled, or this poster schedules it.
Posted(p) ==
  /\ pc[p] \in {"start", "retry"}
  /\ queue' = Offered(p)
  /\ pc' = [pc EXCEPT ![p] = "returned"]
  /\ \/ scheduled /\ UNCHANGED <<scheduled, ring>>
     \/ /\ ~scheduled /\ Len(ring) < RingSize
        /\ scheduled' = TRUE /\ ring' = Append(ring, "drain")
  /\ UNCHANGED <<main, current, ran>>

\* Mutant: the flag stays set when CPython's queue is full.
RingFullFlagged(p) ==
  /\ pc[p] \in {"start", "retry"}
  /\ ~scheduled /\ Len(ring) = RingSize
  /\ queue' = Offered(p)
  /\ scheduled' = TRUE
  /\ pc' = [pc EXCEPT ![p] = "full"]
  /\ UNCHANGED <<ring, main, current, ran>>

\* Py_AddPendingCall fails and the flag is put back.
RingFull(p) ==
  /\ pc[p] \in {"start", "retry"}
  /\ ~scheduled /\ Len(ring) = RingSize
  /\ queue' = Offered(p)
  /\ pc' = [pc EXCEPT ![p] = "full"]
  /\ UNCHANGED <<scheduled, ring, main, current, ran>>

Sleep(p) ==
  /\ pc[p] = "full"
  /\ pc' = [pc EXCEPT ![p] = "retry"]
  /\ UNCHANGED <<queue, scheduled, ring, main, current, ran>>

Late(p) ==
  /\ pc[p] = "full"
  /\ pc' = [pc EXCEPT ![p] = "late"]
  /\ UNCHANGED <<queue, scheduled, ring, main, current, ran>>

\* deque.remove: the entry that holds p, if there is one.
Without(q, p) ==
  IF \E i \in 1 .. Len(q) : q[i] = p
  THEN LET k == CHOOSE i \in 1 .. Len(q) : q[i] = p
       IN  SubSeq(q, 1, k - 1) \o SubSeq(q, k + 1, Len(q))
  ELSE q

\* Mutant: the callback stays in the queue.
WithdrawNothing(p) ==
  /\ pc[p] = "late"
  /\ pc' = [pc EXCEPT ![p] = "raised"]
  /\ UNCHANGED <<queue, scheduled, ring, main, current, ran>>

\* The callback is taken back, unless a drain took it meanwhile, and the
\* poster raises in either case.
Withdraw(p) ==
  /\ pc[p] = "late"
  /\ queue' = Without(queue, p)
  /\ pc' = [pc EXCEPT ![p] = "raised"]
  /\ UNCHANGED <<scheduled, ring, main, current, ran>>

------------------------------------------------------------------------------
(* The main thread, and other users of CPython's queue.                      *)

OtherCall ==
  /\ Len(ring) < RingSize
  /\ ring' = Append(ring, "other")
  /\ UNCHANGED <<queue, scheduled, pc, main, current, ran>>

PendingCall ==
  /\ main = "eval" /\ ring # <<>>
  /\ ring' = Tail(ring)
  /\ main' = IF Head(ring) = "drain" THEN "drain" ELSE "eval"
  /\ UNCHANGED <<queue, scheduled, pc, current, ran>>

\* _drain_pending_calls, one turn of its loop.
Take ==
  /\ main = "drain" /\ queue # <<>>
  /\ current' = Head(queue) /\ queue' = Tail(queue)
  /\ main' = "callback"
  /\ UNCHANGED <<scheduled, ring, pc, ran>>

RunCallback ==
  /\ main = "callback"
  /\ ran' = ran \cup {current} /\ current' = "nobody"
  /\ main' = "drain"
  /\ UNCHANGED <<queue, scheduled, ring, pc>>

\* Mutant: one callback per pending call.
DrainedAfterOne ==
  /\ main = "drain" /\ (queue = <<>> \/ ran # {})
  /\ scheduled' = FALSE /\ main' = "eval"
  /\ UNCHANGED <<queue, ring, pc, current, ran>>

Drained ==
  /\ main = "drain" /\ queue = <<>>
  /\ scheduled' = FALSE /\ main' = "eval"
  /\ UNCHANGED <<queue, ring, pc, current, ran>>

Poster(p) == Call(p) \/ Posted(p) \/ RingFull(p) \/ Sleep(p) \/ Late(p) \/ Withdraw(p)
Main      == PendingCall \/ Take \/ RunCallback \/ Drained
Next      == Main \/ OtherCall \/ \E p \in Posters : Poster(p)

Spec == Init /\ [][Next]_vars

\* The interpreter runs the main thread and the posters that have called; time
\* passes, so a poster that keeps finding the queue full is late in the end.
FairSpec ==
  /\ Spec
  /\ WF_vars(Main)
  /\ \A p \in Posters : /\ WF_vars(Poster(p) /\ ~Call(p))
                        /\ SF_vars(Late(p))

------------------------------------------------------------------------------
Waits(p) == \E i \in 1 .. Len(queue) : queue[i] = p

TypeOK ==
  /\ queue \in Seq(Posters) /\ scheduled \in BOOLEAN
  /\ ring \in Seq({"drain", "other"}) /\ Len(ring) <= RingSize
  /\ pc \in [Posters -> {"idle", "start", "full", "retry", "late", "returned", "raised"}]
  /\ main \in {"eval", "drain", "callback"}
  /\ current \in Posters \cup {"nobody"} /\ ran \subseteq Posters

DrainComing == main # "eval" \/ \E i \in 1 .. Len(ring) : ring[i] = "drain"

\* No wake-up is lost: the flag is set exactly while a drain is under way, and
\* a callback whose post has returned never waits without one, however the
\* posts, the failures of CPython's queue, the withdrawals and the end of a
\* drain are ordered.
NoLostWakeup ==
  /\ scheduled <=> DrainComing
  /\ \A p \in Posters : pc[p] = "returned" /\ Waits(p) => scheduled

------------------------------------------------------------------------------
(* Refinement: the answer and the fate of every post.                        *)

AnswerOf(p) ==
  CASE pc[p] = "idle"     -> "none"
    [] pc[p] = "returned" -> "accepted"
    [] pc[p] = "raised"   -> "refused"
    [] OTHER              -> "open"

FateOf(p) ==
  IF p \in ran THEN "run"
  ELSE IF p = current THEN "taken"
  ELSE CASE pc[p] = "idle"   -> "none"
         [] pc[p] = "raised" -> "withdrawn"
         [] OTHER            -> "waiting"

Post == INSTANCE MainThreadPost WITH
          answer <- [p \in Posters |-> AnswerOf(p)],
          fate   <- [p \in Posters |-> FateOf(p)]

\* The bridge implements the abstract post: each callback runs at most once,
\* one that was withdrawn never runs.
Refines == Post!Spec

\* Every post is answered and every accepted callback runs.
PostPromised == Post!Promised
==============================================================================
