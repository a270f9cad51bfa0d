---------------------------- MODULE RequestsProofs ----------------------------
(***************************************************************************)
(* For any number of threads, sites and statuses: a cancelled process      *)
(* sends at most one more request per call, what a call returns is         *)
(* justified by its attempts, and what the browser obtained for a page is  *)
(* in the shared session from when it is applied.                          *)
(***************************************************************************)
EXTENDS Requests, TLAPS

USE RequestsAssumption

\* A look at the token that found it not cancelled is good for one request.
LookOf(t) == late[t] <= 1 /\ (~cancelled \/ pc[t] = "send" => late[t] = 0)
LookInv == \A t \in Threads : LookOf(t)

\* How far a call has come, by its stage.
Progress(t) ==
  \/ /\ stage[t] = "direct" /\ sent[t]["browser"] = 0 /\ sent[t]["final"] = 0
     /\ pc[t] \in {"idle", "look", "send", "wait"} => sent[t]["direct"] < RequestAttempts
     /\ pc[t] \notin {"apply", "unreachable"}
     /\ pc[t] = "returned" => Terminal(answer[t])
  \/ /\ stage[t] = "browser" /\ sent[t]["final"] = 0
     /\ pc[t] \in {"look", "send", "wait"} => sent[t]["browser"] < BrowserAttempts
     /\ pc[t] \notin {"idle", "unreachable"}
     /\ pc[t] = "returned" => Terminal(answer[t])
  \/ /\ stage[t] = "final" /\ sent[t]["browser"] = BrowserAttempts
     /\ pc[t] \in {"look", "send", "wait"} => sent[t]["final"] = 0
     /\ pc[t] \notin {"idle", "apply"}
     /\ pc[t] \in {"returned", "unreachable"} =>
          sent[t]["final"] = 1 /\ ((pc[t] = "unreachable") <=> (answer[t] = NoAnswer))

Bounds(t) ==
  /\ sent[t]["direct"] <= RequestAttempts
  /\ sent[t]["browser"] <= BrowserAttempts /\ sent[t]["final"] <= 1

ProgressInv == \A t \in Threads : Bounds(t) /\ Progress(t)

\* What the browser has given a call is in the session, or about to be applied.
ClearedOf(t) ==
  \A i \in cleared[t] :
    \/ pc[t] = "apply" /\ i \in solution[t]
    \/ IF i = "cookies" THEN SiteOf[t] \in jar ELSE agent
ClearedInv == \A t \in Threads : ClearedOf(t)

RequestsInv == TypeOK /\ LookInv /\ ProgressInv /\ ClearedInv

------------------------------------------------------------------------------
LEMMA InitInv == Init => RequestsInv
<1> SUFFICES ASSUME Init  PROVE RequestsInv
  OBVIOUS
<1>1. TypeOK
  <2>1. /\ pc \in [Threads -> {"idle", "look", "send", "apply", "wait"} \cup Ended]
        /\ stage \in [Threads -> Stages] /\ answer \in [Threads -> Int]
        /\ late \in [Threads -> Nat] /\ jar \subseteq Sites
    BY DEF Init, Stages, NoAnswer
  <2>2. sent \in [Threads -> [Stages -> Nat]]
    BY DEF Init
  <2>3. /\ cancelled \in BOOLEAN /\ agent \in BOOLEAN
        /\ solution \in [Threads -> SUBSET Identities] /\ cleared \in [Threads -> SUBSET Identities]
    BY DEF Init
  <2> QED BY <2>1, <2>2, <2>3 DEF TypeOK
<1>2. LookInv
  <2> SUFFICES ASSUME NEW t \in Threads  PROVE LookOf(t)
    BY DEF LookInv
  <2>1. late[t] = 0
    BY DEF Init
  <2> QED BY <2>1 DEF LookOf
<1>3. ProgressInv
  <2> SUFFICES ASSUME NEW t \in Threads  PROVE Bounds(t) /\ Progress(t)
    BY DEF ProgressInv
  <2>1. (\A s \in Stages : sent[t][s] = 0) /\ pc[t] = "idle" /\ stage[t] = "direct"
    BY DEF Init
  <2> QED BY <2>1 DEF Bounds, Progress, Stages, RequestAttempts, BrowserAttempts
<1>4. ClearedInv
  BY DEF Init, ClearedInv, ClearedOf
<1> QED BY <1>1, <1>2, <1>3, <1>4 DEF RequestsInv

\* A status is a number.
LEMMA StatusType ==
  ASSUME NEW t \in Threads, TypeOK, Ask(t) \/ AskBrowser(t)
  PROVE  /\ answer' \in [Threads -> Int]
         /\ sent' \in [Threads -> [Stages -> Nat]]
         /\ late' \in [Threads -> Nat]
<1>1. PICK s \in Int : answer' = [answer EXCEPT ![t] = s]
  BY DEF Ask, AskBrowser, Usable, NoAnswer
<1>2. Send(t)
  BY DEF Ask, AskBrowser
<1> QED BY <1>1, <1>2 DEF Send, TypeOK

\* The token stays cancelled, and only a look at it before that lets a request go.
LEMMA LookNext == TypeOK /\ LookInv /\ [Next]_vars => LookInv'
<1> SUFFICES ASSUME TypeOK, LookInv, [Next]_vars, NEW r \in Threads  PROVE LookOf(r)'
  BY DEF LookInv
<1>0. LookOf(r) /\ late[r] \in Nat
  BY DEF LookInv, TypeOK
<1>1. ASSUME NEW t \in Threads, Begin(t) \/ Look(t)  PROVE LookOf(r)'
  BY <1>0, <1>1 DEF Begin, Look, Goto, TypeOK, LookOf
<1>2. ASSUME NEW t \in Threads, Ask(t) \/ AskBrowser(t)  PROVE LookOf(r)'
  <2>1. /\ pc[t] = "send" /\ UNCHANGED cancelled
        /\ late' = [late EXCEPT ![t] = IF cancelled THEN @ + 1 ELSE @]
    BY <1>2 DEF Ask, AskBrowser, Send
  <2>2. \E l \in {"returned", "wait", "unreachable", "look", "apply"} :
          pc' = [pc EXCEPT ![t] = l]
    BY <1>2 DEF Ask, AskBrowser, Conclude, Goto
  <2> QED BY <1>0, <2>1, <2>2 DEF LookOf, TypeOK
<1>3. ASSUME NEW t \in Threads, Apply(t)  PROVE LookOf(r)'
  <2>1. \E l \in {"returned", "wait", "unreachable", "look"} : pc' = [pc EXCEPT ![t] = l]
    BY <1>3 DEF Apply, Conclude, Goto
  <2> QED BY <1>0, <1>3, <2>1 DEF Apply, LookOf, TypeOK
<1>4. CASE Cancel
  BY <1>0, <1>4 DEF Cancel, LookOf
<1>5. CASE UNCHANGED vars
  BY <1>0, <1>5 DEF vars, LookOf
<1> QED BY <1>1, <1>2, <1>3, <1>4, <1>5 DEF Next, Call

LEMMA TypeNext == TypeOK /\ [Next]_vars => TypeOK'
<1> SUFFICES ASSUME TypeOK, [Next]_vars  PROVE TypeOK'
  OBVIOUS
<1>1. ASSUME NEW t \in Threads, Begin(t) \/ Look(t)  PROVE TypeOK'
  BY <1>1 DEF Begin, Look, Goto, TypeOK, Ended
<1>2. ASSUME NEW t \in Threads, NEW s, Conclude(t, s)
      PROVE  /\ pc' \in [Threads -> {"idle", "look", "send", "apply", "wait"} \cup Ended]
             /\ stage' \in [Threads -> Stages]
  BY <1>2 DEF Conclude, Goto, TypeOK, Ended, Stages
<1>3. ASSUME NEW t \in Threads, Ask(t)  PROVE TypeOK'
  <2>1. PICK s : Conclude(t, s)
    BY <1>3 DEF Ask
  <2>2. UNCHANGED <<cancelled, jar, agent, solution, cleared>>
    BY <1>3 DEF Ask, Send
  <2> QED BY <1>2, <1>3, <2>1, <2>2, StatusType DEF TypeOK
<1>4. ASSUME NEW t \in Threads, AskBrowser(t)  PROVE TypeOK'
  <2>1. /\ pc' \in [Threads -> {"idle", "look", "send", "apply", "wait"} \cup Ended]
        /\ stage' \in [Threads -> Stages]
    <3>1. CASE \E s : Conclude(t, s)
      BY <1>2, <3>1
    <3>2. CASE UNCHANGED stage /\ Goto(t, "apply")
      BY <3>2 DEF Goto, TypeOK
    <3> QED BY <1>4, <3>1, <3>2 DEF AskBrowser
  <2>2. /\ solution' \in [Threads -> SUBSET Identities]
        /\ cleared' \in [Threads -> SUBSET Identities]
    <3>1. UNCHANGED <<solution, cleared>>
            \/ \E g \in SUBSET Identities : /\ solution' = [solution EXCEPT ![t] = g]
                                           /\ cleared' = [cleared EXCEPT ![t] = @ \cup g]
      BY <1>4 DEF AskBrowser, Envelopes
    <3> QED BY <3>1 DEF TypeOK
  <2>3. UNCHANGED <<cancelled, jar, agent>>
    BY <1>4 DEF AskBrowser, Send
  <2> QED BY <1>4, <2>1, <2>2, <2>3, StatusType DEF TypeOK
<1>5. ASSUME NEW t \in Threads, Apply(t)  PROVE TypeOK'
  <2>1. /\ Conclude(t, answer[t]) /\ jar' \subseteq Sites /\ agent' \in BOOLEAN
      /\ UNCHANGED <<cancelled, sent, answer, solution, cleared, late>>
    BY <1>5 DEF Apply, TypeOK
  <2> QED BY <1>2, <2>1 DEF TypeOK
<1>6. CASE Cancel
  BY <1>6 DEF Cancel, TypeOK
<1>7. CASE UNCHANGED vars
  BY <1>7 DEF vars, TypeOK
<1> QED BY <1>1, <1>3, <1>4, <1>5, <1>6, <1>7 DEF Next, Call

\* What a conclusion leaves behind, s being the status of the last request.
LEMMA ConcludeProgress ==
  ASSUME TypeOK, TypeOK', NEW t \in Threads, Conclude(t, answer'[t]), Bounds(t)',
         \/ stage[t] = "direct" /\ sent'[t]["browser"] = 0 /\ sent'[t]["final"] = 0
         \/ stage[t] = "browser" /\ sent'[t]["final"] = 0
         \/ stage[t] = "final" /\ sent'[t]["final"] = 1 /\ sent'[t]["browser"] = BrowserAttempts,
         stage[t] = "browser" \/ sent'[t]["final"] = 1 \/ sent'[t]["browser"] = 0
  PROVE  Progress(t)'
<1> DEFINE s == answer'[t]
<1>0. /\ sent'[t]["browser"] \in Nat /\ sent'[t]["direct"] \in Nat /\ sent'[t]["final"] \in Nat
      /\ stage[t] \in Stages
  BY DEF TypeOK, Stages
<1>1. CASE Terminal(s)
  <2>1. pc'[t] = "returned" /\ stage'[t] = stage[t] /\ s # NoAnswer
    BY <1>1 DEF Conclude, Goto, Terminal, TypeOK
  <2> QED BY <1>0, <1>1, <2>1 DEF Progress
<1>2. CASE ~Terminal(s) /\ Again(t, s)
  <2>1. pc'[t] = "wait" /\ stage'[t] = stage[t]
    BY <1>2 DEF Conclude, Goto, TypeOK
  <2> QED BY <1>0, <1>2, <2>1 DEF Progress, Again
<1>3. CASE ~Terminal(s) /\ ~Again(t, s) /\ stage[t] = "final"
  <2>1. pc'[t] = IF s = NoAnswer THEN "unreachable" ELSE "returned"
    BY <1>3 DEF Conclude, Goto, TypeOK
  <2>2. stage'[t] = "final"
    BY <1>3 DEF Conclude
  <2> QED BY <1>0, <1>3, <2>1, <2>2 DEF Progress
<1>4. CASE ~Terminal(s) /\ ~Again(t, s) /\ stage[t] # "final"
  <2>1. pc'[t] = "look" /\ stage'[t] = IF stage[t] = "direct" THEN "browser" ELSE "final"
    BY <1>4 DEF Conclude, Goto, TypeOK
  <2>2. stage[t] = "browser" => sent'[t]["browser"] = BrowserAttempts
    BY <1>0, <1>4 DEF Again, Bounds, BrowserAttempts
  <2> QED BY <1>0, <1>4, <2>1, <2>2 DEF Progress, Stages, BrowserAttempts
<1> QED BY <1>1, <1>2, <1>3, <1>4

LEMMA ProgressNext == TypeOK /\ ProgressInv /\ [Next]_vars => ProgressInv'
<1> SUFFICES ASSUME TypeOK, ProgressInv, [Next]_vars, NEW r \in Threads
             PROVE  (Bounds(r) /\ Progress(r))'
  BY DEF ProgressInv
<1>0. Bounds(r) /\ Progress(r) /\ TypeOK'
  BY TypeNext DEF ProgressInv
<1>1. ASSUME UNCHANGED <<pc[r], stage[r], sent[r], answer[r]>>  PROVE (Bounds(r) /\ Progress(r))'
  BY <1>0, <1>1 DEF Bounds, Progress
<1>2. ASSUME NEW t \in Threads, Begin(t) \/ Call(t), t # r  PROVE UNCHANGED <<pc[r], stage[r], sent[r], answer[r]>>
  <2>1. UNCHANGED <<pc[r], stage[r]>>
    BY <1>2 DEF Begin, Call, Look, Ask, AskBrowser, Apply, Conclude, Goto, TypeOK
  <2>2. UNCHANGED <<sent[r], answer[r]>>
    BY <1>2 DEF Begin, Call, Look, Ask, AskBrowser, Apply, Send, TypeOK
  <2> QED BY <2>1, <2>2
<1>3. CASE Begin(r)
  BY <1>0, <1>3 DEF Begin, Goto, Bounds, Progress, TypeOK
<1>4. CASE Look(r)
  BY <1>0, <1>4 DEF Look, Goto, Bounds, Progress, TypeOK
<1>5. ASSUME Send(r)
      PROVE  /\ sent'[r][stage[r]] = sent[r][stage[r]] + 1
             /\ \A s \in Stages \ {stage[r]} : sent'[r][s] = sent[r][s]
             /\ Bounds(r)'
  <2>1. /\ sent'[r][stage[r]] = sent[r][stage[r]] + 1
        /\ \A s \in Stages \ {stage[r]} : sent'[r][s] = sent[r][s]
    BY <1>5 DEF Send, TypeOK
  <2>2. Bounds(r)'
    <3>1. pc[r] = "send" /\ sent[r] \in [Stages -> Nat] /\ stage[r] \in Stages
      BY <1>5 DEF Send, TypeOK
    <3> QED BY <1>0, <2>1, <3>1 DEF Bounds, Progress, Stages, RequestAttempts, BrowserAttempts
  <2> QED BY <2>1, <2>2
<1>6. CASE Ask(r)
  <2>1. Send(r) /\ stage[r] \in {"direct", "final"} /\ Conclude(r, answer'[r])
    BY <1>6 DEF Ask, TypeOK, Stages
  <2>2. /\ stage[r] = "direct" => sent'[r]["browser"] = 0 /\ sent'[r]["final"] = 0
        /\ stage[r] = "final" => sent'[r]["final"] = 1 /\ sent'[r]["browser"] = BrowserAttempts
    BY <1>0, <1>5, <2>1 DEF Progress, Stages, Send
  <2> QED BY <1>0, <1>5, <2>1, <2>2, ConcludeProgress
<1>7. CASE AskBrowser(r)
  <2>1. Send(r) /\ stage[r] = "browser"
    BY <1>7 DEF AskBrowser
  <2>2. sent'[r]["final"] = 0
    BY <1>0, <1>5, <2>1 DEF Progress, Stages, Send
  <2>3. CASE Conclude(r, NoAnswer) /\ answer' = [answer EXCEPT ![r] = NoAnswer]
    <3>1. Conclude(r, answer'[r])
      BY <2>3 DEF TypeOK
    <3> QED BY <1>0, <1>5, <2>1, <2>2, <3>1, ConcludeProgress
  <2>4. CASE UNCHANGED stage /\ Goto(r, "apply")
    <3>1. stage'[r] = "browser" /\ pc'[r] = "apply"
      BY <2>1, <2>4 DEF Goto, TypeOK
    <3> QED BY <1>5, <2>1, <2>2, <3>1 DEF Progress
  <2> QED BY <1>7, <2>3, <2>4 DEF AskBrowser
<1>8. CASE Apply(r)
  <2>1. /\ Conclude(r, answer'[r]) /\ UNCHANGED <<sent, answer>> /\ pc[r] = "apply"
    BY <1>8 DEF Apply
  <2>2. stage[r] = "browser" /\ sent'[r]["final"] = 0
    BY <1>0, <2>1 DEF Progress
  <2>3. Bounds(r)'
    BY <1>0, <2>1 DEF Bounds
  <2> QED BY <1>0, <2>1, <2>2, <2>3, ConcludeProgress
<1>9. CASE Cancel \/ UNCHANGED vars
  BY <1>1, <1>9 DEF Cancel, vars
<1> QED BY <1>1, <1>2, <1>3, <1>4, <1>6, <1>7, <1>8, <1>9 DEF Next, Call

\* The session loses nothing, and only the call that obtained something applies it.
LEMMA ClearedNext == TypeOK /\ ClearedInv /\ [Next]_vars => ClearedInv'
<1> SUFFICES ASSUME TypeOK, ClearedInv, [Next]_vars, NEW r \in Threads  PROVE ClearedOf(r)'
  BY DEF ClearedInv
<1>0. ClearedOf(r)
  BY DEF ClearedInv
<1>1. ASSUME NEW t \in Threads, Begin(t) \/ Look(t) \/ Ask(t)  PROVE ClearedOf(r)'
  <2>1. UNCHANGED <<jar, agent, solution, cleared>>
    BY <1>1 DEF Begin, Look, Ask, Send
  <2>2. pc'[r] = pc[r] \/ pc[r] # "apply"
    BY <1>1 DEF Begin, Look, Ask, Send, Conclude, Goto, TypeOK
  <2> QED BY <1>0, <2>1, <2>2 DEF ClearedOf
<1>2. ASSUME NEW t \in Threads, AskBrowser(t)  PROVE ClearedOf(r)'
  <2>1. UNCHANGED <<jar, agent>> /\ pc[t] = "send"
    BY <1>2 DEF AskBrowser, Send
  <2>2. CASE UNCHANGED <<solution, cleared>>
    <3>1. pc'[r] = pc[r] \/ pc[r] # "apply"
      BY <1>2, <2>1 DEF AskBrowser, Conclude, Goto, TypeOK
    <3> QED BY <1>0, <2>1, <2>2, <3>1 DEF ClearedOf
  <2>3. CASE \E e \in Envelopes : /\ solution' = [solution EXCEPT ![t] = e.gives]
                                  /\ cleared' = [cleared EXCEPT ![t] = @ \cup e.gives]
                                  /\ Goto(t, "apply")
    <3>1. PICK g : /\ solution' = [solution EXCEPT ![t] = g]
                   /\ cleared' = [cleared EXCEPT ![t] = @ \cup g]
                   /\ Goto(t, "apply")
      BY <2>3
    <3>2. CASE r = t
      <4>1. solution'[r] = g /\ cleared'[r] = cleared[r] \cup g /\ pc'[r] = "apply"
        BY <3>1, <3>2 DEF Goto, TypeOK
      <4> QED BY <1>0, <2>1, <3>2, <4>1 DEF ClearedOf
    <3>3. CASE r # t
      <4>1. solution'[r] = solution[r] /\ cleared'[r] = cleared[r] /\ pc'[r] = pc[r]
        BY <3>1, <3>3 DEF Goto, TypeOK
      <4> QED BY <1>0, <2>1, <4>1 DEF ClearedOf
    <3> QED BY <3>2, <3>3
  <2> QED BY <1>2, <2>2, <2>3 DEF AskBrowser
<1>3. ASSUME NEW t \in Threads, Apply(t)  PROVE ClearedOf(r)'
  <2>1. /\ UNCHANGED <<solution, cleared>> /\ jar \subseteq jar' /\ (agent => agent')
        /\ \A i \in solution[t] : IF i = "cookies" THEN SiteOf[t] \in jar' ELSE agent'
    BY <1>3 DEF Apply, TypeOK, Identities
  <2>2. r # t => pc'[r] = pc[r]
    BY <1>3 DEF Apply, Conclude, Goto, TypeOK
  <2> QED BY <1>0, <2>1, <2>2 DEF ClearedOf
<1>4. CASE Cancel \/ UNCHANGED vars
  BY <1>0, <1>4 DEF Cancel, vars, ClearedOf
<1> QED BY <1>1, <1>2, <1>3, <1>4 DEF Next, Call

THEOREM RequestsInvariant == Spec => []RequestsInv
<1>1. RequestsInv /\ [Next]_vars => RequestsInv'
  BY TypeNext, LookNext, ProgressNext, ClearedNext DEF RequestsInv
<1> QED BY InitInv, <1>1, PTL DEF Spec

\* After a cancellation a call sends at most one request, however many threads
\* are at work.
THEOREM AtMostOneLateRequest == Spec => []OneLateRequest
<1>1. RequestsInv => OneLateRequest
  BY DEF RequestsInv, LookInv, LookOf, OneLateRequest
<1> QED BY <1>1, RequestsInvariant, PTL

\* What a call returns is justified by its attempts.
THEOREM AnswersAreJustified == Spec => []AnswerIsJustified
<1>1. ASSUME RequestsInv, NEW t \in Threads
      PROVE  /\ sent[t]["direct"] <= RequestAttempts
             /\ sent[t]["browser"] <= BrowserAttempts /\ sent[t]["final"] <= 1
             /\ pc[t] \in {"returned", "unreachable"} =>
                  \/ pc[t] = "returned" /\ Terminal(answer[t])
                  \/ /\ sent[t]["browser"] = BrowserAttempts /\ sent[t]["final"] = 1
                     /\ (pc[t] = "unreachable") <=> (answer[t] = NoAnswer)
  BY <1>1 DEF RequestsInv, ProgressInv, Bounds, Progress
<1>2. RequestsInv => AnswerIsJustified
  BY <1>1 DEF AnswerIsJustified
<1> QED BY <1>2, RequestsInvariant, PTL

\* The last direct request carries the clearance the browser obtained for its
\* page, whatever the other threads do to the session meanwhile.
THEOREM ClearanceIsCarried == Spec => []ClearanceCarried
<1>1. RequestsInv => ClearanceCarried
  BY DEF RequestsInv, ClearedInv, ClearedOf, ClearanceCarried
<1> QED BY <1>1, RequestsInvariant, PTL
==============================================================================
