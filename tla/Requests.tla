------------------------------- MODULE Requests -------------------------------
(***************************************************************************)
(* make_request (src/src/utils.py 175-247) and the browser service behind  *)
(* it (src/src/prowl_client.py): threads that fetch a page while the       *)
(* process may be cancelled.  A call tries directly, then through the      *)
(* browser, then directly once more.  Before every request it looks at the *)
(* cancellation token, and it waits on the token between attempts; looking *)
(* and sending are two steps.  A status is its number, NoAnswer the None   *)
(* of a failed request.                                                    *)
(***************************************************************************)
EXTENDS Integers

CONSTANTS
  Threads,
  Sites,
  SiteOf,             \* whose page a thread asks for
  DirectStatuses,     \* what a site may answer
  ServiceStatuses     \* what the service may report

ASSUME RequestsAssumption ==
  /\ SiteOf \in [Threads -> Sites]
  /\ DirectStatuses \subseteq Nat /\ ServiceStatuses \subseteq Int

Stages          == {"direct", "browser", "final"}
RequestAttempts == 3
BrowserAttempts == 2
NoAnswer        == 0
Ok              == {200, 404}
Retriable       == {403} \cup 500 .. 599

Terminal(s) == s # NoAnswer /\ (s \in Ok \/ s \notin Retriable)

\* What the service can do, the faults in the order they are looked for.
Faults == {"none", "misconfigured", "unreachable", "not_json", "not_object",
           "reported", "no_solution", "wrong_types"}
\* A solution brings cookies, the browser's user agent, both or neither: an
\* empty list or text of them counts as none.
Identities == {"cookies", "agent"}
Envelopes  == [fault : Faults, status : ServiceStatuses, gives : SUBSET Identities]

\* solution_from_envelope: a solution needs an HTTP status.
Usable(e) == e.fault = "none" /\ e.status \in 100 .. 599

VARIABLES
  cancelled,          \* the process's CancellationToken
  jar,                \* sites whose browser cookies the session holds
  agent,              \* the session presents the browser's user agent
  pc,                 \* idle, look, send, apply, wait, returned, unreachable, cancelled
  stage,              \* direct, browser, final
  sent,               \* requests sent per stage
  answer,             \* the last response's status
  solution,           \* what the browser's last usable answer gave
  cleared,            \* history: all the browser has given this call
  late                \* history: requests sent after the cancellation

vars == <<cancelled, jar, agent, pc, stage, sent, answer, solution, cleared, late>>

Init ==
  /\ cancelled = FALSE /\ jar = {} /\ agent = FALSE
  /\ pc = [t \in Threads |-> "idle"]
  /\ stage = [t \in Threads |-> "direct"]
  /\ sent = [t \in Threads |-> [s \in Stages |-> 0]]
  /\ answer = [t \in Threads |-> NoAnswer]
  /\ solution = [t \in Threads |-> {}] /\ cleared = [t \in Threads |-> {}]
  /\ late = [t \in Threads |-> 0]

Goto(t, l) == pc' = [pc EXCEPT ![t] = l]

------------------------------------------------------------------------------
Begin(t) ==
  /\ pc[t] = "idle"
  /\ Goto(t, "look")
  /\ UNCHANGED <<cancelled, jar, agent, stage, sent, answer, solution, cleared, late>>

\* Mutant: an attempt after a wait does not look again.
LookOnce(t) ==
  /\ pc[t] \in {"look", "wait"}
  /\ Goto(t, IF cancelled /\ pc[t] = "look" THEN "cancelled" ELSE "send")
  /\ UNCHANGED <<cancelled, jar, agent, stage, sent, answer, solution, cleared, late>>

\* Mutant: the wait for the next attempt ends only with the cancellation.
LookWithoutDelay(t) ==
  /\ pc[t] = "look" \/ (pc[t] = "wait" /\ cancelled)
  /\ Goto(t, IF cancelled THEN "cancelled" ELSE "send")
  /\ UNCHANGED <<cancelled, jar, agent, stage, sent, answer, solution, cleared, late>>

\* token.raise_if_cancelled, before a request and after a wait.
Look(t) ==
  /\ pc[t] \in {"look", "wait"}
  /\ Goto(t, IF cancelled THEN "cancelled" ELSE IF pc[t] = "wait" THEN "look" ELSE "send")
  /\ UNCHANGED <<cancelled, jar, agent, stage, sent, answer, solution, cleared, late>>

\* The stage's retry tries again after s.
Again(t, s) ==
  /\ ~Terminal(s)
  /\ \/ stage[t] = "direct"  /\ s # 403 /\ sent'[t]["direct"] < RequestAttempts
     \/ stage[t] = "browser" /\ sent'[t]["browser"] < BrowserAttempts

\* Mutant: what the browser could not load is returned as it is.
ConcludeEarly(t, s) ==
  IF Again(t, s) THEN Goto(t, "wait") /\ UNCHANGED stage
  ELSE IF stage[t] = "direct" /\ ~Terminal(s)
       THEN Goto(t, "look") /\ stage' = [stage EXCEPT ![t] = "browser"]
       ELSE Goto(t, "returned") /\ UNCHANGED stage

\* What the call does with the status s of its last request.
Conclude(t, s) ==
  IF Terminal(s) THEN Goto(t, "returned") /\ UNCHANGED stage
  ELSE IF Again(t, s) THEN Goto(t, "wait") /\ UNCHANGED stage
  ELSE IF stage[t] = "final"
       THEN Goto(t, IF s = NoAnswer THEN "unreachable" ELSE "returned") /\ UNCHANGED stage
  ELSE /\ Goto(t, "look")
       /\ stage' = [stage EXCEPT ![t] = IF @ = "direct" THEN "browser" ELSE "final"]

\* A request leaves: one that was looked for before the cancellation may be late.
Send(t) ==
  /\ pc[t] = "send"
  /\ sent' = [sent EXCEPT ![t][stage[t]] = @ + 1]
  /\ late' = [late EXCEPT ![t] = IF cancelled THEN @ + 1 ELSE @]
  /\ UNCHANGED <<cancelled, jar, agent>>

Ask(t) ==
  /\ stage[t] # "browser"
  /\ Send(t)
  /\ \E s \in DirectStatuses :
       answer' = [answer EXCEPT ![t] = s] /\ Conclude(t, s)
  /\ UNCHANGED <<solution, cleared>>

\* fetch_via_prowl: None for every fault of the service.
AskBrowser(t) ==
  /\ stage[t] = "browser"
  /\ Send(t)
  /\ \E e \in Envelopes :
       IF Usable(e)
       THEN /\ answer' = [answer EXCEPT ![t] = e.status]
            /\ solution' = [solution EXCEPT ![t] = e.gives]
            /\ cleared' = [cleared EXCEPT ![t] = @ \cup e.gives]
            /\ Goto(t, "apply") /\ UNCHANGED stage
       ELSE /\ answer' = [answer EXCEPT ![t] = NoAnswer]
            /\ Conclude(t, NoAnswer) /\ UNCHANGED <<solution, cleared>>

\* Mutant: the user agent is taken up only together with cookies.
ApplyWithCookies(t) ==
  /\ pc[t] = "apply"
  /\ jar' = IF "cookies" \in solution[t] THEN jar \cup {SiteOf[t]} ELSE jar
  /\ agent' = (agent \/ solution[t] = Identities)
  /\ UNCHANGED <<cancelled, sent, answer, solution, cleared, late>>
  /\ Conclude(t, answer[t])

\* update_session_data: the session is shared by every thread's requests, and
\* there is one browser, with one user agent.
Apply(t) ==
  /\ pc[t] = "apply"
  /\ jar' = IF "cookies" \in solution[t] THEN jar \cup {SiteOf[t]} ELSE jar
  /\ agent' = (agent \/ "agent" \in solution[t])
  /\ UNCHANGED <<cancelled, sent, answer, solution, cleared, late>>
  /\ Conclude(t, answer[t])

Cancel ==
  /\ ~cancelled /\ cancelled' = TRUE
  /\ UNCHANGED <<jar, agent, pc, stage, sent, answer, solution, cleared, late>>

Call(t) == Look(t) \/ Ask(t) \/ AskBrowser(t) \/ Apply(t)
Next    == Cancel \/ \E t \in Threads : Begin(t) \/ Call(t)

Spec == Init /\ [][Next]_vars

\* A request ends by its time-out, a wait by its delay.
FairSpec == Spec /\ \A t \in Threads : WF_vars(Call(t))

------------------------------------------------------------------------------
Ended == {"returned", "unreachable", "cancelled"}

TypeOK ==
  /\ cancelled \in BOOLEAN /\ jar \subseteq Sites /\ agent \in BOOLEAN
  /\ pc \in [Threads -> {"idle", "look", "send", "apply", "wait"} \cup Ended]
  /\ stage \in [Threads -> Stages]
  /\ sent \in [Threads -> [Stages -> Nat]]
  /\ answer \in [Threads -> Int]
  /\ solution \in [Threads -> SUBSET Identities]
  /\ cleared \in [Threads -> SUBSET Identities] /\ late \in [Threads -> Nat]

\* A cancelled process sends at most one more request per call: the one whose
\* look at the token came before the cancellation (utils.py 197-198, 212, 236).
OneLateRequest == \A t \in Threads : late[t] <= 1

\* A call never sends more than its attempts, and what it returns is either
\* conclusive or the answer to the last direct request, after the browser had
\* its attempts; it reports a page as unreachable only when that last request
\* had no answer (utils.py 238-252).
AnswerIsJustified ==
  \A t \in Threads :
    /\ sent[t]["direct"] <= RequestAttempts
    /\ sent[t]["browser"] <= BrowserAttempts /\ sent[t]["final"] <= 1
    /\ pc[t] \in {"returned", "unreachable"} =>
         \/ pc[t] = "returned" /\ Terminal(answer[t])
         \/ /\ sent[t]["browser"] = BrowserAttempts /\ sent[t]["final"] = 1
            /\ (pc[t] = "unreachable") <=> (answer[t] = NoAnswer)

\* The last direct request carries what the browser obtained for this page,
\* cookies and user agent, whatever the status of the page it loaded and
\* whatever the other threads did to the session meanwhile: a clearance is
\* worth nothing without the identity it was given to (utils.py 90-98).
ClearanceCarried ==
  \A t \in Threads :
    pc[t] = "send" /\ stage[t] = "final" =>
      /\ "cookies" \in cleared[t] => SiteOf[t] \in jar
      /\ "agent" \in cleared[t] => agent

\* Every call ends, whatever the site and the service do.
CallsEnd == \A t \in Threads : pc[t] # "idle" ~> pc[t] \in Ended
==============================================================================
