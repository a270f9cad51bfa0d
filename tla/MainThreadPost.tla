---------------------------- MODULE MainThreadPost ----------------------------
(***************************************************************************)
(* What the bridge to the main thread (signals.py, _post_to_main_thread    *)
(* and _drain_pending_calls) promises to those who post a callback,        *)
(* without its queue, its flag and CPython's own queue.  A post is         *)
(* answered once, by a return or by an error.  An accepted callback runs,  *)
(* once; a refused one runs only if the main thread had taken it before    *)
(* the answer.                                                             *)
(***************************************************************************)
CONSTANT Posters      \* one callback each

VARIABLES
  answer,             \* per poster: none, open, accepted, refused
  fate                \* per callback: none, waiting, taken, run, withdrawn

vars == <<answer, fate>>

Init ==
  /\ answer = [p \in Posters |-> "none"]
  /\ fate = [p \in Posters |-> "none"]

Call(p) ==
  /\ answer[p] = "none"
  /\ answer' = [answer EXCEPT ![p] = "open"]
  /\ fate' = [fate EXCEPT ![p] = "waiting"]

Accept(p) ==
  /\ answer[p] = "open"
  /\ answer' = [answer EXCEPT ![p] = "accepted"]
  /\ UNCHANGED fate

Refuse(p) ==
  /\ answer[p] = "open"
  /\ answer' = [answer EXCEPT ![p] = "refused"]
  /\ fate' = [fate EXCEPT ![p] = IF @ = "waiting" THEN "withdrawn" ELSE @]

Take(p) ==
  /\ fate[p] = "waiting"
  /\ \A q \in Posters : fate[q] # "taken"      \* the main thread is one
  /\ fate' = [fate EXCEPT ![p] = "taken"]
  /\ UNCHANGED answer

Run(p) ==
  /\ fate[p] = "taken"
  /\ fate' = [fate EXCEPT ![p] = "run"]
  /\ UNCHANGED answer

Next == \E p \in Posters : Call(p) \/ Accept(p) \/ Refuse(p) \/ Take(p) \/ Run(p)

Spec == Init /\ [][Next]_vars

\* Calls are answered and accepted callbacks run.
Promised ==
  \A p \in Posters : /\ answer[p] = "open" ~> answer[p] \in {"accepted", "refused"}
                     /\ answer[p] = "accepted" ~> fate[p] = "run"
==============================================================================
