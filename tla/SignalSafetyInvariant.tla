------------------------ MODULE SignalSafetyInvariant ------------------------
(***************************************************************************)
(* The inductive strengthenings behind the other safety properties of the  *)
(* coordinator, layered on DrainInv: each part is preserved by every step  *)
(* given the parts before it, for a handler whose first statements are not *)
(* hit by another signal (~Reentrant).                                     *)
(***************************************************************************)
EXTENDS SignalDrainInvariant

Idle == {"none", "done"}                              \* an activation that is not running
ClearingPcs  == {"uRegs", "uSnap", "uFrozen", "uDone"}
UninstallPcs == RestorePcs \cup ClearingPcs
AllPrior     == \A s \in Sigs : handler[s] = "prior"
SomePrior    == \E s \in Sigs : handler[s] = "prior"

\* The stack holds the running activations, each once, above the main program's.
Nested ==
  /\ \A i \in 1 .. Len(stack) : stack[i] = Main <=> i = Len(stack)
  /\ \A f \in Frames \ {Main} : pc[f] \notin Idle => \E i \in 1 .. Len(stack) : stack[i] = f
  /\ \A i \in 1 .. Len(stack) : stack[i] # Main => pc[stack[i]] \notin Idle
  /\ \A i, j \in 1 .. Len(stack) : stack[i] = stack[j] => i = j

\* A finalizer exists only after the worker has gone.
Posted == pending > 0 \/ pc[Fin] \notin Idle \/ \E k \in Occ : helpers[k] > 0
GoneBeforePosted == Posted => \E k \in Occ : wpc[k] = "gone"

------------------------------------------------------------------------------
(* Behind RaisesToPriorHandler: what has been put back stays put back.       *)

Established == phase # "NEW" \/ pc[Main] = "mActive"   \* install() has saved the prior handlers

PutBack ==
  /\ Established =>
       /\ prior_handlers \in {{}, Sigs} /\ (prior_handlers = {} => AllPrior)
       /\ \A f \in Frames :
            /\ pc[f] = "restore" => \A s \in Sigs \ todo[f] : handler[s] = "prior"
            /\ pc[f] \in {"clear", "dDone", "fHelper", "raise"} \cup ClearingPcs => AllPrior
  /\ (\E k \in Occ : helpers[k] > 0) => AllPrior
  /\ pc[Main] \in {"mRun", "finally", "uLock"} \cup UninstallPcs => phase # "NEW"

------------------------------------------------------------------------------
(* Behind DeliveredOnce: a posted finalizer, a running one, a redelivery     *)
(* thread and a delivery are one and the same delivery of the drained signal. *)

FinRuns == IF pc[Fin] \in Idle THEN 0 ELSE 1

DeliveryOf(k) ==
  /\ pc[k] # "done" => delivered[k] = 0
  /\ wpc[k] # "none" => pc[k] = "done"
  /\ wpc[k] # "none" \/ pc[k] \in Freezing \ {"trigger"} => triggering_signal = k
  /\ wpc[k] = "none" => helpers[k] = 0 /\ delivered[k] <= 1
  /\ wpc[k] \notin {"none", "gone"} => delivered[k] = 0
  /\ wpc[k] = "gone" => delivered[k] + helpers[k] + pending + FinRuns <= 1

OneDelivery == \A k \in Occ : DeliveryOf(k)

------------------------------------------------------------------------------
(* Behind EscalationReachesCoroutine.                                        *)

\* Where the main program is inside a with-block of install() or uninstall().
HoldingPcs == (InstallPcs \ {"mStart"}) \cup UninstallPcs

LockHeld ==
  /\ \A c \in Clients : cpc[c] # "idle" => lock = c
  /\ \A k \in Occ : wpc[k] = "final" => lock = "worker"
  /\ pc[Main] \in HoldingPcs => lock = "main"

Published ==
  \A k \in Occ : /\ wpc[k] \in Cleaning => wid[k] \in Ids
                 /\ wpc[k] \in {"recheck", "wait", "unpublish"} => active_async_future = wid[k]

\* A signal taken while the coordinator is ACTIVE is one that it still owns.
OwnedWhenTaken ==
  phase = "ACTIVE" => \A k \in Occ : pc[k] \notin Idle =>
                        pc[k] \in {"entry"} \cup Deciding /\ handler[sig[k]] = "ours"

\* Only an activation that has set the latch detaches.
AbortedToDetach ==
  \A k \in Occ : \/ pc[k] \in {"aborting", "cancelFuture"} \cup DetachPcs
                 \/ pc[k] \in RestorePcs /\ ret[k] = "dDone"
                 => abort

Draining(k) == pc[k] \in Freezing \/ wpc[k] \in Cleaning \cup {"check", "finish", "final"}

\* Until somebody escalates, nothing but uninstall() ends a running drain.
UndisturbedDrain ==
  \A k \in Occ : Draining(k) /\ ~abort =>
    \/ phase = "DRAINING" /\ \A j \in Occ \ {k} : pc[j] \in {"none", "done", "entry", "abort"}
    \/ phase = "UNINSTALLED" /\ AllPrior /\ \A j \in Occ : pc[j] \in Idle

\* A worker that waits on a running coroutine after the latch is set is about to
\* be released by an activation on its way to the future, or that activation was
\* cut by an exception from a signal that uninstall() had already given back.
WaitIsCut ==
  \A k \in Occ : wpc[k] = "wait" /\ future[wid[k]] = "running" /\ abort =>
    /\ phase = "DRAINING" /\ (raising => SomePrior)
    /\ \A j \in Occ : pc[j] \in {"none", "done", "entry", "abort", "aborting", "cancelFuture"}
    /\ \/ \E j \in Occ : pc[j] \in {"aborting", "cancelFuture"}
       \/ SomePrior /\ (raising \/ pc[Main] \notin UninstallPcs)

------------------------------------------------------------------------------
(* Behind AcceptedCleanupsDrained: where an accepted cleanup is.             *)

Owed == {i \in Ids \ asked : verdict[i] = "accepted"}

\* A drain may still begin, or has begun and not read the registry.
Open == ~abort /\ \/ phase = "ACTIVE" /\ ~AllPrior
                  \/ \E k \in Occ : pc[k] \in {"trigger", "snap"}

TokensIssued ==
  /\ \A i \in Ids : i >= next_id => verdict[i] = "none"
  /\ \A c \in Clients : cpc[c] # "idle" =>
       IF cop[c] = "unregister" THEN cid[c] \in asked
       ELSE cid[c] < next_id /\ verdict[cid[c]] = "none"
  /\ phase = "NEW" => /\ \A c \in Clients : cpc[c] = "idle"
                      /\ \A i \in Ids : verdict[i] = "none"

InRegistry ==
  /\ Open =>
       /\ Owed \subseteq registrations \cap registration_snapshot
       /\ \A c \in Clients :
            /\ cpc[c] \in {"publish", "snapshot"} => Owed \subseteq copy[c]
            /\ cop[c] = "register" /\ cpc[c] \in {"snapshot", "verdict"} => cid[c] \in registrations
            /\ cop[c] = "register" /\ cpc[c] = "verdict" => cid[c] \in registration_snapshot
  /\ \A c \in Clients :
       cop[c] = "register" /\ cpc[c] \in {"publish", "snapshot"} => cid[c] \in copy[c]

Covered(k) == wtodo[k] \cup {i \in Ids : runs[i] > 0 \/ (wpc[k] = "run" /\ wid[k] = i)}

NothingFrozen ==
  phase \in {"NEW", "ACTIVE"} \/ (\E k \in Occ : pc[k] \in {"trigger", "snap", "freeze"}) =>
    frozen_identifiers = {}

InDrain ==
  \A k \in Occ :
    /\ pc[k] \in Freezing \ {"trigger", "snap"} /\ ~abort =>
         Owed \cup frozen_identifiers \subseteq snapshot[k]
    /\ \/ wpc[k] \in Cleaning \cup {"check", "finish"} /\ ~abort
       \/ wpc[k] \in {"final", "post"}
       => Owed \cup frozen_identifiers \subseteq Covered(k)

SafetyInv ==
  /\ Nested /\ GoneBeforePosted /\ PutBack /\ OneDelivery
  /\ LockHeld /\ Published /\ OwnedWhenTaken /\ AbortedToDetach /\ UndisturbedDrain /\ WaitIsCut
  /\ TokensIssued /\ InRegistry /\ NothingFrozen /\ InDrain

------------------------------------------------------------------------------
(* Behind KeepsPromise: what the steps of `Shutdown' ask for besides.        *)

AllOurs == \A s \in Sigs : handler[s] = "ours"

\* Of a shutdown there is nothing before the token is cancelled.
CancelledFirst ==
  ~cancelled =>
    /\ phase \notin {"DRAINING", "FINALIZING"} /\ triggering_signal = 0 /\ ~abort
    /\ \A k \in Occ : wpc[k] = "none"
    /\ \A f \in Frames : pc[f] \notin Freezing \cup EscalatePcs \cup {"cancelling", "drain", "detach"}

\* A worker at the end of its list has walked it, or its time is up.
ListWalked == \A k \in Occ : wpc[k] \in {"finish", "final"} => wtodo[k] = {} \/ expired

\* No register() is under way when a drain that nobody gave up is over.
RegisteredInTime ==
  (\E k \in Occ : wpc[k] \in {"final", "post", "gone"}) /\ ~abort =>
    \A c \in Clients : cpc[c] # "idle" => cop[c] # "register"

\* What install() has taken it still holds, until it has saved what was there
\* before: only from then on can the handler's fallback put anything back.
Installing ==
  /\ pc[Main] \in {"mStart", "mInstall", "mAppend", "mPrior"} => prior_handlers = {}
  /\ pc[Main] \in {"mInstall", "mAppend", "mPrior"} =>
       /\ \A k \in Occ : pc[k] \in {"restore", "clear"} => todo[k] = {}
       /\ \A s \in Sigs \ todo[Main] : handler[s] = "ours"
  /\ pc[Main] = "mPrior" => todo[Main] = {}
  /\ pc[Main] = "mActive" => AllOurs \/ AllPrior \/ raising \/ \E k \in Occ : pc[k] = "restore"
  /\ ~EarlySignals /\ pc[Main] \in InstallPcs =>
       /\ \A k \in Occ : pc[k] = "none"
       /\ pc[Main] = "mActive" => AllOurs

\* While main() works the coordinator keeps every signal or none, and every one
\* while a drain that nobody gave up is running.
Held ==
  pc[Main] = "mRun" =>
    /\ phase = "ACTIVE" => AllOurs \/ AllPrior
    /\ (\E k \in Occ : Draining(k)) /\ ~abort => AllOurs
    /\ ~EarlySignals /\ ~cancelled => phase = "ACTIVE" /\ AllOurs

PromiseInv == CancelledFirst /\ ListWalked /\ RegisteredInTime /\ Installing /\ Held
==============================================================================
