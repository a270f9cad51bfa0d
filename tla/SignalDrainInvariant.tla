------------------------ MODULE SignalDrainInvariant ------------------------
(***************************************************************************)
(* Why one shutdown starts one drain: the inductive strengthening of       *)
(* CleanupRunsOnce and StrictLifo, for a handler whose first statements    *)
(* are not hit by another signal (~Reentrant).                             *)
(***************************************************************************)
EXTENDS SignalCoordinator

Freezing == {"trigger", "snap", "freeze", "clearRegs", "clearSnap", "spawn"}
Deciding == {"cancel", "cancelling", "drain"}   \* phase read as ACTIVE, not yet written

\* What activation f may be at, and where _restore_handlers returns to in it.
OwnAt(f, l, r) ==
  /\ f = Main => l \in MainPcs \cup RestorePcs /\ (l \in RestorePcs => r = "uRegs")
  /\ f = Fin => /\ l \in {"none", "fCheck", "fHelper", "done"} \cup DetachPcs \cup RestorePcs
                /\ l \in RestorePcs => r = "dDone"
  /\ f \in Occ => /\ l \in {"none", "entry", "raise", "done"}
                             \cup ActivePcs \cup EscalatePcs \cup DetachPcs \cup RestorePcs
                  /\ l \in RestorePcs => r \in {"raise", "dDone"}

OwnCode == \A f \in Frames : OwnAt(f, pc[f], ret[f])

\* What activation f may be at while no signal has been taken.
QuietAt(f, l, r) ==
  /\ f = Fin => l \in {"none", "done"}
  /\ f \in Occ => /\ l \notin Freezing \cup EscalatePcs \cup DetachPcs
                  /\ l \in RestorePcs => r = "raise"

\* Until a signal has been taken, nothing of a shutdown exists.
QuietBeforeShutdown ==
  phase \in {"NEW", "ACTIVE"} =>
    /\ pending = 0 /\ \A k \in Occ : wpc[k] = "none"
    /\ \A f \in Frames : QuietAt(f, pc[f], ret[f])

InstallingIsNew == pc[Main] \in InstallPcs => phase = "NEW"

\* The handler that decided to drain is still running and still right.
DecisionHolds == \A k \in Occ : pc[k] \in Deciding => phase = "ACTIVE" /\ Top = k

Drainer(k) == pc[k] \in Freezing \/ wpc[k] # "none"

OneDrainer ==
  /\ \A j, k \in Occ : Drainer(j) /\ Drainer(k) => j = k
  /\ \A k \in Occ : pc[k] \in Freezing => wpc[k] = "none"

\* What has run was taken from the worker's list before everything left on it.
RunsAbove ==
  /\ (\A k \in Occ : wpc[k] = "none") => \A i \in Ids : runs[i] = 0
  /\ \A k \in Occ : wpc[k] # "none" =>
       /\ \A j \in Ids, i \in wtodo[k] : runs[j] > 0 => j > i
       /\ wpc[k] = "run" =>
            /\ wid[k] \in Ids /\ \A i \in wtodo[k] : wid[k] > i
            /\ \A j \in Ids : runs[j] > 0 => j > wid[k]

DrainInv ==
  /\ OwnCode /\ QuietBeforeShutdown /\ InstallingIsNew /\ DecisionHolds
  /\ OneDrainer /\ RunsAbove /\ CleanupRunsOnce
==============================================================================
