---------------------------- MODULE BuildRunProofs ----------------------------
(***************************************************************************)
(* The safety properties of BuildRun hold for every number of apps, every  *)
(* size of the pool and every number of interrupts.                        *)
(*                                                                         *)
(* RunInv adds to them what links the actors: nothing is terminated before *)
(* the token is set, a worker judges only a patcher that has ended, a      *)
(* result is recorded as it was judged, and a main thread that was never   *)
(* interrupted leaves its loop with every app collected.                   *)
(***************************************************************************)
EXTENDS BuildRun, TLAPS

\* A patcher, its watcher and the worker that waits for it.
PatchInv ==
  \A a \in Apps :
    /\ watcher[a] \in {"armed", "firing"} \/ java[a] = "terminated" => cancelled
    /\ task[a] \in {"queued", "preparing"} => java[a] = "none"
    /\ task[a] = "reaped" => Exited(a)
    /\ java[a] # "none" => output[a] # "stale"
    /\ java[a] = "zero" => output[a] = "complete"
    /\ task[a] = "ok" => java[a] \in {"zero", "nonzero"} /\ output[a] \in {"partial", "complete"}

\* What the main thread knows of the apps it has collected.
CollectInv ==
  /\ \A a \in Apps : updates_info[a] = "new" => task[a] = "ok"
  /\ \A a \in collected : /\ task[a] \in Ended
                          /\ task[a] = "ok" => updates_info[a] = "new"
                          /\ task[a] = "failed" => a \in failed_apps

\* Where the main thread is, and what it has written by then.
MainInv ==
  /\ main = "shutdown" => interrupts > 0
  /\ interrupts = 0 /\ main \in {"finally", "export", "returned", "raised"} => collected = Apps
  /\ main \in {"export", "returned", "raised"} => written = updates_info
  /\ exported # {} => main \in {"returned", "raised", "interrupted"}
  /\ exported # {} /\ interrupts = 0 => collected = Apps
  /\ exported \cap failed_apps = {}

RunInv == TypeOK /\ PatchInv /\ CollectInv /\ MainInv

USE DEF Ended, Over

LEMMA RunInit == Init => RunInv
<1> SUFFICES ASSUME Init PROVE RunInv
  OBVIOUS
<1>1. \A a \in Apps : updates_info[a] \in {"none", "older"} /\ output[a] \in {"none", "stale"}
  BY DEF Init
<1>2. TypeOK
  <2>1. updates_info \in [Apps -> {"none", "older", "new"}]
    BY DEF Init
  <2>2. output \in [Apps -> {"none", "stale", "partial", "complete"}]
    BY DEF Init
  <2>3. 0 \in 0 .. MaxInterrupts
    BY BuildRunAssumption
  <2> QED
    BY <2>1, <2>2, <2>3 DEF Init, TypeOK
<1>3. PatchInv
  BY DEF Init, PatchInv
<1>4. CollectInv /\ MainInv
  BY <1>1 DEF Init, CollectInv, MainInv
<1> QED
  BY <1>2, <1>3, <1>4 DEF RunInv

\* A step of a worker, a patcher or a daemon changes one app and nothing of main().
LEMMA AppKeepsRunInv ==
  ASSUME RunInv, NEW a \in Apps, Worker(a) \/ Patcher(a) \/ Daemon(a) PROVE RunInv'
<1> USE DEF RunInv
<1>1. TypeOK'
  <2>1. CASE Worker(a)
    <3>1. CASE Start(a) \/ PrepareFails(a)
      BY <3>1 DEF Start, PrepareFails, TypeOK, mainVars, patchVars
    <3>2. CASE Launch(a)
      BY <3>2 DEF Launch, TypeOK, mainVars
    <3>3. CASE Reap(a)
      BY <3>3 DEF Reap, TypeOK, mainVars
    <3>4. CASE Judge(a)
      BY <3>4 DEF Judge, Verdicts, TypeOK, mainVars, patchVars
    <3> QED
      BY <2>1, <3>1, <3>2, <3>3, <3>4 DEF Worker
  <2>2. CASE Patcher(a)
    BY <2>2 DEF Patcher, JavaWrites, JavaExits, TypeOK, mainVars
  <2>3. CASE Daemon(a)
    BY <2>3 DEF Daemon, Watch, Arm, Terminate, TypeOK, mainVars, patchVars
  <2> QED
    BY <2>1, <2>2, <2>3
<1>2. PatchInv'
  <2>1. CASE Start(a) \/ PrepareFails(a)
    BY <2>1 DEF Start, MayStart, PrepareFails, TypeOK, PatchInv, Exited, mainVars, patchVars
  <2>2. CASE Launch(a)
    BY <2>2 DEF Launch, TypeOK, PatchInv, Exited, mainVars
  <2>3. CASE Reap(a)
    BY <2>3 DEF Reap, TypeOK, PatchInv, Exited, mainVars
  <2>4. CASE Judge(a)
    <3>1. PICK v \in IF cancelled THEN {"cancelled"} ELSE Verdicts(a) : task' = [task EXCEPT ![a] = v]
      BY <2>4 DEF Judge
    <3>2. v = "ok" => java[a] \in {"zero", "nonzero"} /\ output[a] \in {"partial", "complete"}
      BY <2>4, <3>1 DEF Judge, Verdicts, TypeOK, PatchInv, Exited
    <3>3. v \in {"ok", "failed", "cancelled"}
      BY <3>1 DEF Verdicts
    <3> QED
      BY <2>4, <3>1, <3>2, <3>3 DEF Judge, TypeOK, PatchInv, Exited, mainVars, patchVars
  <2>5. CASE Patcher(a)
    BY <2>5 DEF Patcher, JavaWrites, JavaExits, TypeOK, PatchInv, Exited, mainVars
  <2>6. CASE Daemon(a)
    BY <2>6 DEF Daemon, Watch, Arm, Terminate, TypeOK, PatchInv, Exited, mainVars, patchVars
  <2> QED
    BY <2>1, <2>2, <2>3, <2>4, <2>5, <2>6 DEF Worker
<1>3. UNCHANGED mainVars /\ \A b \in Apps : task[b] \in Ended => task'[b] = task[b]
  BY DEF Worker, Patcher, Daemon, Start, MayStart, PrepareFails, Launch, Reap, Judge, JavaWrites, JavaExits,
         Watch, Arm, Terminate, TypeOK
<1>4. CollectInv' /\ MainInv'
  BY <1>3 DEF CollectInv, MainInv, TypeOK, mainVars
<1> QED
  BY <1>1, <1>2, <1>4

\* A step of main(), or of the shutdown that reaches it.
LEMMA MainKeepsRunInv ==
  ASSUME RunInv, MainThread \/ Cancel \/ Interrupt \/ Kill PROVE RunInv'
<1> USE BuildRunAssumption DEF RunInv
<1>1. ASSUME NEW a \in Apps, Collect(a) PROVE RunInv'
  <2>1. TypeOK' /\ PatchInv'
    BY <1>1 DEF Collect, TypeOK, PatchInv, Exited, patchVars
  <2>2. CollectInv'
    BY <1>1 DEF Collect, TypeOK, CollectInv, patchVars
  <2>3. MainInv'
    BY <1>1 DEF Collect, TypeOK, MainInv, patchVars
  <2> QED
    BY <2>1, <2>2, <2>3
<1>2. CASE Shutdown \/ WriteMetadata
  BY <1>2 DEF Shutdown, WriteMetadata, TypeOK, PatchInv, Exited, CollectInv, MainInv, patchVars
<1>3. CASE Export
  <2>1. TypeOK'
    BY <1>3 DEF Export, Entries, TypeOK, patchVars
  <2>2. PatchInv' /\ CollectInv' /\ MainInv'
    BY <1>3 DEF Export, Entries, TypeOK, PatchInv, Exited, CollectInv, MainInv, patchVars
  <2> QED
    BY <2>1, <2>2
<1>4. CASE Cancel \/ Kill
  <2>1. TypeOK'
    BY <1>4, ZenonT(60) DEF Cancel, Kill, TypeOK, patchVars, mainVars
  <2>2. PatchInv'
    BY <1>4 DEF Cancel, Kill, PatchInv, Exited, patchVars, mainVars
  <2>3. CollectInv' /\ MainInv'
    BY <1>4 DEF Cancel, Kill, CollectInv, MainInv, patchVars, mainVars
  <2> QED
    BY <2>1, <2>2, <2>3
<1>5. CASE Interrupt
  <2>1. \A a \in Apps : /\ task'[a] = task[a] \/ task'[a] = "abandoned"
                        /\ task[a] \in Ended => task'[a] = task[a]
    BY <1>5 DEF Interrupt, Running, TypeOK
  <2>2. TypeOK'
    <3>1. process_done' \in [Apps -> BOOLEAN]
      <4>1. process_done \in [Apps -> BOOLEAN]
        BY DEF TypeOK
      <4>2. CASE process_done' = process_done
        BY <4>1, <4>2
      <4>3. CASE process_done' = [a \in Apps |-> process_done[a] \/ task[a] \in {"patching", "reaped"}]
        BY <4>3, Zenon
      <4> QED
        BY <1>5, <4>2, <4>3 DEF Interrupt
    <3>3. task' \in [Apps -> Ended \cup {"queued", "preparing", "patching", "reaped"}]
      BY <1>5 DEF Interrupt, TypeOK
    <3>2. /\ main' \in Over \cup {"processing", "shutdown", "finally", "export"}
          /\ interrupts' \in 0 .. MaxInterrupts
      BY <1>5 DEF Interrupt, TypeOK
    <3> QED
      BY <1>5, <3>1, <3>2, <3>3 DEF Interrupt, TypeOK
  <2>3. PatchInv'
    BY <1>5, <2>1 DEF Interrupt, PatchInv, Exited, TypeOK
  <2>4. CollectInv' /\ MainInv'
    BY <1>5, <2>1 DEF Interrupt, CollectInv, MainInv, TypeOK
  <2> QED
    BY <2>2, <2>3, <2>4
<1> QED
  BY <1>1, <1>2, <1>3, <1>4, <1>5 DEF MainThread

LEMMA StepKeepsRunInv == RunInv /\ [Next]_vars => RunInv'
<1> SUFFICES ASSUME RunInv, [Next]_vars PROVE RunInv'
  OBVIOUS
<1>1. CASE UNCHANGED vars
  BY <1>1 DEF vars, mainVars, patchVars, RunInv, TypeOK, PatchInv, Exited, CollectInv, MainInv
<1> QED
  BY <1>1, AppKeepsRunInv, MainKeepsRunInv DEF Next, Stopped

\* The inductive invariant holds in every reachable state.
THEOREM RunInvariant == Spec => []RunInv
<1> QED
  BY RunInit, StepKeepsRunInv, PTL DEF Spec

\* What updates.json calls built was written by this run, for every number of apps.
THEOREM BuiltIsOwn == Spec => []BuiltByThisRun
<1>1. RunInv => BuiltByThisRun
  BY DEF RunInv, PatchInv, CollectInv, BuiltByThisRun
<1> QED
  BY <1>1, RunInvariant, PTL

\* A patcher that cancellation terminated is never counted as a build.
THEOREM TerminatedIsNoBuild == Spec => []TerminatedNeverBuilt
<1>1. RunInv => TerminatedNeverBuilt
  BY DEF RunInv, PatchInv, CollectInv, TerminatedNeverBuilt
<1> QED
  BY <1>1, RunInvariant, PTL

\* Without an interrupt every app ends before main() does and every build is recorded.
THEOREM EveryBuildRecorded == Spec => []BuildsRecorded
<1>1. RunInv => BuildsRecorded
  BY DEF RunInv, CollectInv, MainInv, BuildsRecorded
<1> QED
  BY <1>1, RunInvariant, PTL

\* Without an interrupt a failed app is not exported from its older entry.
THEOREM FailuresNotExported == Spec => []FailedNotExported
<1>1. RunInv => FailedNotExported
  BY DEF RunInv, TypeOK, CollectInv, MainInv, FailedNotExported
<1> QED
  BY <1>1, RunInvariant, PTL
==============================================================================
