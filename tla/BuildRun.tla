------------------------------- MODULE BuildRun -------------------------------
(***************************************************************************)
(* One run of the builder: main() of main.py, the app workers it starts    *)
(* and, per app, the patcher process of Parser.patch_app with the daemon   *)
(* that ends it on cancellation.                                           *)
(*                                                                         *)
(* The shutdown coordinator appears by its two effects on a run: it sets   *)
(* the cancellation token, and later redelivers the signal, which raises   *)
(* KeyboardInterrupt in the main thread or kills the process.  Apps are    *)
(* numbered in the order of config.apps.                                   *)
(***************************************************************************)
EXTENDS Integers, FiniteSets

CONSTANTS
  NumApps,        \* len(config.apps)
  MaxParallel,    \* max_parallel_apps
  MaxInterrupts   \* bound: KeyboardInterrupts the main thread receives

ASSUME BuildRunAssumption ==
  NumApps \in Nat \ {0} /\ MaxParallel \in Nat \ {0} /\ MaxInterrupts \in Nat

Apps == 1 .. NumApps

VARIABLES
  ci_test,                        \* configuration
  updates_info, failed_apps,      \* what main() accumulates
  main, collected, interrupts,    \* the main thread
  task,                           \* process_single_app of each app
  java, output, process_done,     \* the patcher, the APK it writes, the event
  watcher, cancelled,             \* java-cancel daemon, cancellation token
  written, exported               \* updates.json, the Obtainium export

patchVars == <<java, output, process_done>>
mainVars == <<updates_info, failed_apps, main, collected, interrupts, written, exported>>
vars == <<ci_test, mainVars, task, patchVars, watcher, cancelled>>

Ended == {"ok", "failed", "cancelled", "abandoned"}
Over  == {"returned", "raised", "interrupted", "killed"}

\* updates_info holds the older entries that could be fetched; an APK of the same
\* name may be left from an earlier run.
Init ==
  /\ ci_test \in BOOLEAN
  /\ updates_info \in [Apps -> {"none", "older"}] /\ failed_apps = {}
  /\ main = "processing" /\ collected = {} /\ interrupts = 0
  /\ task = [a \in Apps |-> "queued"]
  /\ java = [a \in Apps |-> "none"] /\ output \in [Apps -> {"none", "stale"}]
  /\ process_done = [a \in Apps |-> FALSE] /\ watcher = [a \in Apps |-> "none"]
  /\ cancelled = FALSE
  /\ written = [a \in Apps |-> "none"] /\ exported = {}

Sequential == NumApps = 1 \/ ci_test
Running    == {a \in Apps : task[a] \notin Ended \cup {"queued"}}
Alive      == main # "killed"

------------------------------------------------------------------------------
(* process_single_app, on the main thread or on a worker of the pool.        *)

\* A pool worker takes the next future, also while the executor shuts down.
MayStart(a) ==
  /\ task[a] = "queued" /\ \A b \in 1 .. a - 1 : task[b] # "queued"
  /\ IF Sequential THEN main = "processing" /\ 1 .. a - 1 \subseteq collected
     ELSE Cardinality(Running) < MaxParallel

Start(a) ==
  /\ Alive /\ MayStart(a) /\ task' = [task EXCEPT ![a] = "preparing"]
  /\ UNCHANGED <<ci_test, mainVars, patchVars, watcher, cancelled>>

\* Resources, APK, patch selection, metadata: any of them may raise, and
\* OperationCancelledError is raised only where the token is looked at.
PrepareFails(a) ==
  /\ Alive /\ task[a] = "preparing"
  /\ \/ task' = [task EXCEPT ![a] = "failed"]
     \/ cancelled /\ task' = [task EXCEPT ![a] = "cancelled"]
  /\ UNCHANGED <<ci_test, mainVars, patchVars, watcher, cancelled>>

\* Mutant: the APK of an earlier run is left in place.
LaunchOverStale(a) ==
  /\ Alive /\ task[a] = "preparing"
  /\ java' = [java EXCEPT ![a] = "running"] /\ watcher' = [watcher EXCEPT ![a] = "watching"]
  /\ task' = [task EXCEPT ![a] = "patching"]
  /\ UNCHANGED <<ci_test, mainVars, process_done, cancelled, output>>

\* patch_app: the target is removed, the patcher and its watcher are started.
Launch(a) ==
  /\ Alive /\ task[a] = "preparing" /\ output' = [output EXCEPT ![a] = "none"]
  /\ \/ /\ java' = [java EXCEPT ![a] = "running"] /\ watcher' = [watcher EXCEPT ![a] = "watching"]
        /\ task' = [task EXCEPT ![a] = "patching"]
     \/ task' = [task EXCEPT ![a] = "failed"] /\ UNCHANGED <<java, watcher>>   \* Popen raised
  /\ UNCHANGED <<ci_test, mainVars, process_done, cancelled>>

Exited(a) == java[a] \in {"zero", "nonzero", "terminated"}

\* Its output ended and wait() returned: the finally clause sets the event.
Reap(a) ==
  /\ Alive /\ task[a] = "patching" /\ Exited(a)
  /\ process_done' = [process_done EXCEPT ![a] = TRUE]
  /\ task' = [task EXCEPT ![a] = "reaped"]
  /\ UNCHANGED <<ci_test, mainVars, java, output, watcher, cancelled>>

\* A non-zero exit is accepted if the app's CLI profile has CONTINUE_ON_ERROR and
\* there is an APK; either profile is possible.
Verdicts(a) == IF java[a] = "zero" THEN {"ok"}
               ELSE {"failed"} \cup (IF output[a] # "none" THEN {"ok"} ELSE {})

\* Mutant: the exit code is judged first, the token only for what it rejects.
JudgeCodeFirst(a) ==
  /\ Alive /\ task[a] = "reaped"
  /\ \E v \in Verdicts(a) :
       task' = [task EXCEPT ![a] = IF v = "failed" /\ cancelled THEN "cancelled" ELSE v]
  /\ UNCHANGED <<ci_test, mainVars, patchVars, watcher, cancelled>>

Judge(a) ==
  /\ Alive /\ task[a] = "reaped"
  /\ \E v \in IF cancelled THEN {"cancelled"} ELSE Verdicts(a) : task' = [task EXCEPT ![a] = v]
  /\ UNCHANGED <<ci_test, mainVars, patchVars, watcher, cancelled>>

------------------------------------------------------------------------------
(* The patcher process, and the daemon that watches over it.                 *)

JavaWrites(a) ==
  /\ java[a] = "running" /\ output[a] \in {"none", "stale"}
  /\ output' = [output EXCEPT ![a] = "partial"]
  /\ UNCHANGED <<ci_test, mainVars, task, java, process_done, watcher, cancelled>>

JavaExits(a) ==
  /\ java[a] = "running"
  /\ \/ /\ output[a] = "partial" /\ java' = [java EXCEPT ![a] = "zero"]
        /\ output' = [output EXCEPT ![a] = "complete"]
     \/ java' = [java EXCEPT ![a] = "nonzero"] /\ UNCHANGED output
  /\ UNCHANGED <<ci_test, mainVars, task, process_done, watcher, cancelled>>

\* Mutant: cancellation takes precedence over completion, and whatever the
\* watcher finds is its last look.
WatchOnce(a) ==
  /\ Alive /\ watcher[a] = "watching"
  /\ watcher' = [watcher EXCEPT ![a] = IF cancelled THEN "armed" ELSE "gone"]
  /\ UNCHANGED <<ci_test, mainVars, task, patchVars, cancelled>>

\* A timed wait on the event has returned; the loop goes round while neither
\* event is set.
Watch(a) ==
  /\ Alive /\ watcher[a] = "watching" /\ (process_done[a] \/ cancelled)
  /\ watcher' = [watcher EXCEPT ![a] = IF process_done[a] THEN "gone" ELSE "armed"]
  /\ UNCHANGED <<ci_test, mainVars, task, patchVars, cancelled>>

Arm(a) ==               \* if not completed.is_set(): on_cancel(process)
  /\ Alive /\ watcher[a] = "armed"
  /\ watcher' = [watcher EXCEPT ![a] = IF process_done[a] THEN "gone" ELSE "firing"]
  /\ UNCHANGED <<ci_test, mainVars, task, patchVars, cancelled>>

\* Mutant: poll()'s answer is taken the wrong way round.
TerminateIfExited(a) ==
  /\ Alive /\ watcher[a] = "firing" /\ watcher' = [watcher EXCEPT ![a] = "gone"]
  /\ java' = [java EXCEPT ![a] = IF @ # "running" THEN "terminated" ELSE @]
  /\ UNCHANGED <<ci_test, mainVars, task, output, process_done, cancelled>>

Terminate(a) ==         \* terminate_process: nothing if poll() has a code
  /\ Alive /\ watcher[a] = "firing" /\ watcher' = [watcher EXCEPT ![a] = "gone"]
  /\ java' = [java EXCEPT ![a] = IF @ = "running" THEN "terminated" ELSE @]
  /\ UNCHANGED <<ci_test, mainVars, task, output, process_done, cancelled>>

------------------------------------------------------------------------------
(* main().                                                                   *)

\* Mutant: the first failed app ends the loop.
CollectUntilFailure(a) ==
  /\ main = "processing" /\ task[a] \in Ended /\ a \notin collected
  /\ collected' = collected \cup {a}
  /\ updates_info' = [updates_info EXCEPT ![a] = IF task[a] = "ok" THEN "new" ELSE @]
  /\ failed_apps' = IF task[a] = "failed" \/ (Sequential /\ task[a] = "cancelled")
                    THEN failed_apps \cup {a} ELSE failed_apps
  /\ main' = CASE task[a] = "failed" -> "shutdown" [] collected' = Apps -> "finally" [] OTHER -> main
  /\ UNCHANGED <<ci_test, interrupts, written, exported, task, patchVars, watcher, cancelled>>

\* Mutant: whoever failed leaves its older entry in the export.
CollectForgetsFailure(a) ==
  /\ main = "processing" /\ task[a] \in Ended /\ a \notin collected
  /\ collected' = collected \cup {a}
  /\ updates_info' = [updates_info EXCEPT ![a] = IF task[a] = "ok" THEN "new" ELSE @]
  /\ main' = IF collected' = Apps THEN "finally" ELSE main
  /\ UNCHANGED <<ci_test, failed_apps, interrupts, written, exported, task, patchVars, watcher, cancelled>>

\* The next result: main()'s own in a sequential run, any future that has ended
\* in a parallel one, where a cancelled app counts as neither built nor failed.
Collect(a) ==
  /\ main = "processing" /\ task[a] \in Ended /\ a \notin collected
  /\ collected' = collected \cup {a}
  /\ updates_info' = [updates_info EXCEPT ![a] = IF task[a] = "ok" THEN "new" ELSE @]
  /\ failed_apps' = IF task[a] = "failed" \/ (Sequential /\ task[a] = "cancelled")
                    THEN failed_apps \cup {a} ELSE failed_apps
  /\ main' = IF collected' = Apps THEN "finally" ELSE main
  /\ UNCHANGED <<ci_test, interrupts, written, exported, task, patchVars, watcher, cancelled>>

Shutdown ==             \* executor.__exit__ joins the pool's threads
  /\ main = "shutdown" /\ Running = {} /\ (\A a \in Apps : task[a] # "queued")
  /\ main' = "finally"
  /\ UNCHANGED <<ci_test, updates_info, failed_apps, collected, interrupts, written, exported,
                 task, patchVars, watcher, cancelled>>

WriteMetadata ==        \* write_changelog_to_file
  /\ main = "finally" /\ main' = "export" /\ written' = updates_info
  /\ UNCHANGED <<ci_test, updates_info, failed_apps, collected, interrupts, exported,
                 task, patchVars, watcher, cancelled>>

Entries == {a \in Apps : updates_info[a] # "none"}

\* _raise_if_no_apps_succeeded: an older entry counts as a success.
NothingProduced == failed_apps # {} /\ Entries = {}

\* The export of what did not fail, then what main() ends with.  The changelog
\* directory is made without its parent, so it may raise (FileNotFoundError).
Export ==
  /\ main = "export"
  /\ \/ exported' = {} /\ main' = "raised"
     \/ /\ exported' = Entries \ failed_apps
        /\ main' = IF interrupts > 0 THEN "interrupted"
                   ELSE IF NothingProduced THEN "raised" ELSE "returned"
  /\ UNCHANGED <<ci_test, updates_info, failed_apps, collected, interrupts, written,
                 task, patchVars, watcher, cancelled>>

------------------------------------------------------------------------------
(* Shutdown: what SignalCoordinator does to a run.                           *)

Cancel ==
  /\ ~cancelled /\ main \notin Over /\ cancelled' = TRUE
  /\ UNCHANGED <<ci_test, mainVars, task, patchVars, watcher>>

\* The main thread waits for futures, joins the pool or writes the metadata; in a
\* sequential run the exception leaves patch_app, whose finally sets the event.
Interrupt ==
  /\ cancelled /\ main \notin Over /\ interrupts < MaxInterrupts
  /\ interrupts' = interrupts + 1
  /\ main' = CASE main = "processing" -> IF Sequential THEN "finally" ELSE "shutdown"
               [] main = "shutdown" -> "finally"
               [] OTHER -> "interrupted"
  /\ IF Sequential
     THEN /\ task' = [a \in Apps |-> IF a \in Running THEN "abandoned" ELSE task[a]]
          /\ process_done' = [a \in Apps |-> process_done[a] \/ task[a] \in {"patching", "reaped"}]
     ELSE UNCHANGED <<task, process_done>>
  /\ UNCHANGED <<ci_test, updates_info, failed_apps, collected, written, exported,
                 java, output, watcher, cancelled>>

Kill ==                 \* SIGTERM's own disposition; the patchers live on
  /\ cancelled /\ main \notin Over /\ main' = "killed"
  /\ UNCHANGED <<ci_test, updates_info, failed_apps, collected, interrupts, written, exported,
                 task, patchVars, watcher, cancelled>>

------------------------------------------------------------------------------

Worker(a)  == Start(a) \/ PrepareFails(a) \/ Launch(a) \/ Reap(a) \/ Judge(a)
Patcher(a) == JavaWrites(a) \/ JavaExits(a)
Daemon(a)  == Watch(a) \/ Arm(a) \/ Terminate(a)
MainThread == (\E a \in Apps : Collect(a)) \/ Shutdown \/ WriteMetadata \/ Export

Stopped == main \in Over /\ UNCHANGED vars

Next ==
  \/ MainThread \/ Cancel \/ Interrupt \/ Kill \/ Stopped
  \/ \E a \in Apps : Worker(a) \/ Patcher(a) \/ Daemon(a)

Spec == Init /\ [][Next]_vars

\* Threads run, and preparing an app ends (requests carry time-outs).  Nothing
\* makes a patcher end by itself, nor anybody cancel or interrupt the run.
Fairness ==
  /\ WF_vars(MainThread)
  /\ \A a \in Apps : WF_vars(Worker(a)) /\ WF_vars(Daemon(a))

FairSpec == Spec /\ Fairness

------------------------------------------------------------------------------
(* Properties.                                                               *)

TypeOK ==
  /\ ci_test \in BOOLEAN
  /\ updates_info \in [Apps -> {"none", "older", "new"}] /\ failed_apps \subseteq Apps
  /\ main \in Over \cup {"processing", "shutdown", "finally", "export"}
  /\ collected \subseteq Apps /\ interrupts \in 0 .. MaxInterrupts
  /\ task \in [Apps -> Ended \cup {"queued", "preparing", "patching", "reaped"}]
  /\ java \in [Apps -> {"none", "running", "zero", "nonzero", "terminated"}]
  /\ output \in [Apps -> {"none", "stale", "partial", "complete"}]
  /\ process_done \in [Apps -> BOOLEAN] /\ cancelled \in BOOLEAN
  /\ watcher \in [Apps -> {"none", "watching", "armed", "firing", "gone"}]
  /\ \A a \in Apps : watcher[a] = "none" <=> java[a] = "none"
  /\ written \in [Apps -> {"none", "older", "new"}] /\ exported \subseteq Apps

\* "Removing the target first prevents a stale APK from masking a failed patch
\* command" (patch_app): what updates.json calls built was written by this run.
BuiltByThisRun == \A a \in Apps : updates_info[a] = "new" => output[a] \in {"partial", "complete"}

\* A patcher its watcher terminated never counts as a build, not even where a
\* non-zero exit with an APK does (CONTINUE_ON_ERROR), whenever the token is set.
TerminatedNeverBuilt == \A a \in Apps : updates_info[a] = "new" => java[a] # "terminated"

\* Without an interrupt main() ends after every app, and every app that was built
\* is in updates.json, whichever failed, were cancelled or ended out of order.
BuildsRecorded ==
  main \in {"returned", "raised"} /\ interrupts = 0 =>
    \A a \in Apps : task[a] \in Ended /\ (task[a] = "ok" => written[a] = "new")

\* Without an interrupt no app that failed in this run is exported from an older entry.
FailedNotExported ==
  interrupts = 0 => \A a \in exported : task[a] # "failed"

\* A cancelled run kills its patchers: unless the process is killed first, or an
\* interrupt unwinds patch_app itself, every one is terminated or ends.
CancelEndsPatchers ==
  \A a \in Apps :
    cancelled /\ java[a] = "running" ~> java[a] # "running" \/ ~Alive \/ task[a] = "abandoned"

\* A cancelled run ends: no worker and no patcher is waited for in vain.
CancelledRunEnds == cancelled ~> main \in Over

------------------------------------------------------------------------------
(* What the source says of itself and the code does not do.                  *)

\* "A run with zero successful apps must fail because it produced no usable
\* release output" (test_main_fails_when_no_app_builds).
EmptyRunFails == main = "returned" => \E a \in Apps : task[a] = "ok"

\* "Only generate export for apps that were successfully processed, not stale
\* entries from past builds" (main()).
ExportIsFresh == \A a \in exported : written[a] = "new"
==============================================================================
