-------------------------- MODULE SignalCoordinator --------------------------
(***************************************************************************)
(* The one-shot graceful-shutdown coordinator of src/src/signals.py.       *)
(*                                                                         *)
(* Three kinds of thread meet here.  The MAIN thread runs main.py and, at  *)
(* any bytecode boundary, the signal handler _on_signal or the pending     *)
(* call _finalize_on_main_thread on top of whatever it was doing: its      *)
(* nested activations are `stack', the running one at the head.  CLIENT    *)
(* threads register and unregister cleanups under the coordinator's lock.  *)
(* The DRAIN WORKER a signal starts runs the frozen cleanups.  _on_signal  *)
(* takes no lock, so every assignment it makes is a step of its own and    *)
(* the other threads run in between.                                       *)
(*                                                                         *)
(* Cleanups are their identifiers 1..MaxId; a registry is the set of its   *)
(* identifiers, because dict order is identifier order (each one is issued *)
(* and inserted under the lock).  Signal occurrence k is the k-th managed  *)
(* signal the process receives, sig[k] says which signal it is.            *)
(***************************************************************************)
EXTENDS Integers, Sequences, FiniteSets

CONSTANTS
  Sigs,          \* the managed signals
  Clients,       \* threads that register cleanups
  MaxId,         \* bound: registrations
  MaxSignals,    \* bound: signals received
  Reentrant,     \* may a signal hit the first statements of the handler?
  EarlySignals,  \* may a signal arrive while install() is running?
  MainFinishes   \* may main() return while the process still runs?

ASSUME ConstantsAssumption ==
  /\ Sigs # {} /\ IsFiniteSet(Sigs)
  /\ Clients \cap {"free", "main", "worker"} = {}
  /\ MaxId \in Nat /\ MaxSignals \in Nat
  /\ Reentrant \in BOOLEAN /\ EarlySignals \in BOOLEAN /\ MainFinishes \in BOOLEAN

Ids    == 1 .. MaxId
Occ    == 1 .. MaxSignals
Main   == 0                       \* the main program's own activation
Fin    == -1                      \* the pending call _finalize_on_main_thread
Frames == {Main, Fin} \cup Occ

VARIABLES
  phase, handler, prior_handlers, triggering_signal,          \* coordinator
  registrations, registration_snapshot, frozen_identifiers,   \* registry
  lock, abort, cancelled,                                     \* RLock, Event, token
  stack, pc, todo, ret, snapshot, sig, raising,               \* main thread
  wpc, wtodo, wid, future, active_async_future, expired,      \* drain workers
  pending, helpers,                        \* posted finalizers, redelivery threads
  cpc, cop, cid, copy, next_id,                               \* clients
  alive,                                   \* how the process ended, or "up"
  verdict, removed, asked, runs, delivered \* history, read by properties only

coordVars  == <<phase, handler, prior_handlers, triggering_signal>>
regVars    == <<registrations, registration_snapshot, frozen_identifiers>>
frameVars  == <<todo, ret, snapshot, sig>>
mainVars   == <<stack, pc, raising>>
workVars   == <<wpc, wtodo, wid>>
futureVars == <<future, active_async_future>>
tailVars   == <<pending, helpers>>
clientVars == <<cpc, cop, cid, copy, next_id>>
tokenVars  == <<verdict, removed, asked>>
vars == <<coordVars, regVars, lock, abort, cancelled, frameVars, mainVars, workVars,
          futureVars, expired, tailVars, clientVars, alive, tokenVars, runs, delivered>>

------------------------------------------------------------------------------
(* State.                                                                    *)

Phases == {"NEW", "ACTIVE", "DRAINING", "FINALIZING", "UNINSTALLED"}

MainPcs    == {"mStart", "mInstall", "mAppend", "mPrior", "mActive", "mRollback", "mRun",
               "finally", "uLock", "uRegs", "uSnap", "uFrozen", "uDone", "exit"}
ActivePcs  == {"cancel", "cancelling", "drain", "trigger", "snap", "freeze",
               "clearRegs", "clearSnap", "spawn"}
EscalatePcs == {"abort", "aborting", "cancelFuture"}
DetachPcs  == {"detach", "dRegs", "dSnap", "dFrozen", "dDone"}
RestorePcs == {"list", "restore", "clear"}
FramePcs   == MainPcs \cup ActivePcs \cup EscalatePcs \cup DetachPcs \cup RestorePcs
                \cup {"none", "entry", "raise", "fCheck", "fHelper", "done"}

\* Statements of _on_signal that run before the phase or the abort latch shows
\* the signal to anybody; with ~Reentrant no further signal lands there.
EntryWindow == {"entry", "cancel", "cancelling", "drain", "aborting"}
InstallPcs  == {"mStart", "mInstall", "mAppend", "mPrior", "mActive", "mRollback"}

WorkerPcs == {"none", "check", "run", "sync", "publish", "recheck", "wait",
              "unpublish", "finish", "final", "post", "gone"}
Cleaning  == {"run", "sync", "publish", "recheck", "wait", "unpublish"}

Init ==
  /\ phase = "NEW" /\ triggering_signal = 0
  /\ handler = [s \in Sigs |-> "prior"] /\ prior_handlers = {}
  /\ registrations = {} /\ registration_snapshot = {} /\ frozen_identifiers = {}
  /\ lock = "free" /\ abort = FALSE /\ cancelled = FALSE
  /\ stack = <<Main>> /\ raising = FALSE
  /\ pc = [f \in Frames |-> IF f = Main THEN "mStart" ELSE "none"]
  /\ todo = [f \in Frames |-> {}] /\ ret = [f \in Frames |-> "none"]
  /\ snapshot = [k \in Occ |-> {}] /\ sig \in [Occ -> Sigs]
  /\ wpc = [k \in Occ |-> "none"] /\ wtodo = [k \in Occ |-> {}] /\ wid = [k \in Occ |-> 0]
  /\ future = [i \in Ids |-> "none"] /\ active_async_future = 0 /\ expired = FALSE
  /\ pending = 0 /\ helpers = [k \in Occ |-> 0]
  /\ cpc = [c \in Clients |-> "idle"] /\ cop = [c \in Clients |-> "register"]
  /\ cid = [c \in Clients |-> 0] /\ copy = [c \in Clients |-> {}] /\ next_id = 1
  /\ alive = "up"
  /\ verdict = [i \in Ids |-> "none"] /\ removed = {} /\ asked = {}
  /\ runs = [i \in Ids |-> 0] /\ delivered = [k \in Occ |-> 0]

------------------------------------------------------------------------------
(* The main thread: only the activation at the head of the stack moves.      *)

Top == Head(stack)

At(f, l) == alive = "up" /\ ~raising /\ Top = f /\ pc[f] = l

Goto(f, l) == pc' = [pc EXCEPT ![f] = l] /\ UNCHANGED <<stack, raising>>

Return(f) ==   \* the activation returns to the one it interrupted
  /\ stack' = Tail(stack)
  /\ pc' = [pc EXCEPT ![f] = "done"]

\* The disposition in force before install(): it may end the process, return,
\* or raise (KeyboardInterrupt) in whatever the main thread is doing.
PriorHandles(k) ==
  /\ delivered' = [delivered EXCEPT ![k] = @ + 1]
  /\ \/ alive' = "killed" /\ raising' = FALSE
     \/ alive' = "up" /\ raising' = FALSE
     \/ alive' = "up" /\ raising' = TRUE

Arrive(k) ==
  /\ alive = "up" /\ ~raising
  /\ pc[k] = "none" /\ \A j \in Occ : j < k => pc[j] # "none"
  /\ ~Reentrant => pc[Top] \notin EntryWindow
  /\ ~EarlySignals => pc[Main] \notin InstallPcs
  /\ IF handler[sig[k]] = "ours"
     THEN /\ stack' = <<k>> \o stack
          /\ pc' = [pc EXCEPT ![k] = "entry"]
          /\ UNCHANGED <<raising, alive, delivered>>
     ELSE /\ PriorHandles(k)
          /\ pc' = [pc EXCEPT ![k] = "done"]
          /\ UNCHANGED stack
  /\ UNCHANGED <<coordVars, regVars, lock, abort, cancelled, frameVars, workVars,
                 futureVars, expired, tailVars, clientVars, tokenVars, runs>>

\* Where the main program goes on when an exception reaches it: the rollback of
\* install(), which itself suppresses only Exception, or a `finally' clause.
Handler(l) ==
  CASE l \in {"mInstall", "mAppend"} -> {"mRollback"}
    [] l = "mRollback" -> {"mRollback", "exit"}
    [] l = "mRun" -> {"finally"}
    [] OTHER -> {"exit"}

\* An exception leaves the running activation: a handler passes it on, the
\* pending call swallows it, main.py leaves install(), main() or uninstall().
Unwind ==
  /\ alive = "up" /\ raising
  /\ IF Top # Main
     THEN Return(Top) /\ raising' = (Top # Fin) /\ UNCHANGED lock
     ELSE /\ raising' = FALSE /\ UNCHANGED stack
          /\ \E l \in Handler(pc[Main]) :
               /\ pc' = [pc EXCEPT ![Main] = l]
               /\ lock' = IF lock = "main" /\ l # "mRollback" THEN "free" ELSE lock
  /\ UNCHANGED <<coordVars, regVars, abort, cancelled, frameVars, workVars, futureVars,
                 expired, tailVars, clientVars, alive, tokenVars, runs, delivered>>

------------------------------------------------------------------------------
(* main.py and install()/uninstall() on the main thread.                     *)

Install ==
  \/ /\ At(Main, "mStart") /\ lock = "free"
     /\ lock' = "main" /\ todo' = [todo EXCEPT ![Main] = Sigs]
     /\ Goto(Main, "mInstall") /\ UNCHANGED <<phase, handler, prior_handlers>>
  \/ \E s \in todo[Main] :           \* saved[s] = getsignal(s); signal.signal(s, ours)
       /\ At(Main, "mInstall") /\ handler' = [handler EXCEPT ![s] = "ours"]
       /\ Goto(Main, "mAppend") /\ UNCHANGED <<lock, todo, phase, prior_handlers>>
  \/ \E s \in todo[Main] :           \* installed.append(s)
       /\ At(Main, "mAppend") /\ handler[s] = "ours"
       /\ todo' = [todo EXCEPT ![Main] = @ \ {s}]
       /\ Goto(Main, IF todo[Main] = {s} THEN "mPrior" ELSE "mInstall")
       /\ UNCHANGED <<lock, handler, phase, prior_handlers>>
  \/ /\ At(Main, "mPrior") /\ prior_handlers' = Sigs
     /\ Goto(Main, "mActive") /\ UNCHANGED <<lock, todo, handler, phase>>
  \/ /\ At(Main, "mActive") /\ phase' = "ACTIVE" /\ lock' = "free"
     /\ Goto(Main, "mRun") /\ UNCHANGED <<todo, handler, prior_handlers>>

InstallRollback ==                   \* only what reached `installed' is put back
  /\ At(Main, "mRollback")
  /\ \/ \E s \in Sigs \ todo[Main] :
          /\ handler[s] = "ours" /\ handler' = [handler EXCEPT ![s] = "prior"]
          /\ UNCHANGED <<mainVars, lock>>
     \/ /\ \A s \in Sigs \ todo[Main] : handler[s] = "prior"
        /\ lock' = "free" /\ Goto(Main, "exit") /\ UNCHANGED handler
  /\ UNCHANGED <<phase, prior_handlers, todo>>

MainStep ==
  /\ Install \/ InstallRollback
  /\ UNCHANGED <<triggering_signal, regVars, abort, cancelled, ret, snapshot, sig, workVars,
                 futureVars, expired, tailVars, clientVars, alive, tokenVars, runs, delivered>>

\* main() returns (or KeyboardInterrupt left it): `finally: if guarantees_cleanup:
\* uninstall()', and then the interpreter exits and takes its daemon threads along.
MainReturns ==
  /\ At(Main, "mRun") /\ MainFinishes /\ Goto(Main, "finally")
  /\ UNCHANGED <<coordVars, regVars, lock, abort, cancelled, frameVars, workVars, futureVars, expired,
                 tailVars, clientVars, alive, tokenVars, runs, delivered>>

Finally ==
  /\ \/ /\ At(Main, "finally")
        /\ Goto(Main, IF phase = "ACTIVE" THEN "uLock" ELSE "exit")
        /\ UNCHANGED <<lock, ret, alive>>
     \/ /\ At(Main, "uLock") /\ lock = "free"
        /\ IF phase = "ACTIVE"
           THEN /\ lock' = "main" /\ ret' = [ret EXCEPT ![Main] = "uRegs"] /\ Goto(Main, "list")
           ELSE Goto(Main, "exit") /\ UNCHANGED <<lock, ret>>
        /\ UNCHANGED alive
     \/ At(Main, "exit") /\ alive' = "exited" /\ UNCHANGED <<mainVars, lock, ret>>
  /\ UNCHANGED <<coordVars, regVars, abort, cancelled, todo, snapshot, sig, workVars, futureVars,
                 expired, tailVars, clientVars, tokenVars, runs, delivered>>

Uninstall ==
  /\ \/ /\ At(Main, "uRegs") /\ registrations' = {} /\ Goto(Main, "uSnap")
        /\ UNCHANGED <<phase, lock, registration_snapshot, frozen_identifiers>>
     \/ /\ At(Main, "uSnap") /\ registration_snapshot' = {} /\ Goto(Main, "uFrozen")
        /\ UNCHANGED <<phase, lock, registrations, frozen_identifiers>>
     \/ /\ At(Main, "uFrozen") /\ frozen_identifiers' = {} /\ Goto(Main, "uDone")
        /\ UNCHANGED <<phase, lock, registrations, registration_snapshot>>
     \/ /\ At(Main, "uDone") /\ phase' = "UNINSTALLED" /\ lock' = "free" /\ Goto(Main, "exit")
        /\ UNCHANGED regVars
  /\ UNCHANGED <<handler, prior_handlers, triggering_signal, abort, cancelled, frameVars, workVars,
                 futureVars, expired, tailVars, clientVars, alive, tokenVars, runs, delivered>>

\* Mutant: the map of prior handlers is emptied before they are put back.
RestoreAfterClear(f) ==
  /\ \/ /\ At(f, "list") /\ todo' = [todo EXCEPT ![f] = prior_handlers] /\ prior_handlers' = {}
        /\ Goto(f, "restore") /\ UNCHANGED handler
     \/ \E s \in todo[f] :
          /\ At(f, "restore") /\ handler' = [handler EXCEPT ![s] = "prior"]
          /\ todo' = [todo EXCEPT ![f] = @ \ {s}]
          /\ UNCHANGED <<mainVars, prior_handlers>>
     \/ /\ At(f, "restore") /\ todo[f] = {} /\ Goto(f, ret[f])
        /\ UNCHANGED <<todo, handler, prior_handlers>>
  /\ UNCHANGED <<phase, triggering_signal, regVars, lock, abort, cancelled, ret, snapshot, sig,
                 workVars, futureVars, expired, tailVars, clientVars, alive, tokenVars, runs, delivered>>

\* _restore_handlers, called from uninstall, from _detach_and_restore_on_main and
\* from the fallback of _on_signal; `ret' is where its caller goes on.
RestoreHandlers(f) ==
  /\ \/ /\ At(f, "list") /\ todo' = [todo EXCEPT ![f] = prior_handlers]
        /\ Goto(f, "restore") /\ UNCHANGED <<handler, prior_handlers>>
     \/ \E s \in todo[f] :
          /\ At(f, "restore") /\ handler' = [handler EXCEPT ![s] = "prior"]
          /\ todo' = [todo EXCEPT ![f] = @ \ {s}]
          /\ UNCHANGED <<mainVars, prior_handlers>>
     \/ /\ At(f, "restore") /\ todo[f] = {} /\ Goto(f, "clear")
        /\ UNCHANGED <<todo, handler, prior_handlers>>
     \/ /\ At(f, "clear") /\ prior_handlers' = {} /\ Goto(f, ret[f])
        /\ UNCHANGED <<todo, handler>>
  /\ UNCHANGED <<phase, triggering_signal, regVars, lock, abort, cancelled, ret, snapshot, sig,
                 workVars, futureVars, expired, tailVars, clientVars, alive, tokenVars, runs, delivered>>

------------------------------------------------------------------------------
(* _on_signal.                                                               *)

\* Mutant: a signal while DRAINING starts a shutdown of its own.
EntryDrainsTwice(k) ==
  /\ At(k, "entry")
  /\ Goto(k, CASE phase \in {"ACTIVE", "DRAINING"} -> "cancel"
               [] phase = "FINALIZING" -> "abort"
               [] OTHER -> "list")
  /\ ret' = [ret EXCEPT ![k] = "raise"]
  /\ UNCHANGED <<coordVars, regVars, lock, abort, cancelled, todo, snapshot, sig, workVars, futureVars,
                 expired, tailVars, clientVars, alive, tokenVars, runs, delivered>>

Entry(k) ==
  /\ At(k, "entry")
  /\ Goto(k, CASE phase = "ACTIVE" -> "cancel"
               [] phase \in {"DRAINING", "FINALIZING"} -> "abort"
               [] OTHER -> "list")
  /\ ret' = [ret EXCEPT ![k] = "raise"]
  /\ UNCHANGED <<coordVars, regVars, lock, abort, cancelled, todo, snapshot, sig, workVars, futureVars,
                 expired, tailVars, clientVars, alive, tokenVars, runs, delivered>>

\* Event.set() takes the Event's own, non-reentrant lock: a handler nested in
\* one that is inside set() waits for an activation it has itself suspended.
EventFree(l) == \A g \in Occ : pc[g] # l

CancelToken(k) ==
  /\ \/ At(k, "cancel") /\ EventFree("cancelling") /\ cancelled' = TRUE /\ Goto(k, "cancelling")
     \/ At(k, "cancelling") /\ Goto(k, "drain") /\ UNCHANGED cancelled
  /\ UNCHANGED <<coordVars, regVars, lock, abort, frameVars, workVars, futureVars, expired,
                 tailVars, clientVars, alive, tokenVars, runs, delivered>>

Freeze(k) ==
  /\ \/ /\ At(k, "drain") /\ phase' = "DRAINING" /\ Goto(k, "trigger")
        /\ UNCHANGED <<triggering_signal, snapshot, regVars>>
     \/ /\ At(k, "trigger") /\ triggering_signal' = k /\ Goto(k, "snap")
        /\ UNCHANGED <<phase, snapshot, regVars>>
     \/ /\ At(k, "snap") /\ snapshot' = [snapshot EXCEPT ![k] = registration_snapshot]
        /\ Goto(k, "freeze") /\ UNCHANGED <<phase, triggering_signal, regVars>>
     \/ /\ At(k, "freeze") /\ frozen_identifiers' = snapshot[k] /\ Goto(k, "clearRegs")
        /\ UNCHANGED <<phase, triggering_signal, snapshot, registrations, registration_snapshot>>
     \/ /\ At(k, "clearRegs") /\ registrations' = {} /\ Goto(k, "clearSnap")
        /\ UNCHANGED <<phase, triggering_signal, snapshot, frozen_identifiers, registration_snapshot>>
     \/ /\ At(k, "clearSnap") /\ registration_snapshot' = {} /\ Goto(k, "spawn")
        /\ UNCHANGED <<phase, triggering_signal, snapshot, frozen_identifiers, registrations>>
  /\ UNCHANGED <<handler, prior_handlers, lock, abort, cancelled, todo, ret, sig, workVars, futureVars,
                 expired, tailVars, clientVars, alive, tokenVars, runs, delivered>>

SpawnWorker(k) ==
  /\ At(k, "spawn") /\ Return(k) /\ UNCHANGED raising
  /\ wpc' = [wpc EXCEPT ![k] = "check"] /\ wtodo' = [wtodo EXCEPT ![k] = snapshot[k]]
  /\ snapshot' = [snapshot EXCEPT ![k] = {}]
  /\ UNCHANGED <<coordVars, regVars, lock, abort, cancelled, todo, ret, sig, wid, futureVars, expired,
                 tailVars, clientVars, alive, tokenVars, runs, delivered>>

\* Mutant: the second signal sets the latch and forgets the published future.
NoFutureCancel == UNCHANGED future

CancelActiveFuture ==
  future' = [i \in Ids |-> IF i = active_async_future /\ future[i] = "running"
                           THEN "cancelled" ELSE future[i]]

Escalate(k) ==
  /\ \/ /\ At(k, "abort") /\ EventFree("aborting") /\ abort' = TRUE
        /\ Goto(k, "aborting") /\ UNCHANGED future
     \/ At(k, "aborting") /\ Goto(k, "cancelFuture") /\ UNCHANGED <<abort, future>>
     \/ /\ At(k, "cancelFuture") /\ Goto(k, "detach") /\ UNCHANGED abort
        /\ CancelActiveFuture
  /\ UNCHANGED <<coordVars, regVars, lock, cancelled, frameVars, workVars, active_async_future,
                 expired, tailVars, clientVars, alive, tokenVars, runs, delivered>>

\* _detach_and_restore_on_main, from _propagate_from_main or from the finalizer.
Detach(f) ==
  /\ \/ /\ At(f, "detach") /\ phase' = "FINALIZING" /\ Goto(f, "dRegs") /\ UNCHANGED <<regVars, ret>>
     \/ /\ At(f, "dRegs") /\ registrations' = {} /\ Goto(f, "dSnap")
        /\ UNCHANGED <<phase, registration_snapshot, frozen_identifiers, ret>>
     \/ /\ At(f, "dSnap") /\ registration_snapshot' = {} /\ Goto(f, "dFrozen")
        /\ UNCHANGED <<phase, registrations, frozen_identifiers, ret>>
     \/ /\ At(f, "dFrozen") /\ frozen_identifiers' = {} /\ Goto(f, "list")
        /\ ret' = [ret EXCEPT ![f] = "dDone"]
        /\ UNCHANGED <<phase, registrations, registration_snapshot>>
     \/ /\ At(f, "dDone") /\ phase' = "UNINSTALLED"
        /\ Goto(f, IF f = Fin THEN "fHelper" ELSE "raise") /\ UNCHANGED <<regVars, ret>>
  /\ UNCHANGED <<handler, prior_handlers, triggering_signal, lock, abort, cancelled, todo, snapshot, sig,
                 workVars, futureVars, expired, tailVars, clientVars, alive, tokenVars, runs, delivered>>

\* Mutant: escalation raises the signal that started the shutdown, not its own.
RaiseTriggering(k) ==
  /\ At(k, "raise") /\ Return(k)
  /\ IF handler[sig[k]] = "ours" \/ triggering_signal = 0
     THEN raising' = TRUE /\ UNCHANGED <<alive, delivered>>
     ELSE PriorHandles(triggering_signal)
  /\ UNCHANGED <<coordVars, regVars, lock, abort, cancelled, frameVars, workVars, futureVars, expired,
                 tailVars, clientVars, tokenVars, runs>>

\* signal.raise_signal(received).  If the coordinator still owns the signal, the
\* handler re-enters itself up to the recursion limit and RecursionError leaves it.
RaiseSignal(k) ==
  /\ At(k, "raise") /\ Return(k)
  /\ IF handler[sig[k]] = "ours"
     THEN raising' = TRUE /\ UNCHANGED <<alive, delivered>>
     ELSE PriorHandles(k)
  /\ UNCHANGED <<coordVars, regVars, lock, abort, cancelled, frameVars, workVars, futureVars, expired,
                 tailVars, clientVars, tokenVars, runs>>

------------------------------------------------------------------------------
(* _finalize_on_main_thread as a pending call, and the redelivery thread.    *)

BeginFinalize ==      \* Py_AddPendingCall's callback runs at a bytecode boundary
  /\ alive = "up" /\ ~raising /\ pending > 0 /\ pc[Fin] \in {"none", "done"}
  /\ pending' = pending - 1
  /\ stack' = <<Fin>> \o stack /\ pc' = [pc EXCEPT ![Fin] = "fCheck"]
  /\ UNCHANGED <<coordVars, regVars, lock, abort, cancelled, frameVars, raising, workVars, futureVars,
                 expired, helpers, clientVars, alive, tokenVars, runs, delivered>>

\* Mutant: the finalizer expects the phase the worker has just left.
FinalizeWhenDraining ==
  /\ \/ /\ At(Fin, "fCheck") /\ phase # "DRAINING" /\ Return(Fin) /\ UNCHANGED <<raising, helpers>>
     \/ At(Fin, "fCheck") /\ phase = "DRAINING" /\ Goto(Fin, "detach") /\ UNCHANGED helpers
     \/ /\ At(Fin, "fHelper") /\ Return(Fin) /\ UNCHANGED raising
        /\ helpers' = [helpers EXCEPT ![triggering_signal] = @ + 1]
  /\ UNCHANGED <<coordVars, regVars, lock, abort, cancelled, frameVars, workVars, futureVars, expired,
                 pending, clientVars, alive, tokenVars, runs, delivered>>

Finalize ==
  /\ \/ /\ At(Fin, "fCheck") /\ phase # "FINALIZING" /\ Return(Fin) /\ UNCHANGED <<raising, helpers>>
     \/ At(Fin, "fCheck") /\ phase = "FINALIZING" /\ Goto(Fin, "detach") /\ UNCHANGED helpers
     \/ /\ At(Fin, "fHelper") /\ Return(Fin) /\ UNCHANGED raising
        /\ helpers' = [helpers EXCEPT ![triggering_signal] = @ + 1]
  /\ UNCHANGED <<coordVars, regVars, lock, abort, cancelled, frameVars, workVars, futureVars, expired,
                 pending, clientVars, alive, tokenVars, runs, delivered>>

Redeliver(k) ==       \* _redeliver_after_pending_call
  /\ alive = "up" /\ ~raising /\ helpers[k] > 0 /\ handler[sig[k]] = "prior"
  /\ helpers' = [helpers EXCEPT ![k] = @ - 1]
  /\ PriorHandles(k)
  /\ UNCHANGED <<coordVars, regVars, lock, abort, cancelled, frameVars, stack, pc, workVars, futureVars,
                 expired, pending, clientVars, tokenVars, runs>>

------------------------------------------------------------------------------
(* The drain worker started by occurrence k.                                 *)

WAt(k, l)   == alive = "up" /\ wpc[k] = l
WGoto(k, l) == wpc' = [wpc EXCEPT ![k] = l]

\* Mutant: the snapshot is walked in registration order.
Earliest(S) == {i \in S : \A j \in S : i <= j}

\* list(reversed(snapshot)): the registration made last is cleaned up first.
Latest(S) == {i \in S : \A j \in S : j <= i}

DrainLoop(k) ==
  /\ WAt(k, "check")
  /\ \/ abort /\ WGoto(k, "gone") /\ UNCHANGED <<wtodo, wid>>
     \/ ~abort /\ (wtodo[k] = {} \/ expired) /\ WGoto(k, "finish") /\ UNCHANGED <<wtodo, wid>>
     \/ /\ ~abort /\ ~expired /\ WGoto(k, "run")
        /\ \E i \in Latest(wtodo[k]) :
             wid' = [wid EXCEPT ![k] = i] /\ wtodo' = [wtodo EXCEPT ![k] = @ \ {i}]
  /\ UNCHANGED <<coordVars, regVars, lock, abort, cancelled, frameVars, mainVars, futureVars, expired,
                 tailVars, clientVars, alive, tokenVars, runs, delivered>>

\* future.result(timeout=remaining): it is done, or the wait times out and cancels it.
AwaitFuture(i) ==
  \/ future[i] # "running" /\ UNCHANGED future
  \/ future[i] = "running" /\ future' = [future EXCEPT ![i] = "cancelled"]

\* _run_registration: a synchronous callback, a coroutine scheduled on its owner
\* loop, or a loop that is gone; whatever a cleanup raises is swallowed.
RunRegistration(k) ==
  LET i == wid[k] IN
  /\ \/ /\ WAt(k, "run") /\ runs' = [runs EXCEPT ![i] = @ + 1]
        /\ \/ WGoto(k, "sync") /\ UNCHANGED future
           \/ WGoto(k, "publish") /\ future' = [future EXCEPT ![i] = "running"]
           \/ WGoto(k, "check") /\ UNCHANGED future
        /\ UNCHANGED active_async_future
     \/ WAt(k, "sync") /\ WGoto(k, "check") /\ UNCHANGED <<runs, futureVars>>
     \/ /\ WAt(k, "publish") /\ lock = "free" /\ active_async_future' = i /\ WGoto(k, "recheck")
        /\ UNCHANGED <<runs, future>>
     \/ /\ WAt(k, "recheck") /\ UNCHANGED <<runs, active_async_future>>
        /\ IF abort
           THEN /\ WGoto(k, "check")
                /\ future' = [future EXCEPT ![i] = IF @ = "running" THEN "cancelled" ELSE @]
           ELSE WGoto(k, "wait") /\ UNCHANGED future
     \/ /\ WAt(k, "wait") /\ WGoto(k, "unpublish") /\ UNCHANGED <<runs, active_async_future>>
        /\ AwaitFuture(i)
     \/ /\ WAt(k, "unpublish") /\ lock = "free" /\ WGoto(k, "check")
        /\ active_async_future' = IF active_async_future = i THEN 0 ELSE active_async_future
        /\ UNCHANGED <<runs, future>>
  /\ UNCHANGED <<coordVars, regVars, lock, abort, cancelled, frameVars, mainVars, wtodo, wid, expired,
                 tailVars, clientVars, alive, tokenVars, delivered>>

FinishDrain(k) ==
  /\ \/ /\ WAt(k, "finish") /\ lock = "free" /\ UNCHANGED <<phase, pending, alive>>
        /\ IF phase # "DRAINING" \/ abort
           THEN WGoto(k, "gone") /\ UNCHANGED lock
           ELSE WGoto(k, "final") /\ lock' = "worker"
     \/ /\ WAt(k, "final") /\ phase' = "FINALIZING" /\ lock' = "free" /\ WGoto(k, "post")
        /\ UNCHANGED <<pending, alive>>
     \/ /\ WAt(k, "post") /\ WGoto(k, "gone") /\ UNCHANGED <<phase, lock>>
        /\ \/ pending' = pending + 1 /\ UNCHANGED alive
           \/ alive' = "killed" /\ UNCHANGED pending    \* queue stayed full: os._exit(128 + signum)
  /\ UNCHANGED <<handler, prior_handlers, triggering_signal, regVars, abort, cancelled, frameVars,
                 mainVars, wtodo, wid, futureVars, expired, helpers, clientVars, tokenVars, runs, delivered>>

CoroutineEnds(i) ==   \* the owner loop completes the coroutine
  /\ alive = "up" /\ future[i] = "running" /\ future' = [future EXCEPT ![i] = "done"]
  /\ UNCHANGED <<coordVars, regVars, lock, abort, cancelled, frameVars, mainVars, workVars,
                 active_async_future, expired, tailVars, clientVars, alive, tokenVars, runs, delivered>>

GraceExpires ==
  /\ alive = "up" /\ triggering_signal # 0 /\ ~expired /\ expired' = TRUE
  /\ UNCHANGED <<coordVars, regVars, lock, abort, cancelled, frameVars, mainVars, workVars, futureVars,
                 tailVars, clientVars, alive, tokenVars, runs, delivered>>

------------------------------------------------------------------------------
(* register() and unregister() on a client thread, under the lock.           *)

CAt(c, l)   == alive = "up" /\ cpc[c] = l
CGoto(c, l) == cpc' = [cpc EXCEPT ![c] = l]

BeginRegister(c) ==
  /\ CAt(c, "idle") /\ lock = "free" /\ phase = "ACTIVE" /\ next_id <= MaxId
  /\ lock' = c /\ next_id' = next_id + 1
  /\ cid' = [cid EXCEPT ![c] = next_id] /\ cop' = [cop EXCEPT ![c] = "register"]
  /\ CGoto(c, "copy") /\ UNCHANGED <<copy, regVars, tokenVars>>

BeginUnregister(c) ==
  /\ CAt(c, "idle") /\ lock = "free"
  /\ \E i \in Ids :
       /\ verdict[i] = "accepted" /\ asked' = asked \cup {i}
       /\ IF i \in registrations
          THEN /\ lock' = c /\ cid' = [cid EXCEPT ![c] = i]
               /\ cop' = [cop EXCEPT ![c] = "unregister"]
               /\ copy' = [copy EXCEPT ![c] = registrations \ {i}] /\ CGoto(c, "publish")
          ELSE UNCHANGED <<lock, cid, cop, copy, cpc>>      \* already absent: False
  /\ UNCHANGED <<next_id, regVars, verdict, removed>>

CopyRegistry(c) ==    \* dict(self._registrations), with the new entry or without the old
  /\ CAt(c, "copy") /\ CGoto(c, "publish")
  /\ copy' = [copy EXCEPT ![c] = IF cop[c] = "register" THEN registrations \cup {cid[c]}
                                 ELSE registrations \ {cid[c]}]
  /\ UNCHANGED <<lock, cop, cid, next_id, regVars, tokenVars>>

Publish(c) ==
  /\ CAt(c, "publish") /\ registrations' = copy[c] /\ CGoto(c, "snapshot")
  /\ UNCHANGED <<lock, cop, cid, copy, next_id, registration_snapshot, frozen_identifiers, tokenVars>>

PublishSnapshot(c) ==
  /\ CAt(c, "snapshot") /\ registration_snapshot' = copy[c] /\ CGoto(c, "verdict")
  /\ UNCHANGED <<lock, cop, cid, copy, next_id, registrations, frozen_identifiers, tokenVars>>

\* Mutant: register() does not look back at the phase after publishing.
AlwaysIncluded(i) == TRUE

\* One read suffices for `phase is ACTIVE ... in frozen': the phase never
\* becomes ACTIVE again, so the answer is the one of the later read.
Included(i) == phase = "ACTIVE" \/ i \in frozen_identifiers

Leave(c) ==           \* the with-block ends and the call's locals are gone
  /\ lock' = "free" /\ CGoto(c, "idle") /\ cop' = [cop EXCEPT ![c] = "register"]
  /\ cid' = [cid EXCEPT ![c] = 0] /\ copy' = [copy EXCEPT ![c] = {}]

Verdict(c) ==
  LET i == cid[c] IN
  /\ CAt(c, "verdict")
  /\ \/ /\ cop[c] = "register" /\ Included(i) /\ Leave(c)
        /\ verdict' = [verdict EXCEPT ![i] = "accepted"] /\ UNCHANGED removed
     \/ /\ cop[c] = "register" /\ ~Included(i) /\ CGoto(c, "copy")
        /\ cop' = [cop EXCEPT ![c] = "rollback"] /\ UNCHANGED <<lock, cid, copy, verdict, removed>>
     \/ /\ cop[c] = "rollback" /\ Leave(c)
        /\ verdict' = [verdict EXCEPT ![i] = "rejected"] /\ UNCHANGED removed
     \/ /\ cop[c] = "unregister" /\ Leave(c) /\ UNCHANGED verdict
        /\ removed' = IF phase = "ACTIVE" \/ i \notin frozen_identifiers
                      THEN removed \cup {i} ELSE removed
  /\ UNCHANGED <<next_id, regVars, asked>>

ClientStep(c) == CopyRegistry(c) \/ Publish(c) \/ PublishSnapshot(c) \/ Verdict(c)

ClientOnly == UNCHANGED <<coordVars, abort, cancelled, frameVars, mainVars, workVars, futureVars,
                          expired, tailVars, alive, runs, delivered>>

Client(c) == (BeginRegister(c) \/ BeginUnregister(c) \/ ClientStep(c)) /\ ClientOnly

------------------------------------------------------------------------------
(* The process.                                                              *)

OnSignal(k) ==
  Entry(k) \/ CancelToken(k) \/ Freeze(k) \/ SpawnWorker(k) \/ Escalate(k) \/ RaiseSignal(k)

Worker(k) == DrainLoop(k) \/ RunRegistration(k) \/ FinishDrain(k)

MainThread ==
  \/ Unwind \/ MainStep \/ Finally \/ Uninstall \/ BeginFinalize \/ Finalize
  \/ \E k \in Occ : OnSignal(k)
  \/ \E f \in Frames : RestoreHandlers(f)
  \/ \E f \in Frames \ {Main} : Detach(f)

Ended == alive # "up" /\ UNCHANGED vars

Next ==
  \/ MainThread \/ MainReturns \/ GraceExpires \/ Ended
  \/ \E k \in Occ : Arrive(k) \/ Worker(k) \/ Redeliver(k)
  \/ \E i \in Ids : CoroutineEnds(i)
  \/ \E c \in Clients : Client(c)

Spec == Init /\ [][Next]_vars

\* The interpreter keeps running every thread, pending calls and helper threads
\* included; a client gives the lock back; a synchronous cleanup returns (one
\* that never does blocks the worker: "cannot be pre-empted").  Nobody has to
\* send a signal, register, complete a coroutine or return from main().
Fairness ==
  /\ WF_vars(MainThread)
  /\ \A k \in Occ : WF_vars(Worker(k)) /\ WF_vars(Redeliver(k))
  /\ \A c \in Clients : WF_vars(Client(c) /\ cpc[c] # "idle")

FairSpec == Spec /\ Fairness

------------------------------------------------------------------------------
(* What the shutdown looks like from outside: the state of `Shutdown'.       *)

MainStage ==
  IF pc[Main] \in InstallPcs THEN "starting"
  ELSE IF pc[Main] = "mRun" THEN "working" ELSE "leaving"

Drained == \E k \in Occ : wpc[k] \in {"post", "gone"}

DrainStage ==
  IF Drained THEN "over"
  ELSE IF \A k \in Occ : wpc[k] = "none" THEN "none" ELSE "running"

AcceptedIds == {i \in Ids : verdict[i] = "accepted"}
StartedIds  == {i \in Ids : runs[i] > 0}
TakenOcc    == {k \in Occ : wpc[k] # "none"}
HandedOcc   == {k \in Occ : delivered[k] > 0}

Promise == INSTANCE Shutdown WITH
  Cleanups <- Ids, Signals <- Occ, main <- MainStage, accepted <- AcceptedIds,
  withdrawn <- asked, started <- StartedIds, drain <- DrainStage, taken <- TakenOcc,
  latched <- abort, late <- expired, handed <- HandedOcc, ended <- alive # "up"

------------------------------------------------------------------------------
(* Properties.                                                               *)

TypeCoord ==
  /\ phase \in Phases /\ triggering_signal \in 0 .. MaxSignals
  /\ handler \in [Sigs -> {"ours", "prior"}] /\ prior_handlers \in SUBSET Sigs
  /\ registrations \in SUBSET Ids /\ registration_snapshot \in SUBSET Ids
  /\ frozen_identifiers \in SUBSET Ids
  /\ lock \in {"free", "main", "worker"} \cup Clients
  /\ alive \in {"up", "killed", "exited"}

TypeFlags ==
  /\ abort \in BOOLEAN /\ cancelled \in BOOLEAN /\ expired \in BOOLEAN /\ raising \in BOOLEAN

TypeMain ==
  /\ stack \in Seq(Frames) /\ Len(stack) > 0 /\ stack[Len(stack)] = Main
  /\ pc \in [Frames -> FramePcs] /\ ret \in [Frames -> FramePcs]
  /\ todo \in [Frames -> SUBSET Sigs] /\ snapshot \in [Occ -> SUBSET Ids] /\ sig \in [Occ -> Sigs]

TypeDrain ==
  /\ wpc \in [Occ -> WorkerPcs] /\ wtodo \in [Occ -> SUBSET Ids] /\ wid \in [Occ -> Ids \cup {0}]
  /\ future \in [Ids -> {"none", "running", "cancelled", "done"}]
  /\ active_async_future \in Ids \cup {0} /\ pending \in Nat /\ helpers \in [Occ -> Nat]

TypeClient ==
  /\ cpc \in [Clients -> {"idle", "copy", "publish", "snapshot", "verdict"}]
  /\ cop \in [Clients -> {"register", "rollback", "unregister"}]
  /\ cid \in [Clients -> Ids \cup {0}] /\ copy \in [Clients -> SUBSET Ids]
  /\ \A c \in Clients : cpc[c] # "idle" => cid[c] \in Ids
  /\ next_id \in 1 .. MaxId + 1

TypeHistory ==
  /\ verdict \in [Ids -> {"none", "accepted", "rejected"}]
  /\ removed \in SUBSET Ids /\ asked \in SUBSET Ids
  /\ runs \in [Ids -> Nat] /\ delivered \in [Occ -> Nat]

TypeOK == TypeCoord /\ TypeFlags /\ TypeMain /\ TypeDrain /\ TypeClient /\ TypeHistory

\* The coordinator implements `Shutdown': one drain, newest cleanup first, of
\* every accepted cleanup; a signal reaches the prior disposition once, after its
\* own drain, and never under a main program that counts on the drain.
KeepsPromise == Promise!Spec

\* A cleanup handler is started at most once, whatever the clients publish
\* around the freeze and however many signals arrive (_drain_worker).
CleanupRunsOnce == \A i \in Ids : runs[i] <= 1

\* Strict LIFO: a cleanup starts only when every cleanup started before it was
\* registered after it (the module's header; reversed(snapshot)).
StrictLifo ==
  [][\A i \in Ids : runs'[i] # runs[i] => \A j \in Ids : runs[j] > 0 => j > i]_vars

\* A drain that ran to the end of its list has run every cleanup whose register()
\* returned a token and that nobody tried to unregister: the copy, publish,
\* re-check protocol of register() loses no accepted cleanup to the freeze.
AcceptedCleanupsDrained ==
  \A k \in Occ : wpc[k] \in {"final", "post"} /\ wtodo[k] = {} =>
     \A i \in Ids \ asked : verdict[i] = "accepted" => runs[i] = 1

\* Once a second signal has cancelled the published future, the worker waits on
\* no running coroutine, though it schedules before it publishes and publishes
\* before it re-checks the latch (_run_registration, _on_signal).  Except while
\* uninstall() takes a drain over: a signal it has given back may raise in the
\* middle of the escalation and cut it off before it reaches the future.
EscalationReachesCoroutine ==
  /\ abort /\ \A k \in Occ : pc[k] \notin {"aborting", "cancelFuture"}
  /\ ~(phase = "DRAINING" /\ \E s \in Sigs : handler[s] = "prior")
  => \A k \in Occ : wpc[k] = "wait" => future[wid[k]] # "running"

\* Finalization is posted, run and followed by redelivery only while no cleanup
\* is running, unless a second signal abandoned the drain.
DrainedBeforeFinalize ==
  ~abort /\ (pending > 0 \/ pc[Fin] \notin {"none", "done"} \/ \E k \in Occ : helpers[k] > 0) =>
    \A k \in Occ : wpc[k] \notin Cleaning

\* raise_signal() is called on a signal the coordinator has let go of, so the
\* handler never re-enters itself, and a redelivery thread never re-triggers it.
\* Except in install(): until the prior handlers are saved there are none to put
\* back, and the handler raises the signal to itself.
RaisesToPriorHandler ==
  /\ phase # "NEW" => \A k \in Occ : pc[k] = "raise" => handler[sig[k]] = "prior"
  /\ \A k \in Occ : helpers[k] > 0 => handler[sig[k]] = "prior"

\* No signal occurrence reaches the prior disposition twice: neither the race of
\* escalation with the worker's FINALIZING nor nested escalations duplicate one.
DeliveredOnce == \A k \in Occ : delivered[k] + helpers[k] <= 1

\* The header's promise: a signal that starts a shutdown is redelivered, the
\* restored disposition sees a signal, or os._exit reports it.
EventuallyRedelivered ==
  triggering_signal # 0 ~> alive = "killed" \/ \E k \in Occ : delivered[k] > 0

==============================================================================
