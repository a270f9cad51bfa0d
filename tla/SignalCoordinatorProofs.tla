----------------------- MODULE SignalCoordinatorProofs -----------------------
(***************************************************************************)
(* Theorems about SignalCoordinator, for every set of signals and clients  *)
(* and every bound: type correctness; from the inductive invariant         *)
(* DrainInv, that one shutdown drains once, in LIFO order; from SafetyInv, *)
(* one section for each promise, the other safety properties; and from     *)
(* PromiseInv, that every step is a step of `Shutdown' or none.            *)
(***************************************************************************)
EXTENDS SignalSafetyInvariant, TLAPS

\* The stack of activations always has the main program at the bottom, so the
\* one that returns leaves a running activation behind it.
LEMMA StackPush ==
  ASSUME NEW s \in Seq(Frames), Len(s) > 0, s[Len(s)] = Main, NEW f \in Frames
  PROVE  /\ <<f>> \o s \in Seq(Frames) /\ Len(<<f>> \o s) > 0
         /\ (<<f>> \o s)[Len(<<f>> \o s)] = Main /\ Head(<<f>> \o s) = f
  OBVIOUS

LEMMA StackPop ==
  ASSUME NEW s \in Seq(Frames), Len(s) > 0, s[Len(s)] = Main, Head(s) # Main
  PROVE  Tail(s) \in Seq(Frames) /\ Len(Tail(s)) > 0 /\ Tail(s)[Len(Tail(s))] = Main
<1>1. Len(s) > 1  OBVIOUS
<1>2. Tail(s) \in Seq(Frames) /\ Len(Tail(s)) = Len(s) - 1  BY <1>1
<1>3. Tail(s)[Len(s) - 1] = s[Len(s)]  BY <1>1
<1>. QED BY <1>1, <1>2, <1>3

LEMMA StackTop ==
  ASSUME NEW s \in Seq(Frames), Len(s) > 0
  PROVE  Head(s) \in Frames
  OBVIOUS

USE ConstantsAssumption DEF ConstantsAssumption, Main, Fin, Occ, Ids, Frames
USE DEF coordVars, regVars, frameVars, mainVars, workVars, futureVars, tailVars, clientVars, tokenVars

LEMMA InitType == Init => TypeOK
<1> SUFFICES ASSUME Init PROVE TypeOK
  OBVIOUS
<1>1. TypeCoord  BY DEF Init, TypeCoord, Phases
<1>6. TypeFlags BY DEF Init, TypeFlags
<1>2. TypeMain
 <2>1. stack \in Seq(Frames) /\ Len(stack) > 0 /\ stack[Len(stack)] = Main BY DEF Init
 <2>2. pc \in [Frames -> FramePcs] /\ ret \in [Frames -> FramePcs] BY DEF Init, FramePcs, MainPcs
 <2>3. todo \in [Frames -> SUBSET Sigs] /\ snapshot \in [Occ -> SUBSET Ids] /\ sig \in [Occ -> Sigs] BY DEF Init
 <2> QED BY <2>1, <2>2, <2>3 DEF TypeMain
<1>3. TypeDrain  BY DEF Init, TypeDrain, WorkerPcs
<1>4. TypeClient  BY DEF Init, TypeClient
<1>5. TypeHistory  BY DEF Init, TypeHistory
<1>. QED BY <1>1, <1>2, <1>3, <1>4, <1>5, <1>6 DEF TypeOK

LEMMA ArriveType ==
  ASSUME TypeOK, NEW k \in Occ, Arrive(k)
  PROVE  TypeOK'
<1>5. TypeHistory'
  <2>1. delivered' = delivered \/ delivered' = [delivered EXCEPT ![k] = @ + 1]
    BY DEF Arrive, PriorHandles
  <2>2. UNCHANGED <<tokenVars, runs>> BY DEF Arrive
  <2>3. TypeHistory BY DEF TypeOK
  <2>. QED BY <2>1, <2>2, <2>3, SMTT(40) DEF TypeHistory
<1> USE DEF TypeOK, Arrive, PriorHandles
<1>1. TypeCoord'  BY DEF TypeCoord
<1>6. TypeFlags' BY DEF TypeFlags
<1>2. TypeMain'
  <2>1. UNCHANGED frameVars OBVIOUS
  <2>2. pc' \in [Frames -> FramePcs] BY DEF TypeMain, FramePcs
  <2>3. stack' = stack \/ stack' = <<k>> \o stack  OBVIOUS
  <2>4. k \in Frames OBVIOUS
  <2>5. stack' \in Seq(Frames) /\ Len(stack') > 0 /\ stack'[Len(stack')] = Main
    BY <2>3, <2>4, StackPush, SMTT(40) DEF TypeMain
  <2>. QED BY <2>1, <2>2, <2>5 DEF TypeMain
<1>3. TypeDrain'  BY DEF TypeDrain
<1>4. TypeClient'  BY DEF TypeClient
<1>. QED BY <1>1, <1>2, <1>3, <1>4, <1>5, <1>6

LEMMA UnwindType ==
  ASSUME TypeOK, Unwind
  PROVE  TypeOK'
<1>4. TypeDrain'
  <2>1. UNCHANGED <<workVars, futureVars, tailVars>> BY DEF Unwind
  <2>2. TypeDrain BY DEF TypeOK
  <2>. QED BY <2>1, <2>2 DEF TypeDrain
<1>5. TypeClient'
  <2>1. UNCHANGED clientVars BY DEF Unwind
  <2>2. TypeClient BY DEF TypeOK
  <2>. QED BY <2>1, <2>2 DEF TypeClient
<1>7. /\ todo' \in [Frames -> SUBSET Sigs] /\ snapshot' \in [Occ -> SUBSET Ids]
      /\ sig' \in [Occ -> Sigs] /\ ret' \in [Frames -> FramePcs]
  <2>1. UNCHANGED frameVars BY DEF Unwind
  <2>2. TypeMain BY DEF TypeOK
  <2>. QED BY <2>1, <2>2 DEF TypeMain
<1>8. pc' \in [Frames -> FramePcs]
  <2>1. \E l \in FramePcs : pc' = [pc EXCEPT ![Top] = l] \/ pc' = [pc EXCEPT ![Main] = l]
    <3>1. CASE Top # Main  BY <3>1 DEF Unwind, Return, FramePcs
    <3>2. CASE Top = Main  BY <3>2 DEF Unwind, Handler, FramePcs, MainPcs
    <3>. QED BY <3>1, <3>2
  <2>2. TypeMain  BY DEF TypeOK
  <2>. QED BY <2>1, <2>2 DEF TypeMain
<1> USE DEF TypeOK, Unwind, Handler, Return, Top
<1>1. TypeCoord'  BY DEF TypeCoord, Phases
<1>2. TypeFlags'  BY DEF TypeFlags
<1>3. TypeMain'
  <2>1. stack' \in Seq(Frames) /\ Len(stack') > 0 /\ stack'[Len(stack')] = Main
    BY StackPop, SMTT(40) DEF TypeMain
  <2>. QED BY <1>7, <1>8, <2>1 DEF TypeMain
<1>6. TypeHistory'  BY DEF TypeHistory, TypeDrain
<1>. QED BY <1>1, <1>2, <1>3, <1>4, <1>5, <1>6

LEMMA MainStepType ==
  ASSUME TypeOK, MainStep
  PROVE  TypeOK'
<1> USE DEF TypeOK, MainStep, Install, InstallRollback, At, Goto
<1>1. TypeCoord'  BY DEF TypeCoord, Phases
<1>2. TypeFlags'  BY DEF TypeFlags
<1>3. TypeMain'
  <2>1. stack' \in Seq(Frames) /\ Len(stack') > 0 /\ stack'[Len(stack')] = Main
    BY DEF TypeMain
  <2>2. pc' \in [Frames -> FramePcs]  BY DEF TypeMain, FramePcs, MainPcs, ActivePcs, EscalatePcs, DetachPcs, RestorePcs
  <2>3. ret' \in [Frames -> FramePcs]  BY DEF TypeMain, FramePcs, MainPcs, ActivePcs, EscalatePcs, DetachPcs, RestorePcs
  <2>4. todo' \in [Frames -> SUBSET Sigs]  BY DEF TypeMain, TypeCoord
  <2>5. snapshot' \in [Occ -> SUBSET Ids] /\ sig' \in [Occ -> Sigs]  BY DEF TypeMain, TypeCoord
  <2>. QED BY <2>1, <2>2, <2>3, <2>4, <2>5 DEF TypeMain
<1>4. TypeDrain'  BY DEF TypeDrain, WorkerPcs, TypeMain
<1>5. TypeClient'  BY DEF TypeClient
<1>6. TypeHistory'  BY DEF TypeHistory, TypeDrain
<1>. QED BY <1>1, <1>2, <1>3, <1>4, <1>5, <1>6

LEMMA MainReturnsType ==
  ASSUME TypeOK, MainReturns
  PROVE  TypeOK'
<1> USE DEF TypeOK, MainReturns, At, Goto
<1>1. TypeCoord'  BY DEF TypeCoord, Phases
<1>2. TypeFlags'  BY DEF TypeFlags
<1>3. TypeMain'
  <2>1. stack' \in Seq(Frames) /\ Len(stack') > 0 /\ stack'[Len(stack')] = Main
    BY DEF TypeMain
  <2>2. pc' \in [Frames -> FramePcs]  BY DEF TypeMain, FramePcs, MainPcs, ActivePcs, EscalatePcs, DetachPcs, RestorePcs
  <2>3. ret' \in [Frames -> FramePcs]  BY DEF TypeMain, FramePcs, MainPcs, ActivePcs, EscalatePcs, DetachPcs, RestorePcs
  <2>4. todo' \in [Frames -> SUBSET Sigs]  BY DEF TypeMain, TypeCoord
  <2>5. snapshot' \in [Occ -> SUBSET Ids] /\ sig' \in [Occ -> Sigs]  BY DEF TypeMain, TypeCoord
  <2>. QED BY <2>1, <2>2, <2>3, <2>4, <2>5 DEF TypeMain
<1>4. TypeDrain'  BY DEF TypeDrain, WorkerPcs, TypeMain
<1>5. TypeClient'  BY DEF TypeClient
<1>6. TypeHistory'  BY DEF TypeHistory, TypeDrain
<1>. QED BY <1>1, <1>2, <1>3, <1>4, <1>5, <1>6

LEMMA FinallyType ==
  ASSUME TypeOK, Finally
  PROVE  TypeOK'
<1> USE DEF TypeOK, Finally, At, Goto
<1>1. TypeCoord'  BY DEF TypeCoord, Phases
<1>2. TypeFlags'  BY DEF TypeFlags
<1>3. TypeMain'
  <2>1. stack' \in Seq(Frames) /\ Len(stack') > 0 /\ stack'[Len(stack')] = Main
    BY DEF TypeMain
  <2>2. pc' \in [Frames -> FramePcs]  BY DEF TypeMain, FramePcs, MainPcs, ActivePcs, EscalatePcs, DetachPcs, RestorePcs
  <2>3. ret' \in [Frames -> FramePcs]  BY DEF TypeMain, FramePcs, MainPcs, ActivePcs, EscalatePcs, DetachPcs, RestorePcs
  <2>4. todo' \in [Frames -> SUBSET Sigs]  BY DEF TypeMain, TypeCoord
  <2>5. snapshot' \in [Occ -> SUBSET Ids] /\ sig' \in [Occ -> Sigs]  BY DEF TypeMain, TypeCoord
  <2>. QED BY <2>1, <2>2, <2>3, <2>4, <2>5 DEF TypeMain
<1>4. TypeDrain'  BY DEF TypeDrain, WorkerPcs, TypeMain
<1>5. TypeClient'  BY DEF TypeClient
<1>6. TypeHistory'  BY DEF TypeHistory, TypeDrain
<1>. QED BY <1>1, <1>2, <1>3, <1>4, <1>5, <1>6

LEMMA UninstallType ==
  ASSUME TypeOK, Uninstall
  PROVE  TypeOK'
<1> USE DEF TypeOK, Uninstall, At, Goto
<1>1. TypeCoord'  BY DEF TypeCoord, Phases
<1>2. TypeFlags'  BY DEF TypeFlags
<1>3. TypeMain'
  <2>1. stack' \in Seq(Frames) /\ Len(stack') > 0 /\ stack'[Len(stack')] = Main
    BY DEF TypeMain
  <2>2. pc' \in [Frames -> FramePcs]  BY DEF TypeMain, FramePcs, MainPcs, ActivePcs, EscalatePcs, DetachPcs, RestorePcs
  <2>3. ret' \in [Frames -> FramePcs]  BY DEF TypeMain, FramePcs, MainPcs, ActivePcs, EscalatePcs, DetachPcs, RestorePcs
  <2>4. todo' \in [Frames -> SUBSET Sigs]  BY DEF TypeMain, TypeCoord
  <2>5. snapshot' \in [Occ -> SUBSET Ids] /\ sig' \in [Occ -> Sigs]  BY DEF TypeMain, TypeCoord
  <2>. QED BY <2>1, <2>2, <2>3, <2>4, <2>5 DEF TypeMain
<1>4. TypeDrain'  BY DEF TypeDrain, WorkerPcs, TypeMain
<1>5. TypeClient'  BY DEF TypeClient
<1>6. TypeHistory'  BY DEF TypeHistory, TypeDrain
<1>. QED BY <1>1, <1>2, <1>3, <1>4, <1>5, <1>6

LEMMA RestoreHandlersType ==
  ASSUME TypeOK, NEW f \in Frames, RestoreHandlers(f)
  PROVE  TypeOK'
<1> USE DEF TypeOK, RestoreHandlers, At, Goto
<1>1. TypeCoord'  BY DEF TypeCoord, Phases
<1>2. TypeFlags'  BY DEF TypeFlags
<1>3. TypeMain'
  <2>1. stack' \in Seq(Frames) /\ Len(stack') > 0 /\ stack'[Len(stack')] = Main
    BY DEF TypeMain
  <2>2. pc' \in [Frames -> FramePcs]  BY DEF TypeMain, FramePcs, MainPcs, ActivePcs, EscalatePcs, DetachPcs, RestorePcs
  <2>3. ret' \in [Frames -> FramePcs]  BY DEF TypeMain, FramePcs, MainPcs, ActivePcs, EscalatePcs, DetachPcs, RestorePcs
  <2>4. todo' \in [Frames -> SUBSET Sigs]  BY DEF TypeMain, TypeCoord
  <2>5. snapshot' \in [Occ -> SUBSET Ids] /\ sig' \in [Occ -> Sigs]  BY DEF TypeMain, TypeCoord
  <2>. QED BY <2>1, <2>2, <2>3, <2>4, <2>5 DEF TypeMain
<1>4. TypeDrain'  BY DEF TypeDrain, WorkerPcs, TypeMain
<1>5. TypeClient'  BY DEF TypeClient
<1>6. TypeHistory'  BY DEF TypeHistory, TypeDrain
<1>. QED BY <1>1, <1>2, <1>3, <1>4, <1>5, <1>6

LEMMA EntryType ==
  ASSUME TypeOK, NEW k \in Occ, Entry(k)
  PROVE  TypeOK'
<1> USE DEF TypeOK, Entry, At, Goto
<1>1. TypeCoord'  BY DEF TypeCoord, Phases
<1>2. TypeFlags'  BY DEF TypeFlags
<1>3. TypeMain'
  <2>1. stack' \in Seq(Frames) /\ Len(stack') > 0 /\ stack'[Len(stack')] = Main
    BY DEF TypeMain
  <2>2. pc' \in [Frames -> FramePcs]  BY DEF TypeMain, FramePcs, MainPcs, ActivePcs, EscalatePcs, DetachPcs, RestorePcs
  <2>3. ret' \in [Frames -> FramePcs]  BY DEF TypeMain, FramePcs, MainPcs, ActivePcs, EscalatePcs, DetachPcs, RestorePcs
  <2>4. todo' \in [Frames -> SUBSET Sigs]  BY DEF TypeMain, TypeCoord
  <2>5. snapshot' \in [Occ -> SUBSET Ids] /\ sig' \in [Occ -> Sigs]  BY DEF TypeMain, TypeCoord
  <2>. QED BY <2>1, <2>2, <2>3, <2>4, <2>5 DEF TypeMain
<1>4. TypeDrain'  BY DEF TypeDrain, WorkerPcs, TypeMain
<1>5. TypeClient'  BY DEF TypeClient
<1>6. TypeHistory'  BY DEF TypeHistory, TypeDrain
<1>. QED BY <1>1, <1>2, <1>3, <1>4, <1>5, <1>6

LEMMA CancelTokenType ==
  ASSUME TypeOK, NEW k \in Occ, CancelToken(k)
  PROVE  TypeOK'
<1> USE DEF TypeOK, CancelToken, At, Goto
<1>1. TypeCoord'  BY DEF TypeCoord, Phases
<1>2. TypeFlags'  BY DEF TypeFlags
<1>3. TypeMain'
  <2>1. stack' \in Seq(Frames) /\ Len(stack') > 0 /\ stack'[Len(stack')] = Main
    BY DEF TypeMain
  <2>2. pc' \in [Frames -> FramePcs]  BY DEF TypeMain, FramePcs, MainPcs, ActivePcs, EscalatePcs, DetachPcs, RestorePcs
  <2>3. ret' \in [Frames -> FramePcs]  BY DEF TypeMain, FramePcs, MainPcs, ActivePcs, EscalatePcs, DetachPcs, RestorePcs
  <2>4. todo' \in [Frames -> SUBSET Sigs]  BY DEF TypeMain, TypeCoord
  <2>5. snapshot' \in [Occ -> SUBSET Ids] /\ sig' \in [Occ -> Sigs]  BY DEF TypeMain, TypeCoord
  <2>. QED BY <2>1, <2>2, <2>3, <2>4, <2>5 DEF TypeMain
<1>4. TypeDrain'  BY DEF TypeDrain, WorkerPcs, TypeMain
<1>5. TypeClient'  BY DEF TypeClient
<1>6. TypeHistory'  BY DEF TypeHistory, TypeDrain
<1>. QED BY <1>1, <1>2, <1>3, <1>4, <1>5, <1>6

LEMMA FreezeType ==
  ASSUME TypeOK, NEW k \in Occ, Freeze(k)
  PROVE  TypeOK'
<1> USE DEF TypeOK, Freeze, At, Goto
<1>1. TypeCoord'
  <2>1. phase' \in Phases /\ triggering_signal' \in 0 .. MaxSignals  BY DEF TypeCoord, Phases
  <2>2. /\ registrations' \in SUBSET Ids /\ registration_snapshot' \in SUBSET Ids
        /\ frozen_identifiers' \in SUBSET Ids
    BY DEF TypeCoord, TypeMain
  <2>. QED BY <2>1, <2>2 DEF TypeCoord
<1>2. TypeFlags'  BY DEF TypeFlags
<1>3. TypeMain'
  <2>1. stack' \in Seq(Frames) /\ Len(stack') > 0 /\ stack'[Len(stack')] = Main
    BY DEF TypeMain
  <2>2. pc' \in [Frames -> FramePcs]  BY DEF TypeMain, FramePcs, MainPcs, ActivePcs, EscalatePcs, DetachPcs, RestorePcs
  <2>3. ret' \in [Frames -> FramePcs]  BY DEF TypeMain, FramePcs, MainPcs, ActivePcs, EscalatePcs, DetachPcs, RestorePcs
  <2>4. todo' \in [Frames -> SUBSET Sigs]  BY DEF TypeMain, TypeCoord
  <2>5. snapshot' \in [Occ -> SUBSET Ids] /\ sig' \in [Occ -> Sigs]
    <3>1. snapshot' = snapshot \/ snapshot' = [snapshot EXCEPT ![k] = registration_snapshot]  OBVIOUS
    <3>2. \A j \in Occ : snapshot'[j] \in SUBSET Ids  BY <3>1, ZenonT(60) DEF TypeMain, TypeCoord
    <3>. QED BY <3>1, <3>2 DEF TypeMain
  <2>. QED BY <2>1, <2>2, <2>3, <2>4, <2>5 DEF TypeMain
<1>4. TypeDrain'  BY DEF TypeDrain, WorkerPcs, TypeMain
<1>5. TypeClient'  BY DEF TypeClient
<1>6. TypeHistory'  BY DEF TypeHistory, TypeDrain
<1>. QED BY <1>1, <1>2, <1>3, <1>4, <1>5, <1>6

LEMMA SpawnWorkerType ==
  ASSUME TypeOK, NEW k \in Occ, SpawnWorker(k)
  PROVE  TypeOK'
<1> USE DEF TypeOK, SpawnWorker, At, Return, Top
<1>1. TypeCoord'  BY DEF TypeCoord, Phases
<1>2. TypeFlags'  BY DEF TypeFlags
<1>3. TypeMain'
  <2>1. stack' \in Seq(Frames) /\ Len(stack') > 0 /\ stack'[Len(stack')] = Main
    BY StackPop DEF TypeMain
  <2>2. pc' \in [Frames -> FramePcs]  BY DEF TypeMain, FramePcs, MainPcs, ActivePcs, EscalatePcs, DetachPcs, RestorePcs
  <2>3. ret' \in [Frames -> FramePcs]  BY DEF TypeMain, FramePcs, MainPcs, ActivePcs, EscalatePcs, DetachPcs, RestorePcs
  <2>4. todo' \in [Frames -> SUBSET Sigs]  BY DEF TypeMain, TypeCoord
  <2>5. snapshot' \in [Occ -> SUBSET Ids] /\ sig' \in [Occ -> Sigs]  BY DEF TypeMain, TypeCoord
  <2>. QED BY <2>1, <2>2, <2>3, <2>4, <2>5 DEF TypeMain
<1>4. TypeDrain'  BY DEF TypeDrain, WorkerPcs, TypeMain
<1>5. TypeClient'  BY DEF TypeClient
<1>6. TypeHistory'  BY DEF TypeHistory, TypeDrain
<1>. QED BY <1>1, <1>2, <1>3, <1>4, <1>5, <1>6

LEMMA EscalateType ==
  ASSUME TypeOK, NEW k \in Occ, Escalate(k)
  PROVE  TypeOK'
<1> USE DEF TypeOK, Escalate, CancelActiveFuture, At, Goto
<1>1. TypeCoord'  BY DEF TypeCoord, Phases
<1>2. TypeFlags'  BY DEF TypeFlags
<1>3. TypeMain'
  <2>1. stack' \in Seq(Frames) /\ Len(stack') > 0 /\ stack'[Len(stack')] = Main
    BY DEF TypeMain
  <2>2. pc' \in [Frames -> FramePcs]
    <3>1. \E l \in {"aborting", "cancelFuture", "detach"} : pc' = [pc EXCEPT ![k] = l]  OBVIOUS
    <3>. QED BY <3>1 DEF TypeMain, FramePcs, EscalatePcs, DetachPcs
  <2>3. ret' \in [Frames -> FramePcs]  BY DEF TypeMain, FramePcs, MainPcs, ActivePcs, EscalatePcs, DetachPcs, RestorePcs
  <2>4. todo' \in [Frames -> SUBSET Sigs]  BY DEF TypeMain, TypeCoord
  <2>5. snapshot' \in [Occ -> SUBSET Ids] /\ sig' \in [Occ -> Sigs]  BY DEF TypeMain, TypeCoord
  <2>. QED BY <2>1, <2>2, <2>3, <2>4, <2>5 DEF TypeMain
<1>4. TypeDrain'  BY DEF TypeDrain, WorkerPcs, TypeMain
<1>5. TypeClient'  BY DEF TypeClient
<1>6. TypeHistory'  BY DEF TypeHistory, TypeDrain
<1>. QED BY <1>1, <1>2, <1>3, <1>4, <1>5, <1>6

LEMMA DetachType ==
  ASSUME TypeOK, NEW f \in Frames, Detach(f)
  PROVE  TypeOK'
<1> USE DEF TypeOK, Detach, At, Goto
<1>1. TypeCoord'  BY DEF TypeCoord, Phases
<1>2. TypeFlags'  BY DEF TypeFlags
<1>3. TypeMain'
  <2>1. stack' \in Seq(Frames) /\ Len(stack') > 0 /\ stack'[Len(stack')] = Main
    BY DEF TypeMain
  <2>2. pc' \in [Frames -> FramePcs]  BY DEF TypeMain, FramePcs, MainPcs, ActivePcs, EscalatePcs, DetachPcs, RestorePcs
  <2>3. ret' \in [Frames -> FramePcs]  BY DEF TypeMain, FramePcs, MainPcs, ActivePcs, EscalatePcs, DetachPcs, RestorePcs
  <2>4. todo' \in [Frames -> SUBSET Sigs]  BY DEF TypeMain, TypeCoord
  <2>5. snapshot' \in [Occ -> SUBSET Ids] /\ sig' \in [Occ -> Sigs]  BY DEF TypeMain, TypeCoord
  <2>. QED BY <2>1, <2>2, <2>3, <2>4, <2>5 DEF TypeMain
<1>4. TypeDrain'  BY DEF TypeDrain, WorkerPcs, TypeMain
<1>5. TypeClient'  BY DEF TypeClient
<1>6. TypeHistory'  BY DEF TypeHistory, TypeDrain
<1>. QED BY <1>1, <1>2, <1>3, <1>4, <1>5, <1>6

LEMMA RaiseSignalType ==
  ASSUME TypeOK, NEW k \in Occ, RaiseSignal(k)
  PROVE  TypeOK'
<1> USE DEF TypeOK, RaiseSignal, At, Return, Top, PriorHandles
<1>1. TypeCoord'  BY DEF TypeCoord, Phases
<1>2. TypeFlags'  BY DEF TypeFlags
<1>3. TypeMain'
  <2>1. stack' \in Seq(Frames) /\ Len(stack') > 0 /\ stack'[Len(stack')] = Main
    BY StackPop DEF TypeMain
  <2>2. pc' \in [Frames -> FramePcs]  BY DEF TypeMain, FramePcs, MainPcs, ActivePcs, EscalatePcs, DetachPcs, RestorePcs
  <2>3. ret' \in [Frames -> FramePcs]  BY DEF TypeMain, FramePcs, MainPcs, ActivePcs, EscalatePcs, DetachPcs, RestorePcs
  <2>4. todo' \in [Frames -> SUBSET Sigs]  BY DEF TypeMain, TypeCoord
  <2>5. snapshot' \in [Occ -> SUBSET Ids] /\ sig' \in [Occ -> Sigs]  BY DEF TypeMain, TypeCoord
  <2>. QED BY <2>1, <2>2, <2>3, <2>4, <2>5 DEF TypeMain
<1>4. TypeDrain'  BY DEF TypeDrain, WorkerPcs, TypeMain
<1>5. TypeClient'  BY DEF TypeClient
<1>6. TypeHistory'
  <2>1. delivered' = delivered \/ delivered' = [delivered EXCEPT ![k] = @ + 1]  OBVIOUS
  <2>2. UNCHANGED <<tokenVars, runs>>  OBVIOUS
  <2>. QED BY <2>1, <2>2 DEF TypeHistory
<1>. QED BY <1>1, <1>2, <1>3, <1>4, <1>5, <1>6

LEMMA BeginFinalizeType ==
  ASSUME TypeOK, BeginFinalize
  PROVE  TypeOK'
<1> USE DEF TypeOK, BeginFinalize, At, Goto
<1>1. TypeCoord'  BY DEF TypeCoord, Phases
<1>2. TypeFlags'  BY DEF TypeFlags
<1>3. TypeMain'
  <2>1. stack' \in Seq(Frames) /\ Len(stack') > 0 /\ stack'[Len(stack')] = Main
    BY StackPush DEF TypeMain
  <2>2. pc' \in [Frames -> FramePcs]  BY DEF TypeMain, FramePcs, MainPcs, ActivePcs, EscalatePcs, DetachPcs, RestorePcs
  <2>3. ret' \in [Frames -> FramePcs]  BY DEF TypeMain, FramePcs, MainPcs, ActivePcs, EscalatePcs, DetachPcs, RestorePcs
  <2>4. todo' \in [Frames -> SUBSET Sigs]  BY DEF TypeMain, TypeCoord
  <2>5. snapshot' \in [Occ -> SUBSET Ids] /\ sig' \in [Occ -> Sigs]  BY DEF TypeMain, TypeCoord
  <2>. QED BY <2>1, <2>2, <2>3, <2>4, <2>5 DEF TypeMain
<1>4. TypeDrain'  BY DEF TypeDrain, WorkerPcs, TypeMain
<1>5. TypeClient'  BY DEF TypeClient
<1>6. TypeHistory'  BY DEF TypeHistory, TypeDrain
<1>. QED BY <1>1, <1>2, <1>3, <1>4, <1>5, <1>6

LEMMA FinalizeType ==
  ASSUME TypeOK, Finalize
  PROVE  TypeOK'
<1> USE DEF TypeOK, Finalize, At, Goto, Return, Top
<1>1. TypeCoord'  BY DEF TypeCoord, Phases
<1>2. TypeFlags'  BY DEF TypeFlags
<1>3. TypeMain'
  <2>1. stack' \in Seq(Frames) /\ Len(stack') > 0 /\ stack'[Len(stack')] = Main
    BY StackPop DEF TypeMain
  <2>2. pc' \in [Frames -> FramePcs]  BY DEF TypeMain, FramePcs, MainPcs, ActivePcs, EscalatePcs, DetachPcs, RestorePcs
  <2>3. ret' \in [Frames -> FramePcs]  BY DEF TypeMain, FramePcs, MainPcs, ActivePcs, EscalatePcs, DetachPcs, RestorePcs
  <2>4. todo' \in [Frames -> SUBSET Sigs]  BY DEF TypeMain, TypeCoord
  <2>5. snapshot' \in [Occ -> SUBSET Ids] /\ sig' \in [Occ -> Sigs]  BY DEF TypeMain, TypeCoord
  <2>. QED BY <2>1, <2>2, <2>3, <2>4, <2>5 DEF TypeMain
<1>4. TypeDrain'
  <2>1. helpers' = helpers \/ helpers' = [helpers EXCEPT ![triggering_signal] = @ + 1]  OBVIOUS
  <2>2. helpers' \in [Occ -> Nat]
    <3>1. \A k \in Occ : helpers'[k] \in Nat  BY <2>1, SMTT(40) DEF TypeDrain
    <3>. QED BY <2>1, <3>1 DEF TypeDrain
  <2>. QED BY <2>2 DEF TypeDrain
<1>5. TypeClient'  BY DEF TypeClient
<1>6. TypeHistory'  BY DEF TypeHistory, TypeDrain
<1>. QED BY <1>1, <1>2, <1>3, <1>4, <1>5, <1>6

LEMMA RedeliverType ==
  ASSUME TypeOK, NEW k \in Occ, Redeliver(k)
  PROVE  TypeOK'
<1> USE DEF TypeOK, Redeliver, PriorHandles
<1>1. TypeCoord'  BY DEF TypeCoord, Phases
<1>2. TypeFlags'  BY DEF TypeFlags
<1>3. TypeMain'  BY DEF TypeMain, FramePcs, MainPcs
<1>4. TypeDrain'
  <2>1. wpc' \in [Occ -> WorkerPcs]  BY DEF TypeDrain, WorkerPcs
  <2>2. wtodo' \in [Occ -> SUBSET Ids]  BY DEF TypeDrain
  <2>3. wid' \in [Occ -> Ids \cup {0}]  BY DEF TypeDrain
  <2>4. future' \in [Ids -> {"none", "running", "cancelled", "done"}]  BY DEF TypeDrain
  <2>5. active_async_future' \in Ids \cup {0}  BY DEF TypeDrain
  <2>6. pending' \in Nat  BY DEF TypeDrain
  <2>7. helpers' \in [Occ -> Nat]  BY DEF TypeDrain
  <2>. QED BY <2>1, <2>2, <2>3, <2>4, <2>5, <2>6, <2>7 DEF TypeDrain
<1>5. TypeClient'  BY DEF TypeClient
<1>6. TypeHistory'
  <2>1. delivered' = delivered \/ delivered' = [delivered EXCEPT ![k] = @ + 1]  OBVIOUS
  <2>2. UNCHANGED <<tokenVars, runs>>  OBVIOUS
  <2>. QED BY <2>1, <2>2 DEF TypeHistory
<1>. QED BY <1>1, <1>2, <1>3, <1>4, <1>5, <1>6

LEMMA DrainLoopType ==
  ASSUME TypeOK, NEW k \in Occ, DrainLoop(k)
  PROVE  TypeOK'
<1> USE DEF TypeOK, DrainLoop, WAt, WGoto, Latest
<1>1. TypeCoord'  BY DEF TypeCoord, Phases
<1>2. TypeFlags'  BY DEF TypeFlags
<1>3. TypeMain'  BY DEF TypeMain, FramePcs, MainPcs
<1>4. TypeDrain'
  <2>1. wpc' \in [Occ -> WorkerPcs]  BY DEF TypeDrain, WorkerPcs
  <2>2. wtodo' \in [Occ -> SUBSET Ids]  BY DEF TypeDrain
  <2>3. wid' \in [Occ -> Ids \cup {0}]  BY DEF TypeDrain
  <2>4. future' \in [Ids -> {"none", "running", "cancelled", "done"}]  BY DEF TypeDrain
  <2>5. active_async_future' \in Ids \cup {0}  BY DEF TypeDrain
  <2>6. pending' \in Nat  BY DEF TypeDrain
  <2>7. helpers' \in [Occ -> Nat]  BY DEF TypeDrain
  <2>. QED BY <2>1, <2>2, <2>3, <2>4, <2>5, <2>6, <2>7 DEF TypeDrain
<1>5. TypeClient'  BY DEF TypeClient
<1>6. TypeHistory'  BY DEF TypeHistory, TypeDrain
<1>. QED BY <1>1, <1>2, <1>3, <1>4, <1>5, <1>6

LEMMA RunRegistrationType ==
  ASSUME TypeOK, NEW k \in Occ, RunRegistration(k)
  PROVE  TypeOK'
<1> USE DEF TypeOK, RunRegistration, AwaitFuture, WAt, WGoto
<1>1. TypeCoord'  BY DEF TypeCoord, Phases
<1>2. TypeFlags'  BY DEF TypeFlags
<1>3. TypeMain'  BY DEF TypeMain, FramePcs, MainPcs
<1>4. TypeDrain'
  <2>1. wpc' \in [Occ -> WorkerPcs]  BY DEF TypeDrain, WorkerPcs
  <2>2. wtodo' \in [Occ -> SUBSET Ids]  BY DEF TypeDrain
  <2>3. wid' \in [Occ -> Ids \cup {0}]  BY DEF TypeDrain
  <2>4. future' \in [Ids -> {"none", "running", "cancelled", "done"}]  BY ZenonT(60) DEF TypeDrain
  <2>5. active_async_future' \in Ids \cup {0}  BY DEF TypeDrain
  <2>6. pending' \in Nat  BY DEF TypeDrain
  <2>7. helpers' \in [Occ -> Nat]  BY DEF TypeDrain
  <2>. QED BY <2>1, <2>2, <2>3, <2>4, <2>5, <2>6, <2>7 DEF TypeDrain
<1>5. TypeClient'  BY DEF TypeClient
<1>6. TypeHistory'
  <2>1. runs' = runs \/ runs' = [runs EXCEPT ![wid[k]] = @ + 1]  OBVIOUS
  <2>2. UNCHANGED <<tokenVars, delivered>>  OBVIOUS
  <2>3. \A i \in Ids : runs'[i] \in Nat  BY <2>1 DEF TypeHistory
  <2>. QED BY <2>1, <2>2, <2>3 DEF TypeHistory
<1>. QED BY <1>1, <1>2, <1>3, <1>4, <1>5, <1>6

LEMMA FinishDrainType ==
  ASSUME TypeOK, NEW k \in Occ, FinishDrain(k)
  PROVE  TypeOK'
<1> USE DEF TypeOK, FinishDrain, WAt, WGoto
<1>1. TypeCoord'  BY DEF TypeCoord, Phases
<1>2. TypeFlags'  BY DEF TypeFlags
<1>3. TypeMain'  BY DEF TypeMain, FramePcs, MainPcs
<1>4. TypeDrain'
  <2>1. wpc' \in [Occ -> WorkerPcs]  BY DEF TypeDrain, WorkerPcs
  <2>2. wtodo' \in [Occ -> SUBSET Ids]  BY DEF TypeDrain
  <2>3. wid' \in [Occ -> Ids \cup {0}]  BY DEF TypeDrain
  <2>4. future' \in [Ids -> {"none", "running", "cancelled", "done"}]  BY DEF TypeDrain
  <2>5. active_async_future' \in Ids \cup {0}  BY DEF TypeDrain
  <2>6. pending' \in Nat  BY DEF TypeDrain
  <2>7. helpers' \in [Occ -> Nat]  BY DEF TypeDrain
  <2>. QED BY <2>1, <2>2, <2>3, <2>4, <2>5, <2>6, <2>7 DEF TypeDrain
<1>5. TypeClient'  BY DEF TypeClient
<1>6. TypeHistory'  BY DEF TypeHistory, TypeDrain
<1>. QED BY <1>1, <1>2, <1>3, <1>4, <1>5, <1>6

LEMMA CoroutineEndsType ==
  ASSUME TypeOK, NEW i \in Ids, CoroutineEnds(i)
  PROVE  TypeOK'
<1> USE DEF TypeOK, CoroutineEnds
<1>1. TypeCoord'  BY DEF TypeCoord, Phases
<1>2. TypeFlags'  BY DEF TypeFlags
<1>3. TypeMain'  BY DEF TypeMain, FramePcs, MainPcs
<1>4. TypeDrain'  BY DEF TypeDrain, WorkerPcs, TypeMain
<1>5. TypeClient'  BY DEF TypeClient
<1>6. TypeHistory'  BY DEF TypeHistory, TypeDrain
<1>. QED BY <1>1, <1>2, <1>3, <1>4, <1>5, <1>6

LEMMA GraceExpiresType ==
  ASSUME TypeOK, GraceExpires
  PROVE  TypeOK'
<1> USE DEF TypeOK, GraceExpires
<1>1. TypeCoord'  BY DEF TypeCoord, Phases
<1>2. TypeFlags'  BY DEF TypeFlags
<1>3. TypeMain'  BY DEF TypeMain, FramePcs, MainPcs
<1>4. TypeDrain'  BY DEF TypeDrain, WorkerPcs, TypeMain
<1>5. TypeClient'  BY DEF TypeClient
<1>6. TypeHistory'  BY DEF TypeHistory, TypeDrain
<1>. QED BY <1>1, <1>2, <1>3, <1>4, <1>5, <1>6

LEMMA BeginRegisterType ==
  ASSUME TypeOK, NEW c \in Clients, BeginRegister(c), ClientOnly
  PROVE  TypeOK'
<1> USE DEF TypeOK, BeginRegister, ClientOnly, CAt, CGoto
<1>1. TypeCoord'  BY DEF TypeCoord, TypeClient
<1>2. TypeFlags'  BY DEF TypeFlags
<1>3. TypeMain'  BY DEF TypeMain, FramePcs, MainPcs
<1>4. TypeDrain'  BY DEF TypeDrain, WorkerPcs, TypeMain
<1>5. TypeClient'  BY DEF TypeClient, TypeCoord
<1>6. TypeHistory'  BY DEF TypeHistory, TypeClient
<1>. QED BY <1>1, <1>2, <1>3, <1>4, <1>5, <1>6

LEMMA BeginUnregisterType ==
  ASSUME TypeOK, NEW c \in Clients, BeginUnregister(c), ClientOnly
  PROVE  TypeOK'
<1> USE DEF TypeOK, BeginUnregister, ClientOnly, CAt, CGoto
<1>1. TypeCoord'  BY DEF TypeCoord, TypeClient
<1>2. TypeFlags'  BY DEF TypeFlags
<1>3. TypeMain'  BY DEF TypeMain, FramePcs, MainPcs
<1>4. TypeDrain'  BY DEF TypeDrain, WorkerPcs, TypeMain
<1>5. TypeClient'
  <2>1. cpc' \in [Clients -> {"idle", "copy", "publish", "snapshot", "verdict"}]  BY DEF TypeClient
  <2>2. cop' \in [Clients -> {"register", "rollback", "unregister"}]  BY DEF TypeClient
  <2>3. cid' \in [Clients -> Ids \cup {0}]  BY DEF TypeClient
  <2>5. copy' \in [Clients -> SUBSET Ids]
    <3>1. \A i \in Ids : registrations \ {i} \in SUBSET Ids  BY DEF TypeCoord
    <3>. QED BY <3>1 DEF TypeClient
  <2>4. \A d \in Clients : cpc'[d] # "idle" => cid'[d] \in Ids  BY DEF TypeClient
  <2>. QED BY <2>1, <2>2, <2>3, <2>4, <2>5 DEF TypeClient
<1>6. TypeHistory'  BY DEF TypeHistory, TypeClient
<1>. QED BY <1>1, <1>2, <1>3, <1>4, <1>5, <1>6

LEMMA CopyRegistryType ==
  ASSUME TypeOK, NEW c \in Clients, CopyRegistry(c), ClientOnly
  PROVE  TypeOK'
<1> USE DEF TypeOK, CopyRegistry, ClientOnly, CAt, CGoto
<1>1. TypeCoord'  BY DEF TypeCoord, TypeClient
<1>2. TypeFlags'  BY DEF TypeFlags
<1>3. TypeMain'  BY DEF TypeMain, FramePcs, MainPcs
<1>4. TypeDrain'  BY DEF TypeDrain, WorkerPcs, TypeMain
<1>5. TypeClient'  BY DEF TypeClient, TypeCoord
<1>6. TypeHistory'  BY DEF TypeHistory, TypeClient
<1>. QED BY <1>1, <1>2, <1>3, <1>4, <1>5, <1>6

LEMMA PublishType ==
  ASSUME TypeOK, NEW c \in Clients, Publish(c), ClientOnly
  PROVE  TypeOK'
<1> USE DEF TypeOK, Publish, ClientOnly, CAt, CGoto
<1>1. TypeCoord'  BY DEF TypeCoord, TypeClient
<1>2. TypeFlags'  BY DEF TypeFlags
<1>3. TypeMain'  BY DEF TypeMain, FramePcs, MainPcs
<1>4. TypeDrain'  BY DEF TypeDrain, WorkerPcs, TypeMain
<1>5. TypeClient'  BY DEF TypeClient, TypeCoord
<1>6. TypeHistory'  BY DEF TypeHistory, TypeClient
<1>. QED BY <1>1, <1>2, <1>3, <1>4, <1>5, <1>6

LEMMA PublishSnapshotType ==
  ASSUME TypeOK, NEW c \in Clients, PublishSnapshot(c), ClientOnly
  PROVE  TypeOK'
<1> USE DEF TypeOK, PublishSnapshot, ClientOnly, CAt, CGoto
<1>1. TypeCoord'  BY DEF TypeCoord, TypeClient
<1>2. TypeFlags'  BY DEF TypeFlags
<1>3. TypeMain'  BY DEF TypeMain, FramePcs, MainPcs
<1>4. TypeDrain'  BY DEF TypeDrain, WorkerPcs, TypeMain
<1>5. TypeClient'  BY DEF TypeClient, TypeCoord
<1>6. TypeHistory'  BY DEF TypeHistory, TypeClient
<1>. QED BY <1>1, <1>2, <1>3, <1>4, <1>5, <1>6

LEMMA VerdictType ==
  ASSUME TypeOK, NEW c \in Clients, Verdict(c), ClientOnly
  PROVE  TypeOK'
<1> USE DEF TypeOK, Verdict, ClientOnly, Leave, CAt, CGoto
<1>1. TypeCoord'  BY DEF TypeCoord, TypeClient
<1>2. TypeFlags'  BY DEF TypeFlags
<1>3. TypeMain'  BY DEF TypeMain, FramePcs, MainPcs
<1>4. TypeDrain'  BY DEF TypeDrain, WorkerPcs, TypeMain
<1>5. TypeClient'
  <2>1. cpc' \in [Clients -> {"idle", "copy", "publish", "snapshot", "verdict"}]  BY DEF TypeClient
  <2>2. cop' \in [Clients -> {"register", "rollback", "unregister"}]  BY DEF TypeClient
  <2>3. cid' \in [Clients -> Ids \cup {0}]  BY DEF TypeClient
  <2>5. copy' \in [Clients -> SUBSET Ids]
    <3>1. \A i \in Ids : registrations \ {i} \in SUBSET Ids  BY DEF TypeCoord
    <3>. QED BY <3>1 DEF TypeClient
  <2>4. \A d \in Clients : cpc'[d] # "idle" => cid'[d] \in Ids  BY DEF TypeClient
  <2>. QED BY <2>1, <2>2, <2>3, <2>4, <2>5 DEF TypeClient
<1>6. TypeHistory'  BY ZenonT(60) DEF TypeHistory, TypeClient
<1>. QED BY <1>1, <1>2, <1>3, <1>4, <1>5, <1>6

\* Every variable keeps its type, and the stack of the main thread its shape.
THEOREM TypeCorrect == Spec => []TypeOK
<1>1. TypeOK /\ [Next]_vars => TypeOK'
  <2> SUFFICES ASSUME TypeOK, [Next]_vars  PROVE TypeOK'
    OBVIOUS
  <2>1. CASE UNCHANGED vars
    BY <2>1, ZenonT(60) DEF vars, TypeOK, TypeCoord, TypeFlags, TypeMain, TypeDrain, TypeClient, TypeHistory
  <2>2. CASE MainThread
    BY <2>2, UnwindType, MainStepType, FinallyType, UninstallType, BeginFinalizeType, FinalizeType,
       EntryType, CancelTokenType, FreezeType, SpawnWorkerType, EscalateType, RaiseSignalType,
       RestoreHandlersType, DetachType
      DEF MainThread, OnSignal
  <2>3. ASSUME NEW k \in Occ, Worker(k)  PROVE TypeOK'
    BY <2>3, DrainLoopType, RunRegistrationType, FinishDrainType DEF Worker
  <2>4. ASSUME NEW c \in Clients, Client(c)  PROVE TypeOK'
    BY <2>4, BeginRegisterType, BeginUnregisterType, CopyRegistryType, PublishType,
       PublishSnapshotType, VerdictType
      DEF Client, ClientStep
  <2>. QED
    BY <2>1, <2>2, <2>3, <2>4, ArriveType, RedeliverType, MainReturnsType, GraceExpiresType,
       CoroutineEndsType
      DEF Next, Ended
<1>. QED BY <1>1, InitType, PTL DEF Spec

------------------------------------------------------------------------------
(* One shutdown drains once.                                                 *)

\* The workers and what they have run stay as they are.
WorkersKept == UNCHANGED <<wpc, wtodo, wid, runs>>

LEMMA RunsKept ==
  ASSUME DrainInv, WorkersKept
  PROVE  RunsAbove' /\ CleanupRunsOnce'
BY DEF DrainInv, WorkersKept, RunsAbove, CleanupRunsOnce

LEMMA InitDrain == Init => DrainInv
<1> SUFFICES ASSUME Init  PROVE DrainInv
  OBVIOUS
<1>1. /\ \A f \in Frames : pc[f] = IF f = Main THEN "mStart" ELSE "none"
      /\ \A f \in Frames : ret[f] = "none"
      /\ phase = "NEW" /\ pending = 0 /\ Top = Main
      /\ \A k \in Occ : wpc[k] = "none" /\ pc[k] = "none"
      /\ \A i \in Ids : runs[i] = 0
  BY DEF Init, Top
<1>2. OwnCode
  BY <1>1 DEF OwnCode, OwnAt, MainPcs, RestorePcs, ActivePcs, EscalatePcs, DetachPcs
<1>3. QuietBeforeShutdown
  BY <1>1 DEF QuietBeforeShutdown, QuietAt, Freezing, EscalatePcs, DetachPcs, RestorePcs
<1>4. InstallingIsNew /\ DecisionHolds  BY <1>1 DEF InstallingIsNew, DecisionHolds, Deciding
<1>5. OneDrainer  BY <1>1 DEF OneDrainer, Drainer, Freezing
<1>6. RunsAbove /\ CleanupRunsOnce  BY <1>1 DEF RunsAbove, CleanupRunsOnce
<1>. QED BY <1>2, <1>3, <1>4, <1>5, <1>6 DEF DrainInv

\* Activation f moves to l and no worker does: what such a step must respect.
LEMMA Move ==
  ASSUME TypeOK, DrainInv, NEW f \in Frames, NEW l,
         pc' = [pc EXCEPT ![f] = l], \A g \in Frames \ {f} : ret'[g] = ret[g],
         WorkersKept, OwnAt(f, l, ret'[f]), l \in Freezing => pc[f] \in Freezing,
         phase' \in {"NEW", "ACTIVE"} =>
            phase \in {"NEW", "ACTIVE"} /\ pending' = pending /\ QuietAt(f, l, ret'[f]),
         pc'[Main] \in InstallPcs => phase' = "NEW",
         \A k \in Occ : pc'[k] \in Deciding => phase' = "ACTIVE" /\ Top' = k
  PROVE  DrainInv'
<1>1. pc'[f] = l /\ \A g \in Frames \ {f} : pc'[g] = pc[g]  BY DEF TypeOK, TypeMain
<1>2. OwnCode'
  BY <1>1 DEF DrainInv, OwnCode
<1>3. QuietBeforeShutdown'
  BY <1>1 DEF DrainInv, QuietBeforeShutdown, WorkersKept
<1>4. InstallingIsNew' /\ DecisionHolds'  BY DEF InstallingIsNew, DecisionHolds
<1>5. OneDrainer'
  <2>1. \A k \in Occ : pc'[k] \in Freezing => pc[k] \in Freezing  BY <1>1
  <2>. QED BY <2>1 DEF DrainInv, OneDrainer, Drainer, WorkersKept
<1>. QED BY <1>2, <1>3, <1>4, <1>5, RunsKept DEF DrainInv

\* Only the activation on top can be one that decided to drain.
LEMMA OnlyTopDecides ==
  ASSUME TypeOK, DrainInv, NEW f \in Frames, Top = f, NEW l, l \notin Deciding,
         pc' = [pc EXCEPT ![f] = l]
  PROVE  \A k \in Occ : pc'[k] \notin Deciding
BY DEF TypeOK, TypeMain, DrainInv, DecisionHolds

LEMMA NothingMoves ==
  ASSUME DrainInv, UNCHANGED <<phase, pc, ret, stack, pending>>, WorkersKept
  PROVE  DrainInv'
<1>1. OwnCode' /\ QuietBeforeShutdown'
  BY DEF DrainInv, OwnCode, QuietBeforeShutdown, WorkersKept
<1>2. InstallingIsNew' /\ DecisionHolds'  BY DEF DrainInv, InstallingIsNew, DecisionHolds, Top
<1>3. OneDrainer'  BY DEF DrainInv, OneDrainer, Drainer, WorkersKept
<1>. QED BY <1>1, <1>2, <1>3, RunsKept DEF DrainInv

LEMMA ArriveDrain ==
  ASSUME TypeOK, DrainInv, ~Reentrant, NEW k \in Occ, Arrive(k)
  PROVE  DrainInv'
<1>1. PICK l \in {"entry", "done"} : pc' = [pc EXCEPT ![k] = l]
  BY DEF Arrive
<1>2. /\ UNCHANGED <<phase, ret, pending>> /\ WorkersKept
      /\ pc[Top] \notin EntryWindow /\ pc[k] = "none"
  BY DEF Arrive, WorkersKept
<1>3. \A j \in Occ : pc'[j] \notin Deciding
  BY <1>1, <1>2 DEF DrainInv, DecisionHolds, Deciding, EntryWindow, TypeOK, TypeMain
<1>4. OwnAt(k, l, ret'[k]) /\ QuietAt(k, l, ret'[k]) /\ l \notin Freezing
  BY DEF OwnAt, QuietAt, Freezing, RestorePcs, EscalatePcs, DetachPcs
<1>5. pc'[Main] \in InstallPcs => phase' = "NEW"
  BY <1>1, <1>2 DEF DrainInv, InstallingIsNew, TypeOK, TypeMain
<1>. QED BY <1>1, <1>2, <1>3, <1>4, <1>5, Move

LEMMA UnwindDrain ==
  ASSUME TypeOK, DrainInv, Unwind
  PROVE  DrainInv'
<1>1. PICK l : /\ pc' = [pc EXCEPT ![Top] = l]
               /\ \/ l = "done" /\ Top # Main
                  \/ Top = Main /\ l \in Handler(pc[Main])
  BY DEF Unwind, Return
<1>2. UNCHANGED <<phase, ret, pending>> /\ WorkersKept  BY DEF Unwind, WorkersKept
<1>3. Top \in Frames  BY StackTop DEF Top, TypeOK, TypeMain
<1>4. /\ l \in {"done", "mRollback", "exit", "finally"}
      /\ l = "mRollback" => Top = Main /\ pc[Main] \in InstallPcs
  BY <1>1 DEF Handler, InstallPcs
<1>5. OwnAt(Top, l, ret'[Top]) /\ l \notin Freezing \cup Deciding
  BY <1>1, <1>4 DEF OwnAt, Handler, Freezing, Deciding, MainPcs, RestorePcs
<1>6. QuietAt(Top, l, ret'[Top])
  BY <1>1, <1>4 DEF QuietAt, Freezing, RestorePcs, EscalatePcs, DetachPcs
<1>7. pc'[Main] \in InstallPcs => phase' = "NEW"
  BY <1>1, <1>2, <1>4 DEF DrainInv, InstallingIsNew, InstallPcs, TypeOK, TypeMain
<1>. QED BY <1>1, <1>2, <1>3, <1>5, <1>6, <1>7, Move, OnlyTopDecides

LEMMA MainStepDrain ==
  ASSUME TypeOK, DrainInv, MainStep
  PROVE  DrainInv'
<1>1. /\ Top = Main /\ pc[Main] \in InstallPcs /\ phase = "NEW"
      /\ UNCHANGED <<ret, pending, stack>> /\ WorkersKept
  BY DEF MainStep, Install, InstallRollback, At, Goto, InstallPcs, WorkersKept,
         DrainInv, InstallingIsNew
<1>2. CASE UNCHANGED <<pc, phase>>
  BY <1>1, <1>2, NothingMoves
<1>3. CASE ~UNCHANGED <<pc, phase>>
  <2>1. PICK l : /\ pc' = [pc EXCEPT ![Main] = l]
                 /\ \/ l \in InstallPcs \cup {"exit"} /\ phase' = "NEW"
                    \/ l = "mRun" /\ phase' = "ACTIVE"
    BY <1>1, <1>3 DEF MainStep, Install, InstallRollback, Goto, InstallPcs
  <2>2. OwnAt(Main, l, ret'[Main]) /\ QuietAt(Main, l, ret'[Main]) /\ l \notin Freezing \cup Deciding
    BY <2>1 DEF OwnAt, QuietAt, InstallPcs, Freezing, Deciding, MainPcs, RestorePcs
  <2>3. pc'[Main] \in InstallPcs => phase' = "NEW"
    BY <2>1 DEF InstallPcs, TypeOK, TypeMain
  <2>. QED BY <1>1, <2>1, <2>2, <2>3, Move, OnlyTopDecides
<1>. QED BY <1>2, <1>3

LEMMA MainReturnsDrain ==
  ASSUME TypeOK, DrainInv, MainReturns
  PROVE  DrainInv'
<1>1. /\ Top = Main /\ UNCHANGED <<phase, ret, pending, stack>> /\ WorkersKept
      /\ pc' = [pc EXCEPT ![Main] = "finally"]
  BY DEF MainReturns, At, Goto, WorkersKept
<1>2. /\ OwnAt(Main, "finally", ret'[Main]) /\ QuietAt(Main, "finally", ret'[Main])
      /\ "finally" \notin Freezing \cup Deciding \cup InstallPcs
  BY DEF OwnAt, QuietAt, Freezing, Deciding, MainPcs, RestorePcs, InstallPcs
<1>. QED BY <1>1, <1>2, Move, OnlyTopDecides DEF TypeOK, TypeMain

LEMMA FinallyDrain ==
  ASSUME TypeOK, DrainInv, Finally
  PROVE  DrainInv'
<1>1. /\ Top = Main /\ UNCHANGED <<phase, pending, stack>> /\ WorkersKept
      /\ \A g \in Frames \ {Main} : ret'[g] = ret[g]
  BY DEF Finally, At, Goto, WorkersKept, TypeOK, TypeMain
<1>2. CASE UNCHANGED <<pc, ret>>
  BY <1>1, <1>2, NothingMoves
<1>3. CASE ~UNCHANGED <<pc, ret>>
  <2>1. PICK l : /\ pc' = [pc EXCEPT ![Main] = l] /\ l \in {"uLock", "exit", "list"}
                 /\ l = "list" => ret'[Main] = "uRegs"
    BY <1>3 DEF Finally, At, Goto, TypeOK, TypeMain
  <2>2. /\ OwnAt(Main, l, ret'[Main]) /\ QuietAt(Main, l, ret'[Main])
        /\ l \notin Freezing \cup Deciding \cup InstallPcs
    BY <2>1 DEF OwnAt, QuietAt, Freezing, Deciding, MainPcs, RestorePcs, InstallPcs
  <2>3. pc'[Main] \notin InstallPcs  BY <2>1, <2>2 DEF TypeOK, TypeMain
  <2>. QED BY <1>1, <2>1, <2>2, <2>3, Move, OnlyTopDecides
<1>. QED BY <1>2, <1>3

LEMMA UninstallDrain ==
  ASSUME TypeOK, DrainInv, Uninstall
  PROVE  DrainInv'
<1>1. /\ Top = Main /\ UNCHANGED <<ret, pending, stack>> /\ WorkersKept
      /\ phase' \in {phase, "UNINSTALLED"}
  BY DEF Uninstall, At, Goto, WorkersKept
<1>2. PICK l \in {"uSnap", "uFrozen", "uDone", "exit"} : pc' = [pc EXCEPT ![Main] = l]
  BY DEF Uninstall, Goto
<1>3. /\ OwnAt(Main, l, ret'[Main]) /\ QuietAt(Main, l, ret'[Main])
      /\ l \notin Freezing \cup Deciding \cup InstallPcs
  BY DEF OwnAt, QuietAt, Freezing, Deciding, MainPcs, RestorePcs, InstallPcs
<1>4. pc'[Main] \notin InstallPcs  BY <1>2, <1>3 DEF TypeOK, TypeMain
<1>5. phase' \in {"NEW", "ACTIVE"} => phase \in {"NEW", "ACTIVE"}  BY <1>1
<1>. QED BY <1>1, <1>2, <1>3, <1>4, <1>5, Move, OnlyTopDecides

LEMMA RestoreHandlersDrain ==
  ASSUME TypeOK, DrainInv, NEW f \in Frames, RestoreHandlers(f)
  PROVE  DrainInv'
<1>1. /\ Top = f /\ UNCHANGED <<phase, ret, pending, stack>> /\ WorkersKept
      /\ pc[f] \in RestorePcs
  BY DEF RestoreHandlers, At, Goto, WorkersKept, RestorePcs
<1>2. CASE UNCHANGED pc
  BY <1>1, <1>2, NothingMoves
<1>3. CASE ~UNCHANGED pc
  <2>1. PICK l \in {"restore", "clear", ret[f]} : pc' = [pc EXCEPT ![f] = l]
    BY <1>3 DEF RestoreHandlers, At, Goto
  <2>2. OwnAt(f, pc[f], ret[f])  BY DEF DrainInv, OwnCode
  <2>3. ret[f] \in {"uRegs", "dDone", "raise"}  BY <1>1, <2>2 DEF OwnAt
  <2>4. OwnAt(f, l, ret'[f])
    BY <1>1, <2>1, <2>2 DEF OwnAt, MainPcs, RestorePcs, DetachPcs
  <2>5. phase \in {"NEW", "ACTIVE"} => QuietAt(f, l, ret'[f])
    <3>1. phase \in {"NEW", "ACTIVE"} => QuietAt(f, pc[f], ret[f])
      BY DEF DrainInv, QuietBeforeShutdown
    <3>. QED BY <1>1, <2>1, <3>1 DEF QuietAt, Freezing, RestorePcs, EscalatePcs, DetachPcs
  <2>6. l \notin Freezing \cup Deciding \cup InstallPcs
    BY <2>1, <2>3 DEF Freezing, Deciding, InstallPcs
  <2>7. pc'[Main] \in InstallPcs => phase' = "NEW"
    BY <1>1, <2>1, <2>6 DEF DrainInv, InstallingIsNew, TypeOK, TypeMain
  <2>. QED BY <1>1, <2>1, <2>4, <2>5, <2>6, <2>7, Move, OnlyTopDecides
<1>. QED BY <1>2, <1>3

LEMMA EntryDrain ==
  ASSUME TypeOK, DrainInv, NEW k \in Occ, Entry(k)
  PROVE  DrainInv'
<1>1. /\ Top = k /\ UNCHANGED <<phase, pending, stack>> /\ WorkersKept
      /\ \A g \in Frames \ {k} : ret'[g] = ret[g]
      /\ ret'[k] = "raise"
  BY DEF Entry, At, Goto, WorkersKept, TypeOK, TypeMain
<1>2. PICK l : /\ pc' = [pc EXCEPT ![k] = l]
               /\ \/ phase = "ACTIVE" /\ l = "cancel"
                  \/ phase \in {"DRAINING", "FINALIZING"} /\ l = "abort"
                  \/ l = "list"
  BY DEF Entry, Goto
<1>3. OwnAt(k, l, ret'[k]) /\ l \notin Freezing
  BY <1>1, <1>2 DEF OwnAt, ActivePcs, EscalatePcs, RestorePcs, Freezing
<1>4. phase \in {"NEW", "ACTIVE"} => QuietAt(k, l, ret'[k])
  BY <1>1, <1>2 DEF QuietAt, Freezing, EscalatePcs, DetachPcs, RestorePcs
<1>5. \A j \in Occ : pc'[j] \in Deciding => phase' = "ACTIVE" /\ Top' = j
  BY <1>1, <1>2 DEF TypeOK, TypeMain, DrainInv, DecisionHolds, Deciding, Top
<1>6. pc'[Main] \in InstallPcs => phase' = "NEW"
  BY <1>1, <1>2 DEF DrainInv, InstallingIsNew, TypeOK, TypeMain
<1>. QED BY <1>1, <1>2, <1>3, <1>4, <1>5, <1>6, Move

LEMMA CancelTokenDrain ==
  ASSUME TypeOK, DrainInv, NEW k \in Occ, CancelToken(k)
  PROVE  DrainInv'
<1>1. /\ Top = k /\ UNCHANGED <<phase, pending, stack, ret>> /\ WorkersKept
      /\ pc[k] \in Deciding
  BY DEF CancelToken, At, Goto, WorkersKept, Deciding
<1>2. PICK l \in {"cancelling", "drain"} : pc' = [pc EXCEPT ![k] = l]
  BY DEF CancelToken, Goto
<1>3. OwnAt(k, l, ret'[k]) /\ QuietAt(k, l, ret'[k]) /\ l \notin Freezing
  BY <1>2 DEF OwnAt, QuietAt, ActivePcs, EscalatePcs, DetachPcs, RestorePcs, Freezing
<1>5. \A j \in Occ : pc'[j] \in Deciding => phase' = "ACTIVE" /\ Top' = j
  BY <1>1, <1>2 DEF TypeOK, TypeMain, DrainInv, DecisionHolds, Top
<1>6. pc'[Main] \in InstallPcs => phase' = "NEW"
  BY <1>1, <1>2 DEF DrainInv, InstallingIsNew, TypeOK, TypeMain
<1>. QED BY <1>1, <1>2, <1>3, <1>5, <1>6, Move

LEMMA FreezeDrain ==
  ASSUME TypeOK, DrainInv, NEW k \in Occ, Freeze(k)
  PROVE  DrainInv'
<1>1. /\ Top = k /\ UNCHANGED <<pending, stack, ret>> /\ WorkersKept
  BY DEF Freeze, At, Goto, WorkersKept
<1>2. PICK l \in Freezing : /\ pc' = [pc EXCEPT ![k] = l]
                            /\ \/ pc[k] = "drain" /\ phase' = "DRAINING"
                               \/ pc[k] \in Freezing /\ phase' = phase
  BY DEF Freeze, At, Goto, Freezing
<1>3. OwnAt(k, l, ret'[k]) /\ l \notin Deciding \cup InstallPcs
  BY <1>2 DEF OwnAt, ActivePcs, EscalatePcs, DetachPcs, RestorePcs, Freezing, Deciding, InstallPcs
<1>4. \A j \in Occ : pc'[j] \notin Deciding
  BY <1>1, <1>2, <1>3, OnlyTopDecides
<1>5. phase' \notin {"NEW", "ACTIVE"}
  BY <1>2 DEF DrainInv, QuietBeforeShutdown, QuietAt, EscalatePcs, DetachPcs
<1>6. pc'[Main] \notin InstallPcs
  <2>1. pc'[Main] = pc[Main]  BY <1>2 DEF TypeOK, TypeMain
  <2>2. phase # "NEW"
    BY <1>2, <1>5 DEF DrainInv, DecisionHolds, Deciding
  <2>. QED BY <2>1, <2>2 DEF DrainInv, InstallingIsNew
<1>7. CASE pc[k] \in Freezing
  BY <1>1, <1>2, <1>3, <1>4, <1>5, <1>6, <1>7, Move
<1>8. CASE pc[k] = "drain"
  <2>1. phase = "ACTIVE"  BY <1>8 DEF DrainInv, DecisionHolds, Deciding
  <2>2. \A j \in Occ : wpc[j] = "none" /\ pc[j] \notin Freezing
    BY <2>1 DEF DrainInv, QuietBeforeShutdown, QuietAt
  <2>3. OneDrainer'
    BY <1>1, <1>2, <2>2 DEF OneDrainer, Drainer, WorkersKept, TypeOK, TypeMain
  <2>4. OwnCode'  BY <1>1, <1>2, <1>3 DEF DrainInv, OwnCode, TypeOK, TypeMain
  <2>5. QuietBeforeShutdown' /\ InstallingIsNew' /\ DecisionHolds'
    BY <1>4, <1>5, <1>6 DEF QuietBeforeShutdown, InstallingIsNew, DecisionHolds
  <2>. QED BY <1>1, <2>3, <2>4, <2>5, RunsKept DEF DrainInv
<1>. QED BY <1>2, <1>7, <1>8

LEMMA SpawnWorkerDrain ==
  ASSUME TypeOK, DrainInv, NEW k \in Occ, SpawnWorker(k)
  PROVE  DrainInv'
<1>1. /\ Top = k /\ pc[k] = "spawn" /\ pc' = [pc EXCEPT ![k] = "done"]
      /\ UNCHANGED <<phase, ret, pending>>
      /\ wpc' = [wpc EXCEPT ![k] = "check"] /\ UNCHANGED runs
  BY DEF SpawnWorker, At, Return
<1>2. \A j \in Occ : wpc[j] = "none" /\ (pc[j] \in Freezing => j = k)
  BY <1>1 DEF DrainInv, OneDrainer, Drainer, Freezing
<1>3. \A i \in Ids : runs[i] = 0  BY <1>2 DEF DrainInv, RunsAbove
<1>4. phase \notin {"NEW", "ACTIVE"}
  BY <1>1 DEF DrainInv, QuietBeforeShutdown, QuietAt, Freezing
<1>5. OwnCode'
  <2>1. OwnAt(k, "done", ret'[k])  BY DEF OwnAt, RestorePcs
  <2>. QED BY <1>1, <2>1 DEF DrainInv, OwnCode, TypeOK, TypeMain
<1>6. \A j \in Occ : pc'[j] \notin Deciding
  BY <1>1, OnlyTopDecides DEF Deciding
<1>7. QuietBeforeShutdown' /\ DecisionHolds'
  BY <1>1, <1>4, <1>6 DEF QuietBeforeShutdown, DecisionHolds
<1>8. InstallingIsNew'  BY <1>1 DEF DrainInv, InstallingIsNew, TypeOK, TypeMain
<1>9. OneDrainer'
  BY <1>1, <1>2 DEF OneDrainer, Drainer, Freezing, TypeOK, TypeMain, TypeDrain
<1>10. RunsAbove' /\ CleanupRunsOnce'
  <2>1. \A i \in Ids : runs'[i] = 0  BY <1>1, <1>3
  <2>2. \A j \in Occ : wpc'[j] # "run"  BY <1>1, <1>2 DEF TypeOK, TypeDrain
  <2>3. k \in Occ /\ wpc'[k] = "check"  BY <1>1 DEF TypeOK, TypeDrain
  <2>. QED BY <2>1, <2>2, <2>3 DEF RunsAbove, CleanupRunsOnce
<1>. QED BY <1>5, <1>7, <1>8, <1>9, <1>10 DEF DrainInv

LEMMA EscalateDrain ==
  ASSUME TypeOK, DrainInv, NEW k \in Occ, Escalate(k)
  PROVE  DrainInv'
<1>1. /\ Top = k /\ UNCHANGED <<phase, pending, stack, ret>> /\ WorkersKept
      /\ pc[k] \in EscalatePcs
  BY DEF Escalate, At, Goto, WorkersKept, EscalatePcs
<1>2. PICK l \in {"aborting", "cancelFuture", "detach"} : pc' = [pc EXCEPT ![k] = l]
  BY DEF Escalate, Goto
<1>3. OwnAt(k, l, ret'[k]) /\ l \notin Freezing \cup Deciding
  BY <1>2 DEF OwnAt, ActivePcs, EscalatePcs, DetachPcs, RestorePcs, Freezing, Deciding
<1>4. phase \notin {"NEW", "ACTIVE"}
  BY <1>1 DEF DrainInv, QuietBeforeShutdown, QuietAt
<1>6. pc'[Main] \in InstallPcs => phase' = "NEW"
  BY <1>1, <1>2 DEF DrainInv, InstallingIsNew, TypeOK, TypeMain
<1>. QED BY <1>1, <1>2, <1>3, <1>4, <1>6, Move, OnlyTopDecides

LEMMA DetachDrain ==
  ASSUME TypeOK, DrainInv, NEW f \in Frames \ {Main}, Detach(f)
  PROVE  DrainInv'
<1>1. /\ Top = f /\ UNCHANGED <<pending, stack>> /\ WorkersKept
      /\ pc[f] \in DetachPcs /\ phase' \in {phase, "FINALIZING", "UNINSTALLED"}
      /\ \A g \in Frames \ {f} : ret'[g] = ret[g]
  BY DEF Detach, At, Goto, WorkersKept, DetachPcs, TypeOK, TypeMain
<1>2. PICK l : /\ pc' = [pc EXCEPT ![f] = l]
               /\ \/ l \in {"dRegs", "dSnap", "dFrozen"}
                  \/ l = "list" /\ ret'[f] = "dDone"
                  \/ l = "fHelper" /\ f = Fin
                  \/ l = "raise" /\ f # Fin
  BY DEF Detach, Goto, TypeOK, TypeMain
<1>3. OwnAt(f, l, ret'[f]) /\ l \notin Freezing \cup Deciding
  BY <1>2 DEF OwnAt, DetachPcs, RestorePcs, Freezing, Deciding
<1>4. phase \notin {"NEW", "ACTIVE"}
  BY <1>1 DEF DrainInv, QuietBeforeShutdown, QuietAt, DetachPcs
<1>6. pc'[Main] \notin InstallPcs
  BY <1>2, <1>4 DEF DrainInv, InstallingIsNew, TypeOK, TypeMain
<1>7. phase' \notin {"NEW", "ACTIVE"}  BY <1>1, <1>4
<1>. QED BY <1>1, <1>2, <1>3, <1>6, <1>7, Move, OnlyTopDecides

LEMMA RaiseSignalDrain ==
  ASSUME TypeOK, DrainInv, NEW k \in Occ, RaiseSignal(k)
  PROVE  DrainInv'
<1>1. /\ Top = k /\ pc' = [pc EXCEPT ![k] = "done"]
      /\ UNCHANGED <<phase, pending, ret>> /\ WorkersKept
  BY DEF RaiseSignal, At, Return, WorkersKept
<1>2. OwnAt(k, "done", ret'[k]) /\ QuietAt(k, "done", ret'[k]) /\ "done" \notin Freezing \cup Deciding
  BY DEF OwnAt, QuietAt, EscalatePcs, DetachPcs, RestorePcs, Freezing, Deciding
<1>3. pc'[Main] \in InstallPcs => phase' = "NEW"
  BY <1>1 DEF DrainInv, InstallingIsNew, TypeOK, TypeMain
<1>. QED BY <1>1, <1>2, <1>3, Move, OnlyTopDecides

LEMMA BeginFinalizeDrain ==
  ASSUME TypeOK, DrainInv, BeginFinalize
  PROVE  DrainInv'
<1>1. /\ pc' = [pc EXCEPT ![Fin] = "fCheck"] /\ UNCHANGED <<phase, ret>> /\ WorkersKept
      /\ pending > 0
  BY DEF BeginFinalize, WorkersKept
<1>2. phase \notin {"NEW", "ACTIVE"}  BY <1>1 DEF DrainInv, QuietBeforeShutdown
<1>3. OwnAt(Fin, "fCheck", ret'[Fin]) /\ "fCheck" \notin Freezing
  BY DEF OwnAt, RestorePcs, Freezing
<1>4. \A k \in Occ : pc'[k] \notin Deciding
  BY <1>1, <1>2 DEF DrainInv, DecisionHolds, TypeOK, TypeMain
<1>5. pc'[Main] \in InstallPcs => phase' = "NEW"
  BY <1>1 DEF DrainInv, InstallingIsNew, TypeOK, TypeMain
<1>. QED BY <1>1, <1>2, <1>3, <1>4, <1>5, Move

LEMMA FinalizeDrain ==
  ASSUME TypeOK, DrainInv, Finalize
  PROVE  DrainInv'
<1>1. Top = Fin /\ UNCHANGED <<phase, pending, ret>> /\ WorkersKept
  BY DEF Finalize, At, Goto, Return, WorkersKept
<1>2. PICK l : /\ pc' = [pc EXCEPT ![Fin] = l]
               /\ l = "done" \/ (l = "detach" /\ phase = "FINALIZING")
  BY DEF Finalize, At, Goto, Return
<1>3. OwnAt(Fin, l, ret'[Fin]) /\ l \notin Freezing \cup Deciding
  BY <1>2 DEF OwnAt, DetachPcs, RestorePcs, Freezing, Deciding
<1>4. phase \in {"NEW", "ACTIVE"} => QuietAt(Fin, l, ret'[Fin])
  BY <1>2 DEF QuietAt
<1>5. pc'[Main] \in InstallPcs => phase' = "NEW"
  BY <1>1, <1>2 DEF DrainInv, InstallingIsNew, TypeOK, TypeMain
<1>. QED BY <1>1, <1>2, <1>3, <1>4, <1>5, Move, OnlyTopDecides

\* Worker k moves and the main thread does not.
LEMMA WorkerMove ==
  ASSUME TypeOK, DrainInv, NEW k \in Occ, NEW l, l # "none", wpc[k] # "none",
         UNCHANGED <<pc, stack, ret>>, wpc' = [wpc EXCEPT ![k] = l],
         phase' \in {phase, "FINALIZING"}, RunsAbove', CleanupRunsOnce'
  PROVE  DrainInv'
<1>1. phase \notin {"NEW", "ACTIVE"} /\ phase' \notin {"NEW", "ACTIVE"}
  BY DEF DrainInv, QuietBeforeShutdown
<1>2. OwnCode' /\ QuietBeforeShutdown' /\ InstallingIsNew' /\ DecisionHolds'
  BY <1>1 DEF DrainInv, OwnCode, QuietBeforeShutdown, InstallingIsNew, DecisionHolds
<1>3. OneDrainer'
  <2>1. \A j \in Occ : wpc'[j] # "none" <=> wpc[j] # "none"  BY DEF TypeOK, TypeDrain
  <2>. QED BY <2>1 DEF DrainInv, OneDrainer, Drainer
<1>. QED BY <1>2, <1>3 DEF DrainInv

\* Only one worker has ever been started.
LEMMA OneWorker ==
  ASSUME DrainInv, NEW j \in Occ, NEW k \in Occ, wpc[j] # "none", wpc[k] # "none"
  PROVE  j = k
BY DEF DrainInv, OneDrainer, Drainer

LEMMA DrainLoopDrain ==
  ASSUME TypeOK, DrainInv, NEW k \in Occ, DrainLoop(k)
  PROVE  DrainInv'
<1>1. wpc[k] = "check" /\ UNCHANGED <<pc, stack, ret, phase, runs>>
  BY DEF DrainLoop, WAt
<1>2. \A j \in Occ : wpc[j] # "none" => j = k  BY <1>1, OneWorker
<1>3. PICK l \in {"gone", "finish", "run"} : wpc' = [wpc EXCEPT ![k] = l]
  BY DEF DrainLoop, WGoto
<1>4. CleanupRunsOnce'  BY <1>1 DEF DrainInv, CleanupRunsOnce
<1>5. \A j \in Ids, i \in wtodo[k] : runs[j] > 0 => j > i
  BY <1>1 DEF DrainInv, RunsAbove
<1>6. CASE l # "run"
  <2>1. wtodo'[k] = wtodo[k] /\ wpc'[k] = l
    BY <1>3, <1>6 DEF DrainLoop, WGoto, TypeOK, TypeDrain
  <2>2. RunsAbove'
    BY <1>1, <1>2, <1>3, <1>5, <1>6, <2>1 DEF RunsAbove, TypeOK, TypeDrain
  <2>. QED BY <1>1, <1>3, <1>4, <2>2, WorkerMove
<1>7. CASE l = "run"
  <2>1. PICK i \in Latest(wtodo[k]) : /\ wid' = [wid EXCEPT ![k] = i]
                                      /\ wtodo' = [wtodo EXCEPT ![k] = @ \ {i}]
    BY <1>3, <1>7 DEF DrainLoop, WGoto, TypeOK, TypeDrain
  <2>2. /\ wid'[k] = i /\ wtodo'[k] = wtodo[k] \ {i} /\ wpc'[k] = "run"
        /\ i \in wtodo[k] /\ i \in Ids /\ \A j \in wtodo[k] : j \in Ids /\ j <= i
    BY <1>3, <1>7, <2>1 DEF Latest, TypeOK, TypeDrain
  <2>3. RunsAbove'
    BY <1>1, <1>2, <1>3, <1>5, <2>2 DEF RunsAbove, TypeOK, TypeDrain
  <2>. QED BY <1>1, <1>3, <1>4, <2>3, WorkerMove
<1>. QED BY <1>6, <1>7

LEMMA RunRegistrationDrain ==
  ASSUME TypeOK, DrainInv, NEW k \in Occ, RunRegistration(k)
  PROVE  DrainInv'
<1>1. wpc[k] # "none" /\ UNCHANGED <<pc, stack, ret, phase, wtodo, wid>>
  BY DEF RunRegistration, WAt
<1>2. \A j \in Occ : wpc[j] # "none" => j = k  BY <1>1, OneWorker
<1>3. PICK l : /\ wpc' = [wpc EXCEPT ![k] = l] /\ l \notin {"none", "run"}
               /\ \/ UNCHANGED runs
                  \/ wpc[k] = "run" /\ runs' = [runs EXCEPT ![wid[k]] = @ + 1]
  BY DEF RunRegistration, WAt, WGoto
<1>4. \A j \in Occ : wpc'[j] # "none" => j = k  BY <1>2, <1>3 DEF TypeOK, TypeDrain
<1>5. wpc'[k] = l  BY <1>3 DEF TypeOK, TypeDrain
<1>6. CASE UNCHANGED runs
  <2>1. RunsAbove'
    BY <1>1, <1>3, <1>4, <1>5, <1>6 DEF DrainInv, RunsAbove
  <2>2. CleanupRunsOnce'  BY <1>6 DEF DrainInv, CleanupRunsOnce
  <2>. QED BY <1>1, <1>3, <2>1, <2>2, WorkerMove
<1>7. CASE wpc[k] = "run" /\ runs' = [runs EXCEPT ![wid[k]] = @ + 1]
  <2>1. /\ wid[k] \in Ids /\ \A i \in wtodo[k] : i \in Ids /\ wid[k] > i
        /\ \A j \in Ids : runs[j] > 0 => j > wid[k]
        /\ \A j \in Ids, i \in wtodo[k] : runs[j] > 0 => j > i
    BY <1>7 DEF DrainInv, RunsAbove, TypeOK, TypeDrain
  <2>2. \A j \in Ids : runs[j] \in Nat  BY DEF TypeOK, TypeHistory
  <2>3. runs[wid[k]] = 0  BY <2>1, <2>2
  <2>4. \A j \in Ids : runs'[j] = IF j = wid[k] THEN 1 ELSE runs[j]
    BY <1>7, <2>1, <2>3 DEF TypeOK, TypeHistory
  <2>5. RunsAbove'
    BY <1>1, <1>3, <1>4, <1>5, <2>1, <2>4 DEF RunsAbove
  <2>6. CleanupRunsOnce'  BY <2>4 DEF DrainInv, CleanupRunsOnce
  <2>. QED BY <1>1, <1>3, <2>5, <2>6, WorkerMove
<1>. QED BY <1>3, <1>6, <1>7

LEMMA FinishDrainDrain ==
  ASSUME TypeOK, DrainInv, NEW k \in Occ, FinishDrain(k)
  PROVE  DrainInv'
<1>1. /\ wpc[k] # "none" /\ UNCHANGED <<pc, stack, ret, wtodo, wid, runs>>
      /\ phase' \in {phase, "FINALIZING"}
  BY DEF FinishDrain, WAt
<1>2. PICK l \in {"gone", "final", "post"} : wpc' = [wpc EXCEPT ![k] = l]
  BY DEF FinishDrain, WGoto
<1>3. CleanupRunsOnce'  BY <1>1 DEF DrainInv, CleanupRunsOnce
<1>4. RunsAbove'
  BY <1>1, <1>2 DEF DrainInv, RunsAbove, TypeOK, TypeDrain
<1>. QED BY <1>1, <1>2, <1>3, <1>4, WorkerMove

LEMMA DrainStep ==
  ASSUME TypeOK, DrainInv, ~Reentrant, [Next]_vars
  PROVE  DrainInv'
<1>1. CASE MainThread
  BY <1>1, UnwindDrain, MainStepDrain, FinallyDrain, UninstallDrain, BeginFinalizeDrain,
     FinalizeDrain, EntryDrain, CancelTokenDrain, FreezeDrain, SpawnWorkerDrain, EscalateDrain,
     RaiseSignalDrain, RestoreHandlersDrain, DetachDrain
    DEF MainThread, OnSignal
<1>2. ASSUME NEW k \in Occ, Worker(k)  PROVE DrainInv'
  BY <1>2, DrainLoopDrain, RunRegistrationDrain, FinishDrainDrain DEF Worker
<1>3. ASSUME NEW k \in Occ, Redeliver(k)  PROVE DrainInv'
  BY <1>3, NothingMoves DEF Redeliver, WorkersKept
<1>4. ASSUME NEW c \in Clients, Client(c)  PROVE DrainInv'
  BY <1>4, NothingMoves DEF Client, ClientOnly, WorkersKept
<1>5. CASE GraceExpires \/ UNCHANGED vars \/ \E i \in Ids : CoroutineEnds(i)
  BY <1>5, NothingMoves DEF GraceExpires, CoroutineEnds, vars, WorkersKept
<1>. QED
  BY <1>1, <1>2, <1>3, <1>4, <1>5, ArriveDrain, MainReturnsDrain DEF Next, Ended

\* The strengthened invariant holds for every instance whose handler is not hit
\* in its first statements (_on_signal, _drain_worker, install, uninstall).
THEOREM DrainInvariant == ASSUME ~Reentrant  PROVE Spec => []DrainInv
<1>1. TypeOK /\ DrainInv /\ [Next]_vars => DrainInv'  BY DrainStep
<1>2. Init => DrainInv  BY InitDrain
<1>. QED BY <1>1, <1>2, TypeCorrect, PTL DEF Spec

\* However many signals arrive and clients register, no cleanup is started a
\* second time (_drain_worker, _on_signal).
THEOREM CleanupsRunOnce == ASSUME ~Reentrant  PROVE Spec => []CleanupRunsOnce
<1>1. DrainInv => CleanupRunsOnce  BY DEF DrainInv
<1>. QED BY <1>1, DrainInvariant, PTL

\* Cleanups start in strict reverse order of registration (reversed(snapshot)).
THEOREM CleanupsAreLifo == ASSUME ~Reentrant  PROVE Spec => StrictLifo
<1> DEFINE Lifo == \A i \in Ids : runs'[i] # runs[i] => \A j \in Ids : runs[j] > 0 => j > i
<1>1. ASSUME TypeOK, DrainInv, [Next]_vars, ~UNCHANGED runs  PROVE Lifo
  <2>1. PICK k \in Occ : RunRegistration(k)
    BY <1>1 DEF Next, MainThread, Unwind, MainStep, Finally, Uninstall, BeginFinalize, Finalize,
       OnSignal, Entry, CancelToken, Freeze, SpawnWorker, Escalate, RaiseSignal, RestoreHandlers,
       Detach, MainReturns, GraceExpires, Ended, Arrive, Worker, DrainLoop, FinishDrain, Redeliver,
       CoroutineEnds, Client, ClientOnly, vars
  <2>2. wpc[k] = "run" /\ runs' = [runs EXCEPT ![wid[k]] = @ + 1]
    BY <1>1, <2>1 DEF RunRegistration, WAt
  <2>3. \A j \in Ids : runs[j] > 0 => j > wid[k]
    BY <1>1, <2>2 DEF DrainInv, RunsAbove
  <2>. QED BY <1>1, <2>2, <2>3 DEF TypeOK, TypeHistory
<1>2. TypeOK /\ DrainInv /\ [Next]_vars => [Lifo]_vars
  <2>1. UNCHANGED runs => Lifo  OBVIOUS
  <2>. QED BY <1>1, <2>1
<1>3. (Spec => []TypeOK) /\ (Spec => []DrainInv)  BY TypeCorrect, DrainInvariant
<1>4. Spec => [][Lifo]_vars  BY <1>2, <1>3, PTL DEF Spec
<1>. QED BY <1>4 DEF StrictLifo

------------------------------------------------------------------------------
(* The other promises.                                                       *)

USE DEF coordVars, regVars, frameVars, mainVars, workVars, futureVars, tailVars, clientVars, tokenVars

------------------------------------------------------------------------------
(* The stack.                                                                *)

LEMMA TopIsFrame ==
  ASSUME TypeOK
  PROVE  Top \in Frames /\ Top = stack[1] /\ 1 \in 1 .. Len(stack)
BY StackTop DEF Top, TypeOK, TypeMain

\* While the main program runs, nothing is nested in it.
LEMMA MainAlone ==
  ASSUME TypeOK, Nested, Top = Main
  PROVE  \A f \in Frames \ {Main} : pc[f] \in Idle
<1>1. Len(stack) = 1  BY TopIsFrame DEF Nested, TypeOK, TypeMain
<1>. QED BY <1>1, TopIsFrame DEF Nested

\* The running activation, or the main program, moves on.
LEMMA NestedMove ==
  ASSUME TypeOK, Nested, UNCHANGED stack, NEW f \in Frames, NEW l,
         f = Main \/ (f = Top /\ l \notin Idle), pc' = [pc EXCEPT ![f] = l]
  PROVE  Nested'
<1>1. \A g \in Frames \ {Main} : pc'[g] \notin Idle => g = Top \/ pc[g] \notin Idle
  BY TopIsFrame DEF TypeOK, TypeMain
<1>2. \A i \in 1 .. Len(stack) : stack[i] \in Frames  BY DEF TypeOK, TypeMain
<1>3. \A g \in Frames \ {Main} : pc[g] \notin Idle => pc'[g] \notin Idle
  BY DEF TypeOK, TypeMain
<1>. QED BY <1>1, <1>2, <1>3, TopIsFrame DEF Nested

LEMMA NestedReturn ==
  ASSUME TypeOK, Nested, NEW f \in Frames \ {Main}, Top = f,
         stack' = Tail(stack), pc' = [pc EXCEPT ![f] = "done"]
  PROVE  Nested'
<1>1. Len(stack) > 1  BY TopIsFrame DEF TypeOK, TypeMain
<1>2. /\ Len(stack') = Len(stack) - 1 /\ Len(stack) \in Nat
      /\ \A i \in 1 .. Len(stack') : /\ stack'[i] = stack[i + 1] /\ i + 1 \in 1 .. Len(stack)
                                   /\ stack[i + 1] \in Frames
  BY <1>1 DEF TypeOK, TypeMain
<1>3. \A i \in 1 .. Len(stack') : stack'[i] = Main <=> i = Len(stack')
  BY <1>2 DEF Nested
<1>4. ASSUME NEW g \in Frames \ {Main}, pc'[g] \notin Idle
      PROVE  \E i \in 1 .. Len(stack') : stack'[i] = g
  <2>1. g # f /\ pc[g] \notin Idle  BY <1>4, TopIsFrame DEF TypeOK, TypeMain, Idle
  <2>2. PICK i \in 1 .. Len(stack) : stack[i] = g  BY <2>1 DEF Nested
  <2>3. i # 1  BY <2>1, <2>2, TopIsFrame
  <2>4. i - 1 \in 1 .. Len(stack') /\ stack'[i - 1] = g  BY <1>2, <2>2, <2>3
  <2>. QED BY <2>4
<1>5. \A i, j \in 1 .. Len(stack') : stack'[i] = stack'[j] => i = j
  BY <1>2 DEF Nested
<1>6. ASSUME NEW i \in 1 .. Len(stack'), stack'[i] # Main  PROVE pc'[stack'[i]] \notin Idle
  <2>1. stack[i + 1] # f
    BY <1>2, TopIsFrame DEF Nested
  <2>. QED BY <1>2, <1>6, <2>1 DEF Nested, TypeOK, TypeMain
<1>. QED BY <1>3, <1>4, <1>5, <1>6 DEF Nested

LEMMA NestedCall ==
  ASSUME TypeOK, Nested, NEW f \in Frames \ {Main}, NEW l, l \notin Idle, pc[f] \in Idle,
         stack' = <<f>> \o stack, pc' = [pc EXCEPT ![f] = l]
  PROVE  Nested'
<1>1. /\ Len(stack') = Len(stack) + 1 /\ Len(stack) \in Nat /\ Len(stack) > 0
      /\ stack'[1] = f
      /\ \A i \in 1 .. Len(stack) : /\ stack'[i + 1] = stack[i] /\ i + 1 \in 1 .. Len(stack')
                                  /\ stack[i] \in Frames
      /\ \A i \in 1 .. Len(stack') : i # 1 => stack'[i] = stack[i - 1] /\ i - 1 \in 1 .. Len(stack)
  BY DEF TypeOK, TypeMain
<1>2. \A i \in 1 .. Len(stack') : stack'[i] = Main <=> i = Len(stack')
  BY <1>1 DEF Nested
<1>3. ASSUME NEW g \in Frames \ {Main}, pc'[g] \notin Idle
      PROVE  \E i \in 1 .. Len(stack') : stack'[i] = g
  <2>1. CASE g = f  BY <1>1, <2>1
  <2>2. CASE g # f
    <3>1. pc[g] \notin Idle  BY <1>3, <2>2 DEF TypeOK, TypeMain
    <3>2. PICK i \in 1 .. Len(stack) : stack[i] = g  BY <3>1 DEF Nested
    <3>. QED BY <1>1, <3>2
  <2>. QED BY <2>1, <2>2
<1>4. \A i \in 1 .. Len(stack) : stack[i] # f
  BY DEF Nested
<1>5. \A i, j \in 1 .. Len(stack') : stack'[i] = stack'[j] => i = j
  BY <1>1, <1>4 DEF Nested
<1>6. ASSUME NEW i \in 1 .. Len(stack'), stack'[i] # Main  PROVE pc'[stack'[i]] \notin Idle
  <2>1. CASE i = 1
    BY <1>1, <2>1 DEF TypeOK, TypeMain
  <2>2. CASE i # 1
    <3>1. i - 1 \in 1 .. Len(stack) /\ stack'[i] = stack[i - 1]  BY <1>1, <2>2
    <3>2. stack'[i] \in Frames /\ stack'[i] # f /\ pc[stack'[i]] \notin Idle
      BY <1>1, <1>4, <1>6, <3>1 DEF Nested
    <3>. QED BY <3>2 DEF TypeOK, TypeMain
  <2>. QED BY <2>1, <2>2
<1>. QED BY <1>2, <1>3, <1>5, <1>6 DEF Nested

LEMMA NestedStep ==
  ASSUME TypeOK, DrainInv, Nested, [Next]_vars
  PROVE  Nested'
<1>1. CASE UNCHANGED <<stack, pc>>
  <2>1. stack' = stack /\ pc' = pc  BY <1>1
  <2>. QED BY <2>1 DEF Nested
<1>2. CASE MainReturns \/ MainStep \/ Finally \/ Uninstall
  <2>1. UNCHANGED stack
    BY <1>2 DEF MainReturns, MainStep, Install, InstallRollback, Finally, Uninstall, Goto
  <2>2. CASE ~UNCHANGED pc
    <3>1. PICK l : pc' = [pc EXCEPT ![Main] = l]
      BY <1>2, <2>2 DEF MainReturns, MainStep, Install, InstallRollback, Finally, Uninstall, Goto
    <3>2. Main \in Frames  OBVIOUS
    <3>. QED BY <2>1, <3>1, <3>2, NestedMove
  <2>. QED BY <1>1, <2>1, <2>2
<1>3. CASE Unwind
  <2>1. CASE Top # Main
    BY <1>3, <2>1, NestedReturn, TopIsFrame DEF Unwind, Return
  <2>2. CASE Top = Main
    <3>1. PICK l : pc' = [pc EXCEPT ![Main] = l] /\ UNCHANGED stack
      BY <1>3, <2>2 DEF Unwind
    <3>2. Main \in Frames  OBVIOUS
    <3>. QED BY <3>1, <3>2, NestedMove
  <2>. QED BY <2>1, <2>2
<1>4. ASSUME NEW f \in Frames, RestoreHandlers(f) \/ (f # Main /\ Detach(f))  PROVE Nested'
  <2>1. Top = f /\ UNCHANGED stack
    BY <1>4 DEF RestoreHandlers, Detach, At, Goto
  <2>2. CASE ~UNCHANGED pc
    <3>1. PICK l \in {"restore", "clear", ret[f]} \cup DetachPcs \cup {"list", "fHelper", "raise"} :
            pc' = [pc EXCEPT ![f] = l] /\ (l = ret[f] => l = "list" \/ pc[f] \in RestorePcs \cup DetachPcs)
      BY <1>4, <2>2 DEF RestoreHandlers, Detach, At, Goto, DetachPcs, RestorePcs
    <3>2. pc[f] \in RestorePcs => ret[f] \notin Idle
      BY DEF DrainInv, OwnCode, OwnAt, Idle
    <3>3. l \notin Idle
      <4>1. CASE RestoreHandlers(f)
        <5>1. pc[f] \in RestorePcs /\ l \in {"restore", "clear", ret[f]}
          BY <2>2, <3>1, <4>1 DEF RestoreHandlers, At, Goto, RestorePcs, TypeOK, TypeMain
        <5>. QED BY <3>2, <5>1 DEF Idle
      <4>2. CASE Detach(f)
        <5>1. l \in DetachPcs \cup {"list", "fHelper", "raise"}
          BY <3>1, <4>2 DEF Detach, At, Goto, DetachPcs, TypeOK, TypeMain
        <5>. QED BY <5>1 DEF DetachPcs, Idle
      <4>. QED BY <1>4, <4>1, <4>2
    <3>. QED BY <2>1, <3>1, <3>3, NestedMove
  <2>. QED BY <1>1, <2>1, <2>2
<1>5. ASSUME NEW k \in Occ, OnSignal(k)  PROVE Nested'
  <2>1. Top = k  BY <1>5 DEF OnSignal, Entry, CancelToken, Freeze, SpawnWorker, Escalate, RaiseSignal, At
  <2>2. CASE SpawnWorker(k) \/ RaiseSignal(k)
    BY <2>1, <2>2, NestedReturn DEF SpawnWorker, RaiseSignal, Return
  <2>3. CASE Entry(k) \/ CancelToken(k) \/ Freeze(k) \/ Escalate(k)
    <3>1. PICK l \in ActivePcs \cup EscalatePcs \cup {"list", "detach"} :
            pc' = [pc EXCEPT ![k] = l] /\ UNCHANGED stack
      BY <2>3 DEF Entry, CancelToken, Freeze, Escalate, Goto, ActivePcs, EscalatePcs
    <3>2. l \notin Idle  BY DEF ActivePcs, EscalatePcs, Idle
    <3>. QED BY <2>1, <3>1, <3>2, NestedMove
  <2>. QED BY <1>5, <2>2, <2>3 DEF OnSignal
<1>6. CASE BeginFinalize \/ Finalize
  <2> Fin \in Frames \ {Main}  OBVIOUS
  <2>1. CASE BeginFinalize
    <3>1. stack' = <<Fin>> \o stack /\ pc' = [pc EXCEPT ![Fin] = "fCheck"] /\ pc[Fin] \in Idle
      BY <2>1 DEF BeginFinalize, Idle
    <3>2. "fCheck" \notin Idle  BY DEF Idle
    <3>. QED BY <3>1, <3>2, NestedCall
  <2>2. CASE Finalize
    <3>1. Top = Fin /\ \/ pc' = [pc EXCEPT ![Fin] = "detach"] /\ UNCHANGED stack
                       \/ stack' = Tail(stack) /\ pc' = [pc EXCEPT ![Fin] = "done"]
      BY <2>2 DEF Finalize, At, Goto, Return
    <3>2. "detach" \notin Idle  BY DEF Idle
    <3>. QED BY <3>1, <3>2, NestedMove, NestedReturn
  <2>. QED BY <1>6, <2>1, <2>2
<1>7. ASSUME NEW k \in Occ, Arrive(k)  PROVE Nested'
  <2>0. k \in Frames \ {Main} /\ pc[k] \in Idle  BY <1>7 DEF Arrive, Idle
  <2>1. CASE stack' = <<k>> \o stack /\ pc' = [pc EXCEPT ![k] = "entry"]
    <3>1. "entry" \notin Idle  BY DEF Idle
    <3>. QED BY <2>0, <2>1, <3>1, NestedCall
  <2>2. CASE UNCHANGED stack /\ pc' = [pc EXCEPT ![k] = "done"]
    <3>1. \A g \in Frames : pc'[g] \in Idle <=> pc[g] \in Idle
      BY <2>0, <2>2 DEF TypeOK, TypeMain, Idle
    <3>2. \A i \in 1 .. Len(stack) : stack[i] \in Frames  BY DEF TypeOK, TypeMain
    <3>. QED BY <2>2, <3>1, <3>2 DEF Nested
  <2>. QED BY <1>7, <2>1, <2>2 DEF Arrive
<1>8. CASE \/ \E k \in Occ : Worker(k) \/ Redeliver(k)
           \/ GraceExpires \/ Ended \/ UNCHANGED vars
           \/ (\E i \in Ids : CoroutineEnds(i)) \/ \E c \in Clients : Client(c)
  BY <1>1, <1>8 DEF Worker, DrainLoop, RunRegistration, FinishDrain, Redeliver, GraceExpires, Ended,
     CoroutineEnds, Client, ClientOnly, vars
<1>. QED BY <1>2, <1>3, <1>4, <1>5, <1>6, <1>7, <1>8 DEF Next, MainThread

\* Which steps move activation f.
StepOf(f) ==
  \/ Unwind /\ Top = f
  \/ RestoreHandlers(f)
  \/ f # Main /\ Detach(f)
  \/ f = Main /\ (MainStep \/ MainReturns \/ Finally \/ Uninstall)
  \/ f = Fin /\ (BeginFinalize \/ Finalize)
  \/ f \in Occ /\ (Arrive(f) \/ OnSignal(f))

LEMMA Moves ==
  ASSUME TypeOK, [Next]_vars, NEW f \in Frames, pc'[f] # pc[f]
  PROVE  StepOf(f)
<1>1. CASE MainReturns \/ MainStep \/ Finally \/ Uninstall
  <2>1. UNCHANGED pc \/ \E l : pc' = [pc EXCEPT ![Main] = l]
    BY <1>1 DEF MainReturns, MainStep, Install, InstallRollback, Finally, Uninstall, Goto
  <2>. QED BY <1>1, <2>1 DEF TypeOK, TypeMain, StepOf
<1>2. CASE Unwind
  <2>1. \E l : pc' = [pc EXCEPT ![Top] = l]  BY <1>2 DEF Unwind, Return
  <2>. QED BY <1>2, <2>1 DEF TypeOK, TypeMain, StepOf
<1>3. ASSUME NEW g \in Frames, RestoreHandlers(g) \/ (g # Main /\ Detach(g))  PROVE StepOf(f)
  <2>1. UNCHANGED pc \/ \E l : pc' = [pc EXCEPT ![g] = l]
    BY <1>3 DEF RestoreHandlers, Detach, Goto
  <2>2. f = g  BY <2>1 DEF TypeOK, TypeMain
  <2>. QED BY <1>3, <2>2 DEF StepOf
<1>4. ASSUME NEW k \in Occ, Arrive(k) \/ OnSignal(k)  PROVE StepOf(f)
  <2>1. \E l : pc' = [pc EXCEPT ![k] = l]
    BY <1>4 DEF Arrive, OnSignal, Entry, CancelToken, Freeze, SpawnWorker, Escalate, RaiseSignal, Goto, Return
  <2>2. f = k  BY <2>1 DEF TypeOK, TypeMain
  <2>. QED BY <1>4, <2>2 DEF StepOf
<1>5. CASE BeginFinalize \/ Finalize
  <2>1. \E l : pc' = [pc EXCEPT ![Fin] = l]
    BY <1>5 DEF BeginFinalize, Finalize, Goto, Return
  <2>2. f = Fin  BY <2>1 DEF TypeOK, TypeMain
  <2>. QED BY <1>5, <2>2 DEF StepOf
<1>6. CASE \/ \E k \in Occ : Worker(k) \/ Redeliver(k)
           \/ GraceExpires \/ Ended \/ UNCHANGED vars
           \/ (\E i \in Ids : CoroutineEnds(i)) \/ \E c \in Clients : Client(c)
  <2>1. UNCHANGED pc
    BY <1>6 DEF Worker, DrainLoop, RunRegistration, FinishDrain, Redeliver, GraceExpires, Ended,
       CoroutineEnds, Client, ClientOnly, vars
  <2>. QED BY <2>1
<1>. QED BY <1>1, <1>2, <1>3, <1>4, <1>5, <1>6 DEF Next, MainThread

\* What each activation moves to.
LEMMA OccurrenceMoves ==
  ASSUME TypeOK, DrainInv, [Next]_vars, NEW k \in Occ, pc'[k] # pc[k]
  PROVE  \/ Arrive(k) /\ pc[k] = "none" /\ pc'[k] \in {"entry", "done"}
         \/ Unwind /\ Top = k /\ pc'[k] = "done"
         \/ Top = k /\ ~raising /\
              \/ Entry(k) /\ pc[k] = "entry" /\ pc'[k] \in {"cancel", "abort", "list"}
              \/ CancelToken(k) /\ pc[k] \in Deciding /\ pc'[k] \in {"cancelling", "drain"}
              \/ Freeze(k) /\ pc[k] \in Freezing \cup {"drain"} /\ pc'[k] \in Freezing
              \/ SpawnWorker(k) /\ pc[k] = "spawn" /\ pc'[k] = "done"
              \/ Escalate(k) /\ pc[k] \in EscalatePcs /\ pc'[k] \in {"aborting", "cancelFuture", "detach"}
              \/ RaiseSignal(k) /\ pc[k] = "raise" /\ pc'[k] = "done"
              \/ RestoreHandlers(k) /\ pc[k] \in RestorePcs /\ pc'[k] \in {"restore", "clear", "dDone", "raise"}
              \/ Detach(k) /\ pc[k] \in DetachPcs /\ pc'[k] \in (DetachPcs \ {"dDone"}) \cup {"list", "raise"}
<1>1. StepOf(k) /\ k # Main /\ k # Fin /\ k \in Frames  BY Moves
<1>2. CASE Arrive(k)
  BY <1>2 DEF Arrive, TypeOK, TypeMain
<1>3. CASE Unwind /\ Top = k
  BY <1>1, <1>3 DEF Unwind, Return, TypeOK, TypeMain
<1>4. CASE Entry(k) \/ CancelToken(k) \/ Escalate(k)
  BY <1>4 DEF Entry, CancelToken, Escalate, At, Goto, TypeOK, TypeMain, Deciding, EscalatePcs
<1>5. CASE Freeze(k)
  BY <1>5 DEF Freeze, At, Goto, TypeOK, TypeMain, Freezing
<1>6. CASE SpawnWorker(k) \/ RaiseSignal(k)
  BY <1>6 DEF SpawnWorker, RaiseSignal, At, Return, TypeOK, TypeMain
<1>7. CASE RestoreHandlers(k)
  <2>1. Top = k /\ ~raising /\ pc[k] \in RestorePcs /\ pc'[k] \in {"restore", "clear", ret[k]}
    BY <1>7 DEF RestoreHandlers, At, Goto, TypeOK, TypeMain, RestorePcs
  <2>2. ret[k] \in {"dDone", "raise"}  BY <1>1, <2>1 DEF DrainInv, OwnCode, OwnAt
  <2>. QED BY <1>7, <2>1, <2>2
<1>8. CASE Detach(k)
  <2>1. Top = k /\ ~raising /\ pc[k] \in DetachPcs /\ pc'[k] \in {"dRegs", "dSnap", "dFrozen", "list", "raise"}
    BY <1>1, <1>8 DEF Detach, At, Goto, TypeOK, TypeMain, DetachPcs
  <2>. QED BY <1>8, <2>1 DEF DetachPcs
<1>. QED BY <1>1, <1>2, <1>3, <1>4, <1>5, <1>6, <1>7, <1>8 DEF StepOf, OnSignal

LEMMA FinalizerMoves ==
  ASSUME TypeOK, DrainInv, [Next]_vars, pc'[Fin] # pc[Fin]
  PROVE  \/ BeginFinalize /\ pc[Fin] \in Idle /\ pc'[Fin] = "fCheck"
         \/ Unwind /\ Top = Fin /\ pc'[Fin] = "done"
         \/ Top = Fin /\ pc[Fin] \notin Idle /\ (Finalize \/ RestoreHandlers(Fin) \/ Detach(Fin))
<1>1. StepOf(Fin) /\ Fin # Main /\ Fin \notin Occ /\ Fin \in Frames  BY Moves
<1>2. CASE BeginFinalize
  BY <1>2 DEF BeginFinalize, TypeOK, TypeMain, Idle
<1>3. CASE Unwind /\ Top = Fin
  BY <1>1, <1>3 DEF Unwind, Return, TypeOK, TypeMain
<1>4. CASE Finalize \/ RestoreHandlers(Fin) \/ Detach(Fin)
  BY <1>4 DEF Finalize, RestoreHandlers, Detach, At, Idle
<1>. QED BY <1>1, <1>2, <1>3, <1>4 DEF StepOf

------------------------------------------------------------------------------
(* Finalizers.                                                               *)

\* Only a worker's own steps, and the activation that starts it, move it.
LEMMA WorkerSteps ==
  ASSUME TypeOK, DrainInv, [Next]_vars
  PROVE  \/ UNCHANGED wpc
         \/ \E k \in Occ : Worker(k) /\ wpc[k] \notin {"none", "gone"}
                          /\ \A j \in Occ \ {k} : wpc[j] = "none" /\ wpc'[j] = "none"
         \/ \E k \in Occ : SpawnWorker(k) /\ \A j \in Occ : wpc[j] = "none"
<1>1. ASSUME NEW k \in Occ, Worker(k)
      PROVE  /\ wpc[k] \notin {"none", "gone"}
             /\ \A j \in Occ \ {k} : wpc[j] = "none" /\ wpc'[j] = "none"
  <2>1. wpc[k] \notin {"none", "gone"}
    BY <1>1 DEF Worker, DrainLoop, RunRegistration, FinishDrain, WAt
  <2>2. \E l : wpc' = [wpc EXCEPT ![k] = l]
    BY <1>1 DEF Worker, DrainLoop, RunRegistration, FinishDrain, WGoto
  <2>3. \A j \in Occ \ {k} : wpc[j] = "none"  BY <2>1, OneWorker
  <2>. QED BY <2>1, <2>2, <2>3 DEF TypeOK, TypeDrain
<1>2. ASSUME NEW k \in Occ, SpawnWorker(k)  PROVE \A j \in Occ : wpc[j] = "none"
  BY <1>2 DEF SpawnWorker, At, DrainInv, OneDrainer, Drainer, Freezing
<1>3. \/ UNCHANGED wpc \/ \E k \in Occ : Worker(k) \/ SpawnWorker(k)
  BY DEF Next, MainThread, Unwind, MainStep, Finally, Uninstall, BeginFinalize, Finalize, OnSignal,
     Entry, CancelToken, Freeze, Escalate, RaiseSignal, RestoreHandlers, Detach, MainReturns,
     GraceExpires, Ended, Arrive, Redeliver, CoroutineEnds, Client, ClientOnly, vars
<1>. QED BY <1>1, <1>2, <1>3

LEMMA GoneStays ==
  ASSUME TypeOK, DrainInv, [Next]_vars, NEW k \in Occ, wpc[k] = "gone"
  PROVE  wpc'[k] = "gone"
BY WorkerSteps

\* Of the steps that change the tail of a shutdown, only the worker's last one
\* posts a finalizer.
LEMMA PostedStep ==
  ASSUME TypeOK, DrainInv, GoneBeforePosted, [Next]_vars
  PROVE  GoneBeforePosted'
<1>1. CASE \E k \in Occ : wpc[k] = "gone"
  BY <1>1, GoneStays DEF GoneBeforePosted
<1>2. CASE ~\E k \in Occ : wpc[k] = "gone"
  <2>1. pending = 0 /\ pc[Fin] \in Idle /\ \A k \in Occ : helpers[k] = 0
    BY <1>2 DEF GoneBeforePosted, Posted, TypeOK, TypeDrain
  <2>2. CASE \E k \in Occ : FinishDrain(k)
    <3>1. PICK k \in Occ : FinishDrain(k)  BY <2>2
    <3>2. CASE wpc[k] = "post"
      BY <3>1, <3>2 DEF FinishDrain, WAt, WGoto, TypeOK, TypeDrain, GoneBeforePosted
    <3>3. CASE wpc[k] # "post"
      <4>1. UNCHANGED <<pending, helpers, pc>>  BY <3>1, <3>3 DEF FinishDrain, WAt
      <4>. QED BY <2>1, <4>1 DEF GoneBeforePosted, Posted
    <3>. QED BY <3>2, <3>3
  <2>3. CASE ~\E k \in Occ : FinishDrain(k)
    <3>1. ~BeginFinalize /\ ~Finalize /\ ~\E k \in Occ : Redeliver(k)
      BY <2>1 DEF BeginFinalize, Finalize, Redeliver, At, Idle
    <3>2. UNCHANGED <<pending, helpers>>
      BY <2>3, <3>1 DEF Next, MainThread, Unwind, MainStep, Finally, Uninstall,
         OnSignal, Entry, CancelToken, Freeze, SpawnWorker, Escalate, RaiseSignal, RestoreHandlers,
         Detach, MainReturns, GraceExpires, Ended, Arrive, Worker, DrainLoop, RunRegistration,
         CoroutineEnds, Client, ClientOnly, vars
    <3>3. pc'[Fin] \in Idle
      <4>. QED BY <2>1, <3>1, FinalizerMoves DEF Idle
    <3>. QED BY <2>1, <3>2, <3>3 DEF GoneBeforePosted, Posted
  <2>. QED BY <2>2, <2>3
<1>. QED BY <1>1, <1>2

------------------------------------------------------------------------------
(* Handlers put back.                                                        *)

Back == {"clear", "dDone", "fHelper", "raise"} \cup ClearingPcs

\* Activation f moves to l and the dispositions stay.
LEMMA PutBackMove ==
  ASSUME TypeOK, PutBack, NEW f \in Frames, NEW l, pc' = [pc EXCEPT ![f] = l],
         UNCHANGED <<handler, prior_handlers, helpers>>, \A g \in Frames \ {f} : todo'[g] = todo[g],
         Established' => Established, phase' = "NEW" => phase = "NEW",
         Established => /\ l = "restore" => \A s \in Sigs \ todo'[f] : handler[s] = "prior"
                        /\ l \in Back => AllPrior,
         f = Main /\ l \in {"mRun", "finally", "uLock"} \cup UninstallPcs => phase' # "NEW"
  PROVE  PutBack'
<1>1. pc'[f] = l /\ \A g \in Frames \ {f} : pc'[g] = pc[g]  BY DEF TypeOK, TypeMain
<1>2. AllPrior' <=> AllPrior  BY DEF AllPrior
<1>3. ASSUME Established'
      PROVE  \A g \in Frames :
               /\ pc'[g] = "restore" => \A s \in Sigs \ todo'[g] : handler'[s] = "prior"
               /\ pc'[g] \in Back => AllPrior'
  BY <1>1, <1>2, <1>3 DEF PutBack, Back
<1>4. pc'[Main] \in {"mRun", "finally", "uLock"} \cup UninstallPcs => phase' # "NEW"
  BY <1>1 DEF PutBack
<1>. QED BY <1>2, <1>3, <1>4 DEF PutBack, Back

\* No activation moves and the dispositions stay.
LEMMA PutBackStill ==
  ASSUME TypeOK, PutBack, UNCHANGED <<pc, handler, prior_handlers, todo>>,
         phase' = "NEW" <=> phase = "NEW",
         \A k \in Occ : helpers'[k] > 0 => AllPrior
  PROVE  PutBack'
<1>1. (AllPrior' <=> AllPrior) /\ (Established' <=> Established)  BY DEF AllPrior, Established
<1>. QED BY <1>1 DEF PutBack

\* What a running shutdown says about the phase.
LEMMA ShutdownNotNew ==
  ASSUME DrainInv, \/ \E k \in Occ : wpc[k] # "none" \/ pc[k] \in Freezing \cup EscalatePcs \cup DetachPcs
                   \/ pending > 0 \/ pc[Fin] \notin Idle
  PROVE  phase \notin {"NEW", "ACTIVE"}
BY DEF DrainInv, QuietBeforeShutdown, QuietAt, Idle

LEMMA MainStepPutBack ==
  ASSUME TypeOK, DrainInv, Nested, GoneBeforePosted, PutBack, MainStep
  PROVE  PutBack'
<1>1. /\ Top = Main /\ pc[Main] \in InstallPcs /\ phase = "NEW" /\ UNCHANGED helpers
      /\ phase' # "NEW" => pc[Main] = "mActive"
  BY DEF MainStep, Install, InstallRollback, At, Goto, InstallPcs, DrainInv, InstallingIsNew
<1>2. \A f \in Frames \ {Main} : pc[f] \in Idle  BY <1>1, MainAlone
<1>3. \A k \in Occ : helpers[k] = 0
  <2>1. \A k \in Occ : wpc[k] = "none"  BY <1>1, ShutdownNotNew
  <2>. QED BY <2>1 DEF GoneBeforePosted, Posted, TypeOK, TypeDrain
<1>4. CASE pc[Main] = "mActive"
  <2>1. pc' = [pc EXCEPT ![Main] = "mRun"] /\ UNCHANGED <<todo, handler, prior_handlers>> /\ phase' = "ACTIVE"
    BY <1>4 DEF MainStep, Install, InstallRollback, At, Goto
  <2>2. Established /\ "mRun" \notin Back \cup {"restore"}
    BY <1>4 DEF Established, Back, ClearingPcs
  <2>. QED BY <1>1, <2>1, <2>2, PutBackMove
<1>5. CASE pc[Main] # "mActive"
  <2>1. /\ phase' = "NEW" /\ pc'[Main] \in InstallPcs \cup {"exit"}
        /\ \A f \in Frames \ {Main} : pc'[f] \in Idle
        /\ pc'[Main] = "mActive" => prior_handlers' = Sigs
    BY <1>1, <1>2, <1>5 DEF MainStep, Install, InstallRollback, At, Goto, InstallPcs, TypeOK, TypeMain
  <2>2. /\ \A f \in Frames : pc'[f] \notin Back \cup {"restore"}
        /\ pc'[Main] \notin {"mRun", "finally", "uLock"} \cup UninstallPcs
    BY <2>1 DEF Back, ClearingPcs, InstallPcs, UninstallPcs, RestorePcs, Idle
  <2>. QED BY <1>1, <1>3, <2>1, <2>2 DEF PutBack, Established, Back
<1>. QED BY <1>4, <1>5

LEMMA RestorePutBack ==
  ASSUME TypeOK, DrainInv, PutBack, NEW f \in Frames, RestoreHandlers(f)
  PROVE  PutBack'
<1>1. /\ UNCHANGED <<phase, helpers>> /\ pc[f] \in RestorePcs
      /\ f = Main => phase # "NEW" /\ phase' # "NEW"
  BY DEF RestoreHandlers, At, RestorePcs, PutBack, UninstallPcs
<1>2. ret[f] \in {"uRegs", "dDone", "raise"}
  BY <1>1 DEF DrainInv, OwnCode, OwnAt
<1>3. CASE pc[f] = "list"
  <2>1. pc' = [pc EXCEPT ![f] = "restore"] /\ todo' = [todo EXCEPT ![f] = prior_handlers]
        /\ UNCHANGED <<handler, prior_handlers>>
    BY <1>3 DEF RestoreHandlers, At, Goto
  <2>2. todo'[f] = prior_handlers /\ \A g \in Frames \ {f} : todo'[g] = todo[g]
    BY <2>1 DEF TypeOK, TypeMain
  <2>3. Established' => Established  BY <1>1, <2>1 DEF Established, TypeOK, TypeMain
  <2>4. Established => \A s \in Sigs \ todo'[f] : handler[s] = "prior"
    BY <2>2 DEF PutBack, AllPrior
  <2>. QED BY <1>1, <2>1, <2>2, <2>3, <2>4, PutBackMove DEF Back, ClearingPcs
<1>4. CASE pc[f] = "restore" /\ todo[f] # {}
  <2>1. PICK s \in todo[f] : /\ handler' = [handler EXCEPT ![s] = "prior"]
                             /\ todo' = [todo EXCEPT ![f] = @ \ {s}] /\ UNCHANGED <<pc, prior_handlers>>
    BY <1>4 DEF RestoreHandlers, At, Goto
  <2>2. /\ \A r \in Sigs : handler[r] = "prior" => handler'[r] = "prior"
        /\ todo'[f] = todo[f] \ {s} /\ \A g \in Frames \ {f} : todo'[g] = todo[g]
        /\ handler'[s] = "prior"
    BY <2>1 DEF TypeOK, TypeMain, TypeCoord
  <2>3. (Established' <=> Established) /\ (AllPrior => AllPrior')
    BY <1>1, <2>1, <2>2 DEF Established, AllPrior
  <2>. QED BY <1>1, <2>1, <2>2, <2>3 DEF PutBack
<1>5. CASE pc[f] = "restore" /\ todo[f] = {}
  <2>1. pc' = [pc EXCEPT ![f] = "clear"] /\ UNCHANGED <<todo, handler, prior_handlers>>
    BY <1>5 DEF RestoreHandlers, At, Goto
  <2>2. Established' => Established  BY <1>1, <2>1 DEF Established, TypeOK, TypeMain
  <2>3. Established => AllPrior  BY <1>5 DEF PutBack, AllPrior
  <2>. QED BY <1>1, <2>1, <2>2, <2>3, PutBackMove
<1>6. CASE pc[f] = "clear"
  <2>1. pc' = [pc EXCEPT ![f] = ret[f]] /\ prior_handlers' = {} /\ UNCHANGED <<todo, handler>>
    BY <1>6 DEF RestoreHandlers, At, Goto
  <2>2. pc'[f] = ret[f] /\ \A g \in Frames \ {f} : pc'[g] = pc[g]
    BY <2>1 DEF TypeOK, TypeMain
  <2>3. (Established' => Established) /\ (AllPrior' <=> AllPrior)
    BY <1>1, <1>2, <2>1, <2>2 DEF Established, AllPrior
  <2>4. Established => AllPrior  BY <1>6 DEF PutBack
  <2>5. pc'[Main] \in {"mRun", "finally", "uLock"} \cup UninstallPcs => phase' # "NEW"
    BY <1>1, <2>2 DEF PutBack
  <2>. QED BY <1>1, <1>2, <2>1, <2>2, <2>3, <2>4, <2>5 DEF PutBack
<1>. QED BY <1>1, <1>3, <1>4, <1>5, <1>6 DEF RestorePcs

LEMMA PutBackStep ==
  ASSUME TypeOK, DrainInv, Nested, GoneBeforePosted, PutBack, [Next]_vars
  PROVE  PutBack'
<1> USE DEF Back, ClearingPcs
<1>1. CASE MainReturns \/ Finally
  <2>1. /\ UNCHANGED <<handler, prior_handlers, helpers, phase, todo>>
        /\ pc[Main] \in {"mRun", "finally", "uLock", "exit"}
    BY <1>1 DEF MainReturns, Finally, At
  <2>2. CASE UNCHANGED pc
    BY <2>1, <2>2 DEF PutBack, Established, AllPrior
  <2>3. CASE ~UNCHANGED pc
    <3>1. PICK l \in {"finally", "uLock", "list", "exit"} : pc' = [pc EXCEPT ![Main] = l]
      BY <1>1, <2>3 DEF MainReturns, Finally, Goto
    <3>2. l # "exit" => phase # "NEW"
      BY <1>1, <2>1, <2>3, <3>1 DEF PutBack, MainReturns, Finally, At, Goto
    <3>3. Established' => Established  BY <2>1, <3>1 DEF Established, TypeOK, TypeMain
    <3>4. l \notin Back \cup {"restore"} /\ "exit" \notin {"mRun", "finally", "uLock"} \cup UninstallPcs
      BY DEF UninstallPcs, RestorePcs
    <3>. QED BY <2>1, <3>1, <3>2, <3>3, <3>4, PutBackMove
  <2>. QED BY <2>2, <2>3
<1>2. CASE Uninstall
  <2>1. /\ UNCHANGED <<handler, prior_handlers, helpers, todo>> /\ pc[Main] \in ClearingPcs
        /\ phase' \in {phase, "UNINSTALLED"} /\ phase # "NEW"
    BY <1>2 DEF Uninstall, At, PutBack, UninstallPcs
  <2>2. PICK l \in {"uSnap", "uFrozen", "uDone", "exit"} : pc' = [pc EXCEPT ![Main] = l]
    BY <1>2 DEF Uninstall, Goto
  <2>3. Established /\ AllPrior  BY <2>1 DEF Established, PutBack
  <2>. QED BY <2>1, <2>2, <2>3, PutBackMove
<1>3. CASE Unwind
  <2>1. UNCHANGED <<handler, prior_handlers, helpers, todo, phase>>
    BY <1>3 DEF Unwind
  <2>2. PICK f \in Frames : \E l \in {"done", "mRollback", "exit", "finally"} :
          pc' = [pc EXCEPT ![f] = l] /\ (l = "finally" => pc[Main] = "mRun")
    BY <1>3, TopIsFrame DEF Unwind, Return, Handler
  <2>6. PICK l \in {"done", "mRollback", "exit", "finally"} :
          pc' = [pc EXCEPT ![f] = l] /\ (l = "finally" => pc[Main] = "mRun")
    BY <2>2
  <2>3. Established' => Established  BY <2>1, <2>6 DEF Established, TypeOK, TypeMain
  <2>4. l = "finally" => phase # "NEW"  BY <2>6 DEF PutBack
  <2>5. l \notin Back \cup {"restore"} /\ (l # "finally" => l \notin {"mRun", "finally", "uLock"} \cup UninstallPcs)
    BY <2>6 DEF UninstallPcs, RestorePcs
  <2>. QED BY <2>1, <2>6, <2>3, <2>4, <2>5, PutBackMove
<1>4. ASSUME NEW k \in Occ, OnSignal(k)  PROVE PutBack'
  <2>1. /\ UNCHANGED <<handler, prior_handlers, helpers, todo>>
        /\ phase' = "NEW" => phase = "NEW"
        /\ phase' # phase => pc[k] = "drain"
    BY <1>4 DEF OnSignal, Entry, CancelToken, Freeze, SpawnWorker, Escalate, RaiseSignal, At
  <2>2. PICK l \in {"done", "list"} \cup ActivePcs \cup EscalatePcs \cup {"detach"} : pc' = [pc EXCEPT ![k] = l]
    BY <1>4 DEF OnSignal, Entry, CancelToken, Freeze, SpawnWorker, Escalate, RaiseSignal, Goto, Return,
       ActivePcs, EscalatePcs
  <2>3. pc[k] = "drain" => phase = "ACTIVE"  BY DEF DrainInv, DecisionHolds, Deciding
  <2>4. Established' => Established  BY <2>1, <2>2, <2>3 DEF Established, TypeOK, TypeMain
  <2>5. l \notin Back \cup {"restore"}  BY <2>2 DEF ActivePcs, EscalatePcs
  <2>6. k \in Frames /\ k # Main  OBVIOUS
  <2>. QED BY <2>1, <2>2, <2>4, <2>5, <2>6, PutBackMove
<1>5. ASSUME NEW f \in Frames \ {Main}, Detach(f)  PROVE PutBack'
  <2>1. /\ UNCHANGED <<handler, prior_handlers, helpers, todo>> /\ pc[f] \in DetachPcs
        /\ phase' \in {phase, "FINALIZING", "UNINSTALLED"}
    BY <1>5 DEF Detach, At, DetachPcs
  <2>2. PICK l \in {"dRegs", "dSnap", "dFrozen", "list", "fHelper", "raise"} :
          pc' = [pc EXCEPT ![f] = l] /\ (l \in {"fHelper", "raise"} => pc[f] = "dDone")
    BY <1>5 DEF Detach, At, Goto
  <2>3. phase # "NEW"
    BY <1>5, <2>1, ShutdownNotNew DEF DetachPcs, Idle
  <2>4. Established /\ (pc[f] = "dDone" => AllPrior)  BY <2>3 DEF Established, PutBack
  <2>. QED BY <2>1, <2>2, <2>3, <2>4, PutBackMove
<1>6. CASE BeginFinalize \/ \E k \in Occ : Arrive(k)
  <2>1. UNCHANGED <<handler, prior_handlers, helpers, todo, phase>>
    BY <1>6 DEF BeginFinalize, Arrive
  <2>2. PICK f \in Frames \ {Main} : \E l \in {"fCheck", "entry", "done"} : pc' = [pc EXCEPT ![f] = l]
    <3>1. CASE BeginFinalize
      <4>1. pc' = [pc EXCEPT ![Fin] = "fCheck"]  BY <3>1 DEF BeginFinalize
      <4>2. Fin \in Frames \ {Main}  OBVIOUS
      <4>. QED BY <4>1, <4>2
    <3>2. CASE \E k \in Occ : Arrive(k)
      <4>1. PICK k \in Occ : Arrive(k)  BY <3>2
      <4>2. PICK l \in {"entry", "done"} : pc' = [pc EXCEPT ![k] = l]  BY <4>1 DEF Arrive
      <4>3. k \in Frames \ {Main} /\ l \in {"fCheck", "entry", "done"}  OBVIOUS
      <4>. QED BY <4>2, <4>3
    <3>. QED BY <1>6, <3>1, <3>2
  <2>4. PICK l \in {"fCheck", "entry", "done"} : pc' = [pc EXCEPT ![f] = l]  BY <2>2
  <2>3. Established' => Established  BY <2>1, <2>4 DEF Established, TypeOK, TypeMain
  <2>. QED BY <2>1, <2>4, <2>3, PutBackMove
<1>7. CASE Finalize
  <2>1. UNCHANGED <<handler, prior_handlers, todo, phase>> /\ pc[Fin] \in {"fCheck", "fHelper"}
    BY <1>7 DEF Finalize, At
  <2>2. phase # "NEW"  BY <2>1, ShutdownNotNew DEF Idle
  <2>3. PICK l \in {"done", "detach"} : pc' = [pc EXCEPT ![Fin] = l]
    BY <1>7 DEF Finalize, Goto, Return
  <2>4. Established /\ Fin \in Frames \ {Main}  BY <2>2 DEF Established
  <2>5. CASE UNCHANGED helpers
    BY <2>1, <2>3, <2>4, <2>5, PutBackMove
  <2>6. CASE ~UNCHANGED helpers
    <3>1. AllPrior  BY <1>7, <2>4, <2>6 DEF Finalize, At, PutBack
    <3>2. AllPrior'  BY <2>1, <3>1 DEF AllPrior
    <3>3. \A s \in Sigs : handler'[s] = "prior"  BY <3>2 DEF AllPrior
    <3>. QED BY <2>1, <2>2, <2>3, <2>4, <3>2, <3>3 DEF PutBack, TypeOK, TypeMain
  <2>. QED BY <2>5, <2>6
<1>8. ASSUME NEW k \in Occ, Worker(k)  PROVE PutBack'
  <2>1. /\ UNCHANGED <<pc, handler, prior_handlers, todo, helpers>> /\ phase' \in {phase, "FINALIZING"}
        /\ wpc[k] # "none"
    BY <1>8 DEF Worker, DrainLoop, RunRegistration, FinishDrain, WAt
  <2>2. phase # "NEW"  BY <2>1, ShutdownNotNew
  <2>3. \A j \in Occ : helpers'[j] > 0 => AllPrior  BY <2>1 DEF PutBack
  <2>. QED BY <2>1, <2>2, <2>3, PutBackStill
<1>9. ASSUME NEW k \in Occ, Redeliver(k)  PROVE PutBack'
  <2>1. UNCHANGED <<pc, handler, prior_handlers, todo, phase>> /\ helpers[k] > 0
    BY <1>9 DEF Redeliver
  <2>2. AllPrior  BY <2>1 DEF PutBack
  <2>. QED BY <2>1, <2>2, PutBackStill
<1>10. CASE \/ GraceExpires \/ Ended \/ UNCHANGED vars
            \/ (\E i \in Ids : CoroutineEnds(i)) \/ \E c \in Clients : Client(c)
  <2>1. UNCHANGED <<pc, handler, prior_handlers, todo, phase, helpers>>
    BY <1>10 DEF GraceExpires, Ended, CoroutineEnds, Client, ClientOnly, vars
  <2>. QED BY <2>1 DEF PutBack, Established, AllPrior
<1>. QED
  BY <1>1, <1>2, <1>3, <1>4, <1>5, <1>6, <1>7, <1>8, <1>9, <1>10, MainStepPutBack, RestorePutBack
    DEF Next, MainThread

------------------------------------------------------------------------------
(* One delivery.                                                             *)

LEMMA DoneStays ==
  ASSUME TypeOK, DrainInv, [Next]_vars, NEW k \in Occ, pc[k] = "done"
  PROVE  pc'[k] = "done"
BY OccurrenceMoves DEF Deciding, Freezing, EscalatePcs, RestorePcs, DetachPcs

\* Of the finalizer, only its start makes it run.
LEMMA FinStarts ==
  ASSUME TypeOK, DrainInv, [Next]_vars, ~BeginFinalize
  PROVE  FinRuns' \in Nat /\ FinRuns \in Nat /\ FinRuns' <= FinRuns
<1>1. pc[Fin] \in Idle => pc'[Fin] \in Idle  BY FinalizerMoves DEF Idle
<1>. QED BY <1>1 DEF FinRuns

\* While the worker of k is there, nothing of the delivery is.
LEMMA NothingPosted ==
  ASSUME TypeOK, DrainInv, GoneBeforePosted, NEW k \in Occ, wpc[k] \notin {"none", "gone"}
  PROVE  pending = 0 /\ FinRuns = 0 /\ \A j \in Occ : helpers[j] = 0
<1>1. \A j \in Occ : wpc[j] # "gone"  BY OneWorker
<1>. QED BY <1>1 DEF GoneBeforePosted, Posted, FinRuns, TypeOK, TypeDrain

LEMMA DeliveryKept ==
  ASSUME TypeOK, DrainInv, [Next]_vars, ~BeginFinalize, NEW k \in Occ, DeliveryOf(k),
         delivered'[k] = delivered[k], helpers'[k] = helpers[k], wpc'[k] = wpc[k],
         pending' = pending, triggering_signal' = triggering_signal,
         pc'[k] \in Freezing \ {"trigger"} => pc[k] \in Freezing \ {"trigger"}
  PROVE  DeliveryOf(k)'
<1>1. pc'[k] # "done" => pc[k] # "done"  BY DoneStays
<1>2. pc[k] = "done" => pc'[k] = "done"  BY DoneStays
<1>3. delivered[k] \in Nat /\ helpers[k] \in Nat /\ pending \in Nat
  BY DEF TypeOK, TypeDrain, TypeHistory
<1>4. FinRuns' \in Nat /\ FinRuns \in Nat /\ FinRuns' <= FinRuns  BY FinStarts
<1>. QED BY <1>1, <1>2, <1>3, <1>4 DEF DeliveryOf

LEMMA MainDelivery ==
  ASSUME TypeOK, DrainInv, GoneBeforePosted, OneDelivery, [Next]_vars, NEW k \in Occ,
         \/ BeginFinalize \/ Finalize
         \/ \E j \in Occ : Freeze(j) \/ SpawnWorker(j) \/ RaiseSignal(j) \/ Arrive(j)
  PROVE  DeliveryOf(k)'
<1>1. /\ delivered[k] \in Nat /\ helpers[k] \in Nat /\ pending \in Nat /\ FinRuns \in {0, 1}
      /\ k \in Frames /\ k # Fin /\ k # Main /\ DeliveryOf(k)
  BY DEF TypeOK, TypeDrain, TypeHistory, FinRuns, OneDelivery
<1>2. CASE BeginFinalize
  <2>1. /\ pc' = [pc EXCEPT ![Fin] = "fCheck"] /\ pending' = pending - 1 /\ pc[Fin] \in Idle
        /\ UNCHANGED <<delivered, helpers, wpc, triggering_signal>>
    BY <1>2 DEF BeginFinalize, Idle
  <2>2. pc'[k] = pc[k] /\ FinRuns = 0 /\ FinRuns' = 1
    BY <1>1, <2>1 DEF TypeOK, TypeMain, FinRuns, Idle
  <2>. QED BY <1>1, <2>1, <2>2 DEF DeliveryOf
<1>3. CASE Finalize
  <2>1. /\ UNCHANGED <<delivered, wpc, triggering_signal, pending>> /\ ~BeginFinalize
        /\ pc[Fin] \in {"fCheck", "fHelper"}
    BY <1>3 DEF Finalize, BeginFinalize, At, Idle
  <2>2. PICK l \in {"done", "detach"} : pc' = [pc EXCEPT ![Fin] = l]
    BY <1>3 DEF Finalize, Goto, Return
  <2>3. pc'[k] = pc[k] /\ pc'[Fin] = l  BY <1>1, <2>2 DEF TypeOK, TypeMain
  <2>4. CASE UNCHANGED helpers
    BY <1>1, <2>1, <2>3, <2>4, DeliveryKept
  <2>5. CASE ~UNCHANGED helpers
    <3>1. helpers' = [helpers EXCEPT ![triggering_signal] = @ + 1] /\ pc' = [pc EXCEPT ![Fin] = "done"]
      BY <1>3, <2>5 DEF Finalize, Return
    <3>2. PICK j \in Occ : wpc[j] = "gone"
      BY <2>1 DEF GoneBeforePosted, Posted, Idle
    <3>3. triggering_signal = j  BY <3>2 DEF OneDelivery, DeliveryOf
    <3>4. CASE k = j
      <4>1. helpers'[k] = helpers[k] + 1 /\ FinRuns = 1 /\ FinRuns' = 0
        BY <2>1, <3>1, <3>3, <3>4 DEF TypeOK, TypeDrain, TypeMain, FinRuns, Idle
      <4>. QED BY <1>1, <2>1, <2>3, <3>2, <3>4, <4>1 DEF DeliveryOf
    <3>5. CASE k # j
      <4>1. helpers'[k] = helpers[k] /\ wpc[k] = "none"
        BY <3>1, <3>2, <3>3, <3>5, OneWorker DEF TypeOK, TypeDrain
      <4>. QED BY <1>1, <2>1, <2>3, <4>1, DeliveryKept
    <3>. QED BY <3>4, <3>5
  <2>. QED BY <2>4, <2>5
<1>4. ASSUME NEW j \in Occ, Freeze(j)  PROVE DeliveryOf(k)'
  <2>1. /\ UNCHANGED <<delivered, helpers, wpc, pending>> /\ ~BeginFinalize
        /\ pc[j] \in Freezing \cup {"drain"}
        /\ triggering_signal' = IF pc[j] = "trigger" THEN j ELSE triggering_signal
    BY <1>1, <1>4 DEF Freeze, At, Freezing, BeginFinalize
  <2>2. PICK l \in Freezing : pc' = [pc EXCEPT ![j] = l] /\ (l = "trigger" <=> pc[j] = "drain")
    BY <1>4 DEF Freeze, At, Goto, Freezing
  <2>3. pc'[j] = l /\ (k # j => pc'[k] = pc[k])  BY <1>1, <2>2 DEF TypeOK, TypeMain
  <2>4. CASE k # j
    <3>1. CASE pc[j] \in Freezing
      <4>1. wpc[k] = "none" /\ pc[k] \notin Freezing
        BY <2>4, <3>1 DEF DrainInv, OneDrainer, Drainer
      <4>. QED BY <1>1, <2>1, <2>3, <2>4, <4>1 DEF DeliveryOf
    <3>2. CASE pc[j] = "drain"
      BY <1>1, <2>1, <2>3, <2>4, <3>2, DeliveryKept
    <3>. QED BY <2>1, <3>1, <3>2
  <2>5. CASE k = j
    <3>1. wpc[k] = "none"
      <4>1. pc[k] # "done"  BY <2>1, <2>5 DEF Freezing
      <4>. QED BY <1>1, <4>1 DEF DeliveryOf
    <3>2. l \in Freezing \ {"trigger"} => triggering_signal' = k
      BY <1>1, <2>1, <2>2, <2>5 DEF DeliveryOf, Freezing
    <3>3. delivered[k] = 0 /\ helpers[k] = 0
      BY <1>1, <2>1, <2>5, <3>1 DEF DeliveryOf, Freezing
    <3>. QED BY <2>1, <2>3, <2>5, <3>1, <3>2, <3>3 DEF DeliveryOf
  <2>. QED BY <2>4, <2>5
<1>5. ASSUME NEW j \in Occ, SpawnWorker(j)  PROVE DeliveryOf(k)'
  <2>1. /\ UNCHANGED <<delivered, helpers, pending, triggering_signal>> /\ ~BeginFinalize
        /\ wpc' = [wpc EXCEPT ![j] = "check"] /\ pc' = [pc EXCEPT ![j] = "done"] /\ pc[j] = "spawn"
    BY <1>1, <1>5 DEF SpawnWorker, At, Return, BeginFinalize
  <2>2. CASE k # j
    <3>1. pc'[k] = pc[k] /\ wpc'[k] = wpc[k]  BY <1>1, <2>1, <2>2 DEF TypeOK, TypeMain, TypeDrain
    <3>. QED BY <1>1, <2>1, <3>1, DeliveryKept
  <2>3. CASE k = j
    <3>1. pc'[k] = "done" /\ wpc'[k] = "check"  BY <1>1, <2>1, <2>3 DEF TypeOK, TypeMain, TypeDrain
    <3>2. triggering_signal = k /\ delivered[k] = 0
      BY <1>1, <2>1, <2>3 DEF DeliveryOf, Freezing
    <3>. QED BY <2>1, <3>1, <3>2 DEF DeliveryOf
  <2>. QED BY <2>2, <2>3
<1>6. ASSUME NEW j \in Occ, RaiseSignal(j) \/ Arrive(j)  PROVE DeliveryOf(k)'
  <2>1. /\ UNCHANGED <<helpers, wpc, pending, triggering_signal>> /\ ~BeginFinalize
        /\ pc[j] \in {"raise", "none"}
        /\ \/ delivered' = delivered
           \/ delivered' = [delivered EXCEPT ![j] = @ + 1] /\ pc' = [pc EXCEPT ![j] = "done"]
    BY <1>1, <1>6 DEF RaiseSignal, Arrive, PriorHandles, At, Return, BeginFinalize
  <2>2. PICK l \in {"done", "entry"} : pc' = [pc EXCEPT ![j] = l]
    BY <1>6 DEF RaiseSignal, Arrive, Return
  <2>3. pc'[j] = l /\ (k # j => pc'[k] = pc[k])  BY <1>1, <2>2 DEF TypeOK, TypeMain
  <2>4. CASE k # j
    <3>1. delivered'[k] = delivered[k]  BY <2>1, <2>4 DEF TypeOK, TypeHistory
    <3>. QED BY <1>1, <2>1, <2>3, <2>4, <3>1, DeliveryKept
  <2>5. CASE k = j
    <3>1. wpc[k] = "none" /\ delivered[k] = 0 /\ helpers[k] = 0
      BY <1>1, <2>1, <2>5 DEF DeliveryOf
    <3>2. CASE delivered' = delivered
      BY <2>1, <2>3, <2>5, <3>1, <3>2 DEF DeliveryOf, Freezing
    <3>3. CASE delivered' = [delivered EXCEPT ![j] = @ + 1] /\ pc' = [pc EXCEPT ![j] = "done"]
      <4>1. delivered'[k] = 1 /\ pc'[k] = "done"
        BY <1>1, <2>5, <3>1, <3>3 DEF TypeOK, TypeHistory, TypeMain
      <4>. QED BY <2>1, <3>1, <4>1 DEF DeliveryOf, Freezing
    <3>. QED BY <2>1, <3>2, <3>3
  <2>. QED BY <2>4, <2>5
<1>. QED BY <1>2, <1>3, <1>4, <1>5, <1>6

LEMMA WorkerDelivery ==
  ASSUME TypeOK, DrainInv, GoneBeforePosted, OneDelivery, [Next]_vars, NEW k \in Occ,
         NEW j \in Occ, Worker(j) \/ Redeliver(j)
  PROVE  DeliveryOf(k)'
<1>1. /\ \A i \in Occ : delivered[i] \in Nat /\ helpers[i] \in Nat
      /\ pending \in Nat /\ DeliveryOf(k)
  BY DEF TypeOK, TypeDrain, TypeHistory, OneDelivery
<1>2. CASE Worker(j)
  <2>1. /\ UNCHANGED <<pc, delivered, helpers, triggering_signal>>
        /\ wpc[j] \notin {"none", "gone"} /\ pending' \in {pending, pending + 1}
        /\ pending' # pending => wpc[j] = "post"
    BY <1>2 DEF Worker, DrainLoop, RunRegistration, FinishDrain, WAt
  <2>2. PICK l \in WorkerPcs \ {"none"} : wpc' = [wpc EXCEPT ![j] = l] /\ (pending' # pending => l = "gone")
    BY <1>2, <2>1 DEF Worker, DrainLoop, RunRegistration, FinishDrain, WAt, WGoto, WorkerPcs
  <2>3. ~BeginFinalize
    <3>1. pending = 0  BY <2>1, NothingPosted
    <3>. QED BY <3>1 DEF BeginFinalize
  <2>4. CASE k # j
    <3>1. wpc[k] = "none" /\ wpc'[k] = "none"
      BY <2>1, <2>2, <2>4, OneWorker DEF TypeOK, TypeDrain
    <3>2. DeliveryOf(k) /\ helpers'[k] = helpers[k] /\ delivered'[k] = delivered[k] /\ pc'[k] = pc[k]
          /\ triggering_signal' = triggering_signal
      BY <1>1, <2>1
    <3>. QED BY <3>1, <3>2 DEF DeliveryOf
  <2>5. CASE k = j
    <3>1. wpc'[k] = l /\ delivered[k] = 0 /\ pc[k] = "done" /\ triggering_signal = k
      BY <1>1, <2>1, <2>2, <2>5 DEF TypeOK, TypeDrain, DeliveryOf
    <3>2. pending = 0 /\ FinRuns = 0 /\ helpers[k] = 0  BY <2>1, <2>5, NothingPosted
    <3>3. FinRuns' = 0 /\ pending' \in {0, 1}  BY <2>1, <3>2 DEF FinRuns
    <3>4. delivered'[k] = 0 /\ helpers'[k] = 0 /\ pc'[k] = "done" /\ triggering_signal' = k
      BY <2>1, <3>1, <3>2
    <3>5. wpc'[k] # "none"  BY <2>2, <3>1
    <3>6. delivered'[k] + helpers'[k] + pending' + FinRuns' <= 1
      <4>1. delivered'[k] + helpers'[k] + pending' + FinRuns' = 0 + 0 + pending' + 0  BY <3>3, <3>4
      <4>. QED BY <3>3, <4>1
    <3>. QED BY <3>4, <3>5, <3>6 DEF DeliveryOf
  <2>. QED BY <2>4, <2>5
<1>3. CASE Redeliver(j)
  <2>1. /\ UNCHANGED <<pc, wpc, triggering_signal, pending>> /\ helpers[j] > 0
        /\ helpers' = [helpers EXCEPT ![j] = @ - 1] /\ delivered' = [delivered EXCEPT ![j] = @ + 1]
    BY <1>3 DEF Redeliver, PriorHandles
  <2>2. FinRuns' = FinRuns  BY <2>1 DEF FinRuns
  <2>3. CASE k # j
    <3>1. helpers'[k] = helpers[k] /\ delivered'[k] = delivered[k]
      BY <2>1, <2>3 DEF TypeOK, TypeDrain, TypeHistory
    <3>. QED BY <1>1, <2>1, <2>2, <3>1 DEF DeliveryOf
  <2>4. CASE k = j
    <3>1. helpers'[k] = helpers[k] - 1 /\ delivered'[k] = delivered[k] + 1
      BY <2>1, <2>4 DEF TypeOK, TypeDrain, TypeHistory
    <3>2. wpc[k] = "gone"
      <4>1. wpc[k] # "none"  BY <1>1, <2>1, <2>4 DEF DeliveryOf
      <4>2. Posted  BY <2>1 DEF Posted
      <4>. QED BY <4>1, <4>2, OneWorker DEF GoneBeforePosted
    <3>3. pc[k] = "done" /\ FinRuns \in Nat  BY <1>1, <3>2 DEF DeliveryOf, FinRuns
    <3>. QED BY <1>1, <2>1, <2>2, <3>1, <3>2, <3>3 DEF DeliveryOf
  <2>. QED BY <2>3, <2>4
<1>. QED BY <1>2, <1>3

LEMMA DeliveryStep ==
  ASSUME TypeOK, DrainInv, GoneBeforePosted, OneDelivery, [Next]_vars
  PROVE  OneDelivery'
<1> SUFFICES ASSUME NEW k \in Occ  PROVE DeliveryOf(k)'
  BY DEF OneDelivery
<1> DEFINE Moved == \/ BeginFinalize \/ Finalize
                   \/ \E j \in Occ : Freeze(j) \/ SpawnWorker(j) \/ RaiseSignal(j) \/ Arrive(j)
<1>1. CASE Moved \/ \E j \in Occ : Worker(j) \/ Redeliver(j)
  BY <1>1, MainDelivery, WorkerDelivery
<1>2. CASE ~(Moved \/ \E j \in Occ : Worker(j) \/ Redeliver(j))
  <2>1. UNCHANGED <<delivered, helpers, wpc, pending, triggering_signal>>
    BY <1>2 DEF Next, MainThread, Unwind, MainStep, Finally, Uninstall, OnSignal, Entry, CancelToken,
       Escalate, RestoreHandlers, Detach, MainReturns, GraceExpires, Ended, CoroutineEnds, Client,
       ClientOnly, vars
  <2>2. pc'[k] = pc[k] \/ pc'[k] \notin Freezing
    BY <1>2, OccurrenceMoves DEF Deciding, Freezing, EscalatePcs, RestorePcs, DetachPcs
  <2>. QED BY <1>2, <2>1, <2>2, DeliveryKept DEF OneDelivery
<1>. QED BY <1>1, <1>2

------------------------------------------------------------------------------
(* The lock and the published future.                                        *)

\* Who does not hold the lock is not in a with-block.
LEMMA Unheld ==
  ASSUME TypeOK, LockHeld
  PROVE  /\ lock \notin Clients => \A c \in Clients : cpc[c] = "idle"
         /\ lock # "worker" => \A k \in Occ : wpc[k] # "final"
         /\ lock # "main" => pc[Main] \notin HoldingPcs
         /\ {"free", "main", "worker"} \cap Clients = {}
BY DEF LockHeld

LEMMA MainLock ==
  ASSUME TypeOK, DrainInv, LockHeld, MainStep \/ MainReturns \/ Finally \/ Uninstall \/ Unwind
  PROVE  LockHeld'
<1> USE DEF HoldingPcs, InstallPcs, UninstallPcs, RestorePcs, ClearingPcs
<1>1. UNCHANGED <<cpc, wpc>>
  BY DEF MainStep, MainReturns, Finally, Uninstall, Unwind
<1>2. CASE lock \in {"free", "main"}
  <2>1. (\A c \in Clients : cpc'[c] = "idle") /\ \A k \in Occ : wpc'[k] # "final"
    BY <1>1, <1>2, Unheld
  <2>2. pc'[Main] \in HoldingPcs => lock' = "main"
    <3>1. CASE MainStep
      BY <3>1, <1>2 DEF MainStep, Install, InstallRollback, At, Goto, LockHeld, TypeOK, TypeMain
    <3>2. CASE MainReturns \/ Finally
      BY <3>2, <1>2 DEF MainReturns, Finally, At, Goto, LockHeld, TypeOK, TypeMain
    <3>3. CASE Uninstall
      BY <3>3, <1>2 DEF Uninstall, At, Goto, LockHeld, TypeOK, TypeMain
    <3>4. CASE Unwind /\ Top = Main
      <4>1. PICK l \in Handler(pc[Main]) : /\ pc' = [pc EXCEPT ![Main] = l]
                                           /\ lock' = IF lock = "main" /\ l # "mRollback" THEN "free" ELSE lock
        BY <3>4 DEF Unwind
      <4>2. l \in {"mRollback", "exit", "finally"} /\ (l = "mRollback" => pc[Main] \in HoldingPcs)
        BY <4>1 DEF Handler
      <4>. QED BY <4>1, <4>2 DEF LockHeld, TypeOK, TypeMain
    <3>5. CASE Unwind /\ Top # Main
      <4>1. pc' = [pc EXCEPT ![Top] = "done"] /\ UNCHANGED lock  BY <3>5 DEF Unwind, Return
      <4>. QED BY <3>5, <4>1 DEF LockHeld, TypeOK, TypeMain
    <3>. QED BY <3>1, <3>2, <3>3, <3>4, <3>5
  <2>. QED BY <2>1, <2>2 DEF LockHeld
<1>3. CASE lock \notin {"free", "main"}
  <2>1. pc[Main] \notin HoldingPcs  BY <1>3 DEF LockHeld
  <2>2. UNCHANGED lock /\ pc'[Main] \notin HoldingPcs
    <3>1. CASE MainStep \/ MainReturns \/ Finally \/ Uninstall
      BY <1>3, <2>1, <3>1 DEF MainStep, Install, InstallRollback, MainReturns, Finally, Uninstall, At, Goto,
         TypeOK, TypeMain
    <3>2. CASE Unwind
      <4>1. UNCHANGED lock /\ (pc'[Main] = pc[Main] \/ pc'[Main] \in Handler(pc[Main]) \/ pc'[Main] = "done")
        BY <1>3, <3>2 DEF Unwind, Return, TypeOK, TypeMain
      <4>. QED BY <2>1, <4>1 DEF Handler
    <3>. QED BY <3>1, <3>2
  <2>. QED BY <1>1, <2>2 DEF LockHeld
<1>. QED BY <1>2, <1>3

LEMMA ClientLock ==
  ASSUME TypeOK, LockHeld, NEW c \in Clients, Client(c)
  PROVE  LockHeld'
<1>1. UNCHANGED <<pc, wpc>>  BY DEF Client, ClientOnly
<1>2. PICK l : cpc' = [cpc EXCEPT ![c] = l] \/ UNCHANGED cpc
  BY DEF Client, ClientStep, BeginRegister, BeginUnregister, CopyRegistry, Publish, PublishSnapshot,
     Verdict, Leave, CGoto
<1>3. \A d \in Clients \ {c} : cpc'[d] = cpc[d]  BY <1>2 DEF TypeOK, TypeClient
<1>4. lock \in {"free", c} /\ lock' \in {"free", c} /\ (cpc'[c] # "idle" => lock' = c)
  <2>1. CASE cpc[c] = "idle"
    BY <2>1 DEF Client, ClientStep, BeginRegister, BeginUnregister, CopyRegistry, Publish, PublishSnapshot,
       Verdict, CAt, CGoto, TypeOK, TypeClient
  <2>2. CASE cpc[c] # "idle"
    <3>1. lock = c  BY <2>2 DEF LockHeld
    <3>. QED BY <2>2, <3>1 DEF Client, ClientStep, BeginRegister, BeginUnregister, CopyRegistry, Publish,
       PublishSnapshot, Verdict, Leave, CAt, CGoto, TypeOK, TypeClient
  <2>. QED BY <2>1, <2>2
<1>5. lock \notin {"main", "worker"}  BY <1>4
<1>6. \A d \in Clients \ {c} : cpc[d] = "idle"  BY <1>4 DEF LockHeld
<1>. QED BY <1>1, <1>3, <1>4, <1>5, <1>6 DEF LockHeld

LEMMA WorkerLock ==
  ASSUME TypeOK, DrainInv, LockHeld, NEW k \in Occ, Worker(k)
  PROVE  LockHeld'
<1>1. UNCHANGED <<pc, cpc>>
  BY DEF Worker, DrainLoop, RunRegistration, FinishDrain
<1>2. CASE DrainLoop(k) \/ RunRegistration(k)
  <2>1. UNCHANGED lock  BY <1>2 DEF DrainLoop, RunRegistration
  <2>2. PICK l : wpc' = [wpc EXCEPT ![k] = l] /\ l # "final"
    BY <1>2 DEF DrainLoop, RunRegistration, WGoto
  <2>3. \A j \in Occ : wpc'[j] = "final" => wpc[j] = "final"  BY <2>2 DEF TypeOK, TypeDrain
  <2>. QED BY <1>1, <2>1, <2>3 DEF LockHeld
<1>3. CASE FinishDrain(k)
  <2>1. \A j \in Occ \ {k} : wpc[j] = "none"
    BY <1>3, OneWorker DEF FinishDrain, WAt
  <2>2. \/ wpc[k] = "finish" /\ lock = "free" /\ lock' = "worker"
        \/ wpc[k] = "final" /\ lock' = "free" /\ wpc' = [wpc EXCEPT ![k] = "post"]
        \/ lock' = lock /\ wpc' = [wpc EXCEPT ![k] = "gone"]
    BY <1>3 DEF FinishDrain, WAt, WGoto
  <2>3. wpc[k] = "final" => lock = "worker"  BY DEF LockHeld
  <2>4. CASE lock' = lock /\ wpc' = [wpc EXCEPT ![k] = "gone"]
    BY <1>1, <2>1, <2>4 DEF LockHeld, TypeOK, TypeDrain
  <2>5. CASE lock' # lock \/ wpc' # [wpc EXCEPT ![k] = "gone"]
    <3>1. lock \in {"free", "worker"} /\ lock' \in {"free", "worker"}  BY <2>2, <2>3, <2>5
    <3>2. \A c \in Clients : cpc[c] = "idle"  BY <3>1, Unheld
    <3>3. pc[Main] \notin HoldingPcs  BY <3>1, Unheld
    <3>4. \A j \in Occ : wpc'[j] = "final" => lock' = "worker"
      BY <2>1, <2>2, <2>5, <3>1 DEF TypeOK, TypeDrain
    <3>. QED BY <1>1, <3>2, <3>3, <3>4 DEF LockHeld
  <2>. QED BY <2>4, <2>5
<1>. QED BY <1>2, <1>3 DEF Worker

LEMMA LockStep ==
  ASSUME TypeOK, DrainInv, LockHeld, [Next]_vars
  PROVE  LockHeld'
<1> DEFINE Moved == \/ MainStep \/ MainReturns \/ Finally \/ Uninstall \/ Unwind
                   \/ (\E c \in Clients : Client(c)) \/ \E k \in Occ : Worker(k)
<1>1. CASE Moved
  BY <1>1, MainLock, ClientLock, WorkerLock
<1>2. CASE ~Moved
  <2>1. UNCHANGED <<lock, cpc>>
    BY <1>2 DEF Next, MainThread, OnSignal, Entry, CancelToken, Freeze, SpawnWorker, Escalate, RaiseSignal,
       BeginFinalize, Finalize, RestoreHandlers, Detach, GraceExpires, Ended, Arrive, Redeliver,
       CoroutineEnds, vars
  <2>2. \A k \in Occ : wpc'[k] = "final" => wpc[k] = "final"
    BY <1>2, WorkerSteps DEF SpawnWorker, TypeOK, TypeDrain
  <2>3. pc'[Main] \in HoldingPcs => pc[Main] \in HoldingPcs
    <3>1. CASE pc'[Main] # pc[Main]
      <4>1. RestoreHandlers(Main)
        <5>1. StepOf(Main)  BY <3>1, Moves
        <5>. QED BY <1>2, <5>1 DEF StepOf
      <4>2. pc[Main] \in RestorePcs  BY <4>1 DEF RestoreHandlers, At, RestorePcs
      <4>. QED BY <4>2 DEF HoldingPcs, UninstallPcs
    <3>. QED BY <3>1
  <2>. QED BY <2>1, <2>2, <2>3 DEF LockHeld
<1>. QED BY <1>1, <1>2

LEMMA PublishedStep ==
  ASSUME TypeOK, DrainInv, Published, [Next]_vars
  PROVE  Published'
<1>1. CASE \E k \in Occ : Worker(k)
  <2>1. PICK k \in Occ : Worker(k)  BY <1>1
  <2>2. wpc[k] # "none"  BY <2>1 DEF Worker, DrainLoop, RunRegistration, FinishDrain, WAt
  <2>3. PICK l : wpc' = [wpc EXCEPT ![k] = l]
    BY <2>1 DEF Worker, DrainLoop, RunRegistration, FinishDrain, WGoto
  <2>4. \A j \in Occ \ {k} : wpc'[j] = "none"  BY <2>2, <2>3, OneWorker DEF TypeOK, TypeDrain
  <2>5. wpc'[k] \in {"recheck", "wait", "unpublish"} => active_async_future' = wid'[k]
    <3>1. CASE DrainLoop(k) \/ FinishDrain(k)
      BY <3>1 DEF DrainLoop, FinishDrain, WGoto, TypeOK, TypeDrain
    <3>2. CASE RunRegistration(k)
      BY <3>2 DEF RunRegistration, WAt, WGoto, Published, TypeOK, TypeDrain
    <3>. QED BY <2>1, <3>1, <3>2 DEF Worker
  <2>6. wpc'[k] \in Cleaning => wid'[k] \in Ids
    <3>1. CASE DrainLoop(k)
      <4>1. \/ WGoto(k, "gone") \/ WGoto(k, "finish")
            \/ \E i \in Latest(wtodo[k]) : wid' = [wid EXCEPT ![k] = i]
        BY <3>1 DEF DrainLoop
      <4>2. CASE WGoto(k, "gone") \/ WGoto(k, "finish")
        BY <4>2 DEF WGoto, TypeOK, TypeDrain, Cleaning
      <4>3. CASE \E i \in Latest(wtodo[k]) : wid' = [wid EXCEPT ![k] = i]
        BY <4>3 DEF Latest, TypeOK, TypeDrain
      <4>. QED BY <4>1, <4>2, <4>3
    <3>2. CASE FinishDrain(k)
      BY <3>2 DEF FinishDrain, WGoto, TypeOK, TypeDrain, Cleaning
    <3>3. CASE RunRegistration(k)
      <4>1. wpc[k] \in Cleaning /\ wid' = wid  BY <3>3 DEF RunRegistration, WAt, Cleaning
      <4>. QED BY <4>1 DEF Published
    <3>. QED BY <2>1, <3>1, <3>2, <3>3 DEF Worker
  <2>7. "none" \notin Cleaning  BY DEF Cleaning
  <2>. QED BY <2>4, <2>5, <2>6, <2>7 DEF Published
<1>2. CASE ~\E k \in Occ : Worker(k)
  <2>1. UNCHANGED <<active_async_future, wid>>
    BY <1>2 DEF Next, MainThread, Unwind, MainStep, Finally, Uninstall, OnSignal, Entry, CancelToken,
       Freeze, SpawnWorker, Escalate, RaiseSignal, BeginFinalize, Finalize, RestoreHandlers, Detach,
       MainReturns, GraceExpires, Ended, Arrive, Redeliver, CoroutineEnds, Client, ClientOnly, vars
  <2>2. \A k \in Occ : wpc'[k] = wpc[k] \/ wpc'[k] = "check"
    BY <1>2, WorkerSteps DEF SpawnWorker, TypeOK, TypeDrain
  <2>3. "check" \notin Cleaning  BY DEF Cleaning
  <2>. QED BY <2>1, <2>2, <2>3 DEF Published
<1>. QED BY <1>1, <1>2

------------------------------------------------------------------------------
(* Escalation.                                                               *)

\* Which steps change the phase.
LEMMA PhaseMoves ==
  ASSUME TypeOK, DrainInv, [Next]_vars, phase' # phase
  PROVE  \/ MainStep /\ Top = Main /\ phase = "NEW" /\ phase' = "ACTIVE"
         \/ Uninstall /\ Top = Main /\ pc[Main] = "uDone" /\ phase' = "UNINSTALLED"
         \/ \E k \in Occ : Freeze(k) /\ Top = k /\ pc[k] = "drain" /\ phase' = "DRAINING"
         \/ \E f \in Frames \ {Main} : Detach(f) /\ pc[f] \in DetachPcs
         \/ \E k \in Occ : FinishDrain(k) /\ wpc[k] = "final" /\ wpc'[k] = "post" /\ phase' = "FINALIZING"
<1>1. \/ MainStep \/ Uninstall \/ (\E k \in Occ : Freeze(k) \/ FinishDrain(k))
      \/ \E f \in Frames \ {Main} : Detach(f)
  BY DEF Next, MainThread, Unwind, Finally, OnSignal, Entry, CancelToken, SpawnWorker, Escalate,
     RaiseSignal, BeginFinalize, Finalize, RestoreHandlers, MainReturns, GraceExpires, Ended, Arrive,
     Worker, DrainLoop, RunRegistration, Redeliver, CoroutineEnds, Client, ClientOnly, vars
<1>2. CASE MainStep
  BY <1>2 DEF MainStep, Install, InstallRollback, At, DrainInv, InstallingIsNew, InstallPcs
<1>3. CASE Uninstall
  BY <1>3 DEF Uninstall, At
<1>4. ASSUME NEW k \in Occ, Freeze(k)  PROVE Top = k /\ pc[k] = "drain" /\ phase' = "DRAINING"
  BY <1>4 DEF Freeze, At
<1>5. ASSUME NEW k \in Occ, FinishDrain(k)
      PROVE  wpc[k] = "final" /\ wpc'[k] = "post" /\ phase' = "FINALIZING"
  BY <1>5 DEF FinishDrain, WAt, WGoto, TypeOK, TypeDrain
<1>6. ASSUME NEW f \in Frames \ {Main}, Detach(f)  PROVE pc[f] \in DetachPcs
  BY <1>6 DEF Detach, At, DetachPcs
<1>. QED BY <1>1, <1>2, <1>3, <1>4, <1>5, <1>6

\* Which steps change a disposition.
LEMMA HandlerMoves ==
  ASSUME TypeOK, DrainInv, [Next]_vars, handler' # handler
  PROVE  \/ MainStep /\ Top = Main /\ phase = "NEW" /\ phase' = "NEW"
         \/ /\ \E f \in Frames : RestoreHandlers(f) /\ Top = f /\ pc[f] = "restore" /\ UNCHANGED <<pc, phase>>
            /\ \A s \in Sigs : handler[s] = "prior" => handler'[s] = "prior"
<1>1. MainStep \/ \E f \in Frames : RestoreHandlers(f)
  BY DEF Next, MainThread, Unwind, Finally, Uninstall, OnSignal, Entry, CancelToken, Freeze, SpawnWorker,
     Escalate, RaiseSignal, BeginFinalize, Finalize, Detach, MainReturns, GraceExpires, Ended, Arrive,
     Worker, DrainLoop, RunRegistration, FinishDrain, Redeliver, CoroutineEnds, Client, ClientOnly, vars
<1>2. CASE MainStep
  BY <1>2 DEF MainStep, Install, InstallRollback, At, DrainInv, InstallingIsNew, InstallPcs
<1>3. ASSUME NEW f \in Frames, RestoreHandlers(f)
      PROVE  /\ Top = f /\ pc[f] = "restore" /\ UNCHANGED <<pc, phase>>
             /\ \A s \in Sigs : handler[s] = "prior" => handler'[s] = "prior"
  BY <1>3 DEF RestoreHandlers, At, TypeOK, TypeCoord
<1>. QED BY <1>1, <1>2, <1>3

\* The latch stays set, and only an escalation sets it.
LEMMA AbortMoves ==
  ASSUME TypeOK, [Next]_vars
  PROVE  /\ abort => abort'
         /\ ~abort /\ abort' => \E k \in Occ : /\ Escalate(k) /\ Top = k /\ ~raising /\ pc[k] = "abort"
                                               /\ pc' = [pc EXCEPT ![k] = "aborting"] /\ UNCHANGED future
<1>1. UNCHANGED abort \/ \E k \in Occ : Escalate(k)
  BY DEF Next, MainThread, Unwind, MainStep, Finally, Uninstall, OnSignal, Entry, CancelToken, Freeze,
     SpawnWorker, RaiseSignal, BeginFinalize, Finalize, RestoreHandlers, Detach, MainReturns, GraceExpires,
     Ended, Arrive, Worker, DrainLoop, RunRegistration, FinishDrain, Redeliver, CoroutineEnds, Client,
     ClientOnly, vars
<1>2. ASSUME NEW k \in Occ, Escalate(k)
      PROVE  \/ UNCHANGED abort
             \/ /\ abort' = TRUE /\ Top = k /\ ~raising /\ pc[k] = "abort"
                /\ pc' = [pc EXCEPT ![k] = "aborting"] /\ UNCHANGED future
  BY <1>2 DEF Escalate, At, Goto
<1>. QED BY <1>1, <1>2

LEMMA OwnedStep ==
  ASSUME TypeOK, DrainInv, Nested, OwnedWhenTaken, [Next]_vars
  PROVE  OwnedWhenTaken'
<1> SUFFICES ASSUME phase' = "ACTIVE", NEW k \in Occ, pc'[k] \notin Idle
             PROVE  pc'[k] \in {"entry"} \cup Deciding /\ handler'[sig'[k]] = "ours"
  BY DEF OwnedWhenTaken
<1>1. UNCHANGED sig
  BY DEF Next, MainThread, Unwind, MainStep, Finally, Uninstall, OnSignal, Entry, CancelToken, Freeze,
     SpawnWorker, Escalate, RaiseSignal, BeginFinalize, Finalize, RestoreHandlers, Detach, MainReturns,
     GraceExpires, Ended, Arrive, Worker, DrainLoop, RunRegistration, FinishDrain, Redeliver, CoroutineEnds,
     Client, ClientOnly, vars
<1>2. phase = "ACTIVE"
  <2>1. CASE MainStep /\ Top = Main
    <3>1. pc[k] \in Idle /\ k # Main  BY <2>1, MainAlone
    <3>2. pc'[k] # pc[k]  BY <3>1
    <3>. QED BY <2>1, <3>1, <3>2, OccurrenceMoves DEF MainStep, Install, InstallRollback, At,
           Arrive, Goto, TypeOK, TypeMain
  <2>2. CASE ~(MainStep /\ Top = Main)
    <3>1. \A f \in Frames \ {Main} : pc[f] \in DetachPcs => phase \notin {"NEW", "ACTIVE"}
      BY ShutdownNotNew DEF DetachPcs, Idle
    <3>2. \A f \in Frames \ {Main} : Detach(f) => phase' \in {phase, "FINALIZING", "UNINSTALLED"}
      BY DEF Detach
    <3>. QED BY <2>2, <3>2, PhaseMoves
  <2>. QED BY <2>1, <2>2
<1>3. /\ pc[k] \notin Idle => pc[k] \in {"entry"} \cup Deciding /\ handler[sig[k]] = "ours"
      /\ phase' = phase
  BY <1>2 DEF OwnedWhenTaken
<1>4. pc'[k] \in {"entry"} \cup Deciding
  <2>1. CASE pc'[k] # pc[k]
    <3>1. Freeze(k) => pc[k] # "drain"
      BY <1>2, <1>3 DEF Freeze, At
    <3>2. Entry(k) => pc'[k] = "cancel"
      BY <1>2 DEF Entry, Goto, TypeOK, TypeMain
    <3>. QED BY <1>2, <1>3, <2>1, <3>1, <3>2, OccurrenceMoves
             DEF Deciding, Idle, Freezing, EscalatePcs, RestorePcs, DetachPcs
  <2>. QED BY <1>3, <2>1
<1>5. handler'[sig[k]] = "ours"
  <2>1. CASE handler' # handler
    <3>1. PICK f \in Frames : Top = f /\ pc[f] = "restore" /\ UNCHANGED pc
      BY <1>2, <2>1, HandlerMoves
    <3>2. f # Main  BY <3>1, MainAlone
    <3>3. f \notin Occ
      BY <1>2, <3>1 DEF OwnedWhenTaken, Deciding, Idle
    <3>4. pc[Fin] \in Idle
      BY <1>2, ShutdownNotNew
    <3>. QED BY <3>1, <3>2, <3>3, <3>4 DEF Idle
  <2>2. CASE handler' = handler
    <3>1. CASE pc[k] \in Idle
      <4>1. pc'[k] # pc[k]  BY <3>1
      <4>2. Arrive(k)
        BY <3>1, <4>1, OccurrenceMoves DEF Deciding, Idle, Freezing, EscalatePcs, RestorePcs, DetachPcs
      <4>. QED BY <2>2, <4>2 DEF Arrive, TypeOK, TypeMain, Idle
    <3>. QED BY <1>3, <2>2, <3>1
  <2>. QED BY <2>1, <2>2
<1>. QED BY <1>1, <1>4, <1>5

LEMMA AbortedStep ==
  ASSUME TypeOK, DrainInv, AbortedToDetach, [Next]_vars
  PROVE  AbortedToDetach'
<1> SUFFICES ASSUME NEW k \in Occ,
                    \/ pc'[k] \in {"aborting", "cancelFuture"} \cup DetachPcs
                    \/ pc'[k] \in RestorePcs /\ ret'[k] = "dDone",
                    ~abort
             PROVE  abort'
  BY AbortMoves DEF AbortedToDetach
<1>1. /\ pc[k] \notin {"aborting", "cancelFuture"} \cup DetachPcs
      /\ pc[k] \in RestorePcs => ret[k] # "dDone"
  BY DEF AbortedToDetach
<1>2. ret'[k] = ret[k] \/ (Entry(k) /\ ret'[k] = "raise") \/ Detach(k)
  <2>1. \/ UNCHANGED ret \/ Finally \/ (\E j \in Occ : Entry(j)) \/ \E f \in Frames \ {Main} : Detach(f)
    BY DEF Next, MainThread, Unwind, MainStep, Uninstall, OnSignal, CancelToken, Freeze,
       SpawnWorker, Escalate, RaiseSignal, BeginFinalize, Finalize, RestoreHandlers, MainReturns,
       GraceExpires, Ended, Arrive, Worker, DrainLoop, RunRegistration, FinishDrain, Redeliver, CoroutineEnds,
       Client, ClientOnly, vars
  <2>2. CASE Finally
    <3>1. (UNCHANGED ret \/ ret' = [ret EXCEPT ![Main] = "uRegs"]) /\ k # Main
      BY <2>2 DEF Finally
    <3>. QED BY <3>1 DEF TypeOK, TypeMain
  <2>3. ASSUME NEW j \in Occ, Entry(j)  PROVE ret'[k] = ret[k] \/ (k = j /\ ret'[k] = "raise")
    BY <2>3 DEF Entry, TypeOK, TypeMain
  <2>4. ASSUME NEW f \in Frames, Detach(f)  PROVE ret'[k] = ret[k] \/ k = f
    BY <2>4 DEF Detach, TypeOK, TypeMain
  <2>. QED BY <2>1, <2>2, <2>3, <2>4
<1>3. ~Detach(k)  BY <1>1 DEF Detach, At, DetachPcs
<1>4. pc'[k] # pc[k]
  <2>1. Entry(k) => pc'[k] # pc[k]
    BY DEF Entry, At, Goto, TypeOK, TypeMain
  <2>. QED BY <1>1, <1>2, <1>3, <2>1
<1>5. CASE Escalate(k)
  BY <1>1, <1>4, <1>5 DEF Escalate, At, EscalatePcs
<1>6. CASE RestoreHandlers(k)
  <2>1. ~Entry(k)  BY <1>6 DEF RestoreHandlers, Entry, At
  <2>2. pc[k] \in RestorePcs /\ ret'[k] = ret[k]  BY <1>2, <1>3, <1>6, <2>1 DEF RestoreHandlers, At, RestorePcs
  <2>3. ret[k] = "raise"
    BY <1>1, <2>2 DEF DrainInv, OwnCode, OwnAt
  <2>4. pc'[k] \in {"restore", "clear", "raise"}
    BY <1>4, <1>6, <2>3 DEF RestoreHandlers, At, Goto, TypeOK, TypeMain
  <2>. QED BY <1>1, <2>2, <2>3, <2>4 DEF DetachPcs
<1>7. CASE Entry(k)
  <2>1. pc'[k] \in {"cancel", "abort", "list"} /\ ret'[k] = "raise"
    BY <1>7 DEF Entry, At, Goto, TypeOK, TypeMain
  <2>. QED BY <2>1 DEF DetachPcs, RestorePcs
<1>. QED
  BY <1>3, <1>4, <1>5, <1>6, <1>7, OccurrenceMoves DEF DetachPcs, RestorePcs, Freezing

\* Where the drain that occurrence k started is, and what else there is then.
LEMMA DrainOf ==
  ASSUME TypeOK, DrainInv, GoneBeforePosted, OneDelivery, NEW k \in Occ, Draining(k)
  PROVE  /\ pc[Fin] \in Idle /\ phase \notin {"NEW", "ACTIVE"}
         /\ \A j \in Occ \ {k} : wpc[j] = "none" /\ pc[j] \notin Freezing
         /\ \/ pc[k] \in Freezing /\ wpc[k] = "none"
            \/ pc[k] = "done" /\ wpc[k] \notin {"none", "post", "gone"}
<1>1. /\ pc[k] \in Freezing => wpc[k] = "none"
      /\ wpc[k] # "none" => pc[k] = "done"
      /\ pc[k] \in Freezing \/ wpc[k] \notin {"none", "post", "gone"}
  BY DEF DrainInv, OneDrainer, OneDelivery, DeliveryOf, Draining, Cleaning
<1>2. \A j \in Occ \ {k} : wpc[j] = "none" /\ pc[j] \notin Freezing
  BY <1>1 DEF DrainInv, OneDrainer, Drainer
<1>3. pc[Fin] \in Idle
  <2>1. \A j \in Occ : wpc[j] # "gone"  BY <1>1, <1>2
  <2>. QED BY <2>1 DEF GoneBeforePosted, Posted
<1>4. phase \notin {"NEW", "ACTIVE"}  BY <1>1, ShutdownNotNew
<1>. QED BY <1>1, <1>2, <1>3, <1>4

LEMMA DrainBegins ==
  ASSUME TypeOK, DrainInv, OneDelivery, [Next]_vars, NEW k \in Occ, ~Draining(k), Draining(k)'
  PROVE  Freeze(k) /\ Top = k /\ pc[k] = "drain" /\ pc' = [pc EXCEPT ![k] = "trigger"] /\ phase' = "DRAINING"
<1>1. pc[k] # "spawn"  BY DEF Draining, Freezing
<1>2. wpc'[k] \in Cleaning \cup {"check", "finish", "final"} => pc'[k] \in Freezing
  <2>1. ~SpawnWorker(k)  BY <1>1 DEF SpawnWorker, At
  <2>2. CASE Worker(k)
    <3>1. wpc[k] = "post"
      BY <2>2 DEF Draining, Cleaning, Worker, DrainLoop, RunRegistration, FinishDrain, WAt
    <3>2. wpc'[k] = "gone"
      BY <2>2, <3>1 DEF Worker, DrainLoop, RunRegistration, FinishDrain, WAt, WGoto, TypeOK, TypeDrain
    <3>. QED BY <3>2 DEF Cleaning
  <2>3. CASE ~Worker(k)
    <3>1. wpc'[k] = wpc[k]
      BY <2>1, <2>3, WorkerSteps DEF SpawnWorker, TypeOK, TypeDrain
    <3>. QED BY <3>1 DEF Draining
  <2>. QED BY <2>2, <2>3
<1>3. pc'[k] \in Freezing /\ pc[k] \notin Freezing
  BY <1>2 DEF Draining
<1>4. Freeze(k) /\ Top = k /\ pc[k] = "drain"
  BY <1>3, OccurrenceMoves DEF Freezing, EscalatePcs, RestorePcs, DetachPcs, Deciding
<1>. QED BY <1>4 DEF Freeze, At, Goto

LEMMA UndisturbedStep ==
  ASSUME TypeOK, DrainInv, Nested, GoneBeforePosted, PutBack, OneDelivery, OwnedWhenTaken,
         AbortedToDetach, UndisturbedDrain, [Next]_vars
  PROVE  UndisturbedDrain'
<1> SUFFICES ASSUME NEW k \in Occ, Draining(k)', ~abort'
             PROVE  \/ phase' = "DRAINING" /\ \A j \in Occ \ {k} : pc'[j] \in {"none", "done", "entry", "abort"}
                    \/ phase' = "UNINSTALLED" /\ AllPrior' /\ \A j \in Occ : pc'[j] \in Idle
  BY DEF UndisturbedDrain
<1>1. ~abort  BY AbortMoves
<1>2. CASE ~Draining(k)
  <2>1. /\ Top = k /\ pc[k] = "drain" /\ pc' = [pc EXCEPT ![k] = "trigger"] /\ phase' = "DRAINING"
    BY <1>2, DrainBegins
  <2>2. phase = "ACTIVE" /\ \A j \in Occ \ {k} : pc[j] \notin Deciding
    BY <2>1 DEF DrainInv, DecisionHolds, Deciding
  <2>3. \A j \in Occ \ {k} : pc[j] \in {"none", "done", "entry"}
    BY <2>2 DEF OwnedWhenTaken, Idle
  <2>. QED BY <2>1, <2>3 DEF TypeOK, TypeMain
<1>3. CASE Draining(k)
  <2>1. /\ pc[Fin] \in Idle /\ phase \notin {"NEW", "ACTIVE"}
        /\ \A j \in Occ \ {k} : wpc[j] = "none" /\ pc[j] \notin Freezing
        /\ \/ pc[k] \in Freezing /\ wpc[k] = "none"
           \/ pc[k] = "done" /\ wpc[k] \notin {"none", "post", "gone"}
    BY <1>3, DrainOf
  <2>2. \A f \in Frames \ {Main} : pc[f] \notin DetachPcs
    BY <1>1, <2>1 DEF AbortedToDetach, DetachPcs, Idle
  <2>3. \A j \in Occ : FinishDrain(j) => wpc'[j] # "post"
    <3>1. ASSUME NEW j \in Occ, FinishDrain(j), wpc'[j] = "post"  PROVE FALSE
      <4>1. j = k  BY <2>1, <3>1 DEF FinishDrain, WAt
      <4>2. pc'[k] = "done"
        <5>1. UNCHANGED pc /\ wpc[j] # "none"  BY <3>1 DEF FinishDrain, WAt
        <5>. QED BY <2>1, <4>1, <5>1
      <4>. QED BY <3>1, <4>1, <4>2 DEF Draining, Freezing, Cleaning
    <3>. QED BY <3>1
  <2>4. phase' # phase => Uninstall /\ Top = Main /\ pc[Main] = "uDone" /\ phase' = "UNINSTALLED"
    <3>1. \A j \in Occ : pc[j] = "drain" => phase = "ACTIVE"
      BY DEF DrainInv, DecisionHolds, Deciding
    <3>. QED BY <2>1, <2>2, <2>3, <3>1, PhaseMoves
  <2>5. CASE phase = "DRAINING" /\ \A j \in Occ \ {k} : pc[j] \in {"none", "done", "entry", "abort"}
    <3>1. CASE phase' # phase
      <4>1. Uninstall /\ Top = Main /\ pc[Main] = "uDone" /\ phase' = "UNINSTALLED"
        BY <2>4, <3>1
      <4>2. AllPrior /\ UNCHANGED handler  BY <2>5, <4>1 DEF PutBack, Established, ClearingPcs, Uninstall
      <4>3. \A j \in Occ : pc[j] \in Idle  BY <4>1, MainAlone
      <4>4. \A j \in Occ : pc'[j] = pc[j]
        <5>1. \E l : pc' = [pc EXCEPT ![Main] = l]  BY <4>1 DEF Uninstall, Goto
        <5>. QED BY <5>1 DEF TypeOK, TypeMain
      <4>5. AllPrior'  BY <4>2 DEF AllPrior
      <4>. QED BY <4>1, <4>3, <4>4, <4>5
    <3>2. CASE phase' = phase
      <4>1. ASSUME NEW j \in Occ \ {k}, pc'[j] # pc[j]
            PROVE  pc'[j] \in {"none", "done", "entry", "abort"}
        <5>1. Entry(j) => pc'[j] = "abort"
          BY <2>5 DEF Entry, Goto, TypeOK, TypeMain
        <5>2. Escalate(j) => pc[j] # "abort"
          BY <1>1 DEF Escalate, At
        <5>. QED BY <2>5, <4>1, <5>1, <5>2, OccurrenceMoves
                 DEF Deciding, Freezing, EscalatePcs, RestorePcs, DetachPcs
      <4>. QED BY <2>5, <3>2, <4>1
    <3>. QED BY <3>1, <3>2
  <2>6. CASE phase = "UNINSTALLED" /\ AllPrior /\ \A j \in Occ : pc[j] \in Idle
    <3>1. phase' = "UNINSTALLED"  BY <2>4, <2>6
    <3>2. \A s \in Sigs : handler'[s] = "prior"
      BY <2>6, HandlerMoves DEF AllPrior
    <3>3. ASSUME NEW j \in Occ, pc'[j] # pc[j]  PROVE pc'[j] = "done"
      <4>1. Arrive(j) => pc'[j] = "done"
        BY <2>6 DEF Arrive, AllPrior, TypeOK, TypeMain
      <4>. QED BY <2>6, <3>3, <4>1, OccurrenceMoves
               DEF Idle, Deciding, Freezing, EscalatePcs, RestorePcs, DetachPcs
    <3>. QED BY <2>6, <3>1, <3>2, <3>3 DEF AllPrior, Idle
  <2>. QED BY <1>1, <1>3, <2>5, <2>6 DEF UndisturbedDrain
<1>. QED BY <1>2, <1>3

\* Which steps start or end an exception on the main thread.
LEMMA RaisingMoves ==
  ASSUME TypeOK, [Next]_vars
  PROVE  /\ raising' /\ ~raising =>
              \E j \in Occ : (RaiseSignal(j) /\ pc[j] = "raise") \/ handler[sig[j]] = "prior"
         /\ raising /\ ~raising' => Unwind
<1>1. \/ UNCHANGED raising \/ Unwind
      \/ \E j \in Occ : RaiseSignal(j) \/ Arrive(j) \/ Redeliver(j)
  BY DEF Next, MainThread, MainStep, Install, InstallRollback, Finally, Uninstall, OnSignal, Entry, CancelToken,
     Freeze, SpawnWorker, Escalate, BeginFinalize, Finalize, RestoreHandlers, Detach, MainReturns, GraceExpires,
     Ended, Worker, DrainLoop, RunRegistration, FinishDrain, CoroutineEnds, Client, ClientOnly, Goto, vars
<1>2. ASSUME NEW j \in Occ, RaiseSignal(j) \/ Arrive(j) \/ Redeliver(j)
      PROVE  ~raising /\ (raising' => (RaiseSignal(j) /\ pc[j] = "raise") \/ handler[sig[j]] = "prior")
  <2>1. handler[sig[j]] \in {"ours", "prior"}  BY DEF TypeOK, TypeCoord, TypeMain
  <2>2. CASE RaiseSignal(j)
    BY <2>2 DEF RaiseSignal, At
  <2>3. CASE Arrive(j)
    BY <2>1, <2>3 DEF Arrive
  <2>4. CASE Redeliver(j)
    BY <2>4 DEF Redeliver
  <2>. QED BY <1>2, <2>2, <2>3, <2>4
<1>3. CASE Unwind
  BY <1>3 DEF Unwind
<1>. QED BY <1>1, <1>2, <1>3

\* uninstall() takes over only from an ACTIVE coordinator.
LEMMA UninstallBegins ==
  ASSUME TypeOK, DrainInv, [Next]_vars, pc[Main] \notin UninstallPcs, pc'[Main] \in UninstallPcs
  PROVE  phase = "ACTIVE"
<1> USE DEF UninstallPcs, RestorePcs, ClearingPcs
<1>1. StepOf(Main) /\ Main # Fin /\ Main \notin Occ  BY Moves
<1>2. ~Unwind \/ Top # Main
  BY DEF Unwind, Handler, TypeOK, TypeMain
<1>3. ~RestoreHandlers(Main) /\ ~Uninstall
  BY DEF RestoreHandlers, Uninstall, At
<1>4. ~MainStep /\ ~MainReturns
  BY DEF MainStep, MainReturns, Install, InstallRollback, At, Goto, TypeOK, TypeMain
<1>5. CASE Finally
  BY <1>5 DEF Finally, At, Goto, TypeOK, TypeMain
<1>. QED BY <1>1, <1>2, <1>3, <1>4, <1>5 DEF StepOf

\* A worker that waits on a running coroutine was waiting before, and nobody is
\* cancelling the future it published.
LEMMA StillWaiting ==
  ASSUME TypeOK, DrainInv, Published, [Next]_vars,
         NEW k \in Occ, wpc'[k] = "wait", future'[wid'[k]] = "running", abort'
  PROVE  /\ wpc[k] = "wait" /\ future[wid[k]] = "running" /\ \A j \in Occ : ~Worker(j)
         /\ \A j \in Occ : Escalate(j) => pc[j] # "cancelFuture"
<1>1. ~\E j \in Occ : SpawnWorker(j)
  <2>1. ASSUME NEW j \in Occ, SpawnWorker(j)  PROVE FALSE
    <3>1. wpc' = [wpc EXCEPT ![j] = "check"]  BY <2>1 DEF SpawnWorker
    <3>2. \A i \in Occ : wpc[i] = "none"  BY <2>1 DEF SpawnWorker, At, DrainInv, OneDrainer, Drainer, Freezing
    <3>. QED BY <3>1, <3>2 DEF TypeOK, TypeDrain
  <2>. QED BY <2>1
<1>2. wpc[k] # "none" /\ \A j \in Occ \ {k} : wpc[j] = "none"
  BY <1>1, WorkerSteps, OneWorker
<1>3. ~Worker(k)
  <2>1. Worker(k) => UNCHANGED abort  BY DEF Worker, DrainLoop, RunRegistration, FinishDrain
  <2>2. DrainLoop(k) \/ FinishDrain(k) => wpc'[k] # "wait"
    BY DEF DrainLoop, FinishDrain, WGoto, TypeOK, TypeDrain
  <2>3. RunRegistration(k) => wpc'[k] # "wait" \/ ~abort
    BY DEF RunRegistration, WAt, WGoto, TypeOK, TypeDrain
  <2>. QED BY <2>1, <2>2, <2>3 DEF Worker
<1>4. \A j \in Occ : ~Worker(j)
  <2>1. \A j \in Occ : Worker(j) => wpc[j] # "none"
    BY DEF Worker, DrainLoop, RunRegistration, FinishDrain, WAt
  <2>. QED BY <1>2, <1>3, <2>1
<1>5. wpc[k] = "wait" /\ wid'[k] = wid[k]
  <2>1. UNCHANGED wpc  BY <1>1, <1>4, WorkerSteps
  <2>2. UNCHANGED wid
    BY <1>1, <1>4 DEF Next, MainThread, Unwind, MainStep, Finally, Uninstall, OnSignal, Entry, CancelToken,
       Freeze, Escalate, RaiseSignal, BeginFinalize, Finalize, RestoreHandlers, Detach,
       MainReturns, GraceExpires, Ended, Arrive, Redeliver, CoroutineEnds, Client, ClientOnly, vars
  <2>. QED BY <2>1, <2>2
<1>6. wid[k] \in Ids /\ active_async_future = wid[k]
  BY <1>5 DEF Published, Cleaning
<1>7. ASSUME NEW j \in Occ, Escalate(j)
      PROVE  future[wid[k]] = "running" /\ pc[j] # "cancelFuture"
  <2>1. CASE UNCHANGED future
    <3>1. pc[j] = "cancelFuture" => CancelActiveFuture
      BY <1>7 DEF Escalate, At
    <3>2. CancelActiveFuture => future'[wid[k]] # "running"
      BY <1>6 DEF CancelActiveFuture
    <3>. QED BY <1>5, <2>1, <3>1, <3>2
  <2>2. CASE CancelActiveFuture
    BY <1>5, <1>6, <2>2 DEF CancelActiveFuture
  <2>. QED BY <1>7, <2>1, <2>2 DEF Escalate
<1>8. ASSUME NEW i \in Ids, CoroutineEnds(i)  PROVE future[wid[k]] = "running"
  BY <1>5, <1>6, <1>8 DEF CoroutineEnds, TypeOK, TypeDrain
<1>9. CASE ~\E j \in Occ : Escalate(j)
  <2>1. CASE ~\E i \in Ids : CoroutineEnds(i)
    <3>1. UNCHANGED future
      BY <1>1, <1>4, <1>9, <2>1 DEF Next, MainThread, Unwind, MainStep, Finally, Uninstall, OnSignal, Entry,
         CancelToken, Freeze, RaiseSignal, BeginFinalize, Finalize, RestoreHandlers, Detach, MainReturns,
         GraceExpires, Ended, Arrive, Redeliver, Client, ClientOnly, vars
    <3>. QED BY <1>4, <1>5, <1>9, <3>1
  <2>. QED BY <1>4, <1>5, <1>8, <1>9, <2>1
<1>. QED BY <1>4, <1>5, <1>7, <1>9

LEMMA WaitStep ==
  ASSUME TypeOK, DrainInv, Nested, GoneBeforePosted, OneDelivery, Published, AbortedToDetach,
         UndisturbedDrain, WaitIsCut, [Next]_vars
  PROVE  WaitIsCut'
<1> SUFFICES ASSUME NEW k \in Occ, wpc'[k] = "wait", future'[wid'[k]] = "running", abort'
             PROVE  /\ phase' = "DRAINING" /\ (raising' => SomePrior')
                    /\ \A j \in Occ : pc'[j] \in {"none", "done", "entry", "abort", "aborting", "cancelFuture"}
                    /\ \/ \E j \in Occ : pc'[j] \in {"aborting", "cancelFuture"}
                       \/ SomePrior' /\ (raising' \/ pc'[Main] \notin UninstallPcs)
  BY DEF WaitIsCut
<1>1. /\ wpc[k] = "wait" /\ future[wid[k]] = "running" /\ \A j \in Occ : ~Worker(j)
      /\ \A j \in Occ : Escalate(j) => pc[j] # "cancelFuture"
  BY StillWaiting
<1>2. /\ Draining(k) /\ pc[Fin] \in Idle
      /\ pc[k] = "done" /\ \A j \in Occ \ {k} : pc[j] \notin Freezing
  <2>1. Draining(k)  BY <1>1 DEF Draining, Cleaning
  <2>. QED BY <1>1, <2>1, DrainOf
<1>3. CASE ~abort
  <2>1. PICK j \in Occ : /\ Escalate(j) /\ ~raising /\ pc[j] = "abort"
                         /\ pc' = [pc EXCEPT ![j] = "aborting"]
    BY <1>3, AbortMoves
  <2>2. phase = "DRAINING" /\ \A i \in Occ \ {k} : pc[i] \in {"none", "done", "entry", "abort"}
    BY <1>2, <1>3, <2>1 DEF UndisturbedDrain, Idle
  <2>3. phase' = phase /\ ~raising'
    <3>1. UNCHANGED coordVars /\ UNCHANGED raising  BY <2>1 DEF Escalate, Goto
    <3>. QED BY <2>1, <3>1
  <2>. QED BY <1>2, <2>1, <2>2, <2>3 DEF TypeOK, TypeMain
<1>4. CASE abort
  <2>1. /\ phase = "DRAINING" /\ (raising => SomePrior)
        /\ \A j \in Occ : pc[j] \in {"none", "done", "entry", "abort", "aborting", "cancelFuture"}
        /\ \/ \E j \in Occ : pc[j] \in {"aborting", "cancelFuture"}
           \/ SomePrior /\ (raising \/ pc[Main] \notin UninstallPcs)
    BY <1>1, <1>4 DEF WaitIsCut
  <2>2. phase' = "DRAINING"
    <3>1. \A f \in Frames \ {Main} : pc[f] \notin DetachPcs
      BY <1>2, <2>1 DEF DetachPcs, Idle
    <3>2. \A j \in Occ : ~Freeze(j) \/ pc[j] # "drain"  BY <2>1
    <3>3. ~Uninstall \/ pc[Main] # "uDone" \/ Top # Main
      <4>1. ASSUME Uninstall, pc[Main] = "uDone", Top = Main  PROVE FALSE
        <5>1. \A j \in Occ : pc[j] \in Idle  BY <4>1, MainAlone
        <5>2. ~raising  BY <4>1 DEF Uninstall, At
        <5>. QED BY <2>1, <4>1, <5>1, <5>2 DEF Idle, UninstallPcs, ClearingPcs
      <4>. QED BY <4>1
    <3>. QED BY <1>1, <2>1, <3>1, <3>2, <3>3, PhaseMoves DEF Worker
  <2>3. SomePrior => SomePrior'
    BY <2>1, HandlerMoves DEF SomePrior
  <2>4. raising' => SomePrior'
    <3>1. \A j \in Occ : handler[sig[j]] = "prior" => SomePrior  BY DEF SomePrior, TypeOK, TypeMain
    <3>. QED BY <2>1, <2>3, <3>1, RaisingMoves
  <2>5. ASSUME NEW j \in Occ, pc'[j] # pc[j]
        PROVE  \/ pc'[j] \in {"entry", "abort"} /\ pc[j] \in {"none", "entry"}
               \/ pc'[j] \in {"aborting", "cancelFuture"}
               \/ pc'[j] = "done" /\ (pc[j] = "none" \/ (Unwind /\ Top = j))
    <3>1. Entry(j) => pc'[j] = "abort"
      BY <2>1 DEF Entry, Goto, TypeOK, TypeMain
    <3>2. Escalate(j) => pc'[j] \in {"aborting", "cancelFuture"}
      BY <1>1 DEF Escalate, At, Goto, TypeOK, TypeMain
    <3>. QED BY <2>1, <2>5, <3>1, <3>2, OccurrenceMoves
             DEF Deciding, Freezing, RestorePcs, DetachPcs
  <2>6. \/ \E j \in Occ : pc'[j] \in {"aborting", "cancelFuture"}
        \/ SomePrior' /\ (raising' \/ pc'[Main] \notin UninstallPcs)
    <3>1. ASSUME NEW j \in Occ, pc[j] \in {"aborting", "cancelFuture"},
                 pc'[j] \notin {"aborting", "cancelFuture"}
          PROVE  raising'
      <4>1. Unwind /\ Top = j  BY <2>5, <3>1
      <4>2. j # Main /\ j # Fin  OBVIOUS
      <4>3. raising' = (Top # Fin)  BY <4>1, <4>2 DEF Unwind
      <4>. QED BY <4>1, <4>2, <4>3
    <3>2. ASSUME SomePrior, raising, ~raising'  PROVE pc'[Main] \notin UninstallPcs
      <4>1. Unwind  BY <3>2, RaisingMoves
      <4>2. Top # Fin
        <5>1. stack[1] # Main => pc[stack[1]] \notin Idle  BY TopIsFrame DEF Nested
        <5>. QED BY <1>2, <5>1, TopIsFrame
      <4>3. Top = Main  BY <3>2, <4>1, <4>2 DEF Unwind
      <4>. QED BY <4>1, <4>3 DEF Unwind, Handler, TypeOK, TypeMain, UninstallPcs, RestorePcs, ClearingPcs
    <3>3. ASSUME SomePrior, ~raising, pc[Main] \notin UninstallPcs  PROVE pc'[Main] \notin UninstallPcs
      BY <2>1, <3>3, UninstallBegins
    <3>. QED BY <2>1, <2>3, <2>4, <3>1, <3>2, <3>3
  <2>. QED BY <2>1, <2>2, <2>4, <2>5, <2>6
<1>. QED BY <1>3, <1>4

------------------------------------------------------------------------------
(* Accepted cleanups.                                                        *)

\* Who takes a client's step: nobody else is inside register() or unregister().
LEMMA OneClient ==
  ASSUME TypeOK, LockHeld, NEW c \in Clients, Client(c)
  PROVE  \A d \in Clients \ {c} : /\ cpc[d] = "idle" /\ cpc'[d] = "idle"
                                  /\ cop'[d] = cop[d] /\ cid'[d] = cid[d] /\ copy'[d] = copy[d]
<1>1. lock \in {"free", c}
  <2>1. CASE cpc[c] = "idle"
    BY <2>1 DEF Client, ClientStep, BeginRegister, BeginUnregister, CopyRegistry, Publish, PublishSnapshot,
       Verdict, CAt
  <2>2. CASE cpc[c] # "idle"
    BY <2>2 DEF LockHeld
  <2>. QED BY <2>1, <2>2
<1>2. \A d \in Clients \ {c} : cpc[d] = "idle"
  BY <1>1 DEF LockHeld
<1>3. UNCHANGED cpc \/ \E l : cpc' = [cpc EXCEPT ![c] = l]
  BY DEF Client, ClientStep, BeginRegister, BeginUnregister, CopyRegistry, Publish, PublishSnapshot,
     Verdict, Leave, CGoto
<1>4. UNCHANGED cop \/ \E l : cop' = [cop EXCEPT ![c] = l]
  BY DEF Client, ClientStep, BeginRegister, BeginUnregister, CopyRegistry, Publish, PublishSnapshot,
     Verdict, Leave
<1>5. UNCHANGED cid \/ \E l : cid' = [cid EXCEPT ![c] = l]
  BY DEF Client, ClientStep, BeginRegister, BeginUnregister, CopyRegistry, Publish, PublishSnapshot,
     Verdict, Leave
<1>6. UNCHANGED copy \/ \E l : copy' = [copy EXCEPT ![c] = l]
  BY DEF Client, ClientStep, BeginRegister, BeginUnregister, CopyRegistry, Publish, PublishSnapshot,
     Verdict, Leave
<1>. QED BY <1>2, <1>3, <1>4, <1>5, <1>6 DEF TypeOK, TypeClient

LEMMA NoClientStep ==
  ASSUME [Next]_vars, ~\E c \in Clients : Client(c)
  PROVE  UNCHANGED <<clientVars, tokenVars>>
BY DEF Next, MainThread, Unwind, MainStep, Finally, Uninstall, OnSignal, Entry, CancelToken, Freeze, SpawnWorker,
   Escalate, RaiseSignal, BeginFinalize, Finalize, RestoreHandlers, Detach, MainReturns, GraceExpires,
   Ended, Arrive, Worker, DrainLoop, RunRegistration, FinishDrain, Redeliver, CoroutineEnds, vars

\* register() and unregister() start with the token they will answer for.
LEMMA TokensOfClient ==
  ASSUME TypeOK, LockHeld, TokensIssued, NEW c \in Clients, Client(c)
  PROVE  TokensIssued'
<1>1. /\ \A d \in Clients \ {c} : cpc'[d] = "idle"
      /\ UNCHANGED phase /\ phase # "NEW"
  <2>1. UNCHANGED phase  BY DEF Client, ClientOnly
  <2>2. phase # "NEW"
    BY DEF TokensIssued, Client, ClientStep, BeginRegister, BeginUnregister, CopyRegistry, Publish,
       PublishSnapshot, Verdict, CAt
  <2>. QED BY <2>1, <2>2, OneClient
<1>2. SUFFICES /\ \A i \in Ids : i >= next_id' => verdict'[i] = "none"
               /\ cpc'[c] # "idle" => IF cop'[c] = "unregister" THEN cid'[c] \in asked'
                                      ELSE cid'[c] < next_id' /\ verdict'[cid'[c]] = "none"
  BY <1>1 DEF TokensIssued
<1>3. next_id \in Nat /\ (cpc[c] # "idle" => cid[c] \in Ids)
  BY DEF TypeOK, TypeClient
<1>4. CASE BeginRegister(c)
  <2>1. next_id \in Ids  BY <1>3, <1>4 DEF BeginRegister, TypeOK, TypeClient
  <2>2. cid'[c] = next_id /\ cop'[c] = "register" /\ next_id' = next_id + 1 /\ UNCHANGED verdict
    BY <1>4 DEF BeginRegister, TypeOK, TypeClient
  <2>. QED BY <1>3, <2>1, <2>2 DEF TokensIssued
<1>5. CASE BeginUnregister(c)
  <2>1. UNCHANGED <<next_id, verdict>>  BY <1>5 DEF BeginUnregister
  <2>2. cpc'[c] # "idle" => cop'[c] = "unregister" /\ cid'[c] \in asked'
    BY <1>5 DEF BeginUnregister, CAt, CGoto, TypeOK, TypeClient
  <2>. QED BY <2>1, <2>2 DEF TokensIssued
<1>6. CASE CopyRegistry(c) \/ Publish(c) \/ PublishSnapshot(c)
  BY <1>6 DEF CopyRegistry, Publish, PublishSnapshot, CAt, TokensIssued
<1>7. CASE Verdict(c)
  <2>1. UNCHANGED <<next_id, asked>> /\ cpc[c] # "idle"
    BY <1>7 DEF Verdict, CAt
  <2>2. CASE UNCHANGED verdict
    <3>1. cpc'[c] # "idle" => cop[c] = "register" /\ cop'[c] = "rollback" /\ UNCHANGED cid
      BY <1>7 DEF Verdict, Leave, CGoto, TypeOK, TypeClient
    <3>. QED BY <2>1, <2>2, <3>1 DEF TokensIssued
  <2>3. CASE ~UNCHANGED verdict
    <3>1. /\ cpc'[c] = "idle" /\ cop[c] # "unregister"
          /\ \E v : verdict' = [verdict EXCEPT ![cid[c]] = v]
      BY <1>7, <2>3 DEF Verdict, Leave, CGoto, TypeOK, TypeClient
    <3>2. cid[c] < next_id /\ cid[c] \in Ids  BY <1>3, <2>1, <3>1 DEF TokensIssued
    <3>. QED BY <1>3, <2>1, <3>1, <3>2 DEF TokensIssued, TypeOK, TypeHistory
  <2>. QED BY <2>2, <2>3
<1>. QED BY <1>4, <1>5, <1>6, <1>7 DEF Client, ClientStep

LEMMA TokensStep ==
  ASSUME TypeOK, DrainInv, LockHeld, TokensIssued, [Next]_vars
  PROVE  TokensIssued'
<1>1. CASE ~\E c \in Clients : Client(c)
  <2>1. UNCHANGED <<cpc, cop, cid, next_id, verdict, asked>>  BY <1>1, NoClientStep
  <2>2. phase' = "NEW" => phase = "NEW"
    <3>1. \A f \in Frames \ {Main} : Detach(f) => phase' \in {phase, "FINALIZING", "UNINSTALLED"}
      BY DEF Detach
    <3>. QED BY <3>1, PhaseMoves
  <2>. QED BY <2>1, <2>2 DEF TokensIssued
<1>. QED BY <1>1, TokensOfClient

\* A shutdown opens once, with the phase: what may still begin could begin before.
LEMMA OpenBefore ==
  ASSUME TypeOK, DrainInv, OwnedWhenTaken, [Next]_vars, Open'
  PROVE  ~abort /\ (Open \/ phase = "NEW")
<1>1. ~abort  BY AbortMoves DEF Open
<1>2. ASSUME phase' = "ACTIVE", ~AllPrior', phase # "NEW"  PROVE Open
  <2>1. phase = "ACTIVE"
    <3>1. \A f \in Frames \ {Main} : Detach(f) => phase' \in {phase, "FINALIZING", "UNINSTALLED"}
      BY DEF Detach
    <3>. QED BY <1>2, <3>1, PhaseMoves
  <2>2. ~AllPrior
    <3>1. handler' = handler \/ \A s \in Sigs : handler[s] = "prior" => handler'[s] = "prior"
      BY <2>1, HandlerMoves
    <3>. QED BY <1>2, <3>1 DEF AllPrior
  <2>. QED BY <1>1, <2>1, <2>2 DEF Open
<1>3. ASSUME NEW k \in Occ, pc'[k] \in {"trigger", "snap"}  PROVE Open
  <2>1. CASE pc[k] \in {"trigger", "snap"}  BY <1>1, <2>1 DEF Open
  <2>2. CASE pc[k] \notin {"trigger", "snap"}
    <3>1. Freeze(k)
      BY <1>3, <2>2, OccurrenceMoves DEF EscalatePcs, DetachPcs
    <3>2. pc[k] = "drain"
      BY <1>3, <2>2, <3>1 DEF Freeze, At, Goto, TypeOK, TypeMain
    <3>3. phase = "ACTIVE"  BY <3>2 DEF DrainInv, DecisionHolds, Deciding
    <3>4. handler[sig[k]] = "ours"  BY <3>2, <3>3 DEF OwnedWhenTaken, Idle
    <3>5. ~AllPrior  BY <3>4 DEF AllPrior, TypeOK, TypeMain
    <3>. QED BY <1>1, <3>3, <3>5 DEF Open
  <2>. QED BY <2>1, <2>2
<1>. QED BY <1>1, <1>2, <1>3 DEF Open

\* While a drain may still read the registry, only the clients write it.
LEMMA RegistryKept ==
  ASSUME TypeOK, DrainInv, Nested, GoneBeforePosted, PutBack, OneDelivery, AbortedToDetach,
         [Next]_vars, Open, ~\E c \in Clients : Client(c)
  PROVE  UNCHANGED <<registrations, registration_snapshot>>
<1>1. ASSUME NEW j \in Occ, Freeze(j), pc[j] \in {"clearRegs", "clearSnap"}  PROVE FALSE
  <2>1. phase # "ACTIVE"  BY <1>1, ShutdownNotNew DEF Freezing
  <2>2. \A k \in Occ : pc[k] \in Freezing => k = j  BY <1>1 DEF DrainInv, OneDrainer, Drainer, Freezing
  <2>. QED BY <1>1, <2>1, <2>2 DEF Open, Freezing
<1>2. ASSUME NEW f \in Frames \ {Main}, pc[f] \in DetachPcs  PROVE FALSE
  <2>1. f = Fin  BY <1>2 DEF AbortedToDetach, Open
  <2>2. pc[Fin] \notin Idle  BY <1>2, <2>1 DEF DetachPcs, Idle
  <2>3. phase # "ACTIVE"  BY <2>2, ShutdownNotNew
  <2>4. PICK k \in Occ : pc[k] \in {"trigger", "snap"}  BY <2>3 DEF Open
  <2>5. Draining(k)  BY <2>4 DEF Draining, Freezing
  <2>. QED BY <2>2, <2>5, DrainOf
<1>3. ASSUME Uninstall  PROVE FALSE
  <2>1. Top = Main /\ pc[Main] \in ClearingPcs  BY <1>3 DEF Uninstall, At, ClearingPcs
  <2>2. \A k \in Occ : pc[k] \in Idle  BY <2>1, MainAlone
  <2>3. AllPrior  BY <2>1 DEF PutBack, Established, UninstallPcs
  <2>. QED BY <2>2, <2>3 DEF Open, Idle
<1>4. \A j \in Occ : Freeze(j) => UNCHANGED <<registrations, registration_snapshot>>
  BY <1>1 DEF Freeze, At
<1>5. \A f \in Frames \ {Main} : ~Detach(f)
  BY <1>2 DEF Detach, At, DetachPcs
<1>. QED
  BY <1>3, <1>4, <1>5 DEF Next, MainThread, Unwind, MainStep, Finally, OnSignal, Entry, CancelToken,
     SpawnWorker, Escalate, RaiseSignal, BeginFinalize, Finalize, RestoreHandlers, MainReturns, GraceExpires,
     Ended, Arrive, Worker, DrainLoop, RunRegistration, FinishDrain, Redeliver, CoroutineEnds, vars

\* What one client's step leaves to show about the registry.
LEMMA RegistryOfClient ==
  ASSUME TypeOK, LockHeld, TokensIssued, InRegistry, NEW c \in Clients, Client(c)
  PROVE  InRegistry'
<1>1. \A d \in Clients \ {c} : cpc'[d] = "idle"
  BY OneClient
<1>2. Open' <=> Open
  <2>1. UNCHANGED <<abort, phase, pc, handler>>  BY DEF Client, ClientOnly
  <2>. QED BY <2>1 DEF Open, AllPrior
<1>3. SUFFICES
        /\ Open =>
             /\ Owed' \subseteq registrations' \cap registration_snapshot'
             /\ cpc'[c] \in {"publish", "snapshot"} => Owed' \subseteq copy'[c]
             /\ cop'[c] = "register" /\ cpc'[c] \in {"snapshot", "verdict"} => cid'[c] \in registrations'
             /\ cop'[c] = "register" /\ cpc'[c] = "verdict" => cid'[c] \in registration_snapshot'
        /\ cop'[c] = "register" /\ cpc'[c] \in {"publish", "snapshot"} => cid'[c] \in copy'[c]
  BY <1>1, <1>2 DEF InRegistry
<1>4. CASE BeginRegister(c)
  <2>1. UNCHANGED <<regVars, tokenVars>> /\ cpc'[c] = "copy"
    BY <1>4 DEF BeginRegister, CGoto, TypeOK, TypeClient
  <2>2. Owed' = Owed  BY <2>1 DEF Owed
  <2>. QED BY <2>1, <2>2 DEF InRegistry
<1>5. CASE BeginUnregister(c)
  <2>1. PICK i \in Ids :
          /\ asked' = asked \cup {i}
          /\ \/ /\ copy' = [copy EXCEPT ![c] = registrations \ {i}]
                /\ cop' = [cop EXCEPT ![c] = "unregister"]
             \/ UNCHANGED cpc
    BY <1>5 DEF BeginUnregister
  <2>2. UNCHANGED <<regVars, verdict>> /\ cpc[c] = "idle"  BY <1>5 DEF BeginUnregister, CAt
  <2>3. Owed' = Owed \ {i}  BY <2>1, <2>2 DEF Owed
  <2>4. \/ cpc'[c] = "idle"
        \/ copy'[c] = registrations \ {i} /\ cop'[c] = "unregister"
    BY <2>1, <2>2 DEF TypeOK, TypeClient
  <2>. QED BY <2>2, <2>3, <2>4 DEF InRegistry
<1>6. CASE CopyRegistry(c)
  <2>1. /\ UNCHANGED <<regVars, tokenVars, cop, cid>> /\ cpc[c] = "copy" /\ cpc'[c] = "publish"
        /\ copy'[c] = IF cop[c] = "register" THEN registrations \cup {cid[c]} ELSE registrations \ {cid[c]}
    BY <1>6 DEF CopyRegistry, CAt, CGoto, TypeOK, TypeClient
  <2>2. Owed' = Owed  BY <2>1 DEF Owed
  <2>3. cid[c] \notin Owed  BY <2>1 DEF Owed, TokensIssued
  <2>. QED BY <2>1, <2>2, <2>3 DEF InRegistry
<1>7. CASE Publish(c)
  <2>1. /\ UNCHANGED <<registration_snapshot, tokenVars, cop, cid, copy>> /\ cpc[c] = "publish"
        /\ cpc'[c] = "snapshot" /\ registrations' = copy[c]
    BY <1>7 DEF Publish, CAt, CGoto, TypeOK, TypeClient
  <2>2. Owed' = Owed  BY <2>1 DEF Owed
  <2>. QED BY <2>1, <2>2 DEF InRegistry
<1>8. CASE PublishSnapshot(c)
  <2>1. /\ UNCHANGED <<registrations, tokenVars, cop, cid, copy>> /\ cpc[c] = "snapshot"
        /\ cpc'[c] = "verdict" /\ registration_snapshot' = copy[c]
    BY <1>8 DEF PublishSnapshot, CAt, CGoto, TypeOK, TypeClient
  <2>2. Owed' = Owed  BY <2>1 DEF Owed
  <2>. QED BY <2>1, <2>2 DEF InRegistry
<1>9. CASE Verdict(c)
  <2>1. UNCHANGED <<regVars, asked>> /\ cpc[c] = "verdict" /\ cid[c] \in Ids
    BY <1>9 DEF Verdict, CAt, TypeOK, TypeClient
  <2>2. cpc'[c] \notin {"publish", "snapshot", "verdict"}
    BY <1>9 DEF Verdict, Leave, CGoto, TypeOK, TypeClient
  <2>3. \/ UNCHANGED verdict
        \/ verdict' = [verdict EXCEPT ![cid[c]] = "rejected"]
        \/ cop[c] = "register" /\ verdict' = [verdict EXCEPT ![cid[c]] = "accepted"]
    BY <1>9 DEF Verdict
  <2>4. Owed' \subseteq Owed \cup {i \in {cid[c]} : cop[c] = "register"}
    BY <2>1, <2>3 DEF Owed, TypeOK, TypeHistory
  <2>. QED BY <2>1, <2>2, <2>4 DEF InRegistry
<1>. QED BY <1>4, <1>5, <1>6, <1>7, <1>8, <1>9 DEF Client, ClientStep

LEMMA RegistryStep ==
  ASSUME TypeOK, DrainInv, Nested, GoneBeforePosted, PutBack, OneDelivery, LockHeld, OwnedWhenTaken,
         AbortedToDetach, TokensIssued, InRegistry, [Next]_vars
  PROVE  InRegistry'
<1>1. CASE ~\E c \in Clients : Client(c)
  <2>1. UNCHANGED <<cpc, cop, cid, copy, verdict, asked>>  BY <1>1, NoClientStep
  <2>2. Owed' = Owed  BY <2>1 DEF Owed
  <2>3. CASE Open' /\ Open
    <3>1. UNCHANGED <<registrations, registration_snapshot>>  BY <1>1, <2>3, RegistryKept
    <3>. QED BY <2>1, <2>2, <2>3, <3>1 DEF InRegistry
  <2>4. CASE Open' /\ phase = "NEW"
    <3>1. Owed = {} /\ \A c \in Clients : cpc[c] = "idle"  BY <2>4 DEF TokensIssued, Owed
    <3>. QED BY <2>1, <2>2, <3>1 DEF InRegistry
  <2>5. CASE ~Open'
    BY <2>1, <2>5 DEF InRegistry
  <2>. QED BY <2>3, <2>4, <2>5, OpenBefore
<1>. QED BY <1>1, RegistryOfClient

\* Only the activation that froze the registrations fills in their identifiers.
LEMMA FrozenMoves ==
  ASSUME TypeOK, DrainInv, [Next]_vars
  PROVE  \/ frozen_identifiers' \subseteq frozen_identifiers
         \/ \E k \in Occ : /\ Freeze(k) /\ pc[k] = "freeze" /\ frozen_identifiers' = snapshot[k]
                           /\ pc' = [pc EXCEPT ![k] = "clearRegs"]
                           /\ UNCHANGED <<phase, snapshot, wpc>>
<1>1. ASSUME NEW k \in Occ, Freeze(k)
      PROVE  \/ UNCHANGED frozen_identifiers
             \/ /\ pc[k] = "freeze" /\ frozen_identifiers' = snapshot[k]
                /\ pc' = [pc EXCEPT ![k] = "clearRegs"] /\ UNCHANGED <<phase, snapshot, wpc>>
  BY <1>1 DEF Freeze, At, Goto
<1>2. Uninstall \/ (\E f \in Frames \ {Main} : Detach(f)) => frozen_identifiers' \subseteq frozen_identifiers
  BY DEF Uninstall, Detach
<1>3. \/ UNCHANGED frozen_identifiers \/ Uninstall \/ (\E f \in Frames \ {Main} : Detach(f))
      \/ \E k \in Occ : Freeze(k)
  BY DEF Next, MainThread, Unwind, MainStep, Finally, OnSignal, Entry, CancelToken,
     SpawnWorker, Escalate, RaiseSignal, BeginFinalize, Finalize, RestoreHandlers, MainReturns, GraceExpires,
     Ended, Arrive, Worker, DrainLoop, RunRegistration, FinishDrain, Redeliver, CoroutineEnds, Client,
     ClientStep, ClientOnly, BeginRegister, BeginUnregister, CopyRegistry, Publish, PublishSnapshot, Verdict, vars
<1>. QED BY <1>1, <1>2, <1>3

LEMMA NothingFrozenStep ==
  ASSUME TypeOK, DrainInv, NothingFrozen, [Next]_vars
  PROVE  NothingFrozen'
<1> DEFINE Before(p, l) == p \in {"NEW", "ACTIVE"} \/ \E k \in Occ : l[k] \in {"trigger", "snap", "freeze"}
<1> SUFFICES ASSUME Before(phase', pc')  PROVE frozen_identifiers' = {}
  BY DEF NothingFrozen
<1>1. Before(phase, pc)
  <2>1. CASE phase' \in {"NEW", "ACTIVE"}
    <3>1. \A f \in Frames \ {Main} : Detach(f) => phase' \in {phase, "FINALIZING", "UNINSTALLED"}
      BY DEF Detach
    <3>. QED BY <2>1, <3>1, PhaseMoves
  <2>2. ASSUME NEW k \in Occ, pc'[k] \in {"trigger", "snap", "freeze"}  PROVE Before(phase, pc)
    <3>1. CASE pc[k] \in {"trigger", "snap", "freeze"}  BY <3>1
    <3>2. CASE pc[k] \notin {"trigger", "snap", "freeze"}
      <4>1. Freeze(k)
        BY <2>2, <3>2, OccurrenceMoves DEF EscalatePcs, DetachPcs
      <4>2. pc[k] = "drain"
        BY <2>2, <3>2, <4>1 DEF Freeze, At, Goto, TypeOK, TypeMain
      <4>. QED BY <4>2 DEF DrainInv, DecisionHolds, Deciding
    <3>. QED BY <3>1, <3>2
  <2>. QED BY <2>1, <2>2
<1>2. frozen_identifiers = {}  BY <1>1 DEF NothingFrozen
<1>3. ASSUME NEW k \in Occ, pc[k] = "freeze", pc' = [pc EXCEPT ![k] = "clearRegs"], UNCHANGED phase
      PROVE  FALSE
  <2>1. phase' \notin {"NEW", "ACTIVE"}  BY <1>3, ShutdownNotNew DEF Freezing
  <2>2. PICK j \in Occ : pc'[j] \in {"trigger", "snap", "freeze"}  BY <2>1
  <2>3. j # k /\ pc[j] \in Freezing /\ pc[k] \in Freezing
    BY <1>3, <2>2 DEF TypeOK, TypeMain, Freezing
  <2>. QED BY <2>3 DEF DrainInv, OneDrainer, Drainer
<1>. QED BY <1>2, <1>3, FrozenMoves

\* Once the phase has been written, register() accepts what the freeze has kept.
LEMMA OwedAfter ==
  ASSUME TypeOK, [Next]_vars
  PROVE  /\ asked \subseteq asked'
         /\ phase # "ACTIVE" => Owed' \subseteq Owed \cup frozen_identifiers
         /\ (~\E c \in Clients : Client(c)) => Owed' = Owed
<1>1. CASE ~\E c \in Clients : Client(c)
  BY <1>1, NoClientStep DEF Owed
<1>2. ASSUME NEW c \in Clients, Client(c)
      PROVE  asked \subseteq asked' /\ (phase # "ACTIVE" => Owed' \subseteq Owed \cup frozen_identifiers)
  <2>1. asked \subseteq asked'
    BY <1>2 DEF Client, ClientStep, BeginRegister, BeginUnregister, CopyRegistry, Publish, PublishSnapshot, Verdict
  <2>2. \/ UNCHANGED verdict
        \/ verdict' = [verdict EXCEPT ![cid[c]] = "rejected"]
        \/ Included(cid[c]) /\ verdict' = [verdict EXCEPT ![cid[c]] = "accepted"]
    BY <1>2 DEF Client, ClientStep, BeginRegister, BeginUnregister, CopyRegistry, Publish, PublishSnapshot, Verdict
  <2>. QED BY <2>1, <2>2 DEF Included, Owed, TypeOK, TypeHistory
<1>. QED BY <1>1, <1>2

LEMMA FreezingStep ==
  ASSUME TypeOK, DrainInv, Nested, InRegistry, NothingFrozen, InDrain, [Next]_vars,
         NEW k \in Occ, pc'[k] \in Freezing \ {"trigger", "snap"}, ~abort'
  PROVE  Owed' \cup frozen_identifiers' \subseteq snapshot'[k]
<1>1. ~abort  BY AbortMoves
<1>2. CASE Freeze(k)
  <2>1. Owed' = Owed
    BY <1>2 DEF Freeze, Owed
  <2>2. CASE pc[k] = "snap"
    <3>1. snapshot'[k] = registration_snapshot /\ frozen_identifiers' = frozen_identifiers
      BY <1>2, <2>2 DEF Freeze, At, TypeOK, TypeMain
    <3>2. Open  BY <1>1, <2>2 DEF Open
    <3>3. frozen_identifiers = {}  BY <2>2 DEF NothingFrozen
    <3>. QED BY <2>1, <3>1, <3>2, <3>3 DEF InRegistry
  <2>3. CASE pc[k] # "snap"
    <3>1. /\ pc[k] \in Freezing \ {"trigger", "snap"} /\ snapshot' = snapshot
          /\ frozen_identifiers' \in {frozen_identifiers, snapshot[k]}
      BY <1>2, <2>3 DEF Freeze, At, Goto, TypeOK, TypeMain, Freezing
    <3>. QED BY <1>1, <2>1, <3>1 DEF InDrain
  <2>. QED BY <2>2, <2>3
<1>3. CASE ~Freeze(k)
  <2>1. pc[k] = pc'[k]
    BY <1>3, OccurrenceMoves DEF Freezing, Deciding, EscalatePcs, DetachPcs
  <2>2. pc[k] \in Freezing \ {"trigger", "snap"}  BY <2>1
  <2>3. \A j \in Occ : pc[j] \in Freezing => j = k
    BY <2>2 DEF DrainInv, OneDrainer, Drainer
  <2>4. \A j \in Occ : ~Freeze(j) \/ pc[j] = "drain"
    BY <1>3, <2>3 DEF Freeze, At, Freezing
  <2>5. frozen_identifiers' \subseteq frozen_identifiers
    BY <2>4, FrozenMoves
  <2>6. phase # "ACTIVE"  BY <2>2, ShutdownNotNew
  <2>7. Owed' \subseteq Owed \cup frozen_identifiers  BY <2>6, OwedAfter
  <2>8. snapshot'[k] = snapshot[k]
    <3>1. ~SpawnWorker(k)
      BY <2>1, <2>2 DEF SpawnWorker, At, Return, TypeOK, TypeMain
    <3>2. \A j \in Occ : ~SpawnWorker(j)
      BY <2>3, <3>1 DEF SpawnWorker, At, Freezing
    <3>3. \A j \in Occ : Freeze(j) => UNCHANGED snapshot
      BY <2>4 DEF Freeze, At
    <3>. QED
      BY <3>2, <3>3 DEF Next, MainThread, Unwind, MainStep, Finally, Uninstall, OnSignal, Entry, CancelToken,
         Escalate, RaiseSignal, BeginFinalize, Finalize, RestoreHandlers, Detach, MainReturns, GraceExpires,
         Ended, Arrive, Worker, DrainLoop, RunRegistration, FinishDrain, Redeliver, CoroutineEnds, Client,
         ClientOnly, vars
  <2>. QED BY <1>1, <2>2, <2>5, <2>7, <2>8 DEF InDrain
<1>. QED BY <1>2, <1>3

\* What the worker has on its list or has started, it goes on having so.
LEMMA CoveredByWorker ==
  ASSUME TypeOK, DrainInv, NEW k \in Occ, Worker(k)
  PROVE  Covered(k) \subseteq Covered(k)'
<1> SUFFICES ASSUME NEW i \in Covered(k)  PROVE i \in Covered(k)'
  OBVIOUS
<1>1. i \in Ids /\ (i \in wtodo[k] \/ runs[i] > 0 \/ (wpc[k] = "run" /\ wid[k] = i))
  BY DEF Covered, TypeOK, TypeDrain
<1>2. CASE DrainLoop(k)
  <2>1. wpc[k] = "check" /\ UNCHANGED runs  BY <1>2 DEF DrainLoop, WAt
  <2>2. \/ UNCHANGED wtodo
        \/ \E j : /\ wid' = [wid EXCEPT ![k] = j] /\ wtodo' = [wtodo EXCEPT ![k] = @ \ {j}]
                  /\ wpc' = [wpc EXCEPT ![k] = "run"]
    BY <1>2 DEF DrainLoop, WGoto
  <2>3. CASE UNCHANGED wtodo
    BY <1>1, <2>1, <2>3 DEF Covered
  <2>4. CASE ~UNCHANGED wtodo
    BY <1>1, <2>1, <2>2, <2>4, SMTT(40) DEF Covered, TypeOK, TypeDrain
  <2>. QED BY <2>3, <2>4
<1>3. CASE RunRegistration(k)
  <2>1. UNCHANGED <<wtodo, wid>>  BY <1>3 DEF RunRegistration
  <2>2. /\ runs[i] > 0 => runs'[i] > 0
        /\ wpc[k] = "run" /\ wid[k] = i => runs'[i] > 0
    <3>1. /\ UNCHANGED runs \/ runs' = [runs EXCEPT ![wid[k]] = @ + 1]
          /\ wpc[k] = "run" => runs' = [runs EXCEPT ![wid[k]] = @ + 1]
      BY <1>3 DEF RunRegistration, WAt
    <3>2. runs \in [Ids -> Nat] /\ i \in Ids  BY <1>1 DEF TypeOK, TypeHistory
    <3>. QED BY <3>1, <3>2
  <2>. QED BY <1>1, <2>1, <2>2 DEF Covered
<1>4. CASE FinishDrain(k)
  BY <1>1, <1>4 DEF FinishDrain, WAt, Covered
<1>. QED BY <1>2, <1>3, <1>4 DEF Worker

LEMMA DrainingStep ==
  ASSUME TypeOK, DrainInv, GoneBeforePosted, InDrain, [Next]_vars, NEW k \in Occ,
         \/ wpc'[k] \in Cleaning \cup {"check", "finish"} /\ ~abort'
         \/ wpc'[k] \in {"final", "post"}
  PROVE  Owed' \cup frozen_identifiers' \subseteq Covered(k)'
<1>1. ~abort' => ~abort  BY AbortMoves
<1>2. CASE SpawnWorker(k)
  <2>1. /\ pc[k] = "spawn" /\ wpc'[k] = "check" /\ wtodo'[k] = snapshot[k]
        /\ Owed' = Owed /\ frozen_identifiers' = frozen_identifiers
    BY <1>2 DEF SpawnWorker, At, TypeOK, TypeDrain, Owed
  <2>2. Owed \cup frozen_identifiers \subseteq snapshot[k]
    BY <1>1, <2>1 DEF InDrain, Freezing, Cleaning
  <2>. QED BY <2>1, <2>2 DEF Covered
<1>3. CASE Worker(k)
  <2>1. Owed' = Owed /\ frozen_identifiers' = frozen_identifiers
    BY <1>3 DEF Worker, DrainLoop, RunRegistration, FinishDrain, Owed
  <2>2. \/ wpc[k] \in Cleaning \cup {"check", "finish"} /\ ~abort
        \/ wpc[k] \in {"final", "post"}
    <3>1. CASE DrainLoop(k)
      BY <1>1, <3>1 DEF DrainLoop, WAt, WGoto, TypeOK, TypeDrain, Cleaning
    <3>2. CASE RunRegistration(k)
      BY <1>1, <3>2 DEF RunRegistration, WAt, WGoto, TypeOK, TypeDrain, Cleaning
    <3>3. CASE FinishDrain(k)
      BY <3>3 DEF FinishDrain, WAt, WGoto, TypeOK, TypeDrain, Cleaning
    <3>. QED BY <1>3, <3>1, <3>2, <3>3 DEF Worker
  <2>3. Owed \cup frozen_identifiers \subseteq Covered(k)  BY <2>2 DEF InDrain
  <2>. QED BY <1>3, <2>1, <2>3, CoveredByWorker
<1>4. CASE ~SpawnWorker(k) /\ ~Worker(k)
  <2>1. wpc'[k] = wpc[k] /\ wpc[k] # "none"
    <3>1. wpc'[k] = wpc[k]  BY <1>4, WorkerSteps DEF SpawnWorker, TypeOK, TypeDrain
    <3>. QED BY <3>1 DEF Cleaning
  <2>2. \A j \in Occ \ {k} : wpc[j] = "none" /\ ~SpawnWorker(j) /\ ~Worker(j) /\ pc[j] \notin Freezing
    BY <2>1 DEF SpawnWorker, Worker, DrainLoop, RunRegistration, FinishDrain, WAt, At, DrainInv, OneDrainer,
       Drainer, Freezing
  <2>3. UNCHANGED <<wtodo, wid, runs>>
    BY <1>4, <2>2 DEF Next, MainThread, Unwind, MainStep, Finally, Uninstall, OnSignal, Entry, CancelToken,
       Freeze, Escalate, RaiseSignal, BeginFinalize, Finalize, RestoreHandlers, Detach, MainReturns,
       GraceExpires, Ended, Arrive, Redeliver, CoroutineEnds, Client, ClientOnly, vars
  <2>4. Covered(k)' = Covered(k)  BY <2>1, <2>3 DEF Covered
  <2>5. pc[k] \notin Freezing  BY <2>1 DEF DrainInv, OneDrainer
  <2>6. frozen_identifiers' \subseteq frozen_identifiers
    BY <2>2, <2>5, FrozenMoves DEF Freezing
  <2>7. phase # "ACTIVE"  BY <2>1, ShutdownNotNew
  <2>8. Owed' \subseteq Owed \cup frozen_identifiers  BY <2>7, OwedAfter
  <2>9. Owed \cup frozen_identifiers \subseteq Covered(k)  BY <1>1, <2>1 DEF InDrain
  <2>. QED BY <2>4, <2>6, <2>8, <2>9
<1>. QED BY <1>2, <1>3, <1>4

LEMMA InDrainStep ==
  ASSUME TypeOK, DrainInv, Nested, GoneBeforePosted, InRegistry, NothingFrozen, InDrain, [Next]_vars
  PROVE  InDrain'
BY FreezingStep, DrainingStep DEF InDrain

------------------------------------------------------------------------------
(* The invariant and the properties.                                         *)

LEMMA InitSafety == Init => SafetyInv
<1> SUFFICES ASSUME Init  PROVE SafetyInv
  OBVIOUS
<1>1. /\ phase = "NEW" /\ AllPrior /\ prior_handlers = {} /\ frozen_identifiers = {} /\ ~abort /\ pending = 0
      /\ stack = <<Main>> /\ pc[Main] = "mStart" /\ \A f \in Frames \ {Main} : pc[f] = "none"
      /\ \A k \in Occ : wpc[k] = "none" /\ helpers[k] = 0 /\ delivered[k] = 0
      /\ \A c \in Clients : cpc[c] = "idle"
      /\ \A i \in Ids : verdict[i] = "none"
  BY DEF Init, AllPrior
<1>2. pc[Fin] = "none" /\ \A k \in Occ : pc[k] = "none"  BY <1>1
<1>3. Nested  BY <1>1 DEF Nested, Idle
<1>4. GoneBeforePosted /\ PutBack /\ OneDelivery
  BY <1>1, <1>2 DEF GoneBeforePosted, Posted, PutBack, Established, ClearingPcs, UninstallPcs, RestorePcs,
     OneDelivery, DeliveryOf, Idle, Freezing
<1>5. LockHeld /\ Published /\ OwnedWhenTaken /\ AbortedToDetach
  BY <1>1, <1>2 DEF LockHeld, HoldingPcs, InstallPcs, UninstallPcs, RestorePcs, ClearingPcs, Published, Cleaning,
     OwnedWhenTaken, AbortedToDetach, DetachPcs
<1>6. UndisturbedDrain /\ WaitIsCut
  BY <1>1, <1>2 DEF UndisturbedDrain, Draining, Freezing, Cleaning, WaitIsCut
<1>7. TokensIssued /\ InRegistry /\ NothingFrozen /\ InDrain
  BY <1>1, <1>2 DEF TokensIssued, InRegistry, Open, NothingFrozen, InDrain, Freezing, Cleaning
<1>. QED BY <1>3, <1>4, <1>5, <1>6, <1>7 DEF SafetyInv

LEMMA SafetyStep ==
  ASSUME TypeOK, DrainInv, SafetyInv, [Next]_vars
  PROVE  SafetyInv'
<1>1. Nested' /\ GoneBeforePosted' /\ PutBack' /\ OneDelivery'
  BY NestedStep, PostedStep, PutBackStep, DeliveryStep DEF SafetyInv
<1>2. LockHeld' /\ Published' /\ OwnedWhenTaken' /\ AbortedToDetach'
  BY LockStep, PublishedStep, OwnedStep, AbortedStep DEF SafetyInv
<1>3. UndisturbedDrain' /\ WaitIsCut'
  BY UndisturbedStep, WaitStep DEF SafetyInv
<1>4. TokensIssued' /\ InRegistry' /\ NothingFrozen' /\ InDrain'
  BY TokensStep, RegistryStep, NothingFrozenStep, InDrainStep DEF SafetyInv
<1>. QED BY <1>1, <1>2, <1>3, <1>4 DEF SafetyInv

\* The inductive invariant behind the coordinator's other promises, for any
\* number of signals, clients and registrations.
THEOREM SafetyInvariant == ASSUME ~Reentrant  PROVE Spec => []SafetyInv
<1>1. Spec => []TypeOK  BY TypeCorrect
<1>2. Spec => []DrainInv  BY DrainInvariant
<1>3. TypeOK /\ DrainInv /\ SafetyInv /\ [Next]_vars => SafetyInv'  BY SafetyStep
<1>. QED BY <1>1, <1>2, <1>3, InitSafety, PTL DEF Spec

\* A raised or redelivered signal finds the prior disposition put back.
THEOREM RaisesReachPriorHandler == ASSUME ~Reentrant  PROVE Spec => []RaisesToPriorHandler
<1>1. TypeOK /\ SafetyInv => RaisesToPriorHandler
  BY DEF SafetyInv, PutBack, Established, AllPrior, RaisesToPriorHandler, TypeOK, TypeMain
<1>. QED BY <1>1, TypeCorrect, SafetyInvariant, PTL

\* No finalizer is posted, running or redelivering beside a running cleanup.
THEOREM FinalizersFollowTheDrain == ASSUME ~Reentrant  PROVE Spec => []DrainedBeforeFinalize
<1>1. TypeOK /\ DrainInv /\ SafetyInv => DrainedBeforeFinalize
  <2> SUFFICES ASSUME TypeOK, DrainInv, SafetyInv, Posted, NEW k \in Occ  PROVE wpc[k] \notin Cleaning
    BY DEF DrainedBeforeFinalize, Posted, Idle
  <2>1. PICK j \in Occ : wpc[j] = "gone"  BY DEF SafetyInv, GoneBeforePosted
  <2>2. wpc[k] \in {"gone", "none"}  BY <2>1, OneWorker
  <2>. QED BY <2>2 DEF Cleaning
<1>. QED BY <1>1, TypeCorrect, DrainInvariant, SafetyInvariant, PTL

\* No signal reaches the prior disposition twice.
THEOREM SignalsAreDeliveredOnce == ASSUME ~Reentrant  PROVE Spec => []DeliveredOnce
<1>1. TypeOK /\ DrainInv /\ SafetyInv => DeliveredOnce
  <2> SUFFICES ASSUME TypeOK, DrainInv, SafetyInv, NEW k \in Occ  PROVE delivered[k] + helpers[k] <= 1
    BY DEF DeliveredOnce
  <2>1. DeliveryOf(k) /\ GoneBeforePosted  BY DEF SafetyInv, OneDelivery
  <2>2. delivered[k] \in Nat /\ helpers[k] \in Nat /\ pending \in Nat /\ FinRuns \in Nat
    BY DEF TypeOK, TypeDrain, TypeHistory, FinRuns
  <2>3. wpc[k] \notin {"none", "gone"} => helpers[k] = 0  BY <2>1, NothingPosted
  <2>. QED BY <2>1, <2>2, <2>3 DEF DeliveryOf
<1>. QED BY <1>1, TypeCorrect, DrainInvariant, SafetyInvariant, PTL

\* An escalation that has run its course leaves the worker waiting on no running
\* coroutine, unless uninstall() has taken the drain over.
THEOREM EscalationCutsTheWait == ASSUME ~Reentrant  PROVE Spec => []EscalationReachesCoroutine
<1>1. SafetyInv => EscalationReachesCoroutine
  BY DEF SafetyInv, WaitIsCut, SomePrior, EscalationReachesCoroutine
<1>. QED BY <1>1, SafetyInvariant, PTL

\* A drain that reached the end of its list ran every cleanup accepted and not
\* asked back, whatever the clients published around the freeze.
THEOREM NoAcceptedCleanupIsLost == ASSUME ~Reentrant  PROVE Spec => []AcceptedCleanupsDrained
<1>1. TypeOK /\ SafetyInv /\ CleanupRunsOnce => AcceptedCleanupsDrained
  <2> SUFFICES ASSUME TypeOK, SafetyInv, CleanupRunsOnce,
                      NEW k \in Occ, wpc[k] \in {"final", "post"}, wtodo[k] = {},
                      NEW i \in Ids \ asked, verdict[i] = "accepted"
               PROVE  runs[i] = 1
    BY DEF AcceptedCleanupsDrained
  <2>1. i \in Covered(k)  BY DEF SafetyInv, InDrain, Owed
  <2>2. runs[i] > 0  BY <2>1 DEF Covered
  <2>. QED BY <2>2 DEF CleanupRunsOnce, TypeOK, TypeHistory
<1>. QED BY <1>1, TypeCorrect, SafetyInvariant, CleanupsRunOnce, PTL

------------------------------------------------------------------------------
(* Before the token is cancelled.                                            *)

\* Only the handler that found the coordinator ACTIVE cancels the token, and
\* only that handler notes its signal.
LEMMA CancelMoves ==
  ASSUME TypeOK, [Next]_vars
  PROVE  /\ UNCHANGED cancelled \/ (cancelled' = TRUE /\ \E k \in Occ : CancelToken(k) /\ pc[k] = "cancel")
         /\ UNCHANGED triggering_signal \/ \E k \in Occ : Freeze(k) /\ pc[k] = "trigger"
<1>1. \/ UNCHANGED <<cancelled, triggering_signal>>
      \/ \E k \in Occ : CancelToken(k) \/ Freeze(k)
  BY DEF Next, MainThread, Unwind, MainStep, Finally, Uninstall, OnSignal, Entry, SpawnWorker, Escalate,
     RaiseSignal, BeginFinalize, Finalize, RestoreHandlers, Detach, MainReturns, GraceExpires, Ended, Arrive,
     Worker, DrainLoop, RunRegistration, FinishDrain, Redeliver, CoroutineEnds, Client, ClientOnly, vars
<1>2. ASSUME NEW k \in Occ, CancelToken(k) \/ Freeze(k)
      PROVE  /\ UNCHANGED cancelled \/ (cancelled' = TRUE /\ CancelToken(k) /\ pc[k] = "cancel")
             /\ UNCHANGED triggering_signal \/ (Freeze(k) /\ pc[k] = "trigger")
  BY <1>2 DEF CancelToken, Freeze, At
<1>. QED BY <1>1, <1>2

LEMMA CancelledFirstStep ==
  ASSUME TypeOK, DrainInv, DrainInv', CancelledFirst, [Next]_vars
  PROVE  CancelledFirst'
<1> SUFFICES ASSUME ~cancelled'
             PROVE  /\ phase' \notin {"DRAINING", "FINALIZING"} /\ triggering_signal' = 0 /\ ~abort'
                    /\ \A k \in Occ : wpc'[k] = "none"
                    /\ \A f \in Frames :
                         pc'[f] \notin Freezing \cup EscalatePcs \cup {"cancelling", "drain", "detach"}
  BY DEF CancelledFirst
<1>1. ~cancelled  BY CancelMoves DEF TypeOK, TypeFlags
<1>2. /\ phase \notin {"DRAINING", "FINALIZING"} /\ triggering_signal = 0 /\ ~abort
      /\ \A k \in Occ : wpc[k] = "none"
      /\ \A f \in Frames : pc[f] \notin Freezing \cup EscalatePcs \cup {"cancelling", "drain", "detach"}
  BY <1>1 DEF CancelledFirst
<1>3. triggering_signal' = 0  BY <1>2, CancelMoves DEF Freezing
<1>4. ~abort'  BY <1>2, AbortMoves DEF EscalatePcs
<1>5. \A k \in Occ : wpc'[k] = "none"
  <2>1. \A k \in Occ : ~SpawnWorker(k)  BY <1>2 DEF SpawnWorker, At, Freezing
  <2>. QED BY <1>2, <2>1, WorkerSteps
<1>6. phase' \notin {"DRAINING", "FINALIZING"}
  <2>1. ASSUME NEW f \in Frames, Detach(f)  PROVE phase' \notin {"DRAINING", "FINALIZING"}
    <3>1. pc[f] # "detach"  BY <1>2
    <3>. QED BY <1>2, <2>1, <3>1 DEF Detach, At
  <2>2. \A k \in Occ : pc[k] # "drain" /\ wpc[k] # "final"  BY <1>2
  <2>. QED BY <1>2, <2>1, <2>2, PhaseMoves
<1>7. ASSUME NEW f \in Frames, pc'[f] # pc[f]
      PROVE  pc'[f] \notin Freezing \cup EscalatePcs \cup {"cancelling", "drain", "detach"}
  <2>1. CASE f = Main
    <3>1. pc'[Main] \in MainPcs \cup RestorePcs  BY DEF DrainInv, OwnCode, OwnAt
    <3>. QED BY <2>1, <3>1 DEF MainPcs, RestorePcs, Freezing, EscalatePcs
  <2>2. CASE f = Fin
    <3>1. Finalize => pc'[Fin] # "detach"
      BY <1>2 DEF Finalize, At, Return, Goto, TypeOK, TypeMain
    <3>2. Detach(Fin) => pc'[Fin] # "detach"
      BY DEF Detach, At, Goto, TypeOK, TypeMain
    <3>3. RestoreHandlers(Fin) => pc'[Fin] \in {"list", "restore", "clear", "dDone"}
      <4>1. pc[Fin] \in RestorePcs => ret[Fin] = "dDone"  BY DEF DrainInv, OwnCode, OwnAt
      <4>. QED BY <4>1 DEF RestoreHandlers, At, Goto, TypeOK, TypeMain, RestorePcs
    <3>4. pc'[Fin] # "detach"  BY <2>2, <1>7, <3>1, <3>2, <3>3, FinalizerMoves
    <3>5. pc'[Fin] \in {"none", "fCheck", "fHelper", "done"} \cup DetachPcs \cup RestorePcs
      BY DEF DrainInv, OwnCode, OwnAt
    <3>. QED BY <2>2, <3>4, <3>5 DEF DetachPcs, RestorePcs, Freezing, EscalatePcs
  <2>3. CASE f \in Occ
    <3>1. Entry(f) => pc'[f] # "abort"
      BY <1>2 DEF Entry, Goto, TypeOK, TypeMain
    <3>2. ~CancelToken(f)
      <4>1. pc[f] # "cancelling"  BY <1>2
      <4>. QED BY <4>1 DEF CancelToken, At
    <3>3. Detach(f) => pc'[f] # "detach"
      BY DEF Detach, At, Goto, TypeOK, TypeMain
    <3>. QED BY <1>2, <1>7, <2>3, <3>1, <3>2, <3>3, OccurrenceMoves
             DEF Freezing, EscalatePcs, RestorePcs, DetachPcs
  <2>. QED BY <2>1, <2>2, <2>3
<1>. QED BY <1>2, <1>3, <1>4, <1>5, <1>6, <1>7

------------------------------------------------------------------------------
(* The end of the drain.                                                     *)

\* Time that is up stays up, and only the worker shortens its list.
LEMMA ListWalkedStep ==
  ASSUME TypeOK, DrainInv, ListWalked, [Next]_vars
  PROVE  ListWalked'
<1> SUFFICES ASSUME NEW k \in Occ, wpc'[k] \in {"finish", "final"}  PROVE wtodo'[k] = {} \/ expired'
  BY DEF ListWalked
<1>1. expired => expired'
  BY DEF Next, MainThread, Unwind, MainStep, Finally, Uninstall, OnSignal, Entry, CancelToken, Freeze,
     SpawnWorker, Escalate, RaiseSignal, BeginFinalize, Finalize, RestoreHandlers, Detach, MainReturns,
     GraceExpires, Ended, Arrive, Worker, DrainLoop, RunRegistration, FinishDrain, Redeliver, CoroutineEnds,
     Client, ClientOnly, vars
<1>2. UNCHANGED <<wpc, wtodo>> \/ \E j \in Occ : Worker(j) \/ SpawnWorker(j)
  BY DEF Next, MainThread, Unwind, MainStep, Finally, Uninstall, OnSignal, Entry, CancelToken, Freeze,
     Escalate, RaiseSignal, BeginFinalize, Finalize, RestoreHandlers, Detach, MainReturns, GraceExpires,
     Ended, Arrive, Redeliver, CoroutineEnds, Client, ClientOnly, vars
<1>3. ASSUME NEW j \in Occ, SpawnWorker(j)  PROVE wpc'[k] = wpc[k] /\ wtodo'[k] = wtodo[k]
  BY <1>3 DEF SpawnWorker, TypeOK, TypeDrain
<1>4. ASSUME NEW j \in Occ, Worker(j), j # k  PROVE wpc'[k] = wpc[k] /\ wtodo'[k] = wtodo[k]
  BY <1>4 DEF Worker, DrainLoop, RunRegistration, FinishDrain, WGoto, TypeOK, TypeDrain
<1>5. CASE DrainLoop(k)
  BY <1>5 DEF DrainLoop, WGoto, TypeOK, TypeDrain
<1>6. CASE RunRegistration(k)
  BY <1>6 DEF RunRegistration, WGoto, TypeOK, TypeDrain
<1>7. CASE FinishDrain(k)
  BY <1>1, <1>7 DEF FinishDrain, WAt, WGoto, TypeOK, TypeDrain, ListWalked
<1>. QED BY <1>1, <1>2, <1>3, <1>4, <1>5, <1>6, <1>7 DEF Worker, ListWalked

\* register() starts only while ACTIVE, and the worker takes the lock to finish.
LEMMA RegisteredInTimeStep ==
  ASSUME TypeOK, DrainInv, LockHeld, RegisteredInTime, [Next]_vars
  PROVE  RegisteredInTime'
<1> SUFFICES ASSUME NEW k \in Occ, wpc'[k] \in {"final", "post", "gone"}, ~abort',
                    NEW c \in Clients, cpc'[c] # "idle"
             PROVE  cop'[c] # "register"
  BY DEF RegisteredInTime
<1>1. ~abort  BY AbortMoves
<1>2. CASE wpc[k] \in {"final", "post", "gone"}
  <2>1. cpc[c] # "idle" => cop[c] # "register"  BY <1>1, <1>2 DEF RegisteredInTime
  <2>2. CASE \E d \in Clients : Client(d)
    <3>1. PICK d \in Clients : Client(d)  BY <2>2
    <3>2. d = c
      BY <3>1, OneClient
    <3>3. ~BeginRegister(c)
      BY <1>2, ShutdownNotNew DEF BeginRegister
    <3>4. CASE BeginUnregister(c)
      BY <2>1, <3>4 DEF BeginUnregister, CAt, TypeOK, TypeClient
    <3>5. CASE ClientStep(c)
      BY <2>1, <3>5 DEF ClientStep, CopyRegistry, Publish, PublishSnapshot, Verdict, Leave, CAt, CGoto,
         TypeOK, TypeClient
    <3>. QED BY <3>1, <3>2, <3>3, <3>4, <3>5 DEF Client
  <2>. QED BY <2>1, <2>2, NoClientStep
<1>3. CASE wpc[k] \notin {"final", "post", "gone"}
  <2>1. FinishDrain(k) /\ wpc[k] = "finish" /\ lock = "free" /\ UNCHANGED cpc
    <3>1. ~SpawnWorker(k)
      BY <1>3 DEF SpawnWorker, TypeOK, TypeDrain
    <3>2. Worker(k)
      BY <1>3, <3>1, WorkerSteps DEF SpawnWorker, TypeOK, TypeDrain
    <3>3. ~DrainLoop(k) /\ ~RunRegistration(k)
      BY <1>1, <1>3 DEF DrainLoop, RunRegistration, WGoto, TypeOK, TypeDrain
    <3>. QED BY <1>3, <3>2, <3>3 DEF Worker, FinishDrain, WAt
  <2>. QED BY <2>1, Unheld
<1>. QED BY <1>2, <1>3

------------------------------------------------------------------------------
(* Who holds the signals.                                                    *)

\* Which steps change the list of signals to restore, and the prior handlers.
LEMMA TodoMoves ==
  ASSUME TypeOK, [Next]_vars
  PROVE  \/ UNCHANGED <<todo, prior_handlers>>
         \/ MainStep
         \/ \E f \in Frames : RestoreHandlers(f)
BY DEF Next, MainThread, Unwind, Finally, Uninstall, OnSignal, Entry, CancelToken, Freeze, SpawnWorker,
   Escalate, RaiseSignal, BeginFinalize, Finalize, Detach, MainReturns, GraceExpires, Ended, Arrive,
   Worker, DrainLoop, RunRegistration, FinishDrain, Redeliver, CoroutineEnds, Client, ClientOnly, vars

\* install() on the main thread, with nothing nested in it.
LEMMA InstallingByMain ==
  ASSUME TypeOK, DrainInv, Nested, Installing, MainStep
  PROVE  Installing'
<1>1. /\ Top = Main /\ ~raising /\ pc[Main] \in InstallPcs
      /\ \A s \in Sigs : handler[s] \in {"ours", "prior"}
  BY DEF MainStep, Install, InstallRollback, At, InstallPcs, TypeOK, TypeCoord
<1>2. \A f \in Frames \ {Main} : pc[f] \in Idle  BY <1>1, MainAlone
<1>3. PICK l \in InstallPcs \cup {"mRun", "exit"} : pc' = [pc EXCEPT ![Main] = l] \/ (l = pc[Main] /\ pc' = pc)
  BY <1>1 DEF MainStep, Install, InstallRollback, Goto, InstallPcs
<1>4. pc'[Main] = l /\ \A f \in Frames \ {Main} : pc'[f] = pc[f]
  BY <1>3 DEF TypeOK, TypeMain
<1>5. \A k \in Occ : pc'[k] = pc[k] /\ pc'[k] \in Idle  BY <1>2, <1>4
<1>6. pc'[Main] \in {"mStart", "mInstall", "mAppend", "mPrior"} => prior_handlers' = {}
  BY <1>1, <1>4 DEF MainStep, Install, InstallRollback, At, Goto, Installing, TypeOK, TypeMain
<1>7. pc'[Main] \in {"mInstall", "mAppend", "mPrior"} => \A s \in Sigs \ todo'[Main] : handler'[s] = "ours"
  BY <1>1, <1>4 DEF MainStep, Install, InstallRollback, At, Goto, Installing, TypeOK, TypeMain, TypeCoord
<1>8. pc'[Main] = "mPrior" => todo'[Main] = {}
  BY <1>1, <1>4 DEF MainStep, Install, InstallRollback, At, Goto, Installing, TypeOK, TypeMain
<1>9. pc'[Main] = "mActive" => AllOurs'
  <2>1. pc'[Main] = "mActive" => pc[Main] = "mPrior" /\ UNCHANGED handler
    BY <1>1, <1>4 DEF MainStep, Install, InstallRollback, At, Goto, TypeOK, TypeMain
  <2>. QED BY <2>1 DEF Installing, AllOurs
<1>10. ~EarlySignals => \A k \in Occ : pc[k] = "none"
  BY <1>1 DEF Installing
<1>. QED BY <1>5, <1>6, <1>7, <1>8, <1>9, <1>10 DEF Installing, Idle

\* install() goes on from where it was, or rolls back.
LEMMA InstallGoesOn ==
  ASSUME TypeOK, DrainInv, [Next]_vars, pc'[Main] \in InstallPcs
  PROVE  pc[Main] \in InstallPcs /\ (MainStep \/ pc'[Main] = pc[Main] \/ pc'[Main] = "mRollback")
<1>1. CASE MainStep
  BY <1>1 DEF MainStep, Install, InstallRollback, At, InstallPcs
<1>2. CASE ~MainStep /\ pc'[Main] # pc[Main]
  <2>1. CASE Unwind /\ Top = Main
    <3>1. PICK l \in Handler(pc[Main]) : pc' = [pc EXCEPT ![Main] = l]  BY <2>1 DEF Unwind
    <3>. QED BY <3>1 DEF Handler, InstallPcs, TypeOK, TypeMain
  <2>2. CASE RestoreHandlers(Main)
    <3>1. pc[Main] \in RestorePcs /\ pc'[Main] \in {"restore", "clear", ret[Main]}
      BY <1>2, <2>2 DEF RestoreHandlers, At, Goto, TypeOK, TypeMain, RestorePcs
    <3>2. ret[Main] = "uRegs"  BY <3>1 DEF DrainInv, OwnCode, OwnAt
    <3>. QED BY <3>1, <3>2 DEF InstallPcs
  <2>3. CASE MainReturns \/ Finally \/ Uninstall
    BY <1>2, <2>3 DEF MainReturns, Finally, Uninstall, At, Goto, InstallPcs, TypeOK, TypeMain
  <2>. QED BY <1>2, <2>1, <2>2, <2>3, Moves DEF StepOf
<1>. QED BY <1>1, <1>2

\* Everything else that runs during install(): a handler's fallback, at most.
LEMMA InstallingStep ==
  ASSUME TypeOK, DrainInv, DrainInv', Nested, PutBack, Installing, [Next]_vars
  PROVE  Installing'
<1>1. CASE MainStep
  BY <1>1, InstallingByMain
<1>2. CASE ~MainStep /\ pc'[Main] \in InstallPcs
  <2>1. pc[Main] \in InstallPcs /\ (pc'[Main] # pc[Main] => pc'[Main] = "mRollback")
    BY <1>2, InstallGoesOn
  <2>2. CASE pc'[Main] # pc[Main]
    <3>1. pc'[Main] = "mRollback" /\ Top = Main
      <4>1. StepOf(Main)  BY <2>2, Moves
      <4>. QED BY <1>2, <2>1, <2>2, <4>1
               DEF StepOf, RestoreHandlers, MainReturns, Finally, Uninstall, At
    <3>2. \A k \in Occ : pc'[k] # pc[k] => StepOf(k)  BY Moves
    <3>3. ~EarlySignals => \A k \in Occ : pc'[k] = "none"
      <4>1. ~EarlySignals => \A k \in Occ : pc[k] = "none"  BY <2>1 DEF Installing
      <4>2. Unwind
        <5>1. StepOf(Main)  BY <2>2, Moves
        <5>. QED BY <1>2, <2>2, <3>1, <5>1 DEF StepOf, RestoreHandlers, MainReturns, Finally, Uninstall,
                 At, Goto, RestorePcs, TypeOK, TypeMain, DrainInv, OwnCode, OwnAt
      <4>3. \E l : pc' = [pc EXCEPT ![Main] = l]  BY <3>1, <4>2 DEF Unwind
      <4>. QED BY <4>1, <4>3 DEF TypeOK, TypeMain
    <3>. QED BY <3>1, <3>3 DEF Installing
  <2>3. CASE pc'[Main] = pc[Main]
    <3>1. phase = "NEW" /\ phase' = "NEW"
      BY <1>2, <2>3 DEF DrainInv, InstallingIsNew
    <3>2. /\ pc[Fin] \in Idle
          /\ \A k \in Occ : pc[k] \notin Freezing \cup EscalatePcs \cup DetachPcs
      BY <3>1 DEF DrainInv, QuietBeforeShutdown, QuietAt, Idle
    <3>3. \A f \in Frames : RestoreHandlers(f) => f \in Occ
      <4>1. pc[Main] \notin RestorePcs  BY <2>1 DEF InstallPcs, RestorePcs
      <4>. QED BY <3>2, <4>1 DEF RestoreHandlers, At, RestorePcs, Idle
    <3>4. todo'[Main] = todo[Main] /\ (prior_handlers = {} => prior_handlers' = {})
      <4>1. \A k \in Occ : RestoreHandlers(k) => todo'[Main] = todo[Main] /\ prior_handlers' \in {{}, prior_handlers}
        BY DEF RestoreHandlers, TypeOK, TypeMain
      <4>. QED BY <1>2, <3>3, <4>1, TodoMoves
    <3>5. pc[Main] \in {"mInstall", "mAppend", "mPrior"} => UNCHANGED handler
      <4>1. \A k \in Occ : RestoreHandlers(k) /\ todo[k] = {} => UNCHANGED handler
        BY DEF RestoreHandlers
      <4>2. \A k \in Occ : pc[k] = "restore" /\ pc[Main] \in {"mInstall", "mAppend", "mPrior"} => todo[k] = {}
        BY DEF Installing
      <4>. QED BY <1>2, <3>3, <4>1, <4>2, HandlerMoves
    <3>6. ASSUME pc[Main] \in {"mInstall", "mAppend", "mPrior"},
                 NEW k \in Occ, pc'[k] \in {"restore", "clear"}
          PROVE  todo'[k] = {}
      <4>1. prior_handlers = {}  BY <3>6 DEF Installing
      <4>2. CASE RestoreHandlers(k)
        BY <3>6, <4>1, <4>2 DEF RestoreHandlers, At, Goto, TypeOK, TypeMain, Installing
      <4>3. CASE ~RestoreHandlers(k)
        <5>1. pc'[k] = pc[k]
          BY <3>6, <4>3, OccurrenceMoves DEF Deciding, Freezing, DetachPcs
        <5>2. ASSUME NEW f \in Frames, RestoreHandlers(f)  PROVE todo'[k] = todo[k]
          <6>1. f # k  BY <4>3, <5>2
          <6>2. UNCHANGED todo \/ \E S : todo' = [todo EXCEPT ![f] = S]
            BY <5>2 DEF RestoreHandlers
          <6>. QED BY <6>1, <6>2 DEF TypeOK, TypeMain
        <5>3. todo'[k] = todo[k]  BY <1>2, <5>2, TodoMoves
        <5>. QED BY <3>6, <5>1, <5>3 DEF Installing
      <4>. QED BY <4>2, <4>3
    <3>7. ~EarlySignals => \A k \in Occ : pc'[k] = "none"
      <4> SUFFICES ASSUME ~EarlySignals, NEW k \in Occ, pc'[k] # "none"  PROVE FALSE
        OBVIOUS
      <4>1. \A j \in Occ : pc[j] = "none"  BY <2>1 DEF Installing
      <4>2. ~Arrive(k)  BY <2>1 DEF Arrive
      <4>3. Top # k
        <5>1. stack[1] # Main => pc[stack[1]] \notin Idle  BY TopIsFrame DEF Nested
        <5>. QED BY <4>1, <5>1, TopIsFrame DEF Idle
      <4>. QED BY <4>1, <4>2, <4>3, OccurrenceMoves
    <3>8. pc[Main] = "mActive" => AllOurs' \/ AllPrior' \/ raising' \/ \E k \in Occ : pc'[k] = "restore"
      <4> SUFFICES ASSUME pc[Main] = "mActive"
                   PROVE  AllOurs' \/ AllPrior' \/ raising' \/ \E k \in Occ : pc'[k] = "restore"
        OBVIOUS
      <4>1. CASE handler' # handler
        <5>1. PICK f \in Frames : RestoreHandlers(f) /\ pc[f] = "restore" /\ UNCHANGED pc
          BY <1>2, <4>1, HandlerMoves
        <5>. QED BY <3>3, <5>1
      <4>2. CASE handler' = handler /\ raising
        <5>1. raising \/ raising'  BY <4>2
        <5>2. CASE ~raising'
          <6>1. Unwind  BY <4>2, <5>2, RaisingMoves
          <6>2. Top \notin {Main, Fin}
            <7>1. stack[1] # Main => pc[stack[1]] \notin Idle  BY TopIsFrame DEF Nested
            <7>2. Top # Fin  BY <3>2, <7>1, TopIsFrame
            <7>3. Top # Main
              <8>1. Top = Main => pc'[Main] \in Handler(pc[Main])
                BY <6>1 DEF Unwind, TypeOK, TypeMain
              <8>. QED BY <2>3, <8>1 DEF Handler
            <7>. QED BY <7>2, <7>3
          <6>. QED BY <5>2, <6>1, <6>2 DEF Unwind
        <5>. QED BY <5>2
      <4>3. CASE handler' = handler /\ ~raising
        <5>1. (AllOurs' <=> AllOurs) /\ (AllPrior' <=> AllPrior)  BY <4>3 DEF AllOurs, AllPrior
        <5>2. ASSUME NEW k \in Occ, pc[k] = "restore", pc'[k] # "restore"  PROVE AllPrior
          <6>1. RestoreHandlers(k)
            BY <4>3, <5>2, OccurrenceMoves DEF Deciding, Freezing, EscalatePcs, DetachPcs, Unwind
          <6>2. todo[k] = {}
            BY <5>2, <6>1 DEF RestoreHandlers, At
          <6>. QED BY <5>2, <6>2 DEF PutBack, Established, AllPrior
        <5>. QED BY <4>3, <5>1, <5>2 DEF Installing
      <4>. QED BY <4>1, <4>2, <4>3
    <3>9. ~EarlySignals /\ pc[Main] = "mActive" => AllOurs'
      <4> SUFFICES ASSUME ~EarlySignals, pc[Main] = "mActive"  PROVE AllOurs'
        OBVIOUS
      <4>1. AllOurs /\ \A k \in Occ : pc[k] # "restore"  BY <2>1 DEF Installing
      <4>2. UNCHANGED handler  BY <1>2, <3>3, <4>1, HandlerMoves
      <4>. QED BY <4>1, <4>2 DEF AllOurs
    <3>. QED BY <2>3, <3>4, <3>5, <3>6, <3>7, <3>8, <3>9 DEF Installing
  <2>. QED BY <2>2, <2>3
<1>3. CASE pc'[Main] \notin InstallPcs
  BY <1>3 DEF Installing, InstallPcs
<1>. QED BY <1>1, <1>2, <1>3

\* main() starts to work when install() returns, and works until it leaves.
LEMMA WorkBegins ==
  ASSUME TypeOK, DrainInv, [Next]_vars, pc'[Main] = "mRun", pc[Main] # "mRun"
  PROVE  MainStep /\ Top = Main /\ ~raising /\ pc[Main] = "mActive" /\ phase' = "ACTIVE" /\ UNCHANGED handler
<1>1. StepOf(Main)  BY Moves
<1>2. ~Unwind
  <2>1. Unwind /\ Top = Main => pc'[Main] \in Handler(pc[Main])
    BY DEF Unwind, TypeOK, TypeMain
  <2>2. Unwind /\ Top # Main => pc'[Main] = pc[Main]
    BY DEF Unwind, Return, TypeOK, TypeMain
  <2>. QED BY <2>1, <2>2 DEF Handler
<1>3. ~RestoreHandlers(Main)
  <2>1. pc[Main] \in RestorePcs => ret[Main] = "uRegs"  BY DEF DrainInv, OwnCode, OwnAt
  <2>. QED BY <2>1 DEF RestoreHandlers, At, Goto, TypeOK, TypeMain, RestorePcs
<1>4. ~(MainReturns \/ Finally \/ Uninstall)
  BY DEF MainReturns, Finally, Uninstall, Goto, TypeOK, TypeMain
<1>5. MainStep  BY <1>1, <1>2, <1>3, <1>4 DEF StepOf
<1>. QED BY <1>5 DEF MainStep, Install, InstallRollback, At, Goto, TypeOK, TypeMain

LEMMA HeldStep ==
  ASSUME TypeOK, TypeOK', DrainInv, DrainInv', SafetyInv, SafetyInv', CancelledFirst', Installing, Held, [Next]_vars
  PROVE  Held'
<1> SUFFICES ASSUME pc'[Main] = "mRun"
             PROVE  /\ phase' = "ACTIVE" => AllOurs' \/ AllPrior'
                    /\ (\E k \in Occ : Draining(k)') /\ ~abort' => AllOurs'
                    /\ ~EarlySignals /\ ~cancelled' => phase' = "ACTIVE" /\ AllOurs'
  BY DEF Held
<1>1. CASE pc[Main] # "mRun"
  <2>1. Top = Main /\ ~raising /\ pc[Main] = "mActive" /\ phase' = "ACTIVE" /\ UNCHANGED handler
    BY <1>1, WorkBegins
  <2>2. \A k \in Occ : pc[k] # "restore"
    <3>1. Nested  BY DEF SafetyInv
    <3>. QED BY <2>1, <3>1, MainAlone DEF Idle
  <2>3. AllOurs \/ AllPrior  BY <2>1, <2>2 DEF Installing
  <2>4. ~EarlySignals => AllOurs  BY <2>1 DEF Installing, InstallPcs
  <2>5. \A k \in Occ : ~Draining(k)'
    <3>1. \A k \in Occ : wpc'[k] = "none" /\ pc'[k] \notin Freezing
      BY <2>1 DEF DrainInv, QuietBeforeShutdown, QuietAt
    <3>. QED BY <3>1 DEF Draining, Cleaning
  <2>. QED BY <2>1, <2>3, <2>4, <2>5 DEF AllOurs, AllPrior
<1>2. CASE pc[Main] = "mRun"
  <2>1. ASSUME handler' # handler
        PROVE  \E k \in Occ \cup {Fin} : pc[k] = "restore" /\ UNCHANGED <<pc, phase>>
    <3>1. ~(MainStep /\ phase = "NEW")
      BY <1>2 DEF SafetyInv, PutBack
    <3>2. PICK f \in Frames : pc[f] = "restore" /\ UNCHANGED <<pc, phase>>
      BY <2>1, <3>1, HandlerMoves
    <3>. QED BY <1>2, <3>2
  <2>2. phase' = "ACTIVE" => phase = "ACTIVE" /\ UNCHANGED handler
    <3> SUFFICES ASSUME phase' = "ACTIVE"  PROVE phase = "ACTIVE" /\ UNCHANGED handler
      OBVIOUS
    <3>1. phase = "ACTIVE"
      <4>1. phase # "NEW"  BY <1>2 DEF SafetyInv, PutBack
      <4>2. \A f \in Frames \ {Main} : Detach(f) => phase' \in {phase, "FINALIZING", "UNINSTALLED"}
        BY DEF Detach
      <4>. QED BY <4>1, <4>2, PhaseMoves
    <3>2. \A k \in Occ : pc[k] # "restore"
      BY <3>1 DEF SafetyInv, OwnedWhenTaken, Idle, Deciding
    <3>3. pc[Fin] # "restore"  BY <3>1, ShutdownNotNew DEF Idle
    <3>. QED BY <2>1, <3>1, <3>2, <3>3
  <2>3. phase' = "ACTIVE" => AllOurs' \/ AllPrior'
    BY <1>2, <2>2 DEF Held, AllOurs, AllPrior
  <2>4. ASSUME NEW k \in Occ, Draining(k)', ~abort'  PROVE AllOurs'
    <3>1. ~abort  BY <2>4, AbortMoves
    <3>2. CASE Draining(k)
      <4>1. AllOurs  BY <1>2, <3>1, <3>2 DEF Held
      <4>2. pc[Fin] # "restore" /\ (pc[k] \in Freezing \/ pc[k] = "done")
        BY <3>2, DrainOf DEF SafetyInv, Idle
      <4>3. \A j \in Occ \ {k} : pc[j] # "restore"
        BY <3>1, <3>2 DEF SafetyInv, UndisturbedDrain, Idle
      <4>4. UNCHANGED handler  BY <2>1, <4>2, <4>3 DEF Freezing
      <4>. QED BY <4>1, <4>4 DEF AllOurs
    <3>3. CASE ~Draining(k)
      <4>1. Freeze(k) /\ Top = k /\ pc[k] = "drain"
        BY <2>4, <3>3, DrainBegins DEF SafetyInv
      <4>2. phase = "ACTIVE"  BY <4>1 DEF DrainInv, DecisionHolds, Deciding
      <4>3. handler[sig[k]] = "ours" /\ sig[k] \in Sigs /\ UNCHANGED handler
        BY <4>1, <4>2 DEF SafetyInv, OwnedWhenTaken, Idle, Freeze, TypeOK, TypeMain
      <4>4. AllOurs  BY <1>2, <4>2, <4>3 DEF Held, AllPrior
      <4>. QED BY <4>3, <4>4 DEF AllOurs
    <3>. QED BY <3>2, <3>3
  <2>5. ASSUME ~EarlySignals, ~cancelled'  PROVE phase' = "ACTIVE" /\ AllOurs'
    <3>1. ~cancelled  BY <2>5, CancelMoves DEF TypeOK, TypeFlags
    <3>2. phase = "ACTIVE" /\ AllOurs  BY <1>2, <2>5, <3>1 DEF Held
    <3>3. phase' = "ACTIVE"
      <4>1. phase' \notin {"DRAINING", "FINALIZING"}  BY <2>5 DEF CancelledFirst
      <4>2. \A f \in Frames \ {Main} : pc[f] \notin DetachPcs
        BY <3>2, ShutdownNotNew DEF DetachPcs, Idle
      <4>3. Uninstall => pc[Main] # "mRun"  BY DEF Uninstall, At
      <4>. QED BY <1>2, <3>2, <4>1, <4>2, <4>3, PhaseMoves
    <3>. QED BY <2>2, <3>2, <3>3 DEF AllOurs
  <2>. QED BY <2>3, <2>4, <2>5
<1>. QED BY <1>1, <1>2

LEMMA InitPromise == Init => PromiseInv
<1> SUFFICES ASSUME Init  PROVE PromiseInv
  OBVIOUS
<1>1. /\ phase = "NEW" /\ prior_handlers = {} /\ triggering_signal = 0 /\ ~abort
      /\ pc[Main] = "mStart" /\ \A f \in Frames \ {Main} : pc[f] = "none"
      /\ \A k \in Occ : wpc[k] = "none"
  BY DEF Init
<1>2. \A k \in Occ : pc[k] = "none"  BY <1>1
<1>3. \A f \in Frames : pc[f] \in {"mStart", "none"}  BY <1>1
<1>4. CancelledFirst  BY <1>1, <1>3 DEF CancelledFirst, Freezing, EscalatePcs
<1>. QED BY <1>1, <1>2, <1>4 DEF PromiseInv, ListWalked, RegisteredInTime, Installing, Held

LEMMA PromiseStep ==
  ASSUME TypeOK, TypeOK', DrainInv, DrainInv', SafetyInv, SafetyInv', PromiseInv, [Next]_vars
  PROVE  PromiseInv'
<1>1. CancelledFirst'  BY CancelledFirstStep DEF PromiseInv
<1>2. ListWalked'  BY ListWalkedStep DEF PromiseInv
<1>3. RegisteredInTime'  BY RegisteredInTimeStep DEF PromiseInv, SafetyInv
<1>4. Installing'  BY InstallingStep DEF PromiseInv, SafetyInv
<1>5. Held'  BY <1>1, HeldStep DEF PromiseInv
<1>. QED BY <1>1, <1>2, <1>3, <1>4, <1>5 DEF PromiseInv

\* What the promise needs to know of the coordinator besides SafetyInv.
THEOREM PromiseInvariant == ASSUME ~Reentrant  PROVE Spec => []PromiseInv
<1>1. Spec => []TypeOK  BY TypeCorrect
<1>2. Spec => []DrainInv  BY DrainInvariant
<1>3. Spec => []SafetyInv  BY SafetyInvariant
<1>4. TypeOK /\ TypeOK' /\ DrainInv /\ DrainInv' /\ SafetyInv /\ SafetyInv' /\ PromiseInv /\ [Next]_vars => PromiseInv'
  BY PromiseStep
<1>. QED BY <1>1, <1>2, <1>3, <1>4, InitPromise, PTL DEF Spec

------------------------------------------------------------------------------
(* Every step is a step of `Shutdown', or none.                              *)

\* What the shutdown shows depends on these parts of the state only.
LEMMA ViewKept ==
  /\ UNCHANGED verdict => UNCHANGED AcceptedIds
  /\ UNCHANGED runs => UNCHANGED StartedIds
  /\ UNCHANGED wpc => UNCHANGED <<DrainStage, TakenOcc>>
  /\ UNCHANGED delivered => UNCHANGED HandedOcc
  /\ pc'[Main] = pc[Main] => UNCHANGED MainStage
<1>1. UNCHANGED verdict => UNCHANGED AcceptedIds  BY DEF AcceptedIds
<1>2. UNCHANGED runs => UNCHANGED StartedIds  BY DEF StartedIds
<1>3. UNCHANGED wpc => UNCHANGED <<DrainStage, TakenOcc>>  BY DEF DrainStage, Drained, TakenOcc
<1>4. UNCHANGED delivered => UNCHANGED HandedOcc  BY DEF HandedOcc
<1>5. pc'[Main] = pc[Main] => UNCHANGED MainStage  BY DEF MainStage
<1>. QED BY <1>1, <1>2, <1>3, <1>4, <1>5

\* The main program starts, works, leaves, and never goes back.
LEMMA MainStageMoves ==
  ASSUME TypeOK, DrainInv, [Next]_vars
  PROVE  \/ UNCHANGED MainStage
         \/ MainStage = "starting" /\ MainStage' = "working"
         \/ MainStage' = "leaving"
<1>1. CASE pc'[Main] \in InstallPcs
  <2>1. pc[Main] \in InstallPcs  BY <1>1, InstallGoesOn
  <2>. QED BY <1>1, <2>1 DEF MainStage
<1>2. CASE pc'[Main] = "mRun"
  <2>1. pc[Main] \in {"mRun", "mActive"}  BY <1>2, WorkBegins
  <2>. QED BY <1>2, <2>1 DEF MainStage, InstallPcs
<1>3. CASE pc'[Main] \notin InstallPcs \cup {"mRun"}
  BY <1>3 DEF MainStage
<1>. QED BY <1>1, <1>2, <1>3

\* A step that shows of the main program only.
LEMMA MainShows ==
  ASSUME TypeOK, DrainInv, [Next]_vars, alive = "up",
         UNCHANGED <<cancelled, verdict, asked, runs, wpc, abort, expired, delivered, alive>>
  PROVE  [Promise!Next]_(Promise!vars)
<1>1. UNCHANGED <<AcceptedIds, StartedIds, DrainStage, TakenOcc, HandedOcc>>  BY ViewKept
<1>2. CASE UNCHANGED MainStage
  BY <1>1, <1>2 DEF Promise!vars, Promise!cleanups, Promise!draining
<1>3. CASE MainStage = "starting" /\ MainStage' = "working"
  BY <1>1, <1>3 DEF Promise!Next, Promise!Work, Promise!cleanups, Promise!draining
<1>4. CASE ~UNCHANGED MainStage /\ MainStage' = "leaving"
  BY <1>1, <1>4 DEF Promise!Next, Promise!Leave, Promise!cleanups, Promise!draining
<1>. QED BY <1>2, <1>3, <1>4, MainStageMoves

\* The worker that is there tells how far the drain is.
LEMMA WorkerShows ==
  ASSUME TypeOK, DrainInv, NEW k \in Occ, Worker(k)
  PROVE  /\ wpc[k] \notin {"none", "gone"} /\ alive = "up" /\ UNCHANGED TakenOcc
         /\ DrainStage = IF wpc[k] = "post" THEN "over" ELSE "running"
         /\ DrainStage' = IF wpc'[k] \in {"post", "gone"} THEN "over" ELSE "running"
<1>1. wpc[k] \notin {"none", "gone"} /\ alive = "up"
  BY DEF Worker, DrainLoop, RunRegistration, FinishDrain, WAt
<1>2. PICK l \in WorkerPcs \ {"none"} : wpc' = [wpc EXCEPT ![k] = l]
  BY DEF Worker, DrainLoop, RunRegistration, FinishDrain, WGoto, WorkerPcs
<1>3. \A j \in Occ \ {k} : wpc[j] = "none" /\ wpc'[j] = "none"
  BY <1>1, <1>2, OneWorker DEF TypeOK, TypeDrain
<1>4. wpc'[k] = l  BY <1>2 DEF TypeOK, TypeDrain
<1>. QED BY <1>1, <1>3, <1>4 DEF DrainStage, Drained, TakenOcc

\* The prior disposition sees a signal only where `Shutdown' lets it.
LEMMA HandShows ==
  ASSUME TypeOK, DrainInv, SafetyInv, PromiseInv, NEW k \in Occ, alive = "up",
         handler[sig[k]] # "ours", delivered[k] = 0, wpc[k] = "none" \/ Drained, PriorHandles(k),
         ~EarlySignals => pc[Main] \notin InstallPcs,
         pc'[Main] = pc[Main], UNCHANGED <<cancelled, verdict, asked, runs, wpc, abort, expired>>
  PROVE  Promise!Next
<1>1. UNCHANGED <<AcceptedIds, StartedIds, DrainStage, TakenOcc, MainStage>>  BY ViewKept
<1>2. ~AllOurs  BY DEF AllOurs, TypeOK, TypeMain
<1>3. k \notin HandedOcc /\ HandedOcc' = HandedOcc \cup {k}
  BY DEF HandedOcc, PriorHandles, TypeOK, TypeHistory
<1>4. k \in TakenOcc => DrainStage = "over"  BY DEF TakenOcc, DrainStage
<1>5. ~(DrainStage = "running" /\ ~abort /\ MainStage = "working")
  <2> SUFFICES ASSUME DrainStage = "running", ~abort, MainStage = "working"  PROVE FALSE
    OBVIOUS
  <2>1. PICK j \in Occ : wpc[j] \notin {"none", "post", "gone"}  BY DEF DrainStage, Drained
  <2>2. Draining(j)  BY <2>1 DEF Draining, Cleaning, TypeOK, TypeDrain, WorkerPcs
  <2>3. pc[Main] = "mRun"  BY DEF MainStage
  <2>. QED BY <1>2, <2>2, <2>3 DEF PromiseInv, Held
<1>6. ~EarlySignals /\ MainStage # "leaving" => MainStage = "working" /\ cancelled
  BY <1>2 DEF MainStage, PromiseInv, Held
<1>7. Promise!Hand(k)
  BY <1>1, <1>3, <1>4, <1>5, <1>6 DEF Promise!Hand, Promise!Undisturbed, Promise!cleanups, Promise!draining
<1>. QED BY <1>7 DEF Promise!Next

\* What is not ACTIVE any more is not starting any more.
LEMMA NotStarting ==
  ASSUME DrainInv, phase # "NEW"
  PROVE  MainStage # "starting"
BY DEF DrainInv, InstallingIsNew, MainStage

LEMMA MainSimulates ==
  ASSUME TypeOK, DrainInv, [Next]_vars, Unwind \/ MainStep \/ MainReturns \/ Finally \/ Uninstall
  PROVE  [Promise!Next]_(Promise!vars)
<1>1. /\ alive = "up"
      /\ UNCHANGED <<cancelled, verdict, asked, runs, wpc, abort, expired, delivered>>
  BY DEF Unwind, MainStep, Install, InstallRollback, MainReturns, Finally, Uninstall, At
<1>2. CASE UNCHANGED alive
  BY <1>1, <1>2, MainShows
<1>3. CASE ~UNCHANGED alive
  <2>1. Finally  BY <1>3 DEF Unwind, MainStep, MainReturns, Uninstall
  <2>2. alive' = "exited" /\ pc[Main] = "exit" /\ UNCHANGED pc
    BY <1>3, <2>1 DEF Finally, At
  <2>3. UNCHANGED <<AcceptedIds, StartedIds, DrainStage, TakenOcc, HandedOcc, MainStage>>
    BY <1>1, <2>2, ViewKept
  <2>4. MainStage = "leaving"  BY <2>2 DEF MainStage, InstallPcs
  <2>. QED BY <1>1, <2>2, <2>3, <2>4 DEF Promise!Next, Promise!End, Promise!cleanups, Promise!draining
<1>. QED BY <1>2, <1>3

LEMMA HandlerSimulates ==
  ASSUME TypeOK, DrainInv, SafetyInv, PromiseInv, [Next]_vars, NEW k \in Occ, OnSignal(k)
  PROVE  [Promise!Next]_(Promise!vars)
<1>1. k # Main /\ k \in Frames /\ alive = "up"
  BY DEF OnSignal, Entry, CancelToken, Freeze, SpawnWorker, Escalate, RaiseSignal, At
<1>2. UNCHANGED MainStage
  <2>1. \E l : pc' = [pc EXCEPT ![k] = l]
    BY DEF OnSignal, Entry, CancelToken, Freeze, SpawnWorker, Escalate, RaiseSignal, Goto, Return
  <2>2. pc'[Main] = pc[Main]  BY <1>1, <2>1 DEF TypeOK, TypeMain
  <2>. QED BY <2>2, ViewKept
<1>3. CASE Entry(k) \/ Freeze(k)
  <2>1. UNCHANGED <<cancelled, verdict, asked, runs, wpc, abort, expired, delivered, alive>>
    BY <1>3 DEF Entry, Freeze
  <2>. QED BY <1>1, <2>1, MainShows
<1>4. CASE CancelToken(k)
  <2>1. UNCHANGED <<verdict, asked, runs, wpc, abort, expired, delivered, alive>>
    BY <1>4 DEF CancelToken
  <2>2. UNCHANGED <<AcceptedIds, StartedIds, DrainStage, TakenOcc, HandedOcc>>
    BY <2>1, ViewKept
  <2>3. CASE UNCHANGED cancelled
    BY <1>1, <2>1, <2>3, MainShows
  <2>4. CASE ~UNCHANGED cancelled
    <3>1. ~cancelled /\ cancelled' = TRUE /\ pc[k] = "cancel"
      BY <1>4, <2>4 DEF CancelToken, At, TypeOK, TypeFlags
    <3>2. MainStage # "starting"
      BY <3>1, NotStarting DEF DrainInv, DecisionHolds, Deciding
    <3>. QED BY <1>1, <1>2, <2>1, <2>2, <3>1, <3>2
             DEF Promise!Next, Promise!Cancel, Promise!cleanups, Promise!draining
  <2>. QED BY <2>3, <2>4
<1>5. CASE SpawnWorker(k)
  <2>1. /\ UNCHANGED <<cancelled, verdict, asked, runs, abort, expired, delivered, alive>>
        /\ pc[k] = "spawn" /\ wpc' = [wpc EXCEPT ![k] = "check"]
    BY <1>5 DEF SpawnWorker, At
  <2>2. UNCHANGED <<AcceptedIds, StartedIds, HandedOcc>>  BY <2>1, ViewKept
  <2>3. \A j \in Occ : wpc[j] = "none"
    BY <2>1 DEF DrainInv, OneDrainer, Drainer, Freezing
  <2>4. DrainStage = "none" /\ DrainStage' = "running" /\ TakenOcc' = {k}
    <3>1. wpc'[k] = "check" /\ \A j \in Occ \ {k} : wpc'[j] = "none"
      BY <2>1, <2>3 DEF TypeOK, TypeDrain
    <3>. QED BY <2>3, <3>1 DEF DrainStage, Drained, TakenOcc
  <2>5. k \notin HandedOcc
    BY <2>1 DEF SafetyInv, OneDelivery, DeliveryOf, HandedOcc
  <2>6. cancelled /\ MainStage # "starting"
    <3>1. phase \notin {"NEW", "ACTIVE"}  BY <2>1, ShutdownNotNew DEF Freezing
    <3>2. cancelled  BY <1>1, <2>1 DEF PromiseInv, CancelledFirst, Freezing
    <3>. QED BY <3>1, <3>2, NotStarting
  <2>7. Promise!Begin(k)
    BY <1>2, <2>1, <2>2, <2>4, <2>5, <2>6 DEF Promise!Begin, Promise!cleanups
  <2>. QED BY <1>1, <2>7 DEF Promise!Next
<1>6. CASE Escalate(k)
  <2>1. UNCHANGED <<cancelled, verdict, asked, runs, wpc, expired, delivered, alive>>
    BY <1>6 DEF Escalate
  <2>2. UNCHANGED <<AcceptedIds, StartedIds, DrainStage, TakenOcc, HandedOcc>>
    BY <2>1, ViewKept
  <2>3. CASE UNCHANGED abort
    BY <1>1, <2>1, <2>3, MainShows
  <2>4. CASE ~UNCHANGED abort
    <3>1. ~abort /\ abort' = TRUE /\ pc[k] = "abort"
      BY <1>6, <2>4 DEF Escalate, At, TypeOK, TypeFlags
    <3>2. cancelled  BY <1>1, <3>1 DEF PromiseInv, CancelledFirst, EscalatePcs
    <3>. QED BY <1>1, <1>2, <2>1, <2>2, <3>1, <3>2
             DEF Promise!Next, Promise!Latch, Promise!cleanups
  <2>. QED BY <2>3, <2>4
<1>7. CASE RaiseSignal(k)
  <2>1. UNCHANGED <<cancelled, verdict, asked, runs, wpc, abort, expired>> /\ pc[k] = "raise"
    BY <1>7 DEF RaiseSignal, At
  <2>2. CASE handler[sig[k]] = "ours"
    <3>1. UNCHANGED <<delivered, alive>>  BY <1>7, <2>2 DEF RaiseSignal
    <3>. QED BY <1>1, <2>1, <3>1, MainShows
  <2>3. CASE handler[sig[k]] # "ours"
    <3>1. PriorHandles(k)  BY <1>7, <2>3 DEF RaiseSignal
    <3>2. delivered[k] = 0 /\ wpc[k] = "none"
      BY <2>1 DEF SafetyInv, OneDelivery, DeliveryOf
    <3>3. pc'[Main] = pc[Main]
      BY <1>1, <1>7 DEF RaiseSignal, Return, At, TypeOK, TypeMain
    <3>4. ~EarlySignals => pc[Main] \notin InstallPcs
      BY <2>1 DEF PromiseInv, Installing
    <3>. QED BY <1>1, <2>1, <2>3, <3>1, <3>2, <3>3, <3>4, HandShows
  <2>. QED BY <2>2, <2>3
<1>. QED BY <1>3, <1>4, <1>5, <1>6, <1>7 DEF OnSignal

\* A signal arrives, or is redelivered.
LEMMA SignalSimulates ==
  ASSUME TypeOK, DrainInv, SafetyInv, PromiseInv, [Next]_vars, NEW k \in Occ, Arrive(k) \/ Redeliver(k)
  PROVE  [Promise!Next]_(Promise!vars)
<1>1. alive = "up" /\ UNCHANGED <<cancelled, verdict, asked, runs, wpc, abort, expired>>
  BY DEF Arrive, Redeliver
<1>2. pc'[Main] = pc[Main]
  <2>1. k # Main /\ k \in Frames  OBVIOUS
  <2>2. UNCHANGED pc \/ \E l : pc' = [pc EXCEPT ![k] = l]
    BY DEF Arrive, Redeliver
  <2>. QED BY <2>1, <2>2 DEF TypeOK, TypeMain
<1>3. CASE Arrive(k) /\ handler[sig[k]] = "ours"
  <2>1. UNCHANGED <<delivered, alive>>  BY <1>3 DEF Arrive
  <2>. QED BY <1>1, <2>1, MainShows
<1>4. CASE Arrive(k) /\ handler[sig[k]] # "ours"
  <2>1. PriorHandles(k) /\ pc[k] = "none"  BY <1>4 DEF Arrive
  <2>2. delivered[k] = 0 /\ wpc[k] = "none"
    BY <2>1 DEF SafetyInv, OneDelivery, DeliveryOf
  <2>3. ~EarlySignals => pc[Main] \notin InstallPcs  BY <1>4 DEF Arrive
  <2>. QED BY <1>1, <1>2, <1>4, <2>1, <2>2, <2>3, HandShows
<1>5. CASE Redeliver(k)
  <2>1. PriorHandles(k) /\ helpers[k] > 0 /\ handler[sig[k]] = "prior"  BY <1>5 DEF Redeliver
  <2>2. Drained
    BY <2>1 DEF SafetyInv, GoneBeforePosted, Posted, Drained
  <2>3. delivered[k] = 0
    <3>1. /\ delivered[k] \in Nat /\ helpers[k] \in Nat /\ pending \in Nat /\ FinRuns \in Nat
      BY DEF TypeOK, TypeDrain, TypeHistory, FinRuns
    <3>2. DeliveryOf(k)  BY DEF SafetyInv, OneDelivery
    <3>. QED BY <2>1, <3>1, <3>2 DEF DeliveryOf
  <2>4. pc[Main] \notin InstallPcs
    <3>1. PICK j \in Occ : wpc[j] \in {"post", "gone"}  BY <2>2 DEF Drained
    <3>2. phase # "NEW"  BY <3>1, ShutdownNotNew
    <3>. QED BY <3>2, NotStarting DEF MainStage
  <2>. QED BY <1>1, <1>2, <2>1, <2>2, <2>3, <2>4, HandShows
<1>. QED BY <1>3, <1>4, <1>5

\* A drain that reached the end of its list has started what it owed, or its
\* time ran out.
LEMMA OwedStarted ==
  ASSUME TypeOK, SafetyInv, PromiseInv, NEW k \in Occ,
         wpc[k] = "final" \/ (wpc[k] = "finish" /\ ~abort)
  PROVE  expired \/ AcceptedIds \ asked \subseteq StartedIds
<1> SUFFICES ASSUME ~expired  PROVE AcceptedIds \ asked \subseteq StartedIds
  OBVIOUS
<1>1. wtodo[k] = {}  BY DEF PromiseInv, ListWalked
<1>2. Owed \subseteq Covered(k)
  BY DEF SafetyInv, InDrain
<1>3. Covered(k) \subseteq StartedIds  BY <1>1 DEF Covered, StartedIds
<1>. QED BY <1>2, <1>3 DEF Owed, AcceptedIds

LEMMA WorkerSimulates ==
  ASSUME TypeOK, DrainInv, SafetyInv, PromiseInv, [Next]_vars, NEW k \in Occ, Worker(k)
  PROVE  [Promise!Next]_(Promise!vars)
<1>1. /\ UNCHANGED <<cancelled, verdict, asked, abort, expired, delivered, pc>>
  BY DEF Worker, DrainLoop, RunRegistration, FinishDrain
<1>2. UNCHANGED <<AcceptedIds, HandedOcc, MainStage>>  BY <1>1, ViewKept
<1>3. /\ wpc[k] \notin {"none", "gone"} /\ alive = "up" /\ UNCHANGED TakenOcc
      /\ DrainStage = IF wpc[k] = "post" THEN "over" ELSE "running"
      /\ DrainStage' = IF wpc'[k] \in {"post", "gone"} THEN "over" ELSE "running"
  BY WorkerShows
<1>4. ASSUME UNCHANGED <<StartedIds, DrainStage, alive>>  PROVE UNCHANGED Promise!vars
  BY <1>1, <1>2, <1>3, <1>4 DEF Promise!vars, Promise!cleanups, Promise!draining
<1>5. ASSUME UNCHANGED <<StartedIds, alive>>, DrainStage = "running", DrainStage' = "over",
             abort \/ expired \/ AcceptedIds \ asked \subseteq StartedIds
      PROVE  Promise!Next
  BY <1>1, <1>2, <1>3, <1>5 DEF Promise!Next, Promise!Finish, Promise!cleanups
<1>6. CASE DrainLoop(k)
  <2>1. UNCHANGED <<StartedIds, alive>> /\ wpc[k] = "check"
    BY <1>6, ViewKept DEF DrainLoop, WAt
  <2>2. CASE wpc'[k] = "gone"
    <3>1. abort  BY <1>6, <2>2 DEF DrainLoop, WGoto, TypeOK, TypeDrain
    <3>. QED BY <1>3, <1>5, <2>1, <2>2, <3>1
  <2>3. CASE wpc'[k] # "gone"
    <3>1. wpc'[k] \in {"finish", "run"}
      BY <1>6, <2>3 DEF DrainLoop, WGoto, TypeOK, TypeDrain
    <3>. QED BY <1>3, <1>4, <2>1, <3>1
  <2>. QED BY <2>2, <2>3
<1>7. CASE RunRegistration(k)
  <2>1. wpc[k] \in Cleaning /\ wpc'[k] \in Cleaning \cup {"check"} /\ UNCHANGED alive
    BY <1>7 DEF RunRegistration, WAt, WGoto, Cleaning, TypeOK, TypeDrain
  <2>2. DrainStage = "running" /\ DrainStage' = "running"  BY <1>3, <2>1 DEF Cleaning
  <2>3. CASE UNCHANGED runs
    BY <1>4, <2>1, <2>2, <2>3, ViewKept
  <2>4. CASE ~UNCHANGED runs
    <3>1. wpc[k] = "run" /\ runs' = [runs EXCEPT ![wid[k]] = @ + 1]
      BY <1>7, <2>4 DEF RunRegistration, WAt
    <3>2. wid[k] \in Ids /\ \A j \in Ids : runs[j] > 0 => j > wid[k]
      BY <3>1 DEF DrainInv, RunsAbove
    <3>3. StartedIds' = StartedIds \cup {wid[k]} /\ \A j \in StartedIds : j > wid[k]
      BY <3>1, <3>2 DEF StartedIds, TypeOK, TypeHistory
    <3>4. Promise!Start(wid[k])
      BY <1>1, <1>2, <1>3, <2>1, <2>2, <3>3 DEF Promise!Start, Promise!draining
    <3>. QED BY <1>3, <3>2, <3>4 DEF Promise!Next
  <2>. QED BY <2>3, <2>4
<1>8. CASE FinishDrain(k)
  <2>1. UNCHANGED StartedIds  BY <1>8, ViewKept DEF FinishDrain
  <2>2. CASE wpc[k] = "finish"
    <3>1. UNCHANGED alive /\ wpc'[k] \in {"final", "gone"}
      BY <1>8, <2>2 DEF FinishDrain, WAt, WGoto, TypeOK, TypeDrain
    <3>2. abort \/ expired \/ AcceptedIds \ asked \subseteq StartedIds  BY <2>2, OwedStarted
    <3>. QED BY <1>3, <1>4, <1>5, <2>1, <2>2, <3>1, <3>2
  <2>3. CASE wpc[k] = "final"
    <3>1. UNCHANGED alive /\ wpc'[k] = "post"
      BY <1>8, <2>3 DEF FinishDrain, WAt, WGoto, TypeOK, TypeDrain
    <3>2. expired \/ AcceptedIds \ asked \subseteq StartedIds  BY <2>3, OwedStarted
    <3>. QED BY <1>3, <1>5, <2>1, <2>3, <3>1, <3>2
  <2>4. CASE wpc[k] = "post"
    <3>1. (UNCHANGED alive \/ alive' = "killed") /\ wpc'[k] = "gone"
      BY <1>8, <2>4 DEF FinishDrain, WAt, WGoto, TypeOK, TypeDrain
    <3>2. DrainStage = "over" /\ UNCHANGED DrainStage  BY <1>3, <2>4, <3>1
    <3>3. CASE UNCHANGED alive
      BY <1>4, <2>1, <3>2, <3>3
    <3>4. CASE alive' = "killed"
      BY <1>1, <1>2, <1>3, <2>1, <3>2, <3>4 DEF Promise!Next, Promise!End, Promise!cleanups, Promise!draining
    <3>. QED BY <3>1, <3>3, <3>4
  <2>. QED BY <1>8, <2>2, <2>3, <2>4 DEF FinishDrain, WAt
<1>. QED BY <1>6, <1>7, <1>8 DEF Worker

LEMMA ClientSimulates ==
  ASSUME TypeOK, DrainInv, SafetyInv, PromiseInv, [Next]_vars, NEW c \in Clients, Client(c)
  PROVE  [Promise!Next]_(Promise!vars)
<1>1. /\ UNCHANGED <<cancelled, abort, expired, delivered, pc, wpc, runs, alive>>
  BY DEF Client, ClientOnly
<1>2. UNCHANGED <<StartedIds, DrainStage, TakenOcc, HandedOcc, MainStage>>  BY <1>1, ViewKept
<1>3. alive = "up"
  BY DEF Client, ClientStep, BeginRegister, BeginUnregister, CopyRegistry, Publish, PublishSnapshot, Verdict, CAt
<1>4. CASE BeginRegister(c) \/ CopyRegistry(c) \/ Publish(c) \/ PublishSnapshot(c)
  <2>1. UNCHANGED <<verdict, asked>>
    BY <1>4 DEF BeginRegister, CopyRegistry, Publish, PublishSnapshot
  <2>. QED BY <1>1, <1>3, <2>1, MainShows
<1>5. CASE BeginUnregister(c)
  <2>1. PICK i \in Ids : verdict[i] = "accepted" /\ asked' = asked \cup {i}
    BY <1>5 DEF BeginUnregister
  <2>2. UNCHANGED AcceptedIds  BY <1>5, ViewKept DEF BeginUnregister
  <2>3. i \in AcceptedIds  BY <2>1 DEF AcceptedIds
  <2>4. CASE i \in asked
    BY <1>1, <1>2, <2>1, <2>2, <2>4 DEF Promise!vars, Promise!cleanups, Promise!draining
  <2>5. CASE i \notin asked
    <3>1. Promise!Withdraw(i)
      BY <1>1, <1>2, <2>1, <2>2, <2>3, <2>5 DEF Promise!Withdraw, Promise!draining
    <3>. QED BY <1>3, <2>1, <3>1 DEF Promise!Next
  <2>. QED BY <2>4, <2>5
<1>6. CASE Verdict(c)
  <2>1. UNCHANGED asked /\ cpc[c] = "verdict" /\ cid[c] \in Ids
    BY <1>6 DEF Verdict, CAt, TypeOK, TypeClient
  <2>2. CASE UNCHANGED verdict
    BY <1>1, <1>3, <2>1, <2>2, MainShows
  <2>3. CASE cop[c] = "register" /\ verdict' = [verdict EXCEPT ![cid[c]] = "accepted"]
    <3>1. AcceptedIds' = AcceptedIds \cup {cid[c]} /\ cid[c] \notin AcceptedIds
      <4>1. verdict[cid[c]] = "none"  BY <2>1, <2>3 DEF SafetyInv, TokensIssued
      <4>. QED BY <2>1, <2>3, <4>1 DEF AcceptedIds, TypeOK, TypeHistory
    <3>2. MainStage # "starting"
      <4>1. phase # "NEW"  BY <2>1 DEF SafetyInv, TokensIssued
      <4>. QED BY <4>1, NotStarting
    <3>3. DrainStage = "over" => abort
      BY <2>1, <2>3 DEF DrainStage, Drained, PromiseInv, RegisteredInTime
    <3>4. Promise!Accept(cid[c])
      BY <1>1, <1>2, <2>1, <3>1, <3>2, <3>3 DEF Promise!Accept, Promise!draining
    <3>. QED BY <1>3, <2>1, <3>4 DEF Promise!Next
  <2>4. CASE cop[c] = "rollback" /\ verdict' = [verdict EXCEPT ![cid[c]] = "rejected"]
    <3>1. verdict[cid[c]] = "none"  BY <2>1, <2>4 DEF SafetyInv, TokensIssued
    <3>2. UNCHANGED AcceptedIds
      BY <2>1, <2>4, <3>1 DEF AcceptedIds, TypeOK, TypeHistory
    <3>. QED BY <1>1, <1>2, <2>1, <3>2 DEF Promise!vars, Promise!cleanups, Promise!draining
  <2>. QED BY <1>6, <2>2, <2>3, <2>4 DEF Verdict
<1>. QED BY <1>4, <1>5, <1>6 DEF Client, ClientStep

\* The initial state is one of `Shutdown', and every step is a step of it or
\* leaves what it shows alone.
LEMMA InitShows == Init => Promise!Init
<1> SUFFICES ASSUME Init  PROVE Promise!Init
  OBVIOUS
<1>1. MainStage = "starting"  BY DEF Init, MainStage, InstallPcs
<1>2. AcceptedIds = {} /\ StartedIds = {} /\ HandedOcc = {}
  BY DEF Init, AcceptedIds, StartedIds, HandedOcc
<1>3. DrainStage = "none" /\ TakenOcc = {}  BY DEF Init, DrainStage, Drained, TakenOcc
<1>. QED BY <1>1, <1>2, <1>3 DEF Init, Promise!Init

LEMMA StepShows ==
  ASSUME TypeOK, DrainInv, SafetyInv, PromiseInv, [Next]_vars
  PROVE  [Promise!Next]_(Promise!vars)
<1>1. CASE Unwind \/ MainStep \/ MainReturns \/ Finally \/ Uninstall
  BY <1>1, MainSimulates
<1>2. ASSUME NEW k \in Occ, OnSignal(k) \/ Arrive(k) \/ Redeliver(k) \/ Worker(k)
      PROVE  [Promise!Next]_(Promise!vars)
  BY <1>2, HandlerSimulates, SignalSimulates, WorkerSimulates
<1>3. ASSUME NEW c \in Clients, Client(c)  PROVE [Promise!Next]_(Promise!vars)
  BY <1>3, ClientSimulates
<1>4. CASE \/ BeginFinalize \/ Finalize \/ (\E f \in Frames : RestoreHandlers(f))
           \/ (\E f \in Frames \ {Main} : Detach(f)) \/ \E i \in Ids : CoroutineEnds(i)
  <2>1. alive = "up" /\ UNCHANGED <<cancelled, verdict, asked, runs, wpc, abort, expired, delivered, alive>>
    BY <1>4 DEF BeginFinalize, Finalize, RestoreHandlers, Detach, CoroutineEnds, At
  <2>. QED BY <2>1, MainShows
<1>5. CASE GraceExpires
  <2>1. /\ alive = "up" /\ triggering_signal # 0 /\ ~expired /\ expired' = TRUE
        /\ UNCHANGED <<cancelled, verdict, asked, runs, wpc, abort, delivered, alive, pc>>
    BY <1>5 DEF GraceExpires
  <2>2. UNCHANGED <<AcceptedIds, StartedIds, DrainStage, TakenOcc, HandedOcc, MainStage>>
    BY <2>1, ViewKept
  <2>3. cancelled  BY <2>1 DEF PromiseInv, CancelledFirst
  <2>. QED BY <2>1, <2>2, <2>3 DEF Promise!Next, Promise!Expire, Promise!cleanups
<1>6. CASE Ended \/ UNCHANGED vars
  <2>1. UNCHANGED <<cancelled, verdict, asked, runs, wpc, abort, expired, delivered, alive, pc>>
    BY <1>6 DEF Ended, vars
  <2>2. UNCHANGED <<AcceptedIds, StartedIds, DrainStage, TakenOcc, HandedOcc, MainStage>>
    BY <2>1, ViewKept
  <2>. QED BY <2>1, <2>2 DEF Promise!vars, Promise!cleanups, Promise!draining
<1>. QED BY <1>1, <1>2, <1>3, <1>4, <1>5, <1>6 DEF Next, MainThread

\* The coordinator keeps the promise of `Shutdown' to main.py and to the owners
\* of cleanups, for any number of signals, clients and registrations.
THEOREM CoordinatorKeepsPromise == ASSUME ~Reentrant  PROVE Spec => KeepsPromise
<1>1. Spec => []TypeOK  BY TypeCorrect
<1>2. Spec => []DrainInv  BY DrainInvariant
<1>3. Spec => []SafetyInv  BY SafetyInvariant
<1>4. Spec => []PromiseInv  BY PromiseInvariant
<1>5. Init => Promise!Init  BY InitShows
<1>6. TypeOK /\ DrainInv /\ SafetyInv /\ PromiseInv /\ [Next]_vars => [Promise!Next]_(Promise!vars)
  BY StepShows
<1>. QED BY <1>1, <1>2, <1>3, <1>4, <1>5, <1>6, PTL DEF Spec, KeepsPromise, Promise!Spec
==============================================================================
