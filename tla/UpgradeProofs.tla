--------------------------- MODULE UpgradeProofs ---------------------------
(***************************************************************************)
(* Machine-checked proofs about Upgrade, for any snapshots, firmware       *)
(* states, verbs and clock values.  For any number of concurrent           *)
(* invocations:                                                            *)
(*   - TypeCorrect: TypeOK;                                                *)
(*   - UserSnapshotsAlwaysKept: no snapshot of an operator is deleted;     *)
(*   - ListingOrderSound: the order qm lists the snapshots in.             *)
(* For one invocation at a time, whatever fails, crashes or outlives it:   *)
(*   - BaselineAlwaysKept: the baseline of an unreleased cycle is there;   *)
(*   - RolledBackMeansRestored, PreparedIsUntouched: what the file says of *)
(*     the guest is true;                                                  *)
(*   - ResetAlwaysRestores: what reset leaves behind;                      *)
(*   - UpgradeImplementsLifecycle: the refinement of UpgradeLifecycle.     *)
(* The invariant behind them, UpgradeInv, is built up part by part:        *)
(* TypeInv, WorkInv and BornInv need no single operator, BaselineInv       *)
(* (defined in Upgrade) and CycleInv do.                                   *)
(***************************************************************************)
EXTENDS Upgrade, FiniteSetTheorems, TLAPS

(***************************************************************************)
(* Part 1.  Types.                                                         *)
(***************************************************************************)

ProcsOK == proc \in [Procs -> Memory]

VmOK ==
  /\ snaps \in [Names -> Fw \cup {None}]
  /\ born \in [Names -> Nat]
  /\ guest \in [fw : Fw, up : BOOLEAN]
  /\ pending \in [kind : {"none", "snapshot", "delete", "rollback"},
                  snap : Names \cup {None}]

-----------------------------------------------------------------------------
(* How an invocation's memory moves.                                       *)

\* Moving to another step changes the step only.
LEMMA GotoMoves ==
  ASSUME NEW p \in Procs, NEW label \in Labels, ProcsOK, Goto(p, label)
  PROVE  /\ ProcsOK'
         /\ proc'[p] = [proc[p] EXCEPT !.at = label]
         /\ \A q \in Procs : q # p => proc'[q] = proc[q]
  BY DEF Goto, ProcsOK, Memory

\* Moving on with a new State keeps the other fields.
LEMMA GotoWithMoves ==
  ASSUME NEW p \in Procs, NEW label \in Labels, NEW st \in State, ProcsOK,
         GotoWith(p, label, st)
  PROVE  /\ ProcsOK'
         /\ proc'[p] = [proc[p] EXCEPT !.at = label, !.st = st]
         /\ \A q \in Procs : q # p => proc'[q] = proc[q]
  BY DEF GotoWith, ProcsOK, Memory

\* Moving on with a new work list keeps the other fields.
LEMMA GotoDoingMoves ==
  ASSUME NEW p \in Procs, NEW label \in Labels, NEW S \in SUBSET Names, ProcsOK,
         GotoDoing(p, label, S)
  PROVE  /\ ProcsOK'
         /\ proc'[p] = [proc[p] EXCEPT !.at = label, !.todo = S]
         /\ \A q \in Procs : q # p => proc'[q] = proc[q]
  BY DEF GotoDoing, ProcsOK, Memory

\* An invocation that exits is idle.
LEMMA ExitMoves ==
  ASSUME NEW p \in Procs, NEW reached \in Phases \cup {"none"}, ProcsOK,
         Exit(p, reached)
  PROVE  /\ ProcsOK'
         /\ proc'[p].at = "idle"
         /\ \A q \in Procs : q # p => proc'[q] = proc[q]
  <1>1. Idle \in Memory BY DEF Idle, Memory, EmptyState, State, Phases, Labels
  <1>2. Idle.at = "idle" BY DEF Idle
  <1>. QED BY <1>1, <1>2 DEF Exit, ProcsOK, Memory

-----------------------------------------------------------------------------
(* What qm operations do to the VM.                                        *)

\* There are finitely many snapshot names.
LEMMA NamesFinite == IsFiniteSet(Names)
  <1>1. IsFiniteSet(UpgradeNames)
    <2>1. 1 \in Int /\ MaxTime \in Int BY UpgradeAssumption
    <2>. QED BY <2>1, FS_Interval DEF UpgradeNames
  <1>2. IsFiniteSet(UpgradeNames \cup WatchdogNames)
    BY <1>1, FS_Union, UpgradeAssumption
  <1>. QED BY <1>2, FS_Union, UpgradeAssumption DEF Names

\* A detached delete or rollback works on a snapshot that is there: TypeOK alone
\* does not say so, and without it a rollback could leave no firmware at all.
PendingPossible == pending.kind \in {"delete", "rollback"} => Exists(pending.snap)

TypeInv == /\ file \in State
           /\ VmOK /\ PendingPossible
           /\ clock \in 1..MaxTime
           /\ overlooked \in BOOLEAN
           /\ ProcsOK

\* An operation that takes effect keeps the VM well typed.
LEMMA EffectOK ==
  ASSUME NEW op \in [kind : {"none", "snapshot", "delete", "rollback"},
                     snap : Names \cup {None}],
         VmOK, op.kind \in {"delete", "rollback"} => Exists(op.snap), Effect(op)
  PROVE  /\ snaps' \in [Names -> Fw \cup {None}]
         /\ born' \in [Names -> Nat]
         /\ guest' \in [fw : Fw, up : BOOLEAN]
  <1>1. CASE op.kind = "snapshot" /\ Take(op.snap)
    <2>1. IsFiniteSet(Names)
      BY NamesFinite
    <2>2. Newest \in Nat
      <3>1. Present \subseteq Names BY DEF Present
      <3>2. Cardinality(Present) \in Nat
        BY <2>1, <3>1, FS_Subset, FS_CardinalityType
      <3>. QED BY <3>2 DEF Newest
    <2>. QED BY <1>1, <2>2 DEF Take, VmOK
  <1>2. CASE op.kind = "delete" /\ Remove(op.snap)
    BY <1>2 DEF Remove, VmOK, Exists
  <1>3. CASE op.kind = "rollback" /\ Restore(op.snap)
    BY <1>3 DEF Restore, VmOK, Exists
  <1>. QED BY <1>1, <1>2, <1>3 DEF Effect


-----------------------------------------------------------------------------
(* Type correctness.                                                       *)

\* What qm does for an invocation, done or not, keeps the VM well typed and
\* the detached operation possible.
LEMMA QmKeepsTypes ==
  ASSUME NEW kind \in {"snapshot", "delete", "rollback"}, NEW n \in Names \cup {None},
         VmOK, PendingPossible, QmDone(kind, n) \/ QmError(kind, n)
  PROVE  VmOK' /\ PendingPossible'
  <1>. DEFINE op == [kind |-> kind, snap |-> n]
  <1>1. CASE QmDone(kind, n)
    <2>1. op.kind \in {"delete", "rollback"} => Exists(op.snap)
      BY <1>1 DEF QmDone, Accepts
    <2>2. Effect(op) /\ pending = NoOp /\ UNCHANGED pending
      BY <1>1 DEF QmDone, Accepts
    <2>3. op \in [kind : {"none", "snapshot", "delete", "rollback"}, snap : Names \cup {None}]
      OBVIOUS
    <2>4. /\ snaps' \in [Names -> Fw \cup {None}]
          /\ born' \in [Names -> Nat]
          /\ guest' \in [fw : Fw, up : BOOLEAN]
      <3>. HIDE DEF op
      <3>. QED BY <2>1, <2>2, <2>3, EffectOK
    <2>. QED BY <2>2, <2>4 DEF VmOK, PendingPossible, NoOp
  <1>2. CASE QmError(kind, n)
    <2>1. UNCHANGED snaps /\ UNCHANGED born
      BY <1>2 DEF QmError
    <2>2. pending' = pending \/ (pending' = op /\ Accepts(op))
      BY <1>2 DEF QmError
    <2>3. guest' = guest \/ guest' = [guest EXCEPT !.up = FALSE]
      BY <1>2 DEF QmError
    <2>4. guest' \in [fw : Fw, up : BOOLEAN]
      BY <2>3 DEF VmOK
    <2>5. op.kind \in {"delete", "rollback"} /\ Accepts(op) => Exists(op.snap)
      BY DEF Accepts
    <2>6. VmOK' BY <2>1, <2>2, <2>4 DEF VmOK
    <2>7. PendingPossible'
      <3>. HIDE DEF op
      <3>. QED BY <2>1, <2>2, <2>5 DEF PendingPossible, Exists
    <2>. QED BY <2>6, <2>7
  <1>. QED BY <1>1, <1>2


\* A step that leaves the VM alone.
LEMMA VmAlone ==
  ASSUME VmOK, PendingPossible, UNCHANGED vmVars
  PROVE  VmOK' /\ PendingPossible'
  BY DEF VmOK, PendingPossible, vmVars, Exists

\* A step that touches only the guest.
LEMMA GuestOnly ==
  ASSUME VmOK, PendingPossible, UNCHANGED <<snaps, born, pending>>,
         guest' \in [fw : Fw, up : BOOLEAN]
  PROVE  VmOK' /\ PendingPossible'
  BY DEF VmOK, PendingPossible, Exists

\* What an invocation remembers is a State and a set of snapshot names.
LEMMA Remembered ==
  ASSUME ProcsOK, NEW p \in Procs
  PROVE  /\ proc[p] \in Memory
         /\ proc[p].st \in State
         /\ proc[p].st.phase \in Phases
         /\ proc[p].st.snap \in Names \cup {None}
         /\ proc[p].todo \in SUBSET Names
  BY DEF ProcsOK, Memory, State, Names

\* A work list that gets shorter.
LEMMA WorkShrinks ==
  ASSUME ProcsOK, NEW p \in Procs, NEW label \in Labels, NEW S,
         S \subseteq proc[p].todo, GotoDoing(p, label, S)
  PROVE  /\ ProcsOK'
         /\ proc'[p] = [proc[p] EXCEPT !.at = label, !.todo = S]
         /\ \A q \in Procs : q # p => proc'[q] = proc[q]
  <1>1. S \in SUBSET Names BY Remembered
  <1>. QED BY <1>1, GotoDoingMoves

\* The steps of prepare.
LEMMA PrepareTypes ==
  ASSUME TypeInv, NEW p \in Procs, PrepareStep(p)
  PROVE  TypeInv'
  <1>. USE DEF TypeInv
  <1>1. CASE PrepareLoad(p)
    <2>1. [phase |-> "prepared", snap |-> clock] \in State
      BY DEF State, Phases, UpgradeNames
    <2>2. VmOK' /\ PendingPossible' BY <1>1, VmAlone DEF PrepareLoad
    <2>3. ProcsOK'
      BY <1>1, <2>1, GotoWithMoves, ExitMoves DEF PrepareLoad, Labels, Phases
    <2>. QED BY <1>1, <2>2, <2>3 DEF PrepareLoad
  <1>2. CASE PrepareCapture(p)
    <2>1. VmOK' /\ PendingPossible' BY <1>2, VmAlone DEF PrepareCapture
    <2>2. ProcsOK'
      BY <1>2, GotoMoves, ExitMoves DEF PrepareCapture, Labels, Phases
    <2>. QED BY <1>2, <2>1, <2>2 DEF PrepareCapture
  <1>3. CASE PrepareSnapshot(p)
    <2>1. VmOK' /\ PendingPossible'
      BY <1>3, Remembered, QmKeepsTypes DEF PrepareSnapshot
    <2>2. ProcsOK'
      BY <1>3, GotoMoves, ExitMoves DEF PrepareSnapshot, Labels, Phases
    <2>. QED BY <1>3, <2>1, <2>2 DEF PrepareSnapshot
  <1>4. CASE PrepareSave(p)
    <2>1. VmOK' /\ PendingPossible' BY <1>4, VmAlone DEF PrepareSave
    <2>2. ProcsOK'
      BY <1>4, GotoMoves, ExitMoves DEF PrepareSave, Labels, Phases
    <2>3. file' \in State BY <1>4, Remembered DEF PrepareSave, Saved, SaveFailed
    <2>. QED BY <1>4, <2>1, <2>2, <2>3 DEF PrepareSave
  <1>. QED BY <1>1, <1>2, <1>3, <1>4 DEF PrepareStep

\* Recording a phase is a move to x_save.
LEMMA RecordMoves ==
  ASSUME NEW p \in Procs, NEW phase \in Phases, ProcsOK, Record(p, phase)
  PROVE  /\ ProcsOK'
         /\ proc'[p].at = "x_save"
         /\ proc'[p].st = [proc[p].st EXCEPT !.phase = phase]
         /\ \A q \in Procs : q # p => proc'[q] = proc[q]
  <1>. DEFINE st == [proc[p].st EXCEPT !.phase = phase]
  <1>1. proc[p] \in Memory BY Remembered
  <1>2. st \in State BY Remembered DEF State
  <1>3. GotoWith(p, "x_save", st) BY DEF Record
  <1>4. "x_save" \in Labels BY DEF Labels
  <1>. HIDE DEF st
  <1>5. /\ ProcsOK'
        /\ proc'[p] = [proc[p] EXCEPT !.at = "x_save", !.st = st]
        /\ \A q \in Procs : q # p => proc'[q] = proc[q]
    BY <1>2, <1>3, <1>4, GotoWithMoves
  <1>6. proc'[p].at = "x_save" /\ proc'[p].st = st BY <1>1, <1>5 DEF Memory
  <1>. QED BY <1>5, <1>6 DEF st

\* Execute's returns are a move or an exit.
LEMMA ExecuteReturnsMoves ==
  ASSUME NEW p \in Procs, ProcsOK, ExecuteReturns(p)
  PROVE  /\ ProcsOK'
         /\ proc'[p].at \in {"x_done", "idle"}
         /\ \A q \in Procs : q # p => proc'[q] = proc[q]
  <1>1. proc[p] \in Memory BY Remembered
  <1>2. CASE Goto(p, "x_done")
    <2>1. "x_done" \in Labels BY DEF Labels
    <2>2. proc'[p] = [proc[p] EXCEPT !.at = "x_done"] BY <1>2, <2>1, GotoMoves
    <2>3. proc'[p].at = "x_done" BY <1>1, <2>2 DEF Memory
    <2>. QED BY <1>2, <2>1, <2>3, GotoMoves
  <1>3. CASE Exit(p, "none")
    BY <1>3, ExitMoves
  <1>. QED BY <1>2, <1>3 DEF ExecuteReturns

\* The steps of execute.
LEMMA ExecuteTypes ==
  ASSUME TypeInv, NEW p \in Procs, ExecuteStep(p)
  PROVE  TypeInv'
  <1>. USE DEF TypeInv
  <1>1. CASE ExecuteLoad(p)
    <2>1. [file EXCEPT !.phase = "executing"] \in State BY DEF State, Phases
    <2>2. VmOK' /\ PendingPossible' BY <1>1, VmAlone DEF ExecuteLoad
    <2>3. ProcsOK'
      BY <1>1, <2>1, GotoWithMoves, ExecuteReturnsMoves, ExitMoves
         DEF ExecuteLoad, Labels, Phases
    <2>. QED BY <1>1, <2>2, <2>3 DEF ExecuteLoad
  <1>2. CASE ExecuteMark(p)
    <2>1. VmOK' /\ PendingPossible' BY <1>2, VmAlone DEF ExecuteMark
    <2>2. ProcsOK'
      BY <1>2, GotoMoves, ExecuteReturnsMoves DEF ExecuteMark, Labels
    <2>3. file' \in State BY <1>2, Remembered DEF ExecuteMark, Saved, SaveFailed
    <2>. QED BY <1>2, <2>1, <2>2, <2>3 DEF ExecuteMark
  <1>3. CASE ExecutePlan(p)
    <2>1. VmOK' /\ PendingPossible' BY <1>3, VmAlone DEF ExecutePlan
    <2>2. ProcsOK'
      BY <1>3, GotoMoves, RecordMoves DEF ExecutePlan, Labels, Phases
    <2>. QED BY <1>3, <2>1, <2>2 DEF ExecutePlan
  <1>4. CASE ExecuteApply(p)
    <2>1. guest' \in [fw : Fw, up : BOOLEAN] BY <1>4 DEF ExecuteApply, VmOK
    <2>2. VmOK' /\ PendingPossible' BY <1>4, <2>1, GuestOnly DEF ExecuteApply
    <2>3. ProcsOK'
      BY <1>4, GotoMoves, RecordMoves DEF ExecuteApply, Labels, Phases
    <2>. QED BY <1>4, <2>2, <2>3 DEF ExecuteApply
  <1>5. CASE ExecuteReboot(p)
    <2>1. guest' \in [fw : Fw, up : BOOLEAN] BY <1>5 DEF ExecuteReboot, VmOK
    <2>2. VmOK' /\ PendingPossible' BY <1>5, <2>1, GuestOnly DEF ExecuteReboot
    <2>3. ProcsOK'
      BY <1>5, GotoMoves, RecordMoves DEF ExecuteReboot, Labels, Phases
    <2>. QED BY <1>5, <2>2, <2>3 DEF ExecuteReboot
  <1>6. CASE ExecuteVerify(p)
    <2>1. VmOK' /\ PendingPossible' BY <1>6, VmAlone DEF ExecuteVerify
    <2>2. ProcsOK' BY <1>6, RecordMoves DEF ExecuteVerify, Phases
    <2>. QED BY <1>6, <2>1, <2>2 DEF ExecuteVerify
  <1>7. CASE ExecuteSave(p)
    <2>1. VmOK' /\ PendingPossible' BY <1>7, VmAlone DEF ExecuteSave
    <2>2. ProcsOK' BY <1>7, ExecuteReturnsMoves DEF ExecuteSave
    <2>3. file' \in State BY <1>7, Remembered DEF ExecuteSave, Saved, SaveFailed
    <2>. QED BY <1>7, <2>1, <2>2, <2>3 DEF ExecuteSave
  <1>8. CASE RunAfterExecute(p)
    <2>1. VmOK' /\ PendingPossible' BY <1>8, VmAlone DEF RunAfterExecute
    <2>2. ProcsOK' BY <1>8, GotoMoves DEF RunAfterExecute, Labels
    <2>. QED BY <1>8, <2>1, <2>2 DEF RunAfterExecute
  <1>. QED BY <1>1, <1>2, <1>3, <1>4, <1>5, <1>6, <1>7, <1>8 DEF ExecuteStep

\* Validate's returns are a move or an exit.
LEMMA ValidateReturnsMoves ==
  ASSUME NEW p \in Procs, NEW phase \in Phases, ProcsOK, ValidateReturns(p, phase)
  PROVE  /\ ProcsOK'
         /\ proc'[p].at \in {"r_load", "idle"}
         /\ \A q \in Procs : q # p => proc'[q] = proc[q]
  <1>1. proc[p] \in Memory BY Remembered
  <1>2. CASE Goto(p, "r_load")
    <2>1. "r_load" \in Labels BY DEF Labels
    <2>2. proc'[p] = [proc[p] EXCEPT !.at = "r_load"] BY <1>2, <2>1, GotoMoves
    <2>3. proc'[p].at = "r_load" BY <1>1, <2>2 DEF Memory
    <2>. QED BY <1>2, <2>1, <2>3, GotoMoves
  <1>3. CASE Exit(p, phase)
    BY <1>3, ExitMoves
  <1>. QED BY <1>2, <1>3 DEF ValidateReturns

\* The steps of validate.
LEMMA ValidateTypes ==
  ASSUME TypeInv, NEW p \in Procs, ValidateStep(p)
  PROVE  TypeInv'
  <1>. USE DEF TypeInv
  <1>1. CASE ValidateLoad(p)
    <2>1. VmOK' /\ PendingPossible' BY <1>1, VmAlone DEF ValidateLoad
    <2>2. ProcsOK'
      BY <1>1, GotoWithMoves, ValidateReturnsMoves, ExitMoves
         DEF ValidateLoad, Labels, Phases, State
    <2>. QED BY <1>1, <2>1, <2>2 DEF ValidateLoad
  <1>2. CASE ValidateCheck(p)
    <2>1. VmOK' /\ PendingPossible' BY <1>2, VmAlone DEF ValidateCheck
    <2>2. PICK verdict \in Verdicts, acceptPartial \in BOOLEAN :
            LET phase == selectValidatePhase(verdict, acceptPartial) IN
            IF proc[p].st.phase = "rolled_back" /\ phase # "validated_pass"
            THEN Exit(p, "rolled_back")
            ELSE GotoWith(p, "v_save", [proc[p].st EXCEPT !.phase = phase])
      BY <1>2 DEF ValidateCheck
    <2>. DEFINE phase == selectValidatePhase(verdict, acceptPartial)
    <2>3. phase \in Phases BY DEF selectValidatePhase, Phases, Verdicts
    <2>4. [proc[p].st EXCEPT !.phase = phase] \in State
      <3>. HIDE DEF phase
      <3>. QED BY <2>3, Remembered DEF State
    <2>5. Exit(p, "rolled_back") \/ GotoWith(p, "v_save", [proc[p].st EXCEPT !.phase = phase])
      BY <2>2
    <2>6. ProcsOK'
      <3>. HIDE DEF phase
      <3>. QED BY <2>4, <2>5, GotoWithMoves, ExitMoves DEF Labels, Phases
    <2>. QED BY <1>2, <2>1, <2>6 DEF ValidateCheck
  <1>3. CASE ValidateSave(p)
    <2>1. VmOK' /\ PendingPossible' BY <1>3, VmAlone DEF ValidateSave
    <2>2. ProcsOK'
      BY <1>3, Remembered, ExitMoves, ValidateReturnsMoves DEF ValidateSave
    <2>3. file' \in State BY <1>3, Remembered DEF ValidateSave, Saved, SaveFailed
    <2>. QED BY <1>3, <2>1, <2>2, <2>3 DEF ValidateSave
  <1>. QED BY <1>1, <1>2, <1>3 DEF ValidateStep

\* One qm delete of a name on a work list.
LEMMA DeleteTypes ==
  ASSUME VmOK, PendingPossible, NEW n \in Names,
         QmDone("delete", n) \/ QmError("delete", n)
  PROVE  VmOK' /\ PendingPossible'
  BY QmKeepsTypes

\* The steps of rollback.
LEMMA RollbackTypes ==
  ASSUME TypeInv, NEW p \in Procs, RollbackStep(p)
  PROVE  TypeInv'
  <1>. USE DEF TypeInv
  <1>1. CASE RollbackLoad(p)
    <2>1. VmOK' /\ PendingPossible' BY <1>1, VmAlone DEF RollbackLoad
    <2>2. ProcsOK'
      BY <1>1, GotoWithMoves, ExitMoves DEF RollbackLoad, Labels, Phases, State
    <2>. QED BY <1>1, <2>1, <2>2 DEF RollbackLoad
  <1>2. CASE RollbackList(p)
    <2>1. VmOK' /\ PendingPossible' BY <1>2, VmAlone DEF RollbackList
    <2>2. snapshotsAfter(proc[p].st.snap) \in SUBSET Names
      BY DEF snapshotsAfter, Later, Present
    <2>3. ProcsOK'
      BY <1>2, <2>2, Remembered, GotoDoingMoves, ExitMoves DEF RollbackList, Labels
    <2>. QED BY <1>2, <2>1, <2>3 DEF RollbackList
  <1>3. CASE RollbackDelete(p)
    <2>1. VmOK' /\ PendingPossible'
      BY <1>3, VmAlone, Remembered, DeleteTypes DEF RollbackDelete
    <2>2. ProcsOK'
      BY <1>3, GotoMoves, WorkShrinks DEF RollbackDelete, Labels
    <2>. QED BY <1>3, <2>1, <2>2 DEF RollbackDelete
  <1>4. CASE RollbackQm(p)
    <2>1. VmOK' /\ PendingPossible'
      BY <1>4, Remembered, QmKeepsTypes DEF RollbackQm
    <2>2. ProcsOK' BY <1>4, GotoMoves DEF RollbackQm, Labels
    <2>. QED BY <1>4, <2>1, <2>2 DEF RollbackQm
  <1>5. CASE RollbackStart(p)
    <2>1. guest' \in [fw : Fw, up : BOOLEAN] BY <1>5 DEF RollbackStart, VmOK
    <2>2. VmOK' /\ PendingPossible' BY <1>5, <2>1, GuestOnly DEF RollbackStart
    <2>3. ProcsOK' BY <1>5, GotoMoves DEF RollbackStart, Labels
    <2>. QED BY <1>5, <2>2, <2>3 DEF RollbackStart
  <1>6. CASE RollbackStartFailed(p)
    <2>1. VmOK' /\ PendingPossible' BY <1>6, VmAlone DEF RollbackStartFailed
    <2>2. ProcsOK' BY <1>6, Remembered, ExitMoves DEF RollbackStartFailed
    <2>3. file' \in State
      BY <1>6, Remembered DEF RollbackStartFailed, Saved, SaveFailed, State, Phases
    <2>. QED BY <1>6, <2>1, <2>2, <2>3 DEF RollbackStartFailed
  <1>7. CASE RollbackWait(p)
    <2>1. VmOK' /\ PendingPossible' BY <1>7, VmAlone DEF RollbackWait
    <2>2. [proc[p].st EXCEPT !.phase = "rolled_back"] \in State
      BY Remembered DEF State, Phases
    <2>3. ProcsOK' BY <1>7, <2>2, GotoMoves, GotoWithMoves DEF RollbackWait, Labels
    <2>. QED BY <1>7, <2>1, <2>3 DEF RollbackWait
  <1>8. CASE RollbackFail(p)
    <2>1. VmOK' /\ PendingPossible' BY <1>8, VmAlone DEF RollbackFail
    <2>2. ProcsOK' BY <1>8, ExitMoves DEF RollbackFail, Phases
    <2>3. file' \in State
      BY <1>8, Remembered DEF RollbackFail, Saved, SaveFailed, State, Phases
    <2>. QED BY <1>8, <2>1, <2>2, <2>3 DEF RollbackFail
  <1>9. CASE RollbackSave(p)
    <2>1. VmOK' /\ PendingPossible' BY <1>9, VmAlone DEF RollbackSave
    <2>2. ProcsOK' BY <1>9, ExitMoves DEF RollbackSave, Phases
    <2>3. file' \in State BY <1>9, Remembered DEF RollbackSave, Saved, SaveFailed
    <2>. QED BY <1>9, <2>1, <2>2, <2>3 DEF RollbackSave
  <1>. QED BY <1>1, <1>2, <1>3, <1>4, <1>5, <1>6, <1>7, <1>8, <1>9 DEF RollbackStep

\* The steps of commit.
LEMMA CommitTypes ==
  ASSUME TypeInv, NEW p \in Procs, CommitStep(p)
  PROVE  TypeInv'
  <1>. USE DEF TypeInv
  <1>1. CASE CommitLoad(p)
    <2>1. VmOK' /\ PendingPossible' BY <1>1, VmAlone DEF CommitLoad
    <2>2. [file EXCEPT !.phase = "committed"] \in State BY DEF State, Phases
    <2>3. ProcsOK'
      BY <1>1, <2>2, GotoWithMoves, ExitMoves DEF CommitLoad, Labels
    <2>. QED BY <1>1, <2>1, <2>3 DEF CommitLoad
  <1>2. CASE CommitDelete(p)
    <2>1. VmOK' /\ PendingPossible'
      BY <1>2, Remembered, QmKeepsTypes DEF CommitDelete
    <2>2. ProcsOK' BY <1>2, GotoMoves, ExitMoves DEF CommitDelete, Labels
    <2>. QED BY <1>2, <2>1, <2>2 DEF CommitDelete
  <1>3. CASE CommitSave(p)
    <2>1. VmOK' /\ PendingPossible' BY <1>3, VmAlone DEF CommitSave
    <2>2. ProcsOK' BY <1>3, ExitMoves DEF CommitSave
    <2>3. file' \in State BY <1>3, Remembered DEF CommitSave, Saved, SaveFailed
    <2>. QED BY <1>3, <2>1, <2>2, <2>3 DEF CommitSave
  <1>. QED BY <1>1, <1>2, <1>3 DEF CommitStep

\* The steps of gc.
LEMMA GCTypes ==
  ASSUME TypeInv, NEW p \in Procs, GCStep(p)
  PROVE  TypeInv'
  <1>. USE DEF TypeInv
  <1>1. CASE GCLoad(p)
    <2>1. VmOK' /\ PendingPossible' BY <1>1, VmAlone DEF GCLoad
    <2>2. PICK readable \in BOOLEAN :
            GotoDoing(p, "g_list", Old \ {activeDeploySnapshot(readable)})
      BY <1>1 DEF GCLoad
    <2>3. Old \ {activeDeploySnapshot(readable)} \in SUBSET Names
      BY DEF Old, Names
    <2>4. ProcsOK' BY <2>2, <2>3, GotoDoingMoves DEF Labels
    <2>5. overlooked' \in BOOLEAN BY <1>1 DEF GCLoad
    <2>. QED BY <1>1, <2>1, <2>4, <2>5 DEF GCLoad
  <1>2. CASE GCList(p)
    <2>1. VmOK' /\ PendingPossible' BY <1>2, VmAlone DEF GCList
    <2>2. ProcsOK'
      BY <1>2, WorkShrinks, ExitMoves DEF GCList, Labels
    <2>. QED BY <1>2, <2>1, <2>2 DEF GCList
  <1>3. CASE GCDelete(p)
    <2>1. VmOK' /\ PendingPossible'
      BY <1>3, VmAlone, Remembered, DeleteTypes DEF GCDelete
    <2>2. ProcsOK'
      BY <1>3, ExitMoves, WorkShrinks DEF GCDelete, Labels
    <2>. QED BY <1>3, <2>1, <2>2 DEF GCDelete
  <1>. QED BY <1>1, <1>2, <1>3 DEF GCStep

\* The steps of reset.
LEMMA ResetTypes ==
  ASSUME TypeInv, NEW p \in Procs, ResetStep(p)
  PROVE  TypeInv'
  <1>. USE DEF TypeInv
  <1>1. CASE ResetLoad(p)
    <2>1. VmOK' /\ PendingPossible' BY <1>1, VmAlone DEF ResetLoad
    <2>2. ProcsOK' BY <1>1, GotoWithMoves, ExitMoves DEF ResetLoad, Labels
    <2>. QED BY <1>1, <2>1, <2>2 DEF ResetLoad
  <1>2. CASE ResetList(p)
    <2>1. VmOK' /\ PendingPossible' BY <1>2, VmAlone DEF ResetList
    <2>. DEFINE doomed == (Present \cap UpgradeNames) \ {RollbackTarget(proc[p].st)}
    <2>2. doomed \in SUBSET Names BY DEF Present
    <2>3. GotoDoing(p, "z_del", doomed) \/ Exit(p, "none") BY <1>2 DEF ResetList
    <2>4. ProcsOK'
      <3>. HIDE DEF doomed
      <3>. QED BY <2>2, <2>3, GotoDoingMoves, ExitMoves DEF Labels
    <2>. QED BY <1>2, <2>1, <2>4 DEF ResetList
  <1>3. CASE ResetDelete(p)
    <2>1. VmOK' /\ PendingPossible'
      BY <1>3, VmAlone, Remembered, DeleteTypes DEF ResetDelete
    <2>2. ProcsOK'
      BY <1>3, ExitMoves, GotoMoves, WorkShrinks DEF ResetDelete, Labels
    <2>. QED BY <1>3, <2>1, <2>2 DEF ResetDelete
  <1>4. CASE ResetRollback(p)
    <2>1. RollbackTarget(proc[p].st) \in Names \cup {None}
      BY Remembered DEF RollbackTarget
    <2>2. VmOK' /\ PendingPossible' BY <1>4, <2>1, QmKeepsTypes DEF ResetRollback
    <2>3. ProcsOK' BY <1>4, GotoMoves, ExitMoves DEF ResetRollback, Labels
    <2>. QED BY <1>4, <2>2, <2>3 DEF ResetRollback
  <1>5. CASE ResetRemove(p)
    <2>1. VmOK' /\ PendingPossible' BY <1>5, VmAlone DEF ResetRemove
    <2>2. ProcsOK' BY <1>5, ExitMoves DEF ResetRemove
    <2>3. file' \in State
      BY <1>5 DEF ResetRemove, SaveFailed, EmptyState, State, Phases
    <2>. QED BY <1>5, <2>1, <2>2, <2>3 DEF ResetRemove
  <1>. QED BY <1>1, <1>2, <1>3, <1>4, <1>5 DEF ResetStep

\* An invocation that starts or dies.
LEMMA InvocationTypes ==
  ASSUME TypeInv, NEW p \in Procs,
         Crash(p) \/ \E c \in Commands : Invoke(p, c)
  PROVE  TypeInv'
  <1>. USE DEF TypeInv
  <1>1. CASE Crash(p)
    <2>1. guest' \in [fw : Fw, up : BOOLEAN] BY <1>1 DEF Crash, VmOK
    <2>2. VmOK' /\ PendingPossible' BY <1>1, <2>1, GuestOnly DEF Crash
    <2>3. ProcsOK'
      BY <1>1 DEF Crash, ProcsOK, Idle, Memory, EmptyState, State, Phases, Labels
    <2>. QED BY <1>1, <2>2, <2>3 DEF Crash
  <1>2. ASSUME NEW c \in Commands, Invoke(p, c) PROVE TypeInv'
    <2>1. VmOK' /\ PendingPossible' BY <1>2, VmAlone DEF Invoke
    <2>2. [Idle EXCEPT !.at = Entry[c], !.verb = c] \in Memory
      <3>1. c \in Verbs BY UpgradeAssumption
      <3>2. Entry[c] \in Labels BY <3>1 DEF Entry, Labels, Verbs
      <3>. QED BY <3>1, <3>2 DEF Idle, Memory, EmptyState, State, Phases
    <2>3. ProcsOK' BY <1>2, <2>2 DEF Invoke, ProcsOK
    <2>. QED BY <1>2, <2>1, <2>3 DEF Invoke
  <1>. QED BY <1>1, <1>2

\* The steps of the surroundings.
LEMMA EnvironmentTypes ==
  ASSUME TypeInv, Environment
  PROVE  TypeInv'
  <1>. USE DEF TypeInv
  <1>1. CASE DetachedOpEnds
    <2>1. CASE Effect(pending)
      <3>1. pending \in [kind : {"none", "snapshot", "delete", "rollback"},
                         snap : Names \cup {None}]
        BY DEF VmOK
      <3>2. /\ snaps' \in [Names -> Fw \cup {None}]
            /\ born' \in [Names -> Nat]
            /\ guest' \in [fw : Fw, up : BOOLEAN]
        BY <2>1, <3>1, EffectOK DEF PendingPossible
      <3>. QED BY <1>1, <3>2 DEF DetachedOpEnds, VmOK, PendingPossible, NoOp, ProcsOK
    <2>2. CASE UNCHANGED <<snaps, born, guest>>
      BY <1>1, <2>2 DEF DetachedOpEnds, VmOK, PendingPossible, NoOp, ProcsOK
    <2>. QED BY <1>1, <2>1, <2>2 DEF DetachedOpEnds
  <1>2. CASE Tick
    <2>1. VmOK' /\ PendingPossible' BY <1>2, VmAlone DEF Tick
    <2>. QED BY <1>2, <2>1, UpgradeAssumption DEF Tick, ProcsOK
  <1>3. CASE StartGuest
    <2>1. VmOK' /\ PendingPossible'
      BY <1>3, GuestOnly DEF StartGuest, VmOK
    <2>. QED BY <1>3, <2>1 DEF StartGuest, ProcsOK
  <1>4. ASSUME NEW n \in WatchdogNames \cup UserNames, OtherSnapshot(n) PROVE TypeInv'
    <2>. DEFINE op == [kind |-> "snapshot", snap |-> n]
    <2>1. op \in [kind : {"none", "snapshot", "delete", "rollback"}, snap : Names \cup {None}]
      BY DEF Names
    <2>2. Effect(op) /\ op.kind = "snapshot" BY <1>4 DEF OtherSnapshot, Effect
    <2>3. /\ snaps' \in [Names -> Fw \cup {None}]
          /\ born' \in [Names -> Nat]
          /\ guest' \in [fw : Fw, up : BOOLEAN]
      <3>. HIDE DEF op
      <3>. QED BY <2>1, <2>2, EffectOK
    <2>4. pending = NoOp BY <1>4 DEF OtherSnapshot, Accepts
    <2>. QED BY <1>4, <2>3, <2>4 DEF OtherSnapshot, VmOK, PendingPossible, NoOp, ProcsOK
  <1>. QED BY <1>1, <1>2, <1>3, <1>4 DEF Environment

\* TypeInv is inductive.
LEMMA TypeInvInductive == Spec => []TypeInv
  <1>1. Init => TypeInv
    <2>. SUFFICES ASSUME Init PROVE TypeInv
      OBVIOUS
    <2>1. file \in State BY DEF Init, EmptyState, State, Phases
    <2>2. VmOK /\ PendingPossible
      BY DEF Init, VmOK, PendingPossible, NoOp
    <2>3. clock \in 1..MaxTime BY UpgradeAssumption DEF Init
    <2>5. overlooked \in BOOLEAN BY DEF Init
    <2>4. ProcsOK
      BY DEF Init, ProcsOK, Idle, Memory, EmptyState, State, Phases, Labels
    <2>. QED BY <2>1, <2>2, <2>3, <2>4, <2>5 DEF TypeInv
  <1>2. TypeInv /\ [Next]_vars => TypeInv'
    <2>. SUFFICES ASSUME TypeInv, [Next]_vars PROVE TypeInv'
      OBVIOUS
    <2>1. CASE Environment BY <2>1, EnvironmentTypes
    <2>2. ASSUME NEW p \in Procs, Crash(p) \/ (\E c \in Commands : Invoke(p, c))
          PROVE  TypeInv'
      BY <2>2, InvocationTypes
    <2>3. ASSUME NEW p \in Procs, Step(p) PROVE TypeInv'
      BY <2>3, PrepareTypes, ExecuteTypes, ValidateTypes, RollbackTypes,
         CommitTypes, GCTypes, ResetTypes DEF Step
    <2>4. CASE UNCHANGED vars
      BY <2>4, VmAlone DEF vars, TypeInv, ProcsOK
    <2>. QED BY <2>1, <2>2, <2>3, <2>4 DEF Next
  <1>. QED BY <1>1, <1>2, PTL DEF Spec

\* Type correctness, for any number of invocations running at the same time:
\* state.json, the snapshots, the guest and what every invocation remembers
\* always hold values the code can store in them.
THEOREM TypeCorrect == Spec => []TypeOK
  <1>1. TypeInv => TypeOK BY DEF TypeInv, TypeOK, VmOK, ProcsOK
  <1>. QED BY <1>1, TypeInvInductive, PTL

-----------------------------------------------------------------------------
(* The fields of an invocation's memory after it moved.                    *)

\* A plain move.
LEMMA GotoFields ==
  ASSUME ProcsOK, NEW p \in Procs, NEW label \in Labels, Goto(p, label)
  PROVE  /\ proc'[p].at = label
         /\ proc'[p].st = proc[p].st
         /\ proc'[p].todo = proc[p].todo
  <1>1. proc[p] \in Memory BY Remembered
  <1>2. proc'[p] = [proc[p] EXCEPT !.at = label] BY GotoMoves
  <1>. QED BY <1>1, <1>2 DEF Memory

\* A move with a new State.
LEMMA GotoWithFields ==
  ASSUME ProcsOK, NEW p \in Procs, NEW label \in Labels, NEW st \in State,
         GotoWith(p, label, st)
  PROVE  /\ proc'[p].at = label
         /\ proc'[p].st = st
         /\ proc'[p].todo = proc[p].todo
  <1>1. proc[p] \in Memory BY Remembered
  <1>2. proc'[p] = [proc[p] EXCEPT !.at = label, !.st = st] BY GotoWithMoves
  <1>. QED BY <1>1, <1>2 DEF Memory

\* A move with a new work list.
LEMMA GotoDoingFields ==
  ASSUME ProcsOK, NEW p \in Procs, NEW label \in Labels, NEW S \in SUBSET Names,
         GotoDoing(p, label, S)
  PROVE  /\ proc'[p].at = label
         /\ proc'[p].st = proc[p].st
         /\ proc'[p].todo = S
  <1>1. proc[p] \in Memory BY Remembered
  <1>2. proc'[p] = [proc[p] EXCEPT !.at = label, !.todo = S] BY GotoDoingMoves
  <1>. QED BY <1>1, <1>2 DEF Memory

(***************************************************************************)
(* Part 2.  What is cleaned up, and in which order, whoever does it: any   *)
(* number of invocations.                                                  *)
(***************************************************************************)

(* What qm is asked to do, by any number of invocations.                   *)

\* Invocation p is at a step that asks qm for this operation.
Asks(p, kind, n) ==
  LET m == proc[p] IN
  \/ m.at = "p_snap" /\ kind = "snapshot" /\ n = m.st.snap
  \/ m.at \in {"r_del", "g_del", "z_del"} /\ kind = "delete" /\ n \in m.todo
  \/ m.at = "c_del" /\ kind = "delete" /\ n = m.st.snap
  \/ m.at = "r_qm" /\ kind = "rollback" /\ n = m.st.snap
  \/ m.at = "z_qm" /\ kind = "rollback" /\ n = RollbackTarget(m.st)

AsksQm(p) == \E kind \in {"snapshot", "delete", "rollback"}, n \in Names \cup {None} :
               Asks(p, kind, n) /\ (QmDone(kind, n) \/ QmError(kind, n))

\* An invocation changes snapshots only by asking qm.
LEMMA StepAsksQm ==
  ASSUME TypeInv, NEW p \in Procs, Step(p)
  PROVE  UNCHANGED <<snaps, born, pending>> \/ AsksQm(p)
  <1>1. /\ proc[p].st.snap \in Names \cup {None} /\ proc[p].todo \subseteq Names
        /\ RollbackTarget(proc[p].st) \in Names \cup {None}
    BY Remembered DEF TypeInv, RollbackTarget
  <1>a. CASE PrepareStep(p)
    <2>1. CASE PrepareSnapshot(p)
      BY <1>1, <2>1 DEF PrepareSnapshot, AsksQm, Asks
    <2>. QED BY <1>a, <2>1 DEF PrepareStep, PrepareLoad, PrepareCapture, PrepareSave, vmVars
  <1>b. CASE ExecuteStep(p)
    BY <1>b DEF ExecuteStep, ExecuteLoad, ExecuteMark, ExecutePlan, ExecuteApply,
                ExecuteReboot, ExecuteVerify, ExecuteSave, RunAfterExecute, vmVars
  <1>c. CASE ValidateStep(p)
    BY <1>c DEF ValidateStep, ValidateLoad, ValidateCheck, ValidateSave, vmVars
  <1>d. CASE RollbackStep(p)
    <2>1. CASE RollbackDelete(p)
      BY <1>1, <2>1 DEF RollbackDelete, AsksQm, Asks, vmVars
    <2>2. CASE RollbackQm(p)
      BY <1>1, <2>2 DEF RollbackQm, AsksQm, Asks
    <2>. QED BY <1>d, <2>1, <2>2
             DEF RollbackStep, RollbackLoad, RollbackList, RollbackStart,
                 RollbackStartFailed, RollbackWait, RollbackFail, RollbackSave, vmVars
  <1>e. CASE CommitStep(p)
    <2>1. CASE CommitDelete(p)
      BY <1>1, <2>1 DEF CommitDelete, AsksQm, Asks
    <2>. QED BY <1>e, <2>1 DEF CommitStep, CommitLoad, CommitSave, vmVars
  <1>f. CASE GCStep(p)
    <2>1. CASE GCDelete(p)
      BY <1>1, <2>1 DEF GCDelete, AsksQm, Asks, vmVars
    <2>. QED BY <1>f, <2>1 DEF GCStep, GCLoad, GCList, vmVars
  <1>g. CASE ResetStep(p)
    <2>1. CASE ResetDelete(p)
      BY <1>1, <2>1 DEF ResetDelete, AsksQm, Asks, vmVars
    <2>2. CASE ResetRollback(p)
      BY <1>1, <2>2 DEF ResetRollback, AsksQm, Asks
    <2>. QED BY <1>g, <2>1, <2>2 DEF ResetStep, ResetLoad, ResetList, ResetRemove, vmVars
  <1>. QED BY <1>a, <1>b, <1>c, <1>d, <1>e, <1>f, <1>g DEF Step

\* An invocation moves nobody's memory but its own.
LEMMA StepMovesOne ==
  ASSUME TypeInv, NEW p \in Procs, Step(p)
  PROVE  \A q \in Procs : q # p => proc'[q] = proc[q]
  <1>. USE DEF Goto, GotoWith, GotoDoing, Exit, ExecuteReturns, ValidateReturns, Record
  <1>1. ProcsOK BY DEF TypeInv
  <1>2. SUFFICES \E m : proc' = [proc EXCEPT ![p] = m]
    BY <1>1 DEF ProcsOK
  <1>a. CASE PrepareStep(p)
    BY <1>a DEF PrepareStep, PrepareLoad, PrepareCapture, PrepareSnapshot, PrepareSave
  <1>b. CASE ExecuteStep(p)
    BY <1>b DEF ExecuteStep, ExecuteLoad, ExecuteMark, ExecutePlan, ExecuteApply,
                ExecuteReboot, ExecuteVerify, ExecuteSave, RunAfterExecute
  <1>c. CASE ValidateStep(p)
    BY <1>c DEF ValidateStep, ValidateLoad, ValidateCheck, ValidateSave
  <1>d. CASE RollbackStep(p)
    BY <1>d DEF RollbackStep, RollbackLoad, RollbackList, RollbackDelete, RollbackQm,
                RollbackStart, RollbackStartFailed, RollbackWait, RollbackFail,
                RollbackSave
  <1>e. CASE CommitStep(p)
    BY <1>e DEF CommitStep, CommitLoad, CommitDelete, CommitSave
  <1>f. CASE GCStep(p)
    BY <1>f DEF GCStep, GCLoad, GCList, GCDelete
  <1>g. CASE ResetStep(p)
    BY <1>g DEF ResetStep, ResetLoad, ResetList, ResetDelete, ResetRollback, ResetRemove
  <1>. QED BY <1>a, <1>b, <1>c, <1>d, <1>e, <1>f, <1>g DEF Step

-----------------------------------------------------------------------------
(* What is cleaned up, whoever does it.                                    *)

\* The work lists of an invocation hold names of the kind it may delete.
WorkInHand(p) ==
  LET m == proc[p] IN
  /\ m.at \in {"p_capture", "p_snap"} => m.st.snap \in UpgradeNames
  /\ m.at = "r_del" => m.todo \subseteq WatchdogNames
  /\ m.at \in {"g_list", "g_del", "z_del"} => m.todo \subseteq UpgradeNames

\* The same of an operation that outlived its caller; a snapshot it still has
\* to take is not there yet.
WorkInv ==
  /\ pending.kind = "delete" => pending.snap \notin UserNames
  /\ pending.kind = "snapshot" => pending.snap \in UpgradeNames /\ ~Exists(pending.snap)
  /\ \A p \in Procs : WorkInHand(p)

\* A delete asked for is of an upgrade snapshot or of a watchdog's.
LEMMA DeletesAreOurs ==
  ASSUME TypeInv, NEW p \in Procs, WorkInHand(p), NEW n,
         Asks(p, "delete", n)
  PROVE  n \notin UserNames
  <1>1. proc[p].st.snap \in UpgradeNames \cup {None}
    BY Remembered DEF TypeInv, State
  <1>. QED BY <1>1, UpgradeAssumption DEF Asks, WorkInHand, UpgradeNames

\* What WorkInv says of the detached operation survives what qm does for an
\* invocation.
LEMMA QmKeepsWork ==
  ASSUME TypeInv, WorkInv, NEW p \in Procs, AsksQm(p)
  PROVE  (/\ pending.kind = "delete" => pending.snap \notin UserNames
          /\ pending.kind = "snapshot" => pending.snap \in UpgradeNames /\ ~Exists(pending.snap))'
  <1>1. PICK kind \in {"snapshot", "delete", "rollback"}, n \in Names \cup {None} :
          Asks(p, kind, n) /\ (QmDone(kind, n) \/ QmError(kind, n))
    BY DEF AsksQm
  <1>2. kind = "delete" => n \notin UserNames
    BY <1>1, DeletesAreOurs DEF WorkInv
  <1>3. CASE QmDone(kind, n)
    <2>1. pending' = NoOp BY <1>3 DEF QmDone, Accepts
    <2>. QED BY <2>1 DEF NoOp
  <1>4. CASE QmError(kind, n)
    <2>1. UNCHANGED snaps BY <1>4 DEF QmError
    <2>2. CASE UNCHANGED pending BY <2>1, <2>2 DEF WorkInv, Exists
    <2>3. CASE pending' = [kind |-> kind, snap |-> n] /\ Accepts([kind |-> kind, snap |-> n])
      <3>1. kind = "snapshot" => n \in UpgradeNames /\ ~Exists(n)
        BY <1>1, <2>3 DEF Accepts, Asks, WorkInv, WorkInHand
      <3>. QED BY <1>2, <2>1, <2>3, <3>1 DEF Exists
    <2>. QED BY <1>4, <2>2, <2>3 DEF QmError
  <1>. QED BY <1>1, <1>3, <1>4

\* Steps at which an invocation holds no work list.
Workless == Labels \ {"p_capture", "p_snap", "r_del", "g_list", "g_del", "z_del"}

\* Nothing is asked of an invocation without a work list.
LEMMA WorklessStep ==
  ASSUME NEW p \in Procs, proc'[p].at \in Workless
  PROVE  WorkInHand(p)'
  BY DEF WorkInHand, Workless

\* A work list that is carried on, or gets shorter.
LEMMA WorkGoes ==
  ASSUME ProcsOK, NEW p \in Procs, NEW label \in {"r_del", "g_del", "z_del"},
         NEW S \in SUBSET Names,
         S \subseteq IF label = "r_del" THEN WatchdogNames ELSE UpgradeNames,
         GotoDoing(p, label, S)
  PROVE  WorkInHand(p)'
  <1>1. proc'[p].at = label /\ proc'[p].todo = S
    BY GotoDoingFields DEF Labels
  <1>. QED BY <1>1 DEF WorkInHand

\* Every step keeps the work list of the invocation that takes it in order.
LEMMA StepKeepsWork ==
  ASSUME TypeInv, NEW p \in Procs, WorkInHand(p), Step(p)
  PROVE  WorkInHand(p)'
  <1>1. ProcsOK BY DEF TypeInv
  <1>2. proc[p].todo \in SUBSET Names BY <1>1, Remembered
  <1>3. ASSUME NEW reached \in Phases \cup {"none"}, Exit(p, reached)
        PROVE  WorkInHand(p)'
    <2>1. proc'[p].at = "idle" BY <1>1, <1>3, ExitMoves
    <2>. QED BY <2>1, WorklessStep DEF Workless, Labels
  <1>4. ASSUME NEW label \in Workless, Goto(p, label) PROVE WorkInHand(p)'
    <2>1. proc'[p].at = label BY <1>1, <1>4, GotoFields DEF Workless
    <2>. QED BY <1>4, <2>1, WorklessStep
  <1>5. ASSUME NEW label \in Workless, NEW st \in State, GotoWith(p, label, st)
        PROVE  WorkInHand(p)'
    <2>1. proc'[p].at = label BY <1>1, <1>5, GotoWithFields DEF Workless
    <2>. QED BY <1>5, <2>1, WorklessStep
  <1>6. /\ proc[p].st \in State /\ file \in State
        /\ \A phase \in Phases : [proc[p].st EXCEPT !.phase = phase] \in State
        /\ \A phase \in Phases : [file EXCEPT !.phase = phase] \in State
        /\ proc[p].st.phase \in Phases /\ file.phase \in Phases
    BY <1>1, Remembered DEF TypeInv, State
  <1>a. CASE PrepareStep(p)
    <2>1. CASE PrepareLoad(p)
      <3>1. [phase |-> "prepared", snap |-> clock] \in State
        BY DEF TypeInv, State, Phases, UpgradeNames
      <3>2. CASE GotoWith(p, "p_capture", [phase |-> "prepared", snap |-> clock])
        <4>1. proc'[p].at = "p_capture" /\ proc'[p].st.snap = clock
          BY <1>1, <3>1, <3>2, GotoWithFields DEF Labels
        <4>. QED BY <4>1 DEF WorkInHand, TypeInv, UpgradeNames
      <3>. QED BY <1>3, <2>1, <3>2 DEF PrepareLoad, Phases
    <2>2. CASE PrepareCapture(p)
      <3>1. CASE Goto(p, "p_snap")
        <4>1. proc'[p].at = "p_snap" /\ proc'[p].st = proc[p].st
          BY <1>1, <3>1, GotoFields DEF Labels
        <4>. QED BY <2>2, <4>1 DEF WorkInHand, PrepareCapture
      <3>. QED BY <1>3, <2>2, <3>1 DEF PrepareCapture, Phases
    <2>3. CASE PrepareSnapshot(p)
      BY <1>3, <1>4, <2>3 DEF PrepareSnapshot, Phases, Workless, Labels
    <2>4. CASE PrepareSave(p)
      BY <1>3, <1>4, <2>4 DEF PrepareSave, Phases, Workless, Labels
    <2>. QED BY <1>a, <2>1, <2>2, <2>3, <2>4 DEF PrepareStep
  <1>b. CASE ExecuteStep(p)
    <2>1. ASSUME ExecuteReturns(p) PROVE WorkInHand(p)'
      BY <1>3, <1>4, <2>1 DEF ExecuteReturns, Workless, Labels
    <2>2. ASSUME NEW phase \in Phases, Record(p, phase) PROVE WorkInHand(p)'
      BY <1>5, <1>6, <2>2 DEF Record, Workless, Labels
    <2>3. CASE ExecuteLoad(p)
      BY <1>3, <1>5, <1>6, <2>1, <2>3 DEF ExecuteLoad, Workless, Labels, Phases
    <2>4. CASE ExecuteMark(p) \/ ExecuteSave(p) \/ RunAfterExecute(p)
      BY <1>4, <2>1, <2>4 DEF ExecuteMark, ExecuteSave, RunAfterExecute, Workless, Labels
    <2>5. CASE ExecutePlan(p) \/ ExecuteApply(p)
      BY <1>4, <2>2, <2>5 DEF ExecutePlan, ExecuteApply, Workless, Labels, Phases
    <2>6. CASE ExecuteReboot(p) \/ ExecuteVerify(p)
      BY <1>4, <2>2, <2>6 DEF ExecuteReboot, ExecuteVerify, Workless, Labels, Phases
    <2>. QED BY <1>b, <2>3, <2>4, <2>5, <2>6 DEF ExecuteStep
  <1>c. CASE ValidateStep(p)
    <2>1. ASSUME NEW phase \in Phases, ValidateReturns(p, phase) PROVE WorkInHand(p)'
      BY <1>3, <1>4, <2>1 DEF ValidateReturns, Workless, Labels
    <2>2. CASE ValidateLoad(p)
      BY <1>3, <1>5, <1>6, <2>1, <2>2 DEF ValidateLoad, Workless, Labels, Phases
    <2>3. CASE ValidateCheck(p)
      <3>1. PICK phase \in Phases :
              \/ Exit(p, "rolled_back")
              \/ GotoWith(p, "v_save", [proc[p].st EXCEPT !.phase = phase])
        BY <2>3 DEF ValidateCheck, selectValidatePhase, Phases
      <3>. QED BY <1>3, <1>5, <1>6, <3>1 DEF Workless, Labels, Phases
    <2>4. CASE ValidateSave(p)
      BY <1>3, <1>6, <2>1, <2>4 DEF ValidateSave
    <2>. QED BY <1>c, <2>2, <2>3, <2>4 DEF ValidateStep
  <1>d. CASE RollbackStep(p)
    <2>1. CASE RollbackLoad(p)
      BY <1>3, <1>5, <1>6, <2>1 DEF RollbackLoad, Workless, Labels, Phases
    <2>2. CASE RollbackList(p)
      <3>1. /\ snapshotsAfter(proc[p].st.snap) \in SUBSET Names
            /\ snapshotsAfter(proc[p].st.snap) \subseteq WatchdogNames
        BY DEF snapshotsAfter, Later, Present
      <3>. QED BY <1>1, <1>3, <1>6, <2>2, <3>1, WorkGoes DEF RollbackList
    <2>3. CASE RollbackDelete(p)
      <3>1. CASE Goto(p, "r_qm") BY <1>4, <3>1 DEF Workless, Labels
      <3>2. ASSUME NEW n \in proc[p].todo, GotoDoing(p, "r_del", proc[p].todo \ {n})
            PROVE  WorkInHand(p)'
        <4>1. proc[p].todo \subseteq WatchdogNames
          BY <2>3 DEF RollbackDelete, WorkInHand
        <4>. QED BY <1>1, <1>2, <3>2, <4>1, WorkGoes
      <3>. QED BY <2>3, <3>1, <3>2 DEF RollbackDelete
    <2>4. CASE RollbackQm(p) \/ RollbackStart(p)
      BY <1>4, <2>4 DEF RollbackQm, RollbackStart, Workless, Labels
    <2>5. CASE RollbackStartFailed(p) \/ RollbackFail(p) \/ RollbackSave(p)
      BY <1>3, <1>6, <2>5 DEF RollbackStartFailed, RollbackFail, RollbackSave, Phases
    <2>6. CASE RollbackWait(p)
      BY <1>4, <1>5, <1>6, <2>6 DEF RollbackWait, Workless, Labels, Phases
    <2>. QED BY <1>d, <2>1, <2>2, <2>3, <2>4, <2>5, <2>6 DEF RollbackStep
  <1>e. CASE CommitStep(p)
    <2>1. CASE CommitLoad(p)
      BY <1>3, <1>5, <1>6, <2>1 DEF CommitLoad, Workless, Labels, Phases
    <2>2. CASE CommitDelete(p) \/ CommitSave(p)
      BY <1>3, <1>4, <2>2 DEF CommitDelete, CommitSave, Workless, Labels
    <2>. QED BY <1>e, <2>1, <2>2 DEF CommitStep
  <1>f. CASE GCStep(p)
    <2>1. CASE GCLoad(p)
      <3>1. PICK readable \in BOOLEAN :
              GotoDoing(p, "g_list", Old \ {activeDeploySnapshot(readable)})
        BY <2>1 DEF GCLoad
      <3>. DEFINE S == Old \ {activeDeploySnapshot(readable)}
      <3>2. S \in SUBSET Names /\ S \subseteq UpgradeNames BY DEF Old, Names
      <3>3. GotoDoing(p, "g_list", S) BY <3>1
      <3>. HIDE DEF S
      <3>4. proc'[p].at = "g_list" /\ proc'[p].todo = S
        BY <1>1, <3>2, <3>3, GotoDoingFields DEF Labels
      <3>. QED BY <3>2, <3>4 DEF WorkInHand
    <2>2. CASE GCList(p)
      <3>1. proc[p].todo \subseteq UpgradeNames BY <2>2 DEF GCList, WorkInHand
      <3>2. proc[p].todo \cap Present \in SUBSET Names BY <1>2
      <3>. QED BY <1>1, <1>3, <2>2, <3>1, <3>2, WorkGoes DEF GCList
    <2>3. CASE GCDelete(p)
      <3>1. proc[p].todo \subseteq UpgradeNames BY <2>3 DEF GCDelete, WorkInHand
      <3>2. ASSUME NEW n \in proc[p].todo, GotoDoing(p, "g_del", proc[p].todo \ {n})
            PROVE  WorkInHand(p)'
        BY <1>1, <1>2, <3>1, <3>2, WorkGoes
      <3>. QED BY <1>3, <2>3, <3>2 DEF GCDelete
    <2>. QED BY <1>f, <2>1, <2>2, <2>3 DEF GCStep
  <1>g. CASE ResetStep(p)
    <2>1. CASE ResetLoad(p)
      BY <1>3, <1>5, <1>6, <2>1 DEF ResetLoad, Workless, Labels
    <2>2. CASE ResetList(p)
      <3>. DEFINE S == (Present \cap UpgradeNames) \ {RollbackTarget(proc[p].st)}
      <3>1. S \in SUBSET Names /\ S \subseteq UpgradeNames BY DEF Present
      <3>2. GotoDoing(p, "z_del", S) \/ Exit(p, "none") BY <2>2 DEF ResetList
      <3>. HIDE DEF S
      <3>. QED BY <1>1, <1>3, <3>1, <3>2, WorkGoes
    <2>3. CASE ResetDelete(p)
      <3>1. proc[p].todo \subseteq UpgradeNames BY <2>3 DEF ResetDelete, WorkInHand
      <3>2. ASSUME NEW n \in proc[p].todo, GotoDoing(p, "z_del", proc[p].todo \ {n})
            PROVE  WorkInHand(p)'
        BY <1>1, <1>2, <3>1, <3>2, WorkGoes
      <3>. QED BY <1>3, <1>4, <2>3, <3>2 DEF ResetDelete, Workless, Labels
    <2>4. CASE ResetRollback(p) \/ ResetRemove(p)
      BY <1>3, <1>4, <2>4 DEF ResetRollback, ResetRemove, Workless, Labels
    <2>. QED BY <1>g, <2>1, <2>2, <2>3, <2>4 DEF ResetStep
  <1>. QED BY <1>a, <1>b, <1>c, <1>d, <1>e, <1>f, <1>g DEF Step

\* What happens to the snapshots when an operation takes effect: it was
\* acceptable, and it is one that this step or an earlier one asked qm for.
Changes(op) ==
  /\ op.kind \in {"snapshot", "delete", "rollback"}
  /\ op.snap \in Names
  /\ IF op.kind = "snapshot" THEN ~Exists(op.snap) ELSE Exists(op.snap)
  /\ Effect(op)

\* Who asked for a snapshot that is being taken: the watchdog, an operator, an
\* earlier invocation, or one that runs.
Wanted(n) == \/ n \in WatchdogNames \cup UserNames
             \/ pending = [kind |-> "snapshot", snap |-> n]
             \/ \E p \in Procs : Asks(p, "snapshot", n)

\* A snapshot is only ever added where there was none, and only ever deleted
\* when it is not an operator's.
LEMMA SnapshotsChange ==
  ASSUME TypeInv, WorkInv, [Next]_vars
  PROVE  \/ UNCHANGED <<snaps, born>>
         \/ \E kind \in {"snapshot", "delete", "rollback"}, n \in Names :
              /\ Changes([kind |-> kind, snap |-> n])
              /\ kind = "delete" => n \notin UserNames
              /\ kind = "snapshot" => Wanted(n)
  <1>. DEFINE Op(kind, n) == [kind |-> kind, snap |-> n]
              Ours(kind, n) == /\ kind = "delete" => n \notin UserNames
                               /\ kind = "snapshot" => Wanted(n)
  <1>1. ASSUME NEW p \in Procs, Step(p)
        PROVE  \/ UNCHANGED <<snaps, born>>
               \/ \E kind \in {"snapshot", "delete", "rollback"}, n \in Names :
                    Changes(Op(kind, n)) /\ Ours(kind, n)
    <2>1. CASE UNCHANGED <<snaps, born, pending>> BY <2>1
    <2>2. CASE AsksQm(p)
      <3>1. PICK kind \in {"snapshot", "delete", "rollback"}, n \in Names \cup {None} :
              Asks(p, kind, n) /\ (QmDone(kind, n) \/ QmError(kind, n))
        BY <2>2 DEF AsksQm
      <3>2. CASE QmError(kind, n) BY <3>2 DEF QmError
      <3>3. CASE QmDone(kind, n)
        <4>1. Accepts(Op(kind, n)) /\ Effect(Op(kind, n)) BY <3>3 DEF QmDone
        <4>2. Ours(kind, n)
          BY <1>1, <3>1, DeletesAreOurs DEF WorkInv, Wanted
        <4>3. kind = "snapshot" => n \in UpgradeNames
          BY <1>1, <3>1 DEF Asks, WorkInv, WorkInHand
        <4>4. n \in Names BY <4>1, <4>3 DEF Accepts, Exists, Names
        <4>5. Changes(Op(kind, n)) BY <4>1, <4>4 DEF Changes, Accepts
        <4>. QED BY <4>2, <4>4, <4>5
      <3>. QED BY <3>1, <3>2, <3>3
    <2>. QED BY <1>1, <2>1, <2>2, StepAsksQm
  <1>2. ASSUME NEW p \in Procs, Crash(p) \/ \E c \in Commands : Invoke(p, c)
        PROVE  UNCHANGED <<snaps, born>>
    BY <1>2 DEF Crash, Invoke, vmVars
  <1>3. CASE DetachedOpEnds
    <2>1. CASE Effect(pending)
      <3>1. pending.kind \in {"snapshot", "delete", "rollback"}
        BY <2>1 DEF Effect
      <3>2. pending.snap \in Names
        BY <3>1 DEF TypeInv, PendingPossible, WorkInv, Exists, Names
      <3>3. Changes(pending)
        BY <2>1, <3>1, <3>2 DEF TypeInv, PendingPossible, WorkInv, Changes
      <3>4. pending = Op(pending.kind, pending.snap) BY DEF TypeInv, VmOK
      <3>5. Ours(pending.kind, pending.snap) BY <3>4 DEF WorkInv, Wanted
      <3>. QED BY <3>1, <3>2, <3>3, <3>4, <3>5
    <2>. QED BY <1>3, <2>1 DEF DetachedOpEnds
  <1>4. ASSUME NEW n \in WatchdogNames \cup UserNames, OtherSnapshot(n)
        PROVE  Changes(Op("snapshot", n)) /\ Ours("snapshot", n)
    BY <1>4 DEF OtherSnapshot, Accepts, Changes, Effect, Names, Wanted
  <1>5. CASE Tick \/ StartGuest \/ UNCHANGED vars
    BY <1>5 DEF Tick, StartGuest, vars, vmVars
  <1>6. CASE \E n \in WatchdogNames \cup UserNames : OtherSnapshot(n)
    BY <1>4, <1>6 DEF Names
  <1>. QED BY <1>1, <1>2, <1>3, <1>5, <1>6 DEF Next, Environment

\* WorkInv survives every step, however many invocations run.
LEMMA WorkInvStep ==
  ASSUME TypeInv, WorkInv, [Next]_vars
  PROVE  WorkInv'
  <1>. DEFINE Detached == /\ pending.kind = "delete" => pending.snap \notin UserNames
                          /\ pending.kind = "snapshot" =>
                               pending.snap \in UpgradeNames /\ ~Exists(pending.snap)
  <1>1. ProcsOK /\ Detached /\ \A p \in Procs : WorkInHand(p)
    BY DEF TypeInv, WorkInv
  <1>2. ASSUME NEW p \in Procs, Step(p) PROVE WorkInv'
    <2>1. Detached'
      <3>1. CASE UNCHANGED <<snaps, born, pending>> BY <1>1, <3>1 DEF Exists
      <3>2. CASE AsksQm(p) BY <1>2, <3>2, QmKeepsWork
      <3>. QED BY <1>2, <3>1, <3>2, StepAsksQm
    <2>2. WorkInHand(p)' BY <1>1, <1>2, StepKeepsWork
    <2>3. \A q \in Procs : q # p => WorkInHand(q)'
      BY <1>1, <1>2, StepMovesOne DEF WorkInHand
    <2>. QED BY <2>1, <2>2, <2>3 DEF WorkInv
  <1>3. ASSUME NEW p \in Procs, Crash(p) \/ \E c \in Commands : Invoke(p, c)
        PROVE  WorkInv'
    <2>1. UNCHANGED <<snaps, pending>> BY <1>3 DEF Crash, Invoke, vmVars
    <2>2. Detached' BY <1>1, <2>1 DEF Exists
    <2>3. proc'[p].at \in Workless
      <3>1. CASE Crash(p) BY <1>1, <3>1 DEF Crash, ProcsOK, Idle, Workless, Labels
      <3>2. ASSUME NEW c \in Commands, Invoke(p, c) PROVE proc'[p].at \in Workless
        <4>1. c \in Verbs BY UpgradeAssumption
        <4>2. Entry[c] \in Workless BY <4>1 DEF Entry, Workless, Labels, Verbs
        <4>3. proc'[p].at = Entry[c] BY <1>1, <3>2 DEF Invoke, ProcsOK, Idle
        <4>. QED BY <4>2, <4>3
      <3>. QED BY <1>3, <3>1, <3>2
    <2>4. \A q \in Procs : q # p => WorkInHand(q)'
      BY <1>1, <1>3 DEF Crash, Invoke, ProcsOK, WorkInHand
    <2>. QED BY <2>2, <2>3, <2>4, WorklessStep DEF WorkInv
  <1>4. CASE Environment
    <2>1. UNCHANGED proc
      BY <1>4 DEF Environment, DetachedOpEnds, Tick, StartGuest, OtherSnapshot
    <2>2. Detached'
      <3>1. CASE DetachedOpEnds \/ (\E n \in WatchdogNames \cup UserNames : OtherSnapshot(n))
        <4>1. pending' = NoOp BY <3>1 DEF DetachedOpEnds, OtherSnapshot, Accepts
        <4>. QED BY <4>1 DEF NoOp
      <3>2. CASE Tick \/ StartGuest
        BY <1>1, <3>2 DEF Tick, StartGuest, vmVars, Exists
      <3>. QED BY <1>4, <3>1, <3>2 DEF Environment
    <2>. QED BY <1>1, <2>1, <2>2 DEF WorkInv, WorkInHand
  <1>5. CASE UNCHANGED vars
    BY <1>1, <1>5 DEF vars, vmVars, WorkInv, WorkInHand, Exists
  <1>. QED BY <1>2, <1>3, <1>4, <1>5 DEF Next

\* WorkInv holds in every reachable state.
LEMMA WorkInvInductive == Spec => []WorkInv
  <1>1. Init => WorkInv
    BY DEF Init, NoOp, Idle, WorkInv, WorkInHand
  <1>2. TypeInv /\ WorkInv /\ [Next]_vars => WorkInv'
    BY WorkInvStep
  <1>. QED BY <1>1, <1>2, TypeInvInductive, PTL DEF Spec

\* A snapshot an operator took by hand is never deleted or replaced, whatever is
\* cleaned up, for any number of invocations running at the same time.
THEOREM UserSnapshotsAlwaysKept == Spec => UserSnapshotsKept
  <1>1. TypeInv /\ WorkInv /\ [Next]_vars
          => \A n \in UserNames : Exists(n) => snaps'[n] = snaps[n]
    <2>. SUFFICES ASSUME TypeInv, WorkInv, [Next]_vars,
                         NEW n \in UserNames, Exists(n)
                  PROVE  snaps'[n] = snaps[n]
      OBVIOUS
    <2>1. CASE UNCHANGED <<snaps, born>> BY <2>1
    <2>2. ASSUME NEW kind \in {"snapshot", "delete", "rollback"}, NEW m \in Names,
                 Changes([kind |-> kind, snap |-> m]),
                 kind = "delete" => m \notin UserNames
          PROVE  snaps'[n] = snaps[n]
      <3>1. snaps \in [Names -> Fw \cup {None}] BY DEF TypeInv, VmOK
      <3>2. CASE kind = "snapshot" /\ Take(m) /\ ~Exists(m)
        BY <3>1, <3>2 DEF Take, Exists
      <3>3. CASE kind = "delete" /\ Remove(m) BY <2>2, <3>1, <3>3 DEF Remove
      <3>4. CASE Restore(m) BY <3>4 DEF Restore
      <3>. QED BY <2>2, <3>2, <3>3, <3>4 DEF Changes, Effect
    <2>. QED BY <2>1, <2>2, SnapshotsChange
  <1>. QED BY <1>1, TypeInvInductive, WorkInvInductive, PTL DEF Spec, UserSnapshotsKept

-----------------------------------------------------------------------------
(* The order in which qm lists the snapshots.                              *)

\* Exactly the snapshots that exist have a position, no two the same, and none
\* lies beyond their number: what makes "taken after the target" meaningful.
BornInv ==
  /\ \A n \in Names : IF Exists(n) THEN born[n] \in 1..Cardinality(Present)
                                   ELSE born[n] = 0
  /\ \A m, n \in Present : born[m] = born[n] => m = n

\* There are finitely many snapshots.
LEMMA PresentFinite == IsFiniteSet(Present) /\ Cardinality(Present) \in Nat
  <1>1. Present \subseteq Names BY DEF Present
  <1>. QED BY <1>1, NamesFinite, FS_Subset, FS_CardinalityType

\* A new snapshot is listed last.
LEMMA TakeKeepsOrder ==
  ASSUME TypeInv, BornInv, NEW n \in Names, ~Exists(n), Take(n)
  PROVE  BornInv'
  <1>1. guest.fw # None BY UpgradeAssumption DEF TypeInv, VmOK
  <1>2. snaps \in [Names -> Fw \cup {None}] /\ born \in [Names -> Nat]
    BY DEF TypeInv, VmOK
  <1>3. Present' = Present \cup {n} /\ n \notin Present
    BY <1>1, <1>2 DEF Take, Present, Exists
  <1>4. Cardinality(Present') = Cardinality(Present) + 1 /\ Cardinality(Present) \in Nat
    BY <1>3, PresentFinite, FS_AddElement
  <1>5. born'[n] = Cardinality(Present) + 1
        /\ \A m \in Names : m # n => born'[m] = born[m]
    BY <1>2, <1>4 DEF Take, Newest
  <1>6. \A m \in Names : Exists(m)' <=> m = n \/ Exists(m)
    BY <1>1, <1>2 DEF Take, Exists
  <1>7. \A m \in Present : born[m] <= Cardinality(Present)
    BY <1>4 DEF BornInv, Present, Exists
  <1>8. \A m \in Names : IF Exists(m)' THEN born'[m] \in 1..Cardinality(Present')
                                       ELSE born'[m] = 0
    BY <1>4, <1>5, <1>6 DEF BornInv
  <1>9. \A l, m \in Present' : born'[l] = born'[m] => l = m
    <2>. SUFFICES ASSUME NEW l \in Present \cup {n}, NEW m \in Present \cup {n},
                         born'[l] = born'[m]
                  PROVE  l = m
      BY <1>3
    <2>1. CASE l = n \/ m = n
      BY <1>2, <1>4, <1>5, <1>7, <2>1 DEF Present
    <2>2. CASE l # n /\ m # n
      BY <1>5, <2>2 DEF BornInv, Present
    <2>. QED BY <2>1, <2>2
  <1>. QED BY <1>8, <1>9 DEF BornInv

\* Deleting a snapshot moves the later ones up and keeps the order of the rest.
LEMMA RemoveKeepsOrder ==
  ASSUME TypeInv, BornInv, NEW n \in Names, Exists(n), Remove(n)
  PROVE  /\ BornInv'
         /\ \A l, m \in Present' : born[l] > born[m] => born'[l] > born'[m]
  <1>1. snaps \in [Names -> Fw \cup {None}] /\ born \in [Names -> Nat]
    BY DEF TypeInv, VmOK
  <1>2. Present' = Present \ {n} /\ n \in Present
    BY <1>1 DEF Remove, Present, Exists
  <1>3. Cardinality(Present') = Cardinality(Present) - 1 /\ Cardinality(Present) \in Nat
    BY <1>2, PresentFinite, FS_RemoveElement
  <1>4. \A m \in Names : born'[m] = IF m = n THEN 0
                                    ELSE IF born[m] > born[n] THEN born[m] - 1
                                    ELSE born[m]
    BY DEF Remove
  <1>5. \A m \in Names : Exists(m)' <=> m # n /\ Exists(m)
    BY <1>1 DEF Remove, Exists
  <1>6. \A m \in Present : /\ m \in Names /\ born[m] \in Nat
                           /\ 1 <= born[m] /\ born[m] <= Cardinality(Present)
                           /\ born[m] = born[n] => m = n
    BY <1>1, <1>2, <1>3 DEF BornInv, Present, Exists
  <1>7. \A m \in Names : IF Exists(m)' THEN born'[m] \in 1..Cardinality(Present')
                                       ELSE born'[m] = 0
    <2>. SUFFICES ASSUME NEW m \in Names
                  PROVE  IF Exists(m)' THEN born'[m] \in 1..Cardinality(Present')
                                       ELSE born'[m] = 0
      OBVIOUS
    <2>1. CASE Exists(m) /\ m # n
      <3>1. m \in Present BY <2>1 DEF Present, Exists
      <3>2. born[m] # born[n] /\ born[m] \in Nat /\ born[n] \in Nat
            /\ 1 <= born[m] /\ born[m] <= Cardinality(Present)
            /\ 1 <= born[n] /\ born[n] <= Cardinality(Present)
        BY <1>2, <1>6, <2>1, <3>1
      <3>. QED BY <1>3, <1>4, <1>5, <2>1, <3>2
    <2>2. CASE ~Exists(m)
      <3>1. born[m] = 0 /\ born[n] \in Nat BY <1>1, <2>2 DEF BornInv
      <3>. QED BY <1>4, <1>5, <2>2, <3>1
    <2>3. CASE m = n BY <1>4, <1>5, <2>3
    <2>. QED BY <2>1, <2>2, <2>3
  <1>8. ASSUME NEW l \in Present \ {n}, NEW m \in Present \ {n}
        PROVE  /\ born'[l] = born'[m] => l = m
               /\ born[l] > born[m] => born'[l] > born'[m]
    <2>1. born[l] \in Nat /\ born[m] \in Nat /\ born[n] \in Nat
          /\ born[l] # born[n] /\ born[m] # born[n] /\ l # n /\ m # n
      BY <1>2, <1>6
    <2>2. /\ born'[l] = IF born[l] > born[n] THEN born[l] - 1 ELSE born[l]
          /\ born'[m] = IF born[m] > born[n] THEN born[m] - 1 ELSE born[m]
      BY <1>4, <1>6, <2>1
    <2>3. born[l] = born[m] => l = m BY DEF BornInv
    <2>. QED BY <2>1, <2>2, <2>3
  <1>. QED BY <1>2, <1>7, <1>8 DEF BornInv

\* BornInv survives every step, however many invocations run.
LEMMA BornInvStep ==
  ASSUME TypeInv, WorkInv, BornInv, [Next]_vars
  PROVE  BornInv'
  <1>1. CASE UNCHANGED <<snaps, born>>
    BY <1>1 DEF BornInv, Present, Exists
  <1>2. ASSUME NEW kind \in {"snapshot", "delete", "rollback"}, NEW n \in Names,
               Changes([kind |-> kind, snap |-> n])
        PROVE  BornInv'
    <2>1. CASE kind = "snapshot" /\ Take(n)
      BY <1>2, <2>1, TakeKeepsOrder DEF Changes
    <2>2. CASE kind = "delete" /\ Remove(n)
      BY <1>2, <2>2, RemoveKeepsOrder DEF Changes
    <2>3. CASE Restore(n) BY <1>1, <2>3 DEF Restore
    <2>. QED BY <1>2, <2>1, <2>2, <2>3 DEF Changes, Effect
  <1>. QED BY <1>1, <1>2, SnapshotsChange

\* The listing order is sound in every reachable state, for any number of
\* invocations.
THEOREM ListingOrderSound == Spec => []BornInv
  <1>1. Init => BornInv
    BY DEF Init, BornInv, Exists, Present
  <1>2. TypeInv /\ WorkInv /\ BornInv /\ [Next]_vars => BornInv'
    BY BornInvStep
  <1>. QED BY <1>1, <1>2, TypeInvInductive, WorkInvInductive, PTL DEF Spec

(***************************************************************************)
(* Part 3.  The baseline of an unreleased cycle is never lost, as long as  *)
(* one invocation runs at a time.  BaselineKept is not inductive: whether it*)
(* survives a step depends on what the invocation read before it, and on the*)
(* qm operation an earlier invocation may have left running.  BaselineInv  *)
(* adds both.                                                              *)
(***************************************************************************)

\* One invocation at a time, whichever it is.
SingleOperator == \A p, q \in Procs : p = q

\* Steps at which InHand asks for nothing.
Quiet == {"idle", "p_load", "x_load", "x_done", "v_load", "r_load", "c_load",
          "g_load", "z_load", "z_qm", "z_rm"}

\* Nothing is asked of an invocation at a quiet step.
LEMMA QuietStep ==
  ASSUME NEW p \in Procs, proc'[p].at \in Quiet
  PROVE  InHand(p)'
  BY DEF InHand, Quiet, Carrying, Updating

-----------------------------------------------------------------------------
(* How BaselineKept and DeletesSpareBaseline survive each kind of step.    *)

Spared == BaselineKept /\ DeletesSpareBaseline

\* Whether the baseline is needed, and how old it is, depends on the file, the
\* clock and on what gc has overlooked.
LEMMA NeededStays ==
  ASSUME UNCHANGED <<file, clock, overlooked>>
  PROVE  /\ Needed' <=> Needed
         /\ Old' = Old
  BY DEF Needed, Old

\* Nothing they mention changes.
LEMMA SparedQuietly ==
  ASSUME Spared, UNCHANGED <<file, clock, overlooked, snaps, pending>>
  PROVE  Spared'
  BY NeededStays DEF Spared, BaselineKept, DeletesSpareBaseline, Exists, Doomed

\* The file is written: an unreleased phase only over an unreleased phase of
\* the same cycle.
LEMMA SparedBySave ==
  ASSUME Spared, UNCHANGED <<snaps, pending, clock, overlooked>>,
         file'.phase \in Unreleased => file.phase \in Unreleased /\ file'.snap = file.snap
  PROVE  Spared'
  BY DEF Spared, BaselineKept, DeletesSpareBaseline, Needed, Old, Exists, Doomed

\* A delete of something else, done, refused or left running.
LEMMA SparedByDelete ==
  ASSUME TypeInv, Spared, NEW n, QmDone("delete", n) \/ QmError("delete", n),
         UNCHANGED <<file, clock, overlooked>>, Needed => n # file.snap
  PROVE  Spared'
  <1>. USE DEF Spared, BaselineKept, DeletesSpareBaseline, Exists, Doomed
  <1>1. CASE QmDone("delete", n)
    <2>1. snaps' = [snaps EXCEPT ![n] = None] /\ UNCHANGED pending
      BY <1>1 DEF QmDone, Effect, Remove
    <2>. QED BY <2>1, NeededStays DEF TypeInv, VmOK
  <1>2. CASE QmError("delete", n)
    <2>1. UNCHANGED snaps /\ (UNCHANGED pending \/ pending' = [kind |-> "delete", snap |-> n])
      BY <1>2 DEF QmError
    <2>. QED BY <2>1, NeededStays
  <1>. QED BY <1>1, <1>2

\* A snapshot or a rollback, done, refused or left running.
LEMMA SparedByOther ==
  ASSUME TypeInv, Spared, NEW n, NEW kind \in {"snapshot", "rollback"},
         QmDone(kind, n) \/ QmError(kind, n),
         UNCHANGED <<file, clock, overlooked>>
  PROVE  Spared'
  <1>. USE DEF Spared, BaselineKept, DeletesSpareBaseline, Exists, Doomed
  <1>1. CASE QmDone(kind, n)
    <2>1. UNCHANGED pending BY <1>1 DEF QmDone
    <2>2. snaps' = [snaps EXCEPT ![n] = guest.fw] \/ UNCHANGED snaps
      BY <1>1 DEF QmDone, Effect, Take, Restore
    <2>3. guest.fw # None BY UpgradeAssumption DEF TypeInv, VmOK
    <2>. QED BY <2>1, <2>2, <2>3, NeededStays DEF TypeInv, VmOK
  <1>2. CASE QmError(kind, n)
    <2>1. UNCHANGED snaps /\ (UNCHANGED pending \/ pending' = [kind |-> kind, snap |-> n])
      BY <1>2 DEF QmError
    <2>. QED BY <2>1, NeededStays
  <1>. QED BY <1>1, <1>2

\* With a single operator it is enough to look at the invocation that moved.
LEMMA OneInHand ==
  ASSUME SingleOperator, NEW p \in Procs, Spared', InHand(p)'
  PROVE  BaselineInv'
  <1>1. \A q \in Procs : q = p BY DEF SingleOperator
  <1>2. \A q \in Procs : InHand(q)' BY <1>1
  <1>. QED BY <1>2 DEF BaselineInv, Spared

-----------------------------------------------------------------------------
(* One lemma per command.                                                  *)

\* prepare: the new baseline exists before the file names it.
LEMMA PrepareSpares ==
  ASSUME TypeInv, BaselineInv, SingleOperator, NEW p \in Procs, PrepareStep(p)
  PROVE  BaselineInv'
  <1>1. Spared /\ InHand(p) BY DEF BaselineInv, Spared
  <1>2. ProcsOK /\ clock \in 1..MaxTime BY DEF TypeInv
  <1>3. "idle" \in Quiet /\ "x_load" \in Quiet BY DEF Quiet
  <1>a. CASE PrepareLoad(p)
    <2>1. Spared' BY <1>1, <1>a, SparedQuietly DEF PrepareLoad, vmVars
    <2>2. CASE GotoWith(p, "p_capture", [phase |-> "prepared", snap |-> clock])
      <3>1. [phase |-> "prepared", snap |-> clock] \in State
        BY <1>2 DEF State, Phases, UpgradeNames
      <3>2. /\ proc'[p].at = "p_capture"
            /\ proc'[p].st = [phase |-> "prepared", snap |-> clock]
        BY <1>2, <2>2, <3>1, GotoWithFields DEF Labels
      <3>3. file.phase \in Unreleased /\ overlooked => clock # file.snap
        BY <1>1, <1>2, UpgradeAssumption
           DEF Spared, BaselineKept, Old, UpgradeNames, TypeInv, State
      <3>4. UNCHANGED <<file, overlooked>> BY <1>a DEF PrepareLoad
      <3>5. InHand(p)'
        BY <1>2, <3>2, <3>3, <3>4 DEF InHand, Carrying, Updating, UpgradeNames
      <3>. QED BY <2>1, <3>5, OneInHand
    <2>3. CASE Exit(p, "empty")
      <3>1. proc'[p].at = "idle" BY <1>2, <2>3, ExitMoves DEF Phases
      <3>. QED BY <1>3, <2>1, <3>1, QuietStep, OneInHand
    <2>. QED BY <1>a, <2>2, <2>3 DEF PrepareLoad
  <1>b. CASE PrepareCapture(p)
    <2>1. Spared' BY <1>1, <1>b, SparedQuietly DEF PrepareCapture, vmVars
    <2>2. CASE Goto(p, "p_snap")
      <3>1. proc'[p].at = "p_snap" /\ proc'[p].st = proc[p].st
        BY <1>2, <2>2, GotoFields DEF Labels
      <3>2. /\ proc[p].st.snap \in UpgradeNames
            /\ file.phase \in Unreleased /\ overlooked => proc[p].st.snap # file.snap
        BY <1>1, <1>b DEF PrepareCapture, InHand
      <3>3. UNCHANGED <<file, overlooked>> BY <1>b DEF PrepareCapture
      <3>4. InHand(p)'
        BY <3>1, <3>2, <3>3 DEF InHand, Carrying, Updating, UpgradeNames
      <3>. QED BY <2>1, <3>4, OneInHand
    <2>3. CASE Exit(p, "empty")
      <3>1. proc'[p].at = "idle" BY <1>2, <2>3, ExitMoves DEF Phases
      <3>. QED BY <1>3, <2>1, <3>1, QuietStep, OneInHand
    <2>. QED BY <1>b, <2>2, <2>3 DEF PrepareCapture
  <1>c. CASE PrepareSnapshot(p)
    <2>1. Spared' BY <1>1, <1>c, SparedByOther DEF PrepareSnapshot
    <2>2. CASE QmDone("snapshot", proc[p].st.snap) /\ Goto(p, "p_save")
      <3>1. proc'[p].at = "p_save" /\ proc'[p].st = proc[p].st
        BY <1>2, <2>2, GotoFields DEF Labels
      <3>2. proc[p].st.snap \in UpgradeNames BY <1>1, <1>c DEF PrepareSnapshot, InHand
      <3>3. /\ snaps' = [snaps EXCEPT ![proc[p].st.snap] = guest.fw]
            /\ pending' = NoOp
        BY <2>2 DEF QmDone, Accepts, Effect, Take
      <3>4. guest.fw # None BY UpgradeAssumption DEF TypeInv, VmOK
      <3>5. Exists(proc[p].st.snap)'
        BY <3>1, <3>2, <3>3, <3>4 DEF Exists, Names, TypeInv, VmOK
      <3>6. InHand(p)'
        BY <3>1, <3>3, <3>5 DEF InHand, Carrying, Updating, Doomed, NoOp, Exists
      <3>. QED BY <2>1, <3>6, OneInHand
    <2>3. CASE QmError("snapshot", proc[p].st.snap) /\ Exit(p, "empty")
      <3>1. proc'[p].at = "idle" BY <1>2, <2>3, ExitMoves DEF Phases
      <3>. QED BY <1>3, <2>1, <3>1, QuietStep, OneInHand
    <2>. QED BY <1>c, <2>2, <2>3 DEF PrepareSnapshot
  <1>d. CASE PrepareSave(p)
    <2>1. Spared'
      <3>1. Exists(proc[p].st.snap) /\ ~Doomed(proc[p].st.snap)
        BY <1>1, <1>d DEF PrepareSave, InHand
      <3>2. UNCHANGED <<snaps, pending>> BY <1>d DEF PrepareSave, vmVars
      <3>3. CASE file' = proc[p].st /\ overlooked' = FALSE
        BY <3>1, <3>2, <3>3
           DEF Spared, BaselineKept, DeletesSpareBaseline, Needed, Exists, Doomed
      <3>4. CASE UNCHANGED <<file, clock, overlooked>>
        BY <1>1, <3>2, <3>4, SparedQuietly
      <3>. QED BY <1>d, <3>2, <3>3, <3>4 DEF PrepareSave, Saved, SaveFailed
    <2>2. proc'[p].at \in {"idle", "x_load"}
      BY <1>2, <1>d, GotoFields, ExitMoves DEF PrepareSave, Labels, Phases
    <2>. QED BY <1>3, <2>1, <2>2, QuietStep, OneInHand
  <1>. QED BY <1>a, <1>b, <1>c, <1>d DEF PrepareStep

\* While the update is under way the cycle stays unreleased.
LEMMA StaysUpdating ==
  ASSUME NEW p \in Procs, InHand(p), proc[p].at \in Updating, UNCHANGED file,
         proc'[p].at \in Updating, proc'[p].st.snap = proc[p].st.snap,
         proc'[p].st.phase \in Unreleased
  PROVE  InHand(p)'
  BY DEF InHand, Carrying, Updating

\* Another step of the update, with the same State.
LEMMA UpdatingGoes ==
  ASSUME ProcsOK, NEW p \in Procs, NEW label \in Updating, InHand(p),
         proc[p].at \in Updating, UNCHANGED file, Goto(p, label)
  PROVE  InHand(p)'
  <1>1. label \in Labels BY DEF Updating, Labels
  <1>2. proc'[p].at = label /\ proc'[p].st = proc[p].st BY <1>1, GotoFields
  <1>3. proc[p].st.phase \in Unreleased BY DEF InHand
  <1>. QED BY <1>2, <1>3, StaysUpdating

\* The outcome of the update is recorded.
LEMMA UpdatingRecords ==
  ASSUME ProcsOK, NEW p \in Procs,
         NEW phase \in {"executed", "execute_failed", "execute_hung"}, InHand(p),
         proc[p].at \in Updating, UNCHANGED file, Record(p, phase)
  PROVE  InHand(p)'
  <1>1. phase \in Phases BY DEF Phases
  <1>2. proc[p].st \in State BY Remembered
  <1>3. proc'[p].at = "x_save" /\ proc'[p].st = [proc[p].st EXCEPT !.phase = phase]
    BY <1>1, RecordMoves
  <1>4. proc'[p].st.snap = proc[p].st.snap /\ proc'[p].st.phase = phase
    BY <1>2, <1>3 DEF State
  <1>5. phase \in Unreleased BY DEF Unreleased
  <1>6. "x_save" \in Updating BY DEF Updating
  <1>. QED BY <1>3, <1>4, <1>5, <1>6, StaysUpdating

\* execute: every phase it writes belongs to the cycle it read.
LEMMA ExecuteSpares ==
  ASSUME TypeInv, BaselineInv, SingleOperator, NEW p \in Procs, ExecuteStep(p)
  PROVE  BaselineInv'
  <1>1. Spared /\ InHand(p) BY DEF BaselineInv, Spared
  <1>2. ProcsOK BY DEF TypeInv
  <1>3. ASSUME ExecuteReturns(p), Spared' PROVE BaselineInv'
    <2>1. proc'[p].at \in Quiet BY <1>2, <1>3, ExecuteReturnsMoves DEF Quiet
    <2>. QED BY <1>3, <2>1, QuietStep, OneInHand
  <1>a. CASE ExecuteLoad(p)
    <2>1. Spared' BY <1>1, <1>a, SparedQuietly DEF ExecuteLoad, vmVars
    <2>2. CASE CanTransition(file.phase, "executing")
               /\ GotoWith(p, "x_mark", [file EXCEPT !.phase = "executing"])
      <3>1. file.phase = "prepared" BY <2>2 DEF CanTransition, allowedTransitions
      <3>2. [file EXCEPT !.phase = "executing"] \in State
        BY DEF TypeInv, State, Phases
      <3>3. /\ proc'[p].at = "x_mark"
            /\ proc'[p].st = [file EXCEPT !.phase = "executing"]
        BY <1>2, <2>2, <3>2, GotoWithFields DEF Labels
      <3>4. proc'[p].st.snap = file.snap /\ proc'[p].st.phase = "executing"
        BY <3>3 DEF TypeInv, State
      <3>5. UNCHANGED file BY <1>a DEF ExecuteLoad
      <3>6. InHand(p)'
        BY <3>1, <3>3, <3>4, <3>5 DEF InHand, Carrying, Updating, Unreleased
      <3>. QED BY <2>1, <3>6, OneInHand
    <2>3. CASE Exit(p, "prepared")
      <3>1. proc'[p].at \in Quiet BY <1>2, <2>3, ExitMoves DEF Quiet, Phases
      <3>. QED BY <2>1, <3>1, QuietStep, OneInHand
    <2>. QED BY <1>3, <1>a, <2>1, <2>2, <2>3 DEF ExecuteLoad
  <1>b. CASE ExecuteMark(p)
    <2>1. proc[p].st.snap = file.snap /\ proc[p].st.phase \in Unreleased
          /\ file.phase \in Unreleased
      BY <1>1, <1>b DEF ExecuteMark, InHand, Carrying, Updating
    <2>2. Spared'
      BY <1>1, <1>b, <2>1, SparedBySave DEF ExecuteMark, Saved, SaveFailed, vmVars
    <2>3. CASE Saved(proc[p].st) /\ Goto(p, "x_plan")
      <3>1. proc'[p].at = "x_plan" /\ proc'[p].st = proc[p].st
        BY <1>2, <2>3, GotoFields DEF Labels
      <3>2. InHand(p)'
        BY <2>1, <2>3, <3>1 DEF InHand, Carrying, Updating, Saved
      <3>. QED BY <2>2, <3>2, OneInHand
    <2>. QED BY <1>3, <1>b, <2>2, <2>3 DEF ExecuteMark
  <1>c. CASE ExecutePlan(p)
    <2>1. Spared' BY <1>1, <1>c, SparedQuietly DEF ExecutePlan, vmVars
    <2>2. proc[p].at \in Updating /\ UNCHANGED file
      BY <1>c DEF ExecutePlan, Updating
    <2>3. InHand(p)'
      BY <1>1, <1>2, <1>c, <2>2, UpdatingGoes, UpdatingRecords DEF ExecutePlan, Updating
    <2>. QED BY <2>1, <2>3, OneInHand
  <1>d. CASE ExecuteApply(p)
    <2>1. Spared' BY <1>1, <1>d, SparedQuietly DEF ExecuteApply
    <2>2. proc[p].at \in Updating /\ UNCHANGED file
      BY <1>d DEF ExecuteApply, Updating
    <2>3. InHand(p)'
      BY <1>1, <1>2, <1>d, <2>2, UpdatingGoes, UpdatingRecords DEF ExecuteApply, Updating
    <2>. QED BY <2>1, <2>3, OneInHand
  <1>e. CASE ExecuteReboot(p)
    <2>1. Spared' BY <1>1, <1>e, SparedQuietly DEF ExecuteReboot
    <2>2. proc[p].at \in Updating /\ UNCHANGED file
      BY <1>e DEF ExecuteReboot, Updating
    <2>3. InHand(p)'
      BY <1>1, <1>2, <1>e, <2>2, UpdatingGoes, UpdatingRecords DEF ExecuteReboot, Updating
    <2>. QED BY <2>1, <2>3, OneInHand
  <1>f. CASE ExecuteVerify(p)
    <2>1. Spared' BY <1>1, <1>f, SparedQuietly DEF ExecuteVerify, vmVars
    <2>2. proc[p].at \in Updating /\ UNCHANGED file
      BY <1>f DEF ExecuteVerify, Updating
    <2>3. InHand(p)'
      BY <1>1, <1>2, <1>f, <2>2, UpdatingRecords DEF ExecuteVerify
    <2>. QED BY <2>1, <2>3, OneInHand
  <1>g. CASE ExecuteSave(p)
    <2>1. proc[p].st.snap = file.snap /\ file.phase \in Unreleased
      BY <1>1, <1>g DEF ExecuteSave, InHand, Carrying, Updating
    <2>2. Spared'
      BY <1>1, <1>g, <2>1, SparedBySave DEF ExecuteSave, Saved, SaveFailed, vmVars
    <2>. QED BY <1>3, <1>g, <2>2 DEF ExecuteSave
  <1>h. CASE RunAfterExecute(p)
    <2>1. Spared' BY <1>1, <1>h, SparedQuietly DEF RunAfterExecute, vmVars
    <2>2. proc'[p].at \in Quiet
      BY <1>2, <1>h, GotoFields DEF RunAfterExecute, Labels, Quiet
    <2>. QED BY <2>1, <2>2, QuietStep, OneInHand
  <1>. QED BY <1>a, <1>b, <1>c, <1>d, <1>e, <1>f, <1>g, <1>h DEF ExecuteStep

\* validate: a rolled-back cycle never becomes unreleased again.
LEMMA ValidateSpares ==
  ASSUME TypeInv, BaselineInv, SingleOperator, NEW p \in Procs, ValidateStep(p)
  PROVE  BaselineInv'
  <1>1. Spared /\ InHand(p) BY DEF BaselineInv, Spared
  <1>2. ProcsOK BY DEF TypeInv
  <1>3. ASSUME NEW phase \in Phases, ValidateReturns(p, phase), Spared'
        PROVE  BaselineInv'
    <2>1. proc'[p].at \in Quiet BY <1>2, <1>3, ValidateReturnsMoves DEF Quiet
    <2>. QED BY <1>3, <2>1, QuietStep, OneInHand
  <1>4. ASSUME NEW phase \in Phases, Exit(p, phase), Spared' PROVE BaselineInv'
    <2>1. proc'[p].at \in Quiet BY <1>2, <1>4, ExitMoves DEF Quiet
    <2>. QED BY <1>4, <2>1, QuietStep, OneInHand
  <1>a. CASE ValidateLoad(p)
    <2>1. Spared' BY <1>1, <1>a, SparedQuietly DEF ValidateLoad, vmVars
    <2>2. CASE validateAllowedFrom(file.phase) /\ GotoWith(p, "v_check", file)
      <3>1. proc'[p].at = "v_check" /\ proc'[p].st = file
        BY <1>2, <2>2, GotoWithFields DEF Labels, TypeInv
      <3>2. UNCHANGED file BY <1>a DEF ValidateLoad
      <3>3. InHand(p)' BY <2>2, <3>1, <3>2 DEF InHand, Carrying, Updating
      <3>. QED BY <2>1, <3>3, OneInHand
    <2>3. file.phase \in Phases /\ "empty" \in Phases BY DEF TypeInv, State, Phases
    <2>. QED BY <1>3, <1>4, <1>a, <2>1, <2>2, <2>3 DEF ValidateLoad
  <1>b. CASE ValidateCheck(p)
    <2>1. Spared' BY <1>1, <1>b, SparedQuietly DEF ValidateCheck, vmVars
    <2>2. PICK phase \in {"validated_pass", "validated_partial", "validated_fail"} :
            IF proc[p].st.phase = "rolled_back" /\ phase # "validated_pass"
            THEN Exit(p, "rolled_back")
            ELSE GotoWith(p, "v_save", [proc[p].st EXCEPT !.phase = phase])
      BY <1>b DEF ValidateCheck, selectValidatePhase
    <2>3. CASE /\ proc[p].st.phase # "rolled_back" \/ phase = "validated_pass"
               /\ GotoWith(p, "v_save", [proc[p].st EXCEPT !.phase = phase])
      <3>. DEFINE st == [proc[p].st EXCEPT !.phase = phase]
      <3>1. proc[p].st \in State BY <1>2, Remembered
      <3>2. st \in State /\ st.snap = proc[p].st.snap /\ st.phase = phase
        BY <3>1 DEF State, Phases
      <3>3. proc'[p].at = "v_save" /\ proc'[p].st = st
        <4>. HIDE DEF st
        <4>. QED BY <1>2, <2>3, <3>2, GotoWithFields DEF Labels, st
      <3>4. /\ proc[p].st.snap = file.snap /\ UNCHANGED file
            /\ proc[p].st.phase \in Unreleased => file.phase \in Unreleased
            /\ validateAllowedFrom(proc[p].st.phase)
        BY <1>1, <1>b DEF ValidateCheck, InHand, Carrying
      <3>5. phase \in Unreleased => file.phase \in Unreleased
        BY <2>3, <3>4 DEF validateAllowedFrom, Unreleased
      <3>6. InHand(p)'
        <4>. HIDE DEF st
        <4>. QED BY <3>2, <3>3, <3>4, <3>5 DEF InHand, Carrying, Updating
      <3>. QED BY <2>1, <3>6, OneInHand
    <2>4. CASE Exit(p, "rolled_back")
      BY <1>4, <2>1, <2>4 DEF Phases
    <2>. QED BY <2>2, <2>3, <2>4
  <1>c. CASE ValidateSave(p)
    <2>1. /\ proc[p].st.snap = file.snap
          /\ proc[p].st.phase \in Unreleased => file.phase \in Unreleased
      BY <1>1, <1>c DEF ValidateSave, InHand, Carrying
    <2>2. Spared'
      BY <1>1, <1>c, <2>1, SparedBySave DEF ValidateSave, Saved, SaveFailed, vmVars
    <2>3. proc[p].st.phase \in Phases BY <1>2, Remembered
    <2>. QED BY <1>3, <1>4, <1>c, <2>2, <2>3 DEF ValidateSave
  <1>. QED BY <1>a, <1>b, <1>c DEF ValidateStep

RollingBack == {"r_list", "r_qm", "r_start", "r_startfail", "r_wait", "r_fail",
                "r_save"}

\* A rollback keeps hold of the cycle it read.
LEMMA StaysRollingBack ==
  ASSUME NEW p \in Procs, InHand(p), proc[p].at \in RollingBack \cup {"r_del"},
         UNCHANGED file, proc'[p].at \in RollingBack,
         proc'[p].st.snap = proc[p].st.snap,
         proc'[p].st.phase \in Unreleased => proc[p].st.phase \in Unreleased
  PROVE  InHand(p)'
  BY DEF InHand, Carrying, Updating, RollingBack

\* The next step of a rollback, with the same State.
LEMMA RollingBackGoes ==
  ASSUME ProcsOK, NEW p \in Procs, NEW label \in RollingBack, InHand(p),
         proc[p].at \in RollingBack \cup {"r_del"}, UNCHANGED file, Goto(p, label)
  PROVE  InHand(p)'
  <1>1. label \in Labels BY DEF RollingBack, Labels
  <1>2. proc'[p].at = label /\ proc'[p].st = proc[p].st BY <1>1, GotoFields
  <1>. QED BY <1>2, StaysRollingBack

\* rollback: it deletes the watchdog's snapshots only, and never writes an
\* unreleased phase.
LEMMA RollbackSpares ==
  ASSUME TypeInv, BaselineInv, SingleOperator, NEW p \in Procs, RollbackStep(p)
  PROVE  BaselineInv'
  <1>1. Spared /\ InHand(p) BY DEF BaselineInv, Spared
  <1>2. ProcsOK BY DEF TypeInv
  <1>3. ASSUME NEW phase \in Phases, Exit(p, phase), Spared' PROVE BaselineInv'
    <2>1. proc'[p].at \in Quiet BY <1>2, <1>3, ExitMoves DEF Quiet
    <2>. QED BY <1>3, <2>1, QuietStep, OneInHand
  <1>4. proc[p].st.phase \in Phases /\ proc[p].st \in State BY <1>2, Remembered
  <1>a. CASE RollbackLoad(p)
    <2>1. Spared' BY <1>1, <1>a, SparedQuietly DEF RollbackLoad, vmVars
    <2>2. CASE GotoWith(p, "r_list", file)
      <3>1. proc'[p].at = "r_list" /\ proc'[p].st = file
        BY <1>2, <2>2, GotoWithFields DEF Labels, TypeInv
      <3>2. UNCHANGED file BY <1>a DEF RollbackLoad
      <3>3. InHand(p)' BY <3>1, <3>2 DEF InHand, Carrying, Updating
      <3>. QED BY <2>1, <3>3, OneInHand
    <2>3. file.phase \in Phases /\ "empty" \in Phases BY DEF TypeInv, State, Phases
    <2>. QED BY <1>3, <1>a, <2>1, <2>2, <2>3 DEF RollbackLoad
  <1>b. CASE RollbackList(p)
    <2>1. Spared' BY <1>1, <1>b, SparedQuietly DEF RollbackList, vmVars
    <2>2. CASE GotoDoing(p, "r_del", snapshotsAfter(proc[p].st.snap))
      <3>1. /\ snapshotsAfter(proc[p].st.snap) \in SUBSET Names
            /\ snapshotsAfter(proc[p].st.snap) \subseteq WatchdogNames
        BY DEF snapshotsAfter, Later, Present
      <3>2. /\ proc'[p].at = "r_del" /\ proc'[p].st = proc[p].st
            /\ proc'[p].todo = snapshotsAfter(proc[p].st.snap)
        BY <1>2, <2>2, <3>1, GotoDoingFields DEF Labels
      <3>3. InHand(p)'
        BY <1>1, <1>b, <3>1, <3>2 DEF RollbackList, InHand, Carrying, Updating
      <3>. QED BY <2>1, <3>3, OneInHand
    <2>. QED BY <1>3, <1>4, <1>b, <2>1, <2>2 DEF RollbackList
  <1>c. CASE RollbackDelete(p)
    <2>1. proc[p].todo \subseteq WatchdogNames /\ proc[p].at = "r_del"
      BY <1>1, <1>c DEF RollbackDelete, InHand
    <2>2. CASE Goto(p, "r_qm") /\ UNCHANGED vmVars
      <3>1. Spared' BY <1>1, <1>c, <2>2, SparedQuietly DEF RollbackDelete, vmVars
      <3>2. InHand(p)'
        BY <1>1, <1>2, <1>c, <2>1, <2>2, RollingBackGoes DEF RollbackDelete, RollingBack
      <3>. QED BY <3>1, <3>2, OneInHand
    <2>3. CASE \E n \in proc[p].todo :
                 /\ QmDone("delete", n) \/ QmError("delete", n)
                 /\ GotoDoing(p, "r_del", proc[p].todo \ {n})
      <3>1. PICK n \in proc[p].todo :
                 /\ QmDone("delete", n) \/ QmError("delete", n)
                 /\ GotoDoing(p, "r_del", proc[p].todo \ {n})
        BY <2>3
      <3>2. n # file.snap
        BY <2>1, UpgradeAssumption DEF TypeInv, State, UpgradeNames
      <3>3. UNCHANGED <<file, clock, overlooked>> BY <1>c DEF RollbackDelete
      <3>4. Spared' BY <1>1, <3>1, <3>2, <3>3, SparedByDelete
      <3>5. proc[p].todo \ {n} \in SUBSET Names BY <1>2, Remembered
      <3>6. /\ proc'[p].at = "r_del" /\ proc'[p].st = proc[p].st
            /\ proc'[p].todo = proc[p].todo \ {n}
        BY <1>2, <3>1, <3>5, GotoDoingFields DEF Labels
      <3>7. InHand(p)'
        BY <1>1, <2>1, <3>3, <3>6 DEF InHand, Carrying, Updating
      <3>. QED BY <3>4, <3>7, OneInHand
    <2>. QED BY <1>c, <2>2, <2>3 DEF RollbackDelete
  <1>d. CASE RollbackQm(p)
    <2>1. Spared' BY <1>1, <1>d, SparedByOther DEF RollbackQm
    <2>2. InHand(p)'
      BY <1>1, <1>2, <1>d, RollingBackGoes DEF RollbackQm, RollingBack
    <2>. QED BY <2>1, <2>2, OneInHand
  <1>e. CASE RollbackStart(p)
    <2>1. Spared' BY <1>1, <1>e, SparedQuietly DEF RollbackStart
    <2>2. InHand(p)'
      BY <1>1, <1>2, <1>e, RollingBackGoes DEF RollbackStart, RollingBack
    <2>. QED BY <2>1, <2>2, OneInHand
  <1>f. CASE RollbackStartFailed(p)
    <2>1. file' = file \/ file'.phase = "rollback_failed"
      BY <1>4, <1>f DEF RollbackStartFailed, Saved, SaveFailed, State
    <2>2. Spared'
      BY <1>1, <1>f, <2>1, SparedBySave DEF RollbackStartFailed, vmVars, Unreleased
    <2>. QED BY <1>3, <1>4, <1>f, <2>2 DEF RollbackStartFailed
  <1>g. CASE RollbackWait(p)
    <2>1. Spared' BY <1>1, <1>g, SparedQuietly DEF RollbackWait, vmVars
    <2>2. CASE GotoWith(p, "r_save", [proc[p].st EXCEPT !.phase = "rolled_back"])
      <3>. DEFINE st == [proc[p].st EXCEPT !.phase = "rolled_back"]
      <3>1. st \in State /\ st.snap = proc[p].st.snap /\ st.phase = "rolled_back"
        BY <1>4 DEF State, Phases
      <3>2. proc'[p].at = "r_save" /\ proc'[p].st = st
        <4>. HIDE DEF st
        <4>. QED BY <1>2, <2>2, <3>1, GotoWithFields DEF Labels, st
      <3>3. UNCHANGED file /\ proc[p].at = "r_wait" BY <1>g DEF RollbackWait
      <3>4. InHand(p)'
        <4>. HIDE DEF st
        <4>. QED BY <1>1, <3>1, <3>2, <3>3, StaysRollingBack DEF RollingBack, Unreleased
      <3>. QED BY <2>1, <3>4, OneInHand
    <2>3. CASE Goto(p, "r_fail")
      <3>1. InHand(p)'
        BY <1>1, <1>2, <1>g, <2>3, RollingBackGoes DEF RollbackWait, RollingBack
      <3>. QED BY <2>1, <3>1, OneInHand
    <2>. QED BY <1>g, <2>2, <2>3 DEF RollbackWait
  <1>h. CASE RollbackFail(p)
    <2>1. file' = file \/ file'.phase = "rollback_failed"
      BY <1>4, <1>h DEF RollbackFail, Saved, SaveFailed, State
    <2>2. Spared'
      BY <1>1, <1>h, <2>1, SparedBySave DEF RollbackFail, vmVars, Unreleased
    <2>. QED BY <1>3, <1>h, <2>2 DEF RollbackFail, Phases
  <1>i. CASE RollbackSave(p)
    <2>1. /\ proc[p].st.snap = file.snap
          /\ proc[p].st.phase \in Unreleased => file.phase \in Unreleased
      BY <1>1, <1>i DEF RollbackSave, InHand, Carrying
    <2>2. Spared'
      BY <1>1, <1>i, <2>1, SparedBySave DEF RollbackSave, Saved, SaveFailed, vmVars
    <2>. QED BY <1>3, <1>i, <2>2 DEF RollbackSave, Phases
  <1>. QED BY <1>a, <1>b, <1>c, <1>d, <1>e, <1>f, <1>g, <1>h, <1>i DEF RollbackStep

\* commit: it deletes the baseline of a released cycle only.
LEMMA CommitSpares ==
  ASSUME TypeInv, BaselineInv, SingleOperator, NEW p \in Procs, CommitStep(p)
  PROVE  BaselineInv'
  <1>1. Spared /\ InHand(p) BY DEF BaselineInv, Spared
  <1>2. ProcsOK BY DEF TypeInv
  <1>3. ASSUME Exit(p, "none"), Spared' PROVE BaselineInv'
    <2>1. proc'[p].at \in Quiet BY <1>2, <1>3, ExitMoves DEF Quiet
    <2>. QED BY <1>3, <2>1, QuietStep, OneInHand
  <1>a. CASE CommitLoad(p)
    <2>1. Spared' BY <1>1, <1>a, SparedQuietly DEF CommitLoad, vmVars
    <2>2. ASSUME commitAllowedFrom(file.phase), NEW label \in {"c_save", "c_del"},
                 GotoWith(p, label, [file EXCEPT !.phase = "committed"])
          PROVE  BaselineInv'
      <3>1. [file EXCEPT !.phase = "committed"] \in State BY DEF TypeInv, State, Phases
      <3>2. label \in Labels BY DEF Labels
      <3>3. proc'[p].at = label /\ proc'[p].st = [file EXCEPT !.phase = "committed"]
        BY <1>2, <2>2, <3>1, <3>2, GotoWithFields
      <3>4. proc'[p].st.phase = "committed" BY <3>3 DEF TypeInv, State
      <3>5. file.phase \notin Unreleased BY <2>2 DEF commitAllowedFrom, Unreleased
      <3>6. UNCHANGED file BY <1>a DEF CommitLoad
      <3>7. InHand(p)' BY <3>3, <3>4, <3>5, <3>6 DEF InHand, Carrying, Updating
      <3>. QED BY <2>1, <3>7, OneInHand
    <2>. QED BY <1>3, <1>a, <2>1, <2>2 DEF CommitLoad
  <1>b. CASE CommitDelete(p)
    <2>1. file.phase \notin Unreleased /\ proc[p].st.phase = "committed"
      BY <1>1, <1>b DEF CommitDelete, InHand
    <2>2. Spared' BY <1>1, <1>b, <2>1, SparedByDelete DEF CommitDelete, Needed
    <2>3. CASE Goto(p, "c_save")
      <3>1. proc'[p].at = "c_save" /\ proc'[p].st = proc[p].st
        BY <1>2, <2>3, GotoFields DEF Labels
      <3>2. InHand(p)'
        BY <1>b, <2>1, <3>1 DEF CommitDelete, InHand, Carrying, Updating
      <3>. QED BY <2>2, <3>2, OneInHand
    <2>. QED BY <1>3, <1>b, <2>2, <2>3 DEF CommitDelete
  <1>c. CASE CommitSave(p)
    <2>1. proc[p].st.phase = "committed" BY <1>1, <1>c DEF CommitSave, InHand
    <2>2. Spared'
      BY <1>1, <1>c, <2>1, SparedBySave
         DEF CommitSave, Saved, SaveFailed, vmVars, Unreleased
    <2>. QED BY <1>3, <1>c, <2>2 DEF CommitSave
  <1>. QED BY <1>a, <1>b, <1>c DEF CommitStep

\* gc: the recorded snapshot of an unreleased cycle is on no work list of its.
LEMMA GCSpares ==
  ASSUME TypeInv, BaselineInv, SingleOperator, NEW p \in Procs, GCStep(p)
  PROVE  BaselineInv'
  <1>1. Spared /\ InHand(p) BY DEF BaselineInv, Spared
  <1>2. ProcsOK BY DEF TypeInv
  <1>3. ASSUME Exit(p, "none"), Spared' PROVE BaselineInv'
    <2>1. proc'[p].at \in Quiet BY <1>2, <1>3, ExitMoves DEF Quiet
    <2>. QED BY <1>3, <2>1, QuietStep, OneInHand
  <1>4. ASSUME NEW label \in {"g_list", "g_del"}, NEW S \in SUBSET Names,
               GotoDoing(p, label, S), UNCHANGED file, Spared',
               Needed' => file.snap \notin S
        PROVE  BaselineInv'
    <2>1. proc'[p].at = label /\ proc'[p].todo = S
      BY <1>2, <1>4, GotoDoingFields DEF Labels
    <2>2. InHand(p)' BY <1>4, <2>1 DEF InHand, Carrying, Updating
    <2>. QED BY <1>4, <2>2, OneInHand
  <1>5. proc[p].todo \in SUBSET Names BY <1>2, Remembered
  <1>a. CASE GCLoad(p)
    <2>1. PICK readable \in BOOLEAN :
            /\ GotoDoing(p, "g_list", Old \ {activeDeploySnapshot(readable)})
            /\ overlooked' = (overlooked \/ (~readable /\ activeDeploySnapshot(TRUE) \in Old))
      BY <1>a DEF GCLoad
    <2>2. UNCHANGED <<file, clock, snaps, pending>> BY <1>a DEF GCLoad, vmVars
    <2>. DEFINE S == Old \ {activeDeploySnapshot(readable)}
    <2>3. S \in SUBSET Names BY DEF Old, Names
    <2>4. Needed' => Needed BY <2>1, <2>2 DEF Needed
    <2>5. file.phase \in Unreleased => activeDeploySnapshot(TRUE) = file.snap
      BY DEF activeDeploySnapshot, gcUnprotected, Unreleased
    <2>6. Spared'
      <3>1. Old' = Old BY <2>2 DEF Old
      <3>. QED BY <1>1, <2>1, <2>2, <2>4, <2>5, <3>1
               DEF Spared, BaselineKept, DeletesSpareBaseline, Needed, Exists, Doomed
    <2>7. Needed' => file.snap \notin S
      <3>1. CASE readable
        <4>1. activeDeploySnapshot(readable) = activeDeploySnapshot(TRUE)
          BY <3>1 DEF activeDeploySnapshot
        <4>. QED BY <2>2, <2>5, <4>1 DEF Needed
      <3>2. CASE ~readable BY <2>1, <2>2, <2>5, <3>2 DEF Needed
      <3>. QED BY <3>1, <3>2
    <2>8. GotoDoing(p, "g_list", S) BY <2>1
    <2>. HIDE DEF S
    <2>. QED BY <1>4, <2>2, <2>3, <2>6, <2>7, <2>8
  <1>b. CASE GCList(p)
    <2>1. Spared' BY <1>1, <1>b, SparedQuietly DEF GCList, vmVars
    <2>2. UNCHANGED file /\ (Needed' => file.snap \notin proc[p].todo)
      BY <1>1, <1>b, NeededStays DEF GCList, InHand
    <2>3. proc[p].todo \cap Present \in SUBSET Names BY <1>5
    <2>4. GotoDoing(p, "g_del", proc[p].todo \cap Present) \/ Exit(p, "none")
      BY <1>b DEF GCList
    <2>. QED BY <1>3, <1>4, <2>1, <2>2, <2>3, <2>4
  <1>c. CASE GCDelete(p)
    <2>1. UNCHANGED <<file, clock, overlooked>> /\ (Needed => file.snap \notin proc[p].todo)
      BY <1>1, <1>c DEF GCDelete, InHand
    <2>n. Needed' <=> Needed BY <2>1, NeededStays
    <2>2. CASE Exit(p, "none") /\ UNCHANGED vmVars
      <3>1. Spared' BY <1>1, <2>1, <2>2, SparedQuietly DEF vmVars
      <3>. QED BY <1>3, <2>2, <3>1
    <2>3. ASSUME NEW n \in proc[p].todo, QmDone("delete", n) \/ QmError("delete", n),
                 GotoDoing(p, "g_del", proc[p].todo \ {n})
          PROVE  BaselineInv'
      <3>1. Spared' BY <1>1, <2>1, <2>3, SparedByDelete
      <3>2. proc[p].todo \ {n} \in SUBSET Names BY <1>5
      <3>. QED BY <1>4, <2>1, <2>3, <2>n, <3>1, <3>2
    <2>. QED BY <1>c, <2>2, <2>3 DEF GCDelete
  <1>. QED BY <1>a, <1>b, <1>c DEF GCStep

\* reset: it deletes every upgrade snapshot but the baseline it rolls back to,
\* and the file goes away last.
LEMMA ResetSpares ==
  ASSUME TypeInv, BaselineInv, SingleOperator, NEW p \in Procs, ResetStep(p)
  PROVE  BaselineInv'
  <1>1. Spared /\ InHand(p) BY DEF BaselineInv, Spared
  <1>2. ProcsOK BY DEF TypeInv
  <1>3. ASSUME Exit(p, "none"), Spared' PROVE BaselineInv'
    <2>1. proc'[p].at \in Quiet BY <1>2, <1>3, ExitMoves DEF Quiet
    <2>. QED BY <1>3, <2>1, QuietStep, OneInHand
  <1>4. ASSUME NEW S \in SUBSET Names, GotoDoing(p, "z_del", S), UNCHANGED file,
               Spared', Needed' => file.snap \notin S
        PROVE  BaselineInv'
    <2>1. proc'[p].at = "z_del" /\ proc'[p].todo = S
      BY <1>2, <1>4, GotoDoingFields DEF Labels
    <2>2. InHand(p)' BY <1>4, <2>1 DEF InHand, Carrying, Updating
    <2>. QED BY <1>4, <2>2, OneInHand
  <1>5. ASSUME NEW label \in {"z_qm", "z_rm"}, Goto(p, label), Spared'
        PROVE  BaselineInv'
    <2>1. proc'[p].at \in Quiet
      BY <1>2, <1>5, GotoFields DEF Labels, Quiet
    <2>. QED BY <1>5, <2>1, QuietStep, OneInHand
  <1>6. proc[p].todo \in SUBSET Names BY <1>2, Remembered
  <1>a. CASE ResetLoad(p)
    <2>1. Spared' BY <1>1, <1>a, SparedQuietly DEF ResetLoad, vmVars
    <2>2. CASE GotoWith(p, "z_list", file)
      <3>1. UNCHANGED file BY <1>a DEF ResetLoad
      <3>2. proc'[p].at = "z_list" /\ proc'[p].st = file
        BY <1>2, <2>2, GotoWithFields DEF Labels, TypeInv
      <3>3. InHand(p)' BY <3>1, <3>2 DEF InHand, Carrying, Updating
      <3>. QED BY <2>1, <3>3, OneInHand
    <2>. QED BY <1>3, <1>a, <2>1, <2>2 DEF ResetLoad
  <1>b. CASE ResetList(p)
    <2>. DEFINE S == (Present \cap UpgradeNames) \ {RollbackTarget(proc[p].st)}
    <2>1. Spared' BY <1>1, <1>b, SparedQuietly DEF ResetList, vmVars
    <2>2. S \in SUBSET Names BY DEF Present
    <2>3. proc[p].st = file BY <1>1, <1>b DEF ResetList, InHand
    <2>4. Needed' => file.snap \notin S
      BY <1>b, <2>3 DEF ResetList, Needed, RollbackTarget, Unreleased
    <2>5. UNCHANGED file /\ (GotoDoing(p, "z_del", S) \/ Exit(p, "none"))
      BY <1>b DEF ResetList
    <2>. HIDE DEF S
    <2>. QED BY <1>3, <1>4, <2>1, <2>2, <2>4, <2>5
  <1>c. CASE ResetDelete(p)
    <2>1. UNCHANGED <<file, clock, overlooked>> /\ (Needed => file.snap \notin proc[p].todo)
      BY <1>1, <1>c DEF ResetDelete, InHand
    <2>n. Needed' <=> Needed BY <2>1, NeededStays
    <2>2. CASE proc[p].todo = {}
      <3>1. Spared' BY <1>1, <1>c, <2>1, <2>2, SparedQuietly DEF ResetDelete, vmVars
      <3>. QED BY <1>5, <1>c, <2>2, <3>1 DEF ResetDelete
    <2>3. ASSUME NEW n \in proc[p].todo, QmDone("delete", n) \/ QmError("delete", n),
                 GotoDoing(p, "z_del", proc[p].todo \ {n}) \/ Exit(p, "none")
          PROVE  BaselineInv'
      <3>1. Spared' BY <1>1, <2>1, <2>3, SparedByDelete
      <3>2. proc[p].todo \ {n} \in SUBSET Names BY <1>6
      <3>. QED BY <1>3, <1>4, <2>1, <2>3, <2>n, <3>1, <3>2
    <2>. QED BY <1>c, <2>2, <2>3 DEF ResetDelete
  <1>d. CASE ResetRollback(p)
    <2>1. Spared' BY <1>1, <1>d, SparedByOther DEF ResetRollback
    <2>. QED BY <1>3, <1>5, <1>d, <2>1 DEF ResetRollback
  <1>e. CASE ResetRemove(p)
    <2>1. Spared'
      <3>1. UNCHANGED <<snaps, pending, clock>> BY <1>e DEF ResetRemove, vmVars
      <3>2. CASE file' = EmptyState
        <4>1. file'.phase \notin Unreleased BY <3>2 DEF EmptyState, Unreleased
        <4>. QED BY <4>1 DEF Spared, BaselineKept, DeletesSpareBaseline, Needed
      <3>3. CASE UNCHANGED <<file, overlooked>> BY <1>1, <3>1, <3>3, SparedQuietly
      <3>. QED BY <1>e, <3>2, <3>3 DEF ResetRemove, SaveFailed
    <2>. QED BY <1>3, <1>e, <2>1 DEF ResetRemove
  <1>. QED BY <1>a, <1>b, <1>c, <1>d, <1>e DEF ResetStep

\* An invocation that starts or dies holds nothing yet, or nothing any more.
LEMMA InvocationSpares ==
  ASSUME TypeInv, BaselineInv, SingleOperator, NEW p \in Procs,
         Crash(p) \/ \E c \in Commands : Invoke(p, c)
  PROVE  BaselineInv'
  <1>1. Spared BY DEF BaselineInv, Spared
  <1>2. UNCHANGED <<file, clock, overlooked, snaps, pending>>
    BY DEF Crash, Invoke, vmVars
  <1>3. Spared' BY <1>1, <1>2, SparedQuietly
  <1>4. proc'[p].at \in Quiet
    <2>1. CASE Crash(p) BY <2>1 DEF Crash, TypeInv, ProcsOK, Idle, Quiet
    <2>2. ASSUME NEW c \in Commands, Invoke(p, c) PROVE proc'[p].at \in Quiet
      <3>1. c \in Verbs BY UpgradeAssumption
      <3>2. Entry[c] \in Quiet BY <3>1 DEF Entry, Quiet, Verbs
      <3>3. proc'[p].at = Entry[c] BY <2>2 DEF Invoke, TypeInv, ProcsOK, Idle
      <3>. QED BY <3>2, <3>3
    <2>. QED BY <2>1, <2>2
  <1>. QED BY <1>3, <1>4, QuietStep, OneInHand

\* The surroundings: the one delete they finish spares the baseline.
LEMMA EnvironmentSpares ==
  ASSUME TypeInv, BaselineInv, Environment
  PROVE  BaselineInv'
  <1>1. Spared BY DEF BaselineInv, Spared
  <1>2. UNCHANGED <<file, proc>>
    BY DEF Environment, DetachedOpEnds, Tick, StartGuest, OtherSnapshot
  <1>3. pending' \in {pending, NoOp}
    BY DEF Environment, DetachedOpEnds, Tick, StartGuest, OtherSnapshot, vmVars
  <1>4. \A n : Exists(n) /\ ~Doomed(n) => Exists(n)'
    <2>. SUFFICES ASSUME NEW n, Exists(n), ~Doomed(n) PROVE Exists(n)'
      OBVIOUS
    <2>1. guest.fw # None BY UpgradeAssumption DEF TypeInv, VmOK
    <2>2. CASE UNCHANGED snaps BY <2>2 DEF Exists
    <2>3. ASSUME NEW m, Take(m) PROVE Exists(n)'
      BY <2>1, <2>3 DEF Take, Exists, TypeInv, VmOK
    <2>4. CASE Remove(pending.snap) /\ pending.kind = "delete"
      BY <2>4 DEF Remove, Exists, Doomed, TypeInv, VmOK
    <2>5. CASE DetachedOpEnds
      BY <2>2, <2>3, <2>4, <2>5 DEF DetachedOpEnds, Effect, Restore
    <2>6. CASE Tick \/ StartGuest BY <2>2, <2>6 DEF Tick, StartGuest, vmVars
    <2>7. ASSUME NEW m \in WatchdogNames \cup UserNames, OtherSnapshot(m)
          PROVE  Exists(n)'
      BY <2>3, <2>7 DEF OtherSnapshot
    <2>. QED BY <2>5, <2>6, <2>7 DEF Environment
  <1>5. \A n : ~Doomed(n) => ~Doomed(n)'
    BY <1>3 DEF Doomed, NoOp
  <1>6. UNCHANGED overlooked /\ (Needed' <=> Needed) /\ Old \subseteq Old'
    <2>1. UNCHANGED overlooked /\ clock' \in {clock, clock + 1}
      BY DEF Environment, DetachedOpEnds, Tick, StartGuest, OtherSnapshot
    <2>2. Old \subseteq Old'
      BY <2>1, UpgradeAssumption DEF Old, UpgradeNames, TypeInv
    <2>. QED BY <1>2, <2>1, <2>2 DEF Needed
  <1>7. Spared'
    BY <1>1, <1>2, <1>4, <1>5, <1>6 DEF Spared, BaselineKept, DeletesSpareBaseline
  <1>8. ASSUME NEW p \in Procs PROVE InHand(p)'
    <2>1. InHand(p) BY DEF BaselineInv
    <2>. QED BY <1>2, <1>4, <1>5, <1>6, <2>1 DEF InHand
  <1>. QED BY <1>7, <1>8 DEF BaselineInv, Spared

-----------------------------------------------------------------------------
\* BaselineInv is inductive relative to TypeInv when one invocation runs at a
\* time.
LEMMA BaselineInvStep ==
  ASSUME SingleOperator, TypeInv, BaselineInv, [Next]_vars
  PROVE  BaselineInv'
  <1>1. CASE Environment BY <1>1, EnvironmentSpares
  <1>2. ASSUME NEW p \in Procs, Crash(p) \/ (\E c \in Commands : Invoke(p, c))
        PROVE  BaselineInv'
    BY <1>2, InvocationSpares
  <1>3. ASSUME NEW p \in Procs, Step(p) PROVE BaselineInv'
    BY <1>3, PrepareSpares, ExecuteSpares, ValidateSpares, RollbackSpares,
       CommitSpares, GCSpares, ResetSpares DEF Step
  <1>4. CASE UNCHANGED vars
    BY <1>4, NeededStays DEF vars, vmVars, BaselineInv, BaselineKept,
                             DeletesSpareBaseline, Exists, Doomed, InHand
  <1>. QED BY <1>1, <1>2, <1>3, <1>4 DEF Next

\* With one invocation at a time, and whatever fails, crashes or outlives its
\* caller, the inductive invariant holds in every reachable state.
THEOREM BaselineInvariant ==
  ASSUME SingleOperator
  PROVE  Spec => []BaselineInv
  <1>1. Init => BaselineInv
    <2>. SUFFICES ASSUME Init PROVE BaselineInv
      OBVIOUS
    <2>1. BaselineKept /\ DeletesSpareBaseline
      BY DEF Init, BaselineKept, DeletesSpareBaseline, Needed, EmptyState, Unreleased
    <2>2. \A p \in Procs : InHand(p)
      BY DEF Init, Idle, InHand, Carrying, Updating
    <2>. QED BY <2>1, <2>2 DEF BaselineInv
  <1>2. TypeInv /\ BaselineInv /\ [Next]_vars => BaselineInv'
    BY BaselineInvStep
  <1>. QED BY <1>1, <1>2, TypeInvInductive, PTL DEF Spec

\* The baseline of a cycle that may still need a rollback is never lost: for
\* every number of snapshots, clock value and firmware state, under crashes,
\* failed writes and qm operations that outlive their caller.
THEOREM BaselineAlwaysKept ==
  ASSUME SingleOperator
  PROVE  Spec => []BaselineKept
  <1>1. BaselineInv => BaselineKept BY DEF BaselineInv
  <1>. QED BY <1>1, BaselineInvariant, PTL

(***************************************************************************)
(* Part 4.  What the file says of the guest, what reset does, and the      *)
(* abstract lifecycle: one invocation at a time.                           *)
(***************************************************************************)

-----------------------------------------------------------------------------
(* The invariant.                                                          *)

Unfinished == file.phase \notin {"empty", "committed"}

\* The guest runs the firmware its baseline holds, and no operation is under way
\* that could change that.
OnBaseline == Exists(file.snap) /\ guest.fw = snaps[file.snap]
Restored   == OnBaseline /\ pending = NoOp

\* What the file and the detached operation have to do with each other.
Recorded ==
  /\ file.snap = None <=> file.phase = "empty"
  /\ Unfinished => ~(pending.kind = "snapshot" /\ pending.snap = file.snap)
  /\ RestoredGuest
  /\ file.phase = "rolled_back" /\ pending.kind = "rollback"
       => pending.snap = file.snap

InRollback == {"r_list", "r_del", "r_qm", "r_start", "r_startfail", "r_wait",
                   "r_fail", "r_save"}

\* What an invocation holds at each step is licensed by the phase it read, which
\* is still the recorded one; past the qm rollback the guest is on its baseline;
\* and what reset has not deleted yet was there when it made its plan, or is
\* younger than the baseline, so that qm will refuse to roll back under it.
CycleInHand(p) ==
  LET m == proc[p] IN
  /\ m.at \in {"p_capture", "p_snap", "p_save"} =>
       CanTransition(file.phase, "prepared") /\ m.st.phase = "prepared"
  /\ m.at = "x_mark" => file.phase = "prepared" /\ m.st.phase = "executing"
  /\ m.at \in Updating \ {"x_mark"} => file.phase = "executing"
  /\ m.at = "x_save" => m.st.phase \in {"executed", "execute_failed", "execute_hung"}
  /\ m.at = "v_check" => m.st = file
  /\ m.at = "v_save" =>
       /\ validateAllowedFrom(file.phase)
       /\ m.st.phase \in {"validated_pass", "validated_partial", "validated_fail"}
       /\ file.phase = "rolled_back" => m.st.phase = "validated_pass"
  /\ m.at \in InRollback => rollbackAllowedFrom(file.phase)
  /\ m.at = "r_save" => m.st.phase = "rolled_back"
  /\ m.at \in {"r_start", "r_startfail", "r_wait", "r_save"} => Restored
  /\ m.at \in {"c_del", "c_save"} =>
       commitAllowedFrom(file.phase) /\ m.st.snap = file.snap
  /\ m.at \in {"z_list", "z_del", "z_qm", "z_rm"} => m.st = file
  /\ m.at \in {"z_del", "z_qm"} /\ Unfinished =>
       \A n \in Present \cap UpgradeNames :
         \/ n = file.snap
         \/ m.at = "z_del" /\ n \in m.todo
         \/ n \in Later(file.snap)
  /\ m.at = "z_rm" /\ Unfinished =>
       Restored /\ Present \cap UpgradeNames = {file.snap}

CycleInv == Recorded /\ \A p \in Procs : CycleInHand(p)

CycleQuiet == {"idle", "p_load", "x_load", "x_done", "v_load", "r_load", "c_load",
               "g_load", "g_list", "g_del", "z_load"}

\* Nothing is asked of an invocation that holds no cycle.
LEMMA CycleQuietStep ==
  ASSUME NEW p \in Procs, proc'[p].at \in CycleQuiet
  PROVE  CycleInHand(p)'
  BY DEF CycleInHand, CycleQuiet, Updating, InRollback

\* With a single operator it is enough to look at the invocation that moved.
LEMMA OneCycle ==
  ASSUME SingleOperator, NEW p \in Procs, Recorded', CycleInHand(p)'
  PROVE  CycleInv'
  <1>1. \A q \in Procs : q = p BY DEF SingleOperator
  <1>2. \A q \in Procs : CycleInHand(q)' BY <1>1
  <1>. QED BY <1>2 DEF CycleInv

\* The firmware of the guest changes only while no rollback is recorded.
LEMMA RecordedQuietly ==
  ASSUME Recorded, UNCHANGED <<file, snaps, pending>>,
         guest'.fw = guest.fw \/ file.phase # "rolled_back"
  PROVE  Recorded'
  BY DEF Recorded, Unfinished, RestoredGuest, Exists

\* The phase of an unfinished cycle is written.
LEMMA RecordedBySave ==
  ASSUME Recorded, UNCHANGED <<snaps, guest, pending>>, Unfinished,
         file' = file \/ (file'.snap = file.snap /\ file'.phase # "empty"),
         file'.phase = "rolled_back" /\ file' # file => Restored
  PROVE  Recorded'
  BY DEF Recorded, Unfinished, RestoredGuest, Restored, OnBaseline, NoOp, Exists

\* A delete, done, refused or left running.
LEMMA RecordedByDelete ==
  ASSUME TypeInv, Recorded, NEW n, QmDone("delete", n) \/ QmError("delete", n),
         UNCHANGED file
  PROVE  Recorded'
  <1>. USE DEF Recorded, Unfinished, RestoredGuest, Exists
  <1>1. CASE QmDone("delete", n)
    <2>1. snaps' = [snaps EXCEPT ![n] = None] /\ UNCHANGED <<guest, pending>>
      BY <1>1 DEF QmDone, Effect, Remove
    <2>. QED BY <2>1 DEF TypeInv, VmOK
  <1>2. CASE QmError("delete", n)
    <2>1. /\ UNCHANGED <<snaps, guest>>
          /\ UNCHANGED pending \/ pending' = [kind |-> "delete", snap |-> n]
      BY <1>2 DEF QmError
    <2>. QED BY <2>1
  <1>. QED BY <1>1, <1>2

\* The snapshot of a new baseline, done, refused or left running: never one the
\* recorded cycle already has.
LEMMA RecordedBySnapshot ==
  ASSUME TypeInv, Recorded, BaselineKept, CanTransition(file.phase, "prepared"),
         NEW n \in UpgradeNames,
         file.phase \in Unreleased /\ overlooked => n # file.snap,
         QmDone("snapshot", n) \/ QmError("snapshot", n),
         UNCHANGED file
  PROVE  Recorded'
  <1>1. file.phase \in {"empty", "prepared", "committed"}
    BY DEF CanTransition, allowedTransitions
  <1>2. Unfinished => Exists(file.snap) \/ n # file.snap
    BY <1>1 DEF Unfinished, BaselineKept, Needed, Unreleased
  <1>3. CASE QmDone("snapshot", n)
    <2>1. pending' = NoOp /\ UNCHANGED file BY <1>3 DEF QmDone, Accepts
    <2>. QED BY <1>1, <2>1 DEF Recorded, Unfinished, RestoredGuest, NoOp
  <1>4. CASE QmError("snapshot", n)
    <2>1. \/ UNCHANGED pending
          \/ pending' = [kind |-> "snapshot", snap |-> n] /\ ~Exists(n)
      BY <1>4 DEF QmError, Accepts
    <2>. QED BY <1>1, <1>2, <2>1 DEF Recorded, Unfinished, RestoredGuest
  <1>. QED BY <1>3, <1>4

\* A qm rollback, done, refused or left running: of the recorded baseline, when a
\* rollback is already recorded.
LEMMA RecordedByRollback ==
  ASSUME TypeInv, Recorded, NEW n, QmDone("rollback", n) \/ QmError("rollback", n),
         UNCHANGED file, file.phase = "rolled_back" => n = file.snap
  PROVE  Recorded'
  <1>. USE DEF Recorded, Unfinished, RestoredGuest, Exists
  <1>1. CASE QmDone("rollback", n)
    <2>1. guest'.fw = snaps[n] /\ UNCHANGED <<snaps, pending>>
      BY <1>1 DEF QmDone, Effect, Restore
    <2>. QED BY <2>1
  <1>2. CASE QmError("rollback", n)
    <2>1. /\ UNCHANGED snaps /\ guest'.fw = guest.fw
          /\ UNCHANGED pending \/ pending' = [kind |-> "rollback", snap |-> n]
      BY <1>2 DEF QmError, TypeInv, VmOK
    <2>. QED BY <2>1
  <1>. QED BY <1>1, <1>2

\* The whole inductive invariant.
UpgradeInv == TypeInv /\ WorkInv /\ BornInv /\ BaselineInv /\ CycleInv

\* prepare: the phase it read lets it open a cycle, until it writes the file.
LEMMA PrepareCycle ==
  ASSUME UpgradeInv, SingleOperator, NEW p \in Procs, PrepareStep(p)
  PROVE  CycleInv'
  <1>1. TypeInv /\ ProcsOK /\ Recorded /\ CycleInHand(p) /\ InHand(p)
        /\ WorkInHand(p) /\ BaselineKept
    BY DEF UpgradeInv, TypeInv, CycleInv, BaselineInv, WorkInv
  <1>2. ASSUME NEW reached \in Phases \cup {"none"}, Exit(p, reached), Recorded'
        PROVE  CycleInv'
    <2>1. proc'[p].at \in CycleQuiet BY <1>1, <1>2, ExitMoves DEF CycleQuiet
    <2>. QED BY <1>2, <2>1, CycleQuietStep, OneCycle
  <1>3. ASSUME NEW label \in {"p_snap", "p_save"}, Goto(p, label), UNCHANGED file,
               proc[p].at \in {"p_capture", "p_snap"}, Recorded'
        PROVE  CycleInv'
    <2>1. proc'[p].at = label /\ proc'[p].st = proc[p].st
      BY <1>1, <1>3, GotoFields DEF Labels
    <2>2. CycleInHand(p)'
      BY <1>1, <1>3, <2>1 DEF CycleInHand, Updating, InRollback
    <2>. QED BY <1>3, <2>2, OneCycle
  <1>a. CASE PrepareLoad(p)
    <2>1. Recorded' BY <1>1, <1>a, RecordedQuietly DEF PrepareLoad, vmVars
    <2>2. CASE /\ CanTransition(file.phase, "prepared")
               /\ GotoWith(p, "p_capture", [phase |-> "prepared", snap |-> clock])
      <3>1. [phase |-> "prepared", snap |-> clock] \in State
        BY <1>1 DEF TypeInv, State, Phases, UpgradeNames
      <3>2. proc'[p].at = "p_capture" /\ proc'[p].st.phase = "prepared"
        BY <1>1, <2>2, <3>1, GotoWithFields DEF Labels
      <3>3. UNCHANGED file BY <1>a DEF PrepareLoad
      <3>4. CycleInHand(p)'
        BY <2>2, <3>2, <3>3 DEF CycleInHand, Updating, InRollback
      <3>. QED BY <2>1, <3>4, OneCycle
    <2>. QED BY <1>2, <1>a, <2>1, <2>2 DEF PrepareLoad, Phases
  <1>b. CASE PrepareCapture(p)
    <2>1. Recorded' BY <1>1, <1>b, RecordedQuietly DEF PrepareCapture, vmVars
    <2>. QED BY <1>2, <1>3, <1>b, <2>1 DEF PrepareCapture, Phases
  <1>c. CASE PrepareSnapshot(p)
    <2>1. /\ proc[p].st.snap \in UpgradeNames /\ CanTransition(file.phase, "prepared")
          /\ file.phase \in Unreleased /\ overlooked => proc[p].st.snap # file.snap
      BY <1>1, <1>c DEF PrepareSnapshot, InHand, CycleInHand
    <2>2. Recorded' BY <1>1, <1>c, <2>1, RecordedBySnapshot DEF PrepareSnapshot
    <2>. QED BY <1>2, <1>3, <1>c, <2>2 DEF PrepareSnapshot, Phases
  <1>d. CASE PrepareSave(p)
    <2>1. Recorded'
      <3>1. CASE UNCHANGED file
        BY <1>1, <1>d, <3>1, RecordedQuietly DEF PrepareSave, vmVars
      <3>2. CASE file' = proc[p].st
        <4>1. Exists(proc[p].st.snap) /\ proc[p].st.phase = "prepared"
          BY <1>1, <1>d DEF PrepareSave, InHand, CycleInHand
        <4>2. proc[p].st.snap # None BY <4>1, UpgradeAssumption DEF Exists, Names, UpgradeNames
        <4>3. ~(pending.kind = "snapshot" /\ pending.snap = proc[p].st.snap)
          BY <4>1 DEF UpgradeInv, WorkInv
        <4>4. UNCHANGED <<snaps, guest, pending>> BY <1>d DEF PrepareSave, vmVars
        <4>. QED BY <3>2, <4>1, <4>2, <4>3, <4>4 DEF Recorded, RestoredGuest
      <3>. QED BY <1>d, <3>1, <3>2 DEF PrepareSave, Saved, SaveFailed
    <2>2. CASE Goto(p, "x_load")
      <3>1. proc'[p].at \in CycleQuiet
        BY <1>1, <2>2, GotoFields DEF Labels, CycleQuiet
      <3>. QED BY <2>1, <3>1, CycleQuietStep, OneCycle
    <2>. QED BY <1>2, <1>d, <2>1, <2>2 DEF PrepareSave, Phases
  <1>. QED BY <1>a, <1>b, <1>c, <1>d DEF PrepareStep

\* execute: the guest is touched under a recorded "executing" only.
LEMMA ExecuteCycle ==
  ASSUME UpgradeInv, SingleOperator, NEW p \in Procs, ExecuteStep(p)
  PROVE  CycleInv'
  <1>1. TypeInv /\ ProcsOK /\ Recorded /\ CycleInHand(p) /\ InHand(p)
    BY DEF UpgradeInv, TypeInv, CycleInv, BaselineInv
  <1>2. ASSUME ExecuteReturns(p), Recorded' PROVE CycleInv'
    <2>1. proc'[p].at \in CycleQuiet
      BY <1>1, <1>2, ExecuteReturnsMoves DEF CycleQuiet
    <2>. QED BY <1>2, <2>1, CycleQuietStep, OneCycle
  <1>3. ASSUME NEW label \in {"x_plan", "x_apply", "x_reboot", "x_verify"},
               Goto(p, label), file'.phase = "executing", Recorded'
        PROVE  CycleInv'
    <2>1. proc'[p].at = label BY <1>1, <1>3, GotoFields DEF Labels
    <2>2. CycleInHand(p)' BY <1>3, <2>1 DEF CycleInHand, Updating, InRollback
    <2>. QED BY <1>3, <2>2, OneCycle
  <1>4. ASSUME NEW phase \in {"executed", "execute_failed", "execute_hung"},
               Record(p, phase), file'.phase = "executing", Recorded'
        PROVE  CycleInv'
    <2>1. phase \in Phases BY DEF Phases
    <2>2. proc'[p].at = "x_save" /\ proc'[p].st = [proc[p].st EXCEPT !.phase = phase]
      BY <1>1, <1>4, <2>1, RecordMoves
    <2>3. proc'[p].st.phase = phase BY <1>1, <2>2, Remembered DEF State
    <2>4. CycleInHand(p)' BY <1>4, <2>2, <2>3 DEF CycleInHand, Updating, InRollback
    <2>. QED BY <1>4, <2>4, OneCycle
  <1>5. ASSUME proc[p].at \in {"x_plan", "x_apply", "x_reboot", "x_verify"}, UNCHANGED file,
               UNCHANGED <<snaps, pending>>
        PROVE  Recorded' /\ file'.phase = "executing"
    <2>1. file.phase = "executing" BY <1>1, <1>5 DEF CycleInHand, Updating
    <2>. QED BY <1>1, <1>5, <2>1, RecordedQuietly
  <1>a. CASE ExecuteLoad(p)
    <2>1. Recorded' BY <1>1, <1>a, RecordedQuietly DEF ExecuteLoad, vmVars
    <2>2. CASE CanTransition(file.phase, "executing")
               /\ GotoWith(p, "x_mark", [file EXCEPT !.phase = "executing"])
      <3>1. file.phase = "prepared" BY <2>2 DEF CanTransition, allowedTransitions
      <3>2. [file EXCEPT !.phase = "executing"] \in State
        BY <1>1 DEF TypeInv, State, Phases
      <3>3. /\ proc'[p].at = "x_mark"
            /\ proc'[p].st = [file EXCEPT !.phase = "executing"]
        BY <1>1, <2>2, <3>2, GotoWithFields DEF Labels
      <3>4. proc'[p].st.phase = "executing" BY <1>1, <3>3 DEF TypeInv, State
      <3>5. UNCHANGED file BY <1>a DEF ExecuteLoad
      <3>6. CycleInHand(p)'
        BY <3>1, <3>3, <3>4, <3>5 DEF CycleInHand, Updating, InRollback
      <3>. QED BY <2>1, <3>6, OneCycle
    <2>3. CASE Exit(p, "prepared")
      <3>1. proc'[p].at \in CycleQuiet BY <1>1, <2>3, ExitMoves DEF CycleQuiet, Phases
      <3>. QED BY <2>1, <3>1, CycleQuietStep, OneCycle
    <2>. QED BY <1>2, <1>a, <2>1, <2>2, <2>3 DEF ExecuteLoad
  <1>b. CASE ExecuteMark(p)
    <2>1. /\ proc[p].st.snap = file.snap /\ proc[p].st.phase = "executing"
          /\ file.phase = "prepared"
      BY <1>1, <1>b DEF ExecuteMark, InHand, CycleInHand, Carrying, Updating
    <2>2. Recorded'
      BY <1>1, <1>b, <2>1, RecordedBySave
         DEF ExecuteMark, Saved, SaveFailed, vmVars, Unfinished
    <2>. QED BY <1>2, <1>3, <1>b, <2>1, <2>2 DEF ExecuteMark, Saved
  <1>c. CASE ExecutePlan(p)
    <2>1. Recorded' /\ file'.phase = "executing" BY <1>5, <1>c DEF ExecutePlan, vmVars
    <2>. QED BY <1>3, <1>4, <1>c, <2>1 DEF ExecutePlan
  <1>d. CASE ExecuteApply(p)
    <2>1. Recorded' /\ file'.phase = "executing" BY <1>5, <1>d DEF ExecuteApply
    <2>. QED BY <1>3, <1>4, <1>d, <2>1 DEF ExecuteApply
  <1>e. CASE ExecuteReboot(p)
    <2>1. Recorded' /\ file'.phase = "executing" BY <1>5, <1>e DEF ExecuteReboot
    <2>. QED BY <1>3, <1>4, <1>e, <2>1 DEF ExecuteReboot
  <1>f. CASE ExecuteVerify(p)
    <2>1. Recorded' /\ file'.phase = "executing" BY <1>5, <1>f DEF ExecuteVerify, vmVars
    <2>. QED BY <1>4, <1>f, <2>1 DEF ExecuteVerify
  <1>g. CASE ExecuteSave(p)
    <2>1. /\ proc[p].st.snap = file.snap /\ file.phase = "executing"
          /\ proc[p].st.phase \in {"executed", "execute_failed", "execute_hung"}
      BY <1>1, <1>g DEF ExecuteSave, InHand, CycleInHand, Carrying, Updating
    <2>2. Recorded'
      BY <1>1, <1>g, <2>1, RecordedBySave
         DEF ExecuteSave, Saved, SaveFailed, vmVars, Unfinished
    <2>. QED BY <1>2, <1>g, <2>2 DEF ExecuteSave
  <1>h. CASE RunAfterExecute(p)
    <2>1. Recorded' BY <1>1, <1>h, RecordedQuietly DEF RunAfterExecute, vmVars
    <2>2. proc'[p].at \in CycleQuiet
      BY <1>1, <1>h, GotoFields DEF RunAfterExecute, Labels, CycleQuiet
    <2>. QED BY <2>1, <2>2, CycleQuietStep, OneCycle
  <1>. QED BY <1>a, <1>b, <1>c, <1>d, <1>e, <1>f, <1>g, <1>h DEF ExecuteStep

\* validate: the verdict is recorded over the phase it was reached in.
LEMMA ValidateCycle ==
  ASSUME UpgradeInv, SingleOperator, NEW p \in Procs, ValidateStep(p)
  PROVE  CycleInv'
  <1>1. TypeInv /\ ProcsOK /\ Recorded /\ CycleInHand(p) /\ InHand(p)
    BY DEF UpgradeInv, TypeInv, CycleInv, BaselineInv
  <1>2. proc[p].st \in State /\ proc[p].st.phase \in Phases /\ file.phase \in Phases
    BY <1>1, Remembered DEF TypeInv, State
  <1>3. ASSUME NEW phase \in Phases, ValidateReturns(p, phase), Recorded'
        PROVE  CycleInv'
    <2>1. proc'[p].at \in CycleQuiet
      BY <1>1, <1>3, ValidateReturnsMoves DEF CycleQuiet
    <2>. QED BY <1>3, <2>1, CycleQuietStep, OneCycle
  <1>4. ASSUME NEW phase \in Phases, Exit(p, phase), Recorded' PROVE CycleInv'
    <2>1. proc'[p].at \in CycleQuiet BY <1>1, <1>4, ExitMoves DEF CycleQuiet
    <2>. QED BY <1>4, <2>1, CycleQuietStep, OneCycle
  <1>a. CASE ValidateLoad(p)
    <2>1. Recorded' BY <1>1, <1>a, RecordedQuietly DEF ValidateLoad, vmVars
    <2>2. CASE GotoWith(p, "v_check", file)
      <3>1. proc'[p].at = "v_check" /\ proc'[p].st = file
        BY <1>1, <2>2, GotoWithFields DEF Labels, TypeInv
      <3>2. UNCHANGED file BY <1>a DEF ValidateLoad
      <3>3. CycleInHand(p)' BY <3>1, <3>2 DEF CycleInHand, Updating, InRollback
      <3>. QED BY <2>1, <3>3, OneCycle
    <2>. QED BY <1>2, <1>3, <1>4, <1>a, <2>1, <2>2 DEF ValidateLoad, Phases
  <1>b. CASE ValidateCheck(p)
    <2>1. Recorded' BY <1>1, <1>b, RecordedQuietly DEF ValidateCheck, vmVars
    <2>2. PICK phase \in {"validated_pass", "validated_partial", "validated_fail"} :
            IF proc[p].st.phase = "rolled_back" /\ phase # "validated_pass"
            THEN Exit(p, "rolled_back")
            ELSE GotoWith(p, "v_save", [proc[p].st EXCEPT !.phase = phase])
      BY <1>b DEF ValidateCheck, selectValidatePhase
    <2>3. CASE /\ proc[p].st.phase # "rolled_back" \/ phase = "validated_pass"
               /\ GotoWith(p, "v_save", [proc[p].st EXCEPT !.phase = phase])
      <3>. DEFINE st == [proc[p].st EXCEPT !.phase = phase]
      <3>1. st \in State /\ st.phase = phase BY <1>2 DEF State, Phases
      <3>2. proc'[p].at = "v_save" /\ proc'[p].st = st
        <4>. HIDE DEF st
        <4>. QED BY <1>1, <2>3, <3>1, GotoWithFields DEF Labels, st
      <3>3. proc[p].st = file /\ validateAllowedFrom(file.phase) /\ UNCHANGED file
        BY <1>1, <1>b DEF ValidateCheck, InHand, CycleInHand
      <3>4. CycleInHand(p)'
        <4>. HIDE DEF st
        <4>. QED BY <2>3, <3>1, <3>2, <3>3 DEF CycleInHand, Updating, InRollback
      <3>. QED BY <2>1, <3>4, OneCycle
    <2>4. CASE Exit(p, "rolled_back")
      BY <1>4, <2>1, <2>4 DEF Phases
    <2>. QED BY <2>2, <2>3, <2>4
  <1>c. CASE ValidateSave(p)
    <2>1. /\ proc[p].st.snap = file.snap /\ validateAllowedFrom(file.phase)
          /\ proc[p].st.phase \in {"validated_pass", "validated_partial", "validated_fail"}
      BY <1>1, <1>c DEF ValidateSave, InHand, CycleInHand, Carrying
    <2>2. Recorded'
      BY <1>1, <1>c, <2>1, RecordedBySave
         DEF ValidateSave, Saved, SaveFailed, vmVars, Unfinished, validateAllowedFrom
    <2>. QED BY <1>2, <1>3, <1>4, <1>c, <2>2 DEF ValidateSave
  <1>. QED BY <1>a, <1>b, <1>c DEF ValidateStep

\* rollback: what follows the qm rollback runs on the restored baseline.
LEMMA RollbackCycle ==
  ASSUME UpgradeInv, SingleOperator, NEW p \in Procs, RollbackStep(p)
  PROVE  CycleInv'
  <1>1. TypeInv /\ ProcsOK /\ Recorded /\ CycleInHand(p) /\ InHand(p)
    BY DEF UpgradeInv, TypeInv, CycleInv, BaselineInv
  <1>2. proc[p].st \in State /\ proc[p].st.phase \in Phases /\ file.phase \in Phases
    BY <1>1, Remembered DEF TypeInv, State
  <1>3. ASSUME NEW phase \in Phases, Exit(p, phase), Recorded' PROVE CycleInv'
    <2>1. proc'[p].at \in CycleQuiet BY <1>1, <1>3, ExitMoves DEF CycleQuiet
    <2>. QED BY <1>3, <2>1, CycleQuietStep, OneCycle
  <1>4. ASSUME NEW label \in {"r_qm", "r_fail"}, Goto(p, label), UNCHANGED file,
               rollbackAllowedFrom(file.phase), Recorded'
        PROVE  CycleInv'
    <2>1. proc'[p].at = label BY <1>1, <1>4, GotoFields DEF Labels
    <2>2. CycleInHand(p)' BY <1>4, <2>1 DEF CycleInHand, Updating, InRollback
    <2>. QED BY <1>4, <2>2, OneCycle
  <1>5. ASSUME NEW label \in {"r_start", "r_startfail", "r_wait"}, Goto(p, label),
               UNCHANGED file, rollbackAllowedFrom(file.phase), Restored', Recorded'
        PROVE  CycleInv'
    <2>1. proc'[p].at = label BY <1>1, <1>5, GotoFields DEF Labels
    <2>2. CycleInHand(p)' BY <1>5, <2>1 DEF CycleInHand, Updating, InRollback
    <2>. QED BY <1>5, <2>2, OneCycle
  <1>6. proc[p].at \in InRollback => /\ rollbackAllowedFrom(file.phase) /\ Unfinished
                                         /\ file.phase # "rolled_back"
                                         /\ proc[p].st.snap = file.snap
    BY <1>1 DEF CycleInHand, InHand, Carrying, InRollback, rollbackAllowedFrom, Unfinished
  <1>a. CASE RollbackLoad(p)
    <2>1. Recorded' BY <1>1, <1>a, RecordedQuietly DEF RollbackLoad, vmVars
    <2>2. CASE rollbackAllowedFrom(file.phase) /\ GotoWith(p, "r_list", file)
      <3>1. proc'[p].at = "r_list"
        BY <1>1, <2>2, GotoWithFields DEF Labels, TypeInv
      <3>2. UNCHANGED file BY <1>a DEF RollbackLoad
      <3>3. CycleInHand(p)' BY <2>2, <3>1, <3>2 DEF CycleInHand, Updating, InRollback
      <3>. QED BY <2>1, <3>3, OneCycle
    <2>. QED BY <1>2, <1>3, <1>a, <2>1, <2>2 DEF RollbackLoad, Phases
  <1>b. CASE RollbackList(p)
    <2>1. Recorded' BY <1>1, <1>b, RecordedQuietly DEF RollbackList, vmVars
    <2>2. CASE GotoDoing(p, "r_del", snapshotsAfter(proc[p].st.snap))
      <3>1. snapshotsAfter(proc[p].st.snap) \in SUBSET Names
        BY DEF snapshotsAfter, Later, Present
      <3>2. proc'[p].at = "r_del"
        BY <1>1, <2>2, <3>1, GotoDoingFields DEF Labels
      <3>3. UNCHANGED file /\ rollbackAllowedFrom(file.phase)
        BY <1>6, <1>b DEF RollbackList, InRollback
      <3>4. CycleInHand(p)' BY <3>2, <3>3 DEF CycleInHand, Updating, InRollback
      <3>. QED BY <2>1, <3>4, OneCycle
    <2>. QED BY <1>2, <1>3, <1>b, <2>1, <2>2 DEF RollbackList
  <1>c. CASE RollbackDelete(p)
    <2>1. rollbackAllowedFrom(file.phase) /\ UNCHANGED file
      BY <1>6, <1>c DEF RollbackDelete, InRollback
    <2>2. CASE Goto(p, "r_qm") /\ UNCHANGED vmVars
      <3>1. Recorded' BY <1>1, <2>1, <2>2, RecordedQuietly DEF vmVars
      <3>. QED BY <1>4, <2>1, <2>2, <3>1
    <2>3. ASSUME NEW n \in proc[p].todo, QmDone("delete", n) \/ QmError("delete", n),
                 GotoDoing(p, "r_del", proc[p].todo \ {n})
          PROVE  CycleInv'
      <3>1. Recorded' BY <1>1, <2>1, <2>3, RecordedByDelete
      <3>2. proc[p].todo \ {n} \in SUBSET Names BY <1>1, Remembered
      <3>3. proc'[p].at = "r_del"
        BY <1>1, <2>3, <3>2, GotoDoingFields DEF Labels
      <3>4. CycleInHand(p)' BY <2>1, <3>3 DEF CycleInHand, Updating, InRollback
      <3>. QED BY <3>1, <3>4, OneCycle
    <2>. QED BY <1>c, <2>2, <2>3 DEF RollbackDelete
  <1>d. CASE RollbackQm(p)
    <2>1. /\ rollbackAllowedFrom(file.phase) /\ UNCHANGED file
          /\ file.phase # "rolled_back" /\ proc[p].st.snap = file.snap
      BY <1>6, <1>d DEF RollbackQm, InRollback
    <2>2. Recorded' BY <1>1, <1>d, <2>1, RecordedByRollback DEF RollbackQm
    <2>3. CASE QmDone("rollback", file.snap) /\ Goto(p, "r_start")
      <3>1. Restored'
        BY <2>1, <2>3
           DEF QmDone, Accepts, Effect, Restore, Restored, OnBaseline, Exists, NoOp
      <3>. QED BY <1>5, <2>1, <2>2, <2>3, <3>1
    <2>. QED BY <1>4, <1>d, <2>1, <2>2, <2>3 DEF RollbackQm
  <1>e. CASE RollbackStart(p)
    <2>1. /\ rollbackAllowedFrom(file.phase) /\ UNCHANGED <<file, snaps, pending>>
          /\ Restored
      BY <1>1, <1>6, <1>e DEF RollbackStart, InRollback, CycleInHand
    <2>2. guest'.fw = guest.fw BY <1>1, <1>e DEF RollbackStart, TypeInv, VmOK
    <2>3. Recorded' BY <1>1, <2>1, <2>2, RecordedQuietly
    <2>4. Restored' BY <2>1, <2>2 DEF Restored, OnBaseline, Exists, NoOp
    <2>. QED BY <1>5, <1>e, <2>1, <2>3, <2>4 DEF RollbackStart
  <1>f. CASE RollbackStartFailed(p)
    <2>1. file' = file \/ (file'.phase = "rollback_failed" /\ file'.snap = file.snap)
      BY <1>2, <1>6, <1>f DEF RollbackStartFailed, Saved, SaveFailed, State, InRollback
    <2>2. Recorded'
      BY <1>1, <1>6, <1>f, <2>1, RecordedBySave DEF RollbackStartFailed, vmVars, InRollback
    <2>. QED BY <1>2, <1>3, <1>f, <2>2 DEF RollbackStartFailed
  <1>g. CASE RollbackWait(p)
    <2>1. /\ rollbackAllowedFrom(file.phase) /\ UNCHANGED <<file, vmVars>> /\ Restored
      BY <1>1, <1>6, <1>g DEF RollbackWait, InRollback, CycleInHand
    <2>2. Recorded' BY <1>1, <2>1, RecordedQuietly DEF vmVars
    <2>3. CASE GotoWith(p, "r_save", [proc[p].st EXCEPT !.phase = "rolled_back"])
      <3>. DEFINE st == [proc[p].st EXCEPT !.phase = "rolled_back"]
      <3>1. st \in State /\ st.phase = "rolled_back" BY <1>2 DEF State, Phases
      <3>2. proc'[p].at = "r_save" /\ proc'[p].st = st
        <4>. HIDE DEF st
        <4>. QED BY <1>1, <2>3, <3>1, GotoWithFields DEF Labels, st
      <3>3. Restored' BY <2>1 DEF Restored, OnBaseline, Exists, NoOp, vmVars
      <3>4. CycleInHand(p)'
        <4>. HIDE DEF st
        <4>. QED BY <2>1, <3>1, <3>2, <3>3 DEF CycleInHand, Updating, InRollback
      <3>. QED BY <2>2, <3>4, OneCycle
    <2>. QED BY <1>4, <1>g, <2>1, <2>2, <2>3 DEF RollbackWait
  <1>h. CASE RollbackFail(p)
    <2>1. file' = file \/ (file'.phase = "rollback_failed" /\ file'.snap = file.snap)
      BY <1>2, <1>6, <1>h DEF RollbackFail, Saved, SaveFailed, State, InRollback
    <2>2. Recorded'
      BY <1>1, <1>6, <1>h, <2>1, RecordedBySave DEF RollbackFail, vmVars, InRollback
    <2>. QED BY <1>3, <1>h, <2>2 DEF RollbackFail, Phases
  <1>i. CASE RollbackSave(p)
    <2>1. proc[p].st.phase = "rolled_back" /\ Restored
      BY <1>1, <1>i DEF RollbackSave, CycleInHand
    <2>2. Recorded'
      BY <1>1, <1>6, <1>i, <2>1, RecordedBySave
         DEF RollbackSave, Saved, SaveFailed, vmVars, InRollback
    <2>. QED BY <1>3, <1>i, <2>2 DEF RollbackSave, Phases
  <1>. QED BY <1>a, <1>b, <1>c, <1>d, <1>e, <1>f, <1>g, <1>h, <1>i DEF RollbackStep

\* commit: it closes the cycle it read, and that one only.
LEMMA CommitCycle ==
  ASSUME UpgradeInv, SingleOperator, NEW p \in Procs, CommitStep(p)
  PROVE  CycleInv'
  <1>1. TypeInv /\ ProcsOK /\ Recorded /\ CycleInHand(p) /\ InHand(p)
    BY DEF UpgradeInv, TypeInv, CycleInv, BaselineInv
  <1>2. ASSUME Exit(p, "none"), Recorded' PROVE CycleInv'
    <2>1. proc'[p].at \in CycleQuiet BY <1>1, <1>2, ExitMoves DEF CycleQuiet
    <2>. QED BY <1>2, <2>1, CycleQuietStep, OneCycle
  <1>a. CASE CommitLoad(p)
    <2>1. Recorded' BY <1>1, <1>a, RecordedQuietly DEF CommitLoad, vmVars
    <2>2. ASSUME commitAllowedFrom(file.phase), NEW label \in {"c_save", "c_del"},
                 GotoWith(p, label, [file EXCEPT !.phase = "committed"])
          PROVE  CycleInv'
      <3>1. [file EXCEPT !.phase = "committed"] \in State
        BY <1>1 DEF TypeInv, State, Phases
      <3>2. label \in Labels BY DEF Labels
      <3>3. proc'[p].at = label /\ proc'[p].st = [file EXCEPT !.phase = "committed"]
        BY <1>1, <2>2, <3>1, <3>2, GotoWithFields
      <3>4. proc'[p].st.snap = file.snap BY <1>1, <3>3 DEF TypeInv, State
      <3>5. UNCHANGED file BY <1>a DEF CommitLoad
      <3>6. CycleInHand(p)'
        BY <2>2, <3>3, <3>4, <3>5 DEF CycleInHand, Updating, InRollback
      <3>. QED BY <2>1, <3>6, OneCycle
    <2>. QED BY <1>2, <1>a, <2>1, <2>2 DEF CommitLoad
  <1>b. CASE CommitDelete(p)
    <2>1. commitAllowedFrom(file.phase) /\ proc[p].st.snap = file.snap /\ UNCHANGED file
      BY <1>1, <1>b DEF CommitDelete, CycleInHand
    <2>2. Recorded' BY <1>1, <1>b, <2>1, RecordedByDelete DEF CommitDelete
    <2>3. CASE Goto(p, "c_save")
      <3>1. proc'[p].at = "c_save" /\ proc'[p].st = proc[p].st
        BY <1>1, <2>3, GotoFields DEF Labels
      <3>2. CycleInHand(p)' BY <2>1, <3>1 DEF CycleInHand, Updating, InRollback
      <3>. QED BY <2>2, <3>2, OneCycle
    <2>. QED BY <1>2, <1>b, <2>2, <2>3 DEF CommitDelete
  <1>c. CASE CommitSave(p)
    <2>1. /\ commitAllowedFrom(file.phase) /\ proc[p].st.snap = file.snap
          /\ proc[p].st.phase = "committed"
      BY <1>1, <1>c DEF CommitSave, CycleInHand, InHand
    <2>2. Recorded'
      BY <1>1, <1>c, <2>1, RecordedBySave
         DEF CommitSave, Saved, SaveFailed, vmVars, commitAllowedFrom, Unfinished
    <2>. QED BY <1>2, <1>c, <2>2 DEF CommitSave
  <1>. QED BY <1>a, <1>b, <1>c DEF CommitStep

\* gc: it deletes, and touches nothing else.
LEMMA GCCycle ==
  ASSUME UpgradeInv, SingleOperator, NEW p \in Procs, GCStep(p)
  PROVE  CycleInv'
  <1>1. TypeInv /\ ProcsOK /\ Recorded BY DEF UpgradeInv, TypeInv, CycleInv
  <1>2. proc[p].todo \in SUBSET Names BY <1>1, Remembered
  <1>3. ASSUME NEW label \in {"g_list", "g_del"}, NEW S \in SUBSET Names,
               GotoDoing(p, label, S) \/ Exit(p, "none"), Recorded'
        PROVE  CycleInv'
    <2>1. proc'[p].at \in CycleQuiet
      BY <1>1, <1>3, GotoDoingFields, ExitMoves DEF CycleQuiet, Labels
    <2>. QED BY <1>3, <2>1, CycleQuietStep, OneCycle
  <1>a. CASE GCLoad(p)
    <2>1. Recorded' BY <1>1, <1>a, RecordedQuietly DEF GCLoad, vmVars
    <2>2. PICK readable \in BOOLEAN :
            GotoDoing(p, "g_list", Old \ {activeDeploySnapshot(readable)})
      BY <1>a DEF GCLoad
    <2>. DEFINE S == Old \ {activeDeploySnapshot(readable)}
    <2>3. S \in SUBSET Names BY DEF Old, Names
    <2>4. GotoDoing(p, "g_list", S) BY <2>2
    <2>. HIDE DEF S
    <2>. QED BY <1>3, <2>1, <2>3, <2>4
  <1>b. CASE GCList(p)
    <2>1. Recorded' BY <1>1, <1>b, RecordedQuietly DEF GCList, vmVars
    <2>. QED BY <1>2, <1>3, <1>b, <2>1 DEF GCList
  <1>c. CASE GCDelete(p)
    <2>1. CASE Exit(p, "none") /\ UNCHANGED vmVars
      <3>1. Recorded' BY <1>1, <1>c, <2>1, RecordedQuietly DEF GCDelete, vmVars
      <3>. QED BY <1>2, <1>3, <2>1, <3>1
    <2>2. ASSUME NEW n \in proc[p].todo, QmDone("delete", n) \/ QmError("delete", n),
                 GotoDoing(p, "g_del", proc[p].todo \ {n})
          PROVE  CycleInv'
      <3>1. Recorded' BY <1>1, <1>c, <2>2, RecordedByDelete DEF GCDelete
      <3>2. proc[p].todo \ {n} \in SUBSET Names BY <1>2
      <3>. QED BY <1>3, <2>2, <3>1, <3>2
    <2>. QED BY <1>c, <2>1, <2>2 DEF GCDelete
  <1>. QED BY <1>a, <1>b, <1>c DEF GCStep

\* Snapshots stay in order: one that is newer than t stays so, and one that
\* appears is newer than t, unless it is t itself that appears.
LEMMA LaterSurvives ==
  ASSUME TypeInv, BornInv, NEW t \in Names,
         NEW kind \in {"snapshot", "delete", "rollback"}, NEW n \in Names,
         Changes([kind |-> kind, snap |-> n]), kind = "snapshot" => n # t
  PROVE  \A k \in Present' : \/ k = t
                             \/ k \in Present /\ k \notin Later(t)
                             \/ k \in Later(t)'
  <1>. SUFFICES ASSUME NEW k \in Present', k # t, k \in Present => k \in Later(t)
                PROVE  k \in Later(t)'
    OBVIOUS
  <1>1. snaps \in [Names -> Fw \cup {None}] /\ born \in [Names -> Nat]
        /\ k \in Names /\ Cardinality(Present) \in Nat
    BY PresentFinite DEF TypeInv, VmOK, Present
  <1>2. CASE kind = "snapshot" /\ Take(n) /\ ~Exists(n)
    <2>1. /\ \A m \in Names : m # n => born'[m] = born[m]
          /\ born'[n] = 1 + Cardinality(Present)
      BY <1>1, <1>2 DEF Take, Newest
    <2>2. born[t] <= Cardinality(Present) BY <1>1 DEF BornInv
    <2>3. born'[t] = born[t] BY <1>2, <2>1
    <2>4. CASE k = n
      BY <1>1, <2>1, <2>2, <2>3, <2>4 DEF Later
    <2>5. CASE k # n
      <3>1. k \in Present BY <1>1, <1>2, <2>5 DEF Take, Present
      <3>. QED BY <1>1, <2>1, <2>3, <2>5, <3>1 DEF Later
    <2>. QED BY <2>4, <2>5
  <1>3. CASE kind = "delete" /\ Remove(n) /\ Exists(n)
    <2>1. k \in Present BY <1>1, <1>3 DEF Remove, Present
    <2>2. born[k] > born[t] BY <2>1 DEF Later
    <2>3. BornInv' /\ \A l, m \in Present' : born[l] > born[m] => born'[l] > born'[m]
      BY <1>3, RemoveKeepsOrder
    <2>4. CASE t \in Present' BY <2>2, <2>3, <2>4 DEF Later
    <2>5. CASE t \notin Present'
      <3>1. ~Exists(t)' /\ Exists(k)' BY <1>1, <2>5 DEF Present, Exists
      <3>2. born'[t] = 0 BY <2>3, <3>1 DEF BornInv
      <3>3. born'[k] >= 1 /\ born'[k] \in Nat
        <4>1. IsFiniteSet(Present') /\ Cardinality(Present') \in Nat
          <5>1. Present' \subseteq Present BY <1>1, <1>3 DEF Remove, Present
          <5>. QED BY <5>1, PresentFinite, FS_Subset, FS_CardinalityType
        <4>2. born'[k] \in 1..Cardinality(Present') BY <1>1, <2>3, <3>1 DEF BornInv
        <4>. QED BY <4>1, <4>2
      <3>. QED BY <3>2, <3>3 DEF Later
    <2>. QED BY <2>4, <2>5
  <1>4. CASE Restore(n)
    BY <1>1, <1>4 DEF Restore, Later, Present
  <1>. QED BY <1>2, <1>3, <1>4 DEF Changes, Effect

\* A baseline that an unfinished cycle has lost never comes back under its name.
LEMMA BaselineNotRetaken ==
  ASSUME UpgradeInv, Unfinished, NEW n, ~Exists(n), Wanted(n)
  PROVE  n # file.snap
  <1>1. CASE n \in WatchdogNames \cup UserNames
    BY <1>1, UpgradeAssumption DEF UpgradeInv, TypeInv, State, UpgradeNames
  <1>2. CASE pending = [kind |-> "snapshot", snap |-> n]
    BY <1>2 DEF UpgradeInv, CycleInv, Recorded
  <1>3. ASSUME NEW p \in Procs, Asks(p, "snapshot", n) PROVE n # file.snap
    <2>1. CanTransition(file.phase, "prepared")
      BY <1>3 DEF Asks, UpgradeInv, CycleInv, CycleInHand
    <2>2. file.phase = "prepared"
      BY <2>1 DEF CanTransition, allowedTransitions, Unfinished
    <2>3. proc[p].at = "p_snap" /\ n = proc[p].st.snap BY <1>3 DEF Asks
    <2>4. overlooked => n # file.snap
      BY <2>2, <2>3 DEF UpgradeInv, BaselineInv, InHand, Unreleased
    <2>. QED BY <2>2, <2>4 DEF UpgradeInv, BaselineInv, BaselineKept, Needed, Unreleased
  <1>. QED BY <1>1, <1>2, <1>3 DEF Wanted

\* The snapshots that reset still has to deal with.
Leftover(p) ==
  \A n \in Present \cap UpgradeNames :
    \/ n = file.snap
    \/ proc[p].at = "z_del" /\ n \in proc[p].todo
    \/ n \in Later(file.snap)

\* reset: it works off a plan that nothing but itself can outdate, and removes
\* the file of an unfinished cycle from a restored guest only.
LEMMA ResetCycle ==
  ASSUME UpgradeInv, SingleOperator, NEW p \in Procs, ResetStep(p)
  PROVE  CycleInv'
  <1>1. TypeInv /\ ProcsOK /\ Recorded /\ CycleInHand(p) /\ BornInv
    BY DEF UpgradeInv, TypeInv, CycleInv
  <1>2. ASSUME Exit(p, "none"), Recorded' PROVE CycleInv'
    <2>1. proc'[p].at \in CycleQuiet BY <1>1, <1>2, ExitMoves DEF CycleQuiet
    <2>. QED BY <1>2, <2>1, CycleQuietStep, OneCycle
  <1>3. proc[p].todo \in SUBSET Names BY <1>1, Remembered
  <1>4. proc[p].at \in {"z_list", "z_del", "z_qm", "z_rm"} /\ Unfinished
          => /\ proc[p].st = file /\ RollbackTarget(proc[p].st) = file.snap
             /\ file.snap # None /\ file.snap \in UpgradeNames /\ file.snap \in Names
    BY <1>1 DEF CycleInHand, Recorded, RollbackTarget, Unfinished, TypeInv, State, Names
  <1>5. ASSUME NEW label \in {"z_del", "z_qm"}, proc'[p].at = label,
               proc'[p].st = proc[p].st, proc[p].at \in {"z_list", "z_del", "z_qm", "z_rm"},
               UNCHANGED file, Unfinished => Leftover(p)', Recorded'
        PROVE  CycleInv'
    <2>1. proc[p].st = file BY <1>1, <1>5 DEF CycleInHand
    <2>2. CycleInHand(p)'
      BY <1>5, <2>1 DEF CycleInHand, Updating, InRollback, Leftover, Unfinished
    <2>. QED BY <1>5, <2>2, OneCycle
  <1>6. ASSUME proc'[p].at = "z_rm", proc'[p].st = proc[p].st,
               proc[p].at \in {"z_list", "z_del", "z_qm", "z_rm"}, UNCHANGED file,
               Unfinished => Restored' /\ (Present \cap UpgradeNames = {file.snap})',
               Recorded'
        PROVE  CycleInv'
    <2>1. proc[p].st = file BY <1>1, <1>6 DEF CycleInHand
    <2>2. CycleInHand(p)'
      BY <1>6, <2>1 DEF CycleInHand, Updating, InRollback, Unfinished
    <2>. QED BY <1>6, <2>2, OneCycle
  <1>a. CASE ResetLoad(p)
    <2>1. Recorded' BY <1>1, <1>a, RecordedQuietly DEF ResetLoad, vmVars
    <2>2. CASE GotoWith(p, "z_list", file)
      <3>1. UNCHANGED file BY <1>a DEF ResetLoad
      <3>2. proc'[p].at = "z_list" /\ proc'[p].st = file
        BY <1>1, <2>2, GotoWithFields DEF Labels, TypeInv
      <3>3. CycleInHand(p)' BY <3>1, <3>2 DEF CycleInHand, Updating, InRollback
      <3>. QED BY <2>1, <3>3, OneCycle
    <2>. QED BY <1>2, <1>a, <2>1, <2>2 DEF ResetLoad
  <1>b. CASE ResetList(p)
    <2>. DEFINE S == (Present \cap UpgradeNames) \ {RollbackTarget(proc[p].st)}
    <2>1. Recorded' BY <1>1, <1>b, RecordedQuietly DEF ResetList, vmVars
    <2>2. S \in SUBSET Names BY DEF Present
    <2>3. UNCHANGED <<file, snaps, born>> /\ (GotoDoing(p, "z_del", S) \/ Exit(p, "none"))
          /\ proc[p].at = "z_list"
      BY <1>b DEF ResetList, vmVars
    <2>4. Unfinished => \A n \in Present \cap UpgradeNames : n = file.snap \/ n \in S
      BY <1>4, <2>3
    <2>. HIDE DEF S
    <2>5. CASE GotoDoing(p, "z_del", S)
      <3>1. proc'[p].at = "z_del" /\ proc'[p].st = proc[p].st /\ proc'[p].todo = S
        BY <1>1, <2>2, <2>5, GotoDoingFields DEF Labels
      <3>2. Present' = Present BY <2>3 DEF Present
      <3>3. Unfinished => Leftover(p)' BY <2>3, <2>4, <3>1, <3>2 DEF Leftover
      <3>. QED BY <1>5, <2>1, <2>3, <3>1, <3>3
    <2>. QED BY <1>2, <2>1, <2>3, <2>5
  <1>c. CASE ResetDelete(p)
    <2>1. proc[p].at = "z_del" /\ UNCHANGED file BY <1>c DEF ResetDelete
    <2>2. Unfinished => Leftover(p) BY <1>1, <2>1 DEF CycleInHand, Leftover
    <2>3. CASE proc[p].todo = {}
      <3>1. UNCHANGED vmVars /\ \/ Goto(p, "z_qm")
                                \/ Goto(p, "z_rm") /\ RollbackTarget(proc[p].st) = None
        BY <1>c, <2>3 DEF ResetDelete
      <3>2. Recorded' BY <1>1, <2>1, <3>1, RecordedQuietly DEF vmVars
      <3>3. CASE Goto(p, "z_qm")
        <4>1. proc'[p].at = "z_qm" /\ proc'[p].st = proc[p].st
              /\ proc'[p].todo = proc[p].todo
          BY <1>1, <3>3, GotoFields DEF Labels
        <4>2. Present' = Present /\ Later(file.snap)' = Later(file.snap)
          BY <2>1, <3>1 DEF vmVars, Present, Later
        <4>3. Unfinished => Leftover(p)'
          BY <2>1, <2>2, <2>3, <4>1, <4>2 DEF Leftover
        <4>. QED BY <1>5, <2>1, <3>2, <4>1, <4>3
      <3>4. CASE Goto(p, "z_rm") /\ RollbackTarget(proc[p].st) = None
        <4>1. proc'[p].at = "z_rm" /\ proc'[p].st = proc[p].st
          BY <1>1, <3>4, GotoFields DEF Labels
        <4>2. ~Unfinished BY <1>4, <2>1, <3>4
        <4>. QED BY <1>6, <2>1, <3>2, <4>1, <4>2
      <3>. QED BY <3>1, <3>3, <3>4
    <2>4. ASSUME NEW n \in proc[p].todo, QmDone("delete", n),
                 GotoDoing(p, "z_del", proc[p].todo \ {n})
          PROVE  CycleInv'
      <3>1. Recorded' BY <1>1, <2>1, <2>4, RecordedByDelete
      <3>2. n \in Names /\ proc[p].todo \ {n} \in SUBSET Names BY <1>3
      <3>3. proc'[p].at = "z_del" /\ proc'[p].st = proc[p].st
            /\ proc'[p].todo = proc[p].todo \ {n}
        BY <1>1, <2>4, <3>2, GotoDoingFields DEF Labels
      <3>4. Unfinished => Leftover(p)'
        <4>. SUFFICES ASSUME Unfinished PROVE Leftover(p)'
          OBVIOUS
        <4>1. Remove(n) /\ Exists(n) BY <2>4 DEF QmDone, Accepts, Effect
        <4>2. Changes([kind |-> "delete", snap |-> n])
          BY <3>2, <4>1 DEF Changes, Effect
        <4>3. file.snap \in Names /\ file.snap \in UpgradeNames BY <1>4, <2>1
        <4>4. \A k \in Present' : \/ k = file.snap
                                  \/ k \in Present /\ k \notin Later(file.snap)
                                  \/ k \in Later(file.snap)'
          <5>1. ASSUME NEW t \in Names
                PROVE  \A k \in Present' : \/ k = t
                                           \/ k \in Present /\ k \notin Later(t)
                                           \/ k \in Later(t)'
            BY <1>1, <3>2, <4>2, LaterSurvives
          <5>2. Later(file.snap)' = {m \in Present' : born'[m] > born'[file.snap]}
            BY <2>1 DEF Later
          <5>. QED BY <4>3, <5>1, <5>2 DEF Later
        <4>5. \A k \in Present' : k # n
          BY <1>1, <3>2, <4>1 DEF Remove, Present, TypeInv, VmOK
        <4>. QED BY <2>1, <2>2, <3>3, <4>4, <4>5 DEF Leftover
      <3>. QED BY <1>5, <2>1, <3>1, <3>3, <3>4
    <2>5. ASSUME NEW n \in proc[p].todo, QmError("delete", n), Exit(p, "none")
          PROVE  CycleInv'
      <3>1. Recorded' BY <1>1, <2>1, <2>5, RecordedByDelete
      <3>. QED BY <1>2, <2>5, <3>1
    <2>. QED BY <1>c, <2>3, <2>4, <2>5 DEF ResetDelete
  <1>d. CASE ResetRollback(p)
    <2>1. proc[p].at = "z_qm" /\ UNCHANGED file BY <1>d DEF ResetRollback
    <2>2. Unfinished => Leftover(p) BY <1>1, <2>1 DEF CycleInHand, Leftover
    <2>3. Recorded'
      <3>1. file.phase = "rolled_back" => RollbackTarget(proc[p].st) = file.snap
        BY <1>4, <2>1 DEF Unfinished
      <3>. QED BY <1>1, <1>d, <2>1, <3>1, RecordedByRollback DEF ResetRollback
    <2>4. CASE QmDone("rollback", RollbackTarget(proc[p].st)) /\ Goto(p, "z_rm")
      <3>1. proc'[p].at = "z_rm" /\ proc'[p].st = proc[p].st
        BY <1>1, <2>4, GotoFields DEF Labels
      <3>2. ASSUME Unfinished
            PROVE  Restored' /\ (Present \cap UpgradeNames = {file.snap})'
        <4>1. RollbackTarget(proc[p].st) = file.snap /\ file.snap \in UpgradeNames
          BY <1>4, <2>1, <3>2
        <4>2. /\ pending' = NoOp /\ Exists(file.snap) /\ Later(file.snap) = {}
              /\ UNCHANGED snaps /\ guest'.fw = snaps[file.snap]
          BY <2>4, <4>1 DEF QmDone, Accepts, Effect, Restore
        <4>3. Present \cap UpgradeNames = {file.snap}
          BY <2>1, <2>2, <3>2, <4>1, <4>2 DEF Leftover, Present, Exists
        <4>. QED BY <2>1, <4>2, <4>3 DEF Restored, OnBaseline, Exists, Present, NoOp
      <3>. QED BY <1>6, <2>1, <2>3, <3>1, <3>2
    <2>. QED BY <1>2, <1>d, <2>3, <2>4 DEF ResetRollback
  <1>e. CASE ResetRemove(p)
    <2>1. UNCHANGED vmVars /\ (file' = EmptyState \/ UNCHANGED file) /\ Exit(p, "none")
      BY <1>e DEF ResetRemove, SaveFailed
    <2>2. CASE UNCHANGED file
      <3>1. Recorded' BY <1>1, <2>1, <2>2, RecordedQuietly DEF vmVars
      <3>. QED BY <1>2, <2>1, <3>1
    <2>3. CASE file' = EmptyState
      <3>1. Recorded' BY <2>3 DEF Recorded, EmptyState, Unfinished, RestoredGuest
      <3>. QED BY <1>2, <2>1, <3>1
    <2>. QED BY <2>1, <2>2, <2>3
  <1>. QED BY <1>a, <1>b, <1>c, <1>d, <1>e DEF ResetStep

\* An invocation that starts or dies; one that dies while it updates the guest
\* leaves "executing" behind.
LEMMA InvocationCycle ==
  ASSUME UpgradeInv, SingleOperator, NEW p \in Procs,
         Crash(p) \/ \E c \in Commands : Invoke(p, c)
  PROVE  CycleInv'
  <1>1. TypeInv /\ ProcsOK /\ Recorded /\ CycleInHand(p)
    BY DEF UpgradeInv, TypeInv, CycleInv
  <1>2. UNCHANGED <<file, clock, overlooked, snaps, pending>>
    BY DEF Crash, Invoke, vmVars
  <1>3. guest' = guest \/ file.phase = "executing"
    BY <1>1 DEF Crash, Invoke, vmVars, CycleInHand, Updating
  <1>4. Recorded' BY <1>1, <1>2, <1>3, RecordedQuietly
  <1>5. proc'[p].at \in CycleQuiet
    <2>1. CASE Crash(p) BY <1>1, <2>1 DEF Crash, ProcsOK, Idle, CycleQuiet
    <2>2. ASSUME NEW c \in Commands, Invoke(p, c) PROVE proc'[p].at \in CycleQuiet
      <3>1. c \in Verbs BY UpgradeAssumption
      <3>2. Entry[c] \in CycleQuiet BY <3>1 DEF Entry, CycleQuiet, Verbs
      <3>3. proc'[p].at = Entry[c] BY <1>1, <2>2 DEF Invoke, ProcsOK, Idle
      <3>. QED BY <3>2, <3>3
    <2>. QED BY <2>1, <2>2
  <1>. QED BY <1>4, <1>5, CycleQuietStep, OneCycle

\* The surroundings: a detached operation that ends, or a snapshot of somebody
\* else's, disturbs no cycle.
LEMMA EnvironmentCycle ==
  ASSUME UpgradeInv, Environment
  PROVE  CycleInv'
  <1>1. TypeInv /\ Recorded /\ BornInv /\ WorkInv BY DEF UpgradeInv, CycleInv
  <1>2. UNCHANGED <<file, proc>>
    BY DEF Environment, DetachedOpEnds, Tick, StartGuest, OtherSnapshot
  <1>3. \/ UNCHANGED <<snaps, born>>
        \/ \E kind \in {"snapshot", "delete", "rollback"}, n \in Names :
             Changes([kind |-> kind, snap |-> n]) /\ (kind = "snapshot" => Wanted(n))
    BY <1>1, SnapshotsChange DEF Next
  <1>4. pending' \in {pending, NoOp}
        /\ (pending = NoOp => guest'.fw = guest.fw /\ pending' = NoOp)
        /\ (~DetachedOpEnds => guest'.fw = guest.fw)
    BY <1>1 DEF Environment, DetachedOpEnds, Tick, StartGuest, OtherSnapshot, Take,
                vmVars, TypeInv, VmOK
  <1>5. Unfinished /\ Exists(file.snap)' => Exists(file.snap) /\ snaps'[file.snap] = snaps[file.snap]
    <2>. SUFFICES ASSUME Unfinished, Exists(file.snap)'
                  PROVE  Exists(file.snap) /\ snaps'[file.snap] = snaps[file.snap]
      OBVIOUS
    <2>1. CASE UNCHANGED <<snaps, born>> BY <1>2, <2>1 DEF Exists
    <2>2. ASSUME NEW kind \in {"snapshot", "delete", "rollback"}, NEW n \in Names,
                 Changes([kind |-> kind, snap |-> n]), kind = "snapshot" => Wanted(n)
          PROVE  Exists(file.snap) /\ snaps'[file.snap] = snaps[file.snap]
      <3>1. CASE kind = "snapshot" /\ Take(n) /\ ~Exists(n)
        <4>1. n # file.snap BY <2>2, <3>1, BaselineNotRetaken
        <4>. QED BY <1>1, <1>2, <3>1, <4>1 DEF Take, Exists, TypeInv, VmOK
      <3>2. CASE Remove(n)
        BY <1>1, <1>2, <3>2 DEF Remove, Exists, TypeInv, VmOK
      <3>3. CASE Restore(n) BY <1>2, <3>3 DEF Restore, Exists
      <3>. QED BY <2>2, <3>1, <3>2, <3>3 DEF Changes, Effect
    <2>. QED BY <1>3, <2>1, <2>2
  <1>6. RestoredGuest'
    <2>. SUFFICES ASSUME file.phase = "rolled_back", Exists(file.snap)'
                  PROVE  guest'.fw = snaps'[file.snap]
      BY <1>2 DEF RestoredGuest
    <2>1. Unfinished BY DEF Unfinished
    <2>2. guest.fw = snaps[file.snap] /\ snaps'[file.snap] = snaps[file.snap]
      BY <1>1, <1>5, <2>1 DEF Recorded, RestoredGuest
    <2>3. CASE guest'.fw = guest.fw BY <2>2, <2>3
    <2>4. CASE DetachedOpEnds
      <3>1. CASE pending.kind = "rollback" /\ Restore(pending.snap)
        BY <1>1, <2>2, <3>1 DEF Recorded, Restore
      <3>2. CASE UNCHANGED guest BY <2>3, <3>2
      <3>. QED BY <2>4, <3>1, <3>2 DEF DetachedOpEnds, Effect, Take, Remove
    <2>. QED BY <1>4, <2>3, <2>4
  <1>7. Recorded'
    BY <1>1, <1>2, <1>4, <1>6 DEF Recorded, Unfinished, NoOp
  <1>8. Unfinished /\ Restored => Restored'
    <2>. SUFFICES ASSUME Unfinished, Restored PROVE Restored'
      OBVIOUS
    <2>1. pending = NoOp /\ Exists(file.snap) /\ guest.fw = snaps[file.snap]
      BY DEF Restored, OnBaseline
    <2>2. \/ UNCHANGED snaps
          \/ \E n \in WatchdogNames \cup UserNames : OtherSnapshot(n)
      BY <2>1 DEF Environment, DetachedOpEnds, Tick, StartGuest, vmVars
    <2>3. snaps'[file.snap] = snaps[file.snap] /\ Exists(file.snap)'
      <3>1. CASE UNCHANGED snaps BY <1>2, <2>1, <3>1 DEF Exists
      <3>2. ASSUME NEW n \in WatchdogNames \cup UserNames, OtherSnapshot(n)
            PROVE  snaps'[file.snap] = snaps[file.snap] /\ Exists(file.snap)'
        <4>1. ~Exists(n) /\ Take(n) BY <3>2 DEF OtherSnapshot, Accepts
        <4>2. n # file.snap BY <2>1, <4>1
        <4>. QED BY <1>1, <1>2, <2>1, <4>1, <4>2 DEF Take, Exists, TypeInv, VmOK
      <3>. QED BY <2>2, <3>1, <3>2
    <2>. QED BY <1>2, <1>4, <2>1, <2>3 DEF Restored, OnBaseline, NoOp
  <1>9. ASSUME Unfinished, pending = NoOp
        PROVE  (Present \cap UpgradeNames)' = Present \cap UpgradeNames
    <2>1. CASE UNCHANGED snaps BY <2>1 DEF Present
    <2>2. ASSUME NEW n \in WatchdogNames \cup UserNames, OtherSnapshot(n)
          PROVE  (Present \cap UpgradeNames)' = Present \cap UpgradeNames
      <3>1. n \notin UpgradeNames BY UpgradeAssumption DEF UpgradeNames
      <3>. QED BY <1>1, <2>2, <3>1 DEF OtherSnapshot, Take, Present, TypeInv, VmOK
    <2>. QED BY <1>9, <2>1, <2>2
         DEF Environment, DetachedOpEnds, Tick, StartGuest, vmVars
  <1>10. ASSUME Unfinished, NEW p \in Procs, Leftover(p),
                proc[p].at \in {"z_del", "z_qm"}
         PROVE  Leftover(p)'
    <2>1. file.snap \in Names
      BY <1>1, <1>10 DEF Recorded, Unfinished, TypeInv, State, Names
    <2>2. CASE UNCHANGED <<snaps, born>>
      BY <1>2, <1>10, <2>2 DEF Leftover, Present, Later
    <2>3. ASSUME NEW kind \in {"snapshot", "delete", "rollback"}, NEW n \in Names,
                 Changes([kind |-> kind, snap |-> n]), kind = "snapshot" => Wanted(n)
          PROVE  Leftover(p)'
      <3>1. kind = "snapshot" => n # file.snap
        <4>1. kind = "snapshot" => ~Exists(n) BY <2>3 DEF Changes
        <4>. QED BY <1>10, <2>3, <4>1, BaselineNotRetaken
      <3>2. ASSUME NEW t \in Names, kind = "snapshot" => n # t
            PROVE  \A k \in Present' : \/ k = t
                                       \/ k \in Present /\ k \notin Later(t)
                                       \/ k \in Later(t)'
        BY <1>1, <2>3, <3>2, LaterSurvives
      <3>3. \A k \in Present' : \/ k = file.snap
                                \/ k \in Present /\ k \notin Later(file.snap)
                                \/ k \in Later(file.snap)'
        BY <1>2, <2>1, <3>1, <3>2 DEF Later
      <3>. QED BY <1>2, <1>10, <3>3 DEF Leftover
    <2>. QED BY <1>3, <2>2, <2>3
  <1>11. ASSUME NEW p \in Procs PROVE CycleInHand(p)'
    <2>1. CycleInHand(p) BY DEF UpgradeInv, CycleInv
    <2>2. proc[p].at \in {"r_start", "r_startfail", "r_wait", "r_save"} => Restored'
      <3>1. proc[p].at \in {"r_start", "r_startfail", "r_wait", "r_save"} => Unfinished
        BY <2>1 DEF CycleInHand, InRollback, rollbackAllowedFrom, Unfinished
      <3>. QED BY <1>8, <2>1, <3>1 DEF CycleInHand
    <2>3. proc[p].at \in {"z_del", "z_qm"} /\ Unfinished => Leftover(p)'
      BY <1>10, <2>1 DEF CycleInHand, Leftover
    <2>4. proc[p].at = "z_rm" /\ Unfinished
            => Restored' /\ (Present \cap UpgradeNames)' = {file.snap}
      BY <1>8, <1>9, <2>1 DEF CycleInHand, Restored
    <2>. QED BY <1>2, <2>1, <2>2, <2>3, <2>4 DEF CycleInHand, Leftover, Unfinished
  <1>. QED BY <1>7, <1>11 DEF CycleInv

\* CycleInv survives every step when one invocation runs at a time.
LEMMA CycleInvStep ==
  ASSUME SingleOperator, UpgradeInv, [Next]_vars
  PROVE  CycleInv'
  <1>1. CASE Environment BY <1>1, EnvironmentCycle
  <1>2. ASSUME NEW p \in Procs, Crash(p) \/ (\E c \in Commands : Invoke(p, c))
        PROVE  CycleInv'
    BY <1>2, InvocationCycle
  <1>3. ASSUME NEW p \in Procs, Step(p) PROVE CycleInv'
    BY <1>3, PrepareCycle, ExecuteCycle, ValidateCycle, RollbackCycle,
       CommitCycle, GCCycle, ResetCycle DEF Step
  <1>4. CASE UNCHANGED vars
    BY <1>4 DEF vars, vmVars, UpgradeInv, CycleInv, Recorded, CycleInHand, Unfinished,
                RestoredGuest, Restored, OnBaseline, Exists, Present, Later, NoOp
  <1>. QED BY <1>1, <1>2, <1>3, <1>4 DEF Next

\* With one invocation at a time the whole inductive invariant holds in every
\* reachable state.
THEOREM UpgradeInvariant ==
  ASSUME SingleOperator
  PROVE  Spec => []UpgradeInv
  <1>1. Init => CycleInv
    BY UpgradeAssumption DEF Init, CycleInv, Recorded, CycleInHand, EmptyState, NoOp,
       Idle, Unfinished, RestoredGuest, Updating, InRollback
  <1>2. TypeInv /\ WorkInv /\ BornInv /\ BaselineInv /\ CycleInv /\ [Next]_vars => CycleInv'
    BY CycleInvStep DEF UpgradeInv
  <1>3. TypeInv /\ WorkInv /\ BornInv /\ BaselineInv /\ CycleInv => UpgradeInv
    BY DEF UpgradeInv
  <1>. QED BY <1>1, <1>2, <1>3, TypeInvInductive, WorkInvInductive, ListingOrderSound,
              BaselineInvariant, PTL DEF Spec

-----------------------------------------------------------------------------
(* What the invariant gives, with one invocation at a time.                *)

\* A recorded rollback is a real one: as long as its snapshot is there, the
\* guest runs the firmware that snapshot holds.
THEOREM RolledBackMeansRestored ==
  ASSUME SingleOperator
  PROVE  Spec => []RestoredGuest
  <1>1. UpgradeInv => RestoredGuest BY DEF UpgradeInv, CycleInv, Recorded
  <1>. QED BY <1>1, UpgradeInvariant, PTL

\* While a cycle is recorded as merely prepared, no invocation is changing the
\* guest.
THEOREM PreparedIsUntouched ==
  ASSUME SingleOperator
  PROVE  Spec => []PreparedMeansUntouched
  <1>1. UpgradeInv => PreparedMeansUntouched
    <2>. SUFFICES ASSUME UpgradeInv, file.phase = "prepared", NEW p \in Procs
                  PROVE  proc[p].at \notin {"x_plan", "x_apply", "x_reboot", "x_verify"}
      BY DEF PreparedMeansUntouched
    <2>1. CycleInHand(p) BY DEF UpgradeInv, CycleInv
    <2>. QED BY <2>1 DEF CycleInHand, Updating
  <1>. QED BY <1>1, UpgradeInvariant, PTL

\* How a step writes the file: which save it is, over what, and from whose hand.
Writes(p) ==
  \/ PrepareSave(p) /\ file' = proc[p].st /\ overlooked' = FALSE
  \/ ExecuteMark(p) /\ file' = proc[p].st
  \/ ExecuteSave(p) /\ file' = proc[p].st
  \/ ValidateSave(p) /\ file' = proc[p].st
  \/ (RollbackStartFailed(p) \/ RollbackFail(p))
       /\ file' = [proc[p].st EXCEPT !.phase = "rollback_failed"]
  \/ RollbackSave(p) /\ file' = proc[p].st
  \/ CommitSave(p) /\ file' = proc[p].st
  \/ ResetRemove(p) /\ file' = EmptyState /\ overlooked' = FALSE

\* Nothing else writes it, and only gc overlooks a baseline.
LEMMA OnlySavesWrite ==
  ASSUME [Next]_vars
  PROVE  \/ UNCHANGED <<file, overlooked>>
         \/ \E p \in Procs : Writes(p) \/ GCLoad(p)
  <1>1. ASSUME NEW p \in Procs, Step(p)
        PROVE  UNCHANGED <<file, overlooked>> \/ Writes(p) \/ GCLoad(p)
    <2>. USE DEF Saved, SaveFailed, Writes
    <2>a. CASE PrepareStep(p)
      BY <2>a DEF PrepareStep, PrepareLoad, PrepareCapture, PrepareSnapshot, PrepareSave
    <2>b. CASE ExecuteStep(p)
      BY <2>b DEF ExecuteStep, ExecuteLoad, ExecuteMark, ExecutePlan, ExecuteApply,
                  ExecuteReboot, ExecuteVerify, ExecuteSave, RunAfterExecute
    <2>c. CASE ValidateStep(p)
      BY <2>c DEF ValidateStep, ValidateLoad, ValidateCheck, ValidateSave
    <2>d. CASE RollbackStep(p)
      BY <2>d DEF RollbackStep, RollbackLoad, RollbackList, RollbackDelete, RollbackQm,
                  RollbackStart, RollbackStartFailed, RollbackWait, RollbackFail,
                  RollbackSave
    <2>e. CASE CommitStep(p)
      BY <2>e DEF CommitStep, CommitLoad, CommitDelete, CommitSave
    <2>f. CASE GCStep(p)
      BY <2>f DEF GCStep, GCList, GCDelete
    <2>g. CASE ResetStep(p)
      BY <2>g DEF ResetStep, ResetLoad, ResetList, ResetDelete, ResetRollback, ResetRemove
    <2>. QED BY <1>1, <2>a, <2>b, <2>c, <2>d, <2>e, <2>f, <2>g DEF Step
  <1>2. ASSUME NEW p \in Procs, Crash(p) \/ \E c \in Commands : Invoke(p, c)
        PROVE  UNCHANGED <<file, overlooked>>
    BY <1>2 DEF Crash, Invoke
  <1>3. CASE Environment \/ UNCHANGED vars
    BY <1>3 DEF Environment, DetachedOpEnds, Tick, StartGuest, OtherSnapshot, vars
  <1>. QED BY <1>1, <1>2, <1>3 DEF Next

\* A save leaves the snapshots alone.
LEMMA WritesOnlyFile ==
  ASSUME NEW p \in Procs, Writes(p)
  PROVE  UNCHANGED vmVars
  BY DEF Writes, PrepareSave, ExecuteMark, ExecuteSave, ValidateSave,
         RollbackStartFailed, RollbackFail, RollbackSave, CommitSave, ResetRemove

\* When reset removes the state of an unfinished cycle, the guest is back on the
\* baseline and no other upgrade snapshot is left over.
THEOREM ResetAlwaysRestores ==
  ASSUME SingleOperator
  PROVE  Spec => ResetRestores
  <1>1. UpgradeInv /\ [Next]_vars
          => (file.phase \notin {"empty", "committed"} /\ file' = EmptyState
                => /\ Exists(file.snap) /\ guest.fw = snaps[file.snap]
                   /\ Present \cap UpgradeNames = {file.snap})
    <2>. SUFFICES ASSUME UpgradeInv, [Next]_vars,
                         file.phase \notin {"empty", "committed"}, file' = EmptyState
                  PROVE  /\ Exists(file.snap) /\ guest.fw = snaps[file.snap]
                         /\ Present \cap UpgradeNames = {file.snap}
      OBVIOUS
    <2>1. Unfinished /\ file' # file BY DEF Unfinished, EmptyState
    <2>2. PICK p \in Procs : Writes(p) BY <2>1, OnlySavesWrite DEF GCLoad
    <2>3. CycleInHand(p) /\ InHand(p) /\ proc[p].st \in State
      BY Remembered DEF UpgradeInv, TypeInv, CycleInv, BaselineInv
    <2>4. ResetRemove(p)
      <3>1. file'.phase = "empty" BY DEF EmptyState
      <3>2. PrepareSave(p) => proc[p].st.phase = "prepared"
        BY <2>3 DEF PrepareSave, CycleInHand
      <3>3. ExecuteMark(p) => proc[p].st.phase = "executing"
        BY <2>3 DEF ExecuteMark, CycleInHand
      <3>4. ExecuteSave(p) => proc[p].st.phase # "empty"
        BY <2>3 DEF ExecuteSave, CycleInHand
      <3>5. ValidateSave(p) => proc[p].st.phase # "empty"
        BY <2>3 DEF ValidateSave, CycleInHand
      <3>6. RollbackSave(p) => proc[p].st.phase # "empty"
        BY <2>3 DEF RollbackSave, CycleInHand
      <3>7. CommitSave(p) => proc[p].st.phase # "empty"
        BY <2>3 DEF CommitSave, InHand
      <3>8. [proc[p].st EXCEPT !.phase = "rollback_failed"].phase = "rollback_failed"
        BY <2>3 DEF State
      <3>. QED BY <2>2, <3>1, <3>2, <3>3, <3>4, <3>5, <3>6, <3>7, <3>8 DEF Writes
    <2>5. proc[p].at = "z_rm" BY <2>4 DEF ResetRemove
    <2>. QED BY <2>1, <2>3, <2>5 DEF CycleInHand, Restored, OnBaseline
  <1>. QED BY <1>1, UpgradeInvariant, PTL DEF Spec, ResetRestores

-----------------------------------------------------------------------------
(* Upgrade implements UpgradeLifecycle when one invocation runs at a time. *)

\* The value of the abstract variable "kept".
Kept == file.phase \notin {"empty", "committed"} /\ Exists(file.snap)

\* Steps that do not write the file: the baseline can only be released, once the
\* cycle has no use for it or after gc has overlooked it.
LEMMA SnapshotsRefine ==
  ASSUME SingleOperator, UpgradeInv, BaselineInv', [Next]_vars,
         UNCHANGED <<file, overlooked>>
  PROVE  Lifecycle!Release \/ Kept' = Kept
  <1>1. CASE ~Unfinished
    BY <1>1 DEF Unfinished, Kept
  <1>2. CASE Needed
    <2>1. Kept /\ Kept'
      BY <1>2 DEF UpgradeInv, BaselineInv, BaselineKept, Needed, Kept, Unreleased
    <2>. QED BY <2>1
  <1>3. CASE Unfinished /\ ~Needed
    <2>1. file.phase \in Lifecycle!Released \/ overlooked
      <3>1. file.phase \in Phases BY DEF UpgradeInv, TypeInv, State
      <3>. QED BY <1>3, <3>1
               DEF Lifecycle!Released, Phases, Unfinished, Needed, Unreleased
    <2>2. Exists(file.snap)' => Exists(file.snap)
      <3>1. TypeInv /\ WorkInv /\ snaps \in [Names -> Fw \cup {None}]
        BY DEF UpgradeInv, TypeInv, VmOK
      <3>2. CASE UNCHANGED <<snaps, born>> BY <3>2 DEF Exists
      <3>3. ASSUME NEW kind \in {"snapshot", "delete", "rollback"}, NEW n \in Names,
                   Changes([kind |-> kind, snap |-> n]), kind = "snapshot" => Wanted(n)
            PROVE  Exists(file.snap)' => Exists(file.snap)
        <4>1. CASE kind = "snapshot" /\ Take(n) /\ ~Exists(n)
          <5>1. n # file.snap BY <1>3, <3>3, <4>1, BaselineNotRetaken
          <5>. QED BY <3>1, <4>1, <5>1 DEF Take, Exists
        <4>2. CASE Remove(n) BY <3>1, <4>2 DEF Remove, Exists
        <4>3. CASE Restore(n) BY <4>3 DEF Restore, Exists
        <4>. QED BY <3>3, <4>1, <4>2, <4>3 DEF Changes, Effect
      <3>. QED BY <3>1, <3>2, <3>3, SnapshotsChange
    <2>3. CASE Kept /\ ~Kept'
      BY <2>1, <2>3 DEF Lifecycle!Release, Kept
    <2>4. CASE ~(Kept /\ ~Kept')
      BY <1>3, <2>2, <2>4 DEF Kept, Unfinished
    <2>. QED BY <2>3, <2>4
  <1>. QED BY <1>1, <1>2, <1>3

\* The first step of gc: it leaves the baseline pinned, or overlooks it.
LEMMA OverlookRefines ==
  ASSUME UpgradeInv, NEW p \in Procs, GCLoad(p)
  PROVE  Lifecycle!Overlook \/ UNCHANGED Lifecycle!vars
  <1>1. UNCHANGED file /\ Kept' = Kept BY DEF GCLoad, vmVars, Kept, Exists
  <1>2. UNCHANGED overlooked \/ (~overlooked /\ overlooked')
    BY DEF GCLoad, UpgradeInv, TypeInv
  <1>3. CASE UNCHANGED overlooked BY <1>1, <1>3 DEF Lifecycle!vars, Kept
  <1>4. CASE ~overlooked /\ overlooked' BY <1>1, <1>4 DEF Lifecycle!Overlook, Kept
  <1>. QED BY <1>2, <1>3, <1>4

\* The phases and guards are the same on both sides.
LEMMA SamePhases ==
  /\ \A a, b : Lifecycle!CanTransition(a, b) <=> CanTransition(a, b)
  /\ \A a : Lifecycle!validateAllowedFrom(a) <=> validateAllowedFrom(a)
  /\ \A a : Lifecycle!rollbackAllowedFrom(a) <=> rollbackAllowedFrom(a)
  /\ \A a : Lifecycle!commitAllowedFrom(a) <=> commitAllowedFrom(a)
  BY DEF Lifecycle!CanTransition, CanTransition,
         Lifecycle!allowedTransitions, allowedTransitions,
         Lifecycle!validateAllowedFrom, validateAllowedFrom,
         Lifecycle!rollbackAllowedFrom, rollbackAllowedFrom,
         Lifecycle!commitAllowedFrom, commitAllowedFrom

\* Steps that write the file: each is the edge of the lifecycle it is named for.
LEMMA SavesRefine ==
  ASSUME SingleOperator, UpgradeInv, BaselineInv', NEW p \in Procs, Writes(p)
  PROVE  Lifecycle!Next \/ UNCHANGED Lifecycle!vars
  <1>1. /\ CycleInHand(p) /\ InHand(p) /\ Recorded /\ proc[p].st \in State
        /\ BaselineKept /\ BaselineKept'
    BY Remembered DEF UpgradeInv, TypeInv, CycleInv, BaselineInv
  <1>2. \A n : Exists(n)' <=> Exists(n) BY WritesOnlyFile DEF vmVars, Exists
  <1>. USE DEF Kept
  <1>3. CASE PrepareSave(p) /\ file' = proc[p].st /\ overlooked' = FALSE
    <2>1. /\ CanTransition(file.phase, "prepared") /\ file'.phase = "prepared"
          /\ Exists(file'.snap)
      BY <1>1, <1>3 DEF PrepareSave, CycleInHand, InHand
    <2>2. Lifecycle!Open BY <1>2, <1>3, <2>1, SamePhases DEF Lifecycle!Open
    <2>. QED BY <2>2 DEF Lifecycle!Next
  <1>4. CASE ExecuteMark(p) /\ file' = proc[p].st
    <2>1. /\ file.phase = "prepared" /\ file'.phase = "executing"
          /\ file'.snap = file.snap
      BY <1>1, <1>4 DEF ExecuteMark, CycleInHand, InHand, Carrying, Updating
    <2>2. CanTransition("prepared", "executing")
      BY DEF CanTransition, allowedTransitions
    <2>3. UNCHANGED overlooked BY <1>4 DEF ExecuteMark
    <2>4. Lifecycle!Begin BY <1>2, <2>1, <2>2, <2>3, SamePhases DEF Lifecycle!Begin
    <2>. QED BY <2>4 DEF Lifecycle!Next
  <1>5. CASE ExecuteSave(p) /\ file' = proc[p].st
    <2>1. /\ file.phase = "executing" /\ file'.snap = file.snap
          /\ file'.phase \in {"executed", "execute_failed", "execute_hung"}
      BY <1>1, <1>5 DEF ExecuteSave, CycleInHand, InHand, Carrying, Updating
    <2>2. UNCHANGED overlooked BY <1>5 DEF ExecuteSave
    <2>3. Lifecycle!End BY <1>2, <2>1, <2>2 DEF Lifecycle!End
    <2>. QED BY <2>3 DEF Lifecycle!Next
  <1>6. CASE ValidateSave(p) /\ file' = proc[p].st
    <2>1. /\ validateAllowedFrom(file.phase) /\ file'.snap = file.snap
          /\ file'.phase \in {"validated_pass", "validated_partial", "validated_fail"}
          /\ file.phase = "rolled_back" => file'.phase = "validated_pass"
      BY <1>1, <1>6 DEF ValidateSave, CycleInHand, InHand, Carrying
    <2>2. UNCHANGED overlooked BY <1>6 DEF ValidateSave
    <2>3. Lifecycle!Judge
      BY <1>2, <2>1, <2>2, SamePhases DEF Lifecycle!Judge, validateAllowedFrom
    <2>. QED BY <2>3 DEF Lifecycle!Next
  <1>7. CASE \/ (RollbackStartFailed(p) \/ RollbackFail(p))
               /\ file' = [proc[p].st EXCEPT !.phase = "rollback_failed"]
             \/ RollbackSave(p) /\ file' = proc[p].st
    <2>1. proc[p].at \in InRollback \cap Carrying
      BY <1>7 DEF RollbackStartFailed, RollbackFail, RollbackSave, InRollback, Carrying
    <2>2. rollbackAllowedFrom(file.phase) /\ proc[p].st.snap = file.snap
      BY <1>1, <2>1 DEF CycleInHand, InHand
    <2>3. /\ file'.phase \in {"rolled_back", "rollback_failed"}
          /\ file'.snap = file.snap
      BY <1>1, <1>7, <2>2 DEF RollbackSave, CycleInHand, State
    <2>4. Exists(file.snap) \/ overlooked
      BY <1>1, <2>2 DEF BaselineKept, Needed, rollbackAllowedFrom, Unreleased
    <2>5. file'.phase = "rolled_back" => Exists(file.snap)
      BY <1>1, <1>7 DEF RollbackSave, CycleInHand, Restored, OnBaseline, State
    <2>6. UNCHANGED overlooked
      BY <1>7 DEF RollbackStartFailed, RollbackFail, RollbackSave
    <2>7. Lifecycle!Revert
      BY <1>2, <2>2, <2>3, <2>4, <2>5, <2>6, SamePhases
         DEF Lifecycle!Revert, rollbackAllowedFrom
    <2>. QED BY <2>7 DEF Lifecycle!Next
  <1>8. CASE CommitSave(p) /\ file' = proc[p].st
    <2>1. commitAllowedFrom(file.phase) /\ file'.phase = "committed"
      BY <1>1, <1>8 DEF CommitSave, CycleInHand, InHand
    <2>2. UNCHANGED overlooked BY <1>8 DEF CommitSave
    <2>3. Lifecycle!Commit BY <2>1, <2>2, SamePhases DEF Lifecycle!Commit
    <2>. QED BY <2>3 DEF Lifecycle!Next
  <1>9. CASE ResetRemove(p) /\ file' = EmptyState /\ overlooked' = FALSE
    <2>1. file'.phase = "empty" BY <1>9 DEF EmptyState
    <2>2. CASE ~Unfinished
      <3>1. Lifecycle!Abandon
        BY <1>9, <2>1, <2>2 DEF Lifecycle!Abandon, Unfinished
      <3>. QED BY <3>1 DEF Lifecycle!Next
    <2>3. CASE Unfinished
      <3>1. Exists(file.snap)
        BY <1>1, <1>9, <2>3 DEF ResetRemove, CycleInHand, Restored, OnBaseline
      <3>2. Lifecycle!Abandon BY <1>9, <2>1, <2>3, <3>1 DEF Lifecycle!Abandon, Unfinished
      <3>. QED BY <3>2 DEF Lifecycle!Next
    <2>. QED BY <2>2, <2>3
  <1>. QED BY <1>3, <1>4, <1>5, <1>6, <1>7, <1>8, <1>9 DEF Writes

\* Every step of the orchestrator is a step of the abstract lifecycle or leaves
\* it alone, whatever crashes, fails to be saved or outlives its caller.
THEOREM UpgradeImplementsLifecycle ==
  ASSUME SingleOperator
  PROVE  Spec => ImplementsLifecycle
  <1>1. Init => Lifecycle!Init
    BY DEF Init, EmptyState, Lifecycle!Init
  <1>2. UpgradeInv /\ BaselineInv' /\ [Next]_vars => [Lifecycle!Next]_(Lifecycle!vars)
    <2>. SUFFICES ASSUME UpgradeInv, BaselineInv', [Next]_vars
                  PROVE  [Lifecycle!Next]_(Lifecycle!vars)
      OBVIOUS
    <2>1. CASE UNCHANGED <<file, overlooked>>
      <3>1. Lifecycle!Release \/ Kept' = Kept BY <2>1, SnapshotsRefine
      <3>2. CASE Kept' = Kept BY <2>1, <3>2 DEF Lifecycle!vars, Kept
      <3>. QED BY <3>1, <3>2 DEF Lifecycle!Next
    <2>2. ASSUME NEW p \in Procs, Writes(p) PROVE [Lifecycle!Next]_(Lifecycle!vars)
      BY <2>2, SavesRefine
    <2>3. ASSUME NEW p \in Procs, GCLoad(p) PROVE [Lifecycle!Next]_(Lifecycle!vars)
      BY <2>3, OverlookRefines DEF Lifecycle!Next
    <2>. QED BY <2>1, <2>2, <2>3, OnlySavesWrite
  <1>3. UpgradeInv => BaselineInv BY DEF UpgradeInv
  <1>. QED BY <1>1, <1>2, <1>3, UpgradeInvariant, PTL
       DEF Spec, ImplementsLifecycle, Lifecycle!Spec

=============================================================================
