------------------------------ MODULE Upgrade ------------------------------
(***************************************************************************)
(* The upgrade orchestrator of internal/upgrade: `mwan opnsense upgrade    *)
(* prepare | execute | validate | rollback | commit | run | gc | reset`.   *)
(*                                                                         *)
(* An invocation is a short-lived process.  It loads state.json, talks to  *)
(* Proxmox (qm) and to the guest, and writes state.json again; nothing     *)
(* locks the file in between.  Every externally visible effect is one      *)
(* step, so an invocation can be killed, or overtaken by another one,      *)
(* between any two of them.                                                *)
(***************************************************************************)
EXTENDS UpgradePhases, Integers, FiniteSets

CONSTANTS
  Procs,         \* invocations that may run at the same time
  Commands,      \* the verbs the operator uses, a subset of Verbs
  MaxTime,       \* bound on the clock; the seconds in snapshot names
  GCAge,         \* opts.OlderThan, in clock ticks
  Fw,            \* firmware states a guest disk can hold
  WatchdogNames, \* pre-deploy-* and known-good-* snapshots of the watchdog
  UserNames,     \* snapshots an operator takes by hand, named as neither of these
  None           \* "no snapshot", "no firmware", "no operation"

Verbs == {"prepare", "execute", "validate", "rollback", "commit", "run",
          "gc", "reset"}

ASSUME UpgradeAssumption ==
  /\ Commands \subseteq Verbs
  /\ MaxTime \in Nat \ {0}
  /\ GCAge \in Nat \ {0}
  /\ None \notin Fw
  /\ IsFiniteSet(WatchdogNames) /\ IsFiniteSet(UserNames)
  /\ None \notin WatchdogNames \cup UserNames \cup (1..MaxTime)
  /\ (WatchdogNames \cup UserNames) \cap (1..MaxTime) = {}
  /\ WatchdogNames \cap UserNames = {}

VARIABLES
  file,     \* state.json: [phase, snap]; phase "empty" is the missing file
  snaps,    \* snaps[n]: firmware held by snapshot n, None when n does not exist
  born,     \* born[n]: position of n in qm listsnapshot, 0 when absent
  guest,    \* the VM: [fw, up]
  pending,  \* a qm operation that outlived the invocation that asked for it
  clock,
  overlooked, \* history: a gc that could not read state.json has left the
              \* recorded baseline unpinned
  proc      \* proc[p]: what invocation p holds in memory, see Memory

vmVars == <<snaps, born, guest, pending>>
vars   == <<file, vmVars, clock, overlooked, proc>>

-----------------------------------------------------------------------------
(* Snapshots.  An upgrade snapshot is named after the second its prepare   *)
(* started in, so here its name is that clock value.                       *)

UpgradeNames == 1..MaxTime
Names        == UpgradeNames \cup WatchdogNames \cup UserNames

Exists(n)    == n \in Names /\ snaps[n] # None
Present      == {n \in Names : snaps[n] # None}
Later(n)     == {m \in Present : born[m] > born[n]}
Newest       == 1 + Cardinality(Present)

EmptyState == [phase |-> "empty", snap |-> None]
NoOp       == [kind |-> "none", snap |-> None]
State      == [phase : Phases, snap : UpgradeNames \cup {None}]

\* What each lock-holding operation does to the VM once it succeeds.
Remove(n) ==
  /\ snaps' = [snaps EXCEPT ![n] = None]
  /\ born'  = [m \in Names |-> IF m = n THEN 0
                               ELSE IF born[m] > born[n] THEN born[m] - 1
                               ELSE born[m]]
  /\ UNCHANGED guest

Take(n) ==
  /\ snaps' = [snaps EXCEPT ![n] = guest.fw]
  /\ born'  = [born EXCEPT ![n] = Newest]
  /\ UNCHANGED guest

Restore(n) ==
  /\ \E up \in BOOLEAN : guest' = [fw |-> snaps[n], up |-> up]
  /\ UNCHANGED <<snaps, born>>

\* qm accepts an operation when the guest lock is free and the snapshot is
\* there (delete, rollback) or not there yet (snapshot); the storage rolls back
\* to the newest snapshot only, which is why Rollback deletes children first.
Accepts(op) ==
  /\ pending = NoOp
  /\ \/ op.kind = "snapshot" /\ ~Exists(op.snap)
     \/ op.kind = "delete"   /\ Exists(op.snap)
     \/ op.kind = "rollback" /\ Exists(op.snap) /\ Later(op.snap) = {}

Effect(op) ==
  \/ op.kind = "snapshot" /\ Take(op.snap)
  \/ op.kind = "delete"   /\ Remove(op.snap)
  \/ op.kind = "rollback" /\ Restore(op.snap)

\* runQmDetached returns nil.
QmDone(kind, n) ==
  LET op == [kind |-> kind, snap |-> n] IN
  /\ Accepts(op)
  /\ Effect(op)
  /\ UNCHANGED pending

\* runQmDetached returns an error.  Either qm refused or failed, a rollback
\* possibly after it had stopped the VM, or the 75 minute wait ran out (or the
\* invocation was killed) while the detached operation keeps going.
QmError(kind, n) ==
  LET op == [kind |-> kind, snap |-> n] IN
  /\ UNCHANGED <<snaps, born>>
  /\ \/ UNCHANGED pending
     \/ Accepts(op) /\ pending' = op
  /\ \/ UNCHANGED guest
     \/ kind = "rollback" /\ Accepts(op) /\ guest' = [guest EXCEPT !.up = FALSE]

\* The detached operation ends on its own terms.
DetachedOpEnds ==
  /\ pending # NoOp
  /\ pending' = NoOp
  /\ \/ Effect(pending)
     \/ UNCHANGED <<snaps, born, guest>>
  /\ UNCHANGED <<file, clock, overlooked, proc>>

-----------------------------------------------------------------------------
(* Control of one invocation.  A step that reads state.json may find a file *)
(* it cannot read or parse: every verb but gc then ends.                   *)

Entry == [prepare |-> "p_load", execute |-> "x_load", validate |-> "v_load",
          rollback |-> "r_load", commit |-> "c_load", run |-> "p_load",
          gc |-> "g_load", reset |-> "z_load"]

Labels == {"idle", "p_load", "p_capture", "p_snap", "p_save",
           "x_load", "x_mark", "x_plan", "x_apply", "x_reboot", "x_verify",
           "x_save", "x_done", "v_load", "v_check", "v_save",
           "r_load", "r_list", "r_del", "r_qm", "r_start", "r_startfail",
           "r_wait", "r_fail", "r_save", "c_load", "c_del", "c_save",
           "g_load", "g_list", "g_del", "z_load", "z_list", "z_del",
           "z_qm", "z_rm"}

Memory == [at   : Labels,             \* the next step
           verb : Verbs \cup {"none"}, \* the command being run
           st   : State,              \* the State value the phase function holds
           todo : SUBSET Names,       \* snapshots it has still to delete
           said : Phases \cup {"none"}] \* RunOutcome.Reached of the last run

Idle == [at |-> "idle", verb |-> "none", st |-> EmptyState, todo |-> {},
         said |-> "none"]

Goto(p, label)         == proc' = [proc EXCEPT ![p].at = label]
GotoWith(p, label, st) == proc' = [proc EXCEPT ![p].at = label, ![p].st = st]
GotoDoing(p, label, S) == proc' = [proc EXCEPT ![p].at = label, ![p].todo = S]

\* The invocation exits.  For a run, `reached` is its RunOutcome.Reached.
Exit(p, reached) ==
  proc' = [proc EXCEPT ![p] =
             [Idle EXCEPT !.said = IF proc[p].verb = "run" THEN reached ELSE "none"]]

\* saveStateCtx replaces the file atomically or leaves it alone.
Saved(st)  == file' = st
SaveFailed == UNCHANGED file

Invoke(p, c) ==
  /\ proc[p].at = "idle"
  /\ proc' = [proc EXCEPT ![p] = [Idle EXCEPT !.at = Entry[c], !.verb = c]]
  /\ UNCHANGED <<file, vmVars, clock, overlooked>>

\* The process dies between two effects.  An update or a reboot it had started
\* in the guest takes its own course.
Crash(p) ==
  /\ proc[p].at # "idle"
  /\ proc' = [proc EXCEPT ![p] = Idle]
  /\ \/ UNCHANGED guest
     \/ /\ proc[p].at \in {"x_apply", "x_reboot"}
        /\ guest.up
        /\ guest' \in [fw : Fw, up : BOOLEAN]
  /\ UNCHANGED <<file, snaps, born, pending, clock, overlooked>>

-----------------------------------------------------------------------------
(* Prepare                                                                 *)

PrepareLoad(p) ==
  /\ proc[p].at = "p_load"
  /\ \/ /\ CanTransition(file.phase, "prepared")
        /\ GotoWith(p, "p_capture", [phase |-> "prepared", snap |-> clock])
     \/ Exit(p, "empty")
  /\ UNCHANGED <<file, vmVars, clock, overlooked>>

\* config.xml and the firmware state must be readable from the guest; the
\* other captures and the boot environment never decide anything.
PrepareCapture(p) ==
  /\ proc[p].at = "p_capture"
  /\ \/ guest.up /\ Goto(p, "p_snap")
     \/ Exit(p, "empty")
  /\ UNCHANGED <<file, vmVars, clock, overlooked>>

PrepareSnapshot(p) ==
  /\ proc[p].at = "p_snap"
  /\ \/ QmDone("snapshot", proc[p].st.snap) /\ Goto(p, "p_save")
     \/ QmError("snapshot", proc[p].st.snap) /\ Exit(p, "empty")
  /\ UNCHANGED <<file, clock, overlooked>>

\* metadata.json, then state.json; either write may fail.
PrepareSave(p) ==
  /\ proc[p].at = "p_save"
  /\ \/ /\ Saved(proc[p].st) /\ overlooked' = FALSE
        /\ IF proc[p].verb = "run" THEN Goto(p, "x_load") ELSE Exit(p, "none")
     \/ SaveFailed /\ UNCHANGED overlooked /\ Exit(p, "empty")
  /\ UNCHANGED <<vmVars, clock>>

-----------------------------------------------------------------------------
(* Execute                                                                 *)

\* Under `run` the next stage follows whatever Execute returned; a run that
\* cannot read back what its prepare has written ends before it.
ExecuteReturns(p) ==
  IF proc[p].verb = "run" THEN Goto(p, "x_done") ELSE Exit(p, "none")

ExecuteLoad(p) ==
  /\ proc[p].at = "x_load"
  /\ \/ /\ CanTransition(file.phase, "executing")
        /\ GotoWith(p, "x_mark", [file EXCEPT !.phase = "executing"])
     \/ ExecuteReturns(p)
     \/ Exit(p, "prepared")
  /\ UNCHANGED <<file, vmVars, clock, overlooked>>

\* Mutant of ExecuteMark: a failed save of `executing` is only logged.
ExecuteMarkLogged(p) ==
  /\ proc[p].at = "x_mark"
  /\ \/ Saved(proc[p].st)
     \/ SaveFailed
  /\ Goto(p, "x_plan")
  /\ UNCHANGED <<vmVars, clock, overlooked>>

ExecuteMark(p) ==
  /\ proc[p].at = "x_mark"
  /\ \/ Saved(proc[p].st) /\ Goto(p, "x_plan")
     \/ SaveFailed /\ ExecuteReturns(p)
  /\ UNCHANGED <<vmVars, clock, overlooked>>

\* Mutant of Record: a phase the transition table has never heard of.
RecordUnknown(p, phase) ==
  GotoWith(p, "x_save", [proc[p].st EXCEPT
    !.phase = IF phase = "execute_hung" THEN "hung" ELSE phase])

\* finish and fail fix the phase to record; x_save writes it.
Record(p, phase) == GotoWith(p, "x_save", [proc[p].st EXCEPT !.phase = phase])

\* Read firmware.pre.json and find the pending change.  A dry run stops here
\* and is recorded as executed.  Only a step under the watchdog can be hung.
ExecutePlan(p) ==
  /\ proc[p].at = "x_plan"
  /\ \/ guest.up /\ (Goto(p, "x_apply") \/ Record(p, "executed"))
     \/ Record(p, "execute_failed")
     \/ Record(p, "execute_hung")
  /\ UNCHANGED <<file, vmVars, clock, overlooked>>

\* The update leaves the guest on some firmware, also when it fails half way.
ExecuteApply(p) ==
  /\ proc[p].at = "x_apply"
  /\ \/ UNCHANGED guest
     \/ guest.up /\ \E fw \in Fw : guest' = [guest EXCEPT !.fw = fw]
  /\ \/ guest.up /\ (Goto(p, "x_reboot") \/ Goto(p, "x_verify"))
     \/ Record(p, "execute_failed")
     \/ Record(p, "execute_hung")
  /\ UNCHANGED <<file, snaps, born, pending, clock, overlooked>>

\* A staged major upgrade lands during the reboot.  Without a new boot id in
\* time the step fails and the guest may be anywhere.
ExecuteReboot(p) ==
  /\ proc[p].at = "x_reboot"
  /\ \/ guest.up /\ guest' \in [fw : Fw, up : {TRUE}] /\ Goto(p, "x_verify")
     \/ UNCHANGED guest /\ Record(p, "execute_failed")
     \/ guest.up /\ guest' \in [fw : Fw, up : BOOLEAN] /\ Record(p, "execute_failed")
  /\ UNCHANGED <<file, snaps, born, pending, clock, overlooked>>

ExecuteVerify(p) ==
  /\ proc[p].at = "x_verify"
  /\ \/ guest.up /\ Record(p, "executed")
     \/ Record(p, "execute_failed")
  /\ UNCHANGED <<file, vmVars, clock, overlooked>>

\* A failed save leaves "executing" in the file, whatever the outcome was.
ExecuteSave(p) ==
  /\ proc[p].at = "x_save"
  /\ Saved(proc[p].st) \/ SaveFailed
  /\ ExecuteReturns(p)
  /\ UNCHANGED <<vmVars, clock, overlooked>>

\* run re-reads the file: a hung execute is rolled back, the rest validated.
\* A failed read is ignored, so then a hung execute is validated as well.
RunAfterExecute(p) ==
  /\ proc[p].at = "x_done"
  /\ \/ file.phase = "execute_hung" /\ Goto(p, "r_load")
     \/ Goto(p, "v_load")
  /\ UNCHANGED <<file, vmVars, clock, overlooked>>

-----------------------------------------------------------------------------
(* Validate                                                                *)

\* run's switch on the phase Validate returned.
ValidateReturns(p, phase) ==
  IF proc[p].verb = "run" /\ phase = "validated_fail"
  THEN Goto(p, "r_load")
  ELSE Exit(p, phase)

ValidateLoad(p) ==
  /\ proc[p].at = "v_load"
  /\ \/ validateAllowedFrom(file.phase) /\ GotoWith(p, "v_check", file)
     \/ ~validateAllowedFrom(file.phase) /\ ValidateReturns(p, file.phase)
     \/ Exit(p, "empty")
  /\ UNCHANGED <<file, vmVars, clock, overlooked>>

\* Mutant of ValidateCheck: a rolled-back cycle takes any verdict.
ValidateCheckAnyVerdict(p) ==
  /\ proc[p].at = "v_check"
  /\ \E verdict \in Verdicts, acceptPartial \in BOOLEAN :
       /\ guest.up \/ verdict # "all_pass"
       /\ GotoWith(p, "v_save", [proc[p].st EXCEPT
                               !.phase = selectValidatePhase(verdict, acceptPartial)])
  /\ UNCHANGED <<file, vmVars, clock, overlooked>>

\* A guest that is down fails its daemon checks; a guest that is up may fail
\* any of them.  After a rollback only a full pass is recorded.
ValidateCheck(p) ==
  /\ proc[p].at = "v_check"
  /\ \E verdict \in Verdicts, acceptPartial \in BOOLEAN :
       LET phase == selectValidatePhase(verdict, acceptPartial) IN
       /\ guest.up \/ verdict # "all_pass"
       /\ IF proc[p].st.phase = "rolled_back" /\ phase # "validated_pass"
          THEN Exit(p, "rolled_back")
          ELSE GotoWith(p, "v_save", [proc[p].st EXCEPT !.phase = phase])
  /\ UNCHANGED <<file, vmVars, clock, overlooked>>

ValidateSave(p) ==
  /\ proc[p].at = "v_save"
  /\ \/ Saved(proc[p].st) /\ ValidateReturns(p, proc[p].st.phase)
     \/ SaveFailed /\ Exit(p, proc[p].st.phase)
  /\ UNCHANGED <<vmVars, clock, overlooked>>

-----------------------------------------------------------------------------
(* Rollback                                                                *)

RollbackLoad(p) ==
  /\ proc[p].at = "r_load"
  /\ \/ rollbackAllowedFrom(file.phase) /\ file.snap # None /\ GotoWith(p, "r_list", file)
     \/ ~(rollbackAllowedFrom(file.phase) /\ file.snap # None) /\ Exit(p, file.phase)
     \/ Exit(p, "empty")
  /\ UNCHANGED <<file, vmVars, clock, overlooked>>

\* Mutant of snapshotsAfter: every snapshot after the target.
snapshotsAfterAll(target) == IF Exists(target) THEN Later(target) ELSE {}

\* Of the snapshots taken after the target, only the watchdog's names.
snapshotsAfter(target) ==
  IF Exists(target) THEN Later(target) \cap WatchdogNames ELSE {}

RollbackList(p) ==
  /\ proc[p].at = "r_list"
  /\ \/ GotoDoing(p, "r_del", snapshotsAfter(proc[p].st.snap))
     \/ Exit(p, proc[p].st.phase)
  /\ UNCHANGED <<file, vmVars, clock, overlooked>>

\* Newest first; a failed delete is only logged.
RollbackDelete(p) ==
  /\ proc[p].at = "r_del"
  /\ IF proc[p].todo = {}
     THEN Goto(p, "r_qm") /\ UNCHANGED vmVars
     ELSE \E n \in proc[p].todo :
            /\ \A m \in proc[p].todo : born[m] <= born[n]
            /\ QmDone("delete", n) \/ QmError("delete", n)
            /\ GotoDoing(p, "r_del", proc[p].todo \ {n})
  /\ UNCHANGED <<file, clock, overlooked>>

\* Mutant of RollbackQm: a failed rollback is only logged.
RollbackQmLogged(p) ==
  /\ proc[p].at = "r_qm"
  /\ QmDone("rollback", proc[p].st.snap) \/ QmError("rollback", proc[p].st.snap)
  /\ Goto(p, "r_start")
  /\ UNCHANGED <<file, clock, overlooked>>

RollbackQm(p) ==
  /\ proc[p].at = "r_qm"
  /\ \/ QmDone("rollback", proc[p].st.snap) /\ Goto(p, "r_start")
     \/ QmError("rollback", proc[p].st.snap) /\ Goto(p, "r_fail")
  /\ UNCHANGED <<file, clock, overlooked>>

\* A failed status probe counts as "not running"; starting a VM that runs is
\* an error of qm start.
RollbackStart(p) ==
  /\ proc[p].at = "r_start"
  /\ \/ guest.up /\ UNCHANGED guest /\ Goto(p, "r_wait")
     \/ /\ ~guest.up /\ pending = NoOp
        /\ guest' = [guest EXCEPT !.up = TRUE]
        /\ Goto(p, "r_wait")
     \/ UNCHANGED guest /\ Goto(p, "r_startfail")
  /\ UNCHANGED <<file, snaps, born, pending, clock, overlooked>>

\* markRollbackFailed writes rollback_failed, but Rollback returns the State
\* it loaded: startGuestIfStopped was given a copy.
RollbackStartFailed(p) ==
  /\ proc[p].at = "r_startfail"
  /\ Saved([proc[p].st EXCEPT !.phase = "rollback_failed"]) \/ SaveFailed
  /\ Exit(p, proc[p].st.phase)
  /\ UNCHANGED <<vmVars, clock, overlooked>>

\* Any answer of the guest before the deadline is taken for the restored boot.
RollbackWait(p) ==
  /\ proc[p].at = "r_wait"
  /\ \/ /\ guest.up
        /\ GotoWith(p, "r_save", [proc[p].st EXCEPT !.phase = "rolled_back"])
     \/ Goto(p, "r_fail")
  /\ UNCHANGED <<file, vmVars, clock, overlooked>>

RollbackFail(p) ==
  /\ proc[p].at = "r_fail"
  /\ Saved([proc[p].st EXCEPT !.phase = "rollback_failed"]) \/ SaveFailed
  /\ Exit(p, "rollback_failed")
  /\ UNCHANGED <<vmVars, clock, overlooked>>

RollbackSave(p) ==
  /\ proc[p].at = "r_save"
  /\ Saved(proc[p].st) \/ SaveFailed
  /\ Exit(p, "rolled_back")
  /\ UNCHANGED <<vmVars, clock, overlooked>>

-----------------------------------------------------------------------------
(* Commit                                                                  *)

\* keep_snapshot skips the delete; an already committed cycle is a no-op.
CommitLoad(p) ==
  /\ proc[p].at = "c_load"
  /\ \/ /\ commitAllowedFrom(file.phase)
        /\ \E keep \in BOOLEAN :
             GotoWith(p, IF keep \/ file.snap = None THEN "c_save" ELSE "c_del",
                      [file EXCEPT !.phase = "committed"])
     \/ Exit(p, "none")
  /\ UNCHANGED <<file, vmVars, clock, overlooked>>

CommitDelete(p) ==
  /\ proc[p].at = "c_del"
  /\ \/ QmDone("delete", proc[p].st.snap) /\ Goto(p, "c_save")
     \/ QmError("delete", proc[p].st.snap) /\ Exit(p, "none")
  /\ UNCHANGED <<file, clock, overlooked>>

CommitSave(p) ==
  /\ proc[p].at = "c_save"
  /\ Saved(proc[p].st) \/ SaveFailed
  /\ Exit(p, "none")
  /\ UNCHANGED <<vmVars, clock, overlooked>>

-----------------------------------------------------------------------------
(* GC                                                                      *)

\* Mutant of activeDeploySnapshot: pins the snapshot only during the update.
pinnedWhileExecuting(readable) ==
  IF readable /\ file.phase = "executing" THEN file.snap ELSE None

\* Best effort: a state.json that cannot be read or parsed pins nothing.
activeDeploySnapshot(readable) ==
  IF ~readable \/ gcUnprotected(file.phase) THEN None ELSE file.snap

\* Upgrade snapshots past the age threshold.
Old == {n \in UpgradeNames : clock - n >= GCAge}

\* Reads the clock and the state first; what may be swept by age and name is
\* settled here, what is really there only when qm lists it.  The sweep goes on
\* when the state cannot be read.
GCLoad(p) ==
  /\ proc[p].at = "g_load"
  /\ \E readable \in BOOLEAN :
       /\ GotoDoing(p, "g_list", Old \ {activeDeploySnapshot(readable)})
       /\ overlooked' = (overlooked \/ (~readable /\ activeDeploySnapshot(TRUE) \in Old))
  /\ UNCHANGED <<file, vmVars, clock>>

GCList(p) ==
  /\ proc[p].at = "g_list"
  /\ \/ GotoDoing(p, "g_del", proc[p].todo \cap Present)
     \/ Exit(p, "none")
  /\ UNCHANGED <<file, vmVars, clock, overlooked>>

\* A failed delete is skipped.
GCDelete(p) ==
  /\ proc[p].at = "g_del"
  /\ IF proc[p].todo = {}
     THEN Exit(p, "none") /\ UNCHANGED vmVars
     ELSE \E n \in proc[p].todo :
            /\ QmDone("delete", n) \/ QmError("delete", n)
            /\ GotoDoing(p, "g_del", proc[p].todo \ {n})
  /\ UNCHANGED <<file, clock, overlooked>>

-----------------------------------------------------------------------------
(* Reset and ResetExecute.  Unless reset_confirm is set the plan is only   *)
(* printed, which ends the invocation like a refusal does.                 *)

ResetLoad(p) ==
  /\ proc[p].at = "z_load"
  /\ \/ GotoWith(p, "z_list", file)
     \/ Exit(p, "none")
  /\ UNCHANGED <<file, vmVars, clock, overlooked>>

RollbackTarget(st) == IF st.phase = "committed" THEN None ELSE st.snap

\* The plan: refuse when the baseline of an unfinished cycle is gone, stop
\* when there is nothing to do, otherwise delete every other upgrade snapshot.
ResetList(p) ==
  LET st     == proc[p].st
      target == RollbackTarget(st)
      doomed == (Present \cap UpgradeNames) \ {target}
      nothingToDo == /\ doomed = {} /\ target = None
                     /\ st.phase \in {"empty", "committed"}
  IN
  /\ proc[p].at = "z_list"
  /\ \/ /\ target = None \/ Exists(target)
        /\ ~nothingToDo
        /\ GotoDoing(p, "z_del", doomed)
     \/ Exit(p, "none")
  /\ UNCHANGED <<file, vmVars, clock, overlooked>>

\* Mutant of ResetDelete: a failed delete is skipped, as gc does.
ResetDeleteSkip(p) ==
  /\ proc[p].at = "z_del"
  /\ IF proc[p].todo = {}
     THEN /\ Goto(p, IF RollbackTarget(proc[p].st) = None THEN "z_rm" ELSE "z_qm")
          /\ UNCHANGED vmVars
     ELSE \E n \in proc[p].todo :
            /\ QmDone("delete", n) \/ QmError("delete", n)
            /\ GotoDoing(p, "z_del", proc[p].todo \ {n})
  /\ UNCHANGED <<file, clock, overlooked>>

\* In name order; the first failure ends the reset.
ResetDelete(p) ==
  /\ proc[p].at = "z_del"
  /\ IF proc[p].todo = {}
     THEN /\ Goto(p, IF RollbackTarget(proc[p].st) = None THEN "z_rm" ELSE "z_qm")
          /\ UNCHANGED vmVars
     ELSE \E n \in proc[p].todo :
            /\ \A m \in proc[p].todo : n <= m
            /\ \/ QmDone("delete", n) /\ GotoDoing(p, "z_del", proc[p].todo \ {n})
               \/ QmError("delete", n) /\ Exit(p, "none")
  /\ UNCHANGED <<file, clock, overlooked>>

ResetRollback(p) ==
  /\ proc[p].at = "z_qm"
  /\ \/ QmDone("rollback", RollbackTarget(proc[p].st)) /\ Goto(p, "z_rm")
     \/ QmError("rollback", RollbackTarget(proc[p].st)) /\ Exit(p, "none")
  /\ UNCHANGED <<file, clock, overlooked>>

ResetRemove(p) ==
  /\ proc[p].at = "z_rm"
  /\ \/ file' = EmptyState /\ overlooked' = FALSE
     \/ SaveFailed /\ UNCHANGED overlooked
  /\ Exit(p, "none")
  /\ UNCHANGED <<vmVars, clock>>

-----------------------------------------------------------------------------
(* The surroundings                                                        *)

Tick ==
  /\ clock < MaxTime
  /\ clock' = clock + 1
  /\ UNCHANGED <<file, vmVars, overlooked, proc>>

\* The watchdog or an operator takes a snapshot of its own.
OtherSnapshot(n) ==
  /\ Accepts([kind |-> "snapshot", snap |-> n])
  /\ Take(n)
  /\ UNCHANGED <<pending, file, clock, overlooked, proc>>

\* Someone starts a VM that a rollback left stopped.
StartGuest ==
  /\ pending = NoOp
  /\ ~guest.up
  /\ guest' = [guest EXCEPT !.up = TRUE]
  /\ UNCHANGED <<snaps, born, pending, file, clock, overlooked, proc>>

-----------------------------------------------------------------------------
Init ==
  /\ file = EmptyState
  /\ snaps = [n \in Names |-> None]
  /\ born = [n \in Names |-> 0]
  /\ guest \in [fw : Fw, up : {TRUE}]
  /\ pending = NoOp
  /\ clock = 1
  /\ overlooked = FALSE
  /\ proc = [p \in Procs |-> Idle]

PrepareStep(p) == PrepareLoad(p) \/ PrepareCapture(p) \/ PrepareSnapshot(p)
                    \/ PrepareSave(p)
ExecuteStep(p) == ExecuteLoad(p) \/ ExecuteMark(p) \/ ExecutePlan(p)
                    \/ ExecuteApply(p) \/ ExecuteReboot(p) \/ ExecuteVerify(p)
                    \/ ExecuteSave(p) \/ RunAfterExecute(p)
ValidateStep(p) == ValidateLoad(p) \/ ValidateCheck(p) \/ ValidateSave(p)
RollbackStep(p) == RollbackLoad(p) \/ RollbackList(p) \/ RollbackDelete(p)
                    \/ RollbackQm(p) \/ RollbackStart(p)
                    \/ RollbackStartFailed(p) \/ RollbackWait(p)
                    \/ RollbackFail(p) \/ RollbackSave(p)
CommitStep(p) == CommitLoad(p) \/ CommitDelete(p) \/ CommitSave(p)
GCStep(p) == GCLoad(p) \/ GCList(p) \/ GCDelete(p)
ResetStep(p) == ResetLoad(p) \/ ResetList(p) \/ ResetDelete(p)
                    \/ ResetRollback(p) \/ ResetRemove(p)

Step(p) == PrepareStep(p) \/ ExecuteStep(p) \/ ValidateStep(p)
             \/ RollbackStep(p) \/ CommitStep(p) \/ GCStep(p) \/ ResetStep(p)

Environment == \/ DetachedOpEnds \/ Tick \/ StartGuest
               \/ \E n \in WatchdogNames \cup UserNames : OtherSnapshot(n)

Next == \/ \E p \in Procs : Step(p) \/ Crash(p) \/ (\E c \in Commands : Invoke(p, c))
        \/ Environment

Spec == Init /\ [][Next]_vars

-----------------------------------------------------------------------------
(* Properties.  The ones marked (single operator) are about one invocation *)
(* at a time: nothing in the code serialises two of them.                  *)

\* Each variable holds what the code could store in it.
TypeOK ==
  /\ file \in State
  /\ snaps \in [Names -> Fw \cup {None}]
  /\ born \in [Names -> Nat]
  /\ guest \in [fw : Fw, up : BOOLEAN]
  /\ pending \in [kind : {"none", "snapshot", "delete", "rollback"},
                  snap : Names \cup {None}]
  /\ clock \in 1..MaxTime
  /\ overlooked \in BOOLEAN
  /\ proc \in [Procs -> Memory]

\* Phases whose cycle may still have to be rolled back.
Unreleased == {"prepared", "executing", "executed", "execute_failed",
               "execute_hung", "validated_partial", "validated_fail"}

\* The baseline may be needed for a rollback and no gc was free to take it.
Needed == file.phase \in Unreleased /\ ~overlooked

\* (single operator) As long as the recorded cycle may need a rollback, the
\* snapshot state.json names exists: neither gc, nor commit, nor reset, nor a qm
\* operation that outlived its caller, has taken it away.  The one exception is
\* the code's own: a gc that cannot read state.json pins nothing, and may take a
\* baseline past the age threshold.
BaselineKept ==
  /\ Needed => Exists(file.snap)
  /\ file.phase \in Unreleased /\ overlooked => file.snap \in Old

\* Why BaselineKept is inductive.  The labels between reading the file and
\* writing the phase of the same cycle back:
Updating == {"x_mark", "x_plan", "x_apply", "x_reboot", "x_verify", "x_save"}
Carrying == Updating \cup
            {"v_check", "v_save", "r_list", "r_del", "r_qm", "r_start",
             "r_startfail", "r_wait", "r_fail", "r_save"}

Doomed(n) == pending.kind = "delete" /\ pending.snap = n

\* A detached delete outlives its caller, but is never aimed at a baseline that
\* is still needed.
DeletesSpareBaseline == Needed => ~Doomed(file.snap)

\* What an invocation holds agrees with the file it will overwrite, and what it
\* is about to delete does not include a baseline that is still needed.
InHand(p) ==
  LET m == proc[p] IN
  /\ m.at \in {"p_capture", "p_snap"} =>
       /\ m.st.snap \in UpgradeNames
       /\ file.phase \in Unreleased /\ overlooked => m.st.snap # file.snap
  /\ m.at = "p_save" => Exists(m.st.snap) /\ ~Doomed(m.st.snap)
  /\ m.at \in Carrying => /\ m.st.snap = file.snap
                          /\ m.st.phase \in Unreleased => file.phase \in Unreleased
  /\ m.at \in Updating => m.st.phase \in Unreleased
  /\ m.at = "v_check" => validateAllowedFrom(m.st.phase)
  /\ m.at = "r_del" => m.todo \subseteq WatchdogNames
  /\ m.at \in {"c_del", "c_save"} => /\ file.phase \notin Unreleased
                                    /\ m.st.phase = "committed"
  /\ m.at \in {"g_list", "g_del", "z_del"} /\ Needed => file.snap \notin m.todo
  /\ m.at = "z_list" => m.st = file

BaselineInv == /\ BaselineKept
               /\ DeletesSpareBaseline
               /\ \A p \in Procs : InHand(p)

\* (single operator) A recorded rollback is a real one: as long as the snapshot
\* is there, the guest runs the firmware it holds.
RestoredGuest ==
  file.phase = "rolled_back" /\ Exists(file.snap) => guest.fw = snaps[file.snap]

\* (single operator) When reset removes the state of an unfinished cycle, the
\* guest is back on the baseline and no other upgrade snapshot is left over.
ResetRestores ==
  [][ file.phase \notin {"empty", "committed"} /\ file' = EmptyState
        => /\ Exists(file.snap) /\ guest.fw = snaps[file.snap]
           /\ Present \cap UpgradeNames = {file.snap} ]_vars

\* A snapshot an operator took by hand is never deleted, whatever is cleaned up.
UserSnapshotsKept ==
  [][ \A n \in UserNames : Exists(n) => snaps'[n] = snaps[n] ]_vars

\* (single operator) The phases and the life of the baseline follow the
\* abstract lifecycle.
Lifecycle == INSTANCE UpgradeLifecycle
  WITH phase <- file.phase,
       kept  <- file.phase \notin {"empty", "committed"} /\ Exists(file.snap),
       blind <- overlooked

ImplementsLifecycle == Lifecycle!Spec

\* (single operator) While a cycle is recorded as merely prepared, no invocation
\* is changing the guest, and the baseline can be thrown away.
PreparedMeansUntouched ==
  file.phase = "prepared"
    => \A p \in Procs : proc[p].at \notin {"x_plan", "x_apply", "x_reboot", "x_verify"}

-----------------------------------------------------------------------------
(* What the comments of the code say and the code does not do.             *)

\* RunOutcome "describes the terminal state": a run that got past prepare and
\* left rollback_failed behind says so.
RunReportsRollbackFailed ==
  \A p \in Procs :
    proc[p].said \notin {"none", "empty"} /\ file.phase = "rollback_failed"
      => proc[p].said = "rollback_failed"

=============================================================================
