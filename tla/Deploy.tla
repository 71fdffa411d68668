------------------------------- MODULE Deploy -------------------------------
(***************************************************************************)
(* The self-deploy of the guest daemon: the binary slots that              *)
(* internal/svc/deploy.go swaps, the re-exec that takes a new binary live, *)
(* and the supervised shim (mwan-opnsense-run) that runs before every      *)
(* spawn and reverts a binary that crashes before it was marked healthy.   *)
(*                                                                         *)
(* The slots are on disk; deploy.state, pending-verify and boot-attempt    *)
(* are in /var/run, a memory disk.  Each file operation is one step.       *)
(***************************************************************************)
EXTENDS Naturals

CONSTANTS
  Bins,     \* binaries that can be pushed
  Good,     \* the ones that come up and serve; any other exits early
  Faults,   \* what may go wrong, a subset of AllFaults
  Careful,  \* the operator only deploys from a daemon that runs .current with
            \* no verification pending
  Torn,     \* the content of a slot whose copy was cut short
  None      \* an absent file, "no daemon runs"

AllFaults == {"crash", "write", "copy", "reboot"}

ASSUME DeployAssumption ==
  /\ Good \subseteq Bins
  /\ Faults \subseteq AllFaults
  /\ Careful \in BOOLEAN
  /\ Torn \notin Bins /\ None \notin Bins /\ Torn # None

VARIABLES
  current, previous, staged,  \* the slots: a binary, Torn or None
  state,    \* deploy.state: [active, previous, health]
  pending,  \* the pending-verify marker
  attempt,  \* the boot-attempt marker of the shim
  run,      \* the binary that runs, None while daemon(8) has none
  shim,     \* "idle", or "copying" .previous over .current
  op,       \* the handler that holds DeployManager.mu: [rpc, at, bin]
  hist      \* what has happened to .current since it was last replaced, and
            \* which binaries were ever marked healthy (history, read by none)

slots == <<current, previous, staged>>
marks == <<pending, attempt>>
vars  == <<slots, state, marks, run, shim, op, hist>>

Contents == Bins \cup {Torn, None}

NoState == [active |-> None, previous |-> None, health |-> "none"]
Idle    == [rpc |-> "none", at |-> "idle", bin |-> None]
Serving == run \in Good

Fault(kind) == kind \in Faults

-----------------------------------------------------------------------------
(* The handlers.  An error return is a step back to Idle.                  *)

Steps == {"idle", "backup", "swap", "state", "mark", "health", "clear", "restore"}

Goto(label) == op' = [op EXCEPT !.at = label]
Return      == op' = Idle

Begin(rpc, label, b) ==
  /\ Serving /\ op = Idle
  /\ op' = [rpc |-> rpc, at |-> label, bin |-> b]
  /\ UNCHANGED <<slots, state, marks, run, shim, hist>>

\* `daemon push`: the upload ends with a rename onto .staged.  It does not take
\* the deploy mutex.
Push(b) ==
  /\ Serving
  /\ staged' = b
  /\ UNCHANGED <<current, previous, state, marks, run, shim, op, hist>>

\* `daemon stage SHA`: the hash the caller names must be that of .staged.  It is
\* checked before the mutex is taken and again under it.
Stage ==
  /\ staged \in Bins
  /\ Careful => ~pending /\ current = run
  /\ Begin("stage", "backup", staged)

\* Mutant of StageBackup: a failed copy is only logged.
StageBackupLogged ==
  /\ Serving /\ op.at = "backup"
  /\ \/ previous' = (IF current = None THEN previous ELSE current)
     \/ Fault("write") /\ UNCHANGED previous
  /\ Goto("swap")
  /\ UNCHANGED <<current, staged, state, marks, run, shim, hist>>

\* copyFile(current, previous), atomic by a rename; a failure drops .staged.
StageBackup ==
  /\ Serving /\ op.at = "backup"
  /\ \/ /\ previous' = IF current = None THEN previous ELSE current
        /\ Goto("swap") /\ UNCHANGED staged
     \/ /\ Fault("write")
        /\ staged' = None
        /\ Return /\ UNCHANGED previous
  /\ UNCHANGED <<current, state, marks, run, shim, hist>>

\* What the rename promotes is what .staged holds by now.
StageSwap ==
  /\ Serving /\ op.at = "swap"
  /\ \/ /\ staged # None
        /\ current' = staged
        /\ hist' = [hist EXCEPT !.marked = FALSE]
        /\ Goto("state")
     \/ /\ staged = None \/ Fault("write")
        /\ Return /\ UNCHANGED <<current, hist>>
  /\ staged' = None
  /\ UNCHANGED <<previous, state, marks, run, shim>>

\* writeState with health=pending; an error is only logged.
WriteState ==
  /\ Serving /\ op.at = "state"
  /\ \/ state' = [active |-> op.bin, previous |-> previous, health |-> "pending"]
     \/ Fault("write") /\ UNCHANGED state
  /\ Goto("mark")
  /\ UNCHANGED <<slots, marks, run, shim, hist>>

\* The pending-verify marker; an error is only logged.
WritePending ==
  /\ Serving /\ op.at = "mark"
  /\ \/ pending' = TRUE /\ hist' = [hist EXCEPT !.reverted = FALSE]
     \/ Fault("write") /\ UNCHANGED <<pending, hist>>
  /\ Return
  /\ UNCHANGED <<slots, state, attempt, run, shim>>

MarkHealthy == Begin("health", "health", None)

\* Mutant of HealthState: the stamp is one no reader of the file knows.
HealthStateHealthy ==
  /\ Serving /\ op.at = "health"
  /\ state' = [state EXCEPT !.health = "healthy"]
  /\ hist' = [hist EXCEPT !.marked = TRUE, !.known = @ \cup {run}]
  /\ Goto("clear")
  /\ UNCHANGED <<slots, marks, run, shim>>

\* The state file is rewritten with health=ok; what it lacks is taken from the
\* slots.  It says nothing about which binary runs.
HealthState ==
  /\ Serving /\ op.at = "health"
  /\ \/ /\ state' = [active   |-> IF state.active = None THEN current ELSE state.active,
                     previous |-> IF state.previous = None THEN previous
                                  ELSE state.previous,
                     health   |-> "ok"]
        /\ hist' = [hist EXCEPT !.marked = TRUE, !.known = @ \cup {run}]
        /\ Goto("clear")
     \/ Fault("write") /\ Return /\ UNCHANGED <<state, hist>>
  /\ UNCHANGED <<slots, marks, run, shim>>

HealthClear ==
  /\ Serving /\ op.at = "clear"
  /\ pending' = FALSE \/ (Fault("write") /\ UNCHANGED pending)
  /\ Return
  /\ UNCHANGED <<slots, state, attempt, run, shim, hist>>

Revert ==
  /\ previous # None
  /\ Begin("revert", "restore", previous)

\* copyFile(previous, current), atomic by a rename.  The rest is shared with
\* Stage: both slots now match, so the state written is the same.
RevertCopy ==
  /\ Serving /\ op.at = "restore"
  /\ \/ /\ current' = previous
        /\ hist' = [hist EXCEPT !.marked = FALSE]
        /\ Goto("state")
     \/ Fault("write") /\ Return /\ UNCHANGED <<current, hist>>
  /\ UNCHANGED <<previous, staged, state, marks, run, shim>>

Handler == StageBackup \/ StageSwap \/ WriteState \/ WritePending
             \/ HealthState \/ HealthClear \/ RevertCopy

-----------------------------------------------------------------------------
(* Processes                                                               *)

\* The new process sweeps .staged, if it gets that far and the remove succeeds.
\* A slot that holds no whole binary cannot be executed.
Launch(bin) ==
  /\ run' = IF bin \in Bins THEN bin ELSE None
  /\ staged' \in IF bin \in Bins THEN {staged, None} ELSE {staged}

\* `daemon restart`: execve of .current in place, bypassing the shim and cutting
\* off whatever handler runs.  When it fails the daemon exits and is respawned.
ReExec ==
  /\ Serving
  /\ Launch(current)
  /\ op' = Idle
  /\ UNCHANGED <<current, previous, state, marks, shim, hist>>

\* The daemon exits: a crash, a kill or `service restart`.  A binary that is not
\* good needs no fault for it.
Die ==
  /\ run # None
  /\ Fault("crash") \/ ~Serving
  /\ run' = None /\ op' = Idle
  /\ UNCHANGED <<slots, state, marks, shim, hist>>

Respawning == run = None /\ shim = "idle"

\* The preflight finds nothing to verify, or a deploy that was marked healthy.
SpawnVerified ==
  /\ Respawning
  /\ ~pending \/ state.health = "ok"
  /\ pending' = FALSE /\ attempt' = FALSE
  /\ Launch(current)
  /\ UNCHANGED <<current, previous, state, shim, op, hist>>

\* Mutant of SpawnFirst: the attempt is not recorded.
SpawnFirstUnrecorded ==
  /\ Respawning
  /\ pending /\ state.health # "ok" /\ ~attempt
  /\ Launch(current)
  /\ UNCHANGED <<current, previous, state, marks, shim, op, hist>>

\* First spawn of an unverified binary.
SpawnFirst ==
  /\ Respawning
  /\ pending /\ state.health # "ok" /\ ~attempt
  /\ attempt' = TRUE
  /\ Launch(current)
  /\ UNCHANGED <<current, previous, state, pending, shim, op, hist>>

\* Mutant of Failed: an attempt counts before the health does.
FailedUnchecked == Respawning /\ pending /\ attempt

\* The unverified binary had its turn.
Failed == Respawning /\ pending /\ state.health # "ok" /\ attempt

\* cp -f truncates .current before it writes.
RevertStart ==
  /\ Failed
  /\ previous # None
  /\ current' = Torn
  /\ shim' = "copying"
  /\ hist' = [hist EXCEPT !.reverted = TRUE]
  /\ UNCHANGED <<previous, staged, state, marks, run, op>>

\* Mutant of RevertEnd: the pending-verify marker stays.
RevertEndArmed ==
  /\ shim = "copying"
  /\ \/ /\ current' = previous
        /\ hist' = [hist EXCEPT !.marked = FALSE]
     \/ Fault("copy") /\ UNCHANGED <<current, hist>>
  /\ Launch(current')
  /\ shim' = "idle"
  /\ attempt' = FALSE
  /\ UNCHANGED <<previous, state, pending, op>>

\* Both markers are cleared however the copy went.
RevertEnd ==
  /\ shim = "copying"
  /\ \/ /\ current' = previous
        /\ hist' = [hist EXCEPT !.marked = FALSE]
     \/ Fault("copy") /\ UNCHANGED <<current, hist>>
  /\ Launch(current')
  /\ shim' = "idle"
  /\ pending' = FALSE /\ attempt' = FALSE
  /\ UNCHANGED <<previous, state, op>>

\* No .previous, or a copy that failed before it wrote: .current runs as it is.
RevertNot ==
  /\ Failed
  /\ previous = None \/ Fault("copy")
  /\ pending' = FALSE /\ attempt' = FALSE
  /\ Launch(current)
  /\ UNCHANGED <<current, previous, state, shim, op, hist>>

Shim == SpawnVerified \/ SpawnFirst \/ RevertStart \/ RevertEnd \/ RevertNot

\* /var/run is empty afterwards.
Reboot ==
  /\ Fault("reboot")
  /\ run' = None /\ op' = Idle /\ shim' = "idle"
  /\ state' = NoState
  /\ pending' = FALSE /\ attempt' = FALSE
  /\ UNCHANGED <<slots, hist>>

-----------------------------------------------------------------------------
\* A good binary was installed and has proved itself.
Init ==
  /\ current \in Good /\ previous = None /\ staged = None
  /\ state = NoState
  /\ pending = FALSE /\ attempt = FALSE
  /\ run = current
  /\ shim = "idle"
  /\ op = Idle
  /\ hist = [marked |-> FALSE, reverted |-> FALSE, known |-> {current}]

Next == \/ \E b \in Bins : Push(b)
        \/ Stage \/ MarkHealthy \/ Revert \/ Handler
        \/ ReExec \/ Die \/ Shim \/ Reboot

Spec == Init /\ [][Next]_vars

\* daemon(8) respawns what exited, and a binary that is not good does exit.
LiveSpec == Spec /\ WF_vars(Shim) /\ WF_vars(~Serving /\ Die)

-----------------------------------------------------------------------------
(* Properties                                                              *)

History == [marked : BOOLEAN, reverted : BOOLEAN, known : SUBSET Bins]

\* Each file holds what the code could write to it.
TypeOK ==
  /\ current \in Contents /\ previous \in Contents /\ staged \in Bins \cup {None}
  /\ state \in [active : Contents, previous : Contents,
                health : {"none", "pending", "ok"}]
  /\ pending \in BOOLEAN /\ attempt \in BOOLEAN
  /\ run \in Bins \cup {None}
  /\ shim \in {"idle", "copying"}
  /\ op \in [rpc : {"none", "stage", "health", "revert"}, at : Steps, bin : Contents]
  /\ hist \in History

\* (careful operator) Whatever is deployed, and whatever crashes, fails or is cut
\* off on the way, a binary that serves is left in one of the two slots.
GoodBinaryRemains == current \in Good \/ previous \in Good

\* Why it is inductive: .previous is only ever overwritten with a binary that
\* served, and nothing has replaced .current between the check and the copy.
SlotsInv ==
  /\ GoodBinaryRemains
  /\ previous \in Good \cup {None}
  /\ op.at = "backup" => current \in Good
  /\ op.at \in {"swap", "restore"} => previous \in Good
  /\ shim = "copying" => previous \in Good
  /\ op # Idle => Serving /\ shim = "idle"

\* A deploy that was marked healthy is never reverted by a later respawn.
HealthyNeverReverted == [][ RevertStart => ~hist.marked ]_vars

\* A crash loop is reverted at most once: the next revert needs a new deploy.
OneRevertPerDeploy == [][ RevertStart => ~hist.reverted ]_vars

\* Why those two hold: a marked binary has health=ok as long as its pending-verify
\* marker is there, and a reverted one has lost the marker.
MarkersInv ==
  /\ hist.marked /\ pending => state.health = "ok"
  /\ hist.marked => op.at \notin {"state", "mark"} /\ shim = "idle"
  /\ hist.reverted /\ shim = "idle" => ~pending
  /\ op # Idle => run # None /\ shim = "idle"
  /\ shim = "copying" => run = None

\* A binary that does not come up, deployed over one that does, is replaced by it
\* without an operator.
BadDeployRecovers ==
  (pending /\ state.health # "ok" /\ previous \in Good /\ run \in Bins \ Good)
    ~> (run \in Good)

-----------------------------------------------------------------------------
(* What the comments of the code say and the code does not do.             *)

\* "Marker dropped before swap": a binary that was never marked healthy is never
\* spawned as a verified one.
UnverifiedNotTrusted == [][ SpawnVerified => current \in hist.known ]_vars

=============================================================================
