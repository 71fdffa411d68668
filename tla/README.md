# A TLA+ model of opnsensectl

opnsensectl runs one binary in three places: a daemon inside an OPNsense guest
that edits the firewall's files and updates its own binary, a bridge and a
chardev drainer on the Proxmox host that carry gRPC to it over a serial line,
and operator verbs, among them a firmware upgrade with snapshots and rollback.
This directory models the parts that keep state over a crash or share state
between goroutines or processes. TLC checks small instances, and TLAPS proves
the main safety properties for every value of the constants.

`PROJECT.json` lists runs, mutants, theorems, hazards and, under `map`, the
source lines each definition stands for. Source paths below are under `src/`.

## 1. The system

### Components

| Component | Source | State it keeps | Model |
| --- | --- | --- | --- |
| Upgrade orchestrator | `internal/upgrade/*.go` | `state.json` (phase, baseline snapshot), the VM's snapshots | `Upgrade`, `UpgradePhases`, `UpgradeLifecycle` |
| qm snapshotter | `internal/upgrade/snapshotter_qm.go` | none of its own; a detached qm keeps the guest locked | `Upgrade` (`QmDone`, `QmError`, `DetachedOpEnds`) |
| Firmware change and reboot | `internal/upgrade/firmware*.go`, `reboot.go`, `execute.go` | none but the cycle's directory; the guest's packages, sets and boot | `Firmware`, `FirmwareContract`; outcomes in `Upgrade` |
| Guest executor | `internal/upgrade/executor_grpc.go`, `guest_runner.go` | none | `GuestExec` |
| Artefacts, validator | `internal/upgrade` | report files | the firmware files in `Firmware`, the rest inputs of `Upgrade` |
| Deploy manager | `internal/svc/deploy.go` | slots `.current`, `.previous`, `.staged`; `deploy.state`; `pending-verify` | `Deploy` |
| Guest supervisor and shim | `mwan-opnsense-run`, `server.go` re-exec | `boot-attempt` marker | `Deploy` |
| Chardev drainer | `cmd/opnsensectl/opnsense_drain.go` | hub: client, epoch, chardev, queue; the descriptor systemd stores for it | `Drain`, `Channel` |
| Host bridge | `cmd/opnsensectl/opnsense_host.go` | the yamux session and its mutex | `HostBridge` |
| Resumable transfers | `internal/svc/transfer.go` | temporary files, transfer records | `Transfer`, `Download` |
| config.xml edits | `internal/svc/server.go`, `configxml.go` | `config.xml` and its backups | `ConfigXML` |
| Guest serve loop | `internal/svc/serve.go`, `serial_listener.go`, `serial_open_freebsd.go`, rc.d script | the one serial session | `Channel` |
| Exec | `internal/svc/exec.go` | child processes | `GuestExec`, checked within `Firmware` |
| Notifier | `internal/notify` | map of alerts already sent | not modelled, see section 7 |
| Operator verbs | `cmd/opnsensectl`, `internal/opnsense` | none | upgrade verbs in `Upgrade`, push/stage/restart in `Deploy`, file push and pull in `Transfer` and `Download` |
| Path validation, installer, TOML configuration, config transformation, generated code | various | none that outlives a call | not modelled, see section 7 |

### How they interact

- An operator's verb dials the **bridge**'s socket. The bridge opens a yamux
  stream on its one session over the **drainer**'s socket. The drainer copies
  bytes between that socket and the qemu chardev, on whose other end the
  **guest daemon** serves gRPC.
- The daemon's handlers run concurrently. `Server.mu` serialises the typed
  edits of `config.xml`, `DeployManager.mu` the deploy handlers, and nothing
  the transfers (`TransferManager.mu` is declared and never taken).
- `daemon push` is an upload whose finish step renames onto `.staged`;
  `daemon stage` promotes it, `daemon restart` re-executes the process in
  place, and the **shim** stands between `daemon(8)` and every fresh spawn.
- The **upgrade orchestrator** runs on the host as short-lived processes. They
  share `state.json`, qm, and the guest, with no lock among them. What they do in
  the guest is a series of commands over the daemon's `Exec` stream, of which each
  may fail, be cut, or go on in the guest with nobody waiting.

### What is hard, and what makes each part correct

- *Upgrade.* Every invocation may be killed between two effects, a qm
  operation outlives the caller that gave up on it, and `state.json` may not be
  readable. Correct: as long as a cycle may have to be rolled back its baseline
  exists, unless a gc could not see that it must; a recorded rollback is a real
  one; reset abandons a cycle only with the guest restored.
- *Firmware.* A repository that publishes between two commands, a guest that
  reboots by itself, a lost command that is still installing, a watchdog and a
  poll that race the reboot. Correct: a recorded success is true of what is
  installed and of what runs; a dry run changes nothing; a hung verdict, which
  makes `run` roll the VM back, is never recorded once the guest may be
  rebooting; every invocation ends.
- *Deploy.* Two slots, three marker files and a shell script, all
  interruptible, half of them on a memory disk. Correct: some slot always holds
  a binary that serves; a deploy marked healthy is never reverted; a bad deploy
  is reverted once, without an operator.
- *Drainer.* Four goroutines and connections that come and go. Correct: of
  what was read before it connected, a bridge receives at most one chunk, and
  first; no stream has a gap; a hung bridge never stalls the guest; a replaced
  connection is closed and its pump ends, unless the guest keeps it in a write.
- *Channel.* Three processes (drainer, qemu, daemon) and systemd's store hold
  ends of one byte channel, and each of them can stop at any point. A guest write
  that waits while the last host-side holder goes is stranded in the guest's
  kernel. Correct: one live connection to qemu; a stranded write only where the
  hand-over to systemd failed; every other write ends; a stop of the daemon ends.
- *Bridge.* A redial under a mutex that the heartbeat also needs. Correct: two
  sessions never share the serial line; a dead session is noticed; clients
  are served in the end.
- *Transfers.* Records, temporary files and installs meet power loss, resumes
  and cancels. Correct: what is installed is one client's whole content; what
  is reported committed is on disk; what is downloaded meanwhile is whole too.
- *config.xml.* Concurrent edits with backups. Correct: no edit is lost, and the
  backup that a call returns is what it replaced.

## 2. The modules

Each component has one module (`VARIABLES`, `Init`, one action per step,
`Next`, `Spec`, properties), an `MC...` module with the definitions TLC needs,
one or more `.cfg` files, and a `...Proofs` module. Definitions called "Mutant
of X" are wrong versions of the action X that `PROJECT.json` uses to show that a
property can fail; no specification uses them.

**UpgradePhases** holds the phase table of `state.go` and the guards that the
phase functions really apply. **Upgrade** models an invocation as a process
with a program counter `at`, the `State` value it holds in memory and the
snapshots it has still to delete. `file` is `state.json` (saved by a rename, so
a save happens or does not). `snaps` maps a snapshot to the firmware it holds,
`born` to its place in qm's list, and the storage rolls back to the newest one
only. `overlooked` is history: since the recorded cycle was prepared, a gc that
could not read `state.json`, and so pinned nothing, has been free to take its
baseline. Labels are prefixed by verb: `p_` prepare, `x_` execute, `v_` validate,
`r_` rollback, `c_` commit, `g_` gc, `z_` reset; `run` passes through the
first three. `Crash`, `DetachedOpEnds`, snapshots taken by the watchdog or by
hand, and a VM started by someone are the environment. **UpgradeLifecycle** is
what the operator is promised, three variables (`phase`, `kept` and, for such a gc,
`blind`), and `Upgrade` implements it under the mapping at the end of the module.

**GuestExec** says what a caller learns of a command in the guest. A fate of a
command is how its process ends (never started, status 0, status 0 with a child
that holds the pipe, anything else) and what becomes of its stream (refused,
whole, cut, lost). Each layer is one operator from fate to result: `runExec`,
`Server.Exec`, `RPC.Exec`, `GRPCExecutor` and the three ways `guestRunner` reads a
reply. `Work` and `GoesOn` are the other half: how much the command has done
when its caller goes on, and whether it is still at work. The module has
constant expressions only and is checked through `Firmware`.

**Firmware** takes prepare and execute command by command. `guest` is the disk
(packages, base, kernel, a release staged for the next boot, the package
catalogue), `boot` is what the running system has loaded, `run` is what the
invocation remembers, `job` a command that goes on unattended. A version is a
series, a patch level and a package revision, since the code compares them in
three ways (`pkg version -t`, release series, revision stripped). `Publish`,
`GoesDown`, `Boots`, `JobEnds`, `OperatorUpdates` and `WatchdogExpires` are the
environment; `Killed` ends the invocation at any point. **FirmwareContract** says
who may change the disk and when; `Firmware` implements it.

**Deploy** holds one variable per file, `run` (the binary that runs), `op` (the
handler that holds the mutex and where it is) and `shim`. Each file operation is
one step. `Reboot` empties the memory disk. `hist` is a history variable: no
action reads it. A binary is *good* when it comes up and serves.

**Drain** gives every goroutine a place: `reader[d]` and `writer[d]` for the
chardev session `d`, `pump[c]` for the bridge connection `c`. A step runs from
one point where another goroutine can interfere to the next: a critical section
of `drainHub.mu`, a channel operation, a read, a write or a close. What takes a
client from the hub and what closes it are two steps everywhere: in `setClient`
(`Attach`, `CloseOld`), on an overflow, after a failed write and at the end of a
pump. Each chunk carries the epoch it was stamped with (as in the code) and the epoch
at which it was read (history, for `TailBounded`).

**Channel** is the same byte path seen from its ends: `vm` and `qemu` (the one
connection it serves), `store` (systemd's descriptor store), `drain` (the drainer
process: what it was passed, what it holds), `daemon` (the serve loop, with the pieces
of a frame still to be written) and `stale` (bytes of an earlier session that the next
one must not read). A serial device that does not open ends the daemon (`OpenFails`),
and daemon(8) starts another (`Respawn`). `exposed` names the connections whose
hand-over failed (history, for `NoStrandedWrite`). `env` is chosen in `Init`: whether
systemd drops a dead entry before it starts the unit again (`prompt`), and whether
every descriptor it passes can be used (`usable`).

**HostBridge** numbers sessions in the order they are dialled. `mu` names the
client or the session heartbeat that holds the mutex; `client[c]` and `beat[s]`
say where `handleClient` and `runHeartbeat` are. yamux is an input: a session of
the first `Faults` breaks, or hangs without a word, at any moment.

**Transfer** takes one step per file operation or stream message. A file is a
sequence of chunks, a chunk is known by the content version it was cut from,
`file` is what processes see and `dur` what a power loss leaves. `Restart` picks
which files lose their unsynced bytes and which records are collected.
**Download** adds a read of an installed file that uploads replace meanwhile: the
server keeps the file open, the client appends what it receives.

**ConfigXML** represents the document as a value per element. A request goes `open`
(lock, read and edit done), `keep` (backup opened), `install` (backup named). `whole`,
chosen in `Init`, says whether operators also upload the file as a whole, with a
backup (`Put`) or without one (`Replace`); neither takes the lock. `past` and `clash`
are history variables.

Compositions: `Upgrade` composes the verbs with qm and the guest, `Firmware` the
executor with the guest's packages and boots and the repository, `Deploy` the
manager with its shim, `ConfigXML` the typed edits with uploads, `Download` a pull
with the uploads, and `Channel` the drainer process with systemd, qemu and the
guest's daemon. `Drain` (what the drainer relays) and `HostBridge` meet `Channel`
over byte streams; each has the others as a nondeterministic environment.

## 3. Runs

| Run | Instance | What it shows |
| --- | --- | --- |
| `upgrade_safety` | 1 invocation at a time, all verbs, clock 1..3, 2 firmwares, one snapshot of the watchdog and one by hand | baseline kept, rollbacks and resets real, foreign snapshots left alone, and the refinement of `UpgradeLifecycle` |
| `upgrade_doc_outcome` | the same, clock 1..2, no snapshot by hand | finding: `run` reports another phase than the `rollback_failed` it left in the file |
| `firmware` | every kind of target (empty, the installed series, the next), dry run or not, always-reboot or not; 1 publication, 3 boots, fair | a recorded success is true, no late hung verdict, the refinement of `FirmwareContract`, and every prepare and execute ends |
| `deploy_careful` | 2 good binaries and 1 bad, every fault, careful operator | a serving binary remains in a slot |
| `deploy_shim` | the same binaries, crashes and write errors, any operator | healthy deploys stay, one revert per deploy, recovery without an operator |
| `deploy_doc_marker` | crashes only | finding: a swapped binary can be spawned as verified |
| `drain` | queue 1, 2 bridges, 1 VM start, 3 chunks down and 1 up per bridge, fair | no gap, at most one old chunk, a hung bridge stalls nobody, superseded pumps end or are held by the guest |
| `channel` | 2 VM starts, 3 connections, 2 ends of the drainer, 2 events in the guest, frames of 2 pieces, fair | one live connection, stranded writes only where a hand-over failed, writes and stops end |
| `transfer` | 2 ids, 2 versions of 2 chunks, 2 streams, a checkpoint at the second chunk, one download | installed and downloaded content whole, checkpoints durable |
| `config` | 2 elements (one the gateway), 1 value, 2 requests, 2 seconds, no new operation after 2 backups, no upload without a backup after 1 | edits add up, every version that was in place is kept |
| `config_doc_backup` | the same | finding: a returned backup is overwritten within its second |
| `bridge` | 2 clients, 2 faulty sessions and a sound one | one session, hung sessions dropped, clients served |

Why the bounds are enough:

- *Upgrade.* A clock of 3 gives three upgrade snapshots: a baseline, one a
  cycle behind (for gc, whose age is one tick) and one ahead. The clock stops
  at the bound, so later prepares collide with the name of an earlier one, as
  two prepares within a second do. One snapshot of the watchdog gives rollback
  a child to delete, and one by hand makes it fail.
- *Firmware.* One publication is enough for the repository to move between any
  two commands, as a patch release, a package revision or a new updater. Three
  boots are the one before, the one the reboot step asks for, and one that nobody
  asked for. `CHECK_DEADLOCK FALSE`: after an execute that ended the cycle is
  over, and the boots are used up.
- *Deploy.* With two good binaries and a bad one, `.current`, `.previous` and
  `.staged` may all differ; no counter is bounded.
- *Drain.* A queue of 1 fills with one chunk in hand, so three chunks reach
  the overflow and go on after it. Two bridges are a superseded one and its
  successor. The run has one start of the VM; that the writer of an ended
  session may run beside the new one is covered by the proofs of the safety
  properties, which hold for any number of starts. `CHECK_DEADLOCK FALSE`: when
  the bounded inputs are used up and every connection hangs, nothing is left.
- *Channel.* Two ends of the drainer are one that leaves a descriptor behind and
  one after its adoption; a third connection is needed for a second qemu after
  two to the first. Two pieces are a write in part. `CHECK_DEADLOCK FALSE`:
  with the bounds used up a stopped daemon and an idle drainer stay as they are.
- *Transfer.* Two streams are needed for interference, two chunks for a torn
  file or a lost tail, two versions for a mix. `Checkpoint = 2` leaves one
  unsynced chunk between checkpoints. A download may start at any time and again.
- *ConfigXML.* Two requests interfere or share a second; two backups are a first one
  and one that could hide or overwrite it. An upload without a backup comes before the
  first backup, beside requests that have read the document. Absent or present is all
  an element needs: one value is enough to lose an edit.
- *HostBridge.* Two faulty sessions are one whose heartbeat is late and its
  successor that fails too; the third never fails, so liveness is not granted
  by running out of sessions.

Three runs expect a violation. Each checks one sentence of a comment against
the code, and `PROJECT.json` quotes it under `findings`.

Symmetry is used in safety runs only.

## 4. Fairness

- `Upgrade`: none. What it states is safety; that an invocation ends is asked of
  `Firmware`, which has the waits.
- `Firmware`: weak fairness on the invocation's own steps and on the deadline of
  the reboot wait. Every guest command ends, by its timeout, by the watchdog of
  execute, or, when its stream was lost, by the bridge's heartbeat. The guest's
  boots, the repository and the watchdog are not fair.
- `Deploy`: weak fairness on the shim (`daemon(8)` respawns) and on the exit of
  a binary that is not good (that is what makes it not good). A disk that fails
  every copy is outside `BadDeployRecovers`: its run leaves out the `copy` fault,
  and also reboots, which erase the markers.
- `Drain`: weak fairness on closing a connection, on the reader once it holds a
  chunk (it never waits for room), on the writer after a failed write, and on a pump
  that waits for nobody. Nothing is assumed of a read of the chardev or of a bridge,
  nor of a write to either: both may hang for ever. A write to the chardev does when
  the guest takes nothing, for it has no deadline (`opnsense_drain.go:433-436`), so
  `SupersededPumpEnds` has that outcome beside the end: the pump sits in that write
  for good, with the VM up (`Blocked`). Without it TLC finds the property violated.
- `Channel`: weak fairness on qemu, systemd and rc.d doing their part, and on the
  drainer and the daemon going on. daemon(8) starts a daemon that has ended, but that
  the serial device opens is not assumed: it may fail every time. A VM, an operator's
  stop and a kill are not fair. `WriteEnds` is stated for `env.prompt` and
  `env.usable`; without either a second connection may wait behind one that nobody
  reads.
- `HostBridge`: weak fairness on calls and timers (yamux bounds opening a stream
  and writing, the heartbeat has a timeout), strong fairness on taking the
  mutex, since Go's `sync.Mutex` hands itself to a starving waiter. It assumes a
  heartbeat interval above zero (the flag can switch the heartbeat off).

## 5. Proofs

Theorems are of the form `Spec => []Inv`, `Spec => [][A]_vars` or, for the three
refinements, `Spec => OtherSpec`; `AnswersAreTrue` is about constant operators.
Each comes from an inductive invariant, which is a theorem too. TLC checks the
properties themselves in the runs and has checked each inductive invariant on the
same instances before it was proved. With this, every invariant, action property
and refinement that a passing run checks is proved for every value of the
constants, under the assumptions listed below.

- **UpgradeProofs.** For any number of concurrent invocations: `TypeCorrect`,
  `UserSnapshotsAlwaysKept` and `ListingOrderSound` (ages number the snapshots, so
  "later than the baseline" means something). The rest needs `SingleOperator` (no two
  invocations overlap). The invariant `UpgradeInv` has five parts, and each is needed
  by the next. `TypeInv` adds to the types that a detached delete or rollback is of a
  snapshot that exists. `WorkInv`: what an invocation has still to delete is never an
  operator's snapshot. `BornInv`: the order of qm's list. `BaselineInv`:
  `BaselineKept` alone is not inductive, since an invocation with a stale phase could
  write it back and a detached delete could still be running, so it adds that no
  delete is aimed at a needed baseline. Needed is the baseline of an unfinished cycle
  that is not `overlooked`; an overlooked one is past gc's age threshold, since that
  is all such a gc goes by, and a new prepare has a needed baseline again. `CycleInv`:
  what an invocation holds at each step is licensed by the phase it read, which is
  still the recorded one; past the qm rollback the guest is on its baseline; and what
  reset has yet to delete was there when it planned, or is younger than the baseline,
  so that qm will refuse. From it follow `RolledBackMeansRestored`,
  `PreparedIsUntouched`, `ResetAlwaysRestores` and `UpgradeImplementsLifecycle`, in
  which a step that writes the file is a phase change of `UpgradeLifecycle` and any
  other one stutters, releases the baseline or overlooks it.
- **FirmwareProofs.** For any targets, number of publications and boots. The five
  layers of `FirmwareInv`: `TypeInv` (types, and which files a step has behind it);
  `JobInv` (a command that goes on unattended is only there once execute has failed
  or is gone, so none works beside the next step; the boot id is read before any
  reboot of execute's); `VersionInv` (until a major plan exists everything is of one
  series and only grows towards the repository, after that the staged release is
  the only one that can land, once); `LandedInv` (what each step of an update has
  established of the disk, and what the captures after it have read of it);
  `BootInv` (what the running system has loaded: before the change all that is
  installed, since `pkg update` answered from a guest that is up; after a boot other
  than the one read, all of it again; in between, the listing taken before). They give
  `HungOnlyBeforeReboot` from the second, `SuccessMeansLanded` from the fourth,
  `SuccessRunsWhatIsInstalled` from the fifth, and `FirmwareImplementsContract`, of
  which only the first four layers are needed: a step that touches the disk is a
  command of an execute at work, a leftover of one that failed, or the operator's.
  `SeriesNeedsMajorPlan` says that nothing else leaves the release series, and
  `AnswersAreTrue` what a caller may conclude from an answer.
- **DeployProofs.** `MarkersInv` ties a mark to `health=ok` for as long as the
  marker exists, for any operator and any faults; `HealthyStays` and
  `RevertedOnce` follow. `SlotsInv` needs the careful operator: `.previous` is
  only overwritten with a binary that serves.
- **TransferProofs.** `OwnedInv` (one stream per transfer, which knows what is in
  its file; installed files have no owner) gives `TargetIntact`,
  `CheckpointDurable` and `CommittedGrows`, under `~Sharing`. `PullRefines` shows
  that a specification with a download is one of `Transfer`, so `OwnedInv` holds in it;
  with it `PulledWhole` follows: an installed file keeps its content while it is open.
- **ConfigProofs.** `LockedInv` (whoever is past the lock has read and backed up the
  document still in place) gives `NoEditLost`, `ReturnedBackupIsPrior` (not in the
  run) and `EveryVersionKept`, for any number of requests, while nobody uploads whole
  files.
- **DrainProofs.** `PipeInv` follows every chunk from the reader's hand through the
  queue to the writer: chunks stamped for the client are numbered up to what the
  reader has queued, all but the first were read for it, and the last one it
  received precedes them. `InOrder` says the same of a chunk that is being written to
  a client which has been cleared since. `StreamHasNoGap` and `TailKept` follow, and
  two that no run repeats: `EpochKept` (the writer passes on what is stamped for the
  client it serves, and nothing else) and `OpenKept` (no connection is forgotten: one
  that is open is the hub's client, or some goroutine's next step closes it). They
  assume nothing but the constants' types.
- **ChannelProofs.** `Secured` says where the descriptor of each connection is,
  whatever the environment does, and gives `NoStrandedWrite`. `Single` says which live
  connections systemd and the drainer hold, and gives `OneLiveConnection` where
  systemd is prompt and its descriptors usable. Both bite: TLC finds two live
  connections without either.
- **BridgeProofs.** `BridgeInv` (the mutex is held by exactly whoever is past it,
  and nobody dials while a session is usable) gives `OneSession`.

What the results assume:

- *single operator*: one upgrade invocation at a time. Nothing in the code
  enforces it. With two, a prepare and an execute that overlap lose a phase
  (`prepare.go:56` loads the state, `:159` saves it).
- *Careful*: the operator stages only from a daemon that runs `.current` with no
  verification pending. Without it `GoodBinaryRemains` fails: a second bad deploy
  overwrites `.previous` with the first.
- *~Sharing*: no client resumes or cancels a transfer that a stream still
  serves. No client in the repository resumes at all. With sharing, a resume
  opens the temporary file by name and truncates an inode that another stream is
  installing, and a checkpoint re-creates the record a cancel removed.
- *~whole*: nobody uploads `config.xml` as a file beside typed edits. An upload
  takes no lock, so an edit that has read the document before can undo it, and
  `file push` takes no backup of what it replaces (`opnsense_file.go:176`,
  `transfer.go:668`).
- *Readable state*, for the baseline only: a gc that cannot read `state.json` may
  take it. What a recorded rollback and a reset promise does not depend on it.
- *No name is of two kinds* (`UpgradeAssumption`): a snapshot an operator names by
  hand is not one of the watchdog's. Clean-ups go by a pattern on the name, so the code
  cannot tell one from the other.
- *None is no value* (`NoneAssumption`): what is missing is no version, plan or boot.

Only model-checked: the liveness properties `Ends`, `BadDeployRecovers`,
`GuestNeverStalled`, `SupersededPumpEnds`, `WriteEnds`, `DaemonSettles`,
`HungSessionDropped` and `ClientServed`, since the prover does not do `ENABLED` and
with it fairness; the rest is proved.

## 6. Where the code and its words part

The three runs above are the checked ones. Others, seen while translating
the source and modelled as the code has them:

- Rollback and validate accept phases outside `allowedTransitions`
  (`rollback.go:171-182` against `state.go:190-191`); the guards in the model are
  the code's.
- Rollback deletes only the watchdog's later snapshots, not all of them
  (`snapshots_after.go:22` against `rollback.go:12-13`), and does not re-run
  Validate (`rollback.go:14`). `waitForGuest` takes any answer (`rollback.go:34`).
- gc may collect the baseline of a `rollback_failed` cycle (`gc.go:114`). Any other
  unfinished cycle it is said to protect "regardless of age" (`gc.go:27-28`), but when
  `state.json` cannot be read or parsed it pins nothing and sweeps all the same
  (`gc.go:104-113`). `run` drops the same error (`run.go:49`) and then goes on to
  validate a hung execute rather than roll it back.
- A `boot-attempt` marker outlives a deploy that follows a crash
  (`mwan-opnsense-run:54`), so the new binary may be reverted at its first exit.
- `Status` reports the state file's `active`, which a shim revert leaves stale
  (`deploy.go:318-321`). A push between the hash check and the rename is what gets
  promoted (`deploy.go:244`). Revert does not restart the daemon.
- The drainer stamps a chunk after reading it (`opnsense_drain.go:493`), so a
  new bridge may receive one chunk of the old stream: `TailBounded` says at most
  one, and first. An overflow that races a reconnect may drop the newer client
  (`:497-499`). The writer of an ended chardev session may go on (`:520-523`), and
  a superseded pump may write one more buffer (`:419-441`), or wait in that write for
  as long as the guest takes nothing.
- `makeChardevOpener` logs "the only wedge window" whenever it dials after a first
  store (`opnsense_drain.go:223`): after every restart of the VM, where nothing is
  wedged, and never in a process that follows one which died without storing,
  for there the flag is false (`:192-197`).
- A passed descriptor that cannot be used, or one that systemd has not dropped
  yet, makes the drainer dial beside the connection that is still stored; qemu
  serves the older one, which nobody reads.
- `Serve` does not always return on a stop: it parks in the serial read
  (`serve.go:56-63` against `opnsense_daemon_serve.go:32-38`). A stop then waits for
  rc.d's kill. A daemon whose re-exec fails parks too.
- `RestartDaemon` waits 250 ms or until the call ends (`server.go:483-489`); the
  handler returns at once, which ends the call, so there is no grace.
- `ErrClientClosed` is never returned (`rpc_client.go:32`), so the redial in
  `executor_grpc.go:79` never happens.
- `execWaitDelay` is said to matter only after the per-call timeout (`exec.go:17-21`).
  It also starts when the process exits by itself and leaves a child that holds
  the pipe: a command that succeeded then reports an error.
- An answer to Exec may carry 10 MB of stdout in one message (`exec.go:30`), more
  than a gRPC client accepts by default.
- `verifyFirmware` compares with the version found at the plan (`firmware.go:407`):
  when the repository has moved on meanwhile, a good update fails.
- The wait for the reboot takes any boot other than the one read before
  (`reboot.go:114`). A reboot by itself between the reading and the shutdown
  satisfies it. The plan's `RebootRequired` decides nothing, and a `pluginctl -g` that
  exits with another status than 0 reads as "no".
- `file pull` truncates DEST before the first answer, prints the two hashes without
  comparing them, and exits 0 when the stream ends without a terminal message
  (`opnsense_file.go:339-374`).
- The start-up sweep removes the temporary files of resumable uploads to the
  binary directory (`deploy.go:130`). A disconnect seen during a disk step
  destroys the transfer rather than keep it (`transfer.go:429-453`).

## 7. Not modelled

- The ordering of a power loss in `ConfigXML`: `writeConfigWithLog` syncs the file
  and not the directory, so the old name may come back; a restart here keeps both.
- The contents of the artefacts that prepare captures (config.xml, rule sets, routes)
  and what the validator compares in them: a check passes, warns or fails, as an
  input of `Upgrade`. The firmware files are the exception, execute plans from them.
- The notifier. The map that suppresses repeats lives in a process that sends once
  and ends, so it suppresses nothing over calls; a mail that fails is only logged.
- Path validation, the TOML readers and the installer: functions of one call,
  with no state. The XML transformation: a pure rewrite of a document. Generated
  protocol code.
- Verbs that make one read-only call of the daemon and print the answer
  (version, status, XPathGet, probes).
- That the verbs other than prepare and execute end. Their waits are those of qm,
  each under a timeout that `Upgrade` has as a possible outcome.

## 8. Plan

Built in this order, by what a failure costs: Upgrade (a firewall that cannot be
rolled back), Deploy (a daemon that cannot be reached), Transfer, Drain,
ConfigXML, HostBridge, then Firmware with GuestExec, Channel, Download. What is
left:

1. Extend: a composition of bridge, drainer and serve loop whose abstract
   specification is a byte pipe that breaks; a composition of an upload with `Push`;
   the artefacts of a cycle as far as the validator compares them.
2. Prove: what the composition of an upload with `Push` needs, and the safety
   lemmas behind the liveness properties (a waiting goroutine's wake-up is always
   still to come), which can be stated as invariants.
