------------------------------ MODULE Firmware ------------------------------
(***************************************************************************)
(* One upgrade cycle seen from the guest: `upgrade prepare` captures the   *)
(* installed firmware (internal/upgrade/firmware.go, prepare_artefacts.go),*)
(* `upgrade execute` finds the pending change, applies it, reboots and     *)
(* verifies (execute.go, firmware.go, reboot.go).                          *)
(*                                                                         *)
(* A step is one command in the guest with its outcome (GuestExec), or one *)
(* file on the host.  Between two steps the repository may publish, the    *)
(* watchdog may expire, the guest may go down, and a command whose stream  *)
(* was lost may still be at work.                                          *)
(***************************************************************************)
EXTENDS GuestExec

CONSTANTS
  Targets,     \* values of [opnsense.upgrade].target, see Version
  MaxPublish,  \* bound: releases and revisions the repository publishes
  MaxBoots,    \* bound: boots of the guest
  None         \* "no boot read", "no sets installed", "no artefact"

ASSUME FirmwareAssumption ==
  Targets \subseteq 0..2 /\ MaxPublish \in Nat /\ MaxBoots \in Nat \ {0}

\* Release series 1 is installed, series 2 is the one a major upgrade reaches.
\* A target names a series; 0 stands for the empty one.
Version == [series : 1..2, patch : 0..MaxPublish, rev : 0..MaxPublish]

First(series) == [series |-> series, patch |-> 0, rev |-> 0]

releaseSeries(v)        == v.series
stripPackageRevision(v) == [v EXCEPT !.rev = 0]

\* pkg version -t
Older(v, w) == \/ v.series < w.series
               \/ v.series = w.series /\ v.patch < w.patch
               \/ v.series = w.series /\ v.patch = w.patch /\ v.rev < w.rev

VARIABLES
  repo,     \* the package repository: [core, updater]
  guest,    \* the guest's disk: [core, updater, base, kernel, staged, catalog]
  boot,     \* the guest's boot: [id, up, core, updater, kernel], what it loaded
  job,      \* what still runs in the guest although nobody waits for it
  opts,     \* [target, dry], and the guest's always-reboot setting
  phase,    \* state.json
  dir,      \* the deploy directory: [pre, plan]
  run       \* the invocation in memory, see Memory

host == <<opts, phase, dir, run>>
vars == <<repo, guest, boot, job, host>>

Jobs     == {"none", "packages", "sets", "major", "reboot"}
Packages == [core : Version, updater : Version]
States   == [core : Version, base : Version, kernel : Version]
Plans    == [major : BOOLEAN, coreAvailable : Version, corePending : BOOLEAN,
             setsAvailable : Version, basePending : BOOLEAN,
             kernelPending : BOOLEAN, alwaysReboot : BOOLEAN]

\* What is missing is no value.
ASSUME NoneAssumption ==
  None \notin Nat /\ None \notin Version /\ None \notin Packages
    /\ None \notin States /\ None \notin Plans

\* Steps of prepare and of execute.  Those in Watched run under execCtx.
Watched   == {"refresh", "probe", "major", "before", "packages", "webgui",
              "check", "sets", "after"}
Executing == Watched \cup {"pre", "bootid", "shutdown", "wait", "postcore",
                           "postbase", "postkernel", "verify", "save"}
Preparing == {"config", "core", "base", "kernel", "rest"}

\* What the invocation remembers: the firmware it has read, the package listing
\* before the update, whether the update failed, the sets it installed, whether a
\* reboot is required, the boot before that, whether the watchdog of execCtx or
\* the deadline of the wait for a new boot has passed, and the phase to record.
Memory ==
  [at : Executing \cup Preparing \cup {"idle"}, read : States,
   listing : Packages \cup {None}, broke : BOOLEAN, sets : Version \cup {None},
   reboot : BOOLEAN, before : (1..MaxBoots) \cup {None},
   expired : BOOLEAN, late : BOOLEAN,
   out : {"executing", "executed", "execute_failed", "execute_hung"}]

Idle == [at |-> "idle", read |-> [f \in {"core", "base", "kernel"} |-> First(1)],
         listing |-> None, broke |-> FALSE, sets |-> None, reboot |-> FALSE,
         before |-> None, expired |-> FALSE, late |-> FALSE, out |-> "executing"]

Goto(at)  == run' = [run EXCEPT !.at = at]
Start(at) == run' = [Idle EXCEPT !.at = at]
Exit      == run' = Idle

-----------------------------------------------------------------------------
(* Commands in the guest                                                   *)

\* A guest that is down runs nothing, and past the watchdog's deadline no stream
\* of a watched step is left to carry an answer.
Possible ==
  {fate \in Fates : /\ ~boot.up => fate.ends = "unstarted"
                    /\ (run.expired /\ run.at \in Watched) => fate.link # "whole"}

\* What a command that only reads may answer.
Answers == UNION {GuestExec(fate) : fate \in Possible}

\* What each job does to the disk.  opnsense-update -p brings every package to
\* what the repository offers, -bk brings base and kernel to the release of the
\* installed updater, -u -r stages a release for the next boot.
WithPackages(core, updater) == [guest EXCEPT !.core = core, !.updater = updater]
WithSets(base, kernel)      == [guest EXCEPT !.base = base, !.kernel = kernel]
Stage(release)              == [guest EXCEPT !.staged = release]

After(amount, old, new) == CASE amount = "none" -> {old}
                             [] amount = "part" -> {old, new}
                             [] amount = "all"  -> {new}

Install(job_, amount) ==
  CASE job_ = "packages" ->
         {WithPackages(c, u) : c \in After(amount, guest.core, repo.core),
                               u \in After(amount, guest.updater, repo.updater)}
    [] job_ = "sets" ->
         LET sets == stripPackageRevision(guest.updater) IN
         {WithSets(b, k) : b \in After(amount, guest.base, sets),
                           k \in After(amount, guest.kernel, sets)}
    [] job_ = "major" ->
         {Stage(s) : s \in After(amount, guest.staged, opts.target)}

\* A command that changes the disk, and may go on doing so.
Outcomes(job_) ==
  UNION {[reply : GuestExec(fate),
          guest : UNION {Install(job_, amount) : amount \in Work(fate)},
          job   : {IF GoesOn(fate) THEN job_ ELSE job}] : fate \in Possible}

Change(result) == guest' = result.guest /\ job' = result.job

JobEnds ==
  /\ job \in {"packages", "sets", "major"}
  /\ \E amount \in Amounts : guest' \in Install(job, amount)
  /\ job' = "none"
  /\ UNCHANGED <<repo, boot, host>>

-----------------------------------------------------------------------------
(* The world around the invocation                                         *)

\* What it publishes after the outcome is another cycle's business.
Publish ==
  /\ phase \in {"empty", "prepared", "executing"}
  /\ \/ /\ repo.core.rev < MaxPublish
        /\ repo' = [repo EXCEPT !.core.rev = @ + 1, !.updater.rev = @ + 1]
     \/ /\ repo.core.patch < MaxPublish
        /\ LET new == [series |-> 1, patch |-> repo.core.patch + 1, rev |-> 0]
           IN  repo' = [core |-> new, updater |-> new]
  /\ UNCHANGED <<guest, boot, job, host>>

\* The guest goes down because it was told to, or by itself.
GoesDown ==
  /\ boot.up /\ boot.id < MaxBoots
  /\ boot' = [boot EXCEPT !.up = FALSE]
  /\ job' = "none"
  /\ UNCHANGED <<repo, guest, host>>

\* It comes up with a new boot id.  A staged release lands before it answers, or
\* does not land at all.
Boots ==
  /\ ~boot.up
  /\ \/ UNCHANGED guest
     \/ /\ guest.staged # 0
        /\ guest' = [guest EXCEPT !.core = First(guest.staged), !.updater = First(guest.staged),
                                  !.base = First(guest.staged), !.kernel = First(guest.staged),
                                  !.staged = 0]
  /\ boot' = [id |-> boot.id + 1, up |-> TRUE, core |-> guest'.core,
              updater |-> guest'.updater, kernel |-> guest'.kernel]
  /\ UNCHANGED <<repo, job, host>>

\* Outside execute the operator may apply the same update in the web interface,
\* which reboots by the same rule.
OperatorUpdates ==
  /\ phase \in {"empty", "prepared"} /\ boot.up /\ boot.id < MaxBoots
  /\ LET sets == stripPackageRevision(repo.updater) IN
     /\ guest' = [guest EXCEPT !.core = repo.core, !.updater = repo.updater,
                               !.base = sets, !.kernel = sets]
     /\ IF \/ guest.base # sets \/ guest.kernel # sets
           \/ opts.always /\ (guest.core # repo.core \/ guest.updater # repo.updater)
        THEN boot' = [boot EXCEPT !.up = FALSE]
        ELSE UNCHANGED boot
  /\ UNCHANGED <<repo, job, host>>

WatchdogExpires ==
  /\ run.at \in Executing \ {"pre"} /\ ~run.expired
  /\ run' = [run EXCEPT !.expired = TRUE]
  /\ UNCHANGED <<repo, guest, boot, job, opts, phase, dir>>

RebootDeadline ==
  /\ run.at = "wait" /\ ~run.late
  /\ run' = [run EXCEPT !.late = TRUE]
  /\ UNCHANGED <<repo, guest, boot, job, opts, phase, dir>>

-----------------------------------------------------------------------------
(* Prepare                                                                 *)

StartPrepare ==
  /\ run.at = "idle" /\ phase \in {"empty", "prepared"} /\ Start("config")
  /\ UNCHANGED <<repo, guest, boot, job, opts, phase, dir>>

\* Without config.xml and its checksum on the host, prepare gives up.
CaptureConfigXML ==
  /\ run.at = "config"
  /\ \/ "zero" \in Answers /\ Goto("core")
     \/ Exit
  /\ UNCHANGED <<repo, guest, boot, job, opts, phase, dir>>

\* fail: a step of the watchdog's context is hung once the deadline has passed.
Fail(watched) ==
  run' = [run EXCEPT !.at = "save",
                     !.out = IF watched /\ run.expired THEN "execute_hung" ELSE "execute_failed"]

\* captureFirmwareState reads core, base and kernel one after the other; prepare
\* keeps them in firmware.pre.json, execute compares them with the plan.
Captures == [core     |-> [field |-> "core",   next |-> "base"],
             base     |-> [field |-> "base",   next |-> "kernel"],
             kernel   |-> [field |-> "kernel", next |-> "rest"],
             postcore |-> [field |-> "core",   next |-> "postbase"],
             postbase |-> [field |-> "base",   next |-> "postkernel"],
             postkernel |-> [field |-> "kernel", next |-> "verify"]]

CaptureFirmwareState ==
  /\ run.at \in DOMAIN Captures
  /\ \/ /\ "zero" \in Answers
        /\ LET step == Captures[run.at] IN
           run' = [run EXCEPT !.at = step.next, !.read[step.field] = guest[step.field]]
     \/ /\ Answers # {"zero"}
        /\ IF run.at \in Preparing THEN Exit ELSE Fail(FALSE)
  /\ UNCHANGED <<repo, guest, boot, job, opts, phase, dir>>

\* Mutant of FinishPrepare: a failed write of firmware.pre.json goes unnoticed.
FinishPrepareAnyway ==
  /\ run.at = "rest" /\ Exit /\ phase' = "prepared"
  /\ dir' \in {[pre |-> pre, plan |-> None] : pre \in {run.read, None}}
  /\ UNCHANGED <<repo, guest, boot, job, opts>>

\* firmware.pre.json, the snapshot and state.json; each of them may fail.  The
\* deploy directory is new, so a failure leaves the one of state.json alone.
FinishPrepare ==
  /\ run.at = "rest" /\ Exit
  /\ \/ phase' = "prepared" /\ dir' = [pre |-> run.read, plan |-> None]
     \/ UNCHANGED <<phase, dir>>
  /\ UNCHANGED <<repo, guest, boot, job, opts>>

-----------------------------------------------------------------------------
(* Execute: the plan                                                       *)

StartExecute ==
  /\ run.at = "idle" /\ phase = "prepared"
  /\ \/ phase' = "executing" /\ Start("pre")
     \/ UNCHANGED <<phase, run>>
  /\ UNCHANGED <<repo, guest, boot, job, opts, dir>>

\* finish and fail fix the phase to record; Save writes it.
Finish == run' = [run EXCEPT !.at = "save", !.out = "executed"]

isMajorUpgrade(target, core) == target # 0 /\ target # releaseSeries(core)

majorPlan(target) ==
  [major |-> TRUE, coreAvailable |-> First(target), corePending |-> TRUE,
   setsAvailable |-> First(target), basePending |-> TRUE, kernelPending |-> TRUE,
   alwaysReboot |-> FALSE]

\* The pending change, from the baseline of prepare and the refreshed catalogue.
updatePlan(pre, catalog, always) ==
  LET sets == stripPackageRevision(catalog.updater) IN
  [major |-> FALSE, coreAvailable |-> catalog.core,
   corePending |-> Older(pre.core, catalog.core), setsAvailable |-> sets,
   basePending |-> pre.base # sets, kernelPending |-> pre.kernel # sets,
   alwaysReboot |-> always]

\* Mutant of Planned: a dry run goes on after writing the plan.
PlannedAnyway(plan) ==
  \/ /\ dir' = [dir EXCEPT !.plan = plan]
     /\ Goto(IF plan.major THEN "major"
             ELSE IF plan.alwaysReboot THEN "before" ELSE "packages")
  \/ UNCHANGED dir /\ Fail(FALSE)

\* firmware.plan.json is written, and a dry run stops here.
Planned(plan) ==
  \/ /\ dir' = [dir EXCEPT !.plan = plan]
     /\ IF opts.dry THEN Finish
        ELSE Goto(IF plan.major THEN "major"
                  ELSE IF plan.alwaysReboot THEN "before" ELSE "packages")
  \/ UNCHANGED dir /\ Fail(FALSE)

ReadPre ==
  /\ run.at = "pre"
  /\ \/ isMajorUpgrade(opts.target, dir.pre.core) /\ Planned(majorPlan(opts.target))
     \/ ~isMajorUpgrade(opts.target, dir.pre.core) /\ Goto("refresh") /\ UNCHANGED dir
     \/ Fail(FALSE) /\ UNCHANGED dir
  /\ UNCHANGED <<repo, guest, boot, job, opts, phase>>

\* pkg update
RefreshCatalogue ==
  /\ run.at = "refresh"
  /\ \/ "zero" \in Answers /\ guest' = [guest EXCEPT !.catalog = repo] /\ Goto("probe")
     \/ /\ Answers # {"zero"}
        /\ guest' \in {guest, [guest EXCEPT !.catalog = repo]}
        /\ Fail(TRUE)
  /\ UNCHANGED <<repo, boot, job, opts, phase, dir>>

\* pkg rquery, pkg version -t and pkg rquery, each of which must print a value,
\* and pluginctl -g, whose exit status does not count.
ProbeUpdatePlan ==
  /\ run.at = "probe"
  /\ \/ /\ "zero" \in Answers
        /\ \E always \in {FALSE, opts.always} :
             /\ always # opts.always => "nonzero" \in Answers
             /\ Planned(updatePlan(dir.pre, guest.catalog, always))
     \/ Answers # {"zero"} /\ Fail(TRUE) /\ UNCHANGED dir
  /\ UNCHANGED <<repo, guest, boot, job, opts, phase>>

-----------------------------------------------------------------------------
(* Execute: the change                                                     *)

\* opnsense-update -u -r stages the target release.
ApplyMajorUpgrade ==
  /\ run.at = "major"
  /\ \E result \in Outcomes("major") :
       /\ Change(result)
       /\ IF outputFails(result.reply) THEN Fail(TRUE)
          ELSE run' = [run EXCEPT !.at = "bootid", !.reboot = TRUE,
                                  !.sets = First(opts.target)]
  /\ UNCHANGED <<repo, boot, opts, phase, dir>>

Listing == [core |-> guest.core, updater |-> guest.updater]

ListBefore ==
  /\ run.at = "before"
  /\ \E reply \in Answers :
       /\ IF outputFails(reply) THEN Fail(TRUE)
          ELSE run' = [run EXCEPT !.at = "packages", !.listing = Listing]
  /\ UNCHANGED <<repo, guest, boot, job, opts, phase, dir>>

\* opnsense-update -p -t; its failure waits for the web GUI.
UpdatePackages ==
  /\ run.at = "packages"
  /\ \E result \in Outcomes("packages") :
       /\ Change(result)
       /\ run' = [run EXCEPT !.at = "webgui", !.broke = outputFails(result.reply)]
  /\ UNCHANGED <<repo, boot, opts, phase, dir>>

RestartWebGUI ==
  /\ run.at = "webgui"
  /\ IF run.broke THEN Fail(TRUE) ELSE Goto("check")
  /\ UNCHANGED <<repo, guest, boot, job, opts, phase, dir>>

AfterSets(at) == IF dir.plan.alwaysReboot THEN "after" ELSE at

\* opnsense-update -bk -c exits 0 when the release of the installed updater is
\* not the installed base and kernel; any other exit status means it is.
SetsPending == LET release == stripPackageRevision(guest.updater)
               IN  guest.base # release \/ guest.kernel # release

CheckSets ==
  /\ run.at = "check"
  /\ \E reply \in Answers :
       /\ reply = "zero" => SetsPending
       /\ IF runFails(reply) THEN Fail(TRUE)
          ELSE Goto(IF reply = "zero" THEN "sets" ELSE AfterSets("postcore"))
  /\ UNCHANGED <<repo, guest, boot, job, opts, phase, dir>>

\* opnsense-update -v and -bk.
InstallSets ==
  /\ run.at = "sets"
  /\ \/ Answers # {"zero"} /\ Fail(TRUE) /\ UNCHANGED <<guest, job>>
     \/ /\ "zero" \in Answers
        /\ \E result \in Outcomes("sets") :
             /\ Change(result)
             /\ IF outputFails(result.reply) THEN Fail(TRUE)
                ELSE run' = [run EXCEPT !.at = AfterSets("bootid"), !.reboot = TRUE,
                                        !.sets = stripPackageRevision(guest.updater)]
  /\ UNCHANGED <<repo, boot, opts, phase, dir>>

\* With the always-reboot setting any other package listing asks for a reboot.
ListAfter ==
  /\ run.at = "after"
  /\ \E reply \in Answers :
       /\ IF outputFails(reply) THEN Fail(TRUE)
          ELSE LET reboot == run.reboot \/ Listing # run.listing IN
               run' = [run EXCEPT !.at = IF reboot THEN "bootid" ELSE "postcore",
                                  !.reboot = reboot]
  /\ UNCHANGED <<repo, guest, boot, job, opts, phase, dir>>

-----------------------------------------------------------------------------
(* Execute: the reboot, outside the watchdog                               *)

ReadBootID ==
  /\ run.at = "bootid"
  /\ \E reply \in Answers :
       /\ IF outputFails(reply) THEN Fail(FALSE)
          ELSE run' = [run EXCEPT !.at = "shutdown", !.before = boot.id]
  /\ UNCHANGED <<repo, guest, boot, job, opts, phase, dir>>

\* shutdown forks, so the guest answers on the old boot for a while; whatever
\* the command reports, the wait decides.
Shutdown ==
  /\ run.at = "shutdown"
  /\ \E fate \in Possible :
       \/ job' = "reboot" /\ (GoesOn(fate) \/ Work(fate) # {"none"})
       \/ job' = job /\ Work(fate) # {"all"}
  /\ Goto("wait")
  /\ UNCHANGED <<repo, guest, boot, opts, phase, dir>>

\* Mutant of NewBoot: any answer after the shutdown command is the new boot.
AnyAnswer == "zero" \in Answers

\* waitForReboot: one probe, then its deadline.  An earlier probe proves nothing
\* and is no step of the model.
NewBoot == "zero" \in Answers /\ boot.id # run.before

\* Mutants of WaitForReboot: its failure is charged to the watchdog; it has no
\* deadline.
WaitWatched ==
  /\ run.at = "wait"
  /\ \/ NewBoot /\ Goto("postcore")
     \/ run.late /\ (boot.id = run.before \/ Answers # {"zero"}) /\ Fail(TRUE)
  /\ UNCHANGED <<repo, guest, boot, job, opts, phase, dir>>

WaitForEver ==
  /\ run.at = "wait" /\ NewBoot /\ Goto("postcore")
  /\ UNCHANGED <<repo, guest, boot, job, opts, phase, dir>>

WaitForReboot ==
  /\ run.at = "wait"
  /\ \/ NewBoot /\ Goto("postcore")
     \/ run.late /\ (boot.id = run.before \/ Answers # {"zero"}) /\ Fail(FALSE)
  /\ UNCHANGED <<repo, guest, boot, job, opts, phase, dir>>

\* Mutant of Verified: only the core package is compared.
VerifiedCore(plan, sets, post) ==
  IF plan.major
  THEN releaseSeries(post.core) = releaseSeries(plan.coreAvailable)
  ELSE plan.corePending => post.core = plan.coreAvailable

\* verifyFirmware: what was pending at the plan, or was installed, is there now.
Verified(plan, sets, post) ==
  IF plan.major
  THEN releaseSeries(post.core) = releaseSeries(plan.coreAvailable)
  ELSE LET want == IF sets # None THEN sets ELSE plan.setsAvailable IN
       /\ plan.corePending => post.core = plan.coreAvailable
       /\ (plan.basePending \/ sets # None) => post.base = want
       /\ (plan.kernelPending \/ sets # None) => post.kernel = want

Verify ==
  /\ run.at = "verify"
  /\ IF Verified(dir.plan, run.sets, run.read) THEN Finish ELSE Fail(FALSE)
  /\ UNCHANGED <<repo, guest, boot, job, opts, phase, dir>>

\* A save that fails leaves "executing" behind.
Save ==
  /\ run.at = "save" /\ Exit
  /\ phase' \in {run.out, phase}
  /\ UNCHANGED <<repo, guest, boot, job, opts, dir>>

\* The invocation is killed; a command it had just sent may go on in the guest.
Killed ==
  /\ run.at # "idle" /\ Exit
  /\ \/ UNCHANGED job
     \/ boot.up /\ run.at \in {"major", "packages", "sets"} /\ job' = run.at
     \/ boot.up /\ run.at = "shutdown" /\ job' = "reboot"
  /\ UNCHANGED <<repo, guest, boot, opts, phase, dir>>

-----------------------------------------------------------------------------
Init ==
  /\ repo = [core |-> First(1), updater |-> First(1)]
  /\ guest = [core |-> First(1), updater |-> First(1), base |-> First(1),
              kernel |-> First(1), staged |-> 0, catalog |-> repo]
  /\ boot = [id |-> 1, up |-> TRUE, core |-> First(1), updater |-> First(1),
             kernel |-> First(1)]
  /\ job = "none"
  /\ opts \in [target : Targets, dry : BOOLEAN, always : BOOLEAN]
  /\ phase = "empty" /\ dir = [pre |-> None, plan |-> None]
  /\ run = Idle

\* The steps of an invocation once it has started.
Invocation ==
  \/ CaptureConfigXML \/ CaptureFirmwareState \/ FinishPrepare
  \/ ReadPre \/ RefreshCatalogue \/ ProbeUpdatePlan
  \/ ApplyMajorUpgrade \/ ListBefore \/ UpdatePackages \/ RestartWebGUI
  \/ CheckSets \/ InstallSets \/ ListAfter
  \/ ReadBootID \/ Shutdown \/ WaitForReboot \/ Verify \/ Save

World == Publish \/ GoesDown \/ Boots \/ JobEnds \/ OperatorUpdates
           \/ WatchdogExpires \/ RebootDeadline

Next == StartPrepare \/ StartExecute \/ Invocation \/ Killed \/ World

Spec == Init /\ [][Next]_vars

\* A guest command ends: a lost one by the heartbeat of the host bridge, the
\* others by their own timeout.  Time passes.
Fairness == WF_vars(Invocation) /\ WF_vars(RebootDeadline)

LiveSpec == Spec /\ Fairness

-----------------------------------------------------------------------------
(* Properties                                                              *)

\* Each variable holds a value of its kind; a phase has the files it was reached with.
TypeOK ==
  /\ repo \in Packages
  /\ guest \in [core : Version, updater : Version, base : Version,
                kernel : Version, staged : 0..2, catalog : Packages]
  /\ boot \in [id : 1..MaxBoots, up : BOOLEAN, core : Version,
               updater : Version, kernel : Version]
  /\ job \in Jobs
  /\ opts \in [target : Targets, dry : BOOLEAN, always : BOOLEAN]
  /\ phase \in {"empty", "prepared", "executing", "executed",
                "execute_failed", "execute_hung"}
  /\ dir \in [pre : States \cup {None}, plan : Plans \cup {None}]
  /\ phase # "empty" => dir.pre # None
  /\ phase = "executed" => dir.plan # None
  /\ run \in Memory

\* A recorded success is true of the guest, not only of what was read: nothing
\* the plan offered is missing, whatever the repository published meanwhile and
\* however old the baseline of prepare was (firmware.go:389, verifyFirmware).
UpdateLanded ==
  (phase = "executed" /\ ~opts.dry) =>
    LET plan == dir.plan IN
    IF plan.major THEN guest.core.series = opts.target
    ELSE /\ ~Older(guest.core, plan.coreAvailable)
         /\ ~Older(guest.base, plan.setsAvailable)
         /\ ~Older(guest.kernel, plan.setsAvailable)

\* After a recorded success the guest runs the kernel that is installed, and with
\* the always-reboot setting the packages too: the boot the reboot step saw really
\* began after the last change (reboot.go:11, rebootGuest).
RunsWhatIsInstalled ==
  (phase = "executed" /\ ~opts.dry) =>
    /\ boot.kernel = guest.kernel
    /\ (~dir.plan.major /\ dir.plan.alwaysReboot) =>
         boot.core = guest.core /\ boot.updater = guest.updater

\* run rolls a hung execute back, so it must never be recorded once the guest may
\* be rebooting (execute.go:133, fail with a nil watchdog context).
HungBeforeReboot ==
  /\ run.out = "execute_hung" => run.expired /\ run.before = None
  /\ phase = "execute_hung" => job # "reboot"

\* The detailed model implements the contract: a dry run installs nothing, and
\* nothing of the cycle touches the guest after a success (execute.go:17, Execute).
Disk == [core |-> guest.core, updater |-> guest.updater, base |-> guest.base,
         kernel |-> guest.kernel, staged |-> guest.staged]

Contract == INSTANCE FirmwareContract WITH
  Disks <- [core : Version, updater : Version, base : Version,
            kernel : Version, staged : 0..2],
  disk <- Disk, dry <- opts.dry, busy <- job \in {"packages", "sets", "major"}

ImplementsContract == Contract!Spec

\* Every invocation ends, also when the guest never comes back.
Ends == run.at # "idle" ~> run.at = "idle"

=============================================================================
