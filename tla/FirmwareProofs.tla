--------------------------- MODULE FirmwareProofs ---------------------------
(***************************************************************************)
(* Theorems about Firmware, for every set of targets, every number of      *)
(* releases the repository publishes and every number of boots.            *)
(*                                                                         *)
(* The inductive invariant FirmwareInv is built in layers, each proved     *)
(* with the ones below it: types and the files a step has (TypeInv), what  *)
(* runs on in the guest and when (JobInv), how far the guest's versions    *)
(* are apart (VersionInv), what a successful step has established          *)
(* (LandedInv) and what the boot has loaded (BootInv).                     *)
(***************************************************************************)
EXTENDS Firmware, TLAPS

-----------------------------------------------------------------------------
(* The inductive invariant                                                 *)

\* Steps of execute before its plan is written, and those that follow it.
Planning == {"pre", "refresh", "probe"}
Updating == {"before", "packages", "webgui", "check", "sets", "after"}
Posts    == {"postcore", "postbase", "postkernel", "verify"}
Past     == Updating \cup Posts \cup {"major", "bootid", "shutdown", "wait"}

\* Execute is about to record a success; or it is on its way to record a failure.
Succeeding == run.at = "save" /\ run.out = "executed"
Failing    == \/ run.at = "save" /\ run.out # "executed"
              \/ run.at = "webgui" /\ run.broke

\* The update has really been applied, and is not a dry run's.
Success == ~opts.dry /\ (Succeeding \/ phase = "executed")

HasPlan == dir.plan # None
Major   == HasPlan /\ dir.plan.major

\* Types, and what each step of an invocation has found and written so far.
TypeInv ==
  /\ TypeOK
  /\ repo.updater = repo.core /\ repo.core.series = 1
  /\ ~boot.up => boot.id < MaxBoots
  /\ run.at \in Executing => phase = "executing"
  /\ run.at \in Preparing => phase \in {"empty", "prepared"}
  /\ (run.at \in Past \/ Succeeding) => HasPlan
  /\ (phase \in {"empty", "prepared"} \/ run.at \in Planning) => ~HasPlan
  /\ Major => opts.target # 0 /\ dir.plan = majorPlan(opts.target)
  /\ run.at \in Past => ~opts.dry
  /\ run.at = "major" => Major
  /\ run.at \in Updating => ~Major
  /\ run.at \in {"before", "after"} => dir.plan.alwaysReboot

\* The boot read before the reboot, the deadline's verdict, and what the guest may
\* still be doing: a command that changes the disk runs on only once execute has
\* failed or is gone, a reboot only once the boot id has been read.
Changing == {"packages", "sets", "major"}

JobInv ==
  /\ run.at # "save" => run.out = "executing"
  /\ run.out = "execute_hung" => run.expired /\ run.before = None
  /\ run.before # None => run.at \in Posts \cup {"shutdown", "wait", "save"}
  /\ run.at \in {"shutdown", "wait"} => run.before # None
  /\ job # "none" => boot.up /\ HasPlan /\ ~opts.dry
  /\ job \in Changing => (run.at = "idle" \/ Failing) /\ run.before = None
  /\ job = "reboot" => run.at = "idle" \/ run.before # None
  /\ phase = "execute_hung" => job # "reboot"
  /\ phase = "executed" => job \notin Changing

\* How the versions are ordered.  Until a major upgrade is planned everything is of
\* series 1 and only grows towards the repository; after that the staged release
\* is the only one that can land, once.
AtLeast(core, base, kernel) == /\ ~Older(guest.core, core)
                               /\ ~Older(guest.base, base)
                               /\ ~Older(guest.kernel, kernel)

Level ==
  /\ ~Older(repo.core, guest.core)
  /\ ~Older(repo.core, guest.updater)
  /\ ~Older(repo.core, guest.catalog.core)
  /\ guest.catalog.updater = guest.catalog.core
  /\ ~Older(stripPackageRevision(guest.updater), guest.base)
  /\ ~Older(stripPackageRevision(guest.updater), guest.kernel)
  /\ dir.pre # None => AtLeast(dir.pre.core, dir.pre.base, dir.pre.kernel)

VersionInv ==
  /\ ~Major => Level
  /\ guest.staged # 0 => Major /\ ~opts.dry /\ guest.staged = opts.target
                         /\ guest.core.series = 1
  /\ run.at \in Preparing => AtLeast(run.read.core, run.read.base, run.read.kernel)
  /\ Major => opts.target = 2
  /\ job = "major" => Major /\ guest.core.series = 1
  /\ job \in {"packages", "sets"} => ~Major
  /\ run.at = "major" => guest.core.series = 1 /\ guest.staged = 0

\* The plan of an update is the difference between the baseline and a catalogue.
UpdatePlan ==
  LET plan == dir.plan IN
  /\ plan.setsAvailable = stripPackageRevision(plan.coreAvailable)
  /\ ~Older(repo.core, plan.coreAvailable)
  /\ plan.corePending   = Older(dir.pre.core, plan.coreAvailable)
  /\ plan.basePending   = (dir.pre.base # plan.setsAvailable)
  /\ plan.kernelPending = (dir.pre.kernel # plan.setsAvailable)
  /\ plan.alwaysReboot => opts.always

\* The packages have been brought to the repository's, and nothing failed since.
Updated == \/ run.at \in {"check", "sets", "after", "bootid", "shutdown", "wait"} \cup Posts
           \/ run.at = "webgui" /\ ~run.broke

Landed ==
  LET plan == dir.plan IN
  IF plan.major THEN guest.core.series = opts.target
  ELSE /\ ~Older(guest.core, plan.coreAvailable)
       /\ ~Older(guest.base, plan.setsAvailable)
       /\ ~Older(guest.kernel, plan.setsAvailable)

LandedInv ==
  /\ HasPlan /\ ~Major => UpdatePlan
  /\ run.at \in {"pre", "refresh", "probe", "before", "packages", "webgui", "check", "sets"} =>
       run.sets = None
  /\ Updated /\ ~Major =>
       /\ ~Older(guest.core, dir.plan.coreAvailable)
       /\ ~Older(guest.updater, dir.plan.coreAvailable)
       /\ run.sets # None =>
            /\ run.sets = stripPackageRevision(guest.updater)
            /\ guest.base = run.sets /\ guest.kernel = run.sets
  /\ run.at \in Posts \ {"postcore"} =>
       IF Major THEN run.read.core.series = opts.target => guest.core.series = opts.target
       ELSE run.read.core = guest.core
  /\ run.at \in {"postkernel", "verify"} /\ ~Major => run.read.base = guest.base
  /\ run.at = "verify" /\ ~Major => run.read.kernel = guest.kernel
  /\ Success => Landed

\* What the guest has loaded.  Before the change it runs what is installed, if it
\* is up; the boot after run.before runs all of it.
RunsPackages == boot.core = guest.core /\ boot.updater = guest.updater
RunsKernel   == boot.kernel = guest.kernel
RunsChange   == RunsKernel /\ ((~Major /\ dir.plan.alwaysReboot) => RunsPackages)

BootInv ==
  /\ (phase \in {"empty", "prepared"} \/ run.at \in {"pre", "refresh"}) /\ boot.up =>
       RunsKernel /\ (opts.always => RunsPackages)
  /\ run.at \in Updating \cup {"probe"} /\ ~Failing /\ run.sets = None => RunsKernel
  /\ run.at \in {"probe", "before"} /\ opts.always => RunsPackages
  /\ run.at = "packages" /\ dir.plan.alwaysReboot =>
       RunsPackages /\ run.listing = Listing
  /\ Updated /\ run.at \in Updating /\ dir.plan.alwaysReboot =>
       /\ run.listing # None
       /\ \/ RunsPackages
          \/ boot.core = run.listing.core /\ boot.updater = run.listing.updater
  /\ run.at \in Updating /\ run.sets # None => run.reboot
  /\ run.before # None =>
       /\ boot.id >= run.before
       /\ boot.id # run.before => RunsKernel /\ RunsPackages
  /\ run.at \in Posts \/ Success => RunsChange

FirmwareInv == TypeInv /\ JobInv /\ VersionInv /\ LandedInv /\ BootInv

-----------------------------------------------------------------------------
(* Versions                                                                *)

\* The values the model builds are versions, and versions are totally ordered;
\* a lower package revision is all that stripPackageRevision can take away.
LEMMA VersionTypes ==
  /\ \A s \in 1..2 : First(s) \in Version /\ First(s).series = s
  /\ \A v \in Version : /\ stripPackageRevision(v) \in Version
                        /\ stripPackageRevision(v).series = v.series
BY FirmwareAssumption DEF Version, First, stripPackageRevision

\* pkg version -t orders versions totally.
LEMMA OlderOrder ==
  /\ \A v \in Version : ~Older(v, v)
  /\ \A u, v, w \in Version : ~Older(u, v) /\ ~Older(v, w) => ~Older(u, w)
  /\ \A v, w \in Version : ~Older(v, w) => v.series >= w.series
  /\ \A v, w \in Version : ~Older(v, w) =>
        ~Older(stripPackageRevision(v), stripPackageRevision(w))
  /\ \A v, w \in Version : v.series > w.series => ~Older(v, w)
  /\ \A v \in Version : ~Older(v, First(1))
<1>1. \A v \in Version : ~Older(v, v)
  BY FirmwareAssumption DEF Version, Older
<1>2. \A u, v, w \in Version : ~Older(u, v) /\ ~Older(v, w) => ~Older(u, w)
  BY FirmwareAssumption DEF Version, Older
<1>3. \A v, w \in Version : ~Older(v, w) => v.series >= w.series
  BY FirmwareAssumption DEF Version, Older
<1>4. \A v, w \in Version : ~Older(v, w) =>
        ~Older(stripPackageRevision(v), stripPackageRevision(w))
  BY FirmwareAssumption DEF Version, Older, stripPackageRevision
<1>5. \A v, w \in Version : v.series > w.series => ~Older(v, w)
  BY FirmwareAssumption DEF Version, Older
<1>6. \A v \in Version : ~Older(v, First(1))
  BY FirmwareAssumption DEF Version, Older, First
<1> QED BY <1>1, <1>2, <1>3, <1>4, <1>5, <1>6

-----------------------------------------------------------------------------
(* The steps of an invocation                                              *)

Steps == Executing \cup Preparing \cup {"idle"}

\* A step that only goes on changes nothing else of the memory.
LEMMA GotoStep ==
  ASSUME run \in Memory, NEW at \in Steps, Goto(at)
  PROVE  /\ run' \in Memory /\ run'.at = at
         /\ run'.read = run.read /\ run'.listing = run.listing
         /\ run'.broke = run.broke /\ run'.sets = run.sets
         /\ run'.reboot = run.reboot /\ run'.before = run.before
         /\ run'.expired = run.expired /\ run'.out = run.out
BY DEF Memory, Goto, Steps

\* The memory is empty outside an invocation, and at its start.
LEMMA IdleType ==
  /\ Idle \in Memory /\ Idle.at = "idle" /\ Idle.out = "executing"
  /\ Idle.before = None /\ ~Idle.expired /\ Idle.sets = None
  /\ Idle.read = [f \in {"core", "base", "kernel"} |-> First(1)]
<1>1. Idle.read \in States
  BY VersionTypes DEF Idle, States
<1> QED BY <1>1 DEF Idle, Memory

\* A start has an empty memory but for its step.
LEMMA StartStep ==
  ASSUME NEW at \in Steps, Start(at)
  PROVE  /\ run' \in Memory /\ run'.at = at /\ run'.out = "executing"
         /\ run'.before = None /\ ~run'.expired /\ run'.sets = None
         /\ run'.read = Idle.read
<1>1. run' = [Idle EXCEPT !.at = at]
  BY DEF Start
<1> HIDE DEF Idle
<1> QED BY <1>1, IdleType DEF Memory, Steps

\* A failing step leaves only the save, and is hung only past the deadline of a
\* watched step.
LEMMA FailStep ==
  ASSUME run \in Memory, NEW watched \in BOOLEAN, Fail(watched)
  PROVE  /\ run' \in Memory /\ run'.at = "save"
         /\ run'.out \in {"execute_failed", "execute_hung"}
         /\ run'.out = "execute_hung" => watched /\ run.expired
         /\ run'.expired = run.expired /\ run'.before = run.before
         /\ run'.read = run.read /\ run'.sets = run.sets
BY DEF Memory, Fail, Executing

\* A success leaves only the save too.
LEMMA FinishStep ==
  ASSUME run \in Memory, Finish
  PROVE  /\ run' \in Memory /\ run'.at = "save" /\ run'.out = "executed"
         /\ run'.expired = run.expired /\ run'.before = run.before
         /\ run'.read = run.read /\ run'.sets = run.sets
BY DEF Memory, Finish, Executing

-----------------------------------------------------------------------------
(* Commands in the guest                                                   *)

\* A command whose exit status the caller learns ran in a guest that is up.
LEMMA AnswerMeansUp ==
  ASSUME boot.up \in BOOLEAN, "zero" \in Answers
  PROVE  boot.up
<1>1. PICK fate \in Possible : "zero" \in GuestExec(fate)
  BY DEF Answers
<1> SUFFICES ASSUME ~boot.up PROVE FALSE
  OBVIOUS
<1>2. fate.ends = "unstarted"
  BY DEF Possible
<1>3. RPCExec(fate) = {Error}
  BY <1>2 DEF RPCExec, Exec, runExec
<1>4. GuestExec(fate) = {"error"}
  BY <1>3 DEF GuestExec, Error
<1> QED BY <1>1, <1>4

Disks == [core : Version, updater : Version, base : Version,
          kernel : Version, staged : 0..2, catalog : Packages]

\* What a job leaves of the disk is one, and only its own part of it changes.
LEMMA InstallType ==
  ASSUME guest \in Disks, repo \in Packages, opts.target \in 0..2,
         NEW job_ \in Changing, NEW amount \in Amounts,
         NEW new \in Install(job_, amount)
  PROVE  /\ new \in Disks /\ new.catalog = guest.catalog
         /\ job_ = "packages" =>
              /\ new.core \in {guest.core, repo.core}
              /\ new.updater \in {guest.updater, repo.updater}
              /\ new.base = guest.base /\ new.kernel = guest.kernel
              /\ new.staged = guest.staged
              /\ amount = "all" => new.core = repo.core /\ new.updater = repo.updater
         /\ job_ = "sets" =>
              /\ new.core = guest.core /\ new.updater = guest.updater
              /\ new.staged = guest.staged
              /\ new.base \in {guest.base, stripPackageRevision(guest.updater)}
              /\ new.kernel \in {guest.kernel, stripPackageRevision(guest.updater)}
              /\ amount = "all" =>
                   /\ new.base = stripPackageRevision(guest.updater)
                   /\ new.kernel = stripPackageRevision(guest.updater)
         /\ job_ = "major" =>
              /\ new.core = guest.core /\ new.updater = guest.updater
              /\ new.base = guest.base /\ new.kernel = guest.kernel
              /\ new.staged \in {guest.staged, opts.target}
<1>1. \A old, fresh, x : x \in After(amount, old, fresh) =>
         x \in {old, fresh} /\ (amount = "all" => x = fresh)
  BY DEF Amounts, After
<1>2. CASE job_ = "packages"
  <2>1. PICK c \in After(amount, guest.core, repo.core),
             u \in After(amount, guest.updater, repo.updater) : new = WithPackages(c, u)
    BY <1>2 DEF Install
  <2>2. c \in {guest.core, repo.core} /\ u \in {guest.updater, repo.updater}
    BY <1>1, <2>1
  <2>3. c \in Version /\ u \in Version
    BY <2>2 DEF Disks, Packages
  <2>4. /\ new \in Disks /\ new.core = c /\ new.updater = u
        /\ new.base = guest.base /\ new.kernel = guest.kernel
        /\ new.staged = guest.staged /\ new.catalog = guest.catalog
    BY <2>1, <2>3 DEF Disks, WithPackages
  <2> QED BY <1>1, <1>2, <2>1, <2>2, <2>4
<1>3. CASE job_ = "sets"
  <2> DEFINE sets == stripPackageRevision(guest.updater)
  <2>1. PICK b \in After(amount, guest.base, sets), k \in After(amount, guest.kernel, sets) :
               new = WithSets(b, k)
    BY <1>3 DEF Install
  <2>2. b \in {guest.base, sets} /\ k \in {guest.kernel, sets}
    BY <1>1, <2>1
  <2>3. b \in Version /\ k \in Version
    BY <2>2, VersionTypes DEF Disks
  <2>4. /\ new \in Disks /\ new.base = b /\ new.kernel = k
        /\ new.core = guest.core /\ new.updater = guest.updater
        /\ new.staged = guest.staged /\ new.catalog = guest.catalog
    BY <2>1, <2>3 DEF Disks, WithSets
  <2> QED BY <1>1, <1>3, <2>1, <2>2, <2>4
<1>4. CASE job_ = "major"
  <2>1. PICK s \in After(amount, guest.staged, opts.target) :
               new = Stage(s)
    BY <1>4 DEF Install
  <2>2. s \in {guest.staged, opts.target}
    BY <1>1, <2>1
  <2>3. /\ new \in Disks /\ new.staged = s
        /\ new.base = guest.base /\ new.kernel = guest.kernel
        /\ new.core = guest.core /\ new.updater = guest.updater
        /\ new.catalog = guest.catalog
    BY <2>1, <2>2 DEF Disks, Stage
  <2> QED BY <1>4, <2>2, <2>3
<1> QED BY <1>2, <1>3, <1>4 DEF Changing

\* A command that changes the disk does it by its job, goes on only with the error
\* of a lost stream in a guest that is up, and has done all of it when it exits 0.
LEMMA OutcomeType ==
  ASSUME NEW job_ \in Changing, NEW result \in Outcomes(job_), boot.up \in BOOLEAN
  PROVE  /\ \E amount \in Amounts : result.guest \in Install(job_, amount)
         /\ result.job \in {job_, job}
         /\ result.job # job => boot.up /\ result.reply # "zero"
         /\ result.reply = "zero" => result.guest \in Install(job_, "all")
<1>1. PICK fate \in Possible :
         /\ result.reply \in GuestExec(fate)
         /\ \E amount \in Work(fate) : result.guest \in Install(job_, amount)
         /\ result.job = IF GoesOn(fate) THEN job_ ELSE job
  BY DEF Outcomes
<1>2. Work(fate) \subseteq Amounts
  BY DEF Work, Amounts
<1>3. GoesOn(fate) => boot.up /\ result.reply # "zero"
  BY <1>1 DEF GoesOn, Started, Possible, GuestExec, RPCExec, Exec, Error
<1>4. result.reply = "zero" => Work(fate) = {"all"}
  BY <1>1 DEF Work, Started, GuestExec, RPCExec, Exec, runExec, Error, Result,
              Possible, Fates
<1> QED BY <1>1, <1>2, <1>3, <1>4

-----------------------------------------------------------------------------
(* Types                                                                   *)

\* Both plans are plans, and neither offers a reboot setting the guest lacks.
LEMMA PlanTypes ==
  /\ \A target \in 1..2 : majorPlan(target) \in Plans /\ majorPlan(target).major
  /\ \A pre \in States, catalog \in Packages, always \in BOOLEAN :
       /\ updatePlan(pre, catalog, always) \in Plans
       /\ ~updatePlan(pre, catalog, always).major
       /\ updatePlan(pre, catalog, always).alwaysReboot = always
<1>1. \A target \in 1..2 : majorPlan(target) \in Plans /\ majorPlan(target).major
  BY VersionTypes DEF majorPlan, Plans
<1>2. ASSUME NEW pre \in States, NEW catalog \in Packages, NEW always \in BOOLEAN
      PROVE  /\ updatePlan(pre, catalog, always) \in Plans
             /\ ~updatePlan(pre, catalog, always).major
             /\ updatePlan(pre, catalog, always).alwaysReboot = always
  <2>1. /\ catalog.core \in Version
        /\ stripPackageRevision(catalog.updater) \in Version
    BY VersionTypes DEF Packages
  <2>2. Older(pre.core, catalog.core) \in BOOLEAN
    BY DEF Older
  <2> QED BY <2>1, <2>2 DEF updatePlan, Plans
<1> QED BY <1>1, <1>2

\* A plan is written and followed, or its file could not be written.
LEMMA PlannedStep ==
  ASSUME TypeOK, NEW plan \in Plans, Planned(plan)
  PROVE  \/ /\ dir'.pre = dir.pre /\ dir'.plan = plan /\ dir' \in [pre : States \cup {None}, plan : Plans \cup {None}]
            /\ opts.dry /\ Finish
         \/ /\ dir'.pre = dir.pre /\ dir'.plan = plan /\ dir' \in [pre : States \cup {None}, plan : Plans \cup {None}]
            /\ ~opts.dry
            /\ Goto(IF plan.major THEN "major"
                    ELSE IF plan.alwaysReboot THEN "before" ELSE "packages")
         \/ dir' = dir /\ Fail(FALSE)
BY DEF Planned, TypeOK

\* None is no plan and no state, and a plan that is there is one.
LEMMA NoneApart ==
  ASSUME TypeOK
  PROVE  /\ HasPlan => dir.plan \in Plans
         /\ dir.pre # None => dir.pre \in States
         /\ guest \in Disks /\ opts.target \in 0..2 /\ opts.dry \in BOOLEAN
         /\ boot.up \in BOOLEAN
BY FirmwareAssumption DEF TypeOK, HasPlan, Disks

\* The initial state satisfies the types.
LEMMA TypeInit == Init => TypeInv
<1> SUFFICES ASSUME Init PROVE TypeInv
  OBVIOUS
<1>1. First(1) \in Version /\ First(1).series = 1
  BY VersionTypes
<1>2. repo \in Packages /\ repo.updater = repo.core /\ repo.core.series = 1
  BY <1>1 DEF Init, Packages
<1>3. guest \in Disks
  BY <1>1, <1>2 DEF Init, Disks
<1>4. boot \in [id : 1..MaxBoots, up : BOOLEAN, core : Version,
                updater : Version, kernel : Version] /\ boot.up
  BY <1>1, FirmwareAssumption DEF Init
<1>5. run \in Memory /\ run.at = "idle" /\ run.out = "executing"
  BY IdleType DEF Init
<1> HIDE DEF Idle
<1>6. dir = [pre |-> None, plan |-> None] /\ phase = "empty" /\ job = "none"
  BY DEF Init
<1>7. TypeOK
  BY <1>2, <1>3, <1>4, <1>5, <1>6 DEF Init, TypeOK, Disks, Jobs
<1> QED
  BY <1>2, <1>4, <1>5, <1>6, <1>7
     DEF TypeInv, Executing, Watched, Preparing, Past, Planning, Updating, Posts,
         Succeeding, HasPlan, Major

-----------------------------------------------------------------------------
(* TypeInv is inductive                                                    *)

\* A boot loads what is on the disk, after the staged release or without it.
BootStep ==
  /\ guest' \in Disks /\ guest'.catalog = guest.catalog
  /\ boot' \in [id : 1..MaxBoots, up : BOOLEAN, core : Version,
                updater : Version, kernel : Version]
  /\ boot'.id = boot.id + 1 /\ boot'.up /\ boot'.core = guest'.core
  /\ boot'.updater = guest'.updater /\ boot'.kernel = guest'.kernel
  /\ \/ guest' = guest
     \/ /\ guest.staged # 0 /\ guest'.staged = 0
        /\ guest'.core = First(guest.staged) /\ guest'.updater = First(guest.staged)
        /\ guest'.base = First(guest.staged) /\ guest'.kernel = First(guest.staged)

\* What Boots does, field by field.
LEMMA BootsStep ==
  ASSUME TypeInv, Boots
  PROVE  BootStep
<1>1. /\ guest \in Disks /\ boot.id \in 1..MaxBoots /\ boot.id < MaxBoots
      /\ MaxBoots \in Nat
  BY FirmwareAssumption DEF TypeInv, TypeOK, Disks, Boots
<1>2. /\ guest' \in Disks /\ guest'.catalog = guest.catalog
      /\ \/ guest' = guest
         \/ /\ guest.staged # 0 /\ guest'.staged = 0
            /\ guest'.core = First(guest.staged) /\ guest'.updater = First(guest.staged)
            /\ guest'.base = First(guest.staged) /\ guest'.kernel = First(guest.staged)
  <2>1. CASE UNCHANGED guest
    BY <1>1, <2>1
  <2>2. CASE guest.staged # 0 /\ ~UNCHANGED guest
    <3>1. First(guest.staged) \in Version
      BY <1>1, <2>2, VersionTypes DEF Disks
    <3> DEFINE f == First(guest.staged)
    <3>2. guest' = [guest EXCEPT !.core = f, !.updater = f, !.base = f, !.kernel = f,
                                 !.staged = 0]
      BY <2>2 DEF Boots
    <3>3. f \in Version
      BY <3>1
    <3> HIDE DEF f
    <3>4. /\ guest' \in Disks /\ guest'.catalog = guest.catalog /\ guest'.staged = 0
          /\ guest'.core = f /\ guest'.updater = f /\ guest'.base = f /\ guest'.kernel = f
      <4> DEFINE one == [guest EXCEPT !.core = f, !.updater = f]
                 two == [one EXCEPT !.base = f, !.kernel = f]
                 z == 0
      <4>1. /\ one \in Disks /\ one.catalog = guest.catalog
            /\ one.core = f /\ one.updater = f
        BY <1>1, <3>3 DEF Disks
      <4>2. guest' = [two EXCEPT !.staged = z] /\ z \in 0..2
        BY <3>2
      <4> HIDE DEF one, z
      <4>3. /\ two \in Disks /\ two.catalog = one.catalog /\ two.base = f
            /\ two.kernel = f /\ two.core = one.core /\ two.updater = one.updater
        BY <3>3, <4>1 DEF Disks
      <4> HIDE DEF two
      <4>4. /\ guest' \in Disks /\ guest'.catalog = two.catalog /\ guest'.staged = z
            /\ guest'.core = two.core /\ guest'.updater = two.updater
            /\ guest'.base = two.base /\ guest'.kernel = two.kernel
        BY <4>2, <4>3 DEF Disks
      <4> QED BY <4>1, <4>3, <4>4 DEF z
    <3> QED BY <2>2, <3>4 DEF f
  <2> QED BY <2>1, <2>2 DEF Boots
<1>3. /\ boot' = [id |-> boot.id + 1, up |-> TRUE, core |-> guest'.core,
                  updater |-> guest'.updater, kernel |-> guest'.kernel]
      /\ guest'.core \in Version /\ guest'.updater \in Version /\ guest'.kernel \in Version
      /\ boot.id + 1 \in 1..MaxBoots
  BY <1>1, <1>2 DEF Boots, Disks
<1> QED BY <1>2, <1>3 DEF BootStep

\* The world keeps the types.
LEMMA TypeWorld ==
  ASSUME TypeInv, World
  PROVE  TypeInv'
<1>0. /\ guest \in Disks /\ repo \in Packages /\ boot.up \in BOOLEAN
      /\ opts.target \in 0..2 /\ boot.id \in 1..MaxBoots
  BY FirmwareAssumption DEF TypeInv, TypeOK, Disks
<1>1. CASE Publish
  <2>1. PICK v \in Version : v.series = 1 /\ repo'.core = v /\ repo'.updater = v /\ repo' \in Packages
    <3>1. CASE /\ repo.core.rev < MaxPublish
               /\ repo' = [repo EXCEPT !.core.rev = @ + 1, !.updater.rev = @ + 1]
      <4> DEFINE v == [repo.core EXCEPT !.rev = repo.core.rev + 1]
      <4>1. v \in Version /\ v.series = 1
        BY <1>0, <3>1, FirmwareAssumption DEF TypeInv, Packages, Version
      <4>2. repo'.core = v /\ repo'.updater = v /\ repo' \in Packages
        BY <1>0, <3>1, <4>1 DEF TypeInv, Packages
      <4> QED BY <4>1, <4>2
    <3>2. CASE /\ repo.core.patch < MaxPublish
               /\ LET new == [series |-> 1, patch |-> repo.core.patch + 1, rev |-> 0]
                  IN  repo' = [core |-> new, updater |-> new]
      <4> DEFINE v == [series |-> 1, patch |-> repo.core.patch + 1, rev |-> 0]
      <4>1. v \in Version /\ v.series = 1
        BY <1>0, <3>2, FirmwareAssumption DEF Packages, Version
      <4>2. repo'.core = v /\ repo'.updater = v /\ repo' \in Packages
        BY <3>2, <4>1 DEF Packages
      <4> QED BY <4>1, <4>2
    <3> QED BY <1>1, <3>1, <3>2 DEF Publish
  <2> QED BY <1>1, <2>1 DEF Publish, host, TypeInv, TypeOK, Succeeding, HasPlan, Major, Executing, Watched, Preparing, Past,
         Planning, Updating, Posts, Steps
<1>2. CASE GoesDown
  BY <1>0, <1>2 DEF GoesDown, host, Jobs, TypeInv, TypeOK, Succeeding, HasPlan, Major, Executing, Watched, Preparing, Past,
         Planning, Updating, Posts, Steps
<1>3. CASE Boots
  <2>1. BootStep
    BY <1>0, <1>3, BootsStep
  <2>2. /\ guest' \in Disks /\ boot'.up
        /\ boot' \in [id : 1..MaxBoots, up : BOOLEAN, core : Version,
                      updater : Version, kernel : Version]
    BY <2>1 DEF BootStep
  <2> QED BY <1>3, <2>2 DEF Boots, host, Disks, TypeInv, TypeOK, Succeeding, HasPlan, Major, Executing, Watched, Preparing, Past,
         Planning, Updating, Posts, Steps
<1>4. CASE JobEnds
  <2>1. guest' \in Disks
    BY <1>0, <1>4, InstallType DEF JobEnds, Changing
  <2> QED BY <1>4, <2>1 DEF JobEnds, host, Jobs, Disks, TypeInv, TypeOK, Succeeding, HasPlan, Major, Executing, Watched, Preparing, Past,
         Planning, Updating, Posts, Steps
<1>5. CASE OperatorUpdates
  <2>1. stripPackageRevision(repo.updater) \in Version
    BY <1>0, VersionTypes DEF Packages
  <2>2. guest' \in Disks
    BY <1>0, <1>5, <2>1 DEF OperatorUpdates, Disks, Packages
  <2>3. boot' = boot \/ boot' = [boot EXCEPT !.up = FALSE]
    BY <1>5 DEF OperatorUpdates
  <2>4. boot.id < MaxBoots
    BY <1>5 DEF OperatorUpdates
  <2> QED BY <1>5, <2>2, <2>3, <2>4 DEF OperatorUpdates, host, Disks, TypeInv, TypeOK, Succeeding, HasPlan, Major, Executing, Watched, Preparing, Past,
         Planning, Updating, Posts, Steps
<1>6. CASE WatchdogExpires
  <2>1. /\ run' \in Memory /\ run'.at = run.at /\ run'.out = run.out
    BY <1>6 DEF WatchdogExpires, TypeInv, TypeOK, Memory
  <2> QED BY <1>6, <2>1 DEF WatchdogExpires, TypeInv, TypeOK, Succeeding, HasPlan, Major, Executing, Watched, Preparing, Past,
         Planning, Updating, Posts, Steps
<1>7. CASE RebootDeadline
  <2>1. /\ run' \in Memory /\ run'.at = run.at /\ run'.out = run.out
    BY <1>7 DEF RebootDeadline, TypeInv, TypeOK, Memory
  <2> QED BY <1>7, <2>1 DEF RebootDeadline, TypeInv, TypeOK, Succeeding, HasPlan, Major, Executing, Watched, Preparing, Past,
         Planning, Updating, Posts, Steps
<1> QED BY <1>1, <1>2, <1>3, <1>4, <1>5, <1>6, <1>7 DEF World

\* So does every step of an invocation.
LEMMA TypeInvocation ==
  ASSUME TypeInv, StartPrepare \/ StartExecute \/ Invocation \/ Killed
  PROVE  TypeInv'
<1>0. /\ run \in Memory /\ boot.up \in BOOLEAN /\ TypeOK
      /\ guest \in Disks /\ opts.target \in 0..2 /\ opts.dry \in BOOLEAN
      /\ repo \in Packages /\ dir.pre # None => dir.pre \in States
      /\ HasPlan => dir.plan \in Plans
  BY NoneApart DEF TypeInv, TypeOK
<1> DEFINE Dirs == [pre : States \cup {None}, plan : Plans \cup {None}]
<1>i. Exit => run' \in Memory /\ run'.at = "idle" /\ run'.out = "executing"
  BY IdleType DEF Exit
<1>f. ASSUME NEW watched \in BOOLEAN, Fail(watched)
      PROVE  /\ run' \in Memory /\ run'.at = "save"
             /\ run'.out \in {"execute_failed", "execute_hung"}
  BY <1>0, <1>f, FailStep
<1>g. ASSUME NEW at \in Steps, Goto(at)
      PROVE  run' \in Memory /\ run'.at = at
  BY <1>0, <1>g, GotoStep
<1> USE DEF TypeInv, TypeOK, Succeeding, HasPlan, Major
<1>1. CASE StartPrepare
  <2>1. run' \in Memory /\ run'.at = "config" /\ run'.out = "executing"
    BY <1>1, StartStep DEF StartPrepare, Steps, Preparing
  <2> QED BY <1>1, <2>1 DEF StartPrepare, Executing, Watched, Preparing, Past, Planning, Updating,
         Posts, Steps
<1>2. CASE StartExecute
  <2>1. CASE phase' = "executing" /\ Start("pre")
    <3>1. run' \in Memory /\ run'.at = "pre" /\ run'.out = "executing"
      BY <2>1, StartStep DEF Steps, Executing
    <3> QED BY <1>2, <2>1, <3>1 DEF StartExecute, Executing, Watched, Preparing, Past, Planning, Updating,
         Posts, Steps
  <2> QED BY <1>2, <2>1 DEF StartExecute, Executing, Watched, Preparing, Past, Planning, Updating,
         Posts, Steps
<1>3. CASE Killed
  BY <1>3, <1>i DEF Killed, Jobs, Executing, Watched, Preparing, Past, Planning, Updating,
         Posts, Steps
<1>4. CASE CaptureConfigXML
  BY <1>4, <1>i, <1>g DEF CaptureConfigXML, Executing, Watched, Preparing, Past, Planning, Updating,
         Posts, Steps
<1>5. CASE CaptureFirmwareState
  <2>0. run.at \in Preparing \/ (run.at \in Posts /\ run.at \notin Preparing)
    BY <1>5 DEF CaptureFirmwareState, Captures, Preparing, Posts
  <2>1. CASE run' = [run EXCEPT !.at = Captures[run.at].next,
                                !.read[Captures[run.at].field] = guest[Captures[run.at].field]]
    <3>1. /\ Captures[run.at].field \in {"core", "base", "kernel"}
          /\ run.at \in Preparing => Captures[run.at].next \in Preparing
          /\ run.at \in Executing => run.at \in Posts /\ Captures[run.at].next \in Posts
          /\ Captures[run.at].next \in Steps
      BY <1>5 DEF CaptureFirmwareState, Captures, Posts, Executing, Watched, Preparing, Past, Planning, Updating,
         Posts, Steps
    <3> DEFINE field == Captures[run.at].field
               next == Captures[run.at].next
               read == [run.read EXCEPT ![field] = guest[field]]
    <3>2. guest[field] \in Version
      BY <1>0, <3>1 DEF Disks
    <3>3. read \in States
      BY <1>0, <3>1, <3>2 DEF States, Memory
    <3>4. run' = [run EXCEPT !.at = next, !.read = read]
      BY <2>1
    <3> HIDE DEF field, next, read
    <3>5. run' \in Memory /\ run'.at = next /\ run'.out = run.out
      BY <1>0, <3>1, <3>3, <3>4 DEF Memory, Steps, next
    <3>6. run'.at \in Preparing \/ run'.at \in Posts
      BY <2>0, <3>1, <3>5 DEF next, Posts, Executing
    <3>7. run'.at \in Preparing => run.at \in Preparing
      BY <2>0, <3>1, <3>5 DEF next, Posts, Executing, Preparing
    <3>8. run'.at \in Posts => run.at \in Posts
      BY <2>0, <3>1, <3>5 DEF next, Posts, Executing, Preparing
    <3> HIDE DEF next
    <3> QED BY <1>5, <2>0, <3>5, <3>6, <3>7, <3>8 DEF CaptureFirmwareState, Executing, Watched, Preparing, Past, Planning, Updating,
         Posts, Steps
  <2>2. CASE run.at \in Preparing /\ Exit
    BY <1>5, <2>2, <1>i DEF CaptureFirmwareState, Executing, Watched, Preparing, Past, Planning, Updating,
         Posts, Steps
  <2>3. CASE run.at \notin Preparing /\ Fail(FALSE)
    BY <1>5, <2>0, <2>3, <1>f DEF CaptureFirmwareState, Executing, Watched, Preparing, Past, Planning, Updating,
         Posts, Steps
  <2> QED BY <1>5, <2>1, <2>2, <2>3 DEF CaptureFirmwareState
<1>6. CASE FinishPrepare
  <2>1. run.read \in States
    BY <1>0 DEF Memory
  <2>2. None \notin States
    BY NoneAssumption
  <2>3. dir' \in Dirs
    BY <1>0, <1>6, <2>1 DEF FinishPrepare
  <2> QED BY <1>6, <1>i, <2>1, <2>2, <2>3 DEF FinishPrepare, Executing, Watched, Preparing, Past, Planning, Updating,
         Posts, Steps
<1>p. ASSUME NEW plan \in Plans, Planned(plan),
             UNCHANGED <<repo, guest, boot, job, opts, phase>>,
             run.at \in Planning,
             plan.major => opts.target # 0 /\ plan = majorPlan(opts.target)
      PROVE  TypeInv'
  <2>0. plan # None /\ phase = "executing" /\ ~HasPlan
    BY <1>p, NoneAssumption DEF Executing, Watched, Preparing, Past, Planning, Updating,
         Posts, Steps
  <2>1. CASE /\ dir'.pre = dir.pre /\ dir'.plan = plan /\ dir' \in Dirs
             /\ opts.dry /\ Finish
    <3>1. run' \in Memory /\ run'.at = "save" /\ run'.out = "executed"
      BY <1>0, <2>1, FinishStep
    <3> QED BY <1>p, <2>0, <2>1, <3>1 DEF Executing, Watched, Preparing, Past, Planning, Updating,
         Posts, Steps
  <2>2. CASE /\ dir'.pre = dir.pre /\ dir'.plan = plan /\ dir' \in Dirs
             /\ ~opts.dry
             /\ Goto(IF plan.major THEN "major"
                     ELSE IF plan.alwaysReboot THEN "before" ELSE "packages")
    <3>1. CASE plan.major
      <4>1. run' \in Memory /\ run'.at = "major"
        BY <2>2, <3>1, <1>g DEF Steps, Executing, Watched
      <4> QED BY <1>p, <2>0, <2>2, <3>1, <4>1 DEF Executing, Watched, Preparing, Past, Planning, Updating,
         Posts, Steps
    <3>2. CASE ~plan.major
      <4>1. /\ run' \in Memory
            /\ run'.at = IF plan.alwaysReboot THEN "before" ELSE "packages"
        BY <2>2, <3>2, <1>g DEF Steps, Executing, Watched
      <4> QED BY <1>p, <2>0, <2>2, <3>2, <4>1 DEF Executing, Watched, Preparing, Past, Planning, Updating,
         Posts, Steps
    <3> QED BY <3>1, <3>2
  <2>3. CASE dir' = dir /\ Fail(FALSE)
    <3>1. /\ run' \in Memory /\ run'.at = "save"
          /\ run'.out \in {"execute_failed", "execute_hung"}
      BY <2>3, <1>f
    <3> QED BY <1>p, <2>0, <2>3, <3>1 DEF Executing, Watched, Preparing, Past, Planning, Updating,
         Posts, Steps
  <2> QED BY <1>0, <1>p, <2>1, <2>2, <2>3, PlannedStep
<1>7. CASE ReadPre
  <2>1. CASE isMajorUpgrade(opts.target, dir.pre.core) /\ Planned(majorPlan(opts.target))
    <3>1. opts.target \in 1..2
      BY <1>0, <2>1 DEF isMajorUpgrade
    <3>2. majorPlan(opts.target) \in Plans
      BY <3>1, PlanTypes
    <3> QED BY <1>7, <1>p, <2>1, <3>1, <3>2 DEF ReadPre, Planning
  <2>2. CASE Goto("refresh") /\ UNCHANGED dir
    <3>1. run' \in Memory /\ run'.at = "refresh"
      BY <2>2, <1>g DEF Steps, Executing, Watched
    <3> QED BY <1>7, <2>2, <3>1 DEF ReadPre, Executing, Watched, Preparing, Past, Planning, Updating,
         Posts, Steps
  <2>3. CASE Fail(FALSE) /\ UNCHANGED dir
    BY <1>7, <2>3, <1>f DEF ReadPre, Executing, Watched, Preparing, Past, Planning, Updating,
         Posts, Steps
  <2> QED BY <1>7, <2>1, <2>2, <2>3 DEF ReadPre
<1>8. CASE RefreshCatalogue
  <2>1. guest' = guest \/ guest' = [guest EXCEPT !.catalog = repo]
    BY <1>8 DEF RefreshCatalogue
  <2>2. guest' \in Disks
    BY <1>0, <2>1 DEF Disks
  <2>3. /\ run' \in Memory /\ run'.at \in {"probe", "save"}
        /\ run'.at = "save" => run'.out \in {"execute_failed", "execute_hung"}
    <3>1. CASE Goto("probe")
      BY <3>1, <1>g DEF Steps, Executing, Watched
    <3>2. CASE Fail(TRUE)
      BY <3>2, <1>f
    <3> QED BY <1>8, <3>1, <3>2 DEF RefreshCatalogue
  <2>4. UNCHANGED <<repo, boot, job, opts, phase, dir>> /\ run.at = "refresh"
    BY <1>8 DEF RefreshCatalogue
  <2>5. guest' \in [core : Version, updater : Version, base : Version,
                   kernel : Version, staged : 0..2, catalog : Packages]
    BY <2>2 DEF Disks
  <2>6. TypeOK'
    BY <2>3, <2>4, <2>5
  <2>7. phase = "executing" /\ ~HasPlan
    BY <2>4 DEF Executing, Watched, Planning
  <2> QED BY <2>3, <2>4, <2>6, <2>7 DEF Executing, Watched, Preparing, Past, Planning, Updating,
         Posts, Steps
<1>9. CASE ProbeUpdatePlan
  <2>1. CASE Fail(TRUE) /\ UNCHANGED dir
    BY <1>9, <2>1, <1>f DEF ProbeUpdatePlan, Executing, Watched, Preparing, Past, Planning, Updating,
         Posts, Steps
  <2>2. ASSUME NEW always \in {FALSE, opts.always},
               Planned(updatePlan(dir.pre, guest.catalog, always))
        PROVE  TypeInv'
    <3>1. dir.pre \in States /\ guest.catalog \in Packages /\ always \in BOOLEAN
      BY <1>0, <1>9 DEF ProbeUpdatePlan, Disks, Executing, Watched, Preparing, Past, Planning, Updating,
         Posts, Steps
    <3>2. /\ updatePlan(dir.pre, guest.catalog, always) \in Plans
          /\ ~updatePlan(dir.pre, guest.catalog, always).major
      BY <3>1, PlanTypes
    <3> QED BY <1>9, <1>p, <2>2, <3>2 DEF ProbeUpdatePlan, Planning
  <2> QED BY <1>9, <2>1, <2>2 DEF ProbeUpdatePlan
<1>c. ASSUME NEW job_ \in Changing, NEW result \in Outcomes(job_), Change(result)
      PROVE  guest' \in Disks /\ job' \in Jobs
  BY <1>0, <1>c, OutcomeType, InstallType DEF Change, Changing, Jobs
<1>10. CASE ApplyMajorUpgrade
  <2>1. PICK result \in Outcomes("major") :
          /\ Change(result)
          /\ IF outputFails(result.reply) THEN Fail(TRUE)
             ELSE run' = [run EXCEPT !.at = "bootid", !.reboot = TRUE,
                                     !.sets = First(opts.target)]
    BY <1>10 DEF ApplyMajorUpgrade
  <2>2. guest' \in Disks /\ job' \in Jobs
    BY <2>1, <1>c DEF Changing
  <2>3. opts.target \in 1..2
    BY <1>0, <1>10 DEF ApplyMajorUpgrade
  <2>4. /\ run' \in Memory /\ run'.at \in {"bootid", "save"}
        /\ run'.at = "save" => run'.out \in {"execute_failed", "execute_hung"}
    <3>1. CASE outputFails(result.reply)
      BY <2>1, <3>1, <1>f
    <3>2. CASE ~outputFails(result.reply)
      <4> DEFINE sets == First(opts.target)
      <4>1. sets \in Version
        BY <2>3, VersionTypes
      <4>2. run' = [run EXCEPT !.at = "bootid", !.reboot = TRUE, !.sets = sets]
        BY <2>1, <3>2
      <4> HIDE DEF sets
      <4> QED BY <1>0, <4>1, <4>2 DEF Memory, Executing
    <3> QED BY <3>1, <3>2
  <2> QED BY <1>10, <2>2, <2>4 DEF ApplyMajorUpgrade, Disks, Executing, Watched, Preparing, Past, Planning, Updating,
         Posts, Steps
<1>11. CASE ListBefore
  <2>1. /\ run' \in Memory /\ run'.at \in {"packages", "save"}
        /\ run'.at = "save" => run'.out \in {"execute_failed", "execute_hung"}
    <3>1. CASE Fail(TRUE)
      BY <3>1, <1>f
    <3>2. CASE run' = [run EXCEPT !.at = "packages", !.listing = Listing]
      <4>1. Listing \in Packages
        BY <1>0 DEF Listing, Packages, Disks
      <4> QED BY <1>0, <3>2, <4>1 DEF Memory, Executing, Watched
    <3> QED BY <1>11, <3>1, <3>2 DEF ListBefore
  <2> QED BY <1>11, <2>1 DEF ListBefore, Executing, Watched, Preparing, Past, Planning, Updating,
         Posts, Steps
<1>12. CASE UpdatePackages
  <2>1. PICK result \in Outcomes("packages") :
          /\ Change(result)
          /\ run' = [run EXCEPT !.at = "webgui", !.broke = outputFails(result.reply)]
    BY <1>12 DEF UpdatePackages
  <2>2. guest' \in Disks /\ job' \in Jobs
    BY <2>1, <1>c DEF Changing
  <2>3. outputFails(result.reply) \in BOOLEAN
    BY DEF outputFails
  <2>4. run' \in Memory /\ run'.at = "webgui"
    BY <1>0, <2>1, <2>3 DEF Memory, Executing, Watched
  <2> QED BY <1>12, <2>2, <2>4 DEF UpdatePackages, Disks, Executing, Watched, Preparing, Past, Planning, Updating,
         Posts, Steps
<1>13. CASE RestartWebGUI
  <2>1. /\ run' \in Memory /\ run'.at \in {"check", "save"}
        /\ run'.at = "save" => run'.out \in {"execute_failed", "execute_hung"}
    <3>1. CASE Goto("check")
      BY <3>1, <1>g DEF Steps, Executing, Watched
    <3>2. CASE Fail(TRUE)
      BY <3>2, <1>f
    <3> QED BY <1>13, <3>1, <3>2 DEF RestartWebGUI
  <2> QED BY <1>13, <2>1 DEF RestartWebGUI, Executing, Watched, Preparing, Past, Planning, Updating,
         Posts, Steps
<1>14. CASE CheckSets
  <2>1. /\ run' \in Memory /\ run'.at \in {"sets", "after", "postcore", "save"}
        /\ run'.at = "save" => run'.out \in {"execute_failed", "execute_hung"}
        /\ run'.at = "after" => dir.plan.alwaysReboot
    <3>1. ASSUME NEW at \in {"sets", AfterSets("postcore")}, Goto(at)
          PROVE  run' \in Memory /\ run'.at = at
      BY <3>1, <1>g DEF AfterSets, Steps, Executing, Watched
    <3>2. CASE Fail(TRUE)
      BY <3>2, <1>f
    <3> QED BY <1>14, <3>1, <3>2 DEF CheckSets, AfterSets
  <2> QED BY <1>14, <2>1 DEF CheckSets, Executing, Watched, Preparing, Past, Planning, Updating,
         Posts, Steps
<1>15. CASE InstallSets
  <2>1. CASE Fail(TRUE) /\ UNCHANGED <<guest, job>>
    BY <1>15, <2>1, <1>f DEF InstallSets, Executing, Watched, Preparing, Past, Planning, Updating,
         Posts, Steps
  <2>2. ASSUME NEW result \in Outcomes("sets"), Change(result),
               IF outputFails(result.reply) THEN Fail(TRUE)
               ELSE run' = [run EXCEPT !.at = AfterSets("bootid"), !.reboot = TRUE,
                                       !.sets = stripPackageRevision(guest.updater)]
        PROVE  TypeInv'
    <3>1. guest' \in Disks /\ job' \in Jobs
      BY <2>2, <1>c DEF Changing
    <3>2. /\ run' \in Memory /\ run'.at \in {"bootid", "after", "save"}
          /\ run'.at = "save" => run'.out \in {"execute_failed", "execute_hung"}
          /\ run'.at = "after" => dir.plan.alwaysReboot
      <4>1. CASE outputFails(result.reply)
        BY <2>2, <4>1, <1>f
      <4>2. CASE ~outputFails(result.reply)
        <5> DEFINE sets == stripPackageRevision(guest.updater)
                   at == AfterSets("bootid")
        <5>1. sets \in Version
          BY <1>0, VersionTypes DEF Disks
        <5>2. run' = [run EXCEPT !.at = at, !.reboot = TRUE, !.sets = sets]
          BY <2>2, <4>2
        <5>3. /\ at \in {"after", "bootid"}
              /\ at = "after" => dir.plan.alwaysReboot
          BY DEF AfterSets
        <5> HIDE DEF sets, at
        <5> QED BY <1>0, <5>1, <5>2, <5>3 DEF Memory, Executing, Watched
      <4> QED BY <4>1, <4>2
    <3> QED BY <1>15, <3>1, <3>2 DEF InstallSets, Disks, Executing, Watched, Preparing, Past, Planning, Updating,
         Posts, Steps
  <2> QED BY <1>15, <2>1, <2>2 DEF InstallSets
<1>16. CASE ListAfter
  <2>1. /\ run' \in Memory /\ run'.at \in {"bootid", "postcore", "save"}
        /\ run'.at = "save" => run'.out \in {"execute_failed", "execute_hung"}
    <3>1. CASE Fail(TRUE)
      BY <3>1, <1>f
    <3>2. CASE ~Fail(TRUE)
      <4> DEFINE reboot == run.reboot \/ Listing # run.listing
      <4>1. run' = [run EXCEPT !.at = IF reboot THEN "bootid" ELSE "postcore",
                               !.reboot = reboot]
        BY <1>16, <3>2 DEF ListAfter
      <4>2. reboot \in BOOLEAN
        BY <1>0 DEF Memory
      <4> HIDE DEF reboot
      <4> QED BY <1>0, <4>1, <4>2 DEF Memory, Executing
    <3> QED BY <3>1, <3>2
  <2> QED BY <1>16, <2>1 DEF ListAfter, Executing, Watched, Preparing, Past, Planning, Updating,
         Posts, Steps
<1>17. CASE ReadBootID
  <2>1. /\ run' \in Memory /\ run'.at \in {"shutdown", "save"}
        /\ run'.at = "save" => run'.out \in {"execute_failed", "execute_hung"}
    <3>1. CASE Fail(FALSE)
      BY <3>1, <1>f
    <3>2. CASE run' = [run EXCEPT !.at = "shutdown", !.before = boot.id]
      BY <1>0, <3>2 DEF Memory, Executing
    <3> QED BY <1>17, <3>1, <3>2 DEF ReadBootID
  <2> QED BY <1>17, <2>1 DEF ReadBootID, Executing, Watched, Preparing, Past, Planning, Updating,
         Posts, Steps
<1>18. CASE Shutdown
  <2>1. run' \in Memory /\ run'.at = "wait"
    BY <1>18, <1>g DEF Shutdown, Steps, Executing
  <2> QED BY <1>18, <2>1 DEF Shutdown, Jobs, Executing, Watched, Preparing, Past, Planning, Updating,
         Posts, Steps
<1>19. CASE WaitForReboot
  <2>1. /\ run' \in Memory /\ run'.at \in {"postcore", "save"}
        /\ run'.at = "save" => run'.out \in {"execute_failed", "execute_hung"}
    <3>1. CASE Goto("postcore")
      BY <3>1, <1>g DEF Steps, Executing, Watched
    <3>2. CASE Fail(FALSE)
      BY <3>2, <1>f
    <3> QED BY <1>19, <3>1, <3>2 DEF WaitForReboot
  <2> QED BY <1>19, <2>1 DEF WaitForReboot, Executing, Watched, Preparing, Past, Planning, Updating,
         Posts, Steps
<1>20. CASE Verify
  <2>1. run' \in Memory /\ run'.at = "save"
    BY <1>20, <1>0, <1>f, FinishStep DEF Verify
  <2> QED BY <1>20, <2>1 DEF Verify, Executing, Watched, Preparing, Past, Planning, Updating,
         Posts, Steps
<1>21. CASE Save
  BY <1>21, <1>i, <1>0 DEF Save, Memory, Executing, Watched, Preparing, Past, Planning, Updating,
         Posts, Steps
<1> QED BY <1>1, <1>2, <1>3, <1>4, <1>5, <1>6, <1>7, <1>8, <1>9, <1>10, <1>11, <1>12,
           <1>13, <1>14, <1>15, <1>16, <1>17, <1>18, <1>19, <1>20, <1>21 DEF Invocation

\* Every step keeps TypeInv.
LEMMA TypeNext == TypeInv /\ [Next]_vars => TypeInv'
<1> SUFFICES ASSUME TypeInv, [Next]_vars PROVE TypeInv'
  OBVIOUS
<1>1. CASE World
  BY <1>1, TypeWorld
<1>2. CASE StartPrepare \/ StartExecute \/ Invocation \/ Killed
  BY <1>2, TypeInvocation
<1>3. CASE UNCHANGED vars
  BY <1>3 DEF vars, host, TypeInv, TypeOK, Succeeding, HasPlan, Major
<1> QED BY <1>1, <1>2, <1>3 DEF Next

\* Each variable holds a value of its kind, a phase has the files it was reached
\* with, and no step meets a file it needs missing (execute.go, firmware.go).
THEOREM TypeCorrect == Spec => []TypeOK
<1>1. Spec => []TypeInv
  BY TypeInit, TypeNext, PTL DEF Spec
<1>2. TypeInv => TypeOK
  BY DEF TypeInv
<1> QED BY <1>1, <1>2, PTL

-----------------------------------------------------------------------------
(* What may still be at work                                               *)

\* What the memory keeps of the reboot and of the deadline in each step that is
\* not plain progress or failure.
LEMMA MemoryStep ==
  ASSUME run \in Memory, boot.id \in 1..MaxBoots
  PROVE  /\ \A sets \in Version, at \in Steps :
              run' = [run EXCEPT !.at = at, !.reboot = TRUE, !.sets = sets] =>
                /\ run'.at = at /\ run'.out = run.out /\ run'.before = run.before
                /\ run'.expired = run.expired /\ run'.broke = run.broke
                /\ run'.sets = sets /\ run'.reboot /\ run'.listing = run.listing
         /\ \A listing \in Packages :
              run' = [run EXCEPT !.at = "packages", !.listing = listing] =>
                /\ run'.at = "packages" /\ run'.out = run.out /\ run'.before = run.before
                /\ run'.expired = run.expired /\ run'.broke = run.broke
                /\ run'.sets = run.sets /\ run'.reboot = run.reboot
                /\ run'.listing = listing
         /\ \A broke \in BOOLEAN :
              run' = [run EXCEPT !.at = "webgui", !.broke = broke] =>
                /\ run'.at = "webgui" /\ run'.out = run.out /\ run'.before = run.before
                /\ run'.expired = run.expired /\ run'.broke = broke
                /\ run'.sets = run.sets /\ run'.reboot = run.reboot
                /\ run'.listing = run.listing
         /\ \A reboot \in BOOLEAN, at \in Steps :
              run' = [run EXCEPT !.at = at, !.reboot = reboot] =>
                /\ run'.at = at /\ run'.out = run.out /\ run'.before = run.before
                /\ run'.expired = run.expired /\ run'.broke = run.broke
                /\ run'.sets = run.sets /\ run'.reboot = reboot
                /\ run'.listing = run.listing
         /\ run' = [run EXCEPT !.at = "shutdown", !.before = boot.id] =>
                /\ run'.at = "shutdown" /\ run'.out = run.out /\ run'.before = boot.id
                /\ run'.expired = run.expired /\ run'.sets = run.sets
         /\ \A read \in States, at \in Steps :
              run' = [run EXCEPT !.at = at, !.read = read] =>
                /\ run'.at = at /\ run'.out = run.out /\ run'.before = run.before
                /\ run'.expired = run.expired /\ run'.broke = run.broke
                /\ run'.sets = run.sets /\ run'.read = read
<1>1. \A sets \in Version, at \in Steps :
        run' = [run EXCEPT !.at = at, !.reboot = TRUE, !.sets = sets] =>
          /\ run'.at = at /\ run'.out = run.out /\ run'.before = run.before
          /\ run'.expired = run.expired /\ run'.broke = run.broke
          /\ run'.sets = sets /\ run'.reboot /\ run'.listing = run.listing
  BY DEF Memory
<1>2. \A listing \in Packages :
        run' = [run EXCEPT !.at = "packages", !.listing = listing] =>
          /\ run'.at = "packages" /\ run'.out = run.out /\ run'.before = run.before
          /\ run'.expired = run.expired /\ run'.broke = run.broke
          /\ run'.sets = run.sets /\ run'.reboot = run.reboot
          /\ run'.listing = listing
  BY DEF Memory
<1>3. \A broke \in BOOLEAN :
        run' = [run EXCEPT !.at = "webgui", !.broke = broke] =>
          /\ run'.at = "webgui" /\ run'.out = run.out /\ run'.before = run.before
          /\ run'.expired = run.expired /\ run'.broke = broke
          /\ run'.sets = run.sets /\ run'.reboot = run.reboot
          /\ run'.listing = run.listing
  BY DEF Memory
<1>4. \A reboot \in BOOLEAN, at \in Steps :
        run' = [run EXCEPT !.at = at, !.reboot = reboot] =>
          /\ run'.at = at /\ run'.out = run.out /\ run'.before = run.before
          /\ run'.expired = run.expired /\ run'.broke = run.broke
          /\ run'.sets = run.sets /\ run'.reboot = reboot
          /\ run'.listing = run.listing
  BY DEF Memory
<1>5. run' = [run EXCEPT !.at = "shutdown", !.before = boot.id] =>
          /\ run'.at = "shutdown" /\ run'.out = run.out /\ run'.before = boot.id
          /\ run'.expired = run.expired /\ run'.sets = run.sets
  BY DEF Memory
<1>6. \A read \in States, at \in Steps :
        run' = [run EXCEPT !.at = at, !.read = read] =>
          /\ run'.at = at /\ run'.out = run.out /\ run'.before = run.before
          /\ run'.expired = run.expired /\ run'.broke = run.broke
          /\ run'.sets = run.sets /\ run'.read = read
  BY DEF Memory
<1> QED BY <1>1, <1>2, <1>3, <1>4, <1>5, <1>6

\* What a capture remembers: the field it has read, of the disk as it is.
Captured ==
  \E field \in {"core", "base", "kernel"}, next \in Steps :
    /\ [field |-> field, next |-> next] = Captures[run.at]
    /\ run'.at = next /\ run'.out = run.out /\ run'.before = run.before
    /\ run'.expired = run.expired /\ run'.broke = run.broke /\ run'.sets = run.sets
    /\ run'.read = [run.read EXCEPT ![field] = guest[field]]

\* A capture reads one field and goes on, or gives up.
LEMMA CaptureStep ==
  ASSUME TypeInv, CaptureFirmwareState
  PROVE  /\ UNCHANGED <<repo, guest, boot, job, opts, phase, dir>>
         /\ run.at \in DOMAIN Captures
         /\ \/ Captured /\ "zero" \in Answers
            \/ run.at \in Preparing /\ Exit
            \/ run.at \in Posts /\ Fail(FALSE)
<1>1. run.at \in Preparing \/ (run.at \in Posts /\ run.at \notin Preparing)
  BY DEF CaptureFirmwareState, Captures, Preparing, Posts
<1>2. CASE "zero" \in Answers /\
           run' = [run EXCEPT !.at = Captures[run.at].next,
                              !.read[Captures[run.at].field] = guest[Captures[run.at].field]]
  <2> DEFINE field == Captures[run.at].field
             next == Captures[run.at].next
             read == [run.read EXCEPT ![field] = guest[field]]
  <2>1. /\ field \in {"core", "base", "kernel"} /\ next \in Steps
        /\ [field |-> field, next |-> next] = Captures[run.at]
    BY DEF CaptureFirmwareState, Captures, Posts, Steps, Executing, Preparing
  <2>2. run \in Memory /\ guest \in Disks /\ boot.id \in 1..MaxBoots
    BY NoneApart DEF TypeInv, TypeOK
  <2>3. read \in States
    BY <2>1, <2>2 DEF States, Memory, Disks
  <2>4. run' = [run EXCEPT !.at = next, !.read = read]
    BY <1>2
  <2>5. read = [run.read EXCEPT ![field] = guest[field]]
    OBVIOUS
  <2> HIDE DEF next, field, read
  <2>6. /\ run'.at = next /\ run'.out = run.out /\ run'.before = run.before
        /\ run'.expired = run.expired /\ run'.broke = run.broke
        /\ run'.sets = run.sets /\ run'.read = read
    BY <2>1, <2>2, <2>3, <2>4, MemoryStep
  <2>7. Captured
    BY <2>1, <2>5, <2>6 DEF Captured
  <2> QED BY <1>2, <2>7 DEF CaptureFirmwareState
<1> QED BY <1>1, <1>2 DEF CaptureFirmwareState

\* No job is at work when execute has begun nothing, nor while a step succeeds.
LEMMA NoJob ==
  ASSUME TypeInv, JobInv
  PROVE  /\ ~HasPlan => job = "none"
         /\ (run.at # "idle" /\ ~Failing) => job \notin Changing
         /\ (run.at \in {"major", "bootid"} \cup Updating /\ ~Failing) => job = "none"
         /\ ~boot.up => job = "none"
  BY DEF TypeInv, TypeOK, JobInv, Jobs, Changing, Updating, Posts

\* Nothing is at work at the start.
LEMMA JobInit == Init => JobInv
<1> SUFFICES ASSUME Init PROVE JobInv
  OBVIOUS
<1>1. /\ run.at = "idle" /\ run.out = "executing" /\ run.before = None
  BY IdleType DEF Init
<1> QED BY <1>1 DEF Init, JobInv, Changing

\* The world keeps JobInv.
LEMMA JobWorld ==
  ASSUME TypeInv, JobInv, World
  PROVE  JobInv'
<1>1. CASE Publish
  BY <1>1 DEF Publish, host, JobInv, HasPlan, Failing, Changing
<1>2. CASE GoesDown
  BY <1>2 DEF GoesDown, host, JobInv, HasPlan, Failing, Changing
<1>3. CASE Boots
  <2>1. job = "none"
    BY <1>3, NoJob DEF Boots
  <2> QED BY <1>3, <2>1 DEF Boots, host, JobInv, HasPlan, Failing, Changing
<1>4. CASE JobEnds
  BY <1>4 DEF JobEnds, host, JobInv, HasPlan, Failing, Changing
<1>5. CASE OperatorUpdates
  <2>1. job = "none"
    BY <1>5, NoJob DEF OperatorUpdates, TypeInv
  <2> QED BY <1>5, <2>1 DEF OperatorUpdates, host, JobInv, HasPlan, Failing, Changing
<1>6. CASE WatchdogExpires
  <2>1. /\ run'.at = run.at /\ run'.out = run.out /\ run'.before = run.before
        /\ run'.broke = run.broke /\ run'.expired
    BY <1>6 DEF WatchdogExpires, TypeInv, TypeOK, Memory
  <2> QED BY <1>6, <2>1 DEF WatchdogExpires, JobInv, HasPlan, Failing, Changing
<1>7. CASE RebootDeadline
  <2>1. /\ run'.at = run.at /\ run'.out = run.out /\ run'.before = run.before
        /\ run'.broke = run.broke /\ run'.expired = run.expired
    BY <1>7 DEF RebootDeadline, TypeInv, TypeOK, Memory
  <2> QED BY <1>7, <2>1 DEF RebootDeadline, JobInv, HasPlan, Failing, Changing
<1> QED BY <1>1, <1>2, <1>3, <1>4, <1>5, <1>6, <1>7 DEF World

\* So does every step of an invocation.
LEMMA JobInvocation ==
  ASSUME TypeInv, JobInv, TypeInv', StartPrepare \/ StartExecute \/ Invocation \/ Killed
  PROVE  JobInv'
<1>0. /\ run \in Memory /\ boot.id \in 1..MaxBoots /\ boot.up \in BOOLEAN
      /\ TypeOK /\ guest \in Disks /\ opts.target \in 0..2
  BY NoneApart DEF TypeInv, TypeOK
<1>i. Exit => /\ run'.at = "idle" /\ run'.out = "executing" /\ run'.before = None
  BY IdleType DEF Exit
<1>s. ASSUME NEW at \in Steps, Start(at)
      PROVE  /\ run'.at = at /\ run'.out = "executing" /\ run'.before = None
  BY <1>s, StartStep
<1>f. ASSUME NEW watched \in BOOLEAN, Fail(watched)
      PROVE  /\ run'.at = "save" /\ run'.before = run.before
             /\ run'.out \in {"execute_failed", "execute_hung"}
             /\ run'.out = "execute_hung" => watched /\ run'.expired
  BY <1>0, <1>f, FailStep
<1>g. ASSUME NEW at \in Steps, Goto(at)
      PROVE  /\ run'.at = at /\ run'.out = run.out /\ run'.before = run.before
             /\ run'.expired = run.expired /\ run'.broke = run.broke
  BY <1>0, <1>g, GotoStep
\* A step that fails, or goes on, without a word about the guest.
<1>F. ASSUME Fail(TRUE) \/ Fail(FALSE), job' = job, phase' = phase, dir' = dir,
             boot' = boot, opts' = opts, phase = "executing",
             run.at \in Executing \ {"save"},
             Fail(FALSE) \/ run.before = None
      PROVE  JobInv'
  <2>1. /\ run'.at = "save" /\ run'.before = run.before
        /\ run'.out \in {"execute_failed", "execute_hung"}
        /\ run'.out = "execute_hung" => run'.expired /\ run.before = None
    <3>1. CASE Fail(TRUE) /\ run.before = None
      BY <3>1, <1>f
    <3>2. CASE Fail(FALSE)
      BY <3>2, <1>f
    <3> QED BY <1>F, <3>1, <3>2
  <2> QED BY <1>F, <2>1 DEF JobInv, HasPlan, Failing, Changing, Executing, Watched
<1>1. CASE StartPrepare
  <2>1. job = "none"
    BY <1>1, NoJob DEF StartPrepare, TypeInv
  <2>2. /\ run'.at = "config" /\ run'.out = "executing" /\ run'.before = None
    BY <1>1, <1>s DEF StartPrepare, Steps, Preparing
  <2> QED BY <1>1, <2>1, <2>2 DEF StartPrepare, JobInv, Changing
<1>2. CASE StartExecute
  <2>1. job = "none"
    BY <1>2, NoJob DEF StartExecute, TypeInv
  <2>2. \/ run' = run /\ phase' = phase
        \/ /\ run'.at = "pre" /\ run'.out = "executing" /\ run'.before = None
           /\ phase' = "executing"
    BY <1>2, <1>s DEF StartExecute, Steps, Executing
  <2> QED BY <1>2, <2>1, <2>2 DEF StartExecute, JobInv, Changing
<1>3. CASE Killed
  <2>1. /\ job' = job \/ (job' \in Changing \cup {"reboot"} /\ boot.up /\ run.at \in Past)
    BY <1>3 DEF Killed, Past, Updating, Changing
  <2>2. run.at \in Past => HasPlan /\ ~opts.dry /\ phase = "executing"
    BY DEF TypeInv, Past, Updating, Posts, Executing, Watched
  <2> QED BY <1>3, <1>i, <2>1, <2>2 DEF Killed, JobInv, HasPlan, Changing
<1>4. CASE CaptureConfigXML
  <2>1. job = "none"
    BY <1>4, NoJob DEF CaptureConfigXML, TypeInv, Preparing
  <2>2. /\ run'.at \in {"core", "idle"} /\ run'.out = "executing" /\ run'.before = None
    BY <1>4, <1>i, <1>g DEF CaptureConfigXML, JobInv, Steps, Preparing, Posts
  <2> QED BY <1>4, <2>1, <2>2 DEF CaptureConfigXML, JobInv, Changing
<1>5. CASE CaptureFirmwareState
  <2>0. UNCHANGED <<repo, guest, boot, job, opts, phase, dir>> /\ run.at \in DOMAIN Captures
    BY <1>5, CaptureStep
  <2>a. /\ run.at \in (Preparing \cup Posts) \ {"config", "rest", "verify"}
        /\ run.at # "idle" /\ ~Failing /\ run.at # "save"
    BY <2>0 DEF Captures, Preparing, Posts, Failing
  <2>1. CASE Captured
    <3>1. PICK next \in Steps :
            /\ run'.at = next /\ run'.out = run.out /\ run'.before = run.before
            /\ next = Captures[run.at].next
            /\ run'.expired = run.expired /\ run'.broke = run.broke
      BY <2>1 DEF Captured
    <3>2. /\ next # "save" /\ next # "idle" /\ next # "webgui"
          /\ run.at \in Posts => next \in Posts
          /\ run.at \notin Posts => next \notin {"shutdown", "wait"} /\ next \notin Posts
          /\ next \notin {"shutdown", "wait"}
      BY <2>0, <3>1 DEF Captures, Posts
    <3>3. job \notin Changing
      BY <2>a, NoJob
    <3>4. run.at \notin Posts => run.before = None
      BY <2>a DEF JobInv, Preparing, Posts
    <3> QED BY <2>0, <2>a, <3>1, <3>2, <3>3, <3>4
            DEF JobInv, HasPlan, Failing, Changing
  <2>2. CASE run.at \in Preparing /\ Exit
    <3>1. job = "none"
      BY <2>2, NoJob DEF TypeInv
    <3> QED BY <2>0, <2>2, <3>1, <1>i DEF JobInv, Changing
  <2>3. CASE run.at \in Posts /\ Fail(FALSE)
    <3>1. run.at \in Executing \ {"save"} /\ phase = "executing"
      BY <2>3 DEF TypeInv, Posts, Executing, Watched
    <3> QED BY <2>0, <2>3, <3>1, <1>F
  <2> QED BY <1>5, CaptureStep, <2>1, <2>2, <2>3
<1>6. CASE FinishPrepare
  <2>1. job = "none"
    BY <1>6, NoJob DEF FinishPrepare, TypeInv, Preparing
  <2> QED BY <1>6, <1>i, <2>1 DEF FinishPrepare, JobInv, Changing
<1>p. ASSUME NEW plan \in Plans, Planned(plan), run.at \in Planning,
             UNCHANGED <<boot, job, opts, phase>>
      PROVE  JobInv'
  <2>1. job = "none" /\ run.before = None /\ phase = "executing" /\ run.out = "executing"
    BY <1>p, NoJob DEF TypeInv, JobInv, Planning, Executing, Watched, Posts
  <2>2. CASE Finish
    <3>1. run'.at = "save" /\ run'.out = "executed" /\ run'.before = run.before
      BY <1>0, <2>2, FinishStep
    <3> QED BY <1>p, <2>1, <3>1 DEF JobInv, Changing
  <2>3. ASSUME NEW at \in {"major", "before", "packages"}, Goto(at)
        PROVE  JobInv'
    <3>1. run'.at = at /\ run'.out = run.out /\ run'.before = run.before
      BY <2>3, <1>g DEF Steps, Executing, Watched
    <3> QED BY <1>p, <2>1, <3>1 DEF JobInv, Changing
  <2>4. CASE Fail(FALSE)
    BY <1>p, <2>1, <2>4, <1>f DEF JobInv, Changing
  <2> QED BY <1>p, <2>2, <2>3, <2>4 DEF Planned
<1>7. CASE ReadPre
  <2>1. CASE isMajorUpgrade(opts.target, dir.pre.core) /\ Planned(majorPlan(opts.target))
    <3>1. majorPlan(opts.target) \in Plans
      BY <1>0, <2>1, PlanTypes DEF isMajorUpgrade
    <3> QED BY <1>7, <2>1, <3>1, <1>p DEF ReadPre, Planning
  <2>a. job = "none" /\ run.before = None /\ phase = "executing" /\ run.out = "executing"
    BY <1>7, NoJob DEF ReadPre, TypeInv, JobInv, Planning, Executing, Watched, Posts
  <2>2. CASE Goto("refresh") /\ UNCHANGED dir
    <3>1. run'.at = "refresh" /\ run'.out = run.out /\ run'.before = run.before
      BY <2>2, <1>g DEF Steps, Executing, Watched
    <3> QED BY <1>7, <2>a, <3>1 DEF ReadPre, JobInv, Changing
  <2>3. CASE Fail(FALSE) /\ UNCHANGED dir
    BY <1>7, <2>a, <2>3, <1>f DEF ReadPre, JobInv, Changing
  <2> QED BY <1>7, <2>1, <2>2, <2>3 DEF ReadPre
<1>8. CASE RefreshCatalogue
  <2>a. job = "none" /\ run.before = None /\ phase = "executing" /\ run.out = "executing"
    BY <1>8, NoJob DEF RefreshCatalogue, TypeInv, JobInv, Planning, Executing, Watched, Posts
  <2>1. CASE Goto("probe")
    <3>1. run'.at = "probe" /\ run'.out = run.out /\ run'.before = run.before
      BY <2>1, <1>g DEF Steps, Executing, Watched
    <3> QED BY <1>8, <2>a, <3>1 DEF RefreshCatalogue, JobInv, Changing
  <2>2. CASE Fail(TRUE)
    BY <1>8, <2>a, <2>2, <1>f DEF RefreshCatalogue, JobInv, Changing
  <2> QED BY <1>8, <2>1, <2>2 DEF RefreshCatalogue
<1>9. CASE ProbeUpdatePlan
  <2>1. ASSUME NEW always \in {FALSE, opts.always},
               Planned(updatePlan(dir.pre, guest.catalog, always))
        PROVE  JobInv'
    <3>1. dir.pre \in States /\ guest.catalog \in Packages /\ always \in BOOLEAN
      BY <1>0, <1>9, NoneApart
         DEF ProbeUpdatePlan, Disks, TypeInv, TypeOK, Executing, Watched
    <3>2. updatePlan(dir.pre, guest.catalog, always) \in Plans
      BY <3>1, PlanTypes
    <3> QED BY <1>9, <1>p, <2>1, <3>2 DEF ProbeUpdatePlan, Planning
  <2>a. job = "none" /\ run.before = None /\ phase = "executing" /\ run.out = "executing"
    BY <1>9, NoJob DEF ProbeUpdatePlan, TypeInv, JobInv, Planning, Executing, Watched, Posts
  <2>2. CASE Fail(TRUE) /\ UNCHANGED dir
    BY <1>9, <2>a, <2>2, <1>f DEF ProbeUpdatePlan, JobInv, Changing
  <2> QED BY <1>9, <2>1, <2>2 DEF ProbeUpdatePlan
\* The steps that change the disk.
<1>u. ASSUME run.at \in Updating \cup {"major", "bootid"}, ~Failing
      PROVE  /\ job = "none" /\ run.before = None /\ phase = "executing"
             /\ run.out = "executing" /\ HasPlan /\ ~opts.dry
  BY <1>u, NoJob DEF TypeInv, JobInv, Updating, Past, Posts, Executing, Watched
<1>c. ASSUME NEW job_ \in Changing, NEW result \in Outcomes(job_), Change(result)
      PROVE  /\ job' \in {job_, job}
             /\ job' # job => boot.up /\ outputFails(result.reply)
  BY <1>0, <1>c, OutcomeType DEF Change, outputFails
<1>10. CASE ApplyMajorUpgrade
  <2>1. PICK result \in Outcomes("major") :
          /\ Change(result)
          /\ IF outputFails(result.reply) THEN Fail(TRUE)
             ELSE run' = [run EXCEPT !.at = "bootid", !.reboot = TRUE,
                                     !.sets = First(opts.target)]
    BY <1>10 DEF ApplyMajorUpgrade
  <2>2. /\ job' \in {"major", job}
        /\ job' # job => boot.up /\ outputFails(result.reply)
    BY <2>1, <1>c DEF Changing
  <2>3. /\ job = "none" /\ run.before = None /\ phase = "executing"
        /\ run.out = "executing" /\ HasPlan /\ ~opts.dry
    BY <1>10, <1>u DEF ApplyMajorUpgrade, Failing
  <2>u. UNCHANGED <<repo, boot, opts, phase, dir>>
    BY <1>10 DEF ApplyMajorUpgrade
  <2>4. CASE outputFails(result.reply)
    <3>1. /\ run'.at = "save" /\ run'.before = run.before
          /\ run'.out \in {"execute_failed", "execute_hung"}
          /\ run'.out = "execute_hung" => run'.expired
      BY <1>f, <2>1, <2>4
    <3> QED BY <2>u, <2>2, <2>3, <3>1 DEF JobInv, HasPlan, Failing, Changing
  <2>5. CASE ~outputFails(result.reply)
    <3>1. First(opts.target) \in Version
      BY <1>0, <1>10, VersionTypes DEF ApplyMajorUpgrade, TypeInv
    <3>2. run'.at = "bootid" /\ run'.out = run.out /\ run'.before = run.before
      BY <1>0, <2>1, <2>5, <3>1, MemoryStep DEF Steps, Executing
    <3> QED BY <2>u, <2>2, <2>3, <2>5, <3>2 DEF JobInv, HasPlan, Failing, Changing
  <2> QED BY <2>4, <2>5
<1>11. CASE ListBefore
  <2>1. /\ job = "none" /\ run.before = None /\ phase = "executing"
        /\ run.out = "executing" /\ HasPlan /\ ~opts.dry
    BY <1>11, <1>u DEF ListBefore, Failing, Updating
  <2>2. CASE Fail(TRUE)
    BY <1>11, <1>f, <2>1, <2>2 DEF ListBefore, JobInv, Changing
  <2>3. CASE run' = [run EXCEPT !.at = "packages", !.listing = Listing]
    <3>1. Listing \in Packages
      BY <1>0 DEF Listing, Packages, Disks
    <3>2. run'.at = "packages" /\ run'.out = run.out /\ run'.before = run.before
      BY <1>0, <2>3, <3>1, MemoryStep
    <3> QED BY <1>11, <2>1, <3>2 DEF ListBefore, JobInv, Changing
  <2> QED BY <1>11, <2>2, <2>3 DEF ListBefore
<1>12. CASE UpdatePackages
  <2>1. PICK result \in Outcomes("packages") :
          /\ Change(result)
          /\ run' = [run EXCEPT !.at = "webgui", !.broke = outputFails(result.reply)]
    BY <1>12 DEF UpdatePackages
  <2>2. /\ job' \in {"packages", job}
        /\ job' # job => boot.up /\ outputFails(result.reply)
    BY <2>1, <1>c DEF Changing
  <2>3. /\ job = "none" /\ run.before = None /\ phase = "executing"
        /\ run.out = "executing" /\ HasPlan /\ ~opts.dry
    BY <1>12, <1>u DEF UpdatePackages, Failing, Updating
  <2>4. /\ run'.at = "webgui" /\ run'.out = run.out /\ run'.before = run.before
        /\ run'.broke = outputFails(result.reply)
    BY <1>0, <2>1, MemoryStep DEF outputFails
  <2>u. UNCHANGED <<repo, boot, opts, phase, dir>>
    BY <1>12 DEF UpdatePackages
  <2> QED BY <2>u, <2>2, <2>3, <2>4 DEF JobInv, HasPlan, Failing, Changing
<1>13. CASE RestartWebGUI
  <2>1. CASE Goto("check") /\ ~run.broke
    <3>1. run'.at = "check" /\ run'.out = run.out /\ run'.before = run.before
      BY <2>1, <1>g DEF Steps, Executing, Watched
    <3>2. /\ job = "none" /\ run.before = None /\ phase = "executing"
          /\ run.out = "executing" /\ HasPlan /\ ~opts.dry
      BY <1>13, <2>1, <1>u DEF RestartWebGUI, Failing, Updating
    <3> QED BY <1>13, <3>1, <3>2 DEF RestartWebGUI, JobInv, Changing
  <2>2. CASE Fail(TRUE)
    <3>1. run.at \in Executing \ {"save"} /\ phase = "executing" /\ run.before = None
      BY <1>13 DEF RestartWebGUI, TypeInv, JobInv, Posts, Executing, Watched
    <3> QED BY <1>13, <2>2, <3>1, <1>F DEF RestartWebGUI
  <2> QED BY <1>13, <2>1, <2>2 DEF RestartWebGUI
<1>14. CASE CheckSets
  <2>1. /\ job = "none" /\ run.before = None /\ phase = "executing"
        /\ run.out = "executing" /\ HasPlan /\ ~opts.dry
    BY <1>14, <1>u DEF CheckSets, Failing, Updating
  <2>2. CASE Fail(TRUE)
    BY <1>14, <1>f, <2>1, <2>2 DEF CheckSets, JobInv, Changing
  <2>3. ASSUME NEW at \in {"sets", "after", "postcore"}, Goto(at)
        PROVE  JobInv'
    <3>1. run'.at = at /\ run'.out = run.out /\ run'.before = run.before
      BY <2>3, <1>g DEF Steps, Executing, Watched
    <3> QED BY <1>14, <2>1, <3>1 DEF CheckSets, JobInv, Changing
  <2> QED BY <1>14, <2>2, <2>3 DEF CheckSets, AfterSets
<1>15. CASE InstallSets
  <2>1. /\ job = "none" /\ run.before = None /\ phase = "executing"
        /\ run.out = "executing" /\ HasPlan /\ ~opts.dry
    BY <1>15, <1>u DEF InstallSets, Failing, Updating
  <2>2. CASE Fail(TRUE) /\ UNCHANGED <<guest, job>>
    BY <1>15, <1>f, <2>1, <2>2 DEF InstallSets, JobInv, Changing
  <2>3. ASSUME NEW result \in Outcomes("sets"), Change(result),
               IF outputFails(result.reply) THEN Fail(TRUE)
               ELSE run' = [run EXCEPT !.at = AfterSets("bootid"), !.reboot = TRUE,
                                       !.sets = stripPackageRevision(guest.updater)]
        PROVE  JobInv'
    <3>1. /\ job' \in {"sets", job}
          /\ job' # job => boot.up /\ outputFails(result.reply)
      BY <2>3, <1>c DEF Changing
    <3>u. UNCHANGED <<repo, boot, opts, phase, dir>>
      BY <1>15 DEF InstallSets
    <3>2. CASE outputFails(result.reply)
      <4>1. /\ run'.at = "save" /\ run'.before = run.before
            /\ run'.out \in {"execute_failed", "execute_hung"}
            /\ run'.out = "execute_hung" => run'.expired
        BY <1>f, <2>3, <3>2
      <4> QED BY <3>u, <2>1, <3>1, <4>1 DEF JobInv, HasPlan, Failing, Changing
    <3>3. CASE ~outputFails(result.reply)
      <4>1. /\ stripPackageRevision(guest.updater) \in Version
            /\ AfterSets("bootid") \in {"after", "bootid"}
        BY <1>0, VersionTypes DEF Disks, AfterSets
      <4>2. /\ run'.at \in {"after", "bootid"} /\ run'.out = run.out
            /\ run'.before = run.before
        BY <1>0, <2>3, <3>3, <4>1, MemoryStep DEF Steps, Executing, Watched
      <4> QED BY <3>u, <2>1, <3>1, <3>3, <4>2 DEF JobInv, HasPlan, Failing, Changing
    <3> QED BY <3>2, <3>3
  <2> QED BY <1>15, <2>2, <2>3 DEF InstallSets
<1>16. CASE ListAfter
  <2>1. /\ job = "none" /\ run.before = None /\ phase = "executing"
        /\ run.out = "executing" /\ HasPlan /\ ~opts.dry
    BY <1>16, <1>u DEF ListAfter, Failing, Updating
  <2>2. CASE Fail(TRUE)
    BY <1>16, <1>f, <2>1, <2>2 DEF ListAfter, JobInv, Changing
  <2>3. CASE ~Fail(TRUE)
    <3> DEFINE reboot == run.reboot \/ Listing # run.listing
               at == IF reboot THEN "bootid" ELSE "postcore"
    <3>1. run' = [run EXCEPT !.at = at, !.reboot = reboot]
      BY <1>16, <2>3 DEF ListAfter
    <3>2. reboot \in BOOLEAN /\ at \in {"bootid", "postcore"} /\ at \in Steps
      BY <1>0 DEF Memory, Steps, Executing
    <3> HIDE DEF reboot, at
    <3>3. run'.at = at /\ run'.out = run.out /\ run'.before = run.before
      BY <1>0, <3>1, <3>2, MemoryStep
    <3> QED BY <1>16, <2>1, <3>2, <3>3 DEF ListAfter, JobInv, Changing
  <2> QED BY <2>2, <2>3
<1>17. CASE ReadBootID
  <2>1. /\ job = "none" /\ run.before = None /\ phase = "executing"
        /\ run.out = "executing" /\ HasPlan /\ ~opts.dry
    BY <1>17, <1>u DEF ReadBootID, Failing
  <2>2. CASE Fail(FALSE)
    BY <1>17, <1>f, <2>1, <2>2 DEF ReadBootID, JobInv, Changing
  <2>3. CASE run' = [run EXCEPT !.at = "shutdown", !.before = boot.id]
    <3>1. run'.at = "shutdown" /\ run'.out = run.out /\ run'.before = boot.id
      BY <1>0, <2>3, MemoryStep
    <3>2. boot.id # None
      BY <1>0, NoneAssumption, FirmwareAssumption
    <3> QED BY <1>17, <2>1, <3>1, <3>2 DEF ReadBootID, JobInv, Changing
  <2> QED BY <1>17, <2>2, <2>3 DEF ReadBootID
<1>18. CASE Shutdown
  <2>1. run'.at = "wait" /\ run'.out = run.out /\ run'.before = run.before
    BY <1>18, <1>g DEF Shutdown, Steps, Executing
  <2>2. job' = job \/ (job' = "reboot" /\ boot.up)
    BY <1>0, <1>18 DEF Shutdown, Possible, GoesOn, Work, Started
  <2>3. /\ run.before # None /\ job \notin Changing /\ HasPlan /\ ~opts.dry
        /\ run.at = "shutdown" /\ phase = "executing" /\ run.out = "executing"
    BY <1>18, NoJob DEF Shutdown, JobInv, TypeInv, Failing, Past, Executing
  <2> QED BY <1>18, <2>1, <2>2, <2>3 DEF Shutdown, JobInv, HasPlan, Changing, Posts
<1>19. CASE WaitForReboot
  <2>1. /\ run.at \in Executing \ {"save"} /\ phase = "executing" /\ run.at = "wait"
        /\ job \notin Changing /\ run.before # None
    BY <1>19, NoJob DEF WaitForReboot, TypeInv, JobInv, Executing, Failing
  <2>2. CASE Goto("postcore")
    <3>1. run'.at = "postcore" /\ run'.out = run.out /\ run'.before = run.before
      BY <2>2, <1>g DEF Steps, Executing
    <3> QED BY <1>19, <2>1, <3>1 DEF WaitForReboot, JobInv, HasPlan, Changing, Posts
  <2>3. CASE Fail(FALSE)
    BY <1>19, <2>1, <2>3, <1>F DEF WaitForReboot
  <2> QED BY <1>19, <2>2, <2>3 DEF WaitForReboot
<1>20. CASE Verify
  <2>1. /\ run.at \in Executing \ {"save"} /\ phase = "executing" /\ run.at = "verify"
        /\ job \notin Changing /\ run.out = "executing"
    BY <1>20, NoJob DEF Verify, TypeInv, JobInv, Executing, Failing
  <2>2. CASE Finish
    <3>1. run'.at = "save" /\ run'.out = "executed" /\ run'.before = run.before
      BY <1>0, <2>2, FinishStep
    <3> QED BY <1>20, <2>1, <3>1 DEF Verify, JobInv, HasPlan, Changing
  <2>3. CASE Fail(FALSE)
    BY <1>20, <2>1, <2>3, <1>F DEF Verify
  <2> QED BY <1>20, <2>2, <2>3 DEF Verify
<1>21. CASE Save
  <2>1. phase' = phase \/ phase' = run.out
    BY <1>21 DEF Save
  <2>2. /\ phase = "executing"
        /\ run.out = "executed" => job \notin Changing
        /\ run.out = "execute_hung" => job # "reboot"
    BY <1>21, NoJob DEF Save, TypeInv, JobInv, Executing, Failing
  <2> QED BY <1>21, <1>i, <2>1, <2>2 DEF Save, JobInv, HasPlan, Changing
<1> QED BY <1>1, <1>2, <1>3, <1>4, <1>5, <1>6, <1>7, <1>8, <1>9, <1>10, <1>11, <1>12,
           <1>13, <1>14, <1>15, <1>16, <1>17, <1>18, <1>19, <1>20, <1>21 DEF Invocation

\* Every step keeps JobInv.
LEMMA JobNext == TypeInv /\ JobInv /\ TypeInv' /\ [Next]_vars => JobInv'
<1> SUFFICES ASSUME TypeInv, JobInv, TypeInv', [Next]_vars PROVE JobInv'
  OBVIOUS
<1>1. CASE World
  BY <1>1, JobWorld
<1>2. CASE StartPrepare \/ StartExecute \/ Invocation \/ Killed
  BY <1>2, JobInvocation
<1>3. CASE UNCHANGED vars
  BY <1>3 DEF vars, host, JobInv, HasPlan, Failing
<1> QED BY <1>1, <1>2, <1>3 DEF Next

\* A hung execute is recorded only past the watchdog's deadline and before the
\* reboot, so that no rollback meets a guest that is going down (execute.go:133).
THEOREM HungOnlyBeforeReboot == Spec => []HungBeforeReboot
<1>1. Init => TypeInv /\ JobInv
  BY TypeInit, JobInit
<1>2. TypeInv /\ JobInv /\ [Next]_vars => (TypeInv /\ JobInv)'
  BY TypeNext, JobNext
<1>3. TypeInv /\ JobInv => HungBeforeReboot
  BY DEF JobInv, HungBeforeReboot
<1> QED BY <1>1, <1>2, <1>3, PTL DEF Spec

-----------------------------------------------------------------------------
(* How far the versions are apart                                          *)

\* What a state variable of versions holds.
LEMMA Versions ==
  ASSUME TypeInv
  PROVE  /\ guest.core \in Version /\ guest.updater \in Version
         /\ guest.base \in Version /\ guest.kernel \in Version
         /\ guest.staged \in 0..2 /\ guest.catalog.core \in Version
         /\ guest.catalog.updater \in Version
         /\ repo.core \in Version /\ repo.updater = repo.core
         /\ run.read.core \in Version /\ run.read.base \in Version
         /\ run.read.kernel \in Version /\ opts.target \in 0..2
         /\ dir.pre # None => /\ dir.pre.core \in Version
                              /\ dir.pre.base \in Version
                              /\ dir.pre.kernel \in Version
         /\ HasPlan => /\ dir.plan.coreAvailable \in Version
                       /\ dir.plan.setsAvailable \in Version
         /\ \A v \in Version : stripPackageRevision(v) \in Version
  BY VersionTypes, FirmwareAssumption
     DEF TypeInv, TypeOK, Packages, States, Memory, Plans, HasPlan

\* Without a major plan everything installed is of series 1.
LEMMA FirstSeries ==
  ASSUME TypeInv, Level
  PROVE  /\ guest.core.series = 1 /\ guest.updater.series = 1
         /\ guest.catalog.core.series = 1
         /\ dir.pre # None => dir.pre.core.series = 1
<1>1. \A v, w \in Version : ~Older(v, w) => v.series >= w.series
  BY OlderOrder
<1>2. \A v \in Version : v.series \in 1..2
  BY DEF Version
<1> QED BY <1>1, <1>2, Versions DEF Level, AtLeast, TypeInv

\* A component of the disk that stays or goes to what is offered only grows.
LEMMA Grows ==
  ASSUME TypeInv, TypeInv', Level, repo' = repo,
         dir'.pre = dir.pre, guest'.catalog = guest.catalog,
         guest'.core \in {guest.core, repo.core},
         guest'.updater \in {guest.updater, repo.core},
         guest'.base \in {guest.base, stripPackageRevision(guest'.updater)},
         guest'.kernel \in {guest.kernel, stripPackageRevision(guest'.updater)}
  PROVE  /\ Level'
         /\ ~Older(guest'.core, guest.core) /\ ~Older(guest'.updater, guest.updater)
         /\ ~Older(guest'.base, guest.base) /\ ~Older(guest'.kernel, guest.kernel)
<1> USE DEF Level, AtLeast
<1>1. /\ \A v \in Version : ~Older(v, v)
      /\ \A u, v, w \in Version : ~Older(u, v) /\ ~Older(v, w) => ~Older(u, w)
      /\ \A v, w \in Version : ~Older(v, w) =>
            ~Older(stripPackageRevision(v), stripPackageRevision(w))
  BY OlderOrder
<1>2. /\ guest'.core \in Version /\ guest'.updater \in Version
      /\ guest'.base \in Version /\ guest'.kernel \in Version
  BY Versions, VersionTypes
<1>3. ~Older(guest'.core, guest.core) /\ ~Older(repo.core, guest'.core)
  BY <1>1, Versions
<1>4. ~Older(guest'.updater, guest.updater) /\ ~Older(repo.core, guest'.updater)
  BY <1>1, Versions
<1> DEFINE sets == stripPackageRevision(guest'.updater)
           old  == stripPackageRevision(guest.updater)
<1>5. sets \in Version /\ old \in Version /\ ~Older(sets, old)
  BY <1>1, <1>2, <1>4, Versions
<1>6. ~Older(sets, guest'.base) /\ ~Older(guest'.base, guest.base)
  <2>1. ~Older(sets, guest.base)
    BY <1>1, <1>5, Versions
  <2> HIDE DEF sets
  <2> QED BY <1>1, <1>5, <2>1, Versions DEF sets
<1>7. ~Older(sets, guest'.kernel) /\ ~Older(guest'.kernel, guest.kernel)
  <2>1. ~Older(sets, guest.kernel)
    BY <1>1, <1>5, Versions
  <2> HIDE DEF sets
  <2> QED BY <1>1, <1>5, <2>1, Versions DEF sets
<1>8. (dir.pre # None => AtLeast(dir.pre.core, dir.pre.base, dir.pre.kernel))'
  BY <1>1, <1>2, <1>3, <1>6, <1>7, Versions
<1> QED BY <1>3, <1>4, <1>6, <1>7, <1>8

\* A step that touches neither the versions nor the plan.
LEMMA VersionQuiet ==
  ASSUME VersionInv, UNCHANGED <<repo, guest, opts, dir>>,
         job' \in {job, "none", "reboot"},
         \/ run'.at \notin Preparing \cup {"major"}
         \/ run'.at = run.at /\ run'.read = run.read
  PROVE  VersionInv'
BY DEF VersionInv, Level, AtLeast, Major, HasPlan

\* Everything starts at the first release.
LEMMA VersionInit == Init => VersionInv
<1> SUFFICES ASSUME Init PROVE VersionInv
  OBVIOUS
<1>1. First(1) \in Version /\ stripPackageRevision(First(1)) = First(1)
  BY FirmwareAssumption, VersionTypes DEF First, stripPackageRevision
<1>2. ~Older(First(1), First(1))
  BY <1>1, OlderOrder
<1>3. run.at = "idle" /\ job = "none" /\ ~HasPlan /\ dir.pre = None
  BY IdleType DEF Init, HasPlan
<1>4. /\ guest.core = First(1) /\ guest.updater = First(1) /\ guest.base = First(1)
      /\ guest.kernel = First(1) /\ guest.staged = 0
      /\ guest.catalog.core = First(1) /\ guest.catalog.updater = First(1)
      /\ repo.core = First(1)
  BY DEF Init
<1> QED BY <1>1, <1>2, <1>3, <1>4 DEF VersionInv, Level, Major, Preparing

\* What the repository publishes is no older than what it offered.
LEMMA PublishGrows ==
  ASSUME TypeInv, Publish
  PROVE  ~Older(repo'.core, repo.core)
<1>0. repo \in Packages /\ repo.core \in Version /\ repo.core.series = 1
  BY Versions DEF TypeInv, TypeOK
<1>1. CASE repo' = [repo EXCEPT !.core.rev = @ + 1, !.updater.rev = @ + 1]
  <2>1. repo'.core = [repo.core EXCEPT !.rev = repo.core.rev + 1]
    BY <1>0, <1>1 DEF Packages
  <2> QED BY <1>0, <2>1, FirmwareAssumption DEF Version, Older
<1>2. CASE LET new == [series |-> 1, patch |-> repo.core.patch + 1, rev |-> 0]
               IN  repo' = [core |-> new, updater |-> new]
  BY <1>0, <1>2, FirmwareAssumption DEF Version, Older
<1> QED BY <1>1, <1>2 DEF Publish

\* The world keeps VersionInv.
LEMMA VersionWorld ==
  ASSUME TypeInv, JobInv, VersionInv, TypeInv', World
  PROVE  VersionInv'
<1>1. CASE Publish
  <2>1. ~Older(repo'.core, repo.core)
    BY <1>1, PublishGrows
  <2>2. \A w \in Version : ~Older(repo.core, w) => ~Older(repo'.core, w)
    <3>1. repo'.core \in Version /\ repo.core \in Version
      BY DEF TypeInv, TypeOK, Packages
    <3> QED BY <2>1, <3>1, OlderOrder
  <2> QED BY <1>1, <2>2, Versions
          DEF Publish, host, VersionInv, Level, AtLeast, Major, HasPlan
<1>2. CASE GoesDown
  BY <1>2, VersionQuiet DEF GoesDown, host
<1>3. CASE Boots
  <2>1. BootStep
    BY <1>3, BootsStep
  <2>2. job = "none" /\ UNCHANGED <<repo, job, opts, phase, dir, run>>
    BY <1>3, NoJob DEF Boots, host
  <2>3. CASE guest' = guest
    BY <2>2, <2>3, VersionQuiet
  <2>4. CASE guest.staged # 0 /\ guest'.staged = 0
    <3>1. Major /\ run.at \notin Preparing \cup {"major"}
      BY <2>4 DEF VersionInv, TypeInv, Major
    <3> QED BY <2>2, <2>4, <3>1 DEF VersionInv, Major, HasPlan
  <2> QED BY <2>1, <2>3, <2>4 DEF BootStep
<1>4. CASE JobEnds
  <2>0. /\ guest \in Disks /\ repo \in Packages /\ opts.target \in 0..2
        /\ job \in Changing /\ job' = "none"
        /\ UNCHANGED <<repo, boot, opts, phase, dir, run>>
    BY <1>4, NoneApart DEF JobEnds, host, Changing, TypeInv, TypeOK
  <2>1. PICK amount \in Amounts : guest' \in Install(job, amount)
    BY <1>4 DEF JobEnds
  <2>2. /\ HasPlan /\ ~opts.dry /\ run.at \notin Preparing \cup {"major"}
    BY <2>0, NoJob DEF JobInv, TypeInv, Changing, Failing, Preparing
  <2>3. CASE job \in {"packages", "sets"}
    <3>1. /\ guest'.catalog = guest.catalog
          /\ guest'.core \in {guest.core, repo.core}
          /\ guest'.updater \in {guest.updater, repo.core}
          /\ guest'.base \in {guest.base, stripPackageRevision(guest'.updater)}
          /\ guest'.kernel \in {guest.kernel, stripPackageRevision(guest'.updater)}
          /\ guest'.staged = guest.staged
      BY <2>0, <2>1, <2>3, InstallType, Versions
    <3>2. ~Major
      BY <2>3 DEF VersionInv
    <3>3. Level'
      BY <2>0, <3>1, <3>2, Grows DEF VersionInv
    <3> QED BY <2>0, <2>2, <3>1, <3>2, <3>3 DEF VersionInv, Major, HasPlan
  <2>4. CASE job = "major"
    <3>1. /\ guest'.core = guest.core /\ guest'.staged \in {guest.staged, opts.target}
      BY <2>0, <2>1, <2>4, InstallType
    <3>2. Major /\ guest.core.series = 1
      BY <2>4 DEF VersionInv
    <3> QED BY <2>0, <2>2, <3>1, <3>2 DEF VersionInv, Major, HasPlan
  <2> QED BY <2>0, <2>3, <2>4 DEF Changing
<1>5. CASE OperatorUpdates
  <2> DEFINE sets == stripPackageRevision(repo.updater)
  <2>0. /\ UNCHANGED <<repo, job, opts, phase, dir, run>>
        /\ guest' = [guest EXCEPT !.core = repo.core, !.updater = repo.updater,
                                  !.base = sets, !.kernel = sets]
        /\ guest \in Disks /\ ~HasPlan /\ job = "none"
    BY <1>5, NoneApart, NoJob DEF OperatorUpdates, host, TypeInv
  <2>1. /\ guest'.core = repo.core /\ guest'.updater = repo.updater
        /\ guest'.base = sets /\ guest'.kernel = sets
        /\ guest'.staged = guest.staged /\ guest'.catalog = guest.catalog
    BY <2>0 DEF Disks
  <2>2. ~Major /\ repo.updater = repo.core
    BY <2>0, Versions DEF Major
  <2>3. /\ Level'
        /\ ~Older(guest'.core, guest.core) /\ ~Older(guest'.base, guest.base)
        /\ ~Older(guest'.kernel, guest.kernel)
    BY <2>0, <2>1, <2>2, Grows DEF VersionInv
  <2>4. run.at \in Preparing =>
          AtLeast(run.read.core, run.read.base, run.read.kernel)'
    <3>1. \A u, v, w \in Version : ~Older(u, v) /\ ~Older(v, w) => ~Older(u, w)
      BY OlderOrder
    <3>2. /\ guest'.core \in Version /\ guest'.base \in Version /\ guest'.kernel \in Version
      BY DEF TypeInv, TypeOK
    <3> QED BY <2>0, <2>3, <3>1, <3>2, Versions DEF AtLeast, VersionInv
  <2>5. run.at # "major"
    BY <1>5 DEF OperatorUpdates, TypeInv, Executing, Watched
  <2> HIDE DEF sets
  <2> QED BY <2>0, <2>1, <2>2, <2>3, <2>4, <2>5 DEF VersionInv, Major, HasPlan
<1>6. CASE WatchdogExpires
  <2>1. run'.at = run.at /\ run'.read = run.read
    BY <1>6 DEF WatchdogExpires, TypeInv, TypeOK, Memory
  <2> QED BY <1>6, <2>1, VersionQuiet DEF WatchdogExpires
<1>7. CASE RebootDeadline
  <2>1. run'.at = run.at /\ run'.read = run.read
    BY <1>7 DEF RebootDeadline, TypeInv, TypeOK, Memory
  <2> QED BY <1>7, <2>1, VersionQuiet DEF RebootDeadline
<1> QED BY <1>1, <1>2, <1>3, <1>4, <1>5, <1>6, <1>7 DEF World

\* Where the steps that only read the guest go; none of them touches the disk, the
\* plan or what the repository offers.
LEMMA ReadingStep ==
  ASSUME TypeInv, JobInv,
         \/ StartExecute \/ ListBefore \/ RestartWebGUI \/ CheckSets \/ ListAfter
         \/ ReadBootID \/ Shutdown \/ WaitForReboot \/ Verify \/ Save
  PROVE  /\ UNCHANGED <<repo, guest, boot, opts, dir>>
         /\ job' \in {job, "reboot"}
         /\ run' = run \/ run'.at \notin Preparing \cup {"major"}
<1>0. run \in Memory /\ boot.id \in 1..MaxBoots /\ guest \in Disks
  BY NoneApart DEF TypeInv, TypeOK
<1>f. ASSUME NEW watched \in BOOLEAN, Fail(watched)
      PROVE  run'.at \notin Preparing \cup {"major"}
  BY <1>0, <1>f, FailStep DEF Preparing
<1>g. ASSUME NEW at \in Steps \ (Preparing \cup {"major"}), Goto(at)
      PROVE  run'.at \notin Preparing \cup {"major"}
  BY <1>0, <1>g, GotoStep
<1> USE DEF Steps, Executing, Watched, Preparing
<1>1. CASE StartExecute
  <2>1. Start("pre") => run'.at = "pre"
    BY StartStep
  <2> QED BY <1>1, <2>1 DEF StartExecute
<1>2. CASE ListBefore
  <2>1. CASE run' = [run EXCEPT !.at = "packages", !.listing = Listing]
    <3>1. Listing \in Packages
      BY <1>0 DEF Listing, Packages, Disks
    <3>2. run'.at = "packages"
      BY <1>0, <2>1, <3>1, MemoryStep
    <3> QED BY <1>2, <3>2 DEF ListBefore
  <2>2. CASE Fail(TRUE)
    BY <1>2, <2>2, <1>f DEF ListBefore
  <2> QED BY <1>2, <2>1, <2>2 DEF ListBefore
<1>3. CASE RestartWebGUI
  <2>1. Goto("check") => run'.at \notin Preparing \cup {"major"}
    BY <1>g
  <2> QED BY <1>3, <1>f, <2>1 DEF RestartWebGUI
<1>4. CASE CheckSets
  <2>1. \A at \in {"sets", "after", "postcore"} :
          Goto(at) => run'.at \notin Preparing \cup {"major"}
    BY <1>g
  <2> QED BY <1>4, <1>f, <2>1 DEF CheckSets, AfterSets
<1>5. CASE ListAfter
  <2>1. CASE Fail(TRUE)
    BY <1>5, <2>1, <1>f DEF ListAfter
  <2>2. CASE ~Fail(TRUE)
    <3> DEFINE reboot == run.reboot \/ Listing # run.listing
               at == IF reboot THEN "bootid" ELSE "postcore"
    <3>1. run' = [run EXCEPT !.at = at, !.reboot = reboot]
      BY <1>5, <2>2 DEF ListAfter
    <3>2. reboot \in BOOLEAN /\ at \in {"bootid", "postcore"} /\ at \in Steps
      BY <1>0 DEF Memory
    <3> HIDE DEF reboot, at
    <3>3. run'.at = at
      BY <1>0, <3>1, <3>2, MemoryStep
    <3> QED BY <1>5, <3>2, <3>3 DEF ListAfter
  <2> QED BY <2>1, <2>2
<1>6. CASE ReadBootID
  <2>1. run' = [run EXCEPT !.at = "shutdown", !.before = boot.id] => run'.at = "shutdown"
    BY <1>0, MemoryStep
  <2> QED BY <1>6, <1>f, <2>1 DEF ReadBootID
<1>7. CASE Shutdown
  <2>1. run'.at \notin Preparing \cup {"major"}
    BY <1>7, <1>g DEF Shutdown
  <2> QED BY <1>7, <2>1 DEF Shutdown
<1>8. CASE WaitForReboot
  <2>1. Goto("postcore") => run'.at \notin Preparing \cup {"major"}
    BY <1>g
  <2> QED BY <1>8, <1>f, <2>1 DEF WaitForReboot
<1>9. CASE Verify
  <2>1. Finish => run'.at = "save"
    BY <1>0, FinishStep
  <2> QED BY <1>9, <1>f, <2>1 DEF Verify
<1>10. CASE Save
  BY <1>10, IdleType DEF Save, Exit
<1> QED BY <1>1, <1>2, <1>3, <1>4, <1>5, <1>6, <1>7, <1>8, <1>9, <1>10

\* The same as InstallType, of the state a step reaches.
LEMMA InstallOf ==
  ASSUME TypeInv, NEW job_ \in Changing, NEW amount \in Amounts,
         guest' \in Install(job_, amount)
  PROVE  /\ guest'.catalog = guest.catalog
         /\ job_ = "packages" =>
              /\ guest'.core \in {guest.core, repo.core}
              /\ guest'.updater \in {guest.updater, repo.updater}
              /\ guest'.base = guest.base /\ guest'.kernel = guest.kernel
              /\ guest'.staged = guest.staged
              /\ amount = "all" => guest'.core = repo.core /\ guest'.updater = repo.updater
         /\ job_ = "sets" =>
              /\ guest'.core = guest.core /\ guest'.updater = guest.updater
              /\ guest'.staged = guest.staged
              /\ guest'.base \in {guest.base, stripPackageRevision(guest.updater)}
              /\ guest'.kernel \in {guest.kernel, stripPackageRevision(guest.updater)}
              /\ amount = "all" =>
                   /\ guest'.base = stripPackageRevision(guest.updater)
                   /\ guest'.kernel = stripPackageRevision(guest.updater)
         /\ job_ = "major" =>
              /\ guest'.core = guest.core /\ guest'.updater = guest.updater
              /\ guest'.base = guest.base /\ guest'.kernel = guest.kernel
              /\ guest'.staged \in {guest.staged, opts.target}
<1>1. guest \in Disks /\ repo \in Packages /\ opts.target \in 0..2
  BY NoneApart DEF TypeInv, TypeOK
<1> QED BY <1>1, InstallType

\* Every step of an invocation keeps VersionInv.
LEMMA VersionInvocation ==
  ASSUME TypeInv, JobInv, VersionInv, TypeInv',
         StartPrepare \/ StartExecute \/ Invocation \/ Killed
  PROVE  VersionInv'
<1>0. /\ run \in Memory /\ boot.id \in 1..MaxBoots /\ boot.up \in BOOLEAN /\ guest \in Disks
      /\ opts.target \in 0..2 /\ opts.dry \in BOOLEAN
      /\ repo \in Packages /\ dir.pre # None => dir.pre \in States
  BY NoneApart DEF TypeInv, TypeOK
<1>i. Exit => run'.at = "idle"
  BY IdleType DEF Exit
<1>f. ASSUME NEW watched \in BOOLEAN, Fail(watched)
      PROVE  run'.at = "save"
  BY <1>0, <1>f, FailStep
<1>g. ASSUME NEW at \in Steps, Goto(at)
      PROVE  run'.at = at /\ run'.read = run.read
  BY <1>0, <1>g, GotoStep
<1>1. CASE StartPrepare
  <2>1. /\ run'.at = "config" /\ run'.read.core = First(1)
        /\ run'.read.base = First(1) /\ run'.read.kernel = First(1)
    BY <1>1, StartStep, IdleType DEF StartPrepare, Steps, Preparing
  <2>2. AtLeast(First(1), First(1), First(1))
    BY OlderOrder, Versions DEF AtLeast
  <2> QED BY <1>1, <2>1, <2>2 DEF StartPrepare, VersionInv, Level, AtLeast, Major, HasPlan
<1>2. CASE \/ StartExecute \/ ListBefore \/ RestartWebGUI \/ CheckSets \/ ListAfter
           \/ ReadBootID \/ Shutdown \/ WaitForReboot \/ Verify \/ Save
  <2>1. /\ UNCHANGED <<repo, guest, boot, opts, dir>> /\ job' \in {job, "reboot"}
        /\ run' = run \/ run'.at \notin Preparing \cup {"major"}
    BY <1>2, ReadingStep
  <2> QED BY <2>1, VersionQuiet
<1>3. CASE Killed
  <2>1. run'.at \notin Preparing \cup {"major"} /\ UNCHANGED <<repo, guest, opts, dir>>
    BY <1>3, <1>i DEF Killed, Preparing
  <2>2. CASE job' \in {job, "reboot"}
    BY <2>1, <2>2, VersionQuiet
  <2>3. CASE job' = "major" /\ run.at = "major"
    <3>1. Major /\ guest.core.series = 1
      BY <2>3 DEF TypeInv, VersionInv
    <3> QED BY <2>1, <2>3, <3>1 DEF VersionInv, Level, AtLeast, Major, HasPlan
  <2>4. CASE job' \in {"packages", "sets"} /\ run.at \in Updating
    <3>1. ~Major
      BY <2>4 DEF TypeInv
    <3> QED BY <2>1, <2>4, <3>1 DEF VersionInv, Level, AtLeast, Major, HasPlan
  <2> QED BY <1>3, <2>2, <2>3, <2>4 DEF Killed, Updating
<1>4. CASE CaptureConfigXML
  <2>1. /\ run'.at \notin Preparing \cup {"major"}
           \/ (run'.at = "core" /\ run'.read = run.read /\ run.at \in Preparing)
    BY <1>4, <1>i, <1>g DEF CaptureConfigXML, Steps, Preparing
  <2> QED BY <1>4, <2>1 DEF CaptureConfigXML, VersionInv, Level, AtLeast, Major, HasPlan,
                            Preparing
<1>5. CASE CaptureFirmwareState
  <2>0. UNCHANGED <<repo, guest, boot, job, opts, phase, dir>> /\ run.at \in DOMAIN Captures
    BY <1>5, CaptureStep
  <2>1. CASE Captured
    <3>1. PICK field \in {"core", "base", "kernel"}, next \in Steps :
            /\ [field |-> field, next |-> next] = Captures[run.at]
            /\ run'.at = next
            /\ run'.read = [run.read EXCEPT ![field] = guest[field]]
      BY <2>1 DEF Captured
    <3>2. next # "major" /\ (next \in Preparing => run.at \in Preparing)
      BY <2>0, <3>1 DEF Captures, Preparing
    <3>3. run.at \in Preparing =>
            AtLeast(run'.read.core, run'.read.base, run'.read.kernel)
      <4>1. run.read \in States
        BY <1>0 DEF Memory
      <4>2. \A v \in Version : ~Older(v, v)
        BY OlderOrder
      <4> QED BY <3>1, <4>1, <4>2, Versions DEF VersionInv, AtLeast, States
    <3> QED BY <2>0, <3>1, <3>2, <3>3 DEF VersionInv, Level, AtLeast, Major, HasPlan
  <2>2. CASE Exit \/ Fail(FALSE)
    <3>1. run'.at \notin Preparing \cup {"major"}
      BY <2>2, <1>i, <1>f DEF Preparing
    <3> QED BY <2>0, <3>1, VersionQuiet
  <2> QED BY <1>5, CaptureStep, <2>1, <2>2
<1>6. CASE FinishPrepare
  <2>1. run'.at = "idle" /\ UNCHANGED <<repo, guest, boot, job, opts>> /\ ~Major
    BY <1>6, <1>i DEF FinishPrepare, TypeInv, Major, Preparing
  <2>2. AtLeast(run.read.core, run.read.base, run.read.kernel)
    BY <1>6 DEF FinishPrepare, VersionInv, Preparing
  <2>3. ~HasPlan /\ (dir' = dir \/ dir' = [pre |-> run.read, plan |-> None])
    BY <1>6 DEF FinishPrepare, TypeInv, Preparing
  <2>4. ~Major'
    BY <2>3 DEF Major, HasPlan
  <2>5. Level'
    BY <2>1, <2>2, <2>3 DEF VersionInv, Level, AtLeast
  <2> QED BY <2>1, <2>4, <2>5 DEF VersionInv, Preparing
<1>p. ASSUME NEW plan \in Plans, Planned(plan), run.at \in Planning, Level,
             UNCHANGED <<repo, guest, boot, job, opts, phase>>,
             plan.major => opts.target = 2
      PROVE  VersionInv'
  <2>1. /\ ~Major /\ ~HasPlan /\ job = "none" /\ guest.core.series = 1
        /\ guest.staged = 0
    BY <1>p, NoJob, FirstSeries DEF TypeInv, Major, VersionInv, Planning
  <2>2. /\ dir'.pre = dir.pre /\ dir'.plan \in {plan, dir.plan}
        /\ run'.at \notin Preparing
        /\ run'.at = "major" => plan.major
    <3>1. Finish => run'.at = "save"
      BY <1>0, FinishStep
    <3>2. \A at \in {"major", "before", "packages"} : Goto(at) => run'.at = at
      BY <1>g DEF Steps, Executing, Watched
    <3> QED BY <1>p, <1>f, <3>1, <3>2, PlannedStep DEF Preparing, TypeInv
  <2>3. Level'
    BY <1>p, <2>2 DEF Level, AtLeast
  <2>4. Major' => opts'.target = 2
    BY <1>p, <2>1, <2>2 DEF Major, HasPlan
  <2> QED BY <1>p, <2>1, <2>2, <2>3, <2>4 DEF VersionInv
<1>7. CASE ReadPre
  <2>0. Level /\ UNCHANGED <<repo, guest, boot, job, opts, phase>>
    BY <1>7 DEF ReadPre, VersionInv, TypeInv, Major, Planning
  <2>1. CASE isMajorUpgrade(opts.target, dir.pre.core) /\ Planned(majorPlan(opts.target))
    <3>1. majorPlan(opts.target) \in Plans
      BY <1>0, <2>1, PlanTypes DEF isMajorUpgrade
    <3>2. dir.pre # None
      BY <1>7 DEF ReadPre, TypeInv, TypeOK, Executing
    <3>3. opts.target = 2
      BY <1>0, <2>0, <2>1, <3>2, FirstSeries DEF isMajorUpgrade, releaseSeries
    <3> QED BY <1>7, <1>p, <2>0, <2>1, <3>1, <3>3 DEF ReadPre, Planning
  <2>2. CASE (Goto("refresh") \/ Fail(FALSE)) /\ UNCHANGED dir
    <3>1. run'.at \notin Preparing \cup {"major"}
      <4>1. Goto("refresh") => run'.at = "refresh"
        BY <1>g DEF Steps, Executing, Watched
      <4> QED BY <2>2, <1>f, <4>1 DEF Preparing
    <3> QED BY <2>0, <2>2, <3>1, VersionQuiet
  <2> QED BY <1>7, <2>1, <2>2 DEF ReadPre
<1>8. CASE RefreshCatalogue
  <2>1. run'.at \notin Preparing \cup {"major"} /\ UNCHANGED <<repo, boot, job, opts, phase, dir>>
    <3>1. Goto("probe") => run'.at = "probe"
      BY <1>g DEF Steps, Executing, Watched
    <3> QED BY <1>8, <3>1, <1>f DEF RefreshCatalogue, Preparing
  <2>2. CASE guest' = guest
    BY <2>1, <2>2, VersionQuiet
  <2>3. CASE guest' = [guest EXCEPT !.catalog = repo]
    <3>1. /\ guest'.core = guest.core /\ guest'.updater = guest.updater
          /\ guest'.base = guest.base /\ guest'.kernel = guest.kernel
          /\ guest'.staged = guest.staged /\ guest'.catalog = repo
      BY <1>0, <2>3 DEF Disks
    <3>2. ~Older(repo.core, repo.core) /\ repo.updater = repo.core
      BY Versions, OlderOrder
    <3> QED BY <2>1, <3>1, <3>2 DEF VersionInv, Level, AtLeast, Major, HasPlan
  <2> QED BY <1>8, <2>2, <2>3 DEF RefreshCatalogue
<1>9. CASE ProbeUpdatePlan
  <2>0. Level /\ UNCHANGED <<repo, guest, boot, job, opts, phase>>
    BY <1>9 DEF ProbeUpdatePlan, VersionInv, TypeInv, Major, Planning
  <2>1. ASSUME NEW always \in {FALSE, opts.always},
               Planned(updatePlan(dir.pre, guest.catalog, always))
        PROVE  VersionInv'
    <3>1. dir.pre \in States /\ guest.catalog \in Packages /\ always \in BOOLEAN
      BY <1>0, <1>9 DEF ProbeUpdatePlan, Disks, TypeInv, TypeOK, Executing, Watched
    <3>2. /\ updatePlan(dir.pre, guest.catalog, always) \in Plans
          /\ ~updatePlan(dir.pre, guest.catalog, always).major
      BY <3>1, PlanTypes
    <3> QED BY <1>9, <1>p, <2>0, <2>1, <3>2 DEF ProbeUpdatePlan, Planning
  <2>2. CASE Fail(TRUE) /\ UNCHANGED dir
    <3>1. run'.at \notin Preparing \cup {"major"}
      BY <2>2, <1>f DEF Preparing
    <3> QED BY <2>0, <2>2, <3>1, VersionQuiet
  <2> QED BY <1>9, <2>1, <2>2 DEF ProbeUpdatePlan
<1>c. ASSUME NEW job_ \in Changing, NEW result \in Outcomes(job_), Change(result)
      PROVE  /\ job' \in {job_, job}
             /\ \E amount \in Amounts : guest' \in Install(job_, amount)
  BY <1>0, <1>c, OutcomeType DEF Change
<1>10. CASE ApplyMajorUpgrade
  <2>1. PICK result \in Outcomes("major") :
          /\ Change(result)
          /\ IF outputFails(result.reply) THEN Fail(TRUE)
             ELSE run' = [run EXCEPT !.at = "bootid", !.reboot = TRUE,
                                     !.sets = First(opts.target)]
    BY <1>10 DEF ApplyMajorUpgrade
  <2>2. /\ job' \in {"major", job}
        /\ \E amount \in Amounts : guest' \in Install("major", amount)
    BY <2>1, <1>c DEF Changing
  <2>3. guest'.core = guest.core /\ guest'.staged \in {guest.staged, opts.target}
    <3>1. PICK amount \in Amounts : guest' \in Install("major", amount)
      BY <2>2
    <3> QED BY <3>1, InstallOf DEF Changing
  <2>4. run'.at \notin Preparing \cup {"major"}
    <3>1. First(opts.target) \in Version
      BY <1>0, <1>10, VersionTypes DEF ApplyMajorUpgrade, TypeInv
    <3>2. ~outputFails(result.reply) => run'.at = "bootid"
      <4> DEFINE sets == First(opts.target)
      <4>1. ~outputFails(result.reply) =>
              run' = [run EXCEPT !.at = "bootid", !.reboot = TRUE, !.sets = sets]
        BY <2>1
      <4>2. sets \in Version /\ "bootid" \in Steps
        BY <3>1 DEF Steps, Executing
      <4> HIDE DEF sets
      <4> QED BY <1>0, <4>1, <4>2, MemoryStep
    <3> QED BY <2>1, <1>f, <3>2 DEF Preparing
  <2>5. /\ Major /\ guest.core.series = 1 /\ ~opts.dry
        /\ UNCHANGED <<repo, boot, opts, phase, dir>>
    BY <1>10 DEF ApplyMajorUpgrade, TypeInv, VersionInv, Past
  <2> QED BY <2>2, <2>3, <2>4, <2>5 DEF VersionInv, Major, HasPlan
\* Installing packages or sets.
<1>u. ASSUME NEW job_ \in {"packages", "sets"}, run.at \in Updating,
             run'.at \notin Preparing \cup {"major"}, job' \in {job_, job},
             \E amount \in Amounts : guest' \in Install(job_, amount),
             UNCHANGED <<repo, boot, opts, phase, dir>>
      PROVE  VersionInv'
  <2>1. /\ guest'.catalog = guest.catalog
        /\ guest'.core \in {guest.core, repo.core}
        /\ guest'.updater \in {guest.updater, repo.core}
        /\ guest'.base \in {guest.base, stripPackageRevision(guest'.updater)}
        /\ guest'.kernel \in {guest.kernel, stripPackageRevision(guest'.updater)}
        /\ guest'.staged = guest.staged
    <3>1. job_ \in Changing
      BY DEF Changing
    <3>2. PICK amount \in Amounts : guest' \in Install(job_, amount)
      BY <1>u
    <3>3. /\ guest'.catalog = guest.catalog /\ guest'.staged = guest.staged
          /\ job_ = "packages" =>
               /\ guest'.core \in {guest.core, repo.core}
               /\ guest'.updater \in {guest.updater, repo.updater}
               /\ guest'.base = guest.base /\ guest'.kernel = guest.kernel
          /\ job_ = "sets" =>
               /\ guest'.core = guest.core /\ guest'.updater = guest.updater
               /\ guest'.base \in {guest.base, stripPackageRevision(guest.updater)}
               /\ guest'.kernel \in {guest.kernel, stripPackageRevision(guest.updater)}
      BY <1>u, <3>1, <3>2, InstallOf
    <3>4. repo.updater = repo.core
      BY DEF TypeInv
    <3> QED BY <1>u, <3>3, <3>4
  <2>2. ~Major
    BY <1>u DEF TypeInv
  <2>3. Level'
    BY <1>u, <2>1, <2>2, Grows DEF VersionInv
  <2> QED BY <1>u, <2>1, <2>2, <2>3 DEF VersionInv, Major, HasPlan
<1>12. CASE UpdatePackages
  <2>1. PICK result \in Outcomes("packages") :
          /\ Change(result)
          /\ run' = [run EXCEPT !.at = "webgui", !.broke = outputFails(result.reply)]
    BY <1>12 DEF UpdatePackages
  <2>2. /\ job' \in {"packages", job}
        /\ \E amount \in Amounts : guest' \in Install("packages", amount)
    BY <2>1, <1>c DEF Changing
  <2>3. run'.at = "webgui"
    BY <1>0, <2>1, MemoryStep DEF outputFails, TypeInv, TypeOK
  <2>4. UNCHANGED <<repo, boot, opts, phase, dir>> /\ run.at \in Updating
    BY <1>12 DEF UpdatePackages, Updating
  <2> QED BY <1>u, <2>2, <2>3, <2>4 DEF Preparing
<1>15. CASE InstallSets
  <2>0. UNCHANGED <<repo, boot, opts, phase, dir>> /\ run.at \in Updating
    BY <1>15 DEF InstallSets, Updating
  <2>1. CASE Fail(TRUE) /\ UNCHANGED <<guest, job>>
    <3>1. run'.at \notin Preparing \cup {"major"}
      BY <2>1, <1>f DEF Preparing
    <3> QED BY <2>0, <2>1, <3>1, VersionQuiet
  <2>2. ASSUME NEW result \in Outcomes("sets"), Change(result),
               IF outputFails(result.reply) THEN Fail(TRUE)
               ELSE run' = [run EXCEPT !.at = AfterSets("bootid"), !.reboot = TRUE,
                                       !.sets = stripPackageRevision(guest.updater)]
        PROVE  VersionInv'
    <3>1. /\ job' \in {"sets", job}
          /\ \E amount \in Amounts : guest' \in Install("sets", amount)
      BY <2>2, <1>c DEF Changing
    <3>2. /\ stripPackageRevision(guest.updater) \in Version
          /\ AfterSets("bootid") \in {"after", "bootid"}
      BY <1>0, VersionTypes DEF Disks, AfterSets
    <3>3. ~outputFails(result.reply) => run'.at \in {"after", "bootid"}
      <4> DEFINE sets == stripPackageRevision(guest.updater)
                 at == AfterSets("bootid")
      <4>1. ~outputFails(result.reply) =>
              run' = [run EXCEPT !.at = at, !.reboot = TRUE, !.sets = sets]
        BY <2>2
      <4>2. sets \in Version /\ at \in {"after", "bootid"} /\ at \in Steps
        BY <3>2 DEF Steps, Executing, Watched
      <4> HIDE DEF sets, at
      <4> QED BY <1>0, <4>1, <4>2, MemoryStep
    <3>4. run'.at \notin Preparing \cup {"major"}
      BY <2>2, <1>f, <3>3 DEF Preparing
    <3> QED BY <1>u, <2>0, <3>1, <3>4
  <2> QED BY <1>15, <2>1, <2>2 DEF InstallSets
<1> QED BY <1>1, <1>2, <1>3, <1>4, <1>5, <1>6, <1>7, <1>8, <1>9, <1>10, <1>12, <1>15
        DEF Invocation

\* Every step keeps VersionInv.
LEMMA VersionNext ==
  TypeInv /\ JobInv /\ VersionInv /\ TypeInv' /\ [Next]_vars => VersionInv'
<1> SUFFICES ASSUME TypeInv, JobInv, VersionInv, TypeInv', [Next]_vars PROVE VersionInv'
  OBVIOUS
<1>1. CASE World
  BY <1>1, VersionWorld
<1>2. CASE StartPrepare \/ StartExecute \/ Invocation \/ Killed
  BY <1>2, VersionInvocation
<1>3. CASE UNCHANGED vars
  BY <1>3, VersionQuiet DEF vars, host
<1> QED BY <1>1, <1>2, <1>3 DEF Next

-----------------------------------------------------------------------------
(* What a success has established                                          *)

Unchanged == {"pre", "refresh", "probe", "before", "packages", "webgui", "check", "sets"}

\* A step that touches neither the disk nor the plan, and goes on from what was
\* established before it.
LEMMA LandedQuiet ==
  ASSUME LandedInv, UNCHANGED <<repo, guest, opts, dir>>,
         Updated' => (Updated /\ run'.sets = run.sets) \/ Major,
         run'.at \in Unchanged => run'.sets = None,
         run'.at \in Posts \ {"postcore"} => run'.at = run.at /\ run'.read = run.read,
         Success' => Success
  PROVE  LandedInv'
<1>1. /\ (HasPlan <=> HasPlan') /\ (Major <=> Major') /\ (UpdatePlan <=> UpdatePlan')
      /\ (Landed <=> Landed')
  BY DEF HasPlan, Major, UpdatePlan, Landed
<1>2. UNCHANGED <<guest, opts, dir>>
  OBVIOUS
<1> HIDE DEF HasPlan, Major, UpdatePlan, Landed, Success, Updated
<1> QED BY <1>1, <1>2 DEF LandedInv, Unchanged, Posts

\* Nothing has been updated yet, and no success recorded.
LEMMA LandedEarly ==
  ASSUME TypeInv', ~HasPlan' \/ Major' \/ UpdatePlan',
         run'.at \in Unchanged => run'.sets = None,
         ~Updated' \/ Major', run'.at \notin Posts, ~Success'
  PROVE  LandedInv'
BY DEF LandedInv, Unchanged, Posts

\* Where nothing has been updated: outside these steps of execute.
LEMMA NotUpdated ==
  /\ run.at \notin Updating \cup Posts \cup {"bootid", "shutdown", "wait"} => ~Updated
  /\ Failing => ~Updated /\ run.at \notin Posts
  /\ phase # "executed" /\ run.at # "save" => ~Success
  /\ phase # "executed" /\ run.out # "executed" => ~Success
BY DEF Updated, Updating, Posts, Success, Succeeding, Failing

\* Nothing has been updated at the start.
LEMMA LandedInit == Init => LandedInv
<1> SUFFICES ASSUME Init PROVE LandedInv
  OBVIOUS
<1>1. run.at = "idle" /\ ~HasPlan /\ phase = "empty"
  BY IdleType DEF Init, HasPlan
<1> QED BY <1>1 DEF LandedInv, Updated, Posts, Success, Succeeding

\* The world keeps LandedInv.
LEMMA LandedWorld ==
  ASSUME TypeInv, JobInv, VersionInv, LandedInv, TypeInv', World
  PROVE  LandedInv'
<1>1. CASE Publish
  <2>1. UNCHANGED <<guest, boot, job, opts, phase, dir, run>>
    BY <1>1 DEF Publish, host
  <2>2. HasPlan /\ ~Major => UpdatePlan'
    <3>1. SUFFICES ASSUME HasPlan, ~Major PROVE UpdatePlan'
      OBVIOUS
    <3>2. ~Older(repo'.core, repo.core)
      BY <1>1, PublishGrows
    <3>3. repo'.core \in Version /\ repo.core \in Version /\ dir.plan.coreAvailable \in Version
      BY <3>1, Versions DEF TypeInv, TypeOK, Packages
    <3>4. ~Older(repo.core, dir.plan.coreAvailable)
      BY <3>1 DEF LandedInv, UpdatePlan
    <3>5. ~Older(repo'.core, dir.plan.coreAvailable)
      BY <3>2, <3>3, <3>4, OlderOrder
    <3> QED BY <2>1, <3>1, <3>5 DEF LandedInv, UpdatePlan
  <2>3. /\ (HasPlan <=> HasPlan') /\ (Major <=> Major') /\ (Landed <=> Landed')
        /\ (Updated <=> Updated') /\ (Success <=> Success')
    BY <2>1 DEF HasPlan, Major, Landed, Updated, Success, Succeeding
  <2> HIDE DEF HasPlan, Major, UpdatePlan, Landed, Success, Updated
  <2> QED BY <2>1, <2>2, <2>3 DEF LandedInv
<1>2. CASE GoesDown \/ WatchdogExpires \/ RebootDeadline
  <2>1. /\ run'.at = run.at /\ run'.read = run.read /\ run'.sets = run.sets
        /\ run'.broke = run.broke /\ run'.out = run.out
        /\ UNCHANGED <<repo, guest, opts, phase, dir>>
    BY <1>2 DEF GoesDown, WatchdogExpires, RebootDeadline, host, TypeInv, TypeOK, Memory
  <2>2. (Updated <=> Updated') /\ (Success <=> Success')
    BY <2>1 DEF Updated, Success, Succeeding
  <2> QED BY <2>1, <2>2, LandedQuiet DEF LandedInv, Unchanged
<1>3. CASE Boots
  <2>1. BootStep /\ UNCHANGED <<repo, job, opts, phase, dir, run>>
    BY <1>3, BootsStep DEF Boots, host
  <2>2. (Updated <=> Updated') /\ (Success <=> Success')
    BY <2>1 DEF Updated, Success, Succeeding
  <2>3. CASE guest' = guest
    BY <2>1, <2>2, <2>3, LandedQuiet DEF LandedInv, Unchanged
  <2>4. CASE guest.staged # 0 /\ guest'.core = First(guest.staged)
    <3>1. /\ Major /\ guest.staged = 2 /\ opts.target = 2 /\ guest.core.series = 1
      BY <2>4 DEF VersionInv
    <3>2. guest'.core.series = opts.target
      BY <2>4, <3>1, VersionTypes
    <3>3. ~Success
      BY <3>1 DEF LandedInv, Landed, Major
    <3>4. Major'
      BY <2>1, <3>1 DEF Major, HasPlan
    <3> QED BY <2>1, <2>2, <3>2, <3>3, <3>4 DEF LandedInv
  <2> QED BY <2>1, <2>3, <2>4 DEF BootStep
<1>4. CASE JobEnds
  <2>1. /\ UNCHANGED <<repo, boot, opts, phase, dir, run>> /\ job \in Changing
    BY <1>4 DEF JobEnds, host, Changing
  <2>2. /\ run.at = "idle" \/ Failing
        /\ phase # "executed"
    BY <2>1 DEF JobInv
  <2>3. ~Updated /\ run.at \notin Posts /\ ~Success
    BY <2>2 DEF Failing, Updated, Posts, Success, Succeeding
  <2>4. ~Updated' /\ run'.at \notin Posts /\ ~Success'
    BY <2>1, <2>3 DEF Updated, Success, Succeeding
  <2>5. ~HasPlan' \/ Major' \/ UpdatePlan'
    BY <2>1 DEF LandedInv, HasPlan, Major, UpdatePlan
  <2> QED BY <2>1, <2>4, <2>5, LandedEarly DEF LandedInv, Unchanged
<1>5. CASE OperatorUpdates
  <2>1. /\ UNCHANGED <<repo, job, opts, phase, dir, run>>
        /\ phase \in {"empty", "prepared"}
    BY <1>5 DEF OperatorUpdates, host
  <2>2. run.at \notin Executing /\ ~HasPlan
    BY <2>1 DEF TypeInv
  <2>3. ~Updated' /\ run'.at \notin Posts /\ ~Success' /\ ~HasPlan'
    BY <2>1, <2>2 DEF Executing, Watched, Updated, Posts, Success, Succeeding, HasPlan
  <2> QED BY <2>1, <2>3, LandedEarly DEF LandedInv, Unchanged
<1> QED BY <1>1, <1>2, <1>3, <1>4, <1>5 DEF World

\* What the plan of an update says is what it was made from.
LEMMA PlanMeans ==
  ASSUME TypeInv, Level, dir.pre # None, NEW always \in {FALSE, opts.always},
         dir'.pre = dir.pre, dir'.plan = updatePlan(dir.pre, guest.catalog, always),
         UNCHANGED <<repo, opts>>
  PROVE  UpdatePlan'
<1>1. /\ dir'.plan.coreAvailable = guest.catalog.core
      /\ dir'.plan.setsAvailable = stripPackageRevision(guest.catalog.core)
      /\ dir'.plan.corePending = Older(dir.pre.core, guest.catalog.core)
      /\ dir'.plan.basePending = (dir.pre.base # stripPackageRevision(guest.catalog.core))
      /\ dir'.plan.kernelPending = (dir.pre.kernel # stripPackageRevision(guest.catalog.core))
      /\ dir'.plan.alwaysReboot = always
  BY DEF updatePlan, Level
<1> QED BY <1>1 DEF UpdatePlan, Level

\* What verifyFirmware has read and compared is what is installed.
LEMMA VerifiedMeansLanded ==
  ASSUME TypeInv, JobInv, VersionInv, LandedInv, run.at = "verify",
         Verified(dir.plan, run.sets, run.read)
  PROVE  Landed
<1>0. HasPlan /\ Updated
  BY DEF TypeInv, Past, Posts, Updated
<1>1. CASE Major
  <2>1. dir.plan = majorPlan(opts.target) /\ opts.target \in 1..2 /\ dir.plan.major
    BY <1>1, Versions DEF TypeInv, Major
  <2>2. releaseSeries(dir.plan.coreAvailable) = opts.target
    BY <2>1, VersionTypes DEF majorPlan, releaseSeries
  <2>3. run.read.core.series = opts.target
    BY <2>1, <2>2 DEF Verified, releaseSeries
  <2> QED BY <1>1, <2>1, <2>3 DEF LandedInv, Posts, Landed
<1>2. CASE ~Major
  <2> DEFINE plan == dir.plan
             want == IF run.sets # None THEN run.sets ELSE plan.setsAvailable
  <2>0. ~plan.major /\ UpdatePlan
    BY <1>0, <1>2 DEF Major, LandedInv
  <2>1. /\ ~Older(guest.core, plan.coreAvailable)
        /\ ~Older(guest.updater, plan.coreAvailable)
        /\ run.sets # None => /\ run.sets = stripPackageRevision(guest.updater)
                              /\ guest.base = run.sets /\ guest.kernel = run.sets
        /\ run.read.base = guest.base /\ run.read.kernel = guest.kernel
    BY <1>0, <1>2 DEF LandedInv, Posts
  <2>2. /\ (plan.basePending \/ run.sets # None) => run.read.base = want
        /\ (plan.kernelPending \/ run.sets # None) => run.read.kernel = want
    BY <2>0 DEF Verified
  <2>3. /\ plan.setsAvailable = stripPackageRevision(plan.coreAvailable)
        /\ plan.basePending   = (dir.pre.base # plan.setsAvailable)
        /\ plan.kernelPending = (dir.pre.kernel # plan.setsAvailable)
    BY <2>0 DEF UpdatePlan
  <2>4. /\ plan.coreAvailable \in Version /\ plan.setsAvailable \in Version
        /\ guest.updater \in Version
    BY <1>0, Versions
  <2>5. ~Older(plan.setsAvailable, plan.setsAvailable)
    BY <2>4, OlderOrder
  <2>6. ~Older(stripPackageRevision(guest.updater), plan.setsAvailable)
    BY <2>1, <2>3, <2>4, OlderOrder
  <2>7. ~Older(guest.base, dir.pre.base) /\ ~Older(guest.kernel, dir.pre.kernel)
    BY <1>2 DEF VersionInv, Level, AtLeast, TypeInv, TypeOK, Executing
  <2>8. ~Older(guest.base, plan.setsAvailable)
    BY <2>1, <2>2, <2>3, <2>5, <2>6, <2>7
  <2>9. ~Older(guest.kernel, plan.setsAvailable)
    BY <2>1, <2>2, <2>3, <2>5, <2>6, <2>7
  <2> QED BY <2>0, <2>1, <2>8, <2>9 DEF Landed
<1> QED BY <1>1, <1>2

\* Every step of an invocation keeps LandedInv.
LEMMA LandedInvocation ==
  ASSUME TypeInv, JobInv, VersionInv, LandedInv, TypeInv',
         StartPrepare \/ StartExecute \/ Invocation \/ Killed
  PROVE  LandedInv'
<1>0. /\ run \in Memory /\ boot.id \in 1..MaxBoots /\ boot.up \in BOOLEAN
      /\ guest \in Disks /\ opts.target \in 0..2 /\ opts.dry \in BOOLEAN
      /\ repo \in Packages /\ dir.pre # None => dir.pre \in States
  BY NoneApart DEF TypeInv, TypeOK
<1>i. Exit => run'.at = "idle"
  BY IdleType DEF Exit
<1>g. ASSUME NEW at \in Steps, Goto(at)
      PROVE  /\ run'.at = at /\ run'.read = run.read /\ run'.sets = run.sets
             /\ run'.broke = run.broke /\ run'.out = run.out
  BY <1>0, <1>g, GotoStep
\* What fails has established nothing.
<1>F. ASSUME NEW watched \in BOOLEAN, Fail(watched), UNCHANGED <<repo, dir, opts, phase>>,
             run.at \in Executing
      PROVE  LandedInv'
  <2>1. run'.at = "save" /\ run'.out \in {"execute_failed", "execute_hung"}
    BY <1>0, <1>F, FailStep
  <2>2. phase' = "executing"
    BY <1>F DEF TypeInv
  <2>3. ~Updated' /\ run'.at \notin Posts /\ ~Success'
    BY <2>1, <2>2 DEF Updated, Posts, Success, Succeeding
  <2>4. ~HasPlan' \/ Major' \/ UpdatePlan'
    BY <1>F DEF LandedInv, HasPlan, Major, UpdatePlan
  <2> QED BY <2>1, <2>3, <2>4, LandedEarly DEF Unchanged
\* Outside execute there is nothing to keep.
<1>P. ASSUME phase' \in {"empty", "prepared"}, run'.at \notin Executing, ~HasPlan'
      PROVE  LandedInv'
  <2>1. ~Updated' /\ run'.at \notin Posts /\ ~Success'
    BY <1>P DEF Updated, Posts, Success, Succeeding, Executing, Watched
  <2> QED BY <1>P, <2>1, LandedEarly DEF Unchanged, Executing, Watched
\* Going on within an update.
<1>q. ASSUME NEW at \in Steps, run'.at = at, run'.sets = run.sets, run'.read = run.read,
             at \notin Posts \ {"postcore"}, at # "save",
             UNCHANGED <<repo, guest, opts, phase, dir>>,
             Updated' => Updated \/ Major,
             at \in Unchanged => run.sets = None
      PROVE  LandedInv'
  <2>1. Success' => Success
    BY <1>q DEF Success, Succeeding
  <2> QED BY <1>q, <2>1, LandedQuiet
<1>1. CASE StartPrepare
  <2>1. run'.at = "config"
    BY <1>1, StartStep DEF StartPrepare, Steps, Preparing
  <2> QED BY <1>1, <1>P, <2>1 DEF StartPrepare, TypeInv, HasPlan, Executing, Watched
<1>2. CASE StartExecute
  <2>1. CASE UNCHANGED <<phase, run>>
    <3>1. UNCHANGED <<repo, guest, boot, job, opts, phase, dir, run>>
      BY <1>2, <2>1 DEF StartExecute
    <3>2. (Updated <=> Updated') /\ (Success <=> Success')
      BY <3>1 DEF Updated, Success, Succeeding
    <3> QED BY <3>1, <3>2, LandedQuiet DEF LandedInv, Unchanged
  <2>2. CASE phase' = "executing" /\ Start("pre")
    <3>1. run'.at = "pre" /\ run'.sets = None
      BY <2>2, StartStep DEF Steps, Executing
    <3>2. ~Updated' /\ run'.at \notin Posts /\ ~Success' /\ ~HasPlan'
      BY <1>2, <2>2, <3>1
         DEF StartExecute, Updated, Posts, Success, Succeeding, TypeInv, HasPlan
    <3> QED BY <3>1, <3>2, LandedEarly
  <2> QED BY <1>2, <2>1, <2>2 DEF StartExecute
<1>3. CASE Killed \/ Save
  <2>1. run'.at = "idle" /\ UNCHANGED <<repo, guest, boot, opts, dir>>
    BY <1>3, <1>i DEF Killed, Save
  <2>2. Success' => Success
    BY <1>3, <2>1 DEF Killed, Save, Success, Succeeding
  <2>3. ~Updated' /\ run'.at \notin Unchanged \cup Posts
    BY <2>1 DEF Updated, Unchanged, Posts
  <2> QED BY <2>1, <2>2, <2>3, LandedQuiet
<1>4. CASE CaptureConfigXML
  <2>1. run'.at \in {"core", "idle"}
    BY <1>4, <1>i, <1>g DEF CaptureConfigXML, Steps, Preparing
  <2> QED BY <1>4, <2>1, <1>P
          DEF CaptureConfigXML, TypeInv, HasPlan, Preparing, Executing, Watched
<1>5. CASE CaptureFirmwareState
  <2>0. UNCHANGED <<repo, guest, boot, job, opts, phase, dir>> /\ run.at \in DOMAIN Captures
    BY <1>5, CaptureStep
  <2>1. CASE Captured
    <3>1. PICK field \in {"core", "base", "kernel"}, next \in Steps :
            /\ [field |-> field, next |-> next] = Captures[run.at]
            /\ run'.at = next /\ run'.sets = run.sets
            /\ run'.read = [run.read EXCEPT ![field] = guest[field]]
      BY <2>1 DEF Captured
    <3>2. run.read \in States
      BY <1>0 DEF Memory
    <3>3. CASE run.at \in Preparing
      <4>1. next \in Preparing
        BY <2>0, <3>1, <3>3 DEF Captures, Preparing
      <4> QED BY <2>0, <3>1, <3>3, <4>1, <1>P
              DEF TypeInv, HasPlan, Preparing, Executing, Watched
    <3>4. CASE run.at \in Posts
      <4>1. /\ run.at = "postcore" => field = "core" /\ next = "postbase"
            /\ run.at = "postbase" => field = "base" /\ next = "postkernel"
            /\ run.at = "postkernel" => field = "kernel" /\ next = "verify"
            /\ run.at # "verify"
        BY <2>0, <3>1, <3>4 DEF Captures, Posts
      <4>2. /\ run'.at = "postbase" => run'.read.core = guest.core
            /\ run'.at \in {"postkernel", "verify"} => run'.read.core = run.read.core
            /\ run'.at = "postkernel" => run'.read.base = guest.base
            /\ run'.at = "verify" => run'.read.base = run.read.base
            /\ run'.at = "verify" => run'.read.kernel = guest.kernel
        BY <3>1, <3>2, <3>4, <4>1 DEF States, Posts
      <4>3. Updated /\ Updated' /\ ~Success' /\ phase = "executing"
        BY <2>0, <3>1, <3>4, <4>1
           DEF Updated, Posts, Success, Succeeding, TypeInv, Executing
      <4>4. (HasPlan <=> HasPlan') /\ (Major <=> Major') /\ (UpdatePlan <=> UpdatePlan')
        BY <2>0 DEF HasPlan, Major, UpdatePlan
      <4> HIDE DEF HasPlan, Major, UpdatePlan, Landed, Success, Updated
      <4> QED BY <2>0, <3>1, <3>4, <4>1, <4>2, <4>3, <4>4 DEF LandedInv, Posts
    <3> QED BY <2>0, <3>3, <3>4 DEF Captures, Preparing, Posts
  <2>2. CASE run.at \in Preparing /\ Exit
    BY <2>0, <2>2, <1>i, <1>P DEF TypeInv, HasPlan, Executing, Watched
  <2>3. CASE run.at \in Posts /\ Fail(FALSE)
    BY <2>0, <2>3, <1>F DEF Posts, Executing
  <2> QED BY <1>5, CaptureStep, <2>1, <2>2, <2>3
<1>6. CASE FinishPrepare
  <2>1. run'.at = "idle" /\ phase \in {"empty", "prepared"} /\ ~HasPlan
    BY <1>6, <1>i DEF FinishPrepare, TypeInv, Preparing
  <2>2. phase' \in {"empty", "prepared"} /\ ~HasPlan'
    BY <1>6, <2>1 DEF FinishPrepare, HasPlan
  <2> QED BY <2>1, <2>2, <1>P DEF Executing, Watched
<1>p. ASSUME NEW plan \in Plans, Planned(plan), run.at \in Planning,
             UNCHANGED <<repo, guest, boot, job, opts, phase>>,
             dir'.plan = plan /\ dir'.pre = dir.pre => Major' \/ UpdatePlan'
      PROVE  LandedInv'
  <2>1. run.sets = None /\ ~HasPlan /\ phase = "executing"
    BY <1>p DEF LandedInv, TypeInv, Planning, Executing, Watched
  <2>2. CASE dir' = dir /\ Fail(FALSE)
    BY <1>p, <2>2, <1>F DEF Planning, Executing, Watched
  <2>3. CASE dir'.plan = plan /\ dir'.pre = dir.pre /\ opts.dry /\ Finish
    <3>1. run'.at = "save"
      BY <1>0, <2>3, FinishStep
    <3>2. ~Updated' /\ run'.at \notin Posts /\ ~Success'
      BY <1>p, <2>3, <3>1 DEF Updated, Posts, Success
    <3> QED BY <1>p, <2>3, <3>1, <3>2, LandedEarly DEF Unchanged
  <2>4. ASSUME NEW at \in {"major", "before", "packages"}, Goto(at),
               dir'.plan = plan, dir'.pre = dir.pre
        PROVE  LandedInv'
    <3>1. run'.at = at /\ run'.sets = run.sets
      BY <2>4, <1>g DEF Steps, Executing, Watched
    <3>2. ~Updated' /\ run'.at \notin Posts /\ ~Success'
      BY <1>p, <2>1, <3>1 DEF Updated, Posts, Success, Succeeding
    <3> QED BY <1>p, <2>1, <2>4, <3>1, <3>2, LandedEarly DEF Unchanged
  <2>5. (IF plan.major THEN "major" ELSE IF plan.alwaysReboot THEN "before" ELSE "packages")
          \in {"major", "before", "packages"}
    OBVIOUS
  <2> QED BY <1>p, PlannedStep, <2>2, <2>3, <2>4, <2>5 DEF TypeInv
<1>7. CASE ReadPre
  <2>0. Level /\ UNCHANGED <<repo, guest, boot, job, opts, phase>> /\ ~HasPlan /\ run.sets = None
    BY <1>7 DEF ReadPre, VersionInv, TypeInv, LandedInv, Major, Planning
  <2>1. CASE isMajorUpgrade(opts.target, dir.pre.core) /\ Planned(majorPlan(opts.target))
    <3>1. majorPlan(opts.target) \in Plans /\ majorPlan(opts.target).major
      BY <1>0, <2>1, PlanTypes DEF isMajorUpgrade
    <3>2. dir'.plan = majorPlan(opts.target) => Major'
      BY <3>1, NoneAssumption DEF Major, HasPlan
    <3> QED BY <1>7, <1>p, <2>0, <2>1, <3>1, <3>2 DEF ReadPre, Planning
  <2>2. CASE Goto("refresh") /\ UNCHANGED dir
    <3>1. run'.at = "refresh" /\ run'.read = run.read /\ run'.sets = run.sets
      BY <2>2, <1>g DEF Steps, Executing, Watched
    <3>2. ~Updated'
      BY <3>1 DEF Updated, Posts
    <3> QED BY <2>0, <2>2, <3>1, <3>2, <1>q DEF Steps, Executing, Watched, Posts
  <2>3. CASE Fail(FALSE) /\ UNCHANGED dir
    BY <1>7, <2>0, <2>3, <1>F DEF ReadPre, Executing
  <2> QED BY <1>7, <2>1, <2>2, <2>3 DEF ReadPre
<1>8. CASE RefreshCatalogue
  <2>0. UNCHANGED <<repo, boot, job, opts, phase, dir>> /\ ~HasPlan /\ run.sets = None
    BY <1>8 DEF RefreshCatalogue, TypeInv, LandedInv, Planning
  <2>1. CASE Goto("probe")
    <3>1. run'.at = "probe" /\ run'.sets = run.sets
      BY <2>1, <1>g DEF Steps, Executing, Watched
    <3>2. ~Updated' /\ run'.at \notin Posts /\ ~HasPlan'
      BY <2>0, <3>1 DEF Updated, Posts, HasPlan
    <3>3. ~Success'
      BY <1>8, <2>0, <3>1 DEF RefreshCatalogue, Success, Succeeding, TypeInv, Executing, Watched
    <3> QED BY <2>0, <3>1, <3>2, <3>3, LandedEarly
  <2>2. CASE Fail(TRUE)
    BY <1>8, <2>0, <2>2, <1>F DEF RefreshCatalogue, Executing, Watched
  <2> QED BY <1>8, <2>1, <2>2 DEF RefreshCatalogue
<1>9. CASE ProbeUpdatePlan
  <2>0. Level /\ UNCHANGED <<repo, guest, boot, job, opts, phase>>
    BY <1>9 DEF ProbeUpdatePlan, VersionInv, TypeInv, Major, Planning
  <2>1. ASSUME NEW always \in {FALSE, opts.always},
               Planned(updatePlan(dir.pre, guest.catalog, always))
        PROVE  LandedInv'
    <3>1. /\ dir.pre \in States /\ guest.catalog \in Packages /\ always \in BOOLEAN
          /\ dir.pre # None
      BY <1>0, <1>9 DEF ProbeUpdatePlan, Disks, TypeInv, TypeOK, Executing, Watched
    <3>2. updatePlan(dir.pre, guest.catalog, always) \in Plans
      BY <3>1, PlanTypes
    <3>3. dir'.plan = updatePlan(dir.pre, guest.catalog, always) /\ dir'.pre = dir.pre
            => UpdatePlan'
      BY <2>0, <3>1, PlanMeans
    <3> QED BY <1>9, <1>p, <2>0, <2>1, <3>2, <3>3 DEF ProbeUpdatePlan, Planning
  <2>2. CASE Fail(TRUE) /\ UNCHANGED dir
    BY <1>9, <2>0, <2>2, <1>F DEF ProbeUpdatePlan, Executing, Watched
  <2> QED BY <1>9, <2>1, <2>2 DEF ProbeUpdatePlan
<1>10. CASE ApplyMajorUpgrade
  <2>1. PICK result \in Outcomes("major") :
          IF outputFails(result.reply) THEN Fail(TRUE)
          ELSE run' = [run EXCEPT !.at = "bootid", !.reboot = TRUE,
                                  !.sets = First(opts.target)]
    BY <1>10 DEF ApplyMajorUpgrade
  <2>2. UNCHANGED <<repo, boot, opts, phase, dir>> /\ Major /\ phase = "executing"
    BY <1>10 DEF ApplyMajorUpgrade, TypeInv, Executing, Watched
  <2>3. CASE outputFails(result.reply)
    BY <1>10, <2>1, <2>2, <2>3, <1>F DEF ApplyMajorUpgrade, Executing, Watched
  <2>4. CASE ~outputFails(result.reply)
    <3> DEFINE sets == First(opts.target)
    <3>1. sets \in Version /\ "bootid" \in Steps
      BY <1>0, <2>2, VersionTypes DEF TypeInv, Steps, Executing
    <3>2. run' = [run EXCEPT !.at = "bootid", !.reboot = TRUE, !.sets = sets]
      BY <2>1, <2>4
    <3> HIDE DEF sets
    <3>3. run'.at = "bootid"
      BY <1>0, <3>1, <3>2, MemoryStep
    <3>4. run'.at \notin Posts /\ ~Success' /\ Major'
      BY <2>2, <3>3 DEF Posts, Success, Succeeding, Major, HasPlan
    <3> QED BY <3>3, <3>4, LandedEarly DEF Unchanged
  <2> QED BY <2>3, <2>4
<1>11. CASE ListBefore
  <2>0. /\ UNCHANGED <<repo, guest, boot, job, opts, phase, dir>> /\ run.sets = None
        /\ phase = "executing"
    BY <1>11 DEF ListBefore, LandedInv, TypeInv, Executing, Watched
  <2>1. CASE Fail(TRUE)
    BY <1>11, <2>0, <2>1, <1>F DEF ListBefore, Executing, Watched
  <2>2. CASE run' = [run EXCEPT !.at = "packages", !.listing = Listing]
    <3>1. Listing \in Packages
      BY <1>0 DEF Listing, Packages, Disks
    <3>2. run'.at = "packages" /\ run'.sets = run.sets
      BY <1>0, <2>2, <3>1, MemoryStep
    <3>3. ~Updated' /\ run'.at \notin Posts /\ ~Success'
      BY <2>0, <3>2 DEF Updated, Posts, Success, Succeeding
    <3>4. ~HasPlan' \/ Major' \/ UpdatePlan'
      BY <2>0 DEF LandedInv, HasPlan, Major, UpdatePlan
    <3> QED BY <2>0, <3>2, <3>3, <3>4, LandedEarly
  <2> QED BY <1>11, <2>1, <2>2 DEF ListBefore
<1>12. CASE UpdatePackages
  <2>1. PICK result \in Outcomes("packages") :
          /\ Change(result)
          /\ run' = [run EXCEPT !.at = "webgui", !.broke = outputFails(result.reply)]
    BY <1>12 DEF UpdatePackages
  <2>2. /\ UNCHANGED <<repo, boot, opts, phase, dir>> /\ run.at \in Updating
        /\ run.sets = None /\ phase = "executing" /\ HasPlan /\ ~Major
    BY <1>12 DEF UpdatePackages, Updating, Past, LandedInv, TypeInv, Executing, Watched
  <2>3. /\ run'.at = "webgui" /\ run'.sets = run.sets
        /\ run'.broke = outputFails(result.reply)
    BY <1>0, <2>1, MemoryStep DEF outputFails
  <2>4. UpdatePlan /\ UpdatePlan' /\ run'.at \notin Posts /\ ~Success' /\ HasPlan' /\ ~Major'
    BY <2>2, <2>3 DEF LandedInv, UpdatePlan, Posts, Success, Succeeding, HasPlan, Major
  <2>5. CASE outputFails(result.reply)
    <3>1. ~Updated'
      BY <2>3, <2>5 DEF Updated, Posts
    <3> QED BY <2>2, <2>3, <2>4, <3>1, LandedEarly
  <2>6. CASE ~outputFails(result.reply)
    <3>1. guest' \in Install("packages", "all")
      BY <1>0, <2>1, <2>6, OutcomeType DEF Change, Changing, outputFails
    <3>2. guest'.core = repo.core /\ guest'.updater = repo.core
      BY <3>1, InstallOf DEF Changing, Amounts, TypeInv
    <3>3. ~Older(repo.core, dir.plan.coreAvailable)
      BY <2>4 DEF UpdatePlan
    <3> HIDE DEF Success, Updated, HasPlan, Major, UpdatePlan
    <3> QED BY <2>2, <2>3, <2>4, <3>2, <3>3 DEF LandedInv, Posts
  <2> QED BY <2>5, <2>6
<1>13. CASE RestartWebGUI
  <2>0. UNCHANGED <<repo, guest, boot, job, opts, phase, dir>> /\ run.sets = None
    BY <1>13 DEF RestartWebGUI, LandedInv
  <2>1. CASE Goto("check") /\ ~run.broke
    <3>1. run'.at = "check" /\ run'.read = run.read /\ run'.sets = run.sets
      BY <2>1, <1>g DEF Steps, Executing, Watched
    <3>2. Updated
      BY <1>13, <2>1 DEF RestartWebGUI, Updated
    <3> QED BY <2>0, <3>1, <3>2, <1>q DEF Steps, Executing, Watched, Posts
  <2>2. CASE Fail(TRUE)
    BY <1>13, <2>0, <2>2, <1>F DEF RestartWebGUI, Executing, Watched
  <2> QED BY <1>13, <2>1, <2>2 DEF RestartWebGUI
<1>14. CASE CheckSets
  <2>0. /\ UNCHANGED <<repo, guest, boot, job, opts, phase, dir>> /\ run.sets = None
        /\ Updated
    BY <1>14 DEF CheckSets, LandedInv, Updated
  <2>1. ASSUME NEW at \in {"sets", "after", "postcore"}, Goto(at)
        PROVE  LandedInv'
    <3>1. run'.at = at /\ run'.read = run.read /\ run'.sets = run.sets
      BY <2>1, <1>g DEF Steps, Executing, Watched
    <3> QED BY <2>0, <2>1, <3>1, <1>q DEF Steps, Executing, Watched, Posts
  <2>2. CASE Fail(TRUE)
    BY <1>14, <2>0, <2>2, <1>F DEF CheckSets, Executing, Watched
  <2> QED BY <1>14, <2>1, <2>2 DEF CheckSets, AfterSets
<1>15. CASE InstallSets
  <2>0. /\ UNCHANGED <<repo, boot, opts, phase, dir>> /\ run.at = "sets" /\ Updated
        /\ phase = "executing" /\ HasPlan /\ ~Major
    BY <1>15 DEF InstallSets, Updated, Updating, Past, TypeInv, Executing, Watched
  <2>1. CASE Fail(TRUE)
    BY <2>0, <2>1, <1>F DEF Executing, Watched
  <2>2. ASSUME NEW result \in Outcomes("sets"), Change(result), ~outputFails(result.reply),
               run' = [run EXCEPT !.at = AfterSets("bootid"), !.reboot = TRUE,
                                  !.sets = stripPackageRevision(guest.updater)]
        PROVE  LandedInv'
    <3> DEFINE sets == stripPackageRevision(guest.updater)
               at == AfterSets("bootid")
    <3>1. sets \in Version /\ at \in {"after", "bootid"} /\ at \in Steps
      BY <1>0, VersionTypes DEF Disks, AfterSets, Steps, Executing, Watched
    <3>2. run' = [run EXCEPT !.at = at, !.reboot = TRUE, !.sets = sets]
      BY <2>2
    <3>3. guest' \in Install("sets", "all")
      BY <1>0, <2>2, OutcomeType DEF Change, Changing, outputFails
    <3>4. /\ guest'.core = guest.core /\ guest'.updater = guest.updater
          /\ guest'.base = sets /\ guest'.kernel = sets
      BY <3>3, InstallOf DEF Changing, Amounts
    <3>5. run'.sets = stripPackageRevision(guest'.updater)
      <4> HIDE DEF sets, at
      <4>1. run'.sets = sets
        BY <1>0, <3>1, <3>2, MemoryStep
      <4> QED BY <3>4, <4>1 DEF sets
    <3> HIDE DEF sets, at
    <3>6. run'.at \in {"after", "bootid"} /\ run'.sets = sets
      BY <1>0, <3>1, <3>2, MemoryStep
    <3>7. /\ UpdatePlan /\ UpdatePlan' /\ ~Success' /\ HasPlan' /\ ~Major' /\ run'.at \notin Posts
      BY <2>0, <3>6 DEF LandedInv, UpdatePlan, Posts, Success, Succeeding, HasPlan, Major
    <3>8. /\ ~Older(guest.core, dir.plan.coreAvailable)
          /\ ~Older(guest.updater, dir.plan.coreAvailable)
      BY <2>0 DEF LandedInv
    <3> HIDE DEF Success, Updated, HasPlan, Major, UpdatePlan
    <3> QED BY <2>0, <3>4, <3>5, <3>6, <3>7, <3>8 DEF LandedInv, Posts
  <2> QED BY <1>15, <2>1, <2>2 DEF InstallSets
<1>16. CASE ListAfter
  <2>0. UNCHANGED <<repo, guest, boot, job, opts, phase, dir>> /\ Updated
    BY <1>16 DEF ListAfter, Updated
  <2>1. CASE Fail(TRUE)
    BY <1>16, <2>0, <2>1, <1>F DEF ListAfter, Executing, Watched
  <2>2. CASE ~Fail(TRUE)
    <3> DEFINE reboot == run.reboot \/ Listing # run.listing
               at == IF reboot THEN "bootid" ELSE "postcore"
    <3>1. run' = [run EXCEPT !.at = at, !.reboot = reboot]
      BY <1>16, <2>2 DEF ListAfter
    <3>2. reboot \in BOOLEAN /\ at \in {"bootid", "postcore"} /\ at \in Steps
      BY <1>0 DEF Memory, Steps, Executing
    <3> HIDE DEF reboot, at
    <3>3. /\ run'.at = at /\ run'.sets = run.sets
      BY <1>0, <3>1, <3>2, MemoryStep
    <3>4. run'.at \notin Posts \ {"postcore"} /\ run'.at \notin Unchanged
      BY <3>2, <3>3 DEF Posts, Unchanged
    <3>5. Success' => Success
      BY <2>0, <3>2, <3>3 DEF Success, Succeeding
    <3> QED BY <2>0, <3>3, <3>4, <3>5, LandedQuiet
  <2> QED BY <2>1, <2>2
<1>17. CASE ReadBootID
  <2>0. UNCHANGED <<repo, guest, boot, job, opts, phase, dir>> /\ Updated
    BY <1>17 DEF ReadBootID, Updated
  <2>1. CASE Fail(FALSE)
    BY <1>17, <2>0, <2>1, <1>F DEF ReadBootID, Executing
  <2>2. CASE run' = [run EXCEPT !.at = "shutdown", !.before = boot.id]
    <3>1. run'.at = "shutdown" /\ run'.sets = run.sets
      BY <1>0, <2>2, MemoryStep
    <3>2. run'.at \notin Posts \ {"postcore"} /\ run'.at \notin Unchanged
      BY <3>1 DEF Posts, Unchanged
    <3>3. Success' => Success
      BY <2>0, <3>1 DEF Success, Succeeding
    <3> QED BY <2>0, <3>1, <3>2, <3>3, LandedQuiet
  <2> QED BY <1>17, <2>1, <2>2 DEF ReadBootID
<1>18. CASE Shutdown \/ (WaitForReboot /\ Goto("postcore"))
  <2>0. /\ UNCHANGED <<repo, guest, boot, opts, phase, dir>> /\ Updated
        /\ \E at \in {"wait", "postcore"} : Goto(at)
    BY <1>18 DEF Shutdown, WaitForReboot, Updated
  <2>1. PICK at \in {"wait", "postcore"} : Goto(at)
    BY <2>0
  <2>2. run'.at = at /\ run'.read = run.read /\ run'.sets = run.sets
    BY <2>1, <1>g DEF Steps, Executing
  <2> QED BY <2>0, <2>2, <1>q DEF Steps, Executing, Posts, Unchanged
<1>19. CASE WaitForReboot /\ Fail(FALSE)
  BY <1>19, <1>F DEF WaitForReboot, Executing
<1>20. CASE Verify
  <2>0. UNCHANGED <<repo, guest, boot, job, opts, phase, dir>> /\ run.at = "verify"
    BY <1>20 DEF Verify
  <2>1. CASE Fail(FALSE)
    BY <2>0, <2>1, <1>F DEF Executing
  <2>2. CASE Verified(dir.plan, run.sets, run.read) /\ Finish
    <3>1. Landed
      BY <2>0, <2>2, VerifiedMeansLanded
    <3>2. run'.at = "save"
      BY <1>0, <2>2, FinishStep
    <3>3. ~Updated' /\ run'.at \notin Posts \cup Unchanged /\ Landed'
      BY <2>0, <3>1, <3>2 DEF Updated, Posts, Unchanged, Landed
    <3>4. HasPlan' /\ ~Major' => UpdatePlan'
      BY <2>0 DEF LandedInv, HasPlan, Major, UpdatePlan
    <3> HIDE DEF Success, Updated, HasPlan, Major, UpdatePlan, Landed
    <3> QED BY <3>2, <3>3, <3>4 DEF LandedInv, Posts
  <2> QED BY <1>20, <2>1, <2>2 DEF Verify
<1> QED BY <1>1, <1>2, <1>3, <1>4, <1>5, <1>6, <1>7, <1>8, <1>9, <1>10, <1>11, <1>12,
           <1>13, <1>14, <1>15, <1>16, <1>17, <1>18, <1>19, <1>20
        DEF Invocation, WaitForReboot

\* Every step keeps LandedInv.
LEMMA LandedNext ==
  TypeInv /\ JobInv /\ VersionInv /\ LandedInv /\ TypeInv' /\ [Next]_vars => LandedInv'
<1> SUFFICES ASSUME TypeInv, JobInv, VersionInv, LandedInv, TypeInv', [Next]_vars
             PROVE  LandedInv'
  OBVIOUS
<1>1. CASE World
  BY <1>1, LandedWorld
<1>2. CASE StartPrepare \/ StartExecute \/ Invocation \/ Killed
  BY <1>2, LandedInvocation
<1>3. CASE UNCHANGED vars
  <2>1. UNCHANGED <<repo, guest, opts, phase, dir, run>>
    BY <1>3 DEF vars, host
  <2>2. (Updated <=> Updated') /\ (Success <=> Success')
    BY <2>1 DEF Updated, Success, Succeeding
  <2> QED BY <2>1, <2>2, LandedQuiet DEF LandedInv, Unchanged
<1> QED BY <1>1, <1>2, <1>3 DEF Next

\* A recorded success is true of the guest: nothing the plan offered is missing,
\* whatever the repository published since, whatever the baseline's age and
\* whatever answer stood in for the one that was lost (firmware.go, verifyFirmware).
THEOREM SuccessMeansLanded == Spec => []UpdateLanded
<1> DEFINE Inv == TypeInv /\ JobInv /\ VersionInv /\ LandedInv
<1>1. Init => Inv
  BY TypeInit, JobInit, VersionInit, LandedInit
<1>2. Inv /\ [Next]_vars => Inv'
  BY TypeNext, JobNext, VersionNext, LandedNext
<1>3. Inv => UpdateLanded
  BY DEF LandedInv, Success, Landed, UpdateLanded
<1> QED BY <1>1, <1>2, <1>3, PTL DEF Spec

-----------------------------------------------------------------------------
(* The contract                                                            *)

\* The disk of the contract is one of its disks.
LEMMA DiskType ==
  ASSUME TypeInv
  PROVE  Disk \in [core : Version, updater : Version, base : Version,
                   kernel : Version, staged : 0..2]
BY Versions DEF Disk

\* The steps of the contract, each in terms of the detailed state.
LEMMA ContractStep ==
  ASSUME TypeInv, TypeInv', opts' = opts,
         \/ phase' = phase /\ Disk' = Disk /\ (job' \in Changing <=> job \in Changing)
         \/ /\ phase \in {"empty", "prepared"} /\ phase' = phase
            /\ (job' \in Changing <=> job \in Changing)
         \/ phase = "executing" /\ phase' = phase /\ ~opts.dry
         \/ /\ phase \in {"execute_failed", "execute_hung"} /\ phase' = phase /\ ~opts.dry
            /\ job' \in Changing => job \in Changing
         \/ /\ phase \in {"empty", "prepared"} /\ phase' = "prepared"
            /\ Disk' = Disk /\ (job' \in Changing <=> job \in Changing)
         \/ /\ phase = "prepared" /\ phase' = "executing"
            /\ Disk' = Disk /\ (job' \in Changing <=> job \in Changing)
         \/ /\ phase = "executing" /\ phase' \in {"execute_failed", "execute_hung"}
            /\ Disk' = Disk /\ (job' \in Changing <=> job \in Changing)
         \/ /\ phase = "executing" /\ phase' = "executed" /\ job \notin Changing
            /\ Disk' = Disk /\ job' \notin Changing
  PROVE  [Contract!Next]_(Contract!vars)
<1> DEFINE busy == job \in {"packages", "sets", "major"}
<1>1. (job \in Changing <=> busy) /\ (job' \in Changing <=> busy')
  BY DEF Changing
<1>2. Disk' \in [core : Version, updater : Version, base : Version,
                 kernel : Version, staged : 0..2]
  BY Versions DEF Disk, TypeInv, TypeOK
<1>3. busy \in BOOLEAN /\ busy' \in BOOLEAN /\ UNCHANGED opts.dry
  OBVIOUS
<1> USE <1>1, <1>2, <1>3 DEF Contract!Next, Contract!vars
<1>4. CASE phase' = phase /\ Disk' = Disk /\ (job' \in Changing <=> job \in Changing)
  BY <1>4
<1>5. CASE /\ phase \in {"empty", "prepared"} /\ phase' = phase
           /\ (job' \in Changing <=> job \in Changing)
  BY <1>5 DEF Contract!OperatorChanges, Contract!Changes
<1>6. CASE phase = "executing" /\ phase' = phase /\ ~opts.dry
  BY <1>6 DEF Contract!Apply, Contract!Changes
<1>7. CASE /\ phase \in {"execute_failed", "execute_hung"} /\ phase' = phase /\ ~opts.dry
           /\ job' \in Changing => job \in Changing
  BY <1>7 DEF Contract!Leftover, Contract!Changes
<1>8. CASE /\ phase \in {"empty", "prepared"} /\ phase' = "prepared"
           /\ Disk' = Disk /\ (job' \in Changing <=> job \in Changing)
  BY <1>8 DEF Contract!Prepare
<1>9. CASE /\ phase = "prepared" /\ phase' = "executing"
           /\ Disk' = Disk /\ (job' \in Changing <=> job \in Changing)
  BY <1>9 DEF Contract!Begin
<1>10. CASE /\ phase = "executing" /\ phase' \in {"execute_failed", "execute_hung"}
            /\ Disk' = Disk /\ (job' \in Changing <=> job \in Changing)
  BY <1>10 DEF Contract!Fail
<1>11. CASE /\ phase = "executing" /\ phase' = "executed" /\ job \notin Changing
            /\ Disk' = Disk /\ job' \notin Changing
  BY <1>11 DEF Contract!Succeed
<1> QED BY <1>4, <1>5, <1>6, <1>7, <1>8, <1>9, <1>10, <1>11

\* While something of the cycle may change the disk, execute is under way or has
\* failed, and it is no dry run.
LEMMA LeftoverPhase ==
  ASSUME TypeInv, JobInv, VersionInv, LandedInv, job \in Changing \/ guest.staged # 0
  PROVE  phase \in {"executing", "execute_failed", "execute_hung"} /\ ~opts.dry
<1>1. HasPlan /\ ~opts.dry
  BY DEF JobInv, VersionInv, Major, Changing
<1>2. phase # "executed"
  <2>1. CASE job \in Changing
    BY <2>1 DEF JobInv
  <2>2. CASE guest.staged # 0
    BY <2>2 DEF VersionInv, LandedInv, Success, Landed, Major
  <2> QED BY <2>1, <2>2
<1> QED BY <1>1, <1>2 DEF TypeInv, TypeOK

\* Every step of the world is one of the contract.
LEMMA ContractWorld ==
  ASSUME TypeInv, JobInv, VersionInv, LandedInv, TypeInv', World
  PROVE  [Contract!Next]_(Contract!vars)
<1>1. CASE Publish \/ WatchdogExpires \/ RebootDeadline
  <2>1. UNCHANGED <<guest, job, opts, phase>>
    BY <1>1 DEF Publish, WatchdogExpires, RebootDeadline, host
  <2> QED BY <2>1, ContractStep DEF Disk
<1>2. CASE GoesDown \/ JobEnds
  <2>1. UNCHANGED <<opts, phase>> /\ job' = "none" /\ (job \notin Changing => guest' = guest)
    BY <1>2 DEF GoesDown, JobEnds, host, Changing
  <2>2. CASE job \notin Changing
    BY <2>1, <2>2, ContractStep DEF Disk, Changing
  <2>3. CASE job \in Changing
    <3>1. phase \in {"executing", "execute_failed", "execute_hung"} /\ ~opts.dry
      BY <2>3, LeftoverPhase
    <3> QED BY <2>1, <2>3, <3>1, ContractStep
  <2> QED BY <2>2, <2>3
<1>3. CASE Boots
  <2>1. UNCHANGED <<opts, phase, job>> /\ (guest' = guest \/ guest.staged # 0)
    BY <1>3 DEF Boots, host
  <2>2. CASE guest' = guest
    BY <2>1, <2>2, ContractStep DEF Disk
  <2>3. CASE guest.staged # 0
    <3>1. phase \in {"executing", "execute_failed", "execute_hung"} /\ ~opts.dry
      BY <2>3, LeftoverPhase
    <3> QED BY <2>1, <3>1, ContractStep
  <2> QED BY <2>1, <2>2, <2>3
<1>4. CASE OperatorUpdates
  <2>1. UNCHANGED <<opts, phase, job>> /\ phase \in {"empty", "prepared"}
    BY <1>4 DEF OperatorUpdates, host
  <2> QED BY <2>1, ContractStep
<1> QED BY <1>1, <1>2, <1>3, <1>4 DEF World

\* Every step of an invocation is one of the contract.
LEMMA ContractInvocation ==
  ASSUME TypeInv, JobInv, TypeInv',
         StartPrepare \/ StartExecute \/ Invocation \/ Killed
  PROVE  [Contract!Next]_(Contract!vars)
<1>1. CASE \/ StartPrepare \/ CaptureConfigXML \/ CaptureFirmwareState \/ ReadPre
           \/ ProbeUpdatePlan \/ ListBefore \/ RestartWebGUI \/ CheckSets \/ ListAfter
           \/ ReadBootID \/ WaitForReboot \/ Verify
  <2>1. UNCHANGED <<guest, job, opts, phase>>
    BY <1>1 DEF StartPrepare, CaptureConfigXML, CaptureFirmwareState, ReadPre,
                ProbeUpdatePlan, ListBefore, RestartWebGUI, CheckSets, ListAfter,
                ReadBootID, WaitForReboot, Verify
  <2> QED BY <2>1, ContractStep DEF Disk
<1>2. CASE RefreshCatalogue
  <2>1. UNCHANGED <<job, opts, phase>> /\ guest \in Disks
        /\ (guest' = guest \/ guest' = [guest EXCEPT !.catalog = repo])
    BY <1>2, NoneApart DEF RefreshCatalogue, TypeInv
  <2>2. Disk' = Disk
    BY <2>1 DEF Disk, Disks
  <2> QED BY <2>1, <2>2, ContractStep
<1>3. CASE StartExecute
  <2>1. /\ UNCHANGED <<guest, job, opts>> /\ phase = "prepared"
        /\ phase' \in {phase, "executing"}
    BY <1>3 DEF StartExecute
  <2> QED BY <2>1, ContractStep DEF Disk
<1>4. CASE FinishPrepare
  <2>1. UNCHANGED <<guest, job, opts>> /\ phase' \in {phase, "prepared"}
    BY <1>4 DEF FinishPrepare
  <2>2. phase \in {"empty", "prepared"}
    BY <1>4 DEF FinishPrepare, TypeInv, Preparing
  <2> QED BY <2>1, <2>2, ContractStep DEF Disk
<1>5. CASE ApplyMajorUpgrade \/ UpdatePackages \/ InstallSets
  <2>1. UNCHANGED <<opts, phase>> /\ phase = "executing" /\ ~opts.dry
    BY <1>5 DEF ApplyMajorUpgrade, UpdatePackages, InstallSets, TypeInv, Executing,
                Watched, Past, Updating
  <2> QED BY <2>1, ContractStep
<1>6. CASE Shutdown
  <2>1. /\ UNCHANGED <<guest, opts, phase>> /\ job' \in {job, "reboot"}
        /\ run.at = "shutdown"
    BY <1>6 DEF Shutdown
  <2>2. job \notin Changing
    BY <2>1, NoJob DEF Failing
  <2> QED BY <2>1, <2>2, ContractStep DEF Disk, Changing
<1>7. CASE Save
  <2>1. UNCHANGED <<guest, job, opts>> /\ phase' \in {phase, run.out} /\ run.at = "save"
    BY <1>7 DEF Save
  <2>2. phase = "executing" /\ run.out \in {"executing", "executed", "execute_failed", "execute_hung"}
    BY <2>1 DEF TypeInv, TypeOK, Memory, Executing
  <2>3. run.out = "executed" => job \notin Changing
    BY <2>1, NoJob DEF Failing
  <2> QED BY <2>1, <2>2, <2>3, ContractStep DEF Disk
<1>8. CASE Killed
  <2>1. /\ UNCHANGED <<guest, opts, phase>>
        /\ job' \in {job} \/ run.at \in {"major", "packages", "sets", "shutdown"}
    BY <1>8 DEF Killed
  <2>2. CASE job' = job
    BY <2>1, <2>2, ContractStep DEF Disk
  <2>3. CASE run.at \in {"major", "packages", "sets", "shutdown"}
    <3>1. phase = "executing" /\ ~opts.dry
      BY <2>3 DEF TypeInv, Executing, Watched, Past, Updating
    <3> QED BY <2>1, <3>1, ContractStep
  <2> QED BY <2>1, <2>2, <2>3
<1> QED BY <1>1, <1>2, <1>3, <1>4, <1>5, <1>6, <1>7, <1>8 DEF Invocation

\* The guest's firmware changes only by whom the contract allows: a dry run
\* installs nothing, and after a success nothing of the cycle is left that could,
\* not even at a later boot (execute.go:17, Execute).
THEOREM FirmwareImplementsContract == Spec => ImplementsContract
<1> DEFINE Inv == TypeInv /\ JobInv /\ VersionInv /\ LandedInv
<1>1. Init => Inv
  BY TypeInit, JobInit, VersionInit, LandedInit
<1>2. Inv /\ [Next]_vars => Inv'
  BY TypeNext, JobNext, VersionNext, LandedNext
<1>3. Init => Contract!Init
  <2>1. SUFFICES ASSUME Init PROVE Contract!Init
    OBVIOUS
  <2>2. opts.dry \in BOOLEAN
    BY <2>1 DEF Init
  <2> QED BY <2>1, <2>2, TypeInit, DiskType DEF Init, Contract!Init
<1>4. Inv /\ Inv' /\ [Next]_vars => [Contract!Next]_(Contract!vars)
  <2>1. SUFFICES ASSUME Inv, Inv', [Next]_vars PROVE [Contract!Next]_(Contract!vars)
    OBVIOUS
  <2>2. CASE World
    BY <2>1, <2>2, ContractWorld
  <2>3. CASE StartPrepare \/ StartExecute \/ Invocation \/ Killed
    BY <2>1, <2>3, ContractInvocation
  <2>4. CASE UNCHANGED vars
    BY <2>4 DEF vars, host, Contract!vars, Disk
  <2> QED BY <2>1, <2>2, <2>3, <2>4 DEF Next
<1>5. Spec => Contract!Spec
  BY <1>1, <1>2, <1>3, <1>4, PTL DEF Spec, Contract!Spec
<1> QED BY <1>5 DEF ImplementsContract

-----------------------------------------------------------------------------
(* What the boot has loaded                                                *)

\* A step to where only the reboot in hand, the time before execute and a success
\* matter, and that disturbs none of the three.
LEMMA BootAway ==
  ASSUME BootInv, run'.at \notin Updating \cup Posts \cup Planning,
         run'.before # None => run'.before = run.before /\ UNCHANGED <<guest, boot>>,
         phase' \in {"empty", "prepared"} =>
           phase \in {"empty", "prepared"} /\ UNCHANGED <<guest, boot, opts>>,
         Success' => Success /\ UNCHANGED <<guest, boot, dir>>
  PROVE  BootInv'
<1>1. (phase' \in {"empty", "prepared"} \/ run'.at \in {"pre", "refresh"}) /\ boot'.up =>
        RunsKernel' /\ (opts'.always => RunsPackages')
  BY DEF BootInv, Planning, RunsKernel, RunsPackages
<1>2. run'.before # None =>
        /\ boot'.id >= run'.before
        /\ boot'.id # run'.before => RunsKernel' /\ RunsPackages'
  BY DEF BootInv, RunsKernel, RunsPackages
<1>3. run'.at \in Posts \/ Success' => RunsChange'
  <2>1. SUFFICES ASSUME Success' PROVE RunsChange'
    OBVIOUS
  <2>2. UNCHANGED <<guest, boot, dir>> /\ RunsChange
    BY <2>1 DEF BootInv
  <2> QED BY <2>2 DEF RunsChange, RunsKernel, RunsPackages, Major, HasPlan
<1> HIDE DEF Success, RunsChange, RunsKernel, RunsPackages, Updated, Failing
<1> QED BY <1>1, <1>2, <1>3 DEF BootInv, Updating, Planning

\* A step that leaves the disk's packages and kernel, the boot but for the guest
\* going down, and what the invocation remembers of the change.
LEMMA BootQuiet ==
  ASSUME BootInv, UNCHANGED <<opts, phase, dir>>,
         guest'.core = guest.core, guest'.updater = guest.updater,
         guest'.kernel = guest.kernel,
         boot'.id = boot.id, boot'.core = boot.core, boot'.updater = boot.updater,
         boot'.kernel = boot.kernel, boot'.up => boot.up,
         run'.at = run.at, run'.sets = run.sets, run'.reboot = run.reboot,
         run'.before = run.before, run'.broke = run.broke,
         run'.listing = run.listing, run'.out = run.out
  PROVE  BootInv'
<1>1. /\ (RunsKernel <=> RunsKernel') /\ (RunsPackages <=> RunsPackages')
      /\ Listing' = Listing /\ (Failing <=> Failing') /\ (Updated <=> Updated')
      /\ (Success <=> Success')
  BY DEF RunsKernel, RunsPackages, Listing, Failing, Updated, Success, Succeeding
<1>2. RunsChange <=> RunsChange'
  BY <1>1 DEF RunsChange, Major, HasPlan
<1> HIDE DEF RunsKernel, RunsPackages, Listing, Failing, Updated, Success, RunsChange
<1> QED BY <1>1, <1>2 DEF BootInv

\* The guest boots into what is installed.
LEMMA BootInit == Init => BootInv
<1> SUFFICES ASSUME Init PROVE BootInv
  OBVIOUS
<1>1. run.at = "idle" /\ run.before = None /\ phase = "empty"
  BY IdleType DEF Init
<1>2. RunsKernel /\ RunsPackages
  BY DEF Init, RunsKernel, RunsPackages
<1>3. ~Success
  BY <1>1 DEF Success, Succeeding
<1> QED BY <1>1, <1>2, <1>3 DEF BootInv, Updating, Posts

\* The world keeps BootInv: a boot loads what is installed, nothing changes that
\* while execute goes well, and the operator's update reboots where it has to.
LEMMA BootWorld ==
  ASSUME TypeInv, JobInv, VersionInv, LandedInv, BootInv, World
  PROVE  BootInv'
<1>1. CASE Publish \/ GoesDown \/ WatchdogExpires \/ RebootDeadline
  <2>1. /\ UNCHANGED <<guest, opts, phase, dir>>
        /\ boot'.id = boot.id /\ boot'.core = boot.core /\ boot'.updater = boot.updater
        /\ boot'.kernel = boot.kernel /\ (boot'.up => boot.up)
    BY <1>1 DEF Publish, GoesDown, WatchdogExpires, RebootDeadline, host, TypeInv, TypeOK
  <2>2. /\ run'.at = run.at /\ run'.sets = run.sets /\ run'.reboot = run.reboot
        /\ run'.before = run.before /\ run'.broke = run.broke
        /\ run'.listing = run.listing /\ run'.out = run.out
    BY <1>1 DEF Publish, GoesDown, WatchdogExpires, RebootDeadline, host,
                TypeInv, TypeOK, Memory
  <2> QED BY <2>1, <2>2, BootQuiet
<1>2. CASE Boots
  <2>1. BootStep /\ UNCHANGED <<repo, job, opts, phase, dir, run>>
    BY <1>2, BootsStep DEF Boots, host
  <2>2. RunsKernel' /\ RunsPackages' /\ RunsChange'
    BY <2>1 DEF BootStep, RunsKernel, RunsPackages, RunsChange
  <2>3. run.before # None => boot'.id >= run.before
    BY <2>1 DEF BootStep, BootInv, TypeInv, TypeOK, Memory
  <2>4. run.at \in Updating => guest' = guest
    BY <2>1 DEF BootStep, TypeInv, VersionInv
  <2>5. run.at \in Updating => Listing' = Listing
    BY <2>4 DEF Listing
  <2>6. (Failing <=> Failing') /\ (Updated <=> Updated') /\ (Success <=> Success')
    BY <2>1 DEF Failing, Updated, Success, Succeeding
  <2> HIDE DEF RunsKernel, RunsPackages, Listing, Failing, Updated, Success, RunsChange
  <2> QED BY <2>1, <2>2, <2>3, <2>5, <2>6 DEF BootInv, Updating
<1>3. CASE JobEnds
  <2>1. /\ UNCHANGED <<repo, boot, opts, phase, dir, run>> /\ job \in Changing
    BY <1>3 DEF JobEnds, host, Changing
  <2>2. /\ run.at = "idle" \/ Failing
        /\ phase \notin {"empty", "prepared", "executed"} /\ run.before = None
    BY <2>1 DEF JobInv, TypeInv, TypeOK, Changing
  <2>3. ~Updated' /\ ~Success'
    BY <2>1, <2>2 DEF Failing, Updated, Posts, Success, Succeeding
  <2>4. run'.at \in {"idle", "save", "webgui"} /\ (run'.at = "webgui" => Failing')
    BY <2>1, <2>2 DEF Failing
  <2> HIDE DEF RunsKernel, RunsPackages, Listing, Failing, Updated, Success, RunsChange
  <2> QED BY <2>1, <2>2, <2>3, <2>4 DEF BootInv, Updating, Posts
<1>4. CASE OperatorUpdates
  <2>1. /\ UNCHANGED <<repo, job, opts, phase, dir, run>>
        /\ phase \in {"empty", "prepared"} /\ boot.up
    BY <1>4 DEF OperatorUpdates, host
  <2>2. /\ run.at \notin Executing /\ run.before = None
    BY <2>1 DEF TypeInv, JobInv, Executing, Watched, Posts
  <2>3. /\ run'.at \notin Updating \cup Posts \cup Planning /\ run'.before = None
        /\ ~Success'
    BY <2>1, <2>2 DEF Updating, Posts, Planning, Executing, Watched, Success, Succeeding
  <2>4. boot'.up => RunsKernel' /\ (opts'.always => RunsPackages')
    <3> DEFINE sets == stripPackageRevision(repo.updater)
               one == [guest EXCEPT !.core = repo.core, !.updater = repo.updater]
    <3>1. guest' = [one EXCEPT !.base = sets, !.kernel = sets]
      BY <1>4 DEF OperatorUpdates
    <3>2. one.core = repo.core /\ one.updater = repo.updater /\ guest \in Disks
      BY NoneApart DEF TypeInv, Disks
    <3>3. guest'.kernel = sets /\ guest'.core = repo.core /\ guest'.updater = repo.updater
      <4>1. one \in [{"core", "updater", "base", "kernel", "staged", "catalog"} ->
                       {one[f] : f \in DOMAIN one}]
        BY <3>2 DEF Disks
      <4> HIDE DEF one, sets
      <4> QED BY <3>1, <3>2, <4>1
    <3>4. /\ RunsKernel /\ (opts.always => RunsPackages)
      BY <2>1 DEF BootInv
    <3>5. boot'.up => /\ boot' = boot /\ guest.kernel = sets
                      /\ opts.always => guest.core = repo.core /\ guest.updater = repo.updater
      BY <1>4 DEF OperatorUpdates, TypeInv, TypeOK
    <3> HIDE DEF sets
    <3> QED BY <2>1, <3>3, <3>4, <3>5 DEF RunsKernel, RunsPackages
  <2> HIDE DEF RunsKernel, RunsPackages, Listing, Failing, Updated, Success, RunsChange
  <2> QED BY <2>1, <2>3, <2>4 DEF BootInv, Updating, Posts, Planning
<1> QED BY <1>1, <1>2, <1>3, <1>4 DEF World

\* Every step of an invocation keeps BootInv.
LEMMA BootInvocation ==
  ASSUME TypeInv, JobInv, VersionInv, LandedInv, BootInv, TypeInv',
         StartPrepare \/ StartExecute \/ Invocation \/ Killed
  PROVE  BootInv'
<1>0. /\ run \in Memory /\ boot.id \in 1..MaxBoots /\ boot.up \in BOOLEAN
      /\ guest \in Disks /\ opts.target \in 0..2 /\ opts.dry \in BOOLEAN
      /\ repo \in Packages /\ dir.pre # None => dir.pre \in States
  BY NoneApart DEF TypeInv, TypeOK
<1>i. Exit => run'.at = "idle" /\ run'.before = None
  BY IdleType DEF Exit
<1>g. ASSUME NEW at \in Steps, Goto(at)
      PROVE  /\ run'.at = at /\ run'.sets = run.sets /\ run'.listing = run.listing
             /\ run'.reboot = run.reboot /\ run'.before = run.before
             /\ run'.broke = run.broke /\ run'.out = run.out
  BY <1>0, <1>g, GotoStep
<1>b. run.at \in Planning \cup Updating \cup {"major", "bootid"} => run.before = None
  BY DEF JobInv, Planning, Updating, Posts
\* What fails leaves for the save.
<1>F. ASSUME NEW watched \in BOOLEAN, Fail(watched), UNCHANGED <<opts, phase>>,
             run.at \in Executing,
             run.at \in Planning \cup Updating \cup {"major"} \/ UNCHANGED <<guest, boot>>
      PROVE  BootInv'
  <2>1. /\ run'.at = "save" /\ run'.out \in {"execute_failed", "execute_hung"}
        /\ run'.before = run.before
    BY <1>0, <1>F, FailStep
  <2>2. phase' = "executing"
    BY <1>F DEF TypeInv
  <2>3. /\ run'.at \notin Updating \cup Posts \cup Planning /\ ~Success'
        /\ run'.before # None => UNCHANGED <<guest, boot>>
    BY <1>F, <1>b, <2>1, <2>2 DEF Updating, Posts, Planning, Success, Succeeding
  <2> QED BY <2>1, <2>2, <2>3, BootAway
\* Outside execute there is only what was loaded before it.
<1>P. ASSUME phase \in {"empty", "prepared"}, phase' \in {"empty", "prepared"},
             run'.at \in Preparing \cup {"idle"}, run'.before = None,
             UNCHANGED <<guest, boot, opts>>
      PROVE  BootInv'
  <2>1. run'.at \notin Updating \cup Posts \cup Planning /\ ~Success'
    BY <1>P DEF Updating, Posts, Planning, Success, Succeeding, Preparing
  <2> QED BY <1>P, <2>1, BootAway
<1>1. CASE StartPrepare
  <2>1. run'.at = "config" /\ run'.before = None
    BY <1>1, StartStep DEF StartPrepare, Steps, Preparing
  <2> QED BY <1>1, <1>P, <2>1 DEF StartPrepare, Preparing
<1>2. CASE StartExecute
  <2>1. CASE UNCHANGED <<phase, run>>
    BY <1>2, <2>1, BootQuiet DEF StartExecute
  <2>2. CASE phase' = "executing" /\ Start("pre")
    <3>1. run'.at = "pre" /\ run'.before = None
      BY <2>2, StartStep DEF Steps, Executing
    <3>2. boot'.up => RunsKernel' /\ (opts'.always => RunsPackages')
      BY <1>2 DEF StartExecute, BootInv, RunsKernel, RunsPackages
    <3>3. ~Success' /\ ~Updated'
      BY <2>2, <3>1 DEF Success, Succeeding, Updated, Posts
    <3> HIDE DEF RunsKernel, RunsPackages, Success, Updated, RunsChange, Failing
    <3> QED BY <3>1, <3>2, <3>3 DEF BootInv, Updating, Posts
  <2> QED BY <1>2, <2>1, <2>2 DEF StartExecute
<1>3. CASE Killed \/ Save
  <2>1. /\ run'.at = "idle" /\ run'.before = None /\ UNCHANGED <<repo, guest, boot, opts, dir>>
        /\ phase' \in {"empty", "prepared"} => phase \in {"empty", "prepared"}
    BY <1>0, <1>3, <1>i DEF Killed, Save, Memory
  <2>2. Success' => Success
    BY <1>3, <2>1 DEF Killed, Save, Success, Succeeding
  <2>3. run'.at \notin Updating \cup Posts \cup Planning
    BY <2>1 DEF Updating, Posts, Planning
  <2> QED BY <2>1, <2>2, <2>3, BootAway
<1>4. CASE CaptureConfigXML
  <2>1. run'.at \in {"core", "idle"} /\ run'.before = None
    BY <1>4, <1>i, <1>g DEF CaptureConfigXML, Steps, Preparing, JobInv, Posts
  <2> QED BY <1>4, <2>1, <1>P DEF CaptureConfigXML, TypeInv, Preparing
<1>5. CASE CaptureFirmwareState
  <2>0. UNCHANGED <<repo, guest, boot, job, opts, phase, dir>> /\ run.at \in DOMAIN Captures
    BY <1>5, CaptureStep
  <2>1. CASE Captured
    <3>1. PICK field \in {"core", "base", "kernel"}, next \in Steps :
            /\ [field |-> field, next |-> next] = Captures[run.at]
            /\ run'.at = next /\ run'.before = run.before /\ run'.sets = run.sets
      BY <2>1 DEF Captured
    <3>2. CASE run.at \in Preparing
      <4>1. next \in Preparing /\ run.before = None
        BY <2>0, <3>1, <3>2 DEF Captures, Preparing, JobInv, Posts
      <4> QED BY <2>0, <3>1, <3>2, <4>1, <1>P DEF TypeInv
    <3>3. CASE run.at \in Posts
      <4>1. run'.at \in Posts /\ run'.at \notin Updating \cup Planning /\ phase = "executing"
        BY <2>0, <3>1, <3>3
           DEF Captures, Posts, Updating, Planning, TypeInv, Executing
      <4>2. RunsChange'
        BY <2>0, <3>3 DEF BootInv, RunsChange, RunsKernel, RunsPackages, Major, HasPlan
      <4>3. run'.before # None =>
              /\ boot'.id >= run'.before
              /\ boot'.id # run'.before => RunsKernel' /\ RunsPackages'
        BY <2>0, <3>1 DEF BootInv, RunsKernel, RunsPackages
      <4> HIDE DEF RunsKernel, RunsPackages, Success, Updated, RunsChange, Failing
      <4> QED BY <2>0, <4>1, <4>2, <4>3 DEF BootInv, Updating, Planning
    <3> QED BY <2>0, <3>2, <3>3 DEF Captures, Preparing, Posts
  <2>2. CASE run.at \in Preparing /\ Exit
    BY <2>0, <2>2, <1>i, <1>P DEF TypeInv
  <2>3. CASE run.at \in Posts /\ Fail(FALSE)
    BY <2>0, <2>3, <1>F DEF Posts, Executing
  <2> QED BY <1>5, CaptureStep, <2>1, <2>2, <2>3
<1>6. CASE FinishPrepare
  <2>1. run'.at = "idle" /\ run'.before = None /\ phase \in {"empty", "prepared"}
    BY <1>6, <1>i DEF FinishPrepare, TypeInv, Preparing
  <2>2. phase' \in {"empty", "prepared"} /\ UNCHANGED <<guest, boot, opts>>
    BY <1>6, <2>1 DEF FinishPrepare
  <2> QED BY <2>1, <2>2, <1>P
\* Writing the plan: the kernel is the one that runs, and with the always-reboot
\* setting the packages are.
<1>p. ASSUME NEW plan \in Plans, Planned(plan), run.at \in Planning,
             UNCHANGED <<repo, guest, boot, job, opts, phase>>,
             plan.major \/ run.at = "probe"
      PROVE  BootInv'
  <2>1. run.before = None /\ phase = "executing"
    BY <1>b, <1>p DEF TypeInv, Planning, Executing, Watched
  <2>2. CASE dir' = dir /\ Fail(FALSE)
    BY <1>p, <2>2, <1>F DEF Planning, Executing, Watched
  <2>3. CASE opts.dry /\ Finish
    <3>1. run'.at = "save" /\ run'.before = run.before
      BY <1>0, <2>3, FinishStep
    <3>2. ~Success' /\ run'.at \notin Updating \cup Posts \cup Planning
      BY <1>p, <2>3, <3>1 DEF Success, Updating, Posts, Planning
    <3> QED BY <1>p, <2>1, <3>1, <3>2, BootAway
  <2>4. CASE plan.major /\ Goto("major")
    <3>1. run'.at = "major" /\ run'.before = run.before
      BY <1>g, <2>4 DEF Steps, Executing, Watched
    <3>2. ~Success' /\ run'.at \notin Updating \cup Posts \cup Planning
      BY <1>p, <2>1, <3>1 DEF Success, Succeeding, Updating, Posts, Planning
    <3> QED BY <1>p, <2>1, <3>1, <3>2, BootAway
  <2>5. ASSUME NEW at \in {"before", "packages"}, Goto(at), run.at = "probe",
               dir'.plan = plan, at = "packages" => ~plan.alwaysReboot
        PROVE  BootInv'
    <3>1. run'.at = at /\ run'.sets = run.sets /\ run'.before = run.before
      BY <1>g, <2>5 DEF Steps, Executing, Watched
    <3>2. ~Success' /\ ~Updated' /\ run'.at \notin Posts
      BY <1>p, <2>1, <3>1 DEF Success, Succeeding, Updated, Posts
    <3>3. run.sets = None /\ ~Failing
      BY <2>5 DEF LandedInv, Failing
    <3>4. RunsKernel' /\ (opts'.always => RunsPackages')
      BY <1>p, <2>5, <3>3 DEF BootInv, RunsKernel, RunsPackages
    <3>5. run'.sets = None
      BY <3>1, <3>3
    <3> HIDE DEF RunsKernel, RunsPackages, Success, Updated, RunsChange, Failing
    <3> QED BY <1>p, <2>1, <2>5, <3>1, <3>2, <3>4, <3>5 DEF BootInv, Updating, Posts
  <2> QED BY <1>p, PlannedStep, <2>2, <2>3, <2>4, <2>5 DEF TypeInv
<1>7. CASE ReadPre
  <2>0. UNCHANGED <<repo, guest, boot, job, opts, phase>> /\ run.before = None
        /\ phase = "executing"
    BY <1>7, <1>b DEF ReadPre, Planning, TypeInv, Executing
  <2>1. CASE isMajorUpgrade(opts.target, dir.pre.core) /\ Planned(majorPlan(opts.target))
    <3>1. majorPlan(opts.target) \in Plans /\ majorPlan(opts.target).major
      BY <1>0, <2>1, PlanTypes DEF isMajorUpgrade
    <3> QED BY <1>7, <1>p, <2>0, <2>1, <3>1 DEF ReadPre, Planning
  <2>2. CASE Goto("refresh") /\ UNCHANGED dir
    <3>1. run'.at = "refresh" /\ run'.before = run.before
      BY <2>2, <1>g DEF Steps, Executing, Watched
    <3>2. boot'.up => RunsKernel' /\ (opts'.always => RunsPackages')
      BY <1>7, <2>0 DEF ReadPre, BootInv, RunsKernel, RunsPackages
    <3>3. ~Success' /\ ~Updated'
      BY <2>0, <3>1 DEF Success, Succeeding, Updated, Posts
    <3> HIDE DEF RunsKernel, RunsPackages, Success, Updated, RunsChange, Failing
    <3> QED BY <2>0, <3>1, <3>2, <3>3 DEF BootInv, Updating, Posts
  <2>3. CASE Fail(FALSE) /\ UNCHANGED dir
    BY <1>7, <2>0, <2>3, <1>F DEF ReadPre, Executing
  <2> QED BY <1>7, <2>1, <2>2, <2>3 DEF ReadPre
<1>8. CASE RefreshCatalogue
  <2>0. UNCHANGED <<repo, boot, job, opts, phase, dir>> /\ run.before = None
        /\ phase = "executing" /\ run.sets = None
    BY <1>8, <1>b DEF RefreshCatalogue, Planning, TypeInv, Executing, Watched, LandedInv
  <2>1. CASE "zero" \in Answers /\ guest' = [guest EXCEPT !.catalog = repo] /\ Goto("probe")
    <3>1. run'.at = "probe" /\ run'.sets = run.sets /\ run'.before = run.before
      BY <2>1, <1>g DEF Steps, Executing, Watched
    <3>2. /\ guest'.core = guest.core /\ guest'.updater = guest.updater
          /\ guest'.kernel = guest.kernel
      BY <1>0, <2>1 DEF Disks
    <3>3. boot.up
      BY <1>0, <2>1, AnswerMeansUp
    <3>4. RunsKernel' /\ (opts'.always => RunsPackages')
      BY <1>8, <2>0, <3>2, <3>3 DEF RefreshCatalogue, BootInv, RunsKernel, RunsPackages
    <3>5. ~Success' /\ ~Updated'
      BY <2>0, <3>1 DEF Success, Succeeding, Updated, Posts
    <3> HIDE DEF RunsKernel, RunsPackages, Success, Updated, RunsChange, Failing
    <3> QED BY <2>0, <3>1, <3>4, <3>5 DEF BootInv, Updating, Posts
  <2>2. CASE Fail(TRUE)
    BY <1>8, <2>0, <2>2, <1>F DEF RefreshCatalogue, Executing, Watched, Planning
  <2> QED BY <1>8, <2>1, <2>2 DEF RefreshCatalogue
<1>9. CASE ProbeUpdatePlan
  <2>0. UNCHANGED <<repo, guest, boot, job, opts, phase>>
    BY <1>9 DEF ProbeUpdatePlan
  <2>1. ASSUME NEW always \in {FALSE, opts.always},
               Planned(updatePlan(dir.pre, guest.catalog, always))
        PROVE  BootInv'
    <3>1. /\ dir.pre \in States /\ guest.catalog \in Packages /\ always \in BOOLEAN
      BY <1>0, <1>9 DEF ProbeUpdatePlan, Disks, TypeInv, TypeOK, Executing, Watched
    <3>2. updatePlan(dir.pre, guest.catalog, always) \in Plans
      BY <3>1, PlanTypes
    <3> QED BY <1>9, <1>p, <2>0, <2>1, <3>2 DEF ProbeUpdatePlan, Planning
  <2>2. CASE Fail(TRUE) /\ UNCHANGED dir
    BY <1>9, <2>0, <2>2, <1>F DEF ProbeUpdatePlan, Executing, Watched
  <2> QED BY <1>9, <2>1, <2>2 DEF ProbeUpdatePlan
<1>10. CASE ApplyMajorUpgrade
  <2>1. PICK result \in Outcomes("major") :
          IF outputFails(result.reply) THEN Fail(TRUE)
          ELSE run' = [run EXCEPT !.at = "bootid", !.reboot = TRUE,
                                  !.sets = First(opts.target)]
    BY <1>10 DEF ApplyMajorUpgrade
  <2>2. /\ UNCHANGED <<repo, boot, opts, phase, dir>> /\ Major /\ phase = "executing"
        /\ run.before = None
    BY <1>10, <1>b DEF ApplyMajorUpgrade, TypeInv, Executing, Watched
  <2>3. CASE outputFails(result.reply)
    BY <1>10, <2>1, <2>2, <2>3, <1>F DEF ApplyMajorUpgrade, Executing, Watched
  <2>4. CASE ~outputFails(result.reply)
    <3> DEFINE sets == First(opts.target)
    <3>1. sets \in Version /\ "bootid" \in Steps
      BY <1>0, <2>2, VersionTypes DEF TypeInv, Steps, Executing
    <3>2. run' = [run EXCEPT !.at = "bootid", !.reboot = TRUE, !.sets = sets]
      BY <2>1, <2>4
    <3> HIDE DEF sets
    <3>3. run'.at = "bootid" /\ run'.before = run.before
      BY <1>0, <3>1, <3>2, MemoryStep
    <3>4. run'.at \notin Updating \cup Posts \cup Planning /\ ~Success'
      BY <2>2, <3>3 DEF Updating, Posts, Planning, Success, Succeeding
    <3> QED BY <2>2, <3>3, <3>4, BootAway
  <2> QED BY <2>3, <2>4
\* Going on with an update that has gone well so far.
<1>u. ASSUME run'.at \in {"webgui", "check", "sets", "after"}, run'.before = None,
             phase' = "executing", run'.sets = None => RunsKernel',
             run'.sets # None => run'.reboot,
             (Updated' /\ dir'.plan.alwaysReboot) =>
               /\ run'.listing # None
               /\ \/ RunsPackages'
                  \/ boot'.core = run'.listing.core /\ boot'.updater = run'.listing.updater
      PROVE  BootInv'
  <2>1. ~Success' /\ run'.at \notin Posts
    BY <1>u DEF Success, Succeeding, Posts
  <2> HIDE DEF RunsKernel, RunsPackages, Success, Updated, RunsChange, Failing
  <2> QED BY <1>u, <2>1 DEF BootInv
\* Where the update stands before its next step.
<1>s. run.at \in Updating /\ ~Failing =>
        /\ phase = "executing" /\ run.before = None /\ HasPlan /\ ~Major
        /\ dir.plan.alwaysReboot => opts.always
        /\ run.sets = None => RunsKernel
        /\ run.sets # None => run.reboot
        /\ (Updated /\ dir.plan.alwaysReboot) =>
             /\ run.listing # None
             /\ \/ RunsPackages
                \/ boot.core = run.listing.core /\ boot.updater = run.listing.updater
  BY <1>b DEF TypeInv, BootInv, LandedInv, UpdatePlan, Past, Updating, Executing, Watched
<1>11. CASE ListBefore
  <2>0. /\ UNCHANGED <<repo, guest, boot, job, opts, phase, dir>> /\ run.sets = None
        /\ run.at = "before" /\ run.at \in Updating /\ ~Failing /\ dir.plan.alwaysReboot
    BY <1>11 DEF ListBefore, LandedInv, TypeInv, Updating, Failing
  <2>1. CASE Fail(TRUE)
    BY <2>0, <2>1, <1>F DEF Executing, Watched
  <2>2. CASE run' = [run EXCEPT !.at = "packages", !.listing = Listing]
    <3>1. Listing \in Packages
      BY <1>0 DEF Listing, Packages, Disks
    <3>2. /\ run'.at = "packages" /\ run'.sets = run.sets /\ run'.before = run.before
          /\ run'.listing = Listing
      BY <1>0, <2>2, <3>1, MemoryStep
    <3>3. RunsKernel' /\ RunsPackages' /\ Listing' = Listing
      BY <1>s, <2>0 DEF BootInv, RunsKernel, RunsPackages, Listing
    <3>4. ~Updated' /\ ~Success' /\ run'.at \notin Posts /\ phase' = "executing"
      BY <1>s, <2>0, <3>2 DEF Updated, Posts, Success, Succeeding
    <3> HIDE DEF RunsKernel, RunsPackages, Success, Updated, RunsChange, Failing
    <3> QED BY <1>s, <2>0, <3>2, <3>3, <3>4 DEF BootInv
  <2> QED BY <1>11, <2>1, <2>2 DEF ListBefore
<1>12. CASE UpdatePackages
  <2>1. PICK result \in Outcomes("packages") :
          /\ Change(result)
          /\ run' = [run EXCEPT !.at = "webgui", !.broke = outputFails(result.reply)]
    BY <1>12 DEF UpdatePackages
  <2>2. /\ UNCHANGED <<repo, boot, opts, phase, dir>> /\ run.at \in Updating
        /\ run.at = "packages" /\ run.sets = None /\ ~Failing
    BY <1>12 DEF UpdatePackages, Updating, LandedInv, Failing
  <2>3. /\ run'.at = "webgui" /\ run'.sets = run.sets /\ run'.before = run.before
        /\ run'.listing = run.listing
    BY <1>0, <2>1, MemoryStep DEF outputFails
  <2>4. guest'.kernel = guest.kernel
    <3>1. \E amount \in Amounts : guest' \in Install("packages", amount)
      BY <1>0, <2>1, OutcomeType DEF Change, Changing
    <3> QED BY <3>1, InstallOf DEF Changing
  <2>5. RunsKernel'
    BY <1>s, <2>2, <2>4 DEF RunsKernel
  <2>6. dir'.plan.alwaysReboot =>
          /\ run'.listing # None
          /\ boot'.core = run'.listing.core /\ boot'.updater = run'.listing.updater
    <3>1. SUFFICES ASSUME dir.plan.alwaysReboot
                   PROVE  /\ run.listing # None
                          /\ boot.core = run.listing.core /\ boot.updater = run.listing.updater
      BY <2>2, <2>3
    <3>2. RunsPackages /\ run.listing = Listing
      BY <2>2, <3>1 DEF BootInv
    <3>3. Listing \in Packages
      BY <1>0 DEF Listing, Packages, Disks
    <3> QED BY <3>2, <3>3, NoneAssumption DEF RunsPackages, Listing
  <2> QED BY <1>s, <1>u, <2>2, <2>3, <2>5, <2>6
<1>13. CASE RestartWebGUI
  <2>0. UNCHANGED <<repo, guest, boot, job, opts, phase, dir>> /\ run.at = "webgui"
    BY <1>13 DEF RestartWebGUI
  <2>1. CASE Goto("check") /\ ~run.broke
    <3>1. /\ run'.at = "check" /\ run'.sets = run.sets /\ run'.before = run.before
          /\ run'.listing = run.listing /\ run'.reboot = run.reboot
      BY <2>1, <1>g DEF Steps, Executing, Watched
    <3>2. Updated /\ run.at \in Updating /\ ~Failing
      BY <2>0, <2>1 DEF Updated, Updating, Failing
    <3>3. (RunsKernel <=> RunsKernel') /\ (RunsPackages <=> RunsPackages')
      BY <2>0 DEF RunsKernel, RunsPackages
    <3> QED BY <1>s, <1>u, <2>0, <3>1, <3>2, <3>3
  <2>2. CASE Fail(TRUE)
    BY <2>0, <2>2, <1>F DEF Executing, Watched
  <2> QED BY <1>13, <2>1, <2>2 DEF RestartWebGUI
\* No reboot is required: what is installed has been running all along.
<1>n. ASSUME run.at \in Updating, ~Failing, RunsKernel, dir.plan.alwaysReboot => RunsPackages,
             run'.at = "postcore", run'.before = run.before,
             UNCHANGED <<guest, boot, opts, phase, dir>>
      PROVE  BootInv'
  <2>1. run'.at \notin Updating \cup Planning /\ run'.before = None /\ phase' = "executing"
    BY <1>n, <1>s DEF Updating, Planning
  <2>2. RunsChange'
    BY <1>n DEF RunsChange, RunsKernel, RunsPackages
  <2> HIDE DEF RunsKernel, RunsPackages, Success, Updated, RunsChange, Failing
  <2> QED BY <2>1, <2>2 DEF BootInv, Updating, Planning
<1>14. CASE CheckSets
  <2>0. /\ UNCHANGED <<repo, guest, boot, job, opts, phase, dir>> /\ run.sets = None
        /\ run.at = "check" /\ Updated /\ run.at \in Updating /\ ~Failing
    BY <1>14 DEF CheckSets, LandedInv, Updated, Updating, Failing
  <2>1. (RunsKernel <=> RunsKernel') /\ (RunsPackages <=> RunsPackages')
    BY <2>0 DEF RunsKernel, RunsPackages
  <2>2. ASSUME NEW at \in {"sets", "after"}, Goto(at)
        PROVE  BootInv'
    <3>1. /\ run'.at = at /\ run'.sets = run.sets /\ run'.before = run.before
          /\ run'.listing = run.listing /\ run'.reboot = run.reboot
      BY <2>2, <1>g DEF Steps, Executing, Watched
    <3> QED BY <1>s, <1>u, <2>0, <2>1, <2>2, <3>1
  <2>3. CASE Goto("postcore") /\ ~dir.plan.alwaysReboot
    <3>1. run'.at = "postcore" /\ run'.before = run.before
      BY <2>3, <1>g DEF Steps, Executing
    <3> QED BY <1>s, <1>n, <2>0, <2>3, <3>1
  <2>4. CASE Fail(TRUE)
    BY <2>0, <2>4, <1>F DEF Executing, Watched
  <2> QED BY <1>14, <2>2, <2>3, <2>4 DEF CheckSets, AfterSets
<1>15. CASE InstallSets
  <2>0. /\ UNCHANGED <<repo, boot, opts, phase, dir>> /\ run.at = "sets" /\ Updated
        /\ run.at \in Updating /\ ~Failing
    BY <1>15 DEF InstallSets, Updated, Updating, Failing
  <2>1. CASE Fail(TRUE)
    BY <2>0, <2>1, <1>F DEF Executing, Watched
  <2>2. ASSUME NEW result \in Outcomes("sets"), Change(result), ~outputFails(result.reply),
               run' = [run EXCEPT !.at = AfterSets("bootid"), !.reboot = TRUE,
                                  !.sets = stripPackageRevision(guest.updater)]
        PROVE  BootInv'
    <3> DEFINE sets == stripPackageRevision(guest.updater)
               at == AfterSets("bootid")
    <3>1. sets \in Version /\ at \in {"after", "bootid"} /\ at \in Steps
      BY <1>0, VersionTypes DEF Disks, AfterSets, Steps, Executing, Watched
    <3>2. run' = [run EXCEPT !.at = at, !.reboot = TRUE, !.sets = sets]
      BY <2>2
    <3>3. guest' \in Install("sets", "all")
      BY <1>0, <2>2, OutcomeType DEF Change, Changing, outputFails
    <3>4. guest'.core = guest.core /\ guest'.updater = guest.updater
      BY <3>3, InstallOf DEF Changing, Amounts
    <3>5. RunsPackages <=> RunsPackages'
      BY <2>0, <3>4 DEF RunsPackages
    <3> HIDE DEF sets, at
    <3>6. /\ run'.at = at /\ run'.sets = sets /\ run'.reboot /\ run'.listing = run.listing
          /\ run'.before = run.before
      BY <1>0, <3>1, <3>2, MemoryStep
    <3>7. CASE at = "after"
      <4>1. run'.sets # None
        BY <3>1, <3>6, NoneAssumption
      <4> QED BY <1>s, <1>u, <2>0, <3>5, <3>6, <3>7, <4>1
    <3>8. CASE at = "bootid"
      <4>1. run'.at \notin Updating \cup Posts \cup Planning /\ ~Success'
        BY <1>s, <2>0, <3>6, <3>8 DEF Updating, Posts, Planning, Success, Succeeding
      <4> QED BY <1>s, <2>0, <3>6, <4>1, BootAway
    <3> QED BY <3>1, <3>7, <3>8
  <2> QED BY <1>15, <2>1, <2>2 DEF InstallSets
<1>16. CASE ListAfter
  <2>0. /\ UNCHANGED <<repo, guest, boot, job, opts, phase, dir>> /\ Updated
        /\ run.at = "after" /\ run.at \in Updating /\ ~Failing /\ dir.plan.alwaysReboot
    BY <1>16 DEF ListAfter, Updated, Updating, Failing, TypeInv
  <2>1. CASE Fail(TRUE)
    BY <2>0, <2>1, <1>F DEF Executing, Watched
  <2>2. CASE ~Fail(TRUE)
    <3> DEFINE reboot == run.reboot \/ Listing # run.listing
               at == IF reboot THEN "bootid" ELSE "postcore"
    <3>1. run' = [run EXCEPT !.at = at, !.reboot = reboot]
      BY <1>16, <2>2 DEF ListAfter
    <3>2. reboot \in BOOLEAN /\ at \in {"bootid", "postcore"} /\ at \in Steps
      BY <1>0 DEF Memory, Steps, Executing
    <3>3. at = "postcore" => ~run.reboot /\ Listing = run.listing
      OBVIOUS
    <3> HIDE DEF reboot, at
    <3>4. run'.at = at /\ run'.before = run.before
      BY <1>0, <3>1, <3>2, MemoryStep
    <3>5. CASE at = "bootid"
      <4>1. run'.at \notin Updating \cup Posts \cup Planning /\ ~Success'
        BY <1>s, <2>0, <3>4, <3>5 DEF Updating, Posts, Planning, Success, Succeeding
      <4> QED BY <1>s, <2>0, <3>4, <4>1, BootAway
    <3>6. CASE at = "postcore"
      <4>1. RunsKernel
        BY <1>s, <2>0, <3>3, <3>6
      <4>2. RunsPackages
        BY <1>s, <2>0, <3>3, <3>6 DEF RunsPackages, Listing
      <4> QED BY <1>n, <2>0, <3>4, <3>6, <4>1, <4>2
    <3> QED BY <3>2, <3>5, <3>6
  <2> QED BY <2>1, <2>2
<1>17. CASE ReadBootID
  <2>0. UNCHANGED <<repo, guest, boot, job, opts, phase, dir>> /\ phase = "executing"
    BY <1>17 DEF ReadBootID, TypeInv, Executing
  <2>1. CASE Fail(FALSE)
    BY <1>17, <2>0, <2>1, <1>F DEF ReadBootID, Executing
  <2>2. CASE run' = [run EXCEPT !.at = "shutdown", !.before = boot.id]
    <3>1. run'.at = "shutdown" /\ run'.before = boot.id
      BY <1>0, <2>2, MemoryStep
    <3>2. run'.at \notin Updating \cup Posts \cup Planning /\ ~Success'
      BY <2>0, <3>1 DEF Updating, Posts, Planning, Success, Succeeding
    <3>3. boot'.id >= run'.before /\ boot'.id = run'.before
      BY <1>0, <2>0, <3>1
    <3> HIDE DEF RunsKernel, RunsPackages, Success, Updated, RunsChange, Failing
    <3> QED BY <2>0, <3>2, <3>3 DEF BootInv, Updating, Planning
  <2> QED BY <1>17, <2>1, <2>2 DEF ReadBootID
<1>18. CASE Shutdown
  <2>0. UNCHANGED <<repo, guest, boot, opts, phase, dir>> /\ phase = "executing"
    BY <1>18 DEF Shutdown, TypeInv, Executing
  <2>1. run'.at = "wait" /\ run'.before = run.before
    BY <1>18, <1>g DEF Shutdown, Steps, Executing
  <2>2. run'.at \notin Updating \cup Posts \cup Planning /\ ~Success'
    BY <2>0, <2>1 DEF Updating, Posts, Planning, Success, Succeeding
  <2> QED BY <2>0, <2>1, <2>2, BootAway
\* The boot that answers is not the one that was read, so it began after the change.
<1>19. CASE WaitForReboot
  <2>0. UNCHANGED <<repo, guest, boot, job, opts, phase, dir>> /\ run.at = "wait"
    BY <1>19 DEF WaitForReboot
  <2>1. CASE NewBoot /\ Goto("postcore")
    <3>1. run'.at = "postcore" /\ run'.before = run.before
      BY <2>1, <1>g DEF Steps, Executing
    <3>2. run.before # None /\ boot.id # run.before
      BY <2>0, <2>1 DEF JobInv, NewBoot
    <3>3. boot.id >= run.before /\ RunsKernel /\ RunsPackages
      BY <3>2 DEF BootInv
    <3>4. RunsKernel' /\ RunsPackages' /\ RunsChange'
      BY <2>0, <3>3 DEF RunsKernel, RunsPackages, RunsChange
    <3>5. run'.at \notin Updating \cup Planning /\ phase' = "executing"
      BY <2>0, <3>1 DEF Updating, Planning, TypeInv, Executing
    <3> HIDE DEF RunsKernel, RunsPackages, Success, Updated, RunsChange, Failing
    <3> QED BY <2>0, <3>1, <3>3, <3>4, <3>5 DEF BootInv, Updating, Planning
  <2>2. CASE Fail(FALSE)
    BY <2>0, <2>2, <1>F DEF Executing
  <2> QED BY <1>19, <2>1, <2>2 DEF WaitForReboot
<1>20. CASE Verify
  <2>0. /\ UNCHANGED <<repo, guest, boot, job, opts, phase, dir>> /\ run.at = "verify"
        /\ phase = "executing"
    BY <1>20 DEF Verify, TypeInv, Executing
  <2>1. CASE Fail(FALSE)
    BY <2>0, <2>1, <1>F DEF Executing
  <2>2. CASE Finish
    <3>1. run'.at = "save" /\ run'.before = run.before
      BY <1>0, <2>2, FinishStep
    <3>2. RunsChange'
      BY <2>0 DEF BootInv, Posts, RunsChange, RunsKernel, RunsPackages, Major, HasPlan
    <3>3. run'.before # None =>
            /\ boot'.id >= run'.before
            /\ boot'.id # run'.before => RunsKernel' /\ RunsPackages'
      BY <2>0, <3>1 DEF BootInv, RunsKernel, RunsPackages
    <3>4. run'.at \notin Updating \cup Planning /\ phase' = "executing"
      BY <2>0, <3>1 DEF Updating, Planning
    <3> HIDE DEF RunsKernel, RunsPackages, Success, Updated, RunsChange, Failing
    <3> QED BY <3>2, <3>3, <3>4 DEF BootInv, Updating, Planning
  <2> QED BY <1>20, <2>1, <2>2 DEF Verify
<1> QED BY <1>1, <1>2, <1>3, <1>4, <1>5, <1>6, <1>7, <1>8, <1>9, <1>10, <1>11, <1>12,
           <1>13, <1>14, <1>15, <1>16, <1>17, <1>18, <1>19, <1>20
        DEF Invocation

\* Every step keeps BootInv.
LEMMA BootNext ==
  TypeInv /\ JobInv /\ VersionInv /\ LandedInv /\ BootInv /\ TypeInv' /\ [Next]_vars
    => BootInv'
<1> SUFFICES ASSUME TypeInv, JobInv, VersionInv, LandedInv, BootInv, TypeInv', [Next]_vars
             PROVE  BootInv'
  OBVIOUS
<1>1. CASE World
  BY <1>1, BootWorld
<1>2. CASE StartPrepare \/ StartExecute \/ Invocation \/ Killed
  BY <1>2, BootInvocation
<1>3. CASE UNCHANGED vars
  BY <1>3, BootQuiet DEF vars, host
<1> QED BY <1>1, <1>2, <1>3 DEF Next

\* The five layers hold together in every state the program reaches.
THEOREM FirmwareInvariant == Spec => []FirmwareInv
<1>1. Init => FirmwareInv
  BY TypeInit, JobInit, VersionInit, LandedInit, BootInit DEF FirmwareInv
<1>2. FirmwareInv /\ [Next]_vars => FirmwareInv'
  BY TypeNext, JobNext, VersionNext, LandedNext, BootNext DEF FirmwareInv
<1> QED BY <1>1, <1>2, PTL DEF Spec

\* After a recorded success the guest runs the kernel that is installed, and with
\* the always-reboot setting the packages too: the boot that the reboot step took
\* for the new one really began after the last change, and where none was made the
\* old one had loaded it all (reboot.go, rebootGuest; firmware.go, packageListing).
THEOREM SuccessRunsWhatIsInstalled == Spec => []RunsWhatIsInstalled
<1>1. FirmwareInv => RunsWhatIsInstalled
  BY DEF FirmwareInv, TypeInv, TypeOK, BootInv, Success, RunsChange, RunsKernel,
         RunsPackages, Major, HasPlan, RunsWhatIsInstalled
<1> QED BY <1>1, FirmwareInvariant, PTL

\* The guest leaves the installed release series only along a plan for the target
\* series: no update, no leftover command and no boot crosses it without one
\* (firmware.go, isMajorUpgrade and majorPlan).
THEOREM SeriesNeedsMajorPlan ==
  Spec => [](\/ guest.core.series = 1 /\ guest.base.series = 1 /\ guest.kernel.series = 1
             \/ Major /\ opts.target = 2)
<1>1. ASSUME FirmwareInv
      PROVE  \/ guest.core.series = 1 /\ guest.base.series = 1 /\ guest.kernel.series = 1
             \/ Major /\ opts.target = 2
  <2>1. CASE Major
    BY <1>1, <2>1 DEF FirmwareInv, VersionInv
  <2>2. CASE ~Major
    <3>1. TypeInv /\ Level
      BY <1>1, <2>2 DEF FirmwareInv, VersionInv
    <3>2. guest.core.series = 1 /\ guest.updater.series = 1
      BY <3>1, FirstSeries
    <3>3. /\ stripPackageRevision(guest.updater) \in Version
          /\ stripPackageRevision(guest.updater).series = 1
      BY <3>1, <3>2, Versions, VersionTypes
    <3>4. \A v \in Version : ~Older(stripPackageRevision(guest.updater), v) => v.series = 1
      <4>1. \A v \in Version : v.series \in 1..2
        BY DEF Version
      <4> QED BY <3>3, <4>1, OlderOrder
    <3> QED BY <3>1, <3>2, <3>4, Versions DEF Level
  <2> QED BY <2>1, <2>2
<1> QED BY <1>1, FirmwareInvariant, PTL

\* What a caller may conclude from the answer to a command: status 0 means that all
\* of the work is done and nothing goes on, a command that went on never answered,
\* and a stream that was refused has done nothing (svc/exec.go, rpc_typed.go).
THEOREM AnswersAreTrue ==
  ASSUME NEW fate \in Fates
  PROVE  /\ "zero" \in GuestExec(fate) => Work(fate) = {"all"} /\ ~GoesOn(fate)
         /\ GoesOn(fate) => GuestExec(fate) = {"error"}
         /\ ~Started(fate) => GuestExec(fate) = {"error"} /\ Work(fate) = {"none"}
         /\ GuestExec(fate) # {} /\ GuestExec(fate) \subseteq Replies
<1>1. /\ Error.err /\ \A exit, t : ~Result(exit, t).err /\ Result(exit, t).exit = exit
  BY DEF Error, Result
<1>2. /\ fate.link # "whole" \/ fate.ends = "unstarted" => RPCExec(fate) = {Error}
      /\ fate.link = "whole" => RPCExec(fate) = runExec(fate)
  BY DEF RPCExec, Exec, runExec, Fates
<1>3. RPCExec(fate) = {Error} => GuestExec(fate) = {"error"}
  BY <1>1 DEF GuestExec
<1>4. GuestExec(fate) \subseteq Replies
  BY DEF GuestExec, Replies
<1>5. runExec(fate) # {}
  BY DEF runExec, Fates
<1>6. GuestExec(fate) # {}
  BY <1>2, <1>3, <1>5 DEF GuestExec
<1>7. "zero" \in GuestExec(fate) => fate.link = "whole" /\ fate.ends \in {"zero", "held"}
  <2>1. ASSUME fate.ends = "nonzero" PROVE \A res \in runExec(fate) : res.exit # 0
    <3>1. runExec(fate) = {Result(1, FALSE), Result(-1, TRUE)}
      BY <2>1 DEF runExec
    <3>2. Result(1, FALSE).exit = 1 /\ Result(-1, TRUE).exit = -1
      BY <1>1
    <3>3. \A res \in runExec(fate) : res.exit = 1 \/ res.exit = -1
      BY <3>1, <3>2
    <3>4. -1 # 0 /\ 1 # 0
      OBVIOUS
    <3> QED BY <3>3, <3>4
  <2>2. fate.ends \in {"unstarted", "zero", "held", "nonzero"}
    BY DEF Fates
  <2>3. ASSUME fate.link = "whole", fate.ends = "nonzero" PROVE "zero" \notin GuestExec(fate)
    BY <1>2, <2>1, <2>3 DEF GuestExec
  <2> QED BY <1>2, <1>3, <2>2, <2>3
<1> QED BY <1>2, <1>3, <1>4, <1>6, <1>7 DEF Work, GoesOn, Started, Fates

=============================================================================
