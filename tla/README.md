# win-validator in TLA+

win-validator judges Authenticode signatures inside disposable Windows guests. An untrusted
ingress takes uploads and writes rows into a shared job store; a host-side pool-manager claims the
rows and validates the spooled inputs in a warm pool of VMs; a nightly rotation rebuilds the golden
image those VMs boot from, gates it and promotes it. This directory models that program: the
modules, what TLC checks on small instances, what TLAPS proves for every instance, and what is left.

## Inventory

| component | state | operations | what is hard | what makes it correct |
|---|---|---|---|---|
| **submission pipeline** (`ingress.py` POST /scan, the job store, `pool_manager.py`) | rows with status and claim, job directories, scratch trees, claim threads, `_stop` | spool and create; claim, copy and hash, validate, record, publish, consume; recover orphans; sweep; start, warm, stop, exit | threads, two processes sharing a volume and a store, store calls that raise after their commit, kills, a second manager, a sweep that acts on an old read | an accepted job keeps its input until it is decided; one verdict per job; evidence named is evidence kept; nothing stays for ever |
| **ingress reads, body cap** (`ingress.py`, `body_cap.py`) | none; a per-request byte count | status, list, certificate search; cap the body | a chunked body without a length | a body over the cap never reaches a handler |
| **egress posture** (`pool_manager._refuse_open_egress`, `vm_pool.validate_egress_posture`, `upgrade.sh`) | knobs, a sysctl | refuse a start | three readers must agree | what the preflight accepts the manager starts |
| **warm VM pool adapter** (`vm_pool.py`, `engine.py`, `host_runner.py`) | `_POOL`, workers and leases of the library's pool | start, claim, classify a fault, release, reap, shut down | a shutdown during a start, whose fault a failure is | no worker is left behind; a good worker is not evicted for a bad sample |
| **all-in-one orchestrator** (`orchestrator.py`) | rows in memory, an executor, a poker thread | submit, run, evict, shut down | eviction against running jobs, queued jobs against shutdown, threads that do not start | every upload has somebody to remove it, every pool is reaped, what a reader sees of a job agrees |
| **golden promotion** (`golden_rotate.py` rotate .. restart_pool, `winval-pool-manager.service`) | disk twin, RAM twin, backups, temporaries, a lock, the unit | copy, back up, publish twice, roll back, prune, restart; materialise the RAM base | short copies, renames of unknown outcome, kills between two renames, a start during a rotation, reboots | what is published is whole, what is reported is true, the twins agree, the copies needed are kept |
| **chain record** (`golden_rotate.py` chain_length, _record_chain, snapshot_source) | a depth in a record, a mirror, sidecars and markers, ordered by their modification times | record, seed, mark, prune | each of several writes and removals failing; a kill between two; a build that decides before another's promotion | the depth read is the promoted golden's, so the master rebake is not postponed |
| **build, refresh and gate; holds and prunes** (`golden_build.py`, `refresh_and_rotate`, `build_candidate`, `validate_golden`, `_prune_backups`, `_held_backups`) | candidates, copies and backups beside the golden, holds, runs of hours | preflight, copy, bake, gate, promote, hold, release, prune | another run's prune between two holds of the lock; a pid reused; kills that leave images and holds | no prune takes what a run needs; what a dead run left goes |
| **restart** (`restart_pool`, `_ready_marker_fresh`, the unit, `pool_manager.py` start and stop) | the unit, the readiness marker, the posture of the host | try-restart or reset-failed and restart, wait for the marker | a marker of an earlier life; a unit stopped or failing at any moment; a preflight on a host not yet prepared | a golden said to be in service is; what the preflight accepts the start accepts; a stopped unit stays stopped |
| **environment files, knobs** (`parse_env_file`, `knobs.py`, `compose-env.sh`, `upgrade.sh`) | none | parse | four readers of one file | they read the same values |
| **packer, containers, HTML** | none | | | |

They meet in five places: the **job store** and the **job volume** (ingress and manager), the
**rotation lock** and the **base images** (rotation and the unit's pre-start), and **systemctl**
(the rotation restarts the manager). Every hazard at its line, with the properties that cover it, is
in `PROJECT.json`.

## Modules

| module | role |
|---|---|
| `JobLifecycle` | abstract: what the submission tier promises about one job |
| `JobPipeline` | ingress, store, managers, claim threads, recovery, retention |
| `JobPipelineProofs` | its inductive invariant, safety theorems and refinement |
| `MCJobPipeline` | instances for TLC |
| `GoldenPromote` | rotators, the twins, the backups and the unit's pre-start |
| `AtomicPromotion` | abstract: a promotion is one step on both twins, or none |
| `GoldenPromoteProofs` | its inductive invariant, safety theorems and action properties |
| `AtomicPromotionProofs` | the refinement of `AtomicPromotion` by `GoldenPromote` |
| `ChainRecord` | the depth of the golden: record, mirror, sidecars, markers, with builds and promotions |
| `ChainRecordProofs` | its inductive invariant and safety theorems |
| `MCChainRecord` | its symmetry for TLC |
| `GoldenBuild` | the runs that make, use and prune images: the timer's cycle, an operator's bake, a retry |
| `GoldenBuildProofs` | its inductive invariant and action properties |
| `PoolRestart` | restart_pool, the unit, the manager's posture check and its readiness marker |
| `PoolRestartProofs` | its inductive invariant, safety theorems and action property |
| `VmPool` | one process's pool of guests: first use, claim, evidence, reap, shutdown |
| `VmPoolProofs` | its inductive invariants, safety theorems and action property |
| `Orchestrator` | the all-in-one server over `VmPool`: uploads, rows, executor, poker, lifespan |
| `OrchestratorProofs` | its inductive invariant and safety theorems, over those of `VmPool` |

`Orchestrator` extends `VmPool`: its threads validate through that module's actions, and its
invariant contains that module's. The four rotation modules cut one program along its seams instead
of composing it, because their product is out of TLC's reach: `GoldenPromote` has the promotion in
full and no candidates; `GoldenBuild` has the candidates, and a promotion as one step; `ChainRecord`
has the depth, and a promotion as one step; `PoolRestart` has the restart in full, and one golden.
What one module reduces to a step is what another's properties say of that step: a promotion
publishes whole, keeps its backup and holds the lock throughout (`PublishedWhole`, `RollbackKept`,
`LockInv`), and to whoever takes the lock next it is one step on both twins or none, as its outcome
says. That is the abstract specification `AtomicPromotion`, which `GoldenPromote` implements. It
names the exceptions: a split state (reported), a rename that took effect and was reported failed,
and a kill or a reboot between the renames.

Definitions marked "Mutant:" are plausible bugs in the operator that follows them; each property is
shown to notice at least one. They are used by no specification.

### JobPipeline

A job is one upload. `req` is where `ingress.scan` is with it, `row`/`claim`/`recent` its row in the
store, `dir`/`spool`/`out`/`scratch` its files, and `seen` a history variable (a mismatch was
logged). A manager (`mgr`, `stop`, `todo`, `drop`) runs `run()` with its recovery; its retention
thread is `swpc`, `swjob`; each claim thread is at `pc` in `_process` with a job `cur`, a result
`res`, an open input (`opened`) and whether its write reached the store (`recorded`).

| actions | code |
|---|---|
| `Spool`, `SpoolEnds`, `Create`, `Ask` | `ingress.scan`: spool, hash, create the row; when `create` raises, ask the store whether the row is there before the spool is unlinked |
| `Start`, `Refuse`, `ListOrphans`, `RecoverRow`, `RecoverUnlink`, `RecoverEnd`, `Warm`, `WarmEnds`, `Exit` | `PoolManager.run` and `_recover_orphans` |
| `Claim`, `ReadInput`, `Validate`, `Record`, `Publish`, `RecordFailure`, `Close` | `_worker_loop` and `_process` with `_publish` |
| `SweepStat`, `SweepGet`, `SweepRemove`, `SweepScratch` | `_sweep_one`, `_sweep_job_root`, `_rm_job_dir` |
| `Sigterm`, `Killed`, `IngressKilled`, `SpoolChanges`, `AgeDir`, `AgeFinish` | the environment |

Steps are split where another actor can see or change what is between them: before and after every
store call, around the unlink, between the sweep's read and its removal.

Abstractions. A spool is absent, partial, as hashed, or changed. A store call returns, or raises
without ("lost") or with ("landed") its effect. The clock is reduced to whether a directory and a
finished row are older than the retention cutoff. Errors of a clean-up leave what a kill at that
point leaves. Left out: the readiness marker (`PoolRestart`), file names and descriptor-relative opening, the
contents of a verdict, exceptions other than `OSError` out of `_publish`.

A create that raised is "asking" until the ingress has looked for the row, and "committed" when it
found one: from its commit on that job's input is kept like an accepted one's (`Standing`).

Assumptions. The retention window is at least a day (`_retention_days`) and no request or validation
lasts that long: the cutoff does not pass the directory of a request in flight nor the row of a job
still in hand. The retention is enabled (for `EventuallyReclaimed`). When `create` landed and the
question whether it did raises too, the ingress removes the spool of a queued job: `ingress.py:93-94`
chooses that, the caller did not get a 202, and the properties do not count such a request.

### GoldenPromote

`disk` and `ram` hold the image each twin contains: a candidate, the packer master, a torn copy or
nothing; `owner` is the RAM twin's owner. `backups` are images with the rotation they were taken in
(the order of the modification times `_prune_backups` sorts by), `kept` those with a `.keep`
sidecar. A rotator is at `pc` in `rotate`; its locals `cand`, `src`, `bak` vanish when it returns.
`was`, `lied` and `twins` are history: the twins when it took the lock, whether a rename that took
effect was reported failed to it, and whether a split state, a kill between the renames or such a
rename may have left the twins apart.

| actions | code |
|---|---|
| `Preflight` | the part of `rotation_preflight` that holds the lock |
| `Begin`, `Check` .. `MvRam`, `Rollback`, `Prune` | `rotate`, `_rotate_locked`, `_promote`, `_backup_current`, `_prune_backups` |
| `Restart`, `Settle` | `restart_pool` |
| `UnitStart`, `UnitLock`, `BaseCheck`, `BaseCopy`, `BasePublish`, `UnitRetry`, `UnitLockTimeout` | the unit's second pre-start, `flock -w 1800` included |
| `UnitWarm`, `UnitDies`, `UnitStop` | the manager as the rotation sees it |
| `Chown`, `Reboot`, `RotatorKilled` | the environment |

Every command is one step. A copy leaves the whole file, a part of it or none, and returns success
or not, in every combination; a rename succeeds, fails, or fails as seen from `_run` after it took
effect (a timeout is rc 124). Refusals before anything is written (symlinks, no space, knobs) are
one refusing branch of `Check`. A pre-start that fails inside the rotator's `try-restart` makes the
command itself fail: `Settle` may answer `restartFailed` while the unit waits for `RestartSec`.
A clean-up that fails leaves what a kill at that point leaves, and the next sweep takes it.
In other modules: the chain record (`ChainRecord`), the ageing of candidates and the holds
(`GoldenBuild`), the readiness marker (`PoolRestart`). Assumed: the two twins are different paths,
and nothing outside the modelled commands writes to them.

### ChainRecord

`copies` maps each small file that is there (record, mirror, sidecars, markers) to the depth it holds
and the files modified after it (`newer`): the order of the times is all `chain_length` reads of them.
`golden` is the image on disk: how often its bytes were really rebaked (`t`), the depth promoted with
it (`d`), and two history fields. `gap` is what became of that depth: "lost" (said in the log, or a kill
before anything held it) or "outranked" (below); `off` says that it was counted from a golden whose own
record, or one before it, had such a gap. `build` is each rebake in flight; `pc`, `cur`, `mirrored` the
promotion that holds the lock, in the order of `_record_chain`.

| actions | code |
|---|---|
| `BakeMaster`, `Snapshot`, `Finish`, `RmCandidate` | `snapshot_source` and the sidecar of `golden_build.build`, `_rm_candidate` |
| `Preflight` | the prune and the seeding of `rotation_preflight` |
| `Promote`, `Restore` | `_rotate_locked` with a candidate or with a backup, whose provenance is unknown |
| `WriteMirror`, `WriteRecord`, `RmStale`, `Keep`, `Touch`, `Tidy`, `Prune` | `_record_chain`, `_keep_as_unrecorded`, the markers' part of `_prune_backups` |
| `Killed` | the environment |

A command succeeds, fails, or is reported failed by `_run`'s timeout after its effect. The touch that
dates a marker may fail without a further fault, since both stores have just refused a write: its
result is not looked at (`golden_rotate.py:337-341`) and the depth is logged as kept. When some copy
written since the bake is newer than that marker the depth is "outranked", which nothing says: the
properties exempt it by name, and the findings below describe it. Abstracted:
`rebake_source` decides without the lock and an operator may bake from either image at any time, so
both sources are always open and `MasterDue` is about what the decision reads. Modification times
are strictly ordered. Left out: `_rm_candidate`'s branch for a candidate that vanished under its
run, and a second promotion of one candidate.

### GoldenBuild

`file` says of each image name what it is (candidate, copy of the golden, backup), whether its age is
past its retention and the pid in a copy's name; `newer` has for each backup those with a later
modification time, by which `_prune_backups` counts, and `later` those that were made after it. `job` is
the run each pid has, at `pc` with its base, its candidate and the holds its prune has read (`seen`);
`holds` are the `.keep.build-` sidecars with their pid and whether the start time in the name is the
running process's.

| actions | code |
|---|---|
| `StartCycle`, `CycleFromMaster` | `refresh_and_rotate`, started by the timer; a reset of the chain |
| `StartJob` | `build_and_promote` and the `rotate` command |
| `Preflight`, `Refuse`, `PreflightPrune`, `Sweep` | `rotation_preflight`: hold, read the holds, prune, release, sweep stranded copies, space |
| `Snapshot`, `FromOutside`, `FromCandidate`, `FromBackup`, `Overlay`, `Built`, `BakeFails` | `snapshot_source`, `golden_build.build`, `build_candidate` with their cleanups |
| `Gate`, `RotateRefused`, `Promote`, `PromotePrune`, `After`, `RetryAfter`, `Unhold` | `validate_golden`, `rotate`, and what each caller does with a promoted, rejected or kept candidate |
| `Age`, `Killed` | the environment |

A touch may fail and leave a candidate's age: of a base, where nothing looks at the result
(`golden_build.py:169`), and of a candidate kept for a retry, where it is warned of
(`golden_rotate.py:1446-1447`). `stale` says that of the run at hand.

Steps are split where the lock is taken or released and where another run can act: between reading
the holds and removing, between touching a base and opening it. Abstracted: one file's age check and
its `rm` are one step; the guest's steps are one that succeeds or fails; a failed write of a build's
hold is the bake's failure; the lock wait's length is a choice. Retention is days and a run is hours,
so a candidate does not age past its retention while a run that wrote or freshened it still goes
(`Fresh`, the guard of `Age`); any other image may, also a base before its touch or after a failed one.
Names are time stamps: none is reused while a file, a hold or a run speaks of it. The `.keep` of a
split state is `GoldenPromote`'s and the depth `ChainRecord`'s.

### PoolRestart

`host` is what the posture depends on: the exit knob, the number of workers, the bridge sysctl and
whether its module can be loaded. `unit` and `golden` are the unit's present life and what it booted
from; `marker` is `READY_FILE` as `restart_pool` compares it with its start; `asked` is a restart job
under way, `wanted` whether the operator left the unit running.

| actions | code |
|---|---|
| `PreStart`, `Check`, `Warm`, `Stopped` | the unit's pre-starts, `_refuse_open_egress` with `validate_egress_posture`, `run()`'s marker, warm-up and exit code |
| `Dies`, `AutoRestart`, `OperatorStops` | the environment: crashes, `Restart=on-failure` with its start limit, `systemctl stop` |
| `Preflight`, `Published` | `rotation_preflight`'s posture, then the promotion |
| `Restart`, `JobFails`, `IsActive`, `Sees`, `GivesUp` | `restart_pool` |
| `Again` | the next week's run |

The marker's write time is compared with a two-second margin, so one written just before may pass for
this start's: `Published` may find it "now". "Loadable" stands for modprobe's plan and for the
insertion; a module the kernel refuses in spite of its plan is out, as `pool_manager.py:169-170` says
of it. Left out: a stop that outlasts `TimeoutStopSec`, a stop during the pre-start,
`GOLDEN_RESTART_SETTLE_S=0`, an empty `GOLDEN_RESTART_SERVICE`, a sysctl changed by hand between
pre-start and check, and a unit that fails between `is-failed` and `try-restart`. The preflight and
the manager read the same environment file.

### VmPool

`POOL`, `plock` are the module's singleton and its lock; pools are numbered as they are booted
(`made`) and `stopped`. A guest `<<pool, worker>>` is `booting`, `warm` or `leased`, may be `dead`
(unreachable) and `blamed` (its last evidence was a worker fault, so a second one evicts it); `left`
are those a stop failed to destroy. Each thread is at `pc` in `get_pool` or `validate`; `lease` is
its guest and `out` how its last call ended. `proc` is the process: serving, asked to stop, in
`shutdown_pool`, gone.

| actions | code |
|---|---|
| `Call`, `Get`, `Boot`, `Poll`, `Return` | `HostRunner.warmup`/`validate`, `get_pool` with `WarmVmPool.__init__`, `start` and `_reap` |
| `Claim`, `Verdict`, `AgentFails` | `WarmVmPool.validate` with `check_sample`, `agent_validate` and `fault_of` |
| `ShutStop`, `ShutClear` | `shutdown_pool` |
| `StopAsked`, `Joined`, `Exit` | `PoolManager.stop` and the end of `PoolManager.run`: the threads are joined first |
| `Spawn`, `Warms`, `GuestDies` | the library's spawn loop and its guests |

The warm pool is blastbox's and not in this repository: `Stop`, `ReleaseClean`, `ReleaseDirty` and
`Spawn` are what the comments and calls in `vm_pool.py` say of it (two worker faults in a row evict,
every dirty release reverts, job evidence clears the streak, unknown evidence leaves it). The kinds
of failure are those `fault_of` tells apart. Time-outs are choices: a warm-up may give up at any
poll that finds no warm guest. Left out: reuse counts, the smoke test's and clock sync's contents,
spawn rate limits, and the one-shot runner's SIGTERM handler, which shuts the pool down in the
middle of its only call.

### Orchestrator

`req` is where `scan()` is with an upload, `tmp` the uploads whose temporary file exists, `rows` the
ids of `_jobs` in insertion order, `row` and `pane` the statuses of the row and of its one engine.
The event loop runs `create` and `submit` of one request without an await between them (`loop`).
The executor is `queue`, `alive`, `shut`; each thread has its job `cur` and its place `step` in
`_run_inner`, and validates through the actions of `VmPool`. `poker` says whether the poker thread
could be started (`JobStore.__init__` goes on without one), `poke` is the poker between its look and
its locks, and `stranded` is history: what was queued when the executor was shut without ever a thread.
A refusal writes the row and the pane in two sections of the store's lock, and readers run in threads of
their own: they are steps of their own. The event loop's thread `Main` boots the pool when the server starts.

| actions | code |
|---|---|
| `Upload`, `UploadFails`, `Create`, `Submit` | `scan`, `JobStore.create` with the eviction, `JobStore.submit` with both kinds of failure |
| `RefuseRow`, `RefusePane`, `RefuseUnlink` | `scan` after `NotQueued`: the row, its engine, the upload |
| `Take`, `JobStart`, `Unavailable`, `EngineStart`, `EngineEnds`, `JobDone`, `JobLost`, `JobUnlink` | `_run`, `_run_inner` |
| `PokeLooks`, `Poke` | `_poke_loop` |
| `StartUp`, `StartUpEnds`, `LifespanEnds`, `Shutdown` | `lifespan` |
| `ThreadEnds`, `InterpreterExit`, `ProcessEnds` | CPython's executor and its exit hook |

Left out: the read endpoints, several engines in one request, a broken pool (the executor has no
initializer that could break it), names and sizes of uploads.

## Runs

| run | instance | shows |
|---|---|---|
| `pipeline_overlap` | 1 job, 2 managers with a thread each, 3 faults | with a hand-started second manager: input (also after an ambiguous create) and evidence kept, retention harmless, one verdict (refinement of `JobLifecycle`) |
| `pipeline_live` | 1 job, 1 manager with 2 threads, 2 faults, fairness | the deployed shape: recovery never fails a job in hand, every row is decided, everything is reclaimed |
| `pipeline_evidence` | as above, safety | **violation**: a spool logged as "kept for inspection" is unlinked by the next start's recovery |
| `promote` | 2 rotators, 2 images, 2 rotations, 2 faults, `GOLDEN_KEEP_N`=1, fairness | what is published is whole, reported truly and one step on both twins (refinement of `AtomicPromotion`), and the RAM twin follows the disk twin; the rollback copy, the recovery copy and the only golden are kept; a promotion gets into service or says that it did not |
| `promote_nothing` | 1 rotator, 1 fault | **violation**: "a rotation that changed NOTHING" may have published the disk twin |
| `chain` | 2 rebakes in flight, a reset every 2, 2 faults | the depth read is the one promoted with the golden, unless it was lost or is outranked; a rebake from the master that is due is seen to be due, unless the count went wrong so |
| `builds` | 2 processes, 3 image names, `GOLDEN_KEEP_N`=1, 1 operator's run, 2 faults, fairness | no prune takes a running bake's base (but an over-age one whose touch failed), a retry's candidate or a rollback image that is not surplus; what killed runs left is reclaimed |
| `restart` | every host, 2 faults | a golden said to be in service is; preflight and start agree on the posture; a stopped unit stays stopped |
| `vmpool` | 2 threads, 2 guests a pool, 2 pools, 2 faults, fairness | one pool, every guest reapable and leased to one thread, no guest blamed for a sample, nothing left behind by a process that joins its threads, every call answered |
| `vmpool_sample` | the same | **violation**: a sample that becomes unreadable after the claim counts against the guest |
| `orchestrator` | 2 uploads, a store of 1 row, 1 of 2 possible threads, 2 pools, 2 faults, fairness | uploads kept while needed, and somebody left to remove each (but what an exit without a thread strands); the thread limit; row and pane agree; queued jobs are run, by the poker if it must and there is one |
| `orchestrator_shutdown` | the same | **violation**: guests outlive the process after a "clean" shutdown |

**Bounds.** Jobs share nothing but the threads and the recovery's list, so one job with two managers
or two threads has the races; two managers are the smallest number that can disagree. Two faults let
a lost write be followed by a kill; the third, in the runs where states allow, hits the repair of the
second. Two rotations of two images let one replace the golden the other made and prune what the
other backed up, with `KEEP_N`=1; the proofs cover more rotations and any `KEEP_N`. Two rebakes in
flight let one be promoted between another's copy and its promotion, and a reset every two is the
smallest that a depth of one does not reach; two faults take the record and the mirror, or a copy
and the removal of what it should have replaced, with a failed touch on top (three also hold, in five
minutes instead of one). Three image names hold a golden's copy, a candidate and a backup; one
operator's run beside the timer's cycle gives the prunes somebody else's files. Two lives of the manager may fail
in `restart`. Two pools are what a second boot needs, and two threads what a race for the first one
needs. A store of one row evicts at the second upload; the executor of one thread has two to choose
from, so that a thread too many can be started. Builds in flight are interchangeable (`chain`, safety
only); no other run uses symmetry. Only the runs of the pools, whose process ends, allow deadlock.

**Fairness.** Threads and processes that are running take their next step (weak fairness on
`RequestStep`, `ManagerStep`, `ProcessStep`, `RotatorStep`, `UnitStep`); nothing forces a fault, an
upload or an operator's command. `Claim` and the sweeps are strongly fair: each is tried again for
ever, by polling and every interval, and may be disabled in between by a restart. `Sigterm` is
weakly fair in `pipeline_live`: the rotation's timer restarts the unit after every promotion, and
that restart is what recovers a row whose last write was lost. `UnitLock` is strongly fair: a
blocked `flock` gets the lock if it is freed again and again; so is `Boot`, whose `acquire` blocks
on `_POOL_LOCK`. In `GoldenBuild` a running step goes on and time passes (weak fairness on `Step`
of each pid and on `Age` of each file) and the timer fires for good, under any pid (strong fairness on
`StartCycle`, which another's cycle disables): that next run is what reclaims a killed one's files.
`ChainRecord` and `PoolRestart` have no liveness property and no fairness. In `VmPool` and
`Orchestrator` threads (`ThreadStep`, `RunStep`), the poker, where there is one, and the
event loop (`RequestStep`) are weakly fair; guests need not ever get warm, uploads and stops need
not come. Without a poker `EventuallyRun` promises only what a thread that started will run, as the
warning of `orchestrator.py:94` says.

**Findings.** The four violations are disagreements of a comment or a log line with the code, found
while modelling; `PROJECT.json` quotes them. In the promotion, a publish rename of the
disk twin that outlives its 120 s timeout and lands is reported as "nothing published", and the
backup of the replaced golden is then removed, which leaves the twins apart with nothing to say so.
`OutcomeTrue` and `RamFollowsDisk` hold of every outcome but that one. In the orchestrator, the end of
the lifespan destroys the pool but does not join the executor: a job still queued or before
`get_pool` boots a second pool that nobody shuts down. The same property holds of a process that
joins its threads first, as the pool-manager does (`vmpool`).

Three smaller ones are named exceptions of properties that hold otherwise; drop the exception and TLC
finds the trace.

- *A silent stale depth* (`DepthKept`, `MasterDue`: "outranked"). `_keep_as_unrecorded` says that "the
  marker must date from the promotion" (`golden_rotate.py:338`) and ignores whether its touch succeeded;
  `_record_chain` then logs that `chain_length()` reads the marker (:1268). A rebake is built; a preflight
  seeds the record and the mirror with the old depth; the rebake is promoted, and the mirror, the record
  and the touch all fail; the marker, dated as the build, loses to the record, and the next cycle counts
  from there with nothing logged.
- *A base that ages out under its bake* (`BackingKept`: `stale`). `golden_build.py:161-162` freshens the
  base "so the prune leaves it alone" and does not look at the result (:169): a candidate past its
  retention whose touch failed is taken by another run's prune while the overlay reads from it.
- *A stranded upload* (`UploadOwned`: `stranded`). `orchestrator.py:269` says of an upload that "nothing
  sweeps /tmp", so somebody must remove each. A job is queued while no thread can start, the server ends
  and the executor is shut: no thread is ever started for it, and its upload stays.

## Proofs

`JobPipelineProofs` proves, for every set of jobs, managers and threads, any ownership of threads,
one manager or several and any number of faults (`ConstantsAssumption` is all that is assumed):

1. `Invariance`: `Spec => []IInv`. None of the safety properties is inductive by itself.
   `AcceptedKeepsInput` needs to know that a thread that unlinks has recorded (`ThreadInv`), that
   recovery unlinks only what it made terminal (`RecoverInv`), that the sweep's read is still true
   when it acts (`SweepInv`: a terminal row never becomes live again and an aged one never becomes
   recent), and that the ingress unlinks only before the row exists or after it said so
   (`RequestInv`). `EvidenceKept` needs `MismatchInv`, the same fact one step earlier;
   `NoLiveJobOrphaned` needs `ExclusiveInv`. `IInv` is the conjunction.
2. `TypeCorrect`, `InputOfAcceptedJobKept`, `EvidenceOfMismatchKept`, `OrphansAreDead`: its parts.
3. `SweepSparesLive`: the action property, from `IInv`.
4. `PipelineImplementsLifecycle`: under the mapping `StatusShown`, `OutputShown` every step is a step
   of `JobLifecycle` or a stutter.

The proof goes action by action; the lemmas about one part of the invariant are stated of groups of
actions that touch its variables.

`GoldenPromoteProofs` proves, for every set of rotators and candidates, every `GOLDEN_KEEP_N` and any
number of rotations and faults (`PromoteAssumption` is all that is assumed: the constants are
naturals and the special values differ):

1. `PromoteInvariance`: `Spec => []PInv`, with one lemma per action and in it one step per part of the
   invariant that the action can disturb. `PInv` adds to the properties what they rest on. `LockInv`:
   whoever is past `Begin` and not past `Prune`, or in the locked part of a pre-start, holds the lock,
   so no two of them interleave. `CopyInv`: the temporaries about to be renamed are whole copies of
   the candidate (`PublishedWhole` needs it a step earlier). `TwinInv` and `UnitInv`: what is on disk
   and in RAM at each step, relative to what the rotation found. `BackupInv`: the backup a rotation
   took is the newest one, of the golden it found, and unmarked. `AgreeInv`: the twins agreed when the
   publish under way began.
2. `PromoteTypes`, `PromotePublishesWhole`, `PromoteTellsTruth`, `PromoteTwinsAgree`: its parts and
   consequences.
3. `PromoteKeepsRollback`, `PromoteHoldsRecoveryCopy`, `PromoteKeepsOnlyGolden`: the action properties,
   from `PInv` and two lemmas that say which steps can take a backup away or write the RAM twin.

`VmPoolProofs` proves, for every set of threads and workers and any number of pools and faults:

1. `PoolInvariance`: `PoolSpec => [](PoolInv /\ EndInv)`. `PoolInv` is `PoolTypeOK`, `LockInv` (a thread
   that starts a pool holds `_POOL_LOCK`; its pool is the newest, and every older one is stopped) and
   `LeaseInv` (guests are of a pool not stopped, in one place each; a thread at the agent has one of
   its own, leased unless its pool was stopped under it). `EndInv`: a process that joins its threads
   has none when it reaps and no pool when it is down.
2. `PoolIsOne`, `PoolIsReapable`, `LeaseIsHeld`, `PoolIsReaped`: the run's safety properties;
   `SampleBlamesNoGuest`: its action property, with a lemma on the evidence each outcome gives.

`OrchestratorProofs` proves, for every set of uploads, threads and workers and any size of the store
and the executor: `OrchestratorInvariance`, that `OInv` holds. It contains `PoolInv` as it stands (the
pool's actions keep it, and the server's own actions are frames of it), so `OnePool` holds of the server
too (`OrchestratorHasOnePool`). To `UploadKept` and `UploadOwned` it adds that a job is in the queue or
with one thread, which is alive, that a request is answered before the server ends, and that a shut
executor without threads has only `stranded` jobs in its queue; to `PaneTold` what row, pane and thread
are at each step of a refusal and of a run; and to `ThreadsBounded` that the set of threads is finite.
One lemma per action and part; the facts about appending to and taking
from a queue without repeats are lemmas of their own. `PoolIsReaped` does not carry over:
`orchestrator_shutdown` refutes it there.

`PoolRestartProofs` proves, for any number of failures, `RestartInvariance`. `AskedInv`: a restart job
is waiting for a stop or has begun a life from the new golden. `LifeInv`: once it is done, every life
is from the new golden and a fresh marker is such a life's; this is what `ServiceIsTrue` needs.
`HostInv` and `PostureInv`: the manager judges a prepared host, and that judgement is the preflight's
(`PosturesAgree`). `StopInv`: no restart job survives an operator's stop (`StoppedStaysDown`).

`AtomicPromotionProofs` proves `PromoteImplementsAtomic` from `PInv`. The refinement mapping shows, while
a rotation is between its two renames, the twins it found (`was`), and its outcome from the moment it
has one until it gives the lock up. Three lemmas say what is shown when nobody has the lock, when a
rotation is on its way and when it has its outcome; every action then moves from one of these to
another. That a rollback shows as nothing rests on `BackupInv` (it copies back the golden it found);
that the RAM twin is never new where the disk twin is old rests on `TwinInv`, except after a
misreport.

`ChainRecordProofs` proves, for every set of rebakes in flight, every `GOLDEN_MAX_CHAIN` and any number
of faults, `ChainInvariance`. `Dated`: the dates are a strict total order of the files that are there, so
that one is newest wherever any is counted. `RecordInv`: between promotions the newest file counted
holds the depth promoted, unless it was lost or is outranked; during one the mirror, the record, the
sidecar or the marker holds it, and is the newest or about to be renamed and dated. `BuildInv` and
`GoldenInv`: what a rebake carries, in hand or in its sidecar, and what is promoted with it, is at
least the number of rebakes that really happened, or enough for the master to be due, unless the count
is `Miscounted`. `DepthIsKept` and
`MasterIsDue` are consequences. The lemmas about `Put` and `Without` (what a write or a removal does to
the order and to the newest file) carry the proof.

`GoldenBuildProofs` proves, for any number of processes, names, operator's runs and faults and every
`GOLDEN_KEEP_N`, `BuildInvariance`. `HeldSeen`: who prunes has read every hold that is valid, because
none is made while another has the lock. `BaseKept`, `CopyOwned`, `RetryHeld`, `CandOwned`: what a
run depends on is its own copy under its own pid, a candidate it has dated (or failed to: `stale`), or a
held image. `OrderInv`:
both orders of the backups are the same strict total order, so what counts as surplus by its date is
surplus by its making (`NewestIsRetained`). `BackingIsKept` and `RetryIsKept` then say of every action
that it takes no image some run is guarded by (`Guarded`), with one lemma for what each of the prunes,
cleanups and re-uses of a name spares.

The type invariants of these seven modules are parts of the inductive invariants and proved
(`TypeCorrect`, `PromoteTypes`, `PoolTypes`, `OrchestratorTypes`, `RestartTypes`, `ChainTypes`,
`BuildTypes`), so no run repeats them.

**Only model-checked.** The liveness properties: `EventuallyDecided`, `EventuallyReclaimed`,
`EventuallyInService`, `EventuallyAnswered`, `EventuallyRun` and `Reclaimed`, since fairness and ENABLED
are beyond the prover. Every other property that a passing run checks is a theorem. Order is kept as
sets of newer files and backups and not as a sequence, because the lemmas about filtered sequences want
induction over data, which the prover cannot use; that the sort and the slice of `_prune_backups` leave
the newest `KEEP_N` is `Surplus` as it stands.

## Not modelled

- **Ingress read endpoints and body cap.** The reads change no state; the cap counts the bytes of one
  request in one coroutine, with nothing to interleave with.
- **Environment files and knobs.** Parsing text, once, at a process's start. What a knob's value
  decides is a constant (`KeepN`, `MaxChain`, `MaxRows`) or an initial choice (`Hosts`).
- **Guest scripts.** What virsh, ssh and PowerShell do inside a guest is a step that succeeds or
  fails; the source says no more of it than its exit code.
- **Packer, containers, HTML.** Image build scripts and declarative configuration.
- **One-shot runner's signal handler.** It runs in the middle of the only call of a process that has
  one thread; `vm_pool`'s shutdown is modelled for processes that go on.

## What is left

The composition of `GoldenBuild` with `ChainRecord`'s depths, which needs smaller instances of both; a
specification of the adapter's promise to its callers (a lease is held by one call and every call is
answered once) that `VmPool` implements; that the one-step promotions of `ChainRecord` and
`GoldenBuild` are steps of `AtomicPromotion`, with their files mapped to its twins.
