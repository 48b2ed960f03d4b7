# Verification of the komizo host

komizo deploys container workloads to small servers. A caller on a workstation
submits an exact source revision over SSH; the host verifies the release,
stages its configuration, starts it, checks its readiness, and keeps a durable
record of every step. This directory holds TLA+ modules of the host and of the
workstation's side of it, the TLC configurations that check them, and TLAPS
proofs. `src/` below is the repository; paths such as `src/src/host/...` are
inside it.

Run `tlc -config <cfg> <Module>.tla` and `tlapm <Module>.tla` in this directory;
the section on runs names the module of each configuration.

## 1. Inventory

### Parts of the system and the state each keeps

| Part | Code | State | Operations |
|---|---|---|---|
| Operation journal | `src/src/workload/operation.rs`, `operation-contract.json` | `releases/<app>/operation.json`: identity, candidate, previous revision, deadline, phase | `record()`, called by every part below |
| Activation worker | `src/src/host/workload/activation.rs`, `deployment.rs`, `src/src/workload/activation.rs` | `activations/pending.json` (one request for the whole host), `<id>.json` results, `credentials-<id>/`, `staging-<id>.json` snapshots, the four configuration files, `.komizo-image-retention` | `activation_pass` every 500 ms: stage, activate, report |
| Submission | `src/src/host/workload/commands.rs` | the same files | `deployment-submit` |
| Reconciliation | `src/src/host/workload/reconciliation.rs` | the same files | `restore-serving`, `accept-candidate`, `abandon-initial` |
| Release admission | `src/src/host/workload/admission.rs`, `transaction.rs`, `src/src/workload/release.rs`, `delivery.rs` | acceptances, delivery grants, the policy | admit by proof, approval or rollback; trust, delivery-enable, delivery-authorize |
| Owner lifecycle | `src/src/host/workload/owner.rs`, `src/src/host/stopped.rs`, `application.rs` | stop record in `state/<app>` | `start`, `stop`, `restart` |
| Static serving | `src/src/host/workload/static_serving.rs` | serving record, public trees, route; `static_operation` in the memory of a `Host` | prepare, publish, store, abort, prune; owner verbs |
| Locks and fences | `src/src/host/locking.rs`, `src/src/runtime/platform.py` | `deploy-<app>.lock`, `operation.lock`, `previews.lock`; `upgrades/pending.json` | flock with timeouts; released by the kernel |
| Command inbox | `src/src/host/inbox.rs`, `results.rs`, `store.rs`, `src/crates/api/src` | inbox directory, results directory | API enqueues, daemon sweeps, claims, performs, records, prunes |
| Previews | `src/src/host/preview/` | preview records, compose projects, databases, networks, routes | up, down, evict, reap |
| Routine backups and tasks | `src/src/host/workload/operations.rs`, `src/src/workload/backup.rs` | claims of runs | verify a proof, claim, export, record |
| Image cache and binding | `src/src/host/workload/image_cache.rs`, `src/src/workload/release_bind.rs` | remembered configuration digests | pull, inspect, export, look up, evict |
| Bounded processes | `src/src/process.rs` | one child process group and its pipes | drain, reap, kill |
| Caller CLI | `src/src/caller/` | none on the host | check, ask, request, wait, report an envelope |
| Setup and registration | `src/src/caller/provision.rs`, `keys.rs`, `src/src/runtime/alpine.sh` | key files, targets, the account, record and rules of an application | `setup`, resumed after any interruption |
| Platform upgrade | `src/src/runtime/platform.py`, `maintenance.py` | `upgrades/pending.json`, stages | prepare, apply, recover |
| Secrets | `src/src/host/workload/secrets.rs`, `scoped.rs` | generations and a `current` link | install, check before a start |
| Policy, compose, readiness, resources | `src/src/workload/` | none (pure checks over files) | parse, compare, probe |
| Observation, monitor reads, UI | `src/src/host/observer.rs`, `collect.rs`, `sweep.rs`, `src/app/` | reports, history, logs | sample, append, serve |
| `vendor/gtmpl` | third party | | |

### How they interact

The daemon (`src/src/host/commands/daemon.rs`) runs threads for the command
inbox, the activation worker, logs, sweeps and previews; every operator command
is a process of its own. They share files. The deployment locks (application
lock, then host-wide lock) make one submission, activation pass, reconciliation
or lifecycle command exclude all others on the host; previews and platform
upgrades take the host-wide lock too, in other orders. Outside these locks are
written: the owner's stop record (so that a running activation sees it at its
next look), the policy and the delivery grants, the acceptance that
`release-bootstrap` makes, the journal when the `operation` and `ready` verbs are
used directly, and everything the lifecycle verbs of an
application without deployment authority do. The command inbox is shared by two
processes without any lock; it relies on atomic renames, on the result file
being created and never replaced when a command is claimed, and on the expiry of
envelopes. A caller's connection may break after the host began the work. Docker
and the proxy are external: a call may fail after it took effect.

Memory is shared as well: the worker and the command inbox each have one `Host`
(`daemon.rs` 150, 180) as long as the daemon lives, and a `Host` never forgets its
`static_operation` (`src/src/host/workload/activation.rs` 38). What one task left
there, the next one finds, be it of another application.

### What is hard, and what makes each part correct

- *Journal*: many callers, any order, late answers. Decisions are final; what may
  have touched the installed application is held against the next operation, as far
  as the phases go; nothing is accepted after its deadline.
- *Worker*: a crash or an error after each of some thirty durable steps, then the
  same request again. Containers are never started twice for one operation;
  mixed files are fenced and restorable; `ready` means files, containers, proxy
  and retention agree; every request ends with a result and without credentials.
- *Owner lifecycle*: stops race activations, reconciliations and starts. A stop
  holds until the owner starts the application, and a stop record that stands is
  of a stop that was carried out.
- *Reconciliation*: acts on a reviewed state that may have changed. It closes an
  operation only over what really serves.
- *Admission*: checks made before a lock are used under it while the policy is
  edited, and bootstrap has no lock at all. An acceptance is kept as given; a stateful
  application goes forward only.
- *Shared proxy*: one application's deployment reloads all routes.
- *Static serving*: tree, route, record, journal and proxy change in separate
  steps that may fail or be cut off, and memory outlives the task that filled it. No
  route leads to a missing tree; a refused candidate leaves what served before.
- *Locks*: orders that are not the same, fences that outlive their writers. One
  command is inside; nothing moves behind an upgrade; nobody waits for ever.
- *Inbox*: redelivery, crashes between claim and effect, results that are
  forgotten. A command takes effect at most once, its result is true, and what is
  in the inbox is answered.
- *Previews*: a dozen external commands that fail half way. Limits hold, whatever
  is left is still recorded, one preview's job does not take another off the air,
  and an unused one is reclaimed.
- *Backups*: a proof can be sent again, a call can die. The exporter of a run starts once.
- *Image binding*: tags move, records are evicted. The bound image has the accepted
  configuration.
- *History*: an append may be cut off at any byte, and the file is replaced while it
  is read. A reader misses and repeats nothing that was appended whole.
- *Bounded processes*: descendants keep pipes open after their parent ended. The
  kill reaches this group and no other; captured output is complete.
- *Caller*: a receipt is true, and an error that does not ask for inspection
  promises that nothing changed.
- *Setup*: interruption anywhere. An accepted key is one somebody holds.

`PROJECT.json` lists every hazard at its line, with its properties or the reason
it has none.

## 2. Modules

| Module | Models | Code it corresponds to |
|---|---|---|
| `JournalPhases` | phases, decisions, legality, fence, deadline rule (constant level) | `operation.rs`, the contract |
| `DecisionLog` | abstract: what an operation's decision may do (open, work, refuse, conclude, reconcile) | the promise; no code |
| `OperationJournal` | `record()` with arbitrary callers | `operation.rs` |
| `DeploymentHost` | the durable state of deployments, the lock holder, shared effects | files, `locking.rs`, compose, proxy, retention |
| `ActivationWorker` | the pass, one action per durable step | `activation_pass`, `stage_deployment`, `activate` |
| `OwnerCommands` | submission, reconciliation, lifecycle under deployment authority | `commands.rs`, `reconciliation.rs`, `owner.rs` |
| `Deployment`, `MCDeployment` | composition of the three, clock, crashes, properties; symmetry for TLC | |
| `DeploymentProofs` | theorems about what the deployment has on record | |
| `DeploymentServingProofs` | theorems about what it serves | |
| `StaticServing` | an application with a static profile, from the configured request on | `static_serving.rs` and its callers, `routes.rs`, `static_tree.rs` |
| `StaticServingProofs` | theorems about it | |
| `HostLocks` | every lock file, each command's order, timeouts, deaths, the two fences | `locking.rs`, `platform.py`, callers of both |
| `ReleaseAdmission` | admission of one application's releases | `admission.rs`, `transaction.rs`, `release.rs`, `delivery.rs` |
| `StopRecord` | start, stop and restart without deployment authority | `application.rs`, `stopped.rs` |
| `Previews` | `preview up`, `down`, `gc` | `src/src/host/preview/` |
| `RoutineBackup` | backup proofs, claims, exporter, named tasks | `operations.rs`, `backup.rs` |
| `ImageCache` | binding a service to an image, and the memo of digests | `image_cache.rs`, `release_bind.rs` |
| `BoundedProcess` | one child with a descendant, and its owner | `process.rs` |
| `CommandInbox` | API and daemon around the inbox | `inbox.rs`, `results.rs`, API `http.rs`, `store.rs` |
| `Caller` | workstation commands over a connection that breaks | `src/src/caller/` |
| `HostSetup` | `setup` and the registration script | `provision.rs`, `keys.rs`, `state.rs`, `alpine.sh` |
| `ReportHistory` | what the daemon persists at a tick, and the readers of the history | `store.rs`, `daemon.rs`, `read.rs`, API `store.rs` |
| `ReportHistoryProofs` | theorems about it | |
| `HostParts`, `MCHostParts` | safety of the parts whose models share no variables, one at a time; images and symmetry for TLC | |
| `HostAdmits`, `MCHostAdmits` | safety of admission and of previews, one at a time; pipelines, policies and symmetry for TLC | |
| `HostEnds` | liveness and locks: journal, locks, previews, inbox, one at a time | |
| `PartsProofs` | theorems about `StopRecord`, `RoutineBackup`, `ImageCache`, `HostSetup`, `Caller`, `BoundedProcess` and `CommandInbox` | |
| `HostPartsProofs` | these, the ones about `StaticServing` and `ReportHistory`, and the types, for `HostParts` | |
| `HostAdmitsProofs` | theorems about `ReleaseAdmission` and `Previews`, and for `HostAdmits` | |
| `HostEndsProofs` | theorems about `OperationJournal` and `HostLocks`, and for `HostEnds` | |

`HostParts`, `HostAdmits` and `HostEnds` compose parts that do not share variables. A behaviour
chooses one part in its initial state and only that part moves, so TLC explores
the sum of the parts and not their product; nothing of the models is lost, because no
action of one reads a variable of another. The program shares more than these models
do: where it matters, what the others do is an action of the part (`ServeOther` and
`ReloadByOther` in `StaticServing`, deployments in `RoutineBackup`), and section 5 names
what is left out. That every step of the composition is a step of each
part or none is proved, so that the theorems about the parts hold of what TLC runs. The parts that do interact are composed step
by step: worker, owner and reconciliation in `Deployment`, the journal underneath
them by `JournalsKept`, all lock takers in `HostLocks`.

### Correspondence

*Deployment.* Revisions stand for configuration bytes: a file is "of" a revision.
The four protected files are compose.yml, route, hostnames and .env in the order
the code replaces them; `files[a]["env"]` is APP_VERSION. `containers[a]` is the
revision whose containers run, `proxy[a]` the revision whose route the running
proxy loaded. Hashes and release checks become equality of revisions, or a
possible refusal. `task` is the holder of the deployment locks: its program
counter, the application, and the local variables that matter (`phase` of
`activate()`, which runs ahead of the journal and decides how a failure is named;
`halted` for its `stopped`; `seen` for the stop record a command read). The two
locks are always held together there, so one record describes their holder;
`LocksFree` is the guard of `DeploymentLock::acquire`, and `HostLocks!OneInside`,
proved, is why one holder is enough. `Crash` may end any task anywhere. An effect
that can fail has a failing alternative that may leave the effect done
(`PartlyStarted`, `ActivationFails`). The owner's stop record is the number of the
stop that wrote it, because the code compares a hash of the file: two stops are
two different records. Time is a Boolean per operation, `late`, that becomes
true at any moment; every step whose context carries the operation's deadline
needs it false. Operation identities, random in the code, are drawn in order.

*Static serving.* The holder of the locks carries the `StaticOperation` of the
code as `task.own`, `before`, `route` and `retained`. It begins with what its `Host` has
(`kept`, one for the worker, one for the command inbox, none for a command of its own
process) and leaves it there (`Begin`, `Leaves`), as nothing resets `static_operation`;
the daemon's restart does (`DaemonRestarts`, `StaticCrash`), and a deployment or start
of another static application puts its own there (`ServeOther`). An abort before
`prepare_static` therefore puts back what an earlier task had read, and a candidate that
is found stopped is accepted with an earlier record (`activation.rs` 352). `borrowed` is
the ghost that says so: the last deployment before which a task wrote from an operation
it had not made itself. `routeFile`, `routePrev` and `loadedRoute` are the file, its
`.prev` and what the proxy loaded. A route leads through the gate (containers) or
to a tree. `put back` and the steps after it are `abort_static_operation`, reached
from every step that can fail. `earlier` keeps what an abort has to leave behind: the
route file, the record and the retention before the staging, until the owner stops,
starts or restarts the application, which makes something else of them. It is the route
*file*: an operation that failed before its route was loaded leaves the file behind, and
the abort of the next one puts that file back and loads it. Of a first deployment the
retention record stays after a failure, since an empty `previous_retain` is not put
back.

*Locks.* `Order` is the sequence in which a command asks; `AcquiresLock` is one
turn of the polling loop; `upgrade` and `pending` are the two files that outlive a
process. What a command does inside is one step that raises or lowers a fence.

*Admission.* A release is a commit and a build; a proof is of a build and has a
time of issue. `calls` are the verbs in progress with the policy they read before
they had the lock. `release-bootstrap` is one of them, without the lock: it makes the
acceptance, looks whether there is one, and writes, in three steps (`BeginBootstrap`,
`LookBootstrap`, `WriteBootstrap`). The worker appears as its ends (`Refuse`, `FailConfigured`,
`Accept`, `Reconcile`).

*Previews.* A job is the holder of the locks; each Docker command or file
replacement is a step. A preview may have two route files, one by host name and one by
path, as the name of the file depends on the routing; a job writes, restores and removes
the one that its record names (`FileOf`). A `preview down` looks its record up before
it waits for the locks (`LookUp`, `WaitedDown`): the preview may have the other routing
by then. `served` is a ghost: the previews that came up and were not asked for again,
taken down, evicted or reaped; `stale` is another: the previews that a `down` took by a
record of the other routing.

*Backups, image cache, bounded process.* One action per system call that *Backups, image cache, bounded process.* One action per system call that others
can see. Docker knows some images by the digest of their configuration (`ByConfig`), the
others are exported once and remembered; a binding that any step fails is refused, and
the one of a local release's configuration image looks, once, for another image among
the remembered (`search`, `Refusal`). The pool of process numbers is modelled by `GroupExists`: a kill of a
number that is free reaches somebody else.

*Lifecycle without authority.* The look at the record (or at what runs), the
record, Docker and the clearing are separate actions, since no lock holds them
together; the record has a lock of its own and is changed in one step. A refusal
by `refuse_start` has the effect of a verb that breaks off.

*Caller.* A command is its plan, the order of checks and requests in the function
that implements it. What a check looks at is left out, where it stands is not:
that order makes the exit code and the envelope true or false. `update` goes on after a
failed refresh ("try") and fails with its result. `wire` and `heard`
are requests and answers under way; a caller gives up and its request goes on.

*Setup.* `parts` are the effects of the script in order; `script` goes on after
its workstation is gone, or aborts and undoes what its backups allow.

*Inbox.* Time is a counter, since ages and expiries are compared with each other.

*History.* The file is a sequence of bytes, a sample a few of them and a new line, so
that an append can stop at any of them and the next line be glued to what is there. A
reader holds the file it opened (`own` once that was replaced) and the next byte to
read. It asks for all times. A sample's time is its number. A line longer than `RecordMax`
(4 MiB in the code) ends a reader and a trim with an error; a sample fits, but one that
is glued to a torn line need not, and then readers fail until that line has left what
they look back over. `EarlierSamples` lines of earlier ticks are in
the file at the beginning, so that the first trim is near.

Some variables are history only, and no action depends on them: `ups`, `torn` and
`disturbed` in `Deployment`; `torn`, `earlier` and `borrowed` in `StaticServing`; `performed`,
`lost` and `forgotten` in the inbox; `changed` in `Caller`; `served` and `stale` in `Previews`;
`exports` and `exported` in `RoutineBackup`; `whole` in `ReportHistory`; `struck` in `BoundedProcess`; `earned`
and `broken` in `StopRecord`. Counters such as `crashes`, `stops`, `faults` and
`given` count toward bounds.

Operators whose comment begins with "Bug:" are not part of any specification.
Each is a definition with a plausible mistake; substituting it makes the property
that `PROJECT.json` pairs it with fail.

## 3. What the runs check

| Configuration (module) | Bounds | Shows |
|---|---|---|
| `DeploymentRecovery.cfg` (`MCDeployment`) | 1 application, 2 revisions, 2 operations, 1 crash, no stops | no replay; mixed files fenced and restorable; credentials gone; `ready` and `reconciled` mean serving; retention; final results; each journal behaves as `OperationJournal` |
| `DeploymentStops.cfg` (`MCDeployment`) | 1 application, 1 revision, 1 operation, 2 stops, 1 crash; fair worker | a stop holds; results agree with the journal; every request is answered |
| `DeploymentTwo.cfg` (`MCDeployment`) | 2 applications (one stateful, one with readiness), 1 revision, 2 operations | a ready application keeps its containers and route |
| `HostParts.cfg` (`MCHostParts`) | one part at a time, bounds below | safety of the inbox, static serving, the caller, setup, processes, backups, images, the lifecycle without authority, the history |
| `HostEnds.cfg` (`HostEnds`) | one part at a time: journal with 3 identities; locks with 2 processes, 2 applications; 2 previews; inbox with 2 commands | fence and mutual exclusion; everyone who waits ends; unused previews are reclaimed; commands are answered; the journal implements `DecisionLog` and accepts nothing late |
| `HostAdmits.cfg` (`MCHostAdmits`) | one part at a time: 2 commits, 2 builds, 2 repositories, 2 pipelines, 2 instants, 3 policies and one edit of each kind, one of the pipelines also bootstrapping; previews: 3 (two gated, one stack) at a maximum of 2, one host name and two paths, 3 ports, 4 units of memory, 2 domains, 1 trouble | acceptances kept but where a bootstrap overlaps; a stateful application goes forward only; previews within their limits, recorded and served |
| `OperationJournalContract.cfg` (`OperationJournal`) | violation | the fence of `record()` against the published contract |
| `DeploymentRetention.cfg` (`MCDeployment`) | violation | an accepted application the owner cannot start |
| `DeploymentAccepted.cfg` (`MCDeployment`) | violation | a reconciliation over mixed files |
| `CallerUncertain.cfg` (`Caller`) | violation | a failed `preview database` reported as certain |
| `HostSetupResume.cfg` (`HostSetup`) | violation | a resumed setup that skips the rest of the registration |
| `StopRecordRace.cfg` (`StopRecord`) | violation | an application marked stopped while it runs |

Bounds of `HostParts.cfg`: inbox: 1 command, 2 concurrent requests, 2 failures,
time 0..7 with expiry window 2, skew 1, sweep 3, keep 4; static serving: 2
revisions (symmetric), 3 deployments, 1 stop, 1 fault, the Hosts of the worker and of
commands of their own, another application; callers: 2 with 8 kinds of commands, 2
operations; setup: 1 operator; process: pipes of 1, 3 units written, 2 accepted;
backups: 1 run, 2 revisions, 2 callers, 2 ticks, 1 deployment; images: 3 that are
remembered and one known by its configuration, 2 configurations, 2 binders, 2 records, 1 push, 1 death; lifecycle: 2 services, 2
callers, 3 verbs, 2 troubles; history: samples of 2 bytes, a
limit of 38 and readers that look back 19 (half, as in the code), lines of 4 at most,
3 lines kept, 3
ticks over 12 earlier samples, 2 troubles, 1 reader (readers do not see each other).

Why the bounds are enough. Two operations are needed for every interaction of an
operation with its successor (retention, resubmission, final results), two
revisions to tell candidate from previous; applications may begin empty or
serving, so three installed values occur. One crash can fall between any two
steps, and failures of `Deployment` that do not end the task are not bounded at
all. Two stops are needed for a stop during a start of an application that was
already stopped. Two applications are enough for the shared queue and proxy,
which treat all others alike. Two processes exclude, block and deadlock each
other in every pair of lock orders; the theorems of section 4 hold for any number. In
the inbox the order of the durations is the code's (skew < window < sweep age <
keep, with window + skew <= keep), and the clock runs past the pruning of a
result; in `HostEnds.cfg` there is almost no clock, and two commands compete for
passes of one. Three previews at a maximum of two make an eviction, also after
the operator lowered the maximum, and one of the three targets is a host name, so that a
preview changes its routing; the memory budget then admits every pair of them,
so that `CapacityRespected` is about the number and the ports there. Output of 3 over a
limit of 2 makes the limit bite with a pipe that fills. Three images over two records
make an eviction of a record in use. One fault of a static application is enough for an
operation that is left in a `Host` to be put back by a later task, as that one may fail
or find the application stopped; deployments of another application and restarts of the
daemon are not bounded. `OwnerHosts` is there a command of its own process; the theorems
hold for the daemon's inbox too. The application's two revisions are interchangeable. The clock of `ReleaseAdmission` lets a proof
expire and a grant outlive it; the bootstrap of a stateless application overlaps the
submissions of the other pipeline. A history of
twelve lines is trimmed at the first tick, and its readers look back over half of it.
That half must hold two lines for each trouble and two more (`HistoryAssumption`): a
trouble leaves a torn line and glues the next one to it, and with more of them between
two trims the newest sample on a line of its own drops out of what is looked back over,
in the model as in the code (8 MiB there).

The runs without stops or crashes are not weaker for it: stops and crashes are
explored together in `DeploymentStops.cfg`, and crashes with two operations in
`DeploymentRecovery.cfg`. Deadlock checking is off where the bounds end every
behaviour (everything that counts operations, verbs, failures or time), and on in
`OperationJournalContract.cfg`, whose journal can always step. That nobody waits
for ever in the system itself is a property, `EveryoneEnds`.

### Fairness

Each part of `HostEnds!EndsSpec` has the fairness its module states.

- `Deployment!FairSpec`: weak fairness of `Worker`. The daemon starts a pass every
  500 ms while a request is queued (`daemon.rs`), the locks are freed by the kernel
  when a holder dies, and every effect inside a pass has a deadline (25 minutes for
  the operation, 30-90 seconds for cleanup and readiness).
- Locks: weak fairness of `ProcStep(p)` for every process: its polling loop tries
  again until a deadline, and what it does inside is bounded by one too. Starting
  commands and dying are not fair.
- Previews: weak fairness of `JobStep`, since every Docker command has a deadline;
  strong fairness of `Gc`, since the daemon comes back every hour and polls for the
  lock, and others do not hold it each time it looks.
- Inbox: weak fairness of `Daemon`, the loop of the command thread; pruning, the
  clock and the callers are not fair.

Nothing is assumed of owners, operators, Docker's success or the clock.

### Findings

1. *Contract and fence.* The contract marks `failed` and `readiness_failed`
   `reconciliation_required`; `record()` admits another operation over both
   (`operation.rs` 122-133). Even containers that were starting are let go of so: a
   failure of `activating` is recorded as `activation_failed` and fenced, but a second
   report may follow it with `failed` (line 46), which is not. One consequence is visible as `torn`: a
   restore-serving of a `failed` operation that breaks off leaves mixed files
   without a fence.
2. *Retention.* An activation that fails before containers are started leaves
   .env at the candidate, retention at the old revision, and no fence.
   Submitting the same candidate again makes previous equal to candidate, so
   retention is skipped (`activation.rs` 106) and the operation ends `ready`;
   `owner.rs` 170-173 then refuses to start the application.
3. *accept-candidate* checks compose.yml, containers and readiness, not the route,
   the hostnames or .env, and can close an operation over files of two revisions.
4. *preview database* changes the host, but `mutating()` (`protocol.rs` 95) counts
   it among the reading subcommands: a connection that breaks after the request was
   sent ends with an error that does not ask for inspection.
5. *Setup resumed.* The registration script writes the application's record before
   the rules that let its account deploy (`alpine.sh` 671). A setup that is run again
   after an interruption in between takes the application for an existing one and
   reports it registered.
6. *Lifecycle without authority.* A start of one service, or a restart, that looked
   before a `stop` and asks Docker after it leaves the application marked stopped
   while a service runs; `application.rs` 173-185 means to prevent that.

Three more places where the code does not do what one would expect are exceptions of
properties that hold otherwise, and each property shows that there is no other:

- *A StaticOperation outlives its task* (`src/src/host/workload/activation.rs` 38, 352,
  `static_serving.rs` 491-524). An activation that fails before `prepare_static`, or finds
  its candidate stopped, works with what an earlier task, perhaps of another application,
  left in the daemon's `Host`: it may store that one's record for its own candidate, which
  a later owner start then refuses, or put back a route to a tree that was removed since.
  `TreesPublished`, `AcceptedIsWhole` and `RefusedLeavesServing` except it by `borrowed`;
  `StoppedIsWithdrawn` holds in spite of it.
- *Bootstrap without a lock* (`commands.rs` 735-739). "existing accepted release cannot be
  replaced by bootstrap" (line 737) is not true of two overlapping calls: what another
  verb, or another bootstrap, writes between the look and the write is replaced, and so is
  an acceptance of bootstrap by a verb that had looked before. `AcceptedKept` excepts
  exactly these.
- *A route file of the other routing* (`runtime.rs` 455). A `preview down` that waits for
  its lock while the preview is taken down and made again with the other routing removes
  the containers and the record of the new one, and leaves its route file.
  `EffectsRecorded` excepts the previews of which that is so (`stale`).

`MixedFilesRestorable` holds outside the states findings 1 and 3 lead to. `torn` is the
ghost that names them: a restoration of a `failed` operation, which is not fenced,
broke off; or an accept-candidate closed an operation over files of two revisions. It
is cleared when a submission finds, or a restoration leaves, one revision in all four
files. With three operations `torn` reaches further: after an accept-candidate over
mixed files, the next submission takes its previous revision from `.env` alone, and a
restore-serving of that operation checks containers and the retention record but
neither the route nor the other files. `ReconciledMeansServing` therefore promises
files and route only where nothing was torn. The runs, with two operations, do not
reach that case; the attempt to prove the property did.

## 4. What is proved

For any finite or infinite set of applications and revisions, any number of operations,
stops and crashes (`DeploymentProofs`, `DeploymentServingProofs`): every safety and
action property that `DeploymentRecovery.cfg`, `DeploymentStops.cfg` and
`DeploymentTwo.cfg` check, and the type invariant. The assumption is `HostAssumption`:
the sentinels are in none of the sets they are sentinels of, and the bounds are
natural numbers.

- *What is on record* (`DeploymentProofs`). `IInv == TypeOK /\ Steps /\ Books`. *Steps*
  says what the holder of the locks knows at each of its steps: the task has a subject
  and, in a pass, the queued request is its own (*HolderHasSubject*); operation.json is
  at the phases the step can find (*JournalAt*), and the local `phase` of `activate()`
  runs ahead of it in the known ways (*LocalPhase*); from the replacement of the files
  on there is a snapshot (*SnapshotThere*). *Books* says what holds whoever died:
  what is queued is the application's newest operation, admitted once
  (*QueueOwned*, *IdsFresh*); containers were asked for only where the journal is past
  `configured`, never twice (*StartedOnce*); results and journal agree; a credential
  slot is of a queued request or of a submission in progress (*SlotsOwned*). None of
  the listed properties is inductive without this: that a pass which finds its own
  operation already `activating` does not start containers again depends on the
  journal, the queue and the worker's step together. From `IInv` follow
  `StartedAtMostOnce`, `SuccessAgrees`, `SuccessStays`, `CredentialsGone`, and, step by
  step, `JournalsImplemented`: every application's journal behaves as
  `OperationJournal`, about which `HostEndsProofs` proves the decision log.
- *What serves* (`DeploymentServingProofs`). `ServingInv` stands on `IInv`. *FilesAt*
  gives the four files at each step, as a prefix of the candidate over the previous
  revision or the other way round; *FilesKept* what they are when nobody works;
  *ActivationAt*, *ReconcileAt* and *StartAt* what containers, proxy, stop record and
  retention record are at each step of the three commands that start containers;
  *StopKept* and *ReadyKept* what a stop and a ready operation leave behind, at rest and
  while something else works. The hard steps are the ones where a stop overtakes
  `activate()` between its looks at the stop record, the reload of the proxy, which
  loads the routes of all applications, and a crash in either. From it follow
  `MixedFilesAreRestorable`, `StopsHold`, `ServedUnlessStopped`, `ReadyServes`,
  `ReconciledServes` and `RetentionFollows`.

Both invariants were model-checked before they were proved, on instances with one and
two applications, with and without readiness probes, stops and crashes.

For every set of identities and revisions (`HostEndsProofs`):
`TypeInvariant`, `ImplementsDecisionLog` (`Spec => Log!Spec`) and `NothingAcceptedLate`.
`DecisionLog` says what the journal promises about the next operation with `held`, which
is what is held against it: the files, or the containers that are starting as well.
A refusal lowers it by one step only, and the next operation opens when nothing is held.
That is less than the contract asks, which would keep it until a reconciliation (finding
1), but it excludes that one report of a failed start is enough, in whatever order late
callers report. The type invariant is inductive by itself. Lemmas
settle what `MayRecord` allows from final, refused and activating phases and
after the deadline; the refinement maps an admission to `Open`, the clock to a
stutter, and the record of a later phase to the step its decision calls for.
Assumption: the absent journal is neither an identity nor an operation.

For every set of commands and every value of the bounds (`PartsProofs`):
`InboxTypeInvariant` and `CommandsApplyOnce`. At-most-once is not inductive: it
needs to know why a performed command is not performed again. The strengthening
is `InboxInv == TypeOK /\ HandClaimed /\ EffectRemembered`. *HandClaimed*: between
claim and record, the command in hand has its result, and has not been performed
before the effect. *EffectRemembered*: a performed command has been
performed once, and either still has its result, written at most `Window` before
the envelope expires, or its envelope has expired for good. The step that needs the
durations is the pruning of a result: it is older than `Keep`, the envelope was
valid when it was claimed, hence expired at most `Window` later, and with `Skew`
more no one accepts it any longer. This is the assumption `Window + Skew <= Keep`
(360 s against 24 h in the code), stated in `InboxAssumption`; without it the
property is false. `ResultsTellTheTruth` (`ResultsTrue`) stands on `InboxInv`: a result
"missed" must not be written over one that is lost, and a result "done" only by the
process that performed the command. *HandApplying* keeps the result of the command in
hand at "applying" while it is performed; *NothingUntold* says that a command without
a result, unless its result was pruned, has not been performed.

For any processes and any finite set of applications (`HostEndsProofs`):
`LocksInvariant`, `HostIsOnes` (`OneInside`) and `NothingBehindTheFence`
(`FenceHolds`). Commands take their locks in different orders, and what they have in
common is only that the host's lock is among them; the invariant
therefore says of each process that it holds the locks its order lists up to where
it has got (*HeldByOwner*), that a process without a command holds none
(*RestingHasNone*), and that behind the fence no workload command holds the host's
lock, be it inside or still waiting for another (*FenceHeld*). The last is stronger
than `FenceHolds`, and is what the look of `platform_idle` at the moment the lock is
got makes inductive. Assumptions: applications are finitely many, so that the
platform can list them, and "free" is no process.

For any commits, builds, repositories, callers, policies and edits
(`HostAdmitsProofs`): `AdmissionTypeInvariant` and `AcceptancesAreKept`
(`AcceptedKept`). `admit` looks for an acceptance in one step and writes it in
another. The invariant adds that a verb past its admission holds the application's
lock (*HolderWorks*), and that the commit a verb is about to accept is accepted by
nobody yet (*FirstAcceptance*), unless by a bootstrap. Bootstrap has no lock: it may
replace what was written since it looked, and be replaced by a verb that looked before it
wrote, and `AcceptedKept` says that these are the only cases. No stateful policy admits
a bootstrap, and a policy remains stateful, so `ForwardOnly` is not touched.
`StatefulGoesForward` (`ForwardOnly`) stands on it: a release is compared with the
current one when the verb is admitted and queued later, so the invariant says that
what a verb carries since is no older than what is current (*CarriesForward*), that no
acceptance is from the future (*AcceptedInThePast*), and that the policy a verb read
before it waited agrees with the one it queues under on whether the application is
stateful (*StatefulStays*). Assumptions: the null value is in none of the other sets, and the application
is registered under a policy of the declared shape.

For any revisions of a static application and any number of deployments, stops, failures
and deaths (`StaticServingProofs`): `StaticTypes`, `TreesStayPublished`
(`TreesPublished`), `StopsWithdraw` (`StoppedIsWithdrawn`), `AcceptedStaysWhole`
(`AcceptedIsWhole`) and `RefusedLeaves` (`RefusedLeavesServing`), all but `StopsWithdraw`
except where a task wrote from another's operation. All follow from one
invariant, `StaticInv`, shown to be kept by each of the thirty-odd actions. *InHand* and
*ActivationInHand* say what the holder of the locks has in memory and what the files are
at each step, as an abort and an acceptance both act on what was read many steps before,
or by another task (`made`, *ReadIt*). *KeptWhole* says that what a `Host` keeps has a
record with every route, and *OwnFiles* marks the conjuncts that hold only as long as
nothing was borrowed since the staging; that a stop withdraws needs neither, since what
is put back while a stop is on record is a route through a gate, whoever read it.
*RoutesLead* is `TreesPublished` and more: the route of a snapshot that may still be
restored leads to a tree as well, or a restoration would break it. *WholeAsAccepted* adds
to `AcceptedIsWhole` that a start or a restart in progress has nothing of another revision
to put back, and that no `.prev` is left. *StaysWithdrawn* says what can be going on while
a stop that was carried out is on record: an activation that found it at its first look,
or a start, whose abort puts back what does not serve; never a restart or a restoration.
*RefusedRestores* follows the state of before the staging through memory: it is in the
files until the first step that changes them (*Untouched*), in the task from then on
(*Remembered*), and comes back route first, then the proxy, then the record
(*PutBackFirst*). The invariant was model-checked first, with two deployments and two faults and with
three deployments and one. That also corrected the properties: with two deployments,
`TreesPublished` and `RefusedLeavesServing` had held in a form that three deployments
refute, so `HostParts.cfg` has three. Assumption: "nothing" is no revision, no route
and no record.

For any pipe size, any amount of output and any limit on it (`PartsProofs`):
`GroupIsOwned` (`OwnedToTheEnd`). The number of a process group is safe to kill only
while its leader is not reaped, and the invariant says that this lasts until the
owner is through (*LeaderUnreaped*). That captured output is complete needs an account
of the pipe: what was written is what the owner has and what the pipe holds, and a
pipe seen at its end is empty and has no writer left (*NothingLost*), which no member
can undo, as descriptors are only inherited. *EndsStruck* ties what the call returns to
where the owner is. Assumption: the three bounds are natural numbers.

For any previews, targets, ports and limits (`HostAdmitsProofs`): `PreviewsAreTyped`,
`CapacityIsRespected`, `EffectsAreRecorded` and `ServedPreviewsStay`. A job of a dozen
steps checks everything before the first and may fail or die at each, so the invariant
`PreviewInv` carries what was checked and what is done so far. *Admitted*: until its
record is written, the ports, the host name and the memory that `up` found free are
free, and there is room once the eviction is through. *Made* and *Undone*: what is there
already of a preview that comes up, and gone already of one that is taken away; the
record goes last, so nothing is left without one but the route file of the other routing
(`stale`). *ServedAlone*: a preview in a job's
hands is not served, the route file of a served one is the one loaded, and the site that
a failed route puts back is the site of every served path preview. The memory limit needs
that a record adds exactly what its kind reserves, which is a count of a finite set
(*RecordReserves*); the order of use stays a list of the recorded previews without
repetition when one is used or forgotten (*UnusedOrder*, *UsedOrder*). The assumption
is `PreviewAssumption`.

For any processes and any bounds (`PartsProofs`):

- `StopRecordEarned` (`RecordIsEarned`). The property looks at the moment when nobody
  works; the invariant has to account for the record before: it is of a stop that
  Docker carried out or that broke off, or of one that is still at Docker or about to
  take it back (*MarkAccounted*). The record can be replaced by a second stop and
  cleared by a start at any point of the first, so each step is shown to keep the
  account of whichever stop is on record.
- `RunsExportOnce` (`ExportOnce`). The application's lock has one holder among the
  calls (*LockIsTheirs*), a run that nobody claimed was never exported
  (*UnclaimedIsUnstarted*), a call that holds a fresh claim is the first to use it
  (*ClaimUsed*), and from the check of the proof to the end of the exporter no
  deployment gets the lock (*ExportedOver*).
- `BindingsAreAccepted` (`BoundIsAccepted`). What a binder has learnt is the
  configuration of the image it holds, not of the tag (*LearntIsTrue*), whether it read
  it from Docker, from the export or from a record, and the
  directory tells the truth (*RecordsAreTrue*); the limit needs that a writer is alone
  and that its room is still there when it renames (*WriterHasRoom*).
- `AuthorizedKeysAreHeld` (`KeyHeld`). A key file is torn only while it is written or
  when nobody works with it (*KeyAtSetup*); a script, which may outlive the setup that
  sent it, carries a key whose private half was whole when it left, and stays so
  (*SentIsWhole*).
- `ReceiptsAreTrue` (`ReceiptTrue`). What a deployment knows of its operation grows
  with its steps (*Receipt*): the identity it was acknowledged with is of an operation
  of its own, and remains one when others follow (*Owned*); the wait adds that it
  succeeded, the comparison with the inspection that the operation shown is that one.
- `ErrorsAreCertain` (`CertainMeansNothing`). Every plan has the checks that fail with
  exit 64 or 65 before its first change (*ChecksFirst*, shown of each plan), so a
  command that asked for no change, failed in such a check or only reads has left the
  host alone (*Certain*), and a request on its way belongs to the step its caller is
  in (*InFlight*, *WireMatches*). The theorem assumes that `preview database` is not
  among the commands: for that one the property is false, which is finding 4 of
  section 3.

Assumptions: the sentinels are none of the values they stand beside, images are
immutable, the limit is a positive number, the bounds are natural numbers, and the
commands given have a plan. Images may be infinitely many: the
directory of digests is finite because it started empty (*WithinTheLimit*).

For samples of any size, any limit, any number of readers and of troubles
(`ReportHistoryProofs`): `HistoryIsServed` (`HistoryServed`) and `HistoryTypeInvariant`.
The invariant follows the bytes of a file and not its lines, as a line may be torn or
two of them glued together. *FileOf*: the bytes are of samples in order, and within a
sample in order, none twice, whatever was torn; so what parses, parses in order.
*NewestLast*: what is still to be appended comes after all of them. *WholeIsThere*: the
newest line of its own is in the file, followed by no more than what the troubles since
have left, two lines for each; this is what a reader's looking back is measured
against. *Reads*: in the file that a reader has open, be it the history or one that was
replaced, what it answered lies before its next byte and what is due to it is answered
or lies ahead. The hard steps are the appended byte, which may end a glued line, and the
trim, whose least retained line start is found by the well-foundedness of the natural
numbers (*LeastNumber*) and whose rest of the file is again a file of samples
(*RestOfFile*, *LastLineStays*). Assumption: `HistoryAssumption`, explained in section 3.

For the compositions (`HostPartsProofs`, `HostAdmitsProofs`, `HostEndsProofs`):
`PartsAreTyped` (`PartsTypeOK`), `PartsAreSafe`, `PartsErrorsAreCertain`, `AdmitsAreSafe`
and `EndsAreSafe`. Each step of a composition is a step of every part or leaves its
variables alone, so each part's specification is implied. The types are proved part by
part in `PartsProofs`; where the inductive invariant of a part does not have them, a
second one is kept beside it: the verbs' numbers are of verbs that were given
(*VerbsNumbered*), the lock of the backups is held by a call in progress
(*LockIsOfACall*), the copy that a registration script takes is of its own file
(*HostTyped*), an operation that succeeded was admitted (*AdmittedTyped*).

With these, every invariant and every action property that a passing run checks is
proved; `CertainMeansNothing` for all commands but one. Only model-checked: all liveness
(`Answered`, `CommandAnswered`, `EveryoneEnds`, `Reclaimed`), which is out of the prover's
reach, as are ENABLED and induction over data.

## 5. What is not modelled, and why

- Deployment: accept-candidate of a static application; a container application whose
  activation fails on a `Host` that holds a `StaticOperation` of another
  (`src/src/host/workload/activation.rs` 378 does not ask for a static profile): the abort
  then writes that one's route, retention or record for it, and `ServesUnlessStopped`,
  which is about container applications only, does not see it; single services in the
  lifecycle commands of `owner.rs`; the verbs `operation`, `ready` and
  `activation-submit`, which bypass the locks or the admission (`OperationJournal`
  allows them as free callers; the composition does not have them yet). A local-only
  submission is a submission with candidate equal to the installed revision and
  stricter guards, so the model's behaviours include its own. Pruning of activation
  results, which concerns results older than the ones the properties speak of; a
  reboot of the host, which is a crash of every task plus what Docker restarts by
  policy.
- Inbox: envelopes of an unsupported version (the API refuses them), the daemon's
  own limit of 256 files, unreachable behind the API's 128, and a failed write that
  had taken effect (it leaves the state that a crash after the write leaves).
- Previews: the access sidecar, the on-demand certificate question, and what
  `preview database` provisions (its locks are in `HostLocks`). The reaper counts the
  records on disk; the code counts a list it keeps, in which a record stays whose
  clean-up failed after the record was removed, so that it may try once more to take
  down a preview that has expired.
- Platform: what an upgrade replaces and how it is restored, and maintenance; only
  its fence and locks are modelled. Rotation of a key, removal of an application and
  the upgrade of the executor are missing in `HostSetup`.
- Backups: an exporter that outlives the call that started it when the call is
  killed. `ExportOnce` speaks of the time while the call lives.
- Policies, compose files, readiness probes, resources, secrets: pure predicates and
  parsers over files, present as steps that may refuse. A model of them would
  restate them.
- Observation (what a report says), logs, the monitor's views, the UI, the vendored
  template engine: no control state that these properties depend on.

Seen while reading, and described by no property: a `stop` of a static application
whose serving record is missing reports success while a tree may still be served
(`static_serving.rs` 85-91, `StaticServing!HaltContainers`); two workstation commands
that update `targets.json` at once lose one update (`state.rs` 109-147); `preview
database` does not look at `upgrades/pending.json`; a temporary name that a dead
writer left in the image cache ends the search of every later `cached_image`.

## 6. Plan

Done: the modules above, in the order of section 2, with the proofs of section 4.

Next, most important first:

1. `PlatformUpgrade`: the upgrade journal of `platform.py`, apply and recover, crash
   at any step; abstract specification: the platform is the old one or the new one.
2. The unlocked journal verbs in the composition (`commands.rs` 702-833), read and
   write apart.
3. accept-candidate of static applications; single services under deployment
   authority.
