---------------------------- MODULE DeploymentHost ----------------------------
(***************************************************************************)
(* What a komizo host keeps about the deployments of its applications, and *)
(* the one holder of the deployment locks that may change most of it.      *)
(*                                                                         *)
(* Every deployment step runs under a DeploymentLock, which holds the      *)
(* application's lock and the host-wide operation.lock                     *)
(* (src/src/host/locking.rs): at most one activation pass, submission,     *)
(* reconciliation or lifecycle start is inside it, whatever its            *)
(* application.  task says who that is and where it stands; a task that    *)
(* dies or fails simply gives the locks back, with every file as it left   *)
(* it.  The owner's stop record, the clock and the reports of the Docker   *)
(* engine are the things that change around it.                            *)
(***************************************************************************)
EXTENDS JournalPhases, Naturals, FiniteSets, Sequences

CONSTANTS
  Apps,           \* registered applications with deployment authority
  Revisions,      \* source revisions that may be submitted
  NoRevision,     \* nothing installed, nothing retained, nothing running
  NoOperation,    \* operation.json does not exist
  NoRequest,      \* queue/pending.json does not exist
  NoSnapshot,     \* staging-<id>.json does not exist
  NoApp,          \* the application of no task
  Probed,         \* the applications whose policy has a readiness policy
  Stateful,       \* the applications whose policy requires a stateful contract
  MaxOperations,  \* bound: admissions
  MaxStops,       \* bound: owner stop commands
  MaxCrashes      \* bound: tasks that die holding the locks

VARIABLES
  journal,     \* releases/<app>/operation.json
  late,        \* the clock has passed the operation's deadline
  pending,     \* activations/pending.json: the one queued activation request
  slots,       \* activations/credentials-<id>: credential slots on disk
  results,     \* activations/<id>.json: the phase of the durable result
  snapshots,   \* releases/<app>/staging-<id>.json
  files,       \* the revision each of the four configuration files belongs to
  retained,    \* <app dir>/.komizo-image-retention
  containers,  \* the revision whose containers run, or none
  proxy,       \* the revision whose route the running proxy has loaded
  mark,        \* state/<app>: 0, or the number of the owner stop it records
  stops,       \* owner stop commands so far
  stopping,    \* applications whose owner stop waits for the locks
  disturbed,   \* applications whose last owner command gave up half way
  lastId,      \* operation identities are drawn in this order
  torn,        \* applications whose files a reconciliation left of two revisions
  ups,         \* how often each operation asked Docker to start containers
  crashes,     \* tasks that died so far
  task         \* the holder of the deployment locks

disk == <<journal, late, pending, slots, results, snapshots, files, retained>>
owner == <<mark, stops, stopping, disturbed>>
tally == <<lastId, ups, torn, crashes>>
vars == <<disk, containers, proxy, owner, tally, task>>

Ids == 1..MaxOperations
Installed == Revisions \cup {NoRevision}

(* The four protected configuration files, in the order they are replaced. *)
FileOrder == <<"compose", "route", "hostnames", "env">>
File == {"compose", "route", "hostnames", "env"}
Whole(r) == [f \in File |-> r]
IsWhole(image) == \A f, g \in File : image[f] = image[g]

(* The phases a durable result may carry; those of Ok have ok = true.      *)
Verdicts == {"none", "refused", "staging_failed", "reconciliation_required",
             "activation_failed", "readiness_failed", "failed",
             "acknowledgement_failed", "activated", "ready", "prepared_stopped"}
Accepted == {"ready", "prepared_stopped"}

(* A queued request; staged is FALSE once the configuration is installed   *)
(* and the request has been rewritten as a configured activation.          *)
Request == [id : Ids, app : Apps, candidate : Revisions,
            previous : Installed, staged : BOOLEAN]

Operation == [id : Ids, candidate : Revisions, previous : Installed, phase : Phases]

ASSUME HostAssumption ==
  /\ NoRevision \notin Revisions /\ NoApp \notin Apps
  /\ NoOperation \notin Operation /\ NoRequest \notin Request
  /\ NoSnapshot \notin [File -> Installed]
  /\ Probed \subseteq Apps /\ Stateful \subseteq Apps
  /\ MaxOperations \in Nat /\ MaxStops \in Nat /\ MaxCrashes \in Nat

WorkerSteps == {"stage", "staging", "swap", "configure", "queue", "consume",
                "restore", "unstage", "verify", "begin", "up", "recheck", "reload",
                "retain", "settle", "probe", "conclude", "close", "failing",
                "report", "clean", "drop"}
SubmitSteps == {"admitted", "slot"}
ReconcileSteps == {"put back", "serve", "confirm", "keep", "record"}
StartSteps == {"start", "watch", "clear"}

(* at counts configuration files; phase is the phase the activation has    *)
(* reached, and later its verdict (the outcome of a reconciliation, the    *)
(* verb of a lifecycle command); halted says that the activation saw the   *)
(* owner's stop; seen is the stop record a command read when it began.     *)
Task == [pc : WorkerSteps \cup SubmitSteps \cup ReconcileSteps \cup StartSteps \cup {"idle"},
         app : Apps \cup {NoApp}, at : 1..4,
         phase : Phases \cup Verdicts \cup {"restore-serving", "accept-candidate",
                                            "start", "restart"},
         halted : BOOLEAN, seen : 0..MaxStops]

Idle == [pc |-> "idle", app |-> NoApp, at |-> 1, phase |-> "none",
         halted |-> FALSE, seen |-> 0]

TypeOK ==
  /\ journal \in [Apps -> Operation \cup {NoOperation}]
  /\ late \in [Apps -> BOOLEAN]
  /\ pending \in Request \cup {NoRequest}
  /\ slots \subseteq Ids
  /\ results \in [Ids -> Verdicts]
  /\ snapshots \in [Apps -> [Ids -> [File -> Installed] \cup {NoSnapshot}]]
  /\ files \in [Apps -> [File -> Installed]]
  /\ retained \in [Apps -> [current : Installed, previous : Installed]]
  /\ containers \in [Apps -> Installed]
  /\ proxy \in [Apps -> Installed]
  /\ mark \in [Apps -> 0..MaxStops] /\ stops \in 0..MaxStops
  /\ stopping \subseteq Apps /\ disturbed \subseteq Apps
  /\ lastId \in 0..MaxOperations /\ torn \subseteq Apps
  /\ ups \in [Ids -> 0..2]
  /\ crashes \in 0..MaxCrashes
  /\ task \in Task

(* An application is registered and empty, or it serves a revision that    *)
(* was installed before the host kept operation journals                   *)
(* (transaction.rs, bootstrap_serving).                                    *)
Init ==
  /\ \E serving \in [Apps -> Installed] :
       /\ files = [a \in Apps |-> Whole(serving[a])]
       /\ retained = [a \in Apps |-> [current |-> serving[a], previous |-> NoRevision]]
       /\ containers = serving /\ proxy = serving
  /\ journal = [a \in Apps |-> NoOperation] /\ late = [a \in Apps |-> FALSE]
  /\ pending = NoRequest /\ slots = {} /\ results = [id \in Ids |-> "none"]
  /\ snapshots = [a \in Apps |-> [id \in Ids |-> NoSnapshot]]
  /\ mark = [a \in Apps |-> 0] /\ stops = 0 /\ stopping = {} /\ disturbed = {}
  /\ lastId = 0 /\ torn = {} /\ ups = [id \in Ids |-> 0] /\ crashes = 0
  /\ task = Idle
------------------------------------------------------------------------------
LocksFree == task = Idle

At(pc) == task.pc = pc

(* activation_idle(): nothing is queued. *)
ActivationIdle == pending = NoRequest

Enter(pc, a) == task' = [Idle EXCEPT !.pc = pc, !.app = a]
Goto(pc) == task' = [task EXCEPT !.pc = pc]
Leave == task' = Idle

(* Contexts end with the operation's deadline. *)
InTime == ~late[task.app]

OperationPhase(a) == IF journal[a] = NoOperation THEN "none" ELSE journal[a].phase

(* Bug: the deadline of the operation is not looked at. *)
CanRecordLate(a, phase) == /\ journal[a] # NoOperation
                           /\ MayRecord(journal[a].phase, phase, FALSE)

(* record() of a later phase of the current operation of a. *)
CanRecord(a, phase) == /\ journal[a] # NoOperation
                       /\ MayRecord(journal[a].phase, phase, late[a])
Record(a, phase) ==
  /\ CanRecord(a, phase)
  /\ journal' = [journal EXCEPT ![a].phase = Recorded(@, phase)]

(* record() of an admission over the current operation. *)
MayAdmit(a) == OperationPhase(a) \notin Fence

(* Docker was asked to start what compose.yml of a describes and did not   *)
(* report success: nothing, the old or the new containers may run.         *)
PartlyStarted(a) ==
  \E r \in {NoRevision, containers[a], files[a]["compose"]} :
    containers' = [containers EXCEPT ![a] = r]

StopContainers(a) == containers' = [containers EXCEPT ![a] = NoRevision]
StartContainers(a) == containers' = [containers EXCEPT ![a] = files[a]["compose"]]

(* The proxy validates and loads the complete configuration: the routes of *)
(* every application, as they stand on disk.                               *)
ReloadProxy == proxy' = [a \in Apps |-> files[a]["route"]]

(* Bug: the previous revision is taken from the record, not the operation. *)
RetainChained(a, candidate, previous) ==
  retained' = [retained EXCEPT ![a] = [current |-> candidate, previous |-> @.current]]

(* retain_workload(): an unchanged revision leaves the record alone. *)
Retain(a, candidate, previous) ==
  retained' = IF candidate = previous THEN retained
              ELSE [retained EXCEPT ![a] = [current |-> candidate, previous |-> previous]]

Write(a, f, r) == files' = [files EXCEPT ![a][f] = r]
=============================================================================
