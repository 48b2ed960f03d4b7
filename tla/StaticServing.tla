---------------------------- MODULE StaticServing ----------------------------
(***************************************************************************)
(* One application whose policy has a static profile: the proxy serves its *)
(* public tree, extracted once per revision, and no container runs for it. *)
(* The activation of a staged revision, the owner's stop, start and        *)
(* restart, and restore-serving each hold the deployment locks from        *)
(* beginning to end (task); only the stop record is written before them.   *)
(* What staging does in between is DeploymentHost's subject: here it is    *)
(* one step that leaves a configured operation behind.                     *)
(*                                                                         *)
(* The daemon has two Hosts for as long as it lives, the activation        *)
(* worker's and the command inbox's, and a Host never forgets its          *)
(* static_operation: a task starts with what the task before left there,   *)
(* possibly for another application.  A command of its own process has a   *)
(* Host of its own.                                                        *)
(***************************************************************************)
EXTENDS JournalPhases, Naturals, FiniteSets

CONSTANTS
  StaticRevisions,  \* revisions that may be deployed
  OwnerHosts,       \* bound: the Hosts that owner commands run on
  Elsewhere,        \* what another application of the host serves
  NoStatic,         \* no revision, no route, no record, no operation
  MaxStages,        \* bound: deployments
  MaxHalts,         \* bound: owner stops
  MaxFaults         \* bound: steps that fail, holders of the locks that die

VARIABLES
  operation,     \* operation.json: phase, candidate and previous revision
  queued,        \* the configured request is still in pending.json
  installed,     \* APP_VERSION of .env
  snapshot,      \* staging-<id>.json: the route and the revision before
  routeFile,     \* routes/<app>.caddy
  routePrev,     \* routes/<app>.caddy.prev
  loadedRoute,   \* the application's route as the proxy has loaded it
  staticRecord,  \* static/<app>.json
  retention,     \* .komizo-image-retention
  trees,         \* the revisions whose public tree is extracted
  gate,          \* the revision whose containers run
  halted,        \* the stop record of the application
  halting,       \* an owner stop waits for the locks
  task,          \* the holder of the locks, with its StaticOperation in memory
  kept,          \* static_operation of the Hosts between two tasks
  borrowed,      \* ghost: the number of the deployment before which a task last wrote
                 \* files from a StaticOperation that it had not made itself, or 0
  torn,          \* ghost: a command gave up half way and no stop came after it
  earlier,       \* ghost: the route file, the serving record and the retention before
                 \* staging, until the owner stops, starts or restarts the application
  stages, halts, faults

staticFiles == <<operation, queued, installed, snapshot, routeFile, routePrev,
                 staticRecord, retention, trees>>
staticCounts == <<stages, halts, faults>>
staticVars == <<staticFiles, loadedRoute, gate, halted, halting, task, kept, borrowed,
                torn, earlier, staticCounts>>

Gate(r) == [revision |-> r, kind |-> "gate"]
Tree(r) == [revision |-> r, kind |-> "tree"]
Gates == {Gate(r) : r \in StaticRevisions}
Contents == StaticRevisions \cup {Elsewhere}
Routes == {Gate(r) : r \in Contents} \cup {Tree(r) : r \in Contents}
NoneOr(S) == S \cup {NoStatic}

(* disabled_route is the route through the gate of the same revision. *)
StaticRecords == [revision : Contents, active : BOOLEAN,
                  disabled : {Gate(r) : r \in Contents}]
NothingRetained == [current |-> NoStatic, previous |-> NoStatic]

(* No revision is retained twice. *)
Retentions ==
  {r \in [current : NoneOr(Contents), previous : NoneOr(Contents)] :
     r.current = r.previous => r = NothingRetained}

ASSUME StaticAssumption ==
  /\ Elsewhere \notin StaticRevisions /\ OwnerHosts \subseteq {"agent", "command"}
  /\ NoStatic \notin Contents \cup Routes \cup StaticRecords
  /\ MaxStages \in Nat /\ MaxHalts \in Nat /\ MaxFaults \in Nat

Failures == {"failed", "activation_failed", "readiness_failed"}

(* A StaticOperation: the record being made, and the record, the route and *)
(* the retention to be put back.  One that prepare_stopped_static makes    *)
(* has no route, and puts nothing back.                                    *)
NoOperation == [own |-> NoStatic, before |-> NoStatic, route |-> NoStatic,
                retained |-> NothingRetained]
StaticOperations == [own : NoneOr(StaticRecords), before : NoneOr(StaticRecords),
                     route : NoneOr(Routes), retained : Retentions]
Foreign == [own |-> [revision |-> Elsewhere, active |-> TRUE, disabled |-> Gate(Elsewhere)],
            before |-> NoStatic, route |-> Gate(Elsewhere),
            retained |-> [NothingRetained EXCEPT !.current = Elsewhere]]

Hosts == {"worker", "agent", "command"}
NothingKept == [h \in Hosts |-> NoOperation]

(* by: whose Host it runs on; made: it made the StaticOperation in memory  *)
(* itself; stopped: what the task last saw of the stop record.             *)
NoTask == [by |-> "command", verb |-> "none", pc |-> "idle", own |-> NoStatic,
           before |-> NoStatic, route |-> NoStatic, retained |-> NothingRetained,
           made |-> FALSE, stopped |-> FALSE, failure |-> "failed", unchanged |-> TRUE]
Verbs == {"activate", "stop", "start", "restart", "restore"}
Steps == {"look", "prepare", "copy", "swap", "look again", "withdraw", "stop gate", "unload",
          "reload", "probe", "look last", "retain", "store", "record", "retire", "confirm",
          "put back", "reload back", "record back", "report", "restore", "close"}
Tasks == [by : Hosts, verb : Verbs \cup {"none"}, pc : Steps \cup {"idle"},
          own : NoneOr(StaticRecords), before : NoneOr(StaticRecords), route : NoneOr(Routes),
          retained : Retentions, made : BOOLEAN, stopped : BOOLEAN, failure : Failures,
          unchanged : BOOLEAN]
Unlocked == task = NoTask
Accepted == {"ready", "prepared_stopped"}
Owner == task.verb \in {"start", "restart"}

StaticTypeOK ==
  /\ operation \in [phase : Phases \cup {"none"}, candidate : NoneOr(StaticRevisions),
                    previous : NoneOr(StaticRevisions)]
  /\ installed \in NoneOr(StaticRevisions) /\ gate \in NoneOr(StaticRevisions)
  /\ snapshot \in NoneOr([route : NoneOr(Routes), revision : NoneOr(StaticRevisions)])
  /\ {routeFile, routePrev, loadedRoute} \subseteq NoneOr(Routes)
  /\ staticRecord \in NoneOr(StaticRecords) /\ retention \in Retentions
  /\ trees \subseteq StaticRevisions
  /\ queued \in BOOLEAN /\ halted \in BOOLEAN /\ halting \in BOOLEAN /\ torn \in BOOLEAN
  /\ task \in Tasks /\ kept \in [Hosts -> StaticOperations] /\ borrowed \in 0..(MaxStages + 1)
  /\ earlier \in [route : NoneOr(Routes), record : NoneOr(StaticRecords), retained : Retentions]
  /\ stages \in 0..MaxStages /\ halts \in 0..MaxHalts /\ faults \in 0..MaxFaults

(* Nothing deployed yet; or the containers of a revision deployed before   *)
(* the policy became static; or a revision served from its tree.           *)
StaticInit ==
  \E r \in NoneOr(StaticRevisions), served \in BOOLEAN :
    /\ served => r # NoStatic
    /\ operation = IF r = NoStatic
                     THEN [phase |-> "none", candidate |-> NoStatic, previous |-> NoStatic]
                     ELSE [phase |-> "ready", candidate |-> r, previous |-> NoStatic]
    /\ installed = r /\ gate = (IF served THEN NoStatic ELSE r) /\ snapshot = NoStatic
    /\ routeFile = (IF r = NoStatic THEN NoStatic ELSE IF served THEN Tree(r) ELSE Gate(r))
    /\ routePrev = NoStatic /\ loadedRoute = routeFile
    /\ retention = [NothingRetained EXCEPT !.current = r]
    /\ staticRecord = (IF served THEN [revision |-> r, active |-> TRUE, disabled |-> Gate(r)]
                                ELSE NoStatic)
    /\ trees = IF served THEN {r} ELSE {}
    /\ queued = FALSE /\ halted = FALSE /\ halting = FALSE
    /\ task = NoTask /\ kept = NothingKept /\ borrowed = 0 /\ torn = FALSE
    /\ earlier = [route |-> routeFile, record |-> staticRecord, retained |-> retention]
    /\ stages = 0 /\ halts = 0 /\ faults = 0
------------------------------------------------------------------------------
(* A deployment of c is submitted and staged: the four files of the host   *)
(* are those of c, the route leads to its gate.                            *)
StageStatic(c) ==
  /\ Unlocked /\ ~queued /\ stages < MaxStages
  /\ operation.phase \notin Fence
  /\ stages' = stages + 1 /\ queued' = TRUE
  /\ operation' = [phase |-> "configured", candidate |-> c, previous |-> installed]
  /\ snapshot' = [route |-> routeFile, revision |-> installed]
  /\ routePrev' = routeFile /\ routeFile' = Gate(c) /\ installed' = c
  /\ earlier' = [route |-> routeFile, record |-> staticRecord, retained |-> retention]
  /\ UNCHANGED <<staticRecord, retention, trees, loadedRoute, gate, halted, halting, task,
                 kept, borrowed, torn, halts, faults>>

Move(from, to) == task.pc = from /\ task' = [task EXCEPT !.pc = to]

(* A task runs on the Host h, with the StaticOperation it finds there. *)
Begin(h, verb, pc) ==
  task' = [NoTask EXCEPT !.by = h, !.verb = verb, !.pc = pc, !.own = kept[h].own,
                         !.before = kept[h].before, !.route = kept[h].route,
                         !.retained = kept[h].retained]

InMemory == [own |-> task.own, before |-> task.before, route |-> task.route,
             retained |-> task.retained]

(* Its operation stays in the Host, unless the process ends with it. *)
Leaves == /\ task' = NoTask
          /\ kept' = IF task.by = "command" THEN kept ELSE [kept EXCEPT ![task.by] = InMemory]

(* The worker takes the request up.  A finished operation only needs its   *)
(* result; an operation past configured, or a route that is no longer the  *)
(* configured one, is refused.                                             *)
TakeUp ==
  /\ Unlocked /\ queued
  /\ IF operation.phase = "configured" /\ routeFile = Gate(operation.candidate)
       THEN Begin("worker", "activate", "look") /\ UNCHANGED queued
       ELSE queued' = FALSE /\ UNCHANGED task
  /\ snapshot' = IF operation.phase \in Accepted THEN NoStatic ELSE snapshot
  /\ UNCHANGED <<operation, installed, routeFile, routePrev, staticRecord,
                 retention, trees, loadedRoute, gate, halted, halting, kept, borrowed, torn,
                 earlier, staticCounts>>

(* What the steps of a task that only touch files leave alone. *)
hostState == <<loadedRoute, gate, halted, halting, kept, borrowed, torn, earlier,
               staticCounts>>

(* What was there before the staging is no longer what is to be put back.  *)
Forgotten == earlier' = [earlier EXCEPT !.route = NoStatic]

Sees(from, to) == task.pc = from /\ task' = [task EXCEPT !.pc = to, !.stopped = halted]

(* Is the application stopped?  If not, it is being activated. *)
Look ==
  /\ IF halted THEN /\ Sees("look", "reload") /\ UNCHANGED operation
                    /\ Forgotten
     ELSE /\ Sees("look", "prepare") /\ UNCHANGED earlier
          /\ operation' = [operation EXCEPT !.phase = "activating"]
  /\ UNCHANGED <<queued, installed, snapshot, routeFile, routePrev, staticRecord,
                 retention, trees, loadedRoute, gate, halted, halting, kept, borrowed, torn,
                 staticCounts>>

Candidate == IF task.verb = "activate" THEN operation.candidate ELSE staticRecord.revision

(* prepare_static reads what an abort will need.  The route is the staged  *)
(* one, or the one the record keeps, of this application in either case.   *)
PrepareStatic ==
  LET c == Candidate
      gateRoute == IF /\ staticRecord # NoStatic /\ staticRecord.revision = c
                      /\ routeFile \notin Gates
                     THEN staticRecord.disabled ELSE routeFile
  IN /\ task.pc = "prepare"
     /\ task' = [task EXCEPT !.pc = "copy", !.made = TRUE, !.before = staticRecord,
                   !.own = [revision |-> c, active |-> FALSE, disabled |-> gateRoute],
                   !.route = IF routePrev = NoStatic THEN routeFile ELSE routePrev,
                   !.retained = retention]
     /\ UNCHANGED <<staticFiles, hostState>>

(* Bug: what is not the candidate's makes room for it. *)
MakesRoom(c) == {c}

Extracted(c) == trees \cup {c}

(* The tree is extracted and renamed into place, or found there already.   *)
PublishTree ==
  /\ Move("copy", "swap")
  /\ trees' = Extracted(task.own.revision)
  /\ UNCHANGED <<operation, queued, installed, snapshot, routeFile, routePrev,
                 staticRecord, retention, hostState>>

(* static_route: the route file is replaced, the record in memory follows. *)
SwapRoute ==
  /\ task.pc = "swap"
  /\ routeFile' = Tree(task.own.revision)
  /\ task' = [task EXCEPT !.own.active = TRUE,
                          !.pc = IF Owner THEN "reload" ELSE "look again"]
  /\ UNCHANGED <<operation, queued, installed, snapshot, routePrev, staticRecord,
                 retention, trees, hostState>>

LookAgain ==
  /\ Sees("look again", IF halted THEN "withdraw" ELSE "reload")
  /\ UNCHANGED <<staticFiles, hostState>>

(* The route through the gate, which is about to stop or has long stopped: *)
(* the application answers nothing any more.                               *)
Withdraw ==
  /\ task.pc = "withdraw"
  /\ routeFile' = task.own.disabled
  /\ task' = [task EXCEPT !.own.active = FALSE,
                          !.pc = IF task.verb = "stop" THEN "unload" ELSE "stop gate"]
  /\ UNCHANGED <<operation, queued, installed, snapshot, routePrev, staticRecord,
                 retention, trees, hostState>>

StopGate ==
  /\ Move("stop gate", IF task.verb = "stop" THEN "store" ELSE "unload")
  /\ gate' = NoStatic
  /\ UNCHANGED <<staticFiles, loadedRoute, halted, halting, kept, borrowed, torn, earlier,
                 staticCounts>>

Load == loadedRoute' = routeFile

Unload ==
  /\ Move("unload", CASE task.verb = "stop" -> "stop gate"
                      [] task.verb # "stop" /\ operation.phase = "activating" -> "reload"
                      [] OTHER -> "retain")
  /\ Load
  /\ UNCHANGED <<staticFiles, gate, halted, halting, kept, borrowed, torn, earlier,
                 staticCounts>>

(* After the reload a candidate that is up is recorded as activated; a     *)
(* stopped one is as good as accepted.                                     *)
ReloadRoute ==
  /\ task.pc = "reload" /\ Load
  /\ IF task.verb = "activate" /\ task.stopped
       THEN Move("reload", "retain") /\ UNCHANGED operation
       ELSE /\ Move("reload", "probe")
            /\ operation' = IF Owner THEN operation
                            ELSE [operation EXCEPT !.phase = "activated"]
  /\ UNCHANGED <<queued, installed, snapshot, routeFile, routePrev, staticRecord, retention,
                 trees, gate, halted, halting, kept, borrowed, torn, earlier, staticCounts>>

(* The readiness probes pass, or find the application stopped. *)
Probe ==
  /\ Move("probe", IF Owner THEN "store" ELSE "look last")
  /\ UNCHANGED <<staticFiles, hostState>>

LookLast ==
  /\ Sees("look last", IF halted THEN "withdraw" ELSE "retain")
  /\ UNCHANGED <<staticFiles, hostState>>
------------------------------------------------------------------------------
(* Accepting a candidate: retention, the serving record, the journal, and  *)
(* only then the old containers and trees.  The record of a candidate that *)
(* was found stopped at once is made up from the files, unless the Host    *)
(* has an operation of an earlier task: then it is that one's.             *)
Accept ==
  IF task.own # NoStatic THEN task
  ELSE [task EXCEPT !.made = TRUE,
                    !.own = [revision |-> operation.candidate, active |-> FALSE,
                             disabled |-> routeFile]]

Borrows(step) == IF step /\ ~task.made THEN borrowed' = stages + 1 ELSE UNCHANGED borrowed

Outcome == IF task.stopped THEN "prepared_stopped" ELSE "ready"

(* Bug: the journal accepts the candidate before its record is stored. *)
AcceptsFirst ==
  /\ task.pc = "retain" /\ Borrows(task.own # NoStatic)
  /\ operation' = [operation EXCEPT !.phase = Outcome]
  /\ routePrev' = NoStatic
  /\ task' = [Accept EXCEPT !.pc = "store"]
  /\ UNCHANGED <<queued, installed, snapshot, routeFile, staticRecord, retention, trees,
                 loadedRoute, gate, halted, halting, kept, torn, earlier, staticCounts>>

(* Bug: a revision deployed over itself is retained twice.                 *)
RetainsTwice ==
  /\ task.pc = "retain" /\ Borrows(task.own # NoStatic)
  /\ retention' = [current |-> operation.candidate, previous |-> operation.previous]
  /\ routePrev' = NoStatic
  /\ task' = [Accept EXCEPT !.pc = "store"]
  /\ UNCHANGED <<operation, queued, installed, snapshot, routeFile, staticRecord, trees,
                 loadedRoute, gate, halted, halting, kept, torn, earlier, staticCounts>>

RetainStatic ==
  /\ task.pc = "retain" /\ Borrows(task.own # NoStatic)
  /\ retention' = IF operation.candidate = operation.previous THEN retention
                  ELSE [current |-> operation.candidate, previous |-> operation.previous]
  /\ routePrev' = NoStatic
  /\ task' = [Accept EXCEPT !.pc = "store"]
  /\ UNCHANGED <<operation, queued, installed, snapshot, routeFile, staticRecord, trees,
                 loadedRoute, gate, halted, halting, kept, torn, earlier, staticCounts>>

StoreRecord ==
  /\ task.pc = "store"
  /\ staticRecord' = task.own
  /\ IF task.verb = "stop" THEN Leaves /\ torn' = FALSE
     ELSE Move("store", IF Owner THEN "confirm" ELSE "record") /\ UNCHANGED <<kept, torn>>
  /\ UNCHANGED <<operation, queued, installed, snapshot, routeFile, routePrev, retention,
                 trees, loadedRoute, gate, halted, halting, borrowed, earlier, staticCounts>>

RecordAccepted ==
  /\ Move("record", "retire")
  /\ operation' = [operation EXCEPT !.phase = Outcome]
  /\ UNCHANGED <<queued, installed, snapshot, routeFile, routePrev, staticRecord,
                 retention, trees, hostState>>

(* The old containers, and the trees of all but the candidate and the      *)
(* previous revision; the operation is accepted already, whatever happens. *)
Retire ==
  /\ Move("retire", "report")
  /\ gate' = NoStatic \/ (faults < MaxFaults /\ UNCHANGED gate)
  /\ trees' = IF operation.phase = "ready"
                THEN trees \cap {operation.candidate, operation.previous} ELSE trees
  /\ UNCHANGED <<operation, queued, installed, snapshot, routeFile, routePrev, staticRecord,
                 retention, loadedRoute, halted, halting, kept, borrowed, torn, earlier,
                 staticCounts>>

(* The durable result; the request leaves the queue, the snapshot of an    *)
(* accepted operation goes.                                                *)
Report ==
  /\ task.pc = "report"
  /\ queued' = FALSE /\ Leaves
  /\ snapshot' = IF operation.phase \in Accepted THEN NoStatic ELSE snapshot
  /\ UNCHANGED <<operation, installed, routeFile, routePrev, staticRecord, retention, trees,
                 loadedRoute, gate, halted, halting, borrowed, torn, earlier, staticCounts>>
------------------------------------------------------------------------------
(* A step of an activation, a start or a restart fails. *)
Failing == {"look", "prepare", "copy", "swap", "look again", "withdraw", "stop gate", "unload",
            "reload", "probe", "look last", "retain", "store", "record", "confirm"}

(* What the worker calls the failure: by the phase it has got to in memory. *)
Called ==
  LET tried == task.pc \notin {"retain", "store", "record"}
  IN CASE tried /\ operation.phase = "activating" -> "activation_failed"
       [] tried /\ operation.phase = "activated" -> "readiness_failed"
       [] OTHER -> "failed"

Fails(failure) ==
  /\ task.verb \in {"activate", "start", "restart"} /\ task.pc \in Failing
  /\ faults < MaxFaults /\ faults' = faults + 1
  /\ task' = [task EXCEPT !.pc = "put back", !.failure = failure]
  /\ UNCHANGED <<staticFiles, gate, halted, halting, kept, borrowed, torn, earlier, stages,
                 halts>>

StepFails == Fails(Called) /\ UNCHANGED loadedRoute

(* The proxy is reloaded, but `activated` cannot be recorded. *)
ActivatedUnrecorded ==
  /\ task.pc = "reload" /\ operation.phase = "activating" /\ ~task.stopped
  /\ Fails("readiness_failed") /\ Load

(* Bug: a failed candidate is put back into service, stopped or not. *)
PutsServing == task.route

RouteBack == IF halted THEN task.own.disabled ELSE task.route

(* abort_static_operation: the route, the loaded route, the retention      *)
(* record and the serving record of before, as far as the operation in     *)
(* memory has them, whichever task read them.                              *)
PutBackRoute ==
  /\ task.pc = "put back" /\ Borrows(task.route # NoStatic)
  /\ IF task.route = NoStatic THEN Move("put back", "record back") /\ UNCHANGED routeFile
     ELSE routeFile' = RouteBack /\ Sees("put back", "reload back")
  /\ UNCHANGED <<operation, queued, installed, snapshot, routePrev, staticRecord, retention,
                 trees, loadedRoute, gate, halted, halting, kept, torn, earlier, staticCounts>>

ReloadBack ==
  /\ Move("reload back", "record back") /\ Load
  /\ UNCHANGED <<staticFiles, gate, halted, halting, kept, borrowed, torn, earlier,
                 staticCounts>>

(* Recorded as record() allows; otherwise the acknowledgement fails, and    *)
(* the journal stays as it is.                                             *)
Failure == IF Legal(operation.phase, Recorded(operation.phase, task.failure))
             THEN Recorded(operation.phase, task.failure) ELSE operation.phase

(* Bug: the record of the failed candidate stays. *)
KeepsRecord == staticRecord

RecordBack == IF task.before = NoStatic THEN NoStatic
              ELSE [task.before EXCEPT !.active = @ /\ ~task.stopped]

PutBackRecord ==
  /\ task.pc = "record back"
  /\ IF task.route = NoStatic THEN UNCHANGED <<retention, staticRecord>>
     ELSE /\ retention' = IF task.retained = NothingRetained THEN retention ELSE task.retained
          /\ staticRecord' = RecordBack
  /\ IF Owner THEN Leaves /\ UNCHANGED operation
     ELSE /\ Move("record back", "report") /\ UNCHANGED kept
          /\ operation' = [operation EXCEPT !.phase = Failure]
  /\ UNCHANGED <<queued, installed, snapshot, routeFile, routePrev, trees, loadedRoute, gate,
                 halted, halting, borrowed, torn, earlier, staticCounts>>

(* The abort fails as well: the failure is recorded, the rest is left. *)
AbortFails ==
  /\ task.pc = "reload back" /\ faults < MaxFaults /\ faults' = faults + 1
  /\ torn' = TRUE
  /\ IF Owner THEN Leaves /\ UNCHANGED operation
     ELSE /\ Move("reload back", "report") /\ UNCHANGED kept
          /\ operation' = [operation EXCEPT !.phase = Failure]
  /\ UNCHANGED <<queued, installed, snapshot, routeFile, routePrev, staticRecord, retention,
                 trees, loadedRoute, gate, halted, halting, borrowed, earlier, stages, halts>>
------------------------------------------------------------------------------
(* The owner's stop is recorded before it asks for the locks. *)
MarkHalted ==
  /\ halts < MaxHalts /\ ~halting
  /\ halted' = TRUE /\ halting' = TRUE /\ halts' = halts + 1
  /\ task' = [task EXCEPT !.unchanged = Unlocked]
  /\ UNCHANGED <<staticFiles, loadedRoute, gate, kept, borrowed, torn, earlier, stages, faults>>

(* With a serving record of this application the route is withdrawn. *)
HaltStatic(h) ==
  /\ Unlocked /\ halting /\ staticRecord # NoStatic /\ staticRecord.revision # Elsewhere
  /\ halting' = FALSE
  /\ task' = [NoTask EXCEPT !.by = h, !.verb = "stop", !.pc = "withdraw", !.made = TRUE,
                            !.own = staticRecord]
  /\ Forgotten
  /\ UNCHANGED <<staticFiles, loadedRoute, gate, halted, kept, borrowed, torn, staticCounts>>

(* Without one, the stop is that of any application: its containers.       *)
HaltContainers ==
  /\ Unlocked /\ halting /\ staticRecord = NoStatic
  /\ halting' = FALSE /\ gate' = NoStatic /\ torn' = FALSE /\ Forgotten
  /\ UNCHANGED <<staticFiles, loadedRoute, halted, task, kept, borrowed, staticCounts>>

(* A record whose route is not of this application refuses it. *)
HaltRefused ==
  /\ Unlocked /\ halting /\ staticRecord # NoStatic /\ staticRecord.revision = Elsewhere
  /\ halting' = FALSE /\ torn' = TRUE
  /\ UNCHANGED <<staticFiles, loadedRoute, gate, halted, task, kept, borrowed, earlier,
                 staticCounts>>

(* The locks do not come free within a minute, or a step of stop fails. *)
HaltFails ==
  /\ faults < MaxFaults /\ faults' = faults + 1 /\ torn' = TRUE
  /\ \/ halting /\ ~Unlocked /\ halting' = FALSE /\ UNCHANGED <<task, kept>>
     \/ task.verb = "stop" /\ Leaves /\ UNCHANGED halting
  /\ UNCHANGED <<staticFiles, loadedRoute, gate, halted, borrowed, earlier, stages, halts>>

(* start and restart publish and load the recorded revision again, if it   *)
(* is still the installed one.                                             *)
StartStatic(h, verb) ==
  /\ Unlocked /\ staticRecord # NoStatic /\ staticRecord.revision = installed
  /\ verb = "restart" => ~halted
  /\ verb = "start" => halted
  /\ Begin(h, verb, "prepare")
  /\ UNCHANGED <<staticFiles, hostState>>

Overtaken == ~task.unchanged

(* A stop recorded since the start began wins; otherwise a start clears    *)
(* the record of the stop it ends.                                         *)
Confirm ==
  /\ task.pc = "confirm"
  /\ IF Overtaken THEN Move("confirm", "put back") /\ UNCHANGED <<halted, kept, earlier>>
     ELSE Leaves /\ halted' = (halted /\ task.verb # "start") /\ Forgotten
  /\ UNCHANGED <<staticFiles, loadedRoute, gate, halting, borrowed, torn, staticCounts>>
------------------------------------------------------------------------------
(* restore-serving: the previous revision is retained and what the proxy   *)
(* serves is it.                                                           *)
Serves(r) == /\ loadedRoute # NoStatic /\ loadedRoute.revision = r
             /\ loadedRoute.kind = "gate" => gate = r

BeginRestore ==
  /\ Unlocked /\ ~queued /\ operation.phase \in Reconcilable /\ snapshot # NoStatic
  /\ operation.previous # NoStatic /\ retention.current = operation.previous
  /\ ~halted /\ Serves(operation.previous)
  /\ Begin("command", "restore", "restore")
  /\ UNCHANGED <<staticFiles, hostState>>

RestoreFiles ==
  /\ Move("restore", "close")
  /\ routeFile' = snapshot.route /\ installed' = snapshot.revision
  /\ UNCHANGED <<operation, queued, snapshot, routePrev, staticRecord, retention,
                 trees, hostState>>

(* The proxy is reloaded, and a stop that came meanwhile ends it. *)
CloseRestore ==
  /\ task.pc = "close" /\ Load /\ task' = NoTask
  /\ IF task.unchanged
       THEN operation' = [operation EXCEPT !.phase = "reconciled"] /\ UNCHANGED gate
       ELSE gate' = NoStatic /\ UNCHANGED operation
  /\ UNCHANGED <<queued, installed, snapshot, routeFile, routePrev, staticRecord, retention,
                 trees, halted, halting, kept, borrowed, torn, earlier, staticCounts>>

(* Another application's deployment reloads the whole proxy. *)
ReloadByOther ==
  /\ Unlocked /\ loadedRoute # routeFile /\ Load
  /\ UNCHANGED <<staticFiles, gate, halted, halting, task, kept, borrowed, torn, earlier,
                 staticCounts>>

(* Another static application is deployed or started by one of the Hosts.  *)
ServeOther(h) ==
  /\ Unlocked /\ kept[h] # Foreign
  /\ kept' = [kept EXCEPT ![h] = Foreign]
  /\ UNCHANGED <<staticFiles, loadedRoute, gate, halted, halting, task, borrowed, torn,
                 earlier, staticCounts>>

(* The daemon starts again while no task of it is under way. *)
DaemonRestarts ==
  /\ Unlocked /\ kept # NothingKept
  /\ kept' = NothingKept
  /\ UNCHANGED <<staticFiles, loadedRoute, gate, halted, halting, task, borrowed, torn,
                 earlier, staticCounts>>

(* The holder of the locks dies, the daemon with both its Hosts. *)
StaticCrash ==
  /\ ~Unlocked /\ faults < MaxFaults
  /\ faults' = faults + 1 /\ torn' = TRUE /\ task' = NoTask
  /\ kept' = IF task.by = "command" THEN kept ELSE NothingKept
  /\ UNCHANGED <<staticFiles, loadedRoute, gate, halted, halting, borrowed, earlier, stages,
                 halts>>

StaticStep ==
  \/ TakeUp \/ Look \/ PrepareStatic \/ PublishTree \/ SwapRoute \/ LookAgain
  \/ Withdraw \/ StopGate \/ Unload
  \/ ReloadRoute \/ Probe \/ LookLast \/ RetainStatic \/ StoreRecord \/ RecordAccepted
  \/ Retire \/ Report \/ PutBackRoute \/ ReloadBack \/ PutBackRecord
  \/ HaltContainers \/ HaltRefused \/ Confirm \/ RestoreFiles \/ CloseRestore

StaticNext ==
  \/ StaticStep \/ StepFails \/ ActivatedUnrecorded \/ AbortFails \/ HaltFails \/ StaticCrash
  \/ MarkHalted \/ BeginRestore \/ ReloadByOther \/ DaemonRestarts
  \/ \E c \in StaticRevisions : StageStatic(c)
  \/ \E h \in OwnerHosts :
       HaltStatic(h) \/ \E verb \in {"start", "restart"} : StartStatic(h, verb)
  \/ \E h \in {"worker"} \cup (OwnerHosts \ {"command"}) : ServeOther(h)

StaticSpec == StaticInit /\ [][StaticNext]_staticVars
------------------------------------------------------------------------------
(* The route that the task itself has read, to be put back; after the      *)
(* acceptance or the abort it is used no more.                             *)
PutBack == IF task.made /\ task.pc # "report" THEN {task.route} ELSE {}

(* As long as no task worked with the operation of another, every route    *)
(* that is loaded, on disk or kept to be put back leads to containers or   *)
(* to a tree that is there.                                                *)
TreesPublished ==
  borrowed = 0 =>
    \A r \in ({routeFile, routePrev, loadedRoute} \cup PutBack) \ {NoStatic} :
      r.kind = "tree" => r.revision \in trees

Withdrawn == /\ \A r \in {routeFile, loadedRoute} \ {NoStatic} : r.kind # "tree"
             /\ gate = NoStatic

(* A stopped application whose last stop was not cut short is served       *)
(* neither by the proxy nor by the next reload of it, whatever was         *)
(* activated, started, put back or restored around the stop.               *)
StoppedIsWithdrawn ==
  halted /\ ~halting /\ Unlocked /\ ~torn /\ staticRecord # NoStatic => Withdrawn

(* The installed revision, the serving record and the route of an accepted *)
(* operation are those of its candidate, in every state any later command  *)
(* or crash leaves behind, unless one since its staging worked with the    *)
(* operation of another.                                                   *)
AcceptedIsWhole ==
  operation.phase \in Accepted /\ staticRecord # NoStatic /\ borrowed <= stages =>
    /\ installed = operation.candidate /\ staticRecord.revision = operation.candidate
    /\ routeFile.revision = operation.candidate

(* A deployment that ended without success once it had swapped the route,  *)
(* whatever the journal could still record, leaves the proxy with the route *)
(* that was on disk before the deployment, and what was recorded and        *)
(* retained then; of a first deployment, what it retained itself remains.   *)
(* Unless, again, a task since its staging worked with the operation of     *)
(* another.                                                                 *)
RefusedLeavesServing ==
  /\ operation.phase \in {"activating", "activated", "activation_failed",
                          "readiness_failed", "failed"}
  /\ Unlocked /\ ~queued /\ ~halted /\ ~torn /\ borrowed <= stages
  /\ earlier.route # NoStatic /\ routeFile # Gate(operation.candidate)
  => /\ loadedRoute = earlier.route /\ staticRecord = earlier.record
     /\ earlier.retained \in {NothingRetained, retention}
==============================================================================
