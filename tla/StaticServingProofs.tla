------------------------- MODULE StaticServingProofs -------------------------
(***************************************************************************)
(* The properties of a static application, for any revisions and any       *)
(* number of deployments, stops, failures and deaths: no route leads to a  *)
(* tree that is gone, a stop withdraws, an acceptance is whole, a refused  *)
(* deployment leaves what served before it.  All but the second are        *)
(* promised only as long as no task works with the StaticOperation that    *)
(* another task, perhaps of another application, left in the Host          *)
(* (borrowed).                                                             *)
(*                                                                         *)
(* Every property follows from one inductive invariant.  A lemma for each  *)
(* action shows that the action keeps it; in every one of them, steps 11   *)
(* to 19 are the nine conjuncts of the invariant.                          *)
(***************************************************************************)
EXTENDS StaticServing, TLAPS

(* Each verb has its own steps.                                            *)
OfItsVerb ==
  /\ task.verb = "none" => task = NoTask /\ task.pc = "idle"
  /\ task.verb = "activate" => task.pc \in Steps \ {"confirm", "restore", "close"}
  /\ task.verb = "stop" => task.pc \in {"withdraw", "unload", "stop gate", "store"}
  /\ Owner => task.pc \in {"prepare", "copy", "swap", "reload", "probe", "store", "confirm", "put back",
                          "reload back", "record back"}
  /\ task.verb = "restore" => task.pc \in {"restore", "close"}

(* The activation of a queued request.                                     *)
Activating == task.verb = "activate"

(* The steps at which the holder of the locks has an operation of its own  *)
(* in memory, and those that need one of whatever task.                    *)
Prepared == {"copy", "swap", "look again", "withdraw", "stop gate", "unload", "probe", "look last",
             "confirm"}
Needed == Prepared \cup {"store", "record", "retire", "reload back"}

(* The route that the task has read itself, to be put back.                *)
ReadIt == task.made /\ task.route # NoStatic

(* What the Hosts keep has a record with every route.                      *)
KeptWhole == \A h \in Hosts : kept[h].route # NoStatic => kept[h].own # NoStatic

(* No task wrote what another had read since the last deployment began.    *)
OwnFiles == borrowed <= stages

(* What a task writes without that is what it has read itself.             *)
OwnOperation ==
  \/ task.pc \in {"store", "record", "retire"}
  \/ task.pc \in {"reload back", "record back"} /\ task.route # NoStatic
  => task.made \/ ~OwnFiles

(* What the holder of the locks has in memory at its steps: the record of  *)
(* the revision once it is prepared, the route to put back once it was     *)
(* read, and a tree that is there before the route is to lead to it.       *)
InHand ==
  /\ OfItsVerb
  /\ OwnOperation
  /\ task.pc \in Prepared \/ task.verb = "stop" => task.made
  /\ task.pc \in Needed \/ task.made => task.own # NoStatic
  /\ Owner /\ task.pc \notin {"prepare", "put back", "reload back", "record back"} => ReadIt
  /\ Owner /\ task.made => ReadIt /\ task.own.revision \in StaticRevisions
  /\ task.pc \in {"look", "prepare"} => ~task.made
  /\ task.pc = "reload back" => task.route # NoStatic
  /\ Activating /\ task.pc = "reload" /\ ~task.made => task.stopped
  /\ task.route # NoStatic => task.own # NoStatic
  /\ KeptWhole
  /\ task.pc = "swap" => task.own.revision \in trees
  /\ Owner \/ task.verb = "stop" => staticRecord # NoStatic
  /\ Owner => staticRecord.revision \in StaticRevisions
  /\ task.verb # "none" /\ ~task.unchanged => halted

(* What is queued, recorded or restored is of an installed revision, and   *)
(* an installed revision has a route; the snapshot keeps the revision and  *)
(* the route of before.                                                    *)
Installed ==
  /\ queued => operation.candidate \in StaticRevisions /\ installed = operation.candidate
  /\ staticRecord # NoStatic => installed # NoStatic
  /\ installed # NoStatic => routeFile # NoStatic
  /\ snapshot # NoStatic => /\ snapshot.revision = operation.previous
                            /\ snapshot.revision # NoStatic => snapshot.route # NoStatic
  /\ task.verb = "restore" => /\ snapshot # NoStatic /\ operation.phase \in Reconcilable
                              /\ operation.previous # NoStatic /\ ~queued

(* A serving record of revision c.                                         *)
Of(record, c) == record.revision = c /\ record.disabled = Gate(c)

(* The steps of an acceptance, and those of an abort.                      *)
Accepting == {"retain", "store", "record", "retire"}
Aborting == {"put back", "reload back", "record back"}

(* The phases of an operation that is being activated.                     *)
Ongoing == {"configured", "activating", "activated"}

(* What an activation knows at its steps: the journal is at the phase the  *)
(* step can find, the route file is the candidate's from the first step to *)
(* the end of the acceptance, the reloaded route is the file's from the    *)
(* probes on, and the record of the candidate is on disk before the        *)
(* journal accepts it.                                                     *)
ActivationInHand == Activating =>
  /\ queued
  /\ task.pc \notin {"retire", "report"} => operation.phase \in Ongoing
  /\ task.pc = "retire" => operation.phase \in Accepted
  /\ \/ task.pc \in {"look", "prepare", "copy", "swap"}
     \/ task.pc \in {"reload", "retain"} /\ ~task.made
     => routeFile = Gate(operation.candidate)
  /\ task.pc \notin Aborting \cup {"report"} =>
       routeFile # NoStatic /\ routeFile.revision = operation.candidate
  /\ task.made => Of(task.own, operation.candidate)
  /\ task.pc \in {"probe", "look last"} \cup Accepting => loadedRoute = routeFile
  /\ task.pc \in {"store", "record", "retire"} => routePrev = NoStatic
  /\ task.pc \in {"record", "retire"} => staticRecord = task.own

(* A route to a tree leads to one that is extracted.                       *)
Leads(r) == r # NoStatic /\ r.kind = "tree" => r.revision \in trees

(* Every route on disk, loaded, in memory or in a snapshot leads           *)
(* somewhere, as long as no task wrote what another had read.              *)
RoutesLead == borrowed = 0 =>
  /\ Leads(routeFile) /\ Leads(routePrev) /\ Leads(loadedRoute)
  /\ task.made /\ task.pc # "report" => Leads(task.route)
  /\ snapshot # NoStatic /\ operation.phase \notin Accepted => Leads(snapshot.route)

(* After an acceptance the installed revision, the serving record and the  *)
(* route are the candidate's, and an owner's command holds nothing else to *)
(* put back.                                                               *)
WholeAsAccepted == OwnFiles /\ operation.phase \in Accepted =>
  /\ routePrev = NoStatic
  /\ staticRecord # NoStatic =>
       /\ installed = operation.candidate /\ Of(staticRecord, operation.candidate)
       /\ routeFile # NoStatic /\ routeFile.revision = operation.candidate
  /\ Owner \/ task.verb = "stop" =>
      /\ task.made => Of(task.own, operation.candidate)
      /\ task.made /\ task.before # NoStatic => Of(task.before, operation.candidate)
      /\ ReadIt =>
           task.before # NoStatic /\ task.route.revision = operation.candidate

(* A stop on record, carried out as far as one can tell.                   *)
Stopped == halted /\ ~halting /\ ~torn

(* No route, or one through the gate.                                      *)
NotTree(r) == r # NoStatic => r.kind # "tree"

(* What a stop has done so far.                                            *)
Withdrawal == task.verb = "stop" =>
  /\ task.pc # "withdraw" => NotTree(routeFile)
  /\ task.pc \in {"stop gate", "store"} => NotTree(loadedRoute)
  /\ task.pc = "store" => gate = NoStatic
  /\ earlier.route = NoStatic

(* A stop on record that was carried out: nothing serves, and whoever      *)
(* works meanwhile has found the stop on record or puts back what does not *)
(* serve.                                                                  *)
StaysWithdrawn == Stopped =>
  /\ task.verb # "stop" => gate = NoStatic
  /\ task.verb \notin {"restart", "restore"}
  /\ task.verb = "none" /\ staticRecord # NoStatic => NotTree(routeFile) /\ NotTree(loadedRoute)
  /\ Activating =>
       /\ task.pc \in {"look", "reload", "report"} \cup Aborting \cup Accepting
       /\ task.pc = "reload" => task.stopped
       /\ ~ReadIt /\ NotTree(routeFile)
       /\ \/ staticRecord # NoStatic \/ task.pc \in Accepting
          \/ task.pc = "record back" /\ task.route # NoStatic
          => NotTree(loadedRoute)
  /\ task.verb = "start" =>
       /\ \/ task.pc \in {"prepare", "copy", "swap", "record back"}
          \/ task.pc = "put back" /\ ~task.made
          => NotTree(routeFile) /\ NotTree(loadedRoute)
       /\ task.pc = "reload back" => NotTree(routeFile)

(* No stop, and something to put back.                                     *)
Live == ~torn /\ ~halted /\ OwnFiles /\ earlier.route # NoStatic

(* The phases of an operation that is under way or refused.                *)
Open == {"configured", "activating", "activated", "activation_failed", "readiness_failed", "failed"}

(* The route an abort is to put back.                                      *)
Back == IF routePrev = NoStatic THEN routeFile ELSE routePrev

(* Before an activation has touched anything, and after it is over: what   *)
(* is there is what was there before the staging, or the candidate's route *)
(* alone.                                                                  *)
Untouched ==
  /\ \/ task.verb = "none"
     \/ task.pc \in {"look", "prepare", "report"}
     \/ task.pc \in {"put back", "record back"} /\ ~ReadIt
  => /\ Back = earlier.route
     /\ \/ routeFile = Gate(operation.candidate)
        \/ routeFile = earlier.route /\ loadedRoute = earlier.route
     /\ staticRecord = earlier.record /\ earlier.retained \in {NothingRetained, retention}

(* In between, what is to be put back is in memory.                        *)
Remembered ==
  /\ Activating \/ task.verb = "restart"
  /\ task.pc \notin {"look", "prepare", "report"}
  /\ task.pc \in {"put back", "record back"} => ReadIt
  => /\ ReadIt /\ task.route = earlier.route /\ task.before = earlier.record
     /\ earlier.retained \in {NothingRetained, task.retained}
     /\ routePrev \in {NoStatic, earlier.route}

(* An abort puts the route back, has it loaded, and then the record.       *)
PutBackFirst ==
  /\ task.pc \in {"reload back", "record back"} /\ ReadIt =>
       ~task.stopped /\ routeFile = earlier.route
  /\ task.pc = "record back" /\ ReadIt => loadedRoute = earlier.route

(* An operation that is open or refused, while no stop interfered.         *)
RefusedRestores == Live /\ operation.phase \in Open =>
  /\ task.verb # "start"
  /\ Untouched /\ Remembered /\ PutBackFirst

(* The inductive invariant.                                                *)
StaticInv == /\ StaticTypeOK /\ InHand /\ Installed /\ ActivationInHand /\ RoutesLead
             /\ WholeAsAccepted /\ Withdrawal /\ StaysWithdrawn /\ RefusedRestores
------------------------------------------------------------------------------
(* A step that moves the task and leaves the rest of it.                   *)
Held == /\ task'.by = task.by /\ task'.verb = task.verb /\ task'.own = task.own
        /\ task'.before = task.before /\ task'.route = task.route
        /\ task'.retained = task.retained /\ task'.made = task.made
        /\ task'.failure = task.failure /\ task'.unchanged = task.unchanged

(* Move changes the step and nothing else.                                 *)
LEMMA MoveHolds ==
  ASSUME task \in Tasks, NEW from, NEW to \in Steps, Move(from, to)
  PROVE  /\ task' \in Tasks /\ Held /\ task'.stopped = task.stopped
         /\ task.pc = from /\ task'.pc = to
BY DEF Tasks, Move, Held

(* A look at the stop record also remembers what it saw.                   *)
LEMMA SeesHolds ==
  ASSUME task \in Tasks, halted \in BOOLEAN, NEW from, NEW to \in Steps, Sees(from, to)
  PROVE  /\ task' \in Tasks /\ Held /\ task'.stopped = halted
         /\ task.pc = from /\ task'.pc = to
BY DEF Tasks, Sees, Held

(* The types of operation.json and of what was there before.               *)
Operations == [phase : Phases \cup {"none"}, candidate : NoneOr(StaticRevisions),
               previous : NoneOr(StaticRevisions)]

(* The operation keeps its revisions.                                      *)
SameOperation == /\ operation'.candidate = operation.candidate
                 /\ operation'.previous = operation.previous

(* A record in the journal changes the phase and nothing else.             *)
LEMMA PhaseHolds ==
  ASSUME StaticTypeOK, NEW phase \in Phases \cup {"none"}, operation' = [operation EXCEPT !.phase = phase]
  PROVE  operation' \in Operations /\ operation'.phase = phase /\ SameOperation
<1>1. operation \in Operations BY DEF StaticTypeOK, Operations
<1> QED BY <1>1 DEF Operations, SameOperation

Earliers == [route : NoneOr(Routes), record : NoneOr(StaticRecords), retained : Retentions]

(* Forgetting the route of before keeps the rest.                          *)
LEMMA ForgottenHolds ==
  ASSUME StaticTypeOK, Forgotten
  PROVE  /\ earlier' \in Earliers /\ earlier'.route = NoStatic
         /\ earlier'.record = earlier.record /\ earlier'.retained = earlier.retained
<1>1. earlier \in Earliers BY DEF StaticTypeOK, Earliers
<1> QED BY <1>1 DEF Earliers, Forgotten, NoneOr

(* The phases the model speaks of are phases of the journal.               *)
LEMMA Spoken ==
  {"activating", "activated", "prepared_stopped", "ready", "failed", "activation_failed",
   "readiness_failed", "reconciled", "configured"} \subseteq Phases
BY DEF Phases

(* NoStatic is no revision, no route and no record.                        *)
LEMMA NoneIsNone ==
  /\ NoStatic \in NoneOr(StaticRevisions) /\ NoStatic \in NoneOr(Routes)
  /\ NoStatic \in NoneOr(StaticRecords)
  /\ \A r \in Routes : r # NoStatic /\ r \in NoneOr(Routes)
  /\ \A r \in StaticRecords : r # NoStatic /\ r \in NoneOr(StaticRecords)
  /\ \A r \in StaticRevisions : r # NoStatic /\ r \in NoneOr(StaticRevisions)
BY StaticAssumption DEF NoneOr, StaticAssumption, Contents

(* What a route through the gate and one to a tree are made of ...         *)
LEMMA RouteFields ==
  ASSUME NEW r \in Contents
  PROVE  /\ Gate(r) \in Routes /\ Gate(r).revision = r /\ Gate(r).kind = "gate"
         /\ Tree(r) \in Routes /\ Tree(r).revision = r /\ Tree(r).kind = "tree"
         /\ Gate(r) \in {Gate(s) : s \in Contents}
BY DEF Gate, Tree, Routes

(* ... and what a route is made of.                                        *)
LEMMA GateRoutes ==
  ASSUME NEW g \in {Gate(r) : r \in Contents}
  PROVE  g \in Routes /\ g.kind = "gate" /\ g = Gate(g.revision) /\ g.revision \in Contents
BY DEF Gate, Routes

(* A route is of one of the two kinds.                                     *)
LEMMA RouteKinds ==
  ASSUME NEW r \in Routes
  PROVE  /\ r.revision \in Contents
         /\ \/ r.kind = "gate" /\ r = Gate(r.revision)
            \/ r.kind = "tree" /\ r = Tree(r.revision)
BY DEF Gate, Tree, Routes

(* The revisions of the application are among the contents of routes.      *)
LEMMA OwnContents ==
  ASSUME NEW r \in StaticRevisions
  PROVE  r \in Contents /\ r # Elsewhere /\ r \in NoneOr(Contents)
BY StaticAssumption DEF Contents, NoneOr, StaticAssumption

(* What a serving record is made of.                                       *)
LEMMA RecordFields ==
  ASSUME NEW r \in StaticRecords
  PROVE  /\ r.revision \in Contents /\ r.active \in BOOLEAN
         /\ r.disabled \in {Gate(s) : s \in Contents}
BY DEF StaticRecords

(* The record that PrepareStatic and Accept make up.                       *)
LEMMA InactiveRecord ==
  ASSUME NEW r \in Contents, NEW d \in {Gate(s) : s \in Contents}
  PROVE  \E record \in StaticRecords :
           /\ record = [revision |-> r, active |-> FALSE, disabled |-> d]
           /\ record.revision = r /\ record.active = FALSE /\ record.disabled = d
<1> DEFINE record == [revision |-> r, active |-> FALSE, disabled |-> d]
<1>1. record \in StaticRecords BY DEF StaticRecords
<1>2. record.revision = r /\ record.active = FALSE /\ record.disabled = d OBVIOUS
<1> QED BY <1>1, <1>2

(* The type invariant, part by part.                                       *)
LEMMA Typed ==
  ASSUME StaticTypeOK
  PROVE  /\ operation \in Operations /\ task \in Tasks /\ earlier \in Earliers
         /\ installed \in NoneOr(StaticRevisions) /\ routeFile \in NoneOr(Routes)
         /\ routePrev \in NoneOr(Routes) /\ loadedRoute \in NoneOr(Routes)
         /\ staticRecord \in NoneOr(StaticRecords) /\ retention \in Retentions
         /\ task.own \in NoneOr(StaticRecords) /\ task.before \in NoneOr(StaticRecords)
         /\ task.route \in NoneOr(Routes) /\ task.retained \in Retentions
         /\ task.unchanged \in BOOLEAN /\ task.made \in BOOLEAN /\ task.stopped \in BOOLEAN
         /\ task.by \in Hosts /\ kept \in [Hosts -> StaticOperations] /\ halted \in BOOLEAN
         /\ operation.candidate \in NoneOr(StaticRevisions)
         /\ operation.previous \in NoneOr(StaticRevisions)
<1>1. operation \in Operations BY DEF StaticTypeOK, Operations
<1>2. earlier \in Earliers BY DEF StaticTypeOK, Earliers
<1>3. task \in Tasks /\ retention \in Retentions /\ staticRecord \in NoneOr(StaticRecords)
      /\ installed \in NoneOr(StaticRevisions) /\ halted \in BOOLEAN
      /\ kept \in [Hosts -> StaticOperations]
  BY DEF StaticTypeOK
<1>4. routeFile \in NoneOr(Routes) /\ routePrev \in NoneOr(Routes) /\ loadedRoute \in NoneOr(Routes)
  BY DEF StaticTypeOK
<1>5. operation.candidate \in NoneOr(StaticRevisions) /\ operation.previous \in NoneOr(StaticRevisions)
  BY <1>1 DEF Operations
<1>6. /\ task.own \in NoneOr(StaticRecords) /\ task.before \in NoneOr(StaticRecords)
      /\ task.route \in NoneOr(Routes) /\ task.retained \in Retentions /\ task.unchanged \in BOOLEAN
      /\ task.made \in BOOLEAN /\ task.stopped \in BOOLEAN /\ task.by \in Hosts
  BY <1>3 DEF Tasks
<1> QED BY <1>1, <1>2, <1>3, <1>4, <1>5, <1>6

(* A step that changes the record in memory.                               *)
HeldButOwn == /\ task'.by = task.by /\ task'.verb = task.verb /\ task'.before = task.before
              /\ task'.route = task.route /\ task'.retained = task.retained
              /\ task'.stopped = task.stopped
              /\ task'.failure = task.failure /\ task'.unchanged = task.unchanged

(* Marking the record in memory active or inactive keeps the rest of it.   *)
LEMMA ActiveSet ==
  ASSUME StaticTypeOK, task.own # NoStatic, NEW active \in BOOLEAN, NEW to \in Steps,
         task' = [task EXCEPT !.own.active = active, !.pc = to]
  PROVE  /\ task' \in Tasks /\ HeldButOwn /\ task'.pc = to
         /\ task'.own \in StaticRecords /\ task'.own # NoStatic
         /\ task'.own.revision = task.own.revision /\ task'.own.disabled = task.own.disabled
         /\ task'.own.active = active /\ task'.made = task.made
<1>1. task \in Tasks /\ task.own \in StaticRecords BY Typed DEF NoneOr
<1>2. PICK own : own = [task.own EXCEPT !.active = active] OBVIOUS
<1>3. task' = [task EXCEPT !.own = own, !.pc = to]
  BY <1>1, <1>2 DEF Tasks
<1>4. /\ own \in StaticRecords /\ own.revision = task.own.revision
      /\ own.disabled = task.own.disabled /\ own.active = active
  BY <1>1, <1>2 DEF StaticRecords
<1>5. task' \in Tasks /\ HeldButOwn /\ task'.pc = to /\ task'.own = own /\ task'.made = task.made
  BY <1>1, <1>3, <1>4, NoneIsNone DEF Tasks, HeldButOwn
<1> QED BY <1>4, <1>5, NoneIsNone

(* A step that names the failure.                                          *)
HeldButFailure == /\ task'.by = task.by /\ task'.verb = task.verb /\ task'.own = task.own
                  /\ task'.before = task.before /\ task'.route = task.route
                  /\ task'.retained = task.retained /\ task'.made = task.made
                  /\ task'.stopped = task.stopped /\ task'.unchanged = task.unchanged

(* A counted fault stays within the bound.                                 *)
LEMMA FaultCounted ==
  ASSUME StaticTypeOK, faults < MaxFaults, faults' = faults + 1
  PROVE  faults' \in 0..MaxFaults
BY StaticAssumption DEF StaticTypeOK, StaticAssumption

(* The record that an abort stores is the one of before, at most less      *)
(* active.                                                                 *)
LEMMA RecordRestored ==
  ASSUME StaticTypeOK
  PROVE  /\ task.before = NoStatic => RecordBack = NoStatic
         /\ task.before # NoStatic => /\ RecordBack \in StaticRecords
                                     /\ RecordBack.revision = task.before.revision
                                     /\ RecordBack.disabled = task.before.disabled
         /\ ~task.stopped => RecordBack = task.before
<1>1. task.before = NoStatic => RecordBack = NoStatic BY DEF RecordBack
<1>2. ASSUME task.before # NoStatic
      PROVE  /\ RecordBack \in StaticRecords
             /\ RecordBack.revision = task.before.revision
             /\ RecordBack.disabled = task.before.disabled
             /\ ~task.stopped => RecordBack = task.before
  <2>1. task.before \in StaticRecords BY <1>2, Typed DEF NoneOr
  <2>2. task.before.active \in BOOLEAN /\ task.stopped \in BOOLEAN BY <2>1, RecordFields, Typed
  <2>3. PICK active \in BOOLEAN : /\ active = (task.before.active /\ ~task.stopped)
                                  /\ ~task.stopped => active = task.before.active
    BY <2>2
  <2>4. RecordBack = [task.before EXCEPT !.active = task.before.active /\ ~task.stopped]
    BY <1>2 DEF RecordBack
  <2>5. RecordBack = [task.before EXCEPT !.active = active] BY <2>3, <2>4
  <2> QED BY <2>1, <2>3, <2>5 DEF StaticRecords
<1> QED BY <1>1, <1>2

(* A failure leaves the operation open or refused, never accepted.         *)
LEMMA FailurePhase ==
  ASSUME StaticTypeOK, operation.phase \in Ongoing
  PROVE  /\ Failure \in Open /\ Failure \in Phases /\ Failure \notin Accepted
         /\ operation.phase \in Open /\ operation.phase \notin Accepted
<1>1. task.failure \in Failures BY DEF StaticTypeOK, Tasks
<1>2. Failure \in {operation.phase, task.failure, "activation_failed"}
  BY DEF Failure, Recorded
<1> QED BY <1>1, <1>2 DEF Failures, Open, Phases, Accepted, Ongoing

(* What nobody holds, and what a Host keeps at first.                      *)
LEMMA NoTaskFields ==
  /\ NoTask \in Tasks /\ NoTask.verb = "none" /\ NoTask.pc = "idle" /\ NoTask.own = NoStatic
  /\ NoTask.before = NoStatic /\ NoTask.route = NoStatic /\ NoTask.retained = NothingRetained
  /\ NoTask.made = FALSE /\ NoTask.stopped = FALSE
  /\ NoTask.failure = "failed" /\ NoTask.unchanged = TRUE /\ NoTask.by = "command"
  /\ NothingRetained \in Retentions
<1>1. NoTask.verb = "none" /\ NoTask.pc = "idle" /\ NoTask.own = NoStatic
      /\ NoTask.before = NoStatic /\ NoTask.route = NoStatic /\ NoTask.retained = NothingRetained
      /\ NoTask.made = FALSE /\ NoTask.stopped = FALSE
      /\ NoTask.failure = "failed" /\ NoTask.unchanged = TRUE /\ NoTask.by = "command"
  BY DEF NoTask
<1>2. NothingRetained \in Retentions BY DEF NothingRetained, Retentions, NoneOr
<1>3. NoTask \in Tasks
  BY <1>2 DEF NoTask, Tasks, NoneOr, Failures, Hosts
<1> QED BY <1>1, <1>2, <1>3

(* Nothing kept has no route.                                              *)
LEMMA NothingKeptFields ==
  /\ NothingKept \in [Hosts -> StaticOperations]
  /\ \A h \in Hosts : NothingKept[h].route = NoStatic
<1>1. NoOperation \in StaticOperations /\ NoOperation.route = NoStatic
  BY NoTaskFields DEF NoOperation, StaticOperations, NoneOr
<1> QED BY <1>1 DEF NothingKept

(* A command begins with what its Host has kept.                           *)
LEMMA BeginHolds ==
  ASSUME StaticTypeOK, NEW h \in Hosts, NEW verb \in Verbs, NEW pc \in Steps, Begin(h, verb, pc)
  PROVE  /\ task' \in Tasks /\ task'.verb = verb /\ task'.pc = pc /\ task'.own = kept[h].own
         /\ task'.before = kept[h].before /\ task'.route = kept[h].route
         /\ task'.retained = kept[h].retained /\ task'.made = FALSE /\ task'.stopped = FALSE
         /\ task'.failure = "failed" /\ task'.unchanged = TRUE
<1>1. kept[h] \in StaticOperations BY Typed
<1> QED BY <1>1, NoTaskFields DEF Begin, Tasks, StaticOperations

(* A task that ends leaves its operation in the Host.                      *)
LEMMA LeavesHolds ==
  ASSUME StaticTypeOK, InHand, Leaves
  PROVE  task' = NoTask /\ kept' \in [Hosts -> StaticOperations] /\ KeptWhole'
<1>1. /\ task \in Tasks /\ task.by \in Hosts /\ kept \in [Hosts -> StaticOperations]
      /\ task.own \in NoneOr(StaticRecords) /\ task.before \in NoneOr(StaticRecords)
      /\ task.route \in NoneOr(Routes) /\ task.retained \in Retentions
  BY Typed
<1>2. /\ InMemory \in StaticOperations /\ InMemory.route = task.route
      /\ InMemory.own = task.own
  BY <1>1 DEF InMemory, StaticOperations
<1>3. task' = NoTask /\ kept' \in {kept, [kept EXCEPT ![task.by] = InMemory]}
  BY DEF Leaves
<1>4. KeptWhole /\ (task.route # NoStatic => task.own # NoStatic) BY DEF InHand
<1> QED BY <1>1, <1>2, <1>3, <1>4 DEF KeptWhole

(* The locks are free when the task has no verb.                           *)
LEMMA UnlockedIs ==
  ASSUME InHand
  PROVE  Unlocked <=> task.verb = "none"
BY NoTaskFields DEF Unlocked, InHand, OfItsVerb

(* A stop recorded meanwhile changes only what the task will find.         *)
HeldButUnchanged == /\ task'.by = task.by /\ task'.verb = task.verb /\ task'.pc = task.pc
                    /\ task'.own = task.own /\ task'.before = task.before
                    /\ task'.route = task.route /\ task'.retained = task.retained
                    /\ task'.made = task.made /\ task'.stopped = task.stopped
                    /\ task'.failure = task.failure

(* The probes change nothing.                                              *)
LEMMA ProbeOK ==
  ASSUME StaticInv, Probe
  PROVE  StaticInv'
<1> USE DEF StaticInv
<1>1. task \in Tasks BY DEF StaticTypeOK
<1>2. PICK to \in {"store", "look last"} : Move("probe", to) /\ (to = "store" <=> Owner)
  BY DEF Probe
<1>3. to \in Steps BY DEF Steps
<1>4. task' \in Tasks /\ Held /\ task.pc = "probe" /\ task'.pc = to
  BY <1>1, <1>2, <1>3, MoveHolds
<1>6. UNCHANGED <<staticFiles, hostState>> BY DEF Probe
<1> USE DEF staticFiles, hostState, staticCounts
<1>11. StaticTypeOK'
  BY <1>4, <1>6 DEF StaticTypeOK
<1>12. InHand'
  <2>1. OfItsVerb' BY <1>2, <1>4 DEF InHand, OfItsVerb, Held, Owner, Steps
  <2>2. KeptWhole' BY <1>6 DEF InHand, KeptWhole
  <2> QED
    BY <2>1, <2>2, <1>4, <1>6 DEF InHand, Held, Owner, Activating, ReadIt, Prepared, Needed, OwnOperation, OwnFiles
<1>13. Installed'
  BY <1>4, <1>6 DEF Installed, Held
<1>14. ActivationInHand'
  BY <1>2, <1>4, <1>6 DEF ActivationInHand, Activating, Held, Aborting, Owner
<1>15. RoutesLead'
  BY <1>4, <1>6 DEF RoutesLead, Leads, Held
<1>16. WholeAsAccepted'
  BY <1>4, <1>6 DEF WholeAsAccepted, Held, Owner, OwnFiles, ReadIt
<1>17. Withdrawal'
  BY <1>4 DEF Withdrawal, Held, InHand, OfItsVerb
<1>18. StaysWithdrawn'
  BY <1>4, <1>6 DEF StaysWithdrawn, Held, Stopped, Activating, Accepting, ReadIt, Aborting
<1>19. RefusedRestores'
  BY <1>4, <1>6
  DEF RefusedRestores, Held, Live, Untouched, Remembered, PutBackFirst, Activating, Back, OwnFiles, ReadIt
<1> QED BY <1>11, <1>12, <1>13, <1>14, <1>15, <1>16, <1>17, <1>18, <1>19

(* A look at the stop record, after the route file was replaced ...        *)
LEMMA LookAgainOK ==
  ASSUME StaticInv, LookAgain
  PROVE  StaticInv'
<1> USE DEF StaticInv
<1>1. task \in Tasks /\ halted \in BOOLEAN BY DEF StaticTypeOK
<1>2. PICK to \in {"withdraw", "reload"} : Sees("look again", to) /\ (to = "withdraw" <=> halted)
  BY DEF LookAgain
<1>3. to \in Steps BY DEF Steps
<1>4. task' \in Tasks /\ Held /\ task'.stopped = halted /\ task.pc = "look again" /\ task'.pc = to
  BY <1>1, <1>2, <1>3, SeesHolds
<1>6. UNCHANGED <<staticFiles, hostState>> BY DEF LookAgain
<1> USE DEF staticFiles, hostState, staticCounts
<1>11. StaticTypeOK'
  BY <1>4, <1>6 DEF StaticTypeOK
<1>12. InHand'
  <2>1. OfItsVerb' BY <1>4 DEF InHand, OfItsVerb, Held, Owner, Steps
  <2>2. KeptWhole' BY <1>6 DEF InHand, KeptWhole
  <2> QED
    BY <2>1, <2>2, <1>4, <1>6 DEF InHand, Held, Owner, Activating, ReadIt, Prepared, Needed, OwnOperation, OwnFiles
<1>13. Installed'
  BY <1>4, <1>6 DEF Installed, Held
<1>14. ActivationInHand'
  BY <1>4, <1>6 DEF ActivationInHand, Activating, Held, Aborting, Accepting, InHand, Prepared
<1>15. RoutesLead'
  BY <1>4, <1>6 DEF RoutesLead, Leads, Held
<1>16. WholeAsAccepted'
  BY <1>4, <1>6 DEF WholeAsAccepted, Held, Owner, OwnFiles, ReadIt
<1>17. Withdrawal'
  BY <1>4 DEF Withdrawal, Held, InHand, OfItsVerb
<1>18. StaysWithdrawn'
  BY <1>4, <1>6 DEF StaysWithdrawn, Held, Stopped, Activating, Accepting, ReadIt, Aborting
<1>19. RefusedRestores'
  BY <1>4, <1>6
  DEF RefusedRestores, Held, Live, Untouched, Remembered, PutBackFirst, Activating, Back, OwnFiles, ReadIt
<1> QED BY <1>11, <1>12, <1>13, <1>14, <1>15, <1>16, <1>17, <1>18, <1>19

(* ... and the last one, before the acceptance.                            *)
LEMMA LookLastOK ==
  ASSUME StaticInv, LookLast
  PROVE  StaticInv'
<1> USE DEF StaticInv
<1>1. task \in Tasks /\ halted \in BOOLEAN BY DEF StaticTypeOK
<1>2. PICK to \in {"withdraw", "retain"} : Sees("look last", to) /\ (to = "withdraw" <=> halted)
  BY DEF LookLast
<1>3. to \in Steps BY DEF Steps
<1>4. task' \in Tasks /\ Held /\ task'.stopped = halted /\ task.pc = "look last" /\ task'.pc = to
  BY <1>1, <1>2, <1>3, SeesHolds
<1>6. UNCHANGED <<staticFiles, hostState>> BY DEF LookLast
<1> USE DEF staticFiles, hostState, staticCounts
<1>11. StaticTypeOK'
  BY <1>4, <1>6 DEF StaticTypeOK
<1>12. InHand'
  <2>1. OfItsVerb' BY <1>4 DEF InHand, OfItsVerb, Held, Owner, Steps
  <2>2. KeptWhole' BY <1>6 DEF InHand, KeptWhole
  <2> QED
    BY <2>1, <2>2, <1>4, <1>6 DEF InHand, Held, Owner, Activating, ReadIt, Prepared, Needed, OwnOperation, OwnFiles
<1>13. Installed'
  BY <1>4, <1>6 DEF Installed, Held
<1>14. ActivationInHand'
  BY <1>4, <1>6 DEF ActivationInHand, Activating, Held, Aborting, InHand, Prepared
<1>15. RoutesLead'
  BY <1>4, <1>6 DEF RoutesLead, Leads, Held
<1>16. WholeAsAccepted'
  BY <1>4, <1>6 DEF WholeAsAccepted, Held, Owner, OwnFiles, ReadIt
<1>17. Withdrawal'
  BY <1>4 DEF Withdrawal, Held, InHand, OfItsVerb
<1>18. StaysWithdrawn'
  BY <1>4, <1>6 DEF StaysWithdrawn, Held, Stopped, Activating, Accepting, ReadIt, Aborting
<1>19. RefusedRestores'
  BY <1>4, <1>6
  DEF RefusedRestores, Held, Live, Untouched, Remembered, PutBackFirst, Activating, Back, OwnFiles, ReadIt
<1> QED BY <1>11, <1>12, <1>13, <1>14, <1>15, <1>16, <1>17, <1>18, <1>19

(* The containers are stopped: after the withdrawn route was loaded.       *)
LEMMA StopGateOK ==
  ASSUME StaticInv, StopGate
  PROVE  StaticInv'
<1> USE DEF StaticInv
<1>1. task \in Tasks BY DEF StaticTypeOK
<1>2. PICK to \in {"store", "unload"} : Move("stop gate", to) /\ (to = "store" <=> task.verb = "stop")
  BY DEF StopGate
<1>3. to \in Steps BY DEF Steps
<1>4. task' \in Tasks /\ Held /\ task.pc = "stop gate" /\ task'.pc = to
  BY <1>1, <1>2, <1>3, MoveHolds
<1>6. /\ UNCHANGED <<staticFiles, loadedRoute, halted, halting, kept, borrowed, torn, earlier, staticCounts>>
      /\ gate' = NoStatic
  BY DEF StopGate
<1> USE DEF staticFiles, hostState, staticCounts
<1>11. StaticTypeOK'
  BY <1>4, <1>6, NoneIsNone DEF StaticTypeOK
<1>12. InHand'
  <2>1. OfItsVerb' BY <1>4 DEF InHand, OfItsVerb, Held, Owner, Steps
  <2>2. KeptWhole' BY <1>6 DEF InHand, KeptWhole
  <2> QED
    BY <2>1, <2>2, <1>4, <1>6 DEF InHand, Held, Owner, Activating, ReadIt, Prepared, Needed, OwnOperation, OwnFiles
<1>13. Installed'
  BY <1>4, <1>6 DEF Installed, Held
<1>14. ActivationInHand'
  BY <1>2, <1>4, <1>6 DEF ActivationInHand, Activating, Held, Aborting, Accepting
<1>15. RoutesLead'
  BY <1>4, <1>6 DEF RoutesLead, Leads, Held
<1>16. WholeAsAccepted'
  BY <1>4, <1>6 DEF WholeAsAccepted, Held, Owner, OwnFiles, ReadIt
<1>17. Withdrawal'
  BY <1>4, <1>6 DEF Withdrawal, Held
<1>18. StaysWithdrawn'
  BY <1>4, <1>6 DEF StaysWithdrawn, Held, Stopped, Activating, Accepting, ReadIt, Aborting
<1>19. RefusedRestores'
  BY <1>4, <1>6
  DEF RefusedRestores, Held, Live, Untouched, Remembered, PutBackFirst, Activating, Back, OwnFiles, ReadIt
<1> QED BY <1>11, <1>12, <1>13, <1>14, <1>15, <1>16, <1>17, <1>18, <1>19

(* The withdrawn route is loaded.                                          *)
LEMMA UnloadOK ==
  ASSUME StaticInv, Unload
  PROVE  StaticInv'
<1> USE DEF StaticInv
<1>1. task \in Tasks BY DEF StaticTypeOK
<1>2. PICK to \in {"stop gate", "reload", "retain"} :
        /\ Move("unload", to) /\ (to = "stop gate" <=> task.verb = "stop")
        /\ to = "reload" => operation.phase = "activating"
  BY DEF Unload
<1>3. to \in Steps BY DEF Steps
<1>4. task' \in Tasks /\ Held /\ task.pc = "unload" /\ task'.pc = to
  BY <1>1, <1>2, <1>3, MoveHolds
<1>6. /\ UNCHANGED <<staticFiles, gate, halted, halting, kept, borrowed, torn, earlier, staticCounts>>
      /\ loadedRoute' = routeFile
  BY DEF Unload, Load
<1> USE DEF staticFiles, hostState, staticCounts
<1>11. StaticTypeOK'
  BY <1>4, <1>6 DEF StaticTypeOK
<1>12. InHand'
  <2>1. OfItsVerb' BY <1>2, <1>4 DEF InHand, OfItsVerb, Held, Owner, Steps
  <2>2. KeptWhole' BY <1>6 DEF InHand, KeptWhole
  <2> QED
    BY <2>1, <2>2, <1>4, <1>6 DEF InHand, Held, Owner, Activating, ReadIt, Prepared, Needed, OwnOperation, OwnFiles
<1>13. Installed'
  BY <1>4, <1>6 DEF Installed, Held
<1>14. ActivationInHand'
  BY <1>4, <1>6 DEF ActivationInHand, Activating, Held, Aborting, InHand, Prepared
<1>15. RoutesLead'
  BY <1>4, <1>6 DEF RoutesLead, Leads, Held
<1>16. WholeAsAccepted'
  BY <1>4, <1>6 DEF WholeAsAccepted, Held, Owner, OwnFiles, ReadIt
<1>17. Withdrawal'
  BY <1>4, <1>6 DEF Withdrawal, Held
<1>18. StaysWithdrawn'
  BY <1>4, <1>6 DEF StaysWithdrawn, Held, Stopped, Activating, Accepting, ReadIt, Aborting
<1>19. RefusedRestores'
  BY <1>4, <1>6
  DEF RefusedRestores, Held, Live, Untouched, Remembered, PutBackFirst, Activating, Back, OwnFiles, ReadIt
<1> QED BY <1>11, <1>12, <1>13, <1>14, <1>15, <1>16, <1>17, <1>18, <1>19

(* The first look: a stopped application is accepted as it is.             *)
LEMMA LookOK ==
  ASSUME StaticInv, Look
  PROVE  StaticInv'
<1> USE DEF StaticInv
<1>1. task \in Tasks /\ halted \in BOOLEAN BY DEF StaticTypeOK
<1>2. PICK to \in {"reload", "prepare"} : Sees("look", to) /\ (to = "reload" <=> halted)
  BY DEF Look
<1>3. to \in Steps BY DEF Steps
<1>4. task' \in Tasks /\ Held /\ task'.stopped = halted /\ task.pc = "look" /\ task'.pc = to
  BY <1>1, <1>2, <1>3, SeesHolds
<1>5. Activating
  BY <1>4 DEF InHand, OfItsVerb, Activating, Owner, Tasks, StaticTypeOK, Verbs
<1>6. /\ UNCHANGED <<queued, installed, snapshot, routeFile, routePrev, staticRecord, retention,
                     trees, loadedRoute, gate, halted, halting, kept, borrowed, torn, staticCounts>>
      /\ halted => operation' = operation /\ Forgotten
      /\ ~halted => /\ operation' = [operation EXCEPT !.phase = "activating"]
                    /\ earlier' = earlier
  BY DEF Look
<1>7. /\ operation' \in Operations /\ SameOperation
      /\ operation'.phase = IF halted THEN operation.phase ELSE "activating"
  BY <1>6, Spoken DEF StaticTypeOK, Operations, SameOperation
<1>8. /\ earlier' \in Earliers
      /\ IF halted THEN earlier'.route = NoStatic ELSE earlier' = earlier
  BY <1>6, ForgottenHolds DEF StaticTypeOK, Earliers
<1> USE DEF staticFiles, hostState, staticCounts
<1>11. StaticTypeOK'
  BY <1>4, <1>6, <1>7, <1>8 DEF StaticTypeOK, Operations, Earliers
<1>12. InHand'
  <2>1. OfItsVerb' BY <1>4 DEF InHand, OfItsVerb, Held, Steps
  <2>2. KeptWhole' BY <1>6 DEF InHand, KeptWhole
  <2> QED
    BY <2>1, <2>2, <1>2, <1>4, <1>5, <1>6
    DEF InHand, Held, Owner, Activating, ReadIt, Prepared, Needed, OwnOperation
<1>13. Installed'
  BY <1>4, <1>5, <1>6, <1>7 DEF Installed, Held, SameOperation, Activating
<1>14. ActivationInHand'
  BY <1>4, <1>6, <1>7
  DEF ActivationInHand, Activating, Held, Aborting, Accepting, SameOperation, Ongoing
<1>15. RoutesLead'
  BY <1>4, <1>5, <1>6 DEF RoutesLead, Leads, Held, Accepted, ActivationInHand, Ongoing
<1>16. WholeAsAccepted'
  BY <1>4, <1>6, <1>7 DEF WholeAsAccepted, Held, Owner, Accepted, OwnFiles, ReadIt
<1>17. Withdrawal'
  BY <1>4 DEF Withdrawal, Held, InHand, OfItsVerb
<1>18. StaysWithdrawn'
  BY <1>2, <1>4, <1>6 DEF StaysWithdrawn, Held, Stopped, Activating, Accepting, ReadIt, Aborting
<1>19. RefusedRestores'
  BY <1>2, <1>4, <1>5, <1>6, <1>7
  DEF RefusedRestores, Held, Live, Untouched, Remembered, PutBackFirst, Back, SameOperation,
    ActivationInHand, Open, Ongoing, OwnFiles, ReadIt
<1> QED BY <1>11, <1>12, <1>13, <1>14, <1>15, <1>16, <1>17, <1>18, <1>19

(* What an abort will need is read while the route file is still the       *)
(* candidate's.                                                            *)
LEMMA PrepareStaticOK ==
  ASSUME StaticInv, PrepareStatic
  PROVE  StaticInv'
<1> USE DEF StaticInv
<1>1. task \in Tasks /\ task.pc = "prepare" /\ ~task.made
  BY DEF StaticTypeOK, PrepareStatic, InHand
<1>2. UNCHANGED <<staticFiles, hostState>> BY DEF PrepareStatic
<1>3. Activating \/ Owner
  BY <1>1 DEF InHand, OfItsVerb, Activating, Owner, Tasks, Verbs
<1>4. routeFile \in Routes /\ Candidate \in StaticRevisions
  <2>1. CASE Activating
    <3>1. operation.candidate \in StaticRevisions BY <2>1 DEF ActivationInHand, Installed
    <3>2. routeFile = Gate(operation.candidate) BY <2>1, <1>1 DEF ActivationInHand
    <3>3. Candidate = operation.candidate BY <2>1 DEF Activating, Candidate
    <3> QED BY <3>1, <3>2, <3>3, RouteFields, OwnContents
  <2>2. CASE Owner
    <3>1. /\ staticRecord # NoStatic /\ routeFile # NoStatic
          /\ staticRecord.revision \in StaticRevisions
      BY <2>2 DEF InHand, Installed
    <3>2. Candidate = staticRecord.revision BY <2>2 DEF Owner, Candidate
    <3> QED BY <3>1, <3>2, Typed DEF NoneOr
  <2> QED BY <1>3, <2>1, <2>2
<1>5. PICK disabled \in {Gate(r) : r \in Contents} :
        /\ task' = [task EXCEPT !.pc = "copy", !.made = TRUE, !.before = staticRecord,
                      !.own = [revision |-> Candidate, active |-> FALSE, disabled |-> disabled],
                      !.route = IF routePrev = NoStatic THEN routeFile ELSE routePrev,
                      !.retained = retention]
        /\ \/ disabled = routeFile /\ routeFile \in {Gate(r) : r \in Contents}
           \/ disabled = staticRecord.disabled /\ staticRecord # NoStatic
        /\ routeFile \in Gates => disabled = routeFile
  <2> DEFINE gateRoute == IF /\ staticRecord # NoStatic /\ staticRecord.revision = Candidate
                             /\ routeFile \notin Gates
                            THEN staticRecord.disabled ELSE routeFile
  <2>1. CASE routeFile \in Gates
    <3>1. gateRoute = routeFile BY <2>1
    <3>2. routeFile \in {Gate(r) : r \in Contents} BY <2>1, OwnContents DEF Gates
    <3> QED BY <3>1, <3>2 DEF PrepareStatic
  <2>2. CASE routeFile \notin Gates
    <3>1. staticRecord # NoStatic /\ staticRecord.revision = Candidate
      <4>1. CASE Activating
        BY <1>1, <2>2, <4>1 DEF ActivationInHand, Installed, Gates
      <4>2. CASE Owner BY <4>2 DEF Owner, Candidate, InHand
      <4> QED BY <1>3, <4>1, <4>2
    <3>2. gateRoute = staticRecord.disabled BY <2>2, <3>1
    <3>3. staticRecord.disabled \in {Gate(r) : r \in Contents}
      BY <3>1, Typed, RecordFields DEF NoneOr
    <3> QED BY <2>2, <3>1, <3>2, <3>3 DEF PrepareStatic
  <2> QED BY <2>1, <2>2
<1>6. /\ Back \in Routes /\ Back = IF routePrev = NoStatic THEN routeFile ELSE routePrev
      /\ (routePrev = NoStatic => Back = routeFile) /\ (routePrev # NoStatic => Back = routePrev)
  BY <1>4, Typed DEF Back, NoneOr
<1>7. PICK own \in StaticRecords :
        /\ own = [revision |-> Candidate, active |-> FALSE, disabled |-> disabled]
        /\ own.revision = Candidate /\ own.active = FALSE /\ own.disabled = disabled
  <2>1. Candidate \in Contents BY <1>4, OwnContents
  <2> HIDE DEF Candidate
  <2> QED BY <2>1, InactiveRecord
<1>8. task' = [task EXCEPT !.pc = "copy", !.made = TRUE, !.before = staticRecord, !.own = own,
                           !.route = Back, !.retained = retention]
  BY <1>5, <1>6, <1>7
<1>9. /\ task'.verb = task.verb /\ task'.failure = task.failure /\ task'.unchanged = task.unchanged
      /\ task'.made = TRUE /\ task'.stopped = task.stopped
      /\ task'.pc = "copy" /\ task'.before = staticRecord /\ task'.retained = retention
      /\ task'.own = own /\ task'.route = Back /\ task' \in Tasks
  BY <1>8, <1>6, Typed, NoneIsNone DEF Tasks, Steps
<1>10. own # NoStatic /\ Back # NoStatic BY <1>6, NoneIsNone
<1> USE DEF staticFiles, hostState, staticCounts
<1>11. StaticTypeOK'
  BY <1>2, <1>4, <1>9 DEF StaticTypeOK
<1>12. InHand'
  <2>1. OfItsVerb' BY <1>1, <1>9 DEF InHand, OfItsVerb, Owner, Steps
  <2>2. KeptWhole' BY <1>2 DEF InHand, KeptWhole
  <2> QED
    BY <2>1, <2>2, <1>1, <1>2, <1>4, <1>7, <1>9, <1>10 DEF InHand, Owner, Activating, ReadIt, Prepared, Needed, OwnOperation, OwnFiles
<1>13. Installed'
  BY <1>2, <1>9 DEF Installed
<1>14. ActivationInHand'
  <2>1. Activating => disabled = Gate(operation.candidate) /\ own.revision = operation.candidate
    <3> SUFFICES ASSUME Activating
                 PROVE  disabled = Gate(operation.candidate) /\ Candidate = operation.candidate
      BY <1>7
    <3>1. routeFile = Gate(operation.candidate) /\ operation.candidate \in StaticRevisions
      BY <1>1 DEF ActivationInHand, Installed
    <3> QED BY <1>5, <3>1 DEF Gates, Activating, Candidate
  <2> QED BY <1>1, <1>2, <1>7, <1>9, <2>1 DEF ActivationInHand, Activating, Aborting, Accepting, Of
<1>15. RoutesLead'
  BY <1>2, <1>6, <1>9 DEF RoutesLead, Leads
<1>16. WholeAsAccepted'
  <2> SUFFICES ASSUME operation.phase \in Accepted, OwnFiles, Owner
               PROVE  Of(own, operation.candidate) /\ Of(staticRecord, operation.candidate)
                      /\ staticRecord # NoStatic /\ Back.revision = operation.candidate
    BY <1>2, <1>3, <1>9 DEF WholeAsAccepted, Owner, Activating, OwnFiles, ReadIt
  <2>1. /\ routePrev = NoStatic /\ staticRecord # NoStatic /\ Of(staticRecord, operation.candidate)
        /\ routeFile # NoStatic /\ routeFile.revision = operation.candidate
    BY DEF WholeAsAccepted, InHand
  <2>2. Candidate = operation.candidate
    BY <2>1 DEF Candidate, Of, Owner
  <2>3. disabled = Gate(operation.candidate)
    <3>1. CASE disabled = staticRecord.disabled BY <2>1, <3>1 DEF Of
    <3>2. CASE disabled = routeFile BY <2>1, <3>2, GateRoutes
    <3> QED BY <1>5, <3>1, <3>2
  <2> QED BY <1>6, <1>7, <2>1, <2>2, <2>3 DEF Of
<1>17. Withdrawal'
  BY <1>1, <1>9 DEF Withdrawal, InHand, OfItsVerb
<1>18. StaysWithdrawn'
  BY <1>1, <1>2, <1>9 DEF StaysWithdrawn, Stopped, Activating, Accepting, ReadIt, Aborting
<1>19. RefusedRestores'
  BY <1>1, <1>2, <1>9 DEF RefusedRestores, Live, Untouched, Remembered, PutBackFirst, Back, OwnFiles, ReadIt
<1> QED BY <1>11, <1>12, <1>13, <1>14, <1>15, <1>16, <1>17, <1>18, <1>19

(* The tree is there before a route leads to it.                           *)
LEMMA PublishTreeOK ==
  ASSUME StaticInv, PublishTree
  PROVE  StaticInv'
<1> USE DEF StaticInv
<1>1. task \in Tasks BY DEF StaticTypeOK
<1>2. Move("copy", "swap") BY DEF PublishTree
<1>4. /\ task' \in Tasks /\ Held /\ task'.stopped = task.stopped
      /\ task.pc = "copy" /\ task'.pc = "swap"
  BY <1>1, <1>2, MoveHolds DEF Steps
<1>3. task.made /\ task.own # NoStatic
  BY <1>4 DEF InHand, Prepared, Needed
<1>5. task.own.revision \in StaticRevisions
  <2>1. Activating \/ Owner
    BY <1>1, <1>4 DEF InHand, OfItsVerb, Activating, Owner, Tasks, Verbs
  <2>2. CASE Activating BY <1>3, <2>2 DEF ActivationInHand, Installed, Of
  <2>3. CASE Owner BY <1>3, <2>3 DEF InHand
  <2> QED BY <2>1, <2>2, <2>3
<1>6. /\ UNCHANGED <<operation, queued, installed, snapshot, routeFile, routePrev, staticRecord,
                     retention, hostState>>
      /\ trees' = trees \cup {task.own.revision}
  BY DEF PublishTree, Extracted
<1> USE DEF staticFiles, hostState, staticCounts
<1>11. StaticTypeOK'
  BY <1>4, <1>5, <1>6 DEF StaticTypeOK
<1>12. InHand'
  <2>1. OfItsVerb' BY <1>4 DEF InHand, OfItsVerb, Held, Owner, Steps
  <2>2. KeptWhole' BY <1>6 DEF InHand, KeptWhole
  <2> QED
    BY <2>1, <2>2, <1>3, <1>4, <1>6 DEF InHand, Held, Owner, Activating, ReadIt, Prepared, Needed, OwnOperation, OwnFiles
<1>13. Installed'
  BY <1>4, <1>6 DEF Installed, Held
<1>14. ActivationInHand'
  BY <1>3, <1>4, <1>6 DEF ActivationInHand, Activating, Held, Aborting, Accepting
<1>15. RoutesLead'
  BY <1>4, <1>6 DEF RoutesLead, Leads, Held
<1>16. WholeAsAccepted'
  BY <1>4, <1>6 DEF WholeAsAccepted, Held, Owner, OwnFiles, ReadIt
<1>17. Withdrawal'
  BY <1>4 DEF Withdrawal, Held, InHand, OfItsVerb
<1>18. StaysWithdrawn'
  BY <1>4, <1>6 DEF StaysWithdrawn, Held, Stopped, Activating, Accepting, ReadIt, Aborting
<1>19. RefusedRestores'
  BY <1>4, <1>6
  DEF RefusedRestores, Held, Live, Untouched, Remembered, PutBackFirst, Activating, Back, OwnFiles, ReadIt
<1> QED BY <1>11, <1>12, <1>13, <1>14, <1>15, <1>16, <1>17, <1>18, <1>19

(* The route leads to the tree, which is there.                            *)
LEMMA SwapRouteOK ==
  ASSUME StaticInv, SwapRoute
  PROVE  StaticInv'
<1> USE DEF StaticInv
<1>1. task \in Tasks /\ task.pc = "swap" BY DEF StaticTypeOK, SwapRoute
<1>2. PICK to \in {"reload", "look again"} :
        task' = [task EXCEPT !.own.active = TRUE, !.pc = to] /\ (to = "reload" <=> Owner)
  BY DEF SwapRoute
<1>3. to \in Steps /\ task.own # NoStatic /\ task.made BY <1>1 DEF Steps, InHand, Prepared
<1>4. /\ task' \in Tasks /\ HeldButOwn /\ task'.pc = to
      /\ task'.own \in StaticRecords /\ task'.own # NoStatic /\ task'.made = task.made
      /\ task'.own.revision = task.own.revision /\ task'.own.disabled = task.own.disabled
      /\ task'.own.active = TRUE
  BY <1>2, <1>3, ActiveSet
<1>5. task.verb # "none" BY <1>1 DEF InHand, OfItsVerb
<1>6. /\ UNCHANGED <<operation, queued, installed, snapshot, routePrev, staticRecord, retention,
                     trees, hostState>>
      /\ routeFile' = Tree(task.own.revision)
  BY DEF SwapRoute
<1>7. /\ routeFile' \in Routes /\ routeFile' # NoStatic /\ routeFile'.kind = "tree"
      /\ routeFile'.revision = task.own.revision /\ task.own.revision \in trees
      /\ routeFile' \in NoneOr(Routes)
  BY <1>1, <1>3, <1>6, Typed, RecordFields, RouteFields, NoneIsNone DEF NoneOr, InHand
<1>8. operation.phase \in Accepted => task.verb # "activate"
  BY <1>1 DEF ActivationInHand, Activating, Ongoing, Accepted
<1>9. Leads(routeFile') /\ task.route = task'.route BY <1>4, <1>7 DEF Leads, HeldButOwn
<1> USE DEF staticFiles, hostState, staticCounts
<1>11. StaticTypeOK'
  BY <1>4, <1>6, <1>7 DEF StaticTypeOK
<1>12. InHand'
  <2>1. OfItsVerb' BY <1>1, <1>2, <1>4 DEF InHand, OfItsVerb, HeldButOwn, Owner, Steps
  <2>2. KeptWhole' BY <1>6 DEF InHand, KeptWhole
  <2> QED
    BY <2>1, <2>2, <1>1, <1>4, <1>6 DEF InHand, HeldButOwn, Owner, Activating, ReadIt, Prepared, Needed, OwnOperation, OwnFiles
<1>13. Installed'
  BY <1>4, <1>6, <1>7 DEF Installed, HeldButOwn
<1>14. ActivationInHand'
  BY <1>1, <1>3, <1>4, <1>6, <1>7
  DEF ActivationInHand, Activating, HeldButOwn, Accepting, Of
<1>15. RoutesLead'
  BY <1>1, <1>3, <1>4, <1>6, <1>9 DEF RoutesLead, Leads
<1>16. WholeAsAccepted'
  <2> SUFFICES ASSUME operation.phase \in Accepted, OwnFiles PROVE WholeAsAccepted'
    BY <1>6 DEF WholeAsAccepted, OwnFiles
  <2>1. Owner \/ task.verb = "stop"
    BY <1>1, <1>8 DEF InHand, OfItsVerb, Owner, Tasks, Verbs
  <2>2. /\ staticRecord # NoStatic /\ Of(task.own, operation.candidate) /\ routePrev = NoStatic
        /\ installed = operation.candidate /\ Of(staticRecord, operation.candidate)
        /\ task.before # NoStatic => Of(task.before, operation.candidate)
        /\ task.route # NoStatic => task.before # NoStatic /\ task.route.revision = operation.candidate
    BY <2>1, <1>3 DEF WholeAsAccepted, InHand, ReadIt
  <2>3. operation.candidate \in Contents
    BY <2>2, Typed, RecordFields DEF Of, NoneOr
  <2>4. routeFile'.revision = operation.candidate
    BY <2>2, <1>7 DEF Of
  <2> QED BY <2>2, <2>4, <1>3, <1>4, <1>6, <1>7 DEF WholeAsAccepted, HeldButOwn, Of, ReadIt
<1>17. Withdrawal'
  BY <1>1, <1>4 DEF Withdrawal, HeldButOwn, InHand, OfItsVerb
<1>18. StaysWithdrawn'
  BY <1>1, <1>4, <1>6
  DEF StaysWithdrawn, HeldButOwn, Stopped, Activating, Accepting, InHand, OfItsVerb, ReadIt, Aborting
<1>19. RefusedRestores'
  BY <1>1, <1>4, <1>5, <1>6
  DEF RefusedRestores, HeldButOwn, Live, Untouched, Remembered, PutBackFirst, Activating, OwnFiles, ReadIt
<1> QED BY <1>11, <1>12, <1>13, <1>14, <1>15, <1>16, <1>17, <1>18, <1>19

(* The route goes through the gate again, by a stop or by an activation    *)
(* that found one.                                                         *)
LEMMA WithdrawOK ==
  ASSUME StaticInv, Withdraw
  PROVE  StaticInv'
<1> USE DEF StaticInv
<1>1. task \in Tasks /\ task.pc = "withdraw" BY DEF StaticTypeOK, Withdraw
<1>2. PICK to \in {"stop gate", "unload"} :
        task' = [task EXCEPT !.own.active = FALSE, !.pc = to] /\ (to = "unload" <=> task.verb = "stop")
  BY DEF Withdraw
<1>3. to \in Steps /\ task.own # NoStatic /\ task.made BY <1>1 DEF Steps, InHand, Prepared
<1>4. /\ task' \in Tasks /\ HeldButOwn /\ task'.pc = to
      /\ task'.own \in StaticRecords /\ task'.own # NoStatic /\ task'.made = task.made
      /\ task'.own.revision = task.own.revision /\ task'.own.disabled = task.own.disabled
      /\ task'.own.active = FALSE
  BY <1>2, <1>3, ActiveSet
<1>5. task.verb # "none" BY <1>1 DEF InHand, OfItsVerb
<1>6. /\ UNCHANGED <<operation, queued, installed, snapshot, routePrev, staticRecord, retention,
                     trees, hostState>>
      /\ routeFile' = task.own.disabled
  BY DEF Withdraw
<1>7. /\ routeFile' \in Routes /\ routeFile' # NoStatic /\ routeFile'.kind = "gate"
      /\ routeFile' = Gate(routeFile'.revision) /\ routeFile'.revision \in Contents
      /\ routeFile' \in NoneOr(Routes)
  BY <1>3, <1>6, Typed, RecordFields, GateRoutes, NoneIsNone DEF NoneOr
<1>8. operation.phase \in Accepted => task.verb # "activate"
  BY <1>1 DEF ActivationInHand, Activating, Ongoing, Accepted
<1>9. Leads(routeFile') /\ task.route = task'.route BY <1>4, <1>7 DEF Leads, HeldButOwn
<1>10. Activating => routeFile'.revision = operation.candidate
  <2> SUFFICES ASSUME Activating PROVE routeFile'.revision = operation.candidate
    OBVIOUS
  <2>1. task.own.disabled = Gate(operation.candidate) BY <1>3 DEF ActivationInHand, Of
  <2>2. operation.candidate \in Contents
    BY OwnContents DEF ActivationInHand, Installed
  <2> QED BY <1>6, <2>1, <2>2, RouteFields
<1> USE DEF staticFiles, hostState, staticCounts
<1>11. StaticTypeOK'
  BY <1>4, <1>6, <1>7 DEF StaticTypeOK
<1>12. InHand'
  <2>1. OfItsVerb' BY <1>1, <1>4 DEF InHand, OfItsVerb, HeldButOwn, Owner, Steps
  <2>2. KeptWhole' BY <1>6 DEF InHand, KeptWhole
  <2> QED
    BY <2>1, <2>2, <1>1, <1>4, <1>6 DEF InHand, HeldButOwn, Owner, Activating, ReadIt, Prepared, Needed, OwnOperation, OwnFiles
<1>13. Installed'
  BY <1>4, <1>6, <1>7 DEF Installed, HeldButOwn
<1>14. ActivationInHand'
  BY <1>1, <1>3, <1>4, <1>6, <1>7, <1>10
  DEF ActivationInHand, Activating, HeldButOwn, Accepting, Of
<1>15. RoutesLead'
  BY <1>1, <1>3, <1>4, <1>6, <1>9 DEF RoutesLead, Leads
<1>16. WholeAsAccepted'
  <2> SUFFICES ASSUME operation.phase \in Accepted, OwnFiles PROVE WholeAsAccepted'
    BY <1>6 DEF WholeAsAccepted, OwnFiles
  <2>1. Owner \/ task.verb = "stop"
    BY <1>1, <1>8 DEF InHand, OfItsVerb, Owner, Tasks, Verbs
  <2>2. /\ staticRecord # NoStatic /\ Of(task.own, operation.candidate) /\ routePrev = NoStatic
        /\ installed = operation.candidate /\ Of(staticRecord, operation.candidate)
        /\ task.before # NoStatic => Of(task.before, operation.candidate)
        /\ task.route # NoStatic => task.before # NoStatic /\ task.route.revision = operation.candidate
    BY <2>1, <1>3 DEF WholeAsAccepted, InHand, ReadIt
  <2>3. operation.candidate \in Contents
    BY <2>2, Typed, RecordFields DEF Of, NoneOr
  <2>4. routeFile'.revision = operation.candidate
    BY <2>2, <2>3, <1>6, RouteFields DEF Of
  <2> QED BY <2>2, <2>4, <1>4, <1>6, <1>7 DEF WholeAsAccepted, HeldButOwn, Of, ReadIt
<1>17. Withdrawal'
  BY <1>2, <1>4, <1>6, <1>7 DEF Withdrawal, HeldButOwn, NotTree
<1>18. StaysWithdrawn'
  BY <1>1, <1>4, <1>6
  DEF StaysWithdrawn, HeldButOwn, Stopped, Activating, Accepting, InHand, OfItsVerb, ReadIt, Aborting
<1>19. RefusedRestores'
  BY <1>1, <1>4, <1>5, <1>6
  DEF RefusedRestores, HeldButOwn, Live, Untouched, Remembered, PutBackFirst, Activating, OwnFiles, ReadIt
<1> QED BY <1>11, <1>12, <1>13, <1>14, <1>15, <1>16, <1>17, <1>18, <1>19

(* From the reload on, what is loaded is the candidate's route.            *)
LEMMA ReloadRouteOK ==
  ASSUME StaticInv, ReloadRoute
  PROVE  StaticInv'
<1> USE DEF StaticInv
<1>1. task \in Tasks BY DEF StaticTypeOK
<1>2. PICK to \in {"retain", "probe"} :
        /\ Move("reload", to)
        /\ to = "retain" <=> Activating /\ task.stopped
  BY DEF ReloadRoute, Activating
<1>3. to \in Steps BY DEF Steps
<1>4. task' \in Tasks /\ Held /\ task.pc = "reload" /\ task'.pc = to
  BY <1>1, <1>2, <1>3, MoveHolds
<1>7. Activating \/ Owner
  BY <1>4, <1>1 DEF InHand, OfItsVerb, Activating, Owner, Tasks, Verbs
<1>6. /\ UNCHANGED <<queued, installed, snapshot, routeFile, routePrev, staticRecord, retention,
                     trees, gate, halted, halting, kept, borrowed, torn, earlier, staticCounts>>
      /\ loadedRoute' = routeFile
      /\ Activating /\ to = "probe" => operation' = [operation EXCEPT !.phase = "activated"]
      /\ ~Activating \/ to = "retain" => operation' = operation
  BY <1>2, <1>7 DEF ReloadRoute, Load, Activating, Owner
<1>10. Owner => to = "probe" BY <1>2 DEF Activating, Owner
<1>8. /\ operation' \in Operations /\ SameOperation
      /\ Activating /\ to = "probe" => operation'.phase = "activated"
  BY <1>6, Spoken DEF StaticTypeOK, Operations, SameOperation
<1> USE DEF staticFiles, hostState, staticCounts
<1>11. StaticTypeOK'
  BY <1>4, <1>6, <1>8 DEF StaticTypeOK, Operations
<1>12. InHand'
  <2>1. OfItsVerb' BY <1>4, <1>10 DEF InHand, OfItsVerb, Held, Owner, Steps
  <2>2. KeptWhole' BY <1>6 DEF InHand, KeptWhole
  <2> QED
    BY <2>1, <2>2, <1>2, <1>4, <1>6, <1>7 DEF InHand, Held, Owner, Activating, ReadIt, Prepared, Needed, OwnOperation, OwnFiles
<1>13. Installed'
  BY <1>4, <1>6, <1>8 DEF Installed, Held, SameOperation, Activating
<1>14. ActivationInHand'
  BY <1>4, <1>6, <1>8 DEF ActivationInHand, Activating, Held, Aborting, SameOperation, Ongoing
<1>15. RoutesLead'
  BY <1>4, <1>6 DEF RoutesLead, Leads, Held, Accepted, ActivationInHand, Ongoing
<1>16. WholeAsAccepted'
  BY <1>4, <1>6, <1>8 DEF WholeAsAccepted, Held, Owner, Accepted, OwnFiles, ReadIt
<1>17. Withdrawal'
  BY <1>4 DEF Withdrawal, Held, InHand, OfItsVerb
<1>18. StaysWithdrawn'
  BY <1>2, <1>4, <1>6 DEF StaysWithdrawn, Held, Stopped, Activating, Accepting, ReadIt, Aborting
<1>19. RefusedRestores'
  BY <1>4, <1>6
  DEF RefusedRestores, Held, Live, Untouched, Remembered, PutBackFirst, Activating, Back,
    ActivationInHand, Open, Ongoing, OwnFiles, ReadIt
<1> QED BY <1>11, <1>12, <1>13, <1>14, <1>15, <1>16, <1>17, <1>18, <1>19

(* The retention record is written, and the kept route goes.               *)
LEMMA RetainStaticOK ==
  ASSUME StaticInv, RetainStatic
  PROVE  StaticInv'
<1> USE DEF StaticInv
<1>1. task \in Tasks /\ task.pc = "retain" /\ Activating
  BY DEF StaticTypeOK, RetainStatic, InHand, OfItsVerb, Activating, Owner, Tasks, Verbs
<1>2. /\ UNCHANGED <<operation, queued, installed, snapshot, routeFile, staticRecord, trees,
                     loadedRoute, gate, halted, halting, kept, torn, earlier, staticCounts>>
      /\ routePrev' = NoStatic
      /\ borrowed' = IF task.own # NoStatic /\ ~task.made THEN stages + 1 ELSE borrowed
      /\ retention' = IF operation.candidate = operation.previous THEN retention
                      ELSE [current |-> operation.candidate, previous |-> operation.previous]
  BY DEF RetainStatic, Borrows
<1>3. retention' \in Retentions
  <2>1. operation.candidate \in NoneOr(Contents) /\ operation.previous \in NoneOr(Contents)
    BY OwnContents DEF StaticTypeOK, NoneOr
  <2>2. CASE operation.candidate = operation.previous
    BY <1>2, <2>2 DEF StaticTypeOK
  <2>3. CASE operation.candidate # operation.previous
    <3> DEFINE r == [current |-> operation.candidate, previous |-> operation.previous]
    <3>1. r \in [current : NoneOr(Contents), previous : NoneOr(Contents)]
      BY <2>1
    <3>2. r.current # r.previous
      BY <2>3
    <3>3. r \in Retentions
      <4> HIDE DEF r
      <4> QED BY <3>1, <3>2 DEF Retentions
    <3> QED BY <1>2, <2>3, <3>3
  <2> QED BY <2>2, <2>3
<1>8. borrowed' \in 0..(MaxStages + 1) /\ (borrowed' = borrowed \/ (~OwnFiles' /\ borrowed' # 0))
  <2>1. stages \in 0..MaxStages /\ borrowed \in 0..(MaxStages + 1)
    BY DEF StaticTypeOK
  <2>2. stages' = stages /\ (borrowed' = borrowed \/ borrowed' = stages + 1)
    BY <1>2 DEF staticCounts
  <2>3. stages + 1 \in 0..(MaxStages + 1) /\ stages + 1 # 0 /\ ~(stages + 1 <= stages)
    <3> HIDE DEF StaticInv
    <3> QED BY <2>1, StaticAssumption
  <2> QED BY <2>1, <2>2, <2>3 DEF OwnFiles
<1>4. /\ operation.candidate \in StaticRevisions
      /\ task.own = NoStatic => routeFile = Gate(operation.candidate)
      /\ operation.phase \notin Accepted
  BY <1>1 DEF ActivationInHand, Installed, InHand, Ongoing, Accepted
<1>5. PICK own \in StaticRecords :
        /\ \/ task.own # NoStatic /\ task' = [task EXCEPT !.own = own, !.pc = "store"]
           \/ task.own = NoStatic /\ task' = [task EXCEPT !.own = own, !.pc = "store", !.made = TRUE]
        /\ task.own # NoStatic => own = task.own
        /\ task.own = NoStatic => own.revision = operation.candidate /\ own.active = FALSE
                                  /\ own.disabled = Gate(operation.candidate)
  <2>1. CASE task.own # NoStatic
    <3>1. task' = [task EXCEPT !.own = task.own, !.pc = "store"]
      BY <2>1 DEF RetainStatic, Accept
    <3> QED BY <2>1, <3>1, Typed DEF NoneOr
  <2>2. CASE task.own = NoStatic
    <3>1. PICK own \in StaticRecords :
            /\ own = [revision |-> operation.candidate, active |-> FALSE,
                      disabled |-> Gate(operation.candidate)]
            /\ own.revision = operation.candidate /\ own.active = FALSE
            /\ own.disabled = Gate(operation.candidate)
      <4>1. Gate(operation.candidate) \in {Gate(s) : s \in Contents}
        BY <1>4, OwnContents
      <4>2. operation.candidate \in Contents BY <1>4, OwnContents
      <4> QED BY <4>1, <4>2, InactiveRecord
    <3>2. task' = [task EXCEPT !.own = own, !.pc = "store", !.made = TRUE]
      BY <1>4, <2>2, <3>1 DEF RetainStatic, Accept
    <3> QED BY <2>2, <3>1, <3>2
  <2> QED BY <2>1, <2>2
<1>6. /\ task' \in Tasks /\ HeldButOwn /\ task'.pc = "store" /\ task'.own = own /\ own # NoStatic
      /\ task'.made = (task.made \/ task.own = NoStatic)
  BY <1>1, <1>5, NoneIsNone, Typed DEF Tasks, HeldButOwn, Steps
<1>7. /\ task'.made => Of(own, operation.candidate)
      /\ Activating' /\ routePrev' \in NoneOr(Routes)
  BY <1>1, <1>2, <1>5, <1>6, NoneIsNone DEF ActivationInHand, Activating, HeldButOwn, Of
<1>9. task'.made /\ task.route # NoStatic => task.made
  BY <1>6 DEF InHand
<1>10. task'.made \/ ~OwnFiles'
  <2>1. CASE task.own # NoStatic /\ ~task.made
    <3>1. borrowed' = stages + 1 /\ stages' = stages /\ stages \in Nat
      BY <1>2, <2>1, StaticAssumption DEF StaticTypeOK, staticCounts
    <3> QED BY <3>1 DEF OwnFiles
  <2> QED BY <1>6, <2>1
<1> USE DEF staticFiles, hostState, staticCounts
<1>11. StaticTypeOK'
  BY <1>2, <1>3, <1>6, <1>7, <1>8 DEF StaticTypeOK
<1>12. InHand'
  <2>1. OfItsVerb' BY <1>1, <1>6 DEF InHand, OfItsVerb, HeldButOwn, Steps
  <2>2. KeptWhole' BY <1>2 DEF InHand, KeptWhole
  <2> QED
    BY <2>1, <2>2, <1>1, <1>2, <1>6, <1>10 DEF InHand, HeldButOwn, Owner, Activating, ReadIt, Prepared, Needed, OwnOperation, OwnFiles
<1>13. Installed'
  BY <1>2, <1>6 DEF Installed, HeldButOwn
<1>14. ActivationInHand'
  BY <1>1, <1>2, <1>6, <1>7 DEF Of, ActivationInHand, Aborting, Accepting
<1>15. RoutesLead'
  BY <1>1, <1>2, <1>6, <1>8, <1>9 DEF RoutesLead, Leads, HeldButOwn
<1>16. WholeAsAccepted'
  BY <1>2, <1>4 DEF WholeAsAccepted
<1>17. Withdrawal'
  BY <1>1, <1>6 DEF Withdrawal, HeldButOwn, InHand, OfItsVerb
<1>18. StaysWithdrawn'
  BY <1>1, <1>2, <1>6, <1>9 DEF StaysWithdrawn, Stopped, Accepting, ReadIt, HeldButOwn, Activating, Aborting
<1>19. RefusedRestores'
  BY <1>1, <1>2, <1>6, <1>8, <1>9
  DEF RefusedRestores, HeldButOwn, Live, Untouched, Remembered, PutBackFirst, Activating, OwnFiles, ReadIt
<1> QED BY <1>11, <1>12, <1>13, <1>14, <1>15, <1>16, <1>17, <1>18, <1>19

(* A stop ends with its record stored: the route is withdrawn, the gate    *)
(* closed.                                                                 *)
LEMMA StopStoredOK ==
  ASSUME StaticInv, StoreRecord, task.verb = "stop"
  PROVE  StaticInv'
<1> USE DEF StaticInv
<1>1. task \in Tasks /\ task.pc = "store" /\ task.own # NoStatic
  BY DEF StaticTypeOK, StoreRecord, InHand, Prepared, Needed
<1>2. task.own \in StaticRecords /\ task.own \in NoneOr(StaticRecords) BY <1>1, Typed DEF NoneOr
<1>3. /\ NotTree(routeFile) /\ NotTree(loadedRoute) /\ gate = NoStatic /\ earlier.route = NoStatic
  BY <1>1 DEF Withdrawal
<1>4. operation.phase \in Accepted /\ OwnFiles => Of(task.own, operation.candidate) /\ staticRecord # NoStatic
  BY <1>1 DEF WholeAsAccepted, InHand
<1>6. /\ UNCHANGED <<operation, queued, installed, snapshot, routeFile, routePrev, retention, trees,
                     loadedRoute, gate, halted, halting, borrowed, earlier, staticCounts>>
      /\ staticRecord' = task.own /\ torn' = FALSE /\ task' = NoTask
      /\ kept' \in [Hosts -> StaticOperations] /\ KeptWhole'
  BY LeavesHolds DEF StoreRecord
<1>7. /\ task' = NoTask /\ task' \in Tasks /\ task'.verb = "none" /\ task'.pc = "idle"
      /\ task'.own = NoStatic /\ task'.route = NoStatic /\ task'.unchanged = TRUE
      /\ task'.made = FALSE
  BY <1>6, NoTaskFields
<1> USE DEF staticFiles, hostState, staticCounts
<1>11. StaticTypeOK'
  BY <1>2, <1>6, <1>7 DEF StaticTypeOK
<1>12. InHand' BY <1>6, <1>7 DEF InHand, OfItsVerb, Owner, Prepared, Needed, ReadIt, Activating, OwnOperation, OwnFiles
<1>13. Installed'
  BY <1>6, <1>7 DEF Installed, InHand
<1>14. ActivationInHand'
  BY <1>7 DEF ActivationInHand, Activating
<1>15. RoutesLead'
  BY <1>6, <1>7 DEF RoutesLead, Leads
<1>16. WholeAsAccepted'
  BY <1>4, <1>6, <1>7 DEF WholeAsAccepted, Owner, OwnFiles, ReadIt
<1>17. Withdrawal'
  BY <1>7 DEF Withdrawal
<1>18. StaysWithdrawn'
  BY <1>3, <1>6, <1>7 DEF StaysWithdrawn, Activating, ReadIt, Aborting
<1>19. RefusedRestores'
  BY <1>3, <1>6 DEF RefusedRestores, Live, OwnFiles, ReadIt
<1> QED BY <1>11, <1>12, <1>13, <1>14, <1>15, <1>16, <1>17, <1>18, <1>19

(* An activation, a start or a restart stores its record.                  *)
LEMMA StoredOK ==
  ASSUME StaticInv, StoreRecord, task.verb # "stop"
  PROVE  StaticInv'
<1> USE DEF StaticInv
<1>1. task \in Tasks BY DEF StaticTypeOK
<1>2. PICK to \in {"confirm", "record"} : Move("store", to) /\ (to = "confirm" <=> Owner)
  BY DEF StoreRecord
<1>3. to \in Steps BY DEF Steps
<1>4. task' \in Tasks /\ Held /\ task.pc = "store" /\ task'.pc = to
  BY <1>1, <1>2, <1>3, MoveHolds
<1>5. Activating \/ Owner
  BY <1>1, <1>4 DEF InHand, OfItsVerb, Activating, Owner, Tasks, Verbs
<1>6. /\ UNCHANGED <<operation, queued, installed, snapshot, routeFile, routePrev, retention, trees,
                     loadedRoute, gate, halted, halting, kept, borrowed, torn, earlier, staticCounts>>
      /\ staticRecord' = task.own
  BY DEF StoreRecord
<1>7. task.own # NoStatic /\ task.own \in StaticRecords /\ task.own \in NoneOr(StaticRecords)
  BY <1>4, Typed DEF InHand, Needed, NoneOr
<1>8. installed # NoStatic
  BY <1>5, NoneIsNone DEF Installed, InHand, ActivationInHand
<1> USE DEF staticFiles, hostState, staticCounts
<1>11. StaticTypeOK'
  BY <1>4, <1>6, <1>7 DEF StaticTypeOK
<1>12. InHand'
  <2>1. OfItsVerb' BY <1>2, <1>4 DEF InHand, OfItsVerb, Held, Owner, Steps
  <2>2. KeptWhole' BY <1>6 DEF InHand, KeptWhole
  <2> QED
    BY <2>1, <2>2, <1>2, <1>4, <1>6, <1>7 DEF InHand, Held, Owner, Activating, ReadIt, Prepared, Needed, OwnOperation, OwnFiles
<1>13. Installed'
  BY <1>4, <1>6, <1>8 DEF Installed, Held
<1>14. ActivationInHand'
  BY <1>4, <1>6 DEF ActivationInHand, Activating, Held, Aborting, Accepting
<1>15. RoutesLead'
  BY <1>4, <1>6 DEF RoutesLead, Leads, Held
<1>16. WholeAsAccepted'
  BY <1>4, <1>5, <1>6 DEF WholeAsAccepted, Held, InHand, ActivationInHand, Ongoing, Accepted, OwnFiles, ReadIt
<1>17. Withdrawal'
  BY <1>4 DEF Withdrawal, Held
<1>18. StaysWithdrawn'
  BY <1>2, <1>4, <1>6
  DEF StaysWithdrawn, Held, Stopped, Activating, Accepting, InHand, OfItsVerb, ReadIt, Aborting
<1>19. RefusedRestores'
  BY <1>4, <1>5, <1>6
  DEF RefusedRestores, Held, Live, Untouched, Remembered, PutBackFirst, Activating, Owner, OwnFiles, ReadIt
<1> QED BY <1>11, <1>12, <1>13, <1>14, <1>15, <1>16, <1>17, <1>18, <1>19

(* The acceptance: record, route and installed revision are the            *)
(* candidate's by then.                                                    *)
LEMMA RecordAcceptedOK ==
  ASSUME StaticInv, RecordAccepted
  PROVE  StaticInv'
<1> USE DEF StaticInv
<1>1. task \in Tasks BY DEF StaticTypeOK
<1>2. Move("record", "retire") BY DEF RecordAccepted
<1>3. "retire" \in Steps BY DEF Steps
<1>4. task' \in Tasks /\ Held /\ task.pc = "record" /\ task'.pc = "retire"
  BY <1>1, <1>2, <1>3, MoveHolds
<1>5. Activating
  BY <1>1, <1>4 DEF InHand, OfItsVerb, Activating, Owner, Tasks, Verbs
<1>6. /\ UNCHANGED <<queued, installed, snapshot, routeFile, routePrev, staticRecord, retention,
                     trees, hostState>>
  BY DEF RecordAccepted
<1>7. PICK phase \in {"ready", "prepared_stopped"} : operation' = [operation EXCEPT !.phase = phase]
  BY DEF RecordAccepted, Outcome
<1>8. operation' \in Operations /\ operation'.phase = phase /\ SameOperation
  BY <1>7, PhaseHolds, Spoken
<1>9. /\ installed = operation.candidate /\ staticRecord = task.own /\ routePrev = NoStatic
      /\ OwnFiles => Of(staticRecord, operation.candidate)
      /\ routeFile # NoStatic
      /\ routeFile.revision = operation.candidate
  BY <1>4, <1>5 DEF InHand, OwnOperation, ActivationInHand, Installed, Aborting
<1> USE DEF staticFiles, hostState, staticCounts
<1>11. StaticTypeOK'
  BY <1>4, <1>6, <1>8 DEF StaticTypeOK, Operations
<1>12. InHand'
  <2>1. OfItsVerb' BY <1>4 DEF InHand, OfItsVerb, Held, Owner, Steps
  <2>2. KeptWhole' BY <1>6 DEF InHand, KeptWhole
  <2> QED
    BY <2>1, <2>2, <1>4, <1>6 DEF InHand, Held, Owner, Activating, ReadIt, Prepared, Needed, OwnOperation, OwnFiles
<1>13. Installed'
  BY <1>4, <1>5, <1>6, <1>8 DEF Installed, Held, Activating, SameOperation
<1>14. ActivationInHand'
  BY <1>4, <1>6, <1>8
  DEF ActivationInHand, Activating, Held, Aborting, Accepting, SameOperation, Accepted
<1>15. RoutesLead'
  BY <1>4, <1>6, <1>8 DEF RoutesLead, Leads, Held, Accepted
<1>16. WholeAsAccepted'
  BY <1>4, <1>5, <1>6, <1>8, <1>9 DEF WholeAsAccepted, Held, Owner, Activating, SameOperation, OwnFiles, ReadIt
<1>17. Withdrawal'
  BY <1>4 DEF Withdrawal, Held, InHand, OfItsVerb
<1>18. StaysWithdrawn'
  BY <1>4, <1>6 DEF StaysWithdrawn, Held, Stopped, Activating, Accepting, ReadIt, Aborting
<1>19. RefusedRestores'
  BY <1>8 DEF RefusedRestores, Open, OwnFiles, ReadIt
<1> QED BY <1>11, <1>12, <1>13, <1>14, <1>15, <1>16, <1>17, <1>18, <1>19

(* Only trees go that are neither the candidate's nor the previous         *)
(* revision's.                                                             *)
LEMMA RetireOK ==
  ASSUME StaticInv, Retire
  PROVE  StaticInv'
<1> USE DEF StaticInv
<1>1. task \in Tasks BY DEF StaticTypeOK
<1>2. Move("retire", "report") BY DEF Retire
<1>3. "report" \in Steps BY DEF Steps
<1>4. task' \in Tasks /\ Held /\ task.pc = "retire" /\ task'.pc = "report"
  BY <1>1, <1>2, <1>3, MoveHolds
<1>5. Activating
  BY <1>1, <1>4 DEF InHand, OfItsVerb, Activating, Owner, Tasks, Verbs
<1>6. /\ UNCHANGED <<operation, queued, installed, snapshot, routeFile, routePrev, staticRecord,
                     retention, loadedRoute, halted, halting, kept, borrowed, torn, earlier, staticCounts>>
      /\ gate' \in {NoStatic, gate}
      /\ trees' = trees \/ /\ operation.phase = "ready"
                           /\ trees' = trees \cap {operation.candidate, operation.previous}
  BY DEF Retire
<1>7. /\ routePrev = NoStatic /\ loadedRoute = routeFile /\ routeFile.revision = operation.candidate
      /\ staticRecord = task.own /\ staticRecord # NoStatic
  BY <1>4, <1>5 DEF InHand, Needed, ActivationInHand, Aborting, Accepting
<1>8. gate' \in NoneOr(StaticRevisions) /\ trees' \subseteq StaticRevisions
  BY <1>6, NoneIsNone DEF StaticTypeOK
<1> USE DEF staticFiles, hostState, staticCounts
<1>11. StaticTypeOK'
  BY <1>4, <1>6, <1>8 DEF StaticTypeOK
<1>12. InHand'
  <2>1. OfItsVerb' BY <1>4 DEF InHand, OfItsVerb, Held, Owner, Steps
  <2>2. KeptWhole' BY <1>6 DEF InHand, KeptWhole
  <2> QED
    BY <2>1, <2>2, <1>4, <1>6 DEF InHand, Held, Owner, Activating, ReadIt, Prepared, Needed, OwnOperation, OwnFiles
<1>13. Installed'
  BY <1>4, <1>6 DEF Installed, Held
<1>14. ActivationInHand'
  BY <1>4, <1>6 DEF ActivationInHand, Activating, Held, Accepting
<1>15. RoutesLead'
  BY <1>4, <1>6, <1>7 DEF RoutesLead, Leads, Accepted
<1>16. WholeAsAccepted'
  BY <1>4, <1>6 DEF WholeAsAccepted, Held, Owner, OwnFiles, ReadIt
<1>17. Withdrawal'
  BY <1>4 DEF Withdrawal, Held, InHand, OfItsVerb
<1>18. StaysWithdrawn'
  BY <1>4, <1>6 DEF StaysWithdrawn, Held, Stopped, Activating, ReadIt, Aborting
<1>19. RefusedRestores'
  BY <1>4, <1>5, <1>6 DEF RefusedRestores, Open, ActivationInHand, Accepted, OwnFiles, ReadIt
<1> QED BY <1>11, <1>12, <1>13, <1>14, <1>15, <1>16, <1>17, <1>18, <1>19

(* The end of an activation.                                               *)
LEMMA ReportOK ==
  ASSUME StaticInv, Report
  PROVE  StaticInv'
<1> USE DEF StaticInv
<1>1. task \in Tasks /\ task.pc = "report" BY DEF StaticTypeOK, Report
<1>2. Activating
  BY <1>1 DEF InHand, OfItsVerb, Activating, Owner, Tasks, Verbs
<1>6. /\ UNCHANGED <<operation, installed, routeFile, routePrev, staticRecord, retention, trees,
                     loadedRoute, gate, halted, halting, borrowed, torn, earlier, staticCounts>>
      /\ queued' = FALSE /\ task' = NoTask
      /\ snapshot' \in {NoStatic, snapshot}
      /\ kept' \in [Hosts -> StaticOperations] /\ KeptWhole'
  BY LeavesHolds DEF Report
<1>7. /\ task' = NoTask /\ task' \in Tasks /\ task'.verb = "none" /\ task'.pc = "idle"
      /\ task'.own = NoStatic /\ task'.route = NoStatic /\ task'.unchanged = TRUE
      /\ task'.made = FALSE
  BY <1>6, NoTaskFields
<1>8. snapshot' \in NoneOr([route : NoneOr(Routes), revision : NoneOr(StaticRevisions)])
  BY <1>6 DEF StaticTypeOK, NoneOr
<1> USE DEF staticFiles, hostState, staticCounts
<1>11. StaticTypeOK'
  BY <1>6, <1>7, <1>8 DEF StaticTypeOK
<1>12. InHand' BY <1>6, <1>7 DEF InHand, OfItsVerb, Owner, Prepared, Needed, ReadIt, Activating, OwnOperation, OwnFiles
<1>13. Installed'
  BY <1>6, <1>7 DEF Installed
<1>14. ActivationInHand'
  BY <1>7 DEF ActivationInHand, Activating
<1>15. RoutesLead'
  BY <1>6, <1>7 DEF RoutesLead, Leads
<1>16. WholeAsAccepted'
  BY <1>6, <1>7 DEF WholeAsAccepted, Owner, OwnFiles, ReadIt
<1>17. Withdrawal'
  BY <1>7 DEF Withdrawal
<1>18. StaysWithdrawn'
  BY <1>2, <1>6, <1>7 DEF StaysWithdrawn, Stopped, Activating, ReadIt, Aborting
<1>19. RefusedRestores'
  BY <1>1, <1>6, <1>7
  DEF RefusedRestores, Live, Untouched, Remembered, PutBackFirst, Activating, Back, OwnFiles, ReadIt
<1> QED BY <1>11, <1>12, <1>13, <1>14, <1>15, <1>16, <1>17, <1>18, <1>19

(* A step fails: what it had in memory is what the abort puts back.        *)
LEMMA FailsOK ==
  ASSUME StaticInv, NEW failure \in Failures, Fails(failure),
         loadedRoute' = loadedRoute \/ (loadedRoute' = routeFile /\ task.pc = "reload")
  PROVE  StaticInv'
<1> USE DEF StaticInv
<1>1. task \in Tasks /\ task.pc \in Failing /\ task.verb \in {"activate", "start", "restart"}
  BY DEF StaticTypeOK, Fails
<1>2. /\ UNCHANGED <<staticFiles, gate, halted, halting, kept, borrowed, torn, earlier, stages, halts>>
      /\ task' = [task EXCEPT !.pc = "put back", !.failure = failure]
      /\ faults' \in 0..MaxFaults
  BY FaultCounted DEF Fails
<1>3. "put back" \in Steps BY DEF Steps
<1>4. task' \in Tasks /\ HeldButFailure /\ task'.pc = "put back" /\ task'.failure = failure
  BY <1>1, <1>2, <1>3 DEF Tasks, HeldButFailure
<1> USE DEF staticFiles, hostState, staticCounts
<1>11. StaticTypeOK'
  BY <1>2, <1>4 DEF StaticTypeOK
<1>12. InHand'
  <2>1. OfItsVerb' BY <1>1, <1>4 DEF OfItsVerb, HeldButFailure, Steps
  <2>2. KeptWhole' BY <1>2 DEF InHand, KeptWhole
  <2> QED
    BY <2>1, <2>2, <1>2, <1>4 DEF InHand, HeldButFailure, Owner, Activating, ReadIt, Prepared, Needed, OwnOperation, OwnFiles
<1>13. Installed'
  BY <1>2 DEF Installed
<1>14. ActivationInHand'
  BY <1>1, <1>2, <1>4
  DEF ActivationInHand, Activating, HeldButFailure, Aborting, Accepting, Failing
<1>15. RoutesLead'
  <2>1. task.pc # "report" BY <1>1 DEF Failing
  <2> QED BY <2>1, <1>2 DEF RoutesLead, Leads
<1>16. WholeAsAccepted'
  BY <1>2 DEF WholeAsAccepted, Owner, OwnFiles, ReadIt
<1>17. Withdrawal'
  BY <1>1, <1>4 DEF Withdrawal, HeldButFailure
<1>18. StaysWithdrawn'
  <2> SUFFICES ASSUME Stopped PROVE StaysWithdrawn'
    BY <1>2 DEF StaysWithdrawn, Stopped
  <2>1. CASE Activating
    BY <1>1, <1>2, <1>4, <2>1
    DEF StaysWithdrawn, HeldButFailure, Activating, Accepting, ReadIt, Aborting
  <2>2. CASE task.verb = "start"
    <3>1. task.pc # "prepare" => task.made
      BY <1>1, <2>2 DEF InHand, Failing, ReadIt, Owner
    <3>2. task.pc = "reload" => task.made BY <3>1
    <3> QED BY <1>1, <1>2, <1>4, <2>2, <3>1, <3>2
            DEF StaysWithdrawn, HeldButFailure, Activating, InHand, Owner
  <2>3. task.verb # "restart" BY DEF StaysWithdrawn
  <2> QED BY <1>1, <2>1, <2>2, <2>3 DEF Activating
<1>19. RefusedRestores'
  <2> SUFFICES ASSUME Live, operation.phase \in Open
               PROVE  task.verb # "start" /\ Untouched' /\ Remembered' /\ PutBackFirst'
    BY <1>2, <1>4 DEF RefusedRestores, Live, OwnFiles, HeldButFailure
  <2>1. task.verb # "start" /\ Untouched /\ Remembered BY DEF RefusedRestores
  <2>2. CASE ~ReadIt
    <3>1. task.pc \in {"look", "prepare"} \/ task.pc \in {"put back", "record back"}
      BY <1>1, <2>1, <2>2 DEF Remembered, Failing, Activating, InHand, Owner
    <3>2. ~ReadIt' BY <1>4, <2>2 DEF ReadIt, HeldButFailure
    <3> QED
      BY <1>1, <1>2, <1>4, <2>1, <2>2, <3>1, <3>2
      DEF Untouched, Remembered, PutBackFirst, HeldButFailure, Back, Failing
  <2>3. CASE ReadIt
    <3>1. /\ task.pc \notin {"look", "prepare", "put back", "record back", "report"}
          /\ task.verb \in {"activate", "restart"}
      BY <1>1, <2>1, <2>3 DEF InHand, Failing, ReadIt
    <3>2. ReadIt' BY <1>4, <2>3 DEF ReadIt, HeldButFailure
    <3> QED
      BY <1>2, <1>4, <2>1, <2>3, <3>1, <3>2
      DEF Untouched, Remembered, PutBackFirst, HeldButFailure, Activating
  <2> QED BY <2>2, <2>3
<1> QED BY <1>11, <1>12, <1>13, <1>14, <1>15, <1>16, <1>17, <1>18, <1>19

(* An abort that has read nothing puts nothing back.                       *)
LEMMA NothingToPutBackOK ==
  ASSUME StaticInv, PutBackRoute, task.route = NoStatic
  PROVE  StaticInv'
<1> USE DEF StaticInv
<1>1. task \in Tasks BY DEF StaticTypeOK
<1>2. Move("put back", "record back") /\ UNCHANGED routeFile BY DEF PutBackRoute
<1>3. "record back" \in Steps BY DEF Steps
<1>4. task' \in Tasks /\ Held /\ task.pc = "put back" /\ task'.pc = "record back"
  BY <1>1, <1>2, <1>3, MoveHolds
<1>6. UNCHANGED <<staticFiles, hostState>> BY DEF PutBackRoute, staticFiles, hostState, Borrows
<1> USE DEF staticFiles, hostState, staticCounts
<1>11. StaticTypeOK'
  BY <1>4, <1>6 DEF StaticTypeOK
<1>12. InHand'
  <2>1. OfItsVerb' BY <1>4 DEF InHand, OfItsVerb, Held, Steps
  <2>2. KeptWhole' BY <1>6 DEF InHand, KeptWhole
  <2> QED
    BY <2>1, <2>2, <1>4, <1>6 DEF InHand, Held, Owner, Activating, ReadIt, Prepared, Needed, OwnOperation, OwnFiles
<1>13. Installed'
  BY <1>4, <1>6 DEF Installed, Held
<1>14. ActivationInHand'
  BY <1>4, <1>6 DEF ActivationInHand, Activating, Held, Aborting, Accepting
<1>15. RoutesLead'
  BY <1>4, <1>6 DEF RoutesLead, Leads, Held
<1>16. WholeAsAccepted'
  BY <1>4, <1>6 DEF WholeAsAccepted, Held, Owner, OwnFiles, ReadIt
<1>17. Withdrawal'
  BY <1>4 DEF Withdrawal, Held, InHand, OfItsVerb
<1>18. StaysWithdrawn'
  BY <1>4, <1>6 DEF StaysWithdrawn, Held, Stopped, Activating, Accepting, ReadIt, Aborting, InHand, Owner
<1>19. RefusedRestores'
  BY <1>4, <1>6 DEF RefusedRestores, Held, Live, Untouched, Remembered, PutBackFirst, Back, OwnFiles, ReadIt
<1> QED BY <1>11, <1>12, <1>13, <1>14, <1>15, <1>16, <1>17, <1>18, <1>19

(* The route of before is put back, through the gate if the application    *)
(* was stopped meanwhile.                                                  *)
LEMMA PutsRouteBackOK ==
  ASSUME StaticInv, PutBackRoute, task.route # NoStatic
  PROVE  StaticInv'
<1> USE DEF StaticInv
<1>1. task \in Tasks /\ task.own # NoStatic /\ halted \in BOOLEAN
  BY DEF StaticTypeOK, InHand
<1>2. Sees("put back", "reload back") BY DEF PutBackRoute
<1>5. /\ task' \in Tasks /\ Held /\ task'.stopped = halted
      /\ task.pc = "put back" /\ task'.pc = "reload back"
  BY <1>1, <1>2, SeesHolds DEF Steps
<1>6. Activating \/ Owner
  BY <1>1, <1>5 DEF InHand, OfItsVerb, Activating, Owner, Tasks, Verbs
<1>7. /\ UNCHANGED <<operation, queued, installed, snapshot, routePrev, staticRecord, retention,
                     trees, loadedRoute, gate, halted, halting, kept, torn, earlier, staticCounts>>
      /\ routeFile' = IF halted THEN task.own.disabled ELSE task.route
      /\ borrowed' = IF task.made THEN borrowed ELSE stages + 1
  BY DEF PutBackRoute, RouteBack, Borrows
<1>8. /\ task.own.disabled \in Routes /\ task.own.disabled.kind = "gate" /\ task.route \in Routes
      /\ routeFile' \in Routes /\ routeFile' # NoStatic /\ routeFile' \in NoneOr(Routes)
  BY <1>1, <1>7, Typed, RecordFields, GateRoutes, NoneIsNone DEF NoneOr
<1>9. halted => NotTree(routeFile')
  BY <1>7, <1>8 DEF NotTree
<1>10. /\ borrowed' \in 0..(MaxStages + 1)
       /\ (task.made /\ borrowed' = borrowed) \/ (~OwnFiles' /\ borrowed' # 0)
  BY <1>7, StaticAssumption DEF StaticTypeOK, OwnFiles, staticCounts
<1> USE DEF staticFiles, hostState, staticCounts
<1>11. StaticTypeOK'
  BY <1>5, <1>7, <1>8, <1>10 DEF StaticTypeOK
<1>12. InHand'
  <2>1. OfItsVerb' BY <1>5 DEF InHand, OfItsVerb, Held, Owner, Steps
  <2>2. KeptWhole' BY <1>7 DEF InHand, KeptWhole
  <2> QED
    BY <2>1, <2>2, <1>1, <1>5, <1>6, <1>7, <1>10
    DEF InHand, Held, Owner, Activating, ReadIt, Prepared, Needed, OwnOperation
<1>13. Installed'
  BY <1>5, <1>7, <1>8 DEF Installed, Held
<1>14. ActivationInHand'
  BY <1>5, <1>7 DEF ActivationInHand, Activating, Held, Aborting, Accepting
<1>15. RoutesLead'
  <2> SUFFICES ASSUME borrowed' = 0 PROVE RoutesLead' BY DEF RoutesLead
  <2>1. RoutesLead /\ borrowed = 0 /\ task.made BY <1>10
  <2>2. Leads(routeFile') BY <2>1, <1>5, <1>7, <1>8 DEF RoutesLead, Leads
  <2> QED BY <2>1, <2>2, <1>5, <1>7 DEF RoutesLead, Leads, Held
<1>16. WholeAsAccepted'
  <2> SUFFICES ASSUME operation.phase \in Accepted, OwnFiles' PROVE WholeAsAccepted'
    BY <1>7 DEF WholeAsAccepted
  <2>0. OwnFiles /\ task.made BY <1>7, <1>10 DEF OwnFiles
  <2>1. Owner BY <1>5, <1>6 DEF ActivationInHand, Ongoing, Accepted, Activating
  <2>2. /\ staticRecord # NoStatic /\ Of(task.own, operation.candidate) /\ routePrev = NoStatic
        /\ installed = operation.candidate /\ Of(staticRecord, operation.candidate)
        /\ task.before # NoStatic => Of(task.before, operation.candidate)
        /\ task.before # NoStatic /\ task.route.revision = operation.candidate
    BY <2>0, <2>1 DEF WholeAsAccepted, InHand, ReadIt
  <2>3. task.own.disabled.revision = operation.candidate
    BY <2>2, Typed, RecordFields, RouteFields, <1>1 DEF Of, NoneOr
  <2>4. routeFile'.revision = operation.candidate
    BY <2>2, <2>3, <1>7
  <2> QED BY <2>2, <2>4, <1>5, <1>7, <1>8 DEF WholeAsAccepted, Held, Of, ReadIt
<1>17. Withdrawal'
  BY <1>5 DEF Withdrawal, Held, InHand, OfItsVerb
<1>18. StaysWithdrawn'
  BY <1>5, <1>7, <1>9 DEF StaysWithdrawn, Held, Stopped, Activating, ReadIt, Aborting, Accepting
<1>19. RefusedRestores'
  <2> SUFFICES ASSUME Live, operation.phase \in Open, task.made
               PROVE  task.verb # "start" /\ Untouched' /\ Remembered' /\ PutBackFirst'
    BY <1>5, <1>7, <1>10 DEF RefusedRestores, Live, Held, OwnFiles
  <2>1. task.verb # "start" /\ Remembered BY DEF RefusedRestores
  <2>2. task.verb = "restart" \/ Activating BY <1>6, <2>1 DEF Owner
  <2>3. ~halted BY DEF Live
  <2>4. task.route = earlier.route BY <1>5, <2>1, <2>2 DEF Remembered, ReadIt
  <2> QED
    BY <1>5, <1>7, <2>1, <2>3, <2>4
    DEF Untouched, Remembered, PutBackFirst, Held, Activating, InHand, OfItsVerb, ReadIt
<1> QED BY <1>11, <1>12, <1>13, <1>14, <1>15, <1>16, <1>17, <1>18, <1>19

(* The route that was put back is loaded.                                  *)
LEMMA ReloadBackOK ==
  ASSUME StaticInv, ReloadBack
  PROVE  StaticInv'
<1> USE DEF StaticInv
<1>1. task \in Tasks BY DEF StaticTypeOK
<1>2. PICK to \in {"record back"} : Move("reload back", to) /\ TRUE
  BY DEF ReloadBack
<1>3. to \in Steps BY DEF Steps
<1>4. /\ task' \in Tasks /\ Held /\ task'.stopped = task.stopped
      /\ task.pc = "reload back" /\ task'.pc = to
  BY <1>1, <1>2, <1>3, MoveHolds
<1>5. task.verb # "none" BY <1>4 DEF InHand, OfItsVerb
<1>6. /\ UNCHANGED <<staticFiles, gate, halted, halting, kept, borrowed, torn, earlier, staticCounts>>
      /\ loadedRoute' = routeFile
  BY DEF ReloadBack, Load
<1> USE DEF staticFiles, hostState, staticCounts
<1>11. StaticTypeOK'
  BY <1>4, <1>6 DEF StaticTypeOK
<1>12. InHand'
  <2>1. OfItsVerb' BY <1>4 DEF InHand, OfItsVerb, Held, Steps
  <2>2. KeptWhole' BY <1>6 DEF InHand, KeptWhole
  <2> QED
    BY <2>1, <2>2, <1>4, <1>6 DEF InHand, Held, Owner, Activating, ReadIt, Prepared, Needed, OwnOperation, OwnFiles
<1>13. Installed'
  BY <1>4, <1>6 DEF Installed, Held
<1>14. ActivationInHand'
  BY <1>4, <1>6 DEF ActivationInHand, Activating, Held, Aborting
<1>15. RoutesLead'
  BY <1>4, <1>6 DEF RoutesLead, Leads, Held
<1>16. WholeAsAccepted'
  BY <1>4, <1>6 DEF WholeAsAccepted, Held, Owner, OwnFiles, ReadIt
<1>17. Withdrawal'
  BY <1>4 DEF Withdrawal, Held, InHand, OfItsVerb
<1>18. StaysWithdrawn'
  BY <1>4, <1>6 DEF StaysWithdrawn, Held, Stopped, Activating, ReadIt, Aborting
<1>19. RefusedRestores'
  <2> SUFFICES ASSUME Live, operation.phase \in Open
               PROVE  task.verb # "start" /\ Untouched' /\ Remembered' /\ PutBackFirst'
    BY <1>4, <1>6 DEF RefusedRestores, Live, Held, OwnFiles
  <2>1. task.verb # "start" /\ Remembered /\ PutBackFirst BY DEF RefusedRestores
  <2>2. ReadIt BY <1>4 DEF InHand, OwnOperation, Live, ReadIt
  <2>3. ReadIt' BY <1>4, <2>2 DEF ReadIt, Held
  <2> QED
    BY <1>4, <1>5, <1>6, <2>1, <2>2, <2>3
    DEF Untouched, Remembered, PutBackFirst, Held, Activating
<1> QED BY <1>11, <1>12, <1>13, <1>14, <1>15, <1>16, <1>17, <1>18, <1>19

(* The record of before is put back, by a start or restart that failed or  *)
(* was overtaken ...                                                       *)
LEMMA OwnerPutsRecordBackOK ==
  ASSUME StaticInv, PutBackRecord, Owner
  PROVE  StaticInv'
<1> USE DEF StaticInv
<1>1. task \in Tasks /\ task.pc = "record back" BY DEF StaticTypeOK, PutBackRecord
<1>2. staticRecord # NoStatic /\ (task.route # NoStatic => task.own # NoStatic) BY DEF InHand
<1>3. task.route # NoStatic =>
        /\ task.before = NoStatic => RecordBack = NoStatic
        /\ task.before # NoStatic => /\ RecordBack \in StaticRecords
                                    /\ RecordBack.revision = task.before.revision
                                    /\ RecordBack.disabled = task.before.disabled
        /\ ~task.stopped => RecordBack = task.before
  BY RecordRestored
<1>6. /\ UNCHANGED <<operation, queued, installed, snapshot, routeFile, routePrev, trees, loadedRoute,
                     gate, halted, halting, borrowed, torn, earlier, staticCounts>>
      /\ task' = NoTask /\ kept' \in [Hosts -> StaticOperations] /\ KeptWhole'
      /\ task.route = NoStatic => UNCHANGED <<retention, staticRecord>>
      /\ task.route # NoStatic =>
           /\ retention' = IF task.retained = NothingRetained THEN retention ELSE task.retained
           /\ staticRecord' = RecordBack
  BY LeavesHolds DEF PutBackRecord
<1>7. /\ task' = NoTask /\ task' \in Tasks /\ task'.verb = "none" /\ task'.pc = "idle"
      /\ task'.own = NoStatic /\ task'.route = NoStatic /\ task'.unchanged = TRUE
      /\ task'.made = FALSE
  BY <1>6, NoTaskFields
<1>8. staticRecord' \in NoneOr(StaticRecords) /\ retention' \in Retentions
  BY <1>3, <1>6, Typed, NoneIsNone
<1>9. task.route # NoStatic /\ OwnFiles => ReadIt
  BY <1>1 DEF InHand, OwnOperation, ReadIt
<1> USE DEF staticFiles, hostState, staticCounts
<1>11. StaticTypeOK'
  BY <1>6, <1>7, <1>8 DEF StaticTypeOK
<1>12. InHand' BY <1>6, <1>7 DEF InHand, OfItsVerb, Owner, Prepared, Needed, ReadIt, Activating, OwnOperation, OwnFiles
<1>13. Installed'
  BY <1>2, <1>6, <1>7 DEF Installed
<1>14. ActivationInHand'
  BY <1>7 DEF ActivationInHand, Activating
<1>15. RoutesLead'
  BY <1>6, <1>7 DEF RoutesLead, Leads
<1>16. WholeAsAccepted'
  <2> SUFFICES ASSUME operation.phase \in Accepted, staticRecord' # NoStatic, OwnFiles
               PROVE  Of(staticRecord', operation.candidate)
    BY <1>2, <1>6, <1>7 DEF WholeAsAccepted, Owner, OwnFiles, ReadIt
  <2>1. CASE task.route = NoStatic BY <1>2, <1>6, <2>1 DEF WholeAsAccepted
  <2>2. CASE task.route # NoStatic
    BY <1>3, <1>6, <1>9, <2>2 DEF WholeAsAccepted, Of, ReadIt
  <2> QED BY <2>1, <2>2
<1>17. Withdrawal'
  BY <1>7 DEF Withdrawal
<1>18. StaysWithdrawn'
  BY <1>1, <1>6, <1>7 DEF StaysWithdrawn, Stopped, Activating, Owner, ReadIt, Aborting
<1>19. RefusedRestores'
  <2> SUFFICES ASSUME Live, operation.phase \in Open PROVE Untouched'
    BY <1>6, <1>7 DEF RefusedRestores, Live, OwnFiles, Remembered, PutBackFirst, Activating
  <2>1. task.verb = "restart" /\ Untouched /\ Remembered /\ PutBackFirst
    BY DEF RefusedRestores, Owner
  <2>2. CASE task.route = NoStatic
    BY <1>1, <1>6, <2>1, <2>2 DEF Untouched, Back, ReadIt
  <2>3. CASE task.route # NoStatic
    <3>0. ReadIt BY <1>9, <2>3 DEF Live
    <3>1. /\ task.before = earlier.record /\ earlier.retained \in {NothingRetained, task.retained}
          /\ routePrev \in {NoStatic, earlier.route}
      BY <1>1, <2>1, <3>0 DEF Remembered
    <3>2. ~task.stopped /\ routeFile = earlier.route /\ loadedRoute = earlier.route
      BY <1>1, <2>1, <3>0 DEF PutBackFirst
    <3> QED BY <1>3, <1>6, <2>3, <3>1, <3>2 DEF Untouched, Back
  <2> QED BY <2>2, <2>3
<1> QED BY <1>11, <1>12, <1>13, <1>14, <1>15, <1>16, <1>17, <1>18, <1>19

(* ... and by the worker, whose operation is refused.                      *)
LEMMA WorkerPutsRecordBackOK ==
  ASSUME StaticInv, PutBackRecord, ~Owner
  PROVE  StaticInv'
<1> USE DEF StaticInv
<1>1. task \in Tasks /\ task.pc = "record back" BY DEF StaticTypeOK, PutBackRecord
<1>2. Activating /\ (task.route # NoStatic => task.own # NoStatic)
  BY <1>1 DEF InHand, OfItsVerb, Activating, Owner, Tasks, Verbs
<1>3. task.route # NoStatic =>
        /\ task.before = NoStatic => RecordBack = NoStatic
        /\ task.before # NoStatic => /\ RecordBack \in StaticRecords
                                    /\ RecordBack.revision = task.before.revision
                                    /\ RecordBack.disabled = task.before.disabled
        /\ ~task.stopped => RecordBack = task.before
  BY RecordRestored
<1>4. /\ UNCHANGED <<queued, installed, snapshot, routeFile, routePrev, trees, loadedRoute, gate,
                     halted, halting, kept, borrowed, torn, earlier, staticCounts>>
      /\ task.route = NoStatic => UNCHANGED <<retention, staticRecord>>
      /\ task.route # NoStatic =>
           /\ retention' = IF task.retained = NothingRetained THEN retention ELSE task.retained
           /\ staticRecord' = RecordBack
      /\ Move("record back", "report") /\ operation' = [operation EXCEPT !.phase = Failure]
  BY DEF PutBackRecord
<1>5. task' \in Tasks /\ Held /\ task'.pc = "report"
  BY <1>1, <1>4, MoveHolds DEF Steps
<1>6. operation.phase \in Ongoing BY <1>1, <1>2 DEF ActivationInHand
<1>7. operation' \in Operations /\ operation'.phase = Failure /\ SameOperation
  BY <1>4, <1>6, FailurePhase, PhaseHolds
<1>8. staticRecord' \in NoneOr(StaticRecords) /\ retention' \in Retentions
  BY <1>3, <1>4, Typed, NoneIsNone
<1>9. installed # NoStatic /\ Failure \in Open /\ Failure \notin Accepted /\ operation.phase \in Open
      /\ operation.phase \notin Accepted
  BY <1>2, <1>6, FailurePhase, NoneIsNone DEF ActivationInHand, Installed
<1>10. task.route # NoStatic /\ OwnFiles => ReadIt
  BY <1>1 DEF InHand, OwnOperation, ReadIt
<1> USE DEF staticFiles, hostState, staticCounts
<1>11. StaticTypeOK'
  BY <1>4, <1>5, <1>7, <1>8 DEF StaticTypeOK, Operations
<1>12. InHand'
  <2>1. OfItsVerb' BY <1>1, <1>5 DEF InHand, OfItsVerb, Held, Owner, Steps
  <2>2. KeptWhole' BY <1>4 DEF InHand, KeptWhole
  <2> QED
    BY <2>1, <2>2, <1>2, <1>4, <1>5
    DEF InHand, Activating, Held, Owner, ReadIt, Prepared, Needed, OwnOperation
<1>13. Installed'
  BY <1>2, <1>4, <1>5, <1>7, <1>9 DEF Installed, Held, Activating, SameOperation
<1>14. ActivationInHand'
  BY <1>4, <1>5, <1>7 DEF ActivationInHand, Activating, Held, Accepting, SameOperation
<1>15. RoutesLead'
  BY <1>4, <1>5, <1>9 DEF RoutesLead, Leads
<1>16. WholeAsAccepted'
  BY <1>7, <1>9 DEF WholeAsAccepted, OwnFiles, ReadIt
<1>17. Withdrawal'
  BY <1>1, <1>5 DEF Withdrawal, Held, InHand, OfItsVerb
<1>18. StaysWithdrawn'
  <2> SUFFICES ASSUME Stopped PROVE StaysWithdrawn'
    BY <1>4 DEF StaysWithdrawn, Stopped
  <2>1. /\ ~ReadIt /\ NotTree(routeFile) /\ gate = NoStatic
        /\ staticRecord # NoStatic \/ task.route # NoStatic => NotTree(loadedRoute)
    BY <1>1, <1>2 DEF StaysWithdrawn, Activating
  <2>2. staticRecord' # NoStatic => NotTree(loadedRoute)
    BY <1>4, <2>1
  <2> QED
    BY <1>2, <1>4, <1>5, <2>1, <2>2
    DEF StaysWithdrawn, Held, Activating, Accepting, Aborting, ReadIt, NotTree
<1>19. RefusedRestores'
  <2> SUFFICES ASSUME Live
               PROVE  task.verb # "start" /\ Untouched' /\ Remembered' /\ PutBackFirst'
    BY <1>4, <1>5 DEF RefusedRestores, Live, OwnFiles, Held
  <2>1. Untouched /\ Remembered /\ PutBackFirst
    BY <1>9 DEF RefusedRestores
  <2>2. Remembered' /\ PutBackFirst' /\ task.verb # "start"
    BY <1>2, <1>5 DEF Remembered, PutBackFirst, Activating
  <2>3. CASE task.route = NoStatic
    <3>1. Untouched' BY <1>1, <1>4, <1>7, <2>1, <2>3 DEF Untouched, Back, SameOperation, ReadIt
    <3> QED BY <2>2, <3>1
  <2>4. CASE task.route # NoStatic
    <3>0. ReadIt BY <1>10, <2>4 DEF Live
    <3>1. /\ task.before = earlier.record /\ earlier.retained \in {NothingRetained, task.retained}
          /\ routePrev \in {NoStatic, earlier.route}
      BY <1>1, <1>2, <2>1, <3>0 DEF Remembered
    <3>2. ~task.stopped /\ routeFile = earlier.route /\ loadedRoute = earlier.route
      BY <1>1, <2>1, <3>0 DEF PutBackFirst
    <3>3. Untouched' BY <1>3, <1>4, <2>4, <3>1, <3>2 DEF Untouched, Back
    <3> QED BY <2>2, <3>3
  <2> QED BY <2>3, <2>4
<1> QED BY <1>11, <1>12, <1>13, <1>14, <1>15, <1>16, <1>17, <1>18, <1>19

(* An abort that fails is torn: of a start or restart ...                  *)
LEMMA OwnerGivesUpOK ==
  ASSUME StaticInv, AbortFails, Owner
  PROVE  StaticInv'
<1> USE DEF StaticInv
<1>6. /\ UNCHANGED <<operation, queued, installed, snapshot, routeFile, routePrev, staticRecord, retention,
                     trees, loadedRoute, gate, halted, halting, borrowed, earlier, stages, halts>>
      /\ task' = NoTask /\ kept' \in [Hosts -> StaticOperations] /\ KeptWhole' /\ torn' = TRUE /\ faults' \in 0..MaxFaults
  BY FaultCounted, LeavesHolds DEF AbortFails
<1>7. /\ task' = NoTask /\ task' \in Tasks /\ task'.verb = "none" /\ task'.pc = "idle"
      /\ task'.own = NoStatic /\ task'.route = NoStatic /\ task'.unchanged = TRUE
      /\ task'.made = FALSE
  BY <1>6, NoTaskFields
<1> USE DEF staticFiles, hostState, staticCounts
<1>11. StaticTypeOK'
  BY <1>6, <1>7 DEF StaticTypeOK
<1>12. InHand' BY <1>6, <1>7 DEF InHand, OfItsVerb, Owner, Prepared, Needed, ReadIt, Activating, OwnOperation, OwnFiles
<1>13. Installed'
  BY <1>6, <1>7 DEF Installed
<1>14. ActivationInHand'
  BY <1>7 DEF ActivationInHand, Activating
<1>15. RoutesLead'
  BY <1>6, <1>7 DEF RoutesLead, Leads
<1>16. WholeAsAccepted'
  BY <1>6, <1>7 DEF WholeAsAccepted, Owner, OwnFiles, ReadIt
<1>17. Withdrawal'
  BY <1>7 DEF Withdrawal
<1>18. StaysWithdrawn'
  BY <1>6 DEF StaysWithdrawn, Stopped, ReadIt, Aborting
<1>19. RefusedRestores'
  BY <1>6 DEF RefusedRestores, Live, OwnFiles, ReadIt
<1> QED BY <1>11, <1>12, <1>13, <1>14, <1>15, <1>16, <1>17, <1>18, <1>19

(* ... and of the worker.                                                  *)
LEMMA WorkerGivesUpOK ==
  ASSUME StaticInv, AbortFails, ~Owner
  PROVE  StaticInv'
<1> USE DEF StaticInv
<1>1. task \in Tasks /\ task.pc = "reload back" BY DEF StaticTypeOK, AbortFails
<1>2. Activating
  BY <1>1 DEF InHand, OfItsVerb, Activating, Owner, Tasks, Verbs
<1>3. /\ UNCHANGED <<queued, installed, snapshot, routeFile, routePrev, staticRecord, retention,
                     trees, loadedRoute, gate, halted, halting, kept, borrowed, earlier, stages, halts>>
      /\ torn' = TRUE /\ faults' \in 0..MaxFaults
      /\ Move("reload back", "report") /\ operation' = [operation EXCEPT !.phase = Failure]
  BY FaultCounted DEF AbortFails
<1>4. task' \in Tasks /\ Held /\ task'.pc = "report"
  BY <1>1, <1>3, MoveHolds DEF Steps
<1>5. operation.phase \in Ongoing BY <1>1, <1>2 DEF ActivationInHand
<1>6. operation' \in Operations /\ operation'.phase = Failure /\ SameOperation
  BY <1>3, <1>5, FailurePhase, PhaseHolds
<1>7. Failure \notin Accepted /\ operation.phase \notin Accepted BY <1>5, FailurePhase
<1> USE DEF staticFiles, hostState, staticCounts
<1>11. StaticTypeOK'
  BY <1>3, <1>4, <1>6 DEF StaticTypeOK, Operations
<1>12. InHand'
  <2>1. OfItsVerb' BY <1>1, <1>4 DEF InHand, OfItsVerb, Held, Owner, Steps
  <2>2. KeptWhole' BY <1>3 DEF InHand, KeptWhole
  <2> QED
    BY <2>1, <2>2, <1>3, <1>4 DEF InHand, Held, Owner, Activating, ReadIt, Prepared, Needed, OwnOperation, OwnFiles
<1>13. Installed'
  BY <1>2, <1>3, <1>4, <1>6 DEF Installed, Held, Activating, SameOperation
<1>14. ActivationInHand'
  BY <1>3, <1>4, <1>6 DEF ActivationInHand, Activating, Held, Accepting, SameOperation
<1>15. RoutesLead'
  BY <1>3, <1>4, <1>7 DEF RoutesLead, Leads
<1>16. WholeAsAccepted'
  BY <1>6, <1>7 DEF WholeAsAccepted, OwnFiles, ReadIt
<1>17. Withdrawal'
  BY <1>1, <1>4 DEF Withdrawal, Held, InHand, OfItsVerb
<1>18. StaysWithdrawn'
  BY <1>3 DEF StaysWithdrawn, Stopped, ReadIt, Aborting
<1>19. RefusedRestores'
  BY <1>3 DEF RefusedRestores, Live, OwnFiles, ReadIt
<1> QED BY <1>11, <1>12, <1>13, <1>14, <1>15, <1>16, <1>17, <1>18, <1>19

(* A stop is recorded at any moment, and nothing promises more until it is *)
(* carried out.                                                            *)
LEMMA MarkHaltedOK ==
  ASSUME StaticInv, MarkHalted
  PROVE  StaticInv'
<1> USE DEF StaticInv
<1>1. task \in Tasks BY DEF StaticTypeOK
<1>2. /\ UNCHANGED <<staticFiles, loadedRoute, gate, kept, borrowed, torn, earlier, stages, faults>>
      /\ halted' = TRUE /\ halting' = TRUE /\ halts' \in 0..MaxHalts
      /\ task' = [task EXCEPT !.unchanged = Unlocked]
  BY StaticAssumption DEF MarkHalted, StaticTypeOK
<1>3. task' \in Tasks /\ HeldButUnchanged /\ (task = NoTask => task' = NoTask)
  <2>1. CASE task = NoTask
    <3>1. task' = [NoTask EXCEPT !.unchanged = TRUE] BY <1>2, <2>1 DEF Unlocked
    <3>2. task' = NoTask BY <3>1 DEF NoTask
    <3> QED BY <2>1, <3>2, NoTaskFields DEF HeldButUnchanged
  <2>2. CASE task # NoTask
    <3>1. task' = [task EXCEPT !.unchanged = FALSE] BY <1>2, <2>2 DEF Unlocked
    <3> QED BY <1>1, <2>2, <3>1 DEF Tasks, HeldButUnchanged
  <2> QED BY <2>1, <2>2
<1> USE DEF staticFiles, hostState, staticCounts
<1>11. StaticTypeOK'
  BY <1>2, <1>3 DEF StaticTypeOK
<1>12. InHand'
  <2>1. OfItsVerb' BY <1>3 DEF InHand, OfItsVerb, HeldButUnchanged, Owner
  <2>2. KeptWhole' BY <1>2 DEF InHand, KeptWhole
  <2>3. (task.verb # "none" /\ ~task.unchanged => halted)' BY <1>2
  <2>4. staticRecord' = staticRecord /\ trees' = trees /\ borrowed' = borrowed /\ stages' = stages
    BY <1>2
  <2>5. InHand /\ HeldButUnchanged BY <1>3
  <2> HIDE DEF staticFiles, hostState, staticCounts, StaticInv
  <2>6. OwnOperation' BY <2>4, <2>5 DEF InHand, HeldButUnchanged, OwnOperation, OwnFiles
  <2> QED
    BY <2>1, <2>2, <2>3, <2>4, <2>5, <2>6
    DEF InHand, HeldButUnchanged, Owner, Activating, ReadIt
<1>13. Installed'
  BY <1>2 DEF Installed
<1>14. ActivationInHand'
  BY <1>2, <1>3 DEF ActivationInHand, Activating, HeldButUnchanged
<1>15. RoutesLead'
  BY <1>2 DEF RoutesLead, Leads
<1>16. WholeAsAccepted'
  BY <1>2 DEF WholeAsAccepted, Owner, OwnFiles, ReadIt
<1>17. Withdrawal'
  BY <1>2, <1>3 DEF Withdrawal, HeldButUnchanged
<1>18. StaysWithdrawn'
  BY <1>2 DEF StaysWithdrawn, Stopped, ReadIt, Aborting
<1>19. RefusedRestores'
  BY <1>2 DEF RefusedRestores, Live, OwnFiles, ReadIt
<1> QED BY <1>11, <1>12, <1>13, <1>14, <1>15, <1>16, <1>17, <1>18, <1>19

(* An owner's command runs on a Host.                                      *)
LEMMA OwnerHostsAre == OwnerHosts \subseteq Hosts
BY StaticAssumption DEF StaticAssumption, Hosts

(* A stop has the locks, and its record in memory.                         *)
LEMMA HaltStaticOK ==
  ASSUME StaticInv, NEW h \in OwnerHosts, HaltStatic(h)
  PROVE  StaticInv'
<1> USE DEF StaticInv
<1>1. task \in Tasks /\ task.verb = "none" /\ staticRecord \in StaticRecords
  BY Typed, UnlockedIs DEF HaltStatic, NoneOr
<1>2. /\ UNCHANGED <<staticFiles, loadedRoute, gate, halted, kept, borrowed, torn, staticCounts>>
      /\ task' = [NoTask EXCEPT !.by = h, !.verb = "stop", !.pc = "withdraw", !.made = TRUE,
                                !.own = staticRecord]
      /\ halting' = FALSE /\ earlier' \in Earliers /\ earlier'.route = NoStatic
  BY ForgottenHolds DEF HaltStatic
<1>3. /\ task' \in Tasks /\ task'.verb = "stop" /\ task'.pc = "withdraw" /\ task'.own = staticRecord
      /\ task'.before = NoStatic /\ task'.route = NoStatic /\ task'.unchanged = TRUE
      /\ task'.made = TRUE
  BY <1>1, <1>2, NoTaskFields, NoneIsNone, OwnerHostsAre DEF Tasks, Verbs, Steps
<1>4. staticRecord # NoStatic BY <1>1, NoneIsNone
<1> USE DEF staticFiles, hostState, staticCounts
<1>11. StaticTypeOK'
  BY <1>2, <1>3 DEF StaticTypeOK, Earliers
<1>12. InHand'
  <2>2. KeptWhole' BY <1>2 DEF InHand, KeptWhole
  <2> QED BY <1>2, <1>3, <1>4, <2>2 DEF InHand, OfItsVerb, Owner, Activating, ReadIt, Prepared, Needed, OwnOperation, OwnFiles
<1>13. Installed'
  BY <1>2 DEF Installed
<1>14. ActivationInHand'
  BY <1>3 DEF ActivationInHand, Activating
<1>15. RoutesLead'
  BY <1>2, <1>3 DEF RoutesLead, Leads
<1>16. WholeAsAccepted'
  BY <1>2, <1>3, <1>4 DEF Owner, WholeAsAccepted, OwnFiles, ReadIt
<1>17. Withdrawal'
  BY <1>2, <1>3 DEF Withdrawal
<1>18. StaysWithdrawn'
  BY <1>3 DEF StaysWithdrawn, Activating, ReadIt, Aborting
<1>19. RefusedRestores'
  BY <1>2 DEF RefusedRestores, Live, OwnFiles, ReadIt
<1> QED BY <1>11, <1>12, <1>13, <1>14, <1>15, <1>16, <1>17, <1>18, <1>19

(* A stop without a serving record: containers alone served.               *)
LEMMA HaltContainersOK ==
  ASSUME StaticInv, HaltContainers
  PROVE  StaticInv'
<1> USE DEF StaticInv
<1>1. task.verb = "none" /\ staticRecord = NoStatic
  BY UnlockedIs DEF HaltContainers
<1>2. /\ UNCHANGED <<staticFiles, loadedRoute, halted, task, kept, borrowed, staticCounts>>
      /\ halting' = FALSE /\ gate' = NoStatic /\ torn' = FALSE
      /\ earlier' \in Earliers /\ earlier'.route = NoStatic
  BY ForgottenHolds DEF HaltContainers
<1>3. gate' \in NoneOr(StaticRevisions) BY <1>2, NoneIsNone
<1> USE DEF staticFiles, hostState, staticCounts
<1>11. StaticTypeOK'
  BY <1>2, <1>3 DEF StaticTypeOK, Earliers
<1>12. InHand' BY <1>2 DEF InHand, OfItsVerb, Owner, KeptWhole, ReadIt, Activating, OwnOperation, OwnFiles
<1>13. Installed'
  BY <1>2 DEF Installed
<1>14. ActivationInHand'
  BY <1>2 DEF ActivationInHand, Activating
<1>15. RoutesLead'
  BY <1>2 DEF RoutesLead, Leads
<1>16. WholeAsAccepted'
  BY <1>2 DEF WholeAsAccepted, Owner, OwnFiles, ReadIt
<1>17. Withdrawal'
  BY <1>2 DEF Withdrawal
<1>18. StaysWithdrawn'
  BY <1>1, <1>2 DEF StaysWithdrawn, Activating, ReadIt, Aborting
<1>19. RefusedRestores'
  BY <1>2 DEF RefusedRestores, Live, OwnFiles, ReadIt
<1> QED BY <1>11, <1>12, <1>13, <1>14, <1>15, <1>16, <1>17, <1>18, <1>19

(* A stop that is refused is torn: it promises nothing.                    *)
LEMMA HaltRefusedOK ==
  ASSUME StaticInv, HaltRefused
  PROVE  StaticInv'
<1> USE DEF StaticInv
<1>2. /\ UNCHANGED <<staticFiles, loadedRoute, gate, halted, task, kept, borrowed, earlier,
                     staticCounts>>
      /\ halting' = FALSE /\ torn' = TRUE
  BY DEF HaltRefused
<1> USE DEF staticFiles, hostState, staticCounts
<1>11. StaticTypeOK'
  BY <1>2 DEF StaticTypeOK
<1>12. InHand' BY <1>2 DEF InHand, OfItsVerb, Owner, KeptWhole, ReadIt, Activating, OwnOperation, OwnFiles
<1>13. Installed'
  BY <1>2 DEF Installed
<1>14. ActivationInHand'
  BY <1>2 DEF ActivationInHand, Activating
<1>15. RoutesLead'
  BY <1>2 DEF RoutesLead, Leads
<1>16. WholeAsAccepted'
  BY <1>2 DEF WholeAsAccepted, Owner, OwnFiles, ReadIt
<1>17. Withdrawal'
  BY <1>2 DEF Withdrawal
<1>18. StaysWithdrawn'
  BY <1>2 DEF StaysWithdrawn, Stopped, Aborting
<1>19. RefusedRestores'
  BY <1>2 DEF RefusedRestores, Live
<1> QED BY <1>11, <1>12, <1>13, <1>14, <1>15, <1>16, <1>17, <1>18, <1>19

(* A step of a stop fails ...                                              *)
LEMMA HaltDiesOK ==
  ASSUME StaticInv, HaltFails, task.verb = "stop", Leaves
  PROVE  StaticInv'
<1> USE DEF StaticInv
<1>6. /\ UNCHANGED <<staticFiles, loadedRoute, gate, halted, borrowed, earlier, stages, halts>>
      /\ task' = NoTask /\ torn' = TRUE /\ faults' \in 0..MaxFaults /\ halting' \in BOOLEAN
      /\ kept' \in [Hosts -> StaticOperations] /\ KeptWhole'
  BY FaultCounted, LeavesHolds DEF HaltFails, StaticTypeOK
<1>7. /\ task' = NoTask /\ task' \in Tasks /\ task'.verb = "none" /\ task'.pc = "idle"
      /\ task'.own = NoStatic /\ task'.route = NoStatic /\ task'.unchanged = TRUE
      /\ task'.made = FALSE
  BY <1>6, NoTaskFields
<1> USE DEF staticFiles, hostState, staticCounts
<1>11. StaticTypeOK'
  BY <1>6, <1>7 DEF StaticTypeOK
<1>12. InHand' BY <1>6, <1>7 DEF InHand, OfItsVerb, Owner, Prepared, Needed, ReadIt, Activating, OwnOperation, OwnFiles
<1>13. Installed'
  BY <1>6, <1>7 DEF Installed
<1>14. ActivationInHand'
  BY <1>7 DEF ActivationInHand, Activating
<1>15. RoutesLead'
  BY <1>6, <1>7 DEF RoutesLead, Leads
<1>16. WholeAsAccepted'
  BY <1>6, <1>7 DEF WholeAsAccepted, Owner, OwnFiles, ReadIt
<1>17. Withdrawal'
  BY <1>7 DEF Withdrawal
<1>18. StaysWithdrawn'
  BY <1>6 DEF StaysWithdrawn, Stopped, ReadIt, Aborting
<1>19. RefusedRestores'
  BY <1>6 DEF RefusedRestores, Live, OwnFiles, ReadIt
<1> QED BY <1>11, <1>12, <1>13, <1>14, <1>15, <1>16, <1>17, <1>18, <1>19

(* ... or the stop does not get the locks.                                 *)
LEMMA HaltGivesUpOK ==
  ASSUME StaticInv, HaltFails, UNCHANGED <<task, kept>>
  PROVE  StaticInv'
<1> USE DEF StaticInv
<1>2. /\ UNCHANGED <<staticFiles, loadedRoute, gate, halted, borrowed, earlier, stages, halts, task, kept>>
      /\ torn' = TRUE /\ faults' \in 0..MaxFaults /\ halting' \in BOOLEAN
  BY FaultCounted DEF HaltFails, StaticTypeOK
<1> USE DEF staticFiles, hostState, staticCounts
<1>11. StaticTypeOK'
  BY <1>2 DEF StaticTypeOK
<1>12. InHand'
  <2>1. task' = task /\ staticRecord' = staticRecord /\ trees' = trees /\ halted' = halted
        /\ kept' = kept /\ borrowed' = borrowed /\ stages' = stages
    BY <1>2
  <2> HIDE DEF staticFiles, hostState, staticCounts, StaticInv
  <2>2. InHand BY DEF StaticInv
  <2>3. HeldButUnchanged /\ task'.unchanged = task.unchanged /\ (task = NoTask => task' = NoTask)
    BY DEF HeldButUnchanged
  <2>4. OfItsVerb' BY <2>2 DEF InHand, OfItsVerb, Owner
  <2>5. staticRecord' = staticRecord /\ trees' = trees /\ halted' = halted BY <2>1
  <2> QED BY <2>1, <2>2, <2>4 DEF InHand, Owner, KeptWhole, ReadIt, Activating, OwnOperation, OwnFiles
<1>13. Installed'
  BY <1>2 DEF Installed
<1>14. ActivationInHand'
  BY <1>2 DEF ActivationInHand, Activating
<1>15. RoutesLead'
  BY <1>2 DEF RoutesLead, Leads
<1>16. WholeAsAccepted'
  BY <1>2 DEF WholeAsAccepted, Owner, OwnFiles, ReadIt
<1>17. Withdrawal'
  BY <1>2 DEF Withdrawal
<1>18. StaysWithdrawn'
  BY <1>2 DEF StaysWithdrawn, Stopped, ReadIt, Aborting
<1>19. RefusedRestores'
  BY <1>2 DEF RefusedRestores, Live, OwnFiles, ReadIt
<1> QED BY <1>11, <1>12, <1>13, <1>14, <1>15, <1>16, <1>17, <1>18, <1>19

(* The holder dies at any step.                                            *)
LEMMA StaticCrashOK ==
  ASSUME StaticInv, StaticCrash
  PROVE  StaticInv'
<1> USE DEF StaticInv
<1>6. /\ UNCHANGED <<staticFiles, loadedRoute, gate, halted, halting, borrowed, earlier, stages, halts>>
      /\ task' = NoTask /\ torn' = TRUE /\ faults' \in 0..MaxFaults
      /\ kept' \in {kept, NothingKept}
  BY FaultCounted DEF StaticCrash
<1>8. kept' \in [Hosts -> StaticOperations] /\ KeptWhole'
  BY <1>6, NothingKeptFields, Typed DEF InHand, KeptWhole
<1>7. /\ task' = NoTask /\ task' \in Tasks /\ task'.verb = "none" /\ task'.pc = "idle"
      /\ task'.own = NoStatic /\ task'.route = NoStatic /\ task'.unchanged = TRUE
      /\ task'.made = FALSE
  BY <1>6, NoTaskFields
<1> USE DEF staticFiles, hostState, staticCounts
<1>11. StaticTypeOK'
  BY <1>6, <1>7, <1>8 DEF StaticTypeOK
<1>12. InHand' BY <1>6, <1>7, <1>8 DEF InHand, OfItsVerb, Owner, Prepared, Needed, ReadIt, Activating, OwnOperation, OwnFiles
<1>13. Installed'
  BY <1>6, <1>7 DEF Installed
<1>14. ActivationInHand'
  BY <1>7 DEF ActivationInHand, Activating
<1>15. RoutesLead'
  BY <1>6, <1>7 DEF RoutesLead, Leads
<1>16. WholeAsAccepted'
  BY <1>6, <1>7 DEF WholeAsAccepted, Owner, OwnFiles, ReadIt
<1>17. Withdrawal'
  BY <1>7 DEF Withdrawal
<1>18. StaysWithdrawn'
  BY <1>6 DEF StaysWithdrawn, Stopped, ReadIt, Aborting
<1>19. RefusedRestores'
  BY <1>6 DEF RefusedRestores, Live, OwnFiles, ReadIt
<1> QED BY <1>11, <1>12, <1>13, <1>14, <1>15, <1>16, <1>17, <1>18, <1>19

(* A start or a restart begins.                                            *)
LEMMA StartStaticOK ==
  ASSUME StaticInv, NEW h \in OwnerHosts, NEW verb \in {"start", "restart"}, StartStatic(h, verb)
  PROVE  StaticInv'
<1> USE DEF StaticInv
<1>1. task.verb = "none" /\ staticRecord # NoStatic /\ (verb = "start" => halted)
      /\ staticRecord.revision \in StaticRevisions /\ h \in Hosts
  <2>1. staticRecord # NoStatic /\ staticRecord.revision = installed BY DEF StartStatic
  <2>2. installed \in StaticRevisions BY <2>1, Typed DEF Installed, NoneOr
  <2> QED BY <2>1, <2>2, UnlockedIs, OwnerHostsAre DEF StartStatic
<1>2. /\ UNCHANGED <<staticFiles, loadedRoute, gate, halted, halting, kept, borrowed, torn, earlier, staticCounts>>
      /\ verb = "restart" => ~halted
  BY DEF StartStatic, hostState
<1>3. /\ task' \in Tasks /\ task'.verb = verb /\ task'.pc = "prepare" /\ task'.made = FALSE
      /\ task'.own = kept[h].own /\ task'.route = kept[h].route /\ task'.unchanged = TRUE
  BY <1>1, BeginHolds DEF StartStatic, Verbs, Steps
<1> USE DEF staticFiles, hostState, staticCounts
<1>11. StaticTypeOK'
  BY <1>2, <1>3 DEF StaticTypeOK
<1>12. InHand'
  <2>2. KeptWhole' BY <1>2 DEF InHand, KeptWhole
  <2> QED
    BY <1>1, <1>2, <1>3, <2>2 DEF InHand, OfItsVerb, Activating, ReadIt, Prepared, Needed, KeptWhole, OwnOperation, OwnFiles
<1>13. Installed'
  BY <1>2, <1>3 DEF Installed
<1>14. ActivationInHand'
  BY <1>3 DEF ActivationInHand, Activating
<1>15. RoutesLead'
  BY <1>2, <1>3 DEF RoutesLead, Leads
<1>16. WholeAsAccepted'
  BY <1>2, <1>3 DEF WholeAsAccepted, OwnFiles, ReadIt
<1>17. Withdrawal'
  BY <1>3 DEF Withdrawal
<1>18. StaysWithdrawn'
  BY <1>1, <1>2, <1>3 DEF StaysWithdrawn, Stopped, Activating, ReadIt, Aborting
<1>19. RefusedRestores'
  BY <1>1, <1>2, <1>3 DEF RefusedRestores, Live, Untouched, Remembered, PutBackFirst, Back, OwnFiles, ReadIt
<1> QED BY <1>11, <1>12, <1>13, <1>14, <1>15, <1>16, <1>17, <1>18, <1>19

(* A restoration begins: nothing is queued, and there is a snapshot.       *)
LEMMA BeginRestoreOK ==
  ASSUME StaticInv, BeginRestore
  PROVE  StaticInv'
<1> USE DEF StaticInv
<1>1. task.verb = "none" /\ ~halted /\ ~queued /\ operation.phase \in Reconcilable
      /\ snapshot # NoStatic /\ operation.previous # NoStatic
  BY UnlockedIs DEF BeginRestore
<1>2. UNCHANGED <<staticFiles, loadedRoute, gate, halted, halting, kept, borrowed, torn, earlier, staticCounts>>
  BY DEF BeginRestore, hostState
<1>3. /\ task' \in Tasks /\ task'.verb = "restore" /\ task'.pc = "restore" /\ task'.made = FALSE
      /\ task'.own = kept["command"].own /\ task'.route = kept["command"].route
      /\ task'.unchanged = TRUE
  BY BeginHolds DEF BeginRestore, Verbs, Steps, Hosts
<1> USE DEF staticFiles, hostState, staticCounts
<1>11. StaticTypeOK'
  BY <1>2, <1>3 DEF StaticTypeOK
<1>12. InHand'
  <2>2. KeptWhole' BY <1>2 DEF InHand, KeptWhole
  <2> QED
    BY <1>2, <1>3, <2>2
    DEF InHand, OfItsVerb, Owner, Activating, ReadIt, Prepared, Needed, KeptWhole, Hosts, OwnOperation, OwnFiles
<1>13. Installed'
  BY <1>1, <1>2 DEF Installed
<1>14. ActivationInHand'
  BY <1>3 DEF ActivationInHand, Activating
<1>15. RoutesLead'
  BY <1>2, <1>3 DEF RoutesLead, Leads
<1>16. WholeAsAccepted'
  BY <1>2, <1>3 DEF WholeAsAccepted, OwnFiles, ReadIt
<1>17. Withdrawal'
  BY <1>3 DEF Withdrawal
<1>18. StaysWithdrawn'
  BY <1>1, <1>2 DEF StaysWithdrawn, Stopped, ReadIt, Aborting
<1>19. RefusedRestores'
  BY <1>3 DEF RefusedRestores, Untouched, Remembered, PutBackFirst, Activating, OwnFiles, ReadIt
<1> QED BY <1>11, <1>12, <1>13, <1>14, <1>15, <1>16, <1>17, <1>18, <1>19

(* A start clears the stop record; a restart found none, and none came.    *)
LEMMA ConfirmEndsOK ==
  ASSUME StaticInv, Confirm, ~Overtaken
  PROVE  StaticInv'
<1> USE DEF StaticInv
<1>1. task \in Tasks /\ task.pc = "confirm" BY DEF StaticTypeOK, Confirm
<1>2. task.verb \in {"start", "restart"} /\ staticRecord # NoStatic
  BY <1>1, <1>1 DEF InHand, OfItsVerb, Owner, Tasks, Verbs
<1>6. /\ UNCHANGED <<staticFiles, loadedRoute, gate, halting, borrowed, torn, staticCounts>>
      /\ task' = NoTask /\ halted' = (halted /\ task.verb # "start")
      /\ earlier' \in Earliers /\ earlier'.route = NoStatic
      /\ kept' \in [Hosts -> StaticOperations] /\ KeptWhole'
  BY ForgottenHolds, LeavesHolds DEF Confirm
<1>7. /\ task' = NoTask /\ task' \in Tasks /\ task'.verb = "none" /\ task'.pc = "idle"
      /\ task'.own = NoStatic /\ task'.route = NoStatic /\ task'.unchanged = TRUE
      /\ task'.made = FALSE
  BY <1>6, NoTaskFields
<1>8. halted' \in BOOLEAN /\ (halted' => halted /\ task.verb = "restart")
  BY <1>2, <1>6
<1> USE DEF staticFiles, hostState, staticCounts
<1>11. StaticTypeOK'
  BY <1>6, <1>7 DEF StaticTypeOK, Earliers
<1>12. InHand' BY <1>6, <1>7 DEF InHand, OfItsVerb, Owner, Prepared, Needed, ReadIt, Activating, OwnOperation, OwnFiles
<1>13. Installed'
  BY <1>6, <1>7 DEF Installed
<1>14. ActivationInHand'
  BY <1>7 DEF ActivationInHand, Activating
<1>15. RoutesLead'
  BY <1>6, <1>7 DEF RoutesLead, Leads
<1>16. WholeAsAccepted'
  BY <1>6, <1>7 DEF WholeAsAccepted, Owner, OwnFiles, ReadIt
<1>17. Withdrawal'
  BY <1>7 DEF Withdrawal
<1>18. StaysWithdrawn'
  BY <1>6, <1>8 DEF StaysWithdrawn, Stopped, ReadIt, Aborting
<1>19. RefusedRestores'
  BY <1>6 DEF RefusedRestores, Live, OwnFiles, ReadIt
<1> QED BY <1>11, <1>12, <1>13, <1>14, <1>15, <1>16, <1>17, <1>18, <1>19

(* A stop came meanwhile: what was put into service is taken back.         *)
LEMMA ConfirmLosesOK ==
  ASSUME StaticInv, Confirm, Overtaken
  PROVE  StaticInv'
<1> USE DEF StaticInv
<1>1. task \in Tasks BY DEF StaticTypeOK
<1>2. /\ Move("confirm", "put back")
      /\ UNCHANGED <<staticFiles, loadedRoute, gate, halted, halting, kept, borrowed, torn, earlier, staticCounts>>
  BY DEF Confirm
<1>3. task' \in Tasks /\ Held /\ task.pc = "confirm" /\ task'.pc = "put back"
  BY <1>1, <1>2, MoveHolds DEF Steps
<1>4. task.verb \in {"start", "restart"}
  BY <1>1, <1>3 DEF InHand, OfItsVerb, Tasks, Verbs
<1>5. halted /\ task.route # NoStatic /\ ~Activating
  BY <1>3, <1>4 DEF InHand, Overtaken, Owner, Activating, ReadIt
<1> USE DEF staticFiles, hostState, staticCounts
<1>11. StaticTypeOK'
  BY <1>2, <1>3 DEF StaticTypeOK
<1>12. InHand'
  <2>1. OfItsVerb' BY <1>3 DEF InHand, OfItsVerb, Held
  <2>2. KeptWhole' BY <1>2 DEF InHand, KeptWhole
  <2> QED
    BY <2>1, <2>2, <1>2, <1>3 DEF InHand, Held, Owner, Activating, ReadIt, Prepared, Needed, OwnOperation, OwnFiles
<1>13. Installed'
  BY <1>2, <1>3 DEF Installed, Held
<1>14. ActivationInHand'
  BY <1>3, <1>5 DEF ActivationInHand, Activating, Held
<1>15. RoutesLead'
  BY <1>2, <1>3 DEF RoutesLead, Leads, Held
<1>16. WholeAsAccepted'
  BY <1>2, <1>3 DEF WholeAsAccepted, Held, Owner, OwnFiles, ReadIt
<1>17. Withdrawal'
  BY <1>3 DEF Withdrawal, Held, InHand, OfItsVerb
<1>18. StaysWithdrawn'
  BY <1>2, <1>3 DEF StaysWithdrawn, Held, Stopped, Activating, Owner, InHand, ReadIt, Aborting
<1>19. RefusedRestores'
  BY <1>2, <1>5 DEF RefusedRestores, Live, OwnFiles, ReadIt
<1> QED BY <1>11, <1>12, <1>13, <1>14, <1>15, <1>16, <1>17, <1>18, <1>19

(* The route and the installed revision of before are restored, both of    *)
(* which are there.                                                        *)
LEMMA RestoreFilesOK ==
  ASSUME StaticInv, RestoreFiles
  PROVE  StaticInv'
<1> USE DEF StaticInv
<1>1. task \in Tasks BY DEF StaticTypeOK
<1>2. /\ UNCHANGED <<operation, queued, snapshot, routePrev, staticRecord, retention, trees, hostState>>
      /\ routeFile' = snapshot.route /\ installed' = snapshot.revision
      /\ Move("restore", "close")
  BY DEF RestoreFiles
<1>3. task' \in Tasks /\ Held /\ task.pc = "restore" /\ task'.pc = "close"
  BY <1>1, <1>2, MoveHolds DEF Steps
<1>4. task.verb = "restore"
  BY <1>1, <1>3 DEF InHand, OfItsVerb, Owner, Tasks, Verbs
<1>5. /\ snapshot # NoStatic /\ operation.phase \in Reconcilable /\ operation.phase \notin Accepted
      /\ ~queued /\ snapshot.revision # NoStatic /\ snapshot.route # NoStatic
  BY <1>4 DEF Installed, Reconcilable, Fence, Accepted
<1>6. routeFile' \in NoneOr(Routes) /\ installed' \in NoneOr(StaticRevisions)
  BY <1>2, <1>5 DEF StaticTypeOK, NoneOr
<1> USE DEF staticFiles, hostState, staticCounts
<1>11. StaticTypeOK'
  BY <1>2, <1>3, <1>6 DEF StaticTypeOK
<1>12. InHand'
  <2>1. OfItsVerb' BY <1>3 DEF InHand, OfItsVerb, Held, Owner
  <2>2. KeptWhole' BY <1>2 DEF InHand, KeptWhole
  <2> QED
    BY <2>1, <2>2, <1>2, <1>3 DEF InHand, Held, Owner, Activating, ReadIt, Prepared, Needed, OwnOperation, OwnFiles
<1>13. Installed'
  BY <1>2, <1>5 DEF Installed
<1>14. ActivationInHand'
  BY <1>3, <1>4 DEF ActivationInHand, Activating, Held
<1>15. RoutesLead'
  BY <1>2, <1>3, <1>5 DEF RoutesLead, Leads, Held
<1>16. WholeAsAccepted'
  BY <1>2, <1>5 DEF WholeAsAccepted, OwnFiles, ReadIt
<1>17. Withdrawal'
  BY <1>3, <1>4 DEF Withdrawal, Held
<1>18. StaysWithdrawn'
  BY <1>2, <1>4 DEF StaysWithdrawn, Stopped, ReadIt, Aborting
<1>19. RefusedRestores'
  BY <1>3, <1>4 DEF RefusedRestores, Held, Untouched, Remembered, PutBackFirst, Activating, OwnFiles, ReadIt
<1> QED BY <1>11, <1>12, <1>13, <1>14, <1>15, <1>16, <1>17, <1>18, <1>19

(* The restoration ends: reconciled, or found stopped.                     *)
LEMMA CloseRestoreOK ==
  ASSUME StaticInv, CloseRestore
  PROVE  StaticInv'
<1> USE DEF StaticInv
<1>1. task \in Tasks /\ task.pc = "close" BY DEF StaticTypeOK, CloseRestore
<1>2. task.verb = "restore"
  BY <1>1 DEF InHand, OfItsVerb, Owner, Tasks, Verbs
<1>3. operation.phase \in Reconcilable /\ operation.phase \notin Accepted /\ ~queued
  BY <1>2 DEF Installed, Reconcilable, Fence, Accepted
<1>4. \/ operation' = operation /\ halted
      \/ operation' = [operation EXCEPT !.phase = "reconciled"]
  BY <1>2 DEF CloseRestore, InHand
<1>5. /\ operation' \in Operations /\ SameOperation /\ operation'.phase \notin Accepted
      /\ operation'.phase \in Open => halted
  BY <1>3, <1>4, Spoken, Typed, PhaseHolds DEF SameOperation, Accepted, Open
<1>6. /\ UNCHANGED <<queued, installed, snapshot, routeFile, routePrev, staticRecord, retention,
                     trees, halted, halting, kept, borrowed, torn, earlier, staticCounts>>
      /\ loadedRoute' = routeFile /\ task' = NoTask
  BY DEF CloseRestore, Load
<1>7. /\ task' = NoTask /\ task' \in Tasks /\ task'.verb = "none" /\ task'.pc = "idle"
      /\ task'.own = NoStatic /\ task'.route = NoStatic /\ task'.unchanged = TRUE
      /\ task'.made = FALSE
  BY <1>6, NoTaskFields
<1>8. gate' \in NoneOr(StaticRevisions)
  BY NoneIsNone DEF CloseRestore, StaticTypeOK
<1> USE DEF staticFiles, hostState, staticCounts
<1>11. StaticTypeOK'
  BY <1>5, <1>6, <1>7, <1>8 DEF StaticTypeOK, Operations
<1>12. InHand'
  <2>2. KeptWhole' BY <1>6 DEF InHand, KeptWhole
  <2> QED BY <2>2, <1>6, <1>7 DEF InHand, OfItsVerb, Owner, Prepared, Needed, ReadIt, Activating, OwnOperation, OwnFiles
<1>13. Installed'
  BY <1>5, <1>6, <1>7 DEF Installed, SameOperation
<1>14. ActivationInHand'
  BY <1>7 DEF ActivationInHand, Activating
<1>15. RoutesLead'
  BY <1>3, <1>6, <1>7 DEF RoutesLead, Leads
<1>16. WholeAsAccepted'
  BY <1>5 DEF WholeAsAccepted, OwnFiles, ReadIt
<1>17. Withdrawal'
  BY <1>7 DEF Withdrawal
<1>18. StaysWithdrawn'
  BY <1>2, <1>6 DEF StaysWithdrawn, Stopped, ReadIt, Aborting
<1>19. RefusedRestores'
  BY <1>5, <1>6 DEF RefusedRestores, Live, OwnFiles, ReadIt
<1> QED BY <1>11, <1>12, <1>13, <1>14, <1>15, <1>16, <1>17, <1>18, <1>19

(* A request that is not taken up leaves the queue ...                     *)
LEMMA TakeUpRefusesOK ==
  ASSUME StaticInv, TakeUp, UNCHANGED task
  PROVE  StaticInv'
<1> USE DEF StaticInv
<1>6. /\ UNCHANGED <<operation, installed, routeFile, routePrev, staticRecord, retention, trees,
                     loadedRoute, gate, halted, halting, kept, borrowed, torn, earlier, staticCounts>>
      /\ queued' \in BOOLEAN /\ (queued' => queued)
      /\ snapshot' \in {NoStatic, snapshot} /\ task' = NoTask
  BY DEF TakeUp, Unlocked
<1>7. /\ task' = NoTask /\ task' \in Tasks /\ task'.verb = "none" /\ task'.pc = "idle"
      /\ task'.own = NoStatic /\ task'.route = NoStatic /\ task'.unchanged = TRUE
      /\ task'.made = FALSE
  BY <1>6, NoTaskFields
<1>8. snapshot' \in NoneOr([route : NoneOr(Routes), revision : NoneOr(StaticRevisions)])
  BY <1>6 DEF StaticTypeOK, NoneOr
<1> USE DEF staticFiles, hostState, staticCounts
<1>11. StaticTypeOK'
  BY <1>6, <1>8 DEF StaticTypeOK
<1>12. InHand'
  <2>2. KeptWhole' BY <1>6 DEF InHand, KeptWhole
  <2> QED BY <2>2, <1>6, <1>7 DEF InHand, OfItsVerb, Owner, Prepared, Needed, ReadIt, Activating, OwnOperation, OwnFiles
<1>13. Installed'
  BY <1>6, <1>7 DEF Installed
<1>14. ActivationInHand'
  BY <1>7 DEF ActivationInHand, Activating
<1>15. RoutesLead'
  BY <1>6 DEF RoutesLead, Leads
<1>16. WholeAsAccepted'
  BY <1>6 DEF WholeAsAccepted, Owner, OwnFiles, ReadIt
<1>17. Withdrawal'
  BY <1>7 DEF Withdrawal
<1>18. StaysWithdrawn'
  BY <1>6 DEF StaysWithdrawn, Stopped, Activating, ReadIt, Aborting
<1>19. RefusedRestores'
  BY <1>6 DEF RefusedRestores, Live, Untouched, Remembered, PutBackFirst, Activating, Back, OwnFiles, ReadIt
<1> QED BY <1>11, <1>12, <1>13, <1>14, <1>15, <1>16, <1>17, <1>18, <1>19

(* ... and one that is, is configured, with its route in place.            *)
LEMMA TakeUpBeginsOK ==
  ASSUME StaticInv, TakeUp, task' # task
  PROVE  StaticInv'
<1> USE DEF StaticInv
<1>1. /\ task.verb = "none" /\ operation.phase = "configured" /\ routeFile = Gate(operation.candidate)
      /\ queued = TRUE /\ operation.phase \notin Accepted
  BY UnlockedIs DEF TakeUp, Accepted
<1>2. UNCHANGED <<staticFiles, loadedRoute, gate, halted, halting, kept, borrowed, torn, earlier, staticCounts>>
  BY <1>1 DEF TakeUp, staticFiles
<1>3. /\ task' \in Tasks /\ task'.verb = "activate" /\ task'.pc = "look" /\ task'.made = FALSE
      /\ task'.own = kept["worker"].own /\ task'.route = kept["worker"].route
      /\ task'.unchanged = TRUE
  BY BeginHolds DEF TakeUp, Verbs, Steps, Hosts
<1>4. /\ operation.candidate \in StaticRevisions /\ routeFile # NoStatic
      /\ routeFile.revision = operation.candidate /\ routeFile.kind = "gate"
  BY <1>1, RouteFields, NoneIsNone, OwnContents DEF Installed
<1> USE DEF staticFiles, hostState, staticCounts
<1>11. StaticTypeOK'
  BY <1>2, <1>3 DEF StaticTypeOK
<1>12. InHand'
  <2>2. KeptWhole' BY <1>2 DEF InHand, KeptWhole
  <2> QED
    BY <1>2, <1>3, <2>2
    DEF InHand, OfItsVerb, Owner, Activating, ReadIt, Prepared, Needed, KeptWhole, Hosts, Steps, OwnOperation, OwnFiles
<1>13. Installed'
  BY <1>2, <1>3 DEF Installed
<1>14. ActivationInHand'
  BY <1>1, <1>2, <1>3, <1>4 DEF ActivationInHand, Accepting, Ongoing, Accepting
<1>15. RoutesLead'
  BY <1>2, <1>3 DEF RoutesLead, Leads
<1>16. WholeAsAccepted'
  BY <1>2, <1>3 DEF WholeAsAccepted, OwnFiles, ReadIt
<1>17. Withdrawal'
  BY <1>3 DEF Withdrawal
<1>18. StaysWithdrawn'
  BY <1>1, <1>2, <1>3, <1>4 DEF StaysWithdrawn, NotTree, Stopped, Accepting, ReadIt, Aborting
<1>19. RefusedRestores'
  BY <1>1, <1>2, <1>3 DEF RefusedRestores, Live, Untouched, Remembered, PutBackFirst, Back, OwnFiles, ReadIt
<1> QED BY <1>11, <1>12, <1>13, <1>14, <1>15, <1>16, <1>17, <1>18, <1>19

(* A reload by another application loads what is on disk.                  *)
LEMMA ReloadByOtherOK ==
  ASSUME StaticInv, ReloadByOther
  PROVE  StaticInv'
<1> USE DEF StaticInv
<1>2. /\ UNCHANGED <<staticFiles, gate, halted, halting, task, kept, borrowed, torn, earlier, staticCounts>>
      /\ loadedRoute' = routeFile
  BY DEF ReloadByOther, Load
<1> USE DEF staticFiles, hostState, staticCounts
<1>11. StaticTypeOK'
  BY <1>2 DEF StaticTypeOK
<1>12. InHand' BY <1>2 DEF InHand, OfItsVerb, Owner, KeptWhole, ReadIt, Activating, OwnOperation, OwnFiles
<1>13. Installed'
  BY <1>2 DEF Installed
<1>14. ActivationInHand'
  BY <1>2 DEF ActivationInHand, Activating
<1>15. RoutesLead'
  BY <1>2 DEF RoutesLead, Leads
<1>16. WholeAsAccepted'
  BY <1>2 DEF WholeAsAccepted, Owner, OwnFiles, ReadIt
<1>17. Withdrawal'
  BY <1>2 DEF Withdrawal
<1>18. StaysWithdrawn'
  BY <1>2 DEF StaysWithdrawn, Stopped, Activating, ReadIt, Aborting
<1>19. RefusedRestores'
  BY <1>2 DEF RefusedRestores, Live, Untouched, Remembered, PutBackFirst, Activating, Back, OwnFiles, ReadIt
<1> QED BY <1>11, <1>12, <1>13, <1>14, <1>15, <1>16, <1>17, <1>18, <1>19

(* A Host serves another application, and keeps that one's operation ...   *)
LEMMA ServeOtherOK ==
  ASSUME StaticInv, NEW h \in Hosts, ServeOther(h)
  PROVE  StaticInv'
<1> USE DEF StaticInv
<1>1. Foreign \in StaticOperations /\ Foreign.own # NoStatic
  <2>1. Elsewhere \in Contents BY DEF Contents
  <2>2. /\ Gate(Elsewhere) \in Routes
        /\ [revision |-> Elsewhere, active |-> TRUE, disabled |-> Gate(Elsewhere)] \in StaticRecords
    BY <2>1, RouteFields DEF StaticRecords
  <2>3. [NothingRetained EXCEPT !.current = Elsewhere] \in Retentions
    BY <2>1, NoneIsNone, StaticAssumption
    DEF NothingRetained, Retentions, NoneOr, StaticAssumption, Contents
  <2> QED BY <2>2, <2>3, NoneIsNone DEF Foreign, StaticOperations
<1>2. /\ UNCHANGED <<staticFiles, loadedRoute, gate, halted, halting, task, borrowed, torn,
                     earlier, staticCounts>>
      /\ kept' = [kept EXCEPT ![h] = Foreign]
  BY DEF ServeOther
<1>3. kept' \in [Hosts -> StaticOperations] /\ KeptWhole'
  BY <1>1, <1>2, Typed DEF InHand, KeptWhole
<1> USE DEF staticFiles, hostState, staticCounts
<1>11. StaticTypeOK'
  BY <1>2, <1>3 DEF StaticTypeOK
<1>12. InHand' BY <1>2, <1>3 DEF InHand, OfItsVerb, Owner, ReadIt, Activating, OwnOperation, OwnFiles
<1>13. Installed'
  BY <1>2 DEF Installed
<1>14. ActivationInHand'
  BY <1>2 DEF ActivationInHand, Activating
<1>15. RoutesLead'
  BY <1>2 DEF RoutesLead, Leads
<1>16. WholeAsAccepted'
  BY <1>2 DEF WholeAsAccepted, Owner, OwnFiles, ReadIt
<1>17. Withdrawal'
  BY <1>2 DEF Withdrawal
<1>18. StaysWithdrawn'
  BY <1>2 DEF StaysWithdrawn, Stopped, Activating, ReadIt, Aborting
<1>19. RefusedRestores'
  BY <1>2
  DEF RefusedRestores, Live, Untouched, Remembered, PutBackFirst, Activating, Back, OwnFiles, ReadIt
<1> QED BY <1>11, <1>12, <1>13, <1>14, <1>15, <1>16, <1>17, <1>18, <1>19

(* ... until the daemon starts again.                                      *)
LEMMA DaemonRestartsOK ==
  ASSUME StaticInv, DaemonRestarts
  PROVE  StaticInv'
<1> USE DEF StaticInv
<1>2. /\ UNCHANGED <<staticFiles, loadedRoute, gate, halted, halting, task, borrowed, torn,
                     earlier, staticCounts>>
      /\ kept' = NothingKept
  BY DEF DaemonRestarts
<1>3. kept' \in [Hosts -> StaticOperations] /\ KeptWhole'
  BY <1>2, NothingKeptFields DEF KeptWhole
<1> USE DEF staticFiles, hostState, staticCounts
<1>11. StaticTypeOK'
  BY <1>2, <1>3 DEF StaticTypeOK
<1>12. InHand' BY <1>2, <1>3 DEF InHand, OfItsVerb, Owner, ReadIt, Activating, OwnOperation, OwnFiles
<1>13. Installed'
  BY <1>2 DEF Installed
<1>14. ActivationInHand'
  BY <1>2 DEF ActivationInHand, Activating
<1>15. RoutesLead'
  BY <1>2 DEF RoutesLead, Leads
<1>16. WholeAsAccepted'
  BY <1>2 DEF WholeAsAccepted, Owner, OwnFiles, ReadIt
<1>17. Withdrawal'
  BY <1>2 DEF Withdrawal
<1>18. StaysWithdrawn'
  BY <1>2 DEF StaysWithdrawn, Stopped, Activating, ReadIt, Aborting
<1>19. RefusedRestores'
  BY <1>2
  DEF RefusedRestores, Live, Untouched, Remembered, PutBackFirst, Activating, Back, OwnFiles, ReadIt
<1> QED BY <1>11, <1>12, <1>13, <1>14, <1>15, <1>16, <1>17, <1>18, <1>19

(* A deployment is staged: what is there is remembered before it is        *)
(* replaced.                                                               *)
LEMMA StageStaticOK ==
  ASSUME StaticInv, NEW c \in StaticRevisions, StageStatic(c)
  PROVE  StaticInv'
<1> USE DEF StaticInv
<1>1. task.verb = "none" BY UnlockedIs DEF StageStatic
<1>2. /\ queued' = TRUE /\ installed' = c /\ routePrev' = routeFile /\ routeFile' = Gate(c)
      /\ stages' \in 0..MaxStages
      /\ snapshot' = [route |-> routeFile, revision |-> installed]
  BY StaticAssumption DEF StageStatic, StaticTypeOK
<1>3. /\ operation' \in Operations /\ operation'.phase = "configured" /\ operation'.candidate = c
      /\ operation'.previous = installed
  BY Spoken, Typed, NoneIsNone DEF StageStatic, Operations
<1>4. /\ earlier' \in Earliers /\ earlier'.route = routeFile /\ earlier'.record = staticRecord
      /\ earlier'.retained = retention
  BY Typed DEF StageStatic, Earliers
<1>5. /\ Gate(c) \in Routes /\ Gate(c).kind = "gate" /\ Gate(c) # NoStatic /\ c # NoStatic
  BY RouteFields, NoneIsNone, OwnContents
<1>6. /\ UNCHANGED <<staticRecord, retention, trees, loadedRoute, gate, halted, halting, kept,
                     borrowed, torn, halts, faults>>
      /\ task' = NoTask
  BY DEF StageStatic, Unlocked
<1>7. /\ task' = NoTask /\ task' \in Tasks /\ task'.verb = "none" /\ task'.pc = "idle"
      /\ task'.own = NoStatic /\ task'.route = NoStatic /\ task'.unchanged = TRUE
      /\ task'.made = FALSE
  BY <1>6, NoTaskFields
<1>8. /\ snapshot'.route = routeFile /\ snapshot'.revision = installed
      /\ snapshot' \in NoneOr([route : NoneOr(Routes), revision : NoneOr(StaticRevisions)])
  BY <1>2, Typed DEF NoneOr
<1>9. operation'.phase \notin Accepted BY <1>3 DEF Accepted
<1>10. borrowed \in 0..(MaxStages + 1) /\ stages' = stages + 1 /\ stages \in Nat
  BY StaticAssumption DEF StageStatic, StaticTypeOK
<1> USE DEF staticFiles, hostState, staticCounts
<1>11. StaticTypeOK'
  BY <1>2, <1>3, <1>4, <1>5, <1>6, <1>7, <1>8, NoneIsNone DEF StaticTypeOK, Operations, Earliers
<1>12. InHand'
  <2>2. KeptWhole' BY <1>6 DEF InHand, KeptWhole
  <2> QED BY <2>2, <1>6, <1>7 DEF InHand, OfItsVerb, Owner, Prepared, Needed, ReadIt, Activating, OwnOperation, OwnFiles
<1>13. Installed'
  BY <1>2, <1>3, <1>5, <1>7 DEF Installed
<1>14. ActivationInHand'
  BY <1>7 DEF ActivationInHand, Activating
<1>15. RoutesLead'
  BY <1>2, <1>5, <1>6, <1>7 DEF RoutesLead, Leads
<1>16. WholeAsAccepted'
  BY <1>9 DEF WholeAsAccepted, OwnFiles, ReadIt
<1>17. Withdrawal'
  BY <1>7 DEF Withdrawal
<1>18. StaysWithdrawn'
  BY <1>1, <1>2, <1>5, <1>6 DEF StaysWithdrawn, NotTree, Stopped, Activating, InHand, OfItsVerb, ReadIt, Aborting
<1>19. RefusedRestores'
  BY <1>2, <1>3, <1>4, <1>6, <1>7
  DEF RefusedRestores, Live, Untouched, Remembered, PutBackFirst, Activating, Back, OwnFiles, ReadIt
<1> QED BY <1>11, <1>12, <1>13, <1>14, <1>15, <1>16, <1>17, <1>18, <1>19
------------------------------------------------------------------------------
(* An application never deployed, deployed with containers, or served from *)
(* its tree.                                                               *)
LEMMA InitOK == StaticInit => StaticInv
<1> SUFFICES ASSUME StaticInit PROVE StaticInv OBVIOUS
<1>1. PICK r \in NoneOr(StaticRevisions), served \in BOOLEAN :
        /\ served => r # NoStatic
        /\ operation = IF r = NoStatic
                         THEN [phase |-> "none", candidate |-> NoStatic, previous |-> NoStatic]
                         ELSE [phase |-> "ready", candidate |-> r, previous |-> NoStatic]
        /\ installed = r /\ gate = (IF served THEN NoStatic ELSE r) /\ snapshot = NoStatic
        /\ routeFile = (IF r = NoStatic THEN NoStatic ELSE IF served THEN Tree(r) ELSE Gate(r))
        /\ routePrev = NoStatic /\ loadedRoute = routeFile
        /\ retention = [NothingRetained EXCEPT !.current = r]
        /\ staticRecord = (IF served THEN [revision |-> r, active |-> TRUE, disabled |-> Gate(r)]
                                    ELSE NoStatic)
        /\ trees = IF served THEN {r} ELSE {}
        /\ queued = FALSE /\ halted = FALSE /\ halting = FALSE
        /\ task = NoTask /\ kept = NothingKept /\ borrowed = 0 /\ torn = FALSE
        /\ earlier = [route |-> routeFile, record |-> staticRecord, retained |-> retention]
        /\ stages = 0 /\ halts = 0 /\ faults = 0
  BY DEF StaticInit
<1>2. /\ task \in Tasks /\ task.verb = "none" /\ task.pc = "idle" /\ task.own = NoStatic
      /\ task.route = NoStatic /\ task.unchanged = TRUE /\ task = NoTask /\ task.made = FALSE
      /\ kept \in [Hosts -> StaticOperations] /\ KeptWhole
  BY <1>1, NoTaskFields, NothingKeptFields DEF KeptWhole
<1>3. /\ operation \in Operations /\ operation.phase \in {"none", "ready"}
      /\ installed # NoStatic => operation.candidate = installed
      /\ installed = NoStatic => operation.phase = "none"
  BY <1>1, Spoken, NoneIsNone DEF Operations
<1>4. /\ routeFile \in NoneOr(Routes) /\ Leads(routeFile)
      /\ installed # NoStatic => routeFile # NoStatic /\ routeFile.revision = installed
  BY <1>1, RouteFields, NoneIsNone, OwnContents DEF NoneOr, Leads
<1>5. retention \in Retentions
  BY <1>1, OwnContents DEF Retentions, NothingRetained, NoneOr
<1>10. /\ staticRecord \in NoneOr(StaticRecords)
       /\ staticRecord # NoStatic => installed # NoStatic /\ Of(staticRecord, installed)
  <2>1. CASE served
    <3>1. r \in StaticRevisions BY <1>1, <2>1 DEF NoneOr
    <3>2. staticRecord = [revision |-> r, active |-> TRUE, disabled |-> Gate(r)] BY <1>1, <2>1
    <3>3. staticRecord \in StaticRecords BY <3>1, <3>2, OwnContents, RouteFields DEF StaticRecords
    <3> QED BY <1>1, <3>1, <3>2, <3>3, NoneIsNone DEF Of
  <2>2. CASE ~served BY <1>1, <2>2, NoneIsNone
  <2> QED BY <2>1, <2>2
<1>6. earlier \in Earliers BY <1>1, <1>4, <1>5, <1>10 DEF Earliers
<1>7. /\ {routeFile, routePrev, loadedRoute} \subseteq NoneOr(Routes)
      /\ installed \in NoneOr(StaticRevisions) /\ gate \in NoneOr(StaticRevisions)
      /\ snapshot = NoStatic /\ trees \subseteq StaticRevisions
  BY <1>1, <1>4, NoneIsNone DEF NoneOr
<1>8. /\ queued \in BOOLEAN /\ halted \in BOOLEAN /\ halting \in BOOLEAN /\ torn \in BOOLEAN
      /\ stages \in 0..MaxStages /\ halts \in 0..MaxHalts /\ faults \in 0..MaxFaults
      /\ borrowed \in 0..(MaxStages + 1)
  <2>1. queued = FALSE /\ halted = FALSE /\ halting = FALSE /\ torn = FALSE BY <1>1
  <2>2. stages = 0 /\ halts = 0 /\ faults = 0 /\ borrowed = 0 BY <1>1
  <2>3. /\ stages \in 0..MaxStages /\ halts \in 0..MaxHalts /\ faults \in 0..MaxFaults
        /\ borrowed \in 0..(MaxStages + 1)
    BY <2>2, StaticAssumption
  <2> QED BY <2>1, <2>3
<1>9. snapshot \in NoneOr([route : NoneOr(Routes), revision : NoneOr(StaticRevisions)])
  BY <1>7 DEF NoneOr
<1>11. StaticTypeOK
  BY <1>2, <1>3, <1>5, <1>6, <1>7, <1>8, <1>9, <1>10 DEF StaticTypeOK, Operations, Earliers
<1>12. InHand
  BY <1>1, <1>2 DEF InHand, OfItsVerb, Owner, Prepared, Needed, ReadIt, Activating, OwnOperation, OwnFiles
<1>13. Installed BY <1>1, <1>2, <1>4, <1>10 DEF Installed
<1>14. ActivationInHand BY <1>2 DEF ActivationInHand, Activating
<1>15. RoutesLead BY <1>1, <1>2, <1>4 DEF RoutesLead, Leads
<1>16. WholeAsAccepted
  BY <1>1, <1>2, <1>3, <1>4, <1>10 DEF WholeAsAccepted, Owner, Accepted
<1>17. Withdrawal BY <1>2 DEF Withdrawal
<1>18. StaysWithdrawn BY <1>1 DEF StaysWithdrawn, Stopped
<1>19. RefusedRestores BY <1>3 DEF RefusedRestores, Open
<1> QED BY <1>11, <1>12, <1>13, <1>14, <1>15, <1>16, <1>17, <1>18, <1>19 DEF StaticInv

(* What no variable changes in.                                            *)
LEMMA StutterOK ==
  ASSUME StaticInv, UNCHANGED staticVars
  PROVE  StaticInv'
<1> USE DEF StaticInv
<1>2. UNCHANGED <<staticFiles, loadedRoute, gate, halted, halting, task, kept, borrowed, torn,
                  earlier, staticCounts>>
  BY DEF staticVars
<1> USE DEF staticFiles, hostState, staticCounts
<1>11. StaticTypeOK'
  BY <1>2 DEF StaticTypeOK
<1>12. InHand' BY <1>2 DEF InHand, OfItsVerb, Owner, KeptWhole, ReadIt, Activating, OwnOperation, OwnFiles
<1>13. Installed'
  BY <1>2 DEF Installed
<1>14. ActivationInHand'
  BY <1>2 DEF ActivationInHand, Activating
<1>15. RoutesLead'
  BY <1>2 DEF RoutesLead, Leads
<1>16. WholeAsAccepted'
  BY <1>2 DEF WholeAsAccepted, Owner, OwnFiles, ReadIt
<1>17. Withdrawal'
  BY <1>2 DEF Withdrawal
<1>18. StaysWithdrawn'
  BY <1>2 DEF StaysWithdrawn, Stopped, Activating, ReadIt, Aborting
<1>19. RefusedRestores'
  BY <1>2
  DEF RefusedRestores, Live, Untouched, Remembered, PutBackFirst, Activating, Back, OwnFiles, ReadIt
<1> QED BY <1>11, <1>12, <1>13, <1>14, <1>15, <1>16, <1>17, <1>18, <1>19

(* The invariant is inductive: one case for each action of the             *)
(* specification.                                                          *)
THEOREM StaticInvariant == StaticSpec => []StaticInv
<1>1. StaticInit => StaticInv BY InitOK
<1>2. StaticInv /\ [StaticNext]_staticVars => StaticInv'
  <2> SUFFICES ASSUME StaticInv, [StaticNext]_staticVars PROVE StaticInv' OBVIOUS
  <2>1. CASE TakeUp
    <3>1. CASE task' = task BY <2>1, <3>1, TakeUpRefusesOK
    <3>2. CASE task' # task BY <2>1, <3>2, TakeUpBeginsOK
    <3> QED BY <3>1, <3>2
  <2>2. CASE \/ Look \/ PrepareStatic \/ PublishTree \/ SwapRoute \/ LookAgain
             \/ Withdraw \/ StopGate \/ Unload
    BY <2>2, LookOK, PrepareStaticOK, PublishTreeOK, SwapRouteOK, LookAgainOK, WithdrawOK, StopGateOK, UnloadOK
  <2>3. CASE ReloadRoute \/ Probe \/ LookLast \/ RetainStatic \/ RecordAccepted \/ Retire \/ Report
    BY <2>3, ReloadRouteOK, ProbeOK, LookLastOK, RetainStaticOK, RecordAcceptedOK, RetireOK,
      ReportOK
  <2>4. CASE StoreRecord
    <3>1. CASE task.verb = "stop" BY <2>4, <3>1, StopStoredOK
    <3>2. CASE task.verb # "stop" BY <2>4, <3>2, StoredOK
    <3> QED BY <3>1, <3>2
  <2>5. CASE PutBackRoute
    <3>1. CASE task.route = NoStatic BY <2>5, <3>1, NothingToPutBackOK
    <3>2. CASE task.route # NoStatic BY <2>5, <3>2, PutsRouteBackOK
    <3> QED BY <3>1, <3>2
  <2>6. CASE ReloadBack BY <2>6, ReloadBackOK
  <2>7. CASE PutBackRecord
    <3>1. CASE Owner BY <2>7, <3>1, OwnerPutsRecordBackOK
    <3>2. CASE ~Owner BY <2>7, <3>2, WorkerPutsRecordBackOK
    <3> QED BY <3>1, <3>2
  <2>8. CASE AbortFails
    <3>1. CASE Owner BY <2>8, <3>1, OwnerGivesUpOK
    <3>2. CASE ~Owner BY <2>8, <3>2, WorkerGivesUpOK
    <3> QED BY <3>1, <3>2
  <2>9. CASE Confirm
    <3>1. CASE Overtaken BY <2>9, <3>1, ConfirmLosesOK
    <3>2. CASE ~Overtaken BY <2>9, <3>2, ConfirmEndsOK
    <3> QED BY <3>1, <3>2
  <2>10. CASE StepFails
    <3>1. Called \in Failures BY DEF Called, Failures
    <3>2. Fails(Called) /\ loadedRoute' = loadedRoute BY <2>10 DEF StepFails
    <3> QED BY <3>1, <3>2, FailsOK
  <2>11. CASE ActivatedUnrecorded
    <3>1. /\ Fails("readiness_failed") /\ loadedRoute' = routeFile /\ task.pc = "reload"
          /\ "readiness_failed" \in Failures
      BY <2>11 DEF ActivatedUnrecorded, Load, Failures
    <3> QED BY <3>1, FailsOK
  <2>12. CASE HaltFails
    <3>1. (task.verb = "stop" /\ Leaves) \/ UNCHANGED <<task, kept>> BY <2>12 DEF HaltFails
    <3> QED BY <2>12, <3>1, HaltDiesOK, HaltGivesUpOK
  <2>13. CASE HaltContainers \/ HaltRefused \/ MarkHalted \/ StaticCrash
    BY <2>13, HaltContainersOK, HaltRefusedOK, MarkHaltedOK, StaticCrashOK
  <2>14. CASE BeginRestore \/ RestoreFiles \/ CloseRestore \/ ReloadByOther \/ DaemonRestarts
    BY <2>14, BeginRestoreOK, RestoreFilesOK, CloseRestoreOK, ReloadByOtherOK, DaemonRestartsOK
  <2>15. ASSUME NEW c \in StaticRevisions, StageStatic(c) PROVE StaticInv'
    BY <2>15, StageStaticOK
  <2>16. ASSUME NEW h \in OwnerHosts,
                HaltStatic(h) \/ \E verb \in {"start", "restart"} : StartStatic(h, verb)
         PROVE  StaticInv'
    BY <2>16, HaltStaticOK, StartStaticOK
  <2>17. ASSUME NEW h \in {"worker"} \cup (OwnerHosts \ {"command"}), ServeOther(h)
         PROVE  StaticInv'
    <3>1. h \in Hosts BY OwnerHostsAre DEF Hosts
    <3> QED BY <2>17, <3>1, ServeOtherOK
  <2>18. CASE UNCHANGED staticVars BY <2>18, StutterOK
  <2> QED
    BY <2>1, <2>2, <2>3, <2>4, <2>5, <2>6, <2>7, <2>8, <2>9, <2>10, <2>11, <2>12, <2>13, <2>14,
      <2>15, <2>16, <2>17, <2>18
    DEF StaticNext, StaticStep
<1> QED BY <1>1, <1>2, PTL DEF StaticSpec
------------------------------------------------------------------------------
(* Every variable keeps its type, whatever fails, dies or is stopped.      *)
THEOREM StaticTypes == StaticSpec => []StaticTypeOK
BY StaticInvariant, PTL DEF StaticInv

(* As long as no task wrote files from an operation that another had left  *)
(* in the Host, every route that the proxy has loaded, that is on disk or  *)
(* that an abort will put back leads to containers or to a tree that is    *)
(* still there (static_serving.rs, static_tree.rs): no clean-up of old     *)
(* trees removes what something leads to.                                  *)
THEOREM TreesStayPublished == StaticSpec => []TreesPublished
<1>1. StaticInv => TreesPublished
  BY DEF StaticInv, RoutesLead, Leads, TreesPublished, PutBack
<1> QED BY <1>1, StaticInvariant, PTL

(* A stop that was carried out withdraws the application for good: neither *)
(* the proxy nor its next reload serves it, whatever was activated,        *)
(* started, put back or restored around the stop (static_serving.rs,       *)
(* owner.rs).                                                              *)
THEOREM StopsWithdraw == StaticSpec => []StoppedIsWithdrawn
<1>1. StaticInv => StoppedIsWithdrawn
  BY UnlockedIs DEF StaticInv, StaysWithdrawn, Stopped, StoppedIsWithdrawn, Withdrawn, NotTree
<1> QED BY <1>1, StaticInvariant, PTL

(* An accepted operation has its revision installed, recorded and routed,  *)
(* in every state that any later command or crash leaves behind            *)
(* (static_serving.rs), unless a task since its staging wrote files from   *)
(* an operation that another had left in the Host (activation.rs 352).     *)
THEOREM AcceptedStaysWhole == StaticSpec => []AcceptedIsWhole
<1>1. StaticInv => AcceptedIsWhole
  BY DEF StaticInv, WholeAsAccepted, Of, AcceptedIsWhole, OwnFiles
<1> QED BY <1>1, StaticInvariant, PTL

(* A deployment that ended without success leaves what was loaded,         *)
(* recorded and retained before it (abort_static_operation,                *)
(* static_serving.rs), unless a task since its staging, it or another,     *)
(* wrote files from an operation that was left in the Host.                *)
THEOREM RefusedLeaves == StaticSpec => []RefusedLeavesServing
<1>1. StaticInv => RefusedLeavesServing
  BY UnlockedIs DEF StaticInv, RefusedRestores, Live, Open, Untouched, RefusedLeavesServing, OwnFiles
<1> QED BY <1>1, StaticInvariant, PTL
==============================================================================
