------------------------ MODULE DeploymentServingProofs ------------------------
(***************************************************************************)
(* Deployments, continued: what the files, the containers, the proxy and   *)
(* the retention record hold at each step of the task that has the locks,  *)
(* and what is left of it when the task is through.  With that the owner's *)
(* stop holds, a ready application is served, and files of two revisions   *)
(* can be put back, for any number of applications, operations, stops and  *)
(* crashes.                                                                *)
(***************************************************************************)
EXTENDS DeploymentProofs

Image(a) == snapshots[a][journal[a].id]
StagePcs == {"stage", "staging", "swap", "configure", "queue", "restore", "unstage"}
ActivatePcs == {"consume", "verify", "begin", "up", "recheck", "reload", "retain", "settle",
                "probe", "conclude", "close", "failing"}
Quiet(a) == a \notin stopping /\ a \notin disturbed

(* The installed files, at each step of a pass.                            *)
FilesAt ==
  /\ task.pc \in StagePcs => pending.staged
  /\ task.pc \in ActivatePcs => ~pending.staged
  /\ pending # NoRequest /\ ~pending.staged =>
       files[pending.app] = Whole(pending.candidate)
  /\ At("swap") => \A k \in 1..4 :
       files[task.app][FileOrder[k]] =
         IF k < task.at THEN pending.candidate ELSE Image(task.app)[FileOrder[k]]
  /\ task.pc \in {"configure", "queue"} => files[task.app] = Whole(pending.candidate)
  /\ At("staging") => Image(task.app) = NoSnapshot
  /\ \A a \in Apps : journal[a] # NoOperation /\ journal[a].phase = "admitted"
                       => Image(a) = NoSnapshot

(* Unless a reconciliation left the files of an application torn, they are *)
(* of one revision or can be put back to the one before.                   *)
FilesKept == \A a \in Apps \ torn :
  IF journal[a] = NoOperation THEN IsWhole(files[a])
  ELSE LET op == journal[a]
       IN /\ op.phase # "reconciled" => Image(a) \in {NoSnapshot, Whole(op.previous)}
          /\ op.phase \in {"admitted", "staging", "staging_failed"} /\ Image(a) = NoSnapshot
               => files[a] = Whole(op.previous)
          /\ op.phase \in {"configured", "activating", "activation_failed"}
               => Image(a) # NoSnapshot
          /\ op.phase \notin Fence => IsWhole(files[a])

(* A reconciliation, from its review to its record.                        *)
ReconcileAt ==
  Reconciling =>
    LET a == task.app
        op == journal[a]
    IN /\ op.phase \in Reconcilable
       /\ task.phase \in {"restore-serving", "accept-candidate"}
       /\ At("put back") =>
            /\ task.phase = "restore-serving"
            /\ Image(a)["env"] = op.previous
            /\ \A k \in 1..4 : k < task.at => files[a][FileOrder[k]] = Image(a)[FileOrder[k]]
       /\ task.phase = "restore-serving" =>
            /\ retained[a].current = op.previous
            /\ ~At("put back") /\ a \notin torn => files[a] = Whole(op.previous)
            /\ task.pc \in {"confirm", "keep", "record"} /\ a \notin torn
                 => proxy[a] = op.previous
       /\ task.phase = "accept-candidate" => files[a]["compose"] = op.candidate
       /\ task.pc \in {"keep", "record"} => containers[a] = Serving

(* What an activation has done to the host when it reaches a step.         *)
ActivationAt ==
  task.pc \in WorkerSteps =>
    LET a == task.app
    IN /\ At("recheck") => containers[a] = pending.candidate
       /\ task.pc \in {"reload", "retain"} =>
            containers[a] \in {pending.candidate, NoRevision} \/ mark[a] # 0
       /\ task.pc \in {"retain", "settle", "probe", "conclude", "close"} =>
            proxy[a] = pending.candidate
       /\ task.pc \in {"settle", "probe", "conclude", "close"}
            /\ pending.candidate # pending.previous =>
            retained[a] = [current |-> pending.candidate, previous |-> pending.previous]
       /\ At("conclude") /\ task.phase = "ready" =>
            mark[a] # 0 \/ containers[a] = pending.candidate
       /\ At("close") /\ task.phase = "ready" => containers[a] = pending.candidate

(* A start, until it clears the stop record; if the record has changed     *)
(* since the start read it, the owner has stopped the application again.   *)
StartAt ==
  task.pc \in StartSteps =>
    /\ mark[task.app] # task.seen => mark[task.app] # 0 /\ ~Quiet(task.app)
    /\ task.phase \in {"start", "restart"}
    /\ task.phase = "restart" => task.seen = 0 /\ containers[task.app] # NoRevision
    /\ ~At("start") /\ task.phase = "start" =>
         containers[task.app] = files[task.app]["compose"]
    /\ At("clear") => task.phase = "start"

(* An application that its owner stopped is down, unless its stop has not  *)
(* been carried out, or a start that saw the stop is on its way.           *)
StopKept ==
  /\ \A a \in Apps : mark[a] # 0 /\ Quiet(a) =>
       \/ containers[a] = NoRevision
       \/ task.app = a /\ task.pc \in StartSteps /\ mark[a] = task.seen
  /\ At("up") /\ mark[task.app] # 0 => ~Quiet(task.app)

(* What a ready operation left behind stays, but for what the owner does.  *)
ReadyKept == \A a \in Apps : OperationPhase(a) = "ready" =>
  /\ files[a] = Whole(journal[a].candidate)
  /\ proxy[a] = journal[a].candidate
  /\ containers[a] \in {journal[a].candidate, NoRevision}
  /\ mark[a] = 0 /\ Quiet(a) => containers[a] = journal[a].candidate

ServingInv == /\ FilesAt /\ FilesKept /\ ReconcileAt /\ ActivationAt /\ StartAt
              /\ StopKept /\ ReadyKept
-----------------------------------------------------------------------------
USE DEF disk, owner, tally

(* What a step leaves alone stays as the invariant has it.                 *)
LEMMA WorkerOnly ==
  ASSUME task'.pc \in WorkerSteps
  PROVE  ReconcileAt' /\ StartAt'
BY DEF ReconcileAt, StartAt, Reconciling, WorkerSteps, ReconcileSteps, StartSteps

(* A task that has ended has no step to be at.                             *)
LEMMA NobodyServing ==
  ASSUME task' = Idle
  PROVE  ReconcileAt' /\ StartAt' /\ ActivationAt' /\ task'.pc = "idle" /\ task'.app = NoApp
BY DEF ReconcileAt, StartAt, ActivationAt, Reconciling, WorkerSteps, ReconcileSteps,
       StartSteps, Idle

(* No file, snapshot or record written.                                    *)
LEMMA FilesStay ==
  ASSUME FilesKept, UNCHANGED <<files, snapshots, torn, journal>>
  PROVE  FilesKept'
BY DEF FilesKept, Image

(* No container and no stop record touched.                                *)
LEMMA StopsStay ==
  ASSUME StopKept, UNCHANGED <<mark, stopping, disturbed, containers>>,
         task.pc \notin StartSteps, task'.pc # "up"
  PROVE  StopKept'
BY DEF StopKept, Quiet, At

(* Nothing that serves touched.                                            *)
LEMMA ReadyStays ==
  ASSUME ReadyKept, UNCHANGED <<journal, files, proxy, containers, mark, stopping, disturbed>>
  PROVE  ReadyKept'
BY DEF ReadyKept, Quiet, OperationPhase

(* A record over the files as they are.                                    *)
LEMMA FilesRecorded ==
  ASSUME IInv, FilesKept, NEW a \in Apps, NEW ph \in Phases, JournalMoves(a, ph),
         UNCHANGED <<files, snapshots, torn>>,
         Recorded(journal[a].phase, ph) \in {"configured"} => Image(a) # NoSnapshot,
         Recorded(journal[a].phase, ph) \notin Fence => IsWhole(files[a])
  PROVE  FilesKept'
<1>1. journal[a].phase \in Phases
  BY DEF JournalMoves, IInv, TypeOK, Operation
<1>2. /\ Recorded(journal[a].phase, ph) \in {"admitted", "staging", "staging_failed"}
           => journal[a].phase \in {"admitted", "staging", "staging_failed"}
      /\ Recorded(journal[a].phase, ph) \in {"activating", "activation_failed"}
           => journal[a].phase \in {"configured", "activating", "activation_failed"}
      /\ Recorded(journal[a].phase, ph) # "reconciled" => journal[a].phase # "reconciled"
  BY <1>1
  DEF JournalMoves, MayRecord, Recorded, Legal, Follows, Phases, Final, Reconcilable, Fence
<1> QED BY <1>2 DEF JournalMoves, FilesKept, Image

(* A record short of ready leaves the ready ones alone.                    *)
LEMMA ReadyRecorded ==
  ASSUME IInv, ReadyKept, NEW a \in Apps, NEW ph \in Phases, JournalMoves(a, ph), ph # "ready",
         UNCHANGED <<files, proxy, containers, mark, stopping, disturbed>>
  PROVE  ReadyKept'
BY DEF JournalMoves, ReadyKept, Quiet, OperationPhase, Recorded

(* The four files, one by one.                                             *)
LEMMA FilesInOrder ==
  /\ \A k \in 1..4 : FileOrder[k] \in File
  /\ \A k, m \in 1..4 : FileOrder[k] = FileOrder[m] => k = m
  /\ \A f \in File : \E k \in 1..4 : f = FileOrder[k]
BY DEF FileOrder, File

(* When each of the four is of one revision, the whole is.                 *)
LEMMA AllFour ==
  ASSUME NEW S, NEW image \in [File -> S], NEW r, \A k \in 1..4 : image[FileOrder[k]] = r
  PROVE  image = Whole(r)
<1>1. \A f \in File : image[f] = r
  BY FilesInOrder
<1> QED BY <1>1 DEF Whole

(* Four files of one revision are of one revision.                         *)
LEMMA WholeIsWhole == \A r : IsWhole(Whole(r))
BY DEF IsWhole, Whole

(* Then any of the four names it.                                          *)
LEMMA WholeAgrees ==
  ASSUME NEW S, NEW image \in [File -> S], IsWhole(image), NEW f \in File
  PROVE  image = Whole(image[f])
BY DEF IsWhole, Whole

(* One file is written at a time.                                          *)
LEMMA WritesOne ==
  ASSUME IInv, NEW a \in Apps, NEW f \in File, NEW r, Write(a, f, r)
  PROVE  /\ \A b \in Apps : b # a => files'[b] = files[b]
         /\ files'[a][f] = r
         /\ \A g \in File : g # f => files'[a][g] = files[a][g]
BY DEF IInv, TypeOK, Write

(* The files of an operation that is being staged, or put back.            *)
LEMMA FilesTouched ==
  ASSUME FilesKept, NEW a \in Apps, journal[a] # NoOperation, journal[a].phase \in Fence,
         Image(a) # NoSnapshot, \A b \in Apps : b # a => files'[b] = files[b],
         UNCHANGED <<journal, snapshots, torn>>
  PROVE  FilesKept'
BY DEF FilesKept, Image

(* Writing the files of an application that is not ready.                  *)
LEMMA ReadyElsewhere ==
  ASSUME ReadyKept, NEW a \in Apps, OperationPhase(a) # "ready",
         \A b \in Apps : b # a => files'[b] = files[b],
         UNCHANGED <<journal, proxy, containers, mark, stopping, disturbed>>
  PROVE  ReadyKept'
BY DEF ReadyKept, Quiet, OperationPhase

(* stage_deployment()                                                      *)
LEMMA StageServes == ASSUME IInv, IInv', ServingInv, Stage PROVE ServingInv'
<1>0. FilesAt /\ FilesKept /\ ReconcileAt /\ ActivationAt /\ StartAt /\ StopKept /\ ReadyKept
  BY DEF ServingInv
<1> USE <1>0
<1>1. CASE StageBegin
  <2>1. task.pc = "stage" /\ task.pc \in WorkerSteps /\ Busy
    BY <1>1, AtWork DEF StageBegin, At, WorkerSteps
  <2>2. task'.app = task.app /\ task'.pc = "staging"
    BY <1>1, <2>1 DEF StageBegin, App, Goto, Verdict, Task, Busy, At
  <2>3. JournalMoves(task.app, "staging")
    BY <1>1, <2>1, Records DEF StageBegin, Busy, IInv, TypeOK, App, Phases
  <2>4. FilesAt'
    BY <1>1, <2>1, <2>2, <2>3
    DEF StageBegin, FilesAt, StagePcs, ActivatePcs, Busy, At, App, Image, JournalMoves,
        Recorded, OperationPhase
  <2>5. FilesKept'
    BY <1>1, <2>1, <2>3, FilesRecorded DEF StageBegin, Busy, Phases, Recorded, Fence
  <2>6. ReconcileAt' /\ StartAt'
    BY <2>2, WorkerOnly DEF WorkerSteps
  <2>7. ActivationAt'
    BY <1>1, <2>1, <2>2, <2>3
    DEF StageBegin, ActivationAt, WorkerSteps, At, App, Busy, IInv, Steps, LocalPhase
  <2>8. StopKept'
    BY <1>1, <2>1, <2>2, StopsStay DEF StageBegin, StartSteps
  <2>9. ReadyKept'
    BY <1>1, <2>1, <2>3, ReadyRecorded DEF StageBegin, Busy, Phases
  <2> QED BY <2>4, <2>5, <2>6, <2>7, <2>8, <2>9 DEF ServingInv
<1>2. CASE StageRefuse
  <2>1. task.pc = "stage" /\ task.pc \in WorkerSteps /\ Busy
    BY <1>2, AtWork DEF StageRefuse, At, WorkerSteps
  <2>2. task'.app = task.app /\ task'.pc = "report"
    BY <1>2, <2>1 DEF StageRefuse, App, Goto, Verdict, Task, Busy, At
  <2>3. FilesAt'
    BY <1>2, <2>1, <2>2
    DEF StageRefuse, FilesAt, StagePcs, ActivatePcs, Busy, At, App, Image
  <2>4. FilesKept'
    BY <1>2, FilesStay DEF StageRefuse
  <2>5. ReconcileAt' /\ StartAt'
    BY <2>2, WorkerOnly DEF WorkerSteps
  <2>6. ActivationAt'
    BY <1>2, <2>1, <2>2
    DEF StageRefuse, ActivationAt, WorkerSteps, At, App, Busy, IInv, Steps, LocalPhase
  <2>7. StopKept'
    BY <1>2, <2>1, <2>2, StopsStay DEF StageRefuse, StartSteps
  <2>8. ReadyKept'
    BY <1>2, ReadyStays DEF StageRefuse
  <2> QED BY <2>3, <2>4, <2>5, <2>6, <2>7, <2>8 DEF ServingInv
<1>3. CASE Snapshot
  <2>1. task.pc = "staging" /\ task.pc \in WorkerSteps /\ Busy
        /\ journal[task.app].phase = "staging"
    BY <1>3, AtWork DEF Snapshot, At, WorkerSteps, IInv, Steps, JournalAt
  <2>2. task'.app = task.app /\ task'.pc = "swap" /\ task'.at = 1
    BY <1>3, <2>1 DEF Snapshot, Goto, Task, Busy, IInv, Steps, HolderHasSubject
  <2>3. /\ \A a \in Apps : a # task.app => snapshots'[a] = snapshots[a]
        /\ snapshots'[task.app][pending.id] = files[task.app]
    BY <1>3, <2>1 DEF Snapshot, Busy, App, IInv, TypeOK
  <2>4. FilesAt'
    <3>1. \A a \in Apps : journal[a] # NoOperation /\ journal[a].phase = "admitted"
                            => Image(a)' = NoSnapshot
      BY <1>3, <2>1, <2>3 DEF Snapshot, FilesAt, Image
    <3>2. \A k \in 1..4 : files'[task'.app][FileOrder[k]] = Image(task.app)'[FileOrder[k]]
      BY <1>3, <2>1, <2>2, <2>3 DEF Snapshot, Busy, Image
    <3>3. UNCHANGED <<journal, pending, files>> /\ pending.staged
      BY <1>3, <2>1 DEF Snapshot, FilesAt, StagePcs
    <3>4. \A k \in 1..4 : files'[task'.app][FileOrder[k]] =
            IF k < task'.at THEN pending'.candidate ELSE Image(task.app)'[FileOrder[k]]
      BY <2>2, <3>2
    <3> QED BY <2>2, <3>1, <3>3, <3>4 DEF FilesAt, StagePcs, ActivatePcs, At
  <2>9. FilesKept'
    <3>1. task.app \notin torn => files[task.app] = Whole(journal[task.app].previous)
      BY <2>1 DEF FilesAt, FilesKept, At, Busy
    <3>2. snapshots'[task.app][journal[task.app].id] = files[task.app]
      BY <2>1, <2>3 DEF Busy
    <3>3. files[task.app] # NoSnapshot
      BY <2>1, HostAssumption DEF HostAssumption, Busy, IInv, TypeOK
    <3>4. UNCHANGED <<journal, files, torn>>
      BY <1>3 DEF Snapshot
    <3> QED BY <2>1, <2>3, <3>1, <3>2, <3>3, <3>4 DEF FilesKept, Fence, Image, Busy
  <2>5. ReconcileAt' /\ StartAt'
    BY <2>2, WorkerOnly DEF WorkerSteps
  <2>6. ActivationAt'
    BY <1>3, <2>1, <2>2
    DEF Snapshot, ActivationAt, WorkerSteps, At, App, Busy, IInv, Steps, LocalPhase
  <2>7. StopKept'
    BY <1>3, <2>1, <2>2, StopsStay DEF Snapshot, StartSteps
  <2>8. ReadyKept'
    BY <1>3, ReadyStays DEF Snapshot
  <2> QED BY <2>4, <2>9, <2>5, <2>6, <2>7, <2>8 DEF ServingInv
<1>4. CASE Swap
  <2>1. task.pc = "swap" /\ task.pc \in WorkerSteps /\ Busy
        /\ journal[task.app].phase = "staging"
    BY <1>4, AtWork DEF Swap, At, WorkerSteps, IInv, Steps, JournalAt, LocalPhase
  <2>2. /\ task'.app = task.app
        /\ IF task.at = 4 THEN task'.pc = "configure"
                          ELSE task'.pc = "swap" /\ task'.at = task.at + 1
        /\ task.at \in 1..4
    BY <1>4, <2>1 DEF Swap, Task, Busy, At
  <2>3. /\ \A b \in Apps : b # task.app => files'[b] = files[b]
        /\ files'[task.app][FileOrder[task.at]] = pending.candidate
        /\ \A g \in File : g # FileOrder[task.at] => files'[task.app][g] = files[task.app][g]
    BY <1>4, <2>1, <2>2, FilesInOrder, WritesOne DEF Swap, App, Candidate, Busy
  <2>9. FilesAt'
    <3>1. \A k \in 1..4 : k # task.at =>
            files'[task.app][FileOrder[k]] = files[task.app][FileOrder[k]]
      BY <2>2, <2>3, FilesInOrder
    <3>2. \A k \in 1..4 : files[task.app][FileOrder[k]] =
            IF k < task.at THEN pending.candidate ELSE Image(task.app)[FileOrder[k]]
      BY <2>1 DEF FilesAt, At
    <3>3. pending.staged
      BY <2>1 DEF FilesAt, StagePcs
    <3>4. CASE task.at = 4
      <4>1. \A k \in 1..4 : files'[task.app][FileOrder[k]] = pending.candidate
        BY <2>3, <3>1, <3>2, <3>4
      <4>2. files'[task.app] \in [File -> Installed]
        BY <2>1 DEF Busy, IInv, TypeOK
      <4>3. files'[task.app] = Whole(pending.candidate)
        BY <4>1, <4>2, AllFour
      <4> QED BY <1>4, <2>1, <2>2, <3>3, <3>4, <4>3
        DEF Swap, FilesAt, StagePcs, ActivatePcs, Busy, At, Image
    <3>5. CASE task.at # 4
      <4>1. \A k \in 1..4 : files'[task.app][FileOrder[k]] =
              IF k < task.at + 1 THEN pending.candidate ELSE Image(task.app)[FileOrder[k]]
        BY <2>2, <2>3, <3>1, <3>2
      <4>2. UNCHANGED <<journal, pending, snapshots>> /\ task'.pc = "swap" /\ task'.at = task.at + 1
        BY <1>4, <2>2, <3>5 DEF Swap
      <4>3. \A k \in 1..4 : files'[task'.app][FileOrder[k]] =
              IF k < task'.at THEN pending'.candidate ELSE Image(task.app)'[FileOrder[k]]
        BY <2>2, <4>1, <4>2 DEF Image
      <4>4. \A a \in Apps : journal'[a] # NoOperation /\ journal'[a].phase = "admitted"
                              => Image(a)' = NoSnapshot
        BY <4>2 DEF FilesAt, Image
      <4> QED BY <3>3, <4>2, <4>3, <4>4 DEF FilesAt, StagePcs, ActivatePcs, At
    <3> QED BY <3>4, <3>5
  <2>4. FilesKept'
    <3>1. Image(task.app) # NoSnapshot
      BY <2>1 DEF Busy, IInv, Steps, SnapshotThere, Image
    <3> QED BY <1>4, <2>1, <2>3, <3>1, FilesTouched DEF Swap, Busy, Fence
  <2>5. ReconcileAt' /\ StartAt'
    BY <2>2, WorkerOnly DEF WorkerSteps
  <2>6. ActivationAt'
    BY <1>4, <2>1, <2>2
    DEF Swap, ActivationAt, WorkerSteps, At, App, Busy, IInv, Steps, LocalPhase
  <2>7. StopKept'
    BY <1>4, <2>1, <2>2, StopsStay DEF Swap, StartSteps
  <2>8. ReadyKept'
    BY <1>4, <2>1, <2>3, ReadyElsewhere DEF Swap, Busy, OperationPhase
  <2> QED BY <2>9, <2>4, <2>5, <2>6, <2>7, <2>8 DEF ServingInv
<1>5. CASE Configure
  <2>1. task.pc = "configure" /\ task.pc \in WorkerSteps /\ Busy
    BY <1>5, AtWork DEF Configure, At, WorkerSteps
  <2>2. task'.app = task.app /\ task'.pc = "queue"
    BY <1>5, <2>1 DEF Configure, App, Goto, Verdict, Task, Busy, At
  <2>3. JournalMoves(task.app, "configured")
    BY <1>5, <2>1, Records DEF Configure, Busy, IInv, TypeOK, App, Phases
  <2>4. FilesAt'
    BY <1>5, <2>1, <2>2, <2>3
    DEF Configure, FilesAt, StagePcs, ActivatePcs, Busy, At, App, Image, JournalMoves,
        Recorded
  <2>5. FilesKept'
    BY <1>5, <2>1, <2>3, FilesRecorded
    DEF Configure, Busy, Phases, Recorded, Fence, Image, IInv, Steps, SnapshotThere
  <2>6. ReconcileAt' /\ StartAt'
    BY <2>2, WorkerOnly DEF WorkerSteps
  <2>7. ActivationAt'
    BY <1>5, <2>1, <2>2, <2>3
    DEF Configure, ActivationAt, WorkerSteps, At, App, Busy, IInv, Steps, LocalPhase
  <2>8. StopKept'
    BY <1>5, <2>1, <2>2, StopsStay DEF Configure, StartSteps
  <2>9. ReadyKept'
    BY <1>5, <2>1, <2>3, ReadyRecorded DEF Configure, Busy, Phases
  <2> QED BY <2>4, <2>5, <2>6, <2>7, <2>8, <2>9 DEF ServingInv
<1>6. CASE Queue
  <2>1. task.pc = "queue" /\ task.pc \in WorkerSteps /\ Busy
    BY <1>6, AtWork DEF Queue, At, WorkerSteps
  <2>2. task'.app = task.app /\ task'.pc = "consume"
    BY <1>6, <2>1 DEF Queue, App, Goto, Verdict, Task, Busy, At
  <2>3. FilesAt'
    BY <1>6, <2>1, <2>2 DEF Queue, FilesAt, StagePcs, ActivatePcs, Busy, At, App, Image
  <2>4. FilesKept'
    BY <1>6, FilesStay DEF Queue
  <2>5. ReconcileAt' /\ StartAt'
    BY <2>2, WorkerOnly DEF WorkerSteps
  <2>6. ActivationAt'
    BY <1>6, <2>1, <2>2
    DEF Queue, ActivationAt, WorkerSteps, At, App, Busy, IInv, Steps, LocalPhase
  <2>7. StopKept'
    BY <1>6, <2>1, <2>2, StopsStay DEF Queue, StartSteps
  <2>8. ReadyKept'
    BY <1>6, ReadyStays DEF Queue
  <2> QED BY <2>3, <2>4, <2>5, <2>6, <2>7, <2>8 DEF ServingInv
<1>7. CASE StageFails
  <2>1. task.pc \in {"staging", "swap", "configure", "queue"} /\ task.pc \in WorkerSteps /\ Busy
    BY <1>7, AtWork DEF StageFails, At, WorkerSteps
  <2>2. task'.app = task.app /\ task'.pc \in {"unstage", "restore"}
    BY <1>7, <2>1 DEF StageFails, App, Goto, Verdict, Task, Busy, At
  <2>3. FilesAt'
    BY <1>7, <2>1, <2>2 DEF StageFails, FilesAt, StagePcs, ActivatePcs, Busy, At, App, Image
  <2>4. FilesKept'
    BY <1>7, FilesStay DEF StageFails
  <2>5. ReconcileAt' /\ StartAt'
    BY <2>2, WorkerOnly DEF WorkerSteps
  <2>6. ActivationAt'
    BY <1>7, <2>1, <2>2
    DEF StageFails, ActivationAt, WorkerSteps, At, App, Busy, IInv, Steps, LocalPhase
  <2>7. StopKept'
    BY <1>7, <2>1, <2>2, StopsStay DEF StageFails, StartSteps
  <2>8. ReadyKept'
    BY <1>7, ReadyStays DEF StageFails
  <2> QED BY <2>3, <2>4, <2>5, <2>6, <2>7, <2>8 DEF ServingInv
<1>8. CASE RestoreFile
  <2>1. task.pc = "restore" /\ task.pc \in WorkerSteps /\ Busy
        /\ journal[task.app].phase \in {"staging", "configured"}
    BY <1>8, AtWork DEF RestoreFile, At, WorkerSteps, IInv, Steps, JournalAt
  <2>2. task'.app = task.app /\ task'.pc \in {"restore", "unstage"}
    BY <1>8, <2>1 DEF RestoreFile, App, Goto, Verdict, Task, Busy, At
  <2>3. FilesAt'
    BY <1>8, <2>1, <2>2
    DEF RestoreFile, FilesAt, StagePcs, ActivatePcs, Busy, At, App, Image
  <2>9. \A b \in Apps : b # task.app => files'[b] = files[b]
    BY <1>8, <2>1 DEF RestoreFile, Busy, App, IInv, TypeOK, Write
  <2>4. FilesKept'
    <3>1. Image(task.app) # NoSnapshot
      BY <2>1 DEF Busy, IInv, Steps, SnapshotThere, Image
    <3> QED BY <1>8, <2>1, <2>9, <3>1, FilesTouched DEF RestoreFile, Busy, Fence
  <2>5. ReconcileAt' /\ StartAt'
    BY <2>2, WorkerOnly DEF WorkerSteps
  <2>6. ActivationAt'
    BY <1>8, <2>1, <2>2
    DEF RestoreFile, ActivationAt, WorkerSteps, At, App, Busy, IInv, Steps, LocalPhase
  <2>7. StopKept'
    BY <1>8, <2>1, <2>2, StopsStay DEF RestoreFile, StartSteps
  <2>8. ReadyKept'
    BY <1>8, <2>1, <2>9, ReadyElsewhere DEF RestoreFile, Busy, OperationPhase
  <2> QED BY <2>3, <2>4, <2>5, <2>6, <2>7, <2>8 DEF ServingInv
<1>9. CASE RestoreFails
  <2>1. task.pc = "restore" /\ task.pc \in WorkerSteps /\ Busy
    BY <1>9, AtWork DEF RestoreFails, At, WorkerSteps
  <2>2. task'.app = task.app /\ task'.pc = "unstage"
    BY <1>9, <2>1 DEF RestoreFails, App, Goto, Verdict, Task, Busy, At
  <2>3. FilesAt'
    BY <1>9, <2>1, <2>2
    DEF RestoreFails, FilesAt, StagePcs, ActivatePcs, Busy, At, App, Image
  <2>4. FilesKept'
    BY <1>9, FilesStay DEF RestoreFails
  <2>5. ReconcileAt' /\ StartAt'
    BY <2>2, WorkerOnly DEF WorkerSteps
  <2>6. ActivationAt'
    BY <1>9, <2>1, <2>2
    DEF RestoreFails, ActivationAt, WorkerSteps, At, App, Busy, IInv, Steps, LocalPhase
  <2>7. StopKept'
    BY <1>9, <2>1, <2>2, StopsStay DEF RestoreFails, StartSteps
  <2>8. ReadyKept'
    BY <1>9, ReadyStays DEF RestoreFails
  <2> QED BY <2>3, <2>4, <2>5, <2>6, <2>7, <2>8 DEF ServingInv
<1>10. CASE Unstage
  <2>1. task.pc = "unstage" /\ task.pc \in WorkerSteps /\ Busy
    BY <1>10, AtWork DEF Unstage, At, WorkerSteps
  <2>2. task'.app = task.app /\ task'.pc = "report"
    BY <1>10, <2>1 DEF Unstage, App, Goto, Verdict, Task, Busy, At
  <2>3. JournalMoves(task.app, "staging_failed") \/ UNCHANGED journal
    BY <1>10, <2>1, Records DEF Unstage, Busy, IInv, TypeOK, App, Phases
  <2>4. FilesAt'
    BY <1>10, <2>1, <2>2, <2>3
    DEF Unstage, FilesAt, StagePcs, ActivatePcs, Busy, At, App, Image, JournalMoves,
        Recorded
  <2>5. FilesKept'
    BY <1>10, <2>1, <2>3, FilesRecorded, FilesStay
    DEF Unstage, Busy, Phases, Recorded, Fence
  <2>6. ReconcileAt' /\ StartAt'
    BY <2>2, WorkerOnly DEF WorkerSteps
  <2>7. ActivationAt'
    BY <1>10, <2>1, <2>2, <2>3
    DEF Unstage, ActivationAt, WorkerSteps, At, App, Busy, IInv, Steps, LocalPhase
  <2>8. StopKept'
    BY <1>10, <2>1, <2>2, StopsStay DEF Unstage, StartSteps
  <2>9. ReadyKept'
    BY <1>10, <2>1, <2>3, ReadyRecorded, ReadyStays DEF Unstage, Busy, Phases
  <2> QED BY <2>4, <2>5, <2>6, <2>7, <2>8, <2>9 DEF ServingInv
<1>11. CASE Consume
  <2>1. task.pc = "consume" /\ task.pc \in WorkerSteps /\ Busy
    BY <1>11, AtWork DEF Consume, At, WorkerSteps
  <2>2. task'.app = task.app /\ task'.pc = "verify"
    BY <1>11, <2>1 DEF Consume, App, Goto, Verdict, Task, Busy, At
  <2>3. FilesAt'
    BY <1>11, <2>1, <2>2 DEF Consume, FilesAt, StagePcs, ActivatePcs, Busy, At, App, Image
  <2>4. FilesKept'
    BY <1>11, FilesStay DEF Consume
  <2>5. ReconcileAt' /\ StartAt'
    BY <2>2, WorkerOnly DEF WorkerSteps
  <2>6. ActivationAt'
    BY <1>11, <2>1, <2>2
    DEF Consume, ActivationAt, WorkerSteps, At, App, Busy, IInv, Steps, LocalPhase
  <2>7. StopKept'
    BY <1>11, <2>1, <2>2, StopsStay DEF Consume, StartSteps
  <2>8. ReadyKept'
    BY <1>11, ReadyStays DEF Consume
  <2> QED BY <2>3, <2>4, <2>5, <2>6, <2>7, <2>8 DEF ServingInv
<1> QED BY <1>1, <1>2, <1>3, <1>4, <1>5, <1>6, <1>7, <1>8, <1>9, <1>10, <1>11 DEF Stage

(* activate()                                                              *)
LEMMA ActivateServes == ASSUME IInv, IInv', ServingInv, Activate PROVE ServingInv'
<1>0. FilesAt /\ FilesKept /\ ReconcileAt /\ ActivationAt /\ StartAt /\ StopKept /\ ReadyKept
  BY DEF ServingInv
<1> USE <1>0
<1>1. CASE Verify
  <2>1. task.pc = "verify" /\ task.pc \in WorkerSteps /\ Busy
    BY <1>1, AtWork DEF Verify, At, WorkerSteps
  <2>2. task'.app = task.app /\ task'.pc = "begin"
    BY <1>1, <2>1 DEF Verify, App, Goto, Verdict, Task, Busy, At
  <2>3. FilesAt'
    BY <1>1, <2>1, <2>2 DEF Verify, FilesAt, StagePcs, ActivatePcs, Busy, At, App, Image
  <2>4. FilesKept'
    BY <1>1, FilesStay DEF Verify
  <2>5. ReconcileAt' /\ StartAt'
    BY <2>2, WorkerOnly DEF WorkerSteps
  <2>6. ActivationAt'
    BY <1>1, <2>1, <2>2
    DEF Verify, ActivationAt, WorkerSteps, At, App, Busy, IInv, Steps, LocalPhase
  <2>7. StopKept'
    BY <1>1, <2>1, <2>2, StopsStay DEF Verify, StartSteps
  <2>8. ReadyKept'
    BY <1>1, ReadyStays DEF Verify
  <2> QED BY <2>3, <2>4, <2>5, <2>6, <2>7, <2>8 DEF ServingInv
<1>2. CASE VerifyRefuse
  <2>1. task.pc = "verify" /\ task.pc \in WorkerSteps /\ Busy
    BY <1>2, AtWork DEF VerifyRefuse, At, WorkerSteps
  <2>2. task'.app = task.app /\ task'.pc = "report"
    BY <1>2, <2>1 DEF VerifyRefuse, App, Goto, Verdict, Task, Busy, At
  <2>3. FilesAt'
    BY <1>2, <2>1, <2>2
    DEF VerifyRefuse, FilesAt, StagePcs, ActivatePcs, Busy, At, App, Image
  <2>4. FilesKept'
    BY <1>2, FilesStay DEF VerifyRefuse
  <2>5. ReconcileAt' /\ StartAt'
    BY <2>2, WorkerOnly DEF WorkerSteps
  <2>6. ActivationAt'
    BY <1>2, <2>1, <2>2
    DEF VerifyRefuse, ActivationAt, WorkerSteps, At, App, Busy, IInv, Steps, LocalPhase
  <2>7. StopKept'
    BY <1>2, <2>1, <2>2, StopsStay DEF VerifyRefuse, StartSteps
  <2>8. ReadyKept'
    BY <1>2, ReadyStays DEF VerifyRefuse
  <2> QED BY <2>3, <2>4, <2>5, <2>6, <2>7, <2>8 DEF ServingInv
<1>3. CASE BeginStopped
  <2>1. task.pc = "begin" /\ task.pc \in WorkerSteps /\ Busy
    BY <1>3, AtWork DEF BeginStopped, At, WorkerSteps
  <2>2. task'.app = task.app /\ task'.pc = "reload"
    BY <1>3, <2>1 DEF BeginStopped, App, Goto, Verdict, Task, Busy, At
  <2>3. FilesAt'
    BY <1>3, <2>1, <2>2
    DEF BeginStopped, FilesAt, StagePcs, ActivatePcs, Busy, At, App, Image
  <2>4. FilesKept'
    BY <1>3, FilesStay DEF BeginStopped
  <2>5. ReconcileAt' /\ StartAt'
    BY <2>2, WorkerOnly DEF WorkerSteps
  <2>6. ActivationAt'
    BY <1>3, <2>1, <2>2
    DEF BeginStopped, ActivationAt, WorkerSteps, At, App, Busy, IInv, Steps, LocalPhase
  <2>7. StopKept'
    BY <1>3, <2>1, <2>2, StopsStay DEF BeginStopped, StartSteps
  <2>8. ReadyKept'
    BY <1>3, ReadyStays DEF BeginStopped
  <2> QED BY <2>3, <2>4, <2>5, <2>6, <2>7, <2>8 DEF ServingInv
<1>4. CASE Begin
  <2>1. task.pc = "begin" /\ task.pc \in WorkerSteps /\ Busy
    BY <1>4, AtWork DEF Begin, At, WorkerSteps
  <2>2. task'.app = task.app /\ task'.pc = "up"
    BY <1>4, <2>1 DEF Begin, App, Goto, Verdict, Task, Busy, At
  <2>3. JournalMoves(task.app, "activating")
    BY <1>4, <2>1, Records DEF Begin, Busy, IInv, TypeOK, App, Phases
  <2>4. FilesAt'
    BY <1>4, <2>1, <2>2, <2>3
    DEF Begin, FilesAt, StagePcs, ActivatePcs, Busy, At, App, Image, JournalMoves, Recorded
  <2>5. FilesKept'
    BY <1>4, <2>1, <2>3, FilesRecorded DEF Begin, Busy, Phases, Recorded, Fence
  <2>6. ReconcileAt' /\ StartAt'
    BY <2>2, WorkerOnly DEF WorkerSteps
  <2>7. ActivationAt'
    BY <1>4, <2>1, <2>2, <2>3
    DEF Begin, ActivationAt, WorkerSteps, At, App, Busy, IInv, Steps, LocalPhase
  <2>8. StopKept'
    BY <1>4, <2>1, <2>2 DEF Begin, StopKept, Quiet, At, App, StartSteps
  <2>9. ReadyKept'
    BY <1>4, <2>1, <2>3, ReadyRecorded DEF Begin, Busy, Phases
  <2> QED BY <2>4, <2>5, <2>6, <2>7, <2>8, <2>9 DEF ServingInv
<1>5. CASE Up
  <2>1. task.pc = "up" /\ task.pc \in WorkerSteps /\ Busy
        /\ journal[task.app].phase = "activating"
    BY <1>5, AtWork DEF Up, At, WorkerSteps, IInv, Steps, JournalAt, LocalPhase
  <2>2. task'.app = task.app /\ task'.pc \in {"recheck", "failing"}
    BY <1>5, <2>1 DEF Up, App, Goto, Verdict, Task, Busy, At
  <2>3. FilesAt'
    BY <1>5, <2>1, <2>2 DEF Up, FilesAt, StagePcs, ActivatePcs, Busy, At, App, Image
  <2>4. FilesKept'
    BY <1>5, FilesStay DEF Up
  <2>5. ReconcileAt' /\ StartAt'
    BY <2>2, WorkerOnly DEF WorkerSteps
  <2>6. ActivationAt'
    <3>1. files[task.app]["compose"] = pending.candidate
      BY <2>1 DEF FilesAt, ActivatePcs, Busy, Whole, File
    <3>2. task'.pc = "recheck" => containers'[task.app] = pending.candidate
      BY <1>5, <2>1, <3>1 DEF Up, App, Goto, StartContainers, Busy, Task, IInv, TypeOK
    <3> QED BY <1>5, <2>2, <3>2 DEF Up, ActivationAt, At
  <2>7. StopKept'
    BY <1>5, <2>1, <2>2
    DEF Up, StopKept, Quiet, At, App, StartSteps, StartContainers, PartlyStarted, IInv,
        TypeOK
  <2>8. ReadyKept'
    BY <1>5, <2>1, <2>2
    DEF Up, ReadyKept, Quiet, App, OperationPhase, StartContainers, PartlyStarted, IInv,
        TypeOK
  <2> QED BY <2>3, <2>4, <2>5, <2>6, <2>7, <2>8 DEF ServingInv
<1>6. CASE Recheck
  <2>1. task.pc = "recheck" /\ task.pc \in WorkerSteps /\ Busy
        /\ journal[task.app].phase = "activating"
    BY <1>6, AtWork DEF Recheck, At, WorkerSteps, IInv, Steps, JournalAt, LocalPhase
  <2>2. task'.app = task.app /\ task'.pc = "reload"
    BY <1>6, <2>1 DEF Recheck, App, Goto, Verdict, Task, Busy, At
  <2>3. FilesAt'
    BY <1>6, <2>1, <2>2 DEF Recheck, FilesAt, StagePcs, ActivatePcs, Busy, At, App, Image
  <2>4. FilesKept'
    BY <1>6, FilesStay DEF Recheck
  <2>5. ReconcileAt' /\ StartAt'
    BY <2>2, WorkerOnly DEF WorkerSteps
  <2>6. ActivationAt'
    BY <1>6, <2>1, <2>2
    DEF Recheck, ActivationAt, WorkerSteps, At, App, Busy, IInv, Steps, LocalPhase,
        StopContainers, TypeOK
  <2>7. StopKept'
    BY <1>6, <2>1, <2>2
    DEF Recheck, StopKept, Quiet, At, App, StartSteps, StopContainers, IInv, TypeOK
  <2>8. ReadyKept'
    BY <1>6, <2>1, <2>2
    DEF Recheck, ReadyKept, Quiet, App, OperationPhase, StopContainers, IInv, TypeOK
  <2> QED BY <2>3, <2>4, <2>5, <2>6, <2>7, <2>8 DEF ServingInv
<1>7. CASE Reload
  <2>1. task.pc = "reload" /\ task.pc \in WorkerSteps /\ Busy
    BY <1>7, AtWork DEF Reload, At, WorkerSteps
  <2>2. task'.app = task.app /\ task'.pc = "retain"
    BY <1>7, <2>1 DEF Reload, App, Goto, Verdict, Task, Busy, At
  <2>3. FilesAt'
    BY <1>7, <2>1, <2>2 DEF Reload, FilesAt, StagePcs, ActivatePcs, Busy, At, App, Image
  <2>4. FilesKept'
    BY <1>7, FilesStay DEF Reload
  <2>5. ReconcileAt' /\ StartAt'
    BY <2>2, WorkerOnly DEF WorkerSteps
  <2>6. ActivationAt'
    BY <1>7, <2>1, <2>2
    DEF Reload, ActivationAt, WorkerSteps, At, App, Busy, IInv, Steps, LocalPhase,
        ReloadProxy, FilesAt, ActivatePcs, Whole, File
  <2>7. StopKept'
    BY <1>7, <2>1, <2>2, StopsStay DEF Reload, StartSteps
  <2>8. ReadyKept'
    BY <1>7, <2>1, <2>2
    DEF Reload, ReadyKept, Quiet, ReloadProxy, Whole, File, OperationPhase
  <2> QED BY <2>3, <2>4, <2>5, <2>6, <2>7, <2>8 DEF ServingInv
<1>8. CASE RetainCandidate
  <2>1. task.pc = "retain" /\ task.pc \in WorkerSteps /\ Busy
    BY <1>8, AtWork DEF RetainCandidate, At, WorkerSteps
  <2>2. task'.app = task.app /\ task'.pc = "settle"
    BY <1>8, <2>1 DEF RetainCandidate, App, Goto, Verdict, Task, Busy, At
  <2>3. FilesAt'
    BY <1>8, <2>1, <2>2
    DEF RetainCandidate, FilesAt, StagePcs, ActivatePcs, Busy, At, App, Image
  <2>4. FilesKept'
    BY <1>8, FilesStay DEF RetainCandidate
  <2>5. ReconcileAt' /\ StartAt'
    BY <2>2, WorkerOnly DEF WorkerSteps
  <2>6. ActivationAt'
    BY <1>8, <2>1, <2>2
    DEF RetainCandidate, ActivationAt, WorkerSteps, At, App, Busy, IInv, Steps, LocalPhase,
        Retain, Candidate, TypeOK
  <2>7. StopKept'
    BY <1>8, <2>1, <2>2, StopsStay DEF RetainCandidate, StartSteps
  <2>8. ReadyKept'
    BY <1>8, ReadyStays DEF RetainCandidate
  <2> QED BY <2>3, <2>4, <2>5, <2>6, <2>7, <2>8 DEF ServingInv
<1>9. CASE Settle
  <2>1. task.pc = "settle" /\ task.pc \in WorkerSteps /\ Busy
        /\ task.phase \in {"activated", "prepared_stopped"}
    BY <1>9, AtWork DEF Settle, At, WorkerSteps, IInv, Steps, JournalAt, LocalPhase
  <2>2. task'.app = task.app /\ task'.pc \in {"probe", "report"}
    BY <1>9, <2>1 DEF Settle, App, Goto, Verdict, Task, Busy, At
  <2>3. JournalMoves(task.app, task.phase)
    BY <1>9, <2>1, Records DEF Settle, Busy, IInv, TypeOK, App, Phases
  <2>4. FilesAt'
    BY <1>9, <2>1, <2>2, <2>3
    DEF Settle, FilesAt, StagePcs, ActivatePcs, Busy, At, App, Image, JournalMoves, Recorded
  <2>5. FilesKept'
    <3>1. IsWhole(files[task.app])
      BY <2>1, WholeIsWhole DEF FilesAt, ActivatePcs, Busy
    <3> QED BY <1>9, <2>1, <2>3, <3>1, FilesRecorded DEF Settle, Busy, Phases, Recorded
  <2>6. ReconcileAt' /\ StartAt'
    BY <2>2, WorkerOnly DEF WorkerSteps
  <2>7. ActivationAt'
    BY <1>9, <2>1, <2>2, <2>3
    DEF Settle, ActivationAt, WorkerSteps, At, App, Busy, IInv, Steps, LocalPhase
  <2>8. StopKept'
    BY <1>9, <2>1, <2>2, StopsStay DEF Settle, StartSteps
  <2>9. ReadyKept'
    BY <1>9, <2>1, <2>3, ReadyRecorded DEF Settle, Busy, Phases
  <2> QED BY <2>4, <2>5, <2>6, <2>7, <2>8, <2>9 DEF ServingInv
<1>10. CASE Probe
  <2>1. task.pc = "probe" /\ task.pc \in WorkerSteps /\ Busy
    BY <1>10, AtWork DEF Probe, At, WorkerSteps
  <2>2. task'.app = task.app /\ task'.pc = "conclude"
    BY <1>10, <2>1 DEF Probe, App, Goto, Verdict, Task, Busy, At
  <2>3. FilesAt'
    BY <1>10, <2>1, <2>2 DEF Probe, FilesAt, StagePcs, ActivatePcs, Busy, At, App, Image
  <2>4. FilesKept'
    BY <1>10, FilesStay DEF Probe
  <2>5. ReconcileAt' /\ StartAt'
    BY <2>2, WorkerOnly DEF WorkerSteps
  <2>6. ActivationAt'
    <3>1. task'.phase = "ready" => mark[task.app] # 0 \/ containers[task.app] = pending.candidate
      BY <1>10, <2>1 DEF Probe, Task, Busy, App, Candidate
    <3> QED BY <1>10, <2>1, <2>2, <3>1 DEF Probe, ActivationAt, WorkerSteps, At, Busy
  <2>7. StopKept'
    BY <1>10, <2>1, <2>2, StopsStay DEF Probe, StartSteps
  <2>8. ReadyKept'
    BY <1>10, ReadyStays DEF Probe
  <2> QED BY <2>3, <2>4, <2>5, <2>6, <2>7, <2>8 DEF ServingInv
<1>11. CASE Conclude
  <2>1. task.pc = "conclude" /\ task.pc \in WorkerSteps /\ Busy
        /\ journal[task.app].phase = "activated"
    BY <1>11, AtWork DEF Conclude, At, WorkerSteps, IInv, Steps, JournalAt, LocalPhase
  <2>2. task'.app = task.app /\ task'.pc = "close"
    BY <1>11, <2>1 DEF Conclude, App, Goto, Verdict, Task, Busy, At
  <2>3. FilesAt'
    BY <1>11, <2>1, <2>2 DEF Conclude, FilesAt, StagePcs, ActivatePcs, Busy, At, App, Image
  <2>4. FilesKept'
    BY <1>11, FilesStay DEF Conclude
  <2>5. ReconcileAt' /\ StartAt'
    BY <2>2, WorkerOnly DEF WorkerSteps
  <2>6. ActivationAt'
    <3>1. task'.phase = "ready" => containers'[task.app] = pending.candidate
      <4>1. CASE mark[App] = 0
        BY <1>11, <2>1, <4>1 DEF Conclude, Goto, Task, Busy, App, ActivationAt, At
      <4>2. CASE mark[App] # 0
        BY <1>11, <2>1, <4>2 DEF Conclude, Task, Busy
      <4> QED BY <4>1, <4>2
    <3> QED BY <1>11, <2>1, <2>2, <3>1 DEF Conclude, ActivationAt, At, Busy
  <2>7. StopKept'
    BY <1>11, <2>1, <2>2
    DEF Conclude, StopKept, Quiet, At, App, StartSteps, StopContainers, IInv, TypeOK
  <2>8. ReadyKept'
    BY <1>11, <2>1, <2>2
    DEF Conclude, ReadyKept, Quiet, App, OperationPhase, StopContainers, IInv, TypeOK
  <2> QED BY <2>3, <2>4, <2>5, <2>6, <2>7, <2>8 DEF ServingInv
<1>12. CASE Close
  <2>1. task.pc = "close" /\ task.pc \in WorkerSteps /\ Busy
        /\ task.phase \in {"activated", "ready", "prepared_stopped"}
    BY <1>12, AtWork DEF Close, At, WorkerSteps, IInv, Steps, JournalAt, LocalPhase
  <2>2. task'.app = task.app /\ task'.pc = "report"
    BY <1>12, <2>1 DEF Close, App, Goto, Verdict, Task, Busy, At
  <2>3. JournalMoves(task.app, task.phase)
    BY <1>12, <2>1, Records DEF Close, Busy, IInv, TypeOK, App, Phases
  <2>4. FilesAt'
    BY <1>12, <2>1, <2>2, <2>3
    DEF Close, FilesAt, StagePcs, ActivatePcs, Busy, At, App, Image, JournalMoves, Recorded
  <2>5. FilesKept'
    <3>1. IsWhole(files[task.app])
      BY <2>1, WholeIsWhole DEF FilesAt, ActivatePcs, Busy
    <3> QED BY <1>12, <2>1, <2>3, <3>1, FilesRecorded DEF Close, Busy, Phases, Recorded
  <2>6. ReconcileAt' /\ StartAt'
    BY <2>2, WorkerOnly DEF WorkerSteps
  <2>7. ActivationAt'
    BY <1>12, <2>1, <2>2, <2>3
    DEF Close, ActivationAt, WorkerSteps, At, App, Busy, IInv, Steps, LocalPhase
  <2>8. StopKept'
    BY <1>12, <2>1, <2>2, StopsStay DEF Close, StartSteps
  <2>9. ReadyKept'
    <3>1. CASE task.phase # "ready"
      BY <1>12, <2>1, <2>3, <3>1, ReadyRecorded DEF Close, Busy, Phases
    <3>2. CASE task.phase = "ready"
      <4>1. /\ files[task.app] = Whole(pending.candidate)
            /\ proxy[task.app] = pending.candidate /\ containers[task.app] = pending.candidate
        BY <2>1, <3>2 DEF FilesAt, ActivationAt, ActivatePcs, Busy, At
      <4> QED BY <1>12, <2>1, <2>3, <4>1
        DEF Close, Busy, JournalMoves, ReadyKept, Quiet, OperationPhase
    <3> QED BY <3>1, <3>2
  <2> QED BY <2>4, <2>5, <2>6, <2>7, <2>8, <2>9 DEF ServingInv
<1>13. CASE ActivationFails
  <2>1. task.pc \in WorkerSteps /\ Busy /\ journal[task.app].phase \notin Accepted
    <3>1. task.pc \in WorkerSteps
      BY <1>13 DEF ActivationFails, WorkerSteps
    <3> QED BY <1>13, <3>1, AtWork DEF ActivationFails, IInv, Steps, JournalAt, Accepted
  <2>2. task'.app = task.app /\ task'.pc = "failing"
    BY <1>13, <2>1 DEF ActivationFails, App, Goto, Verdict, Task, Busy, At
  <2>3. FilesAt'
    BY <1>13, <2>1, <2>2
    DEF ActivationFails, FilesAt, StagePcs, ActivatePcs, Busy, At, Image
  <2>4. FilesKept'
    BY <1>13, FilesStay DEF ActivationFails
  <2>5. ReconcileAt' /\ StartAt'
    BY <2>2, WorkerOnly DEF WorkerSteps
  <2>6. ActivationAt'
    BY <2>2 DEF ActivationAt, At
  <2>7. StopKept'
    BY <1>13, <2>1, <2>2
    DEF ActivationFails, StopKept, Quiet, At, App, StartSteps, StopContainers, IInv, TypeOK
  <2>8. ReadyKept'
    BY <1>13, <2>1, <2>2
    DEF ActivationFails, ReadyKept, Quiet, App, OperationPhase, StopContainers, ReloadProxy,
        Whole, File, IInv, TypeOK, Accepted
  <2> QED BY <2>3, <2>4, <2>5, <2>6, <2>7, <2>8 DEF ServingInv
<1>14. CASE Fail
  <2>1. task.pc = "failing" /\ task.pc \in WorkerSteps /\ Busy
    BY <1>14, AtWork DEF Fail, At, WorkerSteps
  <2>2. task'.app = task.app /\ task'.pc = "report"
    BY <1>14, <2>1 DEF Fail, App, Goto, Verdict, Task, Busy, At
  <2>3. \/ \E ph \in {"activation_failed", "readiness_failed", "failed"} :
             JournalMoves(task.app, ph)
        \/ UNCHANGED journal
    BY <1>14, <2>1, Records DEF Fail, Busy, IInv, TypeOK, App, Phases, Failure
  <2>4. FilesAt'
    <3>1. UNCHANGED <<files, pending, snapshots>> /\ ~pending.staged
      BY <1>14, <2>1 DEF Fail, FilesAt, ActivatePcs
    <3>2. \A a \in Apps : journal'[a] # NoOperation /\ journal'[a].phase = "admitted"
                            => journal[a] # NoOperation /\ journal'[a] = journal[a]
      BY <2>3 DEF JournalMoves, Recorded
    <3> QED BY <2>2, <3>1, <3>2 DEF FilesAt, StagePcs, ActivatePcs, At, Image
  <2>5. FilesKept'
    <3>1. UNCHANGED <<files, snapshots, torn>> /\ IsWhole(files[task.app])
      BY <1>14, <2>1, WholeIsWhole DEF Fail, FilesAt, ActivatePcs, Busy
    <3>2. CASE UNCHANGED journal
      BY <3>1, <3>2, FilesStay
    <3>3. ASSUME NEW ph \in {"activation_failed", "readiness_failed", "failed"},
                 JournalMoves(task.app, ph)
          PROVE  FilesKept'
      BY <2>1, <3>1, <3>3, FilesRecorded DEF Busy, Phases, Recorded
    <3> QED BY <2>3, <3>2, <3>3
  <2>6. ReconcileAt' /\ StartAt'
    BY <2>2, WorkerOnly DEF WorkerSteps
  <2>7. ActivationAt'
    BY <1>14, <2>1, <2>2, <2>3
    DEF Fail, ActivationAt, WorkerSteps, At, App, Busy, IInv, Steps, LocalPhase
  <2>8. StopKept'
    BY <1>14, <2>1, <2>2, StopsStay DEF Fail, StartSteps
  <2>9. ReadyKept'
    BY <1>14, <2>1, <2>3, ReadyRecorded, ReadyStays DEF Fail, Busy, Phases, Failure
  <2> QED BY <2>4, <2>5, <2>6, <2>7, <2>8, <2>9 DEF ServingInv
<1> QED BY <1>1, <1>2, <1>3, <1>4, <1>5, <1>6, <1>7, <1>8, <1>9, <1>10, <1>11, <1>12, <1>13,
     <1>14
  DEF Activate

(* The end of activation_pass(): the durable result, then the clean-up.    *)
LEMMA FinishServes == ASSUME IInv, IInv', ServingInv, Finish PROVE ServingInv'
<1>0. FilesAt /\ FilesKept /\ ReconcileAt /\ ActivationAt /\ StartAt /\ StopKept /\ ReadyKept
  BY DEF ServingInv
<1> USE <1>0
<1>1. CASE Report
  <2>1. task.pc = "report" /\ task.pc \in WorkerSteps /\ Busy
    BY <1>1, AtWork DEF Report, At, WorkerSteps
  <2>2. task'.app = task.app /\ task'.pc = "clean"
    BY <1>1, <2>1 DEF Report, App, Goto, Verdict, Task, Busy, At
  <2>3. FilesAt'
    BY <1>1, <2>1, <2>2 DEF Report, FilesAt, StagePcs, ActivatePcs, Busy, At, App, Image
  <2>4. FilesKept'
    BY <1>1, FilesStay DEF Report
  <2>5. ReconcileAt' /\ StartAt'
    BY <2>2, WorkerOnly DEF WorkerSteps
  <2>6. ActivationAt'
    BY <1>1, <2>1, <2>2
    DEF Report, ActivationAt, WorkerSteps, At, App, Busy, IInv, Steps, LocalPhase
  <2>7. StopKept'
    BY <1>1, <2>1, <2>2, StopsStay DEF Report, StartSteps
  <2>8. ReadyKept'
    BY <1>1, ReadyStays DEF Report
  <2> QED BY <2>3, <2>4, <2>5, <2>6, <2>7, <2>8 DEF ServingInv
<1>2. CASE Clean
  <2>1. task.pc = "clean" /\ task.pc \in WorkerSteps /\ Busy
    BY <1>2, AtWork DEF Clean, At, WorkerSteps
  <2>2. /\ task'.app = task.app /\ task'.pc = "drop"
        /\ task'.phase = task.phase
    BY <1>2, <2>1 DEF Clean, App, Goto, Verdict, Task, Busy, At
  <2>3. FilesAt'
    BY <1>2, <2>1, <2>2 DEF Clean, FilesAt, StagePcs, ActivatePcs, Busy, At, App, Image
  <2>4. FilesKept'
    <3>1. CASE task.phase \notin Accepted
      BY <1>2, <3>1, FilesStay DEF Clean
    <3>2. CASE task.phase \in Accepted
      <4>1. journal[task.app].phase \in Accepted
        BY <2>1, <3>2 DEF IInv, Steps, JournalAt
      <4>2. /\ \A a \in Apps : a # task.app => snapshots'[a] = snapshots[a]
            /\ snapshots'[task.app][journal[task.app].id] = NoSnapshot
        BY <1>2, <2>1, <3>2 DEF Clean, App, Busy, IInv, TypeOK
      <4> QED BY <1>2, <2>1, <4>1, <4>2 DEF Clean, FilesKept, Accepted, Fence, Image, Busy
    <3> QED BY <3>1, <3>2
  <2>5. ReconcileAt' /\ StartAt'
    BY <2>2, WorkerOnly DEF WorkerSteps
  <2>6. ActivationAt'
    BY <1>2, <2>1, <2>2
    DEF Clean, ActivationAt, WorkerSteps, At, App, Busy, IInv, Steps, LocalPhase
  <2>7. StopKept'
    BY <1>2, <2>1, <2>2, StopsStay DEF Clean, StartSteps
  <2>8. ReadyKept'
    BY <1>2, ReadyStays DEF Clean
  <2> QED BY <2>3, <2>4, <2>5, <2>6, <2>7, <2>8 DEF ServingInv
<1>3. CASE Drop
  <2>1. task.pc = "drop" /\ task.pc \in WorkerSteps /\ Busy
    BY <1>3, AtWork DEF Drop, At, WorkerSteps
  <2>2. task' = Idle
    BY <1>3 DEF Drop, Leave
  <2>3. FilesAt'
    BY <1>3, <2>2, NobodyServing DEF Drop, FilesAt, StagePcs, ActivatePcs, At, Image
  <2>4. FilesKept'
    BY <1>3, FilesStay DEF Drop
  <2>5. ReconcileAt' /\ StartAt' /\ ActivationAt'
    BY <2>2, NobodyServing
  <2>6. StopKept'
    BY <1>3, <2>1, <2>2, StopsStay, NobodyServing DEF Drop, StartSteps
  <2>7. ReadyKept'
    BY <1>3, ReadyStays DEF Drop
  <2> QED BY <2>3, <2>4, <2>5, <2>6, <2>7 DEF ServingInv
<1> QED BY <1>1, <1>2, <1>3 DEF Finish

(* deployment-submit of src/src/host/workload/commands.rs: the admission,  *)
(* the credential slot, the queued request.                                *)
LEMMA SubmissionServes == ASSUME IInv, IInv', ServingInv, Submission PROVE ServingInv'
<1>0. FilesAt /\ FilesKept /\ ReconcileAt /\ ActivationAt /\ StartAt /\ StopKept /\ ReadyKept
  BY DEF ServingInv
<1> USE <1>0
<1>1. ASSUME NEW a \in Apps, NEW c \in Revisions, Submit(a, c) PROVE ServingInv'
  <2>1. task = Idle /\ task.pc = "idle" /\ pending = NoRequest
    BY <1>1 DEF Submit, LocksFree, ActivationIdle, Idle
  <2>2. /\ task'.pc = "admitted"
        /\ task'.app = a
    BY <1>1, <2>1
    DEF Submit, Goto, Task, Operating, At, IInv, Steps, HolderHasSubject, Enter, Idle
  <2>10. /\ lastId + 1 \in Ids /\ lastId + 1 > lastId /\ snapshots[a][lastId + 1] = NoSnapshot
    BY <1>1, HostAssumption DEF Submit, IInv, TypeOK, Books, IdsFresh, Ids, HostAssumption
  <2>11. /\ journal'[a] # NoOperation /\ journal'[a].id = lastId + 1
         /\ journal'[a].phase = "admitted" /\ journal'[a].previous = files[a]["env"]
         /\ \A b \in Apps : b # a => journal'[b] = journal[b]
         /\ UNCHANGED <<snapshots, files, pending>>
    <3>1. [id |-> lastId + 1, candidate |-> c, previous |-> files[a]["env"],
           phase |-> "admitted"] \in Operation
      BY <2>10 DEF Operation, Phases, IInv, TypeOK, File
    <3> QED BY <1>1, <3>1, HostAssumption DEF Submit, IInv, TypeOK, HostAssumption
  <2>3. FilesAt'
    BY <2>1, <2>2, <2>10, <2>11 DEF FilesAt, StagePcs, ActivatePcs, At, Image
  <2>4. FilesKept'
    <3>1. a \notin torn' => files[a] = Whole(files[a]["env"])
      <4>1. a \notin torn' => IsWhole(files[a])
        BY <1>1 DEF Submit, FilesKept, MayAdmit, OperationPhase
      <4>2. files[a] \in [File -> Installed] /\ "env" \in File
        BY DEF IInv, TypeOK, File
      <4> QED BY <4>1, <4>2, WholeAgrees
    <3>2. \A b \in Apps : b # a => (b \in torn' <=> b \in torn)
      BY <1>1 DEF Submit
    <3> QED BY <2>10, <2>11, <3>1, <3>2, WholeIsWhole DEF FilesKept, Image
  <2>5. ReconcileAt'
    BY <1>1, <2>1, <2>2
    DEF Submit, ReconcileAt, Reconciling, ReconcileSteps, At, Operating, Subject, Current,
        Image, Serving
  <2>6. StartAt'
    BY <1>1, <2>1, <2>2 DEF Submit, StartAt, StartSteps, Operating, At, Quiet, Subject
  <2>7. ActivationAt'
    BY <2>2 DEF ActivationAt, WorkerSteps
  <2>8. StopKept'
    BY <1>1, <2>1, <2>2, StopsStay DEF Submit, StartSteps
  <2>9. ReadyKept'
    <3>1. UNCHANGED <<proxy, containers, mark, stopping, disturbed>>
      BY <1>1 DEF Submit
    <3> QED BY <2>11, <3>1 DEF ReadyKept, Quiet, OperationPhase
  <2> QED BY <2>3, <2>4, <2>5, <2>6, <2>7, <2>8, <2>9 DEF ServingInv
<1>2. CASE SubmitSlot
  <2>1. task.pc = "admitted" /\ Operating
    BY <1>2, AtOffice DEF SubmitSlot, At, SubmitSteps, ReconcileSteps, StartSteps
  <2>2. /\ task'.pc = "slot"
        /\ task'.app = task.app
        /\ task'.phase = task.phase
        /\ task'.seen = task.seen
    BY <1>2, <2>1 DEF SubmitSlot, Goto, Task, Operating, At, IInv, Steps, HolderHasSubject
  <2>3. FilesAt'
    BY <1>2, <2>1, <2>2 DEF SubmitSlot, FilesAt, StagePcs, ActivatePcs, At, Image, Operating
  <2>4. FilesKept'
    BY <1>2, FilesStay DEF SubmitSlot
  <2>5. ReconcileAt'
    BY <1>2, <2>1, <2>2
    DEF SubmitSlot, ReconcileAt, Reconciling, ReconcileSteps, At, Operating, Subject,
        Current, Image, Serving
  <2>6. StartAt'
    BY <1>2, <2>1, <2>2 DEF SubmitSlot, StartAt, StartSteps, Operating, At, Quiet, Subject
  <2>7. ActivationAt'
    BY <2>2 DEF ActivationAt, WorkerSteps
  <2>8. StopKept'
    BY <1>2, <2>1, <2>2, StopsStay DEF SubmitSlot, StartSteps
  <2>9. ReadyKept'
    BY <1>2, ReadyStays DEF SubmitSlot
  <2> QED BY <2>3, <2>4, <2>5, <2>6, <2>7, <2>8, <2>9 DEF ServingInv
<1>3. CASE SubmitQueue
  <2>1. task.pc = "slot" /\ Operating
    BY <1>3, AtOffice DEF SubmitQueue, At, SubmitSteps, ReconcileSteps, StartSteps
  <2>2. task' = Idle
    BY <1>3 DEF SubmitQueue, Leave
  <2>3. FilesAt'
    BY <1>3, <2>1, <2>2, NobodyServing
    DEF SubmitQueue, FilesAt, StagePcs, ActivatePcs, At, Image, Operating
  <2>4. FilesKept'
    BY <1>3, FilesStay DEF SubmitQueue
  <2>5. ReconcileAt' /\ StartAt' /\ ActivationAt'
    BY <2>2, NobodyServing
  <2>6. StopKept'
    BY <1>3, <2>1, <2>2, StopsStay, NobodyServing DEF SubmitQueue, StartSteps
  <2>7. ReadyKept'
    BY <1>3, ReadyStays DEF SubmitQueue
  <2> QED BY <2>3, <2>4, <2>5, <2>6, <2>7 DEF ServingInv
<1>4. CASE SubmitFails
  <2>1. task.pc \in {"admitted", "slot"} /\ Operating
    BY <1>4, AtOffice DEF SubmitFails, At, SubmitSteps, ReconcileSteps, StartSteps
  <2>2. task' = Idle
    BY <1>4 DEF SubmitFails, Leave
  <2>3. FilesAt'
    BY <1>4, <2>1, <2>2, NobodyServing
    DEF SubmitFails, FilesAt, StagePcs, ActivatePcs, At, Image, Operating
  <2>4. FilesKept'
    BY <1>4, FilesStay DEF SubmitFails
  <2>5. ReconcileAt' /\ StartAt' /\ ActivationAt'
    BY <2>2, NobodyServing
  <2>6. StopKept'
    BY <1>4, <2>1, <2>2, StopsStay, NobodyServing DEF SubmitFails, StartSteps
  <2>7. ReadyKept'
    BY <1>4, ReadyStays DEF SubmitFails
  <2> QED BY <2>3, <2>4, <2>5, <2>6, <2>7 DEF ServingInv
<1> QED BY <1>1, <1>2, <1>3, <1>4 DEF Submission

(* reconcile() of src/src/host/workload/reconciliation.rs.                 *)
LEMMA ReconciliationServes == ASSUME IInv, IInv', ServingInv, Reconciliation PROVE ServingInv'
<1>0. FilesAt /\ FilesKept /\ ReconcileAt /\ ActivationAt /\ StartAt /\ StopKept /\ ReadyKept
  BY DEF ServingInv
<1> USE <1>0
<1>1. ASSUME NEW a \in Apps, AbandonInitial(a) PROVE ServingInv'
  <2>1. task = Idle /\ task.pc = "idle" /\ pending = NoRequest
    BY <1>1 DEF AbandonInitial, Reviewable, LocksFree, ActivationIdle, Idle
  <2>2. task'.pc = "idle"
    BY <1>1, <2>1 DEF AbandonInitial
  <2>10. /\ JournalMoves(a, "reconciled") /\ UNCHANGED <<files, snapshots, torn>>
         /\ files[a] = Whole(NoRevision)
    BY <1>1, Records DEF AbandonInitial, Empty, IInv, TypeOK, Phases
  <2>3. FilesAt'
    <3>1. \A b \in Apps : journal'[b] # NoOperation /\ journal'[b].phase = "admitted"
                            => journal[b] # NoOperation /\ journal'[b] = journal[b]
      BY <2>10 DEF JournalMoves, Recorded
    <3> QED BY <1>1, <2>1, <2>2, <2>10, <3>1
      DEF AbandonInitial, FilesAt, StagePcs, ActivatePcs, At, Image
  <2>4. FilesKept'
    BY <2>10, FilesRecorded, WholeIsWhole DEF Phases, Recorded
  <2>5. ReconcileAt'
    BY <1>1, <2>1, <2>2
    DEF AbandonInitial, ReconcileAt, Reconciling, ReconcileSteps, At, Operating, Subject,
        Current, Image, Serving
  <2>6. StartAt'
    BY <1>1, <2>1, <2>2
    DEF AbandonInitial, StartAt, StartSteps, Operating, At, Quiet, Subject
  <2>7. ActivationAt'
    BY <2>2 DEF ActivationAt, WorkerSteps
  <2>8. StopKept'
    BY <1>1, <2>1, <2>2, StopsStay DEF AbandonInitial, StartSteps
  <2>9. ReadyKept'
    BY <1>1, <2>10, ReadyRecorded DEF AbandonInitial, Phases
  <2> QED BY <2>3, <2>4, <2>5, <2>6, <2>7, <2>8, <2>9 DEF ServingInv
<1>2. ASSUME NEW a \in Apps, RestoreServing(a) PROVE ServingInv'
  <2>1. task = Idle /\ task.pc = "idle" /\ pending = NoRequest
    BY <1>2 DEF RestoreServing, Reviewable, LocksFree, ActivationIdle, Idle
  <2>2. /\ task'.pc \in {"serve", "put back"}
        /\ task'.app = a
    BY <1>2, <2>1
    DEF RestoreServing, Goto, Task, Operating, At, IInv, Steps, HolderHasSubject, Idle
  <2>3. FilesAt'
    BY <1>2, <2>1, <2>2
    DEF RestoreServing, FilesAt, StagePcs, ActivatePcs, At, Image, Operating
  <2>4. FilesKept'
    BY <1>2, FilesStay DEF RestoreServing
  <2>5. ReconcileAt'
    <3>1. /\ task'.at = 1 /\ task'.phase = "restore-serving"
          /\ task'.pc = IF Image(a) = NoSnapshot THEN "serve" ELSE "put back"
      BY <1>2 DEF RestoreServing, Idle, Image
    <3>2. /\ UNCHANGED <<journal, files, retained, containers, proxy, torn, snapshots>>
          /\ journal[a] # NoOperation /\ journal[a].phase \in Reconcilable
          /\ retained[a].current = journal[a].previous
      BY <1>2
      DEF RestoreServing, Reviewable, Restorable, OperationPhase, Reconcilable, Fence
    <3>3. CASE Image(a) = NoSnapshot
      <4>1. journal[a].phase \in {"staging", "staging_failed"}
        BY <1>2, <3>3 DEF RestoreServing, Restorable, Image
      <4>2. a \notin torn => files[a] = Whole(journal[a].previous)
        BY <3>2, <3>3, <4>1 DEF FilesKept
      <4> QED BY <2>2, <3>1, <3>2, <3>3, <4>2 DEF ReconcileAt, At, Serving, Current, Subject
    <3>4. CASE Image(a) # NoSnapshot
      <4>1. Image(a)["env"] = journal[a].previous
        BY <1>2, <3>4 DEF RestoreServing, Restorable, Image
      <4>2. snapshots'[task'.app][journal'[task'.app].id]["env"] = journal[a].previous
        BY <2>2, <3>2, <4>1 DEF Image
      <4>3. \A k \in 1..4 : ~(k < 1)
        OBVIOUS
      <4> QED BY <2>2, <3>1, <3>2, <3>4, <4>2, <4>3 DEF ReconcileAt, At, Image
    <3> QED BY <3>3, <3>4
  <2>6. StartAt'
    BY <1>2, <2>1, <2>2
    DEF RestoreServing, StartAt, StartSteps, Operating, At, Quiet, Subject
  <2>7. ActivationAt'
    BY <2>2 DEF ActivationAt, WorkerSteps
  <2>8. StopKept'
    BY <1>2, <2>1, <2>2, StopsStay DEF RestoreServing, StartSteps
  <2>9. ReadyKept'
    BY <1>2, ReadyStays DEF RestoreServing
  <2> QED BY <2>3, <2>4, <2>5, <2>6, <2>7, <2>8, <2>9 DEF ServingInv
<1>3. ASSUME NEW a \in Apps, AcceptCandidate(a) PROVE ServingInv'
  <2>1. task = Idle /\ task.pc = "idle" /\ pending = NoRequest
    BY <1>3 DEF AcceptCandidate, Reviewable, LocksFree, ActivationIdle, Idle
  <2>2. /\ task'.pc = "serve"
        /\ task'.app = a
    BY <1>3, <2>1
    DEF AcceptCandidate, Goto, Task, Operating, At, IInv, Steps, HolderHasSubject, Idle
  <2>3. FilesAt'
    BY <1>3, <2>1, <2>2
    DEF AcceptCandidate, FilesAt, StagePcs, ActivatePcs, At, Image, Operating
  <2>4. FilesKept'
    BY <1>3, FilesStay DEF AcceptCandidate
  <2>5. ReconcileAt'
    <3>1. task'.phase = "accept-candidate"
      BY <1>3 DEF AcceptCandidate, Idle
    <3>2. /\ UNCHANGED <<journal, files>>
          /\ journal[a] # NoOperation /\ journal[a].phase \in Reconcilable
          /\ files[a]["compose"] = journal[a].candidate
      BY <1>3 DEF AcceptCandidate, Reviewable, OperationPhase, Reconcilable, Fence
    <3> QED BY <2>2, <3>1, <3>2 DEF ReconcileAt, At
  <2>6. StartAt'
    BY <1>3, <2>1, <2>2
    DEF AcceptCandidate, StartAt, StartSteps, Operating, At, Quiet, Subject
  <2>7. ActivationAt'
    BY <2>2 DEF ActivationAt, WorkerSteps
  <2>8. StopKept'
    BY <1>3, <2>1, <2>2, StopsStay DEF AcceptCandidate, StartSteps
  <2>9. ReadyKept'
    BY <1>3, ReadyStays DEF AcceptCandidate
  <2> QED BY <2>3, <2>4, <2>5, <2>6, <2>7, <2>8, <2>9 DEF ServingInv
<1>4. CASE PutBack
  <2>1. task.pc = "put back" /\ Operating /\ Reconciling
    BY <1>4, AtOffice DEF PutBack, At, SubmitSteps, ReconcileSteps, StartSteps, Reconciling
  <2>2. /\ task.at \in 1..4 /\ task'.app = task.app /\ task'.phase = task.phase
        /\ IF task.at = 4 THEN task'.pc = "serve"
                          ELSE task'.pc = "put back" /\ task'.at = task.at + 1
    BY <1>4, <2>1 DEF PutBack, Task, Operating
  <2>10. UNCHANGED <<journal, pending, snapshots, retained, containers, proxy, owner>>
    BY <1>4 DEF PutBack
  <2>11. /\ journal[task.app].phase \in Reconcilable /\ task.phase = "restore-serving"
         /\ Image(task.app)["env"] = journal[task.app].previous
         /\ retained[task.app].current = journal[task.app].previous
         /\ \A k \in 1..4 : k < task.at =>
              files[task.app][FileOrder[k]] = Image(task.app)[FileOrder[k]]
    BY <2>1 DEF ReconcileAt, At
  <2>12. Image(task.app) # NoSnapshot /\ Image(task.app) \in [File -> Installed]
    <3>1. snapshots \in [Apps -> [Ids -> [File -> Installed] \cup {NoSnapshot}]]
          /\ journal[task.app].id \in Ids
      BY <2>1 DEF IInv, TypeOK, Operating, Operation, Reconciling
    <3> QED BY <2>1, <3>1 DEF IInv, Steps, SnapshotThere, At, Image, Operating
  <2>13. /\ \A b \in Apps : b # task.app => files'[b] = files[b]
         /\ files'[task.app][FileOrder[task.at]] = Image(task.app)[FileOrder[task.at]]
         /\ \A g \in File : g # FileOrder[task.at] => files'[task.app][g] = files[task.app][g]
         /\ files'[task.app] \in [File -> Installed]
    <3>1. Write(task.app, FileOrder[task.at], Image(task.app)[FileOrder[task.at]])
      BY <1>4 DEF PutBack, Subject, Current, Image
    <3>2. files'[task.app] \in [File -> Installed]
      BY <2>1 DEF IInv, TypeOK, Operating
    <3>3. FileOrder[task.at] \in File
      BY <2>2, FilesInOrder
    <3>4. files \in [Apps -> [File -> Installed]] /\ task.app \in Apps
      BY <2>1 DEF IInv, TypeOK, Operating
    <3> QED BY <3>1, <3>2, <3>3, <3>4 DEF Write
  <2>14. \A k \in 1..4 : k < task.at + 1 =>
           files'[task.app][FileOrder[k]] = Image(task.app)[FileOrder[k]]
    <3>1. ASSUME NEW k \in 1..4, k < task.at + 1
          PROVE  files'[task.app][FileOrder[k]] = Image(task.app)[FileOrder[k]]
      <4>1. CASE k = task.at
        BY <2>13, <4>1
      <4>2. CASE k # task.at
        <5>1. k < task.at
          <6>1. task.at \in 1..4
            BY <2>2
          <6> QED BY <3>1, <4>2, <6>1
        <5>2. FileOrder[k] \in File /\ FileOrder[k] # FileOrder[task.at]
          BY <2>2, <4>2, FilesInOrder
        <5> QED BY <2>11, <2>13, <5>1, <5>2
      <4> QED BY <4>1, <4>2
    <3> QED BY <3>1
  <2>15. task.at = 4 => files'[task.app] = Image(task.app)
    <3>1. task.at = 4 => \A f \in File : files'[task.app][f] = Image(task.app)[f]
      BY <2>14, FilesInOrder
    <3> QED BY <2>12, <2>13, <3>1
  <2>16. /\ FilesKept'
         /\ task.at = 4 /\ task.app \notin torn'
              => files'[task.app] = Whole(journal[task.app].previous)
    <3>1. CASE journal[task.app].phase \in Fence
      <4>1. torn' = torn
        BY <1>4, <3>1 DEF PutBack, Current, Subject
      <4>2. FilesKept'
        BY <2>1, <2>10, <2>12, <2>13, <3>1, <4>1, FilesTouched DEF Operating, Reconciling
      <4>3. task.app \notin torn => Image(task.app) = Whole(journal[task.app].previous)
        BY <2>1, <2>12, <3>1 DEF FilesKept, Operating, Reconciling, Fence
      <4> QED BY <2>15, <4>1, <4>2, <4>3
    <3>2. CASE journal[task.app].phase \notin Fence
      <4>1. /\ task.app \notin torn' => task.at = 4 /\ IsWhole(files'[task.app])
            /\ \A b \in Apps : b # task.app => (b \in torn' <=> b \in torn)
        BY <1>4, <3>2 DEF PutBack, Current, Subject
      <4>2. task.app \notin torn' => /\ files'[task.app] = Whole(journal[task.app].previous)
                                     /\ Image(task.app) = Whole(journal[task.app].previous)
        BY <2>11, <2>12, <2>15, <4>1, WholeAgrees DEF File
      <4>3. ASSUME NEW b \in Apps \ torn', b # task.app, journal[b] # NoOperation
            PROVE  /\ b \notin torn /\ files'[b] = files[b]
        BY <2>13, <4>1, <4>3
      <4>4. FilesKept'
        BY <2>1, <2>10, <2>13, <3>2, <4>1, <4>2, WholeIsWhole
        DEF FilesKept, Image, Operating, Reconciling, Fence
      <4> QED BY <2>15, <4>2, <4>4
    <3> QED BY <3>1, <3>2
  <2>3. FilesAt'
    BY <2>1, <2>2, <2>10 DEF FilesAt, StagePcs, ActivatePcs, At, Image, Operating
  <2>5. ReconcileAt'
    <3>1. CASE task.at = 4
      BY <2>1, <2>2, <2>10, <2>11, <2>16, <3>1 DEF ReconcileAt, At
    <3>2. CASE task.at # 4
      <4>1. /\ snapshots'[task'.app][journal'[task'.app].id]["env"] = journal[task.app].previous
            /\ \A k \in 1..4 : k < task'.at => files'[task'.app][FileOrder[k]]
                   = snapshots'[task'.app][journal'[task'.app].id][FileOrder[k]]
        BY <2>2, <2>10, <2>11, <2>14, <3>2 DEF Image
      <4> QED BY <2>2, <2>10, <2>11, <3>2, <4>1 DEF ReconcileAt, At, Image
    <3> QED BY <3>1, <3>2
  <2>6. StartAt' /\ ActivationAt'
    BY <2>2 DEF StartAt, StartSteps, ActivationAt, WorkerSteps
  <2>8. StopKept'
    BY <2>1, <2>2, <2>10, StopsStay DEF StartSteps
  <2>9. ReadyKept'
    BY <2>1, <2>10, <2>11, <2>13, ReadyElsewhere
    DEF Operating, OperationPhase, Reconcilable, Fence
  <2> QED BY <2>3, <2>5, <2>6, <2>8, <2>9, <2>16 DEF ServingInv
<1>5. CASE Serve
  <2>1. task.pc = "serve" /\ Operating
    BY <1>5, AtOffice DEF Serve, At, SubmitSteps, ReconcileSteps, StartSteps
  <2>2. /\ task'.pc = "confirm"
        /\ task'.app = task.app
        /\ task'.phase = task.phase
        /\ task'.seen = task.seen
    BY <1>5, <2>1 DEF Serve, Goto, Task, Operating, At, IInv, Steps, HolderHasSubject
  <2>3. FilesAt'
    BY <1>5, <2>1, <2>2 DEF Serve, FilesAt, StagePcs, ActivatePcs, At, Image, Operating
  <2>4. FilesKept'
    BY <1>5, FilesStay DEF Serve
  <2>5. ReconcileAt'
    BY <1>5, <2>1, <2>2
    DEF Serve, ReconcileAt, Reconciling, ReconcileSteps, At, Operating, Image, ReloadProxy,
        Whole, File
  <2>6. StartAt'
    BY <1>5, <2>1, <2>2 DEF Serve, StartAt, StartSteps, Operating, At, Quiet, Subject
  <2>7. ActivationAt'
    BY <2>2 DEF ActivationAt, WorkerSteps
  <2>8. StopKept'
    BY <1>5, <2>1, <2>2, StopsStay DEF Serve, StartSteps
  <2>9. ReadyKept'
    BY <1>5, <2>1, <2>2
    DEF Serve, ReadyKept, Quiet, OperationPhase, Subject, Operating, At, StartAt,
        StartSteps, IInv, TypeOK, ReloadProxy, Whole, File
  <2> QED BY <2>3, <2>4, <2>5, <2>6, <2>7, <2>8, <2>9 DEF ServingInv
<1>6. CASE Confirm
  <2>1. task.pc = "confirm" /\ Operating
    BY <1>6, AtOffice DEF Confirm, At, SubmitSteps, ReconcileSteps, StartSteps
  <2>2. /\ task'.pc = "keep"
        /\ task'.app = task.app
        /\ task'.phase = task.phase
        /\ task'.seen = task.seen
    BY <1>6, <2>1 DEF Confirm, Goto, Task, Operating, At, IInv, Steps, HolderHasSubject
  <2>3. FilesAt'
    BY <1>6, <2>1, <2>2 DEF Confirm, FilesAt, StagePcs, ActivatePcs, At, Image, Operating
  <2>4. FilesKept'
    BY <1>6, FilesStay DEF Confirm
  <2>5. ReconcileAt'
    BY <1>6, <2>1, <2>2
    DEF Confirm, ReconcileAt, Reconciling, ReconcileSteps, At, Operating, Subject, Current,
        Image, Serving, Serves
  <2>6. StartAt'
    BY <1>6, <2>1, <2>2 DEF Confirm, StartAt, StartSteps, Operating, At, Quiet, Subject
  <2>7. ActivationAt'
    BY <2>2 DEF ActivationAt, WorkerSteps
  <2>8. StopKept'
    BY <1>6, <2>1, <2>2, StopsStay DEF Confirm, StartSteps
  <2>9. ReadyKept'
    BY <1>6, ReadyStays DEF Confirm
  <2> QED BY <2>3, <2>4, <2>5, <2>6, <2>7, <2>8, <2>9 DEF ServingInv
<1>7. CASE OwnerChanged
  <2>1. task.pc \in {"confirm", "keep"} /\ Operating
        /\ OperationPhase(task.app) # "ready"
    BY <1>7, AtOffice
    DEF OwnerChanged, At, SubmitSteps, ReconcileSteps, StartSteps, ReconcileAt, Reconciling,
        OperationPhase, Reconcilable, Fence
  <2>2. task' = Idle
    BY <1>7 DEF OwnerChanged, Leave
  <2>3. FilesAt'
    BY <1>7, <2>1, <2>2, NobodyServing
    DEF OwnerChanged, FilesAt, StagePcs, ActivatePcs, At, Image, Operating
  <2>4. FilesKept'
    BY <1>7, FilesStay DEF OwnerChanged
  <2>5. ReconcileAt' /\ StartAt' /\ ActivationAt'
    BY <2>2, NobodyServing
  <2>6. StopKept'
    BY <1>7, <2>1, <2>2, NobodyServing
    DEF OwnerChanged, StopKept, Quiet, At, Subject, StartSteps, Operating, IInv, TypeOK,
        StopContainers
  <2>7. ReadyKept'
    BY <1>7, <2>1, <2>2
    DEF OwnerChanged, ReadyKept, Quiet, OperationPhase, Subject, Operating, At, StartAt,
        StartSteps, IInv, TypeOK, StopContainers
  <2> QED BY <2>3, <2>4, <2>5, <2>6, <2>7 DEF ServingInv
<1>8. CASE Keep
  <2>1. task.pc = "keep" /\ Operating
    BY <1>8, AtOffice DEF Keep, At, SubmitSteps, ReconcileSteps, StartSteps
  <2>2. /\ task'.pc = "record"
        /\ task'.app = task.app
        /\ task'.phase = task.phase
        /\ task'.seen = task.seen
    BY <1>8, <2>1 DEF Keep, Goto, Task, Operating, At, IInv, Steps, HolderHasSubject
  <2>3. FilesAt'
    BY <1>8, <2>1, <2>2 DEF Keep, FilesAt, StagePcs, ActivatePcs, At, Image, Operating
  <2>4. FilesKept'
    BY <1>8, FilesStay DEF Keep
  <2>5. ReconcileAt'
    BY <1>8, <2>1, <2>2
    DEF Keep, ReconcileAt, Reconciling, ReconcileSteps, At, Operating, Subject, Current,
        Image, Serving
  <2>6. StartAt'
    BY <1>8, <2>1, <2>2 DEF Keep, StartAt, StartSteps, Operating, At, Quiet, Subject
  <2>7. ActivationAt'
    BY <2>2 DEF ActivationAt, WorkerSteps
  <2>8. StopKept'
    BY <1>8, <2>1, <2>2, StopsStay DEF Keep, StartSteps
  <2>9. ReadyKept'
    BY <1>8, ReadyStays DEF Keep
  <2> QED BY <2>3, <2>4, <2>5, <2>6, <2>7, <2>8, <2>9 DEF ServingInv
<1>9. CASE RecordReconciled
  <2>1. task.pc = "record" /\ Operating
    BY <1>9, AtOffice DEF RecordReconciled, At, SubmitSteps, ReconcileSteps, StartSteps
  <2>2. task' = Idle
    BY <1>9 DEF RecordReconciled, Leave
  <2>3. JournalMoves(task.app, "reconciled")
    BY <1>9, <2>1, Records DEF RecordReconciled, Operating, IInv, TypeOK, Subject, Phases
  <2>4. FilesAt'
    BY <1>9, <2>1, <2>2, <2>3, NobodyServing
    DEF RecordReconciled, FilesAt, StagePcs, ActivatePcs, At, Image, Operating,
        JournalMoves, Recorded
  <2>5. FilesKept'
    BY <1>9, <2>1, <2>3
    DEF RecordReconciled, JournalMoves, Recorded, FilesKept, Image, Operating, Subject,
        Fence
  <2>6. ReconcileAt' /\ StartAt' /\ ActivationAt'
    BY <2>2, NobodyServing
  <2>7. StopKept'
    BY <1>9, <2>1, <2>2, StopsStay, NobodyServing DEF RecordReconciled, StartSteps
  <2>8. ReadyKept'
    BY <1>9, <2>1, <2>3, ReadyRecorded DEF RecordReconciled, Operating, Phases
  <2> QED BY <2>4, <2>5, <2>6, <2>7, <2>8 DEF ServingInv
<1>10. CASE ReconcileFails
  <2>1. task.pc \in {"put back", "serve", "confirm", "keep", "record"} /\ Operating
    BY <1>10, AtOffice DEF ReconcileFails, At, SubmitSteps, ReconcileSteps, StartSteps
  <2>2. task' = Idle
    BY <1>10 DEF ReconcileFails, Leave
  <2>3. FilesAt'
    BY <1>10, <2>1, <2>2, NobodyServing
    DEF ReconcileFails, FilesAt, StagePcs, ActivatePcs, At, Image, Operating
  <2>4. FilesKept'
    BY <1>10, FilesStay DEF ReconcileFails
  <2>5. ReconcileAt' /\ StartAt' /\ ActivationAt'
    BY <2>2, NobodyServing
  <2>6. StopKept'
    BY <1>10, <2>1, <2>2, StopsStay, NobodyServing DEF ReconcileFails, StartSteps
  <2>7. ReadyKept'
    BY <1>10, ReadyStays DEF ReconcileFails
  <2> QED BY <2>3, <2>4, <2>5, <2>6, <2>7 DEF ServingInv
<1> QED BY <1>1, <1>2, <1>3, <1>4, <1>5, <1>6, <1>7, <1>8, <1>9, <1>10 DEF Reconciliation

(* perform_typed_owner() of src/src/host/workload/owner.rs, and its record. *)
LEMMA LifecycleServes == ASSUME IInv, IInv', ServingInv, Lifecycle PROVE ServingInv'
<1>0. FilesAt /\ FilesKept /\ ReconcileAt /\ ActivationAt /\ StartAt /\ StopKept /\ ReadyKept
  BY DEF ServingInv
<1> USE <1>0
<1>1. ASSUME NEW a \in Apps, Stop(a) PROVE ServingInv'
  <2>1. /\ UNCHANGED <<journal, pending, snapshots, files, torn, retained, containers, proxy, task>>
        /\ \A b \in Apps : b # a => /\ mark'[b] = mark[b]
                                    /\ b \in stopping' <=> b \in stopping
                                    /\ b \in disturbed' <=> b \in disturbed
        /\ mark[a] # 0 => mark'[a] # 0
        /\ mark'[a] # 0
        /\ a \in stopping' \/ a \in disturbed'
    BY <1>1, HostAssumption DEF Stop, IInv, TypeOK, HostAssumption
  <2>2. ~At("idle") => task.app \in Apps
    BY DEF IInv, Steps, HolderHasSubject
  <2>3. FilesAt'
    BY <2>1 DEF FilesAt, At, Image
  <2>4. FilesKept'
    BY <2>1, FilesStay
  <2>5. ReconcileAt'
    BY <2>1 DEF ReconcileAt, Reconciling, At, Image, Serving, Current, Subject
  <2>6. StartAt'
    BY <2>1, <2>2 DEF StartAt, StartSteps, At, Quiet
  <2>7. ActivationAt'
    BY <2>1, <2>2 DEF ActivationAt, WorkerSteps, At
  <2>8. StopKept'
    BY <2>1, <2>2 DEF StopKept, Quiet, At
  <2>9. ReadyKept'
    BY <2>1 DEF ReadyKept, Quiet, OperationPhase
  <2> QED BY <2>3, <2>4, <2>5, <2>6, <2>7, <2>8, <2>9 DEF ServingInv
<1>2. ASSUME NEW a \in Apps, StopNow(a) PROVE ServingInv'
  <2>1. task = Idle /\ task.pc = "idle"
    BY <1>2 DEF StopNow, LocksFree, Idle
  <2>2. task'.pc = "idle"
    BY <1>2, <2>1 DEF StopNow, Goto, Task, Operating, At, IInv, Steps, HolderHasSubject
  <2>3. FilesAt'
    BY <1>2, <2>1, <2>2 DEF StopNow, FilesAt, StagePcs, ActivatePcs, At, Image, Operating
  <2>4. FilesKept'
    BY <1>2, FilesStay DEF StopNow
  <2>5. ReconcileAt'
    BY <1>2, <2>1, <2>2
    DEF StopNow, ReconcileAt, Reconciling, ReconcileSteps, At, Operating, Subject, Current,
        Image, Serving
  <2>6. StartAt'
    BY <1>2, <2>1, <2>2 DEF StopNow, StartAt, StartSteps, Operating, At, Quiet, Subject
  <2>7. ActivationAt'
    BY <2>2 DEF ActivationAt, WorkerSteps
  <2>10. /\ containers'[a] = NoRevision
         /\ \A b \in Apps : b # a => containers'[b] = containers[b]
    BY <1>2 DEF StopNow, StopContainers, IInv, TypeOK
  <2>11. /\ UNCHANGED <<journal, files, proxy, mark>>
         /\ a \in disturbed' <=> mark[a] = 0
         /\ \A b \in Apps : b # a => /\ b \in stopping' <=> b \in stopping
                                     /\ b \in disturbed' <=> b \in disturbed
    BY <1>2 DEF StopNow
  <2>8. StopKept'
    BY <2>1, <2>2, <2>10, <2>11 DEF StopKept, Quiet, At, StartSteps
  <2>9. ReadyKept'
    BY <2>10, <2>11 DEF ReadyKept, Quiet, OperationPhase
  <2> QED BY <2>3, <2>4, <2>5, <2>6, <2>7, <2>8, <2>9 DEF ServingInv
<1>3. ASSUME NEW a \in Apps, StopGivesUp(a) PROVE ServingInv'
  <2>1. /\ UNCHANGED <<journal, pending, snapshots, files, torn, retained, containers, proxy, task>>
        /\ \A b \in Apps : b # a => /\ mark'[b] = mark[b]
                                    /\ b \in stopping' <=> b \in stopping
                                    /\ b \in disturbed' <=> b \in disturbed
        /\ mark[a] # 0 => mark'[a] # 0
        /\ mark'[a] = mark[a]
        /\ a \in stopping' \/ a \in disturbed'
    BY <1>3, HostAssumption DEF StopGivesUp, IInv, TypeOK, HostAssumption
  <2>2. ~At("idle") => task.app \in Apps
    BY DEF IInv, Steps, HolderHasSubject
  <2>3. FilesAt'
    BY <2>1 DEF FilesAt, At, Image
  <2>4. FilesKept'
    BY <2>1, FilesStay
  <2>5. ReconcileAt'
    BY <2>1 DEF ReconcileAt, Reconciling, At, Image, Serving, Current, Subject
  <2>6. StartAt'
    BY <2>1, <2>2 DEF StartAt, StartSteps, At, Quiet
  <2>7. ActivationAt'
    BY <2>1, <2>2 DEF ActivationAt, WorkerSteps, At
  <2>8. StopKept'
    BY <2>1, <2>2 DEF StopKept, Quiet, At
  <2>9. ReadyKept'
    BY <2>1 DEF ReadyKept, Quiet, OperationPhase
  <2> QED BY <2>3, <2>4, <2>5, <2>6, <2>7, <2>8, <2>9 DEF ServingInv
<1>4. ASSUME NEW a \in Apps, NEW verb \in {"start", "restart"}, Start(a, verb) PROVE ServingInv'
  <2>1. task = Idle /\ task.pc = "idle" /\ pending = NoRequest
    BY <1>4 DEF Start, Startable, LocksFree, ActivationIdle, Idle
  <2>2. /\ task'.pc = "start"
        /\ task'.app = a
        /\ task'.phase = verb
        /\ task'.seen = mark[a]
    BY <1>4, <2>1 DEF Start, Goto, Task, Operating, At, IInv, Steps, HolderHasSubject, Idle
  <2>3. FilesAt'
    BY <1>4, <2>1, <2>2 DEF Start, FilesAt, StagePcs, ActivatePcs, At, Image, Operating
  <2>4. FilesKept'
    BY <1>4, FilesStay DEF Start
  <2>5. ReconcileAt'
    BY <1>4, <2>1, <2>2
    DEF Start, ReconcileAt, Reconciling, ReconcileSteps, At, Operating, Subject, Current,
        Image, Serving
  <2>6. StartAt'
    BY <1>4, <2>1, <2>2 DEF Start, StartAt, StartSteps, Operating, At, Quiet, Subject
  <2>7. ActivationAt'
    BY <2>2 DEF ActivationAt, WorkerSteps
  <2>8. StopKept'
    BY <1>4, <2>1, <2>2, StopsStay DEF Start, StartSteps
  <2>9. ReadyKept'
    BY <1>4, ReadyStays DEF Start
  <2> QED BY <2>3, <2>4, <2>5, <2>6, <2>7, <2>8, <2>9 DEF ServingInv
<1>5. CASE StartUp
  <2>1. task.pc = "start" /\ Operating
    BY <1>5, AtOffice DEF StartUp, At, SubmitSteps, ReconcileSteps, StartSteps
  <2>2. /\ task'.pc = "watch"
        /\ task'.app = task.app
        /\ task'.phase = task.phase
        /\ task'.seen = task.seen
    BY <1>5, <2>1 DEF StartUp, Goto, Task, Operating, At, IInv, Steps, HolderHasSubject
  <2>3. FilesAt'
    BY <1>5, <2>1, <2>2 DEF StartUp, FilesAt, StagePcs, ActivatePcs, At, Image, Operating
  <2>4. FilesKept'
    BY <1>5, FilesStay DEF StartUp
  <2>5. ReconcileAt'
    BY <1>5, <2>1, <2>2
    DEF StartUp, ReconcileAt, Reconciling, ReconcileSteps, At, Operating, Subject, Current,
        Image, Serving
  <2>6. StartAt'
    BY <1>5, <2>1, <2>2
    DEF StartUp, StartAt, StartSteps, Operating, At, Quiet, Subject, StartContainers, IInv,
        TypeOK
  <2>7. ActivationAt'
    BY <2>2 DEF ActivationAt, WorkerSteps
  <2>8. StopKept'
    BY <1>5, <2>1, <2>2
    DEF StartUp, StopKept, Quiet, At, Subject, StartSteps, StartAt, Operating, IInv, TypeOK,
        StartContainers
  <2>9. ReadyKept'
    BY <1>5, <2>1, <2>2
    DEF StartUp, ReadyKept, Quiet, OperationPhase, Subject, Operating, At, StartAt,
        StartSteps, IInv, TypeOK, StartContainers, Whole, File
  <2> QED BY <2>3, <2>4, <2>5, <2>6, <2>7, <2>8, <2>9 DEF ServingInv
<1>6. CASE StartReady
  <2>1. task.pc = "watch" /\ Operating /\ mark[task.app] = task.seen
        /\ task.phase \in {"start", "restart"}
    BY <1>6, AtOffice
    DEF StartReady, At, SubmitSteps, ReconcileSteps, StartSteps, StartAt, Subject
  <2>2. UNCHANGED <<journal, pending, snapshots, files, torn, retained, containers, proxy,
                    mark, stopping>>
    BY <1>6 DEF StartReady
  <2>3. FilesKept'
    BY <2>2, FilesStay
  <2>4. CASE task.phase = "start"
    <3>1. /\ task'.pc = "clear" /\ task'.app = task.app /\ task'.phase = task.phase
          /\ task'.seen = task.seen /\ disturbed' = disturbed
      BY <1>6, <2>1, <2>4 DEF StartReady, Goto, Task, Operating
    <3>2. FilesAt' /\ ReconcileAt' /\ ActivationAt'
      BY <2>1, <2>2, <3>1
      DEF FilesAt, StagePcs, ActivatePcs, At, Image, Operating, ReconcileAt, Reconciling,
          ReconcileSteps, ActivationAt, WorkerSteps
    <3>3. StartAt'
      BY <2>1, <2>2, <2>4, <3>1 DEF StartAt, StartSteps, At
    <3>4. StopKept'
      BY <2>1, <2>2, <3>1 DEF StopKept, StartSteps, Quiet, At
    <3>5. ReadyKept'
      BY <2>2, <3>1, ReadyStays
    <3> QED BY <2>3, <3>2, <3>3, <3>4, <3>5 DEF ServingInv
  <2>5. CASE task.phase = "restart"
    <3>1. task' = Idle /\ disturbed' = disturbed \ {task.app}
      BY <1>6, <2>5 DEF StartReady, Leave, Subject
    <3>2. task.seen = 0 /\ containers[task.app] # NoRevision
      BY <2>1, <2>5 DEF StartAt, StartSteps
    <3>3. FilesAt'
      BY <2>1, <2>2, <3>1, NobodyServing
      DEF FilesAt, StagePcs, ActivatePcs, At, Image, Operating
    <3>4. StopKept'
      BY <2>1, <2>2, <3>1, <3>2, NobodyServing DEF StopKept, StartSteps, Quiet, At
    <3>5. ReadyKept'
      BY <2>1, <2>2, <3>1, <3>2 DEF ReadyKept, Quiet, OperationPhase
    <3> QED BY <2>3, <3>1, <3>3, <3>4, <3>5, NobodyServing DEF ServingInv
  <2> QED BY <2>1, <2>4, <2>5
<1>7. CASE StartClear
  <2>1. task.pc = "clear" /\ Operating
    BY <1>7, AtOffice DEF StartClear, At, SubmitSteps, ReconcileSteps, StartSteps
  <2>2. task' = Idle
    BY <1>7 DEF StartClear, Leave
  <2>3. FilesAt'
    BY <1>7, <2>1, <2>2, NobodyServing
    DEF StartClear, FilesAt, StagePcs, ActivatePcs, At, Image, Operating
  <2>4. FilesKept'
    BY <1>7, FilesStay DEF StartClear
  <2>5. ReconcileAt' /\ StartAt' /\ ActivationAt'
    BY <2>2, NobodyServing
  <2>6. StopKept'
    BY <1>7, <2>1, <2>2, NobodyServing
    DEF StartClear, StopKept, Quiet, At, Subject, StartSteps, Operating, IInv, TypeOK
  <2>7. ReadyKept'
    BY <1>7, <2>1, <2>2
    DEF StartClear, ReadyKept, Quiet, OperationPhase, Subject, Operating, At, StartAt,
        StartSteps, IInv, TypeOK, Whole, File
  <2> QED BY <2>3, <2>4, <2>5, <2>6, <2>7 DEF ServingInv
<1>8. CASE StartStopped
  <2>1. task.pc \in {"watch", "clear"} /\ Operating
    BY <1>8, AtOffice DEF StartStopped, At, SubmitSteps, ReconcileSteps, StartSteps
  <2>2. task' = Idle
    BY <1>8 DEF StartStopped, Leave
  <2>3. FilesAt'
    BY <1>8, <2>1, <2>2, NobodyServing
    DEF StartStopped, FilesAt, StagePcs, ActivatePcs, At, Image, Operating
  <2>4. FilesKept'
    BY <1>8, FilesStay DEF StartStopped
  <2>5. ReconcileAt' /\ StartAt' /\ ActivationAt'
    BY <2>2, NobodyServing
  <2>6. StopKept'
    BY <1>8, <2>1, <2>2, NobodyServing
    DEF StartStopped, StopKept, Quiet, At, Subject, StartSteps, Operating, IInv, TypeOK,
        StopContainers
  <2>7. ReadyKept'
    BY <1>8, <2>1, <2>2
    DEF StartStopped, ReadyKept, Quiet, OperationPhase, Subject, Operating, At, StartAt,
        StartSteps, IInv, TypeOK, StopContainers
  <2> QED BY <2>3, <2>4, <2>5, <2>6, <2>7 DEF ServingInv
<1>9. CASE StartFails
  <2>1. task.pc \in {"start", "watch", "clear"} /\ Operating
    BY <1>9, AtOffice DEF StartFails, At, SubmitSteps, ReconcileSteps, StartSteps
  <2>2. task' = Idle
    BY <1>9 DEF StartFails, Leave
  <2>3. FilesAt'
    BY <1>9, <2>1, <2>2, NobodyServing
    DEF StartFails, FilesAt, StagePcs, ActivatePcs, At, Image, Operating
  <2>4. FilesKept'
    BY <1>9, FilesStay DEF StartFails
  <2>5. ReconcileAt' /\ StartAt' /\ ActivationAt'
    BY <2>2, NobodyServing
  <2>6. StopKept'
    BY <1>9, <2>1, <2>2, NobodyServing
    DEF StartFails, StopKept, Quiet, At, Subject, StartSteps, Operating, IInv, TypeOK,
        PartlyStarted, StopContainers
  <2>7. ReadyKept'
    BY <1>9, <2>1, <2>2
    DEF StartFails, ReadyKept, Quiet, OperationPhase, Subject, Operating, At, StartAt,
        StartSteps, IInv, TypeOK, PartlyStarted, StopContainers, Whole, File
  <2> QED BY <2>3, <2>4, <2>5, <2>6, <2>7 DEF ServingInv
<1> QED BY <1>1, <1>2, <1>3, <1>4, <1>5, <1>6, <1>7, <1>8, <1>9 DEF Lifecycle

(* activation_pass() takes the queued request.                             *)
LEMMA PassServes == ASSUME IInv, IInv', ServingInv, Pass PROVE ServingInv'
<1>0. FilesAt /\ FilesKept /\ ReconcileAt /\ ActivationAt /\ StartAt /\ StopKept /\ ReadyKept
  BY DEF ServingInv
<1> USE <1>0
<1>1. /\ task.pc = "idle" /\ pending # NoRequest
      /\ UNCHANGED <<disk, containers, proxy, owner, tally>>
  BY DEF Pass, LocksFree, Idle
<1>2. task'.pc = IF Owned /\ OperationPhase(pending.app) \in Accepted THEN "report"
                 ELSE IF pending.staged THEN "stage" ELSE "verify"
  BY DEF Pass, Decide, Enter, Idle
<1>3. FilesAt'
  BY <1>1, <1>2 DEF FilesAt, StagePcs, ActivatePcs, At, Image
<1>4. FilesKept' /\ ReadyKept'
  BY <1>1, FilesStay, ReadyStays
<1>5. ReconcileAt' /\ StartAt'
  BY <1>2, WorkerOnly DEF WorkerSteps
<1>6. ActivationAt'
  BY <1>2 DEF ActivationAt, At
<1>7. StopKept'
  BY <1>1, <1>2, StopsStay DEF StartSteps
<1> QED BY <1>3, <1>4, <1>5, <1>6, <1>7 DEF ServingInv

(* A host without a history serves what it says it serves.                 *)
LEMMA ServingStarts == ASSUME Init PROVE ServingInv
<1>1. task.pc = "idle"
  BY DEF Init, Idle
<1>2. \A a \in Apps : journal[a] = NoOperation /\ IsWhole(files[a]) /\ mark[a] = 0
  BY WholeIsWhole DEF Init
<1>3. FilesAt /\ FilesKept
  BY <1>1, <1>2 DEF Init, FilesAt, FilesKept, StagePcs, ActivatePcs, At
<1>4. ReconcileAt /\ ActivationAt /\ StartAt
  BY <1>1
  DEF ReconcileAt, ActivationAt, StartAt, Reconciling, WorkerSteps, ReconcileSteps,
      StartSteps
<1>5. StopKept /\ ReadyKept
  BY <1>1, <1>2 DEF StopKept, ReadyKept, At, OperationPhase
<1> QED BY <1>3, <1>4, <1>5 DEF ServingInv

(* Every step keeps the invariant.                                         *)
LEMMA ServingKeeps == ASSUME IInv, ServingInv, [Next]_vars PROVE ServingInv'
<1>0. /\ FilesAt /\ FilesKept /\ ReconcileAt /\ ActivationAt /\ StartAt /\ StopKept /\ ReadyKept
      /\ IInv'
  BY HostKeeps DEF ServingInv
<1> USE <1>0
<1>1. CASE (\E a \in Apps : DeadlinePasses(a)) \/ UNCHANGED vars
  <2>1. UNCHANGED <<journal, pending, snapshots, files, torn, retained, containers, proxy,
                    owner, task>>
    BY <1>1 DEF DeadlinePasses, vars
  <2>2. FilesAt' /\ FilesKept'
    BY <2>1, FilesStay DEF FilesAt, At, Image
  <2>3. ReconcileAt' /\ StartAt'
    BY <2>1
    DEF ReconcileAt, StartAt, Reconciling, At, Image, Serving, Current, Subject, Quiet
  <2>4. ActivationAt'
    BY <2>1 DEF ActivationAt, At
  <2>5. StopKept' /\ ReadyKept'
    BY <2>1 DEF StopKept, ReadyKept, Quiet, At, OperationPhase
  <2> QED BY <2>2, <2>3, <2>4, <2>5 DEF ServingInv
<1>2. CASE Crash
  <2>1. /\ task' = Idle
        /\ UNCHANGED <<journal, pending, snapshots, files, torn, containers, proxy, mark,
                       stopping>>
    BY <1>2 DEF Crash, Leave
  <2>2. /\ disturbed \subseteq disturbed'
        /\ task.pc \in StartSteps => task.app \in disturbed'
    BY <1>2 DEF Crash
  <2>3. FilesAt' /\ FilesKept'
    BY <2>1, FilesStay, NobodyServing DEF FilesAt, StagePcs, ActivatePcs, At, Image
  <2>4. StopKept'
    BY <2>1, <2>2, NobodyServing DEF StopKept, Quiet, At
  <2>5. ReadyKept'
    BY <2>1, <2>2 DEF ReadyKept, Quiet, OperationPhase
  <2> QED BY <2>1, <2>3, <2>4, <2>5, NobodyServing DEF ServingInv
<1> QED BY <1>1, <1>2, PassServes, StageServes, ActivateServes, FinishServes,
     SubmissionServes, ReconciliationServes, LifecycleServes
  DEF Next, Worker

(* The second inductive invariant, over the first: what is installed, runs *)
(* and is loaded at each step, and what a stop and a ready operation have  *)
(* left behind.                                                            *)
THEOREM ServingInOrder == Spec => []ServingInv
<1>1. Init => ServingInv
  BY ServingStarts
<1>2. IInv /\ ServingInv /\ [Next]_vars => ServingInv'
  BY ServingKeeps
<1> QED BY <1>1, <1>2, BooksInOrder, PTL DEF Spec

(* When stage_deployment() dies between two of its four files, or in the   *)
(* middle of putting them back, the application is fenced and the snapshot *)
(* on disk holds all of the revision before.                               *)
THEOREM MixedFilesAreRestorable == Spec => []MixedFilesRestorable
<1>1. FilesKept => MixedFilesRestorable
  <2>1. SUFFICES ASSUME FilesKept, NEW a \in Apps, ~IsWhole(files[a]), a \notin torn
                 PROVE  /\ OperationPhase(a) \in Fence
                        /\ snapshots[a][journal[a].id] = Whole(journal[a].previous)
    BY DEF MixedFilesRestorable
  <2>2. journal[a] # NoOperation /\ journal[a].phase \in Fence
    BY <2>1 DEF FilesKept
  <2>3. Image(a) # NoSnapshot
    BY <2>1, <2>2, WholeIsWhole DEF FilesKept, Fence
  <2> QED BY <2>1, <2>2, <2>3 DEF FilesKept, OperationPhase, Fence, Image
<1> QED BY <1>1, ServingInOrder, PTL DEF ServingInv

(* perform_typed_owner(): an application that its owner stopped stays down *)
(* through whatever deployments, reconciliations and crashes do, until the *)
(* owner starts it.                                                        *)
THEOREM StopsHold == Spec => []StopHolds
<1>1. StopKept => StopHolds
  BY DEF StopKept, StopHolds, Settled, LocksFree, Quiet, Idle, StartSteps
<1> QED BY <1>1, ServingInOrder, PTL DEF ServingInv

(* An application whose last operation is ready and that nobody stopped    *)
(* runs that revision behind a proxy that routes to it, whatever activate() *)
(* and reconcile() do for its neighbours.                                  *)
THEOREM ServedUnlessStopped == Spec => []ServesUnlessStopped
<1>1. ReadyKept => ServesUnlessStopped
  BY DEF ReadyKept, ServesUnlessStopped, Settled, Quiet
<1> QED BY <1>1, ServingInOrder, PTL DEF ServingInv

(* Of all the records only the last one of an activation says ready.       *)
LEMMA ReadyRecord ==
  ASSUME IInv, NEW a \in Apps, OperationPhase(a) # "ready",
         journal'[a] # NoOperation, journal'[a].phase = "ready",
         NEW b \in Apps, NEW ph \in Phases, Record(b, ph)
  PROVE  a = b /\ ph = "ready"
<1>1. JournalMoves(b, ph)
  BY Records DEF IInv, TypeOK
<1> QED BY <1>1 DEF JournalMoves, OperationPhase, Recorded

(* So a phase of ready is written by close alone.                          *)
LEMMA ReadyWritten ==
  ASSUME IInv, [Next]_vars, NEW a \in Apps, OperationPhase(a) # "ready",
         journal'[a] # NoOperation, journal'[a].phase = "ready"
  PROVE  Close /\ task.app = a /\ task.phase = "ready"
<1>1. task.pc \in WorkerSteps => task.app \in Apps
  BY AtWork DEF Busy
<1>2. journal' # journal
  BY DEF OperationPhase
<1>3. ~(Pass \/ Finish)
  BY <1>2 DEF Pass, Finish, Report, Clean, Drop
<1>4. ~Stage
  <2>1. ~StageBegin /\ ~Configure
    BY <1>1, ReadyRecord DEF StageBegin, Configure, At, WorkerSteps, App, Phases
  <2>2. ~Unstage
    BY <1>1, <1>2, ReadyRecord DEF Unstage, At, WorkerSteps, App, Phases
  <2> QED BY <1>2, <2>1, <2>2
    DEF Stage, StageRefuse, Snapshot, Swap, Queue, Consume, StageFails, RestoreFile,
        RestoreFails
<1>5. CASE Activate
  <2>1. ~Begin
    BY <1>1, ReadyRecord DEF Begin, At, WorkerSteps, App, Phases
  <2>2. ~Settle
    BY <1>1, ReadyRecord DEF Settle, At, WorkerSteps, App, Phases, IInv, Steps, LocalPhase
  <2>3. ~Fail
    BY <1>1, <1>2, ReadyRecord DEF Fail, Failure, At, WorkerSteps, App, Phases
  <2>4. Close
    BY <1>2, <1>5, <2>1, <2>2, <2>3
    DEF Activate, Verify, VerifyRefuse, BeginStopped, Up, Recheck, Reload, RetainCandidate,
        Probe, Conclude, ActivationFails
  <2>5. task.app \in Apps /\ task.phase \in Phases /\ Record(task.app, task.phase)
    BY <1>1, <2>4 DEF Close, At, WorkerSteps, App, Phases, IInv, Steps, LocalPhase
  <2> QED BY <2>4, <2>5, ReadyRecord
<1>6. ~Submission
  <2>1. \A b \in Apps, c \in Revisions : ~Submit(b, c)
    <3>1. SUFFICES ASSUME NEW b \in Apps, NEW c \in Revisions, Submit(b, c) PROVE FALSE
      OBVIOUS
    <3>2. journal'[a] = journal[a] \/ journal'[a].phase = "admitted"
      BY <3>1 DEF Submit, IInv, TypeOK
    <3> QED BY <3>2 DEF OperationPhase
  <2> QED BY <1>2, <2>1 DEF Submission, SubmitSlot, SubmitQueue, SubmitFails
<1>7. ~Reconciliation
  <2>1. \A b \in Apps : ~AbandonInitial(b)
    BY ReadyRecord DEF AbandonInitial, Phases
  <2>2. ~RecordReconciled
    BY AtOffice, ReadyRecord
    DEF RecordReconciled, At, ReconcileSteps, Operating, Subject, Phases
  <2> QED BY <1>2, <2>1, <2>2
    DEF Reconciliation, RestoreServing, AcceptCandidate, PutBack, Serve, Confirm,
        OwnerChanged, Keep, ReconcileFails
<1>8. ~Lifecycle
  BY <1>2
  DEF Lifecycle, Stop, StopNow, StopGivesUp, Start, StartUp, StartReady, StartClear,
      StartStopped, StartFails
<1>9. ~(\E b \in Apps : DeadlinePasses(b)) /\ ~Crash /\ ~UNCHANGED vars
  BY <1>2 DEF DeadlinePasses, Crash, vars
<1> QED BY <1>3, <1>4, <1>5, <1>6, <1>7, <1>8, <1>9 DEF Next, Worker

(* activate() records ready only over an installed, running, loaded and    *)
(* retained candidate.                                                     *)
THEOREM ReadyServes == Spec => ReadyMeansServing
<1>1. ASSUME IInv, ServingInv, [Next]_vars, NEW a \in Apps, OperationPhase(a) # "ready",
             journal'[a] # NoOperation, journal'[a].phase = "ready"
      PROVE  LET op == journal'[a]
             IN /\ files[a] = Whole(op.candidate)
                /\ containers[a] = op.candidate /\ proxy[a] = op.candidate
                /\ op.candidate # op.previous =>
                     retained[a] = [current |-> op.candidate, previous |-> op.previous]
  <2>1. Close /\ task.app = a /\ task.phase = "ready" /\ task.pc = "close"
    BY <1>1, ReadyWritten DEF Close, At
  <2>2. Busy /\ task.pc \in WorkerSteps /\ task.phase \in Phases
    BY <1>1, <2>1, AtWork DEF WorkerSteps, Phases
  <2>3. journal'[a].candidate = pending.candidate /\ journal'[a].previous = pending.previous
    BY <1>1, <2>1, <2>2, Records DEF Close, App, Busy, JournalMoves, IInv, TypeOK
  <2>4. files[a] = Whole(pending.candidate)
    BY <1>1, <2>1, <2>2 DEF ServingInv, FilesAt, ActivatePcs, Busy
  <2> QED BY <1>1, <2>1, <2>2, <2>3, <2>4 DEF ServingInv, ActivationAt, At
<1>2. IInv /\ ServingInv /\ [Next]_vars =>
        [\A a \in Apps :
           OperationPhase(a) # "ready" /\ journal'[a] # NoOperation /\ journal'[a].phase = "ready"
             => LET op == journal'[a]
                IN /\ files[a] = Whole(op.candidate)
                   /\ containers[a] = op.candidate /\ proxy[a] = op.candidate
                   /\ op.candidate # op.previous =>
                        retained[a] = [current |-> op.candidate, previous |-> op.previous]]_vars
  BY <1>1
<1> QED BY <1>2, BooksInOrder, ServingInOrder, PTL DEF Spec, ReadyMeansServing

(* reconcile() closes an operation only over the containers, the retention *)
(* record and, unless an earlier reconciliation left them torn, the files  *)
(* and the route of the revision it says it serves.                        *)
THEOREM ReconciledServes == Spec => ReconciledMeansServing
<1>1. ServingInv =>
        \A a \in Apps :
          At("record") /\ task.app = a =>
            LET op == journal[a]
            IN IF task.phase = "restore-serving"
                 THEN /\ containers[a] = op.previous /\ retained[a].current = op.previous
                      /\ a \notin torn => files[a] = Whole(op.previous) /\ proxy[a] = op.previous
                 ELSE files[a]["compose"] = op.candidate /\ containers[a] = op.candidate
  BY DEF ServingInv, ReconcileAt, Reconciling, ReconcileSteps, At, Serving, Current, Subject
<1>2. ServingInv =>
        [\A a \in Apps :
          At("record") /\ task.app = a /\ journal'[a] # journal[a] =>
            LET op == journal[a]
            IN IF task.phase = "restore-serving"
                 THEN /\ containers[a] = op.previous /\ retained[a].current = op.previous
                      /\ a \notin torn => files[a] = Whole(op.previous) /\ proxy[a] = op.previous
                 ELSE files[a]["compose"] = op.candidate /\ containers[a] = op.candidate]_vars
  BY <1>1
<1> QED BY <1>2, ServingInOrder, PTL DEF ReconciledMeansServing

(* Who writes the retention record: retain_workload(), for an activation   *)
(* or for a reconciliation that accepts its candidate.                     *)
LEMMA RetentionWritten ==
  ASSUME IInv, [Next]_vars, retained' # retained
  PROVE  \/ At("retain") /\ Retain(App, Candidate, pending.previous)
         \/ Keep /\ task.phase = "accept-candidate"
<1>1. ~(Pass \/ Finish \/ Stage)
  BY DEF Pass, Finish, Report, Clean, Drop, Stage, StageBegin, StageRefuse, Snapshot, Swap,
         Configure, Queue, Consume, StageFails, RestoreFile, RestoreFails, Unstage
<1>2. CASE Activate
  BY <1>2
  DEF Activate, Verify, VerifyRefuse, BeginStopped, Begin, Up, Recheck, Reload,
      RetainCandidate, Settle, Probe, Conclude, Close, ActivationFails, Fail
<1>3. ~Submission
  BY DEF Submission, Submit, SubmitSlot, SubmitQueue, SubmitFails
<1>4. CASE Reconciliation
  BY <1>4
  DEF Reconciliation, AbandonInitial, RestoreServing, AcceptCandidate, PutBack, Serve,
      Confirm, OwnerChanged, Keep, RecordReconciled, ReconcileFails
<1>5. ~Lifecycle
  BY DEF Lifecycle, Stop, StopNow, StopGivesUp, Start, StartUp, StartReady, StartClear,
         StartStopped, StartFails
<1>6. ~(\E a \in Apps : DeadlinePasses(a)) /\ ~Crash /\ ~UNCHANGED vars
  BY DEF DeadlinePasses, Crash, vars
<1> QED BY <1>1, <1>2, <1>3, <1>4, <1>5, <1>6 DEF Next, Worker

(* retain_workload() is only ever called with the candidate of an operation *)
(* that is still open, and the revision that this candidate replaced.      *)
THEOREM RetentionFollows == Spec => RetentionFollowsOperation
<1>1. ASSUME IInv, ServingInv, [Next]_vars, NEW a \in Apps, retained'[a] # retained[a]
      PROVE  /\ Decision[journal[a].phase] # "accepted"
             /\ retained'[a] = [current |-> journal[a].candidate, previous |-> journal[a].previous]
             /\ containers[a] \in {journal[a].candidate, NoRevision} \/ mark[a] # 0
  <2>1. CASE At("retain") /\ Retain(App, Candidate, pending.previous)
    <3>1. Busy /\ task.pc \in WorkerSteps /\ task.pc = "retain"
      BY <1>1, <2>1, AtWork DEF At, WorkerSteps
    <3>2. a = task.app /\ retained'[a] = [current |-> pending.candidate,
                                          previous |-> pending.previous]
      BY <1>1, <2>1, <3>1 DEF Retain, App, Candidate, Busy, IInv, TypeOK
    <3>3. journal[a].phase \in {"activating", "configured"}
      BY <1>1, <3>1, <3>2 DEF IInv, Steps, JournalAt
    <3> QED BY <1>1, <3>1, <3>2, <3>3 DEF ServingInv, ActivationAt, Busy, Decision
  <2>2. CASE Keep /\ task.phase = "accept-candidate"
    <3>1. Operating /\ task.pc = "keep"
      BY <1>1, <2>2, AtOffice DEF Keep, At, ReconcileSteps
    <3>2. a = task.app /\ retained'[a] = [current |-> journal[a].candidate,
                                          previous |-> journal[a].previous]
      BY <1>1, <2>2, <3>1 DEF Keep, Retain, Subject, Current, Operating, IInv, TypeOK
    <3>3. journal[a].phase \in Reconcilable /\ containers[a] = journal[a].candidate
      BY <1>1, <2>2, <3>1, <3>2
      DEF ServingInv, ReconcileAt, Reconciling, ReconcileSteps, Serving, Current, Subject
    <3> QED BY <3>2, <3>3 DEF Reconcilable, Fence, Decision
  <2> QED BY <1>1, <2>1, <2>2, RetentionWritten
<1>2. IInv /\ ServingInv /\ [Next]_vars =>
        [\A a \in Apps : retained'[a] # retained[a]
           => /\ Decision[journal[a].phase] # "accepted"
              /\ retained'[a] = [current |-> journal[a].candidate, previous |-> journal[a].previous]
              /\ containers[a] \in {journal[a].candidate, NoRevision} \/ mark[a] # 0]_vars
  BY <1>1
<1> QED BY <1>2, BooksInOrder, ServingInOrder, PTL DEF Spec, RetentionFollowsOperation
=============================================================================
