--------------------------- MODULE DeploymentProofs ---------------------------
(***************************************************************************)
(* Deployments, for any set of applications and revisions and any number   *)
(* of operations, stops and crashes: what the journal, the queue and the   *)
(* task that holds the locks know of each other, and what follows from it. *)
(***************************************************************************)
EXTENDS Deployment, TLAPS

Submitting == task.pc \in SubmitSteps
Reconciling == task.pc \in ReconcileSteps

(* The holder of the locks works for one application; the worker for the   *)
(* one whose request is queued, a submission or a reconciliation for the   *)
(* operation in the journal, and these only while nothing is queued.       *)
HolderHasSubject ==
  /\ At("idle") => task = Idle
  /\ ~At("idle") => task.app \in Apps
  /\ task.pc \in WorkerSteps => pending # NoRequest /\ pending.app = task.app
  /\ ~At("idle") /\ task.pc \notin WorkerSteps => pending = NoRequest
  /\ Submitting \/ Reconciling => journal[task.app] # NoOperation
  /\ task.pc \notin {"swap", "restore", "put back"} => task.at = 1

(* A queued request is that of the current operation of its application:   *)
(* nothing is admitted while it is queued.                                 *)
QueueOwned ==
  pending # NoRequest =>
    LET op == journal[pending.app]
    IN /\ op # NoOperation
       /\ op.id = pending.id /\ op.candidate = pending.candidate
       /\ op.previous = pending.previous

(* Identities are drawn in order, and before one is drawn nothing bears it. *)
IdsFresh ==
  /\ \A a \in Apps : journal[a] # NoOperation => journal[a].id <= lastId
  /\ \A a, b \in Apps :
       a # b /\ journal[a] # NoOperation /\ journal[b] # NoOperation
         => journal[a].id # journal[b].id
  /\ \A id \in Ids : id > lastId =>
       /\ ups[id] = 0 /\ results[id] = "none"
       /\ \A a \in Apps : snapshots[a][id] = NoSnapshot

(* The phase in the journal at each step of a pass; until it reports, the  *)
(* operation is not decided in its favour.                                 *)
JournalAt ==
  task.pc \in WorkerSteps =>
    LET phase == journal[task.app].phase
    IN /\ task.pc \in {"stage", "verify"} => phase \notin Accepted
       /\ task.pc \in {"staging", "swap", "configure"} => phase = "staging"
       /\ task.pc \in {"queue", "consume", "begin"} => phase = "configured"
       /\ task.pc \in {"restore", "unstage"} => phase \in {"staging", "configured"}
       /\ task.pc \in {"up", "recheck"} => phase = "activating"
       /\ task.pc \in {"reload", "retain", "settle"} =>
            phase = "activating" \/ (task.halted /\ phase = "configured")
       /\ task.pc \in {"probe", "conclude", "close"} => phase = "activated"
       /\ At("failing") => phase \in {"configured", "activating", "activated"}
       /\ task.pc \in {"report", "clean", "drop"} =>
            (phase \in Accepted \/ task.phase \in Accepted => task.phase = phase)

(* The phase the activation believes it is in, and then its verdict.       *)
LocalPhase ==
  /\ At("settle") => task.phase = IF task.halted THEN "prepared_stopped" ELSE "activated"
  /\ At("probe") => task.phase = "activated"
  /\ At("conclude") => task.phase \in {"activated", "ready"}
  /\ At("close") => task.phase \in {"activated", "ready", "prepared_stopped"}
  /\ task.pc \in {"report", "clean", "drop"} => task.phase \in Verdicts

(* Whoever puts files back has something to put back.                      *)
SnapshotThere ==
  /\ task.pc \in {"swap", "configure", "queue", "restore"} =>
       snapshots[task.app][pending.id] # NoSnapshot
  /\ At("put back") => snapshots[task.app][journal[task.app].id] # NoSnapshot

(* Containers are asked for once: while they have not been, and when they  *)
(* were, the journal is on the other side of activating.                   *)
Unstarted == {"admitted", "staging", "configured", "staging_failed"}
StartedOnce ==
  /\ NoReplay
  /\ At("up") => ups[pending.id] = 0
  /\ \A a \in Apps : journal[a] # NoOperation /\ journal[a].phase \in Unstarted
                       => ups[journal[a].id] = 0

(* Credentials of an answered operation are those of the queued request,   *)
(* until the pass that answered has removed them.                          *)
SlotsOwned ==
  /\ \A id \in Ids : results[id] # "none" /\ id \in slots
                       => pending # NoRequest /\ pending.id = id
  /\ At("drop") => pending.id \notin slots
  /\ Submitting => results[journal[task.app].id] = "none"

Steps == HolderHasSubject /\ JournalAt /\ LocalPhase /\ SnapshotThere
Books == QueueOwned /\ IdsFresh /\ StartedOnce /\ SuccessIsRecorded /\ SlotsOwned
IInv == TypeOK /\ Steps /\ Books
-----------------------------------------------------------------------------
USE DEF disk, owner, tally

(* record(): only the phase of the one operation moves, along the journal's *)
(* own rules.                                                              *)
JournalMoves(a, ph) ==
  /\ journal' \in [Apps -> Operation \cup {NoOperation}]
  /\ journal[a] # NoOperation /\ journal'[a] # NoOperation
  /\ journal'[a].id = journal[a].id /\ journal'[a].candidate = journal[a].candidate
  /\ journal'[a].previous = journal[a].previous
  /\ journal'[a].phase = Recorded(journal[a].phase, ph)
  /\ MayRecord(journal[a].phase, ph, late[a])
  /\ \A b \in Apps : b # a => journal'[b] = journal[b]

(* record(): what it writes is what JournalMoves says.                     *)
LEMMA Records ==
  ASSUME journal \in [Apps -> Operation \cup {NoOperation}], NEW a \in Apps,
         NEW ph \in Phases, Record(a, ph)
  PROVE  JournalMoves(a, ph)
<1>1. journal[a] \in Operation
  BY DEF Record, CanRecord
<1>2. Recorded(journal[a].phase, ph) \in Phases
  BY DEF Recorded, Phases
<1>3. journal' = [journal EXCEPT
                    ![a] = [journal[a] EXCEPT !.phase = Recorded(journal[a].phase, ph)]]
  BY DEF Record
<1>4. [journal[a] EXCEPT !.phase = Recorded(journal[a].phase, ph)] \in Operation
  BY <1>1, <1>2 DEF Operation
<1>5. NoOperation \notin Operation
  BY HostAssumption DEF HostAssumption
<1> QED BY <1>1, <1>3, <1>4, <1>5 DEF JournalMoves, Operation, Record, CanRecord

(* What no step writes the books do not lose.                              *)
LEMMA Undisturbed ==
  ASSUME IInv, UNCHANGED <<journal, pending, slots, results, snapshots, ups, lastId>>,
         task'.pc \notin {"up", "drop", "admitted", "slot"}
  PROVE  Books'
BY DEF IInv, Books, QueueOwned, IdsFresh, StartedOnce, NoReplay, SuccessIsRecorded,
       SlotsOwned, Submitting, SubmitSteps, At

(* The phases of the journal lead away from an operation not yet started,  *)
(* and never out of an accepted one.                                       *)
LEMMA PhasesLeadOn ==
  ASSUME NEW from \in Phases, NEW to \in Phases, NEW l \in BOOLEAN, MayRecord(from, to, l)
  PROVE  /\ Recorded(from, to) \in Unstarted => from \in Unstarted
         /\ from \in Accepted => Recorded(from, to) = from
BY DEF MayRecord, Recorded, Legal, Unstarted, Follows, Phases, Final, Reconcilable, Fence,
       Accepted

(* A record keeps the books.                                               *)
LEMMA BooksRecorded ==
  ASSUME IInv, NEW a \in Apps, NEW ph \in Phases, Record(a, ph),
         UNCHANGED <<pending, slots, results, snapshots, ups, lastId>>,
         task'.pc \notin {"drop", "admitted", "slot"},
         task'.pc = "up" => /\ pending # NoRequest /\ pending.app = a
                            /\ journal[a].phase \in Unstarted
  PROVE  Books'
<1>1. JournalMoves(a, ph) /\ journal[a].phase \in Phases /\ late[a] \in BOOLEAN
  BY Records DEF IInv, TypeOK, Operation, JournalMoves
<1>2. QueueOwned'
  BY <1>1, HostAssumption
  DEF JournalMoves, IInv, Books, QueueOwned, TypeOK, Request, HostAssumption
<1>3. IdsFresh'
  BY <1>1 DEF JournalMoves, IInv, Books, IdsFresh
<1>4. StartedOnce'
  BY <1>1, PhasesLeadOn DEF JournalMoves, IInv, Books, StartedOnce, NoReplay, QueueOwned, At
<1>5. SuccessIsRecorded'
  BY <1>1, PhasesLeadOn DEF JournalMoves, IInv, Books, SuccessIsRecorded
<1>6. SlotsOwned'
  BY <1>1 DEF JournalMoves, IInv, Books, SlotsOwned, Submitting, SubmitSteps, At
<1> QED BY <1>2, <1>3, <1>4, <1>5, <1>6 DEF Books

(* The worker in the middle of a pass.                                     *)
Busy ==
  /\ task \in Task /\ task.app \in Apps
  /\ pending \in Request /\ pending # NoRequest /\ pending.app = task.app
  /\ pending.id \in Ids /\ pending.candidate \in Revisions /\ pending.previous \in Installed
  /\ journal[task.app] \in Operation /\ journal[task.app] # NoOperation
  /\ journal[task.app].id = pending.id /\ journal[task.app].candidate = pending.candidate
  /\ journal[task.app].previous = pending.previous

(* While the worker has a step to do, it has a request and its operation.  *)
LEMMA AtWork ==
  ASSUME IInv, task.pc \in WorkerSteps
  PROVE  Busy
<1>1. task \in Task /\ pending # NoRequest /\ pending \in Request /\ pending.app = task.app
  BY DEF IInv, TypeOK, Steps, HolderHasSubject
<1>2. /\ task.app \in Apps /\ pending.id \in Ids /\ pending.candidate \in Revisions
      /\ pending.previous \in Installed
  BY <1>1 DEF Request
<1>3. /\ journal[task.app] \in Operation /\ journal[task.app] # NoOperation
      /\ journal[task.app].id = pending.id /\ journal[task.app].candidate = pending.candidate
      /\ journal[task.app].previous = pending.previous
  BY <1>1, <1>2 DEF IInv, Books, QueueOwned, TypeOK
<1> QED BY <1>1, <1>2, <1>3 DEF Busy

(* Nobody's identity is one that is still to be drawn.                     *)
LEMMA QueuedIsDrawn ==
  ASSUME IInv, Busy
  PROVE  \A id \in Ids : id > lastId => id # pending.id
BY DEF IInv, TypeOK, Busy, Books, IdsFresh, Ids

(* Whatever is asked of Docker, it runs installed revisions or nothing.    *)
LEMMA ContainersKnown ==
  ASSUME IInv, NEW a \in Apps,
         StartContainers(a) \/ PartlyStarted(a) \/ StopContainers(a)
  PROVE  containers' \in [Apps -> Installed]
<1>1. containers \in [Apps -> Installed] /\ files[a]["compose"] \in Installed
  BY DEF IInv, TypeOK, File
<1>2. NoRevision \in Installed
  BY DEF Installed
<1>3. ASSUME NEW r \in Installed, containers' = [containers EXCEPT ![a] = r]
      PROVE  containers' \in [Apps -> Installed]
  BY <1>1, <1>3
<1>4. CASE PartlyStarted(a)
  BY <1>1, <1>2, <1>3, <1>4 DEF PartlyStarted
<1> QED BY <1>1, <1>2, <1>3, <1>4 DEF StartContainers, StopContainers

(* A step of the worker that stays in its pass keeps its subject.          *)
LEMMA StaysAtWork ==
  ASSUME Busy, task'.pc \in WorkerSteps, task'.app = task.app,
         task'.pc \notin {"swap", "restore"} => task'.at = 1,
         pending' # NoRequest, pending'.app = pending.app
  PROVE  HolderHasSubject'
BY DEF Busy, HolderHasSubject, At, WorkerSteps, Submitting, Reconciling, SubmitSteps,
       ReconcileSteps

(* An operator who submits or reconciles, and an owner who starts: nothing *)
(* is queued meanwhile.                                                    *)
Operating ==
  /\ task \in Task /\ task.app \in Apps /\ pending = NoRequest
  /\ task.pc \in SubmitSteps \cup ReconcileSteps =>
       journal[task.app] \in Operation /\ journal[task.app] # NoOperation

(* Whoever submits, reconciles or starts has a subject, and no queue.      *)
LEMMA AtOffice ==
  ASSUME IInv, task.pc \in SubmitSteps \cup ReconcileSteps \cup StartSteps
  PROVE  Operating
<1>1. task.pc \notin WorkerSteps /\ ~At("idle")
  BY DEF WorkerSteps, SubmitSteps, ReconcileSteps, StartSteps, At
<1>2. task \in Task /\ task.app \in Apps /\ pending = NoRequest
  BY <1>1 DEF IInv, TypeOK, Steps, HolderHasSubject
<1> QED BY <1>2
  DEF IInv, TypeOK, Steps, HolderHasSubject, Operating, Submitting, Reconciling

(* What happens around the holder: the owner's record, the clock.          *)
LEMMA Rests ==
  ASSUME IInv, TypeOK',
         UNCHANGED <<journal, pending, slots, results, snapshots, ups, lastId, task>>
  PROVE  IInv'
<1>1. Books'
  BY DEF IInv, Books, QueueOwned, IdsFresh, StartedOnce, NoReplay, SuccessIsRecorded,
         SlotsOwned, Submitting, At
<1>2. HolderHasSubject' /\ SnapshotThere'
  BY DEF IInv, Steps, HolderHasSubject, SnapshotThere, Submitting, Reconciling, At
<1>3. JournalAt' /\ LocalPhase'
  BY DEF IInv, Steps, JournalAt, LocalPhase, At
<1> QED BY <1>1, <1>2, <1>3 DEF IInv, Steps

(* Without a holder no step of a holder is under way.                      *)
LEMMA NobodyAtWork ==
  ASSUME task' = Idle
  PROVE  /\ task' \in Task
         /\ JournalAt' /\ LocalPhase' /\ SnapshotThere' /\ HolderHasSubject'
<1>1. task'.pc = "idle" /\ task'.app = NoApp /\ task'.at = 1
  BY DEF Idle
<1>2. Idle \in Task
  BY HostAssumption DEF Idle, Task, HostAssumption, Verdicts
<1> QED BY <1>1, <1>2
  DEF JournalAt, LocalPhase, SnapshotThere, HolderHasSubject, At, WorkerSteps,
      Submitting, Reconciling, SubmitSteps, ReconcileSteps

(* A loop over the files starts, or starts again, at the first.            *)
LEMMA FromTheFirst ==
  ASSUME task \in Task, NEW pc \in WorkerSteps \cup ReconcileSteps,
         task' = [task EXCEPT !.pc = pc, !.at = 1]
  PROVE  /\ task' \in Task /\ task'.pc = pc /\ task'.at = 1 /\ task'.app = task.app
         /\ task'.phase = task.phase /\ task'.halted = task.halted
<1>1. [task EXCEPT !.at = 1] \in Task
  BY DEF Task
<1>2. task' = [[task EXCEPT !.at = 1] EXCEPT !.pc = pc]
  BY DEF Task
<1> QED BY <1>1, <1>2 DEF Task

(* No stop has been given yet.                                             *)
LEMMA NoStopYet == 0 \in 0..MaxStops
BY HostAssumption DEF HostAssumption

(* The first step of a task.                                               *)
LEMMA Enters ==
  ASSUME NEW pc \in WorkerSteps \cup SubmitSteps \cup ReconcileSteps \cup StartSteps,
         NEW a \in Apps, NEW n \in 0..MaxStops,
         NEW ph \in Phases \cup Verdicts
                      \cup {"restore-serving", "accept-candidate", "start", "restart"},
         task' = [pc |-> pc, app |-> a, at |-> 1, phase |-> ph, halted |-> FALSE, seen |-> n]
  PROVE  /\ task' \in Task /\ task'.pc = pc /\ task'.app = a /\ task'.at = 1
         /\ task'.phase = ph /\ task'.seen = n
BY DEF Task

(* A step that also settles the phase.                                     *)
LEMMA Concluding ==
  ASSUME task \in Task, NEW pc \in WorkerSteps, NEW v \in Phases \cup Verdicts,
         task' = [task EXCEPT !.pc = pc, !.phase = v]
  PROVE  /\ task' \in Task /\ task'.pc = pc /\ task'.phase = v /\ task'.app = task.app
         /\ task'.at = task.at /\ task'.halted = task.halted
BY DEF Task

(* A loop over the files goes on to the next.                              *)
LEMMA NextFile ==
  ASSUME task \in Task, task.at # 4, task' = [task EXCEPT !.at = @ + 1]
  PROVE  /\ task' \in Task /\ task'.pc = task.pc /\ task'.at = task.at + 1
         /\ task'.app = task.app /\ task'.phase = task.phase
BY DEF Task

(* stage_deployment()                                                      *)
LEMMA StageKeeps == ASSUME IInv, Stage PROVE IInv'
<1>1. CASE StageBegin
  <2>1. task.pc = "stage" /\ task.pc \in WorkerSteps /\ Busy
    BY <1>1, AtWork DEF StageBegin, At, WorkerSteps
  <2>2. /\ task' \in Task /\ task'.app = task.app /\ task'.pc = "staging"
        /\ task'.at = 1
    BY <1>1, <2>1
    DEF StageBegin, At, App, Goto, Verdict, Task, WorkerSteps, Verdicts, Phases, Busy, IInv,
        Steps, HolderHasSubject, LocalPhase
  <2>3. JournalMoves(task.app, "staging")
    BY <1>1, <2>1, Records
    DEF StageBegin, Busy, IInv, TypeOK, App, Phases, Failure, Steps, LocalPhase, At
  <2>4. TypeOK'
    BY <1>1, <2>1, <2>2, <2>3
    DEF StageBegin, Busy, At, App, Goto, Verdict, TypeOK, IInv, Candidate, JournalMoves
  <2>5. HolderHasSubject'
    BY <1>1, <2>1, <2>2, StaysAtWork DEF StageBegin, WorkerSteps, Request, Busy
  <2>6. JournalAt' /\ LocalPhase' /\ SnapshotThere'
    BY <1>1, <2>1, <2>2, <2>3
    DEF StageBegin, Busy, IInv, Steps, JournalAt, LocalPhase, SnapshotThere, At, App,
        WorkerSteps, JournalMoves, Recorded, OperationPhase
  <2>7. Books'
    BY <1>1, <2>1, <2>2, BooksRecorded
    DEF StageBegin, Busy, App, Phases, Unstarted, Failure, Steps, LocalPhase, IInv, At,
        JournalAt
  <2> QED BY <2>4, <2>5, <2>6, <2>7 DEF IInv, Steps
<1>2. CASE StageRefuse
  <2>1. task.pc = "stage" /\ task.pc \in WorkerSteps /\ Busy
    BY <1>2, AtWork DEF StageRefuse, At, WorkerSteps
  <2>2. /\ task' \in Task /\ task'.app = task.app /\ task'.pc = "report"
        /\ task'.at = 1
        /\ task'.phase \in {"reconciliation_required", "staging_failed"}
    BY <1>2, <2>1
    DEF StageRefuse, At, App, Goto, Verdict, Task, WorkerSteps, Verdicts, Phases, Busy,
        IInv, Steps, HolderHasSubject, LocalPhase
  <2>3. TypeOK'
    BY <1>2, <2>1, <2>2
    DEF StageRefuse, Busy, At, App, Goto, Verdict, TypeOK, IInv, Candidate
  <2>4. HolderHasSubject'
    BY <1>2, <2>1, <2>2, StaysAtWork DEF StageRefuse, WorkerSteps, Request, Busy
  <2>5. JournalAt' /\ LocalPhase' /\ SnapshotThere'
    BY <1>2, <2>1, <2>2
    DEF StageRefuse, Busy, IInv, Steps, JournalAt, LocalPhase, SnapshotThere, At, App,
        WorkerSteps, InTime, Owned, OperationPhase, Accepted, Verdicts
  <2>6. Books'
    BY <1>2, <2>2, Undisturbed DEF StageRefuse
  <2> QED BY <2>3, <2>4, <2>5, <2>6 DEF IInv, Steps
<1>3. CASE Snapshot
  <2>1. task.pc = "staging" /\ task.pc \in WorkerSteps /\ Busy
    BY <1>3, AtWork DEF Snapshot, At, WorkerSteps
  <2>2. /\ task' \in Task /\ task'.app = task.app /\ task'.pc = "swap"
        /\ task'.at = 1
    BY <1>3, <2>1
    DEF Snapshot, At, App, Goto, Verdict, Task, WorkerSteps, Verdicts, Phases, Busy, IInv,
        Steps, HolderHasSubject, LocalPhase
  <2>3. TypeOK'
    BY <1>3, <2>1, <2>2
    DEF Snapshot, Busy, At, App, Goto, Verdict, TypeOK, IInv, Candidate, Installed
  <2>4. HolderHasSubject'
    BY <1>3, <2>1, <2>2, StaysAtWork DEF Snapshot, WorkerSteps, Request, Busy
  <2>5. \A a \in Apps, id \in Ids :
           snapshots'[a][id] = IF a = task.app /\ id = pending.id THEN files[a]
                                                                  ELSE snapshots[a][id]
    BY <1>3, <2>1 DEF Snapshot, Busy, App, IInv, TypeOK
  <2>6. JournalAt' /\ LocalPhase' /\ SnapshotThere'
    <3>1. snapshots'[task.app][pending.id] # NoSnapshot
      BY <2>1, <2>5, HostAssumption DEF Busy, HostAssumption, IInv, TypeOK
    <3> QED BY <1>3, <2>1, <2>2, <3>1
      DEF Snapshot, Busy, IInv, Steps, JournalAt, LocalPhase, SnapshotThere, At,
          WorkerSteps
  <2>7. Books'
    <3>1. IdsFresh'
      BY <1>3, <2>1, <2>5 DEF Snapshot, Busy, IInv, Books, IdsFresh, TypeOK, Operation, Ids
    <3> QED BY <1>3, <2>2, <3>1
      DEF Snapshot, Books, IInv, QueueOwned, StartedOnce, NoReplay, SuccessIsRecorded,
          SlotsOwned, Submitting, SubmitSteps, At
  <2> QED BY <2>3, <2>4, <2>6, <2>7 DEF IInv, Steps
<1>4. CASE Swap
  <2>1. task.pc = "swap" /\ task.pc \in WorkerSteps /\ Busy
    BY <1>4, AtWork DEF Swap, At, WorkerSteps
  <2>2. /\ task' \in Task /\ task'.app = task.app /\ task'.pc \in {"swap", "configure"}
        /\ (task'.pc = "configure" => task'.at = 1)
    <3>1. task.at \in 1..4 /\ task.at # 4 => task.at + 1 \in 1..4
      BY <2>1 DEF Busy, Task
    <3>2. CASE task.at = 4
      BY <1>4, <2>1, <3>2, FromTheFirst DEF Swap, Busy, WorkerSteps
    <3>3. CASE task.at # 4
      BY <1>4, <2>1, <3>3, NextFile DEF Swap, Busy
    <3> QED BY <3>2, <3>3
  <2>3. TypeOK'
    BY <1>4, <2>1, <2>2
    DEF Swap, Busy, At, App, Goto, Verdict, TypeOK, IInv, Candidate, Write, FileOrder, File,
        Installed, Task
  <2>4. HolderHasSubject'
    BY <1>4, <2>1, <2>2, StaysAtWork DEF Swap, WorkerSteps, Request, Busy
  <2>5. JournalAt' /\ LocalPhase' /\ SnapshotThere'
    BY <1>4, <2>1, <2>2
    DEF Swap, Busy, IInv, Steps, JournalAt, LocalPhase, SnapshotThere, At, App, WorkerSteps
  <2>6. Books'
    BY <1>4, <2>2, Undisturbed DEF Swap
  <2> QED BY <2>3, <2>4, <2>5, <2>6 DEF IInv, Steps
<1>5. CASE Configure
  <2>1. task.pc = "configure" /\ task.pc \in WorkerSteps /\ Busy
    BY <1>5, AtWork DEF Configure, At, WorkerSteps
  <2>2. /\ task' \in Task /\ task'.app = task.app /\ task'.pc = "queue"
        /\ task'.at = 1
    BY <1>5, <2>1
    DEF Configure, At, App, Goto, Verdict, Task, WorkerSteps, Verdicts, Phases, Busy, IInv,
        Steps, HolderHasSubject, LocalPhase
  <2>3. JournalMoves(task.app, "configured")
    BY <1>5, <2>1, Records
    DEF Configure, Busy, IInv, TypeOK, App, Phases, Failure, Steps, LocalPhase, At
  <2>4. TypeOK'
    BY <1>5, <2>1, <2>2, <2>3
    DEF Configure, Busy, At, App, Goto, Verdict, TypeOK, IInv, Candidate, JournalMoves
  <2>5. HolderHasSubject'
    BY <1>5, <2>1, <2>2, StaysAtWork DEF Configure, WorkerSteps, Request, Busy
  <2>6. JournalAt' /\ LocalPhase' /\ SnapshotThere'
    BY <1>5, <2>1, <2>2, <2>3
    DEF Configure, Busy, IInv, Steps, JournalAt, LocalPhase, SnapshotThere, At, App,
        WorkerSteps, JournalMoves, Recorded
  <2>7. Books'
    BY <1>5, <2>1, <2>2, BooksRecorded
    DEF Configure, Busy, App, Phases, Unstarted, Failure, Steps, LocalPhase, IInv, At,
        JournalAt
  <2> QED BY <2>4, <2>5, <2>6, <2>7 DEF IInv, Steps
<1>6. CASE Queue
  <2>1. task.pc = "queue" /\ task.pc \in WorkerSteps /\ Busy
    BY <1>6, AtWork DEF Queue, At, WorkerSteps
  <2>2. /\ task' \in Task /\ task'.app = task.app /\ task'.pc = "consume"
        /\ task'.at = 1
    BY <1>6, <2>1
    DEF Queue, At, App, Goto, Verdict, Task, WorkerSteps, Verdicts, Phases, Busy, IInv,
        Steps, HolderHasSubject, LocalPhase
  <2>3. TypeOK'
    BY <1>6, <2>1, <2>2
    DEF Queue, Busy, At, App, Goto, Verdict, TypeOK, IInv, Candidate, Request
  <2>4. HolderHasSubject'
    BY <1>6, <2>1, <2>2, <2>3, StaysAtWork, HostAssumption
    DEF Queue, WorkerSteps, Request, Busy, HostAssumption, TypeOK
  <2>5. JournalAt' /\ LocalPhase' /\ SnapshotThere'
    BY <1>6, <2>1, <2>2
    DEF Queue, Busy, IInv, Steps, JournalAt, LocalPhase, SnapshotThere, At, App,
        WorkerSteps, Accepted
  <2>6. /\ pending' # NoRequest /\ pending'.id = pending.id /\ pending'.app = pending.app
        /\ pending'.candidate = pending.candidate /\ pending'.previous = pending.previous
    BY <1>6, <2>1, <2>3, HostAssumption DEF Queue, Busy, TypeOK, IInv, Request, HostAssumption
  <2>7. Books'
    BY <1>6, <2>1, <2>2, <2>6
    DEF Queue, Busy, App, IInv, Books, QueueOwned, IdsFresh, StartedOnce, NoReplay,
        SuccessIsRecorded, SlotsOwned, Submitting, SubmitSteps, At
  <2> QED BY <2>3, <2>4, <2>5, <2>7 DEF IInv, Steps
<1>7. CASE StageFails
  <2>1. task.pc \in {"staging", "swap", "configure", "queue"} /\ task.pc \in WorkerSteps /\ Busy
    BY <1>7, AtWork DEF StageFails, At, WorkerSteps
  <2>2. /\ task' \in Task /\ task'.app = task.app /\ task'.pc \in {"unstage", "restore"}
        /\ task'.at = 1
        /\ task.pc = "staging" => task'.pc = "unstage"
    BY <1>7, <2>1, FromTheFirst DEF StageFails, At, WorkerSteps, Busy
  <2>3. TypeOK'
    BY <1>7, <2>1, <2>2
    DEF StageFails, Busy, At, App, Goto, Verdict, TypeOK, IInv, Candidate
  <2>4. HolderHasSubject'
    BY <1>7, <2>1, <2>2, StaysAtWork DEF StageFails, WorkerSteps, Request, Busy
  <2>5. JournalAt' /\ LocalPhase' /\ SnapshotThere'
    BY <1>7, <2>1, <2>2
    DEF StageFails, Busy, IInv, Steps, JournalAt, LocalPhase, SnapshotThere, At, App,
        WorkerSteps
  <2>6. Books'
    BY <1>7, <2>1, <2>2
    DEF StageFails, Busy, App, IInv, Books, QueueOwned, IdsFresh, StartedOnce, NoReplay,
        SuccessIsRecorded, SlotsOwned, Submitting, SubmitSteps, At
  <2> QED BY <2>3, <2>4, <2>5, <2>6 DEF IInv, Steps
<1>8. CASE RestoreFile
  <2>1. task.pc = "restore" /\ task.pc \in WorkerSteps /\ Busy
    BY <1>8, AtWork DEF RestoreFile, At, WorkerSteps
  <2>2. /\ task' \in Task /\ task'.app = task.app /\ task'.pc \in {"restore", "unstage"}
        /\ (task'.pc = "unstage" => task'.at = 1)
    <3>1. task.at \in 1..4 /\ task.at # 4 => task.at + 1 \in 1..4
      BY <2>1 DEF Busy, Task
    <3>2. CASE task.at = 4
      BY <1>8, <2>1, <3>2, FromTheFirst DEF RestoreFile, Busy, WorkerSteps
    <3>3. CASE task.at # 4
      BY <1>8, <2>1, <3>3, NextFile DEF RestoreFile, Busy
    <3> QED BY <3>2, <3>3
  <2>3. TypeOK'
    BY <1>8, <2>1, <2>2
    DEF RestoreFile, Busy, At, App, Goto, Verdict, TypeOK, IInv, Candidate, Write,
        FileOrder, File, Installed, Task, Steps, SnapshotThere
  <2>4. HolderHasSubject'
    BY <1>8, <2>1, <2>2, StaysAtWork DEF RestoreFile, WorkerSteps, Request, Busy
  <2>5. JournalAt' /\ LocalPhase' /\ SnapshotThere'
    BY <1>8, <2>1, <2>2
    DEF RestoreFile, Busy, IInv, Steps, JournalAt, LocalPhase, SnapshotThere, At, App,
        WorkerSteps
  <2>6. Books'
    BY <1>8, <2>2, Undisturbed DEF RestoreFile
  <2> QED BY <2>3, <2>4, <2>5, <2>6 DEF IInv, Steps
<1>9. CASE RestoreFails
  <2>1. task.pc = "restore" /\ task.pc \in WorkerSteps /\ Busy
    BY <1>9, AtWork DEF RestoreFails, At, WorkerSteps
  <2>2. task' \in Task /\ task'.app = task.app /\ task'.pc = "unstage" /\ task'.at = 1
    BY <1>9, <2>1, FromTheFirst DEF RestoreFails, WorkerSteps, Busy
  <2>3. TypeOK'
    BY <1>9, <2>1, <2>2
    DEF RestoreFails, Busy, At, App, Goto, Verdict, TypeOK, IInv, Candidate
  <2>4. HolderHasSubject'
    BY <1>9, <2>1, <2>2, StaysAtWork DEF RestoreFails, WorkerSteps, Request, Busy
  <2>5. JournalAt' /\ LocalPhase' /\ SnapshotThere'
    BY <1>9, <2>1, <2>2
    DEF RestoreFails, Busy, IInv, Steps, JournalAt, LocalPhase, SnapshotThere, At, App,
        WorkerSteps
  <2>6. Books'
    BY <1>9, <2>2, Undisturbed DEF RestoreFails
  <2> QED BY <2>3, <2>4, <2>5, <2>6 DEF IInv, Steps
<1>10. CASE Unstage
  <2>1. task.pc = "unstage" /\ task.pc \in WorkerSteps /\ Busy
    BY <1>10, AtWork DEF Unstage, At, WorkerSteps
  <2>2. /\ task' \in Task /\ task'.app = task.app /\ task'.pc = "report"
        /\ task'.at = 1
        /\ task'.phase = "staging_failed"
    BY <1>10, <2>1
    DEF Unstage, At, App, Goto, Verdict, Task, WorkerSteps, Verdicts, Phases, Busy, IInv,
        Steps, HolderHasSubject, LocalPhase
  <2>3. JournalMoves(task.app, "staging_failed") \/ UNCHANGED journal
    BY <1>10, <2>1, Records
    DEF Unstage, Busy, IInv, TypeOK, App, Phases, Failure, Steps, LocalPhase, At
  <2>4. TypeOK'
    BY <1>10, <2>1, <2>2, <2>3
    DEF Unstage, Busy, At, App, Goto, Verdict, TypeOK, IInv, Candidate, JournalMoves
  <2>5. HolderHasSubject'
    BY <1>10, <2>1, <2>2, StaysAtWork DEF Unstage, WorkerSteps, Request, Busy
  <2>6. JournalAt' /\ LocalPhase' /\ SnapshotThere'
    BY <1>10, <2>1, <2>2, <2>3
    DEF Unstage, Busy, IInv, Steps, JournalAt, LocalPhase, SnapshotThere, At, App,
        WorkerSteps, JournalMoves, Recorded, Accepted, Verdicts
  <2>7. Books'
    <3>1. CASE Record(App, "staging_failed")
      BY <1>10, <2>1, <2>2, <3>1, BooksRecorded DEF Unstage, Busy, App, Phases
    <3>2. CASE UNCHANGED journal
      BY <1>10, <2>2, <3>2, Undisturbed DEF Unstage
    <3> QED BY <1>10, <3>1, <3>2 DEF Unstage
  <2> QED BY <2>4, <2>5, <2>6, <2>7 DEF IInv, Steps
<1>11. CASE Consume
  <2>1. task.pc = "consume" /\ task.pc \in WorkerSteps /\ Busy
    BY <1>11, AtWork DEF Consume, At, WorkerSteps
  <2>2. /\ task' \in Task /\ task'.app = task.app /\ task'.pc = "verify"
        /\ task'.at = 1
    BY <1>11, <2>1
    DEF Consume, At, App, Goto, Verdict, Task, WorkerSteps, Verdicts, Phases, Busy, IInv,
        Steps, HolderHasSubject, LocalPhase
  <2>3. TypeOK'
    BY <1>11, <2>1, <2>2
    DEF Consume, Busy, At, App, Goto, Verdict, TypeOK, IInv, Candidate, Request
  <2>4. HolderHasSubject'
    BY <1>11, <2>1, <2>2, <2>3, StaysAtWork, HostAssumption
    DEF Consume, WorkerSteps, Request, Busy, HostAssumption, TypeOK
  <2>5. JournalAt' /\ LocalPhase' /\ SnapshotThere'
    BY <1>11, <2>1, <2>2
    DEF Consume, Busy, IInv, Steps, JournalAt, LocalPhase, SnapshotThere, At, App,
        WorkerSteps, Accepted
  <2>6. Books'
    BY <1>11, <2>1, <2>2
    DEF Consume, Busy, App, IInv, Books, QueueOwned, IdsFresh, StartedOnce, NoReplay,
        SuccessIsRecorded, SlotsOwned, Submitting, SubmitSteps, At
  <2> QED BY <2>3, <2>4, <2>5, <2>6 DEF IInv, Steps
<1> QED BY <1>1, <1>2, <1>3, <1>4, <1>5, <1>6, <1>7, <1>8, <1>9, <1>10, <1>11 DEF Stage

(* activate()                                                              *)
LEMMA ActivateKeeps == ASSUME IInv, Activate PROVE IInv'
<1>1. CASE Verify
  <2>1. task.pc = "verify" /\ task.pc \in WorkerSteps /\ Busy
    BY <1>1, AtWork DEF Verify, At, WorkerSteps
  <2>2. /\ task' \in Task /\ task'.app = task.app /\ task'.pc = "begin"
        /\ task'.at = 1
    BY <1>1, <2>1
    DEF Verify, At, App, Goto, Verdict, Task, WorkerSteps, Verdicts, Phases, Busy, IInv,
        Steps, HolderHasSubject, LocalPhase
  <2>3. TypeOK'
    BY <1>1, <2>1, <2>2 DEF Verify, Busy, At, App, Goto, Verdict, TypeOK, IInv, Candidate
  <2>4. HolderHasSubject'
    BY <1>1, <2>1, <2>2, StaysAtWork DEF Verify, WorkerSteps, Request, Busy
  <2>5. JournalAt' /\ LocalPhase' /\ SnapshotThere'
    BY <1>1, <2>1, <2>2
    DEF Verify, Busy, IInv, Steps, JournalAt, LocalPhase, SnapshotThere, At, App,
        WorkerSteps, Owned, OperationPhase
  <2>6. Books'
    BY <1>1, <2>2, Undisturbed DEF Verify
  <2> QED BY <2>3, <2>4, <2>5, <2>6 DEF IInv, Steps
<1>2. CASE VerifyRefuse
  <2>1. task.pc = "verify" /\ task.pc \in WorkerSteps /\ Busy
    BY <1>2, AtWork DEF VerifyRefuse, At, WorkerSteps
  <2>2. /\ task' \in Task /\ task'.app = task.app /\ task'.pc = "report"
        /\ task'.at = 1
        /\ task'.phase \in {"reconciliation_required", "refused"}
    BY <1>2, <2>1
    DEF VerifyRefuse, At, App, Goto, Verdict, Task, WorkerSteps, Verdicts, Phases, Busy,
        IInv, Steps, HolderHasSubject, LocalPhase
  <2>3. TypeOK'
    BY <1>2, <2>1, <2>2
    DEF VerifyRefuse, Busy, At, App, Goto, Verdict, TypeOK, IInv, Candidate
  <2>4. HolderHasSubject'
    BY <1>2, <2>1, <2>2, StaysAtWork DEF VerifyRefuse, WorkerSteps, Request, Busy
  <2>5. JournalAt' /\ LocalPhase' /\ SnapshotThere'
    BY <1>2, <2>1, <2>2
    DEF VerifyRefuse, Busy, IInv, Steps, JournalAt, LocalPhase, SnapshotThere, At, App,
        WorkerSteps, InTime, Owned, OperationPhase, Accepted, Verdicts
  <2>6. Books'
    BY <1>2, <2>2, Undisturbed DEF VerifyRefuse
  <2> QED BY <2>3, <2>4, <2>5, <2>6 DEF IInv, Steps
<1>3. CASE BeginStopped
  <2>1. task.pc = "begin" /\ task.pc \in WorkerSteps /\ Busy
    BY <1>3, AtWork DEF BeginStopped, At, WorkerSteps
  <2>2. /\ task' \in Task /\ task'.app = task.app /\ task'.pc = "reload"
        /\ task'.at = 1
        /\ task'.halted = TRUE
    BY <1>3, <2>1
    DEF BeginStopped, At, App, Goto, Verdict, Task, WorkerSteps, Verdicts, Phases, Busy,
        IInv, Steps, HolderHasSubject, LocalPhase
  <2>3. TypeOK'
    BY <1>3, <2>1, <2>2
    DEF BeginStopped, Busy, At, App, Goto, Verdict, TypeOK, IInv, Candidate
  <2>4. HolderHasSubject'
    BY <1>3, <2>1, <2>2, StaysAtWork DEF BeginStopped, WorkerSteps, Request, Busy
  <2>5. JournalAt' /\ LocalPhase' /\ SnapshotThere'
    BY <1>3, <2>1, <2>2
    DEF BeginStopped, Busy, IInv, Steps, JournalAt, LocalPhase, SnapshotThere, At, App,
        WorkerSteps
  <2>6. Books'
    BY <1>3, <2>2, Undisturbed DEF BeginStopped
  <2> QED BY <2>3, <2>4, <2>5, <2>6 DEF IInv, Steps
<1>4. CASE Begin
  <2>1. task.pc = "begin" /\ task.pc \in WorkerSteps /\ Busy
    BY <1>4, AtWork DEF Begin, At, WorkerSteps
  <2>2. /\ task' \in Task /\ task'.app = task.app /\ task'.pc = "up"
        /\ task'.at = 1
    BY <1>4, <2>1
    DEF Begin, At, App, Goto, Verdict, Task, WorkerSteps, Verdicts, Phases, Busy, IInv,
        Steps, HolderHasSubject, LocalPhase
  <2>3. JournalMoves(task.app, "activating")
    BY <1>4, <2>1, Records
    DEF Begin, Busy, IInv, TypeOK, App, Phases, Failure, Steps, LocalPhase, At
  <2>4. TypeOK'
    BY <1>4, <2>1, <2>2, <2>3
    DEF Begin, Busy, At, App, Goto, Verdict, TypeOK, IInv, Candidate, JournalMoves
  <2>5. HolderHasSubject'
    BY <1>4, <2>1, <2>2, StaysAtWork DEF Begin, WorkerSteps, Request, Busy
  <2>6. JournalAt' /\ LocalPhase' /\ SnapshotThere'
    BY <1>4, <2>1, <2>2, <2>3
    DEF Begin, Busy, IInv, Steps, JournalAt, LocalPhase, SnapshotThere, At, App,
        WorkerSteps, JournalMoves, Recorded
  <2>7. Books'
    BY <1>4, <2>1, <2>2, BooksRecorded
    DEF Begin, Busy, App, Phases, Unstarted, Failure, Steps, LocalPhase, IInv, At, JournalAt
  <2> QED BY <2>4, <2>5, <2>6, <2>7 DEF IInv, Steps
<1>5. CASE Up
  <2>1. task.pc = "up" /\ task.pc \in WorkerSteps /\ Busy
    BY <1>5, AtWork DEF Up, At, WorkerSteps
  <2>2. /\ task' \in Task /\ task'.app = task.app /\ task'.pc \in {"recheck", "failing"}
        /\ task'.at = 1
    BY <1>5, <2>1
    DEF Up, At, App, Goto, Verdict, Task, WorkerSteps, Verdicts, Phases, Busy, IInv, Steps,
        HolderHasSubject, LocalPhase
  <2>3. \A id \in Ids : ups'[id] = IF id = pending.id THEN 1 ELSE ups[id]
    BY <1>5, <2>1 DEF Up, At, Busy, IInv, TypeOK, Books, StartedOnce, Ids
  <2>4. TypeOK'
    <3>1. ups' \in [Ids -> 0..2]
      BY <1>5, <2>1, <2>3 DEF Up, Busy, IInv, TypeOK, Ids
    <3>2. containers' \in [Apps -> Installed]
      BY <1>5, <2>1, ContainersKnown DEF Up, Busy, App
    <3> QED BY <1>5, <2>2, <3>1, <3>2 DEF Up, IInv, TypeOK
  <2>5. HolderHasSubject'
    BY <1>5, <2>1, <2>2, StaysAtWork DEF Up, WorkerSteps, Request, Busy
  <2>6. JournalAt' /\ LocalPhase' /\ SnapshotThere'
    BY <1>5, <2>1, <2>2
    DEF Up, Busy, IInv, Steps, JournalAt, LocalPhase, SnapshotThere, At, WorkerSteps
  <2>7. Books'
    <3>1. IdsFresh'
      BY <1>5, <2>1, <2>3, QueuedIsDrawn DEF Up, IInv, Books, IdsFresh
    <3>2. StartedOnce'
      <4>1. journal[task.app].phase = "activating"
        BY <2>1 DEF IInv, Steps, JournalAt
      <4>2. \A a \in Apps : journal[a] # NoOperation /\ journal[a].phase \in Unstarted
                              => journal[a].id # pending.id
        BY <2>1, <4>1 DEF Busy, IInv, Books, IdsFresh, Unstarted
      <4> QED BY <1>5, <2>2, <2>3, <4>2
        DEF Up, IInv, Books, StartedOnce, NoReplay, At, TypeOK, Operation
    <3> QED BY <1>5, <2>2, <3>1, <3>2
      DEF Up, IInv, Books, QueueOwned, SuccessIsRecorded, SlotsOwned, Submitting,
          SubmitSteps, At
  <2> QED BY <2>4, <2>5, <2>6, <2>7 DEF IInv, Steps
<1>6. CASE Recheck
  <2>1. task.pc = "recheck" /\ task.pc \in WorkerSteps /\ Busy
    BY <1>6, AtWork DEF Recheck, At, WorkerSteps
  <2>2. /\ task' \in Task /\ task'.app = task.app /\ task'.pc = "reload"
        /\ task'.at = 1
    BY <1>6, <2>1
    DEF Recheck, At, App, Goto, Verdict, Task, WorkerSteps, Verdicts, Phases, Busy, IInv,
        Steps, HolderHasSubject, LocalPhase
  <2>3. TypeOK'
    BY <1>6, <2>1, <2>2
    DEF Recheck, Busy, At, App, Goto, Verdict, TypeOK, IInv, Candidate, StopContainers,
        Installed
  <2>4. HolderHasSubject'
    BY <1>6, <2>1, <2>2, StaysAtWork DEF Recheck, WorkerSteps, Request, Busy
  <2>5. JournalAt' /\ LocalPhase' /\ SnapshotThere'
    BY <1>6, <2>1, <2>2
    DEF Recheck, Busy, IInv, Steps, JournalAt, LocalPhase, SnapshotThere, At, App,
        WorkerSteps
  <2>6. Books'
    BY <1>6, <2>2, Undisturbed DEF Recheck
  <2> QED BY <2>3, <2>4, <2>5, <2>6 DEF IInv, Steps
<1>7. CASE Reload
  <2>1. task.pc = "reload" /\ task.pc \in WorkerSteps /\ Busy
    BY <1>7, AtWork DEF Reload, At, WorkerSteps
  <2>2. /\ task' \in Task /\ task'.app = task.app /\ task'.pc = "retain"
        /\ task'.at = 1
        /\ task'.halted = task.halted
    BY <1>7, <2>1
    DEF Reload, At, App, Goto, Verdict, Task, WorkerSteps, Verdicts, Phases, Busy, IInv,
        Steps, HolderHasSubject, LocalPhase
  <2>3. TypeOK'
    BY <1>7, <2>1, <2>2
    DEF Reload, Busy, At, App, Goto, Verdict, TypeOK, IInv, Candidate, ReloadProxy, File,
        Installed
  <2>4. HolderHasSubject'
    BY <1>7, <2>1, <2>2, StaysAtWork DEF Reload, WorkerSteps, Request, Busy
  <2>5. JournalAt' /\ LocalPhase' /\ SnapshotThere'
    BY <1>7, <2>1, <2>2
    DEF Reload, Busy, IInv, Steps, JournalAt, LocalPhase, SnapshotThere, At, App,
        WorkerSteps
  <2>6. Books'
    BY <1>7, <2>2, Undisturbed DEF Reload
  <2> QED BY <2>3, <2>4, <2>5, <2>6 DEF IInv, Steps
<1>8. CASE RetainCandidate
  <2>1. task.pc = "retain" /\ task.pc \in WorkerSteps /\ Busy
    BY <1>8, AtWork DEF RetainCandidate, At, WorkerSteps
  <2>2. /\ task' \in Task /\ task'.app = task.app /\ task'.pc = "settle"
        /\ task'.at = 1
        /\ task'.halted = task.halted
        /\ task'.phase = IF task.halted THEN "prepared_stopped" ELSE "activated"
    BY <1>8, <2>1
    DEF RetainCandidate, At, App, Goto, Verdict, Task, WorkerSteps, Verdicts, Phases, Busy,
        IInv, Steps, HolderHasSubject, LocalPhase
  <2>3. TypeOK'
    BY <1>8, <2>1, <2>2
    DEF RetainCandidate, Busy, At, App, Goto, Verdict, TypeOK, IInv, Candidate, Retain,
        Installed
  <2>4. HolderHasSubject'
    BY <1>8, <2>1, <2>2, StaysAtWork DEF RetainCandidate, WorkerSteps, Request, Busy
  <2>5. JournalAt' /\ LocalPhase' /\ SnapshotThere'
    BY <1>8, <2>1, <2>2
    DEF RetainCandidate, Busy, IInv, Steps, JournalAt, LocalPhase, SnapshotThere, At, App,
        WorkerSteps
  <2>6. Books'
    BY <1>8, <2>2, Undisturbed DEF RetainCandidate
  <2> QED BY <2>3, <2>4, <2>5, <2>6 DEF IInv, Steps
<1>9. CASE Settle
  <2>1. task.pc = "settle" /\ task.pc \in WorkerSteps /\ Busy
    BY <1>9, AtWork DEF Settle, At, WorkerSteps
  <2>2. /\ task' \in Task /\ task'.app = task.app /\ task'.at = 1
        /\ task'.phase = IF task.halted THEN "prepared_stopped" ELSE "activated"
        /\ task'.pc = IF task.halted THEN "report" ELSE "probe"
    <3>1. task.phase = IF task.halted THEN "prepared_stopped" ELSE "activated"
      BY <2>1 DEF IInv, Steps, LocalPhase, At
    <3>2. task.at = 1
      BY <2>1 DEF IInv, Steps, HolderHasSubject
    <3>3. CASE task.halted
      BY <1>9, <2>1, <3>1, <3>2, <3>3, Concluding
      DEF Settle, Verdict, WorkerSteps, Verdicts, Busy
    <3>4. CASE ~task.halted
      BY <1>9, <2>1, <3>1, <3>2, <3>4 DEF Settle, Goto, Task, WorkerSteps, Busy
    <3> QED BY <3>3, <3>4
  <2>3. JournalMoves(task.app, task.phase)
    BY <1>9, <2>1, Records
    DEF Settle, Busy, IInv, TypeOK, App, Phases, Failure, Steps, LocalPhase, At
  <2>4. TypeOK'
    BY <1>9, <2>1, <2>2, <2>3
    DEF Settle, Busy, At, App, Goto, Verdict, TypeOK, IInv, Candidate, JournalMoves
  <2>5. HolderHasSubject'
    BY <1>9, <2>1, <2>2, StaysAtWork DEF Settle, WorkerSteps, Request, Busy
  <2>6. JournalAt' /\ LocalPhase' /\ SnapshotThere'
    <3>1. task.phase = IF task.halted THEN "prepared_stopped" ELSE "activated"
      BY <2>1 DEF IInv, Steps, LocalPhase, At
    <3>2. journal'[task.app].phase = task.phase
      BY <2>3, <3>1 DEF JournalMoves, Recorded
    <3> QED BY <1>9, <2>1, <2>2, <3>1, <3>2
      DEF Settle, JournalAt, LocalPhase, SnapshotThere, At, WorkerSteps, Verdicts
  <2>7. Books'
    BY <1>9, <2>1, <2>2, BooksRecorded
    DEF Settle, Busy, App, Phases, Unstarted, Failure, Steps, LocalPhase, IInv, At,
        JournalAt
  <2> QED BY <2>4, <2>5, <2>6, <2>7 DEF IInv, Steps
<1>10. CASE Probe
  <2>1. task.pc = "probe" /\ task.pc \in WorkerSteps /\ Busy
    BY <1>10, AtWork DEF Probe, At, WorkerSteps
  <2>2. /\ task' \in Task /\ task'.app = task.app /\ task'.pc = "conclude"
        /\ task'.at = 1
        /\ task'.phase \in {"ready", "activated"}
    BY <1>10, <2>1
    DEF Probe, At, App, Goto, Verdict, Task, WorkerSteps, Verdicts, Phases, Busy, IInv,
        Steps, HolderHasSubject, LocalPhase
  <2>3. TypeOK'
    BY <1>10, <2>1, <2>2 DEF Probe, Busy, At, App, Goto, Verdict, TypeOK, IInv, Candidate
  <2>4. HolderHasSubject'
    BY <1>10, <2>1, <2>2, StaysAtWork DEF Probe, WorkerSteps, Request, Busy
  <2>5. JournalAt' /\ LocalPhase' /\ SnapshotThere'
    BY <1>10, <2>1, <2>2
    DEF Probe, Busy, IInv, Steps, JournalAt, LocalPhase, SnapshotThere, At, App, WorkerSteps
  <2>6. Books'
    BY <1>10, <2>2, Undisturbed DEF Probe
  <2> QED BY <2>3, <2>4, <2>5, <2>6 DEF IInv, Steps
<1>11. CASE Conclude
  <2>1. task.pc = "conclude" /\ task.pc \in WorkerSteps /\ Busy
    BY <1>11, AtWork DEF Conclude, At, WorkerSteps
  <2>2. /\ task' \in Task /\ task'.app = task.app /\ task'.pc = "close" /\ task'.at = 1
        /\ task'.phase \in {task.phase, "prepared_stopped"}
    <3>1. task.at = 1
      BY <2>1 DEF IInv, Steps, HolderHasSubject
    <3>2. CASE mark[App] = 0
      BY <1>11, <2>1, <3>1, <3>2 DEF Conclude, Goto, Task, WorkerSteps, Busy
    <3>3. CASE mark[App] # 0
      BY <1>11, <2>1, <3>1, <3>3 DEF Conclude, Task, WorkerSteps, Verdicts, Busy
    <3> QED BY <3>2, <3>3
  <2>3. TypeOK'
    BY <1>11, <2>1, <2>2
    DEF Conclude, Busy, At, App, Goto, Verdict, TypeOK, IInv, Candidate, StopContainers,
        Installed
  <2>4. HolderHasSubject'
    BY <1>11, <2>1, <2>2, StaysAtWork DEF Conclude, WorkerSteps, Request, Busy
  <2>5. JournalAt' /\ LocalPhase' /\ SnapshotThere'
    BY <1>11, <2>1, <2>2
    DEF Conclude, Busy, IInv, Steps, JournalAt, LocalPhase, SnapshotThere, At, App,
        WorkerSteps
  <2>6. Books'
    BY <1>11, <2>2, Undisturbed DEF Conclude
  <2> QED BY <2>3, <2>4, <2>5, <2>6 DEF IInv, Steps
<1>12. CASE Close
  <2>1. task.pc = "close" /\ task.pc \in WorkerSteps /\ Busy
    BY <1>12, AtWork DEF Close, At, WorkerSteps
  <2>2. /\ task' \in Task /\ task'.app = task.app /\ task'.pc = "report"
        /\ task'.at = 1
        /\ task'.phase = task.phase
    BY <1>12, <2>1
    DEF Close, At, App, Goto, Verdict, Task, WorkerSteps, Verdicts, Phases, Busy, IInv,
        Steps, HolderHasSubject, LocalPhase
  <2>3. JournalMoves(task.app, task.phase)
    BY <1>12, <2>1, Records
    DEF Close, Busy, IInv, TypeOK, App, Phases, Failure, Steps, LocalPhase, At
  <2>4. TypeOK'
    BY <1>12, <2>1, <2>2, <2>3
    DEF Close, Busy, At, App, Goto, Verdict, TypeOK, IInv, Candidate, JournalMoves
  <2>5. HolderHasSubject'
    BY <1>12, <2>1, <2>2, StaysAtWork DEF Close, WorkerSteps, Request, Busy
  <2>6. JournalAt' /\ LocalPhase' /\ SnapshotThere'
    BY <1>12, <2>1, <2>2, <2>3
    DEF Close, Busy, IInv, Steps, JournalAt, LocalPhase, SnapshotThere, At, App,
        WorkerSteps, JournalMoves, Recorded, Accepted, Verdicts
  <2>7. Books'
    BY <1>12, <2>1, <2>2, BooksRecorded
    DEF Close, Busy, App, Phases, Unstarted, Failure, Steps, LocalPhase, IInv, At, JournalAt
  <2> QED BY <2>4, <2>5, <2>6, <2>7 DEF IInv, Steps
<1>13. CASE ActivationFails
  <2>1. /\ task.pc \in {"begin", "recheck", "reload", "retain", "settle", "probe",
                        "conclude", "close"}
        /\ task.pc \in WorkerSteps /\ Busy
    BY <1>13, AtWork DEF ActivationFails, At, WorkerSteps
  <2>2. /\ task' \in Task /\ task'.app = task.app /\ task'.pc = "failing"
        /\ task'.at = 1
    BY <1>13, <2>1
    DEF ActivationFails, At, App, Goto, Verdict, Task, WorkerSteps, Verdicts, Phases, Busy,
        IInv, Steps, HolderHasSubject, LocalPhase
  <2>3. TypeOK'
    <3>1. containers' \in [Apps -> Installed] /\ proxy' \in [Apps -> Installed]
      BY <1>13, <2>1
      DEF ActivationFails, IInv, TypeOK, ReloadProxy, StopContainers, File, Installed
    <3>2. retained' \in [Apps -> [current : Installed, previous : Installed]]
      BY <1>13, <2>1 DEF ActivationFails, Busy, IInv, TypeOK, Retain, Candidate, Installed
    <3> QED BY <1>13, <2>2, <3>1, <3>2 DEF ActivationFails, IInv, TypeOK
  <2>4. HolderHasSubject'
    BY <1>13, <2>1, <2>2, StaysAtWork DEF ActivationFails, WorkerSteps, Request, Busy
  <2>5. JournalAt' /\ LocalPhase' /\ SnapshotThere'
    BY <1>13, <2>1, <2>2
    DEF ActivationFails, Busy, IInv, Steps, JournalAt, LocalPhase, SnapshotThere, At, App,
        WorkerSteps
  <2>6. Books'
    BY <1>13, <2>2, Undisturbed DEF ActivationFails
  <2> QED BY <2>3, <2>4, <2>5, <2>6 DEF IInv, Steps
<1>14. CASE Fail
  <2>1. task.pc = "failing" /\ task.pc \in WorkerSteps /\ Busy
    BY <1>14, AtWork DEF Fail, At, WorkerSteps
  <2>2. /\ task' \in Task /\ task'.app = task.app /\ task'.pc = "report"
        /\ task'.at = 1
        /\ task'.phase \in {"activation_failed", "readiness_failed", "failed",
                            "acknowledgement_failed"}
    BY <1>14, <2>1
    DEF Fail, At, App, Goto, Verdict, Task, WorkerSteps, Verdicts, Phases, Busy, IInv,
        Steps, HolderHasSubject, LocalPhase, Failure
  <2>3. JournalMoves(task.app, Failure) \/ UNCHANGED journal
    BY <1>14, <2>1, Records
    DEF Fail, Busy, IInv, TypeOK, App, Phases, Failure, Steps, LocalPhase, At
  <2>4. TypeOK'
    BY <1>14, <2>1, <2>2, <2>3
    DEF Fail, Busy, At, App, Goto, Verdict, TypeOK, IInv, Candidate, JournalMoves
  <2>5. HolderHasSubject'
    BY <1>14, <2>1, <2>2, StaysAtWork DEF Fail, WorkerSteps, Request, Busy
  <2>6. JournalAt' /\ LocalPhase' /\ SnapshotThere'
    BY <1>14, <2>1, <2>2, <2>3
    DEF Fail, Busy, IInv, Steps, JournalAt, LocalPhase, SnapshotThere, At, App, WorkerSteps,
        JournalMoves, Recorded, Accepted, Verdicts, Failure
  <2>7. Books'
    <3>1. CASE Record(App, Failure)
      BY <1>14, <2>1, <2>2, <3>1, BooksRecorded DEF Fail, Busy, App, Phases, Failure
    <3>2. CASE UNCHANGED journal
      BY <1>14, <2>2, <3>2, Undisturbed DEF Fail
    <3> QED BY <1>14, <3>1, <3>2 DEF Fail
  <2> QED BY <2>4, <2>5, <2>6, <2>7 DEF IInv, Steps
<1> QED BY <1>1, <1>2, <1>3, <1>4, <1>5, <1>6, <1>7, <1>8, <1>9, <1>10, <1>11, <1>12, <1>13,
     <1>14
  DEF Activate

(* The end of activation_pass(): the durable result, then the clean-up.    *)
LEMMA FinishKeeps == ASSUME IInv, Finish PROVE IInv'
<1>1. CASE Report
  <2>1. task.pc = "report" /\ task.pc \in WorkerSteps /\ Busy
    BY <1>1, AtWork DEF Report, At, WorkerSteps
  <2>2. /\ task' \in Task /\ task'.app = task.app /\ task'.pc = "clean"
        /\ task'.at = 1
        /\ task'.phase = task.phase
    BY <1>1, <2>1
    DEF Report, At, App, Goto, Verdict, Task, WorkerSteps, Verdicts, Phases, Busy, IInv,
        Steps, HolderHasSubject, LocalPhase
  <2>3. TypeOK'
    BY <1>1, <2>1, <2>2
    DEF Report, Busy, At, App, Goto, Verdict, TypeOK, IInv, Candidate, Steps, LocalPhase
  <2>4. HolderHasSubject'
    BY <1>1, <2>1, <2>2, StaysAtWork DEF Report, WorkerSteps, Request, Busy
  <2>5. JournalAt' /\ LocalPhase' /\ SnapshotThere'
    BY <1>1, <2>1, <2>2
    DEF Report, Busy, IInv, Steps, JournalAt, LocalPhase, SnapshotThere, At, App,
        WorkerSteps
  <2>6. Books'
    <3>1. \A id \in Ids : results'[id] = IF id = pending.id THEN task.phase ELSE results[id]
      BY <1>1, <2>1 DEF Report, Busy, IInv, TypeOK
    <3>2. IdsFresh'
      BY <1>1, <2>1, <3>1 DEF Report, Busy, IInv, Books, IdsFresh, TypeOK, Operation, Ids
    <3>3. SuccessIsRecorded'
      <4>1. task.phase \in Accepted => journal[task.app].phase = task.phase
        BY <2>1 DEF IInv, Steps, JournalAt
      <4>2. \A a \in Apps : journal[a] # NoOperation =>
              journal[a].id \in Ids /\ (a # task.app => journal[a].id # pending.id)
        BY <2>1 DEF Busy, IInv, Books, IdsFresh, TypeOK, Operation
      <4> QED BY <1>1, <2>1, <3>1, <4>1, <4>2
        DEF Report, Busy, IInv, Books, SuccessIsRecorded
    <3>4. SlotsOwned'
      BY <1>1, <2>1, <2>2, <3>1
      DEF Report, Busy, IInv, Books, SlotsOwned, Submitting, SubmitSteps, At
    <3> QED BY <1>1, <2>2, <3>2, <3>3, <3>4
      DEF Report, IInv, Books, QueueOwned, StartedOnce, NoReplay, At
  <2> QED BY <2>3, <2>4, <2>5, <2>6 DEF IInv, Steps
<1>2. CASE Clean
  <2>1. task.pc = "clean" /\ task.pc \in WorkerSteps /\ Busy
    BY <1>2, AtWork DEF Clean, At, WorkerSteps
  <2>2. /\ task' \in Task /\ task'.app = task.app /\ task'.pc = "drop"
        /\ task'.at = 1
        /\ task'.phase = task.phase
    BY <1>2, <2>1
    DEF Clean, At, App, Goto, Verdict, Task, WorkerSteps, Verdicts, Phases, Busy, IInv,
        Steps, HolderHasSubject, LocalPhase
  <2>3. TypeOK'
    BY <1>2, <2>1, <2>2 DEF Clean, Busy, At, App, Goto, Verdict, TypeOK, IInv, Candidate
  <2>4. HolderHasSubject'
    BY <1>2, <2>1, <2>2, StaysAtWork DEF Clean, WorkerSteps, Request, Busy
  <2>5. JournalAt' /\ LocalPhase' /\ SnapshotThere'
    BY <1>2, <2>1, <2>2
    DEF Clean, Busy, IInv, Steps, JournalAt, LocalPhase, SnapshotThere, At, App, WorkerSteps
  <2>6. Books'
    BY <1>2, <2>1, <2>2
    DEF Clean, Busy, App, IInv, Books, QueueOwned, IdsFresh, StartedOnce, NoReplay,
        SuccessIsRecorded, SlotsOwned, Submitting, SubmitSteps, At, Steps, TypeOK
  <2> QED BY <2>3, <2>4, <2>5, <2>6 DEF IInv, Steps
<1>3. CASE Drop
  <2>1. task.pc = "drop" /\ task.pc \in WorkerSteps /\ Busy
    BY <1>3, AtWork DEF Drop, At, WorkerSteps
  <2>2. task' = Idle /\ task'.pc = "idle"
    BY <1>3 DEF Drop, Leave, Idle
  <2>3. TypeOK'
    BY <1>3, <2>2, NobodyAtWork DEF Drop, TypeOK, IInv
  <2>4. Steps'
    BY <2>2, NobodyAtWork DEF Steps
  <2>5. Books'
    BY <1>3, <2>1, <2>2
    DEF Drop, Busy, IInv, Books, QueueOwned, IdsFresh, StartedOnce, NoReplay,
        SuccessIsRecorded, SlotsOwned, Submitting, SubmitSteps, At
  <2> QED BY <2>3, <2>4, <2>5 DEF IInv
<1> QED BY <1>1, <1>2, <1>3 DEF Finish

(* deployment-submit of src/src/host/workload/commands.rs: the admission,  *)
(* the credential slot, the queued request.                                *)
LEMMA SubmissionKeeps == ASSUME IInv, Submission PROVE IInv'
<1>1. ASSUME NEW a \in Apps, NEW c \in Revisions, Submit(a, c) PROVE IInv'
  <2>1. /\ task = Idle /\ pending = NoRequest /\ lastId + 1 \in Ids /\ lastId \in Nat
        /\ lastId' = lastId + 1 /\ files[a]["env"] \in Installed
    BY <1>1, HostAssumption
    DEF Submit, LocksFree, ActivationIdle, IInv, TypeOK, Ids, HostAssumption, File
  <2>2. task' \in Task /\ task'.app = a /\ task'.pc = "admitted" /\ task'.at = 1
    <3>1. task' = [pc |-> "admitted", app |-> a, at |-> 1, phase |-> "none",
                   halted |-> FALSE, seen |-> 0]
      BY <1>1 DEF Submit, Enter, Idle
    <3> QED BY <3>1, Enters, NoStopYet DEF SubmitSteps, Verdicts
  <2>3. /\ journal' \in [Apps -> Operation \cup {NoOperation}]
        /\ journal'[a] \in Operation /\ journal'[a].id = lastId + 1
        /\ journal'[a].phase = "admitted"
        /\ \A b \in Apps : b # a => journal'[b] = journal[b]
    BY <1>1, <2>1 DEF Submit, Operation, Phases, IInv, TypeOK
  <2>4. TypeOK'
    BY <1>1, <2>1, <2>2, <2>3 DEF Submit, IInv, TypeOK, Ids
  <2>5. HolderHasSubject'
    BY <1>1, <2>1, <2>2, <2>3, HostAssumption
    DEF Submit, HolderHasSubject, At, WorkerSteps, HostAssumption, Submitting, Reconciling,
        SubmitSteps, ReconcileSteps
  <2>6. JournalAt' /\ LocalPhase' /\ SnapshotThere'
    BY <2>2 DEF JournalAt, LocalPhase, SnapshotThere, At, WorkerSteps
  <2>7. \A b \in Apps : journal[b] # NoOperation => journal[b].id <= lastId /\ journal[b].id \in Ids
    BY DEF IInv, TypeOK, Operation, Books, IdsFresh
  <2>8. /\ ups[lastId + 1] = 0 /\ results[lastId + 1] = "none"
        /\ \A b \in Apps : snapshots[b][lastId + 1] = NoSnapshot
    BY <2>1 DEF IInv, Books, IdsFresh
  <2>9. Books'
    <3>1. QueueOwned' /\ SlotsOwned'
      BY <1>1, <2>1, <2>2, <2>3, <2>8
      DEF Submit, IInv, Books, QueueOwned, SlotsOwned, Submitting, At
    <3>2. IdsFresh'
      BY <1>1, <2>1, <2>3, <2>7 DEF Submit, IInv, Books, IdsFresh, Ids
    <3>3. StartedOnce'
      BY <1>1, <2>1, <2>2, <2>3, <2>8 DEF Submit, IInv, Books, StartedOnce, NoReplay, At
    <3>4. SuccessIsRecorded'
      BY <1>1, <2>1, <2>3, <2>8 DEF Submit, IInv, Books, SuccessIsRecorded, Accepted
    <3> QED BY <3>1, <3>2, <3>3, <3>4 DEF Books
  <2> QED BY <2>4, <2>5, <2>6, <2>9 DEF IInv, Steps
<1>2. CASE SubmitSlot
  <2>1. task.pc = "admitted" /\ Operating
    BY <1>2, AtOffice DEF SubmitSlot, At, SubmitSteps
  <2>2. task' \in Task /\ task'.app = task.app /\ task'.pc = "slot" /\ task'.at = 1
    BY <1>2, <2>1
    DEF SubmitSlot, Goto, Task, SubmitSteps, Operating, IInv, Steps, HolderHasSubject
  <2>3. TypeOK'
    <3>1. journal[task.app].id \in Ids
      BY <2>1 DEF Operating, Operation, SubmitSteps
    <3> QED BY <1>2, <2>2, <3>1 DEF SubmitSlot, IInv, TypeOK, Subject, Current
  <2>4. HolderHasSubject'
    BY <1>2, <2>1, <2>2
    DEF SubmitSlot, Operating, HolderHasSubject, At, WorkerSteps, Submitting, Reconciling,
        SubmitSteps, ReconcileSteps
  <2>5. JournalAt' /\ LocalPhase' /\ SnapshotThere'
    BY <2>2 DEF JournalAt, LocalPhase, SnapshotThere, At, WorkerSteps
  <2>6. Books'
    BY <1>2, <2>1, <2>2
    DEF SubmitSlot, Operating, Subject, Current, IInv, Books, QueueOwned, IdsFresh,
        StartedOnce, NoReplay, SuccessIsRecorded, SlotsOwned, Submitting, SubmitSteps, At
  <2> QED BY <2>3, <2>4, <2>5, <2>6 DEF IInv, Steps
<1>3. CASE SubmitQueue
  <2>1. task.pc = "slot" /\ Operating
    BY <1>3, AtOffice DEF SubmitQueue, At, SubmitSteps, ReconcileSteps, StartSteps
  <2>2. task' = Idle /\ task'.pc = "idle"
    BY <1>3, <2>1 DEF SubmitQueue, At, Leave, Idle
  <2>3. TypeOK'
    BY <1>3, <2>1, <2>2, NobodyAtWork
    DEF SubmitQueue, Operating, TypeOK, IInv, Subject, Current, Request, Operation,
        SubmitSteps
  <2>4. Steps'
    BY <2>2, NobodyAtWork DEF Steps
  <2>5. Books'
    BY <1>3, <2>1, <2>2
    DEF SubmitQueue, Operating, Subject, Current, IInv, Books, QueueOwned, IdsFresh,
        StartedOnce, NoReplay, SuccessIsRecorded, SlotsOwned, Submitting, SubmitSteps, At
  <2> QED BY <2>3, <2>4, <2>5 DEF IInv
<1>4. CASE SubmitFails
  <2>1. task.pc \in {"admitted", "slot"} /\ Operating
    BY <1>4, AtOffice DEF SubmitFails, At, SubmitSteps, ReconcileSteps, StartSteps
  <2>2. task' = Idle /\ task'.pc = "idle"
    BY <1>4, <2>1 DEF SubmitFails, At, Leave, Idle, SubmitSteps
  <2>3. TypeOK'
    BY <1>4, <2>1, <2>2, NobodyAtWork
    DEF SubmitFails, Operating, TypeOK, IInv, Subject, Current
  <2>4. Steps'
    BY <2>2, NobodyAtWork DEF Steps
  <2>5. Books'
    BY <1>4, <2>1, <2>2
    DEF SubmitFails, Operating, Subject, Current, IInv, Books, QueueOwned, IdsFresh,
        StartedOnce, NoReplay, SuccessIsRecorded, SlotsOwned, Submitting, SubmitSteps, At
  <2> QED BY <2>3, <2>4, <2>5 DEF IInv
<1> QED BY <1>1, <1>2, <1>3, <1>4 DEF Submission

(* reconcile() of src/src/host/workload/reconciliation.rs.                 *)
LEMMA ReconciliationKeeps == ASSUME IInv, Reconciliation PROVE IInv'
<1>1. ASSUME NEW a \in Apps, AbandonInitial(a) PROVE IInv'
  <2>1. task = Idle /\ task' = Idle /\ task'.pc = "idle"
    BY <1>1 DEF AbandonInitial, Reviewable, LocksFree, Idle
  <2>2. JournalMoves(a, "reconciled")
    BY <1>1, Records DEF AbandonInitial, IInv, TypeOK, Phases
  <2>3. TypeOK'
    BY <1>1, <2>2 DEF AbandonInitial, IInv, TypeOK, JournalMoves
  <2>4. Steps'
    BY <2>1, NobodyAtWork DEF Steps
  <2>5. Books'
    BY <1>1, <2>1, BooksRecorded DEF AbandonInitial, Phases
  <2> QED BY <2>3, <2>4, <2>5 DEF IInv
<1>2. ASSUME NEW a \in Apps, RestoreServing(a) PROVE IInv'
  <2>1. task = Idle /\ pending = NoRequest /\ journal[a] # NoOperation
    BY <1>2
    DEF RestoreServing, Reviewable, LocksFree, ActivationIdle, OperationPhase, Reconcilable,
        Fence
  <2>2. task' \in Task /\ task'.app = a /\ task'.pc \in {"serve", "put back"} /\ task'.at = 1
    <3>1. PICK pc \in {"serve", "put back"} :
            task' = [pc |-> pc, app |-> a, at |-> 1, phase |-> "restore-serving",
                     halted |-> FALSE, seen |-> 0]
      BY <1>2 DEF RestoreServing, Idle
    <3> QED BY <3>1, Enters, NoStopYet DEF ReconcileSteps
  <2>3. TypeOK'
    BY <1>2, <2>2 DEF RestoreServing, IInv, TypeOK
  <2>4. HolderHasSubject'
    BY <1>2, <2>1, <2>2
    DEF RestoreServing, HolderHasSubject, At, WorkerSteps, Submitting, Reconciling,
        SubmitSteps, ReconcileSteps
  <2>5. JournalAt' /\ LocalPhase' /\ SnapshotThere'
    BY <1>2, <2>2
    DEF RestoreServing, JournalAt, LocalPhase, SnapshotThere, At, WorkerSteps, Idle
  <2>6. Books'
    BY <1>2, <2>2, Undisturbed DEF RestoreServing
  <2> QED BY <2>3, <2>4, <2>5, <2>6 DEF IInv, Steps
<1>3. ASSUME NEW a \in Apps, AcceptCandidate(a) PROVE IInv'
  <2>1. task = Idle /\ pending = NoRequest /\ journal[a] # NoOperation
    BY <1>3
    DEF AcceptCandidate, Reviewable, LocksFree, ActivationIdle, OperationPhase,
        Reconcilable, Fence
  <2>2. task' \in Task /\ task'.app = a /\ task'.pc = "serve" /\ task'.at = 1
    <3>1. task' = [pc |-> "serve", app |-> a, at |-> 1, phase |-> "accept-candidate",
                   halted |-> FALSE, seen |-> 0]
      BY <1>3 DEF AcceptCandidate, Idle
    <3> QED BY <3>1, Enters, NoStopYet DEF ReconcileSteps
  <2>3. TypeOK'
    BY <1>3, <2>2 DEF AcceptCandidate, IInv, TypeOK
  <2>4. HolderHasSubject'
    BY <1>3, <2>1, <2>2
    DEF AcceptCandidate, HolderHasSubject, At, WorkerSteps, Submitting, Reconciling,
        SubmitSteps, ReconcileSteps
  <2>5. JournalAt' /\ LocalPhase' /\ SnapshotThere'
    BY <1>3, <2>2 DEF AcceptCandidate, JournalAt, LocalPhase, SnapshotThere, At, WorkerSteps
  <2>6. Books'
    BY <1>3, <2>2, Undisturbed DEF AcceptCandidate
  <2> QED BY <2>3, <2>4, <2>5, <2>6 DEF IInv, Steps
<1>4. CASE PutBack
  <2>1. task.pc = "put back" /\ Operating
    BY <1>4, AtOffice DEF PutBack, At, SubmitSteps, ReconcileSteps, StartSteps
  <2>2. /\ task' \in Task /\ task'.app = task.app /\ task'.pc \in {"put back", "serve"}
        /\ task'.pc = "serve" => task'.at = 1
    <3>1. CASE task.at = 4
      BY <1>4, <2>1, <3>1, FromTheFirst DEF PutBack, Operating, ReconcileSteps
    <3>2. CASE task.at # 4
      BY <1>4, <2>1, <3>2, NextFile DEF PutBack, Operating
    <3> QED BY <3>1, <3>2
  <2>3. TypeOK'
    <3>1. journal[task.app].id \in Ids /\ task.at \in 1..4
      BY <2>1 DEF Operating, Operation, ReconcileSteps, Task
    <3>2. snapshots[task.app][journal[task.app].id] # NoSnapshot
      BY <2>1 DEF IInv, Steps, SnapshotThere, At
    <3>3. snapshots[task.app][journal[task.app].id] \in [File -> Installed]
      <4>1. snapshots \in [Apps -> [Ids -> [File -> Installed] \cup {NoSnapshot}]]
        BY DEF IInv, TypeOK
      <4> QED BY <2>1, <3>1, <3>2, <4>1 DEF Operating
    <3>4. FileOrder[task.at] \in File
      BY <3>1 DEF FileOrder, File
    <3>5. files' \in [Apps -> [File -> Installed]]
      BY <1>4, <2>1, <3>3, <3>4
      DEF PutBack, Operating, IInv, TypeOK, Subject, Current, Write
    <3> QED BY <1>4, <2>1, <2>2, <3>5 DEF PutBack, Operating, IInv, TypeOK, Subject
  <2>4. HolderHasSubject'
    BY <1>4, <2>1, <2>2
    DEF PutBack, Operating, HolderHasSubject, At, WorkerSteps, Submitting, Reconciling,
        SubmitSteps, ReconcileSteps
  <2>5. JournalAt' /\ LocalPhase' /\ SnapshotThere'
    BY <1>4, <2>1, <2>2
    DEF PutBack, IInv, Steps, JournalAt, LocalPhase, SnapshotThere, At, WorkerSteps
  <2>6. Books'
    BY <1>4, <2>2, Undisturbed DEF PutBack
  <2> QED BY <2>3, <2>4, <2>5, <2>6 DEF IInv, Steps
<1>5. CASE Serve
  <2>1. task.pc = "serve" /\ Operating
    BY <1>5, AtOffice DEF Serve, At, SubmitSteps, ReconcileSteps, StartSteps
  <2>2. /\ task' \in Task /\ task'.app = task.app /\ task'.pc = "confirm"
        /\ task'.at = 1
    BY <1>5, <2>1
    DEF Serve, At, Goto, Task, SubmitSteps, ReconcileSteps, StartSteps, Operating, IInv,
        Steps, HolderHasSubject
  <2>3. TypeOK'
    BY <1>5, <2>1, <2>2
    DEF Serve, Operating, TypeOK, IInv, Subject, ReloadProxy, File, Installed
  <2>4. HolderHasSubject'
    BY <1>5, <2>1, <2>2
    DEF Serve, Operating, HolderHasSubject, At, WorkerSteps, Submitting, Reconciling,
        SubmitSteps, ReconcileSteps
  <2>5. JournalAt' /\ LocalPhase' /\ SnapshotThere'
    BY <1>5, <2>1, <2>2
    DEF Serve, IInv, Steps, JournalAt, LocalPhase, SnapshotThere, At, WorkerSteps
  <2>6. Books'
    BY <1>5, <2>2, Undisturbed DEF Serve
  <2> QED BY <2>3, <2>4, <2>5, <2>6 DEF IInv, Steps
<1>6. CASE Confirm
  <2>1. task.pc = "confirm" /\ Operating
    BY <1>6, AtOffice DEF Confirm, At, SubmitSteps, ReconcileSteps, StartSteps
  <2>2. /\ task' \in Task /\ task'.app = task.app /\ task'.pc = "keep"
        /\ task'.at = 1
    BY <1>6, <2>1
    DEF Confirm, At, Goto, Task, SubmitSteps, ReconcileSteps, StartSteps, Operating, IInv,
        Steps, HolderHasSubject
  <2>3. TypeOK'
    BY <1>6, <2>1, <2>2 DEF Confirm, Operating, TypeOK, IInv, Subject
  <2>4. HolderHasSubject'
    BY <1>6, <2>1, <2>2
    DEF Confirm, Operating, HolderHasSubject, At, WorkerSteps, Submitting, Reconciling,
        SubmitSteps, ReconcileSteps
  <2>5. JournalAt' /\ LocalPhase' /\ SnapshotThere'
    BY <1>6, <2>1, <2>2
    DEF Confirm, IInv, Steps, JournalAt, LocalPhase, SnapshotThere, At, WorkerSteps
  <2>6. Books'
    BY <1>6, <2>2, Undisturbed DEF Confirm
  <2> QED BY <2>3, <2>4, <2>5, <2>6 DEF IInv, Steps
<1>7. CASE OwnerChanged
  <2>1. task.pc \in {"confirm", "keep"} /\ Operating
    BY <1>7, AtOffice DEF OwnerChanged, At, SubmitSteps, ReconcileSteps, StartSteps
  <2>2. task' = Idle /\ task'.pc = "idle"
    BY <1>7, <2>1 DEF OwnerChanged, At, Leave, Idle
  <2>3. TypeOK'
    BY <1>7, <2>1, <2>2, NobodyAtWork
    DEF OwnerChanged, Operating, TypeOK, IInv, Subject, StopContainers, Installed
  <2>4. Steps'
    BY <2>2, NobodyAtWork DEF Steps
  <2>5. Books'
    BY <1>7, <2>2, Undisturbed DEF OwnerChanged
  <2> QED BY <2>3, <2>4, <2>5 DEF IInv
<1>8. CASE Keep
  <2>1. task.pc = "keep" /\ Operating
    BY <1>8, AtOffice DEF Keep, At, SubmitSteps, ReconcileSteps, StartSteps
  <2>2. /\ task' \in Task /\ task'.app = task.app /\ task'.pc = "record"
        /\ task'.at = 1
    BY <1>8, <2>1
    DEF Keep, At, Goto, Task, SubmitSteps, ReconcileSteps, StartSteps, Operating, IInv,
        Steps, HolderHasSubject
  <2>3. TypeOK'
    <3>1. journal[task.app].candidate \in Installed /\ journal[task.app].previous \in Installed
      BY <2>1 DEF Operating, Operation, ReconcileSteps, Installed
    <3>2. retained \in [Apps -> [current : Installed, previous : Installed]]
      BY DEF IInv, TypeOK
    <3>3. retained' \in [Apps -> [current : Installed, previous : Installed]]
      BY <1>8, <2>1, <3>1, <3>2 DEF Keep, Operating, Subject, Current, Retain
    <3> QED BY <1>8, <2>2, <3>3 DEF Keep, IInv, TypeOK
  <2>4. HolderHasSubject'
    BY <1>8, <2>1, <2>2
    DEF Keep, Operating, HolderHasSubject, At, WorkerSteps, Submitting, Reconciling,
        SubmitSteps, ReconcileSteps
  <2>5. JournalAt' /\ LocalPhase' /\ SnapshotThere'
    BY <1>8, <2>1, <2>2
    DEF Keep, IInv, Steps, JournalAt, LocalPhase, SnapshotThere, At, WorkerSteps
  <2>6. Books'
    BY <1>8, <2>2, Undisturbed DEF Keep
  <2> QED BY <2>3, <2>4, <2>5, <2>6 DEF IInv, Steps
<1>9. CASE RecordReconciled
  <2>1. task.pc = "record" /\ Operating
    BY <1>9, AtOffice DEF RecordReconciled, At, SubmitSteps, ReconcileSteps, StartSteps
  <2>2. task' = Idle /\ task'.pc = "idle"
    BY <1>9, <2>1 DEF RecordReconciled, At, Leave, Idle
  <2>3. JournalMoves(task.app, "reconciled")
    BY <1>9, <2>1, Records
    DEF RecordReconciled, Operating, IInv, TypeOK, Subject, Phases, At
  <2>4. TypeOK'
    BY <1>9, <2>1, <2>2, <2>3, NobodyAtWork
    DEF RecordReconciled, Operating, TypeOK, IInv, Subject, JournalMoves
  <2>5. Steps'
    BY <2>2, NobodyAtWork DEF Steps
  <2>6. Books'
    BY <1>9, <2>1, <2>2, BooksRecorded DEF RecordReconciled, Operating, Subject, Phases
  <2> QED BY <2>4, <2>5, <2>6 DEF IInv
<1>10. CASE ReconcileFails
  <2>1. task.pc \in {"put back", "serve", "confirm", "keep", "record"} /\ Operating
    BY <1>10, AtOffice DEF ReconcileFails, At, SubmitSteps, ReconcileSteps, StartSteps
  <2>2. task' = Idle /\ task'.pc = "idle"
    BY <1>10, <2>1 DEF ReconcileFails, At, Leave, Idle, ReconcileSteps
  <2>3. TypeOK'
    BY <1>10, <2>1, <2>2, NobodyAtWork DEF ReconcileFails, Operating, TypeOK, IInv, Subject
  <2>4. Steps'
    BY <2>2, NobodyAtWork DEF Steps
  <2>5. Books'
    BY <1>10, <2>2, Undisturbed DEF ReconcileFails
  <2> QED BY <2>3, <2>4, <2>5 DEF IInv
<1> QED BY <1>1, <1>2, <1>3, <1>4, <1>5, <1>6, <1>7, <1>8, <1>9, <1>10 DEF Reconciliation

(* perform_typed_owner() of src/src/host/workload/owner.rs, and its record. *)
LEMMA LifecycleKeeps == ASSUME IInv, Lifecycle PROVE IInv'
<1>1. ASSUME NEW a \in Apps, Stop(a) PROVE IInv'
  <2>1. stops + 1 \in 0..MaxStops
    BY <1>1, HostAssumption DEF Stop, IInv, TypeOK, HostAssumption
  <2>2. TypeOK'
    BY <1>1, <2>1 DEF Stop, IInv, TypeOK
  <2> QED BY <1>1, <2>2, Rests DEF Stop
<1>2. ASSUME NEW a \in Apps, StopNow(a) PROVE IInv'
  <2>1. containers' \in [Apps -> Installed]
    BY <1>2, ContainersKnown DEF StopNow
  <2>2. TypeOK'
    BY <1>2, <2>1 DEF StopNow, IInv, TypeOK
  <2> QED BY <1>2, <2>2, Rests DEF StopNow
<1>3. ASSUME NEW a \in Apps, StopGivesUp(a) PROVE IInv'
  <2>1. TypeOK'
    BY <1>3 DEF StopGivesUp, IInv, TypeOK
  <2> QED BY <1>3, <2>1, Rests DEF StopGivesUp
<1>4. ASSUME NEW a \in Apps, NEW verb \in {"start", "restart"}, Start(a, verb) PROVE IInv'
  <2>1. pending = NoRequest
    BY <1>4 DEF Start, Startable, ActivationIdle
  <2>2. task' \in Task /\ task'.app = a /\ task'.pc = "start" /\ task'.at = 1
    <3>1. task' = [pc |-> "start", app |-> a, at |-> 1, phase |-> verb,
                   halted |-> FALSE, seen |-> mark[a]]
      BY <1>4 DEF Start, Idle
    <3> QED BY <3>1, Enters DEF StartSteps, IInv, TypeOK
  <2>3. TypeOK'
    BY <1>4, <2>2 DEF Start, IInv, TypeOK
  <2>4. HolderHasSubject'
    BY <1>4, <2>1, <2>2
    DEF Start, HolderHasSubject, At, WorkerSteps, Submitting, Reconciling, SubmitSteps,
        ReconcileSteps
  <2>5. JournalAt' /\ LocalPhase' /\ SnapshotThere'
    BY <2>2 DEF JournalAt, LocalPhase, SnapshotThere, At, WorkerSteps
  <2>6. Books'
    BY <1>4, <2>2, Undisturbed DEF Start
  <2> QED BY <2>3, <2>4, <2>5, <2>6 DEF IInv, Steps
<1>5. CASE StartUp
  <2>1. task.pc = "start" /\ Operating
    BY <1>5, AtOffice DEF StartUp, At, SubmitSteps, ReconcileSteps, StartSteps
  <2>2. /\ task' \in Task /\ task'.app = task.app /\ task'.pc = "watch"
        /\ task'.at = 1
    BY <1>5, <2>1
    DEF StartUp, At, Goto, Task, SubmitSteps, ReconcileSteps, StartSteps, Operating, IInv,
        Steps, HolderHasSubject
  <2>3. TypeOK'
    <3>1. containers' \in [Apps -> Installed]
      BY <1>5, <2>1, ContainersKnown DEF StartUp, Operating, IInv, TypeOK, Subject
    <3> QED BY <1>5, <2>2, <3>1 DEF StartUp, IInv, TypeOK
  <2>4. HolderHasSubject'
    BY <1>5, <2>1, <2>2
    DEF StartUp, Operating, HolderHasSubject, At, WorkerSteps, Submitting, Reconciling,
        SubmitSteps, ReconcileSteps
  <2>5. JournalAt' /\ LocalPhase' /\ SnapshotThere'
    BY <1>5, <2>1, <2>2
    DEF StartUp, IInv, Steps, JournalAt, LocalPhase, SnapshotThere, At, WorkerSteps
  <2>6. Books'
    BY <1>5, <2>2, Undisturbed DEF StartUp
  <2> QED BY <2>3, <2>4, <2>5, <2>6 DEF IInv, Steps
<1>6. CASE StartReady
  <2>1. task.pc = "watch" /\ Operating
    BY <1>6, AtOffice DEF StartReady, At, StartSteps
  <2>2. task'.pc \in {"clear", "idle"} /\ TypeOK' /\ Steps'
    <3>1. CASE task.phase = "start"
      <4>1. task' \in Task /\ task'.app = task.app /\ task'.pc = "clear" /\ task'.at = 1
        BY <1>6, <2>1, <3>1
        DEF StartReady, Goto, Task, StartSteps, Operating, IInv, Steps, HolderHasSubject
      <4>2. TypeOK'
        BY <1>6, <4>1, <3>1 DEF StartReady, IInv, TypeOK
      <4>3. HolderHasSubject'
        BY <1>6, <2>1, <4>1
        DEF StartReady, Operating, HolderHasSubject, At, WorkerSteps, Submitting,
            Reconciling, SubmitSteps, ReconcileSteps
      <4>4. JournalAt' /\ LocalPhase' /\ SnapshotThere'
        BY <4>1 DEF JournalAt, LocalPhase, SnapshotThere, At, WorkerSteps
      <4> QED BY <4>1, <4>2, <4>3, <4>4 DEF Steps
    <3>2. CASE task.phase # "start"
      <4>1. task' = Idle /\ task'.pc = "idle"
        BY <1>6, <3>2 DEF StartReady, Leave, Idle
      <4>2. TypeOK'
        BY <1>6, <3>2, <4>1, NobodyAtWork DEF StartReady, IInv, TypeOK
      <4> QED BY <4>1, <4>2, NobodyAtWork DEF Steps
    <3> QED BY <3>1, <3>2
  <2>3. Books'
    BY <1>6, <2>2, Undisturbed DEF StartReady
  <2> QED BY <2>2, <2>3 DEF IInv
<1>7. CASE StartClear
  <2>1. task.pc = "clear" /\ Operating
    BY <1>7, AtOffice DEF StartClear, At, SubmitSteps, ReconcileSteps, StartSteps
  <2>2. task' = Idle /\ task'.pc = "idle"
    BY <1>7, <2>1 DEF StartClear, At, Leave, Idle
  <2>3. TypeOK'
    <3>1. mark' \in [Apps -> 0..MaxStops]
      BY <1>7, <2>1, HostAssumption
      DEF StartClear, Operating, IInv, TypeOK, Subject, HostAssumption
    <3> QED BY <1>7, <2>1, <2>2, <3>1, NobodyAtWork
      DEF StartClear, Operating, IInv, TypeOK, Subject
  <2>4. Steps'
    BY <2>2, NobodyAtWork DEF Steps
  <2>5. Books'
    BY <1>7, <2>2, Undisturbed DEF StartClear
  <2> QED BY <2>3, <2>4, <2>5 DEF IInv
<1>8. CASE StartStopped
  <2>1. task.pc \in {"watch", "clear"} /\ Operating
    BY <1>8, AtOffice DEF StartStopped, At, SubmitSteps, ReconcileSteps, StartSteps
  <2>2. task' = Idle /\ task'.pc = "idle"
    BY <1>8, <2>1 DEF StartStopped, At, Leave, Idle
  <2>3. TypeOK'
    BY <1>8, <2>1, <2>2, NobodyAtWork
    DEF StartStopped, Operating, TypeOK, IInv, Subject, StopContainers, Installed
  <2>4. Steps'
    BY <2>2, NobodyAtWork DEF Steps
  <2>5. Books'
    BY <1>8, <2>2, Undisturbed DEF StartStopped
  <2> QED BY <2>3, <2>4, <2>5 DEF IInv
<1>9. CASE StartFails
  <2>1. task.pc \in {"start", "watch", "clear"} /\ Operating
    BY <1>9, AtOffice DEF StartFails, At, SubmitSteps, ReconcileSteps, StartSteps
  <2>2. task' = Idle /\ task'.pc = "idle"
    BY <1>9, <2>1 DEF StartFails, At, Leave, Idle, StartSteps
  <2>3. TypeOK'
    <3>1. containers' \in [Apps -> Installed]
      BY <1>9, <2>1, ContainersKnown DEF StartFails, Operating, IInv, TypeOK, Subject
    <3> QED BY <1>9, <2>1, <2>2, <3>1, NobodyAtWork
      DEF StartFails, Operating, IInv, TypeOK, Subject
  <2>4. Steps'
    BY <2>2, NobodyAtWork DEF Steps
  <2>5. Books'
    BY <1>9, <2>2, Undisturbed DEF StartFails
  <2> QED BY <2>3, <2>4, <2>5 DEF IInv
<1> QED BY <1>1, <1>2, <1>3, <1>4, <1>5, <1>6, <1>7, <1>8, <1>9 DEF Lifecycle

(* activation_pass() takes the queued request.                             *)
LEMMA PassKeeps == ASSUME IInv, Pass PROVE IInv'
<1>1. /\ task = Idle /\ pending # NoRequest /\ pending \in Request /\ pending.app \in Apps
      /\ UNCHANGED <<disk, containers, proxy, owner, tally>>
  BY DEF Pass, LocksFree, IInv, TypeOK, Request
<1>2. CASE Owned /\ OperationPhase(pending.app) \in Accepted
  <2>1. /\ task' \in Task /\ task'.app = pending.app /\ task'.pc = "report" /\ task'.at = 1
        /\ task'.phase = journal[pending.app].phase /\ task'.phase \in Accepted
    <3>1. journal[pending.app].phase \in Accepted
      BY <1>2 DEF OperationPhase, Owned
    <3>2. task' = [pc |-> "report", app |-> pending.app, at |-> 1,
                   phase |-> journal[pending.app].phase, halted |-> FALSE, seen |-> 0]
      BY <1>2 DEF Pass, Decide, Idle, OperationPhase, Owned
    <3> QED BY <1>1, <3>1, <3>2, Enters, NoStopYet DEF WorkerSteps, Accepted, Verdicts
  <2>2. TypeOK'
    BY <1>1, <2>1 DEF IInv, TypeOK
  <2>3. HolderHasSubject'
    BY <1>1, <2>1
    DEF HolderHasSubject, At, WorkerSteps, Submitting, Reconciling, SubmitSteps,
        ReconcileSteps
  <2>4. JournalAt' /\ LocalPhase' /\ SnapshotThere'
    BY <1>1, <2>1
    DEF JournalAt, LocalPhase, SnapshotThere, At, WorkerSteps, Accepted, Verdicts
  <2>5. Books'
    BY <1>1, <2>1, Undisturbed
  <2> QED BY <2>2, <2>3, <2>4, <2>5 DEF IInv, Steps
<1>3. CASE ~(Owned /\ OperationPhase(pending.app) \in Accepted)
  <2>1. /\ task' \in Task /\ task'.app = pending.app /\ task'.pc \in {"stage", "verify"}
        /\ task'.at = 1
    <3>1. PICK pc \in {"stage", "verify"} :
            task' = [pc |-> pc, app |-> pending.app, at |-> 1, phase |-> "none",
                     halted |-> FALSE, seen |-> 0]
      BY <1>3 DEF Pass, Enter, Idle
    <3> QED BY <1>1, <3>1, Enters, NoStopYet DEF WorkerSteps, Verdicts
  <2>2. TypeOK'
    BY <1>1, <2>1 DEF IInv, TypeOK
  <2>3. HolderHasSubject'
    BY <1>1, <2>1
    DEF HolderHasSubject, At, WorkerSteps, Submitting, Reconciling, SubmitSteps,
        ReconcileSteps
  <2>4. journal[pending.app].phase \notin Accepted
    BY <1>1, <1>3 DEF Owned, OperationPhase, IInv, Books, QueueOwned
  <2>5. JournalAt' /\ LocalPhase' /\ SnapshotThere'
    BY <1>1, <2>1, <2>4 DEF JournalAt, LocalPhase, SnapshotThere, At, WorkerSteps
  <2>6. Books'
    BY <1>1, <2>1, Undisturbed
  <2> QED BY <2>2, <2>3, <2>5, <2>6 DEF IInv, Steps
<1> QED BY <1>2, <1>3

(* A host without a history.                                               *)
LEMMA HostStarts == ASSUME Init PROVE IInv
<1>1. TypeOK
  BY HostAssumption, NobodyAtWork
  DEF Init, TypeOK, Whole, File, Installed, Request, HostAssumption, Idle, Task, Verdicts,
      Ids
<1>2. task = Idle /\ task.pc = "idle"
  BY DEF Init, Idle
<1>3. Steps
  <2>1. HolderHasSubject
    BY <1>2
    DEF HolderHasSubject, At, WorkerSteps, Submitting, Reconciling, SubmitSteps,
        ReconcileSteps, Idle
  <2> QED BY <1>2, <2>1 DEF Steps, JournalAt, LocalPhase, SnapshotThere, At, WorkerSteps
<1>4. Books
  BY <1>2, HostAssumption
  DEF Init, Books, QueueOwned, IdsFresh, StartedOnce, NoReplay, SuccessIsRecorded,
      SlotsOwned, Submitting, SubmitSteps, At
<1> QED BY <1>1, <1>3, <1>4 DEF IInv

(* Every step keeps the invariant; the clock and a crash at any step, too. *)
LEMMA HostKeeps == ASSUME IInv, [Next]_vars PROVE IInv'
<1>1. ASSUME NEW a \in Apps, DeadlinePasses(a) PROVE IInv'
  <2>1. TypeOK'
    BY <1>1 DEF DeadlinePasses, IInv, TypeOK
  <2> QED BY <1>1, <2>1, Rests DEF DeadlinePasses
<1>2. CASE Crash
  <2>1. task' = Idle /\ task'.pc = "idle"
    BY <1>2 DEF Crash, Leave, Idle
  <2>2. crashes' \in 0..MaxCrashes /\ disturbed' \subseteq Apps
    <3>1. crashes' \in 0..MaxCrashes
      BY <1>2, HostAssumption DEF Crash, IInv, TypeOK, HostAssumption
    <3>2. task.pc \in StartSteps => task.app \in Apps
      BY DEF IInv, Steps, HolderHasSubject, At, StartSteps
    <3> QED BY <1>2, <3>1, <3>2 DEF Crash, IInv, TypeOK
  <2>3. TypeOK'
    BY <1>2, <2>1, <2>2, NobodyAtWork DEF Crash, IInv, TypeOK
  <2>4. Steps'
    BY <2>1, NobodyAtWork DEF Steps
  <2>5. Books'
    BY <1>2, <2>1, Undisturbed DEF Crash
  <2> QED BY <2>3, <2>4, <2>5 DEF IInv
<1>3. CASE UNCHANGED vars
  <2>1. TypeOK'
    BY <1>3 DEF vars, IInv, TypeOK
  <2> QED BY <1>3, <2>1, Rests DEF vars
<1> QED BY <1>1, <1>2, <1>3, PassKeeps, StageKeeps, ActivateKeeps, FinishKeeps,
     SubmissionKeeps, ReconciliationKeeps, LifecycleKeeps
  DEF Next, Worker

(* The inductive invariant: at every step of a pass, a submission or a     *)
(* reconciliation the task, the queue, operation.json, the results, the    *)
(* snapshots and the credential slots know of each other what the next     *)
(* step relies on, whoever died before.                                    *)
THEOREM BooksInOrder == Spec => []IInv
<1>1. Init => IInv
  BY HostStarts
<1>2. IInv /\ [Next]_vars => IInv'
  BY HostKeeps
<1> QED BY <1>1, <1>2, PTL DEF Spec

(* Who writes operation.json: record() for the operation in it, and an     *)
(* admission; the clock passes its deadline.                               *)
JournalWritten ==
  \/ UNCHANGED <<journal, late>>
  \/ \E a \in Apps, ph \in Phases : Record(a, ph) /\ UNCHANGED late
  \/ \E a \in Apps, c \in Revisions : Submit(a, c)
  \/ \E a \in Apps : DeadlinePasses(a)

(* No step writes operation.json otherwise.                                *)
LEMMA JournalWriters == ASSUME IInv, [Next]_vars PROVE JournalWritten
<1> USE DEF JournalWritten
<1>1. task.pc \in WorkerSteps => task.app \in Apps
  BY AtWork DEF Busy
<1>2. CASE Pass \/ Finish
  BY <1>2 DEF Pass, Finish, Report, Clean, Drop
<1>3. CASE Stage
  <2>1. CASE StageBegin
    BY <1>1, <2>1 DEF StageBegin, At, WorkerSteps, App, Phases
  <2>2. CASE Configure
    BY <1>1, <2>2 DEF Configure, At, WorkerSteps, App, Phases
  <2>3. CASE Unstage
    BY <1>1, <2>3 DEF Unstage, At, WorkerSteps, App, Phases
  <2> QED BY <1>3, <2>1, <2>2, <2>3
    DEF Stage, StageRefuse, Snapshot, Swap, Queue, Consume, StageFails, RestoreFile,
        RestoreFails
<1>4. CASE Activate
  <2>1. CASE Begin
    BY <1>1, <2>1 DEF Begin, At, WorkerSteps, App, Phases
  <2>2. CASE Settle
    BY <1>1, <2>2 DEF Settle, At, WorkerSteps, App, Phases, IInv, Steps, LocalPhase
  <2>3. CASE Close
    BY <1>1, <2>3 DEF Close, At, WorkerSteps, App, Phases, IInv, Steps, LocalPhase
  <2>4. CASE Fail
    BY <1>1, <2>4 DEF Fail, Failure, At, WorkerSteps, App, Phases
  <2> QED BY <1>4, <2>1, <2>2, <2>3, <2>4
    DEF Activate, Verify, VerifyRefuse, BeginStopped, Up, Recheck, Reload,
        RetainCandidate, Probe, Conclude, ActivationFails
<1>5. CASE Submission
  BY <1>5 DEF Submission, SubmitSlot, SubmitQueue, SubmitFails
<1>6. CASE Reconciliation
  <2>1. ASSUME NEW a \in Apps, AbandonInitial(a) PROVE JournalWritten
    BY <2>1 DEF AbandonInitial, Phases
  <2>2. CASE RecordReconciled
    BY <2>2, AtOffice DEF RecordReconciled, At, ReconcileSteps, Operating, Subject, Phases
  <2> QED BY <1>6, <2>1, <2>2
    DEF Reconciliation, RestoreServing, AcceptCandidate, PutBack, Serve, Confirm,
        OwnerChanged, Keep, ReconcileFails
<1>7. CASE Lifecycle
  BY <1>7
  DEF Lifecycle, Stop, StopNow, StopGivesUp, Start, StartUp, StartReady, StartClear,
      StartStopped, StartFails
<1>8. CASE (\E a \in Apps : DeadlinePasses(a)) \/ Crash \/ UNCHANGED vars
  BY <1>8 DEF Crash, vars
<1> QED BY <1>2, <1>3, <1>4, <1>5, <1>6, <1>7, <1>8 DEF Next, Worker

(* The journal of module OperationJournal goes by the same rules.          *)
LEMMA SameRules ==
  ASSUME NEW a \in Apps, NEW from, NEW to, NEW l
  PROVE  /\ J(a)!Recorded(from, to) = Recorded(from, to)
         /\ J(a)!MayRecord(from, to, l) <=> MayRecord(from, to, l)
         /\ J(a)!Fence = Fence /\ J(a)!Phases = Phases
<1>1. J(a)!Recorded(from, to) = Recorded(from, to)
  BY DEF J!Recorded, Recorded
<1>2. J(a)!Fence = Fence /\ J(a)!Final = Final /\ J(a)!Follows = Follows
      /\ J(a)!AfterDeadline = AfterDeadline /\ J(a)!Phases = Phases
  BY DEF J!Fence, Fence, J!Final, Final, J!Follows, Follows, J!AfterDeadline, AfterDeadline,
         J!Phases, Phases
<1>3. J(a)!Reconcilable = Reconcilable
  BY <1>2 DEF J!Reconcilable, Reconcilable
<1>4. ASSUME NEW t PROVE J(a)!Legal(from, t) <=> Legal(from, t)
  BY <1>2, <1>3 DEF J!Legal, Legal
<1> QED BY <1>1, <1>2, <1>4 DEF J!MayRecord, MayRecord

(* Each of these is a step of OperationJournal, for the one application.   *)
LEMMA JournalFollows ==
  ASSUME IInv, JournalWritten, NEW a \in Apps
  PROVE  [J(a)!Next]_(J(a)!vars)
<1>1. CASE UNCHANGED <<journal, late>>
  BY <1>1 DEF J!vars
<1>2. ASSUME NEW b \in Apps, NEW ph \in Phases, Record(b, ph), UNCHANGED late
      PROVE  [J(a)!Next]_(J(a)!vars)
  <2>1. JournalMoves(b, ph)
    BY <1>2, Records DEF IInv, TypeOK
  <2>2. CASE b # a
    BY <1>2, <2>1, <2>2 DEF JournalMoves, J!vars
  <2>3. CASE b = a
    <3>1. /\ journal[a].candidate \in Revisions
          /\ journal[a].previous \in Revisions \cup {NoRevision}
      BY <2>1, <2>3 DEF JournalMoves, IInv, TypeOK, Operation, Installed
    <3>2. journal'[a] = [journal[a] EXCEPT !.phase = Recorded(journal[a].phase, ph)]
      BY <1>2, <2>3 DEF Record, IInv, TypeOK
    <3>3. J(a)!Advance(journal[a].candidate, journal[a].previous, ph)
      BY <1>2, <2>1, <2>3, <3>2, SameRules DEF J!Advance, JournalMoves
    <3> QED BY <3>1, <3>3, SameRules DEF J!Next
  <2> QED BY <2>2, <2>3
<1>3. ASSUME NEW b \in Apps, NEW c \in Revisions, Submit(b, c)
      PROVE  [J(a)!Next]_(J(a)!vars)
  <2>1. CASE b # a
    BY <1>3, <2>1 DEF Submit, J!vars, IInv, TypeOK
  <2>2. CASE b = a
    <3>1. files[a]["env"] \in Revisions \cup {NoRevision} /\ lastId + 1 \in Ids
      BY <1>3, HostAssumption DEF Submit, IInv, TypeOK, Installed, File, Ids, HostAssumption
    <3>2. journal[a] # NoOperation => journal[a].id # lastId + 1
      BY DEF IInv, TypeOK, Books, IdsFresh, Operation, Ids
    <3>3. J(a)!Admit(c, files[a]["env"])
      BY <1>3, <2>2, <3>1, <3>2, SameRules
      DEF J!Admit, J!MayAdmit, Submit, MayAdmit, OperationPhase, IInv, TypeOK
    <3> QED BY <3>1, <3>3 DEF J!Next
  <2> QED BY <2>1, <2>2
<1>4. ASSUME NEW b \in Apps, DeadlinePasses(b)
      PROVE  [J(a)!Next]_(J(a)!vars)
  BY <1>4 DEF DeadlinePasses, J!Next, J!DeadlinePasses, J!vars, IInv, TypeOK
<1> QED BY <1>1, <1>2, <1>3, <1>4 DEF JournalWritten

(* Only a report writes a result, and over success it repeats it.          *)
LEMMA ResultsWritten ==
  ASSUME IInv, [Next]_vars, NEW id \in Ids, results[id] \in Accepted
  PROVE  results'[id] = results[id]
<1>1. CASE Report
  <2>1. At("report") /\ Busy /\ task.pc \in WorkerSteps
    BY <1>1, AtWork DEF Report, At, WorkerSteps
  <2>2. id = pending.id => task.phase = results[id]
    BY <2>1 DEF Busy, IInv, Books, SuccessIsRecorded, Steps, JournalAt, At
  <2> QED BY <1>1, <2>2 DEF Report, IInv, TypeOK
<1>2. CASE Pass \/ Clean \/ Drop
  BY <1>2 DEF Pass, Clean, Drop
<1>3. CASE Stage
  BY <1>3
  DEF Stage, StageBegin, StageRefuse, Snapshot, Swap, Configure, Queue, Consume, StageFails,
      RestoreFile, RestoreFails, Unstage
<1>4. CASE Activate
  BY <1>4
  DEF Activate, Verify, VerifyRefuse, BeginStopped, Begin, Up, Recheck, Reload,
      RetainCandidate, Settle, Probe, Conclude, Close, ActivationFails, Fail
<1>5. CASE Submission
  BY <1>5 DEF Submission, Submit, SubmitSlot, SubmitQueue, SubmitFails
<1>6. CASE Reconciliation
  BY <1>6
  DEF Reconciliation, AbandonInitial, RestoreServing, AcceptCandidate, PutBack, Serve,
      Confirm, OwnerChanged, Keep, RecordReconciled, ReconcileFails
<1>7. CASE Lifecycle
  BY <1>7
  DEF Lifecycle, Stop, StopNow, StopGivesUp, Start, StartUp, StartReady, StartClear,
      StartStopped, StartFails
<1>8. CASE (\E a \in Apps : DeadlinePasses(a)) \/ Crash \/ UNCHANGED vars
  BY <1>8 DEF DeadlinePasses, Crash, vars
<1> QED BY <1>1, <1>2, <1>3, <1>4, <1>5, <1>6, <1>7, <1>8 DEF Next, Worker, Finish

(* Whatever the host does, its state stays in its type.                    *)
THEOREM TypesKept == Spec => []TypeOK
<1>1. IInv => TypeOK
  BY DEF IInv
<1> QED BY <1>1, BooksInOrder, PTL

(* activate() asks Docker for the containers of an operation at most once, *)
(* however often the pass dies and is run again: the journal leaves the    *)
(* phases from which it may, before compose up is run.                     *)
THEOREM StartedAtMostOnce == Spec => []NoReplay
<1>1. IInv => NoReplay
  BY DEF IInv, Books, StartedOnce
<1> QED BY <1>1, BooksInOrder, PTL

(* A durable result that reports success is what operation.json says of    *)
(* the operation it answers (activation_pass, activation.rs).              *)
THEOREM SuccessAgrees == Spec => []SuccessIsRecorded
<1>1. IInv => SuccessIsRecorded
  BY DEF IInv, Books
<1> QED BY <1>1, BooksInOrder, PTL

(* No later pass, reconciliation or crash rewrites a result that reports   *)
(* success: a pass that finds its operation decided repeats the decision.  *)
THEOREM SuccessStays == Spec => SuccessIsFinal
<1>1. IInv /\ [Next]_vars =>
        [\A id \in Ids : results[id] \in Accepted => results'[id] = results[id]]_vars
  BY ResultsWritten
<1> QED BY <1>1, BooksInOrder, PTL DEF Spec, SuccessIsFinal

(* Once an operation is answered and nothing is queued, its credential slot *)
(* is gone: whoever dies between result and clean-up, the request stays    *)
(* queued, and the next pass removes both.                                 *)
THEOREM CredentialsGone == Spec => []CredentialsConsumed
<1>1. IInv => CredentialsConsumed
  BY DEF IInv, Books, SlotsOwned, CredentialsConsumed, ActivationIdle
<1> QED BY <1>1, BooksInOrder, PTL

(* Every write of operation.json by the worker, by submissions and by      *)
(* reconciliations is a step of module OperationJournal, which the module  *)
(* shows to keep the promise of a decision log.                            *)
THEOREM JournalsImplemented == Spec => JournalsKept
<1>1. Init => \A a \in Apps : J(a)!Init
  BY DEF Init, J!Init
<1>2. IInv /\ [Next]_vars => [\A a \in Apps : [J(a)!Next]_(J(a)!vars)]_vars
  BY JournalWriters, JournalFollows
<1> QED BY <1>1, <1>2, BooksInOrder, PTL DEF Spec, JournalsKept
=============================================================================
