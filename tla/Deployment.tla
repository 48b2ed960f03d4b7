------------------------------ MODULE Deployment ------------------------------
(***************************************************************************)
(* Deployments of a komizo host: the activation worker, the commands of    *)
(* its operators, the clock, and tasks that die at any of their steps.     *)
(***************************************************************************)
EXTENDS ActivationWorker, OwnerCommands

(* Time passes the deadline of an operation, 25 minutes after admission. *)
DeadlinePasses(a) == /\ journal[a] # NoOperation /\ ~late[a]
                     /\ late' = [late EXCEPT ![a] = TRUE]
                     /\ UNCHANGED <<journal, pending, slots, results, snapshots, files,
                                    retained, containers, proxy, owner, tally, task>>

(* The process that holds the locks dies, or gives up on an error that no  *)
(* step handles: the kernel releases the locks, the files stay.            *)
Crash == /\ task # Idle /\ crashes < MaxCrashes
         /\ crashes' = crashes + 1
         /\ disturbed' = IF task.pc \in StartSteps THEN disturbed \cup {task.app}
                                                   ELSE disturbed
         /\ Leave
         /\ UNCHANGED <<disk, containers, proxy, mark, stops, stopping, lastId, ups, torn>>

Next == \/ Worker \/ Submission \/ Reconciliation \/ Lifecycle
        \/ \E a \in Apps : DeadlinePasses(a)
        \/ Crash

Spec == Init /\ [][Next]_vars

(* The daemon starts a pass every half second as long as a request is      *)
(* queued, and every effect of a pass has a deadline.                      *)
FairSpec == Spec /\ WF_vars(Worker)
------------------------------------------------------------------------------
Working(a) == task.app = a
Settled(a) == LocksFree /\ a \notin stopping /\ a \notin disturbed

(* No operation asks Docker for its containers twice, whatever dies and is *)
(* run again: the journal says activating before compose up is run.        *)
NoReplay == \A id \in Ids : ups[id] <= 1

(* An application whose four files are of different revisions is fenced,   *)
(* and the whole revision before is on record in its operation's snapshot: *)
(* an interrupted staging can be put back by a reconciliation.  The        *)
(* exceptions are those that reconciliations leave behind (torn): a        *)
(* restoration that broke off after an operation the fence does not        *)
(* protect, and an operation closed over files of two revisions.           *)
MixedFilesRestorable ==
  \A a \in Apps :
    ~IsWhole(files[a]) /\ a \notin torn =>
      /\ OperationPhase(a) \in Fence
      /\ snapshots[a][journal[a].id] = Whole(journal[a].previous)

(* When an operation becomes ready, all that serves it is its candidate:   *)
(* files, containers and loaded route, and the retention record names it   *)
(* with the revision it replaced.                                          *)
ReadyMeansServing ==
  [][\A a \in Apps :
       OperationPhase(a) # "ready" /\ journal'[a] # NoOperation /\ journal'[a].phase = "ready"
         => LET op == journal'[a]
            IN /\ files[a] = Whole(op.candidate)
               /\ containers[a] = op.candidate /\ proxy[a] = op.candidate
               /\ op.candidate # op.previous =>
                    retained[a] = [current |-> op.candidate, previous |-> op.previous]]_vars

(* When a reconciliation restores the serving revision, that revision is   *)
(* in the files, the containers, the proxy and the retention record at the *)
(* moment it closes the operation; when it accepts the candidate, in the   *)
(* containers and the compose file.  Of the route it looks at neither, so  *)
(* that after one reconciliation that left files of two revisions (torn)   *)
(* the next may restore the containers of one and the route of another.    *)
ReconciledMeansServing ==
  [][\A a \in Apps :
       At("record") /\ task.app = a /\ journal'[a] # journal[a]
         => LET op == journal[a]
            IN IF task.phase = "restore-serving"
                 THEN /\ containers[a] = op.previous /\ retained[a].current = op.previous
                      /\ a \notin torn => files[a] = Whole(op.previous) /\ proxy[a] = op.previous
                 ELSE files[a]["compose"] = op.candidate /\ containers[a] = op.candidate]_vars

(* The rollback record changes only to the candidate of an operation that  *)
(* is still open and to the revision that the candidate replaced.          *)
RetentionFollowsOperation ==
  [][\A a \in Apps : retained'[a] # retained[a]
       => /\ Decision[journal[a].phase] # "accepted"
          /\ retained'[a] = [current |-> journal[a].candidate, previous |-> journal[a].previous]
          /\ containers[a] \in {journal[a].candidate, NoRevision} \/ mark[a] # 0]_vars

(* An owner's stop holds: once the command is through, nothing runs until  *)
(* the owner starts the application again, whatever deployments, crashes   *)
(* and reconciliations do meanwhile.                                       *)
StopHolds == \A a \in Apps :
  mark[a] # 0 /\ Settled(a) => containers[a] = NoRevision

(* And the other way round: an application whose last operation is ready   *)
(* and which nobody stopped runs that revision, and requests reach it,     *)
(* whatever is deployed next to it.                                        *)
ServesUnlessStopped == \A a \in Apps :
  mark[a] = 0 /\ Settled(a) /\ OperationPhase(a) = "ready"
    => containers[a] = journal[a].candidate /\ proxy[a] = journal[a].candidate

(* A result that reports success is final, and the journal agrees with it. *)
SuccessIsFinal ==
  [][\A id \in Ids : results[id] \in Accepted => results'[id] = results[id]]_vars
SuccessIsRecorded == \A a \in Apps :
  journal[a] # NoOperation /\ results[journal[a].id] \in Accepted
    => journal[a].phase = results[journal[a].id]

(* A consumed request leaves no registry credentials behind. *)
CredentialsConsumed == \A id \in Ids :
  results[id] # "none" /\ ActivationIdle => id \notin slots

(* Every queued request is answered by a durable result and leaves the     *)
(* queue with its credentials, even if the worker dies while it runs.      *)
Answered == \A id \in Ids :
  (pending # NoRequest /\ pending.id = id)
    ~> (results[id] # "none" /\ ActivationIdle /\ id \notin slots)

(* Whatever the host does, each application's operation.json behaves as    *)
(* module OperationJournal says.                                           *)
J(a) == INSTANCE OperationJournal WITH op <- journal[a], late <- late[a]
JournalsKept == /\ \A a \in Apps : J(a)!Init
                /\ [][\A a \in Apps : [J(a)!Next]_(J(a)!vars)]_vars
------------------------------------------------------------------------------
(* Statements of the program that it does not keep in every case.          *)

(* An operation that is accepted leaves the application startable: the     *)
(* installed revision is the retained one (owner.rs requires it).          *)
LifecycleRevisionRetained == \A a \in Apps :
  LocksFree /\ OperationPhase(a) \in Accepted => retained[a].current = files[a]["env"]

(* A reconciliation closes an operation over its serving postconditions:   *)
(* the installed configuration is that of the revision that serves.        *)
ReconciledOverWhole ==
  [][\A a \in Apps : At("record") /\ task.app = a /\ journal'[a] # journal[a]
                       => files[a] = Whole(containers[a])]_vars
=============================================================================
