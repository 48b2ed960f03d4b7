--------------------------- MODULE ActivationWorker ---------------------------
(***************************************************************************)
(* The activation worker of the komizo daemon: every half second it takes  *)
(* the queued request, stages the configuration of its candidate, starts   *)
(* it, and leaves a durable result.                                        *)
(*   activation_pass     src/src/host/workload/activation.rs               *)
(*   stage_deployment    src/src/host/workload/deployment.rs               *)
(*   activate            src/src/workload/activation.rs                    *)
(* The phase field of task is activate()'s local variable: the phase the   *)
(* activation believes it has reached, which decides how a failure is      *)
(* recorded.  It runs ahead of the journal, because the code sets it       *)
(* before it asks for the record.                                          *)
(***************************************************************************)
EXTENDS DeploymentHost

App == task.app
Candidate == pending.candidate

(* operation(): the journal still holds the request's operation. *)
Owned == journal[pending.app] # NoOperation /\ journal[pending.app].id = pending.id

Verdict(v) == task' = [task EXCEPT !.pc = "report", !.phase = v]
Decide(v) == task' = [Idle EXCEPT !.pc = "report", !.app = pending.app, !.phase = v]

(* Bug: a pass does not look whether the operation is already decided. *)
PassAgain == /\ LocksFree /\ pending # NoRequest
             /\ Enter(IF pending.staged THEN "stage" ELSE "verify", pending.app)
             /\ UNCHANGED <<disk, containers, proxy, owner, tally>>

(* Bug: only requests that still need staging are picked up. *)
PassStagedOnly == /\ LocksFree /\ pending # NoRequest /\ pending.staged
                  /\ Enter("stage", pending.app)
                  /\ UNCHANGED <<disk, containers, proxy, owner, tally>>

(* activation_pass(): the locks, then an operation that is already decided *)
(* only has its result reconstructed.                                      *)
Pass == /\ LocksFree /\ pending # NoRequest
        /\ IF Owned /\ OperationPhase(pending.app) \in Accepted
             THEN Decide(OperationPhase(pending.app))
             ELSE Enter(IF pending.staged THEN "stage" ELSE "verify", pending.app)
        /\ UNCHANGED <<disk, containers, proxy, owner, tally>>
------------------------------------------------------------------------------
(* stage_deployment() *)

StageBegin == /\ At("stage") /\ InTime
              /\ Owned /\ OperationPhase(App) = "admitted"
              /\ files[App]["env"] = pending.previous
              /\ Record(App, "staging")
              /\ Goto("staging")
              /\ UNCHANGED <<late, pending, slots, results, snapshots, files, retained,
                             containers, proxy, owner, tally>>

(* Refused before anything was recorded.  Only an operation that has left  *)
(* its admission is reported as one that needs reconciliation.             *)
StageRefuse == /\ At("stage")
               /\ Verdict(IF InTime /\ Owned /\ OperationPhase(App) # "admitted"
                            THEN "reconciliation_required" ELSE "staging_failed")
               /\ UNCHANGED <<disk, containers, proxy, owner, tally>>

(* Capacity, acceptance, credentials, image pulls and validation passed,   *)
(* and the four files are on record before the first of them changes.      *)
Snapshot == /\ At("staging") /\ InTime
            /\ snapshots' = [snapshots EXCEPT ![App][pending.id] = files[App]]
            /\ Goto("swap")
            /\ UNCHANGED <<journal, late, pending, slots, results, files, retained,
                           containers, proxy, owner, tally>>

(* The files are replaced one by one; the proxy validates the complete     *)
(* configuration before the fourth, the revision in .env.                  *)
Swap == /\ At("swap")
        /\ task.at = 4 => InTime
        /\ Write(App, FileOrder[task.at], Candidate)
        /\ task' = IF task.at = 4 THEN [task EXCEPT !.pc = "configure", !.at = 1]
                                  ELSE [task EXCEPT !.at = @ + 1]
        /\ UNCHANGED <<journal, late, pending, slots, results, snapshots, retained,
                       containers, proxy, owner, tally>>

Configure == /\ At("configure")
             /\ Record(App, "configured")
             /\ Goto("queue")
             /\ UNCHANGED <<late, pending, slots, results, snapshots, files, retained,
                            containers, proxy, owner, tally>>

(* The request is rewritten as a configured activation ... *)
Queue == /\ At("queue") /\ InTime
         /\ pending' = [pending EXCEPT !.staged = FALSE]
         /\ Goto("consume")
         /\ UNCHANGED <<journal, late, slots, results, snapshots, files, retained,
                        containers, proxy, owner, tally>>

(* ... and goes on at once, when its credential slot is removed. *)
Consume == /\ At("consume")
           /\ slots' = slots \ {pending.id}
           /\ Goto("verify")
           /\ UNCHANGED <<journal, late, pending, results, snapshots, files, retained,
                          containers, proxy, owner, tally>>

(* Any of these steps may fail; once a file may have changed, the snapshot *)
(* is put back.                                                            *)
StageFails == /\ task.pc \in {"staging", "swap", "configure", "queue"}
              /\ slots' = slots \ {pending.id}
              /\ task' = [task EXCEPT !.pc = IF At("staging") THEN "unstage" ELSE "restore",
                                      !.at = 1]
              /\ UNCHANGED <<journal, late, pending, results, snapshots, files, retained,
                             containers, proxy, owner, tally>>

(* restore_snapshot(): file by file, given up at the first error. *)
RestoreFile == /\ At("restore")
               /\ LET f == FileOrder[task.at]
                  IN Write(App, f, snapshots[App][pending.id][f])
               /\ task' = IF task.at = 4 THEN [task EXCEPT !.pc = "unstage", !.at = 1]
                                         ELSE [task EXCEPT !.at = @ + 1]
               /\ UNCHANGED <<journal, late, pending, slots, results, snapshots, retained,
                              containers, proxy, owner, tally>>

RestoreFails == /\ At("restore")
                /\ task' = [task EXCEPT !.pc = "unstage", !.at = 1]
                /\ UNCHANGED <<disk, containers, proxy, owner, tally>>

(* The failure is recorded if the journal takes it; the result does not    *)
(* depend on that.                                                         *)
Unstage == /\ At("unstage")
           /\ Record(App, "staging_failed") \/ UNCHANGED journal
           /\ Verdict("staging_failed")
           /\ UNCHANGED <<late, pending, slots, results, snapshots, files, retained,
                          containers, proxy, owner, tally>>
------------------------------------------------------------------------------
(* activate() *)

(* Bug: an interrupted activation is taken up again. *)
VerifyResumes == /\ At("verify") /\ InTime
                 /\ Owned /\ OperationPhase(App) \in {"configured", "activating"}
                 /\ \A f \in {"compose", "route", "env"} : files[App][f] = Candidate
                 /\ task' = [task EXCEPT !.pc = "begin", !.phase = "configured"]
                 /\ UNCHANGED <<disk, containers, proxy, owner, tally>>

Verify == /\ At("verify") /\ InTime
          /\ Owned /\ OperationPhase(App) = "configured"
          /\ \A f \in {"compose", "route", "env"} : files[App][f] = Candidate
          /\ task' = [task EXCEPT !.pc = "begin", !.phase = "configured"]
          /\ UNCHANGED <<disk, containers, proxy, owner, tally>>

VerifyRefuse == /\ At("verify")
                /\ Verdict(IF InTime /\ Owned /\ OperationPhase(App) # "configured"
                             THEN "reconciliation_required" ELSE "refused")
                /\ UNCHANGED <<disk, containers, proxy, owner, tally>>

(* A stopped application is prepared, never started. *)
BeginStopped == /\ At("begin") /\ InTime
                /\ mark[App] # 0
                /\ task' = [task EXCEPT !.pc = "reload", !.halted = TRUE]
                /\ UNCHANGED <<disk, containers, proxy, owner, tally>>

(* Bug: the stop record is not read before the containers start. *)
BeginAnyway == /\ At("begin") /\ InTime
               /\ Record(App, "activating")
               /\ task' = [task EXCEPT !.pc = "up", !.phase = "activating"]
               /\ UNCHANGED <<late, pending, slots, results, snapshots, files, retained,
                              containers, proxy, owner, tally>>

Begin == /\ At("begin") /\ InTime
         /\ mark[App] = 0
         /\ Record(App, "activating")
         /\ task' = [task EXCEPT !.pc = "up", !.phase = "activating"]
         /\ UNCHANGED <<late, pending, slots, results, snapshots, files, retained,
                        containers, proxy, owner, tally>>

(* compose up; ups counts the request whether or not Docker reports success. *)
Up == /\ At("up")
      /\ ups' = [ups EXCEPT ![pending.id] = @ + 1]
      /\ \/ InTime /\ StartContainers(App) /\ Goto("recheck")
         \/ PartlyStarted(App) /\ Goto("failing")
      /\ UNCHANGED <<disk, proxy, owner, lastId, torn, crashes>>

(* The owner may have stopped the application while it started. *)
Recheck == /\ At("recheck") /\ InTime
           /\ IF mark[App] = 0 THEN UNCHANGED containers ELSE StopContainers(App)
           /\ task' = [task EXCEPT !.pc = "reload", !.halted = mark[App] # 0]
           /\ UNCHANGED <<disk, proxy, owner, tally>>

(* Bug: the proxy is not reloaded. *)
ReloadSkipped == /\ At("reload") /\ InTime
                 /\ Goto("retain")
                 /\ UNCHANGED <<disk, containers, proxy, owner, tally>>

(* Bug: the proxy is given the route of the one application only. *)
ReloadAlone ==
  /\ At("reload") /\ InTime
  /\ proxy' = [a \in Apps |-> IF a = App THEN files[a]["route"] ELSE NoRevision]
  /\ Goto("retain")
  /\ UNCHANGED <<disk, containers, owner, tally>>

Reload == /\ At("reload") /\ InTime
          /\ ReloadProxy
          /\ Goto("retain")
          /\ UNCHANGED <<disk, containers, owner, tally>>

RetainCandidate ==
  /\ At("retain") /\ InTime
  /\ Retain(App, Candidate, pending.previous)
  /\ task' = [task EXCEPT !.pc = "settle",
                          !.phase = IF task.halted THEN "prepared_stopped" ELSE "activated"]
  /\ UNCHANGED <<journal, late, pending, slots, results, snapshots, files,
                 containers, proxy, owner, tally>>

(* Bug: a prepared application is reported before it is recorded. *)
SettleUnrecorded ==
  /\ At("settle")
  /\ IF task.halted THEN Verdict("prepared_stopped") /\ UNCHANGED journal
     ELSE Goto("probe") /\ Record(App, task.phase)
  /\ UNCHANGED <<late, pending, slots, results, snapshots, files, retained,
                 containers, proxy, owner, tally>>

Settle == /\ At("settle")
          /\ Record(App, task.phase)
          /\ IF task.halted THEN Verdict("prepared_stopped") ELSE Goto("probe")
          /\ UNCHANGED <<late, pending, slots, results, snapshots, files, retained,
                         containers, proxy, owner, tally>>

(* ready(): the candidate's containers pass their probes, or the owner     *)
(* stops the application first, or the policy has no readiness to check,   *)
(* which leaves the operation activated at best.                           *)
Probe == /\ At("probe")
         /\ \/ App \in Probed /\ InTime /\ (mark[App] # 0 \/ containers[App] = Candidate)
               /\ task' = [task EXCEPT !.pc = "conclude", !.phase = "ready"]
            \/ App \notin Probed
               /\ task' = [task EXCEPT !.pc = "conclude", !.phase = "activated"]
         /\ UNCHANGED <<disk, containers, proxy, owner, tally>>

(* The last look at the stop record decides; until the next record the     *)
(* local phase stays activated if stopping the containers fails.           *)
Conclude == /\ At("conclude") /\ InTime
            /\ IF mark[App] = 0
                 THEN Goto("close") /\ UNCHANGED containers
                 ELSE /\ StopContainers(App)
                      /\ task' = [task EXCEPT !.pc = "close", !.phase = "prepared_stopped"]
            /\ UNCHANGED <<disk, proxy, owner, tally>>

Close == /\ At("close")
         /\ Record(App, task.phase)
         /\ Verdict(task.phase)
         /\ UNCHANGED <<late, pending, slots, results, snapshots, files, retained,
                        containers, proxy, owner, tally>>

(* Any of these effects may fail: Docker, the proxy, the probes, a write.   *)
(* What failed may still have happened.                                    *)
ActivationFails ==
  /\ task.pc \in {"begin", "recheck", "reload", "retain", "settle", "probe",
                  "conclude", "close"}
  /\ \/ UNCHANGED <<containers, proxy, retained>>
     \/ /\ task.pc \in {"recheck", "conclude"} /\ mark[App] # 0
        /\ StopContainers(App)
        /\ UNCHANGED <<proxy, retained>>
     \/ At("reload") /\ ReloadProxy /\ UNCHANGED <<containers, retained>>
     \/ /\ At("retain") /\ Retain(App, Candidate, pending.previous)
        /\ UNCHANGED <<containers, proxy>>
  /\ task' = [task EXCEPT !.pc = "failing",
                          !.phase = IF At("probe") \/ At("conclude") THEN "activated" ELSE @]
  /\ UNCHANGED <<journal, late, pending, slots, results, snapshots, files,
                 owner, tally>>

Failure == CASE task.phase = "activating" -> "activation_failed"
             [] task.phase = "activated"  -> "readiness_failed"
             [] OTHER                     -> "failed"

Fail == /\ At("failing")
        /\ \/ Record(App, Failure) /\ Verdict(Failure)
           \/ UNCHANGED journal /\ Verdict("acknowledgement_failed")
        /\ UNCHANGED <<late, pending, slots, results, snapshots, files, retained,
                       containers, proxy, owner, tally>>
------------------------------------------------------------------------------
(* The end of activation_pass(): the durable result first, the request     *)
(* last, so that a pass that dies between them is run again.               *)

Report == /\ At("report")
          /\ results' = [results EXCEPT ![pending.id] = task.phase]
          /\ Goto("clean")
          /\ UNCHANGED <<journal, late, pending, slots, snapshots, files, retained,
                         containers, proxy, owner, tally>>

(* Bug: the snapshot goes with every result, not only with success. *)
CleanSnapshot == /\ At("clean")
                 /\ slots' = slots \ {pending.id}
                 /\ snapshots' = [snapshots EXCEPT ![App][pending.id] = NoSnapshot]
                 /\ Goto("drop")
                 /\ UNCHANGED <<journal, late, pending, results, files, retained,
                                containers, proxy, owner, tally>>

(* Bug: the credential slot is left to staging, which removes it too. *)
CleanNoSlot == /\ At("clean")
               /\ snapshots' = IF task.phase \in Accepted
                                 THEN [snapshots EXCEPT ![App][pending.id] = NoSnapshot]
                                 ELSE snapshots
               /\ Goto("drop")
               /\ UNCHANGED <<journal, late, pending, slots, results, files, retained,
                              containers, proxy, owner, tally>>

Clean == /\ At("clean")
         /\ slots' = slots \ {pending.id}
         /\ snapshots' = IF task.phase \in Accepted
                           THEN [snapshots EXCEPT ![App][pending.id] = NoSnapshot]
                           ELSE snapshots
         /\ Goto("drop")
         /\ UNCHANGED <<journal, late, pending, results, files, retained,
                        containers, proxy, owner, tally>>

Drop == /\ At("drop")
        /\ pending' = NoRequest
        /\ Leave
        /\ UNCHANGED <<journal, late, slots, results, snapshots, files, retained,
                       containers, proxy, owner, tally>>

Stage == \/ StageBegin \/ StageRefuse \/ Snapshot \/ Swap \/ Configure \/ Queue
         \/ Consume \/ StageFails \/ RestoreFile \/ RestoreFails \/ Unstage
Activate == \/ Verify \/ VerifyRefuse \/ BeginStopped \/ Begin \/ Up \/ Recheck
            \/ Reload \/ RetainCandidate \/ Settle \/ Probe \/ Conclude \/ Close
            \/ ActivationFails \/ Fail
Finish == Report \/ Clean \/ Drop

Worker == Pass \/ Stage \/ Activate \/ Finish
=============================================================================
