---------------------------- MODULE OwnerCommands ----------------------------
(***************************************************************************)
(* What the people who operate the host ask of it while the worker runs.   *)
(*   deployment-submit   src/src/host/workload/commands.rs, deployment()   *)
(*   reconcile           src/src/host/workload/reconciliation.rs           *)
(*   start/stop/restart  src/src/host/workload/owner.rs                    *)
(* Each takes the deployment locks, except that an owner's stop puts its   *)
(* record on disk before it asks for them: a running activation sees it.   *)
(***************************************************************************)
EXTENDS DeploymentHost

Subject == task.app
Current == journal[Subject]

(* A registration that never served anything (empty_registration). *)
Empty(a) == /\ files[a] = Whole(NoRevision)
            /\ retained[a].current = NoRevision
            /\ containers[a] = NoRevision
            /\ \A id \in Ids : snapshots[a][id] = NoSnapshot

(* stateful_retry(): the first deployment of a stateful application may    *)
(* only be tried again after an explicit reconciliation.                   *)
InitialRetryAllowed(a) ==
  a \in Stateful /\ retained[a].current = NoRevision =>
    /\ OperationPhase(a) # "none" =>
         journal[a].phase = "reconciled" /\ journal[a].previous = NoRevision
    /\ Empty(a)
------------------------------------------------------------------------------
(* deployment-submit: admission, credential slot, queued request.          *)

Submit(a, candidate) ==
  /\ LocksFree /\ ActivationIdle
  /\ MayAdmit(a) /\ InitialRetryAllowed(a)
  /\ lastId < MaxOperations
  /\ lastId' = lastId + 1
  /\ journal' = [journal EXCEPT ![a] = [id |-> lastId + 1, candidate |-> candidate,
                                        previous |-> files[a]["env"],
                                        phase |-> "admitted"]]
  /\ late' = [late EXCEPT ![a] = FALSE]
  /\ torn' = IF IsWhole(files[a]) THEN torn \ {a} ELSE torn
  /\ Enter("admitted", a)
  /\ UNCHANGED <<pending, slots, results, snapshots, files, retained,
                 containers, proxy, owner, ups, crashes>>

SubmitSlot == /\ At("admitted")
              /\ slots' = slots \cup {Current.id}
              /\ Goto("slot")
              /\ UNCHANGED <<journal, late, pending, results, snapshots, files, retained,
                             containers, proxy, owner, tally>>

SubmitQueue == /\ At("slot") /\ InTime
               /\ pending' = [id |-> Current.id, app |-> Subject,
                              candidate |-> Current.candidate,
                              previous |-> Current.previous, staged |-> TRUE]
               /\ Leave
               /\ UNCHANGED <<journal, late, slots, results, snapshots, files, retained,
                              containers, proxy, owner, tally>>

(* A refused request takes its credential slot with it. *)
SubmitFails == /\ task.pc \in SubmitSteps
               /\ slots' = IF At("slot") THEN slots \ {Current.id} ELSE slots
               /\ Leave
               /\ UNCHANGED <<journal, late, pending, results, snapshots, files, retained,
                              containers, proxy, owner, tally>>
------------------------------------------------------------------------------
(* reconcile: an operator, having reviewed the operation, closes it.       *)

Reviewable(a) == /\ LocksFree /\ ActivationIdle
                 /\ OperationPhase(a) \in Reconcilable

AbandonInitial(a) == /\ Reviewable(a)
                     /\ journal[a].previous = NoRevision
                     /\ journal[a].phase \in {"staging", "staging_failed"}
                     /\ Empty(a)
                     /\ Record(a, "reconciled")
                     /\ UNCHANGED <<late, pending, slots, results, snapshots, files, retained,
                                    containers, proxy, owner, tally, task>>

(* Restoring needs the operation's own snapshot of the release that is     *)
(* still retained and still runs; an operation that never took one may be  *)
(* closed over unchanged files.                                            *)
Restorable(a) ==
  LET op == journal[a]
      image == snapshots[a][op.id]
  IN /\ op.previous # NoRevision
     /\ a \in Stateful => op.phase \in {"staging", "staging_failed", "configured"}
     /\ IF image = NoSnapshot
          THEN /\ op.phase \in {"staging", "staging_failed"}
               /\ files[a]["env"] = op.previous /\ files[a]["compose"] = op.previous
          ELSE /\ \A f \in File : image[f] # NoRevision
               /\ image["env"] = op.previous /\ image["compose"] = op.previous
     /\ retained[a].current = op.previous

(* The containers of a revision run and pass its readiness policy. *)
Serves(a, revision) == a \in Probed /\ containers[a] = revision

(* Bug: the configuration that is to be restored is left as it is. *)
RestoreNothing(a) ==
  /\ Reviewable(a)
  /\ Restorable(a)
  /\ mark[a] = 0
  /\ Serves(a, journal[a].previous)
  /\ task' = [Idle EXCEPT !.app = a, !.phase = "restore-serving", !.pc = "serve"]
  /\ UNCHANGED <<disk, containers, proxy, owner, tally>>

RestoreServing(a) ==
  /\ Reviewable(a)
  /\ Restorable(a)
  /\ mark[a] = 0
  /\ Serves(a, journal[a].previous)
  /\ task' = [Idle EXCEPT !.app = a, !.phase = "restore-serving",
                !.pc = IF snapshots[a][journal[a].id] = NoSnapshot THEN "serve" ELSE "put back"]
  /\ UNCHANGED <<disk, containers, proxy, owner, tally>>

AcceptCandidate(a) ==
  /\ Reviewable(a)
  /\ files[a]["compose"] = journal[a].candidate
  /\ mark[a] = 0
  /\ Serves(a, journal[a].candidate)
  /\ task' = [Idle EXCEPT !.app = a, !.phase = "accept-candidate", !.pc = "serve"]
  /\ UNCHANGED <<disk, containers, proxy, owner, tally>>

(* torn remembers that an operation that the fence does not protect is     *)
(* being put back, so that nothing keeps a new one from starting half way. *)
PutBack == /\ At("put back")
           /\ LET f == FileOrder[task.at]
              IN Write(Subject, f, snapshots[Subject][Current.id][f])
           /\ torn' = IF Current.phase \in Fence THEN torn
                      ELSE IF task.at = 4 /\ IsWhole(files'[Subject]) THEN torn \ {Subject}
                      ELSE torn \cup {Subject}
           /\ task' = IF task.at = 4 THEN [task EXCEPT !.pc = "serve", !.at = 1]
                                     ELSE [task EXCEPT !.at = @ + 1]
           /\ UNCHANGED <<journal, late, pending, slots, results, snapshots, retained,
                          containers, proxy, owner, lastId, ups, crashes>>

Serve == /\ At("serve")
         /\ ReloadProxy
         /\ Goto("confirm")
         /\ UNCHANGED <<disk, containers, owner, tally>>

Serving == IF task.phase = "accept-candidate" THEN Current.candidate ELSE Current.previous

(* The stop record is compared before and after a last readiness check: an *)
(* owner who stopped the application meanwhile gets it stopped, and the    *)
(* operation stays open.                                                   *)
Confirm == /\ At("confirm")
           /\ mark[Subject] = task.seen /\ Serves(Subject, Serving)
           /\ Goto("keep")
           /\ UNCHANGED <<disk, containers, proxy, owner, tally>>

OwnerChanged == /\ task.pc \in {"confirm", "keep"}
                /\ mark[Subject] # task.seen
                /\ StopContainers(Subject) \/ UNCHANGED containers
                /\ Leave
                /\ UNCHANGED <<disk, proxy, owner, tally>>

Keep == /\ At("keep")
        /\ mark[Subject] = task.seen
        /\ IF task.phase = "accept-candidate"
             THEN Retain(Subject, Current.candidate, Current.previous)
             ELSE UNCHANGED retained
        /\ Goto("record")
        /\ UNCHANGED <<journal, late, pending, slots, results, snapshots, files,
                       containers, proxy, owner, tally>>

RecordReconciled ==
  /\ At("record")
  /\ Record(Subject, "reconciled")
  /\ torn' = IF IsWhole(files[Subject]) THEN torn \ {Subject} ELSE torn \cup {Subject}
  /\ Leave
  /\ UNCHANGED <<late, pending, slots, results, snapshots, files, retained,
                 containers, proxy, owner, lastId, ups, crashes>>

ReconcileFails == /\ task.pc \in ReconcileSteps
                  /\ Leave
                  /\ UNCHANGED <<disk, containers, proxy, owner, tally>>
------------------------------------------------------------------------------
(* perform_typed_owner: the owner stops, starts and restarts the whole     *)
(* application.                                                            *)

(* The record is durable before the command waits for the locks. *)
Stop(a) == /\ stops < MaxStops
           /\ stops' = stops + 1
           /\ mark' = [mark EXCEPT ![a] = stops + 1]
           /\ stopping' = stopping \cup {a}
           /\ UNCHANGED <<disk, containers, proxy, disturbed, tally, task>>

(* Under the locks the containers stop, whatever became of the record: a    *)
(* start that got the locks first may have cleared it.                     *)
StopNow(a) == /\ a \in stopping /\ LocksFree
              /\ StopContainers(a)
              /\ stopping' = stopping \ {a}
              /\ disturbed' = IF mark[a] = 0 THEN disturbed \cup {a} ELSE disturbed \ {a}
              /\ UNCHANGED <<disk, proxy, mark, stops, tally, task>>

(* The locks did not come within a minute, or Docker failed. *)
StopGivesUp(a) == /\ a \in stopping
                  /\ stopping' = stopping \ {a}
                  /\ disturbed' = disturbed \cup {a}
                  /\ UNCHANGED <<disk, containers, proxy, mark, stops, tally, task>>

Startable(a) ==
  /\ LocksFree /\ ActivationIdle
  /\ OperationPhase(a) \in {"ready", "prepared_stopped", "activated", "reconciled"}
  /\ files[a]["env"] # NoRevision
  /\ retained[a].current = files[a]["env"]
  /\ files[a]["compose"] = files[a]["env"]

(* A stopped application starts as a whole; only a running one restarts. *)
Start(a, verb) ==
  /\ Startable(a)
  /\ verb = "restart" => mark[a] = 0 /\ containers[a] # NoRevision
  /\ task' = [Idle EXCEPT !.pc = "start", !.app = a, !.phase = verb, !.seen = mark[a]]
  /\ UNCHANGED <<disk, containers, proxy, owner, tally>>

(* compose up replaces the containers, compose restart keeps them. *)
StartUp == /\ At("start")
           /\ IF task.phase = "start" THEN StartContainers(Subject) ELSE UNCHANGED containers
           /\ Goto("watch")
           /\ UNCHANGED <<disk, proxy, owner, tally>>

(* Until the containers are ready, a changed stop record ends the command  *)
(* with the containers stopped.                                            *)
StartReady == /\ At("watch")
              /\ mark[Subject] = task.seen
              /\ Subject \in Probed => containers[Subject] = files[Subject]["env"]
              /\ IF task.phase = "start" THEN Goto("clear") /\ UNCHANGED disturbed
                 ELSE Leave /\ disturbed' = disturbed \ {Subject}
              /\ UNCHANGED <<disk, containers, proxy, mark, stops, stopping, tally>>

(* clear_stopped_if_unchanged(): compared and cleared under the record's   *)
(* own lock.                                                               *)
StartClear == /\ At("clear")
              /\ mark[Subject] = task.seen
              /\ mark' = [mark EXCEPT ![Subject] = 0]
              /\ disturbed' = disturbed \ {Subject}
              /\ Leave
              /\ UNCHANGED <<disk, containers, proxy, stops, stopping, tally>>

StartStopped == /\ task.pc \in {"watch", "clear"}
                /\ mark[Subject] # task.seen
                /\ \/ StopContainers(Subject) /\ UNCHANGED disturbed
                   \/ UNCHANGED containers /\ disturbed' = disturbed \cup {Subject}
                /\ Leave
                /\ UNCHANGED <<disk, proxy, mark, stops, stopping, tally>>

(* Docker, the readiness deadline or the stop record fails.  Nothing is    *)
(* undone, but that a record which cannot be cleared stops the containers, *)
(* if Docker can.                                                          *)
StartFails == /\ task.pc \in StartSteps
              /\ \/ At("start") /\ PartlyStarted(Subject)
                 \/ ~At("start") /\ UNCHANGED containers
                 \/ At("clear") /\ StopContainers(Subject)
              /\ disturbed' = disturbed \cup {Subject}
              /\ Leave
              /\ UNCHANGED <<disk, proxy, mark, stops, stopping, tally>>

Submission == \/ \E a \in Apps, c \in Revisions : Submit(a, c)
              \/ SubmitSlot \/ SubmitQueue \/ SubmitFails
Reconciliation == \/ \E a \in Apps : AbandonInitial(a) \/ RestoreServing(a) \/ AcceptCandidate(a)
                  \/ PutBack \/ Serve \/ Confirm \/ OwnerChanged \/ Keep
                  \/ RecordReconciled \/ ReconcileFails
Lifecycle == \/ \E a \in Apps : Stop(a) \/ StopNow(a) \/ StopGivesUp(a)
             \/ \E a \in Apps, verb \in {"start", "restart"} : Start(a, verb)
             \/ StartUp \/ StartReady \/ StartClear \/ StartStopped \/ StartFails
=============================================================================
