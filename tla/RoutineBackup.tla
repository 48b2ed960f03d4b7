--------------------------- MODULE RoutineBackup ---------------------------
(***************************************************************************)
(* Routine backups and named tasks: host/workload/operations.rs, and the   *)
(* proof of a backup, workload/backup.rs.                                  *)
(*                                                                         *)
(* The workflow of the serving revision sends an audience-bound proof of   *)
(* one run and attempt.  It is verified before the application's lock is   *)
(* taken and again under it; the run is then claimed in a file that no     *)
(* other call may create, and only then the exporter starts.  A proof can  *)
(* be sent again by anybody who has it, while it lives.                    *)
(***************************************************************************)
EXTENDS Naturals

CONSTANTS BackupRuns,       \* runs and attempts of the backup workflow
          BackupRevisions,
          BackupCallers,  \* processes that a call of the verb runs in
          NoRun,
          MaxTicks,    \* bound on the clock
          MaxDeploys  \* bound on deployments

ASSUME RoutineBackupAssumption ==
    NoRun \notin BackupCallers /\ MaxTicks \in Nat /\ MaxDeploys \in Nat

\* A proof lives ten minutes; a tick is as long.
BackupLife == 1
Nowhere == NoRun

Proofs == [revision: BackupRevisions, issued: 0..MaxTicks] \cup {NoRun}
ClaimPhases == {"unclaimed", "claimed", "complete", "ambiguous"}
IdleCall == [pc |-> "idle"]
BackupCalls == [pc: {"waiting", "locked", "claimed", "exporting", "recording"},
                run: BackupRuns, capability: 0..1, ok: BOOLEAN] \cup {IdleCall}
TaskCalls == [pc: {"task", "running"}]

VARIABLES capability, \* the policy's routine_backup: which exporter it names
          exporter,   \* the exporter that is installed
          servingNow,  \* the revision of .env, and whether its operation is ready
          deploying,     \* a deployment is in the activation queue
          proofs,     \* what the workflow runs hold
          claims,     \* backup-operations/<app>/<run>-<attempt>.json
          exports,    \* ghost: how often each run's exporter was started
          exported,  \* ghost: the runs whose exporter succeeded
          inside,     \* the holder of the application's lock
          ticks,
          deploys,
          backups     \* of each operator process: its call

backupVars == <<capability, exporter, servingNow, deploying, proofs, claims, exports,
                exported, inside, ticks, deploys, backups>>

(***************************************************************************)
(* The proof.                                                              *)
(***************************************************************************)
(* verify_backup: the claims are those of the approved workflow, of the
   serving revision, and younger than their ten minutes. *)
VerifyBackup(r, serving) ==
    /\ proofs[r] # NoRun
    /\ proofs[r].revision = serving
    /\ ticks < proofs[r].issued + BackupLife

(* verify_backup_input: nothing is queued, and what serves is accepted. *)
VerifyBackupInput(r) ==
    /\ ~deploying
    /\ servingNow.ready
    /\ VerifyBackup(r, servingNow.revision)

IssueProof(r) ==
    /\ proofs[r] = NoRun
    /\ proofs' = [proofs EXCEPT ![r] = [revision |-> servingNow.revision,
                                        issued |-> ticks]]
    /\ UNCHANGED <<capability, exporter, servingNow, deploying, claims, exports,
                   exported, inside, ticks, deploys, backups>>

(***************************************************************************)
(* routine_backup                                                          *)
(***************************************************************************)
At(o, pc) == backups[o].pc = pc
Goto(o, pc) == backups' = [backups EXCEPT ![o].pc = pc]
Release(o) == inside' = IF inside = o THEN Nowhere ELSE inside

BeginBackup(o, r) ==
    /\ backups[o] = IdleCall
    /\ VerifyBackupInput(r)
    /\ backups' = [backups EXCEPT ![o] = [pc |-> "waiting", run |-> r,
                                          capability |-> capability, ok |-> FALSE]]
    /\ UNCHANGED <<capability, exporter, servingNow, deploying, proofs, claims, exports,
                   exported, inside, ticks, deploys>>

LockBackup(o) ==
    /\ At(o, "waiting") /\ inside = Nowhere
    /\ inside' = o /\ Goto(o, "locked")
    /\ UNCHANGED <<capability, exporter, servingNow, deploying, proofs, claims, exports,
                   exported, ticks, deploys>>

(* Bug: the claim is written over one that is there. *)
ClaimsAgain(o) ==
    LET call == backups[o] IN
    /\ At(o, "locked")
    /\ call.capability = capability /\ exporter = capability
    /\ VerifyBackupInput(call.run)
    /\ claims' = [claims EXCEPT ![call.run] = "claimed"]
    /\ Goto(o, "claimed")
    /\ UNCHANGED <<capability, exporter, servingNow, deploying, proofs, exports,
                   exported, inside, ticks, deploys>>

(* Under the lock: the policy and the proof again, the exporter by its hash,
   and the claim, which must not be there. *)
ClaimBackup(o) ==
    LET call == backups[o] IN
    /\ At(o, "locked")
    /\ call.capability = capability /\ exporter = capability
    /\ VerifyBackupInput(call.run)
    /\ claims[call.run] = "unclaimed"
    /\ claims' = [claims EXCEPT ![call.run] = "claimed"]
    /\ Goto(o, "claimed")
    /\ UNCHANGED <<capability, exporter, servingNow, deploying, proofs, exports,
                   exported, inside, ticks, deploys>>

StartExporter(o) ==
    /\ At(o, "claimed")
    /\ exports' = [exports EXCEPT ![backups[o].run] = @ + 1]
    /\ Goto(o, "exporting")
    /\ UNCHANGED <<capability, exporter, servingNow, deploying, proofs, claims,
                   exported, inside, ticks, deploys>>

(* The exporter ends by itself, or is killed at the deadline. *)
EndExporter(o, ok) ==
    /\ At(o, "exporting")
    /\ backups' = [backups EXCEPT ![o].pc = "recording", ![o].ok = ok]
    /\ exported' = IF ok THEN exported \cup {backups[o].run} ELSE exported
    /\ UNCHANGED <<capability, exporter, servingNow, deploying, proofs, claims, exports,
                   inside, ticks, deploys>>

RecordBackup(o) ==
    LET call == backups[o] IN
    /\ At(o, "recording")
    /\ claims' = [claims EXCEPT ![call.run] = IF call.ok THEN "complete" ELSE "ambiguous"]
    /\ Release(o)
    /\ backups' = [backups EXCEPT ![o] = IdleCall]
    /\ UNCHANGED <<capability, exporter, servingNow, deploying, proofs, exports,
                   exported, ticks, deploys>>

(***************************************************************************)
(* run_named: a task needs the lock and nothing that a backup keeps.       *)
(***************************************************************************)
BeginTask(o) ==
    /\ backups[o] = IdleCall
    /\ backups' = [backups EXCEPT ![o] = [pc |-> "task"]]
    /\ UNCHANGED <<capability, exporter, servingNow, deploying, proofs, claims, exports,
                   exported, inside, ticks, deploys>>

RunTask(o) ==
    /\ At(o, "task") /\ inside = Nowhere
    /\ inside' = o /\ Goto(o, "running")
    /\ UNCHANGED <<capability, exporter, servingNow, deploying, proofs, claims, exports,
                   exported, ticks, deploys>>

(* A check or a write fails, the deadline passes, or the process dies: the
   lock goes with it, and a claim stays as it is.  (An exporter whose caller is
   killed outright is not killed with it; what it does from there, without the
   lock, is not modelled.) *)
EndCall(o) ==
    /\ backups[o] # IdleCall
    /\ Release(o)
    /\ backups' = [backups EXCEPT ![o] = IdleCall]
    /\ UNCHANGED <<capability, exporter, servingNow, deploying, proofs, claims, exports,
                   exported, ticks, deploys>>

(***************************************************************************)
(* The rest of the host.                                                   *)
(***************************************************************************)
SubmitDeployment ==
    /\ deploys < MaxDeploys /\ ~deploying /\ inside = Nowhere
    /\ deploying' = TRUE /\ deploys' = deploys + 1
    /\ servingNow' = [servingNow EXCEPT !.ready = FALSE]
    /\ UNCHANGED <<capability, exporter, proofs, claims, exports, exported, inside,
                   ticks, backups>>

(* The worker's pass, under the lock: the candidate is ready, or it failed. *)
EndDeployment ==
    /\ deploying /\ inside = Nowhere
    /\ deploying' = FALSE
    /\ \E v \in BackupRevisions, ok \in BOOLEAN :
         servingNow' = [revision |-> v, ready |-> ok]
    /\ UNCHANGED <<capability, exporter, proofs, claims, exports, exported, inside,
                   ticks, deploys, backups>>

(* The operator installs another exporter, or names it in the policy. *)
EditAuthority ==
    /\ \/ capability = 0 /\ capability' = 1 /\ UNCHANGED exporter
       \/ exporter = 0 /\ exporter' = 1 /\ UNCHANGED capability
    /\ UNCHANGED <<servingNow, deploying, proofs, claims, exports, exported, inside, ticks,
                   deploys, backups>>

PassTime ==
    /\ ticks < MaxTicks
    /\ ticks' = ticks + 1
    /\ UNCHANGED <<capability, exporter, servingNow, deploying, proofs, claims, exports,
                   exported, inside, deploys, backups>>

BackupInit ==
    /\ capability = 0 /\ exporter = 0
    /\ servingNow \in [revision: BackupRevisions, ready: {TRUE}]
    /\ deploying = FALSE
    /\ proofs = [r \in BackupRuns |-> NoRun]
    /\ claims = [r \in BackupRuns |-> "unclaimed"]
    /\ exports = [r \in BackupRuns |-> 0] /\ exported = {}
    /\ inside = Nowhere /\ ticks = 0 /\ deploys = 0
    /\ backups = [o \in BackupCallers |-> IdleCall]

BackupNext ==
    \/ \E o \in BackupCallers :
         \/ LockBackup(o) \/ ClaimBackup(o) \/ StartExporter(o) \/ RecordBackup(o)
         \/ BeginTask(o) \/ RunTask(o) \/ EndCall(o)
         \/ \E r \in BackupRuns : BeginBackup(o, r)
         \/ \E ok \in BOOLEAN : EndExporter(o, ok)
    \/ \E r \in BackupRuns : IssueProof(r)
    \/ SubmitDeployment \/ EndDeployment \/ EditAuthority \/ PassTime

BackupSpec == BackupInit /\ [][BackupNext]_backupVars

(***************************************************************************)
(* Properties.                                                             *)
(***************************************************************************)
BackupTypeOK ==
    /\ capability \in 0..1 /\ exporter \in 0..1
    /\ proofs \in [BackupRuns -> Proofs] /\ claims \in [BackupRuns -> ClaimPhases]
    /\ inside = Nowhere \/ backups[inside] # IdleCall
    /\ backups \in [BackupCallers -> BackupCalls \cup TaskCalls]

(* However often a proof is sent, and whenever the calls that brought it die,
   the exporter of a run starts once at most; a claim that says `complete` is
   of an export that succeeded; and as long as the call that started it lives,
   an exporter runs over the revision its proof names, accepted and not being
   replaced (operations.rs: "backup run already claimed; inspect before
   starting a new run"). *)
ExportOnce ==
    /\ \A r \in BackupRuns :
         /\ exports[r] <= 1
         /\ claims[r] = "complete" => r \in exported
    /\ \A o \in BackupCallers : At(o, "exporting") =>
         /\ servingNow.ready /\ ~deploying
         /\ servingNow.revision = proofs[backups[o].run].revision
=============================================================================
