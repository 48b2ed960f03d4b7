---------------------------- MODULE JournalPhases ----------------------------
(***************************************************************************)
(* The vocabulary of a deployment operation's journal                      *)
(* (src/src/workload/operation.rs and operation-contract.json): the phases *)
(* of an operation, which of them may follow which, what the contract says *)
(* each one means, and the rules record() applies before it rewrites       *)
(* operation.json.  Only constant-level operators: the journal, the        *)
(* abstract decision log and the deployment executor all extend it.        *)
(***************************************************************************)

Phases == {"admitted", "staging", "staging_failed", "configured",
           "activating", "activated", "ready", "readiness_failed",
           "prepared_stopped", "failed", "activation_failed", "reconciled"}

(* operation-contract.json, one row per phase. *)
Decision ==
  [admitted          |-> "pending",
   staging           |-> "pending",
   staging_failed    |-> "refused",
   configured        |-> "pending",
   activating        |-> "pending",
   activated         |-> "pending",
   ready             |-> "accepted",
   readiness_failed  |-> "refused",
   prepared_stopped  |-> "owner_stopped",
   failed            |-> "refused",
   activation_failed |-> "refused",
   reconciled        |-> "reconciled"]

ReconciliationRequired ==
  {"staging", "staging_failed", "configured", "activating",
   "readiness_failed", "failed", "activation_failed"}

(* The decisions no later phase of the same operation can change. *)
Final == {"ready", "prepared_stopped", "reconciled"}

(* The phases over which record() refuses to admit another operation. *)
Fence == {"activating", "activation_failed", "staging", "staging_failed",
          "configured"}

(* The phases record() still accepts once the operation's deadline passed. *)
AfterDeadline == {"failed", "staging_failed", "activation_failed",
                  "readiness_failed", "reconciled"}

(* The phases an explicit reconciliation may close. *)
Reconcilable == Fence \cup {"readiness_failed", "failed"}

(* legal(): the next steps of the main path, then the closing phases. *)
Follows ==
  [admitted          |-> {"configured", "staging"},
   staging           |-> {"configured"},
   staging_failed    |-> {},
   configured        |-> {"activating", "prepared_stopped"},
   activating        |-> {"activated", "prepared_stopped"},
   activated         |-> {"ready", "readiness_failed", "prepared_stopped"},
   ready             |-> {},
   readiness_failed  |-> {"ready"},
   prepared_stopped  |-> {},
   failed            |-> {},
   activation_failed |-> {},
   reconciled        |-> {}]

Legal(from, to) ==
  \/ from = to
  \/ to = "reconciled" /\ from \in Reconcilable
  \/ to = "failed" /\ from \notin Final
  \/ to = "activation_failed" /\ from = "activating"
  \/ to = "staging_failed" /\ from = "staging"
  \/ /\ to \notin {"reconciled", "failed", "activation_failed", "staging_failed"}
     /\ to \in Follows[from]

(* Bug: a failure keeps the name its caller gave it. *)
RecordedAsCalled(from, to) == to

(* A failure reported while containers were being started is recorded as a *)
(* failed activation, whatever the caller called it.                       *)
Recorded(from, to) ==
  IF to = "failed" /\ from = "activating" THEN "activation_failed" ELSE to

(* Bug: the deadline is not looked at. *)
MayRecordLate(from, to, late) ==
  /\ to # "admitted"
  /\ Legal(from, Recorded(from, to))

(* May an operation in phase from, its deadline passed or not, be recorded *)
(* in phase to by the caller that owns it?                                 *)
MayRecord(from, to, late) ==
  /\ to # "admitted"
  /\ Legal(from, Recorded(from, to))
  /\ late => Recorded(from, to) \in AfterDeadline
=============================================================================
