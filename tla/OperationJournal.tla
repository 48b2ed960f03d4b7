--------------------------- MODULE OperationJournal ---------------------------
(***************************************************************************)
(* operation.json of one application: the durable record of its current    *)
(* deployment operation, as src/src/workload/operation.rs writes it.       *)
(* record() is its only writer; it reads the file, refuses or replaces it  *)
(* atomically.  Callers are not trusted to call it in a good order: any    *)
(* caller may ask for any phase of any candidate at any time, which is     *)
(* what the "workload operation" and "workload ready" verbs can do, and    *)
(* the journal itself has to keep the promise of module DecisionLog.       *)
(*                                                                         *)
(* The random operation identity is a member of Ids that differs from the  *)
(* current one; the stored deadline is the boolean late, which becomes     *)
(* true when the clock passes it.                                          *)
(***************************************************************************)
EXTENDS JournalPhases

CONSTANTS
  Ids,         \* operation identities
  Revisions,   \* source revisions that can be deployed
  NoRevision,  \* the empty revision: nothing was installed before
  NoOperation  \* operation.json does not exist

ASSUME JournalAssumption == /\ NoOperation \notin Ids
                            /\ NoOperation \notin [id : Ids, candidate : Revisions,
                                                   previous : Revisions \cup {NoRevision},
                                                   phase : Phases]

VARIABLES
  op,   \* the operation in the file, or NoOperation
  late  \* the clock has passed op.deadline

vars == <<op, late>>

Operation == [id : Ids, candidate : Revisions,
              previous : Revisions \cup {NoRevision}, phase : Phases]

(* The file holds no operation, or a whole one. *)
TypeOK == op \in Operation \cup {NoOperation} /\ late \in BOOLEAN

Init == op = NoOperation /\ late = FALSE
------------------------------------------------------------------------------
(* Bug: the fence forgets an activation that failed. *)
MayAdmitFailed(current) ==
  current # NoOperation => current.phase \notin Fence \ {"activation_failed"}

MayAdmit(current) == current # NoOperation => current.phase \notin Fence

(* Bug: the admission is written without an identity of its own. *)
AdmitNameless(candidate, previous) ==
  /\ MayAdmit(op)
  /\ op' = [id |-> NoOperation, candidate |-> candidate,
            previous |-> previous, phase |-> "admitted"]
  /\ late' = FALSE

(* record(.., "admitted"): a fresh identity and a fresh deadline. *)
Admit(candidate, previous) ==
  /\ MayAdmit(op)
  /\ \E id \in Ids :
       /\ op # NoOperation => id # op.id
       /\ op' = [id |-> id, candidate |-> candidate,
                 previous |-> previous, phase |-> "admitted"]
  /\ late' = FALSE

(* record() of any other phase: identity, candidate, previous revision and *)
(* deadline stay those of the admission.                                   *)
Advance(candidate, previous, phase) ==
  /\ op # NoOperation
  /\ op.candidate = candidate /\ op.previous = previous
  /\ MayRecord(op.phase, phase, late)
  /\ op' = [op EXCEPT !.phase = Recorded(op.phase, phase)]
  /\ UNCHANGED late

DeadlinePasses == /\ op # NoOperation /\ ~late
                  /\ late' = TRUE
                  /\ UNCHANGED op

Next == \/ \E c \in Revisions, p \in Revisions \cup {NoRevision} :
             \/ Admit(c, p)
             \/ \E ph \in Phases : Advance(c, p, ph)
        \/ DeadlinePasses

Spec == Init /\ [][Next]_vars
------------------------------------------------------------------------------
(* The promise: the journal implements the decision log of its operations.  *)
CurrentId == IF op = NoOperation THEN NoOperation ELSE op.id
CurrentDecision == IF op = NoOperation THEN "none" ELSE Decision[op.phase]
Held == IF op = NoOperation \/ op.phase \notin Fence THEN "nothing"
        ELSE IF op.phase = "activating" THEN "starting" ELSE "files"

Log == INSTANCE DecisionLog WITH NoId <- NoOperation, current <- CurrentId,
                                 decision <- CurrentDecision, held <- Held

(* record() keeps the decision log: decisions are final, a refusal is only *)
(* revised by a late readiness or a reconciliation, and whatever callers   *)
(* report in whatever order, an operation that broke off while containers  *)
(* were starting makes way for another one only after a success, an owner  *)
(* stop, a reconciliation, or two reports of its failure.                  *)
KeepsDecisionLog == Log!Spec

(* Nothing is accepted late: once its deadline has passed, an operation    *)
(* that was not accepted or stopped by then never will be, whatever its    *)
(* callers ask for and in whatever order.                                  *)
Concluded(o) == Decision[o.phase] \in {"accepted", "owner_stopped"}
AcceptedInTime ==
  [][(op # NoOperation /\ late /\ ~Concluded(op) /\ op'.id = op.id) => ~Concluded(op')]_vars

(* The published contract: an operation in a phase that the contract marks *)
(* reconciliation_required is not replaced before it is reconciled.        *)
ContractFence ==
  [][(op # NoOperation /\ op.phase \in ReconciliationRequired) => op'.id = op.id]_vars
=============================================================================
