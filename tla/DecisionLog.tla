----------------------------- MODULE DecisionLog -----------------------------
(***************************************************************************)
(* What an operation journal promises to the people and programs that      *)
(* inspect it, without the phases.  There is at most one current           *)
(* operation.  It is undecided when it opens; a decision to accept, to     *)
(* stop or to reconcile is final, and a refusal can only become an         *)
(* acceptance (readiness passed after all) or be reconciled.               *)
(*                                                                         *)
(* What the operation may have left half done is held against the next     *)
(* one, which opens only when nothing is: `files`, the files of the        *)
(* application, or `starting`, its containers as well.  A refusal lowers   *)
(* what is held by one step only: the first report that a start failed     *)
(* still holds the files, the second one holds nothing, although nobody    *)
(* has put anything back.  That is as far as the journal protects against  *)
(* two callers that report the same failure.                               *)
(***************************************************************************)
CONSTANTS Ids, NoId

VARIABLES current, decision, held

vars == <<current, decision, held>>

Decisions == {"pending", "refused", "accepted", "owner_stopped", "reconciled"}

TypeOK == /\ current \in Ids \cup {NoId}
          /\ decision \in Decisions \cup {"none"}
          /\ held \in {"nothing", "files", "starting"}

Init == current = NoId /\ decision = "none" /\ held = "nothing"

Open == /\ held = "nothing"
        /\ current' \in Ids \ {current}
        /\ decision' = "pending" /\ held' = "nothing"

(* The files are written, the containers are started, the start is over. *)
Work == /\ decision = "pending"
        /\ held' = [nothing |-> "files", files |-> "starting", starting |-> "nothing"][held]
        /\ UNCHANGED <<current, decision>>

Refuse == /\ decision \in {"pending", "refused"} /\ decision' = "refused"
          /\ \/ held = "starting" /\ held' = "files"
             \/ held = "files" /\ held' \in {"files", "nothing"}
             \/ held = "nothing" /\ held' = "nothing"
          /\ UNCHANGED current

Conclude == /\ \/ /\ decision \in {"pending", "refused"} /\ held = "nothing"
                  /\ decision' = "accepted"
               \/ decision = "pending" /\ decision' = "owner_stopped"
            /\ held' = "nothing"
            /\ UNCHANGED current

Reconcile == /\ decision = "refused" \/ (decision = "pending" /\ held # "nothing")
             /\ decision' = "reconciled" /\ held' = "nothing"
             /\ UNCHANGED current

Next == Open \/ Work \/ Refuse \/ Conclude \/ Reconcile

Spec == Init /\ [][Next]_vars
=============================================================================
