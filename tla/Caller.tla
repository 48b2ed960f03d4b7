------------------------------- MODULE Caller -------------------------------
(***************************************************************************)
(* The workstation's command line (src/src/caller): commands of several    *)
(* callers against one host, over an SSH connection that may break after   *)
(* the host began the work and before its answer arrives.                  *)
(*                                                                         *)
(* A command is its plan: the order in which the function that implements  *)
(* it checks its input, connects, reads, changes the host and prints.      *)
(* What the checks look at is left out; where they stand is not, for that  *)
(* is what makes the exit code true.  Steps:                               *)
(*   "local"   a check that fails with exit 64                             *)
(*   "check"   a check that fails with exit 1 and asks the host nothing    *)
(*   "reach"   the probe of the connection                                 *)
(*   "read"    a question to the host                                      *)
(*   "change"  a request the host carries out or refuses                   *)
(*   "try"     a change after whose failure the command goes on, and fails *)
(*             with its result                                             *)
(*   "submit" "wait" "inspect" "verify"   the steps of a deployment        *)
(*   "data"    the structured result                                       *)
(*   "compare" inventory differences, exit 65                              *)
(***************************************************************************)
EXTENDS Naturals, Sequences

CONSTANTS
  Callers,       \* people and jobs, each giving one command
  CallerKinds,   \* the commands given, a subset of DOMAIN Plan
  MaxAdmitted    \* operations the host admits

VARIABLES
  command,    \* the command each caller is running
  verdict,    \* the envelope each caller was left with
  wire,       \* requests on their way to the host
  heard,      \* the answer on its way back to each caller
  hostop,     \* the application's operation.json on the host
  succeeded,  \* operations with a successful durable result
  changed     \* callers whose command has changed the host (ghost)

callerVars == <<command, verdict, wire, heard, hostop, succeeded, changed>>

-----------------------------------------------------------------------------
(* The plans, one for each function.                                       *)

(* `deploy`, by default waiting for the durable result: the flags and the    *)
(* token file, the line in it, and the proof.                               *)
DeployPlan ==
  <<"local", "check", "local", "reach", "submit", "wait", "inspect", "verify", "data">>

(* `deploy --wait=false`. *)
SubmitPlan == <<"local", "check", "local", "reach", "submit", "data">>

(* `operation recover` after the operator reviewed an inspection. *)
RecoverPlan == <<"local", "reach", "change", "data">>

(* `start`, `stop` and `restart`. *)
LifecyclePlan == <<"local", "reach", "change", "data">>

(* `set-secret`: the value is read, and an empty one refused, first. *)
SetSecretPlan == <<"local", "check", "local", "reach", "change", "data">>

(* `unset-secret` with names to remove or to keep. *)
UnsetSecretPlan == <<"local", "reach", "change", "data">>

(* `platform recover`; `platform inspect` passes the same checks and reads. *)
PlatformPlan == <<"local", "reach", "change", "check", "data">>

(* `platform plan/apply` and `maintenance`: a Python helper does the work   *)
(* and its output becomes the result.                                      *)
HelperPlan == <<"check", "change", "data">>

(* `preview up`, `down`, `gc`, `configure` and `database`. *)
PreviewPlan == <<"local", "reach", "change", "data">>

(* `init`: the agent is prepared, then the host initialised, the agent      *)
(* installed and the proxy started.                                        *)
InitPlan == <<"local", "reach", "read", "change", "change", "change", "data">>

(* `proxy`. *)
ProxyPlan == <<"local", "reach", "change", "data">>

(* `remove`, which wants --yes before it asks the host anything. *)
RemovePlan == <<"local", "reach", "change", "data">>

(* `update`: the agent is prepared, the host initialised and the agent       *)
(* installed; an application or a proxy that cannot be refreshed does not   *)
(* keep the rest from being.                                                *)
UpdatePlan ==
  <<"local", "reach", "read", "change", "change", "try", "try", "data">>

(* `report`, `list`, `status` and `doctor`. *)
ReportPlan == <<"local", "reach", "read", "data">>

(* `reconcile`: the registered applications against an inventory. *)
ReconcilePlan == <<"local", "check", "reach", "read", "data", "compare">>

Plan == [deploy |-> DeployPlan, deploy_only |-> SubmitPlan, recover |-> RecoverPlan,
         lifecycle |-> LifecyclePlan,
         set_secret |-> SetSecretPlan, unset_secret |-> UnsetSecretPlan,
         platform |-> PlatformPlan, helper |-> HelperPlan, preview |-> PreviewPlan,
         preview_database |-> PreviewPlan, init |-> InitPlan, proxy |-> ProxyPlan,
         remove |-> RemovePlan, update |-> UpdatePlan, report |-> ReportPlan,
         reconcile |-> ReconcilePlan]

ASSUME CallerAssumption == CallerKinds \subseteq DOMAIN Plan /\ MaxAdmitted \in Nat

-----------------------------------------------------------------------------
(* The answer of the machine protocol.                                     *)

(* Bug: the command's name decides and not its subcommand, so `preview`,     *)
(* `platform` and `operation` count as reading.                            *)
MutatingByName(k) == k \notin {"report", "reconcile", "preview", "platform", "recover"}

(* Which commands an error leaves in doubt. *)
Mutating(k) == k \notin {"report", "reconcile", "preview_database"}

Idle == [kind |-> "none"]
NoOp == [id |-> 0, owner |-> "none", phase |-> "none"]
NoVerdict == [kind |-> "none", ok |-> FALSE, code |-> "none", reconciliation |-> FALSE,
              id |-> 0, shown |-> NoOp]
Nothing == [is |-> "none", id |-> 0]

Active(c) == command[c] # Idle
StepIs(c, s) ==
  /\ Active(c) /\ command[c].exit = 0
  /\ command[c].at <= Len(Plan[command[c].kind])
  /\ Plan[command[c].kind][command[c].at] = s

(* Past the last step, or failed in one. *)
Over(c) ==
  Active(c) /\ (command[c].exit # 0 \/ command[c].at > Len(Plan[command[c].kind]))

(* The error of the envelope: exits 64 and 65 are certain, any other failure *)
(* is as uncertain as the command is mutating, and so is a success whose     *)
(* output was cut at its limit.                                            *)
ErrorCode(cmd) ==
  CASE cmd.exit # 0 /\ cmd.expired -> "timeout"
    [] cmd.exit = 64 /\ ~cmd.expired -> "invalid_input"
    [] cmd.exit = 65 /\ ~cmd.expired -> "state_mismatch"
    [] cmd.exit = 1 /\ ~cmd.expired -> "command_failed"
    [] cmd.exit = 0 /\ cmd.data = "cut" -> "output_limit"
    [] OTHER -> "none"

Finish(cmd) ==
  [kind |-> cmd.kind, id |-> cmd.id, shown |-> cmd.shown,
   ok |-> ErrorCode(cmd) = "none", code |-> ErrorCode(cmd),
   reconciliation |-> /\ ErrorCode(cmd) # "none"
                      /\ cmd.exit \notin {64, 65}
                      /\ Mutating(cmd.kind)]

-----------------------------------------------------------------------------
CallerInit ==
  /\ command = [c \in Callers |-> Idle]
  /\ verdict = [c \in Callers |-> NoVerdict]
  /\ wire = {}
  /\ heard = [c \in Callers |-> Nothing]
  /\ hostop = NoOp
  /\ succeeded = {}
  /\ changed = {}

(* The recovery an inspection offers its reader, with the exact identities  *)
(* it showed: only of an operation that waits for reconciliation.          *)
Offered == IF hostop.phase = "interrupted" THEN hostop ELSE NoOp

(* A command is dispatched, a recovery with what its caller reviewed. *)
Dispatch(c, k) ==
  /\ command[c] = Idle /\ verdict[c] = NoVerdict
  /\ command' = [command EXCEPT ![c] =
       [kind |-> k, at |-> 1, exit |-> 0, expired |-> FALSE, data |-> "none",
        id |-> 0, seen |-> IF k = "recover" THEN Offered ELSE NoOp, shown |-> NoOp]]
  /\ UNCHANGED <<verdict, wire, heard, hostop, succeeded, changed>>

Passes(c) == command' = [command EXCEPT ![c].at = @ + 1]
Exits(c, code) ==
  \E late \in BOOLEAN :
    command' = [command EXCEPT ![c].exit = code, ![c].expired = late]

(* A step that asks the host nothing and changes nothing. *)
ChecksLocally(c) ==
  /\ \/ StepIs(c, "local") /\ (Passes(c) \/ Exits(c, 64))
     \/ StepIs(c, "check") /\ (Passes(c) \/ Exits(c, 1))
     \/ StepIs(c, "compare") /\ (Passes(c) \/ Exits(c, 65))
  /\ UNCHANGED <<verdict, wire, heard, hostop, succeeded, changed>>

(* The probe, retried once when the key of an unknown host is accepted. *)
Reaches(c) ==
  /\ StepIs(c, "reach")
  /\ Passes(c) \/ Exits(c, 1)
  /\ UNCHANGED <<verdict, wire, heard, hostop, succeeded, changed>>

(* A question that leaves the host as it is. *)
Asks(c) ==
  /\ StepIs(c, "read")
  /\ Passes(c) \/ Exits(c, 1)
  /\ UNCHANGED <<verdict, wire, heard, hostop, succeeded, changed>>

(* The structured result: too long, not the protocol's, or emitted; a long  *)
(* text is cut and marked.  What was tried and missed fails the command.    *)
Emits(c) ==
  /\ StepIs(c, "data")
  /\ \/ \E d \in {"whole", "cut"} :
          IF command[c].data # "missed"
            THEN command' = [command EXCEPT ![c].data = d, ![c].at = @ + 1]
            ELSE \E late \in BOOLEAN :
                   command' = [command EXCEPT ![c].exit = 1, ![c].expired = late,
                                              ![c].data = d]
     \/ Exits(c, 1)
  /\ UNCHANGED <<verdict, wire, heard, hostop, succeeded, changed>>

(* A request leaves for the host over SSH, with what was reviewed. *)
Journey(c) ==
  /\ StepIs(c, "change") \/ StepIs(c, "try") \/ StepIs(c, "submit")
  /\ heard[c] = Nothing
  /\ wire' = wire \cup {[from |-> c, kind |-> command[c].kind, at |-> command[c].at,
                         seen |-> command[c].seen]}
  /\ heard' = [heard EXCEPT ![c].is = "waiting"]
  /\ UNCHANGED <<command, verdict, hostop, succeeded, changed>>

(* A change without success ends the command, or is noted. *)
Misses(c) ==
  IF StepIs(c, "try") THEN command' = [command EXCEPT ![c].data = "missed", ![c].at = @ + 1]
                      ELSE Exits(c, 1)

(* The answer arrives: a refusal, or the acknowledgement with the identity   *)
(* of the operation.                                                       *)
Hears(c) ==
  /\ heard[c].is \in {"done", "refused"}
  /\ heard' = [heard EXCEPT ![c] = Nothing]
  /\ IF heard[c].is = "refused" THEN Misses(c)
     ELSE command' = [command EXCEPT ![c].id = heard[c].id, ![c].at = @ + 1]
  /\ UNCHANGED <<verdict, wire, hostop, succeeded, changed>>

(* The connection breaks, the deadline passes or the answer cannot be read:  *)
(* an error, and what is on its way to the host goes on.                   *)
GivesUp(c) ==
  /\ heard[c] # Nothing
  /\ Misses(c)
  /\ heard' = [heard EXCEPT ![c] = Nothing]
  /\ UNCHANGED <<verdict, wire, hostop, succeeded, changed>>

(* `activation-wait` ends well only with the durable success of that        *)
(* operation.  If it does not, the receipt says submitted and not completed *)
(* and the command fails.                                                  *)
Waits(c) ==
  /\ StepIs(c, "wait")
  /\ \/ command[c].id \in succeeded /\ Passes(c)
     \/ \E late \in BOOLEAN :
          command' = [command EXCEPT ![c].exit = 1, ![c].expired = late,
                                     ![c].data = "whole"]
  /\ UNCHANGED <<verdict, wire, heard, hostop, succeeded, changed>>

(* `workload inspect` reads the operation as it is now. *)
Inspects(c) ==
  /\ StepIs(c, "inspect")
  /\ \/ command' = [command EXCEPT ![c].shown = hostop, ![c].at = @ + 1]
     \/ Exits(c, 1)
  /\ UNCHANGED <<verdict, wire, heard, hostop, succeeded, changed>>

(* Bug: what the inspection shows is taken for this deployment's operation. *)
TrustsInspection(cmd) == cmd.shown.phase \in {"accepted", "reconciled"}

(* The operation inspected is the one submitted, and accepted. *)
Verified(cmd) ==
  cmd.shown.id = cmd.id /\ cmd.shown.phase \in {"accepted", "reconciled"}

Verifies(c) ==
  /\ StepIs(c, "verify")
  /\ IF Verified(command[c]) THEN Passes(c) ELSE Exits(c, 1)
  /\ UNCHANGED <<verdict, wire, heard, hostop, succeeded, changed>>

(* The command ends and its envelope is printed. *)
Returns(c) ==
  /\ Over(c)
  /\ verdict' = [verdict EXCEPT ![c] = Finish(command[c])]
  /\ command' = [command EXCEPT ![c] = Idle]
  /\ UNCHANGED <<wire, heard, hostop, succeeded, changed>>

-----------------------------------------------------------------------------
(* The host, as the callers use it.                                        *)

Settled == {"none", "accepted", "failed", "reconciled"}

(* What the host makes of a request it carries out: a submission is admitted *)
(* over a settled operation, a recovery closes the operation and phase that  *)
(* were reviewed and no other.                                             *)
Admits(r) ==
  /\ r.kind \in {"deploy", "deploy_only"}
  /\ hostop.phase \in Settled /\ hostop.id < MaxAdmitted
  /\ hostop' = [id |-> hostop.id + 1, owner |-> r.from, phase |-> "running"]

Recovers(r) ==
  /\ r.kind = "recover"
  /\ hostop = r.seen /\ hostop.phase = "interrupted"
  /\ hostop' = [hostop EXCEPT !.phase = "reconciled"]

Works(r) ==
  /\ r.kind \notin {"deploy", "deploy_only", "recover"}
  /\ UNCHANGED hostop

(* Only the step that sent the request hears of it. *)
Tells(r, answer) ==
  heard' = [heard EXCEPT ![r.from] =
              IF @.is = "waiting" /\ command[r.from].at = r.at THEN answer ELSE @]

(* The host takes a request, also one whose caller is gone. *)
Takes(r) ==
  /\ wire' = wire \ {r}
  /\ \/ /\ Admits(r) \/ Recovers(r) \/ Works(r)
        /\ Tells(r, [is |-> "done", id |-> hostop'.id])
        /\ changed' = changed \cup {r.from}
     \/ /\ Tells(r, [is |-> "refused", id |-> 0])
        /\ UNCHANGED <<hostop, changed>>
  /\ UNCHANGED <<command, verdict, succeeded>>

(* The request is lost with the connection. *)
Loses(r) ==
  /\ wire' = wire \ {r}
  /\ UNCHANGED <<command, verdict, heard, hostop, succeeded, changed>>

(* The activation worker settles the operation. *)
Settles(p) ==
  /\ hostop.phase = "running"
  /\ hostop' = [hostop EXCEPT !.phase = p]
  /\ succeeded' = IF p = "accepted" THEN succeeded \cup {hostop.id} ELSE succeeded
  /\ UNCHANGED <<command, verdict, wire, heard, changed>>

CallerNext ==
  \/ \E c \in Callers :
       \/ \E k \in CallerKinds : Dispatch(c, k)
       \/ ChecksLocally(c) \/ Reaches(c) \/ Asks(c) \/ Emits(c)
       \/ Journey(c) \/ Hears(c) \/ GivesUp(c)
       \/ Waits(c) \/ Inspects(c) \/ Verifies(c) \/ Returns(c)
  \/ \E r \in wire : Takes(r) \/ Loses(r)
  \/ \E p \in {"accepted", "failed", "interrupted"} : Settles(p)

CallerSpec == CallerInit /\ [][CallerNext]_callerVars

-----------------------------------------------------------------------------
CallerTypeOK ==
  /\ \A c \in Callers :
       /\ Active(c) => command[c].kind \in CallerKinds /\ command[c].exit \in {0, 1, 64, 65}
       /\ heard[c].is \in {"none", "waiting", "done", "refused"}
       /\ heard[c] # Nothing => Active(c)
       /\ verdict[c].reconciliation => verdict[c].code # "none"
  /\ hostop.id \in 0..MaxAdmitted /\ succeeded \subseteq 1..hostop.id
  /\ changed \subseteq Callers /\ {r.from : r \in wire} \subseteq Callers

(* An error that does not ask for reconciliation is a promise: this command  *)
(* changed nothing on the host, and nothing it sent is still on its way      *)
(* there.  README.md: "Local validation uses `invalid_input` without         *)
(* uncertain remote effects ... A failed mutating command is conservatively  *)
(* uncertain".                                                             *)
CertainMeansNothing ==
  \A c \in Callers :
    verdict[c].code # "none" /\ ~verdict[c].reconciliation =>
      c \notin changed /\ \A r \in wire : r.from # c

(* A deployment that reports completion reports its own operation, and that  *)
(* one succeeded: not a later deployment's, which its inspection may have    *)
(* found in its place.                                                     *)
ReceiptTrue ==
  \A c \in Callers :
    verdict[c].kind = "deploy" /\ verdict[c].ok =>
      /\ verdict[c].id \in succeeded
      /\ verdict[c].shown.id = verdict[c].id /\ verdict[c].shown.owner = c
=============================================================================
