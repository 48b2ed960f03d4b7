------------------------------ MODULE HostAdmits ------------------------------
(***************************************************************************)
(* What the host lets in under a policy or within a limit: the releases of *)
(* an application, and the previews of one.                                *)
(*                                                                         *)
(* As in HostParts, a behaviour chooses one part and only that part moves. *)
(***************************************************************************)
EXTENDS ReleaseAdmission, Previews

VARIABLE part  \* the part that moves

admitsVars == <<part, admissionVars, previewVars>>

(* A part that does not move starts where nothing has happened. *)
AdmitsInit ==
  /\ part \in {"releases", "previews"}
  /\ AdmissionInit
  /\ (part # "releases" => policy = CHOOSE first \in FirstPolicies : TRUE)
  /\ PreviewInit
  /\ (part # "previews" => knob.target = CHOOSE t \in Targets : TRUE)

(* The step of part p is step; the other part keeps its variables. *)
Turn(p, step, variables) == IF part = p THEN step ELSE UNCHANGED variables

AdmitsNext ==
  /\ UNCHANGED part
  /\ Turn("releases", AdmissionNext, admissionVars)
  /\ Turn("previews", PreviewNext, previewVars)

AdmitsSpec == AdmitsInit /\ [][AdmitsNext]_admitsVars
===============================================================================
