-------------------------- MODULE HostAdmitsProofs --------------------------
(***************************************************************************)
(* Theorems about the two parts of module HostAdmits.                      *)
(*                                                                         *)
(* Releases: an acceptance is kept as it was given (AcceptedKept), and a   *)
(* stateful application goes forward only (ForwardOnly), for any commits,  *)
(* builds, sources, callers and edits of the policy.  admit and            *)
(* release-bootstrap look whether a commit is accepted and write the       *)
(* acceptance in another step.  That no other admit accepts the commit in  *)
(* between rests on the application's lock, and on nothing that was read   *)
(* before it; a bootstrap has no lock, and is the exception AcceptedKept   *)
(* makes.  It does not reach a stateful application.                       *)
(*                                                                         *)
(* Previews, for any previews, targets and limits, and whatever fails or   *)
(* dies: the limits of the host hold, whatever is made has a record, and a *)
(* served preview is left alone by the jobs of the others.  None of the    *)
(* three is inductive.  What a job may still do depends on what it checked *)
(* before its first change (Admitted), on what it has made (Made) or taken *)
(* away (Undone) so far, on the route files being those that its record    *)
(* names (Files), and on its preview being in nobody's service meanwhile   *)
(* (ServedAlone).                                                          *)
(***************************************************************************)
EXTENDS HostAdmits, FiniteSetTheorems, TLAPS

(***************************************************************************)
(* The releases of an application (workload/admission.rs,                  *)
(* authority/commands.rs).                                                 *)
(***************************************************************************)
Requests == [commit: Commits, previous: Commits \cup {NoCommit}, policy: Policies]

(* The types that AdmissionTypeOK leaves out. *)
HostShape ==
    /\ clock \in 1..MaxClock
    /\ request \in Requests \cup {NoRequest}
    /\ lockedBy \in Admitters \cup {Nobody}

(* The verb that is past its admission is the one with the application's   *)
(* lock, and the commit that it is about to accept is accepted by nobody   *)
(* yet, or by a bootstrap, which took no lock and has no stateful policy.  *)
HolderWorks ==
    \A a \in Admitters : calls[a].pc \in {"writing", "admitted"} <=> lockedBy = a
Bootstraps(a) == calls[a].pc \in {"looking", "bootstrapping"}
FirstAcceptance ==
    \A a \in Admitters :
      /\ calls[a].pc = "writing" =>
           \/ accepted[calls[a].commit] = Unaccepted
           \/ accepted[calls[a].commit].authority = "bootstrap"
      /\ Bootstraps(a) =>
           calls[a].release.authority = "bootstrap" /\ ~calls[a].policy.stateful

AdmissionInv == AdmissionTypeOK /\ HostShape /\ HolderWorks /\ FirstAcceptance
-----------------------------------------------------------------------------
(* The invariant holds at first. *)
LEMMA AdmissionStarts == AdmissionInit => AdmissionInv
<1> SUFFICES ASSUME AdmissionInit PROVE AdmissionInv
  OBVIOUS
<1>1. AdmissionTypeOK
  BY PolicyAssumption DEF PolicyAssumption, AdmissionInit, AdmissionTypeOK, Acceptances, Calls
<1>2. HostShape
  BY AdmissionAssumption DEF AdmissionAssumption, AdmissionInit, HostShape
<1>3. HolderWorks /\ FirstAcceptance
  BY AdmissionAssumption
     DEF AdmissionAssumption, AdmissionInit, HolderWorks, Bootstraps, FirstAcceptance, NoCall,
         Nobody
<1> QED BY <1>1, <1>2, <1>3 DEF AdmissionInv

(* What a verb in progress carries. *)
LEMMA CallShape ==
  ASSUME AdmissionInv, NEW a \in Admitters, calls[a] # NoCall
  PROVE  /\ calls[a].pc \in CallSteps
         /\ calls[a].commit \in Commits /\ calls[a].policy \in Policies
         /\ calls[a].proof \in Verifications /\ calls[a].release \in Acceptances
         /\ calls[a] \in [pc: CallSteps,
                          kind: VerbKinds, commit: Commits, proof: Verifications,
                          policy: Policies, release: Acceptances]
  BY DEF AdmissionInv, AdmissionTypeOK, Calls

(* A verb that goes on keeps what it carries, but for its step and the      *)
(* acceptance.                                                             *)
LEMMA SetCallShape ==
  ASSUME AdmissionInv, NEW a \in Admitters, calls[a] # NoCall,
         NEW pc \in CallSteps, NEW release \in Acceptances,
         SetCall(a, pc, release)
  PROVE  /\ calls' \in [Admitters -> Calls]
         /\ calls'[a].pc = pc /\ calls'[a].commit = calls[a].commit
         /\ calls'[a].release = release /\ calls'[a].policy = calls[a].policy
         /\ calls'[a] # NoCall
         /\ \A b \in Admitters : b # a => calls'[b] = calls[b]
<1>1. calls \in [Admitters -> Calls]
  BY DEF AdmissionInv, AdmissionTypeOK
<1>2. calls' = [calls EXCEPT ![a] = [calls[a] EXCEPT !.pc = pc, !.release = release]]
  BY <1>1 DEF SetCall
<1>3. [calls[a] EXCEPT !.pc = pc, !.release = release] \in
         [pc: CallSteps,
          kind: VerbKinds, commit: Commits, proof: Verifications,
          policy: Policies, release: Acceptances]
  BY CallShape
<1>4. calls'[a] = [calls[a] EXCEPT !.pc = pc, !.release = release]
  BY <1>1, <1>2
<1>5. /\ calls'[a].pc = pc /\ calls'[a].commit = calls[a].commit
      /\ calls'[a].release = release /\ calls'[a].policy = calls[a].policy
  BY <1>4, CallShape
<1>6. calls'[a] # NoCall
  BY <1>5 DEF NoCall, CallSteps
<1> QED BY <1>1, <1>2, <1>3, <1>5, <1>6 DEF Calls

(* The acceptance a proof would give. *)
LEMMA GivenAcceptance ==
  ASSUME AdmissionInv, NEW a \in Admitters, calls[a] # NoCall,
         Verified(calls[a].policy, calls[a].proof)
  PROVE  [build |-> calls[a].proof.build, source |-> calls[a].policy.source, at |-> clock,
          authority |-> "proof"] \in Acceptances
<1>1. calls[a].proof \in [build: Builds, issued: 1..MaxClock]
  BY CallShape DEF Verified, VerifiedRelease, ApprovedByOwner, Verifications
<1>2. calls[a].policy.source \in Sources
  BY CallShape DEF Policies
<1> QED BY <1>1, <1>2 DEF Acceptances, Authorities, AdmissionInv, HostShape

(* A caller that begins keeps the invariant. *)
LEMMA BeginKeeps ==
  ASSUME AdmissionInv, NEW a \in Admitters, BeginAdmission(a)
  PROVE  AdmissionInv'
<1> PICK kind \in AdmissionKinds[a], c \in Commits, proof \in Verifications :
      calls' = [calls EXCEPT ![a] = [pc |-> "waiting", kind |-> kind,
                  commit |-> c, proof |-> proof, policy |-> policy,
                  release |-> Unaccepted]]
  BY DEF BeginAdmission
<1>1. calls' \in [Admitters -> Calls]
  <2>1. kind \in VerbKinds
    BY PolicyAssumption DEF PolicyAssumption
  <2> QED BY <2>1 DEF AdmissionInv, AdmissionTypeOK, Calls, CallSteps, Acceptances
<1>2. calls[a] = NoCall /\ calls'[a].pc = "waiting"
      /\ \A b \in Admitters : b # a => calls'[b] = calls[b]
  BY DEF BeginAdmission, Idle, AdmissionInv, AdmissionTypeOK
<1>3. UNCHANGED <<policy, accepted, request, env, lockedBy, clock>>
  BY DEF BeginAdmission
<1>4. AdmissionTypeOK'
  <2>1. lockedBy # a
    BY <1>2, AdmissionAssumption
       DEF AdmissionAssumption, AdmissionInv, AdmissionTypeOK, Idle, Nobody
  <2> QED BY <1>1, <1>2, <1>3, <2>1
       DEF AdmissionInv, AdmissionTypeOK, HostShape, Idle
<1>5. HostShape' /\ HolderWorks' /\ FirstAcceptance'
  BY <1>2, <1>3
     DEF AdmissionInv, HostShape, HolderWorks, Bootstraps, FirstAcceptance, NoCall
<1> QED BY <1>4, <1>5 DEF AdmissionInv

(* Under the lock, for the time being nobody's, a verb becomes its holder. *)
LEMMA AdmitKeeps ==
  ASSUME AdmissionInv, NEW a \in Admitters, Admit(a)
  PROVE  AdmissionInv'
<1>1. calls[a].pc = "waiting" /\ calls[a] # NoCall /\ lockedBy = Nobody /\ lockedBy' = a
      /\ UNCHANGED <<policy, accepted, env, request, clock>>
  BY DEF Admit, NoCall
<1>2. calls[a].commit \in Commits
  BY <1>1, CallShape
<1>3. ASSUME NEW pc \in {"writing", "admitted"}, NEW release \in Acceptances,
             SetCall(a, pc, release),
             pc = "writing" => accepted[calls[a].commit] = Unaccepted
      PROVE  AdmissionInv'
  <2> USE DEF CallSteps
  <2>1. /\ calls' \in [Admitters -> Calls]
        /\ calls'[a].pc = pc /\ calls'[a].commit = calls[a].commit
        /\ calls'[a] # NoCall
        /\ \A b \in Admitters : b # a => calls'[b] = calls[b]
    BY <1>1, <1>3, SetCallShape
  <2>2. \A b \in Admitters : b # a => calls'[b].pc \notin {"writing", "admitted"}
    BY <1>1, <2>1, AdmissionAssumption
       DEF AdmissionAssumption, AdmissionInv, HolderWorks, Nobody
  <2>3. AdmissionTypeOK'
    BY <1>1, <2>1 DEF AdmissionInv, AdmissionTypeOK, Idle
  <2>4. HostShape'
    BY <1>1 DEF AdmissionInv, HostShape
  <2>5. HolderWorks' /\ FirstAcceptance'
    BY <1>1, <1>3, <2>1, <2>2, AdmissionAssumption
       DEF AdmissionAssumption, AdmissionInv, HolderWorks, Bootstraps, FirstAcceptance, Nobody
  <2> QED BY <2>3, <2>4, <2>5 DEF AdmissionInv
<1>4. accepted[calls[a].commit] \in Acceptances
  BY <1>2 DEF AdmissionInv, AdmissionTypeOK
<1>5. CASE WithoutProof(a)
  BY <1>3, <1>4, <1>5 DEF WithoutProof
<1>6. CASE WithProof(a)
  <2>1. CASE accepted[calls[a].commit] # Unaccepted
    BY <1>3, <1>4, <1>6, <2>1 DEF WithProof
  <2>2. CASE accepted[calls[a].commit] = Unaccepted
    BY <1>1, <1>3, <1>6, <2>2, GivenAcceptance DEF WithProof
  <2> QED BY <2>1, <2>2
<1> QED BY <1>5, <1>6 DEF Admit

(* So does one that writes. *)
LEMMA WriteKeeps ==
  ASSUME AdmissionInv, NEW a \in Admitters, WriteAcceptance(a)
  PROVE  AdmissionInv'
<1>1. calls[a].pc = "writing" /\ calls[a] # NoCall /\ lockedBy = a
      /\ UNCHANGED <<policy, env, request, lockedBy, clock>>
  BY DEF WriteAcceptance, NoCall, AdmissionInv, HolderWorks
<1>2. calls[a].commit \in Commits /\ calls[a].release \in Acceptances
  BY <1>1, CallShape
<1>3. /\ calls' \in [Admitters -> Calls]
      /\ calls'[a].pc = "admitted" /\ calls'[a] # NoCall
      /\ \A b \in Admitters : b # a => calls'[b] = calls[b]
  BY <1>1, <1>2, SetCallShape DEF WriteAcceptance, CallSteps
<1>4. \A b \in Admitters : b # a => calls[b].pc \notin {"writing", "admitted"}
  BY <1>1 DEF AdmissionInv, HolderWorks
<1>5. AdmissionTypeOK'
  BY <1>1, <1>2, <1>3 DEF WriteAcceptance, AdmissionInv, AdmissionTypeOK, Idle
<1>6. HostShape' /\ HolderWorks' /\ FirstAcceptance'
  BY <1>1, <1>3, <1>4 DEF AdmissionInv, HostShape, HolderWorks, Bootstraps, FirstAcceptance,
                           WriteAcceptance, AdmissionTypeOK
<1> QED BY <1>5, <1>6 DEF AdmissionInv

(* A verb that ends leaves nobody else without the lock it works under. *)
LEMMA LeavingKeeps ==
  ASSUME AdmissionInv, NEW a \in Admitters, Leave(a), calls[a] # NoCall,
         lockedBy' = IF lockedBy = a THEN Nobody ELSE lockedBy,
         UNCHANGED <<policy, accepted, env, clock>>,
         request' \in Requests \cup {NoRequest}
  PROVE  AdmissionInv'
<1>1. /\ calls' \in [Admitters -> Calls] /\ calls'[a] = NoCall
      /\ \A b \in Admitters : b # a => calls'[b] = calls[b]
  BY DEF Leave, AdmissionInv, AdmissionTypeOK, Calls
<1>2. AdmissionTypeOK'
  <2>1. lockedBy' = Nobody \/ calls'[lockedBy'] # NoCall
    BY <1>1 DEF AdmissionInv, AdmissionTypeOK, HostShape, Idle
  <2> QED BY <1>1, <2>1 DEF AdmissionInv, AdmissionTypeOK, Idle
<1>3. HostShape'
  BY DEF AdmissionInv, HostShape
<1>4. HolderWorks' /\ FirstAcceptance'
  BY <1>1, AdmissionAssumption
     DEF AdmissionAssumption, NoCall, Nobody, AdmissionInv, HolderWorks, Bootstraps, FirstAcceptance
<1> QED BY <1>2, <1>3, <1>4 DEF AdmissionInv

(* So does one that ends. *)
LEMMA EndKeeps ==
  ASSUME AdmissionInv, NEW a \in Admitters, EndAdmission(a)
  PROVE  AdmissionInv'
<1>1. calls[a].pc = "admitted" /\ calls[a] # NoCall /\ lockedBy = a
  BY DEF EndAdmission, NoCall, AdmissionInv, HolderWorks
<1>2. request' \in Requests \cup {NoRequest}
  <2>1. calls[a].commit \in Commits /\ env \in Commits \cup {NoCommit} /\ policy \in Policies
    BY <1>1, CallShape DEF AdmissionInv, AdmissionTypeOK
  <2> QED BY <2>1 DEF EndAdmission, Requests, AdmissionInv, HostShape
<1> QED BY <1>1, <1>2, LeavingKeeps DEF EndAdmission

(* A bootstrap begins where the policy is not stateful. *)
LEMMA BeginBootstrapKeeps ==
  ASSUME AdmissionInv, NEW a \in Admitters, BeginBootstrap(a)
  PROVE  AdmissionInv'
<1>1. /\ calls[a] = NoCall /\ ~policy.stateful /\ policy \in Policies
      /\ UNCHANGED <<policy, accepted, request, env, lockedBy, clock>>
  BY DEF BeginBootstrap, Idle, AdmissionInv, AdmissionTypeOK
<1>2. PICK c \in Commits, b \in Builds :
        calls' = [calls EXCEPT ![a] = [pc |-> "looking", kind |-> "bootstrap",
                    commit |-> c, proof |-> NoProof, policy |-> policy,
                    release |-> [build |-> b, source |-> policy.source, at |-> clock,
                                 authority |-> "bootstrap"]]]
  BY DEF BeginBootstrap
<1>3. calls' \in [Admitters -> Calls]
  <2>1. [build |-> b, source |-> policy.source, at |-> clock, authority |-> "bootstrap"]
          \in Acceptances
    BY <1>1 DEF Acceptances, Authorities, Policies, AdmissionInv, HostShape
  <2> QED BY <1>1, <1>2, <2>1
       DEF AdmissionInv, AdmissionTypeOK, Calls, CallSteps, VerbKinds, Verifications
<1>4. /\ calls'[a].pc = "looking" /\ calls'[a].release.authority = "bootstrap"
      /\ calls'[a].policy = policy
      /\ \A b2 \in Admitters : b2 # a => calls'[b2] = calls[b2]
  BY <1>2 DEF AdmissionInv, AdmissionTypeOK
<1>5. AdmissionTypeOK'
  <2>1. lockedBy # a
    BY <1>1, AdmissionAssumption
       DEF AdmissionAssumption, AdmissionInv, AdmissionTypeOK, Idle, Nobody
  <2> QED BY <1>1, <1>3, <1>4, <2>1 DEF AdmissionInv, AdmissionTypeOK, HostShape, Idle
<1>6. HostShape' /\ HolderWorks' /\ FirstAcceptance'
  BY <1>1, <1>4
     DEF AdmissionInv, HostShape, HolderWorks, Bootstraps, FirstAcceptance, NoCall
<1> QED BY <1>5, <1>6 DEF AdmissionInv

(* It looks for an acceptance, ... *)
LEMMA LookBootstrapKeeps ==
  ASSUME AdmissionInv, NEW a \in Admitters, LookBootstrap(a)
  PROVE  AdmissionInv'
<1>1. /\ calls[a].pc = "looking" /\ calls[a] # NoCall
      /\ UNCHANGED <<policy, accepted, request, env, lockedBy, clock>>
  BY DEF LookBootstrap, NoCall
<1>2. /\ calls' \in [Admitters -> Calls] /\ calls'[a] # NoCall
      /\ calls'[a].pc = "bootstrapping" /\ calls'[a].commit = calls[a].commit
      /\ calls'[a].release = calls[a].release /\ calls'[a].policy = calls[a].policy
      /\ \A b \in Admitters : b # a => calls'[b] = calls[b]
  BY <1>1, CallShape, SetCallShape DEF LookBootstrap, CallSteps
<1>3. AdmissionTypeOK'
  BY <1>1, <1>2 DEF AdmissionInv, AdmissionTypeOK, HostShape, Idle
<1>4. HostShape' /\ HolderWorks' /\ FirstAcceptance'
  BY <1>1, <1>2 DEF AdmissionInv, HostShape, HolderWorks, Bootstraps, FirstAcceptance
<1> QED BY <1>3, <1>4 DEF AdmissionInv

(* ... and writes its own, under nobody's lock. *)
LEMMA WriteBootstrapKeeps ==
  ASSUME AdmissionInv, NEW a \in Admitters, WriteBootstrap(a)
  PROVE  AdmissionInv'
<1> DEFINE c == calls[a].commit
<1>1. /\ calls[a].pc = "bootstrapping" /\ calls[a] # NoCall /\ lockedBy # a
      /\ UNCHANGED <<policy, request, env, lockedBy, clock>>
      /\ accepted' = [accepted EXCEPT ![c] = calls[a].release]
  BY DEF WriteBootstrap, NoCall, AdmissionInv, HolderWorks
<1>2. /\ c \in Commits /\ calls[a].release \in Acceptances
      /\ calls[a].release.authority = "bootstrap"
  BY <1>1, CallShape DEF AdmissionInv, FirstAcceptance, Bootstraps
<1>3. /\ calls' \in [Admitters -> Calls] /\ calls'[a] = NoCall
      /\ \A b \in Admitters : b # a => calls'[b] = calls[b]
  BY DEF WriteBootstrap, Leave, AdmissionInv, AdmissionTypeOK, Calls
<1>4. accepted' \in [Commits -> Acceptances]
      /\ \A d \in Commits : accepted'[d] = accepted[d] \/ accepted'[d].authority = "bootstrap"
  BY <1>1, <1>2 DEF AdmissionInv, AdmissionTypeOK
<1>5. AdmissionTypeOK'
  BY <1>1, <1>3, <1>4 DEF AdmissionInv, AdmissionTypeOK, HostShape, Idle
<1>6. HostShape' /\ HolderWorks'
  BY <1>1, <1>3 DEF AdmissionInv, HostShape, HolderWorks, NoCall
<1>7. FirstAcceptance'
  <2>1. ASSUME NEW b \in Admitters, calls'[b].pc = "writing"
        PROVE  \/ accepted'[calls'[b].commit] = Unaccepted
               \/ accepted'[calls'[b].commit].authority = "bootstrap"
    <3>1. b # a /\ calls'[b] = calls[b] /\ calls[b] # NoCall
      BY <1>3, <2>1 DEF NoCall
    <3>2. calls[b].commit \in Commits
      BY <3>1, CallShape
    <3> QED BY <1>4, <2>1, <3>1, <3>2 DEF AdmissionInv, FirstAcceptance
  <2>2. \A b \in Admitters : Bootstraps(b)' => b # a
    BY <1>3 DEF Bootstraps, NoCall
  <2> QED BY <1>3, <2>1, <2>2 DEF AdmissionInv, FirstAcceptance, Bootstraps
<1> QED BY <1>5, <1>6, <1>7 DEF AdmissionInv

(* What the rest of the host does leaves the verbs in progress, the lock   *)
(* and the acceptances alone.                                              *)
LEMMA OthersKeep ==
  ASSUME AdmissionInv, UNCHANGED <<calls, lockedBy, accepted>>,
         policy' \in Policies, env' \in Commits \cup {NoCommit},
         clock' \in 1..MaxClock, request' \in Requests \cup {NoRequest}
  PROVE  AdmissionInv'
  BY DEF AdmissionInv, AdmissionTypeOK, HostShape, HolderWorks, Bootstraps, FirstAcceptance, Idle

(* So do the host's own steps. *)
LEMMA HostKeeps ==
  ASSUME AdmissionInv,
         \/ SubmitLocal
         \/ \E c \in Commits : AuthorizeDelivery(c)
         \/ \E s \in Sources : Trust(s)
         \/ EnableDelivery \/ Refuse \/ FailConfigured \/ Accept \/ Reconcile \/ Tick
  PROVE  AdmissionInv'
<1> USE DEF AdmissionInv, AdmissionTypeOK, HostShape
<1>1. CASE SubmitLocal
  <2>1. request' \in Requests
    BY <1>1 DEF SubmitLocal, Requests
  <2> QED BY <1>1, <2>1, OthersKeep DEF SubmitLocal
<1>2. ASSUME NEW c \in Commits, AuthorizeDelivery(c) PROVE AdmissionInv'
  BY <1>2, OthersKeep DEF AuthorizeDelivery
<1>3. ASSUME NEW s \in Sources, Trust(s) PROVE AdmissionInv'
  <2>1. policy' \in Policies
    BY <1>3 DEF Trust, Policies
  <2> QED BY <1>3, <2>1, OthersKeep DEF Trust
<1>4. CASE EnableDelivery
  <2>1. policy' \in Policies
    BY <1>4 DEF EnableDelivery, Policies
  <2> QED BY <1>4, <2>1, OthersKeep DEF EnableDelivery
<1>5. CASE Refuse
  BY <1>5, OthersKeep DEF Refuse
<1>6. CASE FailConfigured \/ Accept
  <2>1. request.commit \in Commits
    BY <1>6 DEF FailConfigured, Accept, WorkerFree, Requests
  <2> QED BY <1>6, <2>1, OthersKeep DEF FailConfigured, Accept
<1>7. CASE Reconcile
  BY <1>7, OthersKeep DEF Reconcile
<1>8. CASE Tick
  BY <1>8, AdmissionAssumption, OthersKeep DEF AdmissionAssumption, Tick
<1> QED BY <1>1, <1>2, <1>3, <1>4, <1>5, <1>6, <1>7, <1>8

(* So does every step. *)
LEMMA AdmissionGoesOn == AdmissionInv /\ [AdmissionNext]_admissionVars => AdmissionInv'
<1> SUFFICES ASSUME AdmissionInv, [AdmissionNext]_admissionVars PROVE AdmissionInv'
  OBVIOUS
<1>1. ASSUME NEW a \in Admitters, GiveUp(a) PROVE AdmissionInv'
  <2>1. calls[a] # NoCall /\ request \in Requests \cup {NoRequest}
    BY <1>1 DEF GiveUp, Idle, AdmissionInv, HostShape
  <2> QED BY <1>1, <2>1, LeavingKeeps DEF GiveUp
<1>2. CASE UNCHANGED admissionVars
  BY <1>2 DEF admissionVars, AdmissionInv, AdmissionTypeOK, HostShape, HolderWorks,
              Bootstraps, FirstAcceptance, Idle
<1> QED BY <1>1, <1>2, BeginKeeps, AdmitKeeps, WriteKeeps, EndKeeps,
   BeginBootstrapKeeps, LookBootstrapKeeps, WriteBootstrapKeeps, HostKeeps
        DEF AdmissionNext
-----------------------------------------------------------------------------
(* The types, and the holder of the lock, for any callers and any policies. *)
THEOREM AdmissionTypeInvariant == AdmissionSpec => []AdmissionTypeOK
<1>1. AdmissionInv => AdmissionTypeOK
  BY DEF AdmissionInv
<1> QED BY <1>1, AdmissionStarts, AdmissionGoesOn, PTL DEF AdmissionSpec

(* Two admissions of the same new commit with different builds cannot both *)
(* accept it, and no step of the operator or the worker changes an         *)
(* acceptance: one that is replaced was made by a bootstrap, or is replaced *)
(* by one, in a step of the verb that was about to write it.               *)
THEOREM AcceptancesAreKept == AdmissionSpec => AcceptedKept
<1> DEFINE Replaced(c) == accepted[c] # Unaccepted /\ accepted'[c] # accepted[c]
           Excused(c) ==
             /\ "bootstrap" \in {accepted[c].authority, accepted'[c].authority}
             /\ \E a \in Admitters :
                  calls[a].pc \in {"writing", "bootstrapping"} /\ calls[a].commit = c
<1>1. ASSUME AdmissionInv, [AdmissionNext]_admissionVars
      PROVE  [\A c \in Commits : Replaced(c) => Excused(c)]_admissionVars
  <2>1. ASSUME NEW a \in Admitters, WriteAcceptance(a), NEW c \in Commits, Replaced(c)
        PROVE  Excused(c)
    BY <1>1, <2>1 DEF WriteAcceptance, AdmissionInv, AdmissionTypeOK, FirstAcceptance
  <2>2. ASSUME NEW a \in Admitters, WriteBootstrap(a), NEW c \in Commits, Replaced(c)
        PROVE  Excused(c)
    BY <1>1, <2>2
       DEF WriteBootstrap, AdmissionInv, AdmissionTypeOK, FirstAcceptance, Bootstraps
  <2>3. \/ accepted' = accepted
        \/ \E a \in Admitters : WriteAcceptance(a) \/ WriteBootstrap(a)
    BY <1>1 DEF AdmissionNext, admissionVars, BeginAdmission, Admit, EndAdmission, GiveUp,
                BeginBootstrap, LookBootstrap, SubmitLocal, AuthorizeDelivery, Trust,
                EnableDelivery, Refuse, FailConfigured, Accept, Reconcile, Tick
  <2> QED BY <2>1, <2>2, <2>3
<1> QED BY <1>1, AdmissionStarts, AdmissionGoesOn, PTL DEF AdmissionSpec, AcceptedKept
-----------------------------------------------------------------------------
(***************************************************************************)
(* A stateful application goes forward only (ForwardOnly).  The release is  *)
(* compared with the current one when the verb is admitted, and queued     *)
(* later: in between the lock keeps the worker from making another release *)
(* the current one, and a policy that was stateful stays so.  A bootstrap, *)
(* which waits for no lock, has a policy that is not.                      *)
(***************************************************************************)
Working(a) == calls[a].pc \in {"writing", "admitted"}

RetentionShape ==
    retained \in [current: Commits, previous: Commits \cup {NoCommit}] \cup {NoRetention}
AcceptedInThePast == \A c \in Commits : accepted[c].at <= clock
StatefulStays ==
    \A a \in Admitters : calls[a] # NoCall => calls[a].policy.stateful = policy.stateful

(* What a verb carries for a stateful application is what its commit is, or *)
(* will be, accepted with, and no older than the current release.           *)
CarriesForward(a) ==
    calls[a].policy.stateful =>
      /\ calls[a].pc = "admitted" => accepted[calls[a].commit] = calls[a].release
      /\ retained # NoRetention /\ calls[a].commit # retained.current
         => calls[a].release.at >= accepted[retained.current].at

ForwardInv ==
    /\ RetentionShape /\ AcceptedInThePast /\ StatefulStays
    /\ \A a \in Admitters : calls[a] # NoCall => calls[a].release.at <= clock
    /\ \A a \in Admitters : Working(a) => CarriesForward(a)

(* The times of acceptance and the clock are numbers. *)
LEMMA TimesAreNumbers ==
  ASSUME AdmissionInv
  PROVE  /\ clock \in Nat /\ \A c \in Commits : accepted[c].at \in Nat
         /\ \A release \in Acceptances : release.at \in Nat
<1>1. \A release \in Acceptances : release.at \in Nat
  BY AdmissionAssumption DEF AdmissionAssumption, Acceptances, Unaccepted
<1> QED BY <1>1, AdmissionAssumption
        DEF AdmissionAssumption, AdmissionInv, AdmissionTypeOK, HostShape

(* A verb that goes on carries the policy it began with, and the release it *)
(* was given.                                                              *)
LEMMA SetCallCarries ==
  ASSUME AdmissionInv, NEW a \in Admitters, calls[a] # NoCall,
         NEW pc \in CallSteps, NEW release \in Acceptances,
         SetCall(a, pc, release)
  PROVE  /\ calls'[a].pc = pc /\ calls'[a].release = release
         /\ calls'[a].policy = calls[a].policy /\ calls'[a].commit = calls[a].commit
         /\ \A b \in Admitters : b # a => calls'[b] = calls[b]
<1>1. calls \in [Admitters -> Calls]
  BY DEF AdmissionInv, AdmissionTypeOK
<1>2. calls'[a] = [calls[a] EXCEPT !.pc = pc, !.release = release]
      /\ \A b \in Admitters : b # a => calls'[b] = calls[b]
  BY <1>1 DEF SetCall
<1> QED BY <1>2, CallShape

(* Nobody but the holder of the lock is past its admission. *)
LEMMA OneWorks ==
  ASSUME AdmissionInv
  PROVE  \A b \in Admitters : Working(b) => lockedBy = b /\ lockedBy # Nobody
  BY AdmissionAssumption DEF AdmissionAssumption, AdmissionInv, HolderWorks, Working, Nobody

(* An admission compares the release with the current one. *)
LEMMA AdmitForward ==
  ASSUME AdmissionInv, ForwardInv, NEW a \in Admitters, Admit(a)
  PROVE  ForwardInv'
<1>1. /\ calls[a].pc = "waiting" /\ calls[a] # NoCall /\ lockedBy = Nobody
      /\ UNCHANGED <<policy, accepted, retained, clock>>
  BY DEF Admit, NoCall
<1> DEFINE c == calls[a].commit  p == calls[a].policy
<1>2. c \in Commits /\ accepted[c] \in Acceptances
  BY <1>1, CallShape DEF AdmissionInv, AdmissionTypeOK
<1>3. ASSUME NEW pc \in {"writing", "admitted"}, NEW release \in Acceptances,
             SetCall(a, pc, release), release.at <= clock,
             pc = "admitted" => accepted[c] = release,
             p.stateful /\ retained # NoRetention /\ c # retained.current
               => release.at >= accepted[retained.current].at
      PROVE  ForwardInv'
  <2>1. /\ calls'[a].pc = pc /\ calls'[a].release = release
        /\ calls'[a].policy = p /\ calls'[a].commit = c
        /\ \A b \in Admitters : b # a => calls'[b] = calls[b]
    BY <1>1, <1>3, SetCallCarries DEF CallSteps
  <2>2. \A b \in Admitters : b # a => ~Working(b)
    BY <1>1, OneWorks
  <2>3. RetentionShape' /\ AcceptedInThePast'
    BY <1>1 DEF ForwardInv, RetentionShape, AcceptedInThePast
  <2>4. StatefulStays'
    BY <1>1, <2>1 DEF ForwardInv, StatefulStays
  <2>5. ASSUME NEW b \in Admitters, Working(b)' PROVE CarriesForward(b)'
    <3>1. b = a
      BY <2>1, <2>2, <2>5 DEF Working
    <3> QED BY <1>1, <1>3, <2>1, <3>1 DEF CarriesForward
  <2>6. \A b \in Admitters : calls'[b] # NoCall => calls'[b].release.at <= clock
    BY <1>3, <2>1 DEF ForwardInv
  <2> QED BY <1>1, <2>3, <2>4, <2>5, <2>6 DEF ForwardInv
<1>4. CASE WithoutProof(a)
  <2>1. /\ SetCall(a, "admitted", accepted[c]) /\ accepted[c].at <= clock
        /\ p.stateful => c = retained.current
    BY <1>2, <1>4 DEF WithoutProof, RollbackAllowed, ForwardInv, AcceptedInThePast
  <2> QED BY <1>2, <1>3, <2>1
<1>5. CASE WithProof(a) /\ accepted[c] # Unaccepted
  <2>1. /\ SetCall(a, "admitted", accepted[c]) /\ accepted[c].at <= clock
        /\ StatefulRetry(p, c, accepted[c])
    BY <1>2, <1>5 DEF WithProof, ForwardInv, AcceptedInThePast
  <2>2. p.stateful /\ retained # NoRetention /\ c # retained.current
          => accepted[c].at >= accepted[retained.current].at
    <3>1. SUFFICES ASSUME retained # NoRetention PROVE
            p.stateful /\ c # retained.current => accepted[c].at >= accepted[retained.current].at
      OBVIOUS
    <3>2. retained.current \in Commits
      BY <3>1 DEF ForwardInv, RetentionShape
    <3> QED BY <1>2, <2>1, <3>1, <3>2, TimesAreNumbers DEF StatefulRetry
  <2> QED BY <1>2, <1>3, <2>1, <2>2
<1>6. CASE WithProof(a) /\ accepted[c] = Unaccepted
  <2> DEFINE release == [build |-> calls[a].proof.build, source |-> p.source, at |-> clock,
                     authority |-> "proof"]
  <2>1. SetCall(a, "writing", release) /\ release \in Acceptances /\ release.at = clock
    BY <1>1, <1>6, GivenAcceptance DEF WithProof
  <2>2. clock <= clock
    BY TimesAreNumbers
  <2>3. p.stateful /\ retained # NoRetention /\ c # retained.current
          => clock >= accepted[retained.current].at
    <3>1. retained # NoRetention => retained.current \in Commits
      BY DEF ForwardInv, RetentionShape
    <3> QED BY <3>1, TimesAreNumbers DEF ForwardInv, AcceptedInThePast
  <2> HIDE DEF release
  <2> QED BY <1>3, <2>1, <2>2, <2>3
<1> QED BY <1>4, <1>5, <1>6 DEF Admit

(* The acceptance that is written is the one that was compared. *)
LEMMA WriteForward ==
  ASSUME AdmissionInv, ForwardInv, NEW a \in Admitters, WriteAcceptance(a)
  PROVE  ForwardInv'
<1> DEFINE c == calls[a].commit  release == calls[a].release
<1>1. /\ calls[a].pc = "writing" /\ calls[a] # NoCall /\ Working(a) /\ lockedBy = a
      /\ UNCHANGED <<policy, retained, clock>>
      /\ accepted' = [accepted EXCEPT ![c] = release] /\ SetCall(a, "admitted", release)
  BY OneWorks DEF WriteAcceptance, NoCall, Working
<1>2. c \in Commits /\ release \in Acceptances
  BY <1>1, CallShape
<1>3. /\ calls'[a].pc = "admitted" /\ calls'[a].release = release
      /\ calls'[a].policy = calls[a].policy /\ calls'[a].commit = c
      /\ \A b \in Admitters : b # a => calls'[b] = calls[b]
  BY <1>1, <1>2, SetCallCarries DEF CallSteps
<1>4. accepted'[c] = release /\ \A d \in Commits : d # c => accepted'[d] = accepted[d]
  BY <1>1, <1>2 DEF AdmissionInv, AdmissionTypeOK
<1>5. CarriesForward(a) /\ release.at <= clock
  BY <1>1 DEF ForwardInv
<1> HIDE DEF c, release
<1>6. RetentionShape' /\ AcceptedInThePast'
  BY <1>1, <1>4, <1>5 DEF ForwardInv, RetentionShape, AcceptedInThePast, CarriesForward, release
<1>7. StatefulStays'
  BY <1>1, <1>3 DEF ForwardInv, StatefulStays
<1>8. ASSUME NEW b \in Admitters, Working(b)' PROVE CarriesForward(b)'
  <2>1. b = a
    BY <1>1, <1>3, <1>8, OneWorks DEF Working
  <2>2. retained # NoRetention => retained.current \in Commits
    BY DEF ForwardInv, RetentionShape
  <2> QED BY <1>1, <1>3, <1>4, <1>5, <2>1, <2>2 DEF CarriesForward, c, release
<1>9. \A b \in Admitters : calls'[b] # NoCall => calls'[b].release.at <= clock
  BY <1>3, <1>5 DEF ForwardInv
<1> QED BY <1>1, <1>6, <1>7, <1>8, <1>9 DEF ForwardInv

(* What leaves the verbs in progress alone may change the retained         *)
(* revisions only while nobody works under the lock, and an acceptance only *)
(* while the application is not stateful.                                  *)
LEMMA OthersForward ==
  ASSUME AdmissionInv, ForwardInv,
         \A b \in Admitters :
           \/ calls'[b] = calls[b]
           \/ /\ ~Working(b)'
              /\ calls'[b] # NoCall =>
                   /\ calls'[b].policy.stateful = policy.stateful
                   /\ calls'[b].release.at \in 0..clock,
         accepted' = accepted \/ ~policy.stateful,
         retained' = retained \/ lockedBy = Nobody,
         policy'.stateful = policy.stateful, clock' \in Nat, clock <= clock',
         RetentionShape', AcceptedInThePast'
  PROVE  ForwardInv'
<1>1. StatefulStays'
  BY DEF ForwardInv, StatefulStays
<1>2. \A b \in Admitters : calls'[b] # NoCall => calls'[b].release.at <= clock'
  <2>1. \A b \in Admitters : calls'[b] # NoCall => calls'[b].release.at <= clock
    BY TimesAreNumbers DEF ForwardInv
  <2>2. ASSUME NEW b \in Admitters, calls'[b] # NoCall
        PROVE  calls'[b].release.at <= clock'
    <3>1. clock \in Nat
      BY TimesAreNumbers
    <3>2. CASE calls'[b] = calls[b]
      <4>1. calls[b].release.at \in Nat
        BY <2>2, <3>2, CallShape, TimesAreNumbers
      <4> QED BY <2>1, <2>2, <3>1, <3>2, <4>1
    <3>3. CASE calls'[b] # calls[b]
      <4>1. calls'[b].release.at \in 0..clock
        BY <2>2, <3>3
      <4> QED BY <3>1, <4>1
    <3> QED BY <3>2, <3>3
  <2> QED BY <2>2
<1>3. ASSUME NEW b \in Admitters, Working(b)' PROVE CarriesForward(b)'
  <2>1. calls'[b] = calls[b] /\ Working(b) /\ calls[b] # NoCall
    BY <1>3 DEF Working, NoCall
  <2>2. retained' = retained /\ CarriesForward(b)
    BY <2>1, OneWorks DEF ForwardInv
  <2>3. calls[b].policy.stateful => accepted' = accepted
    BY <2>1 DEF ForwardInv, StatefulStays
  <2> QED BY <2>1, <2>2, <2>3 DEF CarriesForward
<1> QED BY <1>1, <1>2, <1>3 DEF ForwardInv

(* Every step keeps what a verb carries no older than what is current. *)
LEMMA ForwardGoesOn == AdmissionInv /\ ForwardInv /\ [AdmissionNext]_admissionVars => ForwardInv'
<1> SUFFICES ASSUME AdmissionInv, ForwardInv, [AdmissionNext]_admissionVars PROVE ForwardInv'
  OBVIOUS
<1>1. /\ clock \in Nat /\ clock <= clock /\ RetentionShape /\ AcceptedInThePast
      /\ calls \in [Admitters -> Calls]
  BY TimesAreNumbers DEF ForwardInv, AdmissionInv, AdmissionTypeOK
<1>2. ASSUME NEW a \in Admitters, BeginAdmission(a) PROVE ForwardInv'
  <2>1. PICK call : /\ calls' = [calls EXCEPT ![a] = call]
                    /\ call.pc = "waiting" /\ call.policy = policy
                    /\ call.release = Unaccepted
    <3>1. PICK kind \in AdmissionKinds[a], c \in Commits, proof \in Verifications :
            calls' = [calls EXCEPT ![a] = [pc |-> "waiting", kind |-> kind,
                        commit |-> c, proof |-> proof, policy |-> policy,
                        release |-> Unaccepted]]
      BY <1>2 DEF BeginAdmission
    <3> WITNESS [pc |-> "waiting", kind |-> kind, commit |-> c, proof |-> proof,
                 policy |-> policy, release |-> Unaccepted]
    <3> QED BY <3>1
  <2>2. \A b \in Admitters :
          \/ calls'[b] = calls[b]
          \/ /\ ~Working(b)' /\ calls'[b].policy.stateful = policy.stateful
             /\ calls'[b].release.at \in 0..clock
    BY <1>1, <2>1 DEF Working, Unaccepted
  <2>3. UNCHANGED <<policy, accepted, retained, clock>>
    BY <1>2 DEF BeginAdmission
  <2>4. RetentionShape' /\ AcceptedInThePast'
    BY <1>1, <2>3 DEF RetentionShape, AcceptedInThePast
  <2> QED BY <1>1, <2>2, <2>3, <2>4, OthersForward
<1>3. ASSUME NEW a \in Admitters, EndAdmission(a) \/ GiveUp(a) PROVE ForwardInv'
  <2>1. Leave(a) /\ UNCHANGED <<policy, accepted, retained, clock>>
    BY <1>3 DEF EndAdmission, GiveUp
  <2>2. \A b \in Admitters : \/ calls'[b] = calls[b]
                             \/ ~Working(b)' /\ calls'[b] = NoCall
    BY <1>1, <2>1 DEF Leave, Working, NoCall
  <2>3. RetentionShape' /\ AcceptedInThePast'
    BY <1>1, <2>1 DEF RetentionShape, AcceptedInThePast
  <2> QED BY <1>1, <2>1, <2>2, <2>3, OthersForward
<1>4. ASSUME NEW a \in Admitters, BeginBootstrap(a) PROVE ForwardInv'
  <2>1. PICK call : /\ calls' = [calls EXCEPT ![a] = call]
                    /\ call.pc = "looking" /\ call.policy = policy /\ call.release.at = clock
    <3>1. PICK c \in Commits, b \in Builds :
            calls' = [calls EXCEPT ![a] = [pc |-> "looking", kind |-> "bootstrap",
                        commit |-> c, proof |-> NoProof, policy |-> policy,
                        release |-> [build |-> b, source |-> policy.source, at |-> clock,
                                     authority |-> "bootstrap"]]]
      BY <1>4 DEF BeginBootstrap
    <3> WITNESS [pc |-> "looking", kind |-> "bootstrap",
                 commit |-> c, proof |-> NoProof, policy |-> policy,
                 release |-> [build |-> b, source |-> policy.source, at |-> clock,
                              authority |-> "bootstrap"]]
    <3> QED BY <3>1
  <2>2. \A b \in Admitters :
          \/ calls'[b] = calls[b]
          \/ /\ ~Working(b)' /\ calls'[b].policy.stateful = policy.stateful
             /\ calls'[b].release.at \in 0..clock
    BY <1>1, <2>1 DEF Working
  <2>3. UNCHANGED <<policy, accepted, retained, clock>>
    BY <1>4 DEF BeginBootstrap
  <2>4. RetentionShape' /\ AcceptedInThePast'
    BY <1>1, <2>3 DEF RetentionShape, AcceptedInThePast
  <2> QED BY <1>1, <2>2, <2>3, <2>4, OthersForward
<1>5. CASE Accept
  <2>1. UNCHANGED <<policy, accepted, clock, calls>> /\ lockedBy = Nobody
    BY <1>5 DEF Accept, WorkerFree
  <2>2. request.commit \in Commits /\ request.previous \in Commits \cup {NoCommit}
    BY <1>5 DEF Accept, WorkerFree, AdmissionInv, HostShape, Requests
  <2>3. RetentionShape'
    BY <1>1, <1>5, <2>2 DEF Accept, RetentionShape
  <2>4. AcceptedInThePast'
    BY <1>1, <2>1 DEF AcceptedInThePast
  <2> QED BY <1>1, <2>1, <2>3, <2>4, OthersForward
<1>6. CASE Tick
  <2>1. UNCHANGED <<policy, accepted, retained, calls>> /\ clock' = clock + 1
    BY <1>6 DEF Tick
  <2>2. RetentionShape' /\ AcceptedInThePast'
    BY <1>1, <2>1, TimesAreNumbers DEF RetentionShape, AcceptedInThePast
  <2> QED BY <1>1, <2>1, <2>2, OthersForward
<1>7. ASSUME UNCHANGED <<accepted, retained, clock, calls>>, policy'.stateful = policy.stateful
      PROVE  ForwardInv'
  <2>1. RetentionShape' /\ AcceptedInThePast'
    BY <1>1, <1>7 DEF RetentionShape, AcceptedInThePast
  <2> QED BY <1>1, <1>7, <2>1, OthersForward
<1>8. ASSUME NEW c \in Commits, AuthorizeDelivery(c) PROVE ForwardInv'
  BY <1>7, <1>8 DEF AuthorizeDelivery
<1>9. ASSUME \/ SubmitLocal \/ EnableDelivery \/ Refuse \/ FailConfigured \/ Reconcile
             \/ \E s \in Sources : Trust(s)
      PROVE  ForwardInv'
  <2>1. policy \in Policies /\ UNCHANGED <<accepted, retained, clock, calls>>
    BY <1>9 DEF SubmitLocal, EnableDelivery, Refuse, FailConfigured, Reconcile, Trust,
                AdmissionInv, AdmissionTypeOK
  <2>2. policy'.stateful = policy.stateful
    BY <1>9, <2>1 DEF SubmitLocal, EnableDelivery, Refuse, FailConfigured, Reconcile, Trust,
                      Policies
  <2> QED BY <1>7, <2>1, <2>2
<1>10. CASE UNCHANGED admissionVars
  BY <1>7, <1>10 DEF admissionVars
<1>11. ASSUME NEW a \in Admitters, LookBootstrap(a) \/ WriteBootstrap(a) PROVE ForwardInv'
  <2>1. /\ calls[a] # NoCall /\ Bootstraps(a)
        /\ UNCHANGED <<policy, retained, clock>>
    BY <1>11 DEF LookBootstrap, WriteBootstrap, Bootstraps, NoCall
  <2>2. /\ ~policy.stateful /\ calls[a].policy.stateful = policy.stateful
        /\ calls[a].release.at <= clock
        /\ calls[a].commit \in Commits /\ calls[a].release \in Acceptances
    BY <2>1, CallShape DEF ForwardInv, StatefulStays, AdmissionInv, FirstAcceptance
  <2>3. \A b \in Admitters :
          \/ calls'[b] = calls[b]
          \/ /\ ~Working(b)'
             /\ calls'[b] # NoCall => /\ calls'[b].policy.stateful = policy.stateful
                                     /\ calls'[b].release.at \in 0..clock
    <3>1. CASE LookBootstrap(a)
      BY <1>1, <2>1, <2>2, <3>1, SetCallCarries, TimesAreNumbers
         DEF LookBootstrap, CallSteps, Working
    <3>2. CASE WriteBootstrap(a)
      BY <1>1, <3>2 DEF WriteBootstrap, Leave, Working, NoCall
    <3> QED BY <1>11, <3>1, <3>2
  <2>4. \A d \in Commits : accepted'[d].at <= clock
    BY <1>1, <1>11, <2>2
       DEF LookBootstrap, WriteBootstrap, AcceptedInThePast, AdmissionInv, AdmissionTypeOK
  <2>5. RetentionShape' /\ AcceptedInThePast'
    BY <1>1, <2>1, <2>4 DEF RetentionShape, AcceptedInThePast
  <2> QED BY <1>1, <2>1, <2>2, <2>3, <2>5, OthersForward
<1> QED BY <1>2, <1>3, <1>4, <1>5, <1>6, <1>8, <1>9, <1>10, <1>11, AdmitForward, WriteForward
        DEF AdmissionNext

(* At first nothing is retained and no verb is at work. *)
LEMMA ForwardStarts == AdmissionInit => ForwardInv
<1> SUFFICES ASSUME AdmissionInit PROVE ForwardInv
  OBVIOUS
<1>1. RetentionShape /\ AcceptedInThePast
  BY DEF AdmissionInit, RetentionShape, AcceptedInThePast, Unaccepted
<1>2. StatefulStays /\ \A a \in Admitters : ~Working(a) /\ calls[a] = NoCall
  BY DEF AdmissionInit, StatefulStays, Working, NoCall
<1> QED BY <1>1, <1>2 DEF ForwardInv

(* No operation of a stateful application is queued for a release that was *)
(* accepted before the current one, however long a submission waits for    *)
(* the lock and whatever the operator and other verbs do meanwhile.        *)
THEOREM StatefulGoesForward == AdmissionSpec => ForwardOnly
<1> DEFINE Forward == (/\ request' # request /\ request' # NoRequest
                       /\ policy.stateful /\ retained # NoRetention
                       /\ request'.commit # retained.current)
                      => accepted[request'.commit].at >= accepted[retained.current].at
<1>1. ASSUME AdmissionInv, ForwardInv, [AdmissionNext]_admissionVars
      PROVE  [Forward]_admissionVars
  <2>1. ASSUME NEW a \in Admitters, EndAdmission(a), request' # request PROVE Forward
    <3>1. /\ calls[a].pc = "admitted" /\ calls[a] # NoCall /\ Working(a)
          /\ request'.commit = calls[a].commit
      BY <2>1 DEF EndAdmission, NoCall, Working
    <3>2. CarriesForward(a) /\ calls[a].policy.stateful = policy.stateful
      BY <1>1, <3>1 DEF ForwardInv, StatefulStays
    <3> QED BY <3>1, <3>2 DEF CarriesForward
  <2>2. CASE SubmitLocal
    BY <2>2 DEF SubmitLocal
  <2>3. \/ request' = request \/ request' = NoRequest
        \/ \E a \in Admitters : EndAdmission(a)
        \/ SubmitLocal
    BY <1>1 DEF AdmissionNext, admissionVars, BeginAdmission, Admit, WriteAcceptance, GiveUp,
                BeginBootstrap, LookBootstrap, WriteBootstrap, AuthorizeDelivery, Trust,
                EnableDelivery, Refuse,
                FailConfigured, Accept, Reconcile, Tick
  <2> QED BY <2>1, <2>2, <2>3
<1> QED BY <1>1, AdmissionStarts, AdmissionGoesOn, ForwardStarts, ForwardGoesOn, PTL
        DEF AdmissionSpec, ForwardOnly

(***************************************************************************)
(* The previews (host/preview).                                            *)
(***************************************************************************)
Making == {"write", "database", "ingress", "compose", "route", "reload", "refused"}
TakingDown == {"stop", "drop", "unroute", "unload", "disconnect", "remove"}

(* What each record names, and each job has in hand. *)
JobShape ==
  /\ \A p \in RecordedPreviews : records[p].preview = p
  /\ job.pc \in Making => job.verb = "up" /\ job.new # NoPreview
  /\ job.pc \in Making \ {"write"} => records[job.new.preview] = job.new
  /\ job.pc \in TakingDown => job.old # NoPreview
  /\ job.pc = "reap" => job.verb \in {"gc", "trim"}
  /\ job.verb # "up" => job.new = NoPreview
  /\ job.verb # "gc" => job.left = {}
  /\ job.left \subseteq RecordedPreviews
  /\ job.old # NoPreview => job.old.preview \notin job.left
  /\ job.verb = "up" /\ job.new # NoPreview /\ job.pc \in TakingDown =>
       job.old.preview \in RecordedPreviews

ComingUp == job.verb = "up" /\ job.new # NoPreview
Others == RecordedPreviews \ {job.new.preview}

(* What up checked before its first change holds until its record is written, *)
(* and there is room for it once the eviction is through.                  *)
Admitted == ComingUp =>
  /\ \A q \in Others : records[q].port # job.new.port
  /\ \A q \in Others : ByPath(records[q].target) => records[q].target = job.new.target
  /\ job.new.preview \in RecordedPreviews =>
       ByPath(records[job.new.preview].target) = ByPath(job.new.target)
  /\ Reserved([records EXCEPT ![job.new.preview] = NoPreview]) + Reservation(job.new.kind)
       <= MemoryBudget
  /\ job.pc \in {"write", "idle database"} =>
       \/ job.new.preview \in RecordedPreviews
       \/ Cardinality(RecordedPreviews) < MaxPreviews

(* What is gone already of a preview that is being taken down. *)
Undone == job.pc \in TakingDown =>
  /\ job.pc # "stop" => running[job.old.preview] = "none"
  /\ job.pc \in {"unload", "disconnect", "remove"} =>
       route[job.old.preview] = {} \/ job.old.preview \in stale
  /\ job.pc = "unload" => job.old.preview \in RecordedPreviews \cup stale
  /\ job.pc = "remove" => "ingress" \notin networks[job.old.preview]

(* What is there already of a preview that is coming up. *)
Made ==
  /\ job.pc \in {"ingress", "compose", "route", "reload"} /\ HasDatabase(job.new) =>
       job.new.preview \in databases /\ server
  /\ job.pc \in {"route", "reload"} => running[job.new.preview] = job.new.kind
  /\ job.pc = "reload" =>
       /\ job.new.target \in route[job.new.preview]
       /\ ByPath(job.new.target) => site = job.new.target

(* The route files are of the routing that the record has, so that a job    *)
(* that has the record in hand removes, or puts back, all there are; but   *)
(* not after a preview was taken down by a record of the other routing.    *)
Files ==
  /\ \A p \in Previews \ stale : \A u \in route[p] :
       p \in RecordedPreviews /\ ByPath(u) = ByPath(records[p].target)
  /\ job.pc \in TakingDown /\ job.old.preview \in RecordedPreviews \ stale =>
       ByPath(records[job.old.preview].target) = ByPath(job.old.target)
  /\ job.pc = "reload" => \A u \in job.before[2] : ByPath(u) = ByPath(job.new.target)
  /\ job.pc = "unload" => \A u \in job.before[2] : ByPath(u) = ByPath(job.old.target)

(* A served preview is in nobody's hands, its route file is one of those    *)
(* loaded, and what may be put back is its site.                           *)
ServedAlone ==
  /\ job.pc \in Making \ {"write"} => job.new.preview \notin served
  /\ job.pc \in TakingDown => job.old.preview \notin served
  /\ \A p \in served : records[p].target \in route[p]
  /\ job.pc = "reload" /\ ByPath(job.new.target) =>
       \A p \in served : ByPath(records[p].target) => job.before[1] = records[p].target

PreviewInv ==
  /\ PreviewTypeOK /\ JobShape /\ Admitted /\ Undone /\ Made /\ Files /\ ServedAlone
  /\ CapacityRespected /\ EffectsRecorded /\ ServedStaysServed

Maybe(S) == S \cup {NoPreview}
Pcs == UpSteps \cup DownSteps \cup {"idle", "reap"}

(***************************************************************************)
(* The records and the order of their use.                                 *)
(***************************************************************************)
InOrder(order, S) ==
  /\ order \in Seq(Previews) /\ {order[i] : i \in DOMAIN order} = S
  /\ \A i, j \in DOMAIN order : order[i] = order[j] => i = j

(* Without preview p the order of use is that of the other records.         *)
LEMMA UnusedOrder ==
  ASSUME InOrder(byUse, RecordedPreviews), NEW p \in Previews
  PROVE  InOrder(Unused(p), RecordedPreviews \ {p})
<1>1. CASE p \notin RecordedPreviews
  BY <1>1 DEF Unused, InOrder
<1>2. CASE p \in RecordedPreviews
  <2> DEFINE at == CHOOSE i \in DOMAIN byUse : byUse[i] = p
             n == Len(byUse)
             less == [i \in 1..(n - 1) |-> byUse[IF i < at THEN i ELSE i + 1]]
  <2>1. byUse \in Seq(Previews) /\ DOMAIN byUse = 1..n /\ n \in Nat
    BY DEF InOrder
  <2>2. \E i \in DOMAIN byUse : byUse[i] = p
    BY <1>2 DEF InOrder
  <2>3. at \in 1..n /\ byUse[at] = p
    BY <2>1, <2>2
  <2>4. n - 1 \in Nat
    BY <2>1, <2>3
  <2> HIDE DEF at
  <2>5. \A i \in 1..(n - 1) : (IF i < at THEN i ELSE i + 1) \in 1..n
    BY <2>1, <2>3, <2>4
  <2>6. less \in [1..(n - 1) -> Previews]
    BY <2>1, <2>5
  <2>7. less \in Seq(Previews) /\ DOMAIN less = 1..(n - 1)
    BY <2>4, <2>6
  <2>8. ASSUME NEW i \in 1..(n - 1), NEW j \in 1..(n - 1), less[i] = less[j] PROVE i = j
    <3> DEFINE k == IF i < at THEN i ELSE i + 1
               l == IF j < at THEN j ELSE j + 1
    <3>1. k \in 1..n /\ l \in 1..n /\ byUse[k] = byUse[l]
      BY <2>5, <2>8
    <3>2. k = l
      BY <2>1, <3>1 DEF InOrder
    <3> QED BY <2>1, <2>3, <3>2
  <2>9. ASSUME NEW q PROVE q \in {less[i] : i \in 1..(n - 1)} <=> q \in RecordedPreviews \ {p}
    <3>1. ASSUME NEW i \in 1..(n - 1) PROVE less[i] \in RecordedPreviews \ {p}
      <4> DEFINE k == IF i < at THEN i ELSE i + 1
      <4>1. k \in 1..n /\ k # at /\ less[i] = byUse[k]
        BY <2>1, <2>3, <2>5
      <4> QED BY <2>1, <2>3, <4>1 DEF InOrder
    <3>2. ASSUME q \in RecordedPreviews \ {p} PROVE \E i \in 1..(n - 1) : q = less[i]
      <4>1. PICK k \in 1..n : byUse[k] = q
        BY <2>1, <3>2 DEF InOrder
      <4>2. k # at
        BY <2>3, <3>2, <4>1
      <4>3. CASE k < at
        BY <2>1, <2>3, <4>1, <4>3
      <4>4. CASE k > at
        <5>1. k - 1 \in 1..(n - 1) /\ ~(k - 1 < at) /\ (k - 1) + 1 = k
          BY <2>1, <2>3, <4>4
        <5> QED BY <4>1, <5>1
      <4> QED BY <2>1, <2>3, <4>2, <4>3, <4>4
    <3> QED BY <3>1, <3>2
  <2>10. Unused(p) = less
    BY <1>2 DEF Unused, at
  <2> HIDE DEF less
  <2> QED BY <2>7, <2>8, <2>9, <2>10 DEF InOrder
<1> QED BY <1>1, <1>2

(* A preview used now comes last. *)
LEMMA UsedOrder ==
  ASSUME NEW order, NEW S, InOrder(order, S), NEW p \in Previews \ S
  PROVE  InOrder(Append(order, p), S \cup {p})
<1> DEFINE n == Len(order)  more == Append(order, p)
<1>1. n \in Nat /\ DOMAIN order = 1..n /\ order \in Seq(Previews)
  BY DEF InOrder
<1>2. more \in Seq(Previews) /\ DOMAIN more = 1..(n + 1)
  BY <1>1
<1>3. \A i \in 1..(n + 1) : more[i] = IF i <= n THEN order[i] ELSE p
  BY <1>1
<1> HIDE DEF more
<1>4. \A i, j \in 1..(n + 1) : more[i] = more[j] => i = j
  BY <1>1, <1>3 DEF InOrder
<1>5. {more[i] : i \in 1..(n + 1)} = S \cup {p}
  BY <1>1, <1>3 DEF InOrder
<1> QED BY <1>2, <1>4, <1>5 DEF InOrder, more

(* The recorded previews are finitely many. *)
LEMMA OrderIsFinite ==
  ASSUME NEW order, NEW S, InOrder(order, S)
  PROVE  IsFiniteSet(S)
<1> DEFINE n == Len(order)
<1>1. n \in Nat /\ DOMAIN order = 1..n
  BY DEF InOrder
<1>2. IsFiniteSet(1..n)
  BY <1>1, FS_Interval
<1>3. {order[i] : i \in 1..n} = S
  BY <1>1 DEF InOrder
<1>4. order \in Surjection(1..n, S)
  BY <1>1, <1>3 DEF InOrder, Surjection
<1> QED BY <1>2, <1>4, FS_Surjection

(***************************************************************************)
(* What the recorded previews reserve.                                     *)
(***************************************************************************)
Inventory == [Previews -> Maybe(PreviewRecord)]
RecordedIn(recs) == {p \in Previews : recs[p] # NoPreview}
Limits(recs) == {limit \in Previews \X (1..2) :
                   recs[limit[1]] # NoPreview /\ limit[2] <= Reservation(recs[limit[1]].kind)}

(* Finitely many records reserve a number of limits. *)
LEMMA LimitsAreFinite ==
  ASSUME NEW recs \in Inventory, IsFiniteSet(RecordedIn(recs))
  PROVE  IsFiniteSet(Limits(recs)) /\ Reserved(recs) = Cardinality(Limits(recs))
         /\ Reserved(recs) \in Nat
<1>1. IsFiniteSet(1..2)
  <2>1. 1 \in Int /\ 2 \in Int
    OBVIOUS
  <2> QED BY <2>1, FS_Interval
<1>2. IsFiniteSet(RecordedIn(recs) \X (1..2))
  BY <1>1, FS_Product
<1>3. Limits(recs) \subseteq RecordedIn(recs) \X (1..2)
  BY DEF Limits, RecordedIn
<1>4. IsFiniteSet(Limits(recs))
  BY <1>2, <1>3, FS_Subset
<1>5. Reserved(recs) = Cardinality(Limits(recs))
  BY DEF Reserved, Limits
<1> QED BY <1>4, <1>5, FS_CardinalityType

(* Fewer records reserve no more. *)
LEMMA FewerReserveLess ==
  ASSUME NEW recs \in Inventory, NEW fewer \in Inventory, IsFiniteSet(RecordedIn(recs)),
         \A p \in Previews : fewer[p] \in {recs[p], NoPreview}
  PROVE  Reserved(fewer) <= Reserved(recs) /\ Reserved(fewer) \in Nat
<1>1. RecordedIn(fewer) \subseteq RecordedIn(recs)
  BY DEF RecordedIn
<1>2. IsFiniteSet(RecordedIn(fewer))
  BY <1>1, FS_Subset
<1>3. Limits(fewer) \subseteq Limits(recs)
  BY DEF Limits
<1> QED BY <1>2, <1>3, LimitsAreFinite, FS_Subset

(* A record adds what its kind reserves. *)
LEMMA RecordReserves ==
  ASSUME NEW recs \in Inventory, IsFiniteSet(RecordedIn(recs)), NEW p \in Previews,
         NEW r \in PreviewRecord, r # NoPreview
  PROVE  Reserved([recs EXCEPT ![p] = r])
           = Reserved([recs EXCEPT ![p] = NoPreview]) + Reservation(r.kind)
<1> DEFINE less == [recs EXCEPT ![p] = NoPreview]
           more == [recs EXCEPT ![p] = r]
           n == Reservation(r.kind)
           added == {p} \X (1..n)
<1>1. less \in Inventory /\ more \in Inventory
  BY DEF Inventory, Maybe
<1>2. less[p] = NoPreview /\ more[p] = r
      /\ \A q \in Previews \ {p} : less[q] = recs[q] /\ more[q] = recs[q]
  BY DEF Inventory
<1>3. n \in {1, 2}
  BY DEF Reservation
<1> HIDE DEF less, more, n
<1>4. IsFiniteSet(RecordedIn(less)) /\ IsFiniteSet(RecordedIn(more))
  <2>1. RecordedIn(less) \subseteq RecordedIn(recs)
    BY <1>2 DEF RecordedIn
  <2>2. RecordedIn(more) \subseteq RecordedIn(recs) \cup {p}
    BY <1>2 DEF RecordedIn
  <2>3. IsFiniteSet(RecordedIn(recs) \cup {p})
    BY FS_AddElement
  <2> QED BY <2>1, <2>2, <2>3, FS_Subset
<1>5. Limits(more) = Limits(less) \cup added
  <2>1. ASSUME NEW limit \in Previews \X (1..2)
        PROVE  limit \in Limits(more) <=> limit \in Limits(less) \cup added
    <3>1. PICK q \in Previews, k \in 1..2 : limit = <<q, k>>
      OBVIOUS
    <3>2. limit[1] = q /\ limit[2] = k
      BY <3>1
    <3>3. limit \in added <=> q = p /\ k <= n
      BY <1>3, <3>1
    <3>4. limit \in Limits(more) <=> more[q] # NoPreview /\ k <= Reservation(more[q].kind)
      BY <3>2 DEF Limits
    <3>5. limit \in Limits(less) <=> less[q] # NoPreview /\ k <= Reservation(less[q].kind)
      BY <3>2 DEF Limits
    <3> HIDE DEF added
    <3>6. CASE q = p
      BY <1>2, <3>3, <3>4, <3>5, <3>6 DEF n
    <3>7. CASE q # p
      BY <1>2, <3>3, <3>4, <3>5, <3>7
    <3> QED BY <3>6, <3>7
  <2>2. Limits(more) \subseteq Previews \X (1..2) /\ Limits(less) \subseteq Previews \X (1..2)
        /\ added \subseteq Previews \X (1..2)
    BY <1>3 DEF Limits
  <2> QED BY <2>1, <2>2
<1>6. Limits(less) \cap added = {}
  BY <1>2 DEF Limits
<1>7. IsFiniteSet(added) /\ Cardinality(added) = n
  <2>1. IsFiniteSet({p}) /\ Cardinality({p}) = 1
    BY FS_Singleton
  <2>2. IsFiniteSet(1..n) /\ Cardinality(1..n) = n
    BY <1>3, FS_Interval
  <2>3. IsFiniteSet(added) /\ Cardinality(added) = Cardinality({p}) * Cardinality(1..n)
    BY <2>1, <2>2, FS_Product
  <2>4. Cardinality({p}) * Cardinality(1..n) = n
    BY <1>3, <2>1, <2>2
  <2> HIDE DEF added
  <2> QED BY <2>3, <2>4
<1>8. Cardinality(Limits(more)) = Cardinality(Limits(less)) + n
  <2>1. Cardinality(Limits(less) \cap added) = 0
    BY <1>6, FS_EmptySet
  <2>2. IsFiniteSet(Limits(less)) /\ Cardinality(Limits(less)) \in Nat
    BY <1>1, <1>4, LimitsAreFinite, FS_CardinalityType
  <2> HIDE DEF added
  <2> QED BY <1>3, <1>5, <1>7, <2>1, <2>2, FS_Union
<1> QED BY <1>1, <1>4, <1>8, LimitsAreFinite DEF n, less, more

(***************************************************************************)
(* Steps of a job.                                                         *)
(***************************************************************************)
(* Where a job goes next, and what else its steps note. *)
LEMMA JobFields ==
  ASSUME NEW j \in Jobs, NEW to \in Pcs
  PROVE  LET k == [j EXCEPT !.pc = to]
         IN  /\ k \in Jobs /\ k.pc = to /\ k.verb = j.verb /\ k.new = j.new /\ k.old = j.old
             /\ k.left = j.left /\ k.before = j.before
<1> QED BY DEF Jobs, Pcs

(* Nobody holds the lock. *)
LEMMA NoJobIsOne ==
  /\ NoJob \in Jobs /\ NoJob.verb = "none" /\ NoJob.pc = "idle" /\ NoJob.new = NoPreview
  /\ NoJob.old = NoPreview /\ NoJob.left = {} /\ NoJob.before = <<NoTarget, {}>>
<1> QED BY DEF Jobs, NoJob

(* The type invariant, in parts. *)
StoresOK ==
  /\ records \in Inventory /\ InOrder(byUse, RecordedPreviews)
  /\ expired \subseteq RecordedPreviews /\ composed \subseteq Previews
EffectsOK ==
  /\ running \in [Previews -> Kinds \cup {"none"}]
  /\ databases \subseteq Previews
  /\ networks \in [Previews -> SUBSET {"ingress", "backend"}]
  /\ route \in [Previews -> SUBSET Targets] /\ loaded \in [Previews -> SUBSET Targets]
  /\ site \in PathTargets \cup {NoTarget} /\ server \in BOOLEAN
RestOK ==
  /\ knob \in [target : Targets, max : {MaxPreviews, MaxPreviews - 1}]
  /\ looked \in Maybe(PreviewRecord) /\ job \in Jobs
  /\ served \subseteq Previews /\ stale \subseteq Previews /\ trouble \in 0..MaxTrouble

LEMMA TypeParts == PreviewTypeOK <=> StoresOK /\ EffectsOK /\ RestOK
<1> QED BY DEF PreviewTypeOK, StoresOK, EffectsOK, RestOK, Inventory, Maybe, InOrder

(* A record is of a preview, with a kind and a target. *)
LEMMA RecordShape ==
  /\ \A r \in PreviewRecord : /\ r # NoPreview /\ r.preview \in Previews /\ r.kind \in Kinds
                              /\ r.target \in Targets /\ r.target # NoTarget
                              /\ r.kind # "none"
  /\ StoresOK => \A p \in RecordedPreviews : p \in Previews /\ records[p] \in PreviewRecord
  /\ RestOK => /\ job.new # NoPreview => job.new \in PreviewRecord
               /\ job.old # NoPreview => job.old \in PreviewRecord
<1>1. RestOK => job.new \in Maybe(PreviewRecord) /\ job.old \in Maybe(PreviewRecord)
  BY DEF RestOK, Jobs, Maybe
<1>2. \A r \in PreviewRecord : /\ r.preview \in Previews /\ r.kind \in Kinds
                              /\ r.target \in Targets /\ r.kind # "none"
  BY DEF PreviewRecord, Kinds
<1>3. StoresOK => \A p \in RecordedPreviews : p \in Previews /\ records[p] \in PreviewRecord
  BY DEF StoresOK, RecordedPreviews, Inventory, Maybe
<1> QED BY <1>1, <1>2, <1>3, PreviewAssumption DEF PreviewAssumption, Maybe

(* A step that leaves the records alone leaves the capacity alone, and what  *)
(* up checked.                                                             *)
LEMMA RecordsStay ==
  ASSUME PreviewInv, UNCHANGED <<records, byUse, expired>>, composed' \subseteq Previews,
         job' \in Jobs,
         (job'.verb = "up" /\ job'.new # NoPreview) =>
           /\ ComingUp /\ job'.new = job.new
           /\ job'.pc \in {"write", "idle database"} => job.pc \in {"write", "idle database"}
  PROVE  /\ RecordedPreviews' = RecordedPreviews /\ StoresOK'
         /\ CapacityRespected' /\ Admitted'
<1>1. RecordedPreviews' = RecordedPreviews
  BY DEF RecordedPreviews
<1>2. StoresOK'
  BY <1>1, TypeParts DEF PreviewInv, StoresOK, InOrder
<1>3. CapacityRespected'
  BY <1>1 DEF PreviewInv, CapacityRespected, Reserved
<1>4. Admitted'
  BY <1>1 DEF PreviewInv, Admitted, ComingUp, Others, Reserved
<1> QED BY <1>1, <1>2, <1>3, <1>4

(* A job goes on, what it has in hand staying the same. *)
LEMMA GoesOn ==
  ASSUME PreviewInv, UNCHANGED <<records, byUse, expired>>, composed' \subseteq Previews,
         job' \in Jobs, job'.verb = job.verb, job'.new = job.new, job'.old = job.old,
         job'.left = job.left,
         \/ job.pc \in Making \ {"write"} /\ job'.pc \in Making \ {"write"}
         \/ job.pc \in TakingDown /\ job'.pc \in TakingDown
  PROVE  /\ RecordedPreviews' = RecordedPreviews /\ StoresOK'
         /\ CapacityRespected' /\ Admitted' /\ JobShape'
<1>1. job'.pc \notin {"write", "idle database"}
  BY DEF Making, TakingDown
<1>2. RecordedPreviews' = RecordedPreviews /\ StoresOK' /\ CapacityRespected' /\ Admitted'
  BY <1>1, RecordsStay DEF ComingUp
<1>3. JobShape'
  BY <1>2 DEF PreviewInv, JobShape, Making, TakingDown
<1> QED BY <1>2, <1>3

(* The type invariant of the next state, from its parts. *)
LEMMA TypeThen ==
  ASSUME StoresOK', EffectsOK', RestOK' PROVE PreviewTypeOK'
<1> QED BY DEF PreviewTypeOK, StoresOK, EffectsOK, RestOK, Inventory, Maybe, InOrder

(* What a state of the invariant has in hand. *)
LEMMA InHand ==
  ASSUME PreviewInv
  PROVE  /\ StoresOK /\ EffectsOK /\ RestOK
         /\ job \in Jobs
         /\ job.pc \in Making => job.new \in PreviewRecord /\ job.new.preview \in Previews
         /\ job.pc \in Making \ {"write"} =>
              /\ records[job.new.preview] = job.new /\ job.new.preview \in RecordedPreviews
              /\ job.new.preview \notin served
         /\ job.pc \in TakingDown =>
              /\ job.old \in PreviewRecord /\ job.old.preview \in Previews
              /\ job.old.preview \notin served
         /\ \A p \in served : p \in RecordedPreviews /\ p \in Previews
                              /\ records[p] \in PreviewRecord
<1>1. StoresOK /\ EffectsOK /\ RestOK /\ job \in Jobs
  BY TypeParts DEF PreviewInv, RestOK
<1>2. job.pc \in Making => job.new \in PreviewRecord /\ job.new.preview \in Previews
  BY <1>1, RecordShape DEF PreviewInv, JobShape
<1>3. job.pc \in TakingDown => /\ job.old \in PreviewRecord /\ job.old.preview \in Previews
                              /\ job.old.preview \notin served
  BY <1>1, RecordShape DEF PreviewInv, JobShape, ServedAlone
<1>4. job.pc \in Making \ {"write"} =>
              /\ records[job.new.preview] = job.new /\ job.new.preview \in RecordedPreviews
              /\ job.new.preview \notin served
  BY <1>2, RecordShape DEF PreviewInv, JobShape, ServedAlone, RecordedPreviews
<1>5. \A p \in served : p \in RecordedPreviews /\ p \in Previews /\ records[p] \in PreviewRecord
  BY <1>1, RecordShape DEF PreviewInv, ServedStaysServed
<1> QED BY <1>1, <1>2, <1>3, <1>4, <1>5

(* A step that touches no record and no route file, of a job that has the   *)
(* same record in hand or none.                                            *)
LEMMA FilesStay ==
  ASSUME PreviewInv, UNCHANGED <<records, route, stale>>,
         job'.pc \notin {"reload", "unload"},
         job'.pc \in TakingDown => job.pc \in TakingDown /\ job'.old = job.old
  PROVE  Files'
  BY DEF PreviewInv, Files, RecordedPreviews

(***************************************************************************)
(* The steps that make a preview.                                          *)
(***************************************************************************)
LEMMA PrepareDatabaseOK ==
  ASSUME PreviewInv, PrepareDatabase PROVE PreviewInv'
<1> DEFINE p == job.new.preview
<1>1. job.pc = "database" /\ job.pc \in Making \ {"write"} /\ job' = [job EXCEPT !.pc = "ingress"]
  BY DEF PrepareDatabase, JobMoves, Making
<1>2. /\ job' \in Jobs /\ job'.pc = "ingress" /\ job'.verb = job.verb /\ job'.new = job.new
      /\ job'.old = job.old /\ job'.left = job.left
  BY <1>1, InHand, JobFields DEF Pcs, UpSteps
<1>3. UNCHANGED <<stores, running, route, site, loaded, knob, looked, served, stale, trouble>>
  BY DEF PrepareDatabase
<1>4. /\ RecordedPreviews' = RecordedPreviews /\ StoresOK'
      /\ CapacityRespected' /\ Admitted' /\ JobShape'
  BY <1>1, <1>2, <1>3, GoesOn, InHand DEF stores, Making, StoresOK
<1>5. /\ HasDatabase(job.new) => server' = TRUE /\ databases' = databases \cup {p}
      /\ databases \subseteq databases' /\ (server => server')
      /\ \A q \in Previews : "ingress" \in networks'[q] <=> "ingress" \in networks[q]
  BY <1>1, InHand DEF PrepareDatabase, EffectsOK
<1>6. EffectsOK' /\ RestOK'
  <2>1. EffectsOK /\ RestOK /\ p \in Previews
    BY <1>1, InHand
  <2>2. databases' \subseteq Previews /\ server' \in BOOLEAN
    BY <1>3, <2>1 DEF PrepareDatabase, EffectsOK
  <2>3. networks' \in [Previews -> SUBSET {"ingress", "backend"}]
    BY <1>3, <2>1 DEF PrepareDatabase, EffectsOK
  <2> QED BY <1>2, <1>3, <2>1, <2>2, <2>3 DEF EffectsOK, RestOK
<1>7. Undone' /\ Made'
  BY <1>2, <1>5, InHand, <1>3 DEF Undone, Made, TakingDown
<1>8. ServedAlone'
  BY <1>1, <1>2, <1>3, InHand DEF stores, PreviewInv, ServedAlone, TakingDown
<1>9. EffectsRecorded'
  BY <1>3, <1>4, <1>5 DEF PreviewInv, EffectsRecorded
<1>10. ServedStaysServed'
  BY <1>3, <1>4, <1>5 DEF stores, PreviewInv, ServedStaysServed
<1>11. Files'
  BY <1>2, <1>3, FilesStay DEF stores, TakingDown
<1> QED BY <1>4, <1>6, <1>7, <1>8, <1>9, <1>10, <1>11, TypeThen DEF PreviewInv

(* The network is attached to a preview that has its record. *)
LEMMA EnsureIngressOK ==
  ASSUME PreviewInv, EnsureIngress PROVE PreviewInv'
<1> DEFINE p == job.new.preview
<1>1. job.pc = "ingress" /\ job.pc \in Making \ {"write"} /\ job' = [job EXCEPT !.pc = "compose"]
  BY DEF EnsureIngress, JobMoves, Making
<1>2. /\ job' \in Jobs /\ job'.pc = "compose" /\ job'.verb = job.verb /\ job'.new = job.new
      /\ job'.old = job.old /\ job'.left = job.left
  BY <1>1, InHand, JobFields DEF Pcs, UpSteps
<1>3. /\ UNCHANGED <<stores, running, databases, route, site, loaded, server, knob, looked>>
      /\ UNCHANGED <<served, stale, trouble>>
  BY DEF EnsureIngress
<1>4. /\ RecordedPreviews' = RecordedPreviews /\ StoresOK'
      /\ CapacityRespected' /\ Admitted' /\ JobShape'
  BY <1>1, <1>2, <1>3, GoesOn, InHand DEF stores, Making, StoresOK
<1>5. \A q \in Previews \ {p} : networks'[q] = networks[q]
  BY <1>1, InHand DEF EnsureIngress, EffectsOK
<1>6. EffectsOK' /\ RestOK'
  <2>1. EffectsOK /\ RestOK /\ p \in Previews
    BY <1>1, InHand
  <2>2. networks' \in [Previews -> SUBSET {"ingress", "backend"}]
    BY <1>3, <2>1 DEF EnsureIngress, EffectsOK
  <2> QED BY <1>2, <1>3, <2>1, <2>2 DEF EffectsOK, RestOK
<1>7. Undone' /\ Made'
  BY <1>1, <1>2, <1>3 DEF PreviewInv, Undone, Made, TakingDown
<1>8. ServedAlone'
  BY <1>1, <1>2, <1>3, InHand DEF stores, PreviewInv, ServedAlone, TakingDown
<1>9. EffectsRecorded'
  BY <1>1, <1>3, <1>4, <1>5, InHand DEF PreviewInv, EffectsRecorded
<1>10. ServedStaysServed'
  BY <1>3, <1>4 DEF stores, PreviewInv, ServedStaysServed
<1>11. Files'
  BY <1>2, <1>3, FilesStay DEF stores, TakingDown
<1> QED BY <1>4, <1>6, <1>7, <1>8, <1>9, <1>10, <1>11, TypeThen DEF PreviewInv

(* Containers are started of a preview that has its record. *)
LEMMA ComposeUpOK ==
  ASSUME PreviewInv, ComposeUp PROVE PreviewInv'
<1> DEFINE p == job.new.preview
<1>1. job.pc = "compose" /\ job.pc \in Making \ {"write"} /\ job' = [job EXCEPT !.pc = "route"]
  BY DEF ComposeUp, JobMoves, Making
<1>2. /\ job' \in Jobs /\ job'.pc = "route" /\ job'.verb = job.verb /\ job'.new = job.new
      /\ job'.old = job.old /\ job'.left = job.left
  BY <1>1, InHand, JobFields DEF Pcs, UpSteps
<1>3. /\ UNCHANGED <<records, byUse, expired, databases, networks, route, site, loaded>>
      /\ UNCHANGED <<server, knob, looked, served, stale, trouble>>
      /\ composed' = composed \cup {p}
  BY DEF ComposeUp
<1>4. /\ RecordedPreviews' = RecordedPreviews /\ StoresOK'
      /\ CapacityRespected' /\ Admitted' /\ JobShape'
  <2>1. composed' \subseteq Previews
    BY <1>1, <1>3, InHand DEF StoresOK
  <2> QED BY <1>1, <1>2, <1>3, <2>1, GoesOn DEF Making
<1>5. running'[p] = job.new.kind /\ \A q \in Previews \ {p} : running'[q] = running[q]
  BY <1>1, InHand DEF ComposeUp, EffectsOK
<1>6. EffectsOK' /\ RestOK'
  <2>1. EffectsOK /\ RestOK /\ p \in Previews /\ job.new.kind \in Kinds
    BY <1>1, InHand, RecordShape
  <2>2. running' \in [Previews -> Kinds \cup {"none"}]
    BY <1>3, <2>1 DEF ComposeUp, EffectsOK
  <2> QED BY <1>2, <1>3, <2>1, <2>2 DEF EffectsOK, RestOK
<1>7. Undone' /\ Made'
  BY <1>1, <1>2, <1>3, <1>5 DEF PreviewInv, Undone, Made, TakingDown
<1>8. ServedAlone'
  BY <1>1, <1>2, <1>3, InHand DEF PreviewInv, ServedAlone, TakingDown
<1>9. EffectsRecorded'
  BY <1>1, <1>3, <1>4, <1>5, InHand DEF PreviewInv, EffectsRecorded
<1>10. ServedStaysServed'
  BY <1>1, <1>3, <1>4, <1>5, InHand DEF PreviewInv, ServedStaysServed
<1>11. Files'
  BY <1>2, <1>3, FilesStay DEF stores, TakingDown
<1> QED BY <1>4, <1>6, <1>7, <1>8, <1>9, <1>10, <1>11, TypeThen DEF PreviewInv

(* A job that fails keeps its record, and goes on to take down what it made. *)
LEMMA UpFailsOK ==
  ASSUME PreviewInv, UpFails PROVE PreviewInv'
<1>1. job.pc \in Making \ {"write"} /\ job' = [job EXCEPT !.pc = "refused"]
  BY DEF UpFails, Making
<1>2. /\ job' \in Jobs /\ job'.pc = "refused" /\ job'.verb = job.verb /\ job'.new = job.new
      /\ job'.old = job.old /\ job'.left = job.left
  BY <1>1, InHand, JobFields DEF Pcs, UpSteps
<1>3. UNCHANGED <<stores, effects, knob, looked, served, stale>>
  BY DEF UpFails
<1>4. /\ RecordedPreviews' = RecordedPreviews /\ StoresOK'
      /\ CapacityRespected' /\ Admitted' /\ JobShape'
  BY <1>1, <1>2, <1>3, GoesOn, InHand DEF stores, Making, StoresOK
<1>5. EffectsOK' /\ RestOK'
  <2>1. trouble' \in 0..MaxTrouble
    BY InHand, PreviewAssumption DEF UpFails, RestOK, PreviewAssumption
  <2> QED BY <1>2, <1>3, <2>1, InHand DEF effects, EffectsOK, RestOK
<1>6. Undone' /\ Made'
  BY <1>2 DEF Undone, Made, TakingDown
<1>7. ServedAlone'
  BY <1>1, <1>2, <1>3, InHand DEF stores, effects, PreviewInv, ServedAlone, TakingDown
<1>8. EffectsRecorded' /\ ServedStaysServed'
  BY <1>3, <1>4 DEF stores, effects, PreviewInv, EffectsRecorded, ServedStaysServed
<1>9. Files'
  BY <1>2, <1>3, FilesStay DEF stores, effects, TakingDown
<1> QED BY <1>4, <1>5, <1>6, <1>7, <1>8, <1>9, TypeThen DEF PreviewInv

(* A new site is the one of every served path preview: up has compared them. *)
LEMMA WriteRouteOK ==
  ASSUME PreviewInv, WriteRoute PROVE PreviewInv'
<1> DEFINE p == job.new.preview  t == job.new.target
<1>1. /\ job.pc = "route" /\ job.pc \in Making \ {"write"}
      /\ p \in Previews /\ t \in Targets /\ job.new \in PreviewRecord
      /\ p \in RecordedPreviews /\ records[p] = job.new /\ p \notin served
  BY InHand, RecordShape DEF WriteRoute, Making
<1>2. /\ UNCHANGED <<stores, running, databases, networks, loaded, server, knob, looked>>
      /\ UNCHANGED <<served, stale, trouble>>
  BY DEF WriteRoute
<1>3. StoresOK /\ EffectsOK /\ RestOK
  BY InHand
<1>4. CASE ByPath(t) /\ site \notin {NoTarget, t} /\
               /\ \E q \in Previews \ {p} : \E u \in route[q] : ByPath(u)
  <2>1. job' = [job EXCEPT !.pc = "refused"] /\ UNCHANGED <<site, route>>
    BY <1>4 DEF WriteRoute
  <2>2. /\ job' \in Jobs /\ job'.pc = "refused" /\ job'.verb = job.verb /\ job'.new = job.new
        /\ job'.old = job.old /\ job'.left = job.left
    BY <2>1, InHand, JobFields DEF Pcs, UpSteps
  <2>3. /\ RecordedPreviews' = RecordedPreviews /\ StoresOK'
        /\ CapacityRespected' /\ Admitted' /\ JobShape'
    BY <1>1, <1>2, <1>3, <2>2, GoesOn DEF stores, Making, StoresOK
  <2>4. EffectsOK' /\ RestOK'
    BY <1>2, <1>3, <2>1, <2>2 DEF EffectsOK, RestOK
  <2>5. Undone' /\ Made'
    BY <2>2 DEF Undone, Made, TakingDown
  <2>6. ServedAlone' /\ EffectsRecorded' /\ ServedStaysServed'
    BY <1>1, <1>2, <2>1, <2>2, <2>3
    DEF stores, PreviewInv, ServedAlone, TakingDown, EffectsRecorded, ServedStaysServed
  <2>7. Files'
    BY <1>2, <2>1, <2>2, FilesStay DEF stores, TakingDown
  <2> QED BY <2>3, <2>4, <2>5, <2>6, <2>7, TypeThen DEF PreviewInv
<1>5. CASE ~(/\ ByPath(t) /\ site \notin {NoTarget, t}
             /\ \E q \in Previews \ {p} : \E u \in route[q] : ByPath(u))
  <2> DEFINE file == FileOf(route[p], t)
  <2>1. /\ job' = [job EXCEPT !.pc = "reload", !.before = <<site, file>>]
        /\ site' = IF ByPath(t) THEN t ELSE site
        /\ route' = [route EXCEPT ![p] = (@ \ FileOf(@, t)) \cup {t}]
    BY <1>5 DEF WriteRoute
  <2>2. /\ job' \in Jobs /\ job'.pc = "reload" /\ job'.verb = job.verb /\ job'.new = job.new
        /\ job'.old = job.old /\ job'.left = job.left /\ job'.before = <<site, file>>
    <3>1. <<site, file>> \in (PathTargets \cup {NoTarget}) \X SUBSET Targets
      BY <1>1, <1>3 DEF EffectsOK, FileOf
    <3> HIDE DEF file
    <3> QED BY <2>1, <3>1, InHand DEF Jobs, UpSteps
  <2>3. /\ RecordedPreviews' = RecordedPreviews /\ StoresOK'
        /\ CapacityRespected' /\ Admitted' /\ JobShape'
    BY <1>1, <1>2, <1>3, <2>2, GoesOn DEF stores, Making, StoresOK
  <2>4. /\ route'[p] = (route[p] \ file) \cup {t}
       /\ \A q \in Previews \ {p} : route'[q] = route[q]
    BY <1>1, <1>3, <2>1 DEF EffectsOK
  <2>5. EffectsOK' /\ RestOK'
    <3>1. site' \in PathTargets \cup {NoTarget}
      BY <1>3, <2>1 DEF EffectsOK, ByPath
    <3>2. route' \in [Previews -> SUBSET Targets]
      BY <1>1, <1>3, <2>1 DEF EffectsOK
    <3> QED BY <1>2, <1>3, <2>2, <3>1, <3>2 DEF EffectsOK, RestOK
  <2>6. Undone' /\ Made'
    BY <1>1, <1>2, <2>1, <2>2, <2>4 DEF PreviewInv, Undone, Made, TakingDown
  <2>7. \A q \in served : /\ q # p /\ q \in RecordedPreviews /\ q \in Previews
                          /\ records[q].target \in route[q]
                          /\ ByPath(records[q].target) => site = records[q].target
    BY <1>1, InHand DEF PreviewInv, ServedAlone, ServedStaysServed
  <2>8. \A q \in served : ByPath(records[q].target) => site' = records[q].target
    BY <1>1, <2>1, <2>7 DEF PreviewInv, Admitted, ComingUp, Others, JobShape, Making
  <2>9. job'.before[1] = site
    BY <2>2
  <2>10. ServedAlone'
    BY <1>1, <1>2, <2>2, <2>4, <2>7, <2>9 DEF stores, ServedAlone, TakingDown
  <2>11. EffectsRecorded'
    BY <1>1, <1>2, <2>3, <2>4 DEF PreviewInv, EffectsRecorded
  <2>12. ServedStaysServed'
    BY <1>2, <2>3, <2>7, <2>8 DEF stores, PreviewInv, ServedStaysServed
  <2>13. Files'
    BY <1>1, <1>2, <2>2, <2>3, <2>4
    DEF stores, PreviewInv, Files, RecordedPreviews, TakingDown, FileOf
  <2> QED BY <2>3, <2>5, <2>6, <2>10, <2>11, <2>12, <2>13, TypeThen DEF PreviewInv
<1> QED BY <1>4, <1>5

(* What a rejected route puts back is what served before it. *)
LEMMA RouteFailsOK ==
  ASSUME PreviewInv, RouteFails PROVE PreviewInv'
<1> DEFINE p == job.new.preview  t == job.new.target
<1>1. /\ job.pc = "reload" /\ job.pc \in Making \ {"write"}
      /\ p \in Previews /\ t \in Targets /\ job.new \in PreviewRecord
      /\ p \in RecordedPreviews /\ records[p] = job.new /\ p \notin served
  BY InHand, RecordShape DEF RouteFails, Making
<1>2. /\ UNCHANGED <<stores, running, databases, networks, loaded, server, knob, looked,
                     served, stale>>
      /\ job' = [job EXCEPT !.pc = "refused", !.before = NoJob.before]
  BY DEF RouteFails
<1>3. StoresOK /\ EffectsOK /\ RestOK
  BY InHand
<1>4. PICK rejected \in BOOLEAN : PutBack(rejected)
  BY DEF RouteFails
<1>5. /\ job' \in Jobs /\ job'.pc = "refused" /\ job'.verb = job.verb /\ job'.new = job.new
      /\ job'.old = job.old /\ job'.left = job.left
  BY <1>2, InHand, NoJobIsOne DEF Jobs, UpSteps
<1>6. /\ RecordedPreviews' = RecordedPreviews /\ StoresOK'
      /\ CapacityRespected' /\ Admitted' /\ JobShape'
  BY <1>1, <1>2, <1>3, <1>5, GoesOn DEF stores, Making, StoresOK
<1>7. /\ job.before[1] \in PathTargets \cup {NoTarget}
      /\ job.before[2] \subseteq Targets
  BY InHand DEF Jobs
<1>8. EffectsOK' /\ RestOK'
  <2>1. site' \in PathTargets \cup {NoTarget}
    BY <1>3, <1>4, <1>7 DEF PutBack, EffectsOK
  <2>2. route' \in [Previews -> SUBSET Targets]
    BY <1>1, <1>3, <1>4, <1>7 DEF PutBack, RouteBefore, EffectsOK
  <2>3. trouble' \in 0..MaxTrouble
    BY <1>3, PreviewAssumption DEF RouteFails, RestOK, PreviewAssumption
  <2> QED BY <1>2, <1>3, <1>5, <2>1, <2>2, <2>3 DEF EffectsOK, RestOK
<1>9. /\ \A q \in Previews \ {p} : route'[q] = route[q]
      /\ route'[p] \subseteq route[p] \cup job.before[2]
  BY <1>1, <1>3, <1>4 DEF PutBack, RouteBefore, EffectsOK
<1>10. Undone' /\ Made'
  BY <1>5 DEF Undone, Made, TakingDown
<1>11. \A q \in served : /\ q # p /\ q \in RecordedPreviews /\ q \in Previews
                         /\ ByPath(records[q].target) => site' = records[q].target
  <2>1. \A q \in served : /\ q # p /\ q \in RecordedPreviews /\ q \in Previews
                          /\ ByPath(records[q].target) => site = records[q].target
                          /\ ByPath(t) /\ ByPath(records[q].target) =>
                               job.before[1] = records[q].target
    BY <1>1, InHand DEF PreviewInv, ServedAlone, ServedStaysServed
  <2> QED BY <1>4, <2>1 DEF PutBack
<1>12. ServedAlone'
  BY <1>1, <1>2, <1>5, <1>9, <1>11 DEF stores, PreviewInv, ServedAlone, TakingDown
<1>13. EffectsRecorded'
  BY <1>1, <1>2, <1>6, <1>9 DEF PreviewInv, EffectsRecorded
<1>14. ServedStaysServed'
  BY <1>2, <1>6, <1>11 DEF stores, PreviewInv, ServedStaysServed
<1>15. Files'
  BY <1>1, <1>2, <1>5, <1>6, <1>9
     DEF stores, PreviewInv, Files, RecordedPreviews, TakingDown
<1> QED BY <1>6, <1>8, <1>10, <1>12, <1>13, <1>14, <1>15, TypeThen DEF PreviewInv

(* What was made is taken down by its record. *)
LEMMA CleanUpOK ==
  ASSUME PreviewInv, CleanUp PROVE PreviewInv'
<1>1. /\ job.pc = "refused" /\ job.new \in PreviewRecord /\ job.new # NoPreview
      /\ job.new.preview \in RecordedPreviews /\ job.new.preview \notin served
      /\ job.verb = "up" /\ job.left = {}
  BY InHand, RecordShape DEF CleanUp, Making, PreviewInv, JobShape
<1>2. /\ job' = [job EXCEPT !.pc = "stop", !.old = job.new, !.new = NoPreview]
      /\ UNCHANGED <<stores, effects, knob, looked, served, stale, trouble>>
  BY DEF CleanUp
<1>3. /\ job' \in Jobs /\ job'.pc = "stop" /\ job'.verb = job.verb /\ job'.new = NoPreview
      /\ job'.old = job.new /\ job'.left = job.left
  BY <1>1, <1>2, InHand DEF Jobs, DownSteps
<1>4. /\ RecordedPreviews' = RecordedPreviews /\ StoresOK' /\ CapacityRespected' /\ Admitted'
  BY <1>2, <1>3, InHand, RecordsStay DEF stores, StoresOK
<1>5. JobShape'
  BY <1>1, <1>2, <1>3, <1>4 DEF stores, PreviewInv, JobShape, Making, TakingDown
<1>6. EffectsOK' /\ RestOK'
  BY <1>2, <1>3, InHand DEF effects, EffectsOK, RestOK
<1>7. Undone' /\ Made'
  BY <1>3 DEF Undone, Made
<1>8. ServedAlone'
  BY <1>1, <1>2, <1>3 DEF stores, effects, PreviewInv, ServedAlone, Making
<1>9. EffectsRecorded' /\ ServedStaysServed'
  BY <1>2, <1>4 DEF stores, effects, PreviewInv, EffectsRecorded, ServedStaysServed
<1>10. Files'
  BY <1>1, <1>2, <1>3, <1>4, InHand
     DEF stores, effects, PreviewInv, Files, RecordedPreviews, Making
<1> QED BY <1>4, <1>5, <1>6, <1>7, <1>8, <1>9, <1>10, TypeThen DEF PreviewInv

(***************************************************************************)
(* The steps that take a preview away, of which nothing is served then.    *)
(***************************************************************************)
LEMMA StopContainersOK ==
  ASSUME PreviewInv, StopContainers PROVE PreviewInv'
<1> DEFINE p == job.old.preview
<1>1. job.pc = "stop" /\ job.pc \in TakingDown /\ p \in Previews /\ p \notin served
      /\ job' = [job EXCEPT !.pc = "drop"]
  BY InHand DEF StopContainers, JobMoves, TakingDown
<1>2. /\ job' \in Jobs /\ job'.pc = "drop" /\ job'.verb = job.verb /\ job'.new = job.new
      /\ job'.old = job.old /\ job'.left = job.left
  BY <1>1, InHand, JobFields DEF Pcs, DownSteps
<1>3. /\ UNCHANGED <<stores, databases, networks, route, site, loaded, server, knob, looked>>
      /\ UNCHANGED <<served, stale, trouble>>
  BY DEF StopContainers
<1>4. /\ RecordedPreviews' = RecordedPreviews /\ StoresOK'
      /\ CapacityRespected' /\ Admitted' /\ JobShape'
  BY <1>1, <1>2, <1>3, GoesOn, InHand DEF stores, TakingDown, StoresOK
<1>5. running'[p] = "none" /\ \A q \in Previews \ {p} : running'[q] = running[q]
  BY <1>1, InHand DEF StopContainers, EffectsOK
<1>6. EffectsOK' /\ RestOK'
  <2>1. running' \in [Previews -> Kinds \cup {"none"}]
    BY <1>1, InHand DEF StopContainers, EffectsOK
  <2> QED BY <1>2, <1>3, <2>1, InHand DEF EffectsOK, RestOK
<1>7. Undone' /\ Made' /\ ServedAlone'
  BY <1>1, <1>2, <1>3, <1>5 DEF stores, PreviewInv, Undone, Made, ServedAlone, Making
<1>8. EffectsRecorded'
  BY <1>3, <1>4, <1>5 DEF PreviewInv, EffectsRecorded
<1>9. ServedStaysServed'
  BY <1>1, <1>3, <1>4, <1>5, InHand DEF stores, PreviewInv, ServedStaysServed
<1>10. Files'
  BY <1>1, <1>2, <1>3, FilesStay DEF stores
<1> QED BY <1>4, <1>6, <1>7, <1>8, <1>9, <1>10, TypeThen DEF PreviewInv

(* The database of a preview is no other's; the server runs afterwards. *)
LEMMA DropDatabaseOK ==
  ASSUME PreviewInv, DropDatabase PROVE PreviewInv'
<1> DEFINE p == job.old.preview
<1>1. job.pc = "drop" /\ job.pc \in TakingDown /\ p \in Previews /\ p \notin served
      /\ job' = [job EXCEPT !.pc = "unroute"]
  BY InHand DEF DropDatabase, JobMoves, TakingDown
<1>2. /\ job' \in Jobs /\ job'.pc = "unroute" /\ job'.verb = job.verb /\ job'.new = job.new
      /\ job'.old = job.old /\ job'.left = job.left
  BY <1>1, InHand, JobFields DEF Pcs, DownSteps
<1>3. UNCHANGED <<stores, running, networks, route, site, loaded, knob, looked, served,
                  stale, trouble>>
  BY DEF DropDatabase
<1>4. /\ RecordedPreviews' = RecordedPreviews /\ StoresOK'
      /\ CapacityRespected' /\ Admitted' /\ JobShape'
  BY <1>1, <1>2, <1>3, GoesOn, InHand DEF stores, TakingDown, StoresOK
<1>5. /\ databases' \subseteq databases /\ databases \ {p} \subseteq databases'
      /\ (server => server') /\ server' \in BOOLEAN
  BY InHand DEF DropDatabase, EffectsOK
<1>6. EffectsOK' /\ RestOK'
  BY <1>2, <1>3, <1>5, InHand DEF EffectsOK, RestOK
<1>7. Undone' /\ Made' /\ ServedAlone'
  BY <1>1, <1>2, <1>3 DEF stores, PreviewInv, Undone, Made, ServedAlone, Making
<1>8. EffectsRecorded'
  BY <1>3, <1>4 DEF PreviewInv, EffectsRecorded
<1>9. ServedStaysServed'
  BY <1>1, <1>3, <1>4, <1>5, InHand DEF stores, PreviewInv, ServedStaysServed
<1>10. Files'
  BY <1>1, <1>2, <1>3, FilesStay DEF stores
<1> QED BY <1>4, <1>6, <1>7, <1>8, <1>9, <1>10, TypeThen DEF PreviewInv

(* A route file belongs to a recorded preview, so its removal can be undone. *)
LEMMA RemoveRouteOK ==
  ASSUME PreviewInv, RemoveRoute PROVE PreviewInv'
<1> DEFINE p == job.old.preview  file == FileOf(route[p], job.old.target)
<1>1. job.pc = "unroute" /\ job.pc \in TakingDown /\ p \in Previews /\ p \notin served
  BY InHand DEF RemoveRoute, TakingDown
<1>2. /\ job' \in Jobs /\ job'.pc \in {"disconnect", "unload"} /\ job'.verb = job.verb
      /\ job'.new = job.new /\ job'.old = job.old /\ job'.left = job.left
  <2>1. <<site, file>> \in (PathTargets \cup {NoTarget}) \X SUBSET Targets
    BY <1>1, InHand DEF EffectsOK, FileOf
  <2>2. CASE file = {}
    BY <2>2, InHand, JobFields DEF RemoveRoute, Pcs, DownSteps
  <2>3. CASE file # {}
    <3>1. job' = [job EXCEPT !.pc = "unload", !.before = <<site, file>>]
      BY <2>3 DEF RemoveRoute
    <3> HIDE DEF file
    <3> QED BY <2>1, <3>1, InHand DEF Jobs, DownSteps
  <2> QED BY <2>2, <2>3
<1>3. /\ UNCHANGED <<stores, running, databases, networks, site, loaded, server, knob, looked>>
      /\ UNCHANGED <<served, stale, trouble>>
  BY DEF RemoveRoute
<1>4. /\ RecordedPreviews' = RecordedPreviews /\ StoresOK'
      /\ CapacityRespected' /\ Admitted' /\ JobShape'
  BY <1>1, <1>2, <1>3, GoesOn, InHand DEF stores, TakingDown, StoresOK
<1>5. /\ route'[p] = route[p] \ file /\ \A q \in Previews \ {p} : route'[q] = route[q]
  BY <1>1, InHand DEF RemoveRoute, EffectsOK
<1>6. EffectsOK' /\ RestOK'
  <2>1. route' \in [Previews -> SUBSET Targets]
    BY <1>1, InHand DEF RemoveRoute, EffectsOK
  <2> QED BY <1>2, <1>3, <2>1, InHand DEF EffectsOK, RestOK
<1>7. Undone' /\ Made'
  <2>1. job'.pc = "unload" => p \in RecordedPreviews \cup stale
    BY <1>1, <1>2, InHand DEF RemoveRoute, PreviewInv, EffectsRecorded, Jobs, FileOf
  <2>2. p \notin stale => route[p] \subseteq file
    BY <1>1 DEF PreviewInv, Files, FileOf
  <2>3. route'[p] = {} \/ p \in stale'
    BY <1>3, <1>5, <2>2
  <2> HIDE DEF file
  <2> QED BY <1>1, <1>2, <1>3, <1>4, <1>5, <2>1, <2>3 DEF PreviewInv, Undone, Made
<1>8. ServedAlone'
  BY <1>1, <1>2, <1>3, <1>5, InHand DEF stores, PreviewInv, ServedAlone, Making
<1>9. EffectsRecorded' /\ ServedStaysServed'
  BY <1>3, <1>4, <1>5 DEF stores, PreviewInv, EffectsRecorded, ServedStaysServed
<1>10. Files'
  <2>1. job'.pc = "unload" => job'.before[2] = file
    BY <1>1, InHand DEF RemoveRoute, Jobs
  <2>2. \A u \in file : ByPath(u) = ByPath(job.old.target)
    BY DEF FileOf
  <2> HIDE DEF file
  <2> QED BY <1>1, <1>2, <1>3, <1>4, <1>5, <2>1, <2>2
       DEF stores, PreviewInv, Files, RecordedPreviews
<1> QED BY <1>4, <1>6, <1>7, <1>8, <1>9, <1>10, TypeThen DEF PreviewInv

(* What the proxy has loaded of the served previews is what their records   *)
(* name, each time it loads the files.                                     *)
LEMMA ServedAreLoaded ==
  ASSUME PreviewInv, NEW p \in served PROVE records[p].target \in OnDisk(route, site)[p]
<1>1. /\ p \in Previews /\ records[p].target \in route[p] /\ records[p].target \in Targets
      /\ ByPath(records[p].target) => site = records[p].target
  BY InHand, RecordShape DEF PreviewInv, ServedAlone, ServedStaysServed
<1> QED BY <1>1 DEF OnDisk

(* A reload serves whom the files on disk name. *)
LEMMA UnloadRouteOK ==
  ASSUME PreviewInv, UnloadRoute PROVE PreviewInv'
<1> DEFINE p == job.old.preview
<1>1. /\ job.pc = "unload" /\ job.pc \in TakingDown /\ p \in Previews /\ p \notin served
      /\ job' = [job EXCEPT !.pc = "disconnect", !.before = NoJob.before]
  BY InHand DEF UnloadRoute, TakingDown
<1>2. /\ job' \in Jobs /\ job'.pc = "disconnect" /\ job'.verb = job.verb /\ job'.new = job.new
      /\ job'.old = job.old /\ job'.left = job.left
  BY <1>1, InHand, NoJobIsOne DEF Jobs, DownSteps
<1>3. /\ UNCHANGED <<stores, running, databases, networks, route, site, server, knob, looked>>
      /\ UNCHANGED <<served, stale, trouble>>
  BY DEF UnloadRoute
<1>4. /\ RecordedPreviews' = RecordedPreviews /\ StoresOK'
      /\ CapacityRespected' /\ Admitted' /\ JobShape'
  BY <1>1, <1>2, <1>3, GoesOn, InHand DEF stores, TakingDown, StoresOK
<1>5. EffectsOK' /\ RestOK'
  <2>1. loaded' \in [Previews -> SUBSET Targets]
    BY InHand DEF UnloadRoute, OnDisk, EffectsOK
  <2> QED BY <1>2, <1>3, <2>1, InHand DEF EffectsOK, RestOK
<1>6. Undone' /\ Made' /\ ServedAlone'
  BY <1>1, <1>2, <1>3 DEF stores, PreviewInv, Undone, Made, ServedAlone, Making
<1>7. EffectsRecorded'
  BY <1>3, <1>4 DEF PreviewInv, EffectsRecorded
<1>8. ServedStaysServed'
  <2>1. \A q \in served : records[q].target \in loaded'[q]
    BY ServedAreLoaded DEF UnloadRoute
  <2> QED BY <1>3, <1>4, <2>1 DEF stores, PreviewInv, ServedStaysServed
<1>9. Files'
  BY <1>1, <1>2, <1>3, FilesStay DEF stores
<1> QED BY <1>4, <1>5, <1>6, <1>7, <1>8, <1>9, TypeThen DEF PreviewInv

(* The ingress network of this preview goes, and no other. *)
LEMMA RemoveNetworksOK ==
  ASSUME PreviewInv, RemoveNetworks PROVE PreviewInv'
<1> DEFINE p == job.old.preview
<1>1. /\ job.pc = "disconnect" /\ job.pc \in TakingDown /\ p \in Previews /\ p \notin served
      /\ job' = [job EXCEPT !.pc = "remove"]
  BY InHand DEF RemoveNetworks, JobMoves, TakingDown
<1>2. /\ job' \in Jobs /\ job'.pc = "remove" /\ job'.verb = job.verb /\ job'.new = job.new
      /\ job'.old = job.old /\ job'.left = job.left
  BY <1>1, InHand, JobFields DEF Pcs, DownSteps
<1>3. /\ UNCHANGED <<stores, running, databases, route, site, loaded, server, knob, looked>>
      /\ UNCHANGED <<served, stale, trouble>>
  BY DEF RemoveNetworks
<1>4. /\ RecordedPreviews' = RecordedPreviews /\ StoresOK'
      /\ CapacityRespected' /\ Admitted' /\ JobShape'
  BY <1>1, <1>2, <1>3, GoesOn, InHand DEF stores, TakingDown, StoresOK
<1>5. "ingress" \notin networks'[p] /\ \A q \in Previews \ {p} : networks'[q] = networks[q]
  BY <1>1, InHand DEF RemoveNetworks, EffectsOK
<1>6. EffectsOK' /\ RestOK'
  <2>1. networks' \in [Previews -> SUBSET {"ingress", "backend"}]
    BY <1>1, InHand DEF RemoveNetworks, EffectsOK
  <2> QED BY <1>2, <1>3, <2>1, InHand DEF EffectsOK, RestOK
<1>7. Undone' /\ Made' /\ ServedAlone'
  BY <1>1, <1>2, <1>3, <1>5 DEF stores, PreviewInv, Undone, Made, ServedAlone, Making
<1>8. EffectsRecorded' /\ ServedStaysServed'
  BY <1>3, <1>4, <1>5 DEF stores, PreviewInv, EffectsRecorded, ServedStaysServed
<1>9. Files'
  BY <1>1, <1>2, <1>3, FilesStay DEF stores
<1> QED BY <1>4, <1>6, <1>7, <1>8, <1>9, TypeThen DEF PreviewInv

(* A job that is through, or a new one that has nothing made yet.          *)
LEMMA NothingInHand ==
  ASSUME PreviewInv, job' \in Jobs, UNCHANGED <<records, byUse, expired>>,
         composed' \subseteq Previews, job'.new = NoPreview, job'.pc \notin Making \cup TakingDown,
         job'.left \subseteq RecordedPreviews, job'.verb # "gc" => job'.left = {},
         job'.pc = "reap" => job'.verb \in {"gc", "trim"},
         job'.old # NoPreview => job'.old.preview \notin job'.left
  PROVE  /\ RecordedPreviews' = RecordedPreviews /\ StoresOK' /\ CapacityRespected'
         /\ Admitted' /\ JobShape' /\ Undone' /\ Made'
<1>1. /\ RecordedPreviews' = RecordedPreviews /\ StoresOK' /\ CapacityRespected' /\ Admitted'
  BY RecordsStay
<1>2. JobShape'
  BY <1>1 DEF PreviewInv, JobShape
<1>3. Undone' /\ Made'
  BY DEF Undone, Made, Making
<1> QED BY <1>1, <1>2, <1>3

(* A preview is served when everything of it is made. *)
LEMMA LoadRouteOK ==
  ASSUME PreviewInv, LoadRoute PROVE PreviewInv'
<1> DEFINE p == job.new.preview  t == job.new.target
<1>1. /\ job.pc = "reload" /\ job.pc \in Making \ {"write"}
      /\ p \in Previews /\ p \in RecordedPreviews /\ records[p] = job.new
  BY InHand DEF LoadRoute, Making
<1>2. /\ UNCHANGED <<stores, running, databases, networks, route, site, server, knob>>
      /\ UNCHANGED <<looked, stale, trouble>>
      /\ job' = NoJob /\ loaded' = OnDisk(route, site) /\ served' = served \cup {p}
  BY DEF LoadRoute
<1>3. /\ job' \in Jobs /\ job'.verb = "none" /\ job'.pc = "idle" /\ job'.new = NoPreview
      /\ job'.old = NoPreview /\ job'.left = {}
  BY <1>2, NoJobIsOne
<1>4. /\ RecordedPreviews' = RecordedPreviews /\ StoresOK' /\ CapacityRespected'
      /\ Admitted' /\ JobShape' /\ Undone' /\ Made'
  <2>1. composed' \subseteq Previews
    BY <1>2, InHand DEF stores, StoresOK
  <2>2. job'.pc \notin Making \cup TakingDown
    BY <1>3 DEF Making, TakingDown
  <2> QED BY <1>2, <1>3, <2>1, <2>2, NothingInHand DEF stores
<1>5. EffectsOK' /\ RestOK'
  <2>1. loaded' \in [Previews -> SUBSET Targets]
    BY <1>2, InHand DEF OnDisk, EffectsOK
  <2>2. served' \subseteq Previews
    BY <1>1, <1>2, InHand DEF RestOK
  <2> QED BY <1>2, <1>3, <2>1, <2>2, InHand DEF EffectsOK, RestOK
<1>6. /\ t \in route[p] /\ (ByPath(t) => site = t) /\ running[p] = job.new.kind
      /\ HasDatabase(job.new) => p \in databases /\ server
  BY <1>1 DEF PreviewInv, Made
<1>7. ServedAlone'
  BY <1>1, <1>2, <1>3, <1>6 DEF stores, PreviewInv, ServedAlone, Making, TakingDown
<1>8. EffectsRecorded'
  BY <1>2, <1>4 DEF PreviewInv, EffectsRecorded
<1>9. ServedStaysServed'
  <2>1. t \in loaded'[p]
    BY <1>1, <1>2, <1>6, InHand, RecordShape DEF OnDisk
  <2>2. \A q \in served : records[q].target \in loaded'[q]
    BY <1>2, ServedAreLoaded
  <2>3. ASSUME NEW q \in served'
        PROVE  /\ q \in RecordedPreviews' /\ running'[q] = records'[q].kind
               /\ records'[q].target \in loaded'[q]
               /\ ByPath(records'[q].target) => site' = records'[q].target
               /\ HasDatabase(records'[q]) => q \in databases' /\ server'
    <3>1. CASE q = p
      BY <1>1, <1>2, <1>4, <1>6, <2>1, <3>1 DEF stores
    <3>2. CASE q \in served
      BY <1>2, <1>4, <2>2, <3>2 DEF stores, PreviewInv, ServedStaysServed
    <3> QED BY <1>2, <2>3, <3>1, <3>2
  <2>4. \A q \in served : HasDatabase(records'[q]) <=> HasDatabase(records[q])
    BY <1>2 DEF stores
  <2> QED BY <2>3 DEF ServedStaysServed, HasDatabase, ByPath
<1>10. Files'
  BY <1>2, <1>3, FilesStay DEF stores, TakingDown
<1> QED BY <1>4, <1>5, <1>7, <1>8, <1>9, <1>10, TypeThen DEF PreviewInv

(* What a job goes on with when down_inner is through.                     *)
LEMMA WhatFollows ==
  ASSUME NEW ok \in BOOLEAN, job \in Jobs
  PROVE  \/ ok /\ ComingUp /\ After(ok) = Continue("write")
         \/ Reaping /\ (ok \/ job.verb = "gc") /\ After(ok) = Continue("reap")
         \/ Reaping /\ ~ok /\ job.verb = "trim" /\ After(ok) = Continue("idle database")
         \/ After(ok) = NoJob
<1>1. CASE ComingUp /\ ok
  BY <1>1 DEF After, ComingUp, Reaping
<1>2. CASE Reaping /\ (ok \/ job.verb = "gc")
  <2>1. job.verb # "up" /\ ~(~ok /\ job.verb = "trim")
    BY <1>2 DEF Reaping
  <2> QED BY <1>2, <2>1 DEF After
<1>3. CASE Reaping /\ ~ok /\ job.verb # "gc"
  <2>1. job.verb = "trim"
    BY <1>3 DEF Reaping
  <2> QED BY <1>3, <2>1 DEF After
<1>4. CASE ~(ComingUp /\ ok) /\ ~Reaping
  BY <1>4 DEF After, ComingUp
<1> QED BY <1>1, <1>2, <1>3, <1>4

LEMMA Continued ==
  ASSUME NEW pc \in Pcs, job \in Jobs
  PROVE  LET k == Continue(pc)
         IN  /\ k \in Jobs /\ k.pc = pc /\ k.verb = job.verb /\ k.new = job.new
             /\ k.old = NoPreview /\ k.left = job.left
<1> QED BY NoJobIsOne DEF Continue, Jobs, Pcs

(* The job after down_inner, from one of its steps.                        *)
LEMMA FollowsOK ==
  ASSUME PreviewInv, NEW ok \in BOOLEAN, job' = After(ok),
         UNCHANGED <<records, byUse, expired>>, composed' \subseteq Previews,
         ok => job.pc = "idle database",
         job.pc \in TakingDown \cup {"idle database"}
  PROVE  /\ RecordedPreviews' = RecordedPreviews /\ StoresOK' /\ CapacityRespected'
         /\ Admitted' /\ JobShape' /\ Undone' /\ Made' /\ job' \in Jobs
         /\ job'.pc \notin (Making \ {"write"}) \cup TakingDown
<1>1. job \in Jobs
  BY InHand
<1>2. CASE ok /\ ComingUp /\ job' = Continue("write")
  <2>1. /\ job' \in Jobs /\ job'.pc = "write" /\ job'.verb = job.verb /\ job'.new = job.new
        /\ job'.old = NoPreview /\ job'.left = job.left
    BY <1>1, <1>2, Continued DEF Pcs, UpSteps
  <2>2. /\ RecordedPreviews' = RecordedPreviews /\ StoresOK' /\ CapacityRespected' /\ Admitted'
    BY <1>2, <2>1, RecordsStay
  <2>3. JobShape'
    BY <1>2, <2>1, <2>2 DEF PreviewInv, JobShape, ComingUp, Making, TakingDown
  <2> QED BY <2>1, <2>2, <2>3 DEF Undone, Made, Making, TakingDown
<1>3. CASE Reaping /\ \/ job' = Continue("reap")
                      \/ job.verb = "trim" /\ job' = Continue("idle database")
  <2>1. /\ job' \in Jobs /\ job'.pc \in {"reap", "idle database"} /\ job'.verb = job.verb
        /\ job'.new = job.new /\ job'.old = NoPreview /\ job'.left = job.left
    <3>1. PICK pc \in {"reap", "idle database"} : job' = Continue(pc)
      BY <1>3
    <3>2. pc \in Pcs
      BY DEF Pcs, DownSteps
    <3> QED BY <1>1, <3>1, <3>2, Continued
  <2>2. job.verb \in {"gc", "trim"}
    BY <1>3 DEF Reaping
  <2>3. /\ RecordedPreviews' = RecordedPreviews /\ StoresOK' /\ CapacityRespected' /\ Admitted'
    BY <2>1, <2>2, RecordsStay
  <2>4. JobShape'
    BY <2>1, <2>2, <2>3 DEF PreviewInv, JobShape, Making, TakingDown
  <2> QED BY <2>1, <2>3, <2>4 DEF Undone, Made, Making, TakingDown
<1>4. CASE job' = NoJob
  <2>1. /\ job' \in Jobs /\ job'.verb = "none" /\ job'.pc = "idle" /\ job'.new = NoPreview
        /\ job'.old = NoPreview /\ job'.left = {}
    BY <1>4, NoJobIsOne
  <2>2. job'.pc \notin Making \cup TakingDown
    BY <2>1 DEF Making, TakingDown
  <2> QED BY <2>1, <2>2, NothingInHand
<1> QED BY <1>1, <1>2, <1>3, <1>4, WhatFollows

(* The server is not stopped while a served preview has a database. *)
LEMMA StopIdleServerOK ==
  ASSUME PreviewInv, StopIdleServer PROVE PreviewInv'
<1>1. /\ job.pc = "idle database" /\ job' = After(TRUE) /\ server' = (server /\ ServerNeeded)
      /\ UNCHANGED <<stores, running, databases, networks, route, site, loaded, knob, looked>>
      /\ UNCHANGED <<served, stale, trouble>>
  BY DEF StopIdleServer
<1>2. /\ RecordedPreviews' = RecordedPreviews /\ StoresOK' /\ CapacityRespected'
      /\ Admitted' /\ JobShape' /\ Undone' /\ Made' /\ job' \in Jobs
      /\ job'.pc \notin (Making \ {"write"}) \cup TakingDown
  <2>1. composed' \subseteq Previews
    BY <1>1, InHand DEF stores, StoresOK
  <2> QED BY <1>1, <2>1, FollowsOK DEF stores
<1>3. EffectsOK' /\ RestOK'
  <2>1. server' \in BOOLEAN
    BY <1>1, InHand DEF EffectsOK, ServerNeeded
  <2> QED BY <1>1, <1>2, <2>1, InHand DEF EffectsOK, RestOK
<1>4. ServedAlone'
  BY <1>1, <1>2 DEF stores, PreviewInv, ServedAlone, Making
<1>5. EffectsRecorded'
  BY <1>1, <1>2 DEF PreviewInv, EffectsRecorded
<1>6. ServedStaysServed'
  <2>1. \A q \in served : HasDatabase(records[q]) => q \in databases /\ server'
    BY <1>1 DEF PreviewInv, ServedStaysServed, ServerNeeded
  <2> QED BY <1>1, <1>2, <2>1 DEF stores, PreviewInv, ServedStaysServed
<1>7. Files'
  BY <1>1, <1>2, FilesStay DEF stores, Making, TakingDown
<1> QED BY <1>2, <1>3, <1>4, <1>5, <1>6, <1>7, TypeThen DEF PreviewInv

(* A job that cannot take a preview down leaves its record. *)
LEMMA DownFailsOK ==
  ASSUME PreviewInv, DownFails PROVE PreviewInv'
<1> DEFINE p == job.old.preview
<1>1. /\ job.pc \in TakingDown \cup {"idle database"} /\ job' = After(FALSE)
      /\ UNCHANGED <<stores, running, databases, networks, site, loaded, server, knob, looked>>
      /\ UNCHANGED <<served, stale>>
  BY DEF DownFails, TakingDown
<1>2. /\ RecordedPreviews' = RecordedPreviews /\ StoresOK' /\ CapacityRespected'
      /\ Admitted' /\ JobShape' /\ Undone' /\ Made' /\ job' \in Jobs
      /\ job'.pc \notin (Making \ {"write"}) \cup TakingDown
  <2>1. composed' \subseteq Previews
    BY <1>1, InHand DEF stores, StoresOK
  <2> QED BY <1>1, <2>1, FollowsOK DEF stores
<1>3. \/ UNCHANGED route
      \/ /\ p \in RecordedPreviews \cup stale /\ p \in Previews /\ p \notin served
         /\ job.pc = "unload" /\ route' = RouteBefore(p, job.old.target)
  BY InHand DEF DownFails, PreviewInv, Undone, TakingDown
<1>4. EffectsOK' /\ RestOK'
  <2>1. job.before[2] \subseteq Targets
    BY InHand DEF Jobs
  <2>2. route' \in [Previews -> SUBSET Targets]
    BY <1>3, <2>1, InHand DEF EffectsOK, RouteBefore
  <2>3. trouble' \in 0..MaxTrouble
    <3>1. trouble < MaxTrouble /\ trouble' = trouble + 1
      BY DEF DownFails
    <3> QED BY <3>1, InHand, PreviewAssumption DEF RestOK, PreviewAssumption
  <2> QED BY <1>1, <1>2, <2>2, <2>3, InHand DEF EffectsOK, RestOK
<1>5. /\ \A q \in Previews : q \in served \/ q \notin RecordedPreviews \cup stale =>
           route'[q] = route[q]
      /\ \A q \in Previews : \/ route'[q] = route[q]
                            \/ /\ q = p /\ route'[q] \subseteq route[q] \cup job.before[2]
                               /\ job.pc = "unload"
  BY <1>3, InHand DEF EffectsOK, RouteBefore
<1>6. ServedAlone'
  BY <1>1, <1>2, <1>5, InHand DEF stores, PreviewInv, ServedAlone, Making
<1>7. EffectsRecorded'
  BY <1>1, <1>2, <1>5 DEF PreviewInv, EffectsRecorded
<1>8. ServedStaysServed'
  BY <1>1, <1>2 DEF stores, PreviewInv, ServedStaysServed
<1>9. Files'
  <2>1. ASSUME NEW q \in Previews \ stale, NEW u \in route'[q]
        PROVE  q \in RecordedPreviews /\ ByPath(u) = ByPath(records[q].target)
    <3>1. CASE u \in route[q]
      BY <3>1 DEF PreviewInv, Files
    <3>2. CASE u \notin route[q]
      <4>1. q = p /\ u \in job.before[2] /\ job.pc = "unload"
        BY <1>5, <2>1, <3>2
      <4>2. p \in RecordedPreviews \ stale
        BY <2>1, <4>1 DEF PreviewInv, Undone, TakingDown
      <4> QED BY <4>1, <4>2 DEF PreviewInv, Files, TakingDown
    <3> QED BY <3>1, <3>2
  <2> QED BY <1>1, <1>2, <2>1
       DEF stores, PreviewInv, Files, RecordedPreviews, Making, TakingDown
<1> QED BY <1>2, <1>4, <1>6, <1>7, <1>8, <1>9, TypeThen DEF PreviewInv

(* A record that is removed leaves room.                                   *)
LEMMA Forgotten ==
  ASSUME PreviewInv, NEW p \in Previews, ForgetPreview(p), composed' \subseteq Previews
  PROVE  /\ RecordedPreviews' = RecordedPreviews \ {p} /\ StoresOK' /\ CapacityRespected'
         /\ \A q \in Previews \ {p} : records'[q] = records[q]
         /\ p \in RecordedPreviews => Cardinality(RecordedPreviews') < MaxPreviews
         /\ \A n \in Previews : Reserved([records' EXCEPT ![n] = NoPreview])
                                  <= Reserved([records EXCEPT ![n] = NoPreview])
                                /\ Reserved([records' EXCEPT ![n] = NoPreview]) \in Nat
                                /\ Reserved([records EXCEPT ![n] = NoPreview]) \in Nat
<1>1. StoresOK /\ records \in Inventory /\ InOrder(byUse, RecordedPreviews)
  BY InHand DEF StoresOK
<1>2. /\ records'[p] = NoPreview /\ \A q \in Previews \ {p} : records'[q] = records[q]
      /\ records' \in Inventory
  BY <1>1 DEF ForgetPreview, Inventory, Maybe
<1>3. RecordedPreviews' = RecordedPreviews \ {p}
  BY <1>2 DEF RecordedPreviews
<1>4. StoresOK'
  <2>1. InOrder(Unused(p), RecordedPreviews \ {p})
    BY <1>1, UnusedOrder
  <2>2. InOrder(byUse, RecordedPreviews)'
    BY <1>3, <2>1 DEF ForgetPreview, InOrder
  <2>3. expired' \subseteq RecordedPreviews'
    BY <1>1, <1>3 DEF ForgetPreview, StoresOK
  <2> QED BY <1>2, <2>2, <2>3 DEF StoresOK
<1>5. IsFiniteSet(RecordedPreviews) /\ Cardinality(RecordedPreviews) \in Nat
  BY <1>1, OrderIsFinite, FS_CardinalityType
<1>6. IsFiniteSet(RecordedIn(records))
  BY <1>5 DEF RecordedIn, RecordedPreviews
<1>7. /\ Cardinality(RecordedPreviews') <= Cardinality(RecordedPreviews)
      /\ Cardinality(RecordedPreviews') \in Nat
      /\ p \in RecordedPreviews =>
           Cardinality(RecordedPreviews') = Cardinality(RecordedPreviews) - 1
  <2>1. PICK S : S = RecordedPreviews
    OBVIOUS
  <2>2. /\ IsFiniteSet(S \ {p})
        /\ Cardinality(S \ {p}) = IF p \in S THEN Cardinality(S) - 1 ELSE Cardinality(S)
    BY <1>5, <2>1, FS_RemoveElement
  <2>3. Cardinality(S \ {p}) \in Nat /\ Cardinality(S) \in Nat
    BY <1>5, <2>1, <2>2, FS_CardinalityType
  <2> QED BY <1>3, <2>1, <2>2, <2>3
<1>8. Reserved(records') <= Reserved(records) /\ Reserved(records') \in Nat
      /\ Reserved(records) \in Nat
  BY <1>1, <1>2, <1>6, FewerReserveLess, LimitsAreFinite
<1>9. CapacityRespected'
  <2>1. MaxPreviews \in Nat /\ MemoryBudget \in Nat
    BY PreviewAssumption DEF PreviewAssumption
  <2>2. Cardinality(RecordedPreviews)' <= MaxPreviews
    <3>1. Cardinality(RecordedPreviews) <= MaxPreviews
      BY DEF PreviewInv, CapacityRespected
    <3> QED BY <1>5, <1>7, <2>1, <3>1
  <2>3. Reserved(records)' <= MemoryBudget
    BY <1>8, <2>1 DEF PreviewInv, CapacityRespected, Reserved
  <2>4. \A q, r \in RecordedPreviews' : q # r => records'[q].port # records'[r].port
    BY <1>2, <1>3 DEF PreviewInv, CapacityRespected, RecordedPreviews
  <2> QED BY <2>2, <2>3, <2>4 DEF CapacityRespected
<1>10. ASSUME NEW n \in Previews
       PROVE  /\ Reserved([records' EXCEPT ![n] = NoPreview])
                   <= Reserved([records EXCEPT ![n] = NoPreview])
              /\ Reserved([records' EXCEPT ![n] = NoPreview]) \in Nat
              /\ Reserved([records EXCEPT ![n] = NoPreview]) \in Nat
  <2> DEFINE less == [records EXCEPT ![n] = NoPreview]
             fewer == [records' EXCEPT ![n] = NoPreview]
  <2>1. less \in Inventory /\ fewer \in Inventory
    BY <1>1, <1>2 DEF Inventory, Maybe
  <2>2. \A q \in Previews : fewer[q] \in {less[q], NoPreview} /\ less[q] \in {records[q], NoPreview}
    BY <1>1, <1>2 DEF Inventory
  <2> HIDE DEF less, fewer
  <2>3. IsFiniteSet(RecordedIn(less))
    <3>1. RecordedIn(less) \subseteq RecordedIn(records)
      BY <2>2 DEF RecordedIn
    <3> QED BY <1>6, <3>1, FS_Subset
  <2>4. Reserved(fewer) <= Reserved(less) /\ Reserved(fewer) \in Nat /\ Reserved(less) \in Nat
    BY <2>1, <2>2, <2>3, FewerReserveLess, LimitsAreFinite
  <2> QED BY <2>4 DEF less, fewer
<1>11. p \in RecordedPreviews => Cardinality(RecordedPreviews') < MaxPreviews
  <2>1. MaxPreviews \in Nat
    BY PreviewAssumption DEF PreviewAssumption
  <2>2. Cardinality(RecordedPreviews) <= MaxPreviews
    BY DEF PreviewInv, CapacityRespected
  <2> QED BY <1>5, <1>7, <2>1, <2>2
<1> QED BY <1>2, <1>3, <1>4, <1>9, <1>10, <1>11

(* Nothing of a preview is left but its record, so it can go.              *)
LEMMA NothingLeft ==
  ASSUME PreviewInv, job.pc = "remove", ForgetPreview(job.old.preview),
         composed' \subseteq Previews, UNCHANGED <<effects, served, stale>>
  PROVE  EffectsRecorded' /\ ServedStaysServed'
         /\ (job'.pc \notin {"reload", "unload"} \cup TakingDown => Files')
<1> DEFINE p == job.old.preview
<1>1. p \in Previews /\ p \notin served
  BY InHand DEF TakingDown
<1>2. RecordedPreviews' = RecordedPreviews \ {p}
      /\ \A q \in Previews \ {p} : records'[q] = records[q]
  BY <1>1, Forgotten
<1>3. running[p] = "none" /\ "ingress" \notin networks[p]
      /\ (route[p] = {} \/ p \in stale)
  BY DEF PreviewInv, Undone, TakingDown
<1>4. EffectsRecorded'
  BY <1>2, <1>3 DEF effects, PreviewInv, EffectsRecorded
<1>5. ServedStaysServed'
  <2>1. \A q \in served : q \in Previews /\ q # p /\ records'[q] = records[q]
                          /\ q \in RecordedPreviews'
    BY <1>1, <1>2, InHand
  <2> QED BY <2>1 DEF effects, PreviewInv, ServedStaysServed
<1>6. ASSUME job'.pc \notin {"reload", "unload"} \cup TakingDown PROVE Files'
  BY <1>2, <1>3, <1>6 DEF effects, PreviewInv, Files
<1> QED BY <1>4, <1>5, <1>6

(* The record goes last, and leaves the room that up was promised. *)
LEMMA RemoveDirectoryOK ==
  ASSUME PreviewInv, RemoveDirectory PROVE PreviewInv'
<1> DEFINE p == job.old.preview
<1>1. /\ job.pc = "remove" /\ p \in Previews /\ p \notin served /\ job.old # NoPreview
      /\ job' = [job EXCEPT !.pc = "idle database"]
      /\ ForgetPreview(p) /\ composed' = composed \ {p}
      /\ UNCHANGED <<effects, knob, looked, served, stale, trouble>>
  BY InHand, RecordShape DEF RemoveDirectory, JobMoves, TakingDown
<1>2. /\ job' \in Jobs /\ job'.pc = "idle database" /\ job'.verb = job.verb /\ job'.new = job.new
      /\ job'.old = job.old /\ job'.left = job.left
  BY <1>1, InHand, JobFields DEF Pcs, DownSteps
<1>3. composed' \subseteq Previews
  BY <1>1, InHand DEF StoresOK
<1>4. /\ RecordedPreviews' = RecordedPreviews \ {p} /\ StoresOK' /\ CapacityRespected'
      /\ \A q \in Previews \ {p} : records'[q] = records[q]
      /\ p \in RecordedPreviews => Cardinality(RecordedPreviews') < MaxPreviews
      /\ \A n \in Previews : Reserved([records' EXCEPT ![n] = NoPreview])
                               <= Reserved([records EXCEPT ![n] = NoPreview])
                             /\ Reserved([records' EXCEPT ![n] = NoPreview]) \in Nat
                             /\ Reserved([records EXCEPT ![n] = NoPreview]) \in Nat
  BY <1>1, <1>3, Forgotten
<1>5. JobShape'
  <2>1. \A q \in RecordedPreviews' : records'[q].preview = q
    BY <1>4 DEF PreviewInv, JobShape, RecordedPreviews
  <2> QED BY <1>1, <1>2, <1>4, <2>1 DEF PreviewInv, JobShape, Making, TakingDown
<1>6. Admitted'
  <2> SUFFICES ASSUME ComingUp PROVE Admitted'
    BY <1>2 DEF Admitted, ComingUp
  <2> DEFINE n == job.new.preview
  <2>1. job.new \in PreviewRecord /\ n \in Previews /\ p \in RecordedPreviews
    BY <1>1, InHand, RecordShape DEF ComingUp, PreviewInv, JobShape, TakingDown
  <2>2. Reserved([records' EXCEPT ![n] = NoPreview]) + Reservation(job.new.kind) <= MemoryBudget
    <3>1. Reserved([records EXCEPT ![n] = NoPreview]) + Reservation(job.new.kind) <= MemoryBudget
      BY DEF PreviewInv, Admitted
    <3>2. Reservation(job.new.kind) \in Nat /\ MemoryBudget \in Nat
      BY PreviewAssumption DEF Reservation, PreviewAssumption
    <3> HIDE DEF n
    <3>3. PICK a, b : /\ a = Reserved([records' EXCEPT ![n] = NoPreview])
                      /\ b = Reserved([records EXCEPT ![n] = NoPreview])
      OBVIOUS
    <3>4. a \in Nat /\ b \in Nat /\ a <= b
      BY <1>4, <2>1, <3>3
    <3>5. b + Reservation(job.new.kind) <= MemoryBudget
      BY <3>1, <3>3 DEF n
    <3>6. a + Reservation(job.new.kind) <= MemoryBudget
      BY <3>2, <3>4, <3>5
    <3> QED BY <3>3, <3>6
  <2>3. \A q \in Others' : q \in Others /\ records'[q] = records[q]
    BY <1>2, <1>4 DEF Others, RecordedPreviews
  <2>4. Cardinality(RecordedPreviews') < MaxPreviews
    BY <1>4, <2>1
  <2> QED BY <1>2, <1>4, <2>1, <2>2, <2>3, <2>4 DEF PreviewInv, Admitted, Reserved
<1>7. EffectsOK' /\ RestOK'
  BY <1>1, <1>2, InHand DEF effects, EffectsOK, RestOK
<1>8. Undone' /\ Made'
  BY <1>2 DEF Undone, Made, TakingDown
<1>9. ServedAlone'
  <2>1. \A q \in served : q \in Previews \ {p} /\ records'[q] = records[q]
    BY <1>1, <1>4, InHand
  <2> QED BY <1>1, <1>2, <2>1 DEF effects, PreviewInv, ServedAlone, Making, TakingDown
<1>10. EffectsRecorded' /\ ServedStaysServed'
  BY <1>1, <1>3, NothingLeft
<1>11. Files'
  BY <1>1, <1>2, <1>3, NothingLeft DEF TakingDown
<1> QED BY <1>4, <1>5, <1>6, <1>7, <1>8, <1>9, <1>10, <1>11, TypeThen DEF PreviewInv

(* A job may die at any step. *)
LEMMA PreviewCrashOK ==
  ASSUME PreviewInv, PreviewCrash PROVE PreviewInv'
<1>1. /\ job' = NoJob /\ UNCHANGED <<effects, knob, looked, served, stale>>
      /\ trouble < MaxTrouble /\ trouble' = trouble + 1
  BY DEF PreviewCrash
<1>2. /\ job' \in Jobs /\ job'.pc = "idle" /\ job'.verb = "none" /\ job'.new = NoPreview
      /\ job'.old = NoPreview /\ job'.left = {}
  BY <1>1, NoJobIsOne
<1>3. job'.pc \notin Making \cup TakingDown
  BY <1>2 DEF Making, TakingDown
<1>4. EffectsOK' /\ RestOK'
  <2>1. trouble' \in 0..MaxTrouble
    BY <1>1, InHand, PreviewAssumption DEF RestOK, PreviewAssumption
  <2> QED BY <1>1, <1>2, <2>1, InHand DEF effects, EffectsOK, RestOK
<1>5. CASE UNCHANGED <<records, byUse, expired>> /\ composed' \subseteq Previews
  <2>1. /\ RecordedPreviews' = RecordedPreviews /\ StoresOK' /\ CapacityRespected'
        /\ Admitted' /\ JobShape' /\ Undone' /\ Made'
    BY <1>2, <1>3, <1>5, NothingInHand
  <2>2. ServedAlone'
    BY <1>1, <1>2, <1>5 DEF effects, PreviewInv, ServedAlone, Making, TakingDown
  <2>3. EffectsRecorded' /\ ServedStaysServed'
    BY <1>1, <1>5, <2>1 DEF effects, PreviewInv, EffectsRecorded, ServedStaysServed
  <2>4. Files'
    BY <1>1, <1>2, <1>5, FilesStay DEF effects, TakingDown
  <2> QED BY <1>4, <2>1, <2>2, <2>3, <2>4, TypeThen DEF PreviewInv
<1>6. CASE job.pc = "remove" /\ ForgetPreview(job.old.preview) /\ UNCHANGED composed
  <2> DEFINE p == job.old.preview
  <2>1. p \in Previews /\ p \notin served /\ composed' \subseteq Previews
    BY <1>6, InHand DEF TakingDown, StoresOK
  <2>2. /\ RecordedPreviews' = RecordedPreviews \ {p} /\ StoresOK' /\ CapacityRespected'
        /\ \A q \in Previews \ {p} : records'[q] = records[q]
    BY <1>6, <2>1, Forgotten
  <2>3. JobShape'
    <3>1. \A q \in RecordedPreviews' : records'[q].preview = q
      BY <2>2 DEF PreviewInv, JobShape, RecordedPreviews
    <3> QED BY <1>2, <3>1 DEF JobShape, Making, TakingDown
  <2>4. Admitted' /\ Undone' /\ Made'
    BY <1>2 DEF Admitted, ComingUp, Undone, Made, TakingDown
  <2>5. ServedAlone'
    <3>1. \A q \in served : q \in Previews \ {p} /\ records'[q] = records[q]
      BY <2>1, <2>2, InHand
    <3> QED BY <1>1, <1>2, <3>1 DEF effects, PreviewInv, ServedAlone, Making, TakingDown
  <2>6. EffectsRecorded' /\ ServedStaysServed' /\ Files'
    BY <1>1, <1>2, <1>3, <1>6, <2>1, NothingLeft
  <2> QED BY <1>4, <2>2, <2>3, <2>4, <2>5, <2>6, TypeThen DEF PreviewInv
<1>7. composed \subseteq Previews
  BY InHand DEF StoresOK
<1> QED BY <1>5, <1>6, <1>7 DEF PreviewCrash, stores

(* The record of a new preview keeps to the limits that up checked. *)
LEMMA WriteRecordOK ==
  ASSUME PreviewInv, WriteRecord PROVE PreviewInv'
<1> DEFINE p == job.new.preview
<1>1. /\ job.pc = "write" /\ p \in Previews /\ job.new \in PreviewRecord /\ job.new # NoPreview
      /\ job.verb = "up" /\ job.left = {}
      /\ job' = [job EXCEPT !.pc = "database"]
      /\ records' = [records EXCEPT ![p] = job.new]
      /\ byUse' = Append(Unused(p), p)
      /\ expired' = expired \ {p} /\ served' = served \ {p}
      /\ UNCHANGED <<composed, effects, knob, looked, stale, trouble>>
  BY InHand, RecordShape DEF WriteRecord, JobMoves, Making, PreviewInv, JobShape
<1>2. /\ job' \in Jobs /\ job'.pc = "database" /\ job'.verb = job.verb /\ job'.new = job.new
      /\ job'.old = job.old /\ job'.left = job.left
  BY <1>1, InHand, JobFields DEF Pcs, UpSteps
<1>3. StoresOK /\ records \in Inventory /\ InOrder(byUse, RecordedPreviews)
  BY InHand DEF StoresOK
<1>4. /\ records'[p] = job.new /\ \A q \in Previews \ {p} : records'[q] = records[q]
      /\ records' \in Inventory
  BY <1>1, <1>3 DEF Inventory, Maybe
<1>5. RecordedPreviews' = RecordedPreviews \cup {p}
  BY <1>1, <1>4 DEF RecordedPreviews
<1>6. StoresOK'
  <2>1. InOrder(Unused(p), RecordedPreviews \ {p})
    BY <1>1, <1>3, UnusedOrder
  <2>2. PICK order : order = Unused(p)
    OBVIOUS
  <2>3. PICK S : S = RecordedPreviews \ {p}
    OBVIOUS
  <2>4. InOrder(Append(order, p), S \cup {p})
    BY <1>1, <2>1, <2>2, <2>3, UsedOrder
  <2>5. InOrder(byUse, RecordedPreviews)'
    <3>1. S \cup {p} = RecordedPreviews'
      BY <1>5, <2>3
    <3> QED BY <1>1, <2>2, <2>4, <3>1 DEF InOrder
  <2>6. expired' \subseteq RecordedPreviews' /\ composed' \subseteq Previews
    BY <1>1, <1>3, <1>5 DEF StoresOK
  <2> QED BY <1>4, <2>5, <2>6 DEF StoresOK
<1>7. IsFiniteSet(RecordedPreviews) /\ Cardinality(RecordedPreviews) \in Nat
      /\ IsFiniteSet(RecordedIn(records))
  <2>1. IsFiniteSet(RecordedPreviews)
    BY <1>3, OrderIsFinite
  <2> QED BY <2>1, FS_CardinalityType DEF RecordedIn, RecordedPreviews
<1>8. ComingUp
  BY <1>1 DEF ComingUp
<1>9. CapacityRespected'
  <2>1. Cardinality(RecordedPreviews') <= MaxPreviews
    <3>1. Cardinality(RecordedPreviews) <= MaxPreviews /\ MaxPreviews \in Nat
      BY PreviewAssumption DEF PreviewInv, CapacityRespected, PreviewAssumption
    <3>2. CASE p \in RecordedPreviews
      <4>1. RecordedPreviews' = RecordedPreviews
        BY <1>5, <3>2
      <4> QED BY <3>1, <4>1
    <3>3. CASE p \notin RecordedPreviews
      <4>1. Cardinality(RecordedPreviews) < MaxPreviews
        BY <1>1, <1>8, <3>3 DEF PreviewInv, Admitted
      <4>2. Cardinality(RecordedPreviews \cup {p}) = Cardinality(RecordedPreviews) + 1
        BY <1>7, <3>3, FS_AddElement
      <4> QED BY <1>5, <1>7, <3>1, <4>1, <4>2
    <3> QED BY <3>2, <3>3
  <2>2. Reserved(records') <= MemoryBudget
    <3>1. Reserved([records EXCEPT ![p] = NoPreview]) + Reservation(job.new.kind) <= MemoryBudget
      BY <1>8 DEF PreviewInv, Admitted
    <3>2. Reserved([records EXCEPT ![p] = job.new])
            = Reserved([records EXCEPT ![p] = NoPreview]) + Reservation(job.new.kind)
      BY <1>1, <1>3, <1>7, RecordReserves
    <3> QED BY <1>1, <3>1, <3>2
  <2>3. \A q, r \in RecordedPreviews' : q # r => records'[q].port # records'[r].port
    <3>1. \A q \in RecordedPreviews \ {p} : records[q].port # job.new.port
      BY <1>8 DEF PreviewInv, Admitted, Others
    <3>2. \A q, r \in RecordedPreviews : q # r => records[q].port # records[r].port
      BY DEF PreviewInv, CapacityRespected
    <3>3. \A q \in RecordedPreviews : q \in Previews
      BY DEF RecordedPreviews
    <3> QED BY <1>4, <1>5, <3>1, <3>2, <3>3
  <2> QED BY <2>1, <2>2, <2>3 DEF CapacityRespected, Reserved
<1>10. JobShape'
  <2>1. \A q \in RecordedPreviews' : records'[q].preview = q
    BY <1>4, <1>5 DEF PreviewInv, JobShape, RecordedPreviews
  <2> QED BY <1>1, <1>2, <1>4, <2>1 DEF PreviewInv, JobShape, Making, TakingDown
<1>11. Admitted'
  <2>1. \A q \in Others' : q \in Others /\ records'[q] = records[q]
    BY <1>2, <1>4, <1>5 DEF Others, RecordedPreviews
  <2>2. [records' EXCEPT ![p] = NoPreview] = [records EXCEPT ![p] = NoPreview]
    BY <1>1, <1>3 DEF Inventory
  <2> QED BY <1>2, <1>4, <1>8, <2>1, <2>2 DEF PreviewInv, Admitted, Reserved
<1>12. EffectsOK' /\ RestOK'
  BY <1>1, <1>2, InHand DEF effects, EffectsOK, RestOK
<1>13. Undone' /\ Made'
  BY <1>2 DEF Undone, Made, TakingDown
<1>14. \A q \in served' : q \in served /\ q \in Previews \ {p} /\ records'[q] = records[q]
                          /\ q \in RecordedPreviews'
  BY <1>1, <1>4, <1>5, InHand
<1>15. ServedAlone'
  BY <1>1, <1>2, <1>14 DEF effects, PreviewInv, ServedAlone, Making, TakingDown
<1>16. EffectsRecorded'
  BY <1>1, <1>5 DEF effects, PreviewInv, EffectsRecorded
<1>17. ServedStaysServed'
  BY <1>1, <1>14 DEF effects, PreviewInv, ServedStaysServed
<1>18. Files'
  <2>1. ByPath(job.new.target) = ByPath(records[p].target) \/ p \notin RecordedPreviews
    BY <1>8 DEF PreviewInv, Admitted
  <2> QED BY <1>1, <1>2, <1>4, <1>5, <2>1
       DEF effects, PreviewInv, Files, TakingDown, RecordedPreviews
<1> QED BY <1>6, <1>9, <1>10, <1>11, <1>12, <1>13, <1>15, <1>16, <1>17, <1>18,
         TypeThen DEF PreviewInv

(* A job begins to take the preview of record r away, or looks for one.    *)
LEMMA BeginsToTakeDown ==
  ASSUME PreviewInv, NEW r \in PreviewRecord, job' \in Jobs,
         UNCHANGED <<stores, effects>>, served' = served \ {r.preview}, RestOK',
         job'.new = NoPreview, job'.pc = "stop", job'.old = r,
         job'.left \subseteq RecordedPreviews, job'.verb # "gc" => job'.left = {},
         r.preview \notin job'.left, stale \subseteq stale',
         r.preview \in RecordedPreviews \ stale' =>
           ByPath(records[r.preview].target) = ByPath(r.target)
  PROVE  PreviewInv'
<1>1. composed' \subseteq Previews /\ StoresOK /\ EffectsOK
  BY InHand DEF stores, StoresOK
<1>2. r # NoPreview /\ r.preview \in Previews
  BY RecordShape
<1>3. /\ RecordedPreviews' = RecordedPreviews /\ StoresOK' /\ CapacityRespected' /\ Admitted'
  BY <1>1, RecordsStay DEF stores
<1>4. JobShape'
  BY <1>2, <1>3 DEF stores, PreviewInv, JobShape, Making, TakingDown
<1>5. Undone' /\ Made' /\ EffectsOK'
  BY <1>1 DEF Undone, Made, effects, EffectsOK
<1>6. ServedAlone'
  BY DEF stores, effects, PreviewInv, ServedAlone, Making
<1>7. EffectsRecorded' /\ ServedStaysServed'
  BY <1>3 DEF stores, effects, PreviewInv, EffectsRecorded, ServedStaysServed
<1>8. Files'
  BY <1>3 DEF stores, effects, PreviewInv, Files, RecordedPreviews
<1> QED BY <1>3, <1>4, <1>5, <1>6, <1>7, <1>8, TypeThen DEF PreviewInv

(* The records are not touched, and no job has anything in hand.           *)
LEMMA NothingBegun ==
  ASSUME PreviewInv, job' \in Jobs, UNCHANGED <<records, byUse, composed, effects, served, stale>>,
         expired' \subseteq RecordedPreviews, RestOK',
         job'.new = NoPreview, job'.pc \notin Making \cup TakingDown,
         job'.left \subseteq RecordedPreviews, job'.verb # "gc" => job'.left = {},
         job'.pc = "reap" => job'.verb \in {"gc", "trim"},
         job'.old # NoPreview => job'.old.preview \notin job'.left
  PROVE  PreviewInv'
<1>1. StoresOK /\ EffectsOK
  BY InHand
<1>2. RecordedPreviews' = RecordedPreviews
  BY DEF RecordedPreviews
<1>3. StoresOK'
  BY <1>1, <1>2 DEF StoresOK, InOrder
<1>4. CapacityRespected' /\ Admitted'
  BY <1>2 DEF PreviewInv, CapacityRespected, Reserved, Admitted, ComingUp
<1>5. JobShape' /\ Undone' /\ Made' /\ EffectsOK'
  BY <1>1, <1>2 DEF PreviewInv, JobShape, Undone, Made, effects, EffectsOK, Making
<1>6. ServedAlone'
  BY DEF effects, PreviewInv, ServedAlone, Making
<1>7. EffectsRecorded' /\ ServedStaysServed'
  BY <1>2 DEF effects, PreviewInv, EffectsRecorded, ServedStaysServed
<1>8. Files'
  <2>1. job'.pc \notin {"reload", "unload"} \cup TakingDown
    BY DEF Making, TakingDown
  <2> QED BY <2>1, FilesStay DEF effects
<1> QED BY <1>3, <1>4, <1>5, <1>6, <1>7, <1>8, TypeThen DEF PreviewInv

(* The first in the order of use is recorded, when any preview is.         *)
LEMMA HeadIsRecorded ==
  ASSUME PreviewInv, RecordedPreviews # {}
  PROVE  /\ Head(byUse) \in RecordedPreviews /\ Head(byUse) \in Previews
         /\ records[Head(byUse)] \in PreviewRecord
         /\ records[Head(byUse)].preview = Head(byUse)
<1>1. InOrder(byUse, RecordedPreviews) /\ StoresOK
  BY InHand DEF StoresOK
<1>2. byUse \in Seq(Previews) /\ {byUse[i] : i \in DOMAIN byUse} = RecordedPreviews
  BY <1>1 DEF InOrder
<1>3. Len(byUse) \in Nat /\ DOMAIN byUse = 1..Len(byUse) /\ byUse # <<>>
  BY <1>2
<1>4. 1 \in DOMAIN byUse /\ Head(byUse) = byUse[1]
  BY <1>2, <1>3
<1>5. Head(byUse) \in RecordedPreviews
  BY <1>2, <1>4
<1> QED BY <1>1, <1>5, RecordShape DEF PreviewInv, JobShape, RecordedPreviews

(* The reaper takes up a preview that is recorded. *)
LEMMA ReapOK ==
  ASSUME PreviewInv, Reap PROVE PreviewInv'
<1>1. /\ job.pc = "reap" /\ job.verb \in {"gc", "trim"} /\ job \in Jobs
      /\ job.left \subseteq RecordedPreviews
      /\ UNCHANGED <<stores, effects, knob, looked, stale, trouble>>
      /\ (job.verb # "gc" => job.left = {})
  BY InHand DEF Reap, PreviewInv, JobShape
<1>3. StoresOK /\ EffectsOK /\ RestOK /\ composed' \subseteq Previews
  BY <1>1, InHand DEF stores, StoresOK
<1>4. CASE job.left # {}
  <2>1. PICK p \in job.left :
          /\ job' = [job EXCEPT !.pc = "stop", !.old = records[p], !.left = @ \ {p}]
          /\ served' = served \ {p}
    BY <1>4 DEF Reap
  <2>2. p \in RecordedPreviews /\ records[p] \in PreviewRecord /\ records[p].preview = p
    BY <1>1, <1>3, <2>1, RecordShape DEF PreviewInv, JobShape
  <2>3. /\ job' \in Jobs /\ job'.pc = "stop" /\ job'.verb = job.verb /\ job'.new = job.new
        /\ job'.old = records[p] /\ job'.left = job.left \ {p}
    BY <1>1, <2>1, <2>2 DEF Jobs, DownSteps
  <2>4. RestOK'
    BY <1>1, <1>3, <2>1, <2>3 DEF RestOK
  <2>5. job.new = NoPreview
    BY <1>1 DEF PreviewInv, JobShape
  <2> QED BY <1>1, <2>1, <2>2, <2>3, <2>4, <2>5, BeginsToTakeDown
<1>5. CASE job.left = {} /\ Cardinality(RecordedPreviews) > knob.max
  <2> DEFINE p == Head(byUse)
  <2>1. /\ job' = [job EXCEPT !.verb = "trim", !.pc = "stop", !.old = records[p]]
        /\ served' = served \ {p}
    BY <1>5 DEF Reap
  <2>2. p \in RecordedPreviews /\ records[p] \in PreviewRecord /\ records[p].preview = p
    <3>1. RecordedPreviews # {}
      <4>1. knob.max \in Nat
        BY <1>3, PreviewAssumption DEF RestOK, PreviewAssumption
      <4>2. Cardinality({}) = 0
        BY FS_EmptySet
      <4> QED BY <1>5, <4>1, <4>2
    <3> QED BY <3>1, HeadIsRecorded
  <2> HIDE DEF p
  <2>3. /\ job' \in Jobs /\ job'.pc = "stop" /\ job'.verb = "trim" /\ job'.new = job.new
        /\ job'.old = records[p] /\ job'.left = job.left
    BY <1>1, <2>1, <2>2 DEF Jobs, DownSteps
  <2>4. RestOK'
    BY <1>1, <1>3, <2>1, <2>3 DEF RestOK
  <2>5. job.new = NoPreview
    BY <1>1 DEF PreviewInv, JobShape
  <2> QED BY <1>1, <1>5, <2>1, <2>2, <2>3, <2>4, <2>5, BeginsToTakeDown
<1>6. CASE job.left = {} /\ ~(Cardinality(RecordedPreviews) > knob.max)
  <2>1. job' = [job EXCEPT !.pc = "idle database"] /\ UNCHANGED served
    BY <1>6 DEF Reap
  <2>2. /\ job' \in Jobs /\ job'.pc = "idle database" /\ job'.verb = job.verb
        /\ job'.new = job.new /\ job'.old = job.old /\ job'.left = job.left
    BY <1>1, <2>1, JobFields DEF Pcs, DownSteps
  <2>3. RestOK'
    BY <1>1, <1>3, <2>1, <2>2 DEF RestOK
  <2>4. job.new = NoPreview
    BY <1>1 DEF PreviewInv, JobShape
  <2>5. job'.pc \notin Making \cup TakingDown
    BY <2>2 DEF Making, TakingDown
  <2>6. expired' \subseteq RecordedPreviews
    BY <1>1, <1>3 DEF stores, StoresOK
  <2> QED BY <1>1, <1>6, <2>1, <2>2, <2>3, <2>4, <2>5, <2>6, NothingBegun DEF stores
<1> QED BY <1>4, <1>5, <1>6

(* What up asks for is a record like any other. *)
LEMMA UpOK ==
  ASSUME PreviewInv, NEW p \in Previews, NEW kind \in Asked(p), Up(p, kind) PROVE PreviewInv'
<1>1. StoresOK /\ EffectsOK /\ RestOK
  BY InHand
<1>2. PICK port \in GatePorts(p) :
        LET new == [preview |-> p, kind |-> kind, target |-> knob.target, port |-> port]
        IN job' = IF Evicts(p)
                    THEN [NoJob EXCEPT !.verb = "up", !.new = new, !.pc = "stop",
                                       !.old = records[Head(byUse)]]
                    ELSE [NoJob EXCEPT !.verb = "up", !.new = new, !.pc = "write"]
  BY DEF Up
<1> DEFINE new == [preview |-> p, kind |-> kind, target |-> knob.target, port |-> port]
<1>3. /\ FitsBudget(p, kind) /\ MayReplace(p, kind, knob.target)
      /\ served' = IF Evicts(p) THEN served \ {Head(byUse)} ELSE served
      /\ UNCHANGED <<stores, effects, knob, looked, stale, trouble>>
  BY DEF Up
<1>4. port \in LowPort..HighPort /\ \A q \in RecordedPreviews \ {p} : records[q].port # port
  <2>1. port \in (LowPort..HighPort) \ UsedPorts(p)
    BY <1>2 DEF GatePorts
  <2> QED BY <2>1 DEF UsedPorts
<1>5. new \in PreviewRecord /\ new.preview = p /\ new.kind = kind /\ new.target = knob.target
      /\ new.port = port
  BY <1>1, <1>4 DEF PreviewRecord, Asked, RestOK
<1>6. new # NoPreview
  BY <1>5, RecordShape
<1> HIDE DEF new
<1>7. RecordedPreviews' = RecordedPreviews /\ StoresOK' /\ EffectsOK' /\ CapacityRespected'
      /\ EffectsRecorded'
  BY <1>1, <1>3 DEF stores, effects, StoresOK, EffectsOK, InOrder, PreviewInv, CapacityRespected,
                    EffectsRecorded, Reserved, RecordedPreviews
<1>8. /\ \A q \in RecordedPreviews \ {p} : records[q].port # new.port
      /\ \A q \in RecordedPreviews : ByPath(records[q].target) => records[q].target = new.target
      /\ Reserved([records EXCEPT ![p] = NoPreview]) + Reservation(new.kind) <= MemoryBudget
  BY <1>3, <1>4, <1>5 DEF FitsBudget, MayReplace
<1>9. p \in RecordedPreviews => ByPath(records[p].target) = ByPath(new.target)
  BY <1>3, <1>5 DEF MayReplace, RecordedPreviews
<1>10. ASSUME job' \in Jobs, job'.verb = "up", job'.new = new,
             job'.pc \in {"write", "idle database"} =>
               p \in RecordedPreviews \/ Cardinality(RecordedPreviews) < MaxPreviews
      PROVE  Admitted'
  BY <1>3, <1>5, <1>7, <1>8, <1>10, <1>9 DEF stores, Admitted, ComingUp, Others, Reserved
<1>11. CASE Evicts(p)
  <2> DEFINE e == Head(byUse)
  <2>1. job' = [NoJob EXCEPT !.verb = "up", !.new = new, !.pc = "stop", !.old = records[e]]
        /\ served' = served \ {e}
    BY <1>2, <1>3, <1>11 DEF new
  <2>2. e \in RecordedPreviews /\ records[e] \in PreviewRecord /\ records[e].preview = e
        /\ records[e] # NoPreview
    BY <1>11, HeadIsRecorded, RecordShape DEF Evicts
  <2> HIDE DEF e
  <2>3. /\ job' \in Jobs /\ job'.verb = "up" /\ job'.new = new /\ job'.pc = "stop"
        /\ job'.old = records[e] /\ job'.left = {}
    BY <1>5, <2>1, <2>2, NoJobIsOne DEF Jobs, DownSteps
  <2>4. Admitted'
    BY <1>10, <2>3
  <2>5. JobShape'
    BY <1>3, <1>7, <2>2, <2>3 DEF stores, PreviewInv, JobShape, Making, TakingDown
  <2>6. RestOK'
    BY <1>1, <1>3, <2>1, <2>3 DEF RestOK
  <2>7. Undone' /\ Made'
    BY <2>3 DEF Undone, Made
  <2>8. ServedAlone'
    BY <1>3, <2>1, <2>2, <2>3 DEF stores, effects, PreviewInv, ServedAlone, Making
  <2>9. ServedStaysServed'
    BY <1>3, <1>7, <2>1 DEF stores, effects, PreviewInv, ServedStaysServed
  <2>10. Files'
    BY <1>3, <1>7, <2>2, <2>3 DEF stores, effects, PreviewInv, Files
  <2> QED BY <1>7, <2>4, <2>5, <2>6, <2>7, <2>8, <2>9, <2>10, TypeThen DEF PreviewInv
<1>12. CASE ~Evicts(p)
  <2>1. job' = [NoJob EXCEPT !.verb = "up", !.new = new, !.pc = "write"] /\ served' = served
    BY <1>2, <1>3, <1>12 DEF new
  <2>2. /\ job' \in Jobs /\ job'.verb = "up" /\ job'.new = new /\ job'.pc = "write"
        /\ job'.old = NoPreview /\ job'.left = {}
    BY <1>5, <2>1, NoJobIsOne DEF Jobs, UpSteps
  <2>3. p \in RecordedPreviews \/ Cardinality(RecordedPreviews) < MaxPreviews
    <3>1. knob.max \in Nat /\ knob.max <= MaxPreviews /\ MaxPreviews \in Nat /\ 0 < MaxPreviews
      BY <1>1, PreviewAssumption DEF RestOK, PreviewAssumption
    <3>2. Cardinality(RecordedPreviews) \in Nat
      <4>1. IsFiniteSet(RecordedPreviews)
        BY <1>1, OrderIsFinite DEF StoresOK
      <4> QED BY <4>1, FS_CardinalityType
    <3>3. CASE RecordedPreviews = {}
      <4>1. Cardinality({}) = 0
        BY FS_EmptySet
      <4> QED BY <3>1, <3>3, <4>1
    <3> QED BY <1>12, <3>1, <3>2, <3>3 DEF Evicts
  <2>4. Admitted'
    BY <1>10, <2>2, <2>3
  <2>5. JobShape'
    BY <1>3, <1>6, <1>7, <2>2 DEF stores, PreviewInv, JobShape, Making, TakingDown
  <2>6. RestOK'
    BY <1>1, <1>3, <2>1, <2>2 DEF RestOK
  <2>7. Undone' /\ Made'
    BY <2>2 DEF Undone, Made, TakingDown
  <2>8. ServedAlone'
    BY <1>3, <2>1, <2>2 DEF stores, effects, PreviewInv, ServedAlone, TakingDown
  <2>9. ServedStaysServed'
    BY <1>3, <1>7, <2>1 DEF stores, effects, PreviewInv, ServedStaysServed
  <2>10. Files'
    BY <1>3, <2>2, FilesStay DEF stores, effects, TakingDown
  <2> QED BY <1>7, <2>4, <2>5, <2>6, <2>7, <2>8, <2>9, <2>10, TypeThen DEF PreviewInv
<1> QED BY <1>11, <1>12

(* A preview that is asked to go is not served from then on. *)
LEMMA TakeDownOK ==
  ASSUME PreviewInv, NEW r \in PreviewRecord, TakeDown(r),
         looked' \in Maybe(PreviewRecord), stale \subseteq stale', stale' \subseteq Previews,
         r.preview \in RecordedPreviews \ stale' =>
           ByPath(records[r.preview].target) = ByPath(r.target)
  PROVE  PreviewInv'
<1>1. /\ job' = [NoJob EXCEPT !.verb = "down", !.pc = "stop", !.old = r]
      /\ served' = served \ {r.preview}
      /\ UNCHANGED <<stores, effects, knob, trouble>>
  BY DEF TakeDown
<1>2. /\ job' \in Jobs /\ job'.pc = "stop" /\ job'.verb = "down" /\ job'.new = NoPreview
      /\ job'.old = r /\ job'.left = {}
  BY <1>1, NoJobIsOne DEF Jobs, DownSteps, Maybe
<1>3. RestOK'
  BY <1>1, <1>2, InHand DEF RestOK
<1> QED BY <1>1, <1>2, <1>3, BeginsToTakeDown

(* The reaper starts with records that are there. *)
LEMMA GcOK ==
  ASSUME PreviewInv, Gc PROVE PreviewInv'
<1>1. /\ job' = [NoJob EXCEPT !.verb = "gc", !.pc = "reap", !.left = expired]
      /\ UNCHANGED <<stores, effects, knob, looked, served, stale, trouble>>
  BY DEF Gc, Due
<1>2. StoresOK /\ RestOK
  BY InHand
<1>3. expired \subseteq RecordedPreviews /\ expired \subseteq Previews
  BY <1>2 DEF StoresOK, RecordedPreviews
<1>4. /\ job' \in Jobs /\ job'.pc = "reap" /\ job'.verb = "gc" /\ job'.new = NoPreview
      /\ job'.old = NoPreview /\ job'.left = expired
  BY <1>1, <1>3, NoJobIsOne DEF Jobs
<1>5. RestOK' /\ job'.pc \notin Making \cup TakingDown
  BY <1>1, <1>2, <1>4 DEF RestOK, Making, TakingDown
<1> QED BY <1>1, <1>3, <1>4, <1>5, NothingBegun DEF stores

(* Steps between two jobs, and the look-up of a waiting down.               *)
LEMMA JobStays ==
  ASSUME PreviewInv, UNCHANGED <<records, byUse, composed, effects, job, served, stale>>,
         expired' \subseteq RecordedPreviews, RestOK'
  PROVE  PreviewInv'
<1>1. StoresOK /\ EffectsOK
  BY InHand
<1>2. RecordedPreviews' = RecordedPreviews
  BY DEF RecordedPreviews
<1>3. StoresOK' /\ EffectsOK'
  BY <1>1, <1>2 DEF StoresOK, InOrder, effects, EffectsOK
<1>4. CapacityRespected' /\ Admitted' /\ JobShape'
  <2>1. CapacityRespected'
    BY <1>2 DEF PreviewInv, CapacityRespected, Reserved
  <2>2. Admitted'
    BY <1>2 DEF PreviewInv, Admitted, ComingUp, Others, Reserved
  <2>3. JobShape'
    BY <1>2 DEF PreviewInv, JobShape
  <2> QED BY <2>1, <2>2, <2>3
<1>5. Undone' /\ Made'
  BY <1>2 DEF effects, PreviewInv, Undone, Made
<1>6. ServedAlone' /\ EffectsRecorded' /\ ServedStaysServed'
  BY <1>2 DEF effects, PreviewInv, ServedAlone, EffectsRecorded, ServedStaysServed
<1>7. Files'
  BY <1>2 DEF effects, PreviewInv, Files
<1> QED BY <1>3, <1>4, <1>5, <1>6, <1>7, TypeThen DEF PreviewInv

(* Only recorded previews expire. *)
LEMMA ExpireOK ==
  ASSUME PreviewInv, Expire PROVE PreviewInv'
<1>1. PICK n \in DOMAIN byUse : expired' = {byUse[i] : i \in 1..n}
  BY DEF Expire
<1>2. StoresOK /\ RestOK
  BY InHand
<1>3. expired' \subseteq RecordedPreviews
  <2>1. byUse \in Seq(Previews) /\ {byUse[i] : i \in DOMAIN byUse} = RecordedPreviews
    BY <1>2 DEF StoresOK, InOrder
  <2>2. \A i \in 1..n : i \in DOMAIN byUse
    BY <2>1
  <2> QED BY <1>1, <2>1, <2>2
<1>4. UNCHANGED <<records, byUse, composed, effects, knob, looked, job, served, stale, trouble>>
  BY DEF Expire
<1>5. RestOK'
  BY <1>2, <1>4 DEF RestOK
<1> QED BY <1>3, <1>4, <1>5, JobStays

(* The operator may set any target and either maximum. *)
LEMMA EditKnobOK ==
  ASSUME PreviewInv, EditKnob PROVE PreviewInv'
<1>1. /\ UNCHANGED <<stores, effects, looked, job, served, stale>>
      /\ trouble < MaxTrouble /\ trouble' = trouble + 1
      /\ knob' \in [target : Targets, max : {MaxPreviews, MaxPreviews - 1}]
  BY DEF EditKnob
<1>2. trouble' \in 0..MaxTrouble
  BY <1>1, InHand, PreviewAssumption DEF RestOK, PreviewAssumption
<1>3. RestOK'
  BY <1>1, <1>2, InHand DEF RestOK
<1>4. expired' \subseteq RecordedPreviews
  BY <1>1, InHand DEF stores, StoresOK
<1> QED BY <1>1, <1>3, <1>4, JobStays DEF stores

(* A waiting down has seen a record. *)
LEMMA LookUpOK ==
  ASSUME PreviewInv, NEW p \in Previews, LookUp(p) PROVE PreviewInv'
<1>1. /\ UNCHANGED <<stores, effects, knob, job, served, stale, trouble>> /\ looked' = records[p]
      /\ p \in RecordedPreviews
  BY DEF LookUp
<1>2. looked' \in Maybe(PreviewRecord)
  BY <1>1, InHand, RecordShape DEF Maybe
<1>3. RestOK'
  BY <1>1, <1>2, InHand DEF RestOK
<1>4. expired' \subseteq RecordedPreviews
  BY <1>1, InHand DEF stores, StoresOK
<1> QED BY <1>1, <1>3, <1>4, JobStays DEF stores

(* down with the lock free, ... *)
LEMMA DownOK ==
  ASSUME PreviewInv, NEW p \in Previews, Down(p) PROVE PreviewInv'
<1>1. TakeDown(records[p]) /\ records[p] \in PreviewRecord /\ looked' \in Maybe(PreviewRecord)
      /\ records[p].preview = p /\ stale' = stale /\ stale \subseteq Previews
  BY InHand, RecordShape DEF Down, RestOK, PreviewInv, JobShape
<1> QED BY <1>1, TakeDownOK

(* ... and down with what it saw before it waited. *)
LEMMA WaitedDownOK ==
  ASSUME PreviewInv, WaitedDown PROVE PreviewInv'
<1>1. TakeDown(looked) /\ looked \in PreviewRecord /\ looked' \in Maybe(PreviewRecord)
      /\ stale \subseteq Previews /\ looked.preview \in Previews
  BY InHand, RecordShape DEF WaitedDown, RestOK, Maybe
<1>2. /\ stale \subseteq stale' /\ stale' \subseteq Previews
      /\ looked.preview \in RecordedPreviews \ stale' =>
           ByPath(records[looked.preview].target) = ByPath(looked.target)
  BY <1>1 DEF WaitedDown, OtherRouting
<1> QED BY <1>1, <1>2, TakeDownOK

(* The invariant holds at first, ... *)
LEMMA PreviewStart == PreviewInit => PreviewInv
<1> SUFFICES ASSUME PreviewInit PROVE PreviewInv
  OBVIOUS
<1>1. RecordedPreviews = {} /\ records \in Inventory
      /\ \A p \in Previews : records[p] = NoPreview
  BY DEF PreviewInit, RecordedPreviews, Inventory, Maybe
<1>2. byUse = <<>> /\ InOrder(byUse, RecordedPreviews)
  BY <1>1 DEF PreviewInit, InOrder
<1>3. StoresOK
  BY <1>1, <1>2 DEF PreviewInit, StoresOK
<1>4. EffectsOK
  BY DEF PreviewInit, EffectsOK
<1>5. job = NoJob /\ served = {}
  BY DEF PreviewInit
<1>6. RestOK
  BY NoJobIsOne, PreviewAssumption DEF PreviewInit, RestOK, Maybe, PreviewAssumption
<1>7. PreviewTypeOK
  BY <1>3, <1>4, <1>6, TypeParts
<1>8. JobShape /\ Admitted /\ Undone /\ Made /\ Files /\ ServedAlone
  BY <1>1, <1>5, NoJobIsOne
  DEF JobShape, Admitted, ComingUp, Undone, Made, Files, ServedAlone, Making, TakingDown,
      PreviewInit
<1>9. CapacityRespected
  <2>1. Cardinality(RecordedPreviews) = 0
    BY <1>1, FS_EmptySet
  <2>2. Reserved(records) = 0
    <3>1. Limits(records) = {}
      BY <1>1 DEF Limits
    <3>2. Reserved(records) = Cardinality(Limits(records))
      BY DEF Reserved, Limits
    <3> QED BY <3>1, <3>2, FS_EmptySet
  <2>3. 0 <= MaxPreviews /\ 0 <= MemoryBudget
    BY PreviewAssumption DEF PreviewAssumption
  <2> QED BY <1>1, <2>1, <2>2, <2>3 DEF CapacityRespected
<1>10. EffectsRecorded /\ ServedStaysServed
  BY DEF PreviewInit, EffectsRecorded, ServedStaysServed
<1> QED BY <1>7, <1>8, <1>9, <1>10 DEF PreviewInv

(* ... every step keeps it, ... *)
LEMMA PreviewStep == PreviewInv /\ [PreviewNext]_previewVars => PreviewInv'
<1> SUFFICES ASSUME PreviewInv, [PreviewNext]_previewVars PROVE PreviewInv'
  OBVIOUS
<1>1. CASE JobStep
  BY <1>1, WriteRecordOK, PrepareDatabaseOK, EnsureIngressOK, ComposeUpOK, WriteRouteOK,
     LoadRouteOK, CleanUpOK, StopContainersOK, DropDatabaseOK, RemoveRouteOK, UnloadRouteOK,
     RemoveNetworksOK, RemoveDirectoryOK, StopIdleServerOK, ReapOK
  DEF JobStep
<1>2. CASE RouteFails \/ UpFails \/ DownFails \/ PreviewCrash
  BY <1>2, RouteFailsOK, UpFailsOK, DownFailsOK, PreviewCrashOK
<1>3. ASSUME NEW p \in Previews, NEW kind \in Asked(p), Up(p, kind) PROVE PreviewInv'
  BY <1>3, UpOK
<1>4. ASSUME NEW p \in Previews, LookUp(p) \/ Down(p) PROVE PreviewInv'
  BY <1>4, LookUpOK, DownOK
<1>5. CASE WaitedDown \/ Gc \/ Expire \/ EditKnob
  BY <1>5, WaitedDownOK, GcOK, ExpireOK, EditKnobOK
<1>6. CASE UNCHANGED previewVars
  <2>1. UNCHANGED <<stores, effects, knob, looked, job, served, stale, trouble>>
    BY <1>6 DEF previewVars
  <2>2. RestOK' /\ expired' \subseteq RecordedPreviews
    BY <2>1, InHand DEF stores, StoresOK, RestOK
  <2> QED BY <2>1, <2>2, JobStays DEF stores
<1> QED BY <1>1, <1>2, <1>3, <1>4, <1>5, <1>6 DEF PreviewNext

(* ... and so it always holds. *)
LEMMA PreviewSafe == PreviewSpec => []PreviewInv
<1> QED BY PreviewStart, PreviewStep, PTL DEF PreviewSpec

(* For any number of previews, targets, ports and limits, and whatever     *)
(* fails or dies: every store, effect and job of the previews has its type, *)
(* and the order of use names each recorded preview exactly once.          *)
THEOREM PreviewsAreTyped == PreviewSpec => []PreviewTypeOK
<1>1. PreviewInv => PreviewTypeOK
  BY DEF PreviewInv
<1> QED BY <1>1, PreviewSafe, PTL

(* However previews are made, replaced, evicted and reaped, their number,  *)
(* their memory reservations and their ports stay within the host's limits. *)
THEOREM CapacityIsRespected == PreviewSpec => []CapacityRespected
<1>1. PreviewInv => CapacityRespected
  BY DEF PreviewInv
<1> QED BY <1>1, PreviewSafe, PTL

(* Whatever runs or is attached for a preview has a record that the next   *)
(* cleanup starts from, wherever a job failed or died, and so has a route  *)
(* file, unless the preview was taken down by a record of the other        *)
(* routing.                                                                *)
THEOREM EffectsAreRecorded == PreviewSpec => []EffectsRecorded
<1>1. PreviewInv => EffectsRecorded
  BY DEF PreviewInv
<1> QED BY <1>1, PreviewSafe, PTL

(* No job of another preview, failed or dead, takes a served preview's     *)
(* containers, database or host name from it.                              *)
THEOREM ServedPreviewsStay == PreviewSpec => []ServedStaysServed
<1>1. PreviewInv => ServedStaysServed
  BY DEF PreviewInv
<1> QED BY <1>1, PreviewSafe, PTL
-----------------------------------------------------------------------------
(* Whichever part moves, each of the two makes its own steps or none.      *)
LEMMA PartsOfAdmits == AdmitsSpec => AdmissionSpec /\ PreviewSpec
<1>1. AdmitsInit => AdmissionInit /\ PreviewInit
  BY DEF AdmitsInit
<1>2. [AdmitsNext]_admitsVars => [AdmissionNext]_admissionVars /\ [PreviewNext]_previewVars
  BY DEF AdmitsNext, Turn, admitsVars
<1> QED BY <1>1, <1>2, PTL DEF AdmitsSpec, AdmissionSpec, PreviewSpec

(* What is shown of the releases and of the previews holds of HostAdmits,   *)
(* where it is checked.                                                    *)
THEOREM AdmitsAreSafe ==
  AdmitsSpec => /\ []CapacityRespected /\ []EffectsRecorded /\ []ServedStaysServed
                /\ AcceptedKept /\ ForwardOnly
BY PartsOfAdmits, CapacityIsRespected, EffectsAreRecorded, ServedPreviewsStay, AcceptancesAreKept,
   StatefulGoesForward, PTL
=============================================================================
