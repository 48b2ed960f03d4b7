-------------------------- MODULE ReleaseAdmission --------------------------
(***************************************************************************)
(* How one application admits releases: host/workload/admission.rs, the    *)
(* checks of workload/release.rs, delivery.rs and stateful.rs, and the     *)
(* retained revisions of host/workload/transaction.rs.                     *)
(*                                                                         *)
(* A release is a commit and the build whose images its manifest names.    *)
(* The host keeps the first acceptance of a commit, with the time it was   *)
(* verified, and every later admission of that commit is measured against  *)
(* it.  deployment-submit and release-secrets admit under the              *)
(* application's lock (release-admit has only callers that hold it), but   *)
(* read the policy, and check the delivery grant and the proof, before     *)
(* they have it; release-bootstrap, trust, delivery-enable and             *)
(* delivery-authorize take no lock at all.  What the worker does with the  *)
(* queued request is reduced to its three ends: see ActivationWorker for   *)
(* the steps in between.                                                   *)
(***************************************************************************)
EXTENDS Naturals

CONSTANTS Commits, Builds, Sources, Admitters, NoCommit, MaxClock,
          AdmissionKinds,    \* the verbs of each admitter, of VerbKinds
          FirstPolicies,     \* how the application may be registered
          PolicyEdits        \* bound: the changes of policy, <<from, to>>, that
                             \* the operator makes

ASSUME AdmissionAssumption ==
    /\ NoCommit \notin Commits \cup Builds \cup Sources \cup Admitters
    /\ MaxClock \in Nat \ {0}

\* The life of an Actions proof (ten minutes) and of a delivery grant (at
\* most four hours), in ticks of the clock, and the proof of an empty wire.
ProofLife == 0
GrantLife == 1
NoProof == [build |-> NoCommit, issued |-> 0]
Unaccepted == [build |-> NoCommit, source |-> NoCommit, at |-> 0, authority |-> NoCommit]
NoRetention == [current |-> NoCommit, previous |-> NoCommit]
NoGrant == [source |-> NoCommit, until |-> 0]
Nobody == NoCommit

Verifications == [build: Builds, issued: 1..MaxClock] \cup {NoProof}
Authorities == {"proof", "bootstrap"}
Acceptances == [build: Builds, source: Sources, at: 1..MaxClock, authority: Authorities]
               \cup {Unaccepted}
Policies == [source: Sources, delivery: BOOLEAN, stateful: BOOLEAN, owner: BOOLEAN]
NoCall == [pc |-> "idle"]
VerbKinds == {"submit", "secrets", "admit", "bootstrap"}
CallSteps == {"waiting", "writing", "admitted", "looking", "bootstrapping"}
Calls == [pc: CallSteps,
          kind: VerbKinds, commit: Commits, proof: Verifications,
          policy: Policies, release: Acceptances] \cup {NoCall}

ASSUME PolicyAssumption ==
    /\ AdmissionKinds \in [Admitters -> SUBSET VerbKinds]
    /\ FirstPolicies \subseteq Policies

VARIABLES policy,    \* /etc/komizo/workloads/<app>.json
          accepted,  \* releases/<app>/<commit>.json
          grants,    \* deliveries/<app>/<commit>.json
          retained,  \* .komizo-image-retention
          env,       \* the revision of .env
          journal,   \* the phase, and the previous revision, of operation.json
          request,   \* pending.json
          lockedBy,  \* the application's deployment lock
          clock,
          calls

admissionVars == <<policy, accepted, grants, retained, env, journal,
                   request, lockedBy, clock, calls>>

\* The queued request: what it deploys, and the policy whose hash it carries.
NoRequest == [commit |-> NoCommit]

(***************************************************************************)
(* What is checked.                                                        *)
(***************************************************************************)
(* check_delivery: where delivery is protected, a commit needs a grant for
   this repository that has not expired. *)
CheckDelivery(p, c) ==
    p.delivery => grants[c].source = p.source /\ grants[c].until > clock

(* verify_actions: a token counts within its ten minutes. *)
Fresh(proof) == clock <= proof.issued + ProofLife

(* verify_release: the proof is of the approved workflow of the policy's
   repository, for this commit, and fresh. *)
VerifiedRelease(p, proof) == ~p.owner /\ proof # NoProof /\ Fresh(proof)

(* approve_owner_release: what the owner approves has no life of its own. *)
ApprovedByOwner(p, proof) == p.owner /\ proof # NoProof

Verified(p, proof) == VerifiedRelease(p, proof) \/ ApprovedByOwner(p, proof)

(* ReleaseAcceptance::check: an acceptance counts only under the authority
   it was made by. *)
AcceptedUnder(p, release) == release # Unaccepted /\ release.source = p.source

(* rollback_allowed *)
RollbackAllowed(p, c) ==
    /\ retained # NoRetention
    /\ c = retained.current \/ (~p.stateful /\ c = retained.previous)

(* initial_retry_allowed and empty_registration: nothing of a first
   deployment may have been installed. *)
InitialRetryAllowed ==
    /\ journal.phase \in {"none", "reconciled"}
    /\ journal.previous = NoCommit
    /\ env = NoCommit /\ retained = NoRetention

(* Bug: the retry is measured by the proof it brings, not by the acceptance
   it will use. *)
RetryByNewProof(p, c, release) ==
    \/ ~p.stateful
    \/ retained = NoRetention /\ InitialRetryAllowed
    \/ retained # NoRetention /\ AcceptedUnder(p, accepted[retained.current])

(* stateful_retry: a stateful application goes back to an accepted release
   only if it is the current one, or was verified after the current one. *)
StatefulRetry(p, c, release) ==
    \/ ~p.stateful
    \/ retained = NoRetention /\ InitialRetryAllowed
    \/ retained # NoRetention /\ c = retained.current
    \/ /\ retained # NoRetention
       /\ AcceptedUnder(p, accepted[retained.current])
       /\ release.at > accepted[retained.current].at

(***************************************************************************)
(* The verbs that admit.  Each ends at any step when its context expires.  *)
(***************************************************************************)
SetCall(a, pc, release) ==
    calls' = [calls EXCEPT ![a].pc = pc, ![a].release = release]

Idle(a) == calls[a] = NoCall
Leave(a) == calls' = [calls EXCEPT ![a] = NoCall]

(* The verb reads the policy and its input, and checks the grant and the
   proof before it waits for the lock.  Secrets need a proof, and an owner's
   approval is none for them. *)
BeginAdmission(a) ==
    /\ Idle(a)
    /\ \E kind \in AdmissionKinds[a] \ {"bootstrap"}, c \in Commits,
          proof \in {v \in Verifications : v = NoProof \/ v.issued = clock} :
         /\ CheckDelivery(policy, c)
         /\ kind = "secrets" => VerifiedRelease(policy, proof)
         /\ calls' = [calls EXCEPT ![a] = [pc |-> "waiting", kind |-> kind,
                          commit |-> c, proof |-> proof, policy |-> policy,
                          release |-> Unaccepted]]
    /\ UNCHANGED <<policy, accepted, grants, retained, env, journal,
                   request, lockedBy, clock>>

(* Bug: an accepted commit is admitted again with whatever images the new
   proof names. *)
AcceptsAgain(a) ==
    LET call == calls[a] p == call.policy c == call.commit IN
    /\ Verified(p, call.proof)
    /\ SetCall(a, "writing",
               [build |-> call.proof.build, source |-> p.source, at |-> clock,
                authority |-> "proof"])

(* A proof decides: a commit accepted before keeps its acceptance, and must
   name the same images; a commit seen for the first time is accepted now. *)
WithProof(a) ==
    LET call == calls[a] p == call.policy c == call.commit IN
    /\ Verified(p, call.proof)
    /\ IF accepted[c] # Unaccepted
       THEN /\ accepted[c].build = call.proof.build
            /\ StatefulRetry(p, c, accepted[c])
            /\ SetCall(a, "admitted", accepted[c])
       ELSE SetCall(a, "writing",
                    [build |-> call.proof.build, source |-> p.source, at |-> clock,
                     authority |-> "proof"])

(* Without a proof only a retained revision that is already accepted is
   admitted, and nothing where delivery is protected. *)
WithoutProof(a) ==
    LET call == calls[a] p == call.policy c == call.commit IN
    /\ call.proof = NoProof
    /\ ~p.delivery /\ accepted[c] # Unaccepted /\ RollbackAllowed(p, c)
    /\ SetCall(a, "admitted", accepted[c])

(* admit, under the lock: submissions want an idle queue as well. *)
Admit(a) ==
    LET call == calls[a] p == call.policy c == call.commit IN
    /\ call.pc = "waiting" /\ lockedBy = Nobody
    /\ call.kind = "submit" => request = NoRequest
    /\ CheckDelivery(p, c)
    /\ accepted[c] # Unaccepted => AcceptedUnder(p, accepted[c])
    /\ WithProof(a) \/ WithoutProof(a)
    /\ lockedBy' = a
    /\ UNCHANGED <<policy, accepted, grants, retained, env, journal,
                   request, clock>>

(* The acceptance of a commit seen for the first time is written. *)
WriteAcceptance(a) ==
    /\ calls[a].pc = "writing"
    /\ accepted' = [accepted EXCEPT ![calls[a].commit] = calls[a].release]
    /\ SetCall(a, "admitted", calls[a].release)
    /\ UNCHANGED <<policy, grants, retained, env, journal, request,
                   lockedBy, clock>>

(* A submission records its operation and queues a request with the hash of
   the policy as the file is now; the other verbs have their answer. *)
EndAdmission(a) ==
    LET call == calls[a] IN
    /\ call.pc = "admitted"
    /\ IF call.kind = "submit" /\ journal.phase # "staging_failed"
       THEN /\ journal' = [phase |-> "admitted", previous |-> env]
            /\ request' = [commit |-> call.commit, previous |-> env,
                           policy |-> policy]
       ELSE UNCHANGED <<journal, request>>
    /\ lockedBy' = Nobody
    /\ Leave(a)
    /\ UNCHANGED <<policy, accepted, grants, retained, env, clock>>

(* The context expires, a check fails or a write does: the verb ends and the
   lock goes with it. *)
GiveUp(a) ==
    /\ ~Idle(a)
    /\ lockedBy' = IF lockedBy = a THEN Nobody ELSE lockedBy
    /\ Leave(a)
    /\ UNCHANGED <<policy, accepted, grants, retained, env, journal,
                   request, clock>>

(* deployment-submit --local-only: the retained current revision again. *)
SubmitLocal ==
    /\ lockedBy = Nobody /\ request = NoRequest
    /\ env # NoCommit /\ env = retained.current
    /\ journal.phase \in {"ready", "reconciled"}
    /\ AcceptedUnder(policy, accepted[env])
    /\ journal' = [phase |-> "admitted", previous |-> env]
    /\ request' = [commit |-> env, previous |-> env, policy |-> policy]
    /\ UNCHANGED <<policy, accepted, grants, retained, env, lockedBy,
                   clock, calls>>

(* release-bootstrap: root accepts a commit from local images.  It makes the
   acceptance, which no stateful policy allows, looks whether there is one
   already, and writes its own: all without a lock. *)
BeginBootstrap(a) ==
    /\ Idle(a) /\ "bootstrap" \in AdmissionKinds[a] /\ ~policy.stateful
    /\ \E c \in Commits, b \in Builds :
         calls' = [calls EXCEPT ![a] = [pc |-> "looking", kind |-> "bootstrap",
                      commit |-> c, proof |-> NoProof, policy |-> policy,
                      release |-> [build |-> b, source |-> policy.source, at |-> clock,
                                   authority |-> "bootstrap"]]]
    /\ UNCHANGED <<policy, accepted, grants, retained, env, journal,
                   request, lockedBy, clock>>

LookBootstrap(a) ==
    /\ calls[a].pc = "looking" /\ accepted[calls[a].commit] = Unaccepted
    /\ SetCall(a, "bootstrapping", calls[a].release)
    /\ UNCHANGED <<policy, accepted, grants, retained, env, journal,
                   request, lockedBy, clock>>

WriteBootstrap(a) ==
    /\ calls[a].pc = "bootstrapping"
    /\ accepted' = [accepted EXCEPT ![calls[a].commit] = calls[a].release]
    /\ Leave(a)
    /\ UNCHANGED <<policy, grants, retained, env, journal, request,
                   lockedBy, clock>>

(***************************************************************************)
(* The root operator's edits of the policy and the grants, without a lock. *)
(***************************************************************************)
(* trust *)
Trust(s) ==
    /\ ~policy.owner
    /\ policy' = [policy EXCEPT !.source = s]
    /\ <<policy, policy'>> \in PolicyEdits
    /\ UNCHANGED <<accepted, grants, retained, env, journal, request,
                   lockedBy, clock, calls>>

(* delivery-enable *)
EnableDelivery ==
    /\ ~policy.owner /\ ~policy.delivery
    /\ policy' = [policy EXCEPT !.delivery = TRUE]
    /\ <<policy, policy'>> \in PolicyEdits
    /\ UNCHANGED <<accepted, grants, retained, env, journal, request,
                   lockedBy, clock, calls>>

(* delivery-authorize: a grant for the repository the policy names now.
   Bound: the operator issues grants once they are asked for. *)
AuthorizeDelivery(c) ==
    /\ policy.delivery
    /\ grants' = [grants EXCEPT ![c] = [source |-> policy.source,
                                        until |-> clock + GrantLife]]
    /\ UNCHANGED <<policy, accepted, retained, env, journal, request,
                   lockedBy, clock, calls>>

(***************************************************************************)
(* The worker, by its ends.                                                *)
(***************************************************************************)
WorkerFree == request # NoRequest /\ lockedBy = Nobody

(* The request is refused, or its staging fails and the files are put back;
   the second is fenced until it is reconciled. *)
Refuse ==
    /\ WorkerFree
    /\ \E phase \in {"failed", "staging_failed"} :
         journal' = [journal EXCEPT !.phase = phase]
    /\ request' = NoRequest
    /\ UNCHANGED <<policy, accepted, grants, retained, env, lockedBy,
                   clock, calls>>

(* Staging wants the policy the request was queued under and an acceptance
   that it honours. *)
Stageable ==
    /\ request.policy = policy
    /\ AcceptedUnder(policy, accepted[request.commit])

(* The activation fails between `configured` and `activating`: the files are
   the candidate's, and nothing is fenced. *)
FailConfigured ==
    /\ WorkerFree /\ Stageable
    /\ env' = request.commit
    /\ journal' = [journal EXCEPT !.phase = "failed"]
    /\ request' = NoRequest
    /\ UNCHANGED <<policy, accepted, grants, retained, lockedBy, clock,
                   calls>>

(* The candidate is serving; retain_workload records it unless it was the
   installed revision already. *)
Accept ==
    /\ WorkerFree /\ Stageable
    /\ env' = request.commit
    /\ retained' = IF request.commit # request.previous
                   THEN [current |-> request.commit, previous |-> request.previous]
                   ELSE retained
    /\ journal' = [journal EXCEPT !.phase = "ready"]
    /\ request' = NoRequest
    /\ UNCHANGED <<policy, accepted, grants, lockedBy, clock, calls>>

(* A staging failure is reconciled: the installed revision is untouched. *)
Reconcile ==
    /\ lockedBy = Nobody /\ request = NoRequest /\ journal.phase = "staging_failed"
    /\ journal' = [journal EXCEPT !.phase = "reconciled"]
    /\ UNCHANGED <<policy, accepted, grants, retained, env, request,
                   lockedBy, clock, calls>>

Tick ==
    /\ clock < MaxClock
    /\ clock' = clock + 1
    /\ UNCHANGED <<policy, accepted, grants, retained, env, journal,
                   request, lockedBy, calls>>

(***************************************************************************)
(* The specification.                                                      *)
(***************************************************************************)
AdmissionInit ==
    /\ policy \in FirstPolicies
    /\ accepted = [c \in Commits |-> Unaccepted]
    /\ grants = [c \in Commits |-> NoGrant]
    /\ retained = NoRetention /\ env = NoCommit
    /\ journal = [phase |-> "none", previous |-> NoCommit]
    /\ request = NoRequest /\ lockedBy = Nobody /\ clock = 1
    /\ calls = [a \in Admitters |-> NoCall]

AdmissionNext ==
    \/ \E a \in Admitters : \/ BeginAdmission(a)
                            \/ Admit(a)
                            \/ WriteAcceptance(a)
                            \/ EndAdmission(a)
                            \/ GiveUp(a)
                            \/ BeginBootstrap(a)
                            \/ LookBootstrap(a)
                            \/ WriteBootstrap(a)
    \/ SubmitLocal
    \/ \E c \in Commits : AuthorizeDelivery(c)
    \/ \E s \in Sources : Trust(s)
    \/ EnableDelivery
    \/ Refuse \/ FailConfigured \/ Accept \/ Reconcile
    \/ Tick

AdmissionSpec == AdmissionInit /\ [][AdmissionNext]_admissionVars

(***************************************************************************)
(* Properties.                                                             *)
(***************************************************************************)
(* Type invariant; the lock is held only by a verb that is at work. *)
AdmissionTypeOK ==
    /\ policy \in Policies
    /\ accepted \in [Commits -> Acceptances]
    /\ env \in Commits \cup {NoCommit}
    /\ calls \in [Admitters -> Calls]
    /\ lockedBy = Nobody \/ ~Idle(lockedBy)

(* What a commit was first accepted with is what it keeps, whichever verbs
   admit it again, with whatever proofs, and however the policy changes in
   between (admission.rs: admit).  The one exception is release-bootstrap:
   an acceptance may be replaced where a bootstrap and another verb, or two
   bootstraps, had both looked before either wrote. *)
AcceptedKept ==
    [][\A c \in Commits : accepted[c] # Unaccepted /\ accepted'[c] # accepted[c] =>
         /\ "bootstrap" \in {accepted[c].authority, accepted'[c].authority}
         /\ \E a \in Admitters :
              calls[a].pc \in {"writing", "bootstrapping"} /\ calls[a].commit = c]_admissionVars

(* No operation of a stateful application is queued for a release that was
   accepted before the one the host calls current (transaction.rs:
   rollback_allowed, stateful_retry): the data has moved on since. *)
ForwardOnly ==
    [][(/\ request' # request /\ request' # NoRequest
        /\ policy.stateful /\ retained # NoRetention
        /\ request'.commit # retained.current)
       => accepted[request'.commit].at >= accepted[retained.current].at]_admissionVars
=============================================================================
