--------------------------- MODULE HostEndsProofs ---------------------------
(***************************************************************************)
(* Theorems about two parts of module HostEnds.                            *)
(*                                                                         *)
(* operation.json, for any sets of identities and revisions, keeps its     *)
(* type, implements the decision log and never concludes an operation      *)
(* late.  The type invariant is inductive as it stands.  What the steps do *)
(* to the phase is settled once, in the lemmas about Recorded and Legal;   *)
(* the refinement then maps an admission to Open, the clock to a stutter,  *)
(* and the record of a later phase to the step of the log that its         *)
(* decision calls for.                                                     *)
(*                                                                         *)
(* The host is one command's at a time, and nothing moves behind the       *)
(* platform's fence: OneInside and FenceHolds for any number of processes  *)
(* and of applications, whatever dies wherever.                            *)
(***************************************************************************)
EXTENDS HostEnds, FiniteSetTheorems, TLAPS

(***************************************************************************)
(* The journal of an operation (workload/activation.rs).                   *)
(***************************************************************************)
(* Every phase a caller may record is a phase of the contract. *)
LEMMA RecordedPhase ==
  ASSUME NEW from \in Phases, NEW to \in Phases
  PROVE  Recorded(from, to) \in Phases
BY DEF Recorded, Phases

(* record() never leaves a final phase. *)
LEMMA FinalStays ==
  ASSUME NEW from \in Final, NEW to \in Phases, Legal(from, Recorded(from, to))
  PROVE  Recorded(from, to) = from
BY DEF Final, Phases, Legal, Recorded, Reconcilable, Fence, Follows

(* An operation that refused can only be accepted by readiness that passed *)
(* after all, or be reconciled, or refuse again.                           *)
LEMMA RefusedSteps ==
  ASSUME NEW from \in Phases, NEW to \in Phases,
         Decision[from] = "refused", Legal(from, Recorded(from, to))
  PROVE  \/ Recorded(from, to) = from
         \/ Recorded(from, to) = "reconciled"
         \/ from = "readiness_failed" /\ Recorded(from, to) = "ready"
         \/ Recorded(from, to) = "failed"
BY DEF Phases, Legal, Recorded, Reconcilable, Fence, Follows, Decision

(* What record() accepts after the deadline concludes nothing. *)
LEMMA LatePhases ==
  ASSUME NEW from \in Phases, NEW to \in Phases, MayRecord(from, to, TRUE)
  PROVE  Decision[Recorded(from, to)] \in {"refused", "reconciled"}
<1>1. Recorded(from, to) \in AfterDeadline
  BY DEF MayRecord
<1> QED
  BY <1>1 DEF AfterDeadline, Decision
------------------------------------------------------------------------------
(* An admission keeps the journal well typed ... *)
LEMMA AdmitType ==
  ASSUME TypeOK, NEW c \in Revisions, NEW p \in Revisions \cup {NoRevision}, Admit(c, p)
  PROVE  TypeOK'
<1>1. PICK id \in Ids : op' = [id |-> id, candidate |-> c, previous |-> p, phase |-> "admitted"]
  BY DEF Admit
<1>2. op' \in Operation
  BY <1>1 DEF Operation, Phases
<1> QED
  BY <1>2 DEF TypeOK, Admit

(* ... and so does an advance. *)
LEMMA AdvanceType ==
  ASSUME TypeOK, NEW c \in Revisions, NEW p \in Revisions \cup {NoRevision},
         NEW ph \in Phases, Advance(c, p, ph)
  PROVE  /\ op \in Operation /\ op' \in Operation
         /\ op' = [op EXCEPT !.phase = Recorded(op.phase, ph)]
         /\ TypeOK'
<1>1. op \in Operation /\ op.phase \in Phases
  BY DEF TypeOK, Advance, Operation
<1>2. Recorded(op.phase, ph) \in Phases
  BY <1>1, RecordedPhase
<1>3. op' \in Operation
  BY <1>1, <1>2 DEF Advance, Operation
<1> QED
  BY <1>1, <1>3 DEF Advance, TypeOK

(* operation.json holds no operation or a whole one. *)
THEOREM TypeInvariant == Spec => []TypeOK
<1>1. Init => TypeOK
  BY DEF Init, TypeOK
<1>2. TypeOK /\ [Next]_vars => TypeOK'
  <2> SUFFICES ASSUME TypeOK, [Next]_vars PROVE TypeOK'
    OBVIOUS
  <2>1. ASSUME NEW c \in Revisions, NEW p \in Revisions \cup {NoRevision}, Admit(c, p)
        PROVE  TypeOK'
    BY <2>1, AdmitType
  <2>2. ASSUME NEW c \in Revisions, NEW p \in Revisions \cup {NoRevision},
               NEW ph \in Phases, Advance(c, p, ph)
        PROVE  TypeOK'
    BY <2>2, AdvanceType
  <2>3. CASE DeadlinePasses
    BY <2>3 DEF DeadlinePasses, TypeOK
  <2>4. CASE UNCHANGED vars
    BY <2>4 DEF vars, TypeOK
  <2> QED
    BY <2>1, <2>2, <2>3, <2>4 DEF Next
<1> QED
  BY <1>1, <1>2, PTL DEF Spec
------------------------------------------------------------------------------
(* What an admission does to the entry of its operation. *)
LEMMA AdmitOpens ==
  ASSUME TypeOK, NEW c \in Revisions, NEW p \in Revisions \cup {NoRevision}, Admit(c, p)
  PROVE  Log!Open
<1>1. PICK id \in Ids : /\ op # NoOperation => id # op.id
                       /\ op' = [id |-> id, candidate |-> c, previous |-> p,
                                 phase |-> "admitted"]
  BY DEF Admit
<1>2. op' # NoOperation
  <2>1. op' \in Operation
    BY <1>1 DEF Operation, Phases
  <2> QED
    BY <2>1, JournalAssumption DEF Operation
<1>3. Held = "nothing"
  BY DEF Admit, MayAdmit, Held
<1>4. CurrentId' = id /\ id # CurrentId
  BY <1>1, <1>2, JournalAssumption DEF CurrentId
<1>5. CurrentDecision' = "pending"
  BY <1>1, <1>2 DEF CurrentDecision, Decision
<1>6. Held' = "nothing"
  BY <1>1 DEF Held, Fence
<1> QED
  BY <1>3, <1>4, <1>5, <1>6 DEF Log!Open

(* What a phase holds against the next operation, and how a record moves it. *)
LEMMA HeldByPhase ==
  ASSUME op \in Operation
  PROVE  /\ op.phase = "activating" => Held = "starting"
         /\ op.phase \in Fence \ {"activating"} => Held = "files"
         /\ op.phase \notin Fence => Held = "nothing"
<1>1. op # NoOperation
  BY JournalAssumption DEF Operation
<1> QED
  BY <1>1 DEF Held, Fence

(* An undecided operation that is recorded as undecided goes on working, a  *)
(* refusal takes one step off what is held, and a conclusion all of it.     *)
LEMMA PendingSteps ==
  ASSUME NEW from \in Phases, NEW to \in Phases, from # to, Legal(from, to),
         Decision[from] = "pending"
  PROVE  \/ from = "admitted" /\ to \in {"configured", "staging", "failed"}
         \/ from = "staging" /\ to \in {"configured", "staging_failed", "failed", "reconciled"}
         \/ /\ from = "configured"
            /\ to \in {"activating", "prepared_stopped", "failed", "reconciled"}
         \/ /\ from = "activating"
            /\ to \in {"activated", "prepared_stopped", "activation_failed", "failed",
                       "reconciled"}
         \/ /\ from = "activated"
            /\ to \in {"ready", "readiness_failed", "prepared_stopped", "failed"}
BY DEF Phases, Legal, Reconcilable, Fence, Follows, Decision

(* The phase decides which step of the log a later record is. *)
LEMMA AdvanceFollows ==
  ASSUME TypeOK, NEW c \in Revisions, NEW p \in Revisions \cup {NoRevision},
         NEW ph \in Phases, Advance(c, p, ph)
  PROVE  [Log!Next]_(Log!vars)
<1> DEFINE from == op.phase
           to   == Recorded(op.phase, ph)
<1>1. /\ op \in Operation /\ op' \in Operation
      /\ op' = [op EXCEPT !.phase = to]
  BY AdvanceType
<1>2. op # NoOperation /\ op' # NoOperation
  BY <1>1, JournalAssumption DEF Operation
<1>3. from \in Phases /\ to \in Phases /\ op'.phase = to /\ op'.id = op.id
  BY <1>1 DEF Operation
<1>4. CurrentId' = CurrentId
  BY <1>2, <1>3 DEF CurrentId
<1>5. CurrentDecision = Decision[from] /\ CurrentDecision' = Decision[to]
  BY <1>2, <1>3 DEF CurrentDecision
<1>6. /\ from = "activating" => Held = "starting"
      /\ from \in Fence \ {"activating"} => Held = "files"
      /\ from \notin Fence => Held = "nothing"
  BY <1>1, HeldByPhase
<1>7. /\ to = "activating" => Held' = "starting"
      /\ to \in Fence \ {"activating"} => Held' = "files"
      /\ to \notin Fence => Held' = "nothing"
  BY <1>2, <1>3 DEF Held, Fence
<1>8. Legal(from, to)
  BY DEF Advance, MayRecord
<1> HIDE DEF from, to
<1>9. CASE from = to
  BY <1>4, <1>5, <1>6, <1>7, <1>9 DEF Log!vars, Fence
<1>10. CASE from # to /\ Decision[from] = "pending"
  <2>1. CASE to \in {"configured", "staging", "activating", "activated"}
    <3>1. CurrentDecision = "pending" /\ CurrentDecision' = "pending"
      BY <1>5, <1>10, <2>1 DEF Decision
    <3>2. CASE from = "staging"
      BY <1>3, <1>4, <1>6, <1>7, <1>8, <1>10, <2>1, <3>1, <3>2, PendingSteps DEF Log!vars, Fence
    <3>3. CASE from # "staging"
      <4>1. \/ from = "admitted" /\ to \in {"configured", "staging"}
            \/ from = "configured" /\ to = "activating"
            \/ from = "activating" /\ to = "activated"
        BY <1>3, <1>8, <1>10, <2>1, <3>3, PendingSteps
      <4>2. \/ Held = "nothing" /\ Held' = "files"
            \/ Held = "files" /\ Held' = "starting"
            \/ Held = "starting" /\ Held' = "nothing"
        BY <1>6, <1>7, <4>1 DEF Fence
      <4> QED BY <1>4, <3>1, <4>2 DEF Log!Next, Log!Work
    <3> QED BY <3>2, <3>3
  <2>2. CASE to \in {"failed", "staging_failed", "activation_failed", "readiness_failed"}
    <3>1. CurrentDecision = "pending" /\ CurrentDecision' = "refused"
      BY <1>5, <1>10, <2>2 DEF Decision
    <3>2. ~(from = "activating" /\ to = "failed")
      BY DEF Recorded, from, to
    <3>3. \/ Held = "starting" /\ Held' = "files"
          \/ Held = "files" /\ Held' \in {"files", "nothing"}
          \/ Held = "nothing" /\ Held' = "nothing"
      BY <1>3, <1>6, <1>7, <1>8, <1>10, <2>2, <3>2, PendingSteps DEF Fence
    <3> QED BY <1>4, <3>1, <3>3 DEF Log!Next, Log!Refuse
  <2>3. CASE to \in {"ready", "prepared_stopped"}
    <3>1. CurrentDecision = "pending"
      BY <1>5, <1>10
    <3>2. \/ CurrentDecision' = "accepted" /\ Held = "nothing"
          \/ CurrentDecision' = "owner_stopped"
      BY <1>3, <1>5, <1>6, <1>8, <1>10, <2>3, PendingSteps DEF Decision, Fence
    <3>3. Held' = "nothing"
      BY <1>7, <2>3 DEF Fence
    <3> QED BY <1>4, <3>1, <3>2, <3>3 DEF Log!Next, Log!Conclude
  <2>4. CASE to = "reconciled"
    <3>1. CurrentDecision = "pending" /\ CurrentDecision' = "reconciled"
      BY <1>5, <1>10, <2>4 DEF Decision
    <3>2. Held # "nothing" /\ Held' = "nothing"
      BY <1>3, <1>6, <1>7, <1>8, <1>10, <2>4, PendingSteps DEF Fence
    <3> QED BY <1>4, <3>1, <3>2 DEF Log!Next, Log!Reconcile
  <2> QED
    BY <1>3, <1>8, <1>10, <2>1, <2>2, <2>3, <2>4, PendingSteps
<1>11. CASE from # to /\ Decision[from] = "refused"
  <2>1. \/ to = "reconciled"
        \/ from = "readiness_failed" /\ to = "ready"
        \/ to = "failed"
    <3> USE DEF from, to
    <3> QED BY <1>3, <1>8, <1>11, RefusedSteps
  <2>2. Held' = "nothing" /\ CurrentDecision = "refused"
    BY <1>5, <1>7, <1>11, <2>1 DEF Fence
  <2>3. CASE to = "reconciled"
    <3>1. CurrentDecision' = "reconciled"
      BY <1>5, <2>3 DEF Decision
    <3> QED
      BY <1>4, <2>2, <3>1 DEF Log!Next, Log!Reconcile
  <2>4. CASE from = "readiness_failed" /\ to = "ready"
    <3>1. CurrentDecision' = "accepted" /\ Held = "nothing"
      BY <1>5, <1>6, <2>4 DEF Decision, Fence
    <3> QED
      BY <1>4, <2>2, <3>1 DEF Log!Next, Log!Conclude
  <2>5. CASE to = "failed"
    <3>1. CurrentDecision' = "refused"
      BY <1>5, <2>5 DEF Decision
    <3>2. Held \in {"nothing", "files"}
      BY <1>3, <1>6, <1>11 DEF Phases, Decision, Fence
    <3> QED
      BY <1>4, <2>2, <3>1, <3>2 DEF Log!Next, Log!Refuse
  <2> QED
    BY <2>1, <2>3, <2>4, <2>5
<1>12. CASE from # to /\ from \in Final
  <2> USE DEF from, to
  <2> QED BY <1>3, <1>8, <1>12, FinalStays
<1>13. \/ Decision[from] \in {"pending", "refused"} \/ from \in Final
  BY <1>3 DEF Phases, Decision, Final
<1> QED
  BY <1>9, <1>10, <1>11, <1>12, <1>13

(* operation.json implements the decision log: a decision is final, and an *)
(* operation whose start broke off makes way for another one only after it *)
(* succeeded, was stopped, was reconciled, or was reported failed twice.   *)
THEOREM ImplementsDecisionLog == Spec => KeepsDecisionLog
<1>1. Init => Log!Init
  BY DEF Init, Log!Init, CurrentId, CurrentDecision, Held
<1>2. TypeOK /\ [Next]_vars => [Log!Next]_(Log!vars)
  <2> SUFFICES ASSUME TypeOK, [Next]_vars PROVE [Log!Next]_(Log!vars)
    OBVIOUS
  <2>1. ASSUME NEW c \in Revisions, NEW p \in Revisions \cup {NoRevision}, Admit(c, p)
        PROVE  [Log!Next]_(Log!vars)
    BY <2>1, AdmitOpens DEF Log!Next
  <2>2. ASSUME NEW c \in Revisions, NEW p \in Revisions \cup {NoRevision},
               NEW ph \in Phases, Advance(c, p, ph)
        PROVE  [Log!Next]_(Log!vars)
    BY <2>2, AdvanceFollows
  <2>3. CASE op' = op
    BY <2>3 DEF Log!vars, CurrentId, CurrentDecision, Held
  <2> QED
    BY <2>1, <2>2, <2>3 DEF Next, DeadlinePasses, vars
<1> QED
  BY <1>1, <1>2, TypeInvariant, PTL DEF Spec, KeepsDecisionLog, Log!Spec
------------------------------------------------------------------------------
(* Past its deadline an operation is never accepted or stopped any more.   *)
THEOREM NothingAcceptedLate == Spec => AcceptedInTime
<1> DEFINE Step == (op # NoOperation /\ late /\ ~Concluded(op) /\ op'.id = op.id)
                     => ~Concluded(op')
<1>1. TypeOK /\ [Next]_vars => [Step]_vars
  <2> SUFFICES ASSUME TypeOK, [Next]_vars, op # NoOperation, late, ~Concluded(op),
                      op'.id = op.id
               PROVE  ~Concluded(op')
    OBVIOUS
  <2>1. ASSUME NEW c \in Revisions, NEW p \in Revisions \cup {NoRevision}, Admit(c, p)
        PROVE  FALSE
    BY <2>1 DEF Admit
  <2>2. ASSUME NEW c \in Revisions, NEW p \in Revisions \cup {NoRevision},
               NEW ph \in Phases, Advance(c, p, ph)
        PROVE  ~Concluded(op')
    <3>1. /\ op \in Operation
          /\ op' = [op EXCEPT !.phase = Recorded(op.phase, ph)]
      BY <2>2, AdvanceType
    <3>2. op.phase \in Phases /\ op'.phase = Recorded(op.phase, ph)
      BY <3>1 DEF Operation
    <3>3. MayRecord(op.phase, ph, TRUE)
      BY <2>2 DEF Advance
    <3>4. Decision[op'.phase] \in {"refused", "reconciled"}
      BY <3>2, <3>3, LatePhases
    <3> QED
      BY <3>4 DEF Concluded
  <2>3. CASE op' = op
    BY <2>3
  <2> QED
    BY <2>1, <2>2, <2>3 DEF Next, DeadlinePasses, vars
<1> QED
  BY <1>1, TypeInvariant, PTL DEF Spec, AcceptedInTime

(***************************************************************************)
(* The locks of the host (host/workload/locking.rs).                       *)
(***************************************************************************)
(* Every command that is inside has the host's lock among its own, whatever *)
(* their order is.  A process has the locks it has got and no command that  *)
(* is not running has one; behind the fence no workload command has the     *)
(* host's lock, also while it waits for another.                           *)
HeldByOwner == \A p \in Procs : \A i \in 1..proc[p].got : holder[Order(p)[i]] = p
RestingHasNone == \A p \in Procs : proc[p] = Resting => \A l \in Locks : holder[l] # p
FenceHeld ==
  upgrade => /\ pending = {}
             /\ \A p \in Procs : proc[p].is \in Workload => holder[OperationLock] # p

LocksInv == LocksTypeOK /\ HeldByOwner /\ RestingHasNone /\ FenceHeld
-----------------------------------------------------------------------------
(* The platform takes every application's lock and then the host's. *)
LEMMA RosterShape ==
  /\ Roster \in Seq(Locks) /\ Len(Roster) \in Nat \ {0}
  /\ Roster[Len(Roster)] = OperationLock
<1> DEFINE S == {AppLock(a) : a \in LockApps}
           f == [a \in LockApps |-> AppLock(a)]
           n == Cardinality(S)
<1>1. IsFiniteSet(S)
  <2>1. f \in Surjection(LockApps, S)
    BY DEF Surjection
  <2> HIDE DEF S, f
  <2> QED BY <2>1, FS_Surjection, LocksAssumption DEF LocksAssumption
<1>2. n \in Nat /\ ExistsBijection(1..n, S)
  BY <1>1, FS_CardinalityType
<1>3. \E g \in [1..n -> S] : IsInjective(g)
  BY <1>2, Zenon DEF ExistsBijection, Bijection, Injection, IsInjective
<1>4. SetToSeq(S) \in [1..n -> S]
  BY <1>3, Zenon DEF SetToSeq
<1>5. S \subseteq Locks /\ OperationLock \in Locks
  BY DEF Locks
<1> HIDE DEF S, n
<1>6. SetToSeq(S) \in Seq(Locks) /\ Len(SetToSeq(S)) \in Nat
  BY <1>2, <1>4, <1>5
<1>7. Roster = SetToSeq(S) \o <<OperationLock>>
  BY DEF Roster, S
<1> QED BY <1>5, <1>6, <1>7

(* A command's order consists of locks, and the host's is one of them. *)
LEMMA OrderShape ==
  ASSUME LocksTypeOK, NEW p \in Procs
  PROVE  /\ Order(p) \in Seq(Locks)
         /\ proc[p] = Resting => Order(p) = <<>>
         /\ proc[p] # Resting => \E i \in 1..Len(Order(p)) : Order(p)[i] = OperationLock
<1>1. CASE proc[p] = Resting
  BY <1>1 DEF Order, Resting
<1>2. CASE proc[p] # Resting
  <2>1. /\ proc[p].is \in Commands \cup {"upgrading"} /\ proc[p].app \in LockApps
    BY <1>2 DEF LocksTypeOK
  <2>2. CASE proc[p].is \in {"submit", "worker", "owner"}
    <3>1. Order(p) = <<AppLock(proc[p].app), OperationLock>>
      BY <2>2 DEF Order
    <3>2. AppLock(proc[p].app) \in Locks /\ OperationLock \in Locks
      BY <2>1 DEF Locks
    <3>3. Order(p) \in Seq(Locks) /\ Len(Order(p)) = 2 /\ Order(p)[2] = OperationLock
      BY <3>1, <3>2
    <3> QED BY <1>2, <3>3
  <2>3. CASE proc[p].is = "preview"
    <3>1. Order(p) = <<OperationLock, PreviewsLock>>
      BY <2>3 DEF Order
    <3>2. OperationLock \in Locks /\ PreviewsLock \in Locks
      BY DEF Locks
    <3>3. Order(p) \in Seq(Locks) /\ Len(Order(p)) = 2 /\ Order(p)[1] = OperationLock
      BY <3>1, <3>2
    <3> QED BY <1>2, <3>3
  <2>4. CASE proc[p].is = "database"
    <3>1. Order(p) = <<PreviewsLock>> \o Roster
      BY <2>4 DEF Order
    <3>2. PreviewsLock \in Locks
      BY DEF Locks
    <3>3. /\ Order(p) \in Seq(Locks) /\ Len(Order(p)) = 1 + Len(Roster)
          /\ Order(p)[1 + Len(Roster)] = OperationLock
      BY <3>1, <3>2, RosterShape
    <3> QED BY <1>2, <3>3, RosterShape
  <2>5. CASE proc[p].is \in {"upgrade", "upgrading", "recover"}
    <3>1. Order(p) = Roster
      BY <2>5 DEF Order
    <3> QED BY <1>2, <3>1, RosterShape
  <2> QED BY <2>1, <2>2, <2>3, <2>4, <2>5 DEF Commands
<1> QED BY <1>1, <1>2

(* What a process that is inside has. *)
LEMMA InsideHasHost ==
  ASSUME LocksInv, NEW p \in Procs, Inside(p)
  PROVE  holder[OperationLock] = p
<1>1. PICK i \in 1..Len(Order(p)) : Order(p)[i] = OperationLock
  BY OrderShape DEF LocksInv, Inside
<1> QED BY <1>1 DEF LocksInv, HeldByOwner, Inside

(* The next lock of a process that waits is one of the host's. *)
LEMMA WantedIsLock ==
  ASSUME LocksTypeOK, NEW p \in Procs, Waiting(p)
  PROVE  Wanted(p) \in Locks
<1>1. proc[p].got \in Nat
  BY DEF LocksTypeOK, Resting
<1> QED BY <1>1, OrderShape DEF Waiting, Wanted
-----------------------------------------------------------------------------
(* The invariant holds at first. *)
LEMMA InitInv == LocksInit => LocksInv
<1> SUFFICES ASSUME LocksInit PROVE LocksInv
  OBVIOUS
<1>1. \A p \in Procs : Order(p) = <<>> /\ proc[p].got = 0
  BY DEF LocksInit, Order, Resting
<1>2. LocksTypeOK
  <2>1. \A p \in Procs : Len(Order(p)) = 0
    BY <1>1
  <2>2. proc \in [Procs -> {Resting}] /\ holder \in [Locks -> {Free}]
    BY DEF LocksInit
  <2>3. \A p \in Procs : proc[p].got <= Len(Order(p))
    BY <1>1, <2>1
  <2>4. proc \in [Procs -> [is : Commands \cup {"upgrading"}, app : LockApps, got : Nat]
                           \cup {Resting}]
    BY <2>2
  <2>5. holder \in [Locks -> Procs \cup {Free}]
    BY <2>2
  <2> QED BY <2>3, <2>4, <2>5 DEF LocksInit, LocksTypeOK
<1>3. HeldByOwner
  BY <1>1 DEF HeldByOwner
<1>4. RestingHasNone
  BY LocksAssumption DEF LocksAssumption, LocksInit, RestingHasNone
<1>5. FenceHeld
  BY DEF LocksInit, FenceHeld
<1> QED BY <1>2, <1>3, <1>4, <1>5 DEF LocksInv

(* A process that ends leaves everybody else's locks and order alone. *)
LEMMA LeavingKeeps ==
  ASSUME LocksInv, NEW p \in Procs, Leaves(p)
  PROVE  /\ LocksTypeOK' <=> upgrade' \in BOOLEAN /\ pending' \subseteq LockApps
         /\ HeldByOwner' /\ RestingHasNone'
         /\ \A q \in Procs : proc'[q].is \in Workload =>
              /\ q # p /\ proc'[q] = proc[q]
              /\ holder'[OperationLock] = q => holder[OperationLock] = q
<1>1. /\ proc' = [proc EXCEPT ![p] = Resting]
      /\ proc \in [Procs -> [is : Commands \cup {"upgrading"}, app : LockApps, got : Nat]
                              \cup {Resting}]
  BY DEF Leaves, LocksInv, LocksTypeOK
<1>2. \A q \in Procs : q # p => proc'[q] = proc[q] /\ Order(q)' = Order(q)
  BY <1>1 DEF Order, Roster
<1>3. proc'[p] = Resting /\ Order(p)' = <<>> /\ proc'[p].got = 0
  BY <1>1 DEF Order, Resting
<1>4. holder' = [l \in Locks |-> IF holder[l] = p THEN Free ELSE holder[l]]
  BY DEF Leaves
<1>5. HeldByOwner'
  <2> SUFFICES ASSUME NEW q \in Procs, NEW i \in 1..proc'[q].got, q # p
               PROVE  holder'[Order(q)'[i]] = q
    BY <1>3 DEF HeldByOwner
  <2>1. holder[Order(q)[i]] = q /\ Order(q)[i] \in Locks
    BY <1>1, <1>2, OrderShape DEF LocksInv, HeldByOwner, LocksTypeOK, Resting
  <2> QED BY <2>1, <1>2, <1>4
<1>6. RestingHasNone'
  BY <1>2, <1>4, LocksAssumption DEF LocksAssumption, LocksInv, RestingHasNone
<1>7. LocksTypeOK' <=> upgrade' \in BOOLEAN /\ pending' \subseteq LockApps
  <2>1. proc' \in [Procs -> [is : Commands \cup {"upgrading"}, app : LockApps, got : Nat]
                            \cup {Resting}]
    BY <1>1
  <2>2. \A q \in Procs : proc'[q].got <= Len(Order(q)')
    BY <1>2, <1>3 DEF LocksInv, LocksTypeOK
  <2>3. holder' \in [Locks -> Procs \cup {Free}]
    BY <1>4 DEF LocksInv, LocksTypeOK
  <2> QED BY <2>1, <2>2, <2>3 DEF LocksTypeOK
<1>8. ASSUME NEW q \in Procs, proc'[q].is \in Workload
      PROVE  /\ q # p /\ proc'[q] = proc[q]
             /\ holder'[OperationLock] = q => holder[OperationLock] = q
  <2>1. q # p
    BY <1>3, <1>8 DEF Resting, Workload
  <2>2. OperationLock \in Locks
    BY DEF Locks
  <2> QED BY <1>2, <1>4, <2>1, <2>2, LocksAssumption DEF LocksAssumption
<1> QED BY <1>5, <1>6, <1>7, <1>8

(* So a process that ends keeps the invariant, unless the fence goes up.    *)
LEMMA LeavingIsSafe ==
  ASSUME LocksInv, NEW p \in Procs, Leaves(p),
         upgrade' => upgrade, upgrade' \in BOOLEAN, pending' \subseteq LockApps,
         upgrade => pending' \subseteq pending
  PROVE  LocksInv'
<1>1. LocksTypeOK' /\ HeldByOwner' /\ RestingHasNone'
  BY LeavingKeeps
<1>2. FenceHeld'
  BY LeavingKeeps DEF LocksInv, FenceHeld
<1> QED BY <1>1, <1>2 DEF LocksInv

(* A step that gives a free lock to a process that waits for it, or changes *)
(* one process's command and not its order, keeps what the others have.    *)
LEMMA AcquiringIsSafe ==
  ASSUME LocksInv, NEW p \in Procs, AcquiresLock(p)
  PROVE  LocksInv'
<1>1. CASE ~PlatformIdle(p)
  <2>1. Leaves(p) /\ UNCHANGED <<upgrade, pending>>
    BY <1>1 DEF AcquiresLock
  <2> QED BY <2>1, LeavingIsSafe DEF LocksInv, LocksTypeOK
<1>2. CASE PlatformIdle(p)
  <2> DEFINE l == Wanted(p)
             i == proc[p].got + 1
  <2>1. /\ holder' = [holder EXCEPT ![l] = p] /\ holder[l] = Free
        /\ proc' = [proc EXCEPT ![p].got = @ + 1]
        /\ UNCHANGED <<upgrade, pending>> /\ Waiting(p)
    BY <1>2 DEF AcquiresLock
  <2>2. l \in Locks
    BY <2>1, WantedIsLock DEF LocksInv
  <2>3. proc[p] \in [is : Commands \cup {"upgrading"}, app : LockApps, got : Nat]
    BY <2>1 DEF LocksInv, LocksTypeOK, Waiting
  <2>4. /\ proc'[p] = [proc[p] EXCEPT !.got = @ + 1]
        /\ proc'[p] \in [is : Commands \cup {"upgrading"}, app : LockApps, got : Nat]
        /\ proc'[p].is = proc[p].is /\ proc'[p].app = proc[p].app /\ proc'[p].got = i
        /\ \A q \in Procs : q # p => proc'[q] = proc[q]
    BY <2>1, <2>3 DEF LocksInv, LocksTypeOK
  <2>5. \A q \in Procs : Order(q)' = Order(q) /\ proc'[q].is = proc[q].is
    BY <2>4 DEF Order, Roster
  <2>6. i <= Len(Order(p)) /\ l = Order(p)[i] /\ i \in Nat \ {0}
    BY <2>1, <2>3, OrderShape DEF Waiting, Wanted, LocksInv
  <2>7. LocksTypeOK'
    <3>1. proc' \in [Procs -> [is : Commands \cup {"upgrading"}, app : LockApps, got : Nat]
                              \cup {Resting}]
      BY <2>1, <2>4 DEF LocksInv, LocksTypeOK
    <3>2. \A q \in Procs : proc'[q].got <= Len(Order(q)')
      BY <2>4, <2>5, <2>6 DEF LocksInv, LocksTypeOK
    <3>3. holder' \in [Locks -> Procs \cup {Free}]
      BY <2>1 DEF LocksInv, LocksTypeOK
    <3> QED BY <2>1, <3>1, <3>2, <3>3 DEF LocksInv, LocksTypeOK
  <2>8. HeldByOwner'
    <3> SUFFICES ASSUME NEW q \in Procs, NEW j \in 1..proc'[q].got
                 PROVE  holder'[Order(q)[j]] = q
      BY <2>5 DEF HeldByOwner
    <3>1. CASE q = p /\ j = i
      BY <2>1, <2>2, <2>6, <3>1 DEF LocksInv, LocksTypeOK
    <3>2. CASE ~(q = p /\ j = i)
      <4>1. j \in 1..proc[q].got
        BY <2>3, <2>4, <3>2
      <4>2. holder[Order(q)[j]] = q
        BY <4>1 DEF LocksInv, HeldByOwner
      <4>3. Order(q)[j] \in Locks
        BY <4>1, OrderShape DEF LocksInv, LocksTypeOK, Resting
      <4> QED BY <2>1, <4>2, <4>3, LocksAssumption DEF LocksAssumption, LocksInv, LocksTypeOK
    <3> QED BY <3>1, <3>2
  <2>9. RestingHasNone'
    <3>1. proc'[p] # Resting
      BY <2>3, <2>4 DEF Resting
    <3> QED BY <2>1, <2>4, <3>1 DEF LocksInv, LocksTypeOK, RestingHasNone
  <2>10. FenceHeld'
    <3> SUFFICES ASSUME upgrade, NEW q \in Procs, proc[q].is \in Workload
                 PROVE  holder'[OperationLock] # q
      BY <2>1, <2>5 DEF LocksInv, FenceHeld
    <3>1. holder[OperationLock] # q
      BY DEF LocksInv, FenceHeld
    <3>2. q = p => l # OperationLock
      BY <1>2 DEF PlatformIdle
    <3>3. OperationLock \in Locks
      BY DEF Locks
    <3> QED BY <2>1, <3>1, <3>2, <3>3 DEF LocksInv, LocksTypeOK
  <2> QED BY <2>7, <2>8, <2>9, <2>10 DEF LocksInv
<1> QED BY <1>1, <1>2

(* A task that begins holds nothing yet and disturbs nobody. *)
LEMMA BeginningIsSafe ==
  ASSUME LocksInv, NEW p \in Procs, NEW c \in Commands, NEW a \in LockApps,
         BeginsCommand(p, c, a)
  PROVE  LocksInv'
<1>1. /\ proc[p] = Resting /\ proc' = [proc EXCEPT ![p] = [is |-> c, app |-> a, got |-> 0]]
      /\ UNCHANGED <<holder, upgrade, pending>>
  BY DEF BeginsCommand
<1>2. /\ proc'[p] = [is |-> c, app |-> a, got |-> 0]
      /\ \A q \in Procs : q # p => proc'[q] = proc[q]
  BY <1>1 DEF LocksInv, LocksTypeOK
<1>3. \A q \in Procs : q # p => Order(q)' = Order(q)
  BY <1>2 DEF Order, Roster
<1>4. proc' \in [Procs -> [is : Commands \cup {"upgrading"}, app : LockApps, got : Nat]
                          \cup {Resting}]
  BY <1>1 DEF LocksInv, LocksTypeOK
<1>5. LocksTypeOK'
  <2>1. Len(Order(p)') \in Nat
    <3>1. CASE c \in {"submit", "worker", "owner"}
      <4>1. Order(p)' = <<AppLock(a), OperationLock>>
        BY <1>2, <3>1 DEF Order
      <4> QED BY <4>1
    <3>2. CASE c = "preview"
      <4>1. Order(p)' = <<OperationLock, PreviewsLock>>
        BY <1>2, <3>2 DEF Order
      <4> QED BY <4>1
    <3>3. CASE c = "database"
      <4>1. Order(p)' = <<PreviewsLock>> \o Roster
        BY <1>2, <3>3 DEF Order
      <4> QED BY <4>1, RosterShape
    <3>4. CASE c \in {"upgrade", "recover"}
      <4>1. Order(p)' = Roster
        BY <1>2, <3>4 DEF Order
      <4> QED BY <4>1, RosterShape
    <3> QED BY <3>1, <3>2, <3>3, <3>4 DEF Commands
  <2> QED BY <1>1, <1>2, <1>3, <1>4, <2>1 DEF LocksInv, LocksTypeOK
<1>6. HeldByOwner'
  BY <1>1, <1>2, <1>3 DEF LocksInv, HeldByOwner
<1>7. RestingHasNone'
  BY <1>1, <1>2 DEF LocksInv, RestingHasNone
<1>8. FenceHeld'
  <2>1. OperationLock \in Locks
    BY DEF Locks
  <2>2. holder[OperationLock] # p
    BY <1>1, <2>1 DEF LocksInv, RestingHasNone
  <2> QED BY <1>1, <1>2, <2>2 DEF LocksInv, FenceHeld
<1> QED BY <1>5, <1>6, <1>7, <1>8 DEF LocksInv

(* Only a command that is inside raises the fence: no other has the host's. *)
LEMMA UpgradingIsSafe ==
  ASSUME LocksInv, NEW p \in Procs, Upgrades(p)
  PROVE  LocksInv'
<1>1. CASE ~(pending = {} /\ ~upgrade)
  BY <1>1, LeavingIsSafe DEF Upgrades, LocksInv, LocksTypeOK
<1>2. CASE pending = {} /\ ~upgrade
  <2>1. /\ proc[p].is = "upgrade" /\ Inside(p) /\ proc' = [proc EXCEPT ![p].is = "upgrading"]
        /\ UNCHANGED <<holder, pending>> /\ upgrade' = TRUE
    BY <1>2 DEF Upgrades
  <2>2. /\ proc'[p] = [proc[p] EXCEPT !.is = "upgrading"]
        /\ \A q \in Procs : q # p => proc'[q] = proc[q]
    BY <2>1 DEF LocksInv, LocksTypeOK
  <2>3. proc[p] \in [is : Commands \cup {"upgrading"}, app : LockApps, got : Nat]
    BY <2>1 DEF LocksInv, LocksTypeOK, Inside
  <2>4. /\ proc'[p].is = "upgrading" /\ proc'[p].got = proc[p].got
        /\ proc'[p] \in [is : Commands \cup {"upgrading"}, app : LockApps, got : Nat]
    BY <2>2, <2>3
  <2>5. \A q \in Procs : Order(q)' = Order(q)
    BY <2>1, <2>2, <2>4 DEF Order, Roster
  <2>6. LocksTypeOK'
    <3>1. proc' \in [Procs -> [is : Commands \cup {"upgrading"}, app : LockApps, got : Nat]
                              \cup {Resting}]
      BY <2>1, <2>4 DEF LocksInv, LocksTypeOK
    <3> QED BY <2>1, <2>2, <2>4, <2>5, <3>1 DEF LocksInv, LocksTypeOK
  <2>7. HeldByOwner'
    BY <2>1, <2>2, <2>4, <2>5 DEF LocksInv, HeldByOwner
  <2>8. RestingHasNone'
    BY <2>1, <2>2, <2>3 DEF LocksInv, RestingHasNone, Resting
  <2>9. FenceHeld'
    <3>1. holder[OperationLock] = p
      BY <2>1, InsideHasHost
    <3> QED BY <1>2, <2>1, <2>4, <3>1 DEF FenceHeld, Workload
  <2> QED BY <2>6, <2>7, <2>8, <2>9 DEF LocksInv
<1> QED BY <1>1, <1>2

(* Every step of every task keeps the invariant. *)
LEMMA StepInv == LocksInv /\ [LocksNext]_lockVars => LocksInv'
<1> SUFFICES ASSUME LocksInv, [LocksNext]_lockVars PROVE LocksInv'
  OBVIOUS
<1>1. CASE UNCHANGED lockVars
  <2>1. \A p \in Procs : Order(p)' = Order(p)
    BY <1>1 DEF Order, Roster, lockVars
  <2> QED BY <1>1, <2>1 DEF lockVars, LocksInv, LocksTypeOK, HeldByOwner, RestingHasNone, FenceHeld
<1>2. ASSUME NEW p \in Procs, NEW c \in Commands, NEW a \in LockApps, BeginsCommand(p, c, a)
      PROVE  LocksInv'
  BY <1>2, BeginningIsSafe
<1>3. ASSUME NEW p \in Procs, ProcStep(p)
      PROVE  LocksInv'
  <2>1. CASE AcquiresLock(p)
    BY <2>1, AcquiringIsSafe
  <2>2. CASE TimesOut(p) \/ Affects(p) \/ KeepsUpgrade(p)
    BY <2>2, LeavingIsSafe DEF TimesOut, Affects, KeepsUpgrade, LocksInv, LocksTypeOK
  <2>3. CASE Submits(p)
    <3>1. proc[p].app \in LockApps
      BY <2>3 DEF Submits, Inside, LocksInv, LocksTypeOK
    <3> QED BY <2>3, <3>1, LeavingIsSafe DEF Submits, LocksInv, LocksTypeOK
  <2>4. CASE Activates(p)
    BY <2>4, LeavingIsSafe DEF Activates, LocksInv, LocksTypeOK
  <2>5. CASE Upgrades(p)
    BY <2>5, UpgradingIsSafe
  <2>6. CASE EndsUpgrade(p)
    BY <2>6, LeavingIsSafe DEF EndsUpgrade, LocksInv, LocksTypeOK
  <2> QED BY <1>3, <2>1, <2>2, <2>3, <2>4, <2>5, <2>6 DEF ProcStep
<1>4. ASSUME NEW p \in Procs, Dies(p)
      PROVE  LocksInv'
  BY <1>4, LeavingIsSafe DEF Dies, LocksInv, LocksTypeOK
<1> QED BY <1>1, <1>2, <1>3, <1>4 DEF LocksNext

(* The locks of the host always satisfy the invariant. *)
THEOREM LocksInvariant == LocksSpec => []LocksInv
BY InitInv, StepInv, PTL DEF LocksSpec

(* The host is one command's at a time: what DeploymentHost assumes of the   *)
(* deployment locks (locking.rs, DeploymentLock).                           *)
THEOREM HostIsOnes == LocksSpec => []OneInside
<1>1. LocksInv => OneInside
  BY InsideHasHost DEF OneInside
<1> QED BY <1>1, LocksInvariant, PTL

(* Nothing moves behind the fence of a platform upgrade, complete or cut     *)
(* off (locking.rs, platform_idle; platform.py, apply and recover).          *)
THEOREM NothingBehindTheFence == LocksSpec => []FenceHolds
<1>1. LocksInv => FenceHolds
  <2> SUFFICES ASSUME LocksInv, upgrade, NEW p \in Procs, Inside(p), proc[p].is \in Workload
               PROVE  FALSE
    BY DEF LocksInv, FenceHeld, FenceHolds
  <2> QED BY InsideHasHost DEF LocksInv, FenceHeld
<1> QED BY <1>1, LocksInvariant, PTL
-----------------------------------------------------------------------------
(* Whichever part moves, each of the two makes its own steps or none.      *)
LEMMA PartsOfEnds == EndsSpec => Spec /\ LocksSpec
<1>1. EndsInit => Init /\ LocksInit
  BY DEF EndsInit
<1>2. [EndsNext]_endsVars => [Next]_vars /\ [LocksNext]_lockVars
  BY DEF EndsNext, Turn, endsVars
<1> QED BY <1>1, <1>2, PTL DEF EndsSpec, Spec, LocksSpec

(* What is shown of the journal and of the locks holds of HostEnds, where   *)
(* they are checked.                                                       *)
THEOREM EndsAreSafe ==
  EndsSpec => /\ []OneInside /\ []FenceHolds
              /\ KeepsDecisionLog /\ AcceptedInTime
BY PartsOfEnds, HostIsOnes, NothingBehindTheFence, ImplementsDecisionLog, NothingAcceptedLate,
   PTL
=============================================================================
