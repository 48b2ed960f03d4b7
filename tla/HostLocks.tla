------------------------------ MODULE HostLocks ------------------------------
(***************************************************************************)
(* The lock files of the host and the two fences beside them.              *)
(*                                                                         *)
(* Every command that touches workloads takes flock locks, polling until a  *)
(* deadline (src/src/host/locking.rs, `locks` in src/src/runtime/platform.py). *)
(* They are taken one at a time, in an order that is not the same for every  *)
(* command.  The kernel gives the locks of a dead process back; the fences,  *)
(* a pending activation and a pending platform upgrade, are files and stay.  *)
(***************************************************************************)
EXTENDS Naturals, FiniteSets, Sequences, SequencesExt

CONSTANTS
  Procs,     \* processes on the host
  LockApps,  \* registered applications
  Free       \* nobody: the holder of a lock that is free

ASSUME LocksAssumption == IsFiniteSet(LockApps) /\ Free \notin Procs

VARIABLES
  proc,      \* each process: its command, application and locks so far
  holder,    \* who holds each lock
  upgrade,   \* upgrades/pending.json exists
  pending    \* applications named by activations/pending.json, at most one

lockVars == <<proc, holder, upgrade, pending>>

AppLock(a) == <<"deploy", a>>
OperationLock == <<"operation">>
PreviewsLock == <<"previews">>
Locks == {AppLock(a) : a \in LockApps} \cup {OperationLock, PreviewsLock}

(* `locks` of the platform: every application's, then the host's. *)
Roster == SetToSeq({AppLock(a) : a \in LockApps}) \o <<OperationLock>>

Commands == {"submit", "worker", "owner", "preview", "database", "upgrade", "recover"}
Workload == {"submit", "worker", "owner", "preview"}

(* Bug: previews take their own lock and not the host's. *)
PreviewsAlone(p) ==
  CASE proc[p].is \in {"submit", "worker", "owner"} -> <<AppLock(proc[p].app), OperationLock>>
    [] proc[p].is = "preview" -> <<PreviewsLock>>
    [] proc[p].is = "database" -> <<PreviewsLock>> \o Roster
    [] proc[p].is \in {"upgrade", "upgrading", "recover"} -> Roster
    [] OTHER -> <<>>

(* The order in which a command takes its locks. *)
Order(p) ==
  CASE proc[p].is \in {"submit", "worker", "owner"} -> <<AppLock(proc[p].app), OperationLock>>
    [] proc[p].is = "preview" -> <<OperationLock, PreviewsLock>>
    [] proc[p].is = "database" -> <<PreviewsLock>> \o Roster
    [] proc[p].is \in {"upgrade", "upgrading", "recover"} -> Roster
    [] OTHER -> <<>>

Resting == [is |-> "none", app |-> Free, got |-> 0]
Waiting(p) == proc[p] # Resting /\ proc[p].got < Len(Order(p))
Inside(p) == proc[p] # Resting /\ proc[p].got = Len(Order(p))
Wanted(p) == Order(p)[proc[p].got + 1]

LocksInit ==
  /\ proc = [p \in Procs |-> Resting]
  /\ holder = [l \in Locks |-> Free]
  /\ upgrade = FALSE
  /\ pending = {}

(* The process ends and its descriptors close. *)
Leaves(p) ==
  /\ proc' = [proc EXCEPT ![p] = Resting]
  /\ holder' = [l \in Locks |-> IF holder[l] = p THEN Free ELSE holder[l]]

(* A command is started; the activation worker when it finds a request. *)
BeginsCommand(p, c, a) ==
  /\ proc[p] = Resting
  /\ c = "worker" => a \in pending
  /\ proc' = [proc EXCEPT ![p] = [is |-> c, app |-> a, got |-> 0]]
  /\ UNCHANGED <<holder, upgrade, pending>>

(* Bug: the lock is taken without a look at the platform's fence. *)
NoFence(p) == TRUE

(* What a command looks at once it has a lock: workload commands the          *)
(* platform's fence as soon as they hold the host's lock.                  *)
PlatformIdle(p) == proc[p].is \in Workload /\ Wanted(p) = OperationLock => ~upgrade

(* One attempt of the polling loop that gets the lock. *)
AcquiresLock(p) ==
  /\ Waiting(p) /\ holder[Wanted(p)] = Free
  /\ IF PlatformIdle(p)
     THEN /\ holder' = [holder EXCEPT ![Wanted(p)] = p]
          /\ proc' = [proc EXCEPT ![p].got = @ + 1]
     ELSE Leaves(p)
  /\ UNCHANGED <<upgrade, pending>>

(* Bug: it waits for a held lock for ever. *)
WaitsForEver(p) == FALSE /\ UNCHANGED lockVars

(* The deadline passes while somebody else holds the lock. *)
TimesOut(p) ==
  /\ Waiting(p) /\ holder[Wanted(p)] # Free
  /\ Leaves(p)
  /\ UNCHANGED <<upgrade, pending>>

(* A submission queues its activation unless one is queued already or the     *)
(* platform is fenced; the worker settles it; the rest has its effects here. *)
Submits(p) ==
  /\ Inside(p) /\ proc[p].is = "submit"
  /\ pending' = IF pending = {} /\ ~upgrade THEN {proc[p].app} ELSE pending
  /\ Leaves(p)
  /\ UNCHANGED upgrade

Activates(p) ==
  /\ Inside(p) /\ proc[p].is = "worker"
  /\ pending' = pending \ {proc[p].app}
  /\ Leaves(p)
  /\ UNCHANGED upgrade

Affects(p) ==
  /\ Inside(p) /\ proc[p].is \in {"owner", "preview", "database"}
  /\ Leaves(p)
  /\ UNCHANGED <<upgrade, pending>>

(* An upgrade raises its fence, unless an activation is queued or the fence   *)
(* of another upgrade is up...                                             *)
Upgrades(p) ==
  /\ Inside(p) /\ proc[p].is = "upgrade"
  /\ IF pending = {} /\ ~upgrade
     THEN /\ upgrade' = TRUE
          /\ proc' = [proc EXCEPT ![p].is = "upgrading"]
          /\ UNCHANGED holder
     ELSE Leaves(p) /\ UNCHANGED upgrade
  /\ UNCHANGED pending

(* ...and it, or the recovery of one that was cut off, lowers it when the      *)
(* platform is complete or restored.  A recovery too starts only if no         *)
(* activation is queued.                                                   *)
EndsUpgrade(p) ==
  /\ Inside(p) /\ proc[p].is \in {"upgrading", "recover"}
  /\ upgrade' = IF pending = {} THEN FALSE ELSE upgrade
  /\ Leaves(p)
  /\ UNCHANGED pending

(* Restoring refuses bytes that neither side wrote: the fence is kept. *)
KeepsUpgrade(p) ==
  /\ Inside(p) /\ proc[p].is \in {"upgrading", "recover"}
  /\ Leaves(p)
  /\ UNCHANGED <<upgrade, pending>>

(* A process is killed, or the host loses power under it. *)
Dies(p) ==
  /\ proc[p] # Resting
  /\ Leaves(p)
  /\ UNCHANGED <<upgrade, pending>>

ProcStep(p) ==
  \/ AcquiresLock(p) \/ TimesOut(p)
  \/ Submits(p) \/ Activates(p) \/ Affects(p)
  \/ Upgrades(p) \/ EndsUpgrade(p) \/ KeepsUpgrade(p)

LocksNext ==
  \E p \in Procs :
    \/ \E c \in Commands, a \in LockApps : BeginsCommand(p, c, a)
    \/ ProcStep(p)
    \/ Dies(p)

LocksSpec == LocksInit /\ [][LocksNext]_lockVars

(* A process that is not killed goes on: its polling loop tries again until    *)
(* its deadline, and what it does inside is bounded by a deadline too.      *)
LocksFairness == \A p \in Procs : WF_lockVars(ProcStep(p))
LocksFairSpec == LocksSpec /\ LocksFairness

-----------------------------------------------------------------------------
LocksTypeOK ==
  /\ proc \in [Procs -> [is : Commands \cup {"upgrading"}, app : LockApps, got : Nat]
                          \cup {Resting}]
  /\ \A p \in Procs : proc[p].got <= Len(Order(p))
  /\ holder \in [Locks -> Procs \cup {Free}]
  /\ upgrade \in BOOLEAN
  /\ pending \subseteq LockApps

(* Behind the platform's fence nothing moves: no deployment, owner command or  *)
(* preview is at work, and no activation is queued.  A queued activation       *)
(* behind the fence would be beyond help: the worker could not take the       *)
(* locks to settle it, and the recovery of the platform refuses to start       *)
(* while an activation is pending.                                         *)
FenceHolds ==
  upgrade => pending = {} /\ \A p \in Procs : Inside(p) => proc[p].is \notin Workload

(* The host is one command's at a time, whatever locks it has besides and in   *)
(* whatever order it took them: what a submission, a pass of the worker, an   *)
(* owner command, a preview and an upgrade all count on.                   *)
OneInside == \A p, q \in Procs : Inside(p) /\ Inside(q) => p = q

(* Nobody waits for ever, though `preview database` and `preview up` take the  *)
(* host's lock and the previews' in opposite orders: a deadline ends it.    *)
EveryoneEnds == \A p \in Procs : proc[p] # Resting ~> proc[p] = Resting
=============================================================================
