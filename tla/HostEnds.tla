------------------------------- MODULE HostEnds -------------------------------
(***************************************************************************)
(* What must happen in the end, in the parts that wait for one another:    *)
(* the processes that take the host's locks, the hourly reaper of          *)
(* previews, and the daemon that empties the command inbox; and with them  *)
(* the journal of one application.                                         *)
(*                                                                         *)
(* As in HostParts, a behaviour chooses one part and only that part moves. *)
(***************************************************************************)
EXTENDS OperationJournal, HostLocks, Previews

CONSTANT Nobody    \* no command in the daemon's hand

VARIABLES
  part,  \* the part that moves
  now, exp, requests, inbox, arrived, results, decided, pc, batch, hand,
  performed, lost, forgotten, failures    \* the variables of the inbox

inboxVars == <<now, exp, requests, inbox, arrived, results, decided, pc, batch, hand,
               performed, lost, forgotten, failures>>
endsVars == <<part, vars, lockVars, previewVars, inboxVars>>

\* One file is applied in each pass, so that commands wait for others.
Inbox == INSTANCE CommandInbox WITH
  Commands <- {"c1", "c2"}, NoCommand <- Nobody, Window <- 0, Skew <- 0, Stale <- 0,
  Keep <- 0, InboxLimit <- 2, PassLimit <- 1, MaxRequests <- 1, MaxFailures <- 1,
  MaxTime <- 1

Parts == {"journal", "locks", "previews", "inbox"}

(* A part that does not move starts where nothing has happened. *)
EndsInit ==
  /\ part \in Parts
  /\ Init /\ LocksInit
  /\ PreviewInit
  /\ (part # "previews" => knob.target = CHOOSE t \in Targets : TRUE)
  /\ Inbox!Init /\ (part # "inbox" => \A c \in DOMAIN exp : exp[c] = 0)

(* The step of part p is step; every other part keeps its variables. *)
Turn(p, step, variables) == IF part = p THEN step ELSE UNCHANGED variables

EndsNext ==
  /\ UNCHANGED part
  /\ Turn("journal", Next, vars)
  /\ Turn("locks", LocksNext, lockVars)
  /\ Turn("previews", PreviewNext, previewVars)
  /\ Turn("inbox", Inbox!Next, inboxVars)

(* Each part is scheduled as its own module says. *)
EndsSpec ==
  /\ EndsInit /\ [][EndsNext]_endsVars
  /\ \A p \in Procs : WF_lockVars(part = "locks" /\ ProcStep(p))
  /\ WF_previewVars(part = "previews" /\ JobStep)
  /\ SF_previewVars(part = "previews" /\ Gc)
  /\ WF_inboxVars(part = "inbox" /\ Inbox!Daemon)
-----------------------------------------------------------------------------
(* CommandInbox: a command in the inbox is answered, expired or lost. *)
CommandAnswered == Inbox!CommandAnswered
=============================================================================
