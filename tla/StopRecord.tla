----------------------------- MODULE StopRecord -----------------------------
(***************************************************************************)
(* start, stop and restart of an application without deployment authority  *)
(* (host/application.rs, run_verb), given over SSH and as signed commands. *)
(* They take no deployment lock: the stop record is changed under a lock   *)
(* of its own (host/stopped.rs), and Docker is asked before or after.      *)
(***************************************************************************)
EXTENDS Naturals

CONSTANTS
  Services,         \* of the application
  Whole,            \* no service: the verb is for the whole application
  VerbCallers,      \* processes that run a verb
  MaxVerbs,         \* bound on the verbs given
  MaxVerbTroubles   \* bound on Docker's and write failures, and on deaths

ASSUME StopRecordAssumption ==
  Whole \notin Services /\ MaxVerbs \in Nat /\ MaxVerbTroubles \in Nat

VARIABLES
  stopMark,     \* the stop that wrote the stop record; 0 when there is none
  servicesUp,   \* the services whose containers run
  verbs,        \* of each process: its verb
  given,        \* verbs so far
  earned,       \* ghost: the stops that Docker carried out
  broken,       \* ghost: the verbs that broke off before they could clear the record
  verbTroubles

stopRecordVars == <<stopMark, servicesUp, verbs, given, earned, broken, verbTroubles>>

NoVerb == [is |-> "none", service |-> Whole, at |-> "idle", number |-> 0]
AtVerb(c, step) == verbs[c].at = step
NextIs(c, step) == verbs' = [verbs EXCEPT ![c].at = step]
VerbEnds(c) == verbs' = [verbs EXCEPT ![c] = NoVerb]
OfWhole(c, verb) == verbs[c].is = verb /\ verbs[c].service = Whole

StopRecordInit ==
  /\ stopMark = 0 /\ servicesUp \in {{}, Services}
  /\ verbs = [c \in VerbCallers |-> NoVerb]
  /\ given = 0 /\ earned = {} /\ broken = {} /\ verbTroubles = 0

(* Of the verbs, a stop of the whole writes the record first; a restart and   *)
(* the start of one service look first.                                    *)
GiveVerb(c, verb, service) ==
  /\ verbs[c] = NoVerb /\ given < MaxVerbs
  /\ given' = given + 1
  /\ verbs' = [verbs EXCEPT ![c] =
       [is |-> verb, service |-> service, number |-> given + 1,
        at |-> CASE verb = "restart" \/ (verb = "start" /\ service # Whole) -> "look"
                 [] verb = "stop" /\ service = Whole -> "mark"
                 [] OTHER -> "compose"]]
  /\ UNCHANGED <<stopMark, servicesUp, earned, broken, verbTroubles>>

(* Nothing is restarted where nothing runs, and one service is not started   *)
(* in an application that is recorded as stopped.                          *)
LookFirst(c) ==
  /\ AtVerb(c, "look")
  /\ IF verbs[c].is = "restart" => servicesUp # {}
     THEN IF verbs[c].is = "start" => stopMark = 0 THEN NextIs(c, "compose") ELSE VerbEnds(c)
     ELSE VerbEnds(c)
  /\ UNCHANGED <<stopMark, servicesUp, given, earned, broken, verbTroubles>>

(* mark_stopped *)
MarkStopped(c) ==
  /\ AtVerb(c, "mark")
  /\ stopMark' = verbs[c].number
  /\ NextIs(c, "compose")
  /\ UNCHANGED <<servicesUp, given, earned, broken, verbTroubles>>

Meant(c) == IF verbs[c].service = Whole THEN Services ELSE {verbs[c].service}

(* Docker starts or stops what the verb means; a start of the whole clears    *)
(* the record afterwards.  `compose restart` starts what is down.           *)
ComposeDone(c) ==
  /\ AtVerb(c, "compose")
  /\ servicesUp' = IF verbs[c].is = "stop" THEN servicesUp \ Meant(c) ELSE servicesUp \cup Meant(c)
  /\ earned' = IF OfWhole(c, "stop") THEN earned \cup {verbs[c].number} ELSE earned
  /\ IF OfWhole(c, "start") THEN NextIs(c, "clear") ELSE VerbEnds(c)
  /\ UNCHANGED <<stopMark, given, broken, verbTroubles>>

(* Bug: a failed stop leaves the record it wrote. *)
FailedStopKeepsMark(c) ==
  /\ AtVerb(c, "compose") /\ verbTroubles < MaxVerbTroubles
  /\ verbTroubles' = verbTroubles + 1
  /\ \E some \in SUBSET Meant(c) :
       servicesUp' = IF verbs[c].is = "stop" THEN servicesUp \ some ELSE servicesUp \cup some
  /\ VerbEnds(c)
  /\ UNCHANGED <<stopMark, given, earned, broken>>

(* Docker fails, or its deadline passes, with a part of it done; a stop of    *)
(* the whole takes its record back, whoever's it is by now.                *)
ComposeFails(c) ==
  /\ AtVerb(c, "compose") /\ verbTroubles < MaxVerbTroubles
  /\ verbTroubles' = verbTroubles + 1
  /\ \E some \in SUBSET Meant(c) :
       servicesUp' = IF verbs[c].is = "stop" THEN servicesUp \ some ELSE servicesUp \cup some
  /\ IF OfWhole(c, "stop") THEN NextIs(c, "clear") ELSE VerbEnds(c)
  /\ UNCHANGED <<stopMark, given, earned, broken>>

(* clear_stopped *)
ClearStopped(c) ==
  /\ AtVerb(c, "clear")
  /\ stopMark' = 0
  /\ VerbEnds(c)
  /\ UNCHANGED <<servicesUp, given, earned, broken, verbTroubles>>

(* The record cannot be written, or the process dies. *)
VerbBreaksOff(c) ==
  /\ verbs[c] # NoVerb /\ verbTroubles < MaxVerbTroubles
  /\ verbTroubles' = verbTroubles + 1
  /\ broken' = broken \cup {verbs[c].number}
  /\ VerbEnds(c)
  /\ UNCHANGED <<stopMark, servicesUp, given, earned>>

StopRecordNext ==
  \E c \in VerbCallers :
    \/ \E verb \in {"start", "stop", "restart"}, service \in Services \cup {Whole} :
         GiveVerb(c, verb, service)
    \/ LookFirst(c) \/ MarkStopped(c) \/ ComposeDone(c) \/ ComposeFails(c)
    \/ ClearStopped(c) \/ VerbBreaksOff(c)

StopRecordSpec == StopRecordInit /\ [][StopRecordNext]_stopRecordVars
-----------------------------------------------------------------------------
StopRecordTypeOK ==
  /\ stopMark \in 0..given /\ given \in 0..MaxVerbs /\ earned \cup broken \subseteq 1..given
  /\ servicesUp \subseteq Services /\ verbTroubles \in 0..MaxVerbTroubles
  /\ \A c \in VerbCallers :
       /\ verbs[c].is \in {"none", "start", "stop", "restart"}
       /\ verbs[c].at \in {"idle", "look", "mark", "compose", "clear"}

AtRestVerbs == \A c \in VerbCallers : verbs[c] = NoVerb

(* A stop record that stands when every command is over silences the          *)
(* monitor: it is of a stop that Docker carried out, or that died itself,      *)
(* however failing stops, starts and restarts overlapped with it.          *)
RecordIsEarned == AtRestVerbs /\ stopMark # 0 => stopMark \in earned \cup broken

(* An application is not left marked stopped while it runs (application.rs:    *)
(* "starting one service would leave it marked stopped while it runs -- and    *)
(* an app in that state never pages again") by commands that all succeed.      *)
RecordedMeansDown == AtRestVerbs /\ verbTroubles = 0 /\ stopMark # 0 => servicesUp = {}
=============================================================================
