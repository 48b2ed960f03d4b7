----------------------------- MODULE CommandInbox -----------------------------
(***************************************************************************)
(* The signed commands that reach a komizo host over its API (app.stop,    *)
(* app.start, app.add, ...).  Two processes share the inbox directory:     *)
(*   the unprivileged API checks an envelope and leaves it in the inbox    *)
(*     (crates/api/src/http.rs and store.rs),                              *)
(*   the daemon's command thread takes it out, checks it again, claims its *)
(*     identity in the results directory and only then performs it         *)
(*     (src/src/host/inbox.rs, results.rs, commands/daemon.rs).            *)
(* A caller that gets no answer sends the envelope again, and anything on  *)
(* the way may repeat it: the claim and the expiry of the envelope keep it *)
(* from taking effect twice, although results are pruned after a day.      *)
(***************************************************************************)
EXTENDS Naturals, FiniteSets

CONSTANTS
  Commands,    \* command identities; an envelope carries one and its expiry
  NoCommand,   \* no command in hand
  Window,      \* an envelope may expire at most this long from now (330 s)
  Skew,        \* and is accepted this long after it expired (30 s)
  Stale,       \* age at which a file of the inbox is swept (6 min)
  Keep,        \* age at which a result is pruned (24 h)
  InboxLimit,  \* files the API puts into the inbox (128)
  PassLimit,   \* commands applied in one pass (32)
  MaxRequests, \* bound: concurrent requests for one command
  MaxFailures, \* bound: daemon crashes and failed writes
  MaxTime      \* bound: the clock

ASSUME InboxAssumption ==
  /\ NoCommand \notin Commands
  /\ Window \in Nat /\ Skew \in Nat /\ Stale \in Nat /\ Keep \in Nat
  /\ Window + Skew <= Keep
  /\ InboxLimit \in Nat /\ PassLimit \in Nat
  /\ MaxRequests \in Nat /\ MaxFailures \in Nat /\ MaxTime \in Nat

VARIABLES
  now,       \* the clock of the host
  exp,       \* the expiry each envelope was signed with
  requests,  \* API requests that passed their checks but did not enqueue yet
  inbox,     \* files of the inbox directory, named by command
  arrived,   \* their modification times
  results,   \* <results>/<id>.json, or none
  decided,   \* their modification times
  pc,        \* where the daemon's command thread stands
  batch,     \* the files this pass still has to sweep or to apply
  hand,      \* the command being applied
  performed, \* how often each command was handed to the executor
  lost,      \* commands taken out of the inbox whose claim was never written
  forgotten, \* commands whose result was pruned
  failures   \* failures so far

daemon == <<pc, batch, hand>>
vars == <<now, exp, requests, inbox, arrived, results, decided, daemon,
          performed, lost, forgotten, failures>>

Results == {"none", "applying", "done", "failed", "missed"}

TypeOK ==
  /\ now \in 0..MaxTime /\ exp \in [Commands -> Nat]
  /\ requests \in [Commands -> 0..MaxRequests]
  /\ inbox \subseteq Commands /\ arrived \in [Commands -> 0..MaxTime]
  /\ results \in [Commands -> Results] /\ decided \in [Commands -> 0..MaxTime]
  /\ pc \in {"rest", "sweep", "apply", "claim", "perform", "record"}
  /\ batch \subseteq Commands /\ hand \in Commands \cup {NoCommand}
  /\ performed \in [Commands -> Nat]
  /\ lost \subseteq Commands /\ forgotten \subseteq Commands /\ failures \in 0..MaxFailures

Init ==
  /\ now = 0 /\ exp \in [Commands -> 0..MaxTime]
  /\ requests = [c \in Commands |-> 0]
  /\ inbox = {} /\ arrived = [c \in Commands |-> 0]
  /\ results = [c \in Commands |-> "none"] /\ decided = [c \in Commands |-> 0]
  /\ pc = "rest" /\ batch = {} /\ hand = NoCommand
  /\ performed = [c \in Commands |-> 0] /\ lost = {} /\ forgotten = {} /\ failures = 0

Tick == /\ now < MaxTime /\ now' = now + 1
        /\ UNCHANGED <<exp, requests, inbox, arrived, results, decided, daemon,
                       performed, lost, forgotten, failures>>

(* verify_command(), by the API and again by the daemon: the signature is   *)
(* good, and the expiry neither passed nor lies too far ahead.             *)
Valid(c) == now <= exp[c] + Skew /\ exp[c] <= now + Window
------------------------------------------------------------------------------
(* POST /v1/commands, first or repeated: an envelope without a result ...   *)
Receive(c) == /\ Valid(c) /\ results[c] = "none"
              /\ requests[c] < MaxRequests
              /\ requests' = [requests EXCEPT ![c] = @ + 1]
              /\ UNCHANGED <<now, exp, inbox, arrived, results, decided, daemon,
                             performed, lost, forgotten, failures>>

(* ... is left in the inbox, unless it lies there already or the inbox is   *)
(* full.  Results that appear in between are not looked at again.          *)
Enqueue(c) ==
  /\ requests[c] > 0
  /\ requests' = [requests EXCEPT ![c] = @ - 1]
  /\ IF c \in inbox \/ Cardinality(inbox) >= InboxLimit
       THEN UNCHANGED <<inbox, arrived>>
       ELSE inbox' = inbox \cup {c} /\ arrived' = [arrived EXCEPT ![c] = now]
  /\ UNCHANGED <<now, exp, results, decided, daemon, performed, lost, forgotten, failures>>
------------------------------------------------------------------------------
(* apply_pending(): a pass first sweeps the files that lie there too long. *)
Pass == /\ pc = "rest" /\ inbox # {}
        /\ batch' = {c \in inbox : now > arrived[c] + Stale}
        /\ pc' = "sweep"
        /\ UNCHANGED <<now, exp, requests, inbox, arrived, results, decided, hand,
                       performed, lost, forgotten, failures>>

Answer(c, r) == /\ results' = [results EXCEPT ![c] = r]
                /\ decided' = [decided EXCEPT ![c] = now]

(* Bug: the answer is written over whatever is there. *)
SweepAnswerOver == /\ pc = "sweep"
                   /\ \E c \in batch : results[c] # "missed" /\ Answer(c, "missed")
                   /\ UNCHANGED <<now, exp, requests, inbox, arrived, daemon,
                                  performed, lost, forgotten, failures>>

(* A swept command without a result is answered before its file goes.      *)
SweepAnswer == /\ pc = "sweep"
               /\ \E c \in batch : results[c] = "none" /\ Answer(c, "missed")
               /\ UNCHANGED <<now, exp, requests, inbox, arrived, daemon,
                              performed, lost, forgotten, failures>>

SweepDrop == /\ pc = "sweep"
             /\ \E c \in batch : /\ results[c] # "none"
                                 /\ inbox' = inbox \ {c} /\ batch' = batch \ {c}
             /\ UNCHANGED <<now, exp, requests, arrived, results, decided, pc, hand,
                            performed, lost, forgotten, failures>>

(* What is left is listed, the oldest first, as many as one pass applies.  *)
Oldest(chosen) == /\ Cardinality(chosen) <= PassLimit
                  /\ chosen # inbox => Cardinality(chosen) = PassLimit
                  /\ \A c \in chosen, other \in inbox \ chosen : arrived[c] <= arrived[other]

(* Bug: what a pass cannot apply is dropped. *)
ListDropsRest ==
  /\ pc = "sweep" /\ batch = {}
  /\ \E chosen \in SUBSET inbox : Oldest(chosen) /\ batch' = chosen /\ inbox' = chosen
  /\ pc' = "apply"
  /\ UNCHANGED <<now, exp, requests, arrived, results, decided, hand,
                 performed, lost, forgotten, failures>>

List == /\ pc = "sweep" /\ batch = {}
        /\ \E chosen \in SUBSET inbox : Oldest(chosen) /\ batch' = chosen
        /\ pc' = "apply"
        /\ UNCHANGED <<now, exp, requests, inbox, arrived, results, decided, hand,
                       performed, lost, forgotten, failures>>

(* Bug: the daemon trusts the check of the API. *)
TakeTrusting ==
  /\ pc = "apply"
  /\ \E c \in batch :
       /\ \A other \in batch : arrived[c] <= arrived[other]
       /\ batch' = batch \ {c} /\ inbox' = inbox \ {c}
       /\ IF results[c] = "none" THEN pc' = "claim" /\ hand' = c
                                 ELSE UNCHANGED <<pc, hand>>
  /\ UNCHANGED <<now, exp, requests, arrived, results, decided, performed, lost,
                 forgotten, failures>>

(* apply_one(): the file is removed first, then the envelope is verified   *)
(* and looked up among the results.  An envelope that fails here leaves    *)
(* nothing but a line in the daemon's log.                                 *)
Take ==
  /\ pc = "apply"
  /\ \E c \in batch :
       /\ \A other \in batch : arrived[c] <= arrived[other]
       /\ batch' = batch \ {c} /\ inbox' = inbox \ {c}
       /\ IF Valid(c) /\ results[c] = "none" THEN pc' = "claim" /\ hand' = c
                                             ELSE UNCHANGED <<pc, hand>>
  /\ UNCHANGED <<now, exp, requests, arrived, results, decided, performed, lost,
                 forgotten, failures>>

(* claim_result(): the result file is created, never replaced.             *)
Claim == /\ pc = "claim" /\ results[hand] = "none"
         /\ Answer(hand, "applying")
         /\ pc' = "perform"
         /\ UNCHANGED <<now, exp, requests, inbox, arrived, batch, hand,
                        performed, lost, forgotten, failures>>

Perform == /\ pc = "perform"
           /\ performed' = [performed EXCEPT ![hand] = @ + 1]
           /\ pc' = "record"
           /\ UNCHANGED <<now, exp, requests, inbox, arrived, results, decided, batch, hand,
                          lost, forgotten, failures>>

Record == /\ pc = "record"
          /\ \E r \in {"done", "failed"} : Answer(hand, r)
          /\ pc' = "apply" /\ hand' = NoCommand
          /\ UNCHANGED <<now, exp, requests, inbox, arrived, batch,
                         performed, lost, forgotten, failures>>

Rest == /\ pc = "apply" /\ batch = {}
        /\ pc' = "rest"
        /\ UNCHANGED <<now, exp, requests, inbox, arrived, results, decided, batch, hand,
                       performed, lost, forgotten, failures>>
------------------------------------------------------------------------------
Forget(old) == /\ results' = [c \in Commands |-> IF c \in old THEN "none" ELSE results[c]]
               /\ forgotten' = forgotten \cup old

(* prune_results(), by the same thread, between two passes. *)
Prune == /\ pc = "rest"
         /\ LET old == {c \in Commands : results[c] # "none" /\ now > decided[c] + Keep}
            IN old # {} /\ Forget(old)
         /\ UNCHANGED <<now, exp, requests, inbox, arrived, decided, daemon,
                        performed, lost, failures>>

(* The daemon dies anywhere and starts again; a command in hand that was   *)
(* not claimed is gone.                                                    *)
Crash == /\ failures < MaxFailures /\ failures' = failures + 1
         /\ pc # "rest"
         /\ pc' = "rest" /\ batch' = {} /\ hand' = NoCommand
         /\ lost' = IF pc = "claim" THEN lost \cup {hand} ELSE lost
         /\ UNCHANGED <<now, exp, requests, inbox, arrived, results, decided, performed, forgotten>>

(* A write fails: an unclaimed command is not performed, a performed one    *)
(* stays "applying", a swept one goes unanswered.                          *)
WriteFails ==
  /\ failures < MaxFailures /\ failures' = failures + 1
  /\ \/ /\ pc \in {"claim", "record"}
        /\ lost' = IF pc = "claim" THEN lost \cup {hand} ELSE lost
        /\ pc' = "apply" /\ hand' = NoCommand
        /\ UNCHANGED <<inbox, batch>>
     \/ /\ pc = "sweep"
        /\ \E c \in batch : /\ results[c] = "none"
                            /\ inbox' = inbox \ {c} /\ batch' = batch \ {c}
                            /\ lost' = lost \cup {c}
        /\ UNCHANGED <<pc, hand>>
  /\ UNCHANGED <<now, exp, requests, arrived, results, decided, performed, forgotten>>

Api == \E c \in Commands : Receive(c) \/ Enqueue(c)
Daemon == \/ Pass \/ SweepAnswer \/ SweepDrop \/ List \/ Take \/ Claim
          \/ Perform \/ Record \/ Rest

Next == Tick \/ Api \/ Daemon \/ Prune \/ Crash \/ WriteFails

Spec == Init /\ [][Next]_vars

(* The command thread starts a pass every half second. *)
FairSpec == Spec /\ WF_vars(Daemon)
------------------------------------------------------------------------------
(* No command takes effect twice, however often its envelope is delivered,  *)
(* whenever the daemon dies, and although results are forgotten.           *)
AtMostOnce == \A c \in Commands : performed[c] <= 1

(* A result tells the truth: what is reported done was performed, and what *)
(* is reported as missed has not been performed, as long as the result of  *)
(* performing it is not forgotten.                                         *)
ResultsTrue == \A c \in Commands :
  /\ results[c] \in {"done", "failed"} => performed[c] = 1
  /\ results[c] = "missed" /\ c \notin forgotten => performed[c] = 0

(* A command in the inbox gets a durable result, or its expiry passed      *)
(* before the daemon got to it, or a failure lost it.                      *)
CommandAnswered == \A c \in Commands :
  c \in inbox ~> (results[c] # "none" \/ now > exp[c] + Skew \/ c \in lost)
=============================================================================
