----------------------------- MODULE PartsProofs -----------------------------
(***************************************************************************)
(* Theorems about parts of module HostParts, each for any number of        *)
(* processes and any bounds: the stop record of an application without     *)
(* deployment authority, routine backups, the binding of images, the setup *)
(* of an operator's key, what a caller's command promises, the group of a   *)
(* bounded process, and the inbox of signed commands.  For each there is an *)
(* inductive invariant; its types follow from that and from what a second, *)
(* smaller one adds.                                                       *)
(***************************************************************************)
EXTENDS CommandInbox, StopRecord, RoutineBackup, ImageCache, HostSetup, Caller, BoundedProcess,
        FiniteSetTheorems, TLAPS

(***************************************************************************)
(* The stop record (application.rs, stopped.rs).                           *)
(***************************************************************************)
(* Only a stop of the whole application writes the record, and a stop that  *)
(* wrote it is under way until Docker carried it out, it takes the record   *)
(* back, or it breaks off.                                                 *)
MarkersAreStops == \A c \in VerbCallers : AtVerb(c, "mark") => OfWhole(c, "stop")

MarkAccounted ==
  \/ stopMark = 0 \/ stopMark \in earned \cup broken
  \/ \E c \in VerbCallers : /\ OfWhole(c, "stop") /\ verbs[c].number = stopMark
                            /\ verbs[c].at \in {"compose", "clear"}

Verb == [is: {"none", "start", "stop", "restart"}, service: Services \cup {Whole},
         at: {"idle", "look", "mark", "compose", "clear"}, number: Nat]

StopRecordInv ==
  /\ verbs \in [VerbCallers -> Verb] /\ given \in Nat
  /\ MarkersAreStops /\ MarkAccounted

(* A step that moves one verb, not from a step where it had something on    *)
(* record.                                                                 *)
LEMMA OneVerbMoves ==
  ASSUME StopRecordInv, NEW c \in VerbCallers, NEW v \in Verb,
         verbs' = [verbs EXCEPT ![c] = v],
         v.at = "mark" => v.is = "stop" /\ v.service = Whole
  PROVE  /\ verbs' \in [VerbCallers -> Verb] /\ MarkersAreStops'
         /\ verbs'[c] = v /\ \A other \in VerbCallers \ {c} : verbs'[other] = verbs[other]
BY DEF StopRecordInv, MarkersAreStops, AtVerb, OfWhole

(* What was accounted for stays so, if the verb that accounts for it does.  *)
LEMMA AccountStays ==
  ASSUME StopRecordInv, NEW c \in VerbCallers, stopMark' = stopMark,
         \A other \in VerbCallers \ {c} : verbs'[other] = verbs[other],
         earned \subseteq earned', broken \subseteq broken',
         OfWhole(c, "stop") /\ verbs[c].at \in {"compose", "clear"} =>
           \/ verbs[c].number \in earned' \cup broken'
           \/ OfWhole(c, "stop")' /\ verbs'[c].number = verbs[c].number
              /\ verbs'[c].at \in {"compose", "clear"}
  PROVE  MarkAccounted'
<1>1. CASE stopMark = 0 \/ stopMark \in earned \cup broken
  BY <1>1 DEF MarkAccounted
<1>2. ASSUME NEW d \in VerbCallers, OfWhole(d, "stop"), verbs[d].number = stopMark,
             verbs[d].at \in {"compose", "clear"}
      PROVE  MarkAccounted'
  <2>1. CASE d = c
    BY <1>2, <2>1 DEF MarkAccounted, OfWhole
  <2>2. CASE d # c
    BY <1>2, <2>2 DEF MarkAccounted, OfWhole
  <2> QED BY <2>1, <2>2
<1> QED BY <1>1, <1>2 DEF StopRecordInv, MarkAccounted

(* A verb that is given sets aside nothing that was accounted for. *)
LEMMA VerbGiven ==
  ASSUME StopRecordInv, NEW c \in VerbCallers, NEW verb \in {"start", "stop", "restart"},
         NEW service \in Services \cup {Whole}, GiveVerb(c, verb, service)
  PROVE  StopRecordInv'
<1> DEFINE v == [is |-> verb, service |-> service, number |-> given + 1,
                 at |-> CASE verb = "restart" \/ (verb = "start" /\ service # Whole) -> "look"
                          [] verb = "stop" /\ service = Whole -> "mark"
                          [] OTHER -> "compose"]
<1>1. v.at \in {"look", "mark", "compose"}
      /\ (v.at = "mark" => v.is = "stop" /\ v.service = Whole)
  OBVIOUS
<1>2. v \in Verb /\ given' \in Nat
  BY <1>1 DEF Verb, StopRecordInv, GiveVerb
<1>3. verbs' = [verbs EXCEPT ![c] = v]
  BY DEF GiveVerb
<1> HIDE DEF v
<1>4. /\ verbs' \in [VerbCallers -> Verb] /\ MarkersAreStops'
      /\ \A other \in VerbCallers \ {c} : verbs'[other] = verbs[other]
  BY <1>1, <1>2, <1>3, OneVerbMoves
<1>5. MarkAccounted'
  BY <1>4, AccountStays DEF GiveVerb, OfWhole, NoVerb
<1> QED BY <1>2, <1>4, <1>5 DEF StopRecordInv

(* The verb of c after a step of it. *)
LEMMA VerbMoved ==
  ASSUME StopRecordInv, NEW c \in VerbCallers,
         VerbEnds(c) \/ \E step \in {"compose", "clear"} : NextIs(c, step)
  PROVE  /\ verbs' \in [VerbCallers -> Verb] /\ MarkersAreStops'
         /\ \A other \in VerbCallers \ {c} : verbs'[other] = verbs[other]
<1>1. CASE VerbEnds(c)
  <2>1. NoVerb \in Verb
    BY DEF NoVerb, Verb
  <2> QED BY <1>1, <2>1, OneVerbMoves DEF VerbEnds, NoVerb
<1>2. ASSUME NEW step \in {"compose", "clear"}, NextIs(c, step)
      PROVE  /\ verbs' \in [VerbCallers -> Verb] /\ MarkersAreStops'
             /\ \A other \in VerbCallers \ {c} : verbs'[other] = verbs[other]
  <2>1. [verbs[c] EXCEPT !.at = step] \in Verb
    BY DEF StopRecordInv, Verb
  <2>2. verbs' = [verbs EXCEPT ![c] = [verbs[c] EXCEPT !.at = step]]
    BY <1>2 DEF NextIs
  <2>3. [verbs[c] EXCEPT !.at = step].at = step
    BY DEF StopRecordInv, Verb
  <2> QED BY <2>1, <2>2, <2>3, OneVerbMoves
<1> QED BY <1>1, <1>2

(* A step that NextIs takes keeps what the verb is. *)
LEMMA SameVerb ==
  ASSUME StopRecordInv, NEW c \in VerbCallers, NEW step \in {"compose", "clear"},
         NextIs(c, step)
  PROVE  /\ verbs'[c].is = verbs[c].is /\ verbs'[c].service = verbs[c].service
         /\ verbs'[c].number = verbs[c].number /\ verbs'[c].at = step
BY DEF StopRecordInv, NextIs, Verb

(* Every step of a verb keeps the invariant. *)
LEMMA StopRecordStep == StopRecordInv /\ [StopRecordNext]_stopRecordVars => StopRecordInv'
<1> SUFFICES ASSUME StopRecordInv, [StopRecordNext]_stopRecordVars PROVE StopRecordInv'
  OBVIOUS
<1>1. ASSUME NEW c \in VerbCallers, NEW verb \in {"start", "stop", "restart"},
             NEW service \in Services \cup {Whole}, GiveVerb(c, verb, service)
      PROVE  StopRecordInv'
  BY <1>1, VerbGiven
<1>2. ASSUME NEW c \in VerbCallers, LookFirst(c) PROVE StopRecordInv'
  <2>1. VerbEnds(c) \/ NextIs(c, "compose")
    BY <1>2 DEF LookFirst
  <2>2. MarkAccounted'
    BY <1>2, <2>1, VerbMoved, AccountStays DEF LookFirst, AtVerb
  <2> QED BY <1>2, <2>1, <2>2, VerbMoved DEF LookFirst, StopRecordInv
<1>3. ASSUME NEW c \in VerbCallers, MarkStopped(c) PROVE StopRecordInv'
  <2>1. NextIs(c, "compose") /\ OfWhole(c, "stop")
    BY <1>3 DEF MarkStopped, StopRecordInv, MarkersAreStops
  <2>2. MarkAccounted'
    BY <1>3, <2>1, SameVerb DEF MarkStopped, MarkAccounted, OfWhole
  <2> QED BY <1>3, <2>1, <2>2, VerbMoved DEF MarkStopped, StopRecordInv
<1>4. ASSUME NEW c \in VerbCallers, ComposeDone(c) PROVE StopRecordInv'
  <2>1. VerbEnds(c) \/ NextIs(c, "clear")
    BY <1>4 DEF ComposeDone
  <2>2. MarkAccounted'
    BY <1>4, <2>1, VerbMoved, AccountStays DEF ComposeDone
  <2> QED BY <1>4, <2>1, <2>2, VerbMoved DEF ComposeDone, StopRecordInv
<1>5. ASSUME NEW c \in VerbCallers, ComposeFails(c) PROVE StopRecordInv'
  <2>1. IF OfWhole(c, "stop") THEN NextIs(c, "clear") ELSE VerbEnds(c)
    BY <1>5 DEF ComposeFails
  <2>2. MarkAccounted'
    BY <1>5, <2>1, VerbMoved, SameVerb, AccountStays DEF ComposeFails, OfWhole
  <2> QED BY <1>5, <2>1, <2>2, VerbMoved DEF ComposeFails, StopRecordInv
<1>6. ASSUME NEW c \in VerbCallers, ClearStopped(c) PROVE StopRecordInv'
  BY <1>6, VerbMoved DEF ClearStopped, StopRecordInv, MarkAccounted
<1>7. ASSUME NEW c \in VerbCallers, VerbBreaksOff(c) PROVE StopRecordInv'
  <2>1. MarkAccounted'
    BY <1>7, VerbMoved, AccountStays DEF VerbBreaksOff
  <2> QED BY <1>7, <2>1, VerbMoved DEF VerbBreaksOff, StopRecordInv
<1>8. CASE UNCHANGED stopRecordVars
  BY <1>8 DEF stopRecordVars, StopRecordInv, MarkersAreStops, MarkAccounted, AtVerb, OfWhole
<1> QED BY <1>1, <1>2, <1>3, <1>4, <1>5, <1>6, <1>7, <1>8 DEF StopRecordNext

(* Nothing is on record at first. *)
LEMMA StopRecordStarts == StopRecordInit => StopRecordInv
BY DEF StopRecordInit, StopRecordInv, MarkersAreStops, MarkAccounted, AtVerb, NoVerb, Verb

(* So it always holds. *)
THEOREM StopRecordInvariant == StopRecordSpec => []StopRecordInv
BY StopRecordStarts, StopRecordStep, PTL DEF StopRecordSpec

(* A stop record that stands when all verbs are over (run_verb in           *)
(* application.rs) is of a stop that Docker carried out or that broke off.  *)
THEOREM StopRecordEarned == StopRecordSpec => []RecordIsEarned
<1>1. StopRecordInv => RecordIsEarned
  BY DEF StopRecordInv, MarkAccounted, RecordIsEarned, AtRestVerbs, NoVerb, OfWhole
<1> QED BY <1>1, StopRecordInvariant, PTL

(* A stop that puts its number on record has been given one.               *)
VerbsNumbered ==
  /\ stopMark \in 0..given /\ given \in 0..MaxVerbs /\ earned \cup broken \subseteq 1..given
  /\ servicesUp \subseteq Services /\ verbTroubles \in 0..MaxVerbTroubles
  /\ \A c \in VerbCallers : verbs[c] # NoVerb => verbs[c].number \in 1..given

(* The verbs keep what the stop record and the services may be.            *)
LEMMA VerbsNumberedStep ==
  StopRecordInv /\ VerbsNumbered /\ [StopRecordNext]_stopRecordVars => VerbsNumbered'
<1> SUFFICES ASSUME StopRecordInv, VerbsNumbered, [StopRecordNext]_stopRecordVars
             PROVE  VerbsNumbered'
  OBVIOUS
<1> USE StopRecordAssumption DEF StopRecordAssumption
<1>1. CASE UNCHANGED stopRecordVars
  BY <1>1 DEF VerbsNumbered, stopRecordVars
<1>2. ASSUME NEW c \in VerbCallers, NEW verb \in {"start", "stop", "restart"},
             NEW service \in Services \cup {Whole}, GiveVerb(c, verb, service)
      PROVE  VerbsNumbered'
  <2>1. given' = given + 1 /\ given < MaxVerbs /\ given \in Nat
    BY <1>2 DEF GiveVerb, StopRecordInv
  <2>2. /\ verbs'[c].number = given'
        /\ \A other \in VerbCallers \ {c} : verbs'[other] = verbs[other]
    BY <1>2 DEF GiveVerb, StopRecordInv, Verb
  <2> QED BY <1>2, <2>1, <2>2 DEF GiveVerb, VerbsNumbered
<1>3. ASSUME NEW c \in VerbCallers,
             \/ LookFirst(c) \/ MarkStopped(c) \/ ComposeDone(c) \/ ComposeFails(c)
             \/ ClearStopped(c) \/ VerbBreaksOff(c)
      PROVE  VerbsNumbered'
  <2>1. verbs[c] # NoVerb /\ verbs[c].number \in 1..given /\ Meant(c) \subseteq Services
        /\ given \in Nat
    BY <1>3 DEF LookFirst, MarkStopped, ComposeDone, ComposeFails, ClearStopped, VerbBreaksOff,
                AtVerb, NoVerb, VerbsNumbered, StopRecordInv, Verb, Meant
  <2>2. \A o \in VerbCallers : verbs'[o] = NoVerb
                              \/ (verbs[o] # NoVerb /\ verbs'[o].number = verbs[o].number)
    <3>1. NextIs(c, "compose") \/ NextIs(c, "clear") \/ VerbEnds(c)
      BY <1>3 DEF LookFirst, MarkStopped, ComposeDone, ComposeFails, ClearStopped, VerbBreaksOff
    <3> QED BY <2>1, <3>1 DEF NextIs, VerbEnds, StopRecordInv, Verb
  <2>3. \A o \in VerbCallers : verbs'[o] # NoVerb => verbs'[o].number \in 1..given
    BY <2>2 DEF VerbsNumbered
  <2>4. CASE LookFirst(c) BY <2>3, <2>4 DEF LookFirst, VerbsNumbered
  <2>5. CASE MarkStopped(c) BY <2>1, <2>3, <2>5 DEF MarkStopped, VerbsNumbered
  <2>6. CASE ComposeDone(c) BY <2>1, <2>3, <2>6 DEF ComposeDone, VerbsNumbered
  <2>7. CASE ComposeFails(c)
    <3>1. servicesUp' \subseteq Services
      BY <2>1, <2>7 DEF ComposeFails, VerbsNumbered
    <3> QED BY <2>3, <2>7, <3>1 DEF ComposeFails, VerbsNumbered
  <2>8. CASE ClearStopped(c) BY <2>1, <2>3, <2>8 DEF ClearStopped, VerbsNumbered
  <2>9. CASE VerbBreaksOff(c) BY <2>1, <2>3, <2>9 DEF VerbBreaksOff, VerbsNumbered
  <2> QED BY <1>3, <2>4, <2>5, <2>6, <2>7, <2>8, <2>9
<1> QED BY <1>1, <1>2, <1>3 DEF StopRecordNext

(* The stop record names a stop that was given, and the services up are of  *)
(* the application.                                                        *)
THEOREM VerbsAreTyped == StopRecordSpec => []StopRecordTypeOK
<1>1. StopRecordInit => VerbsNumbered
  BY StopRecordAssumption DEF StopRecordAssumption, StopRecordInit, NoVerb, VerbsNumbered
<1>2. StopRecordInv /\ VerbsNumbered => StopRecordTypeOK
  BY DEF StopRecordInv, Verb, VerbsNumbered, StopRecordTypeOK
<1> QED BY <1>1, <1>2, StopRecordInvariant, VerbsNumberedStep, PTL DEF StopRecordSpec

(***************************************************************************)
(* Routine backups (operations.rs).                                        *)
(***************************************************************************)
Working == {"locked", "claimed", "exporting", "recording"}

(* The application's lock has one holder; a run that nobody claimed was not *)
(* exported, and one whose claim is being used has been started by its      *)
(* caller alone.                                                           *)
BackupTypes ==
  /\ capability \in 0..1 /\ exports \in [BackupRuns -> Nat]
  /\ claims \in [BackupRuns -> ClaimPhases]
  /\ backups \in [BackupCallers -> BackupCalls \cup TaskCalls]
LockIsTheirs ==
  \A o \in BackupCallers : backups[o].pc \in Working \cup {"running"} => inside = o
ClaimUsed == \A o \in BackupCallers :
  /\ At(o, "claimed") => /\ claims[backups[o].run] = "claimed"
                         /\ exports[backups[o].run] = 0
  /\ At(o, "recording") /\ backups[o].ok => backups[o].run \in exported
UnclaimedIsUnstarted == \A r \in BackupRuns :
  /\ claims[r] = "unclaimed" => exports[r] = 0
  /\ exports[r] <= 1
  /\ claims[r] = "complete" => r \in exported
ExportedOver == \A o \in BackupCallers :
  backups[o].pc \in {"claimed", "exporting"} =>
    /\ servingNow.ready /\ ~deploying
    /\ proofs[backups[o].run] # NoRun
    /\ servingNow.revision = proofs[backups[o].run].revision

BackupInv == /\ BackupTypes /\ LockIsTheirs /\ ClaimUsed
             /\ UnclaimedIsUnstarted /\ ExportedOver

(* A call that holds the lock or waits for it is that of a backup. *)
LEMMA BackupCall ==
  ASSUME BackupTypes, NEW o \in BackupCallers, backups[o].pc \in Working \cup {"waiting"}
  PROVE  /\ backups[o] \in [pc: {"waiting", "locked", "claimed", "exporting", "recording"},
                            run: BackupRuns, capability: 0..1, ok: BOOLEAN]
         /\ backups[o] # IdleCall
BY DEF BackupTypes, BackupCalls, TaskCalls, IdleCall, Working

(* A step of one call that goes on to another of its steps. *)
LEMMA CallMoves ==
  ASSUME BackupTypes, NEW o \in BackupCallers, backups[o].pc \in Working \cup {"waiting"},
         NEW at \in Working, Goto(o, at)
  PROVE  /\ backups' \in [BackupCallers -> BackupCalls \cup TaskCalls]
         /\ backups'[o].pc = at /\ backups'[o].run = backups[o].run
         /\ backups'[o].ok = backups[o].ok /\ backups[o].run \in BackupRuns
         /\ \A other \in BackupCallers \ {o} : backups'[other] = backups[other]
<1>1. [backups[o] EXCEPT !.pc = at] \in BackupCalls
  BY BackupCall DEF BackupCalls, Working
<1> QED BY <1>1, BackupCall DEF BackupTypes, Goto

(* A call that ends, or begins, touches nothing that another relies on. *)
LEMMA CallEnds ==
  ASSUME BackupInv, NEW o \in BackupCallers,
         NEW call \in BackupCalls \cup TaskCalls, backups' = [backups EXCEPT ![o] = call],
         call.pc \notin Working \cup {"running"},
         inside' \in {inside, Nowhere}, inside' = Nowhere => inside \in {Nowhere, o},
         UNCHANGED <<capability, claims, exports, exported, servingNow, deploying, proofs>>
  PROVE  BackupInv'
<1>1. BackupTypes'
  BY DEF BackupInv, BackupTypes
<1>2. backups'[o] = call /\ \A other \in BackupCallers \ {o} : backups'[other] = backups[other]
  BY DEF BackupInv, BackupTypes
<1>3. LockIsTheirs'
  BY <1>2, RoutineBackupAssumption
  DEF BackupInv, LockIsTheirs, Nowhere, RoutineBackupAssumption, Working
<1>4. ClaimUsed'
  BY <1>2 DEF BackupInv, ClaimUsed, At, Working
<1>5. UnclaimedIsUnstarted'
  BY DEF BackupInv, UnclaimedIsUnstarted
<1>6. ExportedOver'
  BY <1>2 DEF BackupInv, ExportedOver, Working
<1> QED BY <1>1, <1>3, <1>4, <1>5, <1>6 DEF BackupInv

(* While nobody holds the lock, no call is past it. *)
LEMMA NobodyInside ==
  ASSUME BackupInv, inside = Nowhere
  PROVE  \A o \in BackupCallers : backups[o].pc \notin Working \cup {"running"}
BY RoutineBackupAssumption DEF BackupInv, LockIsTheirs, Nowhere, RoutineBackupAssumption

(* Steps of the host that no call is in the way of. *)
LEMMA HostMoves ==
  ASSUME BackupInv, capability' \in 0..1,
         UNCHANGED <<claims, exports, exported, inside, backups>>,
         \/ inside = Nowhere
         \/ /\ UNCHANGED <<servingNow, deploying>>
            /\ \A r \in BackupRuns : proofs[r] # NoRun => proofs'[r] = proofs[r]
  PROVE  BackupInv'
<1>1. BackupTypes'
  BY DEF BackupInv, BackupTypes
<1>2. LockIsTheirs' /\ ClaimUsed' /\ UnclaimedIsUnstarted'
  BY DEF BackupInv, LockIsTheirs, ClaimUsed, UnclaimedIsUnstarted, At
<1>3. ExportedOver'
  <2>1. CASE inside = Nowhere
    BY <2>1, NobodyInside DEF ExportedOver, Working
  <2>2. CASE /\ UNCHANGED <<servingNow, deploying>>
             /\ \A r \in BackupRuns : proofs[r] # NoRun => proofs'[r] = proofs[r]
    BY <2>2, BackupCall DEF BackupInv, ExportedOver, Working
  <2> QED BY <2>1, <2>2
<1> QED BY <1>1, <1>2, <1>3 DEF BackupInv

(* The claim: from the verified proof to the claimed run. *)
LEMMA ClaimStep ==
  ASSUME BackupInv, NEW o \in BackupCallers, ClaimBackup(o)
  PROVE  BackupInv'
<1> DEFINE run == backups[o].run
<1>1. /\ At(o, "locked") /\ inside = o /\ inside' = o /\ Goto(o, "claimed")
      /\ claims[run] = "unclaimed" /\ VerifyBackupInput(run)
      /\ claims' = [claims EXCEPT ![run] = "claimed"]
      /\ UNCHANGED <<capability, exports, exported, servingNow, deploying, proofs>>
  BY DEF ClaimBackup, BackupInv, LockIsTheirs, At, Working
<1>2. /\ backups' \in [BackupCallers -> BackupCalls \cup TaskCalls]
      /\ backups'[o].pc = "claimed" /\ backups'[o].run = run /\ run \in BackupRuns
      /\ \A other \in BackupCallers \ {o} : backups'[other] = backups[other]
  BY <1>1, CallMoves DEF BackupInv, At, Working
<1>3. \A other \in BackupCallers \ {o} : backups[other].pc \notin Working \cup {"running"}
  BY <1>1 DEF BackupInv, LockIsTheirs
<1>4. /\ claims' \in [BackupRuns -> ClaimPhases] /\ claims'[run] = "claimed"
      /\ \A r \in BackupRuns \ {run} : claims'[r] = claims[r]
  BY <1>1, <1>2 DEF BackupInv, BackupTypes, ClaimPhases
<1>5. BackupTypes' /\ LockIsTheirs'
  BY <1>1, <1>2, <1>3, <1>4 DEF BackupInv, BackupTypes, LockIsTheirs
<1>6. ClaimUsed'
  BY <1>1, <1>2, <1>3, <1>4 DEF BackupInv, ClaimUsed, UnclaimedIsUnstarted, At, Working
<1>7. UnclaimedIsUnstarted'
  BY <1>1, <1>4 DEF BackupInv, UnclaimedIsUnstarted
<1>8. ExportedOver'
  BY <1>1, <1>2, <1>3
  DEF BackupInv, ExportedOver, Working, VerifyBackupInput, VerifyBackup
<1> QED BY <1>5, <1>6, <1>7, <1>8 DEF BackupInv

(* The export: the caller holds the claim of the run, so that it is its first. *)
LEMMA ExportStep ==
  ASSUME BackupInv, NEW o \in BackupCallers, StartExporter(o)
  PROVE  BackupInv'
<1> DEFINE run == backups[o].run
<1>1. /\ At(o, "claimed") /\ inside = o /\ Goto(o, "exporting")
      /\ claims[run] = "claimed" /\ exports[run] = 0
      /\ exports' = [exports EXCEPT ![run] = @ + 1]
      /\ UNCHANGED <<capability, claims, exported, servingNow, deploying, proofs, inside>>
  BY DEF StartExporter, BackupInv, LockIsTheirs, ClaimUsed, At, Working
<1>2. /\ backups' \in [BackupCallers -> BackupCalls \cup TaskCalls]
      /\ backups'[o].pc = "exporting" /\ backups'[o].run = run /\ run \in BackupRuns
      /\ \A other \in BackupCallers \ {o} : backups'[other] = backups[other]
  BY <1>1, CallMoves DEF BackupInv, At, Working
<1>3. \A other \in BackupCallers \ {o} : backups[other].pc \notin Working \cup {"running"}
  BY <1>1 DEF BackupInv, LockIsTheirs
<1>4. /\ exports' \in [BackupRuns -> Nat] /\ exports'[run] = 1
      /\ \A r \in BackupRuns \ {run} : exports'[r] = exports[r]
  BY <1>1, <1>2 DEF BackupInv, BackupTypes
<1>5. BackupTypes' /\ LockIsTheirs'
  BY <1>1, <1>2, <1>3, <1>4 DEF BackupInv, BackupTypes, LockIsTheirs
<1>6. ClaimUsed'
  BY <1>1, <1>2, <1>3 DEF BackupInv, ClaimUsed, At, Working
<1>7. UnclaimedIsUnstarted'
  BY <1>1, <1>4 DEF BackupInv, UnclaimedIsUnstarted
<1>8. ExportedOver'
  BY <1>1, <1>2, <1>3 DEF BackupInv, ExportedOver, Working, At
<1> QED BY <1>5, <1>6, <1>7, <1>8 DEF BackupInv

(* The exporter ends, having exported or not. *)
LEMMA ExporterEnds ==
  ASSUME BackupInv, NEW o \in BackupCallers, NEW ok \in BOOLEAN, EndExporter(o, ok)
  PROVE  BackupInv'
<1> DEFINE run == backups[o].run
           call == [backups[o] EXCEPT !.pc = "recording", !.ok = ok]
<1>1. /\ At(o, "exporting") /\ inside = o /\ backups' = [backups EXCEPT ![o] = call]
      /\ exported' = IF ok THEN exported \cup {run} ELSE exported
      /\ UNCHANGED <<capability, claims, exports, servingNow, deploying, proofs, inside>>
  BY DEF EndExporter, BackupInv, LockIsTheirs, At, Working
<1>2. /\ call \in BackupCalls /\ call.pc = "recording" /\ call.run = run /\ call.ok = ok
      /\ run \in BackupRuns
  BY <1>1, BackupCall DEF BackupInv, At, Working, BackupCalls
<1> HIDE DEF call
<1>3. /\ backups'[o] = call
      /\ \A other \in BackupCallers \ {o} : backups'[other] = backups[other]
  BY <1>1 DEF BackupInv, BackupTypes
<1>4. \A other \in BackupCallers \ {o} : backups[other].pc \notin Working \cup {"running"}
  BY <1>1 DEF BackupInv, LockIsTheirs
<1>5. BackupTypes' /\ LockIsTheirs'
  BY <1>1, <1>2, <1>3, <1>4 DEF BackupInv, BackupTypes, LockIsTheirs
<1>6. ClaimUsed'
  BY <1>1, <1>2, <1>3, <1>4 DEF BackupInv, ClaimUsed, At, Working
<1>7. UnclaimedIsUnstarted'
  BY <1>1 DEF BackupInv, UnclaimedIsUnstarted
<1>8. ExportedOver'
  BY <1>1, <1>2, <1>3, <1>4 DEF BackupInv, ExportedOver, Working
<1> QED BY <1>5, <1>6, <1>7, <1>8 DEF BackupInv

(* A call that wrote down how its run ended. *)
LEMMA BackupRecorded ==
  ASSUME BackupInv, NEW o \in BackupCallers, RecordBackup(o)
  PROVE  BackupInv'
<1> DEFINE run == backups[o].run
           said == IF backups[o].ok THEN "complete" ELSE "ambiguous"
<1>1. /\ At(o, "recording") /\ inside = o /\ inside' = Nowhere
      /\ backups' = [backups EXCEPT ![o] = IdleCall]
      /\ claims' = [claims EXCEPT ![run] = said]
      /\ UNCHANGED <<capability, exported, exports, servingNow, deploying, proofs>>
  BY DEF RecordBackup, Release, BackupInv, LockIsTheirs, At, Working
<1>2. run \in BackupRuns /\ (said = "complete" => run \in exported)
      /\ said \in {"complete", "ambiguous"}
  BY <1>1, BackupCall DEF BackupInv, ClaimUsed, At, Working
<1> HIDE DEF said
<1>3. /\ backups'[o] = IdleCall
      /\ \A other \in BackupCallers \ {o} : backups'[other] = backups[other]
  BY <1>1 DEF BackupInv, BackupTypes
<1>4. \A other \in BackupCallers : backups'[other].pc \notin Working \cup {"running"}
  BY <1>1, <1>3 DEF BackupInv, LockIsTheirs, IdleCall, Working
<1>5. /\ claims' \in [BackupRuns -> ClaimPhases] /\ claims'[run] = said
      /\ \A r \in BackupRuns \ {run} : claims'[r] = claims[r]
  BY <1>1, <1>2 DEF BackupInv, BackupTypes, ClaimPhases
<1>6. BackupTypes' /\ LockIsTheirs' /\ ClaimUsed' /\ ExportedOver'
  BY <1>1, <1>4, <1>5
  DEF BackupInv, BackupTypes, LockIsTheirs, ClaimUsed, ExportedOver, At, Working, BackupCalls
<1>7. UnclaimedIsUnstarted'
  BY <1>1, <1>2, <1>5 DEF BackupInv, UnclaimedIsUnstarted
<1> QED BY <1>6, <1>7 DEF BackupInv

(* A call that got the lock, which was free. *)
LEMMA CallEnters ==
  ASSUME BackupInv, NEW o \in BackupCallers, LockBackup(o) \/ RunTask(o)
  PROVE  BackupInv'
<1>1. /\ inside = Nowhere /\ inside' = o
      /\ UNCHANGED <<capability, claims, exports, exported, servingNow, deploying, proofs>>
  BY DEF LockBackup, RunTask
<1>2. \A other \in BackupCallers : backups[other].pc \notin Working \cup {"running"}
  BY <1>1, NobodyInside
<1>3. /\ backups' \in [BackupCallers -> BackupCalls \cup TaskCalls]
      /\ backups'[o].pc \in {"locked", "running"}
      /\ \A other \in BackupCallers \ {o} : backups'[other] = backups[other]
  <2>1. CASE LockBackup(o)
    BY <2>1, CallMoves DEF LockBackup, BackupInv, At, Working
  <2>2. CASE RunTask(o)
    <3>1. backups[o] \in TaskCalls
      BY <2>2 DEF RunTask, At, BackupInv, BackupTypes, BackupCalls, IdleCall
    <3>2. [backups[o] EXCEPT !.pc = "running"] \in TaskCalls
      BY <3>1 DEF TaskCalls
    <3> QED BY <2>2, <3>1, <3>2 DEF RunTask, Goto, BackupInv, BackupTypes, TaskCalls
  <2> QED BY <2>1, <2>2
<1>4. BackupTypes' /\ LockIsTheirs'
  BY <1>1, <1>2, <1>3 DEF BackupInv, BackupTypes, LockIsTheirs
<1>5. ClaimUsed' /\ UnclaimedIsUnstarted' /\ ExportedOver'
  BY <1>1, <1>2, <1>3
  DEF BackupInv, ClaimUsed, UnclaimedIsUnstarted, ExportedOver, At, Working
<1> QED BY <1>4, <1>5 DEF BackupInv

(* Every step of the callers and of the host keeps the invariant. *)
LEMMA BackupStep == BackupInv /\ [BackupNext]_backupVars => BackupInv'
<1> SUFFICES ASSUME BackupInv, [BackupNext]_backupVars PROVE BackupInv'
  OBVIOUS
<1>1. ASSUME NEW o \in BackupCallers, LockBackup(o) \/ RunTask(o) PROVE BackupInv'
  BY <1>1, CallEnters
<1>2. ASSUME NEW o \in BackupCallers, ClaimBackup(o) PROVE BackupInv'
  BY <1>2, ClaimStep
<1>3. ASSUME NEW o \in BackupCallers, StartExporter(o) PROVE BackupInv'
  BY <1>3, ExportStep
<1>4. ASSUME NEW o \in BackupCallers, NEW ok \in BOOLEAN, EndExporter(o, ok) PROVE BackupInv'
  BY <1>4, ExporterEnds
<1>5. ASSUME NEW o \in BackupCallers, RecordBackup(o) PROVE BackupInv'
  BY <1>5, BackupRecorded
<1>6. ASSUME NEW o \in BackupCallers, BeginTask(o) PROVE BackupInv'
  <2>1. [pc |-> "task"] \in TaskCalls
    BY DEF TaskCalls
  <2> QED BY <1>6, <2>1, CallEnds DEF BeginTask, Working
<1>7. ASSUME NEW o \in BackupCallers, NEW r \in BackupRuns, BeginBackup(o, r)
      PROVE  BackupInv'
  <2>1. [pc |-> "waiting", run |-> r, capability |-> capability, ok |-> FALSE] \in BackupCalls
    BY DEF BackupCalls, BackupInv, BackupTypes
  <2> QED BY <1>7, <2>1, CallEnds DEF BeginBackup, Working
<1>8. ASSUME NEW o \in BackupCallers, EndCall(o) PROVE BackupInv'
  BY <1>8, CallEnds DEF EndCall, Release, IdleCall, BackupCalls, Working
<1>9. ASSUME NEW r \in BackupRuns, IssueProof(r) PROVE BackupInv'
  <2>1. \A other \in BackupRuns : proofs[other] # NoRun => proofs'[other] = proofs[other]
    BY <1>9 DEF IssueProof
  <2> QED BY <1>9, <2>1, HostMoves DEF IssueProof, BackupInv, BackupTypes
<1>10. CASE SubmitDeployment \/ EndDeployment
  BY <1>10, HostMoves DEF SubmitDeployment, EndDeployment, BackupInv, BackupTypes
<1>11. CASE EditAuthority \/ PassTime \/ UNCHANGED backupVars
  BY <1>11, HostMoves DEF EditAuthority, PassTime, backupVars, BackupInv, BackupTypes
<1> QED BY <1>1, <1>2, <1>3, <1>4, <1>5, <1>6, <1>7, <1>8, <1>9, <1>10, <1>11 DEF BackupNext

(* No run is claimed at first. *)
LEMMA BackupStarts == BackupInit => BackupInv
BY DEF BackupInit, BackupInv, BackupTypes, LockIsTheirs, ClaimUsed, UnclaimedIsUnstarted,
       ExportedOver, At, Working, IdleCall, BackupCalls, ClaimPhases

(* So it always holds. *)
THEOREM BackupInvariant == BackupSpec => []BackupInv
BY BackupStarts, BackupStep, PTL DEF BackupSpec

(* routine_backup starts the exporter of a run at most once, a `complete`   *)
(* claim is of an export that succeeded, and an exporter runs over the      *)
(* accepted revision of its proof.                                         *)
THEOREM RunsExportOnce == BackupSpec => []ExportOnce
<1>1. BackupInv => ExportOnce
  BY DEF BackupInv, UnclaimedIsUnstarted, ExportedOver, ExportOnce, At
<1> QED BY <1>1, BackupInvariant, PTL

(* What a lock of the application is held for: a call that is in progress.  *)
LockIsOfACall ==
  /\ capability \in 0..1 /\ exporter \in 0..1 /\ ticks \in 0..MaxTicks
  /\ servingNow \in [revision: BackupRevisions, ready: BOOLEAN]
  /\ proofs \in [BackupRuns -> Proofs]
  /\ inside = Nowhere \/ (inside \in BackupCallers /\ backups[inside] # IdleCall)

(* The calls, the clock and the deployments keep them.                     *)
LEMMA LockIsOfACallStep ==
  BackupInv /\ LockIsOfACall /\ [BackupNext]_backupVars => LockIsOfACall'
<1> SUFFICES ASSUME BackupInv, LockIsOfACall, [BackupNext]_backupVars PROVE LockIsOfACall'
  OBVIOUS
<1> USE RoutineBackupAssumption DEF RoutineBackupAssumption
<1>1. CASE UNCHANGED backupVars
  BY <1>1 DEF LockIsOfACall, backupVars
<1>2. ASSUME NEW o \in BackupCallers, NEW r \in BackupRuns, BeginBackup(o, r)
      PROVE  LockIsOfACall'
  BY <1>2 DEF BeginBackup, LockIsOfACall, BackupInv, BackupTypes, IdleCall
<1>3. ASSUME NEW o \in BackupCallers,
             LockBackup(o) \/ ClaimBackup(o) \/ StartExporter(o) \/ RunTask(o)
             \/ \E ok \in BOOLEAN : EndExporter(o, ok)
      PROVE  LockIsOfACall'
  <2>1. /\ UNCHANGED <<capability, exporter, ticks, servingNow, proofs>>
        /\ inside' \in {inside, o}
    BY <1>3 DEF LockBackup, ClaimBackup, StartExporter, RunTask, EndExporter
  <2>2. /\ backups'[o] # IdleCall
        /\ \A other \in BackupCallers \ {o} : backups'[other] = backups[other]
    <3>1. /\ backups[o] \in BackupCalls \cup TaskCalls
          /\ backups \in [BackupCallers -> BackupCalls \cup TaskCalls]
      BY DEF BackupInv, BackupTypes
    <3>2. /\ backups'[o].pc # "idle"
          /\ \A other \in BackupCallers \ {o} : backups'[other] = backups[other]
      BY <1>3, <3>1 DEF LockBackup, ClaimBackup, StartExporter, RunTask, EndExporter, Goto,
                        BackupCalls, TaskCalls, IdleCall, At
    <3> QED BY <3>2 DEF IdleCall
  <2> QED BY <2>1, <2>2 DEF LockIsOfACall
<1>4. ASSUME NEW o \in BackupCallers, RecordBackup(o) \/ EndCall(o)
      PROVE  LockIsOfACall'
  <2>1. /\ UNCHANGED <<capability, exporter, ticks, servingNow, proofs>>
        /\ inside' = IF inside = o THEN Nowhere ELSE inside
        /\ \A other \in BackupCallers \ {o} : backups'[other] = backups[other]
    BY <1>4 DEF RecordBackup, EndCall, Release, BackupInv, BackupTypes
  <2> QED BY <2>1 DEF LockIsOfACall
<1>5. ASSUME NEW o \in BackupCallers, BeginTask(o) PROVE LockIsOfACall'
  BY <1>5 DEF BeginTask, LockIsOfACall, BackupInv, BackupTypes, IdleCall
<1>6. ASSUME NEW r \in BackupRuns, IssueProof(r) PROVE LockIsOfACall'
  BY <1>6 DEF IssueProof, LockIsOfACall, Proofs
<1>7. CASE SubmitDeployment
  BY <1>7 DEF SubmitDeployment, LockIsOfACall
<1>8. CASE EndDeployment
  BY <1>8 DEF EndDeployment, LockIsOfACall
<1>9. CASE EditAuthority
  BY <1>9 DEF EditAuthority, LockIsOfACall
<1>10. CASE PassTime
  BY <1>10 DEF PassTime, LockIsOfACall
<1> QED BY <1>1, <1>2, <1>3, <1>4, <1>5, <1>6, <1>7, <1>8, <1>9, <1>10 DEF BackupNext

(* The proofs, claims and calls keep their types, and the application's lock *)
(* is held by a call that is in progress.                                  *)
THEOREM BackupsAreTyped == BackupSpec => []BackupTypeOK
<1>1. BackupInit => LockIsOfACall
  <2> SUFFICES ASSUME BackupInit PROVE LockIsOfACall
    OBVIOUS
  <2>1. proofs \in [BackupRuns -> Proofs]
    BY DEF BackupInit, Proofs
  <2>2. servingNow \in [revision: BackupRevisions, ready: BOOLEAN]
    BY DEF BackupInit
  <2> QED BY <2>1, <2>2, RoutineBackupAssumption
          DEF RoutineBackupAssumption, BackupInit, LockIsOfACall
<1>2. BackupInv /\ LockIsOfACall => BackupTypeOK
  BY DEF BackupInv, BackupTypes, LockIsOfACall, BackupTypeOK
<1> QED BY <1>1, <1>2, BackupInvariant, LockIsOfACallStep, PTL DEF BackupSpec

(***************************************************************************)
(* The binding of images (release_bind.rs, image_cache.rs).                *)
(***************************************************************************)
Writing(b) == binders[b].pc \in {"writing", "renaming"}
Learnt(b) == binders[b].pc \in {"storing", "writing", "renaming", "known", "bound"}

CacheTypes ==
  /\ registry \in Images /\ tag \in Images \cup {NoImage} /\ local \subseteq Images
  /\ digests \in [Images -> Configs \cup {NoImage}]
  /\ temporary \in Nat /\ binders \in [Binders -> Binding]
(* Whoever has an image's configuration has that image's; what is bound has *)
(* the accepted one.                                                       *)
LearntIsTrue == \A b \in Binders :
  /\ binders[b].pc \in {"inspected", "exporting"} \/ Learnt(b) => binders[b].image \in Images
  /\ Learnt(b) => binders[b].config = ConfigOf[binders[b].image]
  /\ Is(b, "bound") => binders[b].config = Expected
RecordsAreTrue == \A i \in RecordedImages : digests[i] = ConfigOf[i]
(* One writer at a time, and it has made room for its record.               *)
WriterHasRoom == \A b \in Binders :
  /\ Writing(b) => guard = b /\ Cardinality(RecordedImages) < Limit
  /\ Is(b, "renaming") => temporary > 0
WithinTheLimit ==
  IsFiniteSet(RecordedImages) /\ Cardinality(RecordedImages) <= Limit

CacheInv == /\ CacheTypes /\ LearntIsTrue /\ RecordsAreTrue
            /\ WriterHasRoom /\ WithinTheLimit

(* A step of one binder that leaves the directory alone and writes nothing. *)
LEMMA BinderMoves ==
  ASSUME CacheInv, NEW b \in Binders, NEW v \in Binding,
         binders' = [binders EXCEPT ![b] = v],
         v.pc \notin {"writing", "renaming"},
         v.pc \in {"inspected", "exporting", "storing", "known", "bound"} => v.image \in Images,
         v.pc \in {"storing", "known", "bound"} => v.config = ConfigOf[v.image],
         v.pc = "bound" => v.config = Expected,
         registry' \in Images, tag' \in Images \cup {NoImage}, local' \subseteq Images,
         guard' = guard \/ guard = b,
         UNCHANGED <<digests, temporary>>
  PROVE  CacheInv'
<1>1. binders'[b] = v /\ \A other \in Binders \ {b} : binders'[other] = binders[other]
  BY DEF CacheInv, CacheTypes
<1>2. CacheTypes'
  BY DEF CacheInv, CacheTypes
<1>3. LearntIsTrue'
  BY <1>1 DEF CacheInv, LearntIsTrue, Learnt, Is
<1>4. RecordsAreTrue' /\ WithinTheLimit' /\ RecordedImages' = RecordedImages
  BY DEF CacheInv, RecordsAreTrue, WithinTheLimit, RecordedImages
<1>5. WriterHasRoom'
  BY <1>1, <1>4 DEF CacheInv, WriterHasRoom, Writing, Is
<1> QED BY <1>2, <1>3, <1>4, <1>5 DEF CacheInv

(* A binding at another of its steps. *)
Pcs == {"idle", "pulled", "inspected", "exporting", "storing", "writing", "renaming",
        "known", "listing", "reading", "bound", "refused"}
(* Moving a binder to another step changes nothing else of it. *)
LEMMA BindingAt ==
  ASSUME CacheInv, NEW b \in Binders, NEW at \in Pcs
  PROVE  LET v == [binders[b] EXCEPT !.pc = at]
         IN  v \in Binding /\ v.pc = at /\ v.image = binders[b].image
             /\ v.config = binders[b].config
BY DEF CacheInv, CacheTypes, Binding, Pcs

(* ... to which it goes with what it has. *)
LEMMA BinderSteps ==
  ASSUME CacheInv, NEW b \in Binders, NEW at \in Pcs \ {"writing", "renaming"}, Step(b, at),
         at \in {"inspected", "exporting"} => binders[b].image \in Images,
         at \in {"storing", "known", "bound"} => Learnt(b),
         at = "bound" => binders[b].config = Expected,
         registry' \in Images, tag' \in Images \cup {NoImage}, local' \subseteq Images,
         UNCHANGED <<digests, temporary, guard>>
  PROVE  CacheInv'
<1> DEFINE v == [binders[b] EXCEPT !.pc = at]
<1>1. v \in Binding /\ v.pc = at /\ v.image = binders[b].image /\ v.config = binders[b].config
  BY BindingAt
<1>2. binders' = [binders EXCEPT ![b] = v]
  BY DEF Step
<1> HIDE DEF v
<1>3. /\ v.pc \in {"inspected", "exporting", "storing", "known", "bound"} => v.image \in Images
      /\ v.pc \in {"storing", "known", "bound"} => v.config = ConfigOf[v.image]
      /\ v.pc = "bound" => v.config = Expected
  BY <1>1 DEF CacheInv, LearntIsTrue
<1> QED BY <1>1, <1>2, <1>3, BinderMoves

(* The directory is about to take one more record, or lost its oldest. *)
LEMMA RoomMade ==
  ASSUME CacheInv, NEW b \in Binders, MakeRoom(b)
  PROVE  CacheInv'
<1> USE ImageCacheAssumption DEF ImageCacheAssumption
<1> DEFINE full == Entries >= Limit
           skip == Entries > Limit \/ (full /\ temporary > 0)
<1>1. /\ Is(b, "storing") /\ guard = NoImage
      /\ IF skip THEN Step(b, "known") /\ UNCHANGED guard
                 ELSE Step(b, "writing") /\ guard' = b
      /\ UNCHANGED <<registry, tag, local, temporary>>
  BY DEF MakeRoom
<1>2. PICK first \in Images :
         IF full /\ ~skip
         THEN /\ first \in RecordedImages
              /\ digests' = [digests EXCEPT ![first] = NoImage]
         ELSE UNCHANGED digests
  BY DEF MakeRoom
<1>3. Cardinality(RecordedImages) \in Nat /\ temporary \in Nat
  BY FS_CardinalityType DEF CacheInv, WithinTheLimit, CacheTypes
<1>4. \A other \in Binders : ~Writing(other)
  BY <1>1 DEF CacheInv, WriterHasRoom
<1>5. CASE skip
  BY <1>1, <1>2, <1>5, BinderSteps DEF Is, Learnt, CacheInv, CacheTypes, Pcs
<1>6. CASE ~skip
  <2>1. /\ digests' \in [Images -> Configs \cup {NoImage}]
        /\ RecordedImages' \subseteq RecordedImages
        /\ \A i \in RecordedImages' : digests'[i] = digests[i]
    BY <1>2, <1>6 DEF CacheInv, CacheTypes, RecordedImages
  <2>2. IsFiniteSet(RecordedImages') /\ Cardinality(RecordedImages') < Limit
    <3>1. CASE ~full
      <4>1. RecordedImages' = RecordedImages
        BY <1>2, <3>1 DEF RecordedImages
      <4>2. Cardinality(RecordedImages) < Limit
        BY <1>3, <3>1 DEF Entries
      <4> QED BY <4>1, <4>2 DEF CacheInv, WithinTheLimit
    <3>2. CASE full
      <4>1. RecordedImages' = RecordedImages \ {first} /\ first \in RecordedImages
        BY <1>2, <1>6, <3>2 DEF RecordedImages, CacheInv, CacheTypes
      <4>2. /\ IsFiniteSet(RecordedImages \ {first})
            /\ Cardinality(RecordedImages \ {first}) = Cardinality(RecordedImages) - 1
        BY <4>1, FS_RemoveElement DEF CacheInv, WithinTheLimit
      <4>3. Cardinality(RecordedImages) <= Limit
        BY DEF CacheInv, WithinTheLimit
      <4> QED BY <1>3, <4>1, <4>2, <4>3
    <3> QED BY <3>1, <3>2
  <2>3. Cardinality(RecordedImages') \in Nat
    BY <2>2, FS_CardinalityType
  <2> DEFINE v == [binders[b] EXCEPT !.pc = "writing"]
  <2>4. v \in Binding /\ v.pc = "writing" /\ v.image = binders[b].image
        /\ v.config = binders[b].config
    BY BindingAt DEF Pcs
  <2>5. binders' = [binders EXCEPT ![b] = v] /\ guard' = b
    BY <1>1, <1>6 DEF Step
  <2> HIDE DEF v
  <2>6. binders'[b] = v /\ \A other \in Binders \ {b} : binders'[other] = binders[other]
    BY <2>5 DEF CacheInv, CacheTypes
  <2>7. CacheTypes'
    BY <1>1, <2>1, <2>4, <2>5 DEF CacheInv, CacheTypes
  <2>8. LearntIsTrue'
    BY <1>1, <2>4, <2>6 DEF CacheInv, LearntIsTrue, Learnt, Is
  <2>9. RecordsAreTrue'
    BY <2>1 DEF CacheInv, RecordsAreTrue
  <2>10. WriterHasRoom'
    BY <1>4, <2>2, <2>4, <2>5, <2>6 DEF WriterHasRoom, Writing, Is
  <2>11. WithinTheLimit'
    BY <2>2, <2>3 DEF WithinTheLimit
  <2> QED BY <2>7, <2>8, <2>9, <2>10, <2>11 DEF CacheInv
<1> QED BY <1>5, <1>6

(* The record gets its name. *)
LEMMA DigestRenamed ==
  ASSUME CacheInv, NEW b \in Binders, RenameDigest(b)
  PROVE  CacheInv'
<1> USE ImageCacheAssumption DEF ImageCacheAssumption
<1>0. PICK at \in {"known", "refused", "listing"} : Step(b, at)
  BY DEF RenameDigest, Refusal
<1> DEFINE i == binders[b].image
           v == [binders[b] EXCEPT !.pc = at]
<1>1. /\ Is(b, "renaming") /\ temporary' = temporary - 1 /\ guard' = NoImage
      /\ digests' = [digests EXCEPT ![i] = binders[b].config]
      /\ binders' = [binders EXCEPT ![b] = v]
      /\ UNCHANGED <<registry, tag, local>>
  BY <1>0 DEF RenameDigest, Step
<1>2. /\ guard = b /\ Cardinality(RecordedImages) < Limit /\ temporary > 0
      /\ i \in Images /\ binders[b].config = ConfigOf[i]
      /\ \A other \in Binders \ {b} : ~Writing(other)
  BY <1>1 DEF CacheInv, WriterHasRoom, LearntIsTrue, Learnt, Writing, Is
<1>3. /\ v \in Binding /\ v.image = i /\ v.config = binders[b].config
      /\ v.pc \in {"known", "refused", "listing"}
  <2>1. at \in Pcs
    BY DEF Pcs
  <2> QED BY <2>1, BindingAt
<1> HIDE DEF v
<1>4. binders'[b] = v /\ \A other \in Binders \ {b} : binders'[other] = binders[other]
  BY <1>1 DEF CacheInv, CacheTypes
<1>5. /\ digests' \in [Images -> Configs \cup {NoImage}] /\ digests'[i] = ConfigOf[i]
      /\ \A j \in Images \ {i} : digests'[j] = digests[j]
  BY <1>1, <1>2 DEF CacheInv, CacheTypes
<1>6. RecordedImages' = RecordedImages \cup {i}
  BY <1>2, <1>5 DEF RecordedImages
<1>7. IsFiniteSet(RecordedImages') /\ Cardinality(RecordedImages') <= Limit
  <2>1. IsFiniteSet(RecordedImages)
    BY DEF CacheInv, WithinTheLimit
  <2>2. Cardinality(RecordedImages) \in Nat
    BY <2>1, FS_CardinalityType
  <2>3. /\ IsFiniteSet(RecordedImages \cup {i})
        /\ Cardinality(RecordedImages \cup {i})
             \in {Cardinality(RecordedImages), Cardinality(RecordedImages) + 1}
    BY <2>1, FS_AddElement
  <2> QED BY <1>2, <1>6, <2>2, <2>3
<1>8. CacheTypes'
  BY <1>1, <1>2, <1>3, <1>5 DEF CacheInv, CacheTypes
<1>9. LearntIsTrue'
  BY <1>2, <1>3, <1>4 DEF CacheInv, LearntIsTrue, Learnt, Is
<1>10. RecordsAreTrue'
  BY <1>5, <1>6 DEF CacheInv, RecordsAreTrue, RecordedImages
<1>11. WriterHasRoom'
  BY <1>2, <1>3, <1>4 DEF WriterHasRoom, Writing, Is
<1> QED BY <1>7, <1>8, <1>9, <1>10, <1>11 DEF CacheInv, WithinTheLimit

(* The temporary name of the record. *)
LEMMA DigestWritten ==
  ASSUME CacheInv, NEW b \in Binders, WriteDigest(b)
  PROVE  CacheInv'
<1> DEFINE v == [binders[b] EXCEPT !.pc = "renaming"]
<1>1. /\ Is(b, "writing") /\ temporary' = temporary + 1
      /\ binders' = [binders EXCEPT ![b] = v]
      /\ UNCHANGED <<registry, tag, local, digests, guard>>
  BY DEF WriteDigest, Step
<1>2. v \in Binding /\ v.pc = "renaming" /\ v.image = binders[b].image
      /\ v.config = binders[b].config
  BY BindingAt DEF Pcs
<1> HIDE DEF v
<1>3. binders'[b] = v /\ \A other \in Binders \ {b} : binders'[other] = binders[other]
  BY <1>1 DEF CacheInv, CacheTypes
<1>4. CacheTypes'
  BY <1>1, <1>2 DEF CacheInv, CacheTypes
<1>5. LearntIsTrue'
  BY <1>1, <1>2, <1>3 DEF CacheInv, LearntIsTrue, Learnt, Is
<1>6. RecordsAreTrue' /\ WithinTheLimit' /\ RecordedImages' = RecordedImages
  BY <1>1 DEF CacheInv, RecordsAreTrue, WithinTheLimit, RecordedImages
<1>7. temporary' > 0
  BY <1>1 DEF CacheInv, CacheTypes
<1>8. WriterHasRoom'
  BY <1>1, <1>2, <1>3, <1>6, <1>7 DEF CacheInv, WriterHasRoom, Writing, Is
<1> QED BY <1>4, <1>5, <1>6, <1>8 DEF CacheInv

(* An image that was inspected, exported or found in the directory. *)
LEMMA ImageLearnt ==
  ASSUME CacheInv, NEW b \in Binders,
         \/ Inspect(b) \/ KnownByName(b) \/ LookUpDigest(b) \/ Export(b) \/ ReadDigest(b)
  PROVE  CacheInv'
<1> USE ImageCacheAssumption DEF ImageCacheAssumption
<1>t. binders[b] \in Binding /\ binders \in [Binders -> Binding]
  BY DEF CacheInv, CacheTypes
<1>1. CASE Inspect(b)
  <2> DEFINE v == [binders[b] EXCEPT !.pc = "inspected", !.image = tag]
  <2>1. binders' = [binders EXCEPT ![b] = v]
    BY <1>1, <1>t DEF Inspect
  <2>2. tag \in Images
    BY <1>1 DEF Inspect, CacheInv, CacheTypes
  <2>3. v \in Binding /\ v.pc = "inspected" /\ v.image = tag
    BY <1>t, <2>2 DEF Binding
  <2> HIDE DEF v
  <2> QED BY <1>1, <2>1, <2>2, <2>3, BinderMoves DEF Inspect, CacheInv, CacheTypes
<1>2. CASE LookUpDigest(b)
  <2> DEFINE i == binders[b].image
             v == [binders[b] EXCEPT !.pc = "known", !.config = digests[i]]
  <2>1. Is(b, "inspected") /\ i \in Images
    BY <1>2 DEF LookUpDigest, CacheInv, LearntIsTrue, Is
  <2>2. CASE i \in RecordedImages
    <3>1. binders' = [binders EXCEPT ![b] = v]
      BY <1>2, <1>t, <2>2 DEF LookUpDigest
    <3>2. digests[i] = ConfigOf[i] /\ digests[i] \in Configs
      BY <2>1, <2>2 DEF CacheInv, RecordsAreTrue
    <3>3. v \in Binding /\ v.pc = "known" /\ v.image = i /\ v.config = digests[i]
      BY <1>t, <3>2 DEF Binding
    <3> HIDE DEF v
    <3> QED BY <1>2, <2>1, <3>1, <3>2, <3>3, BinderMoves DEF LookUpDigest, CacheInv, CacheTypes
  <2>3. CASE i \notin RecordedImages
    BY <1>2, <2>1, <2>3, BinderSteps DEF LookUpDigest, CacheInv, CacheTypes, Pcs
  <2> QED BY <2>2, <2>3
<1>3. CASE Export(b)
  <2>1. PICK at \in {"storing", "known"} :
          binders' = [binders EXCEPT ![b].pc = at, ![b].config = ConfigOf[binders[b].image]]
    BY <1>3 DEF Export
  <2> DEFINE i == binders[b].image
             v == [binders[b] EXCEPT !.pc = at, !.config = ConfigOf[i]]
  <2>2. binders' = [binders EXCEPT ![b] = v]
    BY <1>t, <2>1
  <2>3. i \in Images /\ ConfigOf[i] \in Configs
    BY <1>3 DEF Export, CacheInv, LearntIsTrue, Is
  <2>4. v \in Binding /\ v.pc = at /\ v.image = i /\ v.config = ConfigOf[i]
    BY <1>t, <2>3 DEF Binding
  <2> HIDE DEF v
  <2> QED BY <1>3, <2>2, <2>3, <2>4, BinderMoves DEF Export, CacheInv, CacheTypes
<1>4. CASE ReadDigest(b)
  <2>1. CASE Step(b, "refused")
    BY <1>4, <2>1, BinderSteps DEF ReadDigest, CacheInv, CacheTypes, Pcs
  <2>2. ASSUME NEW i \in binders[b].list, digests[i] = NoImage, Step(b, "refused")
        PROVE  CacheInv'
    BY <1>4, <2>2, BinderSteps DEF ReadDigest, CacheInv, CacheTypes, Pcs
  <2>3. ASSUME NEW i \in binders[b].list,
               binders' = [binders EXCEPT ![b].pc = "inspected", ![b].image = i,
                                          ![b].list = {}]
        PROVE  CacheInv'
    <3> DEFINE v == [binders[b] EXCEPT !.pc = "inspected", !.image = i, !.list = {}]
    <3>1. binders' = [binders EXCEPT ![b] = v]
      BY <1>t, <2>3
    <3>2. i \in Images
      BY <1>t DEF Binding
    <3>3. v \in Binding /\ v.pc = "inspected" /\ v.image = i
      BY <1>t, <3>2 DEF Binding
    <3> HIDE DEF v
    <3> QED BY <1>4, <3>1, <3>2, <3>3, BinderMoves DEF ReadDigest, CacheInv, CacheTypes
  <2>4. ASSUME NEW i \in binders[b].list,
               binders' = [binders EXCEPT ![b].list = @ \ {i}]
        PROVE  CacheInv'
    <3> DEFINE v == [binders[b] EXCEPT !.list = @ \ {i}]
    <3>1. binders' = [binders EXCEPT ![b] = v]
      BY <1>t, <2>4
    <3>2. v \in Binding /\ v.pc = "reading"
      BY <1>4, <1>t DEF ReadDigest, Is, Binding
    <3> HIDE DEF v
    <3> QED BY <1>4, <3>1, <3>2, BinderMoves DEF ReadDigest, CacheInv, CacheTypes
  <2> QED BY <1>4, <2>1, <2>2, <2>3, <2>4 DEF ReadDigest
<1>5. CASE KnownByName(b)
  <2> DEFINE i == binders[b].image
             v == [binders[b] EXCEPT !.pc = "known", !.config = ConfigOf[i]]
  <2>1. binders' = [binders EXCEPT ![b] = v]
    BY <1>5, <1>t DEF KnownByName
  <2>2. i \in Images /\ ConfigOf[i] \in Configs
    BY <1>5 DEF KnownByName, CacheInv, LearntIsTrue, Is
  <2>3. v \in Binding /\ v.pc = "known" /\ v.image = i /\ v.config = ConfigOf[i]
    BY <1>t, <2>2 DEF Binding
  <2> HIDE DEF v
  <2> QED BY <1>5, <2>1, <2>2, <2>3, BinderMoves DEF KnownByName, CacheInv, CacheTypes
<1> QED BY <1>1, <1>2, <1>3, <1>4, <1>5

(* A binding fails: it is refused, or looks for the accepted configuration. *)
LEMMA BindingFailed ==
  ASSUME CacheInv, NEW b \in Binders, BindingFails(b)
  PROVE  CacheInv'
<1> USE ImageCacheAssumption DEF ImageCacheAssumption
<1>0. PICK at \in {"refused", "listing"} : Step(b, at)
  BY DEF BindingFails, Refusal
<1> DEFINE v == [binders[b] EXCEPT !.pc = at]
<1>1. /\ binders' = [binders EXCEPT ![b] = v] /\ UNCHANGED <<registry, tag, local, digests>>
      /\ guard' = IF guard = b THEN NoImage ELSE guard
      /\ temporary' = IF Is(b, "renaming") THEN temporary - 1 ELSE temporary
  BY <1>0 DEF BindingFails, Step
<1>2. v \in Binding /\ v.pc \in {"refused", "listing"}
  <2>1. at \in Pcs
    BY DEF Pcs
  <2> QED BY <2>1, BindingAt
<1> HIDE DEF v
<1>3. binders'[b] = v /\ \A other \in Binders \ {b} : binders'[other] = binders[other]
  BY <1>1 DEF CacheInv, CacheTypes
<1>4. temporary' \in Nat
  BY <1>1 DEF CacheInv, CacheTypes, WriterHasRoom
<1>5. CacheTypes'
  BY <1>1, <1>2, <1>4 DEF CacheInv, CacheTypes
<1>6. LearntIsTrue'
  BY <1>1, <1>2, <1>3 DEF CacheInv, LearntIsTrue, Learnt, Is
<1>7. RecordsAreTrue' /\ WithinTheLimit' /\ RecordedImages' = RecordedImages
  BY <1>1 DEF CacheInv, RecordsAreTrue, WithinTheLimit, RecordedImages
<1>8. ASSUME NEW o \in Binders, Writing(o)'
      PROVE  /\ guard' = o /\ Cardinality(RecordedImages) < Limit
             /\ Is(o, "renaming")' => temporary' > 0
  <2>1. o # b /\ binders'[o] = binders[o]
    BY <1>2, <1>3, <1>8 DEF Writing
  <2>2. /\ guard = o /\ Cardinality(RecordedImages) < Limit
        /\ Is(o, "renaming") => temporary > 0
    BY <1>8, <2>1 DEF CacheInv, WriterHasRoom, Writing, Is
  <2>3. ~Is(b, "renaming")
    BY <2>1, <2>2 DEF CacheInv, WriterHasRoom, Writing, Is
  <2> QED BY <1>1, <2>1, <2>2, <2>3 DEF Is
<1>9. WriterHasRoom'
  BY <1>7, <1>8 DEF WriterHasRoom, Writing, Is
<1> QED BY <1>5, <1>6, <1>7, <1>9 DEF CacheInv

(* Every step of the binders, of Docker and of the registry keeps the invariant. *)
LEMMA CacheStep == CacheInv /\ [CacheNext]_cacheVars => CacheInv'
<1> SUFFICES ASSUME CacheInv, [CacheNext]_cacheVars PROVE CacheInv'
  OBVIOUS
<1> USE ImageCacheAssumption DEF ImageCacheAssumption
<1>1. ASSUME NEW b \in Binders, Pull(b) \/ BindLocally(b) PROVE CacheInv'
  <2>1. CASE Pull(b)
    BY <2>1, BinderSteps DEF Pull, CacheInv, CacheTypes, Pcs
  <2>2. CASE BindLocally(b)
    <3>1. binders[b] \in Binding /\ binders \in [Binders -> Binding]
      BY DEF CacheInv, CacheTypes
    <3>2. PICK search \in BOOLEAN :
            binders' = [binders EXCEPT ![b].pc = "pulled", ![b].search = search]
      BY <2>2 DEF BindLocally
    <3> DEFINE v == [binders[b] EXCEPT !.pc = "pulled", !.search = search]
    <3>3. v \in Binding /\ v.pc = "pulled" /\ binders' = [binders EXCEPT ![b] = v]
      BY <3>1, <3>2 DEF Binding
    <3> HIDE DEF v
    <3> QED BY <2>2, <3>3, BinderMoves DEF BindLocally, CacheInv, CacheTypes
  <2> QED BY <1>1, <2>1, <2>2
<1>2. ASSUME NEW b \in Binders,
             \/ Inspect(b) \/ KnownByName(b) \/ LookUpDigest(b) \/ Export(b)
             \/ ReadDigest(b)
      PROVE  CacheInv'
  BY <1>2, ImageLearnt
<1>3. ASSUME NEW b \in Binders, MakeRoom(b) PROVE CacheInv'
  BY <1>3, RoomMade
<1>4. ASSUME NEW b \in Binders, WriteDigest(b) PROVE CacheInv'
  BY <1>4, DigestWritten
<1>5. ASSUME NEW b \in Binders, RenameDigest(b) PROVE CacheInv'
  BY <1>5, DigestRenamed
<1>6. ASSUME NEW b \in Binders, Decide(b) PROVE CacheInv'
  <2>1. CASE binders[b].config = Expected
    BY <1>6, <2>1, BinderSteps DEF Decide, Is, Learnt, CacheInv, CacheTypes, Pcs
  <2>2. CASE binders[b].config # Expected
    <3>1. Refusal(b) \in {"refused", "listing"} /\ Step(b, Refusal(b))
      BY <1>6, <2>2 DEF Decide, Refusal
    <3> QED BY <1>6, <3>1, BinderSteps DEF Decide, CacheInv, CacheTypes, Pcs
  <2> QED BY <2>1, <2>2
<1>7. ASSUME NEW b \in Binders, ListDigests(b) PROVE CacheInv'
  <2>1. CASE Step(b, "refused")
    BY <1>7, <2>1, BinderSteps DEF ListDigests, CacheInv, CacheTypes, Pcs
  <2>2. CASE binders' = [binders EXCEPT ![b].pc = "reading", ![b].list = RecordedImages,
                                      ![b].search = FALSE]
    <3> DEFINE v == [binders[b] EXCEPT !.pc = "reading", !.list = RecordedImages,
                                       !.search = FALSE]
    <3>1. binders[b] \in Binding /\ binders \in [Binders -> Binding]
      BY DEF CacheInv, CacheTypes
    <3>2. binders' = [binders EXCEPT ![b] = v]
      BY <2>2, <3>1
    <3>3. v \in Binding /\ v.pc = "reading"
      BY <3>1 DEF Binding, RecordedImages
    <3> HIDE DEF v
    <3> QED BY <1>7, <3>2, <3>3, BinderMoves DEF ListDigests, CacheInv, CacheTypes
  <2> QED BY <1>7, <2>1, <2>2 DEF ListDigests
<1>8. ASSUME NEW b \in Binders, EndBinding(b) \/ Die(b) PROVE CacheInv'
  <2>1. Idling \in Binding /\ Idling.pc = "idle"
    BY DEF Idling, Binding
  <2>2. binders' = [binders EXCEPT ![b] = Idling] /\ (guard' = guard \/ guard = b)
    BY <1>8 DEF EndBinding, Die
  <2> QED BY <1>8, <2>1, <2>2, BinderMoves DEF EndBinding, Die, CacheInv, CacheTypes
<1>9. CASE (\E i \in Images : PruneImage(i)) \/ Push \/ UNCHANGED cacheVars
  <2>1. /\ registry' \in Images /\ tag' = tag /\ local' \subseteq local
        /\ UNCHANGED <<digests, temporary, guard, binders>>
    BY <1>9 DEF PruneImage, Push, cacheVars, CacheInv, CacheTypes
  <2> QED BY <2>1 DEF CacheInv, CacheTypes, LearntIsTrue, Learnt, RecordsAreTrue,
          WriterHasRoom, Writing, WithinTheLimit, RecordedImages, Is
<1>10. ASSUME NEW b \in Binders, BindingFails(b) PROVE CacheInv'
  BY <1>10, BindingFailed
<1> QED BY <1>1, <1>2, <1>3, <1>4, <1>5, <1>6, <1>7, <1>8, <1>9, <1>10
      DEF CacheNext

(* The directory is empty at first. *)
LEMMA CacheStarts == CacheInit => CacheInv
<1> SUFFICES ASSUME CacheInit PROVE CacheInv
  OBVIOUS
<1>1. RecordedImages = {}
  BY DEF CacheInit, RecordedImages
<1>2. Idling \in Binding /\ Idling.pc = "idle"
  BY DEF Idling, Binding
<1>3. WithinTheLimit
  BY <1>1, FS_EmptySet, ImageCacheAssumption DEF WithinTheLimit, ImageCacheAssumption
<1>4. CacheTypes
  BY <1>2 DEF CacheInit, CacheTypes
<1> QED BY <1>1, <1>2, <1>3, <1>4
   DEF CacheInit, CacheInv, LearntIsTrue, Learnt, RecordsAreTrue, WriterHasRoom, Writing, Is

(* So it always holds. *)
THEOREM CacheInvariant == CacheSpec => []CacheInv
BY CacheStarts, CacheStep, PTL DEF CacheSpec

(* verify_image binds a service only to an image of the accepted            *)
(* configuration, no record of the directory is untrue of its image, and the *)
(* lock that is held only to store keeps the directory within its limit.    *)
THEOREM BindingsAreAccepted == CacheSpec => []BoundIsAccepted
<1>1. CacheInv => BoundIsAccepted
  BY DEF CacheInv, LearntIsTrue, Learnt, RecordsAreTrue, WithinTheLimit, BoundIsAccepted, Is
<1> QED BY <1>1, CacheInvariant, PTL

(* The lock of the directory of digests has a holder or none.              *)
GuardTyped == guard \in Binders \cup {NoImage}

(* A binder takes it for itself and gives it back.                         *)
LEMMA GuardTypedStep == GuardTyped /\ [CacheNext]_cacheVars => GuardTyped'
BY DEF GuardTyped, CacheNext, cacheVars, Pull, BindLocally, Inspect, KnownByName, LookUpDigest,
       Export, BindingFails, MakeRoom, WriteDigest, RenameDigest, Decide, ListDigests,
       ReadDigest, EndBinding, Die, Push, PruneImage

(* The tag, the directory and the binders keep their types.                *)
THEOREM CacheIsTyped == CacheSpec => []ImageCacheTypeOK
<1>1. CacheInit => GuardTyped
  BY DEF CacheInit, GuardTyped
<1>2. CacheInv /\ GuardTyped => ImageCacheTypeOK
  BY DEF CacheInv, CacheTypes, GuardTyped, ImageCacheTypeOK
<1> QED BY <1>1, <1>2, CacheInvariant, GuardTypedStep, PTL DEF CacheSpec

(***************************************************************************)
(* Setup and registration (provision.rs, keys.rs, alpine.sh).              *)
(***************************************************************************)
WholeKey == {"private", "pair"}

(* A key file is torn only while it is being written, or when nobody works  *)
(* with it; once its private half is whole, it stays so.  Setup sends its   *)
(* public half, and a script runs, only afterwards.                        *)
Script == [at: Nat, backup: SUBSET SUBSET {"doas", "sshd"}, end: {"none", "done", "failed"}]
SetupSteps == {"idle", "doctor", "init", "agent", "proxy", "report", "key", "create", "write",
               "public", "register", "await", "bootstrap", "bind"}
KeyShapes == /\ keyfile \in [Operators -> {"none", "torn", "private", "pair"}]
             /\ setup \in [Operators -> SetupSteps]
             /\ script \in [Operators -> Script]
KeyAtSetup == \A o \in Operators :
  /\ setup[o] = "create" => keyfile[o] = "none"
  /\ setup[o] = "write" => keyfile[o] = "torn"
  /\ setup[o] \in {"public", "register", "await"} => keyfile[o] \in WholeKey
SentIsWhole == \A o \in Operators : script[o].at # 0 => keyfile[o] \in WholeKey
AuthorizedIsWhole ==
  authorized = NoKey \/ (authorized \in Operators /\ keyfile[authorized] \in WholeKey)

SetupInv == KeyShapes /\ KeyAtSetup /\ SentIsWhole /\ AuthorizedIsWhole
(* A step of the command that leaves the key file and the script alone.     *)
LEMMA SetupGoes ==
  ASSUME SetupInv, NEW o \in Operators, NEW step \in SetupSteps, Goes(o, step),
         step = "create" => keyfile[o] = "none",
         step = "write" => keyfile[o] = "torn",
         step \in {"public", "register", "await"} => keyfile[o] \in WholeKey,
         UNCHANGED <<keyfile, script, authorized>>
  PROVE  SetupInv'
<1>1. /\ setup' \in [Operators -> SetupSteps] /\ setup'[o] = step
      /\ \A other \in Operators \ {o} : setup'[other] = setup[other]
  BY DEF SetupInv, KeyShapes, Goes
<1> QED BY <1>1 DEF SetupInv, KeyShapes, KeyAtSetup, SentIsWhole, AuthorizedIsWhole

(* The key file is written, nothing of it having been sent before.          *)
LEMMA KeyWritten ==
  ASSUME SetupInv, NEW o \in Operators, NEW step \in {"write", "public", "register"},
         NEW key \in {"torn", "private", "pair"},
         Goes(o, step), keyfile' = [keyfile EXCEPT ![o] = key],
         step = "write" => key = "torn" /\ keyfile[o] = "none",
         step # "write" => key \in WholeKey,
         UNCHANGED <<script, authorized>>
  PROVE  SetupInv'
<1>1. /\ setup' \in [Operators -> SetupSteps] /\ setup'[o] = step
      /\ \A other \in Operators \ {o} : setup'[other] = setup[other]
  BY DEF SetupInv, KeyShapes, Goes, SetupSteps
<1>2. /\ keyfile' \in [Operators -> {"none", "torn", "private", "pair"}]
      /\ keyfile'[o] = key
      /\ \A other \in Operators \ {o} : keyfile'[other] = keyfile[other]
  BY DEF SetupInv, KeyShapes
<1>3. keyfile[o] \in WholeKey => key \in WholeKey
  BY DEF WholeKey
<1> QED BY <1>1, <1>2, <1>3
    DEF SetupInv, KeyShapes, KeyAtSetup, SentIsWhole, AuthorizedIsWhole

(* A script goes on or ends, and puts nobody's key in place but its sender's. *)
LEMMA ScriptMoves ==
  ASSUME SetupInv, NEW o \in Operators, NEW s \in Script,
         script' = [script EXCEPT ![o] = s],
         s.at # 0 => keyfile[o] \in WholeKey,
         \/ authorized' = authorized
         \/ authorized' = o /\ keyfile[o] \in WholeKey,
         UNCHANGED <<keyfile, setup>>
  PROVE  SetupInv'
<1>1. /\ script' \in [Operators -> Script] /\ script'[o] = s
      /\ \A other \in Operators \ {o} : script'[other] = script[other]
  BY DEF SetupInv, KeyShapes
<1> QED BY <1>1 DEF SetupInv, KeyShapes, KeyAtSetup, SentIsWhole, AuthorizedIsWhole

(* Every step of a command and of a script keeps the invariant. *)
LEMMA SetupStep == SetupInv /\ [SetupNext]_setupVars => SetupInv'
<1> USE DEF SetupSteps
<1> SUFFICES ASSUME SetupInv, [SetupNext]_setupVars PROVE SetupInv'
  OBVIOUS
<1>n. NoScript \in Script /\ NoScript.at = 0
  BY DEF NoScript, Script
<1>1. ASSUME NEW o \in Operators,
             SetupFails(o) \/ Starts(o) \/ Examines(o) \/ Initializes(o) \/ Reports(o)
             \/ Bootstraps(o) \/ Binds(o)
      PROVE  SetupInv'
  <2>1. \E step \in {"idle", "doctor", "report", "init", "agent", "proxy", "bootstrap", "key",
                     "bind"} : Goes(o, step)
    BY <1>1 DEF SetupFails, Starts, Examines, Initializes, Reports, Bootstraps, Binds, AtRest
  <2>2. UNCHANGED <<keyfile, script, authorized>>
    BY <1>1 DEF SetupFails, Starts, Examines, Initializes, Reports, Bootstraps, Binds, hostVars
  <2> QED BY <2>1, <2>2, SetupGoes
<1>2. ASSUME NEW o \in Operators, FindsKey(o) PROVE SetupInv'
  BY <1>2, SetupGoes DEF FindsKey, WholeKey, hostVars
<1>3. ASSUME NEW o \in Operators, CreatesKeyFile(o) PROVE SetupInv'
  BY <1>3, KeyWritten DEF CreatesKeyFile, SetupInv, KeyAtSetup, hostVars
<1>4. ASSUME NEW o \in Operators, WritesKey(o) PROVE SetupInv'
  BY <1>4, KeyWritten DEF WritesKey, WholeKey, hostVars
<1>5. ASSUME NEW o \in Operators, ClearsKey(o) PROVE SetupInv'
  <2>1. /\ keyfile' \in [Operators -> {"none", "torn", "private", "pair"}]
        /\ keyfile[o] = "torn" /\ setup[o] = "idle"
        /\ \A other \in Operators \ {o} : keyfile'[other] = keyfile[other]
        /\ UNCHANGED <<setup, script, authorized>>
    BY <1>5 DEF ClearsKey, AtRest, hostVars, SetupInv, KeyShapes
  <2> QED BY <2>1 DEF SetupInv, KeyShapes, KeyAtSetup, SentIsWhole, AuthorizedIsWhole, WholeKey
<1>6. ASSUME NEW o \in Operators, Registers(o) PROVE SetupInv'
  <2> DEFINE s == [NoScript EXCEPT !.at = 1]
  <2>1. s \in Script
    BY DEF NoScript, Script
  <2>2. /\ setup' \in [Operators -> SetupSteps] /\ setup'[o] = "await" /\ keyfile[o] \in WholeKey
        /\ \A other \in Operators \ {o} : setup'[other] = setup[other]
    BY <1>6 DEF Registers, Goes, SetupInv, KeyShapes, KeyAtSetup
  <2>3. /\ script' \in [Operators -> Script]
        /\ \A other \in Operators \ {o} : script'[other] = script[other]
    BY <1>6, <2>1 DEF Registers, SetupInv, KeyShapes
  <2>4. UNCHANGED <<keyfile, authorized>>
    BY <1>6 DEF Registers
  <2> QED BY <2>2, <2>3, <2>4 DEF SetupInv, KeyShapes, KeyAtSetup, SentIsWhole, AuthorizedIsWhole
<1>7. ASSUME NEW o \in Operators, RunsScript(o) PROVE SetupInv'
  <2>1. /\ keyfile[o] \in WholeKey /\ script[o] \in Script
        /\ script \in [Operators -> Script]
    BY <1>7 DEF RunsScript, SetupInv, KeyShapes, SentIsWhole
  <2>4. script[o].at + 1 \in Nat /\ script[o].end \in {"none", "done", "failed"}
    BY <2>1 DEF Script
  <2>2. PICK s \in Script : script' = [script EXCEPT ![o] = s]
    <3>1. CASE script' = [script EXCEPT ![o].at = @ + 1]
      <4>1. [script[o] EXCEPT !.at = @ + 1] \in Script
        BY <2>1 DEF Script
      <4> QED BY <3>1, <4>1
    <3>2. CASE Scripted(o) \in {"doas", "sshd"}
               /\ script' = [script EXCEPT ![o].backup = {parts \cap {Scripted(o)}}]
      <4>1. {parts \cap {Scripted(o)}} \in SUBSET SUBSET {"doas", "sshd"}
        BY <3>2
      <4> DEFINE copy == {parts \cap {Scripted(o)}}
      <4>2. [script[o] EXCEPT !.backup = copy] \in Script
        <5> HIDE DEF copy
        <5> QED BY <2>1, <4>1 DEF Script, copy
      <4> QED BY <3>2, <4>2
    <3>3. CASE script' = [script EXCEPT ![o].backup = {}, ![o].at = @ + 1]
      <4> DEFINE copy == {}
      <4>1. copy \in SUBSET SUBSET {"doas", "sshd"}
        OBVIOUS
      <4> DEFINE next == script[o].at + 1
                 s == [script[o] EXCEPT !.backup = copy, !.at = next]
      <4>2. next \in Nat /\ script' = [script EXCEPT ![o] = s]
        BY <2>1, <2>4, <3>3
      <4>3. s \in Script
        <5> HIDE DEF copy, next
        <5> QED BY <2>1, <4>1, <4>2 DEF Script
      <4> HIDE DEF s
      <4> QED BY <4>2, <4>3
    <3> QED BY <1>7, <3>1, <3>2, <3>3 DEF RunsScript
  <2>3. authorized' = authorized \/ authorized' = o
    BY <1>7 DEF RunsScript
  <2> QED BY <1>7, <2>1, <2>2, <2>3, ScriptMoves DEF RunsScript
<1>8. ASSUME NEW o \in Operators, Aborts(o) \/ Completes(o) PROVE SetupInv'
  <2>1. PICK s \in {NoScript, [NoScript EXCEPT !.end = "failed"], [NoScript EXCEPT !.end = "done"]} :
          script' = [script EXCEPT ![o] = s]
    BY <1>8 DEF Aborts, Completes
  <2>2. s \in Script /\ s.at = 0
    BY DEF NoScript, Script
  <2> QED BY <1>8, <2>1, <2>2, ScriptMoves DEF Aborts, Completes
<1>9. ASSUME NEW o \in Operators, HearsScript(o) PROVE SetupInv'
  <2>1. PICK step \in {"bootstrap", "idle"} : Goes(o, step)
    BY <1>9 DEF HearsScript, AtRest
  <2>2. /\ setup' \in [Operators -> SetupSteps] /\ setup'[o] = step
        /\ \A other \in Operators \ {o} : setup'[other] = setup[other]
    BY <2>1 DEF SetupInv, KeyShapes, Goes
  <2>3. /\ script' \in [Operators -> Script] /\ script'[o].at = 0
        /\ \A other \in Operators \ {o} : script'[other] = script[other]
        /\ UNCHANGED <<keyfile, authorized>>
    BY <1>9, <1>n DEF HearsScript, SetupInv, KeyShapes
  <2> QED BY <2>2, <2>3 DEF SetupInv, KeyShapes, KeyAtSetup, SentIsWhole, AuthorizedIsWhole
<1>10. CASE UNCHANGED setupVars
  BY <1>10 DEF setupVars, SetupInv, KeyShapes, KeyAtSetup, SentIsWhole, AuthorizedIsWhole
<1> QED BY <1>1, <1>2, <1>3, <1>4, <1>5, <1>6, <1>7, <1>8, <1>9, <1>10 DEF SetupNext

(* No key is there at first. *)
LEMMA SetupStarts == SetupInit => SetupInv
BY DEF SetupInit, SetupInv, KeyShapes, KeyAtSetup, SentIsWhole, AuthorizedIsWhole,
       AtRest, NoScript, Script, SetupSteps

(* So it always holds. *)
THEOREM SetupInvariant == SetupSpec => []SetupInv
BY SetupStarts, SetupStep, PTL DEF SetupSpec

(* Every key that a deploy account accepts is held by somebody: its private *)
(* half is whole on the disk of the workstation that sent it (keys.rs,      *)
(* provision.rs), for any number of operators and however their commands    *)
(* and scripts are cut off.                                                *)
THEOREM AuthorizedKeysAreHeld == SetupSpec => []KeyHeld
<1>1. SetupInv => KeyHeld
  BY DEF SetupInv, AuthorizedIsWhole, KeyHeld, WholeKey
<1> QED BY <1>1, SetupInvariant, PTL

(* What setup, and the registration script's steps, leave on the host; the   *)
(* copy that a script takes is of what was in place.                       *)
HostTyped ==
  /\ bound \subseteq Operators
  /\ parts \subseteq {ScriptSteps[i] : i \in 1..Len(ScriptSteps)}
  /\ policy \in {"none", "initial", "enabled"}
  /\ agent \in {"none", "prepared", "installed", "proxied"}
  /\ \A o \in Operators : UNION script[o].backup \subseteq {"doas", "sshd"}

(* The commands and the scripts keep them.                                 *)
LEMMA HostTypedStep == SetupInv /\ HostTyped /\ [SetupNext]_setupVars => HostTyped'
<1> SUFFICES ASSUME SetupInv, HostTyped, [SetupNext]_setupVars PROVE HostTyped'
  OBVIOUS
<1> DEFINE Places == {ScriptSteps[i] : i \in 1..Len(ScriptSteps)}
<1>1. Len(ScriptSteps) = 6 /\ {"doas", "sshd"} \subseteq Places
  <2>1. Len(ScriptSteps) = 6 /\ ScriptSteps[5] = "doas" /\ ScriptSteps[6] = "sshd"
    BY DEF ScriptSteps
  <2> QED BY <2>1
<1> HIDE DEF Places
<1>2. CASE UNCHANGED setupVars
  BY <1>2 DEF HostTyped, setupVars, Places
<1>3. ASSUME NEW o \in Operators,
             \/ SetupFails(o) \/ Starts(o) \/ Examines(o) \/ Reports(o) \/ FindsKey(o)
             \/ CreatesKeyFile(o) \/ WritesKey(o) \/ ClearsKey(o)
      PROVE  HostTyped'
  BY <1>3 DEF SetupFails, Starts, Examines, Reports, FindsKey, CreatesKeyFile, WritesKey, ClearsKey,
              hostVars, HostTyped
<1>4. ASSUME NEW o \in Operators, Initializes(o) \/ Bootstraps(o) \/ Binds(o)
      PROVE  HostTyped'
  BY <1>4 DEF Initializes, Bootstraps, Binds, hostVars, HostTyped
<1>5. ASSUME NEW o \in Operators, NEW v, v.backup = {} \/ UNION v.backup \subseteq {"doas", "sshd"},
             script' = [script EXCEPT ![o] = v]
      PROVE  \A p \in Operators : UNION script'[p].backup \subseteq {"doas", "sshd"}
  BY <1>5 DEF HostTyped, SetupInv, KeyShapes
<1>6. ASSUME NEW o \in Operators, Registers(o) \/ Completes(o) \/ HearsScript(o)
      PROVE  HostTyped'
  <2>1. PICK v : v.backup = {} /\ script' = [script EXCEPT ![o] = v]
    BY <1>6 DEF Registers, Completes, HearsScript, NoScript
  <2>2. UNCHANGED <<parts, policy, agent, bound>>
    BY <1>6 DEF Registers, Completes, HearsScript
  <2> QED BY <1>5, <2>1, <2>2 DEF HostTyped
<1>7. ASSUME NEW o \in Operators, RunsScript(o) PROVE HostTyped'
  <2>1. /\ script \in [Operators -> Script] /\ Scripted(o) \in Places
        /\ UNCHANGED <<bound, agent>>
    BY <1>7 DEF RunsScript, Scripted, SetupInv, KeyShapes, Places
  <2>2. parts' \subseteq Places /\ policy' \in {"none", "initial", "enabled"}
    BY <1>7, <2>1 DEF RunsScript, HostTyped, Places
  <2>3. PICK v : /\ v.backup = {} \/ UNION v.backup \subseteq {"doas", "sshd"}
                 /\ script' = [script EXCEPT ![o] = v]
    <3>1. CASE Scripted(o) \notin {"doas", "sshd"} /\ script' = [script EXCEPT ![o].at = @ + 1]
      <4>1. [script[o] EXCEPT !.at = @ + 1].backup = script[o].backup
        BY <2>1 DEF Script
      <4>2. script' = [script EXCEPT ![o] = [script[o] EXCEPT !.at = @ + 1]]
        BY <2>1, <3>1
      <4> QED BY <4>1, <4>2 DEF HostTyped
    <3>2. CASE Scripted(o) \in {"doas", "sshd"}
               /\ script' = [script EXCEPT ![o].backup = {parts \cap {Scripted(o)}}]
      <4> DEFINE v == [script[o] EXCEPT !.backup = {parts \cap {Scripted(o)}}]
      <4>1. v.backup = {parts \cap {Scripted(o)}}
        BY <2>1 DEF Script
      <4>2. script' = [script EXCEPT ![o] = v]
        BY <2>1, <3>2
      <4>3. UNION v.backup \subseteq {"doas", "sshd"}
        BY <4>1, <3>2
      <4> QED BY <4>2, <4>3
    <3>3. CASE script' = [script EXCEPT ![o].backup = {}, ![o].at = @ + 1]
      <4> DEFINE v == [script[o] EXCEPT !.backup = {}, !.at = @ + 1]
      <4>1. v.backup = {}
        BY <2>1 DEF Script
      <4>2. script' = [script EXCEPT ![o] = v]
        BY <2>1, <3>3
      <4> QED BY <4>1, <4>2
    <3> QED BY <1>7, <3>1, <3>2, <3>3 DEF RunsScript
  <2>4. \A p \in Operators : UNION script'[p].backup \subseteq {"doas", "sshd"}
    BY <1>5, <2>3
  <2> QED BY <2>1, <2>2, <2>4 DEF HostTyped, Places
<1>8. ASSUME NEW o \in Operators, Aborts(o) PROVE HostTyped'
  <2>1. PICK v \in {NoScript, [NoScript EXCEPT !.end = "failed"]} :
          script' = [script EXCEPT ![o] = v]
    BY <1>8 DEF Aborts
  <2>2. v.backup = {}
    BY DEF NoScript
  <2>3. parts' \subseteq Places
    BY <1>1, <1>8 DEF Aborts, HostTyped, Places
  <2> QED BY <1>5, <1>8, <2>1, <2>2, <2>3 DEF Aborts, HostTyped, Places
<1> QED BY <1>2, <1>3, <1>4, <1>6, <1>7, <1>8 DEF SetupNext

(* The key files, what the scripts put in place and how far the host is     *)
(* initialised keep their types, also when a script puts its copy back.    *)
THEOREM SetupIsTyped == SetupSpec => []SetupTypeOK
<1>1. SetupInit => HostTyped
  BY DEF SetupInit, HostTyped, NoScript
<1>2. SetupInv /\ HostTyped => SetupTypeOK
  BY DEF SetupInv, KeyShapes, AuthorizedIsWhole, HostTyped, SetupTypeOK
<1> QED BY <1>1, <1>2, SetupInvariant, HostTypedStep, PTL DEF SetupSpec

(***************************************************************************)
(* The caller's commands (protocol.rs, deployment.rs).                     *)
(***************************************************************************)
Changing == {"change", "try", "submit"}

(* A plan checks its input before it changes the host: what fails with exit *)
(* 64 or 65 stands before every change.                                    *)
ChecksFirst(plan) ==
  /\ Len(plan) \in Nat
  /\ \A i, j \in 1..Len(plan) :
       i < j /\ plan[j] \in {"local", "compare"} => plan[i] \notin Changing

(* Every command's plan does, and those that only read change nothing.      *)
LEMMA PlansCheckFirst ==
  ASSUME NEW k \in DOMAIN Plan
  PROVE  /\ ChecksFirst(Plan[k]) /\ k # "none"
         /\ k \in {"report", "reconcile"} =>
              \A i \in 1..Len(Plan[k]) : Plan[k][i] \notin Changing
<1> USE DEF ChecksFirst, Changing
<1>1. ChecksFirst(DeployPlan) /\ ChecksFirst(SubmitPlan)
  BY DEF DeployPlan, SubmitPlan
<1>2. ChecksFirst(RecoverPlan) /\ ChecksFirst(LifecyclePlan)
  BY DEF RecoverPlan, LifecyclePlan
<1>3. ChecksFirst(SetSecretPlan) /\ ChecksFirst(UnsetSecretPlan)
  BY DEF SetSecretPlan, UnsetSecretPlan
<1>4. ChecksFirst(PlatformPlan) /\ ChecksFirst(HelperPlan) /\ ChecksFirst(PreviewPlan)
  BY DEF PlatformPlan, HelperPlan, PreviewPlan
<1>5. ChecksFirst(InitPlan) /\ ChecksFirst(ProxyPlan) /\ ChecksFirst(RemovePlan)
  BY DEF InitPlan, ProxyPlan, RemovePlan
<1>6. ChecksFirst(UpdatePlan)
  BY DEF UpdatePlan
<1>7. /\ ChecksFirst(ReportPlan) /\ ChecksFirst(ReconcilePlan)
      /\ \A i \in 1..Len(ReportPlan) : ReportPlan[i] \notin Changing
      /\ \A i \in 1..Len(ReconcilePlan) : ReconcilePlan[i] \notin Changing
  BY DEF ReportPlan, ReconcilePlan
<1> HIDE DEF ChecksFirst, Changing
<1> QED BY <1>1, <1>2, <1>3, <1>4, <1>5, <1>6, <1>7 DEF Plan

(***************************************************************************)
(* The inductive invariant.                                                *)
(***************************************************************************)
Late == BOOLEAN
Codes == {1, 64, 65}
Kept == {"none", "missed", "whole", "cut"}
Phased == {"running", "accepted", "failed", "interrupted", "reconciled"}
CallerOperations == [id: Nat, owner: Callers \cup {"none"}, phase: {"none"} \cup Phased]
Running == [kind: CallerKinds, at: Nat \ {0}, exit: {0, 1, 64, 65}, expired: Late,
            data: Kept, id: Nat, seen: CallerOperations, shown: CallerOperations]
Errors == {"timeout", "invalid_input", "state_mismatch", "command_failed", "output_limit"}
Verdicts == [kind: CallerKinds \cup {"none"}, ok: BOOLEAN, code: {"none"} \cup Errors,
             reconciliation: BOOLEAN, id: Nat, shown: CallerOperations]

CallTypes ==
  /\ command \in [Callers -> Running \cup {Idle}]
  /\ \A c \in Callers : Active(c) => command[c].at <= Len(Plan[command[c].kind]) + 1
  /\ verdict \in [Callers -> Verdicts]
  /\ wire \subseteq [from: Callers, kind: CallerKinds, at: Nat, seen: CallerOperations]
  /\ heard \in [Callers -> [is: {"none", "waiting", "done", "refused"}, id: Nat]]
  /\ hostop \in CallerOperations

(* Operation n is the one that c's submission was admitted as.              *)
Owned(c, n) == n >= 1 /\ n <= hostop.id /\ (hostop.id = n => hostop.owner = c)

(* What a deployment knows at each of its steps about its own operation.    *)
Receipt(c, cmd) ==
  cmd.kind = "deploy" /\ cmd.exit = 0 =>
    /\ cmd.at > 5 => Owned(c, cmd.id)
    /\ cmd.at > 6 => cmd.id \in succeeded
    /\ cmd.at > 7 => (cmd.shown.id = cmd.id => cmd.shown.owner = c)
    /\ cmd.at > 8 => cmd.shown.id = cmd.id

CallerUntouched(c) == c \notin changed /\ \A r \in wire : r.from # c

(* A command that has asked for no change, that failed with exit 64 or 65,  *)
(* or that only reads, has left the host alone.                            *)
Certain(c, cmd, answer) ==
  \/ cmd.exit \in {64, 65}
  \/ cmd.kind \in {"report", "reconcile"}
  \/ /\ cmd.exit = 0 /\ answer = Nothing
     /\ \A i \in 1..(cmd.at - 1) : Plan[cmd.kind][i] \notin Changing
  => CallerUntouched(c)

Knows == \A c \in Callers :
  Active(c) => Receipt(c, command[c]) /\ Certain(c, command[c], heard[c])

(* A request and its answer belong to the step their caller is in.          *)
InFlight == \A c \in Callers : heard[c] # Nothing =>
  /\ Active(c) /\ command[c].exit = 0
  /\ command[c].at <= Len(Plan[command[c].kind])
  /\ Plan[command[c].kind][command[c].at] \in Changing
  /\ heard[c].is = "done" /\ command[c].kind = "deploy" => Owned(c, heard[c].id)
WireMatches == \A r \in wire : Active(r.from) => r.kind = command[r.from].kind

(* Everybody gives one command, and who gave none has touched nothing.      *)
OneCommand == \A c \in Callers :
  /\ verdict[c] # NoVerdict => ~Active(c)
  /\ ~Active(c) /\ verdict[c] = NoVerdict => CallerUntouched(c)

(* The envelope of a failed preview database is the one that may be wrong.  *)
CertainVerdicts == \A c \in Callers :
  verdict[c].code # "none" /\ ~verdict[c].reconciliation =>
    CallerUntouched(c) \/ verdict[c].kind = "preview_database"

CallerInv == /\ CallTypes /\ Knows /\ InFlight /\ WireMatches /\ OneCommand
             /\ CertainVerdicts /\ ReceiptTrue

(* A running command is none that is not given. *)
LEMMA RunningIsActive ==
  /\ \A v \in Running : v # Idle /\ v.kind # "none"
  /\ CallTypes => \A c \in Callers : Active(c) => command[c] \in Running
<1>1. \A k \in CallerKinds : k # "none"
  BY CallerAssumption, PlansCheckFirst DEF CallerAssumption
<1> QED BY <1>1 DEF Running, Idle, CallTypes, Active

(* The step a command is at. *)
LEMMA AtStep ==
  ASSUME CallerInv, NEW c \in Callers, NEW s, StepIs(c, s)
  PROVE  /\ Active(c) /\ command[c] \in Running /\ command[c].exit = 0
         /\ command[c].kind \in DOMAIN Plan
         /\ command[c].at \in 1..Len(Plan[command[c].kind])
         /\ Plan[command[c].kind][command[c].at] = s
         /\ s \notin Changing => heard[c] = Nothing
         /\ verdict[c] = NoVerdict
<1>1. command[c] \in Running /\ command[c].kind \in DOMAIN Plan
  BY RunningIsActive, CallerAssumption DEF CallerAssumption, StepIs, CallerInv, Running
<1>2. ChecksFirst(Plan[command[c].kind])
  BY <1>1, PlansCheckFirst
<1> QED BY <1>1, <1>2 DEF StepIs, CallerInv, InFlight, OneCommand, Running, ChecksFirst

(* Where a deployment takes its steps. *)
LEMMA DeploySteps ==
  ASSUME NEW at \in 1..Len(Plan["deploy"])
  PROVE  /\ Len(Plan["deploy"]) = 9
         /\ Plan["deploy"][at] =
              IF at \in {1, 3} THEN "local" ELSE IF at = 2 THEN "check"
              ELSE IF at = 4 THEN "reach" ELSE IF at = 5 THEN "submit"
              ELSE IF at = 6 THEN "wait" ELSE IF at = 7 THEN "inspect"
              ELSE IF at = 8 THEN "verify" ELSE "data"
<1>1. Plan["deploy"] = DeployPlan
  BY DEF Plan
<1> QED BY <1>1 DEF DeployPlan

(* A step of one command after which nothing of it is on its way.           *)
LEMMA CommandMoves ==
  ASSUME CallerInv, NEW c \in Callers, NEW v \in Running, Active(c),
         command' = [command EXCEPT ![c] = v],
         heard' = [heard EXCEPT ![c] = Nothing],
         v.kind = command[c].kind, v.at <= Len(Plan[v.kind]) + 1,
         Receipt(c, v), Certain(c, v, Nothing),
         UNCHANGED <<verdict, wire, hostop, succeeded, changed>>
  PROVE  CallerInv'
<1>1. /\ command'[c] = v /\ v # Idle
      /\ \A other \in Callers \ {c} : command'[other] = command[other]
      /\ command' \in [Callers -> Running \cup {Idle}]
  BY RunningIsActive DEF CallerInv, CallTypes
<1>2. /\ heard'[c] = Nothing /\ \A other \in Callers \ {c} : heard'[other] = heard[other]
      /\ heard' \in [Callers -> [is: {"none", "waiting", "done", "refused"}, id: Nat]]
  BY DEF CallerInv, CallTypes, Nothing
<1>3. CallTypes'
  BY <1>1, <1>2 DEF CallerInv, CallTypes, Active
<1>4. Knows'
  BY <1>1, <1>2 DEF CallerInv, Knows, Active, Receipt, Owned, Certain, CallerUntouched
<1>5. InFlight'
  BY <1>1, <1>2 DEF CallerInv, InFlight, Active, Owned
<1>6. WireMatches'
  BY <1>1 DEF CallerInv, WireMatches, CallTypes, Active
<1>7. OneCommand'
  BY <1>1 DEF CallerInv, OneCommand, Active, CallerUntouched
<1>8. CertainVerdicts' /\ ReceiptTrue'
  BY DEF CallerInv, CertainVerdicts, ReceiptTrue, CallerUntouched
<1> QED BY <1>3, <1>4, <1>5, <1>6, <1>7, <1>8 DEF CallerInv

(* A step that asks the host for no change is passed. *)
LEMMA PassingIsCertain ==
  ASSUME CallerInv, NEW c \in Callers, NEW s, StepIs(c, s), s \notin Changing,
         NEW v \in Running, v.kind = command[c].kind, v.exit = 0, v.at = command[c].at + 1
  PROVE  Certain(c, v, Nothing) /\ v.at <= Len(Plan[v.kind]) + 1
<1>1. /\ Active(c) /\ command[c] \in Running /\ heard[c] = Nothing
      /\ command[c].exit = 0
      /\ command[c].at \in 1..Len(Plan[command[c].kind])
  BY AtStep
<1>2. ChecksFirst(Plan[v.kind])
  BY AtStep, PlansCheckFirst
<1>3. Certain(c, command[c], Nothing)
  BY <1>1 DEF CallerInv, Knows
<1> QED BY <1>1, <1>2, <1>3 DEF Certain, Running, ChecksFirst

(* A step that fails: with exit 64 or 65, only where nothing was asked for. *)
LEMMA FailingIsCertain ==
  ASSUME CallerInv, NEW c \in Callers, Active(c), command[c] \in Running,
         command[c].exit = 0,
         NEW v \in Running, v.kind = command[c].kind,
         \/ v.exit = 1
         \/ v.exit \in {64, 65} /\ (StepIs(c, "local") \/ StepIs(c, "compare"))
  PROVE  Certain(c, v, Nothing) /\ Receipt(c, v)
<1>1. Certain(c, command[c], heard[c])
  BY DEF CallerInv, Knows
<1>2. CASE v.exit = 1
  BY <1>1, <1>2 DEF Certain, Receipt
<1>3. ASSUME NEW s \in {"local", "compare"}, StepIs(c, s), v.exit \in {64, 65}
      PROVE  Certain(c, v, Nothing) /\ Receipt(c, v)
  <2>1. /\ heard[c] = Nothing /\ command[c].kind \in DOMAIN Plan
        /\ command[c].at \in 1..Len(Plan[command[c].kind])
        /\ Plan[command[c].kind][command[c].at] = s
    BY <1>3, AtStep DEF Changing
  <2>2. ChecksFirst(Plan[command[c].kind])
    BY <2>1, PlansCheckFirst
  <2>3. \A i \in 1..(command[c].at - 1) : Plan[command[c].kind][i] \notin Changing
    BY <2>1, <2>2 DEF ChecksFirst
  <2>4. CallerUntouched(c)
    BY <1>1, <2>1, <2>3 DEF Certain
  <2> QED BY <1>3, <2>4 DEF Certain, Receipt
<1> QED BY <1>2, <1>3

(* What a failing and a passing command become.                              *)
FailedAs(r, code, late, data) == [r EXCEPT !.exit = code, !.expired = late, !.data = data]
PassedAs(r, at, data, shown, n) ==
  [r EXCEPT !.at = at, !.data = data, !.shown = shown, !.id = n]

(* A command that failed is a running one still.                             *)
LEMMA RunningFails ==
  ASSUME NEW r \in Running, NEW code \in Codes, NEW late \in Late,
         NEW data \in Kept
  PROVE  LET v == FailedAs(r, code, late, data)
         IN  v \in Running /\ v.kind = r.kind /\ v.exit = code /\ v.at = r.at
<1>1. FailedAs(r, code, late, data) \in Running
  BY DEF Running, FailedAs, Codes, Kept
<1>2. LET v == FailedAs(r, code, late, data)
      IN  v.kind = r.kind /\ v.exit = code /\ v.at = r.at
  BY DEF Running, FailedAs, Codes, Kept
<1> QED BY <1>1, <1>2

(* A command that passed its step is a running one still.                    *)
LEMMA RunningPasses ==
  ASSUME NEW r \in Running, NEW at \in Nat \ {0}, NEW data \in Kept,
         NEW n \in Nat, NEW shown \in CallerOperations
  PROVE  LET v == PassedAs(r, at, data, shown, n)
         IN  /\ v \in Running /\ v.kind = r.kind /\ v.exit = r.exit /\ v.at = at
             /\ v.id = n /\ v.shown = shown
<1>1. PassedAs(r, at, data, shown, n) \in Running
  BY DEF Running, PassedAs
<1>2. LET v == PassedAs(r, at, data, shown, n)
      IN  /\ v.kind = r.kind /\ v.exit = r.exit /\ v.at = at /\ v.id = n /\ v.shown = shown
  BY DEF Running, PassedAs
<1> QED BY <1>1, <1>2

(* What failing in a step writes.                                           *)
LEMMA ExitWritten ==
  ASSUME NEW code, NEW late, NEW c \in Callers, CallTypes, command[c] \in Running
  PROVE  [command EXCEPT ![c].exit = code, ![c].expired = late]
           = [command EXCEPT ![c] = FailedAs(command[c], code, late, command[c].data)]
<1> DEFINE once == [command EXCEPT ![c].exit = code]
<1>1. once = [command EXCEPT ![c] = [command[c] EXCEPT !.exit = code]]
  OBVIOUS
<1>2. once[c] = [command[c] EXCEPT !.exit = code]
  BY DEF CallTypes
<1>3. [once EXCEPT ![c].expired = late] = [once EXCEPT ![c] = [once[c] EXCEPT !.expired = late]]
  OBVIOUS
<1>4. \A v : [once EXCEPT ![c] = v] = [command EXCEPT ![c] = v]
  BY <1>1 DEF CallTypes
<1>5. [command[c] EXCEPT !.exit = code, !.expired = late]
        = FailedAs(command[c], code, late, command[c].data)
  BY DEF Running, FailedAs, Codes, Kept
<1>6. [command EXCEPT ![c].exit = code, ![c].expired = late]
        = [command EXCEPT ![c] = [command[c] EXCEPT !.exit = code, !.expired = late]]
  BY <1>2, <1>3, <1>4
<1> QED BY <1>5, <1>6

(* What passing a step writes.                                              *)
LEMMA PassWritten ==
  ASSUME NEW c \in Callers, CallTypes, command[c] \in Running, Passes(c)
  PROVE  command' = [command EXCEPT ![c] =
           PassedAs(command[c], command[c].at + 1, command[c].data, command[c].shown, command[c].id)]
<1>1. [command[c] EXCEPT !.at = command[c].at + 1]
        = PassedAs(command[c], command[c].at + 1, command[c].data, command[c].shown,
                   command[c].id)
  BY DEF Running, PassedAs
<1>2. command' = [command EXCEPT ![c] = [command[c] EXCEPT !.at = command[c].at + 1]]
  BY DEF Passes
<1> QED BY <1>1, <1>2

(* What emitting the structured result writes.                              *)
LEMMA DataWritten ==
  ASSUME NEW data, NEW c \in Callers, CallTypes, command[c] \in Running
  PROVE  [command EXCEPT ![c].data = data, ![c].at = @ + 1]
           = [command EXCEPT ![c] = PassedAs(command[c], command[c].at + 1, data,
                                             command[c].shown, command[c].id)]
<1> DEFINE once == [command EXCEPT ![c].data = data]
           last == [command[c] EXCEPT !.data = data, !.at = command[c].at + 1]
<1>1. once = [command EXCEPT ![c] = [command[c] EXCEPT !.data = data]]
  OBVIOUS
<1>2. once[c] = [command[c] EXCEPT !.data = data] /\ once[c].at = command[c].at
  BY DEF CallTypes, Running
<1>3. [once EXCEPT ![c].at = @ + 1] = [once EXCEPT ![c] = [once[c] EXCEPT !.at = once[c].at + 1]]
  OBVIOUS
<1>4. \A v : [once EXCEPT ![c] = v] = [command EXCEPT ![c] = v]
  BY <1>1 DEF CallTypes
<1>5. last = PassedAs(command[c], command[c].at + 1, data, command[c].shown, command[c].id)
  BY DEF Running, PassedAs
<1>6. [command EXCEPT ![c].data = data, ![c].at = @ + 1] = [command EXCEPT ![c] = last]
  BY <1>2, <1>3, <1>4
<1> QED BY <1>5, <1>6

(* What the inspection of a deployment writes.                              *)
LEMMA ShownWritten ==
  ASSUME NEW shown, NEW c \in Callers, CallTypes, command[c] \in Running
  PROVE  [command EXCEPT ![c].shown = shown, ![c].at = @ + 1]
           = [command EXCEPT ![c] = PassedAs(command[c], command[c].at + 1,
                                             command[c].data, shown, command[c].id)]
<1> DEFINE once == [command EXCEPT ![c].shown = shown]
           last == [command[c] EXCEPT !.shown = shown, !.at = command[c].at + 1]
<1>1. once = [command EXCEPT ![c] = [command[c] EXCEPT !.shown = shown]]
  OBVIOUS
<1>2. once[c] = [command[c] EXCEPT !.shown = shown] /\ once[c].at = command[c].at
  BY DEF CallTypes, Running
<1>3. [once EXCEPT ![c].at = @ + 1] = [once EXCEPT ![c] = [once[c] EXCEPT !.at = once[c].at + 1]]
  OBVIOUS
<1>4. \A v : [once EXCEPT ![c] = v] = [command EXCEPT ![c] = v]
  BY <1>1 DEF CallTypes
<1>5. last = PassedAs(command[c], command[c].at + 1, command[c].data, shown, command[c].id)
  BY DEF Running, PassedAs
<1>6. [command EXCEPT ![c].shown = shown, ![c].at = @ + 1] = [command EXCEPT ![c] = last]
  BY <1>2, <1>3, <1>4
<1> QED BY <1>5, <1>6

(* What a wait without success, or an update that missed something, writes: *)
(* the receipt, and the failure.                                           *)
LEMMA ReceiptWritten ==
  ASSUME NEW late \in Late, NEW data \in Kept, NEW c \in Callers, CallTypes, command[c] \in Running
  PROVE  [command EXCEPT ![c].exit = 1, ![c].expired = late, ![c].data = data]
           = [command EXCEPT ![c] = FailedAs(command[c], 1, late, data)]
<1> DEFINE failed == FailedAs(command[c], 1, late, command[c].data)
           once == [command EXCEPT ![c] = failed]
<1>1. [command EXCEPT ![c].exit = 1, ![c].expired = late] = once
  BY ExitWritten
<1>2. once[c] = failed
  BY DEF CallTypes
<1>3. [once EXCEPT ![c].data = data] = [once EXCEPT ![c] = [once[c] EXCEPT !.data = data]]
  OBVIOUS
<1>4. \A v : [once EXCEPT ![c] = v] = [command EXCEPT ![c] = v]
  BY DEF CallTypes
<1>5. [failed EXCEPT !.data = data] = FailedAs(command[c], 1, late, data)
  BY DEF Running, FailedAs
<1>6. [command EXCEPT ![c].exit = 1, ![c].expired = late, ![c].data = data]
        = [once EXCEPT ![c].data = data]
  BY <1>1
<1> QED BY <1>2, <1>3, <1>4, <1>5, <1>6

(* Steps that ask the host for no change. *)
LEMMA LocalSteps ==
  ASSUME CallerInv, NEW c \in Callers,
         \/ ChecksLocally(c) \/ Reaches(c) \/ Asks(c) \/ Emits(c)
         \/ Waits(c) \/ Inspects(c) \/ Verifies(c)
  PROVE  CallerInv'
<1> DEFINE step == {"local", "check", "compare", "reach", "read", "data", "wait", "inspect",
                    "verify"}
           mine == command[c]
<1>1. PICK s \in step : StepIs(c, s)
  BY DEF ChecksLocally, Reaches, Asks, Emits, Waits, Inspects, Verifies
<1>2. s \notin Changing
  BY DEF Changing
<1>3. /\ Active(c) /\ mine \in Running /\ mine.exit = 0 /\ heard[c] = Nothing
      /\ mine.kind \in DOMAIN Plan /\ mine.at \in 1..Len(Plan[mine.kind])
      /\ Plan[mine.kind][mine.at] = s
  BY <1>1, <1>2, AtStep
<1>4. heard' = [heard EXCEPT ![c] = Nothing]
  BY <1>3 DEF ChecksLocally, Reaches, Asks, Emits, Waits, Inspects, Verifies, CallerInv, CallTypes
<1>5. UNCHANGED <<verdict, wire, hostop, succeeded, changed>>
  BY DEF ChecksLocally, Reaches, Asks, Emits, Waits, Inspects, Verifies
<1>6. hostop \in CallerOperations
  BY DEF CallerInv, CallTypes
<1>7. Receipt(c, mine)
  BY <1>3 DEF CallerInv, Knows
<1>r. mine \in Running
  BY <1>3
(* It fails. *)
<1>8. ASSUME NEW code \in Codes, NEW late \in Late, NEW data \in Kept,
             command' = [command EXCEPT ![c] = FailedAs(mine, code, late, data)],
             code # 1 => StepIs(c, "local") \/ StepIs(c, "compare")
      PROVE  CallerInv'
  <2> DEFINE v == FailedAs(mine, code, late, data)
  <2>1. v \in Running /\ v.kind = mine.kind /\ v.exit = code /\ v.at = mine.at
    BY <1>r, RunningFails
  <2>2. command' = [command EXCEPT ![c] = v]
    BY <1>8
  <2> HIDE DEF v
  <2>3. Certain(c, v, Nothing) /\ Receipt(c, v)
    BY <1>3, <1>8, <2>1, FailingIsCertain DEF Codes
  <2>4. v.at <= Len(Plan[v.kind]) + 1
    BY <1>3, <2>1
  <2> QED BY <1>3, <1>4, <1>5, <2>1, <2>2, <2>3, <2>4, CommandMoves
(* It passes. *)
<1>9. ASSUME NEW data \in Kept, NEW shown \in CallerOperations,
             command' = [command EXCEPT ![c] = PassedAs(mine, mine.at + 1, data, shown, mine.id)],
             s \in {"wait", "inspect", "verify"} =>
               \/ s = "wait" /\ mine.id \in succeeded
               \/ s = "inspect" /\ shown = hostop
               \/ s = "verify" /\ mine.shown.id = mine.id,
             s # "inspect" => shown = mine.shown
      PROVE  CallerInv'
  <2> DEFINE v == PassedAs(mine, mine.at + 1, data, shown, mine.id)
  <2>1. /\ v \in Running /\ v.kind = mine.kind /\ v.exit = 0 /\ v.at = mine.at + 1
        /\ v.id = mine.id /\ v.shown = shown
    <3>1. mine.at + 1 \in Nat \ {0} /\ mine.id \in Nat
      BY <1>3 DEF Running
    <3>2. mine.exit = 0
      BY <1>3
    <3> QED BY <1>r, <3>1, <3>2, RunningPasses
  <2>2. command' = [command EXCEPT ![c] = v]
    BY <1>9
  <2> HIDE DEF v
  <2>3. Certain(c, v, Nothing) /\ v.at <= Len(Plan[v.kind]) + 1
    BY <1>1, <1>2, <2>1, PassingIsCertain
  <2>4. ASSUME v.kind = "deploy" PROVE Receipt(c, v)
    <3>1. /\ mine.at \in 1..9
          /\ s = IF mine.at \in {1, 3} THEN "local" ELSE IF mine.at = 2 THEN "check"
                 ELSE IF mine.at = 4 THEN "reach" ELSE IF mine.at = 5 THEN "submit"
                 ELSE IF mine.at = 6 THEN "wait" ELSE IF mine.at = 7 THEN "inspect"
                 ELSE IF mine.at = 8 THEN "verify" ELSE "data"
      BY <1>3, <2>1, <2>4, DeploySteps
    <3>2. s # "submit"
      BY <1>2 DEF Changing
    <3>3. /\ mine.at > 5 => Owned(c, mine.id)
          /\ mine.at > 6 => mine.id \in succeeded
          /\ mine.at > 7 => (mine.shown.id = mine.id => mine.shown.owner = c)
          /\ mine.at > 8 => mine.shown.id = mine.id
      BY <1>3, <1>7, <2>1, <2>4 DEF Receipt
    <3>4. mine.at # 5 /\ (mine.at = 6 => s = "wait") /\ (mine.at = 7 => s = "inspect")
          /\ (mine.at = 8 => s = "verify")
      BY <3>1, <3>2
    <3>5. mine.at = 6 => mine.id \in succeeded
      BY <1>9, <3>4
    <3>6. mine.at = 7 => shown = hostop
      BY <1>9, <3>4
    <3>7. mine.at = 8 => shown.id = mine.id
      BY <1>9, <3>4
    <3>8. mine.at # 7 => shown = mine.shown
      BY <1>9, <3>1, <3>2
    <3>9. Owned(c, mine.id) => (hostop.id = mine.id => hostop.owner = c)
      BY DEF Owned
    <3> HIDE DEF mine
    <3> QED BY <2>1, <3>1, <3>3, <3>4, <3>5, <3>6, <3>7, <3>8, <3>9 DEF Receipt
  <2>5. Receipt(c, v)
    BY <2>4 DEF Receipt
  <2> QED BY <1>3, <1>4, <1>5, <2>1, <2>2, <2>3, <2>5, CommandMoves
<1>10. /\ mine.data \in Kept /\ mine.shown \in CallerOperations
       /\ mine.expired \in Late /\ mine.id \in Nat
  BY <1>3 DEF Running
(* Which of the two each step is. *)
<1>11. ASSUME Passes(c), ~ (s \in {"wait", "inspect", "verify"})
       PROVE  CallerInv'
  <2>1. command' = [command EXCEPT ![c] =
          PassedAs(mine, mine.at + 1, mine.data, mine.shown, mine.id)]
    BY <1>3, <1>11, PassWritten DEF CallerInv
  <2> QED BY <1>9, <1>10, <1>11, <2>1
<1>12. ASSUME NEW code \in Codes, Exits(c, code),
              code # 1 => StepIs(c, "local") \/ StepIs(c, "compare")
       PROVE  CallerInv'
  <2>1. PICK late \in Late :
          command' = [command EXCEPT ![c].exit = code, ![c].expired = late]
    BY <1>12 DEF Exits, Late
  <2>2. command' = [command EXCEPT ![c] = FailedAs(mine, code, late, mine.data)]
    BY <1>3, <2>1, ExitWritten DEF CallerInv
  <2> QED BY <1>8, <1>10, <1>12, <2>2
<1>13. \A other : StepIs(c, other) => other = s
  BY <1>3 DEF StepIs
<1>14. CASE ChecksLocally(c) \/ Reaches(c) \/ Asks(c)
  <2>1. s \notin {"wait", "inspect", "verify"}
    BY <1>13, <1>14 DEF ChecksLocally, Reaches, Asks
  <2>2. \/ Passes(c)
        \/ \E code \in Codes : Exits(c, code)
                             /\ (code # 1 => StepIs(c, "local") \/ StepIs(c, "compare"))
    BY <1>14 DEF ChecksLocally, Reaches, Asks, Codes
  <2> QED BY <1>11, <1>12, <2>1, <2>2
<1>15. 1 \in Codes
  BY DEF Codes
<1>16. CASE Emits(c)
  <2>1. s = "data"
    BY <1>13, <1>16 DEF Emits
  <2>2. CASE Exits(c, 1)
    BY <1>12, <1>15, <2>2
  <2>3. CASE \E d \in {"whole", "cut"} :
               command' = [command EXCEPT ![c].data = d, ![c].at = @ + 1]
    <3>1. PICK d \in {"whole", "cut"} :
            command' = [command EXCEPT ![c].data = d, ![c].at = @ + 1]
      BY <2>3
    <3>2. command' = [command EXCEPT ![c] = PassedAs(mine, mine.at + 1, d, mine.shown, mine.id)]
      BY <1>3, <3>1, DataWritten DEF CallerInv
    <3>3. d \in Kept
      BY DEF Kept
    <3> QED BY <1>9, <1>10, <2>1, <3>2, <3>3
  <2>4. CASE \E d \in {"whole", "cut"}, late \in BOOLEAN :
               command' = [command EXCEPT ![c].exit = 1, ![c].expired = late, ![c].data = d]
    <3>1. PICK d \in {"whole", "cut"}, late \in Late :
            command' = [command EXCEPT ![c].exit = 1, ![c].expired = late, ![c].data = d]
      BY <2>4 DEF Late
    <3>2. d \in Kept
      BY DEF Kept
    <3>3. command' = [command EXCEPT ![c] = FailedAs(mine, 1, late, d)]
      <4>1. CallTypes /\ command[c] \in Running
        BY <1>3 DEF CallerInv
      <4>2. [command EXCEPT ![c].exit = 1, ![c].expired = late, ![c].data = d]
              = [command EXCEPT ![c] = FailedAs(command[c], 1, late, d)]
        BY <3>2, <4>1, ReceiptWritten, Zenon
      <4> QED BY <3>1, <4>2
    <3> QED BY <1>8, <1>15, <3>2, <3>3
  <2> QED BY <1>16, <2>2, <2>3, <2>4 DEF Emits
<1>17. CASE Waits(c)
  <2>1. s = "wait"
    BY <1>13, <1>17 DEF Waits
  <2>2. CASE mine.id \in succeeded /\ Passes(c)
    <3>1. command' = [command EXCEPT ![c] =
            PassedAs(mine, mine.at + 1, mine.data, mine.shown, mine.id)]
      BY <1>3, <2>2, PassWritten DEF CallerInv
    <3> QED BY <1>9, <1>10, <2>1, <2>2, <3>1
  <2>3. CASE \E late \in BOOLEAN :
               command' = [command EXCEPT ![c].exit = 1, ![c].expired = late,
                                          ![c].data = "whole"]
    <3>1. PICK late \in Late :
            command' = [command EXCEPT ![c].exit = 1, ![c].expired = late, ![c].data = "whole"]
      BY <2>3 DEF Late
    <3>2. "whole" \in Kept
      BY DEF Kept
    <3>3. command' = [command EXCEPT ![c] = FailedAs(mine, 1, late, "whole")]
      <4>1. CallTypes /\ command[c] \in Running
        BY <1>3 DEF CallerInv
      <4>2. [command EXCEPT ![c].exit = 1, ![c].expired = late, ![c].data = "whole"]
              = [command EXCEPT ![c] = FailedAs(command[c], 1, late, "whole")]
        BY <3>2, <4>1, ReceiptWritten, Zenon
      <4> QED BY <3>1, <4>2
    <3> QED BY <1>8, <1>15, <3>2, <3>3
  <2> QED BY <1>17, <2>2, <2>3 DEF Waits
<1>18. CASE Inspects(c)
  <2>1. s = "inspect"
    BY <1>13, <1>18 DEF Inspects
  <2>2. CASE Exits(c, 1)
    BY <1>12, <1>15, <2>2
  <2>3. CASE command' = [command EXCEPT ![c].shown = hostop, ![c].at = @ + 1]
    <3>1. command' = [command EXCEPT ![c] =
            PassedAs(mine, mine.at + 1, mine.data, hostop, mine.id)]
      BY <1>3, <2>3, ShownWritten DEF CallerInv
    <3> QED BY <1>6, <1>9, <1>10, <2>1, <3>1
  <2> QED BY <1>18, <2>2, <2>3 DEF Inspects
<1>19. CASE Verifies(c)
  <2>1. s = "verify"
    BY <1>13, <1>19 DEF Verifies
  <2>2. CASE Exits(c, 1)
    BY <1>12, <1>15, <2>2
  <2>3. CASE Verified(mine) /\ Passes(c)
    <3>1. command' = [command EXCEPT ![c] =
            PassedAs(mine, mine.at + 1, mine.data, mine.shown, mine.id)]
      BY <1>3, <2>3, PassWritten DEF CallerInv
    <3> QED BY <1>9, <1>10, <2>1, <2>3, <3>1 DEF Verified
  <2> QED BY <1>19, <2>2, <2>3 DEF Verifies
<1> QED BY <1>14, <1>16, <1>17, <1>18, <1>19

(* What an acknowledgement writes: the identity of the operation.           *)
LEMMA IdWritten ==
  ASSUME NEW n, NEW c \in Callers, CallTypes, command[c] \in Running
  PROVE  [command EXCEPT ![c].id = n, ![c].at = @ + 1]
           = [command EXCEPT ![c] = PassedAs(command[c], command[c].at + 1,
                                             command[c].data, command[c].shown, n)]
<1> DEFINE once == [command EXCEPT ![c].id = n]
           last == [command[c] EXCEPT !.id = n, !.at = command[c].at + 1]
<1>1. once = [command EXCEPT ![c] = [command[c] EXCEPT !.id = n]]
  OBVIOUS
<1>2. once[c] = [command[c] EXCEPT !.id = n] /\ once[c].at = command[c].at
  BY DEF CallTypes, Running
<1>3. [once EXCEPT ![c].at = @ + 1] = [once EXCEPT ![c] = [once[c] EXCEPT !.at = once[c].at + 1]]
  OBVIOUS
<1>4. \A v : [once EXCEPT ![c] = v] = [command EXCEPT ![c] = v]
  BY <1>1 DEF CallTypes
<1>5. last = PassedAs(command[c], command[c].at + 1, command[c].data, command[c].shown, n)
  BY DEF Running, PassedAs
<1>6. [command EXCEPT ![c].id = n, ![c].at = @ + 1] = [command EXCEPT ![c] = last]
  BY <1>2, <1>3, <1>4
<1> QED BY <1>5, <1>6

(* What a failure makes of a command.                                       *)
LEMMA FailedIs ==
  ASSUME CallTypes, NEW c \in Callers, command[c] \in Running, Exits(c, 1)
  PROVE  \E v \in Running : /\ command' = [command EXCEPT ![c] = v]
                            /\ v.kind = command[c].kind /\ v.exit = 1 /\ v.at = command[c].at
<1> PICK code \in Codes : code = 1
  BY DEF Codes
<1>1. PICK late \in Late : command' = [command EXCEPT ![c].exit = code, ![c].expired = late]
  BY DEF Exits, Late
<1>2. command[c].data \in Kept
  BY DEF Running
<1> DEFINE v == FailedAs(command[c], code, late, command[c].data)
<1>3. command' = [command EXCEPT ![c] = v]
  BY <1>1, ExitWritten
<1>4. v \in Running /\ v.kind = command[c].kind /\ v.exit = code /\ v.at = command[c].at
  BY <1>2, RunningFails
<1> HIDE DEF v
<1> QED BY <1>3, <1>4

(* What an acknowledgement makes of a command.                              *)
LEMMA HeardIs ==
  ASSUME CallTypes, NEW c \in Callers, command[c] \in Running, NEW n \in Nat,
         command' = [command EXCEPT ![c].id = n, ![c].at = @ + 1]
  PROVE  \E v \in Running :
           /\ command' = [command EXCEPT ![c] = v]
           /\ v.kind = command[c].kind /\ v.exit = command[c].exit
           /\ v.at = command[c].at + 1 /\ v.id = n
<1>1. /\ command[c].at + 1 \in Nat \ {0} /\ command[c].data \in Kept
      /\ command[c].shown \in CallerOperations
  BY DEF Running
<1> DEFINE v == PassedAs(command[c], command[c].at + 1, command[c].data, command[c].shown, n)
<1>2. command' = [command EXCEPT ![c] = v]
  BY IdWritten
<1>3. /\ v \in Running /\ v.kind = command[c].kind /\ v.exit = command[c].exit
      /\ v.at = command[c].at + 1 /\ v.id = n
  BY <1>1, RunningPasses
<1> HIDE DEF v
<1> QED BY <1>2, <1>3

(* A command that notes a failure goes on.                                  *)
LEMMA NotedIs ==
  ASSUME CallTypes, NEW c \in Callers, command[c] \in Running,
         command' = [command EXCEPT ![c].data = "missed", ![c].at = @ + 1]
  PROVE  \E v \in Running :
           /\ command' = [command EXCEPT ![c] = v]
           /\ v.kind = command[c].kind /\ v.exit = command[c].exit
           /\ v.at = command[c].at + 1
<1>1. /\ command[c].at + 1 \in Nat \ {0} /\ "missed" \in Kept /\ command[c].id \in Nat
      /\ command[c].shown \in CallerOperations
  BY DEF Running, Kept
<1> DEFINE v == PassedAs(command[c], command[c].at + 1, "missed", command[c].shown,
                         command[c].id)
<1>2. command' = [command EXCEPT ![c] = v]
  BY DataWritten
<1>3. /\ v \in Running /\ v.kind = command[c].kind /\ v.exit = command[c].exit
      /\ v.at = command[c].at + 1
  BY <1>1, RunningPasses
<1> HIDE DEF v
<1> QED BY <1>2, <1>3

(* A command in a step that asks for a change fails, its answer or its      *)
(* connection being gone, or notes that and goes on.                       *)
LEMMA JourneyFails ==
  ASSUME CallerInv, NEW c \in Callers, heard[c] # Nothing, Misses(c),
         heard' = [heard EXCEPT ![c] = Nothing],
         UNCHANGED <<verdict, wire, hostop, succeeded, changed>>
  PROVE  CallerInv'
<1> DEFINE mine == command[c]
<1>1. Active(c) /\ mine \in Running /\ mine.exit = 0 /\ mine.at <= Len(Plan[mine.kind])
  BY RunningIsActive DEF CallerInv, InFlight
<1>2. mine.kind \in DOMAIN Plan /\ mine.at \in Nat
  BY <1>1, CallerAssumption DEF CallerAssumption, Running
<1>3. Len(Plan[mine.kind]) \in Nat
  BY <1>2, PlansCheckFirst DEF ChecksFirst
<1>4. CASE Exits(c, 1)
  <2>1. PICK v \in Running : /\ command' = [command EXCEPT ![c] = v]
                             /\ v.kind = mine.kind /\ v.exit = 1 /\ v.at = mine.at
    BY <1>1, <1>4, FailedIs DEF CallerInv
  <2>2. Certain(c, v, Nothing) /\ Receipt(c, v)
    BY <1>1, <2>1, FailingIsCertain
  <2>3. v.at <= Len(Plan[v.kind]) + 1
    BY <1>1, <1>2, <1>3, <2>1
  <2> QED BY <1>1, <2>1, <2>2, <2>3, CommandMoves
<1>5. CASE StepIs(c, "try") /\ ~Exits(c, 1)
  <2>1. PICK v \in Running : /\ command' = [command EXCEPT ![c] = v]
                             /\ v.kind = mine.kind /\ v.exit = 0 /\ v.at = mine.at + 1
    BY <1>1, <1>5, NotedIs DEF CallerInv, Misses
  <2>2. mine.at \in 1..Len(Plan[mine.kind]) /\ Plan[mine.kind][mine.at] = "try"
    BY <1>5, AtStep
  <2>3. Certain(c, v, Nothing)
    <3>1. mine.at \in 1..(v.at - 1)
      BY <1>2, <2>1, <2>2
    <3>2. mine.kind \notin {"report", "reconcile"}
      BY <1>2, <2>2, PlansCheckFirst DEF Changing
    <3> QED BY <2>1, <2>2, <3>1, <3>2 DEF Certain, Changing
  <2>4. Receipt(c, v)
    <3>1. mine.kind # "deploy"
      BY <2>2, DeploySteps
    <3> QED BY <2>1, <3>1 DEF Receipt
  <2>5. v.at <= Len(Plan[v.kind]) + 1
    BY <1>2, <1>3, <2>1, <2>2
  <2> QED BY <1>1, <2>1, <2>3, <2>4, <2>5, CommandMoves
<1> QED BY <1>4, <1>5 DEF Misses

(* The answer of the host, heard. *)
LEMMA HearsStep == ASSUME CallerInv, NEW c \in Callers, Hears(c) PROVE CallerInv'
<1> DEFINE mine == command[c]
<1>1. heard[c] # Nothing /\ heard' = [heard EXCEPT ![c] = Nothing] /\ heard[c].id \in Nat
  BY DEF Hears, Nothing, CallerInv, CallTypes
<1>2. UNCHANGED <<verdict, wire, hostop, succeeded, changed>>
  BY DEF Hears
<1>3. CASE heard[c].is = "refused"
  BY <1>1, <1>2, <1>3, JourneyFails DEF Hears
<1>4. CASE heard[c].is = "done"
  <2>1. /\ Active(c) /\ mine \in Running /\ mine.exit = 0
        /\ Plan[mine.kind][mine.at] \in Changing /\ mine.at <= Len(Plan[mine.kind])
        /\ mine.kind = "deploy" => Owned(c, heard[c].id)
    BY <1>1, <1>4, RunningIsActive DEF CallerInv, InFlight
  <2>2. mine.kind \in DOMAIN Plan /\ mine.at \in Nat \ {0}
    BY <2>1, CallerAssumption DEF CallerAssumption, Running
  <2>3. Len(Plan[mine.kind]) \in Nat
    BY <2>2, PlansCheckFirst DEF ChecksFirst
  <2>4. PICK v \in Running :
          /\ command' = [command EXCEPT ![c] = v]
          /\ v.kind = mine.kind /\ v.exit = mine.exit /\ v.at = mine.at + 1 /\ v.id = heard[c].id
    <3>1. PICK n \in Nat : n = heard[c].id
      BY <1>1
    <3>2. command' = [command EXCEPT ![c].id = n, ![c].at = @ + 1]
      BY <1>4, <3>1 DEF Hears
    <3>3. CallTypes /\ mine \in Running
      BY <2>1 DEF CallerInv
    <3>4. \E v \in Running :
            /\ command' = [command EXCEPT ![c] = v]
            /\ v.kind = mine.kind /\ v.exit = mine.exit /\ v.at = mine.at + 1 /\ v.id = n
      BY <3>2, <3>3, HeardIs
    <3> QED BY <3>1, <3>4
  <2>6. Certain(c, v, Nothing)
    <3>1. mine.at \in 1..(v.at - 1)
      BY <2>2, <2>4
    <3>2. mine.kind \notin {"report", "reconcile"}
      BY <2>1, <2>2, <2>3, PlansCheckFirst
    <3> QED BY <2>1, <2>4, <3>1, <3>2 DEF Certain
  <2>7. Receipt(c, v)
    <3>1. ASSUME v.kind = "deploy" PROVE mine.at = 5
      <4>1. mine.at \in 1..Len(Plan["deploy"])
        BY <2>1, <2>2, <2>3, <2>4, <3>1
      <4> QED BY <2>1, <2>4, <3>1, <4>1, DeploySteps DEF Changing
    <3> QED BY <2>1, <2>4, <3>1 DEF Receipt
  <2>8. v.at <= Len(Plan[v.kind]) + 1
    BY <2>1, <2>2, <2>3, <2>4
  <2> QED BY <1>1, <1>2, <2>1, <2>4, <2>6, <2>7, <2>8, CommandMoves
<1> QED BY <1>3, <1>4 DEF Hears

(* A request leaves. *)
LEMMA JourneyStep == ASSUME CallerInv, NEW c \in Callers, Journey(c) PROVE CallerInv'
<1> DEFINE mine == command[c]
           r == [from |-> c, kind |-> mine.kind, at |-> mine.at, seen |-> mine.seen]
<1>1. PICK s \in Changing : StepIs(c, s)
  BY DEF Journey, Changing
<1>2. /\ Active(c) /\ mine \in Running /\ mine.exit = 0 /\ mine.kind \in DOMAIN Plan
      /\ mine.at \in 1..Len(Plan[mine.kind]) /\ Plan[mine.kind][mine.at] \in Changing
      /\ verdict[c] = NoVerdict
  BY <1>1, AtStep
<1>3. mine.kind \notin {"report", "reconcile"}
  BY <1>2, PlansCheckFirst
<1>4. r \in [from: Callers, kind: CallerKinds, at: Nat, seen: CallerOperations] /\ r.from = c
      /\ r.kind = mine.kind
  BY <1>2 DEF Running
<1>5. /\ wire' = wire \cup {r}
      /\ heard' = [heard EXCEPT ![c].is = "waiting"]
      /\ UNCHANGED <<command, verdict, hostop, succeeded, changed>>
  BY DEF Journey
<1>6. /\ heard' \in [Callers -> [is: {"none", "waiting", "done", "refused"}, id: Nat]]
      /\ heard'[c].is = "waiting" /\ heard'[c] # Nothing
      /\ \A other \in Callers \ {c} : heard'[other] = heard[other]
  BY <1>5 DEF CallerInv, CallTypes, Nothing
<1> HIDE DEF r
<1>7. \A other \in Callers \ {c} : CallerUntouched(other) => CallerUntouched(other)'
  BY <1>4, <1>5 DEF CallerUntouched
<1>8. CallTypes'
  BY <1>4, <1>5, <1>6 DEF CallerInv, CallTypes, Active
<1>9. Knows'
  <2>1. ASSUME NEW d \in Callers, Active(d)
       PROVE  (Receipt(d, command[d]) /\ Certain(d, command[d], heard[d]))'
    <3>1. Receipt(d, command[d]) /\ Certain(d, command[d], heard[d])
      BY <2>1 DEF CallerInv, Knows
    <3>2. CASE d = c
      BY <1>2, <1>3, <1>5, <1>6, <3>1, <3>2 DEF Receipt, Owned, Certain
    <3>3. CASE d # c
      BY <1>5, <1>6, <1>7, <3>1, <3>3 DEF Receipt, Owned, Certain
    <3> QED BY <3>2, <3>3
  <2> QED BY <1>5, <2>1 DEF Knows, Active
<1>10. InFlight'
  BY <1>2, <1>5, <1>6 DEF CallerInv, InFlight, Active, Owned
<1>11. WireMatches'
  BY <1>4, <1>5 DEF CallerInv, WireMatches, Active
<1>12. OneCommand'
  BY <1>2, <1>5, <1>7 DEF CallerInv, OneCommand, Active
<1>13. CertainVerdicts' /\ ReceiptTrue'
  BY <1>2, <1>5, <1>7 DEF CallerInv, CertainVerdicts, ReceiptTrue, NoVerdict
<1> QED BY <1>8, <1>9, <1>10, <1>11, <1>12, <1>13 DEF CallerInv

(* A command is given. *)
LEMMA DispatchStep ==
  ASSUME CallerInv, NEW c \in Callers, NEW k \in CallerKinds, Dispatch(c, k)
  PROVE  CallerInv'
<1> PICK seen : seen = IF k = "recover" THEN Offered ELSE NoOp
  OBVIOUS
<1> DEFINE v == [kind |-> k, at |-> 1, exit |-> 0, expired |-> FALSE, data |-> "none",
                 id |-> 0, seen |-> seen, shown |-> NoOp]
<1>1. /\ ~Active(c) /\ verdict[c] = NoVerdict
      /\ command' = [command EXCEPT ![c] = v]
      /\ UNCHANGED <<verdict, wire, heard, hostop, succeeded, changed>>
  BY DEF Dispatch, Active
<1>2. NoOp \in CallerOperations /\ seen \in CallerOperations
  <2>1. NoOp \in CallerOperations
    BY DEF NoOp, CallerOperations, Phased
  <2> QED BY <2>1 DEF Offered, CallerInv, CallTypes
<1>3. v \in Running /\ v.kind = k /\ v.at = 1 /\ v.exit = 0
  BY <1>2 DEF Running, Late, Kept
<1> HIDE DEF v
<1>4. /\ command'[c] = v /\ v # Idle
      /\ \A other \in Callers \ {c} : command'[other] = command[other]
      /\ command' \in [Callers -> Running \cup {Idle}]
  BY <1>1, <1>3, RunningIsActive DEF CallerInv, CallTypes
<1>5. CallerUntouched(c) /\ heard[c] = Nothing
  BY <1>1 DEF CallerInv, OneCommand, InFlight
<1>6. Receipt(c, v)
  BY <1>3 DEF Receipt
<1>7. 1 <= Len(Plan[k]) + 1
  BY CallerAssumption, PlansCheckFirst DEF CallerAssumption, ChecksFirst
<1>8. CallTypes'
  BY <1>1, <1>3, <1>4, <1>7 DEF CallerInv, CallTypes, Active
<1>9. Knows'
  BY <1>1, <1>4, <1>5, <1>6 DEF CallerInv, Knows, Active, Receipt, Owned, Certain, CallerUntouched
<1>10. InFlight'
  BY <1>1, <1>4, <1>5 DEF CallerInv, InFlight, Active, Owned
<1>11. WireMatches'
  BY <1>1, <1>4, <1>5 DEF CallerInv, WireMatches, CallTypes, Active, CallerUntouched
<1>12. OneCommand'
  BY <1>1, <1>4 DEF CallerInv, OneCommand, Active, CallerUntouched
<1>13. CertainVerdicts' /\ ReceiptTrue'
  BY <1>1 DEF CallerInv, CertainVerdicts, ReceiptTrue, CallerUntouched
<1> QED BY <1>8, <1>9, <1>10, <1>11, <1>12, <1>13 DEF CallerInv

(* Which errors an envelope does not leave in doubt. *)
LEMMA FinishTells ==
  ASSUME NEW v \in Running
  PROVE  LET f == Finish(v) IN
         /\ f \in Verdicts /\ f # NoVerdict
         /\ f.kind = v.kind /\ f.id = v.id /\ f.shown = v.shown
         /\ f.ok => v.exit = 0
         /\ f.code # "none" /\ ~f.reconciliation =>
              v.exit \in {64, 65} \/ v.kind \in {"report", "reconcile", "preview_database"}
<1> DEFINE code == ErrorCode(v)
<1>1. code \in {"none"} \cup Errors /\ (code = "none" => v.exit = 0)
  BY DEF ErrorCode, Errors, Running, Late
<1> HIDE DEF code
<1> DEFINE doubt == code # "none" /\ v.exit \notin {64, 65} /\ Mutating(v.kind)
           f == [kind |-> v.kind, id |-> v.id, shown |-> v.shown, ok |-> code = "none",
                 code |-> code, reconciliation |-> doubt]
<1>2. Finish(v) = f
  BY DEF Finish, code
<1>3. v.kind \in CallerKinds /\ v.kind # "none" /\ v.id \in Nat /\ v.shown \in CallerOperations
  BY RunningIsActive DEF Running
<1>4. ~doubt /\ code # "none" =>
        v.exit \in {64, 65} \/ v.kind \in {"report", "reconcile", "preview_database"}
  BY DEF Mutating
<1>5. doubt \in BOOLEAN /\ (code = "none") \in BOOLEAN
  OBVIOUS
<1> HIDE DEF doubt
<1>6. f \in Verdicts
  BY <1>1, <1>3, <1>5 DEF Verdicts
<1>7. f # NoVerdict
  BY <1>3 DEF NoVerdict
<1>8. f.kind = v.kind /\ f.id = v.id /\ f.shown = v.shown /\ f.code = code
  OBVIOUS
<1>9. (f.ok => code = "none") /\ (~f.reconciliation => ~doubt)
  OBVIOUS
<1> HIDE DEF f
<1> QED BY <1>1, <1>2, <1>4, <1>6, <1>7, <1>8, <1>9

(* A command ends with its envelope. *)
LEMMA ReturnsStep == ASSUME CallerInv, NEW c \in Callers, Returns(c) PROVE CallerInv'
<1> DEFINE mine == command[c]
<1>1. Active(c) /\ mine \in Running /\ mine.kind \in DOMAIN Plan
  BY RunningIsActive, CallerAssumption
     DEF CallerAssumption, Returns, Over, CallerInv, Running
<1>2. mine.exit = 0 => mine.at > Len(Plan[mine.kind])
  BY DEF Returns, Over
<1>3. heard[c] = Nothing
  <2>1. mine.at \in Nat /\ Len(Plan[mine.kind]) \in Nat
    BY <1>1, PlansCheckFirst DEF Running, ChecksFirst
  <2> QED BY <1>2, <2>1 DEF CallerInv, InFlight
<1> PICK f : f = Finish(mine)
  OBVIOUS
<1>4. /\ f \in Verdicts /\ f # NoVerdict
      /\ f.kind = mine.kind /\ f.id = mine.id /\ f.shown = mine.shown
      /\ f.ok => mine.exit = 0
      /\ f.code # "none" /\ ~f.reconciliation =>
           mine.exit \in {64, 65} \/ mine.kind \in {"report", "reconcile", "preview_database"}
  BY <1>1, FinishTells
<1>5. /\ command' = [command EXCEPT ![c] = Idle]
      /\ verdict' = [verdict EXCEPT ![c] = f]
      /\ UNCHANGED <<wire, heard, hostop, succeeded, changed>>
  BY DEF Returns
<1>6. /\ command'[c] = Idle /\ verdict'[c] = f
      /\ \A other \in Callers \ {c} :
           command'[other] = command[other] /\ verdict'[other] = verdict[other]
      /\ command' \in [Callers -> Running \cup {Idle}]
      /\ verdict' \in [Callers -> Verdicts]
  BY <1>4, <1>5 DEF CallerInv, CallTypes
<1>7. Receipt(c, mine) /\ Certain(c, mine, Nothing)
  BY <1>1, <1>3 DEF CallerInv, Knows
<1>8. CallTypes'
  BY <1>5, <1>6 DEF CallerInv, CallTypes, Active
<1>9. Knows'
  BY <1>5, <1>6 DEF CallerInv, Knows, Active, Receipt, Owned, Certain, CallerUntouched
<1>10. InFlight'
  BY <1>3, <1>5, <1>6 DEF CallerInv, InFlight, Active, Owned
<1>11. WireMatches'
  BY <1>5, <1>6 DEF CallerInv, WireMatches, CallTypes, Active
<1>12. OneCommand'
  BY <1>4, <1>5, <1>6 DEF CallerInv, OneCommand, Active, CallerUntouched
<1>13. CertainVerdicts'
  <2>1. f.code # "none" /\ ~f.reconciliation => CallerUntouched(c) \/ f.kind = "preview_database"
    BY <1>4, <1>7 DEF Certain
  <2> QED BY <1>5, <1>6, <2>1 DEF CallerInv, CertainVerdicts, CallerUntouched
<1>14. ReceiptTrue'
  <2>1. ASSUME f.kind = "deploy", f.ok
        PROVE  f.id \in succeeded /\ f.shown.id = f.id /\ f.shown.owner = c
    <3>1. mine.exit = 0 /\ mine.at > 9 /\ mine.at \in Nat
      <4>1. Len(Plan["deploy"]) = 9
        BY DEF Plan, DeployPlan
      <4> QED BY <1>1, <1>2, <1>4, <2>1, <4>1 DEF Running
    <3>2. /\ mine.at > 6 => mine.id \in succeeded
          /\ mine.at > 7 => (mine.shown.id = mine.id => mine.shown.owner = c)
          /\ mine.at > 8 => mine.shown.id = mine.id
      BY <1>4, <1>7, <2>1, <3>1 DEF Receipt
    <3> HIDE DEF mine
    <3> QED BY <1>4, <3>1, <3>2
  <2> QED BY <1>5, <1>6, <2>1 DEF CallerInv, ReceiptTrue
<1> QED BY <1>8, <1>9, <1>10, <1>11, <1>12, <1>13, <1>14 DEF CallerInv

(* After the step. *)
OwnedThen(c, n) == n >= 1 /\ n <= hostop'.id /\ (hostop'.id = n => hostop'.owner = c)

(* What the host does leaves the commands as they are, and nobody's          *)
(* operation becomes another's.                                            *)
LEMMA HostAnswers ==
  ASSUME CallerInv, UNCHANGED <<command, verdict>>,
         wire' \subseteq wire, hostop' \in CallerOperations, succeeded \subseteq succeeded',
         heard' \in [Callers -> [is: {"none", "waiting", "done", "refused"}, id: Nat]],
         \A c \in Callers, n \in Nat : Owned(c, n) => Owned(c, n)',
         \A c \in Callers : CallerUntouched(c) => CallerUntouched(c)',
         \A c \in Callers :
           \/ heard'[c] = heard[c]
           \/ /\ heard[c] # Nothing /\ heard'[c] # Nothing
              /\ heard'[c].is = "done" /\ Active(c) /\ command[c].kind = "deploy" =>
                   OwnedThen(c, heard'[c].id)
  PROVE  CallerInv'
<1>1. CallTypes'
  BY DEF CallerInv, CallTypes, Active
<1>2. Knows'
  <2>1. ASSUME NEW c \in Callers, Active(c)
        PROVE (Receipt(c, command[c]) /\ Certain(c, command[c], heard[c]))'
    <3>1. Receipt(c, command[c]) /\ Certain(c, command[c], heard[c]) /\ command[c].id \in Nat
      BY <2>1, RunningIsActive DEF CallerInv, Knows, Running
    <3>2. Receipt(c, command[c])'
      BY <3>1 DEF Receipt
    <3>3. heard'[c] = Nothing => heard[c] = Nothing
      OBVIOUS
    <3>4. Certain(c, command[c], heard[c])'
      BY <3>1, <3>3 DEF Certain
    <3> QED BY <3>2, <3>4
  <2> QED BY <2>1 DEF Knows, Active
<1>3. InFlight'
  <2>1. ASSUME NEW c \in Callers, heard'[c] # Nothing
        PROVE  /\ heard[c] # Nothing
               /\ heard'[c].is = "done" /\ Active(c) /\ command[c].kind = "deploy" =>
                    OwnedThen(c, heard'[c].id)
    <3>1. CASE heard'[c] = heard[c]
      <4>1. heard[c].id \in Nat
        BY DEF CallerInv, CallTypes
      <4>2. heard[c].is = "done" /\ Active(c) /\ command[c].kind = "deploy" =>
              Owned(c, heard[c].id)
        BY <2>1, <3>1 DEF CallerInv, InFlight
      <4>3. Owned(c, heard[c].id) => OwnedThen(c, heard[c].id)
        BY <4>1 DEF Owned, OwnedThen
      <4> QED BY <2>1, <3>1, <4>2, <4>3
    <3>2. CASE heard'[c] # heard[c]
      BY <2>1, <3>2
    <3> QED BY <3>1, <3>2
  <2> QED BY <2>1 DEF CallerInv, InFlight, Active, Owned, OwnedThen
<1>4. WireMatches' /\ OneCommand' /\ CertainVerdicts' /\ ReceiptTrue'
  BY DEF CallerInv, WireMatches, OneCommand, CertainVerdicts, ReceiptTrue, Active
<1> QED BY <1>1, <1>2, <1>3, <1>4 DEF CallerInv

(* An operation that stays the host's last keeps its owner, and an earlier  *)
(* one has been followed.                                                  *)
LEMMA OwnersStay ==
  ASSUME CallerInv, hostop' \in CallerOperations,
         \/ hostop'.id = hostop.id /\ hostop'.owner = hostop.owner
         \/ hostop'.id = hostop.id + 1
  PROVE  \A c \in Callers, n \in Nat : Owned(c, n) => Owned(c, n)'
<1>1. hostop.id \in Nat
  BY DEF CallerInv, CallTypes, CallerOperations
<1> QED BY <1>1 DEF Owned

(* The host takes a request. *)
LEMMA TakesStep == ASSUME CallerInv, NEW r \in wire, Takes(r) PROVE CallerInv'
<1>1. /\ r.from \in Callers /\ r.seen \in CallerOperations /\ hostop \in CallerOperations
      /\ heard \in [Callers -> [is: {"none", "waiting", "done", "refused"}, id: Nat]]
  BY DEF CallerInv, CallTypes
<1>2. /\ wire' \subseteq wire /\ UNCHANGED <<command, verdict, succeeded>>
      /\ succeeded \subseteq succeeded'
  BY DEF Takes
<1>3. \A c \in Callers : CallerUntouched(c) => CallerUntouched(c)'
  BY DEF Takes, CallerUntouched
<1> DEFINE listens == heard[r.from].is = "waiting" /\ command[r.from].at = r.at
<1>4. CASE /\ Admits(r) \/ Recovers(r) \/ Works(r)
           /\ Tells(r, [is |-> "done", id |-> hostop'.id])
  <2>1. /\ hostop' \in CallerOperations
        /\ \/ hostop'.id = hostop.id /\ hostop'.owner = hostop.owner
           \/ hostop'.id = hostop.id + 1
    <3>1. ASSUME Admits(r) PROVE hostop' \in CallerOperations /\ hostop'.id = hostop.id + 1
      BY <1>1, <3>1 DEF Admits, CallerOperations, Phased
    <3>2. ASSUME Recovers(r)
          PROVE  hostop' \in CallerOperations /\ hostop'.id = hostop.id /\ hostop'.owner = hostop.owner
      BY <1>1, <3>2 DEF Recovers, CallerOperations, Phased
    <3>3. ASSUME Works(r) PROVE hostop' = hostop
      BY <3>3 DEF Works
    <3> QED BY <1>1, <1>4, <3>1, <3>2, <3>3
  <2>2. r.kind = "deploy" => OwnedThen(r.from, hostop'.id)
    BY <1>1, <1>4 DEF Admits, Recovers, Works, OwnedThen, CallerOperations
  <2>3. heard' = [heard EXCEPT ![r.from] =
                    IF listens THEN [is |-> "done", id |-> hostop'.id] ELSE heard[r.from]]
    BY <1>4 DEF Tells
  <2>4. hostop'.id \in Nat
    BY <2>1 DEF CallerOperations
  <2>5. heard' \in [Callers -> [is: {"none", "waiting", "done", "refused"}, id: Nat]]
    BY <1>1, <2>3, <2>4
  <2>6. ASSUME NEW c \in Callers
        PROVE  \/ heard'[c] = heard[c]
               \/ /\ heard[c] # Nothing /\ heard'[c] # Nothing
                  /\ heard'[c].is = "done" /\ Active(c) /\ command[c].kind = "deploy" =>
                       OwnedThen(c, heard'[c].id)
    <3>1. CASE c = r.from /\ listens
      <4>1. heard'[c] = [is |-> "done", id |-> hostop'.id]
        BY <1>1, <2>3, <3>1
      <4>2. heard[c] # Nothing /\ heard'[c] # Nothing /\ heard'[c].id = hostop'.id
        BY <3>1, <4>1 DEF Nothing
      <4>3. Active(c) /\ command[c].kind = "deploy" => r.kind = "deploy"
        BY <3>1 DEF CallerInv, WireMatches
      <4> QED BY <2>2, <3>1, <4>2, <4>3
    <3>2. CASE ~ (c = r.from /\ listens)
      BY <1>1, <2>3, <3>2
    <3> QED BY <3>1, <3>2
  <2>7. \A c \in Callers, n \in Nat : Owned(c, n) => Owned(c, n)'
    BY <2>1, OwnersStay
  <2> QED BY <1>2, <1>3, <2>1, <2>5, <2>6, <2>7, HostAnswers
<1>5. CASE Tells(r, [is |-> "refused", id |-> 0]) /\ UNCHANGED hostop
  <2>1. heard' = [heard EXCEPT ![r.from] =
                    IF listens THEN [is |-> "refused", id |-> 0] ELSE heard[r.from]]
    BY <1>5 DEF Tells
  <2>2. heard' \in [Callers -> [is: {"none", "waiting", "done", "refused"}, id: Nat]]
    BY <1>1, <2>1
  <2>3. ASSUME NEW c \in Callers
        PROVE  \/ heard'[c] = heard[c]
               \/ heard[c] # Nothing /\ heard'[c] # Nothing /\ heard'[c].is # "done"
    BY <1>1, <2>1 DEF Nothing
  <2>4. \A c \in Callers, n \in Nat : Owned(c, n) => Owned(c, n)'
    BY <1>1, <1>5, OwnersStay
  <2>5. hostop' \in CallerOperations
    BY <1>1, <1>5
  <2> QED BY <1>2, <1>3, <2>2, <2>3, <2>4, <2>5, HostAnswers
<1> QED BY <1>4, <1>5 DEF Takes

(* The request is lost, or the operation settled. *)
LEMMA HostSettles ==
  ASSUME CallerInv,
         \/ \E r \in wire : Loses(r)
         \/ \E p \in {"accepted", "failed", "interrupted"} : Settles(p)
  PROVE  CallerInv'
<1>1. UNCHANGED <<command, verdict, heard, changed>> /\ wire' \subseteq wire
      /\ succeeded \subseteq succeeded'
  BY DEF Loses, Settles
<1>2. hostop' \in CallerOperations /\ hostop'.id = hostop.id /\ hostop'.owner = hostop.owner
  BY DEF Loses, Settles, CallerInv, CallTypes, CallerOperations, Phased
<1>3. \A c \in Callers : CallerUntouched(c) => CallerUntouched(c)'
  BY <1>1 DEF CallerUntouched
<1>4. \A c \in Callers, n \in Nat : Owned(c, n) => Owned(c, n)'
  BY <1>2, OwnersStay
<1>5. heard' \in [Callers -> [is: {"none", "waiting", "done", "refused"}, id: Nat]]
  BY <1>1 DEF CallerInv, CallTypes
<1> QED BY <1>1, <1>2, <1>3, <1>4, <1>5, HostAnswers

(* The invariant holds at first and is kept by every step. *)
LEMMA CallerStart == CallerInit => CallerInv
<1> SUFFICES ASSUME CallerInit PROVE CallerInv
  OBVIOUS
<1> USE DEF CallerInit
<1>1. \A c \in Callers : ~Active(c) /\ verdict[c] = NoVerdict /\ heard[c] = Nothing /\ CallerUntouched(c)
  BY DEF Active, CallerUntouched
<1>2. NoOp \in CallerOperations
  BY DEF NoOp, CallerOperations, Phased
<1>3. NoVerdict \in Verdicts
  BY <1>2 DEF NoVerdict, Verdicts
<1>4. Nothing \in [is: {"none", "waiting", "done", "refused"}, id: Nat]
  BY DEF Nothing
<1>5. CallTypes
  BY <1>1, <1>2, <1>3, <1>4 DEF CallTypes
<1>6. Knows /\ InFlight /\ WireMatches /\ OneCommand
  BY <1>1 DEF Knows, InFlight, WireMatches, OneCommand
<1>7. NoVerdict.code = "none" /\ ~NoVerdict.ok
  BY DEF NoVerdict
<1>8. CertainVerdicts /\ ReceiptTrue
  BY <1>1, <1>7 DEF CertainVerdicts, ReceiptTrue
<1> QED BY <1>5, <1>6, <1>8 DEF CallerInv

(* Every step of a command and of the host keeps the invariant.             *)
LEMMA CallerStep == CallerInv /\ [CallerNext]_callerVars => CallerInv'
<1> SUFFICES ASSUME CallerInv, [CallerNext]_callerVars PROVE CallerInv'
  OBVIOUS
<1>1. CASE UNCHANGED callerVars
  BY <1>1 DEF callerVars, CallerInv, CallTypes, Knows, InFlight, WireMatches, OneCommand,
              CertainVerdicts, ReceiptTrue, Active, Receipt, Owned, Certain, CallerUntouched
<1>2. CASE \E c \in Callers, k \in CallerKinds : Dispatch(c, k)
  BY <1>2, DispatchStep
<1>3. CASE \E c \in Callers :
             \/ ChecksLocally(c) \/ Reaches(c) \/ Asks(c) \/ Emits(c)
             \/ Waits(c) \/ Inspects(c) \/ Verifies(c)
  BY <1>3, LocalSteps
<1>4. CASE \E c \in Callers : Journey(c) \/ Hears(c) \/ Returns(c)
  BY <1>4, JourneyStep, HearsStep, ReturnsStep
<1>5. CASE \E c \in Callers : GivesUp(c)
  BY <1>5, JourneyFails DEF GivesUp
<1>6. CASE \E r \in wire : Takes(r)
  BY <1>6, TakesStep
<1>7. CASE \/ \E r \in wire : Loses(r)
           \/ \E p \in {"accepted", "failed", "interrupted"} : Settles(p)
  BY <1>7, HostSettles
<1> QED BY <1>1, <1>2, <1>3, <1>4, <1>5, <1>6, <1>7 DEF CallerNext

(* The invariant of the callers, for any number of them and any plans given. *)
THEOREM CallersKnow == CallerSpec => []CallerInv
<1> QED BY CallerStart, CallerStep, PTL DEF CallerSpec

(* A deployment that reports completion reports its own operation, and that  *)
(* one succeeded, whoever deploys after it (caller/deployment.rs).         *)
THEOREM ReceiptsAreTrue == CallerSpec => []ReceiptTrue
<1>1. CallerInv => ReceiptTrue
  BY DEF CallerInv
<1> QED BY <1>1, CallersKnow, PTL

(* An error that does not ask for reconciliation promises that the command   *)
(* changed nothing and that nothing of it is on its way, as long as nobody   *)
(* gives the preview database command: protocol.rs takes that one for a      *)
(* reading command, which is the run that fails.                           *)
THEOREM ErrorsAreCertain ==
  ASSUME "preview_database" \notin CallerKinds
  PROVE  CallerSpec => []CertainMeansNothing
<1>1. CallerInv => CertainMeansNothing
  <2> SUFFICES ASSUME CallerInv, NEW c \in Callers,
                      verdict[c].code # "none", ~verdict[c].reconciliation
               PROVE  CallerUntouched(c)
    BY DEF CertainMeansNothing, CallerUntouched
  <2>1. verdict[c].kind \in CallerKinds \cup {"none"}
    BY DEF CallerInv, CallTypes, Verdicts
  <2> QED BY <2>1 DEF CallerInv, CertainVerdicts
<1> QED BY <1>1, CallersKnow, PTL

(* An error in doubt is an error; an operation that succeeded was admitted. *)
AdmittedTyped ==
  /\ \A c \in Callers : verdict[c].reconciliation => verdict[c].code # "none"
  /\ hostop.id \in 0..MaxAdmitted /\ succeeded \subseteq 1..hostop.id
  /\ hostop.phase = "running" => hostop.id >= 1
  /\ changed \subseteq Callers

(* The callers and the host keep that.                                     *)
LEMMA AdmittedTypedStep == CallerInv /\ AdmittedTyped /\ [CallerNext]_callerVars => AdmittedTyped'
<1> SUFFICES ASSUME CallerInv, AdmittedTyped, [CallerNext]_callerVars PROVE AdmittedTyped'
  OBVIOUS
<1> USE CallerAssumption DEF CallerAssumption
<1>1. CASE UNCHANGED callerVars
  BY <1>1 DEF AdmittedTyped, callerVars
<1>2. ASSUME NEW c \in Callers,
             \/ \E k \in CallerKinds : Dispatch(c, k)
             \/ ChecksLocally(c) \/ Reaches(c) \/ Asks(c) \/ Emits(c)
             \/ Journey(c) \/ Hears(c) \/ GivesUp(c)
             \/ Waits(c) \/ Inspects(c) \/ Verifies(c)
      PROVE  AdmittedTyped'
  <2>1. UNCHANGED <<verdict, hostop, succeeded, changed>>
    BY <1>2 DEF Dispatch, ChecksLocally, Reaches, Asks, Emits, Journey, Hears, GivesUp, Waits,
                Inspects, Verifies
  <2> QED BY <2>1 DEF AdmittedTyped
<1>3. ASSUME NEW c \in Callers, Returns(c) PROVE AdmittedTyped'
  <2>1. Finish(command[c]).reconciliation => Finish(command[c]).code # "none"
    BY DEF Finish
  <2>2. verdict' = [verdict EXCEPT ![c] = Finish(command[c])] /\ verdict \in [Callers -> Verdicts]
    BY <1>3 DEF Returns, CallerInv, CallTypes
  <2>3. \A o \in Callers : verdict'[o].reconciliation => verdict'[o].code # "none"
    BY <2>1, <2>2 DEF AdmittedTyped
  <2> QED BY <1>3, <2>3 DEF Returns, AdmittedTyped
<1>4. ASSUME NEW r \in wire, Takes(r) PROVE AdmittedTyped'
  <2>1. r.from \in Callers /\ hostop \in CallerOperations
    BY DEF CallerInv, CallTypes
  <2>2. /\ UNCHANGED <<verdict, succeeded>> /\ changed' \subseteq Callers
    BY <1>4, <2>1 DEF Takes, AdmittedTyped
  <2>3. \/ hostop' = hostop
        \/ hostop.id < MaxAdmitted /\ hostop'.id = hostop.id + 1
        \/ hostop'.id = hostop.id /\ hostop'.phase = "reconciled"
    BY <1>4, <2>1 DEF Takes, Admits, Recovers, Works, CallerOperations
  <2> QED BY <2>2, <2>3 DEF AdmittedTyped
<1>5. ASSUME NEW r \in wire, Loses(r) PROVE AdmittedTyped'
  BY <1>5 DEF Loses, AdmittedTyped
<1>6. ASSUME NEW p \in {"accepted", "failed", "interrupted"}, Settles(p) PROVE AdmittedTyped'
  <2>1. hostop'.id = hostop.id /\ hostop'.phase = p /\ hostop.id >= 1 /\ hostop.id \in Nat
    BY <1>6 DEF Settles, CallerInv, CallTypes, CallerOperations, AdmittedTyped
  <2>2. succeeded' \subseteq 1..hostop'.id
    BY <1>6, <2>1 DEF Settles, AdmittedTyped
  <2> QED BY <1>6, <2>1, <2>2 DEF Settles, AdmittedTyped
<1> QED BY <1>1, <1>2, <1>3, <1>4, <1>5, <1>6 DEF CallerNext

(* The commands, the answers and the operations on the host keep their types: *)
(* an operation that succeeded is one that was admitted.                   *)
THEOREM CallersAreTyped == CallerSpec => []CallerTypeOK
<1>1. CallerInit => AdmittedTyped
  BY CallerAssumption DEF CallerAssumption, CallerInit, AdmittedTyped, NoOp, NoVerdict
<1>2. CallerInv /\ AdmittedTyped => CallerTypeOK
  <2> SUFFICES ASSUME CallerInv, AdmittedTyped PROVE CallerTypeOK
    OBVIOUS
  <2>1. \A c \in Callers : Active(c) => command[c] \in Running
    BY RunningIsActive DEF CallerInv
  <2>2. \A c \in Callers :
          /\ Active(c) => command[c].kind \in CallerKinds /\ command[c].exit \in {0, 1, 64, 65}
          /\ heard[c].is \in {"none", "waiting", "done", "refused"}
          /\ heard[c] # Nothing => Active(c)
          /\ verdict[c].reconciliation => verdict[c].code # "none"
    BY <2>1 DEF CallerInv, CallTypes, InFlight, AdmittedTyped, Running
  <2>3. {r.from : r \in wire} \subseteq Callers
    BY DEF CallerInv, CallTypes
  <2> QED BY <2>2, <2>3 DEF AdmittedTyped, CallerTypeOK
<1> QED BY <1>1, <1>2, CallersKnow, AdmittedTypedStep, PTL DEF CallerSpec

(***************************************************************************)
(* A bounded process owns its group to the end (OwnedToTheEnd, process.rs), *)
(* however much is written, whatever the pipes hold and whoever ends when.  *)
(***************************************************************************)
Alive == {"running", "zombie"}
Shape ==
    /\ owner \in {"check", "stdout", "stderr", "reap", "dropping", "waiting", "done"}
    /\ life \in [Members -> {"absent", "running", "zombie", "reaped"}]
    /\ holds \in [Members -> SUBSET Pipes]
    /\ buffered \in [Pipes -> Nat]
    /\ written \in Nat /\ output \in Nat /\ closed \subseteq Pipes

(* The number of the group is taken until the owner is through with it.    *)
LeaderUnreaped ==
    /\ owner # "done" => life["leader"] \in Alive
    /\ struck # "another"

(* Nothing is lost between the writers and the owner, and what the owner   *)
(* saw the end of stays at its end.                                        *)
NothingLost ==
    /\ written = output + buffered["stdout"]
    /\ \A pipe \in closed : buffered[pipe] = 0 /\ \A m \in Members : pipe \notin holds[m]

(* Once the group was struck nothing in it runs; a call that succeeded has  *)
(* seen the end of both pipes.                                             *)
EndsStruck ==
    /\ owner = "waiting" \/ (owner = "done" /\ outcome = "failed") =>
         \A m \in Members : InGroup(m) => ~Runs(m)
    /\ owner \in {"dropping", "waiting"} => outcome = "failed"
    /\ owner \in {"check", "stdout", "stderr", "reap"} => outcome = "none"
    /\ outcome = "captured" =>
         owner = "done" /\ closed = Pipes /\ life["leader"] = "reaped"

ProcessInv == Shape /\ LeaderUnreaped /\ NothingLost /\ EndsStruck
-----------------------------------------------------------------------------
(* The invariant holds at first ... *)
LEMMA ProcessStarts == ProcessInit => ProcessInv
<1> SUFFICES ASSUME ProcessInit PROVE ProcessInv
  OBVIOUS
<1>1. Shape /\ LeaderUnreaped
  BY DEF ProcessInit, Shape, LeaderUnreaped, Members, Pipes, Alive
<1>2. NothingLost /\ EndsStruck
  BY DEF ProcessInit, NothingLost, EndsStruck, Pipes
<1> QED BY <1>1, <1>2 DEF ProcessInv

(* A member writes, closes a pipe, forks, leaves the group or ends.         *)
LEMMA GroupKeeps ==
  ASSUME ProcessInv, GroupStep
  PROVE  ProcessInv'
<1> USE DEF ProcessInv, Shape, Members, Pipes
<1>1. ASSUME NEW m \in Members, NEW pipe \in Pipes, WritePipe(m, pipe) PROVE ProcessInv'
  <2>1. Shape' /\ LeaderUnreaped' /\ EndsStruck'
    BY <1>1 DEF WritePipe, LeaderUnreaped, EndsStruck, InGroup, Runs
  <2>2. pipe \notin closed
    BY <1>1 DEF WritePipe, NothingLost
  <2>3. NothingLost'
    BY <1>1, <2>2 DEF WritePipe, NothingLost
  <2> QED BY <2>1, <2>3
<1>2. ASSUME NEW m \in Members, NEW pipe \in Pipes, ClosePipe(m, pipe) PROVE ProcessInv'
  BY <1>2 DEF ClosePipe, LeaderUnreaped, NothingLost, EndsStruck, InGroup, Runs
<1>3. CASE Fork
  BY <1>3 DEF Fork, LeaderUnreaped, NothingLost, EndsStruck, InGroup, Runs, Alive
<1>4. CASE LeaveGroup
  BY <1>4 DEF LeaveGroup, LeaderUnreaped, NothingLost, EndsStruck, InGroup, Runs
<1>5. ASSUME NEW m \in Members, Exit(m) PROVE ProcessInv'
  BY <1>5 DEF Exit, Ended, Released, LeaderUnreaped, NothingLost, EndsStruck, InGroup, Runs,
              Alive
<1> QED BY <1>1, <1>2, <1>3, <1>4, <1>5 DEF GroupStep

(* The owner looks at the deadline, drains a pipe or reaps.                 *)
LEMMA OwnerKeeps ==
  ASSUME ProcessInv, OwnerStep \/ ReadFails \/ Stop
  PROVE  ProcessInv'
<1> USE DEF ProcessInv, Shape, Members, Pipes
<1>1. CASE CheckDeadline
  BY <1>1 DEF CheckDeadline, Fail, LeaderUnreaped, NothingLost, EndsStruck, InGroup, Runs
<1>2. ASSUME NEW pipe \in Pipes, NEW next \in {"stderr", "reap"}, Drain(pipe, next)
      PROVE  ProcessInv'
  <2>1. PICK n \in 0..buffered[pipe] :
          /\ buffered' = [buffered EXCEPT ![pipe] = @ - n]
          /\ closed' = IF n = buffered[pipe] /\ AtEnd(pipe)
                       THEN closed \cup {pipe} ELSE closed
          /\ output' = IF pipe = "stdout" THEN output + n ELSE output
    BY <1>2 DEF Drain
  <2>2. UNCHANGED <<life, grouped, holds, written, streaming, stopped, struck>>
    BY <1>2 DEF Drain
  <2>3. Shape' /\ NothingLost'
    <3>1. \A q \in Pipes : buffered'[q] = IF q = pipe THEN buffered[q] - n ELSE buffered[q]
      BY <2>1
    <3>2. Shape'
      BY <1>2, <2>1, <2>2, <3>1 DEF Drain, Fail
    <3>3. written' = output' + buffered'["stdout"]
      BY <2>1, <2>2, <3>1 DEF NothingLost
    <3>4. \A q \in closed' : buffered'[q] = 0 /\ \A m \in Members : q \notin holds'[m]
      BY <2>1, <2>2, <3>1 DEF NothingLost, AtEnd
    <3> QED BY <3>2, <3>3, <3>4 DEF NothingLost
  <2>4. LeaderUnreaped' /\ EndsStruck'
    BY <1>2, <2>2 DEF Drain, Fail, LeaderUnreaped, EndsStruck, InGroup, Runs
  <2> QED BY <2>3, <2>4
<1>3. CASE ReapLeader
  BY <1>3 DEF ReapLeader, LeaderUnreaped, NothingLost, EndsStruck, InGroup, Runs
<1>4. CASE KillGroup
  BY <1>4 DEF KillGroup, Ended, Released, GroupExists, LeaderUnreaped, NothingLost,
              EndsStruck, InGroup, Runs, Alive
<1>5. CASE WaitLeader
  BY <1>5 DEF WaitLeader, LeaderUnreaped, NothingLost, EndsStruck, InGroup, Runs
<1>6. CASE ReadFails
  BY <1>6 DEF ReadFails, Fail, LeaderUnreaped, NothingLost, EndsStruck, InGroup, Runs
<1>7. CASE Stop
  BY <1>7 DEF Stop, LeaderUnreaped, NothingLost, EndsStruck, InGroup, Runs
<1> QED BY <1>1, <1>2, <1>3, <1>4, <1>5, <1>6, <1>7 DEF OwnerStep

(* ... and every step keeps it. *)
LEMMA ProcessGoesOn == ProcessInv /\ [ProcessNext]_processVars => ProcessInv'
<1> SUFFICES ASSUME ProcessInv, [ProcessNext]_processVars PROVE ProcessInv'
  OBVIOUS
<1>1. CASE UNCHANGED processVars
  BY <1>1 DEF processVars, ProcessInv, Shape, LeaderUnreaped, NothingLost, EndsStruck,
              InGroup, Runs
<1> QED BY <1>1, GroupKeeps, OwnerKeeps DEF ProcessNext
-----------------------------------------------------------------------------
(* The kill reaches the group and no other, a failed call leaves nothing of *)
(* the group running, and a captured output is complete.                   *)
THEOREM GroupIsOwned == ProcessSpec => []OwnedToTheEnd
<1>1. ProcessInv => OwnedToTheEnd
  BY DEF ProcessInv, Shape, LeaderUnreaped, NothingLost, EndsStruck, OwnedToTheEnd, Pipes
<1> QED BY <1>1, ProcessStarts, ProcessGoesOn, PTL DEF ProcessSpec

(* The call of a bounded process has one of its outcomes.                  *)
OutcomeTyped == outcome \in {"none", "captured", "failed"}

(* The owner and the group keep that.                                      *)
LEMMA OutcomeTypedStep == OutcomeTyped /\ [ProcessNext]_processVars => OutcomeTyped'
BY DEF OutcomeTyped, ProcessNext, processVars, OwnerStep, GroupStep, CheckDeadline, Drain, Fail,
       ReapLeader, KillGroup, WaitLeader, Exit, WritePipe, ClosePipe, Fork, LeaveGroup, ReadFails, Stop

(* The owner, the group and the pipes keep their types, and the owner has    *)
(* no more output than was written.                                        *)
THEOREM ProcessIsTyped == ProcessSpec => []ProcessTypeOK
<1>1. ProcessInit => OutcomeTyped
  BY DEF ProcessInit, OutcomeTyped
<1>2. ProcessInv /\ OutcomeTyped => ProcessTypeOK
  BY DEF ProcessInv, Shape, NothingLost, OutcomeTyped, ProcessTypeOK, Pipes
<1> QED BY <1>1, <1>2, ProcessStarts, ProcessGoesOn, OutcomeTypedStep, PTL DEF ProcessSpec
------------------------------------------------------------------------------
(***************************************************************************)
(* The inbox of signed commands (commands/agent.rs): AtMostOnce for every  *)
(* number of commands, requests and failures and any clock, under the      *)
(* assumption that results are kept longer than an envelope can be         *)
(* accepted.                                                               *)
(***************************************************************************)
(* A performed command either has a result that is young enough to outlive *)
(* the envelope, or its envelope has expired; the command in hand is not   *)
(* performed before its claim is on disk.                                  *)
ResultRemembered(c) == results[c] # "none" /\ exp[c] <= decided[c] + Window
EnvelopeExpired(c) == now > exp[c] + Skew

HandClaimed ==
  /\ pc \in {"claim", "perform", "record"} => hand \in Commands
  /\ pc = "claim" => performed[hand] = 0 /\ exp[hand] <= now + Window
  /\ pc = "perform" => performed[hand] = 0 /\ ResultRemembered(hand)
  /\ pc = "record" => ResultRemembered(hand)
EffectRemembered == \A c \in Commands :
  /\ decided[c] <= now
  /\ performed[c] <= 1
  /\ performed[c] = 1 => ResultRemembered(c) \/ EnvelopeExpired(c)

InboxInv == TypeOK /\ HandClaimed /\ EffectRemembered
------------------------------------------------------------------------------
(* Writing a result for one command leaves the others alone.               *)
LEMMA AnswerOne ==
  ASSUME TypeOK, NEW c \in Commands, NEW r \in Results, Answer(c, r)
  PROVE  /\ results' \in [Commands -> Results] /\ decided' \in [Commands -> 0..MaxTime]
         /\ results'[c] = r /\ decided'[c] = now
         /\ \A other \in Commands \ {c} :
              results'[other] = results[other] /\ decided'[other] = decided[other]
BY DEF TypeOK, Answer

(* The state's variables stay in their types.                              *)
LEMMA InboxTypeStarts == Init => TypeOK
BY InboxAssumption DEF Init, TypeOK, InboxAssumption, Results

(* Every step keeps the types, a claimed command being one that was sent. *)
LEMMA InboxTypeStep == TypeOK /\ HandClaimed /\ [Next]_vars => TypeOK'
<1> SUFFICES ASSUME TypeOK, HandClaimed, [Next]_vars PROVE TypeOK' OBVIOUS
<1> USE InboxAssumption DEF InboxAssumption
<1>1. CASE Tick BY <1>1 DEF Tick, TypeOK, daemon
<1>2. ASSUME NEW c \in Commands, Receive(c) PROVE TypeOK'
  BY <1>2 DEF Receive, TypeOK, daemon
<1>3. ASSUME NEW c \in Commands, Enqueue(c) PROVE TypeOK'
  BY <1>3 DEF Enqueue, TypeOK, daemon
<1>4. CASE Pass BY <1>4 DEF Pass, TypeOK
<1>5. CASE SweepAnswer
  <2>1. PICK c \in batch : Answer(c, "missed") BY <1>5 DEF SweepAnswer
  <2>2. c \in Commands BY DEF TypeOK
  <2> QED BY <1>5, <2>1, <2>2, AnswerOne DEF SweepAnswer, TypeOK, daemon, Results
<1>6. CASE SweepDrop BY <1>6 DEF SweepDrop, TypeOK
<1>7. CASE List BY <1>7 DEF List, TypeOK
<1>8. CASE Take BY <1>8 DEF Take, TypeOK
<1>9. CASE Claim BY <1>9, AnswerOne DEF Claim, HandClaimed, TypeOK, Results
<1>10. CASE Perform BY <1>10 DEF Perform, HandClaimed, TypeOK
<1>11. CASE Record
  <2>1. PICK r \in {"done", "failed"} : Answer(hand, r) BY <1>11 DEF Record
  <2>2. hand \in Commands BY <1>11 DEF Record, HandClaimed
  <2> QED BY <1>11, <2>1, <2>2, AnswerOne DEF Record, TypeOK, Results
<1>12. CASE Rest BY <1>12 DEF Rest, TypeOK
<1>13. CASE Prune BY <1>13 DEF Prune, Forget, TypeOK, daemon, Results
<1>14. CASE Crash BY <1>14 DEF Crash, HandClaimed, TypeOK
<1>15. CASE WriteFails BY <1>15 DEF WriteFails, HandClaimed, TypeOK
<1>16. CASE UNCHANGED vars BY <1>16 DEF vars, daemon, TypeOK
<1> QED BY <1>1, <1>2, <1>3, <1>4, <1>5, <1>6, <1>7, <1>8, <1>9, <1>10, <1>11, <1>12,
           <1>13, <1>14, <1>15, <1>16 DEF Next, Api, Daemon
------------------------------------------------------------------------------
(* The clock only moves forward, so what is remembered or expired stays so *)
(* unless a result is rewritten or pruned.                                 *)
LEMMA Unrelated ==
  ASSUME InboxInv, TypeOK', now' \in {now, now + 1}, exp' = exp,
         results' = results, decided' = decided, performed' = performed,
         \/ pc' = pc /\ hand' = hand
         \/ pc' \in {"rest", "sweep", "apply"}
  PROVE  HandClaimed' /\ EffectRemembered'
<1> USE InboxAssumption DEF InboxAssumption
<1>1. HandClaimed'
  BY DEF InboxInv, TypeOK, HandClaimed, ResultRemembered
<1>2. EffectRemembered'
  BY DEF InboxInv, TypeOK, EffectRemembered, ResultRemembered, EnvelopeExpired
<1> QED BY <1>1, <1>2

(* Every step keeps the inductive invariant. *)
LEMMA InboxStep == InboxInv /\ [Next]_vars => InboxInv'
<1> SUFFICES ASSUME InboxInv, [Next]_vars PROVE InboxInv' OBVIOUS
<1> USE InboxAssumption DEF InboxAssumption
<1>t. TypeOK' BY InboxTypeStep DEF InboxInv
<1>a. CASE Tick BY <1>a, <1>t, Unrelated DEF Tick, InboxInv, daemon
<1>b. ASSUME NEW c \in Commands, Receive(c) PROVE InboxInv'
  BY <1>b, <1>t, Unrelated DEF Receive, InboxInv, daemon
<1>c. ASSUME NEW c \in Commands, Enqueue(c) PROVE InboxInv'
  BY <1>c, <1>t, Unrelated DEF Enqueue, InboxInv, daemon
<1>d. CASE Pass \/ SweepDrop \/ List \/ Rest
  BY <1>d, <1>t, Unrelated DEF Pass, SweepDrop, List, Rest, InboxInv
<1>e. CASE SweepAnswer
  <2>1. PICK c \in batch : results[c] = "none" /\ Answer(c, "missed")
    BY <1>e DEF SweepAnswer
  <2>2. c \in Commands BY DEF InboxInv, TypeOK
  <2>3. /\ results'[c] = "missed" /\ decided'[c] = now
        /\ \A other \in Commands \ {c} :
             results'[other] = results[other] /\ decided'[other] = decided[other]
    BY <2>1, <2>2, AnswerOne DEF InboxInv, Results
  <2>4. HandClaimed' BY <1>e DEF SweepAnswer, HandClaimed, daemon
  <2>5. EffectRemembered'
    BY <1>e, <2>1, <2>2, <2>3
    DEF SweepAnswer, InboxInv, TypeOK, EffectRemembered, ResultRemembered, EnvelopeExpired
  <2> QED BY <1>t, <2>4, <2>5 DEF InboxInv
<1>f. CASE Take
  <2>1. PICK c \in batch :
          IF Valid(c) /\ results[c] = "none" THEN pc' = "claim" /\ hand' = c
                                             ELSE UNCHANGED <<pc, hand>>
    BY <1>f DEF Take
  <2>2. c \in Commands BY DEF InboxInv, TypeOK
  <2>3. CASE ~(Valid(c) /\ results[c] = "none")
    BY <1>f, <1>t, <2>1, <2>3, Unrelated DEF Take, InboxInv
  <2>4. CASE Valid(c) /\ results[c] = "none"
    <3>1. performed[c] = 0 /\ exp[c] <= now + Window
      BY <2>2, <2>4 DEF Valid, InboxInv, TypeOK, EffectRemembered, ResultRemembered, EnvelopeExpired
    <3>2. HandClaimed'
      BY <1>f, <2>1, <2>2, <2>4, <3>1 DEF Take, HandClaimed
    <3>3. EffectRemembered'
      BY <1>f DEF Take, InboxInv, EffectRemembered, ResultRemembered, EnvelopeExpired
    <3> QED BY <1>t, <3>2, <3>3 DEF InboxInv
  <2> QED BY <2>3, <2>4
<1>g. CASE Claim
  <2>1. hand \in Commands /\ performed[hand] = 0 /\ exp[hand] <= now + Window
    BY <1>g DEF Claim, InboxInv, HandClaimed
  <2>2. /\ results'[hand] = "applying" /\ decided'[hand] = now
        /\ \A other \in Commands \ {hand} :
             results'[other] = results[other] /\ decided'[other] = decided[other]
    BY <1>g, <2>1, AnswerOne DEF Claim, InboxInv, Results
  <2>3. HandClaimed' BY <1>g, <2>1, <2>2 DEF Claim, HandClaimed, ResultRemembered
  <2>4. EffectRemembered'
    BY <1>g, <2>1, <2>2 DEF Claim, InboxInv, TypeOK, EffectRemembered, ResultRemembered, EnvelopeExpired
  <2> QED BY <1>t, <2>3, <2>4 DEF InboxInv
<1>h. CASE Perform
  <2>1. hand \in Commands /\ performed[hand] = 0 /\ ResultRemembered(hand)
    BY <1>h DEF Perform, InboxInv, HandClaimed
  <2>2. /\ performed'[hand] = 1
        /\ \A other \in Commands \ {hand} : performed'[other] = performed[other]
    BY <1>h, <2>1 DEF Perform, InboxInv, TypeOK
  <2>3. HandClaimed' BY <1>h, <2>1 DEF Perform, HandClaimed, ResultRemembered
  <2>4. EffectRemembered'
    BY <1>h, <2>1, <2>2 DEF Perform, InboxInv, EffectRemembered, ResultRemembered, EnvelopeExpired
  <2> QED BY <1>t, <2>3, <2>4 DEF InboxInv
<1>i. CASE Record
  <2>1. PICK r \in {"done", "failed"} : Answer(hand, r) BY <1>i DEF Record
  <2>2. hand \in Commands /\ ResultRemembered(hand) BY <1>i DEF Record, InboxInv, HandClaimed
  <2>3. /\ results'[hand] # "none" /\ decided'[hand] = now
        /\ \A other \in Commands \ {hand} :
             results'[other] = results[other] /\ decided'[other] = decided[other]
    BY <2>1, <2>2, AnswerOne DEF InboxInv, Results
  <2>4. HandClaimed' BY <1>i DEF Record, HandClaimed
  <2>5. results'[hand] # "none" /\ exp'[hand] <= decided'[hand] + Window
    BY <1>i, <2>2, <2>3 DEF Record, InboxInv, TypeOK, EffectRemembered, ResultRemembered
  <2>6. EffectRemembered'
    BY <1>i, <2>2, <2>3, <2>5 DEF Record, InboxInv, TypeOK, EffectRemembered, ResultRemembered, EnvelopeExpired
  <2> QED BY <1>t, <2>4, <2>6 DEF InboxInv
<1>j. CASE Prune
  <2>1. HandClaimed' BY <1>j DEF Prune, HandClaimed, daemon
  <2>2. ASSUME NEW c \in Commands
        PROVE  \/ results'[c] = results[c]
               \/ now > decided[c] + Keep
    BY <1>j DEF Prune, Forget
  <2>3. EffectRemembered'
    BY <1>j, <2>2 DEF Prune, InboxInv, TypeOK, EffectRemembered, ResultRemembered, EnvelopeExpired
  <2> QED BY <1>t, <2>1, <2>3 DEF InboxInv
<1>k. CASE Crash BY <1>k, <1>t, Unrelated DEF Crash, InboxInv
<1>l. CASE WriteFails BY <1>l, <1>t, Unrelated DEF WriteFails, InboxInv
<1>m. CASE UNCHANGED vars BY <1>m, <1>t, Unrelated DEF vars, daemon, InboxInv
<1> QED BY <1>a, <1>b, <1>c, <1>d, <1>e, <1>f, <1>g, <1>h, <1>i, <1>j, <1>k, <1>l, <1>m
        DEF Next, Api, Daemon

(* The invariant holds at first. *)
LEMMA InboxStarts == Init => InboxInv
BY InboxTypeStarts DEF Init, InboxInv, HandClaimed, EffectRemembered
------------------------------------------------------------------------------
(* The invariant is inductive. *)
THEOREM InboxInvariant == Spec => []InboxInv
BY InboxStarts, InboxStep, PTL DEF Spec

(* The daemon's state is well formed: whatever is delivered, pruned or     *)
(* interrupted, a command in hand is one of the signed commands.           *)
THEOREM InboxTypeInvariant == Spec => []TypeOK
BY InboxInvariant, PTL DEF InboxInv

(* No command is handed to the executor twice (inbox.rs, apply_one): not   *)
(* after a crash, a second delivery or the pruning of its result.          *)
THEOREM CommandsApplyOnce == Spec => []AtMostOnce
<1>1. InboxInv => AtMostOnce BY DEF InboxInv, EffectRemembered, AtMostOnce
<1> QED BY <1>1, InboxInvariant, PTL
------------------------------------------------------------------------------
(* What a result says of its command.  From its claim on, the command in    *)
(* hand is "applying", which promises nothing; a command that has neither a *)
(* result nor lost one has not been performed.                             *)
HandApplying ==
  /\ pc \in {"perform", "record"} => results[hand] = "applying"
  /\ pc = "record" => performed[hand] = 1
NothingUntold == \A c \in Commands :
  results[c] = "none" /\ c \notin forgotten => performed[c] = 0

InboxTruth == HandApplying /\ NothingUntold /\ ResultsTrue

(* Steps that neither answer nor perform.                                  *)
LEMMA NothingTold ==
  ASSUME InboxTruth, results' = results, performed' = performed, forgotten' = forgotten,
         (pc' = pc /\ hand' = hand) \/ pc' \in {"rest", "sweep", "apply", "claim"}
  PROVE  InboxTruth'
BY DEF InboxTruth, HandApplying, NothingUntold, ResultsTrue

(* An answer that is true of its command, while none is being performed.    *)
LEMMA Told ==
  ASSUME InboxInv, InboxTruth, NEW c \in Commands, NEW r \in Results \ {"none"}, Answer(c, r),
         r \in {"done", "failed"} => performed[c] = 1,
         r = "missed" => c \in forgotten \/ performed[c] = 0,
         performed' = performed, forgotten' = forgotten
  PROVE  NothingUntold' /\ ResultsTrue'
<1>1. results'[c] = r /\ \A other \in Commands \ {c} : results'[other] = results[other]
  BY AnswerOne DEF InboxInv
<1> QED BY <1>1 DEF InboxTruth, NothingUntold, ResultsTrue

(* Every step keeps the results true. *)
LEMMA InboxTruthStep == InboxInv /\ InboxTruth /\ [Next]_vars => InboxTruth'
<1> SUFFICES ASSUME InboxInv, InboxTruth, [Next]_vars PROVE InboxTruth' OBVIOUS
<1>1. CASE Tick \/ Api \/ Pass \/ SweepDrop \/ List \/ Rest \/ UNCHANGED vars
  BY <1>1, NothingTold
  DEF Tick, Api, Receive, Enqueue, Pass, SweepDrop, List, Rest, vars, daemon
<1>2. CASE Take \/ Crash \/ WriteFails
  BY <1>2, NothingTold DEF Take, Crash, WriteFails
<1>3. CASE SweepAnswer
  <2>1. PICK c \in batch : results[c] = "none" /\ Answer(c, "missed")
    BY <1>3 DEF SweepAnswer
  <2>2. c \in Commands /\ (c \in forgotten \/ performed[c] = 0)
    BY <2>1 DEF InboxInv, TypeOK, InboxTruth, NothingUntold
  <2>3. NothingUntold' /\ ResultsTrue'
    BY <1>3, <2>1, <2>2, Told DEF SweepAnswer, Results
  <2>4. HandApplying'
    BY <1>3 DEF SweepAnswer, HandApplying, daemon
  <2> QED BY <2>3, <2>4 DEF InboxTruth
<1>4. CASE Claim
  <2>1. hand \in Commands /\ Answer(hand, "applying")
    BY <1>4 DEF Claim, InboxInv, HandClaimed
  <2>2. NothingUntold' /\ ResultsTrue'
    BY <1>4, <2>1, Told DEF Claim, Results
  <2>3. HandApplying'
    BY <1>4, <2>1, AnswerOne DEF Claim, HandApplying, InboxInv, Results
  <2> QED BY <2>2, <2>3 DEF InboxTruth
<1>5. CASE Perform
  <2>1. hand \in Commands /\ results[hand] = "applying" /\ performed[hand] = 0
    BY <1>5 DEF Perform, InboxInv, HandClaimed, InboxTruth, HandApplying
  <2>2. performed'[hand] = 1
        /\ \A other \in Commands \ {hand} : performed'[other] = performed[other]
    BY <1>5, <2>1 DEF Perform, InboxInv, TypeOK
  <2> QED BY <1>5, <2>1, <2>2 DEF Perform, InboxTruth, HandApplying, NothingUntold, ResultsTrue
<1>6. CASE Record
  <2>1. PICK r \in {"done", "failed"} : Answer(hand, r) BY <1>6 DEF Record
  <2>2. hand \in Commands /\ performed[hand] = 1
    BY <1>6 DEF Record, InboxInv, HandClaimed, InboxTruth, HandApplying
  <2>3. NothingUntold' /\ ResultsTrue'
    BY <1>6, <2>1, <2>2, Told DEF Record, Results
  <2>4. HandApplying' BY <1>6 DEF Record, HandApplying
  <2> QED BY <2>3, <2>4 DEF InboxTruth
<1>7. CASE Prune
  BY <1>7 DEF Prune, Forget, InboxTruth, HandApplying, NothingUntold, ResultsTrue, daemon
<1> QED BY <1>1, <1>2, <1>3, <1>4, <1>5, <1>6, <1>7 DEF Next, Daemon

(* A result tells the truth of its command (results.rs, inbox.rs): "done"   *)
(* and "failed" are of a command that was performed, and the sweep's        *)
(* "did not get to this command" of one that was not.                      *)
THEOREM ResultsTellTheTruth == Spec => []ResultsTrue
<1>1. Init => InboxTruth
  BY DEF Init, InboxTruth, HandApplying, NothingUntold, ResultsTrue
<1>2. InboxTruth => ResultsTrue
  BY DEF InboxTruth
<1> QED BY <1>1, <1>2, InboxTruthStep, InboxInvariant, PTL DEF Spec
=============================================================================
