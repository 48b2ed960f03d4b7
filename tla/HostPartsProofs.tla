--------------------------- MODULE HostPartsProofs ---------------------------
(***************************************************************************)
(* What is shown of each part of module HostParts holds of the behaviours  *)
(* that HostParts checks, in which one part moves and the others keep what *)
(* they have: every step of HostParts is a step of each part or none.      *)
(***************************************************************************)
EXTENDS HostParts, PartsProofs, StaticServingProofs, ReportHistoryProofs

(* Whichever part moves, each of them makes its own steps or none.         *)
LEMMA PartsOfHost ==
  PartsSpec => /\ Spec /\ StaticSpec /\ CallerSpec /\ SetupSpec /\ ProcessSpec
               /\ BackupSpec /\ CacheSpec /\ StopRecordSpec /\ HistorySpec
<1>1. PartsInit => /\ Init /\ StaticInit /\ CallerInit /\ SetupInit /\ ProcessInit
                   /\ BackupInit /\ CacheInit /\ StopRecordInit /\ HistoryInit
  BY DEF PartsInit
<1>2. [PartsNext]_partsVars =>
        /\ [Next]_vars /\ [StaticNext]_staticVars /\ [CallerNext]_callerVars
        /\ [SetupNext]_setupVars /\ [ProcessNext]_processVars /\ [BackupNext]_backupVars
        /\ [CacheNext]_cacheVars /\ [StopRecordNext]_stopRecordVars
        /\ [HistoryNext]_historyVars
  BY DEF PartsNext, Turn, partsVars
<1> QED BY <1>1, <1>2, PTL
        DEF PartsSpec, Spec, StaticSpec, CallerSpec, SetupSpec, ProcessSpec, BackupSpec, CacheSpec,
            StopRecordSpec, HistorySpec

(* The part that moves keeps its types, whichever it is.                   *)
THEOREM PartsAreTyped == PartsSpec => []PartsTypeOK
<1>1. PartsSpec => [](part \in Parts)
  <2>1. PartsInit => part \in Parts
    BY DEF PartsInit
  <2>2. part \in Parts /\ [PartsNext]_partsVars => (part \in Parts)'
    BY DEF PartsNext, partsVars
  <2> QED BY <2>1, <2>2, PTL DEF PartsSpec
<1>2. /\ part \in Parts
      /\ TypeOK /\ StaticTypeOK /\ CallerTypeOK /\ SetupTypeOK /\ ProcessTypeOK /\ BackupTypeOK
      /\ ImageCacheTypeOK /\ StopRecordTypeOK /\ HistoryTypeOK
      => PartsTypeOK
  BY DEF PartsTypeOK
<1> QED BY <1>1, <1>2, PartsOfHost, InboxTypeInvariant, StaticTypes, CallersAreTyped, SetupIsTyped,
           ProcessIsTyped, BackupsAreTyped, CacheIsTyped, VerbsAreTyped, HistoryTypeInvariant, PTL

(* What is shown of each part: the inbox, static serving, the callers'       *)
(* receipts, setup, bounded processes, backups, images, the stop record and *)
(* the history.                                                            *)
THEOREM PartsAreSafe ==
  PartsSpec =>
    /\ []AtMostOnce /\ []ResultsTrue
    /\ []TreesPublished /\ []StoppedIsWithdrawn /\ []AcceptedIsWhole /\ []RefusedLeavesServing
    /\ []ReceiptTrue /\ []KeyHeld /\ []OwnedToTheEnd /\ []ExportOnce /\ []BoundIsAccepted
    /\ []RecordIsEarned /\ []HistoryServed
BY PartsOfHost, CommandsApplyOnce, ResultsTellTheTruth, TreesStayPublished, StopsWithdraw,
   AcceptedStaysWhole, RefusedLeaves, ReceiptsAreTrue, AuthorizedKeysAreHeld, GroupIsOwned,
   RunsExportOnce, BindingsAreAccepted, StopRecordEarned, HistoryIsServed, PTL

(* And what the callers' errors promise, as long as nobody gives the command *)
(* that protocol.rs takes for a reading one.                               *)
THEOREM PartsErrorsAreCertain ==
  ASSUME "preview_database" \notin CallerKinds
  PROVE  PartsSpec => []CertainMeansNothing
<1>1. CallerSpec => []CertainMeansNothing
  BY ErrorsAreCertain
<1> QED BY <1>1, PartsOfHost, PTL
=============================================================================
