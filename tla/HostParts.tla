------------------------------ MODULE HostParts ------------------------------
(***************************************************************************)
(* The safety of the parts that share no state with each other in these    *)
(* models, each on a small instance: the command inbox, one application's  *)
(* static serving, the callers, setup, a bounded process, routine backups, *)
(* the image cache, the verbs of an application without deployment         *)
(* authority, and the report's history.                                    *)
(*                                                                         *)
(* A behaviour chooses one part and only that part moves, so that TLC      *)
(* explores the sum of the parts and not their product.  The other parts   *)
(* stay in one of their initial states.                                    *)
(***************************************************************************)
EXTENDS CommandInbox, StaticServing, Caller, HostSetup, BoundedProcess, RoutineBackup,
        ImageCache, StopRecord, ReportHistory

VARIABLE part  \* the part that moves

partsVars == <<part, vars, staticVars, callerVars, setupVars, processVars, backupVars,
               cacheVars, stopRecordVars, historyVars>>

Parts == {"inbox", "static", "calls", "setup", "process", "backups", "images", "verbs",
          "history"}

(* A part that does not move starts where nothing has happened. *)
PartsInit ==
  /\ part \in Parts
  /\ Init /\ (part # "inbox" => \A c \in Commands : exp[c] = 0)
  /\ StaticInit /\ (part # "static" => installed = NoStatic)
  /\ CallerInit /\ SetupInit
  /\ ProcessInit /\ (part # "process" => ~streaming)
  /\ BackupInit
  /\ (part # "backups" => servingNow.revision = CHOOSE v \in BackupRevisions : TRUE)
  /\ CacheInit /\ (part # "images" => registry = CHOOSE i \in Images : TRUE)
  /\ StopRecordInit /\ (part # "verbs" => servicesUp = {})
  /\ HistoryInit

(* The step of part p is step; every other part keeps its variables. *)
Turn(p, step, variables) == IF part = p THEN step ELSE UNCHANGED variables

PartsNext ==
  /\ UNCHANGED part
  /\ Turn("inbox", Next, vars)
  /\ Turn("static", StaticNext, staticVars)
  /\ Turn("calls", CallerNext, callerVars)
  /\ Turn("setup", SetupNext, setupVars)
  /\ Turn("process", ProcessNext, processVars)
  /\ Turn("backups", BackupNext, backupVars)
  /\ Turn("images", CacheNext, cacheVars)
  /\ Turn("verbs", StopRecordNext, stopRecordVars)
  /\ Turn("history", HistoryNext, historyVars)

PartsSpec == PartsInit /\ [][PartsNext]_partsVars
-----------------------------------------------------------------------------
(* The types of the part that moves. *)
PartsTypeOK ==
  /\ part \in Parts
  /\ part = "inbox" => TypeOK
  /\ part = "static" => StaticTypeOK
  /\ part = "calls" => CallerTypeOK
  /\ part = "setup" => SetupTypeOK
  /\ part = "process" => ProcessTypeOK
  /\ part = "backups" => BackupTypeOK
  /\ part = "images" => ImageCacheTypeOK
  /\ part = "verbs" => StopRecordTypeOK
  /\ part = "history" => HistoryTypeOK
=============================================================================
