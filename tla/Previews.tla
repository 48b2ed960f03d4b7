------------------------------- MODULE Previews -------------------------------
(***************************************************************************)
(* The previews of one application on a komizo host: records under         *)
(* previews/<project>/, and the containers, database, networks and proxy   *)
(* route that `preview up` makes for a record and `preview down`, an       *)
(* eviction or the hourly reaper takes away again.                         *)
(*                                                                         *)
(* Every operation holds operation.lock from beginning to end, so at most  *)
(* one job is under way; it consists of Docker commands and file           *)
(* replacements, each of which is a step here and may be the last one.     *)
(* Only the look-up of `preview down` precedes the lock (looked).          *)
(***************************************************************************)
EXTENDS Naturals, Sequences, FiniteSets

CONSTANTS
  Previews,       \* pull requests of the application that may get a preview
  NoPreview,      \* no record, no job's preview
  Gates, Stacks, Privates,  \* those asked for with one image, with several,
                            \* and under the application's private profile
  Targets,        \* the domains the knob may name
  PathTargets,    \* those of them that route by path instead of by host name
  NoTarget,       \* no route file, no site file, nothing loaded
  LowPort, HighPort,   \* PORT_RANGE
  MaxPreviews,    \* MAX_PREVIEWS, which an operator may lower by one
  MemoryBudget,   \* MEM_BUDGET in units of one service's limit
  MaxTrouble      \* bound: edits of the knob, commands that fail, jobs that die

VARIABLES
  records,    \* previews/<project>/preview.env
  byUse,      \* the recorded previews, least recently used first
  expired,    \* the recorded previews whose last use is longer ago than the TTL
  composed,   \* the previews whose directory has a compose.yml
  running,    \* what the containers of a preview were started as
  databases,  \* the previews that have a database and a role
  networks,   \* the networks labelled with a preview
  route,      \* the route files of a preview: the targets they were written
              \* for, at most one by host name and one by path
  site,       \* _preview-path-<app>.caddy: the target it was written for
  loaded,     \* the routes of a preview as the proxy has loaded them
  server,     \* the shared database server runs
  knob,       \* /etc/komizo/preview: target and maximum
  looked,     \* the record a waiting `preview down` has looked up
  job,        \* the holder of operation.lock
  served,     \* ghost: previews that came up and were not touched since
  stale,      \* ghost: previews taken down by a record of another routing
  trouble     \* edits, failures and crashes so far

stores == <<records, byUse, expired, composed>>
effects == <<running, databases, networks, route, site, loaded, server>>
previewVars == <<stores, effects, knob, looked, job, served, stale, trouble>>

Kinds == {"gate", "stack", "private"}
Asked(p) == {k \in Kinds : p \in CASE k = "gate" -> Gates [] k = "stack" -> Stacks
                                   [] k = "private" -> Privates}

PreviewRecord == [preview : Previews, kind : Kinds, target : Targets, port : LowPort..HighPort]

ASSUME PreviewAssumption ==
  /\ Gates \cup Stacks \cup Privates \subseteq Previews /\ PathTargets \subseteq Targets
  /\ NoPreview \notin PreviewRecord /\ NoTarget \notin Targets
  /\ LowPort \in Nat /\ HighPort \in Nat /\ MaxPreviews \in Nat \ {0, 1}
  /\ MemoryBudget \in Nat /\ MaxTrouble \in Nat

(* memory_reservation: one service's limit per image. *)
Reservation(kind) == IF kind = "stack" THEN 2 ELSE 1
HasDatabase(r) == r.kind = "stack"
ByPath(t) == t \in PathTargets

RecordedPreviews == {p \in Previews : records[p] # NoPreview}

(* A directory with a compose.yml and no record stops every command that   *)
(* lists the previews.                                                     *)
Listable == composed \subseteq RecordedPreviews

NoJob == [verb |-> "none", pc |-> "idle", new |-> NoPreview, old |-> NoPreview,
          left |-> {}, before |-> <<NoTarget, {}>>]
UpSteps == {"evict", "write", "database", "ingress", "compose", "route", "reload", "refused"}
DownSteps == {"stop", "drop", "unroute", "unload", "disconnect", "remove", "idle database"}
Jobs == [verb : {"none", "up", "down", "gc", "trim"},
         pc : UpSteps \cup DownSteps \cup {"idle", "reap"},
         new : PreviewRecord \cup {NoPreview}, old : PreviewRecord \cup {NoPreview},
         left : SUBSET Previews,
         before : (PathTargets \cup {NoTarget}) \X SUBSET Targets]
LockFree == job = NoJob

PreviewTypeOK ==
  /\ records \in [Previews -> PreviewRecord \cup {NoPreview}]
  /\ byUse \in Seq(Previews) /\ {byUse[i] : i \in DOMAIN byUse} = RecordedPreviews
  /\ \A i, j \in DOMAIN byUse : byUse[i] = byUse[j] => i = j
  /\ expired \subseteq RecordedPreviews /\ composed \subseteq Previews
  /\ running \in [Previews -> Kinds \cup {"none"}]
  /\ databases \subseteq Previews
  /\ networks \in [Previews -> SUBSET {"ingress", "backend"}]
  /\ route \in [Previews -> SUBSET Targets] /\ loaded \in [Previews -> SUBSET Targets]
  /\ site \in PathTargets \cup {NoTarget} /\ server \in BOOLEAN
  /\ knob \in [target : Targets, max : {MaxPreviews, MaxPreviews - 1}]
  /\ looked \in PreviewRecord \cup {NoPreview}
  /\ job \in Jobs
  /\ served \subseteq Previews /\ stale \subseteq Previews
  /\ trouble \in 0..MaxTrouble

PreviewInit ==
  /\ records = [p \in Previews |-> NoPreview]
  /\ byUse = <<>> /\ expired = {} /\ composed = {}
  /\ running = [p \in Previews |-> "none"]
  /\ databases = {} /\ networks = [p \in Previews |-> {}]
  /\ route = [p \in Previews |-> {}] /\ loaded = route
  /\ site = NoTarget /\ server = FALSE
  /\ knob \in [target : Targets, max : {MaxPreviews}]
  /\ looked = NoPreview /\ job = NoJob /\ served = {} /\ stale = {}
  /\ trouble = 0
------------------------------------------------------------------------------
(* The one of these files that has the name of the route to t: route_file  *)
(* depends on the routing, not on the host name.                           *)
FileOf(files, t) == {u \in files : ByPath(u) = ByPath(t)}

(* What the proxy serves of preview p once it loads the files on disk: a   *)
(* route by path is imported by the application's site file.               *)
OnDisk(routes, path) ==
  [p \in Previews |-> {u \in routes[p] : ~ByPath(u)}
                     \cup {u \in {path} \cap Targets : \E v \in routes[p] : ByPath(v)}]

(* The limits that the recorded previews reserve. *)
Reserved(recs) ==
  Cardinality({limit \in Previews \X (1..2) :
                 /\ recs[limit[1]] # NoPreview
                 /\ limit[2] <= Reservation(recs[limit[1]].kind)})

(* The memory budget admits the new record next to all the others. *)
FitsBudget(p, kind) ==
  Reserved([records EXCEPT ![p] = NoPreview]) + Reservation(kind) <= MemoryBudget

(* Routing and profile of a preview cannot change while it is recorded,    *)
(* nor the host name of path previews while one of them is.                *)
MayReplace(p, kind, t) ==
  /\ records[p] # NoPreview =>
       /\ ByPath(records[p].target) = ByPath(t)
       /\ (records[p].kind = "private") = (kind = "private")
  /\ \A q \in RecordedPreviews : ByPath(records[q].target) => records[q].target = t

UsedPorts(p) == {records[q].port : q \in RecordedPreviews \ {p}}

(* Its own port if it has one, else the first free one of the range. *)
GatePorts(p) ==
  LET free == (LowPort..HighPort) \ UsedPorts(p)
  IN IF p \in RecordedPreviews /\ records[p].port \in free THEN {records[p].port}
     ELSE {n \in free : \A m \in free : n <= m}

(* Bug: a full house evicts only when it is already over the maximum. *)
EvictsLate(p) == p \notin RecordedPreviews /\ Cardinality(RecordedPreviews) > knob.max

Evicts(p) ==
  p \notin RecordedPreviews /\ Cardinality(RecordedPreviews) >= knob.max /\ RecordedPreviews # {}
------------------------------------------------------------------------------
(* `preview up`: everything it checks, under the lock, before it changes   *)
(* anything.  A refusal changes nothing.                                   *)
Up(p, kind) ==
  /\ LockFree /\ Listable
  /\ FitsBudget(p, kind) /\ MayReplace(p, kind, knob.target)
  /\ \E port \in GatePorts(p) :
       LET new == [preview |-> p, kind |-> kind, target |-> knob.target, port |-> port]
       IN job' = IF Evicts(p)
                   THEN [NoJob EXCEPT !.verb = "up", !.new = new, !.pc = "stop",
                                      !.old = records[Head(byUse)]]
                   ELSE [NoJob EXCEPT !.verb = "up", !.new = new, !.pc = "write"]
  /\ served' = IF Evicts(p) THEN served \ {Head(byUse)} ELSE served
  /\ UNCHANGED <<stores, effects, knob, looked, stale, trouble>>

JobMoves(from, to) == job.pc = from /\ job' = [job EXCEPT !.pc = to]

(* The order of use without preview p. *)
Unused(p) ==
  LET at == CHOOSE i \in DOMAIN byUse : byUse[i] = p
  IN IF p \in RecordedPreviews
       THEN [i \in 1..(Len(byUse) - 1) |-> byUse[IF i < at THEN i ELSE i + 1]]
     ELSE byUse

(* The record is replaced first: whatever happens next, it names what is   *)
(* to be cleaned up.                                                       *)
WriteRecord ==
  LET p == job.new.preview
  IN /\ JobMoves("write", "database")
     /\ records' = [records EXCEPT ![p] = job.new]
     /\ byUse' = Append(Unused(p), p)
     /\ expired' = expired \ {p} /\ served' = served \ {p}
     /\ UNCHANGED <<composed, effects, knob, looked, stale, trouble>>

(* ensure_backend, ensure_database_ready, and a new database and role in   *)
(* place of any left-over one.                                             *)
PrepareDatabase ==
  LET p == job.new.preview
  IN /\ JobMoves("database", "ingress")
     /\ IF HasDatabase(job.new)
          THEN /\ server' = TRUE /\ databases' = databases \cup {p}
               /\ networks' = [networks EXCEPT ![p] = @ \cup {"backend"}]
          ELSE UNCHANGED <<server, databases, networks>>
     /\ UNCHANGED <<stores, running, route, site, loaded, knob, looked, served, stale, trouble>>

EnsureIngress ==
  /\ JobMoves("ingress", "compose")
  /\ networks' = [networks EXCEPT ![job.new.preview] = @ \cup {"ingress"}]
  /\ UNCHANGED <<stores, running, databases, route, site, loaded, server, knob, looked,
                 served, stale, trouble>>

(* compose.yml is written and docker compose up --remove-orphans run.      *)
ComposeUp ==
  LET p == job.new.preview
  IN /\ JobMoves("compose", "route")
     /\ composed' = composed \cup {p}
     /\ running' = [running EXCEPT ![p] = job.new.kind]
     /\ UNCHANGED <<records, byUse, expired, databases, networks, route, site, loaded,
                    server, knob, looked, served, stale, trouble>>

(* The site of a path preview, if no other route would change with it,     *)
(* and then its route.                                                     *)
WriteRoute ==
  LET p == job.new.preview
      t == job.new.target
  IN /\ job.pc = "route"
     /\ IF ByPath(t) /\ site \notin {NoTarget, t}
             /\ \E q \in Previews \ {p} : \E u \in route[q] : ByPath(u)
          THEN job' = [job EXCEPT !.pc = "refused"] /\ UNCHANGED <<site, route>>
          ELSE /\ job' = [job EXCEPT !.pc = "reload", !.before = <<site, FileOf(route[p], t)>>]
               /\ site' = IF ByPath(t) THEN t ELSE site
               /\ route' = [route EXCEPT ![p] = (@ \ FileOf(@, t)) \cup {t}]
     /\ UNCHANGED <<stores, running, databases, networks, loaded, server, knob, looked,
                    served, stale, trouble>>

(* The route file as it was before. *)
RouteBefore(p, t) == [route EXCEPT ![p] = (@ \ FileOf(@, t)) \cup job.before[2]]

(* Bug: a rejected configuration takes the application's site away.        *)
DropsSite(rejected) ==
  /\ site' = IF ByPath(job.new.target) THEN NoTarget ELSE site
  /\ route' = IF rejected THEN RouteBefore(job.new.preview, job.new.target) ELSE route

(* The configuration is rejected or the proxy does not reload: the site is *)
(* put back, the route only if it was rejected.                            *)
PutBack(rejected) ==
  /\ site' = IF ByPath(job.new.target) THEN job.before[1] ELSE site
  /\ route' = IF rejected THEN RouteBefore(job.new.preview, job.new.target) ELSE route

(* The proxy validates and loads all files on disk; up has succeeded. *)
LoadRoute ==
  /\ job.pc = "reload"
  /\ loaded' = OnDisk(route, site)
  /\ served' = served \cup {job.new.preview}
  /\ job' = NoJob
  /\ UNCHANGED <<stores, running, databases, networks, route, site, server, knob, looked,
                 stale, trouble>>

RouteFails ==
  /\ job.pc = "reload" /\ trouble < MaxTrouble
  /\ \E rejected \in BOOLEAN : PutBack(rejected)
  /\ job' = [job EXCEPT !.pc = "refused", !.before = NoJob.before]
  /\ trouble' = trouble + 1
  /\ UNCHANGED <<stores, running, databases, networks, loaded, server, knob, looked, served, stale>>

(* A Docker command of up fails: what was made is taken down again. *)
UpFails ==
  /\ job.pc \in {"database", "ingress", "compose"} /\ trouble < MaxTrouble
  /\ job' = [job EXCEPT !.pc = "refused"]
  /\ trouble' = trouble + 1
  /\ UNCHANGED <<stores, effects, knob, looked, served, stale>>

CleanUp ==
  /\ job.pc = "refused"
  /\ job' = [job EXCEPT !.pc = "stop", !.old = job.new, !.new = NoPreview]
  /\ UNCHANGED <<stores, effects, knob, looked, served, stale, trouble>>
------------------------------------------------------------------------------
(* down_inner: the steps that take the preview of job.old away. *)
StopContainers ==
  LET p == job.old.preview
  IN /\ JobMoves("stop", "drop")
     /\ running' = [running EXCEPT ![p] = "none"]
     /\ UNCHANGED <<stores, databases, networks, route, site, loaded, server, knob, looked,
                    served, stale, trouble>>

(* The server is started for the cleanup if it does not run. *)
DropDatabase ==
  /\ JobMoves("drop", "unroute")
  /\ IF HasDatabase(job.old)
       THEN server' = TRUE /\ databases' = databases \ {job.old.preview}
       ELSE UNCHANGED <<server, databases>>
  /\ UNCHANGED <<stores, running, networks, route, site, loaded, knob, looked, served, stale,
                 trouble>>

(* The route file that the record names goes, and no other; one that is     *)
(* already gone is not unloaded again.                                     *)
RemoveRoute ==
  LET p == job.old.preview
      file == FileOf(route[p], job.old.target)
  IN /\ job.pc = "unroute"
     /\ job' = IF file = {} THEN [job EXCEPT !.pc = "disconnect"]
               ELSE [job EXCEPT !.pc = "unload", !.before = <<site, file>>]
     /\ route' = [route EXCEPT ![p] = @ \ file]
     /\ UNCHANGED <<stores, running, databases, networks, site, loaded, server, knob, looked,
                    served, stale, trouble>>

UnloadRoute ==
  /\ job.pc = "unload"
  /\ job' = [job EXCEPT !.pc = "disconnect", !.before = NoJob.before]
  /\ loaded' = OnDisk(route, site)
  /\ UNCHANGED <<stores, running, databases, networks, route, site, server, knob, looked,
                 served, stale, trouble>>

RemoveNetworks ==
  LET p == job.old.preview
  IN /\ JobMoves("disconnect", "remove")
     /\ networks' = [networks EXCEPT ![p] =
                       IF job.old.kind = "stack" THEN {} ELSE @ \ {"ingress"}]
     /\ UNCHANGED <<stores, running, databases, route, site, loaded, server, knob, looked,
                    served, stale, trouble>>

ForgetPreview(p) ==
  /\ records' = [records EXCEPT ![p] = NoPreview]
  /\ byUse' = Unused(p)
  /\ expired' = expired \ {p}

(* Bug: the directory goes first, as if its record were not needed.        *)
RemovesFirst ==
  LET p == job.old.preview
  IN /\ JobMoves("stop", "drop")
     /\ ForgetPreview(p) /\ composed' = composed \ {p}
     /\ UNCHANGED <<effects, knob, looked, served, stale, trouble>>

RemoveDirectory ==
  LET p == job.old.preview
  IN /\ JobMoves("remove", "idle database")
     /\ ForgetPreview(p) /\ composed' = composed \ {p}
     /\ UNCHANGED <<effects, knob, looked, served, stale, trouble>>

(* A record that names a database keeps the shared server running. *)
ServerNeeded == \E p \in RecordedPreviews : HasDatabase(records[p])

Continue(pc) == [job EXCEPT !.pc = pc, !.old = NoPreview, !.before = NoJob.before]
Reaping == job.verb \in {"gc", "trim"} /\ job.old # NoPreview

(* What a job does when down_inner is through: the eviction is followed by *)
(* the record of the new preview, the reaper looks at its next record; it  *)
(* gives its second part up with the first record it cannot take down.     *)
After(ok) ==
  CASE job.verb = "up" /\ job.new # NoPreview /\ ok -> Continue("write")
    [] Reaping /\ (ok \/ job.verb = "gc") -> Continue("reap")
    [] Reaping /\ ~ok /\ job.verb = "trim" -> Continue("idle database")
    [] OTHER -> NoJob

(* stop_unused_database, at the end of down_inner and of the reaper. *)
StopIdleServer ==
  /\ job.pc = "idle database"
  /\ server' = (server /\ ServerNeeded)
  /\ job' = After(TRUE)
  /\ UNCHANGED <<stores, running, databases, networks, route, site, loaded, knob, looked,
                 served, stale, trouble>>

(* A command of down_inner fails: the record stays, for a retry.  When the *)
(* configuration without the route is rejected, the route is put back.     *)
DownFails ==
  /\ job.pc \in {"stop", "drop", "unload", "disconnect", "idle database"}
  /\ job.pc = "stop" => job.old.preview \in composed
  /\ trouble < MaxTrouble
  /\ \/ UNCHANGED route
     \/ /\ job.pc = "unload"
        /\ route' = RouteBefore(job.old.preview, job.old.target)
  /\ job' = After(FALSE)
  /\ trouble' = trouble + 1
  /\ UNCHANGED <<stores, running, databases, networks, site, loaded, server, knob, looked,
                 served, stale>>
------------------------------------------------------------------------------
(* `preview down` looks its record up before it asks for the lock.  If the *)
(* lock is free it has it at once; a record that is looked up while a job  *)
(* is under way is used when that job is through, whatever it did.         *)
LookUp(p) ==
  /\ ~LockFree /\ looked = NoPreview /\ Listable /\ p \in RecordedPreviews
  /\ looked' = records[p]
  /\ UNCHANGED <<stores, effects, knob, job, served, stale, trouble>>

TakeDown(r) ==
  /\ job' = [NoJob EXCEPT !.verb = "down", !.pc = "stop", !.old = r]
  /\ served' = served \ {r.preview}
  /\ UNCHANGED <<stores, effects, knob, trouble>>

Down(p) == /\ LockFree /\ Listable /\ p \in RecordedPreviews
           /\ TakeDown(records[p])
           /\ UNCHANGED <<looked, stale>>

(* The preview may have been taken down and made again meanwhile, with the *)
(* other routing.                                                          *)
OtherRouting(r) == /\ r.preview \in RecordedPreviews
                   /\ ByPath(records[r.preview].target) # ByPath(r.target)

WaitedDown == /\ LockFree /\ looked # NoPreview
              /\ TakeDown(looked)
              /\ stale' = IF OtherRouting(looked) THEN stale \cup {looked.preview} ELSE stale
              /\ looked' = NoPreview

(* Bug: a reaper that only keeps the number of previews down.              *)
NothingDue == {}

(* The records the reaper takes down because of their age. *)
Due == expired

UsedBefore(p, q) ==
  \E i, j \in DOMAIN byUse : i < j /\ byUse[i] = p /\ byUse[j] = q

(* The reaper: first the expired records, then the least recently used     *)
(* ones as long as there are too many.  A record it could not take down is *)
(* kept, and ends the second part.                                         *)
Gc ==
  /\ LockFree /\ Listable
  /\ job' = [NoJob EXCEPT !.verb = "gc", !.pc = "reap", !.left = Due]
  /\ UNCHANGED <<stores, effects, knob, looked, served, stale, trouble>>

Reap ==
  /\ job.pc = "reap"
  /\ IF job.left # {}
       THEN \E p \in job.left :
              /\ \A q \in job.left \ {p} : UsedBefore(p, q)
              /\ job' = [job EXCEPT !.pc = "stop", !.old = records[p], !.left = @ \ {p}]
              /\ served' = served \ {p}
     ELSE IF Cardinality(RecordedPreviews) > knob.max
       THEN /\ job' = [job EXCEPT !.verb = "trim", !.pc = "stop", !.old = records[Head(byUse)]]
            /\ served' = served \ {Head(byUse)}
     ELSE /\ job' = [job EXCEPT !.pc = "idle database"]
          /\ UNCHANGED served
  /\ UNCHANGED <<stores, effects, knob, looked, stale, trouble>>
------------------------------------------------------------------------------
(* Time passes: the previews used least recently outlive the TTL. *)
Expire ==
  /\ LockFree
  /\ \E n \in DOMAIN byUse : expired' = {byUse[i] : i \in 1..n}
  /\ expired \subseteq expired'
  /\ UNCHANGED <<records, byUse, composed, effects, knob, looked, job, served, stale, trouble>>

(* The operator edits the knob between two jobs. *)
EditKnob ==
  /\ LockFree /\ trouble < MaxTrouble
  /\ knob' \in [target : Targets, max : {MaxPreviews, MaxPreviews - 1}]
  /\ trouble' = trouble + 1
  /\ UNCHANGED <<stores, effects, looked, job, served, stale>>

(* The process that holds the lock dies.  Half way through removing a      *)
(* directory, any of its files may be gone.                                *)
PreviewCrash ==
  /\ ~LockFree /\ trouble < MaxTrouble
  /\ \/ UNCHANGED stores
     \/ /\ job.pc = "remove"
        /\ \/ ForgetPreview(job.old.preview) /\ UNCHANGED composed
           \/ composed' = composed \ {job.old.preview} /\ UNCHANGED <<records, byUse, expired>>
  /\ job' = NoJob
  /\ trouble' = trouble + 1
  /\ UNCHANGED <<effects, knob, looked, served, stale>>

JobStep == \/ WriteRecord \/ PrepareDatabase \/ EnsureIngress \/ ComposeUp \/ WriteRoute
           \/ LoadRoute \/ CleanUp
           \/ StopContainers \/ DropDatabase \/ RemoveRoute \/ UnloadRoute
           \/ RemoveNetworks \/ RemoveDirectory \/ StopIdleServer \/ Reap

PreviewNext == \/ JobStep \/ RouteFails \/ UpFails \/ DownFails \/ PreviewCrash
               \/ \E p \in Previews : \E kind \in Asked(p) : Up(p, kind)
               \/ \E p \in Previews : LookUp(p) \/ Down(p)
               \/ WaitedDown \/ Gc \/ Expire \/ EditKnob

PreviewSpec == PreviewInit /\ [][PreviewNext]_previewVars

(* Every Docker command of a job has a deadline, and the reaper comes back *)
(* every hour and polls for the lock for a minute: it does not lose it to  *)
(* others for ever.                                                        *)
PreviewFairSpec == PreviewSpec /\ WF_previewVars(JobStep) /\ SF_previewVars(Gc)
------------------------------------------------------------------------------
(* However previews are made, replaced, evicted and reaped: their number,  *)
(* their memory reservations and their ports stay within what the host     *)
(* gives them, and no two share a port.                                    *)
CapacityRespected ==
  /\ Cardinality(RecordedPreviews) <= MaxPreviews
  /\ Reserved(records) <= MemoryBudget
  /\ \A p, q \in RecordedPreviews : p # q => records[p].port # records[q].port

(* Whatever runs, is attached or has a route file of a preview is found by *)
(* the record that the next cleanup starts from, wherever a job failed or  *)
(* died.  The one exception: a `preview down` that waited with a record of *)
(* the other routing removes the record that is there now, and leaves its  *)
(* route file (runtime.rs, down_inner).                                    *)
EffectsRecorded == \A p \in Previews :
  /\ running[p] # "none" \/ "ingress" \in networks[p] => p \in RecordedPreviews
  /\ route[p] # {} => p \in RecordedPreviews \cup stale

(* A preview that came up stays up until it is asked for again, taken      *)
(* down, evicted or reaped: no job of another preview, failed or dead,     *)
(* takes its containers, its database or its host name from it.            *)
ServedStaysServed == \A p \in served :
  /\ p \in RecordedPreviews /\ running[p] = records[p].kind
  /\ records[p].target \in loaded[p]
  /\ ByPath(records[p].target) => site = records[p].target
  /\ HasDatabase(records[p]) => p \in databases /\ server

(* A preview that nobody uses is taken away in the end, whatever failed or *)
(* died on the way, unless a torn directory stops all previews.            *)
Reclaimed == \A p \in Previews : p \in expired ~> (p \notin expired \/ ~Listable)
==============================================================================
