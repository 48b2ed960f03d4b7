----------------------------- MODULE ImageCache -----------------------------
(***************************************************************************)
(* Binding a service to an accepted image, and the memo of configuration   *)
(* digests it uses: workload/release_bind.rs and                           *)
(* host/workload/image_cache.rs.                                           *)
(*                                                                         *)
(* A release names its images by the digest of their configuration.  Local *)
(* images are found by tag; Docker identifies an image by the digest of its *)
(* configuration or by another, and then the host exports it to learn its  *)
(* configuration and remembers the answer in a bounded directory of        *)
(* digests.  A binding that any step fails is refused; that of a local     *)
(* release's configuration image first looks for the accepted              *)
(* configuration among the remembered ones, once.  Tags move while this goes *)
(* on: deployments of all applications pull, and the directory's lock is   *)
(* held only to store a record, never to look one up.                      *)
(***************************************************************************)
EXTENDS Naturals, FiniteSets

CONSTANTS Images, Configs, Binders, NoImage,
          ConfigOf,   \* [Images -> Configs]: images are immutable
          ByConfig,   \* the images whose identity is their configuration's digest
          Expected,   \* the configuration the accepted release names
          Limit,      \* digests the directory may hold
          MaxMoves,   \* bound on the registry's changes of the tag
          MaxDeaths   \* bound on processes that die

ASSUME ImageCacheAssumption ==
    /\ ConfigOf \in [Images -> Configs] /\ Expected \in Configs
    /\ ByConfig \subseteq Images
    /\ NoImage \notin Images \cup Configs \cup Binders
    /\ Limit \in Nat \ {0} /\ MaxMoves \in Nat /\ MaxDeaths \in Nat

VARIABLES registry,  \* the image the registry has under the tag
          tag,       \* the image the local tag points to
          local,     \* the images present locally
          digests,   \* the directory: the recorded configuration of an image
          oldest,    \* the order in which the digests were written
          temporary, \* names that a writer left or is about to rename
          guard,     \* the holder of image-metadata.lock
          moves, deaths,
          binders

cacheVars == <<registry, tag, local, digests, oldest, temporary, guard, moves,
               deaths, binders>>

Idling == [pc |-> "idle", image |-> NoImage, config |-> NoImage, list |-> {},
           search |-> FALSE]
Binding == [pc: {"idle", "pulled", "inspected", "exporting", "storing", "writing",
                 "renaming", "known", "listing", "reading", "bound", "refused"},
            image: Images \cup {NoImage}, config: Configs \cup {NoImage},
            list: SUBSET Images, search: BOOLEAN]

RecordedImages == {i \in Images : digests[i] # NoImage}
Entries == Cardinality(RecordedImages) + temporary
Step(b, pc) == binders' = [binders EXCEPT ![b].pc = pc]
Is(b, pc) == binders[b].pc = pc

(* Where a binding goes that fails: a local release's configuration image is
   looked for among the recorded ones. *)
Refusal(b) == IF binders[b].search THEN "listing" ELSE "refused"

(***************************************************************************)
(* verify_image                                                            *)
(***************************************************************************)
(* `docker pull`, when the release may be pulled: the tag follows the
   registry. *)
Pull(b) ==
    /\ Is(b, "idle")
    /\ tag' = registry /\ local' = local \cup {registry}
    /\ Step(b, "pulled")
    /\ UNCHANGED <<registry, digests, oldest, temporary, guard, moves, deaths>>

(* A local binding, and every configuration image, is the tag as it is. *)
BindLocally(b) ==
    /\ Is(b, "idle")
    /\ \E search \in BOOLEAN :
         binders' = [binders EXCEPT ![b].pc = "pulled", ![b].search = search]
    /\ UNCHANGED <<registry, tag, local, digests, oldest, temporary, guard, moves,
                   deaths>>

(* `docker image inspect`: one image, whatever the tag does later. *)
Inspect(b) ==
    /\ Is(b, "pulled") /\ tag # NoImage
    /\ binders' = [binders EXCEPT ![b].pc = "inspected", ![b].image = tag]
    /\ UNCHANGED <<registry, tag, local, digests, oldest, temporary, guard, moves,
                   deaths>>

(* The identity of the image is its configuration's digest. *)
KnownByName(b) ==
    /\ Is(b, "inspected") /\ binders[b].image \in ByConfig
    /\ binders' = [binders EXCEPT ![b].pc = "known",
                                  ![b].config = ConfigOf[binders[b].image]]
    /\ UNCHANGED <<registry, tag, local, digests, oldest, temporary, guard, moves,
                   deaths>>

(* config_digest: a record answers at once; otherwise the image is exported. *)
LookUpDigest(b) ==
    LET i == binders[b].image IN
    /\ Is(b, "inspected") /\ i \notin ByConfig
    /\ IF i \in RecordedImages
       THEN binders' = [binders EXCEPT ![b].pc = "known", ![b].config = digests[i]]
       ELSE Step(b, "exporting")
    /\ UNCHANGED <<registry, tag, local, digests, oldest, temporary, guard, moves,
                   deaths>>

(* Bug: what is exported is what the tag points to by now. *)
ExportTag(b) ==
    /\ Is(b, "exporting") /\ binders[b].image \in local
    /\ \E pc \in {"storing", "known"} :
         binders' = [binders EXCEPT ![b].pc = pc, ![b].config = ConfigOf[tag]]
    /\ UNCHANGED <<registry, tag, local, digests, oldest, temporary, guard, moves,
                   deaths>>

(* The image is exported by its own digest; without room on the disk the
   answer is not stored. *)
Export(b) ==
    /\ Is(b, "exporting") /\ binders[b].image \in local
    /\ \E pc \in {"storing", "known"} :
         binders' = [binders EXCEPT ![b].pc = pc,
                                    ![b].config = ConfigOf[binders[b].image]]
    /\ UNCHANGED <<registry, tag, local, digests, oldest, temporary, guard, moves,
                   deaths>>

(* Under the lock: a directory over its limit, or a full one with a name that
   is no record, is left alone; a full one loses its oldest record. *)
MakeRoom(b) ==
    LET full == Entries >= Limit
        skip == Entries > Limit \/ (full /\ temporary > 0) IN
    /\ Is(b, "storing") /\ guard = NoImage
    /\ IF skip THEN Step(b, "known") /\ UNCHANGED guard
               ELSE Step(b, "writing") /\ guard' = b
    /\ \E first \in Images :
         IF full /\ ~skip
         THEN /\ first \in RecordedImages /\ oldest[first] = 0
              /\ digests' = [digests EXCEPT ![first] = NoImage]
              /\ oldest' = [i \in Images |-> IF i \in RecordedImages \ {first}
                                             THEN oldest[i] - 1 ELSE 0]
         ELSE UNCHANGED <<digests, oldest>>
    /\ UNCHANGED <<registry, tag, local, temporary, moves, deaths>>

(* write_json: a temporary name in the same directory ... *)
WriteDigest(b) ==
    /\ Is(b, "writing")
    /\ temporary' = temporary + 1
    /\ Step(b, "renaming")
    /\ UNCHANGED <<registry, tag, local, digests, oldest, guard, moves, deaths>>

(* ... that becomes the record, the newest of them; an error after the rename
   refuses the binding. *)
RenameDigest(b) ==
    LET i == binders[b].image IN
    /\ Is(b, "renaming")
    /\ temporary' = temporary - 1
    /\ digests' = [digests EXCEPT ![i] = binders[b].config]
    /\ oldest' = [j \in Images |->
                    IF j = i THEN Cardinality(RecordedImages \ {i})
                    ELSE IF {i, j} \subseteq RecordedImages /\ oldest[j] > oldest[i]
                    THEN oldest[j] - 1 ELSE oldest[j]]
    /\ guard' = NoImage
    /\ \E pc \in {"known", Refusal(b)} : Step(b, pc)
    /\ UNCHANGED <<registry, tag, local, moves, deaths>>

(* The image is bound if its configuration is the accepted one. *)
Decide(b) ==
    /\ Is(b, "known")
    /\ IF binders[b].config = Expected THEN Step(b, "bound")
       ELSE Step(b, Refusal(b))
    /\ UNCHANGED <<registry, tag, local, digests, oldest, temporary, guard, moves,
                   deaths>>

(* Docker, the disk, the time for the lock or a record fails the binding: the
   lock is released and the temporary name removed; what was evicted is gone. *)
BindingFails(b) ==
    /\ binders[b].pc \in {"pulled", "inspected", "exporting", "storing", "writing",
                          "renaming"}
    /\ Step(b, Refusal(b))
    /\ guard' = IF guard = b THEN NoImage ELSE guard
    /\ temporary' = IF Is(b, "renaming") THEN temporary - 1 ELSE temporary
    /\ UNCHANGED <<registry, tag, local, digests, oldest, moves, deaths>>

(***************************************************************************)
(* cached_image: the accepted configuration under any other identity.      *)
(***************************************************************************)
(* The directory is listed without the lock; a name that is no record ends
   the search, and what it finds is not looked for again. *)
ListDigests(b) ==
    /\ Is(b, "listing")
    /\ IF temporary > 0 \/ Entries > Limit THEN Step(b, "refused")
       ELSE binders' = [binders EXCEPT ![b].pc = "reading", ![b].list = RecordedImages,
                                          ![b].search = FALSE]
    /\ UNCHANGED <<registry, tag, local, digests, oldest, temporary, guard, moves,
                   deaths>>

(* A record that was evicted since ends the search too. *)
ReadDigest(b) ==
    /\ Is(b, "reading")
    /\ \/ /\ binders[b].list = {}
          /\ Step(b, "refused")
       \/ \E i \in binders[b].list :
            \/ /\ digests[i] = NoImage
               /\ Step(b, "refused")
            \/ /\ digests[i] = Expected /\ i \in local
               /\ binders' = [binders EXCEPT ![b].pc = "inspected", ![b].image = i,
                                          ![b].list = {}]
            \/ /\ digests[i] # NoImage /\ (digests[i] # Expected \/ i \notin local)
               /\ binders' = [binders EXCEPT ![b].list = @ \ {i}]
    /\ UNCHANGED <<registry, tag, local, digests, oldest, temporary, guard, moves,
                   deaths>>

(***************************************************************************)
(* The rest of the host.                                                   *)
(***************************************************************************)
(* The binding is used, or was refused; the process goes on to the next. *)
EndBinding(b) ==
    /\ binders[b].pc \in {"bound", "refused"}
    /\ binders' = [binders EXCEPT ![b] = Idling]
    /\ UNCHANGED <<registry, tag, local, digests, oldest, temporary, guard, moves,
                   deaths>>

(* The process dies, and its lock goes with it. *)
Die(b) ==
    /\ deaths < MaxDeaths /\ ~Is(b, "idle")
    /\ deaths' = deaths + 1
    /\ guard' = IF guard = b THEN NoImage ELSE guard
    /\ binders' = [binders EXCEPT ![b] = Idling]
    /\ UNCHANGED <<registry, tag, local, digests, oldest, temporary, moves>>

(* Another image is pushed under the tag. *)
Push ==
    /\ moves < MaxMoves
    /\ registry' \in Images \ {registry} /\ moves' = moves + 1
    /\ UNCHANGED <<tag, local, digests, oldest, temporary, guard, deaths, binders>>

(* An image that no tag names is pruned. *)
PruneImage(i) ==
    /\ i \in local /\ i # tag
    /\ local' = local \ {i}
    /\ UNCHANGED <<registry, tag, digests, oldest, temporary, guard, moves, deaths,
                   binders>>

CacheInit ==
    /\ registry \in Images /\ tag = NoImage /\ local = {}
    /\ digests = [i \in Images |-> NoImage] /\ oldest = [i \in Images |-> 0]
    /\ temporary = 0 /\ guard = NoImage /\ moves = 0 /\ deaths = 0
    /\ binders = [b \in Binders |-> Idling]

CacheNext ==
    \/ \E b \in Binders :
         \/ Pull(b) \/ BindLocally(b) \/ Inspect(b) \/ KnownByName(b) \/ LookUpDigest(b)
         \/ Export(b) \/ BindingFails(b) \/ MakeRoom(b) \/ WriteDigest(b)
         \/ RenameDigest(b) \/ Decide(b)
         \/ ListDigests(b) \/ ReadDigest(b) \/ EndBinding(b) \/ Die(b)
    \/ \E i \in Images : PruneImage(i)
    \/ Push

CacheSpec == CacheInit /\ [][CacheNext]_cacheVars

(***************************************************************************)
(* Properties.                                                             *)
(***************************************************************************)
ImageCacheTypeOK ==
    /\ registry \in Images /\ tag \in Images \cup {NoImage} /\ local \subseteq Images
    /\ digests \in [Images -> Configs \cup {NoImage}]
    /\ guard \in Binders \cup {NoImage}
    /\ binders \in [Binders -> Binding]

(* A service is bound to an image whose configuration is the accepted one,
   however the tag moves and whoever else fills the directory meanwhile; a
   record never says anything else of an image, and the directory holds no
   more than its limit (release_bind.rs: verify_image, image_cache.rs). *)
BoundIsAccepted ==
    /\ \A b \in Binders : Is(b, "bound") => ConfigOf[binders[b].image] = Expected
    /\ \A i \in RecordedImages : digests[i] = ConfigOf[i]
    /\ Cardinality(RecordedImages) <= Limit
=============================================================================
