------------------------------ MODULE Profiles ------------------------------
(***************************************************************************)
(* Machine profiles, the cards they are made of, their startup disks and   *)
(* what refers to them (src/services/profile-service.ts, preset-seed.ts,   *)
(* profile-disk-service.ts, eprom-service.ts, bundle-service.ts,           *)
(* card-authoring.ts and the tables of src/database.ts).                   *)
(*                                                                         *)
(* A profile is a lineage of versions that share a name.  A version is     *)
(* known by "name@version", and the newest of a lineage by its bare name.  *)
(* Startup disks belong to a name; rows of instances and of snapshots keep *)
(* the "name@version" they were made from.  A request runs to its end      *)
(* before the next one begins: the database is synchronous.                *)
(***************************************************************************)
EXTENDS Naturals, FiniteSets

CONSTANTS
    Name,         \* names of profiles
    Preset,       \* the names of the built-in presets
    Content,      \* what a profile describes: cards with their settings, memory, ROMs
    Uses,         \* the cards of a content
    Shipped,      \* the content that a preset is shipped with
    ShippedDisk,  \* and its startup disk
    Card, Seed, Kernel,  \* cards: those of the engine, those built at boot on its kernels
    Image,        \* disk images
    Instance, Snapshot,
    MaxInserts    \* bound: versions ever stored

NoDisk == "none"
NoRef == [name |-> "none", version |-> 0]

ASSUME ConstantsAssumption ==
    /\ Preset \subseteq Name /\ IsFiniteSet(Preset)
    /\ Seed \subseteq Card /\ Kernel \subseteq Card \ Seed
    /\ Uses \in [Content -> SUBSET Card]
    /\ Shipped \in [Preset -> Content]
    /\ ShippedDisk \in [Preset -> Image \cup {NoDisk}]
    /\ MaxInserts \in Nat /\ Cardinality(Preset) <= MaxInserts
    /\ NoDisk \notin Image /\ "none" \notin Name

VARIABLES
    profiles,     \* the table machine_profiles
    stamp,        \* what orders its rows: the time and the number of their insertion
    disks,        \* the table profile_disks, for one drive
    catalog,      \* the table card_definitions: where a card's definition is from
    instances,    \* the references in the table machine_instances
    snapshots,    \* and in instance_snapshots
    loaded,       \* the references that the instance manager holds in memory
    booting       \* the presets that the boot in progress has not looked at

tables == <<profiles, stamp, disks>>
references == <<instances, snapshots, loaded>>
vars == <<tables, catalog, references, booting>>

Version == [name : Name, version : Nat, content : Content,
            source : {"user", "preset"}, made : Nat]
Reference == [name : Name, version : Nat] \cup {NoRef}

Versions(n) == {r \in profiles : r.name = n}
Free(n) == Versions(n) = {}
Newest(r) == \A q \in Versions(r.name) : q.made <= r.made
Highest(r) == \A q \in Versions(r.name) : q.version <= r.version

Ref(r) == [name |-> r.name, version |-> r.version]

\* resolveProfileCards: every card has to be in the catalog.
Resolves(c) == \A k \in Uses[c] : catalog[k] # "none"

-----------------------------------------------------------------------------
(* Mutations of the definitions below. *)

\* The lowest number that is free.
MutFollows(r, v) ==
    /\ \A q \in Versions(r.name) : q.version # v
    /\ \A u \in 1 .. v - 1 : \E q \in Versions(r.name) : q.version = u

MutMoved(ref, old, new) == ref              \* a rename leaves the references

MutSeeds(p) == TRUE                         \* a boot restores every preset

-----------------------------------------------------------------------------
(* Writing a version *)

\* The primary key is (name, version): an insertion that collides fails.
Insert(n, v, c, s) ==
    /\ stamp < MaxInserts
    /\ \A r \in Versions(n) : r.version # v
    /\ stamp' = stamp + 1
    /\ profiles' = profiles \cup
           {[name |-> n, version |-> v, content |-> c, source |-> s, made |-> stamp + 1]}

Overwrite(r, c) ==
    /\ profiles' = (profiles \ {r}) \cup {[r EXCEPT !.content = c]}
    /\ UNCHANGED stamp

\* nextVersion
Follows(r, v) == \E h \in Versions(r.name) : Highest(h) /\ v = h.version + 1

\* updateProfile: a preset is edited in place, even one that a user made from a
\* preset; an edit of any version of another profile makes its next version.
Save(r, c) ==
    /\ c # r.content
    /\ \/ r.source = "preset" /\ Overwrite(r, c)
       \/ /\ r.source = "user"
          /\ \E v \in 1 .. MaxInserts : Follows(r, v) /\ Insert(r.name, v, c, "user")
    /\ UNCHANGED disks

\* upsertPresetProfile and seedPresetDisks.  What has the name of the preset is
\* overwritten, whoever made it.
Upsert(p) ==
    /\ Resolves(Shipped[p])
    /\ IF Free(p)
       THEN Insert(p, 1, Shipped[p], "preset")
       ELSE \E r \in Versions(p) : Newest(r) /\ Overwrite(r, Shipped[p])
    /\ disks' = IF ShippedDisk[p] = NoDisk THEN disks
                ELSE [disks EXCEPT ![p] = ShippedDisk[p]]

-----------------------------------------------------------------------------
(* Boot *)

\* Both replace what has the name of a built-in card.
SeedCatalog(cat) == [k \in Card |-> IF k \in Seed THEN "seed" ELSE cat[k]]
SeedKernelCards(cat) == [k \in Card |-> IF k \in Kernel THEN "kernel" ELSE cat[k]]
Seeded(cat) == SeedKernelCards(SeedCatalog(cat))

Init ==
    /\ profiles = {}
    /\ stamp = 0
    /\ disks = [n \in Name |-> NoDisk]
    /\ catalog = Seeded([k \in Card |-> "none"])
    /\ instances = [i \in Instance |-> NoRef]
    /\ snapshots = [s \in Snapshot |-> NoRef]
    /\ loaded = [i \in Instance |-> NoRef]
    /\ booting = Preset

\* At any moment, of a boot too.  Rows of instances are not read again.
Restart ==
    /\ stamp + Cardinality(Preset) <= MaxInserts
    /\ loaded' = [i \in Instance |-> NoRef]
    /\ catalog' = Seeded(catalog)
    /\ booting' = Preset
    /\ UNCHANGED <<tables, instances, snapshots>>

\* loadSeedPresets: not a preset whose name is there.
Seeds(p) == Free(p)

SeedPreset(p) ==
    /\ p \in booting
    /\ booting' = booting \ {p}
    /\ IF Seeds(p) /\ Resolves(Shipped[p]) THEN Upsert(p) ELSE UNCHANGED tables
    /\ UNCHANGED <<catalog, references>>

-----------------------------------------------------------------------------
(* Requests about profiles *)

Serving == booting = {}

Profiles == Serving /\ UNCHANGED <<catalog, references, booting>>

CreateProfile(n, c) ==
    /\ Profiles
    /\ Free(n)
    /\ Resolves(c)
    /\ Insert(n, 1, c, "user")
    /\ UNCHANGED disks

CreateProfileFromPreset(p, n) ==
    /\ Profiles
    /\ Free(n)
    /\ Resolves(Shipped[p])
    /\ Insert(n, 1, Shipped[p], "preset")
    /\ UNCHANGED disks

\* A machine that is the newest version of some profile is not imported again.
ImportBundle(n, c) ==
    /\ \A r \in profiles : Newest(r) => r.content # c
    /\ CreateProfile(n, c)

\* The cards are looked up only when they are part of the change.
UpdateProfile(r, c) ==
    /\ Profiles
    /\ Uses[c] # Uses[r.content] => Resolves(c)
    /\ Save(r, c)

\* burnEprom, eraseEprom: the region of one card, which has to be there.
WriteRom(r, c) ==
    /\ Profiles
    /\ Uses[c] = Uses[r.content]
    /\ \E k \in Uses[c] : k \in Seed \/ catalog[k] # "none"
    /\ Save(r, c)

ResetPreset(r) ==
    /\ Profiles
    /\ r.name \in Preset
    /\ Upsert(r.name)

\* Startup disks are not cloned.
CloneProfile(r, n) ==
    /\ Profiles
    /\ Free(n)
    /\ Insert(n, 1, r.content, "user")
    /\ UNCHANGED disks

DeleteVersion(r) ==
    /\ Profiles
    /\ profiles' = profiles \ {r}
    /\ UNCHANGED <<stamp, disks>>

DeleteProfile(r) ==
    /\ Profiles
    /\ profiles' = profiles \ Versions(r.name)
    /\ disks' = [disks EXCEPT ![r.name] = NoDisk]
    /\ UNCHANGED stamp

Moved(ref, old, new) == IF ref.name = old THEN [ref EXCEPT !.name = new] ELSE ref

\* One transaction.  Disks that an earlier profile of the new name has left behind
\* collide with those that move, and then nothing is renamed.
RenameProfile(r, n) ==
    /\ Serving
    /\ Free(n)
    /\ disks[n] = NoDisk \/ disks[r.name] = NoDisk
    /\ profiles' = {IF q.name = r.name THEN [q EXCEPT !.name = n] ELSE q : q \in profiles}
    /\ disks' = IF disks[r.name] = NoDisk THEN disks
                ELSE [disks EXCEPT ![n] = disks[r.name], ![r.name] = NoDisk]
    /\ instances' = [i \in Instance |-> Moved(instances[i], r.name, n)]
    /\ snapshots' = [s \in Snapshot |-> Moved(snapshots[s], r.name, n)]
    /\ UNCHANGED <<stamp, catalog, loaded, booting>>

\* Nothing asks whether there is a profile of that name.
SetProfileDisk(n, f) ==
    /\ Profiles
    /\ disks' = [disks EXCEPT ![n] = f]
    /\ UNCHANGED <<profiles, stamp>>

ClearProfileDisk(n) == SetProfileDisk(n, NoDisk)

\* An image is deleted from the library.
ForgetImage(f) ==
    /\ Profiles
    /\ disks' = [n \in Name |-> IF disks[n] = f THEN NoDisk ELSE disks[n]]
    /\ UNCHANGED <<profiles, stamp>>

-----------------------------------------------------------------------------
(* Requests about cards *)

AuthorCard(k) ==
    /\ Serving
    /\ k \notin Seed
    /\ catalog' = [catalog EXCEPT ![k] = "own"]
    /\ UNCHANGED <<tables, references, booting>>

\* Whether a profile uses it is not asked.
DeleteAuthoredCard(k) ==
    /\ Serving
    /\ catalog[k] \in {"kernel", "own"}
    /\ catalog' = [catalog EXCEPT ![k] = "none"]
    /\ UNCHANGED <<tables, references, booting>>

-----------------------------------------------------------------------------
(* What refers to profiles *)

References == Serving /\ UNCHANGED <<tables, catalog, booting>>

DefineInstance(i, r) ==
    /\ References
    /\ instances[i] = NoRef /\ loaded[i] = NoRef
    /\ instances' = [instances EXCEPT ![i] = Ref(r)]
    /\ loaded' = [loaded EXCEPT ![i] = Ref(r)]
    /\ UNCHANGED snapshots

DestroyInstance(i) ==
    /\ References
    /\ loaded[i] # NoRef
    /\ instances' = [instances EXCEPT ![i] = NoRef]
    /\ loaded' = [loaded EXCEPT ![i] = NoRef]
    /\ UNCHANGED snapshots

\* With the reference of the instance in memory, which a rename does not change.
TakeSnapshot(s, i) ==
    /\ References
    /\ snapshots[s] = NoRef /\ loaded[i] # NoRef
    /\ snapshots' = [snapshots EXCEPT ![s] = loaded[i]]
    /\ UNCHANGED <<instances, loaded>>

DeleteSnapshot(s) ==
    /\ References
    /\ snapshots[s] # NoRef
    /\ snapshots' = [snapshots EXCEPT ![s] = NoRef]
    /\ UNCHANGED <<instances, loaded>>

-----------------------------------------------------------------------------
Next ==
    \/ Restart
    \/ \E p \in Preset : SeedPreset(p)
    \/ \E n \in Name, c \in Content : CreateProfile(n, c)
    \/ \E n \in Name, c \in Content : ImportBundle(n, c)
    \/ \E p \in Preset, n \in Name : CreateProfileFromPreset(p, n)
    \/ \E r \in profiles, c \in Content : UpdateProfile(r, c)
    \/ \E r \in profiles, c \in Content : WriteRom(r, c)
    \/ \E r \in profiles : ResetPreset(r)
    \/ \E r \in profiles, n \in Name : CloneProfile(r, n)
    \/ \E r \in profiles, n \in Name : RenameProfile(r, n)
    \/ \E r \in profiles : DeleteVersion(r)
    \/ \E r \in profiles : DeleteProfile(r)
    \/ \E n \in Name, f \in Image : SetProfileDisk(n, f)
    \/ \E n \in Name : ClearProfileDisk(n)
    \/ \E f \in Image : ForgetImage(f)
    \/ \E k \in Card : AuthorCard(k)
    \/ \E k \in Card : DeleteAuthoredCard(k)
    \/ \E i \in Instance, r \in profiles : DefineInstance(i, r)
    \/ \E i \in Instance : DestroyInstance(i)
    \/ \E s \in Snapshot, i \in Instance : TakeSnapshot(s, i)
    \/ \E s \in Snapshot : DeleteSnapshot(s)

Spec == Init /\ [][Next]_vars

-----------------------------------------------------------------------------
(* The order in which the versions of a profile were made is that of their numbers:
   the version that a bare name stands for is the highest, whatever was edited and
   deleted (nextVersion, resolveProfileRef). *)
NewestIsHighest ==
    \A r, q \in profiles :
        r.name = q.name => (r.made < q.made <=> r.version < q.version)

\* A version is itself after a step: renamed or overwritten perhaps.
Same(r, q) == r.made = q.made
Refers(ref, r) == ref = Ref(r)

(* No step on a profile separates a version from what refers to it: rows of instances
   and of snapshots follow a rename, and its startup disks stay with the profile when
   versions come and go (renameMachineProfile, deleteProfile).  Only a reset brings the
   disks of a preset back, and only requests about disks change the others. *)
LineageStaysTogether ==
    [][\A r \in profiles, q \in profiles' : Same(r, q) =>
          /\ \A i \in Instance : Refers(instances[i], r) =>
                 instances'[i] = NoRef \/ Refers(instances'[i], q)
          /\ \A s \in Snapshot : Refers(snapshots[s], r) =>
                 snapshots'[s] = NoRef \/ Refers(snapshots'[s], q)
          /\ disks[r.name] # NoDisk /\ profiles' # profiles =>
                 \/ disks'[q.name] = disks[r.name]
                 \/ q.name = r.name /\ r.name \in Preset]_vars

(* What a version describes changes only while requests are served, and only by an
   edit of a preset or a reset of what has a preset's name: a boot does not undo the
   user's work, and the versions of a user's own profile never change
   (preset-seed.ts, updateProfile).  A card of the engine stays what it is
   (authorCard). *)
DefinitionsStand ==
    [][/\ \A r \in profiles, q \in profiles' : Same(r, q) /\ r.content # q.content =>
            /\ Serving
            /\ \/ r.source = "preset"
               \/ r.name \in Preset /\ Newest(r) /\ q.content = Shipped[r.name]
       /\ \A k \in Seed : catalog'[k] = catalog[k]]_vars
=============================================================================
