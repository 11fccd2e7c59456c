--------------------------- MODULE ProfilesProofs ---------------------------
(***************************************************************************)
(* What holds of profiles for any number of names, contents, cards,        *)
(* instances and versions.                                                 *)
(***************************************************************************)
EXTENDS Profiles, TLAPS

\* Stamps tell versions apart, and are given in order.
Stamped ==
    /\ \A r \in profiles : r.made <= stamp
    /\ \A r, q \in profiles : Same(r, q) => r = q

TableInv ==
    /\ profiles \subseteq Version
    /\ stamp \in Nat
    /\ Stamped
    /\ NewestIsHighest

ReferencesOK ==
    /\ instances \in [Instance -> Reference]
    /\ snapshots \in [Snapshot -> Reference]
    /\ loaded \in [Instance -> Reference]

IndInv ==
    /\ TableInv
    /\ disks \in [Name -> Image \cup {NoDisk}]
    /\ catalog \in [Card -> {"none", "seed", "kernel", "own"}]
    /\ \A k \in Seed : catalog[k] = "seed"
    /\ ReferencesOK
    /\ booting \subseteq Preset

\* The table stands but for the content of versions.
Keeps(r, q) == q.name = r.name /\ q.version = r.version /\ q.source = r.source

Steady == \A r \in profiles, q \in profiles' : Same(r, q) => q = r

-----------------------------------------------------------------------------
LEMMA ShippedTypes == \A p \in Preset : p \in Name /\ Shipped[p] \in Content
BY ConstantsAssumption

\* A new version with the highest number of its lineage keeps the table in order,
\* and leaves the other versions alone.
LEMMA InsertKeeps ==
    ASSUME TableInv,
           NEW n \in Name, NEW v \in Nat, NEW c \in Content, NEW s \in {"user", "preset"},
           \A r \in Versions(n) : r.version < v,
           Insert(n, v, c, s)
    PROVE  TableInv' /\ Steady
<1> DEFINE new == [name |-> n, version |-> v, content |-> c, source |-> s, made |-> stamp + 1]
<1>1. /\ new \in Version
      /\ new.name = n /\ new.version = v /\ new.made = stamp + 1
      /\ profiles' = profiles \cup {new} /\ stamp' = stamp + 1
  BY DEF Insert, TableInv, Version
<1> HIDE DEF new
<1>2. /\ profiles \subseteq Version /\ stamp \in Nat
      /\ \A r \in profiles : r.made <= stamp /\ r.made \in Nat /\ r.version \in Nat
      /\ \A r, q \in profiles : r.made = q.made => r = q
  BY DEF TableInv, Stamped, Same, Version
<1>3. \A r \in profiles : r.name = n => r.version < v
  BY DEF Versions
<1>4. profiles' \subseteq Version /\ stamp' \in Nat
  BY <1>1, <1>2
<1>5. Stamped'
  BY <1>1, <1>2 DEF Stamped, Same
<1>6. NewestIsHighest'
  <2> SUFFICES ASSUME NEW r \in profiles', NEW q \in profiles', r.name = q.name
               PROVE  r.made < q.made <=> r.version < q.version
    BY DEF NewestIsHighest
  <2>1. CASE r \in profiles /\ q \in profiles
    BY <2>1 DEF TableInv, NewestIsHighest
  <2>2. CASE r = new /\ q \in profiles
    BY <2>2, <1>1, <1>2, <1>3
  <2>3. CASE r \in profiles /\ q = new
    BY <2>3, <1>1, <1>2, <1>3
  <2>4. CASE r = new /\ q = new
    BY <2>4, <1>1, <1>2
  <2> QED BY <2>1, <2>2, <2>3, <2>4, <1>1
<1>7. Steady
  BY <1>1, <1>2 DEF Steady, Same
<1> QED BY <1>4, <1>5, <1>6, <1>7 DEF TableInv

LEMMA OverwriteKeeps ==
    ASSUME TableInv, NEW x \in profiles, NEW c \in Content, Overwrite(x, c)
    PROVE  /\ TableInv'
           /\ \A r \in profiles, q \in profiles' : Same(r, q) =>
                  Keeps(r, q) /\ (q = r \/ (r = x /\ q.content = c))
<1> DEFINE y == [x EXCEPT !.content = c]
<1>1. x \in Version /\ profiles \subseteq Version /\ stamp \in Nat
  BY DEF TableInv
<1>2. /\ y \in Version
      /\ y.name = x.name /\ y.version = x.version /\ y.made = x.made
      /\ y.source = x.source /\ y.content = c
  BY <1>1 DEF Version
<1>3. profiles' = (profiles \ {x}) \cup {y} /\ stamp' = stamp
  BY DEF Overwrite
<1> HIDE DEF y
<1>4. \A r, q \in profiles : r.made = q.made => r = q
  BY DEF TableInv, Stamped, Same
<1>5. profiles' \subseteq Version /\ stamp' \in Nat
  BY <1>1, <1>2, <1>3
<1>6. Stamped'
  BY <1>2, <1>3, <1>4 DEF Stamped, Same, TableInv
<1>7. NewestIsHighest'
  BY <1>2, <1>3 DEF NewestIsHighest, TableInv
<1>8. \A r \in profiles, q \in profiles' : Same(r, q) =>
          Keeps(r, q) /\ (q = r \/ (r = x /\ q.content = c))
  BY <1>2, <1>3, <1>4 DEF Same, Keeps
<1> QED BY <1>5, <1>6, <1>7, <1>8 DEF TableInv

LEMMA DeleteKeeps ==
    ASSUME TableInv, profiles' \subseteq profiles, UNCHANGED stamp
    PROVE  TableInv' /\ Steady
BY DEF TableInv, Stamped, NewestIsHighest, Same, Steady

\* An edit takes the highest number or changes one version of a preset.
LEMMA SaveKeeps ==
    ASSUME TableInv, NEW x \in profiles, NEW c \in Content, Save(x, c)
    PROVE  /\ TableInv'
           /\ \A r \in profiles, q \in profiles' : Same(r, q) =>
                  Keeps(r, q) /\ (q = r \/ r.source = "preset")
<1>1. CASE x.source = "preset" /\ Overwrite(x, c)
  BY <1>1, OverwriteKeeps
<1>2. CASE \E v \in 1 .. MaxInserts : Follows(x, v) /\ Insert(x.name, v, c, "user")
  <2>1. PICK v \in 1 .. MaxInserts : Follows(x, v) /\ Insert(x.name, v, c, "user")
    BY <1>2
  <2>2. x \in Version /\ x.name \in Name /\ v \in Nat
    BY ConstantsAssumption DEF TableInv, Version
  <2>3. \A r \in Versions(x.name) : r.version < v
    <3>1. PICK h \in Versions(x.name) : Highest(h) /\ v = h.version + 1
      BY <2>1 DEF Follows
    <3>2. h.name = x.name /\ h \in Version
      BY DEF Versions, TableInv
    <3>3. \A r \in Versions(x.name) : r.version <= h.version /\ r.version \in Nat
      BY <3>1, <3>2 DEF Highest, Versions, TableInv, Version
    <3> QED BY <3>1, <3>2, <3>3 DEF Version
  <2>4. TableInv' /\ Steady
    BY <2>1, <2>2, <2>3, InsertKeeps
  <2> QED BY <2>4 DEF Steady, Keeps
<1> QED BY <1>1, <1>2 DEF Save

\* A first version.
LEMMA CreateKeeps ==
    ASSUME TableInv, NEW n \in Name, NEW c \in Content, NEW s \in {"user", "preset"},
           Free(n), Insert(n, 1, c, s)
    PROVE  TableInv' /\ Steady
<1>1. \A r \in Versions(n) : r.version < 1
  BY DEF Free
<1> QED BY <1>1, InsertKeeps

LEMMA UpsertKeeps ==
    ASSUME TableInv, NEW p \in Preset, Upsert(p)
    PROVE  /\ TableInv'
           /\ \A r \in profiles, q \in profiles' : Same(r, q) =>
                  /\ Keeps(r, q)
                  /\ q = r \/ (r.name = p /\ ~Free(p) /\ Newest(r) /\ q.content = Shipped[p])
<1>1. CASE Free(p)
  <2>1. TableInv' /\ Steady
    BY <1>1, ShippedTypes, CreateKeeps DEF Upsert
  <2> QED BY <2>1 DEF Steady, Keeps
<1>2. CASE ~Free(p)
  <2>1. PICK x \in Versions(p) : Newest(x) /\ Overwrite(x, Shipped[p])
    BY <1>2 DEF Upsert
  <2>2. x \in profiles /\ x.name = p
    BY DEF Versions
  <2> QED BY <1>2, <2>1, <2>2, ShippedTypes, OverwriteKeeps
<1> QED BY <1>1, <1>2

\* A rename gives the whole lineage another name, which nobody has.
LEMMA RenameKeeps ==
    ASSUME TableInv, NEW x \in profiles, NEW n \in Name, RenameProfile(x, n)
    PROVE  /\ TableInv'
           /\ n # x.name
           /\ \A r \in profiles, q \in profiles' : Same(r, q) =>
                  /\ q.version = r.version /\ q.content = r.content
                  /\ q.name = IF r.name = x.name THEN n ELSE r.name
<1> DEFINE mv(q) == IF q.name = x.name THEN [q EXCEPT !.name = n] ELSE q
<1>1. profiles \subseteq Version /\ stamp \in Nat /\ stamp' = stamp
  BY DEF TableInv, RenameProfile
<1>2. profiles' = {mv(q) : q \in profiles}
  BY DEF RenameProfile
<1>3. \A q \in profiles :
          /\ mv(q) \in Version
          /\ mv(q).name = IF q.name = x.name THEN n ELSE q.name
          /\ mv(q).version = q.version /\ mv(q).made = q.made /\ mv(q).content = q.content
  BY <1>1 DEF Version
<1> HIDE DEF mv
<1>4. \A r, q \in profiles : r.made = q.made => r = q
  BY DEF TableInv, Stamped, Same
<1>5. \A r \in profiles : r.name # n
  BY DEF RenameProfile, Free, Versions
<1>6. \A r, q \in profiles : mv(r).name = mv(q).name => r.name = q.name
  BY <1>3, <1>5
<1>7. profiles' \subseteq Version /\ stamp' \in Nat
  BY <1>1, <1>2, <1>3
<1>8. Stamped'
  BY <1>1, <1>2, <1>3, <1>4 DEF Stamped, Same, TableInv
<1>9. NewestIsHighest'
  BY <1>2, <1>3, <1>6 DEF NewestIsHighest, TableInv
<1>10. \A r \in profiles, q \in profiles' : Same(r, q) =>
          /\ q.version = r.version /\ q.content = r.content
          /\ q.name = IF r.name = x.name THEN n ELSE r.name
  BY <1>2, <1>3, <1>4 DEF Same
<1> QED BY <1>5, <1>7, <1>8, <1>9, <1>10 DEF TableInv

-----------------------------------------------------------------------------
\* Requests about profiles other than a rename do not change references.
ProfileStep ==
    \/ \E p \in Preset : SeedPreset(p)
    \/ \E n \in Name, c \in Content : CreateProfile(n, c) \/ ImportBundle(n, c)
    \/ \E p \in Preset, n \in Name : CreateProfileFromPreset(p, n)
    \/ \E r \in profiles, c \in Content : UpdateProfile(r, c) \/ WriteRom(r, c)
    \/ \E r \in profiles : ResetPreset(r) \/ DeleteVersion(r) \/ DeleteProfile(r)
    \/ \E r \in profiles, n \in Name : CloneProfile(r, n)

\* Those that do not touch profiles at all.
OtherStep ==
    /\ UNCHANGED <<profiles, stamp>>
    /\ \/ Restart
       \/ \E n \in Name, f \in Image \cup {NoDisk} : SetProfileDisk(n, f)
       \/ \E f \in Image : ForgetImage(f)
       \/ \E k \in Card : AuthorCard(k) \/ DeleteAuthoredCard(k)
       \/ \E i \in Instance, r \in profiles : DefineInstance(i, r)
       \/ \E i \in Instance : DestroyInstance(i)
       \/ \E s \in Snapshot, i \in Instance : TakeSnapshot(s, i)
       \/ \E s \in Snapshot : DeleteSnapshot(s)

Renaming == \E r \in profiles, n \in Name : RenameProfile(r, n)

LEMMA Steps == Next => ProfileStep \/ OtherStep \/ Renaming
BY DEF Next, ProfileStep, OtherStep, Renaming, Restart, ClearProfileDisk, SetProfileDisk,
       ForgetImage, AuthorCard, DeleteAuthoredCard, DefineInstance, DestroyInstance,
       TakeSnapshot, DeleteSnapshot, References, tables

\* How a step of the first kind changes a version that it leaves in the table.
Changes(r, q) ==
    /\ Keeps(r, q)
    /\ \/ q = r
       \/ Serving /\ r.source = "preset"
       \/ Serving /\ r.name \in Preset /\ Newest(r) /\ q.content = Shipped[r.name]

\* And the startup disks of a profile that is not a preset.
DisksStay ==
    \A r \in profiles, q \in profiles' : Same(r, q) /\ r.name \notin Preset =>
        disks'[r.name] = disks[r.name]

LEMMA ProfileStepKeeps ==
    ASSUME IndInv, ProfileStep
    PROVE  /\ TableInv'
           /\ \A r \in profiles, q \in profiles' : Same(r, q) => Changes(r, q)
           /\ disks' \in [Name -> Image \cup {NoDisk}]
           /\ DisksStay
           /\ UNCHANGED <<catalog, references>>
           /\ booting' \subseteq Preset
<1> USE DEF IndInv
<1>1. TableInv /\ profiles \subseteq Version
  BY DEF TableInv
<1>2. ASSUME Steady PROVE \A r \in profiles, q \in profiles' : Same(r, q) => Changes(r, q)
  BY <1>2 DEF Steady, Changes, Keeps
<1>3. ASSUME NEW p \in Preset, Upsert(p)
      PROVE  disks' \in [Name -> Image \cup {NoDisk}] /\ DisksStay
  BY <1>3, ConstantsAssumption, ShippedTypes DEF Upsert, DisksStay
<1>4. ASSUME NEW p \in Preset, Serving \/ Free(p), Upsert(p)
      PROVE  TableInv' /\ \A r \in profiles, q \in profiles' : Same(r, q) => Changes(r, q)
  BY <1>1, <1>4, UpsertKeeps DEF Changes
<1>5. ASSUME NEW n \in Name, NEW c \in Content, NEW s \in {"user", "preset"},
             Free(n), Insert(n, 1, c, s), UNCHANGED disks
      PROVE  /\ TableInv'
             /\ \A r \in profiles, q \in profiles' : Same(r, q) => Changes(r, q)
             /\ DisksStay
  BY <1>1, <1>2, <1>5, CreateKeeps DEF DisksStay
<1>6. ASSUME NEW x \in profiles, NEW c \in Content, Serving, Save(x, c)
      PROVE  /\ TableInv'
             /\ \A r \in profiles, q \in profiles' : Same(r, q) => Changes(r, q)
             /\ UNCHANGED disks /\ DisksStay
  <2>1. UNCHANGED disks /\ DisksStay
    BY <1>6 DEF Save, DisksStay
  <2> QED BY <1>1, <1>6, <2>1, SaveKeeps DEF Changes
<1>7. ASSUME NEW x \in profiles, DeleteVersion(x) \/ DeleteProfile(x)
      PROVE  /\ TableInv'
             /\ \A r \in profiles, q \in profiles' : Same(r, q) => Changes(r, q)
             /\ disks' \in [Name -> Image \cup {NoDisk}] /\ DisksStay
  <2>1. profiles' \subseteq profiles /\ UNCHANGED stamp
    BY <1>7 DEF DeleteVersion, DeleteProfile
  <2>2. TableInv' /\ Steady
    BY <1>1, <2>1, DeleteKeeps
  <2>3. disks' \in [Name -> Image \cup {NoDisk}]
    BY <1>7 DEF DeleteVersion, DeleteProfile
  <2>4. DisksStay
    <3> SUFFICES ASSUME NEW r \in profiles, NEW q \in profiles', Same(r, q)
                 PROVE  disks'[r.name] = disks[r.name]
      BY DEF DisksStay
    <3>1. r = q /\ r.name \in Name
      BY <1>1, <2>2 DEF Steady, Version
    <3>2. CASE DeleteVersion(x)
      BY <3>2 DEF DeleteVersion
    <3>3. CASE DeleteProfile(x)
      BY <3>1, <3>3 DEF DeleteProfile, Versions
    <3> QED BY <1>7, <3>2, <3>3
  <2> QED BY <1>2, <2>2, <2>3, <2>4
<1>8. CASE \E p \in Preset : SeedPreset(p)
  <2>1. PICK p \in Preset : SeedPreset(p)
    BY <1>8
  <2>2. CASE Seeds(p) /\ Upsert(p)
    BY <1>3, <1>4, <2>1, <2>2 DEF SeedPreset, Seeds
  <2>3. CASE UNCHANGED tables
    <3>1. Steady /\ TableInv' /\ DisksStay
      BY <1>1, <2>3, DeleteKeeps DEF tables, DisksStay
    <3> QED BY <1>2, <2>1, <2>3, <3>1 DEF SeedPreset, tables
  <2> QED BY <2>1, <2>2, <2>3 DEF SeedPreset
<1>9. CASE \E n \in Name, c \in Content : CreateProfile(n, c) \/ ImportBundle(n, c)
  BY <1>5, <1>9 DEF ImportBundle, CreateProfile, Profiles
<1>10. CASE \E p \in Preset, n \in Name : CreateProfileFromPreset(p, n)
  BY <1>5, <1>10, ShippedTypes DEF CreateProfileFromPreset, Profiles
<1>11. CASE \E r \in profiles, c \in Content : UpdateProfile(r, c) \/ WriteRom(r, c)
  BY <1>6, <1>11 DEF UpdateProfile, WriteRom, Profiles
<1>12. CASE \E r \in profiles : ResetPreset(r)
  BY <1>3, <1>4, <1>12 DEF ResetPreset, Profiles
<1>13. CASE \E r \in profiles : DeleteVersion(r) \/ DeleteProfile(r)
  BY <1>7, <1>13 DEF DeleteVersion, DeleteProfile, Profiles
<1>14. CASE \E r \in profiles, n \in Name : CloneProfile(r, n)
  <2>1. PICK r \in profiles, n \in Name : CloneProfile(r, n)
    BY <1>14
  <2>2. r.content \in Content
    BY <1>1 DEF Version
  <2> QED BY <1>5, <2>1, <2>2 DEF CloneProfile, Profiles
<1> QED
  BY <1>8, <1>9, <1>10, <1>11, <1>12, <1>13, <1>14 DEF ProfileStep

-----------------------------------------------------------------------------
LEMMA NoRefIsNoVersion == \A n \in Name : n # NoRef.name
BY ConstantsAssumption DEF NoRef

LEMMA RefTypes ==
    ASSUME TableInv, NEW r \in profiles
    PROVE  Ref(r) \in Reference /\ Ref(r) # NoRef
BY NoRefIsNoVersion DEF TableInv, Version, Ref, Reference, NoRef

LEMMA MovedTypes ==
    ASSUME NEW ref \in Reference, NEW old \in Name, NEW n \in Name
    PROVE  Moved(ref, old, n) \in Reference
BY NoRefIsNoVersion DEF Moved, Reference, NoRef

LEMMA RenamingKeeps ==
    ASSUME IndInv, Renaming
    PROVE  IndInv'
<1>1. PICK x \in profiles, n \in Name : RenameProfile(x, n)
  BY DEF Renaming
<1>2. TableInv' /\ x.name \in Name
  BY <1>1, RenameKeeps DEF IndInv, TableInv, Version
<1>3. disks' \in [Name -> Image \cup {NoDisk}]
  BY <1>1, <1>2 DEF RenameProfile, IndInv
<1>4. ReferencesOK'
  BY <1>1, <1>2, MovedTypes DEF RenameProfile, IndInv, ReferencesOK
<1> QED BY <1>1, <1>2, <1>3, <1>4 DEF RenameProfile, IndInv

LEMMA OtherStepKeeps ==
    ASSUME IndInv, OtherStep
    PROVE  IndInv'
<1>1. TableInv'
  BY DEF IndInv, OtherStep, TableInv, Stamped, NewestIsHighest, Same
<1>2. CASE Restart
  BY <1>1, <1>2, ConstantsAssumption DEF Restart, IndInv, ReferencesOK, Reference, Seeded,
                             SeedCatalog, SeedKernelCards, tables
<1>3. CASE \E n \in Name, f \in Image \cup {NoDisk} : SetProfileDisk(n, f)
  BY <1>1, <1>3 DEF SetProfileDisk, Profiles, IndInv, ReferencesOK, references
<1>4. CASE \E f \in Image : ForgetImage(f)
  BY <1>1, <1>4 DEF ForgetImage, Profiles, IndInv, ReferencesOK, references
<1>5. CASE \E k \in Card : AuthorCard(k) \/ DeleteAuthoredCard(k)
  BY <1>1, <1>5, ConstantsAssumption
     DEF AuthorCard, DeleteAuthoredCard, IndInv, ReferencesOK, references, tables
<1>6. CASE \E i \in Instance, r \in profiles : DefineInstance(i, r)
  BY <1>1, <1>6, RefTypes DEF DefineInstance, References, IndInv, ReferencesOK, tables
<1>7. CASE \E i \in Instance : DestroyInstance(i)
  BY <1>1, <1>7 DEF DestroyInstance, References, IndInv, ReferencesOK, Reference, tables
<1>8. CASE \E s \in Snapshot, i \in Instance : TakeSnapshot(s, i)
  BY <1>1, <1>8 DEF TakeSnapshot, References, IndInv, ReferencesOK, tables
<1>9. CASE \E s \in Snapshot : DeleteSnapshot(s)
  BY <1>1, <1>9 DEF DeleteSnapshot, References, IndInv, ReferencesOK, Reference, tables
<1> QED BY <1>2, <1>3, <1>4, <1>5, <1>6, <1>7, <1>8, <1>9 DEF OtherStep

\* The inductive invariant: types, and versions that are told apart by their stamps and
\* whose stamps are in the order of their numbers.
THEOREM ProfilesInvariance == Spec => []IndInv
<1>1. Init => IndInv
  BY ConstantsAssumption
     DEF Init, IndInv, TableInv, Stamped, NewestIsHighest, ReferencesOK, Reference,
         Seeded, SeedCatalog, SeedKernelCards
<1>2. IndInv /\ [Next]_vars => IndInv'
  <2> SUFFICES ASSUME IndInv, [Next]_vars PROVE IndInv'
    OBVIOUS
  <2>1. CASE ProfileStep
    BY <2>1, ProfileStepKeeps DEF IndInv, ReferencesOK, references
  <2>2. CASE OtherStep
    BY <2>2, OtherStepKeeps
  <2>3. CASE Renaming
    BY <2>3, RenamingKeeps
  <2>4. CASE UNCHANGED vars
    BY <2>4 DEF vars, tables, references, IndInv, TableInv, Stamped, NewestIsHighest,
               ReferencesOK, Same
  <2> QED BY <2>1, <2>2, <2>3, <2>4, Steps
<1> QED BY <1>1, <1>2, PTL DEF Spec

\* The version that a bare name stands for is the one with the highest number,
\* whatever was edited, deleted, renamed, reset and seeded before (nextVersion).
THEOREM NewestCorrect == Spec => []NewestIsHighest
<1>1. IndInv => NewestIsHighest
  BY DEF IndInv, TableInv
<1> QED BY <1>1, ProfilesInvariance, PTL

-----------------------------------------------------------------------------
\* A step that is none of the first kind, and no rename, leaves every version alone.
LEMMA OthersStand ==
    ASSUME IndInv, OtherStep \/ UNCHANGED vars
    PROVE  /\ profiles' = profiles
           /\ \A r \in profiles, q \in profiles' : Same(r, q) => q = r
           /\ \A k \in Seed : catalog'[k] = catalog[k]
<1>1. profiles' = profiles
  BY DEF OtherStep, vars, tables
<1>2. CASE OtherStep
  <2>1. IndInv'
    BY <1>2, OtherStepKeeps
  <2> QED BY <1>1, <2>1 DEF IndInv, TableInv, Stamped
<1>3. CASE UNCHANGED vars
  BY <1>1, <1>3 DEF IndInv, TableInv, Stamped, vars
<1> QED BY <1>2, <1>3

DefinitionsAct ==
    /\ \A r \in profiles, q \in profiles' : Same(r, q) /\ r.content # q.content =>
            /\ Serving
            /\ \/ r.source = "preset"
               \/ r.name \in Preset /\ Newest(r) /\ q.content = Shipped[r.name]
    /\ \A k \in Seed : catalog'[k] = catalog[k]

\* A boot does not undo the user's work, the versions of a user's profile never
\* change except by a reset of a preset's name, and no card shadows one of the
\* engine (loadSeedPresets, updateProfile, authorCard).
THEOREM DefinitionsCorrect == Spec => DefinitionsStand
<1>1. IndInv /\ [Next]_vars => [DefinitionsAct]_vars
  <2> SUFFICES ASSUME IndInv, [Next]_vars PROVE DefinitionsAct
    OBVIOUS
  <2>1. CASE ProfileStep
    BY <2>1, ProfileStepKeeps DEF Changes, DefinitionsAct
  <2>2. CASE OtherStep \/ UNCHANGED vars
    BY <2>2, OthersStand DEF DefinitionsAct
  <2>3. CASE Renaming
    <3>1. PICK x \in profiles, n \in Name : RenameProfile(x, n)
      BY <2>3 DEF Renaming
    <3>2. \A r \in profiles, q \in profiles' : Same(r, q) => q.content = r.content
      BY <3>1, RenameKeeps DEF IndInv
    <3>3. catalog' = catalog
      BY <3>1 DEF RenameProfile
    <3> QED BY <3>2, <3>3 DEF DefinitionsAct
  <2> QED BY <2>1, <2>2, <2>3, Steps
<1> QED BY <1>1, ProfilesInvariance, PTL DEF Spec, DefinitionsStand, DefinitionsAct

-----------------------------------------------------------------------------
LineageAct ==
    \A r \in profiles, q \in profiles' : Same(r, q) =>
          /\ \A i \in Instance : Refers(instances[i], r) =>
                 instances'[i] = NoRef \/ Refers(instances'[i], q)
          /\ \A s \in Snapshot : Refers(snapshots[s], r) =>
                 snapshots'[s] = NoRef \/ Refers(snapshots'[s], q)
          /\ disks[r.name] # NoDisk /\ profiles' # profiles =>
                 \/ disks'[q.name] = disks[r.name]
                 \/ q.name = r.name /\ r.name \in Preset

\* A request that is about something else replaces no reference by another.
LEMMA OthersKeepReferences ==
    ASSUME IndInv, OtherStep \/ UNCHANGED vars
    PROVE  /\ \A i \in Instance : instances[i] # NoRef =>
                  instances'[i] \in {instances[i], NoRef}
           /\ \A s \in Snapshot : snapshots[s] # NoRef =>
                  snapshots'[s] \in {snapshots[s], NoRef}
<1> USE DEF IndInv, ReferencesOK
<1>1. CASE Restart \/ UNCHANGED vars
  BY <1>1 DEF Restart, vars, references
<1>2. CASE UNCHANGED references
  BY <1>2 DEF references
<1>3. CASE \E i \in Instance, r \in profiles : DefineInstance(i, r)
  BY <1>3 DEF DefineInstance
<1>4. CASE \E i \in Instance : DestroyInstance(i)
  BY <1>4 DEF DestroyInstance
<1>5. CASE \E s \in Snapshot, i \in Instance : TakeSnapshot(s, i)
  BY <1>5 DEF TakeSnapshot
<1>6. CASE \E s \in Snapshot : DeleteSnapshot(s)
  BY <1>6 DEF DeleteSnapshot
<1>7. OtherStep => \/ Restart \/ UNCHANGED references
                   \/ \E i \in Instance, r \in profiles : DefineInstance(i, r)
                   \/ \E i \in Instance : DestroyInstance(i)
                   \/ \E s \in Snapshot, i \in Instance : TakeSnapshot(s, i)
                   \/ \E s \in Snapshot : DeleteSnapshot(s)
  BY DEF OtherStep, SetProfileDisk, ForgetImage, AuthorCard, DeleteAuthoredCard, Profiles,
         references
<1> QED BY <1>1, <1>2, <1>3, <1>4, <1>5, <1>6, <1>7

\* A rename takes the rows of instances and snapshots, and the startup disks, along.
LEMMA RenamingFollows ==
    ASSUME IndInv, Renaming
    PROVE  LineageAct
<1>1. PICK x \in profiles, n \in Name : RenameProfile(x, n)
  BY DEF Renaming
<1> SUFFICES ASSUME NEW r \in profiles, NEW q \in profiles', Same(r, q)
             PROVE  /\ \A i \in Instance : Refers(instances[i], r) => Refers(instances'[i], q)
                    /\ \A s \in Snapshot : Refers(snapshots[s], r) => Refers(snapshots'[s], q)
                    /\ disks[r.name] # NoDisk => disks'[q.name] = disks[r.name]
  BY DEF LineageAct
<1>2. /\ x.name \in Name /\ r.name \in Name /\ n # x.name
      /\ q.version = r.version
      /\ q.name = IF r.name = x.name THEN n ELSE r.name
  BY <1>1, RenameKeeps DEF IndInv, TableInv, Version
<1>3. r.name # n
  BY <1>1 DEF RenameProfile, Free, Versions
<1>4. Moved(Ref(r), x.name, n) = Ref(q)
  BY <1>2 DEF Moved, Ref
<1>5. \A i \in Instance : Refers(instances[i], r) => Refers(instances'[i], q)
  BY <1>1, <1>4 DEF RenameProfile, Refers
<1>6. \A s \in Snapshot : Refers(snapshots[s], r) => Refers(snapshots'[s], q)
  BY <1>1, <1>4 DEF RenameProfile, Refers
<1>7. disks[r.name] # NoDisk => disks'[q.name] = disks[r.name]
  BY <1>1, <1>2, <1>3 DEF RenameProfile, IndInv
<1> QED BY <1>5, <1>6, <1>7

\* A version, the rows that refer to it and the startup disks of its profile are never
\* separated by a step on a profile (renameMachineProfile, deleteProfile).
THEOREM LineageCorrect == Spec => LineageStaysTogether
<1>1. IndInv /\ [Next]_vars => [LineageAct]_vars
  <2> SUFFICES ASSUME IndInv, [Next]_vars PROVE LineageAct
    OBVIOUS
  <2>1. CASE ProfileStep
    <3> SUFFICES ASSUME NEW r \in profiles, NEW q \in profiles', Same(r, q)
                 PROVE  /\ UNCHANGED <<instances, snapshots>> /\ Ref(q) = Ref(r)
                        /\ q.name = r.name
                        /\ r.name \in Preset \/ disks'[r.name] = disks[r.name]
      BY DEF LineageAct, Refers
    <3> QED BY <2>1, ProfileStepKeeps DEF Changes, Keeps, Ref, references, DisksStay
  <2>2. CASE OtherStep \/ UNCHANGED vars
    <3>1. /\ profiles' = profiles
          /\ \A r \in profiles, q \in profiles' : Same(r, q) => q = r
      BY <2>2, OthersStand
    <3>2. \A r \in profiles : Ref(r) # NoRef
      BY RefTypes DEF IndInv
    <3> QED BY <2>2, <3>1, <3>2, OthersKeepReferences DEF LineageAct, Refers
  <2>3. CASE Renaming
    BY <2>3, RenamingFollows
  <2> QED BY <2>1, <2>2, <2>3, Steps
<1> QED BY <1>1, ProfilesInvariance, PTL DEF Spec, LineageStaysTogether, LineageAct
=============================================================================
