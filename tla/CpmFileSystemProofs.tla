------------------------ MODULE CpmFileSystemProofs -------------------------
(***************************************************************************)
(* What holds of CP/M images of any geometry, with any number of requests  *)
(* on their way and however they end.                                      *)
(***************************************************************************)
EXTENDS CpmFileSystem, FiniteSetTheorems, SequenceTheorems, WellFoundedInduction, TLAPS

-----------------------------------------------------------------------------
(* The k-th of a set of numbers *)

Below(S, x) == {y \in S : y < x}
Rank(S) == [x \in S |-> Cardinality(Below(S, x))]

LEMMA RankGrows ==
    ASSUME NEW S \in SUBSET Nat, IsFiniteSet(S), NEW x \in S, NEW z \in S, x < z
    PROVE  Rank(S)[x] < Rank(S)[z]
<1>1. /\ IsFiniteSet(Below(S, x)) /\ IsFiniteSet(Below(S, z))
      /\ Cardinality(Below(S, x)) \in Nat /\ Cardinality(Below(S, z)) \in Nat
  <2>1. Below(S, x) \subseteq S /\ Below(S, z) \subseteq S
    BY DEF Below
  <2> QED BY <2>1, FS_Subset, FS_CardinalityType
<1>2. Below(S, x) \subseteq Below(S, z) /\ x \in Below(S, z) /\ x \notin Below(S, x)
  <2>1. ~(x < x) /\ \A y \in S : y < x => y < z
    <3>1. x \in Nat /\ z \in Nat /\ \A y \in S : y \in Nat
      OBVIOUS
    <3> QED BY <3>1
  <2> QED BY <2>1 DEF Below
<1>3. Cardinality(Below(S, x)) <= Cardinality(Below(S, z))
      /\ Cardinality(Below(S, x)) # Cardinality(Below(S, z))
  BY <1>1, <1>2, FS_Subset
<1> QED BY <1>1, <1>3 DEF Rank

LEMMA NthIsThere ==
    ASSUME NEW S \in SUBSET Nat, IsFiniteSet(S), NEW k \in 1 .. Cardinality(S)
    PROVE  Nth(S, k) \in S /\ Rank(S)[Nth(S, k)] = k - 1
<1> DEFINE n == Cardinality(S)
<1>1. n \in Nat
  BY FS_CardinalityType
<1>2. IsFiniteSet(0 .. n - 1) /\ Cardinality(0 .. n - 1) = n
  <2>1. 0 \in Int /\ n - 1 \in Int
    BY <1>1
  <2> QED BY <1>1, <2>1, FS_Interval
<1>3. ASSUME NEW x \in S PROVE Rank(S)[x] \in 0 .. n - 1
  <2>1. Below(S, x) \subseteq S \ {x}
    BY DEF Below
  <2>2. IsFiniteSet(S \ {x}) /\ Cardinality(S \ {x}) = n - 1
    BY FS_RemoveElement
  <2>3. Cardinality(Below(S, x)) \in Nat /\ Cardinality(Below(S, x)) <= n - 1
    BY <2>1, <2>2, FS_Subset, FS_CardinalityType
  <2> QED BY <1>1, <2>3 DEF Rank
<1>4. Rank(S) \in Injection(S, 0 .. n - 1)
  <2>1. Rank(S) \in [S -> 0 .. n - 1]
    BY <1>3 DEF Rank
  <2>2. ASSUME NEW x \in S, NEW z \in S, Rank(S)[x] = Rank(S)[z] PROVE x = z
    <3>1. x < z \/ z < x \/ x = z
      OBVIOUS
    <3>2. ~(x < z) /\ ~(z < x)
      BY <1>1, <1>3, <2>2, RankGrows
    <3> QED BY <3>1, <3>2
  <2> QED BY <2>1, <2>2 DEF Injection, IsInjective
<1>5. Rank(S) \in Surjection(S, 0 .. n - 1)
  BY <1>2, <1>4, FS_Injection
<1>6. PICK x \in S : Rank(S)[x] = k - 1
  <2>1. k - 1 \in 0 .. n - 1
    BY <1>1
  <2> QED BY <1>5, <2>1 DEF Surjection
<1>7. \E y \in S : Cardinality({z \in S : z < y}) = k - 1
  BY <1>6 DEF Rank, Below
<1> QED BY <1>7 DEF Nth, Rank, Below

\* Blocks and entries that are taken from a set are of the set, and each is taken once.
LEMMA NthIsOnce ==
    ASSUME NEW S \in SUBSET Nat, IsFiniteSet(S),
           NEW k \in 1 .. Cardinality(S), NEW l \in 1 .. Cardinality(S), Nth(S, k) = Nth(S, l)
    PROVE  k = l
<1>1. Cardinality(S) \in Nat
  BY FS_CardinalityType
<1> QED BY <1>1, NthIsThere

-----------------------------------------------------------------------------
(* How many blocks and entries a file takes *)

LEMMA RoundUpBounds ==
    ASSUME NEW a \in Nat, NEW b \in Nat \ {0}
    PROVE  /\ RoundUp(a, b) \in Nat
           /\ a <= RoundUp(a, b) * b
           /\ a > 0 => RoundUp(a, b) > 0 /\ (RoundUp(a, b) - 1) * b < a
           /\ a = 0 => RoundUp(a, b) = 0
<1>1. PICK q : q = RoundUp(a, b)
  OBVIOUS
<1>2. /\ q \in Int
      /\ q * b <= a + b - 1
      /\ a + b - 1 < (q + 1) * b
  BY <1>1 DEF RoundUp
<1>3. q >= 0 /\ (a > 0 => q > 0) /\ (a = 0 => q = 0)
  BY <1>2
<1>4. a <= q * b /\ (q - 1) * b = q * b - b
  BY <1>2
<1> QED BY <1>1, <1>2, <1>3, <1>4

LEMMA LayoutOfFile ==
    ASSUME NEW records \in Nat
    PROVE  /\ BlocksFor(records) \in Nat /\ EntriesFor(records) \in Nat \ {0}
           /\ (EntriesFor(records) - 1) * BlocksPerEntry <= BlocksFor(records)
           /\ (EntriesFor(records) - 1) * BlocksPerEntry * RecordsPerBlock <= records
<1> USE ConstantsAssumption
<1>1. PICK blocks, entries : blocks = BlocksFor(records) /\ entries = EntriesFor(records)
  OBVIOUS
<1>2. /\ blocks \in Nat
      /\ records > 0 => blocks > 0 /\ (blocks - 1) * RecordsPerBlock < records
      /\ records = 0 => blocks = 0
  BY <1>1, RoundUpBounds DEF BlocksFor
<1>3. CASE records = 0
  BY <1>1, <1>2, <1>3 DEF EntriesFor
<1>4. CASE records > 0
  <2>1. entries = RoundUp(blocks, BlocksPerEntry)
    BY <1>1, <1>4 DEF EntriesFor
  <2>2. entries \in Nat /\ entries > 0 /\ (entries - 1) * BlocksPerEntry < blocks
    BY <1>2, <1>4, <2>1, RoundUpBounds
  <2>3. PICK before \in Nat : before = (entries - 1) * BlocksPerEntry
    BY <2>2
  <2>4. before <= blocks - 1
    BY <1>2, <2>2, <2>3
  <2>5. before * RecordsPerBlock <= (blocks - 1) * RecordsPerBlock
    BY <1>2, <1>4, <2>3, <2>4
  <2>6. before * RecordsPerBlock \in Nat /\ (blocks - 1) * RecordsPerBlock \in Nat
    BY <1>2, <1>4, <2>3
  <2>7. before * RecordsPerBlock <= records
    BY <1>2, <1>4, <2>5, <2>6
  <2> QED BY <1>1, <1>2, <2>2, <2>3, <2>4, <2>7
<1> QED BY <1>3, <1>4

\* The blocks of the k-th entry are the next ones after those of the entries before.
HeldIn(records, k) == AtMost(BlocksPerEntry, BlocksFor(records) - (k - 1) * BlocksPerEntry)

LEMMA LayoutOfEntry ==
    ASSUME NEW records \in Nat, NEW k \in 1 .. EntriesFor(records)
    PROVE  /\ (k - 1) * BlocksPerEntry \in Nat /\ HeldIn(records, k) \in Nat
           /\ HeldIn(records, k) <= BlocksPerEntry
           /\ \A i \in 1 .. HeldIn(records, k) :
                (k - 1) * BlocksPerEntry + i \in 1 .. BlocksFor(records)
<1> USE ConstantsAssumption
<1>1. PICK before, blocks, last, entries :
        /\ before = (k - 1) * BlocksPerEntry /\ blocks = BlocksFor(records)
        /\ entries = EntriesFor(records) /\ last = (entries - 1) * BlocksPerEntry
  OBVIOUS
<1>2. blocks \in Nat /\ entries \in Nat \ {0} /\ last <= blocks
  BY <1>1, LayoutOfFile
<1>3. k - 1 \in Nat /\ k - 1 <= entries - 1
  BY <1>1, <1>2
<1>4. before \in Nat /\ last \in Nat /\ before <= last
  BY <1>1, <1>2, <1>3
<1>5. HeldIn(records, k) = IF BlocksPerEntry < blocks - before THEN BlocksPerEntry ELSE blocks - before
  BY <1>1 DEF HeldIn, AtMost
<1> QED BY <1>1, <1>2, <1>4, <1>5

LEMMA EntriesApart ==
    ASSUME NEW records \in Nat, NEW k \in 1 .. EntriesFor(records), NEW l \in 1 .. EntriesFor(records),
           NEW i \in 1 .. HeldIn(records, k), NEW j \in 1 .. HeldIn(records, l),
           (k - 1) * BlocksPerEntry + i = (l - 1) * BlocksPerEntry + j
    PROVE  k = l /\ i = j
<1> USE ConstantsAssumption
<1>1. PICK a, b : a = (k - 1) * BlocksPerEntry /\ b = (l - 1) * BlocksPerEntry
  OBVIOUS
<1>2. k \in Nat /\ l \in Nat /\ a \in Nat /\ b \in Nat
      /\ 1 <= i /\ i <= BlocksPerEntry /\ i \in Nat
      /\ 1 <= j /\ j <= BlocksPerEntry /\ j \in Nat
  BY <1>1, LayoutOfEntry, LayoutOfFile
<1>3. ASSUME k < l PROVE FALSE
  <2>1. a + BlocksPerEntry <= b
    BY <1>1, <1>2, <1>3
  <2> QED BY <1>1, <1>2, <2>1
<1>4. ASSUME l < k PROVE FALSE
  <2>1. b + BlocksPerEntry <= a
    BY <1>1, <1>2, <1>4
  <2> QED BY <1>1, <1>2, <2>1
<1>5. k = l
  BY <1>2, <1>3, <1>4
<1> QED BY <1>1, <1>2, <1>5

LEMMA CountFits ==
    ASSUME NEW records \in Nat
    PROVE  LastCount(records) \in 0 .. RecordsPerExtent
BY ConstantsAssumption DEF LastCount

-----------------------------------------------------------------------------
(* Images *)

Data == [number : Nat, records : Nat, deleted : BOOLEAN]

LEMMA EmptyEntry == NoEntry \in Entry /\ BlocksIn(NoEntry) = {} /\ NoEntry.file = Unused
<1>1. <<>> \in Seq(Block) /\ DOMAIN <<>> = {}
  BY EmptySeq, LenProperties
<1>2. NoEntry.blocks = <<>> /\ NoEntry.file = Unused
  BY DEF NoEntry
<1>3. NoEntry \in Entry
  BY <1>1, ConstantsAssumption DEF NoEntry, Entry
<1> QED BY <1>1, <1>2, <1>3 DEF BlocksIn

\* Deleting a file takes entries away and touches no block.
LEMMA ErasedShape ==
    ASSUME NEW im \in Images, NEW f
    PROVE  /\ Erased(im, f) \in Images
           /\ Erased(im, f).store = im.store
           /\ \A s \in Slot : Erased(im, f).dir[s] = IF im.dir[s].file = f THEN NoEntry ELSE im.dir[s]
           /\ Live(Erased(im, f)) = {s \in Live(im) : im.dir[s].file # f}
           /\ Used(Erased(im, f)) \subseteq Used(im)
<1>1. PICK old : old = Erased(im, f)
  OBVIOUS
<1>2. im.dir \in [Slot -> Entry] /\ im.store \in [Block -> Seq(Nat)]
  BY DEF Images
<1>3. /\ old \in Images /\ old.store = im.store
      /\ \A s \in Slot : old.dir[s] = IF im.dir[s].file = f THEN NoEntry ELSE im.dir[s]
  BY <1>1, <1>2, EmptyEntry DEF Erased, Images
<1>4. Live(old) = {s \in Live(im) : im.dir[s].file # f}
  BY <1>3, EmptyEntry DEF Live
<1>5. Used(old) \subseteq Used(im)
  BY <1>3, <1>4 DEF Used, Live
<1> QED BY <1>1, <1>3, <1>4, <1>5

LEMMA ErasedSound ==
    ASSUME NEW im \in Images, Sound(im), NEW f
    PROVE  Sound(Erased(im, f))
<1>1. PICK old : old = Erased(im, f)
  OBVIOUS
<1>2. \A s \in Live(old) : s \in Live(im) /\ old.dir[s] = im.dir[s]
  BY <1>1, ErasedShape DEF Live
<1> QED BY <1>1, <1>2 DEF Sound

LEMMA FreeSets ==
    ASSUME NEW im \in Images
    PROVE  /\ FreeBlocks(im) \in SUBSET Nat /\ FreeBlocks(im) \subseteq Block
           /\ IsFiniteSet(FreeBlocks(im)) /\ Cardinality(FreeBlocks(im)) \in Nat
           /\ FreeBlocks(im) \cap Used(im) = {}
           /\ \A b \in FreeBlocks(im) : b >= DirBlocks
           /\ FreeSlots(im) \in SUBSET Nat /\ FreeSlots(im) \subseteq Slot
           /\ IsFiniteSet(FreeSlots(im)) /\ Cardinality(FreeSlots(im)) \in Nat
<1> USE ConstantsAssumption
<1>1. IsFiniteSet(Block) /\ IsFiniteSet(Slot)
  BY FS_Interval DEF Block, Slot
<1>2. Block \subseteq Nat /\ Slot \subseteq Nat
  BY DEF Block, Slot
<1>3. /\ FreeBlocks(im) \subseteq Block /\ FreeSlots(im) \subseteq Slot
      /\ FreeBlocks(im) \cap Used(im) = {}
      /\ \A b \in FreeBlocks(im) : b >= DirBlocks
  BY DEF FreeBlocks, FreeSlots
<1> QED BY <1>1, <1>2, <1>3, FS_Subset, FS_CardinalityType

\* A file is written into blocks and entries that were free, each used once; all
\* others are as they were.
LEMMA WrittenShape ==
    ASSUME NEW im \in Images, NEW f, NEW data \in Data, Fits(im, f, data.records)
    PROVE  LET old == Erased(im, f)
               new == Written(im, f, data)
               free == FreeBlocks(old)
               slots == FreeSlots(old)
           IN /\ BlocksFor(data.records) \in Nat /\ EntriesFor(data.records) \in Nat
              /\ new = [dir |-> new.dir, store |-> new.store]
              /\ DOMAIN new.dir = Slot /\ DOMAIN new.store = Block
              /\ \A k \in 1 .. EntriesFor(data.records) :
                   /\ Nth(slots, k) \in slots
                   /\ new.dir[Nth(slots, k)] = EntryOf(f, data.records, free, k)
                   /\ \A l \in 1 .. EntriesFor(data.records) : Nth(slots, k) = Nth(slots, l) => k = l
              /\ \A i \in 1 .. BlocksFor(data.records) :
                   /\ Nth(free, i) \in free
                   /\ new.store[Nth(free, i)] = <<data.number, i>>
                   /\ \A j \in 1 .. BlocksFor(data.records) : Nth(free, i) = Nth(free, j) => i = j
              /\ \A s \in Slot : (\A k \in 1 .. EntriesFor(data.records) : s # Nth(slots, k))
                   => new.dir[s] = old.dir[s]
              /\ \A b \in Block : (\A i \in 1 .. BlocksFor(data.records) : b # Nth(free, i))
                   => new.store[b] = old.store[b]
<1>1. PICK old, new, free, slots, blocks, entries :
        /\ old = Erased(im, f) /\ new = Written(im, f, data)
        /\ free = FreeBlocks(old) /\ slots = FreeSlots(old)
        /\ blocks = BlocksFor(data.records) /\ entries = EntriesFor(data.records)
  OBVIOUS
<1>2. old \in Images
  BY <1>1, ErasedShape
<1>3. /\ free \in SUBSET Nat /\ free \subseteq Block /\ IsFiniteSet(free) /\ Cardinality(free) \in Nat
      /\ slots \in SUBSET Nat /\ slots \subseteq Slot /\ IsFiniteSet(slots)
      /\ Cardinality(slots) \in Nat
  BY <1>1, <1>2, FreeSets
<1>4. /\ blocks \in Nat /\ entries \in Nat
      /\ blocks <= Cardinality(free) /\ entries <= Cardinality(slots)
  BY <1>1, LayoutOfFile DEF Fits, Data
<1>5. \A k \in 1 .. entries : k \in 1 .. Cardinality(slots)
  BY <1>3, <1>4
<1>6. \A i \in 1 .. blocks : i \in 1 .. Cardinality(free)
  BY <1>3, <1>4
<1>7. \A k \in 1 .. entries :
        /\ Nth(slots, k) \in slots
        /\ \A l \in 1 .. entries : Nth(slots, k) = Nth(slots, l) => k = l
  BY <1>3, <1>5, NthIsThere, NthIsOnce
<1>8. \A i \in 1 .. blocks :
        /\ Nth(free, i) \in free
        /\ \A j \in 1 .. blocks : Nth(free, i) = Nth(free, j) => i = j
  BY <1>3, <1>6, NthIsThere, NthIsOnce
<1>9. /\ new = [dir |-> new.dir, store |-> new.store]
      /\ new.dir = [s \in Slot |-> IF \E k \in 1 .. entries : s = Nth(slots, k)
                                   THEN EntryOf(f, data.records, free,
                                                CHOOSE k \in 1 .. entries : s = Nth(slots, k))
                                   ELSE old.dir[s]]
      /\ new.store = [b \in Block |-> IF \E i \in 1 .. blocks : b = Nth(free, i)
                                      THEN <<data.number, CHOOSE i \in 1 .. blocks : b = Nth(free, i)>>
                                      ELSE old.store[b]]
  BY <1>1 DEF Written
<1>10. ASSUME NEW k \in 1 .. entries
       PROVE  new.dir[Nth(slots, k)] = EntryOf(f, data.records, free, k)
  <2>1. Nth(slots, k) \in Slot
    BY <1>3, <1>7
  <2>2. (CHOOSE l \in 1 .. entries : Nth(slots, k) = Nth(slots, l)) = k
    BY <1>7
  <2> QED BY <1>9, <2>1, <2>2
<1>11. ASSUME NEW i \in 1 .. blocks
       PROVE  new.store[Nth(free, i)] = <<data.number, i>>
  <2>1. Nth(free, i) \in Block
    BY <1>3, <1>8
  <2>2. (CHOOSE j \in 1 .. blocks : Nth(free, i) = Nth(free, j)) = i
    BY <1>8
  <2> QED BY <1>9, <2>1, <2>2
<1>12. /\ \A s \in Slot : (\A k \in 1 .. entries : s # Nth(slots, k)) => new.dir[s] = old.dir[s]
       /\ \A b \in Block : (\A i \in 1 .. blocks : b # Nth(free, i)) => new.store[b] = old.store[b]
  BY <1>9
<1>13. DOMAIN new.dir = Slot /\ DOMAIN new.store = Block
  BY <1>9
<1> QED BY <1>1, <1>4, <1>7, <1>8, <1>9, <1>10, <1>11, <1>12, <1>13

\* The k-th entry of a file that fits.
LEMMA EntryShape ==
    ASSUME NEW f \in File, NEW records \in Nat, NEW free \in SUBSET Block,
           NEW k \in 1 .. EntriesFor(records),
           \A i \in 1 .. BlocksFor(records) : Nth(free, i) \in free
    PROVE  LET entry == EntryOf(f, records, free, k)
           IN /\ entry \in Entry /\ entry.file = f
              /\ DOMAIN entry.blocks = 1 .. HeldIn(records, k)
              /\ \A i \in DOMAIN entry.blocks :
                   /\ (k - 1) * BlocksPerEntry + i \in 1 .. BlocksFor(records)
                   /\ entry.blocks[i] = Nth(free, (k - 1) * BlocksPerEntry + i)
<1> USE ConstantsAssumption
<1>1. PICK before, held, rc :
        /\ before = (k - 1) * BlocksPerEntry /\ held = HeldIn(records, k)
        /\ rc = IF k = EntriesFor(records) THEN LastCount(records - before * RecordsPerBlock)
                ELSE AtMost(RecordsPerEntry, RecordsPerExtent)
  OBVIOUS
<1>2. /\ before \in Nat /\ held \in Nat
      /\ \A i \in 1 .. held : before + i \in 1 .. BlocksFor(records)
  BY <1>1, LayoutOfEntry
<1>3. k \in Nat /\ EntriesFor(records) \in Nat
  BY LayoutOfFile
<1>4. rc \in 0 .. RecordsPerExtent
  <2>1. CASE k = EntriesFor(records)
    <3>1. records - before * RecordsPerBlock \in Nat
      BY <1>1, <1>2, <2>1, LayoutOfFile
    <3> QED BY <1>1, <2>1, <3>1, CountFits
  <2>2. CASE k # EntriesFor(records)
    <3>1. RecordsPerEntry \in Nat
      BY DEF RecordsPerEntry
    <3> QED BY <1>1, <2>2, <3>1 DEF AtMost
  <2> QED BY <2>1, <2>2
<1>5. (k - 1) * ExtentsPerEntry \in Nat
  <2>1. RecordsPerEntry \in Nat
    BY DEF RecordsPerEntry
  <2>2. ExtentsPerEntry \in Nat
    BY <2>1 DEF ExtentsPerEntry
  <2> QED BY <1>3, <2>2
<1>6. PICK blocks : blocks = [i \in 1 .. held |-> Nth(free, before + i)]
  OBVIOUS
<1>7. blocks \in Seq(Block)
  <2>1. \A i \in 1 .. held : Nth(free, before + i) \in Block
    BY <1>2
  <2> QED BY <1>2, <1>6, <2>1, SeqDef
<1>8. EntryOf(f, records, free, k) =
        [file |-> f, extent |-> (k - 1) * ExtentsPerEntry, rc |-> rc, blocks |-> blocks]
  BY <1>1, <1>6 DEF EntryOf, HeldIn
<1>9. EntryOf(f, records, free, k) \in Entry
  BY <1>4, <1>5, <1>7, <1>8 DEF Entry
<1> QED BY <1>1, <1>2, <1>6, <1>8, <1>9

LEMMA WrittenSound ==
    ASSUME NEW im \in Images, Sound(im), NEW f \in File, NEW data \in Data,
           Fits(im, f, data.records)
    PROVE  Written(im, f, data) \in Images /\ Sound(Written(im, f, data))
<1>1. PICK old, new, free, slots, blocks, entries, records :
        /\ old = Erased(im, f) /\ new = Written(im, f, data)
        /\ free = FreeBlocks(old) /\ slots = FreeSlots(old) /\ records = data.records
        /\ blocks = BlocksFor(records) /\ entries = EntriesFor(records)
  OBVIOUS
<1>2. old \in Images /\ Sound(old) /\ records \in Nat /\ data.number \in Nat
  BY <1>1, ErasedShape, ErasedSound DEF Data
<1>3. /\ free \in SUBSET Block /\ free \cap Used(old) = {} /\ \A b \in free : b >= DirBlocks
  BY <1>1, <1>2, FreeSets
<1>4. /\ new = [dir |-> new.dir, store |-> new.store]
      /\ DOMAIN new.dir = Slot /\ DOMAIN new.store = Block /\ blocks \in Nat
      /\ \A k \in 1 .. entries : new.dir[Nth(slots, k)] = EntryOf(f, records, free, k)
      /\ \A i \in 1 .. blocks :
           /\ Nth(free, i) \in free
           /\ new.store[Nth(free, i)] = <<data.number, i>>
           /\ \A j \in 1 .. blocks : Nth(free, i) = Nth(free, j) => i = j
      /\ \A s \in Slot : (\A k \in 1 .. entries : s # Nth(slots, k)) => new.dir[s] = old.dir[s]
      /\ \A b \in Block : (\A i \in 1 .. blocks : b # Nth(free, i)) => new.store[b] = old.store[b]
  BY <1>1, WrittenShape
<1>5. \A k \in 1 .. entries :
        LET entry == EntryOf(f, records, free, k)
        IN /\ entry \in Entry
           /\ DOMAIN entry.blocks = 1 .. HeldIn(records, k)
           /\ \A i \in DOMAIN entry.blocks :
                /\ (k - 1) * BlocksPerEntry + i \in 1 .. blocks
                /\ entry.blocks[i] = Nth(free, (k - 1) * BlocksPerEntry + i)
  BY <1>1, <1>2, <1>3, <1>4, EntryShape
\* An entry of the new directory is one of the new ones or an old one.
<1>6. \A s \in Slot : \/ \E k \in 1 .. entries : s = Nth(slots, k) /\ new.dir[s] = EntryOf(f, records, free, k)
                      \/ new.dir[s] = old.dir[s]
  BY <1>4
<1>7. new \in Images
  <2>1. \A s \in Slot : new.dir[s] \in Entry
    BY <1>2, <1>5, <1>6 DEF Images
  <2>2. \A b \in Block : new.store[b] \in Seq(Nat)
    <3>1. \A i \in 1 .. blocks : <<data.number, i>> \in Seq(Nat)
      BY <1>2, <1>4
    <3>2. \A b \in Block : old.store[b] \in Seq(Nat)
      BY <1>2 DEF Images
    <3>3. \A b \in Block : \/ \E i \in 1 .. blocks : new.store[b] = <<data.number, i>>
                           \/ new.store[b] = old.store[b]
      <4> TAKE b \in Block
      <4>1. CASE \E i \in 1 .. blocks : b = Nth(free, i)
        BY <1>4, <4>1
      <4>2. CASE \A i \in 1 .. blocks : b # Nth(free, i)
        BY <1>4, <4>2
      <4> QED BY <4>1, <4>2
    <3> QED BY <3>1, <3>2, <3>3
  <2>3. new.dir \in [Slot -> Entry] /\ new.store \in [Block -> Seq(Nat)]
    <3>1. new.dir = [s \in Slot |-> new.dir[s]] /\ new.store = [b \in Block |-> new.store[b]]
      BY <1>1 DEF Written
    <3> QED BY <2>1, <2>2, <3>1
  <2> QED BY <1>4, <2>3 DEF Images
<1>8. \A k \in 1 .. entries : BlocksIn(EntryOf(f, records, free, k)) \subseteq free
  BY <1>4, <1>5 DEF BlocksIn
<1>9. \A s \in Slot : new.dir[s] = old.dir[s] /\ s \in Live(new) => s \in Live(old)
  BY DEF Live
<1>10. \A s \in Live(old) : BlocksIn(old.dir[s]) \subseteq Used(old)
  BY DEF Used
<1>11. ASSUME NEW s \in Live(new), NEW t \in Live(new), s # t
       PROVE  BlocksIn(new.dir[s]) \cap BlocksIn(new.dir[t]) = {}
  <2>1. s \in Slot /\ t \in Slot
    BY DEF Live
  <2>2. CASE new.dir[s] = old.dir[s] /\ new.dir[t] = old.dir[t]
    BY <1>2, <1>9, <1>11, <2>1, <2>2 DEF Sound
  <2>3. ASSUME NEW k \in 1 .. entries, new.dir[s] = EntryOf(f, records, free, k),
               new.dir[t] = old.dir[t]
        PROVE  BlocksIn(new.dir[s]) \cap BlocksIn(new.dir[t]) = {}
    BY <1>3, <1>8, <1>9, <1>10, <2>1, <2>3
  <2>4. ASSUME NEW k \in 1 .. entries, new.dir[t] = EntryOf(f, records, free, k),
               new.dir[s] = old.dir[s]
        PROVE  BlocksIn(new.dir[s]) \cap BlocksIn(new.dir[t]) = {}
    BY <1>3, <1>8, <1>9, <1>10, <2>1, <2>4
  <2>5. ASSUME NEW k \in 1 .. entries, s = Nth(slots, k), new.dir[s] = EntryOf(f, records, free, k),
               NEW l \in 1 .. entries, t = Nth(slots, l), new.dir[t] = EntryOf(f, records, free, l)
        PROVE  BlocksIn(new.dir[s]) \cap BlocksIn(new.dir[t]) = {}
    <3> SUFFICES ASSUME NEW i \in DOMAIN new.dir[s].blocks, NEW j \in DOMAIN new.dir[t].blocks,
                        new.dir[s].blocks[i] = new.dir[t].blocks[j]
                 PROVE  FALSE
      BY DEF BlocksIn
    <3>1. (k - 1) * BlocksPerEntry + i = (l - 1) * BlocksPerEntry + j
      BY <1>4, <1>5, <2>5
    <3>2. i \in 1 .. HeldIn(records, k) /\ j \in 1 .. HeldIn(records, l)
      BY <1>5, <2>5
    <3>3. k = l
      BY <1>1, <1>2, <3>1, <3>2, EntriesApart
    <3> QED BY <1>11, <2>5, <3>3
  <2> QED BY <1>6, <2>1, <2>2, <2>3, <2>4, <2>5
<1>12. ASSUME NEW s \in Live(new)
       PROVE  /\ \A b \in BlocksIn(new.dir[s]) : b >= DirBlocks
              /\ \A i, j \in DOMAIN new.dir[s].blocks :
                   new.dir[s].blocks[i] = new.dir[s].blocks[j] => i = j
  <2>1. s \in Slot
    BY DEF Live
  <2>2. CASE new.dir[s] = old.dir[s]
    BY <1>2, <1>9, <2>1, <2>2 DEF Sound
  <2>3. ASSUME NEW k \in 1 .. entries, new.dir[s] = EntryOf(f, records, free, k)
        PROVE  /\ \A b \in BlocksIn(new.dir[s]) : b >= DirBlocks
               /\ \A i, j \in DOMAIN new.dir[s].blocks :
                    new.dir[s].blocks[i] = new.dir[s].blocks[j] => i = j
    <3>1. \A b \in BlocksIn(new.dir[s]) : b >= DirBlocks
      BY <1>3, <1>8, <2>3
    <3>2. ASSUME NEW i \in DOMAIN new.dir[s].blocks, NEW j \in DOMAIN new.dir[s].blocks,
                 new.dir[s].blocks[i] = new.dir[s].blocks[j]
          PROVE  i = j
      <4>1. (k - 1) * BlocksPerEntry + i = (k - 1) * BlocksPerEntry + j
        BY <1>4, <1>5, <2>3, <3>2
      <4>2. i \in 1 .. HeldIn(records, k) /\ j \in 1 .. HeldIn(records, k)
        BY <1>5, <2>3
      <4> QED BY <1>1, <1>2, <4>1, <4>2, EntriesApart
    <3> QED BY <3>1, <3>2
  <2> QED BY <1>6, <2>1, <2>2, <2>3
<1>13. Sound(new)
  BY <1>11, <1>12 DEF Sound
<1> QED BY <1>1, <1>7, <1>13

-----------------------------------------------------------------------------
(* The inductive invariant *)

JobType == [pc : {"idle", "read", "changed", "open"}, file : File \cup {Unused}, data : Data,
            image : Images \cup {NoImage}]

\* What a request carries over its awaits.
JobOK(j) ==
    /\ j.pc = "read" => j.file \in File
    /\ j.pc \in {"changed", "open"} => j.image \in Images /\ Sound(j.image)

IndInv ==
    /\ image \in Images /\ Sound(image)
    /\ torn \in BOOLEAN
    /\ hidden \in {{}, DirBlocks .. DirBlocks + HiddenBlocks - 1}
    /\ job \in [Req -> JobType]
    /\ \A r \in Req : JobOK(job[r])
    /\ requests \in 0 .. MaxRequests

LEMMA IdleJob == NoJob \in JobType /\ JobOK(NoJob) /\ NoJob.pc = "idle" /\ NoJob.image = NoImage
BY DEF NoJob, NoData, JobType, Data, JobOK

LEMMA FormattedIs == Formatted \in Images /\ Live(Formatted) = {} /\ Sound(Formatted)
<1>1. NoPart \in Seq(Nat)
  BY DEF NoPart
<1>2. Formatted \in Images
  BY <1>1, EmptyEntry DEF Formatted, Images
<1>3. Live(Formatted) = {}
  BY EmptyEntry DEF Formatted, Live
<1> QED BY <1>2, <1>3 DEF Sound

\* The first block behind the directory.
LEMMA FirstBlock ==
    ASSUME Init
    PROVE  DirBlocks + Cardinality(hidden) \in Block /\ DirBlocks + Cardinality(hidden) >= DirBlocks
<1> USE ConstantsAssumption
<1>1. hidden \in {{}, DirBlocks .. DirBlocks + HiddenBlocks - 1}
  BY DEF Init
<1>2. DirBlocks \in Int /\ DirBlocks + HiddenBlocks - 1 \in Int
  OBVIOUS
<1>3. Cardinality(hidden) \in {0, HiddenBlocks}
  <2>1. CASE hidden = {}
    BY <2>1, FS_EmptySet
  <2>2. CASE hidden # {}
    BY <1>1, <1>2, <2>2, FS_Interval
  <2> QED BY <2>1, <2>2
<1> QED BY <1>3 DEF Block

LEMMA InitHolds == Init => IndInv
<1> SUFFICES ASSUME Init PROVE IndInv
  OBVIOUS
<1> USE ConstantsAssumption
<1>1. hidden \in {{}, DirBlocks .. DirBlocks + HiddenBlocks - 1}
  BY DEF Init
<1>2. DirBlocks + Cardinality(hidden) \in Block /\ DirBlocks + Cardinality(hidden) >= DirBlocks
  BY FirstBlock
<1>3. image \in Images /\ Sound(image)
  <2>1. PICK f \in File, b \in {DirBlocks + Cardinality(hidden)} :
          image \in {Formatted,
                     [dir |-> [Formatted.dir EXCEPT ![1] =
                         [file |-> f, extent |-> 0, rc |-> 1, blocks |-> <<b>>]],
                      store |-> [Formatted.store EXCEPT ![b] = <<0, 1>>]]}
    BY DEF Init
  <2>2. CASE image = Formatted
    BY <2>2, FormattedIs
  <2>3. CASE image # Formatted
    <3>1. b \in Block /\ b >= DirBlocks /\ 1 \in Slot
      BY <1>2, <2>1 DEF Slot
    <3>2. PICK entry : entry = [file |-> f, extent |-> 0, rc |-> 1, blocks |-> <<b>>]
      OBVIOUS
    <3>3. <<b>> \in Seq(Block) /\ DOMAIN <<b>> = 1 .. 1 /\ <<b>>[1] = b /\ <<0, 1>> \in Seq(Nat)
      BY <3>1
    <3>4. entry \in Entry /\ entry.blocks = <<b>>
      BY <2>1, <3>2, <3>3 DEF Entry
    <3>5. /\ Formatted.dir \in [Slot -> Entry] /\ Formatted.store \in [Block -> Seq(Nat)]
          /\ \A s \in Slot : Formatted.dir[s].file = Unused
      BY FormattedIs DEF Images, Live
    <3>6. /\ image.dir = [Formatted.dir EXCEPT ![1] = entry]
          /\ image = [dir |-> image.dir, store |-> image.store]
          /\ image.store = [Formatted.store EXCEPT ![b] = <<0, 1>>]
      BY <2>1, <2>3, <3>2
    <3>7. image \in Images
      BY <3>1, <3>3, <3>4, <3>5, <3>6, ZenonT(60) DEF Images
    <3>8. \A s \in Live(image) : s = 1
      BY <3>5, <3>6 DEF Live
    <3>9. image.dir[1].blocks = <<b>>
      BY <3>1, <3>4, <3>5, <3>6
    <3>10. Sound(image)
      BY <3>1, <3>3, <3>8, <3>9 DEF Sound, BlocksIn
    <3> QED BY <3>7, <3>10
  <2> QED BY <2>2, <2>3
<1>4. job \in [Req -> JobType] /\ \A r \in Req : JobOK(job[r])
  BY IdleJob DEF Init
<1>5. torn \in BOOLEAN /\ requests \in 0 .. MaxRequests
  <2>1. torn \in BOOLEAN
    BY DEF Init
  <2>2. requests \in 0 .. MaxRequests
    BY DEF Init
  <2> QED BY <2>1, <2>2
<1> QED BY <1>1, <1>3, <1>4, <1>5 DEF IndInv

-----------------------------------------------------------------------------
(* The steps of the routes *)

\* A step that changes one job and leaves the image and its file alone.
LEMMA JobSteps ==
    ASSUME IndInv, NEW r \in Req, NEW j \in JobType, JobOK(j), job' = [job EXCEPT ![r] = j],
           torn' \in BOOLEAN, image' \in Images, Sound(image'), requests' \in 0 .. MaxRequests,
           UNCHANGED hidden
    PROVE  IndInv'
BY DEF IndInv, JobOK

LEMMA AskKeeps ==
    ASSUME IndInv, NEW r \in Req, NEW f \in File, Ask(r, f)
    PROVE  IndInv'
<1> USE ConstantsAssumption
<1>1. PICK data \in {[number |-> requests + 1, records |-> n, deleted |-> FALSE] : n \in Lengths}
                      \cup {[NoData EXCEPT !.deleted = TRUE]} :
        job' = [job EXCEPT ![r] = [NoJob EXCEPT !.pc = "read", !.file = f, !.data = data]]
  BY DEF Ask
<1>2. requests' = requests + 1 /\ requests < MaxRequests /\ UNCHANGED <<image, torn, hidden>>
      /\ requests \in 0 .. MaxRequests
  BY DEF Ask, IndInv
<1>3. data \in Data
  <2>1. requests + 1 \in Nat
    BY <1>2
  <2>2. CASE \E n \in Lengths : data = [number |-> requests + 1, records |-> n, deleted |-> FALSE]
    BY <2>1, <2>2 DEF Data
  <2>3. CASE data = [NoData EXCEPT !.deleted = TRUE]
    BY <2>3 DEF Data, NoData
  <2> QED BY <2>2, <2>3
<1>4. PICK j : j = [NoJob EXCEPT !.pc = "read", !.file = f, !.data = data]
  OBVIOUS
<1>5. j \in JobType /\ JobOK(j)
  BY <1>3, <1>4 DEF NoJob, JobType, JobOK
<1>6. job' = [job EXCEPT ![r] = j] /\ requests' \in 0 .. MaxRequests
  BY <1>1, <1>2, <1>4
<1>7. torn' \in BOOLEAN /\ image' \in Images /\ Sound(image') /\ UNCHANGED hidden
  BY <1>2 DEF IndInv
<1> QED BY <1>5, <1>6, <1>7, JobSteps

\* What Load makes of an image is of its type, and sound.
LEMMA LoadIs ==
    ASSUME IndInv, NEW r \in Req, Load(r)
    PROVE  \/ job' = [job EXCEPT ![r] = NoJob]
           \/ \E changed \in Images :
                /\ Sound(changed)
                /\ job' = [job EXCEPT ![r] = [job[r] EXCEPT !.pc = "changed", !.image = changed]]
                /\ \/ job[r].data.deleted /\ changed = Erased(image, job[r].file)
                   \/ /\ changed = Written(image, job[r].file, job[r].data)
                      /\ Fits(image, job[r].file, job[r].data.records)
<1>1. job[r].file \in File /\ job[r].data \in Data /\ image \in Images /\ Sound(image)
  BY DEF Load, IndInv, JobOK, JobType
<1>2. /\ Erased(image, job[r].file) \in Images /\ Sound(Erased(image, job[r].file))
      /\ Fits(image, job[r].file, job[r].data.records) =>
           /\ Written(image, job[r].file, job[r].data) \in Images
           /\ Sound(Written(image, job[r].file, job[r].data))
  BY <1>1, ErasedShape, ErasedSound, WrittenSound
<1> QED BY <1>2 DEF Load, Idle

LEMMA LoadKeeps ==
    ASSUME IndInv, NEW r \in Req, Load(r)
    PROVE  IndInv'
<1>1. UNCHANGED <<image, torn, hidden, requests>>
  BY DEF Load
<1>2. CASE job' = [job EXCEPT ![r] = NoJob]
  BY <1>1, <1>2, IdleJob, JobSteps DEF IndInv
<1>3. ASSUME NEW changed \in Images, Sound(changed),
             job' = [job EXCEPT ![r] = [job[r] EXCEPT !.pc = "changed", !.image = changed]]
      PROVE  IndInv'
  <2>1. PICK j : j = [job[r] EXCEPT !.pc = "changed", !.image = changed]
    OBVIOUS
  <2>2. j \in JobType /\ JobOK(j)
    BY <1>3, <2>1 DEF JobType, JobOK, IndInv
  <2> QED BY <1>1, <1>3, <2>1, <2>2, JobSteps DEF IndInv
<1> QED BY <1>2, <1>3, LoadIs

LEMMA OpenKeeps ==
    ASSUME IndInv, NEW r \in Req, Open(r)
    PROVE  IndInv'
<1>1. PICK j : j = [job[r] EXCEPT !.pc = "open"]
  OBVIOUS
<1>2. j \in JobType /\ JobOK(j)
  BY <1>1 DEF Open, JobType, JobOK, IndInv
<1>3. job' = [job EXCEPT ![r] = j]
  BY <1>1 DEF Open
<1> QED BY <1>2, <1>3, JobSteps DEF Open, IndInv

LEMMA SaveKeeps ==
    ASSUME IndInv, NEW r \in Req, Save(r) \/ SaveFails(r)
    PROVE  IndInv'
<1>1. job' = [job EXCEPT ![r] = NoJob] /\ UNCHANGED <<hidden, requests>>
  BY DEF Save, SaveFails, Idle
<1>2. image' \in Images /\ Sound(image') /\ torn' \in BOOLEAN
  BY DEF Save, SaveFails, IndInv, JobOK
<1> QED BY <1>1, <1>2, IdleJob, JobSteps DEF IndInv

LEMMA NextKeeps ==
    ASSUME IndInv, [Next]_vars
    PROVE  IndInv'
<1>1. ASSUME NEW r \in Req,
             (\E f \in File : Ask(r, f)) \/ Load(r) \/ Open(r) \/ Save(r) \/ SaveFails(r)
      PROVE  IndInv'
  BY <1>1, AskKeeps, LoadKeeps, OpenKeeps, SaveKeeps
<1>2. CASE Kill
  BY <1>2, IdleJob DEF Kill, IndInv
<1>3. CASE UNCHANGED vars
  BY <1>3 DEF vars, IndInv
<1> QED BY <1>1, <1>2, <1>3 DEF Next

-----------------------------------------------------------------------------
(* The theorems *)

LEMMA IndInvUsesOnce == IndInv => BlocksUsedOnce
<1> SUFFICES ASSUME IndInv PROVE BlocksUsedOnce
  OBVIOUS
<1>1. hidden \subseteq Block
  BY ConstantsAssumption DEF IndInv, Block
<1>2. CpmTypeOK
  BY <1>1 DEF IndInv, CpmTypeOK, JobType, JobOK
<1> QED BY <1>2 DEF IndInv, BlocksUsedOnce, JobOK

\* No image that is written, or about to be, has a block in two places of its
\* directory or a file in its directory blocks: for every geometry, whatever is
\* written, deleted and killed (allocateBlocks, buildAllocationBitmap).
THEOREM BlocksCorrect == Spec => []BlocksUsedOnce
<1>1. IndInv /\ [Next]_vars => IndInv'
  BY NextKeeps
<1> QED BY <1>1, InitHolds, IndInvUsesOnce, PTL DEF Spec

LEMMA OnlyLoadChanges ==
    ASSUME IndInv, [Next]_vars, NEW r \in Req, job[r].pc = "read", job'[r].pc = "changed"
    PROVE  Load(r)
<1>1. \A q \in Req : \A j : job' = [job EXCEPT ![q] = j] => job'[r] = IF q = r THEN j ELSE job[r]
  BY DEF IndInv
<1>2. ASSUME NEW q \in Req, Load(q), q # r PROVE FALSE
  BY <1>1, <1>2, LoadIs
<1>3. ASSUME NEW q \in Req, (\E f \in File : Ask(q, f)) \/ Open(q) \/ Save(q) \/ SaveFails(q)
      PROVE  FALSE
  <2>1. \A f \in File : \A j : ~(job'[r] = [NoJob EXCEPT !.pc = "read", !.file = f, !.data = j])
    BY DEF NoJob
  <2> QED BY <1>1, <1>3, <2>1, IdleJob DEF Ask, Open, Save, SaveFails, Idle
<1>4. ~Kill /\ ~(UNCHANGED vars)
  BY IdleJob DEF Kill, vars
<1> QED BY <1>2, <1>3, <1>4 DEF Next

\* Hidden directory blocks stay as they are when another file that has blocks marks
\* where the directory ends.
LEMMA LoadSparesHidden ==
    ASSUME IndInv, NEW r \in Req, Load(r), job'[r].pc = "changed",
           hidden \cap Used(image) = {},
           NEW s \in Live(image), image.dir[s].file # job[r].file, image.dir[s].blocks # <<>>,
           NEW b \in hidden
    PROVE  job'[r].image.store[b] = image.store[b]
<1> USE ConstantsAssumption
<1>1. PICK f, data, old : f = job[r].file /\ data = job[r].data /\ old = Erased(image, f)
  OBVIOUS
<1>2. /\ image \in Images /\ Sound(image) /\ old \in Images /\ old.store = image.store
      /\ s \in Live(old) /\ old.dir[s] = image.dir[s] /\ Used(old) \subseteq Used(image)
      /\ data \in Data /\ s \in Slot
  BY <1>1, ErasedShape DEF Load, IndInv, JobType, Live
<1>3. /\ hidden = DirBlocks .. DirBlocks + HiddenBlocks - 1 /\ b \in Block /\ b \in Nat
      /\ b < DirBlocks + HiddenBlocks
  BY DEF IndInv, Block
<1>4. Used(old) # {}
  <2>1. image.dir[s].blocks \in Seq(Block)
    BY <1>2 DEF Images, Entry
  <2>2. 1 \in DOMAIN image.dir[s].blocks
    BY <2>1, EmptySeq, LenProperties
  <2>3. image.dir[s].blocks[1] \in BlocksIn(old.dir[s])
    BY <1>2, <2>2 DEF BlocksIn
  <2>4. \E t \in Live(old) : \E u : u \in BlocksIn(old.dir[t])
    BY <1>2, <2>3
  <2> QED BY <2>4 DEF Used
<1>5. ASSUME NEW u \in Used(old) PROVE b < u
  <2>1. u \in Used(image) /\ u \notin hidden
    BY <1>2
  <2>2. PICK t \in Live(image) : u \in BlocksIn(image.dir[t])
    BY <2>1 DEF Used
  <2>3. u >= DirBlocks
    BY <1>2, <2>2 DEF Sound
  <2>4. u \in Nat
    <3>1. image.dir[t].blocks \in Seq(Block)
      BY <1>2, <2>2 DEF Live, Images, Entry
    <3>2. u \in Block
      BY <2>2, <3>1, ElementOfSeq, LenProperties DEF BlocksIn
    <3> QED BY <3>2 DEF Block
  <2> QED BY <1>3, <2>1, <2>3, <2>4
<1>6. b \notin FreeBlocks(old)
  BY <1>3, <1>4, <1>5 DEF FreeBlocks, Reserved
<1>7. \E changed \in Images :
        /\ job'[r].image = changed
        /\ \/ changed = old
           \/ changed = Written(image, f, data) /\ Fits(image, f, data.records)
  <2>1. job' # [job EXCEPT ![r] = NoJob]
    BY IdleJob DEF IndInv
  <2>2. PICK changed \in Images :
          /\ job' = [job EXCEPT ![r] = [job[r] EXCEPT !.pc = "changed", !.image = changed]]
          /\ \/ changed = old
             \/ changed = Written(image, f, data) /\ Fits(image, f, data.records)
    BY <1>1, <2>1, LoadIs
  <2>3. job'[r].image = changed
    BY <2>2 DEF IndInv, JobType
  <2> QED BY <2>2, <2>3
<1>8. Fits(image, f, data.records) => Written(image, f, data).store[b] = old.store[b]
  <2> SUFFICES ASSUME Fits(image, f, data.records)
               PROVE  Written(image, f, data).store[b] = old.store[b]
    OBVIOUS
  <2>1. \A i \in 1 .. BlocksFor(data.records) : Nth(FreeBlocks(old), i) \in FreeBlocks(old)
    BY <1>1, <1>2, WrittenShape
  <2>2. \A i \in 1 .. BlocksFor(data.records) : b # Nth(FreeBlocks(old), i)
    BY <1>6, <2>1
  <2>3. \A c \in Block : (\A i \in 1 .. BlocksFor(data.records) : c # Nth(FreeBlocks(old), i))
           => Written(image, f, data).store[c] = old.store[c]
    BY <1>1, <1>2, WrittenShape, SMTT(30)
  <2> QED BY <1>3, <2>2, <2>3
<1> QED BY <1>2, <1>7, <1>8

\* A directory larger than the code knows of is not written over while another
\* file marks its end (cpm-filesystem.ts:880).
THEOREM HiddenDirectoryKept == Spec => HiddenDirectoryStays
<1>1. IndInv /\ [Next]_vars => IndInv'
  BY NextKeeps
<1>2. IndInv /\ [Next]_vars =>
        [\A r \in Req :
           /\ job[r].pc = "read" /\ job'[r].pc = "changed"
           /\ hidden \cap Used(image) = {}
           /\ \E s \in Live(image) :
                image.dir[s].file # job[r].file /\ image.dir[s].blocks # <<>>
           => \A b \in hidden : job'[r].image.store[b] = image.store[b]]_vars
  BY OnlyLoadChanges, LoadSparesHidden
<1> QED BY <1>1, <1>2, InitHolds, PTL DEF Spec, HiddenDirectoryStays

\* A file written or deleted leaves every other file as it is: its entries, and the
\* blocks that they name.
OthersKept(im, new, f) ==
    /\ \A s \in Live(im) : im.dir[s].file # f =>
         /\ new.dir[s] = im.dir[s]
         /\ \A b \in BlocksIn(im.dir[s]) : new.store[b] = im.store[b]
    /\ \A s \in Live(new) : new.dir[s].file # f => s \in Live(im) /\ new.dir[s] = im.dir[s]

\* Every block of what was written is in an entry of the file, in its place.
WholeFile(new, f, data) ==
    \A i \in 1 .. BlocksFor(data.records) :
        \E s \in Slot, k \in Nat, n \in Nat \ {0} :
            /\ new.dir[s].file = f /\ n \in DOMAIN new.dir[s].blocks
            /\ new.dir[s].extent = k * ExtentsPerEntry
            /\ k * BlocksPerEntry + n = i
            /\ new.store[new.dir[s].blocks[n]] = <<data.number, i>>

LEMMA ErasedKeepsOthers ==
    ASSUME NEW im \in Images, NEW f
    PROVE  OthersKept(im, Erased(im, f), f)
<1>1. PICK old : old = Erased(im, f)
  OBVIOUS
<1>2. /\ old.store = im.store /\ Live(im) \subseteq Slot
      /\ \A s \in Slot : old.dir[s] = IF im.dir[s].file = f THEN NoEntry ELSE im.dir[s]
      /\ Live(old) = {s \in Live(im) : im.dir[s].file # f}
  BY <1>1, ErasedShape DEF Live
<1> QED BY <1>1, <1>2 DEF OthersKept

LEMMA WrittenKeepsOthers ==
    ASSUME NEW im \in Images, NEW f \in File, NEW data \in Data, Fits(im, f, data.records)
    PROVE  OthersKept(im, Written(im, f, data), f)
<1>1. PICK old, new, free, slots, records :
        /\ old = Erased(im, f) /\ new = Written(im, f, data)
        /\ free = FreeBlocks(old) /\ slots = FreeSlots(old) /\ records = data.records
  OBVIOUS
<1>2. /\ old \in Images /\ old.store = im.store /\ Live(im) \subseteq Slot
      /\ \A s \in Slot : old.dir[s] = IF im.dir[s].file = f THEN NoEntry ELSE im.dir[s]
      /\ Live(old) = {s \in Live(im) : im.dir[s].file # f}
  BY <1>1, ErasedShape DEF Live
<1>3. free \cap Used(old) = {} /\ slots = Slot \ Live(old) /\ free \in SUBSET Block
  BY <1>1, <1>2, FreeSets DEF FreeSlots
<1>4. /\ \A k \in 1 .. EntriesFor(records) :
           /\ Nth(slots, k) \in slots
           /\ new.dir[Nth(slots, k)] = EntryOf(f, records, free, k)
      /\ \A i \in 1 .. BlocksFor(records) : Nth(free, i) \in free
      /\ \A s \in Slot : (\A k \in 1 .. EntriesFor(records) : s # Nth(slots, k))
           => new.dir[s] = old.dir[s]
      /\ \A b \in Block : (\A i \in 1 .. BlocksFor(records) : b # Nth(free, i))
           => new.store[b] = old.store[b]
  BY <1>1, WrittenShape
<1>5. ASSUME NEW s \in Live(im), im.dir[s].file # f
      PROVE  /\ new.dir[s] = im.dir[s]
             /\ \A b \in BlocksIn(im.dir[s]) : new.store[b] = im.store[b]
  <2>1. s \in Live(old) /\ s \in Slot /\ old.dir[s] = im.dir[s]
    BY <1>2, <1>5
  <2>2. new.dir[s] = im.dir[s]
    BY <1>3, <1>4, <2>1
  <2>3. ASSUME NEW b \in BlocksIn(im.dir[s]) PROVE new.store[b] = im.store[b]
    <3>1. b \in Used(old)
      BY <2>1 DEF Used
    <3>2. b \in Block
      <4>1. im.dir[s].blocks \in Seq(Block)
        BY <2>1 DEF Images, Entry
      <4> QED BY <4>1, ElementOfSeq, LenProperties DEF BlocksIn
    <3> QED BY <1>2, <1>3, <1>4, <3>1, <3>2
  <2> QED BY <2>2, <2>3
<1>6. ASSUME NEW s \in Live(new), new.dir[s].file # f
      PROVE  s \in Live(im) /\ new.dir[s] = im.dir[s]
  <2>1. s \in Slot
    BY DEF Live
  <2>2. \A k \in 1 .. EntriesFor(records) : EntryOf(f, records, free, k).file = f
    BY DEF EntryOf
  <2>3. new.dir[s] = old.dir[s]
    BY <1>4, <1>6, <2>1, <2>2
  <2>4. s \in Live(old)
    BY <2>1, <2>3 DEF Live
  <2> QED BY <1>2, <2>1, <2>3, <2>4
<1> QED BY <1>1, <1>5, <1>6 DEF OthersKept

LEMMA WrittenIsWhole ==
    ASSUME NEW im \in Images, NEW f \in File, NEW data \in Data, Fits(im, f, data.records)
    PROVE  WholeFile(Written(im, f, data), f, data)
<1> USE ConstantsAssumption
<1>1. PICK new, free, slots, records, entries :
        /\ new = Written(im, f, data) /\ records = data.records /\ entries = EntriesFor(records)
        /\ free = FreeBlocks(Erased(im, f)) /\ slots = FreeSlots(Erased(im, f))
  OBVIOUS
<1>2. free \in SUBSET Block /\ slots \subseteq Slot /\ records \in Nat
  BY <1>1, ErasedShape, FreeSets DEF Data
<1>3. /\ \A k \in 1 .. entries :
           /\ Nth(slots, k) \in slots
           /\ new.dir[Nth(slots, k)] = EntryOf(f, records, free, k)
      /\ \A i \in 1 .. BlocksFor(records) :
           Nth(free, i) \in free /\ new.store[Nth(free, i)] = <<data.number, i>>
  BY <1>1, WrittenShape
<1> SUFFICES WholeFile(new, f, data)
  BY <1>1, Zenon
<1> SUFFICES ASSUME NEW i \in 1 .. BlocksFor(records)
             PROVE  \E s \in Slot, k \in Nat, n \in Nat \ {0} :
                      /\ new.dir[s].file = f /\ n \in DOMAIN new.dir[s].blocks
                      /\ new.dir[s].extent = k * ExtentsPerEntry
                      /\ k * BlocksPerEntry + n = i
                      /\ new.store[new.dir[s].blocks[n]] = <<data.number, i>>
  <2>1. records = data.records
    BY <1>1, Zenon
  <2> QED BY <2>1, ZenonT(60) DEF WholeFile
<1>4. BlocksFor(records) \in Nat /\ entries \in Nat /\ records > 0
  <2>1. BlocksFor(records) \in Nat /\ entries \in Nat /\ (records = 0 => BlocksFor(records) = 0)
    BY <1>1, <1>2, LayoutOfFile, RoundUpBounds DEF BlocksFor
  <2> QED BY <1>2, <2>1
<1>5. PICK q : q = (i - 1) \div BlocksPerEntry
  OBVIOUS
<1>6. q \in Nat /\ q * BlocksPerEntry <= i - 1 /\ i - 1 < (q + 1) * BlocksPerEntry
  BY <1>4, <1>5
<1>7. PICK n : n = i - q * BlocksPerEntry
  OBVIOUS
<1>8. n \in Nat \ {0} /\ n <= BlocksPerEntry /\ q * BlocksPerEntry + n = i
  BY <1>4, <1>6, <1>7
<1>9. q + 1 \in 1 .. entries
  <2>1. BlocksFor(records) <= entries * BlocksPerEntry
    <3>1. entries = RoundUp(BlocksFor(records), BlocksPerEntry)
      BY <1>1, <1>4 DEF EntriesFor
    <3> QED BY <1>4, <3>1, RoundUpBounds
  <2>2. q * BlocksPerEntry < entries * BlocksPerEntry
    BY <1>4, <1>6, <2>1
  <2>3. q < entries
    <3>1. ASSUME q >= entries PROVE q * BlocksPerEntry >= entries * BlocksPerEntry
      BY <1>4, <1>6, <3>1
    <3> QED BY <1>4, <1>6, <2>2, <3>1
  <2> QED BY <1>4, <1>6, <2>3
<1>10. PICK entry : entry = EntryOf(f, records, free, q + 1)
  OBVIOUS
<1>11. n \in 1 .. HeldIn(records, q + 1)
  <2>1. HeldIn(records, q + 1) = IF BlocksPerEntry < BlocksFor(records) - q * BlocksPerEntry
                                 THEN BlocksPerEntry ELSE BlocksFor(records) - q * BlocksPerEntry
    BY <1>6 DEF HeldIn, AtMost
  <2> QED BY <1>4, <1>6, <1>8, <2>1
<1>12. /\ entry.file = f /\ n \in DOMAIN entry.blocks
       /\ entry.blocks[n] = Nth(free, q * BlocksPerEntry + n)
  <2>1. (q + 1) - 1 = q
    BY <1>6
  <2>2. /\ entry.file = f /\ DOMAIN entry.blocks = 1 .. HeldIn(records, q + 1)
        /\ \A m \in DOMAIN entry.blocks :
             entry.blocks[m] = Nth(free, ((q + 1) - 1) * BlocksPerEntry + m)
    <3>1. PICK k \in 1 .. EntriesFor(records) : k = q + 1
      BY <1>1, <1>9
    <3>2. \A m \in 1 .. BlocksFor(records) : Nth(free, m) \in free
      BY <1>3
    <3>3. LET e == EntryOf(f, records, free, k)
          IN /\ e \in Entry /\ e.file = f
             /\ DOMAIN e.blocks = 1 .. HeldIn(records, k)
             /\ \A m \in DOMAIN e.blocks :
                  /\ (k - 1) * BlocksPerEntry + m \in 1 .. BlocksFor(records)
                  /\ e.blocks[m] = Nth(free, (k - 1) * BlocksPerEntry + m)
      BY <1>2, <3>1, <3>2, EntryShape
    <3> QED BY <1>10, <3>1, <3>3
  <2> QED BY <1>11, <2>1, <2>2
<1>13. entry.extent = q * ExtentsPerEntry
  BY <1>6, <1>10 DEF EntryOf
<1>14. new.dir[Nth(slots, q + 1)] = entry /\ Nth(slots, q + 1) \in Slot
  BY <1>2, <1>3, <1>9, <1>10
<1> QED BY <1>3, <1>6, <1>8, <1>12, <1>13, <1>14

\* What a request makes of the image it has read leaves every other file as it is,
\* and has every block of its own file: for every geometry, size and directory
\* (writeFile and deleteFile, cpm-filesystem.ts).
THEOREM FilesCorrect ==
    Spec => [][\A r \in Req : job[r].pc = "read" /\ job'[r].pc = "changed" =>
                 /\ OthersKept(image, job'[r].image, job[r].file)
                 /\ ~job[r].data.deleted => WholeFile(job'[r].image, job[r].file, job[r].data)]_vars
<1>1. IndInv /\ [Next]_vars => IndInv'
  BY NextKeeps
<1>2. ASSUME IndInv, NEW r \in Req, Load(r), job'[r].pc = "changed"
      PROVE  /\ OthersKept(image, job'[r].image, job[r].file)
             /\ ~job[r].data.deleted => WholeFile(job'[r].image, job[r].file, job[r].data)
  <2>1. job[r].file \in File /\ job[r].data \in Data /\ image \in Images
    BY <1>2 DEF Load, IndInv, JobOK, JobType
  <2>2. job' # [job EXCEPT ![r] = NoJob]
    BY <1>2, IdleJob DEF IndInv
  <2>3. PICK new : /\ job'[r].image = new
                   /\ \/ job[r].data.deleted /\ new = Erased(image, job[r].file)
                      \/ /\ new = Written(image, job[r].file, job[r].data)
                         /\ Fits(image, job[r].file, job[r].data.records)
    <3>1. PICK changed \in Images :
            /\ job' = [job EXCEPT ![r] = [job[r] EXCEPT !.pc = "changed", !.image = changed]]
            /\ \/ job[r].data.deleted /\ changed = Erased(image, job[r].file)
               \/ /\ changed = Written(image, job[r].file, job[r].data)
                  /\ Fits(image, job[r].file, job[r].data.records)
      BY <1>2, <2>2, LoadIs
    <3>2. job'[r].image = changed
      BY <1>2, <3>1 DEF IndInv, JobType
    <3> QED BY <3>1, <3>2
  <2> QED BY <2>1, <2>3, ErasedKeepsOthers, WrittenKeepsOthers, WrittenIsWhole
<1>3. IndInv /\ [Next]_vars =>
        [\A r \in Req : job[r].pc = "read" /\ job'[r].pc = "changed" =>
           /\ OthersKept(image, job'[r].image, job[r].file)
           /\ ~job[r].data.deleted => WholeFile(job'[r].image, job[r].file, job[r].data)]_vars
  BY <1>2, OnlyLoadChanges
<1> QED BY <1>1, <1>3, InitHolds, PTL DEF Spec

-----------------------------------------------------------------------------
(* Concatenations *)

\* A set of numbers that is not empty has a least one.
LEMMA LeastNumber ==
    ASSUME NEW S \in SUBSET Nat, S # {}
    PROVE  \E n \in S : \A m \in S : n <= m
<1>1. PICK n \in S : \A m \in S : ~(<<m, n>> \in OpToRel(<, Nat))
  BY NatLessThanWellFounded, WFMin, Zenon
<1>2. \A m \in S : ~(m < n)
  BY <1>1 DEF OpToRel
<1> QED BY <1>2

\* What flatten is defined by in FlattenSeq, for the first n of some sequences.
Flattens(g, ss, n) == g = [i \in 1 .. n |-> IF i = 1 THEN ss[i] ELSE g[i - 1] \o ss[i]]

LEMMA FlatteningExists ==
    ASSUME NEW ss, NEW n \in Nat
    PROVE  \E g : Flattens(g, ss, n)
<1> SUFFICES ASSUME ~\E g : Flattens(g, ss, n) PROVE FALSE
  OBVIOUS
<1>0. PICK bad : bad = {m \in 0 .. n : ~\E g : Flattens(g, ss, m)}
  OBVIOUS
<1>1. PICK m \in bad : \A l \in bad : m <= l
  <2>1. n \in bad /\ bad \in SUBSET Nat
    BY <1>0
  <2> QED BY <2>1, LeastNumber
<1>2. m \in Nat /\ m <= n /\ ~\E g : Flattens(g, ss, m)
  BY <1>0, <1>1
<1>3. m # 0
  <2>1. PICK g : g = [i \in 1 .. 0 |-> ss[i]]
    OBVIOUS
  <2>2. Flattens(g, ss, 0)
    BY <2>1 DEF Flattens
  <2> QED BY <1>2, <2>2
<1>4. PICK g : Flattens(g, ss, m - 1)
  <2>1. m - 1 \in 0 .. n /\ ~(m <= m - 1)
    BY <1>2, <1>3
  <2> QED BY <1>0, <1>1, <2>1
<1>5. PICK h : h = [i \in 1 .. m |-> IF i = m THEN (IF m = 1 THEN ss[m] ELSE g[m - 1] \o ss[m])
                                     ELSE g[i]]
  OBVIOUS
<1>6. ASSUME NEW i \in 1 .. m
      PROVE  h[i] = IF i = 1 THEN ss[i] ELSE h[i - 1] \o ss[i]
  <2>1. CASE i = m /\ i = 1
    BY <1>5, <2>1
  <2>2. CASE i = m /\ i # 1
    <3>1. i - 1 \in 1 .. m /\ i - 1 # m
      BY <1>2, <2>2
    <3> QED BY <1>5, <2>2, <3>1
  <2>3. CASE i # m
    <3>1. i \in 1 .. m - 1 /\ (i # 1 => i - 1 \in 1 .. m - 1 /\ i - 1 \in 1 .. m /\ i - 1 # m)
      BY <1>2, <2>3
    <3>2. h[i] = g[i] /\ (i # 1 => h[i - 1] = g[i - 1])
      BY <1>5, <2>3, <3>1
    <3>3. g[i] = IF i = 1 THEN ss[i] ELSE g[i - 1] \o ss[i]
      BY <1>4, <3>1 DEF Flattens
    <3> QED BY <3>2, <3>3
  <2> QED BY <2>1, <2>2, <2>3
<1>7. Flattens(h, ss, m)
  BY <1>5, <1>6 DEF Flattens
<1> QED BY <1>2, <1>7

LEMMA FlattenSeqFlattens ==
    ASSUME NEW S, NEW ss \in Seq(S), Len(ss) # 0
    PROVE  \E g : Flattens(g, ss, Len(ss)) /\ FlattenSeq(ss) = g[Len(ss)]
<1>1. Len(ss) \in Nat
  BY LenProperties
<1> DEFINE g == CHOOSE g : g = [i \in 1 .. Len(ss) |-> IF i = 1 THEN ss[i] ELSE g[i - 1] \o ss[i]]
<1>2. Flattens(g, ss, Len(ss))
  <2>1. \E h : h = [i \in 1 .. Len(ss) |-> IF i = 1 THEN ss[i] ELSE h[i - 1] \o ss[i]]
    BY <1>1, FlatteningExists DEF Flattens
  <2>2. g = [i \in 1 .. Len(ss) |-> IF i = 1 THEN ss[i] ELSE g[i - 1] \o ss[i]]
    BY <2>1, Zenon
  <2> QED BY <2>2, Zenon DEF Flattens
<1>3. FlattenSeq(ss) = g[Len(ss)]
  BY Zenon DEF FlattenSeq
<1> QED BY <1>2, <1>3

\* Sequences of one length w, but for the last: the k-th begins after (k - 1) * w elements.
InPlace(g, ss, w, k) ==
    /\ g[k] \in Seq(Block) /\ Len(g[k]) = (k - 1) * w + Len(ss[k])
    /\ \A l \in 1 .. k : \A i \in 1 .. Len(ss[l]) : g[k][(l - 1) * w + i] = ss[l][i]

LEMMA OneMoreInPlace ==
    ASSUME NEW ss \in Seq(Seq(Block)), NEW w \in Nat, NEW g, NEW k \in 1 .. Len(ss), k # 1,
           \A l \in 1 .. Len(ss) : l < Len(ss) => Len(ss[l]) = w,
           g[k] = g[k - 1] \o ss[k], InPlace(g, ss, w, k - 1)
    PROVE  InPlace(g, ss, w, k)
<1>1. Len(ss) \in Nat /\ k \in Nat /\ k - 1 \in 1 .. Len(ss) /\ k - 1 < Len(ss)
  BY LenProperties
<1>2. \A l \in 1 .. Len(ss) : ss[l] \in Seq(Block) /\ Len(ss[l]) \in Nat
  BY LenProperties, ElementOfSeq
<1>3. PICK a : a = g[k - 1]
  OBVIOUS
<1>4. /\ a \in Seq(Block) /\ Len(a) = ((k - 1) - 1) * w + w
      /\ \A l \in 1 .. k - 1 : \A i \in 1 .. Len(ss[l]) : a[(l - 1) * w + i] = ss[l][i]
  BY <1>1, <1>3 DEF InPlace
<1>5. Len(a) = (k - 1) * w /\ Len(a) \in Nat
  BY <1>1, <1>4
<1>6. /\ g[k] \in Seq(Block) /\ Len(g[k]) = Len(a) + Len(ss[k])
      /\ \A i \in 1 .. Len(a) + Len(ss[k]) :
           g[k][i] = IF i <= Len(a) THEN a[i] ELSE ss[k][i - Len(a)]
  <2>1. PICK b : b = ss[k]
    OBVIOUS
  <2>2. b \in Seq(Block) /\ g[k] = a \o b
    BY <1>2, <1>3, <2>1
  <2>3. /\ a \o b \in Seq(Block) /\ Len(a \o b) = Len(a) + Len(b)
        /\ \A i \in 1 .. Len(a) + Len(b) : (a \o b)[i] = IF i <= Len(a) THEN a[i] ELSE b[i - Len(a)]
    BY <1>4, <2>2, ConcatProperties
  <2> QED BY <2>1, <2>2, <2>3
<1>7. ASSUME NEW l \in 1 .. k, NEW i \in 1 .. Len(ss[l])
      PROVE  g[k][(l - 1) * w + i] = ss[l][i]
  <2>1. CASE l = k
    <3>1. PICK n : n = (l - 1) * w + i
      OBVIOUS
    <3>2. n = Len(a) + i /\ i \in 1 .. Len(ss[k]) /\ Len(ss[k]) \in Nat
      BY <1>2, <1>5, <2>1, <3>1
    <3>3. n \in 1 .. Len(a) + Len(ss[k]) /\ ~(n <= Len(a)) /\ n - Len(a) = i
      <4>1. PICK x, y : x = Len(a) /\ y = Len(ss[k])
        OBVIOUS
      <4>2. x \in Nat /\ y \in Nat /\ n = x + i /\ i \in 1 .. y
        BY <1>5, <3>2, <4>1
      <4>3. n \in 1 .. x + y /\ ~(n <= x) /\ n - x = i
        BY <4>2
      <4> QED BY <4>1, <4>3, Zenon
    <3>4. g[k][n] = ss[k][i]
      BY <1>6, <3>3
    <3> QED BY <2>1, <3>1, <3>4, Zenon
  <2>2. CASE l # k
    <3>1. l \in 1 .. k - 1 /\ l \in 1 .. Len(ss) /\ l < Len(ss) /\ Len(ss[l]) = w
      BY <1>1, <2>2
    <3>2. PICK before : before = (l - 1) * w
      OBVIOUS
    <3>3. before \in Nat /\ before + w <= Len(a)
      <4>1. PICK d \in Nat : k - 1 = l + d
        <5>1. k - 1 - l \in Nat /\ k - 1 = l + (k - 1 - l)
          BY <1>1, <3>1
        <5> QED BY <5>1
      <4>2. (k - 1) * w = (l - 1) * w + w + d * w /\ d * w \in Nat
        BY <3>1, <4>1
      <4>3. before \in Nat
        BY <3>1, <3>2
      <4>4. PICK more : more = d * w
        OBVIOUS
      <4>5. Len(a) = before + w + more /\ more \in Nat
        BY <1>5, <3>2, <4>2, <4>4, Zenon
      <4> QED BY <4>3, <4>5
    <3>4. PICK n : n = before + i
      OBVIOUS
    <3>5. n \in 1 .. Len(a) + Len(ss[k]) /\ n <= Len(a)
      <4>1. i \in Nat /\ 1 <= i /\ i <= w /\ Len(ss[k]) \in Nat
        BY <1>2, <3>1
      <4>2. PICK x : x = Len(a)
        OBVIOUS
      <4>3. x \in Nat /\ before \in Nat /\ before + w <= x
        BY <1>5, <3>3, <4>2
      <4>4. n \in 1 .. x + Len(ss[k]) /\ n <= x
        BY <3>4, <4>1, <4>3
      <4> QED BY <4>2, <4>4, Zenon
    <3>6. a[(l - 1) * w + i] = ss[l][i]
      BY <1>4, <3>1, Zenon
    <3>7. g[k][n] = a[n]
      BY <1>6, <3>5
    <3> QED BY <3>2, <3>4, <3>6, <3>7, Zenon
  <2> QED BY <2>1, <2>2
<1> QED BY <1>5, <1>6, <1>7 DEF InPlace

LEMMA FlattenSeqIs ==
    ASSUME NEW ss \in Seq(Seq(Block)), Len(ss) # 0, NEW w \in Nat,
           \A l \in 1 .. Len(ss) : l < Len(ss) => Len(ss[l]) = w
    PROVE  /\ FlattenSeq(ss) \in Seq(Block)
           /\ Len(FlattenSeq(ss)) = (Len(ss) - 1) * w + Len(ss[Len(ss)])
           /\ \A l \in 1 .. Len(ss) : \A i \in 1 .. Len(ss[l]) :
                FlattenSeq(ss)[(l - 1) * w + i] = ss[l][i]
<1>1. PICK g : Flattens(g, ss, Len(ss)) /\ FlattenSeq(ss) = g[Len(ss)]
  BY FlattenSeqFlattens
<1>2. Len(ss) \in Nat /\ 1 \in 1 .. Len(ss) /\ Len(ss) \in 1 .. Len(ss)
  BY LenProperties
<1>3. \A k \in 1 .. Len(ss) : g[k] = IF k = 1 THEN ss[k] ELSE g[k - 1] \o ss[k]
  BY <1>1 DEF Flattens
<1>4. InPlace(g, ss, w, Len(ss))
  <2> SUFFICES ASSUME ~InPlace(g, ss, w, Len(ss)) PROVE FALSE
    OBVIOUS
  <2>1. PICK bad : bad = {k \in 1 .. Len(ss) : ~InPlace(g, ss, w, k)}
    OBVIOUS
  <2>2. PICK k \in bad : \A l \in bad : k <= l
    <3>1. Len(ss) \in bad /\ bad \in SUBSET Nat
      BY <1>2, <2>1
    <3> QED BY <3>1, LeastNumber
  <2>3. k \in 1 .. Len(ss) /\ ~InPlace(g, ss, w, k)
    BY <2>1, <2>2
  <2>4. CASE k = 1
    <3>1. g[1] = ss[1] /\ ss[1] \in Seq(Block) /\ Len(ss[1]) \in Nat
      BY <1>2, <1>3, ElementOfSeq, LenProperties
    <3>2. \A l \in 1 .. 1 : l = 1
      OBVIOUS
    <3>3. (1 - 1) * w + Len(ss[1]) = Len(ss[1]) /\ \A i \in 1 .. Len(ss[1]) : (1 - 1) * w + i = i
      <4>1. PICK z : z = (1 - 1) * w
        OBVIOUS
      <4>2. z = 0
        BY <4>1
      <4>3. z + Len(ss[1]) = Len(ss[1]) /\ \A i \in 1 .. Len(ss[1]) : z + i = i
        BY <3>1, <4>2
      <4> QED BY <4>1, <4>3, Zenon
    <3>4. InPlace(g, ss, w, 1)
      BY <3>1, <3>2, <3>3 DEF InPlace
    <3> QED BY <2>3, <2>4, <3>4
  <2>5. CASE k # 1
    <3>1. k - 1 \in 1 .. Len(ss) /\ ~(k <= k - 1)
      BY <1>2, <2>3, <2>5
    <3>2. InPlace(g, ss, w, k - 1)
      BY <2>1, <2>2, <3>1
    <3>3. g[k] = g[k - 1] \o ss[k]
      BY <1>3, <2>3, <2>5
    <3> QED BY <2>3, <2>5, <3>2, <3>3, OneMoreInPlace
  <2> QED BY <2>4, <2>5
<1> QED BY <1>1, <1>4 DEF InPlace

-----------------------------------------------------------------------------
(* A file that was written whole, as a reader finds it *)

LEMMA LayoutFills ==
    ASSUME NEW records \in Nat
    PROVE  LET last == EntriesFor(records)
           IN /\ (last - 1) * BlocksPerEntry + HeldIn(records, last) = BlocksFor(records)
              /\ \A k \in 1 .. last : k < last => HeldIn(records, k) = BlocksPerEntry
              /\ records - (last - 1) * BlocksPerEntry * RecordsPerBlock \in 0 .. RecordsPerEntry
<1> USE ConstantsAssumption
<1>1. PICK blocks, last, before :
        /\ blocks = BlocksFor(records) /\ last = EntriesFor(records)
        /\ before = (last - 1) * BlocksPerEntry
  OBVIOUS
<1>2. /\ blocks \in Nat /\ last \in Nat \ {0} /\ before <= blocks
      /\ before * RecordsPerBlock <= records
  BY <1>1, LayoutOfFile
<1>3. before \in Nat /\ before * RecordsPerBlock \in Nat
  BY <1>1, <1>2
<1>4. blocks <= before + BlocksPerEntry
  <2>1. CASE records = 0
    BY <1>1, <1>3, <2>1, RoundUpBounds DEF BlocksFor
  <2>2. CASE records # 0
    <3>1. blocks <= last * BlocksPerEntry
      BY <1>1, <1>2, <2>2, RoundUpBounds DEF EntriesFor
    <3>2. last * BlocksPerEntry = before + BlocksPerEntry
      BY <1>1, <1>2
    <3> QED BY <3>1, <3>2
  <2> QED BY <2>1, <2>2
<1>5. HeldIn(records, last) = blocks - before
  <2>1. HeldIn(records, last) = IF BlocksPerEntry < blocks - before THEN BlocksPerEntry ELSE blocks - before
    BY <1>1 DEF HeldIn, AtMost
  <2> QED BY <1>2, <1>3, <1>4, <2>1
<1>6. ASSUME NEW k \in 1 .. last, k < last
      PROVE  HeldIn(records, k) = BlocksPerEntry
  <2>1. PICK start : start = (k - 1) * BlocksPerEntry
    OBVIOUS
  <2>2. start \in Nat /\ start + BlocksPerEntry <= before
    <3>1. PICK d \in Nat : last - 1 = k + d
      <4>1. last - 1 - k \in Nat /\ last - 1 = k + (last - 1 - k)
        BY <1>2, <1>6
      <4> QED BY <4>1
    <3>2. before = start + BlocksPerEntry + d * BlocksPerEntry /\ d * BlocksPerEntry \in Nat
      BY <1>1, <2>1, <3>1
    <3>3. start \in Nat
      BY <1>2, <2>1
    <3> QED BY <3>2, <3>3
  <2>3. HeldIn(records, k) = IF BlocksPerEntry < blocks - start THEN BlocksPerEntry ELSE blocks - start
    BY <1>1, <2>1 DEF HeldIn, AtMost
  <2> QED BY <1>2, <1>3, <2>2, <2>3
<1>7. records - before * RecordsPerBlock \in 0 .. RecordsPerEntry
  <2>1. records <= blocks * RecordsPerBlock
    BY <1>1, RoundUpBounds DEF BlocksFor
  <2>2. PICK d \in Nat : before + BlocksPerEntry = blocks + d
    <3>1. before + BlocksPerEntry - blocks \in Nat
          /\ before + BlocksPerEntry = blocks + (before + BlocksPerEntry - blocks)
      BY <1>2, <1>3, <1>4
    <3> QED BY <3>1
  <2>3. (before + BlocksPerEntry) * RecordsPerBlock = blocks * RecordsPerBlock + d * RecordsPerBlock
        /\ d * RecordsPerBlock \in Nat /\ blocks * RecordsPerBlock \in Nat
    BY <1>2, <2>2
  <2>4. (before + BlocksPerEntry) * RecordsPerBlock = before * RecordsPerBlock + RecordsPerEntry
        /\ RecordsPerEntry \in Nat
    BY <1>3 DEF RecordsPerEntry
  <2> QED BY <1>2, <1>3, <2>1, <2>3, <2>4
<1>8. /\ before + HeldIn(records, last) = blocks
      /\ \A k \in 1 .. last : k < last => HeldIn(records, k) = BlocksPerEntry
  BY <1>2, <1>3, <1>5, <1>6
<1> QED BY <1>1, <1>7, <1>8, Zenon

\* Every block of a file is in one of its entries.
LEMMA LayoutCovers ==
    ASSUME NEW records \in Nat, NEW i \in 1 .. BlocksFor(records)
    PROVE  \E k \in 1 .. EntriesFor(records) : \E n \in 1 .. HeldIn(records, k) :
               (k - 1) * BlocksPerEntry + n = i
<1> USE ConstantsAssumption
<1>1. PICK blocks, last, before :
        /\ blocks = BlocksFor(records) /\ last = EntriesFor(records)
        /\ before = (last - 1) * BlocksPerEntry
  OBVIOUS
<1>2. blocks \in Nat /\ last \in Nat \ {0} /\ before \in Nat
      /\ before + HeldIn(records, last) = blocks
      /\ \A k \in 1 .. last : k < last => HeldIn(records, k) = BlocksPerEntry
  <2>1. blocks \in Nat /\ last \in Nat \ {0}
    BY <1>1, LayoutOfFile
  <2>2. before + HeldIn(records, last) = blocks
        /\ \A k \in 1 .. last : k < last => HeldIn(records, k) = BlocksPerEntry
    BY <1>1, LayoutFills, Zenon
  <2>3. before \in Nat
    BY <1>1, <2>1
  <2> QED BY <2>1, <2>2, <2>3
<1>3. CASE i > before
  <2>1. i - before \in 1 .. HeldIn(records, last) /\ before + (i - before) = i /\ last \in 1 .. last
    <3>1. HeldIn(records, last) = blocks - before
      BY <1>2, LayoutOfEntry, <1>1
    <3> QED BY <1>1, <1>2, <1>3, <3>1
  <2> QED BY <1>1, <2>1
<1>4. CASE i <= before
  <2>1. PICK q : q = (i - 1) \div BlocksPerEntry
    OBVIOUS
  <2>2. q \in Nat /\ q * BlocksPerEntry <= i - 1 /\ i - 1 < (q + 1) * BlocksPerEntry
    BY <1>1, <1>2, <2>1
  <2>3. PICK n : n = i - q * BlocksPerEntry
    OBVIOUS
  <2>4. n \in 1 .. BlocksPerEntry /\ q * BlocksPerEntry + n = i
    BY <1>1, <1>2, <2>2, <2>3
  <2>5. q < last - 1
    <3> SUFFICES ASSUME ~(q < last - 1) PROVE FALSE
      OBVIOUS
    <3>1. PICK d \in Nat : q = (last - 1) + d
      <4>1. q - (last - 1) \in Nat /\ q = (last - 1) + (q - (last - 1))
        BY <1>2, <2>2
      <4> QED BY <4>1
    <3>2. q * BlocksPerEntry = before + d * BlocksPerEntry /\ d * BlocksPerEntry \in Nat
      BY <1>1, <1>2, <3>1
    <3> QED BY <1>1, <1>2, <1>4, <2>2, <3>2
  <2>6. q + 1 \in 1 .. last /\ q + 1 < last /\ (q + 1) - 1 = q
    BY <1>2, <2>2, <2>5
  <2>7. HeldIn(records, q + 1) = BlocksPerEntry
    BY <1>2, <2>6
  <2> QED BY <1>1, <2>4, <2>6, <2>7
<1> QED BY <1>1, <1>2, <1>3, <1>4

LEMMA AsManyAs ==
    ASSUME NEW n \in Nat, NEW e, \A i, j \in 1 .. n : e[i] = e[j] => i = j
    PROVE  Cardinality({e[k] : k \in 1 .. n}) = n
<1>1. PICK b : b = [k \in 1 .. n |-> e[k]]
  OBVIOUS
<1>2. b \in Bijection(1 .. n, {e[k] : k \in 1 .. n})
  BY <1>1 DEF Bijection, Injection, Surjection, IsInjective
<1>3. IsFiniteSet(1 .. n) /\ Cardinality(1 .. n) = n
  <2>1. 1 \in Int /\ n \in Int /\ (1 > n => n = 0)
    OBVIOUS
  <2> QED BY <2>1, FS_Interval
<1> QED BY <1>2, <1>3, FS_Bijection DEF ExistsBijection

\* The k-th entry of file f is e[k], and it has its part of the data of a request.
Placed(im, f, number, records, e) ==
    /\ e \in [1 .. EntriesFor(records) -> Slot]
    /\ SlotsOf(im, f) = {e[k] : k \in 1 .. EntriesFor(records)}
    /\ \A k \in 1 .. EntriesFor(records) :
         /\ im.dir[e[k]].extent = (k - 1) * ExtentsPerEntry
         /\ Len(im.dir[e[k]].blocks) = HeldIn(records, k)
         /\ \A i \in 1 .. HeldIn(records, k) :
              im.store[im.dir[e[k]].blocks[i]] = <<number, (k - 1) * BlocksPerEntry + i>>
    /\ im.dir[e[EntriesFor(records)]].rc =
         LastCount(records - (EntriesFor(records) - 1) * BlocksPerEntry * RecordsPerBlock)

\* An extent of a reader is one entry: the geometries that the code finds in an image.
LEMMA OneExtent ==
    ASSUME RecordsPerEntry <= RecordsPerExtent
    PROVE  ExtentsPerEntry = 1
<1>1. RecordsPerEntry \in Nat /\ RecordsPerExtent \in Nat \ {0}
  BY ConstantsAssumption DEF RecordsPerEntry
<1>2. CASE RecordsPerEntry < RecordsPerExtent
  BY <1>2 DEF ExtentsPerEntry
<1>3. CASE ~(RecordsPerEntry < RecordsPerExtent)
  <2>1. RecordsPerEntry = RecordsPerExtent
    BY <1>1, <1>3
  <2>2. RecordsPerExtent \div RecordsPerExtent = 1
    BY <1>1
  <2> QED BY <1>3, <2>1, <2>2 DEF ExtentsPerEntry
<1> QED BY <1>2, <1>3

LEMMA ExtentsInOrder ==
    ASSUME RecordsPerEntry <= RecordsPerExtent, NEW im, NEW f, NEW number, NEW records \in Nat, NEW e,
           Placed(im, f, number, records, e)
    PROVE  Extents(im, f) = [k \in 1 .. EntriesFor(records) |-> im.dir[e[k]]]
<1>1. PICK last, slots : last = EntriesFor(records) /\ slots = SlotsOf(im, f)
  OBVIOUS
<1>2. last \in Nat \ {0} /\ slots = {e[k] : k \in 1 .. last}
      /\ \A k \in 1 .. last : im.dir[e[k]].extent = k - 1
  <2>1. last \in Nat \ {0}
    BY <1>1, LayoutOfFile
  <2>2. slots = {e[k] : k \in 1 .. last}
        /\ \A k \in 1 .. last : im.dir[e[k]].extent = (k - 1) * 1
    BY <1>1, OneExtent DEF Placed
  <2>3. \A k \in 1 .. last : (k - 1) * 1 = k - 1
    BY <2>1
  <2> QED BY <2>1, <2>2, <2>3
<1>3. \A i, j \in 1 .. last : e[i] = e[j] => i = j
  <2> SUFFICES ASSUME NEW i \in 1 .. last, NEW j \in 1 .. last, e[i] = e[j] PROVE i = j
    OBVIOUS
  <2>1. i - 1 = j - 1
    BY <1>2
  <2> QED BY <1>2, <2>1
<1>4. Cardinality(slots) = last
  <2>1. Cardinality({e[k] : k \in 1 .. last}) = last
    BY <1>2, <1>3, AsManyAs
  <2> QED BY <1>2, <2>1
<1>5. ASSUME NEW k \in 1 .. last
      PROVE  Cardinality({t \in slots : im.dir[t].extent < im.dir[e[k]].extent}) = k - 1
  <2>1. \A i \in 1 .. last : im.dir[e[i]].extent < im.dir[e[k]].extent <=> i \in 1 .. k - 1
    <3> SUFFICES ASSUME NEW i \in 1 .. last
                 PROVE  im.dir[e[i]].extent < im.dir[e[k]].extent <=> i \in 1 .. k - 1
      OBVIOUS
    <3>1. im.dir[e[i]].extent = i - 1 /\ im.dir[e[k]].extent = k - 1 /\ i \in Nat /\ k \in Nat
      BY <1>2
    <3> QED BY <3>1
  <2>2. k - 1 \in Nat /\ \A i \in 1 .. k - 1 : i \in 1 .. last
    BY <1>2
  <2>3. {t \in slots : im.dir[t].extent < im.dir[e[k]].extent} = {e[i] : i \in 1 .. k - 1}
    BY <1>2, <2>1, <2>2
  <2>4. Cardinality({e[i] : i \in 1 .. k - 1}) = k - 1
    BY <1>3, <2>2, AsManyAs
  <2> QED BY <2>3, <2>4
<1>6. ASSUME NEW k \in 1 .. last
      PROVE  (CHOOSE s \in slots : Cardinality({t \in slots : im.dir[t].extent < im.dir[s].extent}) = k - 1)
             = e[k]
  <2>1. e[k] \in slots
    BY <1>2
  <2>2. ASSUME NEW s \in slots,
               Cardinality({t \in slots : im.dir[t].extent < im.dir[s].extent}) = k - 1
        PROVE  s = e[k]
    <3>1. PICK i \in 1 .. last : s = e[i]
      BY <1>2
    <3>2. i - 1 = k - 1
      BY <1>5, <2>2, <3>1
    <3> QED BY <1>2, <3>1, <3>2
  <2> QED BY <1>5, <2>1, <2>2
<1>7. Extents(im, f) = [k \in 1 .. Cardinality(slots) |-> im.dir[
          CHOOSE s \in slots : Cardinality({t \in slots : im.dir[t].extent < im.dir[s].extent}) = k - 1]]
  BY <1>1 DEF Extents
<1> QED BY <1>1, <1>4, <1>6, <1>7

LEMMA EntryHasBlocks ==
    ASSUME NEW entry \in Entry
    PROVE  entry.blocks \in Seq(Block) /\ entry.extent \in Nat /\ entry.rc \in Nat
<1>1. entry.blocks \in Seq(Block) /\ entry.extent \in Nat /\ entry.rc \in 0 .. RecordsPerExtent
  BY DEF Entry
<1> QED BY <1>1, ConstantsAssumption

\* All entries but the last are full.
LEMMA BlocksInPlace ==
    ASSUME NEW entries \in Seq(Entry), Len(entries) # 0,
           \A l \in 1 .. Len(entries) : l < Len(entries) => Len(entries[l].blocks) = BlocksPerEntry
    PROVE  /\ BlocksOf(entries) \in Seq(Block)
           /\ Len(BlocksOf(entries)) =
                (Len(entries) - 1) * BlocksPerEntry + Len(entries[Len(entries)].blocks)
           /\ \A l \in 1 .. Len(entries) : \A i \in 1 .. Len(entries[l].blocks) :
                BlocksOf(entries)[(l - 1) * BlocksPerEntry + i] = entries[l].blocks[i]
<1>1. Len(entries) \in Nat /\ DOMAIN entries = 1 .. Len(entries)
  BY LenProperties
<1>2. PICK ss : ss = [k \in 1 .. Len(entries) |-> entries[k].blocks]
  OBVIOUS
<1>3. ss \in Seq(Seq(Block)) /\ Len(ss) = Len(entries)
      /\ \A l \in 1 .. Len(entries) : ss[l] = entries[l].blocks
  <2>1. \A l \in 1 .. Len(entries) : entries[l].blocks \in Seq(Block)
    BY <1>1, ElementOfSeq, EntryHasBlocks
  <2>2. ss \in Seq(Seq(Block))
    BY <1>1, <1>2, <2>1, SeqDef
  <2>3. DOMAIN ss = 1 .. Len(entries)
    BY <1>2
  <2>4. Len(ss) = Len(entries)
    BY <1>1, <2>2, <2>3, LenProperties
  <2> QED BY <1>2, <2>2, <2>4
<1>4. BlocksOf(entries) = FlattenSeq(ss)
  BY <1>1, <1>2 DEF BlocksOf
<1>5. BlocksPerEntry \in Nat
  BY ConstantsAssumption
<1>6. /\ FlattenSeq(ss) \in Seq(Block)
      /\ Len(FlattenSeq(ss)) = (Len(ss) - 1) * BlocksPerEntry + Len(ss[Len(ss)])
      /\ \A l \in 1 .. Len(ss) : \A i \in 1 .. Len(ss[l]) :
           FlattenSeq(ss)[(l - 1) * BlocksPerEntry + i] = ss[l][i]
  <2>1. \A l \in 1 .. Len(ss) : l < Len(ss) => Len(ss[l]) = BlocksPerEntry
    BY <1>3
  <2>2. Len(ss) # 0
    BY <1>3
  <2> QED BY <1>3, <1>5, <2>1, <2>2, FlattenSeqIs
<1>7. /\ ss[Len(entries)] = entries[Len(entries)].blocks
      /\ Len(BlocksOf(entries)) = (Len(entries) - 1) * BlocksPerEntry + Len(ss[Len(entries)])
  BY <1>1, <1>3, <1>4, <1>6
<1>8. \A l \in 1 .. Len(entries) : \A i \in 1 .. Len(ss[l]) :
        BlocksOf(entries)[(l - 1) * BlocksPerEntry + i] = ss[l][i]
  BY <1>3, <1>4, <1>6
<1>9. \A l \in 1 .. Len(entries) : \A i \in 1 .. Len(entries[l].blocks) :
        BlocksOf(entries)[(l - 1) * BlocksPerEntry + i] = entries[l].blocks[i]
  BY <1>3, <1>8
<1> QED BY <1>4, <1>6, <1>7, <1>9

LEMMA BlocksOfFront ==
    ASSUME NEW entries \in Seq(Entry), Len(entries) # 0,
           \A l \in 1 .. Len(entries) : l < Len(entries) => Len(entries[l].blocks) = BlocksPerEntry
    PROVE  Len(BlocksOf(Front(entries))) = (Len(entries) - 1) * BlocksPerEntry
<1>1. PICK n, front : n = Len(entries) - 1 /\ front = Front(entries)
  OBVIOUS
<1>2. n \in Nat /\ Len(entries) = n + 1 /\ \A i \in 1 .. n : i \in 1 .. Len(entries) /\ i < Len(entries)
  <2>1. Len(entries) \in Nat
    BY LenProperties
  <2> QED BY <1>1, <2>1
<1>3. front \in Seq(Entry) /\ Len(front) = n /\ \A i \in 1 .. n : front[i] = entries[i]
  <2>1. \A i \in 1 .. n : entries[i] \in Entry
    BY <1>2, ElementOfSeq
  <2>2. 1 \in Int /\ n \in Int /\ (IF 1 <= n THEN n - 1 + 1 ELSE 0) = n /\ n - 1 + 1 = n
        /\ \A i \in 1 .. n : 1 + i - 1 = i
    BY <1>2
  <2>3. front = SubSeq(entries, 1, n)
    BY <1>1 DEF Front
  <2>4. /\ SubSeq(entries, 1, n) \in Seq(Entry)
        /\ Len(SubSeq(entries, 1, n)) = IF 1 <= n THEN n - 1 + 1 ELSE 0
        /\ \A i \in 1 .. n - 1 + 1 : SubSeq(entries, 1, n)[i] = entries[1 + i - 1]
    BY <2>1, <2>2, SubSeqProperties
  <2> QED BY <2>2, <2>3, <2>4
<1>4. CASE n = 0
  <2>1. DOMAIN front = 1 .. 0
    BY <1>3, <1>4, LenProperties
  <2>2. PICK ss : ss = [k \in DOMAIN front |-> front[k].blocks]
    OBVIOUS
  <2>3. Len(ss) = 0
    <3>1. ss \in Seq(Seq(Block)) /\ DOMAIN ss = 1 .. 0
      <4>1. ss = [k \in 1 .. 0 |-> front[k].blocks] /\ 0 \in Nat
        BY <2>1, <2>2
      <4>2. \A k \in 1 .. 0 : front[k].blocks \in Seq(Block)
        OBVIOUS
      <4> QED BY <4>1, <4>2, SeqDef
    <3>2. Len(ss) \in Nat /\ DOMAIN ss = 1 .. Len(ss)
      BY <3>1, LenProperties
    <3>3. Len(ss) # 0 => 1 \in 1 .. 0
      BY <3>1, <3>2
    <3> QED BY <3>3
  <2>4. BlocksOf(front) = ss
    BY <2>2, <2>3 DEF BlocksOf, FlattenSeq
  <2>5. n * BlocksPerEntry = 0
    BY <1>4, ConstantsAssumption
  <2> QED BY <1>1, <2>3, <2>4, <2>5
<1>5. CASE n # 0
  <2>1. /\ n \in 1 .. n /\ n < Len(entries) /\ n \in 1 .. Len(entries)
        /\ \A l \in 1 .. n : Len(front[l].blocks) = BlocksPerEntry
    BY <1>2, <1>3, <1>5
  <2>2. Len(BlocksOf(front)) = (Len(front) - 1) * BlocksPerEntry + Len(front[Len(front)].blocks)
    BY <1>3, <1>5, <2>1, BlocksInPlace
  <2>3. Len(BlocksOf(front)) = (n - 1) * BlocksPerEntry + BlocksPerEntry
    BY <1>3, <2>1, <2>2
  <2>4. (n - 1) * BlocksPerEntry + BlocksPerEntry = n * BlocksPerEntry
    BY <1>2, ConstantsAssumption
  <2> QED BY <1>1, <2>3, <2>4
<1> QED BY <1>4, <1>5

LEMMA WholeSequence ==
    ASSUME NEW S, NEW s \in Seq(S), NEW n \in Nat, Len(s) = n
    PROVE  SubSeq(s, 1, n) = s
<1>1. DOMAIN s = 1 .. n /\ \A i \in 1 .. n : s[i] \in S
  BY LenProperties, ElementOfSeq
<1>2. 1 \in Int /\ n \in Int /\ (IF 1 <= n THEN n - 1 + 1 ELSE 0) = n /\ n - 1 + 1 = n
      /\ \A i \in 1 .. n : 1 + i - 1 = i
  OBVIOUS
<1>3. PICK t : t = SubSeq(s, 1, n)
  OBVIOUS
<1>4. /\ t \in Seq(S) /\ Len(t) = n /\ \A i \in 1 .. n : t[i] = s[i]
  <2>1. /\ SubSeq(s, 1, n) \in Seq(S)
        /\ Len(SubSeq(s, 1, n)) = IF 1 <= n THEN n - 1 + 1 ELSE 0
        /\ \A i \in 1 .. n - 1 + 1 : SubSeq(s, 1, n)[i] = s[1 + i - 1]
    BY <1>1, <1>2, SubSeqProperties
  <2> QED BY <1>2, <1>3, <2>1
<1> QED BY <1>1, <1>3, <1>4, SeqEqual

\* A file whose entries are all placed reads back as it was written.
LEMMA PlacedReads ==
    ASSUME RecordsPerEntry <= RecordsPerExtent, NEW im \in Images, NEW f, NEW number \in Nat,
           NEW records \in Nat, NEW e, Placed(im, f, number, records, e)
    PROVE  Held(im, f) = Whole(number, records)
<1> USE ConstantsAssumption
<1>1. PICK last, entries : last = EntriesFor(records) /\ entries = [k \in 1 .. last |-> im.dir[e[k]]]
  OBVIOUS
<1>2. Extents(im, f) = entries
  BY <1>1, ExtentsInOrder
<1>0. EntriesFor(records) \in Nat \ {0} /\ BlocksFor(records) \in Nat
  BY LayoutOfFile
<1>3. last \in Nat \ {0} /\ last \in 1 .. last
  <2>1. last \in Nat \ {0}
    BY <1>0, <1>1
  <2> QED BY <2>1
<1>4. entries \in Seq(Entry) /\ Len(entries) = last /\ \A k \in 1 .. last : entries[k] = im.dir[e[k]]
  <2>1. \A k \in 1 .. last : im.dir[e[k]] \in Entry
    BY <1>1 DEF Placed, Images
  <2>2. entries \in Seq(Entry)
    BY <1>1, <1>3, <2>1, SeqDef
  <2>3. DOMAIN entries = 1 .. last
    BY <1>1
  <2>4. Len(entries) = last
    BY <1>3, <2>2, <2>3, LenProperties
  <2> QED BY <1>1, <2>2, <2>4
<1>5. /\ \A k \in 1 .. last : /\ entries[k].extent = (k - 1) * ExtentsPerEntry
                              /\ Len(entries[k].blocks) = HeldIn(records, k)
      /\ entries[last].rc = LastCount(records - (last - 1) * BlocksPerEntry * RecordsPerBlock)
  BY <1>1, <1>3, <1>4 DEF Placed
<1>6. PICK before, total : before = (last - 1) * BlocksPerEntry /\ total = BlocksFor(records)
  OBVIOUS
<1>7. before \in Nat /\ total \in Nat
  BY <1>0, <1>3, <1>6
<1>8. /\ before + HeldIn(records, last) = total
      /\ \A k \in 1 .. last : k < last => HeldIn(records, k) = BlocksPerEntry
      /\ records - before * RecordsPerBlock \in 0 .. RecordsPerEntry
  BY <1>1, <1>6, LayoutFills, Zenon
<1>9. PICK blocks : blocks = BlocksOf(entries)
  OBVIOUS
<1>10. /\ blocks \in Seq(Block) /\ Len(blocks) = total
       /\ \A k \in 1 .. last : \A i \in 1 .. HeldIn(records, k) :
            blocks[(k - 1) * BlocksPerEntry + i] = entries[k].blocks[i]
  <2>1. Len(entries) # 0 /\ \A l \in 1 .. Len(entries) : l < Len(entries) => Len(entries[l].blocks) = BlocksPerEntry
    BY <1>3, <1>4, <1>5, <1>8
  <2>2. /\ blocks \in Seq(Block)
        /\ Len(blocks) = (Len(entries) - 1) * BlocksPerEntry + Len(entries[Len(entries)].blocks)
        /\ \A l \in 1 .. Len(entries) : \A i \in 1 .. Len(entries[l].blocks) :
             blocks[(l - 1) * BlocksPerEntry + i] = entries[l].blocks[i]
    BY <1>4, <1>9, <2>1, BlocksInPlace
  <2>3. Len(blocks) = before + HeldIn(records, last)
    BY <1>3, <1>4, <1>5, <1>6, <2>2
  <2>4. \A k \in 1 .. last : \A i \in 1 .. HeldIn(records, k) :
          blocks[(k - 1) * BlocksPerEntry + i] = entries[k].blocks[i]
    BY <1>4, <1>5, <2>2
  <2> QED BY <1>8, <2>2, <2>3, <2>4
<1>11. RecordsIn(entries) = records
  <2>1. PICK rest : rest = records - before * RecordsPerBlock
    OBVIOUS
  <2>2. rest \in Nat /\ rest <= RecordsPerExtent /\ before * RecordsPerBlock + rest = records
    <3>1. RecordsPerEntry \in Nat /\ before * RecordsPerBlock \in Nat
      BY <1>7 DEF RecordsPerEntry
    <3> QED BY <1>8, <2>1, <3>1
  <2>3. entries[last].rc = rest
    <3>1. entries[last].rc = LastCount(rest)
      BY <1>5, <1>6, <2>1
    <3> QED BY <2>2, <3>1 DEF LastCount
  <2>4. Len(BlocksOf(Front(entries))) = before
    <3>1. Len(entries) # 0 /\ \A l \in 1 .. Len(entries) : l < Len(entries) => Len(entries[l].blocks) = BlocksPerEntry
      BY <1>3, <1>4, <1>5, <1>8
    <3> QED BY <1>4, <1>6, <3>1, BlocksOfFront
  <2>5. (entries[last].extent % ExtentsPerEntry) * RecordsPerExtent = 0
    <3>1. ExtentsPerEntry = 1 /\ entries[last].extent \in Nat
      BY <1>3, <1>4, ElementOfSeq, EntryHasBlocks, OneExtent
    <3>2. entries[last].extent % ExtentsPerEntry = 0
      BY <3>1
    <3> QED BY <3>2
  <2>6. RecordsIn(entries) =
          Len(BlocksOf(Front(entries))) * RecordsPerBlock
            + (entries[last].extent % ExtentsPerEntry) * RecordsPerExtent + entries[last].rc
    BY <1>4 DEF RecordsIn
  <2>7. RecordsIn(entries) = before * RecordsPerBlock + 0 + rest
    BY <2>3, <2>4, <2>5, <2>6
  <2>8. before * RecordsPerBlock \in Nat
    BY <1>7
  <2> QED BY <2>2, <2>7, <2>8
<1>12. PICK parts : parts = [i \in DOMAIN blocks |-> im.store[blocks[i]]]
  OBVIOUS
<1>13. parts = [i \in 1 .. total |-> <<number, i>>]
  <2>1. DOMAIN blocks = 1 .. total
    BY <1>10, LenProperties
  <2>2. ASSUME NEW i \in 1 .. total PROVE im.store[blocks[i]] = <<number, i>>
    <3>1. PICK k \in 1 .. last : \E n \in 1 .. HeldIn(records, k) : (k - 1) * BlocksPerEntry + n = i
      BY <1>1, <1>6, LayoutCovers
    <3>2. PICK n \in 1 .. HeldIn(records, k) : (k - 1) * BlocksPerEntry + n = i
      BY <3>1
    <3>3. blocks[i] = entries[k].blocks[n]
      BY <1>10, <3>2
    <3>4. im.store[im.dir[e[k]].blocks[n]] = <<number, (k - 1) * BlocksPerEntry + n>>
      BY <1>1, <3>1, <3>2 DEF Placed
    <3> QED BY <1>4, <3>2, <3>3, <3>4
  <2> QED BY <1>12, <2>1, <2>2
<1>14. parts \in Seq(Nat \X Nat) /\ Len(parts) = total
  <2>1. \A i \in 1 .. total : <<number, i>> \in Nat \X Nat
    BY <1>7
  <2>2. parts \in Seq(Nat \X Nat) /\ DOMAIN parts = 1 .. total
    BY <1>7, <1>13, <2>1, SeqDef
  <2> QED BY <1>7, <2>2, LenProperties
<1>15. AtMost(Len(parts), BlocksFor(records)) = total
  BY <1>6, <1>7, <1>14 DEF AtMost
<1>16. SubSeq(parts, 1, total) = parts
  BY <1>7, <1>14, WholeSequence
<1>17. Held(im, f) =
         [parts |-> SubSeq(parts, 1, AtMost(Len(parts), BlocksFor(RecordsIn(entries)))),
          records |-> RecordsIn(entries)]
  BY <1>2, <1>9, <1>12 DEF Held
<1>18. Held(im, f) = [parts |-> parts, records |-> records]
  BY <1>11, <1>15, <1>16, <1>17
<1> QED BY <1>6, <1>13, <1>18 DEF Whole

\* Every file of an image was written whole.
Legible(im) ==
    \A f \in File : SlotsOf(im, f) # {} =>
        \E number \in Nat, records \in Nat : \E e \in [1 .. EntriesFor(records) -> Slot] :
            Placed(im, f, number, records, e)

LEMMA OthersStayPlaced ==
    ASSUME NEW im \in Images, NEW new, NEW f, OthersKept(im, new, f), NEW g \in File, g # f
    PROVE  /\ SlotsOf(new, g) = SlotsOf(im, g)
           /\ \A number, e : \A records \in Nat :
                Placed(im, g, number, records, e) => Placed(new, g, number, records, e)
<1>1. SlotsOf(new, g) = SlotsOf(im, g)
      /\ \A s \in SlotsOf(im, g) : /\ new.dir[s] = im.dir[s]
                                   /\ \A b \in BlocksIn(im.dir[s]) : new.store[b] = im.store[b]
  BY NamesAssumption DEF OthersKept, SlotsOf, Live
<1>2. ASSUME NEW number, NEW e, NEW records \in Nat, Placed(im, g, number, records, e)
      PROVE  Placed(new, g, number, records, e)
  <2>1. PICK last : last = EntriesFor(records)
    OBVIOUS
  <2>2. last \in 1 .. last
    <3>1. last \in Nat \ {0}
      BY <2>1, LayoutOfFile
    <3> QED BY <3>1
  <2>3. \A k \in 1 .. last : e[k] \in SlotsOf(im, g) /\ new.dir[e[k]] = im.dir[e[k]]
    BY <1>1, <1>2, <2>1 DEF Placed
  <2>4. ASSUME NEW k \in 1 .. last, NEW i \in 1 .. HeldIn(records, k)
        PROVE  new.store[new.dir[e[k]].blocks[i]] = <<number, (k - 1) * BlocksPerEntry + i>>
    <3>1. im.dir[e[k]] \in Entry /\ Len(im.dir[e[k]].blocks) = HeldIn(records, k)
      BY <1>2, <2>1 DEF Placed, Images
    <3>2. i \in DOMAIN im.dir[e[k]].blocks
      BY <3>1, EntryHasBlocks, LenProperties
    <3>3. im.dir[e[k]].blocks[i] \in BlocksIn(im.dir[e[k]])
      BY <3>2 DEF BlocksIn
    <3>4. new.store[im.dir[e[k]].blocks[i]] = im.store[im.dir[e[k]].blocks[i]]
      BY <1>1, <2>3, <3>3
    <3>5. im.store[im.dir[e[k]].blocks[i]] = <<number, (k - 1) * BlocksPerEntry + i>>
      BY <1>2, <2>1 DEF Placed
    <3> QED BY <2>3, <3>4, <3>5
  <2> QED BY <1>1, <1>2, <2>1, <2>2, <2>3, <2>4 DEF Placed
<1> QED BY <1>1, <1>2

\* A file that is written is placed, and one that is deleted is gone.
LEMMA WrittenIsPlaced ==
    ASSUME NEW im \in Images, NEW f \in File, NEW data \in Data, Fits(im, f, data.records)
    PROVE  LET new == Written(im, f, data)
           IN \E e \in [1 .. EntriesFor(data.records) -> Slot] :
                  Placed(new, f, data.number, data.records, e)
<1>1. PICK old, new, free, slots, records, last :
        /\ old = Erased(im, f) /\ new = Written(im, f, data)
        /\ free = FreeBlocks(old) /\ slots = FreeSlots(old)
        /\ records = data.records /\ last = EntriesFor(records)
  OBVIOUS
<1>2. old \in Images /\ free \in SUBSET Block /\ slots \subseteq Slot /\ records \in Nat
  BY <1>1, ErasedShape, FreeSets DEF Data
<1>3. /\ \A k \in 1 .. last :
           /\ Nth(slots, k) \in slots
           /\ new.dir[Nth(slots, k)] = EntryOf(f, records, free, k)
      /\ \A i \in 1 .. BlocksFor(records) :
           Nth(free, i) \in free /\ new.store[Nth(free, i)] = <<data.number, i>>
      /\ \A s \in Slot : (\A k \in 1 .. last : s # Nth(slots, k)) => new.dir[s] = old.dir[s]
  BY <1>1, WrittenShape
<1>4. last \in Nat \ {0} /\ last \in 1 .. last
  <2>1. last \in Nat \ {0}
    BY <1>1, <1>2, LayoutOfFile
  <2> QED BY <2>1
<1>5. PICK e : e = [k \in 1 .. last |-> Nth(slots, k)]
  OBVIOUS
<1>6. e \in [1 .. last -> Slot] /\ \A k \in 1 .. last : new.dir[e[k]] = EntryOf(f, records, free, k)
  BY <1>2, <1>3, <1>5
<1>7. \A k \in 1 .. last : EntryOf(f, records, free, k).file = f
  BY DEF EntryOf
<1>8. SlotsOf(new, f) = {e[k] : k \in 1 .. last}
  <2>1. ASSUME NEW s \in Slot, \A k \in 1 .. last : s # Nth(slots, k) PROVE new.dir[s].file # f
    <3>1. new.dir[s] = old.dir[s]
      BY <1>3, <2>1
    <3>2. old.dir[s].file # f
      BY <1>1, ErasedShape, EmptyEntry, NamesAssumption
    <3> QED BY <3>1, <3>2
  <2> QED BY <1>5, <1>6, <1>7, <2>1 DEF SlotsOf
<1>9. ASSUME NEW k \in 1 .. last
      PROVE  /\ new.dir[e[k]].extent = (k - 1) * ExtentsPerEntry
             /\ Len(new.dir[e[k]].blocks) = HeldIn(records, k)
             /\ \A i \in 1 .. HeldIn(records, k) :
                  new.store[new.dir[e[k]].blocks[i]] = <<data.number, (k - 1) * BlocksPerEntry + i>>
  <2>1. PICK entry : entry = EntryOf(f, records, free, k)
    OBVIOUS
  <2>2. /\ entry \in Entry /\ DOMAIN entry.blocks = 1 .. HeldIn(records, k)
        /\ \A i \in DOMAIN entry.blocks :
             /\ (k - 1) * BlocksPerEntry + i \in 1 .. BlocksFor(records)
             /\ entry.blocks[i] = Nth(free, (k - 1) * BlocksPerEntry + i)
    BY <1>1, <1>2, <1>3, <2>1, EntryShape
  <2>3. Len(entry.blocks) = HeldIn(records, k)
    <3>1. HeldIn(records, k) \in Nat /\ entry.blocks \in Seq(Block)
      BY <1>1, <1>2, <2>2, LayoutOfEntry, EntryHasBlocks
    <3> QED BY <2>2, <3>1, LenProperties
  <2>4. entry.extent = (k - 1) * ExtentsPerEntry
    BY <2>1 DEF EntryOf
  <2>5. new.dir[e[k]] = entry
    BY <1>6, <2>1
  <2> QED BY <1>3, <2>2, <2>3, <2>4, <2>5
<1>10. new.dir[e[last]].rc = LastCount(records - (last - 1) * BlocksPerEntry * RecordsPerBlock)
  <2>1. EntryOf(f, records, free, last).rc =
          IF last = EntriesFor(records)
          THEN LastCount(records - (last - 1) * BlocksPerEntry * RecordsPerBlock)
          ELSE AtMost(RecordsPerEntry, RecordsPerExtent)
    BY DEF EntryOf
  <2> QED BY <1>1, <1>4, <1>6, <2>1
<1>11. Placed(new, f, data.number, records, e)
  BY <1>1, <1>6, <1>8, <1>9, <1>10, Zenon DEF Placed
<1> QED BY <1>1, <1>6, <1>11

LEMMA ErasedIsGone ==
    ASSUME NEW im \in Images, NEW f \in File
    PROVE  SlotsOf(Erased(im, f), f) = {}
BY ErasedShape, EmptyEntry, NamesAssumption DEF SlotsOf

LEMMA LegibleReads ==
    ASSUME RecordsPerEntry <= RecordsPerExtent, NEW im \in Images, Legible(im), NEW new \in Images,
           NEW f, OthersKept(im, new, f), NEW g \in File, g # f
    PROVE  Files(new)[g] = Files(im)[g]
<1>1. SlotsOf(new, g) = SlotsOf(im, g)
  BY OthersStayPlaced
<1>2. CASE SlotsOf(im, g) = {}
  BY <1>1, <1>2 DEF Files
<1>3. CASE SlotsOf(im, g) # {}
  <2>1. PICK number \in Nat, records \in Nat : \E e \in [1 .. EntriesFor(records) -> Slot] :
          Placed(im, g, number, records, e)
    BY <1>3 DEF Legible
  <2>2. PICK e : Placed(im, g, number, records, e)
    BY <2>1
  <2>3. Placed(new, g, number, records, e)
    BY <2>2, OthersStayPlaced
  <2>4. Held(new, g) = Held(im, g)
    BY <2>2, <2>3, PlacedReads
  <2> QED BY <1>1, <2>4 DEF Files
<1> QED BY <1>2, <1>3

LEMMA WrittenIsLegible ==
    ASSUME NEW im \in Images, Legible(im), NEW f \in File, NEW data \in Data,
           Fits(im, f, data.records)
    PROVE  Legible(Written(im, f, data))
<1>1. PICK new : new = Written(im, f, data)
  OBVIOUS
<1>2. OthersKept(im, new, f)
  BY <1>1, WrittenKeepsOthers
<1>3. PICK e \in [1 .. EntriesFor(data.records) -> Slot] : Placed(new, f, data.number, data.records, e)
  BY <1>1, WrittenIsPlaced
<1>4. data.number \in Nat /\ data.records \in Nat
  BY DEF Data
<1>5. ASSUME NEW g \in File, SlotsOf(new, g) # {}
      PROVE  \E number \in Nat, records \in Nat : \E e2 \in [1 .. EntriesFor(records) -> Slot] :
                 Placed(new, g, number, records, e2)
  <2>1. CASE g = f
    BY <1>3, <1>4, <2>1
  <2>2. CASE g # f
    BY <1>2, <1>5, <2>2, OthersStayPlaced DEF Legible
  <2> QED BY <2>1, <2>2
<1> QED BY <1>1, <1>5 DEF Legible

LEMMA ErasedIsLegible ==
    ASSUME NEW im \in Images, Legible(im), NEW f \in File
    PROVE  Legible(Erased(im, f))
<1>1. PICK new : new = Erased(im, f)
  OBVIOUS
<1>2. OthersKept(im, new, f) /\ SlotsOf(new, f) = {}
  BY <1>1, ErasedKeepsOthers, ErasedIsGone
<1>3. ASSUME NEW g \in File, SlotsOf(new, g) # {}
      PROVE  \E number \in Nat, records \in Nat : \E e2 \in [1 .. EntriesFor(records) -> Slot] :
                 Placed(new, g, number, records, e2)
  <2>1. g # f
    BY <1>2, <1>3
  <2> QED BY <1>2, <1>3, <2>1, OthersStayPlaced DEF Legible
<1> QED BY <1>1, <1>3 DEF Legible

\* The image as it is found: empty, or with a file of one record.
LEMMA OneRecord ==
    /\ BlocksFor(1) = 1 /\ EntriesFor(1) = 1 /\ HeldIn(1, 1) = 1
    /\ LastCount(1 - (1 - 1) * BlocksPerEntry * RecordsPerBlock) = 1
<1> USE ConstantsAssumption
<1>1. ASSUME NEW a \in Nat \ {0} PROVE RoundUp(1, a) = 1
  <2>1. RoundUp(1, a) = (1 + a - 1) \div a
    BY DEF RoundUp
  <2>2. 1 + a - 1 = a /\ a \div a = 1
    OBVIOUS
  <2> QED BY <2>1, <2>2
<1>2. BlocksFor(1) = 1
  BY <1>1 DEF BlocksFor
<1>3. EntriesFor(1) = 1
  BY <1>1, <1>2 DEF EntriesFor
<1>4. (1 - 1) * BlocksPerEntry = 0 /\ 0 * RecordsPerBlock = 0
  OBVIOUS
<1>5. HeldIn(1, 1) = 1
  BY <1>2, <1>4 DEF HeldIn, AtMost
<1>6. LastCount(1) = 1
  BY DEF LastCount
<1> QED BY <1>2, <1>3, <1>4, <1>5, <1>6

LEMMA ForeignIsPlaced ==
    ASSUME Init, NEW f \in File, NEW b \in Block,
           image = [dir |-> [Formatted.dir EXCEPT ![1] =
                       [file |-> f, extent |-> 0, rc |-> 1, blocks |-> <<b>>]],
                    store |-> [Formatted.store EXCEPT ![b] = <<0, 1>>]]
    PROVE  /\ \E e \in [1 .. EntriesFor(1) -> Slot] : Placed(image, f, 0, 1, e)
           /\ \A g \in File : g # f => SlotsOf(image, g) = {}
<1>1. 1 \in Slot
  BY ConstantsAssumption DEF Slot
<1>2. /\ Formatted.dir \in [Slot -> Entry] /\ Formatted.store \in [Block -> Seq(Nat)]
      /\ \A s \in Slot : Formatted.dir[s].file = Unused
  BY FormattedIs DEF Images, Live
<1>3. /\ image.dir[1] = [file |-> f, extent |-> 0, rc |-> 1, blocks |-> <<b>>]
      /\ \A s \in Slot : s # 1 => image.dir[s].file = Unused
      /\ image.store[b] = <<0, 1>>
  BY <1>1, <1>2
<1>4. \A g \in File : SlotsOf(image, g) = IF g = f THEN {1} ELSE {}
  BY <1>1, <1>3, NamesAssumption DEF SlotsOf
<1>5. PICK e : e = [k \in 1 .. 1 |-> 1]
  OBVIOUS
<1>6. e \in [1 .. 1 -> Slot] /\ e[1] = 1 /\ {e[k] : k \in 1 .. 1} = {1} /\ \A k \in 1 .. 1 : k = 1
  BY <1>1, <1>5
<1>7. /\ image.dir[e[1]].extent = (1 - 1) * ExtentsPerEntry
      /\ Len(image.dir[e[1]].blocks) = 1
      /\ \A i \in 1 .. 1 :
           image.store[image.dir[e[1]].blocks[i]] = <<0, (1 - 1) * BlocksPerEntry + i>>
      /\ image.dir[e[1]].rc = 1
  <2>1. image.dir[1].extent = 0 /\ image.dir[1].rc = 1 /\ image.dir[1].blocks = <<b>>
    BY <1>3
  <2>2. Len(<<b>>) = 1 /\ <<b>>[1] = b
    OBVIOUS
  <2>3. (1 - 1) * ExtentsPerEntry = 0 /\ (1 - 1) * BlocksPerEntry + 1 = 1
    <3>1. ExtentsPerEntry \in Nat
      BY ConstantsAssumption DEF ExtentsPerEntry, RecordsPerEntry
    <3>2. \A n \in Nat : (1 - 1) * n = 0
      OBVIOUS
    <3> QED BY <3>1, <3>2, ConstantsAssumption
  <2> QED BY <1>3, <1>6, <2>1, <2>2, <2>3
<1>8. Placed(image, f, 0, 1, e)
  BY <1>4, <1>6, <1>7, OneRecord DEF Placed
<1> QED BY <1>4, <1>6, <1>8, OneRecord

-----------------------------------------------------------------------------
(* The routes implement FileStore *)

\* Every image in hand is legible; a request that has come has a file.
LegibleInv ==
    /\ IndInv
    /\ Legible(image)
    /\ \A r \in Req :
         /\ job[r].pc \in {"changed", "open"} => Legible(job[r].image)
         /\ IF job[r].pc = "idle" THEN job[r] = NoJob ELSE job[r].file \in File

LEMMA FoundPlaced ==
    ASSUME Init, NEW g \in File, SlotsOf(image, g) # {}
    PROVE  \E e \in [1 .. EntriesFor(1) -> Slot] : Placed(image, g, 0, 1, e)
<1>1. PICK f \in File, b \in {DirBlocks + Cardinality(hidden)} :
        image \in {Formatted,
                   [dir |-> [Formatted.dir EXCEPT ![1] =
                       [file |-> f, extent |-> 0, rc |-> 1, blocks |-> <<b>>]],
                    store |-> [Formatted.store EXCEPT ![b] = <<0, 1>>]]}
  BY DEF Init
<1>2. CASE image = Formatted
  BY <1>2, FormattedIs, NamesAssumption DEF SlotsOf, Live
<1>3. CASE image # Formatted
  <2>1. b \in Block
    BY <1>1, FirstBlock
  <2> QED BY <1>1, <1>3, <2>1, ForeignIsPlaced
<1> QED BY <1>2, <1>3

LEMMA InitLegible == Init => LegibleInv
<1> SUFFICES ASSUME Init PROVE LegibleInv
  OBVIOUS
<1>1. IndInv
  BY InitHolds
<1>2. Legible(image)
  BY FoundPlaced DEF Legible
<1>3. \A r \in Req : job[r] = NoJob
  BY DEF Init
<1> QED BY <1>1, <1>2, <1>3, IdleJob DEF LegibleInv

\* A step that changes one job and leaves a legible image.
LEMMA JobStaysLegible ==
    ASSUME LegibleInv, IndInv', NEW r \in Req, NEW j, job' = [job EXCEPT ![r] = j],
           j.pc \in {"changed", "open"} => Legible(j.image),
           IF j.pc = "idle" THEN j = NoJob ELSE j.file \in File,
           Legible(image')
    PROVE  LegibleInv'
<1>1. \A q \in Req : job'[q] = IF q = r THEN j ELSE job[q]
  BY DEF LegibleInv, IndInv
<1> QED BY <1>1 DEF LegibleInv

LEMMA LoadIsLegible ==
    ASSUME LegibleInv, NEW r \in Req, Load(r), NEW changed,
           \/ job[r].data.deleted /\ changed = Erased(image, job[r].file)
           \/ /\ changed = Written(image, job[r].file, job[r].data)
              /\ Fits(image, job[r].file, job[r].data.records)
    PROVE  Legible(changed) /\ changed \in Images
<1>1. job[r].file \in File /\ job[r].data \in Data /\ image \in Images /\ Sound(image) /\ Legible(image)
  BY DEF Load, LegibleInv, IndInv, JobOK, JobType
<1> QED BY <1>1, ErasedIsLegible, WrittenIsLegible, ErasedShape, WrittenSound

LEMMA NextLegible ==
    ASSUME LegibleInv, [Next]_vars
    PROVE  LegibleInv'
<1>0. IndInv /\ IndInv'
  BY NextKeeps DEF LegibleInv
<1>1. ASSUME NEW r \in Req, NEW f \in File, Ask(r, f)
      PROVE  LegibleInv'
  <2>1. PICK data : job' = [job EXCEPT ![r] = [NoJob EXCEPT !.pc = "read", !.file = f, !.data = data]]
    BY <1>1 DEF Ask
  <2>2. PICK j : j = [NoJob EXCEPT !.pc = "read", !.file = f, !.data = data]
    OBVIOUS
  <2>3. j.pc = "read" /\ j.file = f
    BY <2>2 DEF NoJob
  <2>4. Legible(image')
    BY <1>1 DEF Ask, LegibleInv
  <2> QED BY <1>0, <2>1, <2>2, <2>3, <2>4, JobStaysLegible
<1>2. ASSUME NEW r \in Req, Load(r)
      PROVE  LegibleInv'
  <2>1. Legible(image') /\ job[r].pc = "read"
    BY <1>2 DEF Load, LegibleInv
  <2>2. CASE job' = [job EXCEPT ![r] = NoJob]
    BY <1>0, <2>1, <2>2, IdleJob, JobStaysLegible
  <2>3. ASSUME NEW changed, Legible(changed),
               job' = [job EXCEPT ![r] = [job[r] EXCEPT !.pc = "changed", !.image = changed]]
        PROVE  LegibleInv'
    <3>1. PICK j : j = [job[r] EXCEPT !.pc = "changed", !.image = changed]
      OBVIOUS
    <3>2. j.pc = "changed" /\ j.image = changed /\ j.file = job[r].file /\ job[r].file \in File
      BY <2>1, <3>1 DEF LegibleInv, IndInv, JobType
    <3> QED BY <1>0, <2>1, <2>3, <3>1, <3>2, JobStaysLegible
  <2> QED BY <1>0, <1>2, <2>2, <2>3, LoadIs, LoadIsLegible
<1>3. ASSUME NEW r \in Req, Open(r)
      PROVE  LegibleInv'
  <2>1. PICK j : j = [job[r] EXCEPT !.pc = "open"]
    OBVIOUS
  <2>2. j.pc = "open" /\ j.image = job[r].image /\ j.file = job[r].file
        /\ job[r].file \in File /\ Legible(job[r].image)
    BY <1>3, <2>1 DEF Open, LegibleInv, IndInv, JobType
  <2>3. Legible(image') /\ job' = [job EXCEPT ![r] = j]
    BY <1>3, <2>1 DEF Open, LegibleInv
  <2> QED BY <1>0, <2>2, <2>3, JobStaysLegible
<1>4. ASSUME NEW r \in Req, Save(r) \/ SaveFails(r)
      PROVE  LegibleInv'
  <2>1. job' = [job EXCEPT ![r] = NoJob] /\ Legible(image')
    BY <1>4 DEF Save, SaveFails, Idle, LegibleInv
  <2> QED BY <1>0, <2>1, IdleJob, JobStaysLegible
<1>5. CASE Kill
  <2>1. UNCHANGED image /\ \A r \in Req : job'[r] = NoJob
    BY <1>5 DEF Kill
  <2> QED BY <1>0, <2>1, IdleJob DEF LegibleInv
<1>6. CASE UNCHANGED vars
  BY <1>0, <1>6 DEF vars, LegibleInv
<1> QED BY <1>1, <1>2, <1>3, <1>4, <1>5, <1>6 DEF Next

\* What the state of FileStore makes of a job that changes.
LEMMA WantedMoves ==
    ASSUME job \in [Req -> JobType], NEW r \in Req, NEW j, job' = [job EXCEPT ![r] = j]
    PROVE  /\ [q \in Req |-> Wanted(job'[q])] = [[q \in Req |-> Wanted(job[q])] EXCEPT ![r] = Wanted(j)]
           /\ [q \in Req |-> Copy(job'[q])] = [[q \in Req |-> Copy(job[q])] EXCEPT ![r] = Copy(j)]
<1>1. \A q \in Req : job'[q] = IF q = r THEN j ELSE job[q]
  OBVIOUS
<1>2. [q \in Req |-> Wanted(job'[q])] = [[q \in Req |-> Wanted(job[q])] EXCEPT ![r] = Wanted(j)]
  BY <1>1
<1>3. [q \in Req |-> Copy(job'[q])] = [[q \in Req |-> Copy(job[q])] EXCEPT ![r] = Copy(j)]
  BY <1>1
<1> QED BY <1>2, <1>3

LEMMA NothingWanted == Wanted(NoJob) = Store!NoWish /\ Copy(NoJob) = NoMap
BY DEF Wanted, Copy, NoJob, NoData, Store!NoWish

LEMMA InitImplements ==
    ASSUME RecordsPerEntry <= RecordsPerExtent, Init
    PROVE  Store!Init
<1>1. Files(image) \in [File -> Content \cup {Absent}]
  <2> SUFFICES ASSUME NEW g \in File PROVE Files(image)[g] \in Content \cup {Absent}
    BY DEF Files
  <2>1. CASE SlotsOf(image, g) = {}
    BY <2>1 DEF Files
  <2>2. CASE SlotsOf(image, g) # {}
    <3>1. PICK e \in [1 .. EntriesFor(1) -> Slot] : Placed(image, g, 0, 1, e)
      BY <2>2, FoundPlaced
    <3>2. image \in Images
      BY InitHolds DEF IndInv
    <3>3. Held(image, g) = Whole(0, 1)
      BY <3>1, <3>2, PlacedReads
    <3>4. Whole(0, 1) \in Content
      BY ConstantsAssumption DEF Content
    <3> QED BY <2>2, <3>3, <3>4 DEF Files
  <2> QED BY <2>1, <2>2
<1>2. \A r \in Req : job[r] = NoJob
  BY DEF Init
<1>3. [r \in Req |-> Wanted(job[r])] = [r \in Req |-> Store!NoWish]
      /\ [r \in Req |-> Copy(job[r])] = [r \in Req |-> NoMap]
  BY <1>2, NothingWanted
<1>4. torn = FALSE
  BY DEF Init
<1> QED BY <1>1, <1>3, <1>4 DEF Store!Init

LEMMA AskImplements ==
    ASSUME LegibleInv, NEW r \in Req, NEW f \in File, Ask(r, f)
    PROVE  Store!Ask(r)
<1>1. PICK data \in {[number |-> requests + 1, records |-> n, deleted |-> FALSE] : n \in Lengths}
                      \cup {[NoData EXCEPT !.deleted = TRUE]} :
        job' = [job EXCEPT ![r] = [NoJob EXCEPT !.pc = "read", !.file = f, !.data = data]]
  BY DEF Ask
<1>2. PICK j : j = [NoJob EXCEPT !.pc = "read", !.file = f, !.data = data]
  OBVIOUS
<1>3. j.pc = "read" /\ j.file = f /\ j.data = data
  BY <1>2 DEF NoJob
<1>4. Wanted(j) \in Store!Wish
  <2>1. CASE data \in {[number |-> requests + 1, records |-> n, deleted |-> FALSE] : n \in Lengths}
    <3>1. PICK n \in Lengths : data = [number |-> requests + 1, records |-> n, deleted |-> FALSE]
      BY <2>1
    <3>2. requests + 1 \in 0 .. MaxRequests
      <4>1. requests \in 0 .. MaxRequests /\ requests < MaxRequests
        BY DEF Ask, LegibleInv, IndInv
      <4>2. MaxRequests \in Nat
        BY ConstantsAssumption
      <4> QED BY <4>1, <4>2
    <3>3. Wanted(j) = [file |-> f, content |-> Whole(requests + 1, n)]
      BY <1>3, <3>1 DEF Wanted
    <3>4. Whole(requests + 1, n) \in Content
      BY <3>2 DEF Content
    <3> QED BY <3>3, <3>4 DEF Store!Wish
  <2>2. CASE data = [NoData EXCEPT !.deleted = TRUE]
    <3>1. data.deleted
      BY <2>2 DEF NoData
    <3>2. Wanted(j) = [file |-> f, content |-> Absent]
      BY <1>3, <3>1 DEF Wanted
    <3> QED BY <3>2 DEF Store!Wish
  <2> QED BY <2>1, <2>2
<1>5. job \in [Req -> JobType] /\ job[r] = NoJob /\ Copy(j) = NoMap
  BY <1>3 DEF Ask, LegibleInv, IndInv, Copy
<1>6. /\ [q \in Req |-> Wanted(job'[q])] = [[q \in Req |-> Wanted(job[q])] EXCEPT ![r] = Wanted(j)]
      /\ [q \in Req |-> Copy(job'[q])] = [[q \in Req |-> Copy(job[q])] EXCEPT ![r] = Copy(j)]
  BY <1>1, <1>2, <1>5, WantedMoves
<1>7. [q \in Req |-> Copy(job'[q])] = [q \in Req |-> Copy(job[q])]
  BY <1>5, <1>6, NothingWanted
<1>8. [q \in Req |-> Wanted(job[q])][r] = Store!NoWish /\ [q \in Req |-> Wanted(job'[q])][r] = Wanted(j)
  BY <1>5, <1>6, NothingWanted
<1>9. UNCHANGED torn /\ Files(image') = Files(image)
  BY DEF Ask
<1> QED BY <1>4, <1>6, <1>7, <1>8, <1>9 DEF Store!Ask

\* What a request makes of an image is that image with its own file as it wants it.
LEMMA LoadGivesTheFile ==
    ASSUME RecordsPerEntry <= RecordsPerExtent, LegibleInv, NEW r \in Req, Load(r), NEW changed,
           \/ job[r].data.deleted /\ changed = Erased(image, job[r].file)
           \/ /\ ~job[r].data.deleted /\ changed = Written(image, job[r].file, job[r].data)
              /\ Fits(image, job[r].file, job[r].data.records)
    PROVE  Files(changed) = [Files(image) EXCEPT ![job[r].file] = Wanted(job[r]).content]
<1>1. /\ job[r].pc = "read" /\ job[r].file \in File /\ job[r].data \in Data
      /\ image \in Images /\ Sound(image) /\ Legible(image)
  BY DEF Load, LegibleInv, IndInv, JobOK, JobType
<1>2. changed \in Images
  BY LoadIsLegible
<1>3. OthersKept(image, changed, job[r].file)
  BY <1>1, ErasedKeepsOthers, WrittenKeepsOthers
<1>4. \A g \in File : g # job[r].file => Files(changed)[g] = Files(image)[g]
  BY <1>1, <1>2, <1>3, LegibleReads
<1>5. Files(changed)[job[r].file] = Wanted(job[r]).content
  <2>1. CASE job[r].data.deleted
    <3>1. SlotsOf(changed, job[r].file) = {}
      BY <1>1, <2>1, ErasedIsGone
    <3> QED BY <1>1, <2>1, <3>1 DEF Files, Wanted
  <2>2. CASE ~job[r].data.deleted
    <3>1. PICK data, f : data = job[r].data /\ f = job[r].file
      OBVIOUS
    <3>2. data \in Data /\ f \in File /\ Fits(image, f, data.records)
          /\ changed = Written(image, f, data) /\ data.number \in Nat /\ data.records \in Nat
      BY <1>1, <2>2, <3>1 DEF Data
    <3>3. PICK e \in [1 .. EntriesFor(data.records) -> Slot] :
            Placed(changed, f, data.number, data.records, e)
      BY <1>1, <3>2, WrittenIsPlaced
    <3>4. Held(changed, f) = Whole(data.number, data.records)
      BY <1>2, <3>2, <3>3, PlacedReads
    <3>5. SlotsOf(changed, f) # {}
      <4>1. 1 \in 1 .. EntriesFor(data.records)
        <5>1. EntriesFor(data.records) \in Nat \ {0}
          BY <3>2, LayoutOfFile
        <5> QED BY <5>1
      <4>2. SlotsOf(changed, f) = {e[k] : k \in 1 .. EntriesFor(data.records)}
        BY <3>3, Zenon DEF Placed
      <4>3. e[1] \in SlotsOf(changed, f)
        BY <4>1, <4>2, Zenon
      <4> QED BY <4>3
    <3> QED BY <1>1, <2>2, <3>1, <3>2, <3>4, <3>5 DEF Files, Wanted
  <2> QED BY <2>1, <2>2
<1>6. /\ Files(changed) = [g \in File |-> Files(changed)[g]]
      /\ Files(image) = [g \in File |-> Files(image)[g]]
  BY DEF Files
<1> QED BY <1>1, <1>4, <1>5, <1>6

LEMMA LoadImplements ==
    ASSUME RecordsPerEntry <= RecordsPerExtent, LegibleInv, NEW r \in Req, Load(r),
           job' # [job EXCEPT ![r] = NoJob]
    PROVE  Store!Take(r)
<1>1. job[r].pc = "read" /\ job[r].file \in File /\ job \in [Req -> JobType] /\ ~torn
  BY DEF Load, Idle, LegibleInv, IndInv
<1>2. PICK changed :
        /\ job' = [job EXCEPT ![r] = [job[r] EXCEPT !.pc = "changed", !.image = changed]]
        /\ \/ job[r].data.deleted /\ changed = Erased(image, job[r].file)
           \/ /\ ~job[r].data.deleted /\ changed = Written(image, job[r].file, job[r].data)
              /\ Fits(image, job[r].file, job[r].data.records)
  BY DEF Load, Idle
<1>3. PICK j : j = [job[r] EXCEPT !.pc = "changed", !.image = changed]
  OBVIOUS
<1>4. j.pc = "changed" /\ j.image = changed /\ j.file = job[r].file /\ j.data = job[r].data
  BY <1>1, <1>3 DEF JobType
<1>5. Wanted(j) = Wanted(job[r]) /\ Wanted(job[r]) # Store!NoWish /\ Copy(job[r]) = NoMap
  BY <1>1, <1>4, NamesAssumption DEF Wanted, Copy, Store!NoWish
<1>6. Copy(j) = [Files(image) EXCEPT ![job[r].file] = Wanted(job[r]).content]
  <2>1. Copy(j) = Files(changed)
    BY <1>4 DEF Copy
  <2> QED BY <1>2, <2>1, LoadGivesTheFile
<1>7. /\ [q \in Req |-> Wanted(job'[q])] = [[q \in Req |-> Wanted(job[q])] EXCEPT ![r] = Wanted(j)]
      /\ [q \in Req |-> Copy(job'[q])] = [[q \in Req |-> Copy(job[q])] EXCEPT ![r] = Copy(j)]
  BY <1>1, <1>2, <1>3, WantedMoves
<1>8. [q \in Req |-> Wanted(job'[q])] = [q \in Req |-> Wanted(job[q])]
  BY <1>5, <1>7
<1>9. /\ [q \in Req |-> Wanted(job[q])][r] = Wanted(job[r])
      /\ [q \in Req |-> Copy(job[q])][r] = NoMap
  BY <1>5
<1>10. UNCHANGED torn /\ Files(image') = Files(image)
  BY DEF Load
<1>11. Wanted(job[r]).file = job[r].file
  BY DEF Wanted
<1> QED BY <1>1, <1>5, <1>6, <1>7, <1>8, <1>9, <1>10, <1>11 DEF Store!Take

\* A map that a request puts back is a map.
LEMMA CopyIsAMap ==
    ASSUME NEW j, j.pc \in {"changed", "open"}, NEW f \in File
    PROVE  Copy(j) # NoMap
<1>1. Copy(j) = Files(j.image) /\ f \in DOMAIN Files(j.image)
  BY DEF Copy, Files
<1>2. f \notin DOMAIN NoMap
  BY DEF NoMap
<1> QED BY <1>1, <1>2

LEMMA OpenImplements ==
    ASSUME LegibleInv, NEW r \in Req, Open(r)
    PROVE  Store!Tear(r)
<1>1. job[r].pc = "changed" /\ job[r].file \in File /\ job \in [Req -> JobType]
  BY DEF Open, LegibleInv, IndInv
<1>2. PICK j : j = [job[r] EXCEPT !.pc = "open"]
  OBVIOUS
<1>3. j.pc = "open" /\ j.image = job[r].image /\ j.file = job[r].file /\ j.data = job[r].data
  BY <1>1, <1>2 DEF JobType
<1>4. Wanted(j) = Wanted(job[r]) /\ Copy(j) = Copy(job[r]) /\ Copy(job[r]) # NoMap
  BY <1>1, <1>3, CopyIsAMap DEF Wanted, Copy
<1>5. job' = [job EXCEPT ![r] = j]
  BY <1>2 DEF Open
<1>6. /\ [q \in Req |-> Wanted(job'[q])] = [q \in Req |-> Wanted(job[q])]
      /\ [q \in Req |-> Copy(job'[q])] = [q \in Req |-> Copy(job[q])]
  BY <1>1, <1>4, <1>5, WantedMoves
<1>7. torn' = TRUE /\ Files(image') = Files(image) /\ [q \in Req |-> Copy(job[q])][r] # NoMap
  BY <1>4 DEF Open
<1> QED BY <1>6, <1>7 DEF Store!Tear

LEMMA SaveImplements ==
    ASSUME LegibleInv, NEW r \in Req, Save(r)
    PROVE  Store!PutBack(r)
<1>1. job[r].pc = "open" /\ job[r].file \in File /\ job \in [Req -> JobType]
      /\ job' = [job EXCEPT ![r] = NoJob] /\ image' = job[r].image /\ torn' = FALSE
  BY DEF Save, Idle, LegibleInv, IndInv
<1>2. Copy(job[r]) = Files(image') /\ Copy(job[r]) # NoMap
  BY <1>1, CopyIsAMap DEF Copy
<1>3. /\ [q \in Req |-> Wanted(job'[q])] = [[q \in Req |-> Wanted(job[q])] EXCEPT ![r] = Store!NoWish]
      /\ [q \in Req |-> Copy(job'[q])] = [[q \in Req |-> Copy(job[q])] EXCEPT ![r] = NoMap]
  BY <1>1, WantedMoves, NothingWanted
<1> QED BY <1>1, <1>2, <1>3 DEF Store!PutBack

LEMMA SomeGiveUp ==
    ASSUME job \in [Req -> JobType], NEW lost \in SUBSET Req, UNCHANGED <<image, torn>>,
           \A q \in Req : job'[q] = IF q \in lost THEN NoJob ELSE job[q]
    PROVE  Store!GiveUp(lost)
<1>1. /\ [q \in Req |-> Wanted(job'[q])]
           = [q \in Req |-> IF q \in lost THEN Store!NoWish ELSE [p \in Req |-> Wanted(job[p])][q]]
      /\ [q \in Req |-> Copy(job'[q])]
           = [q \in Req |-> IF q \in lost THEN NoMap ELSE [p \in Req |-> Copy(job[p])][q]]
  BY NothingWanted
<1>2. Files(image') = Files(image)
  OBVIOUS
<1> QED BY <1>1, <1>2 DEF Store!GiveUp

LEMMA NextImplements ==
    ASSUME RecordsPerEntry <= RecordsPerExtent, LegibleInv, [Next]_vars
    PROVE  [Store!Next]_(Store!vars)
<1>1. job \in [Req -> JobType]
  BY DEF LegibleInv, IndInv
<1>2. ASSUME NEW r \in Req, (\E f \in File : Ask(r, f)) \/ Open(r) \/ Save(r)
      PROVE  Store!Next
  BY <1>2, AskImplements, OpenImplements, SaveImplements DEF Store!Next
<1>3. ASSUME NEW r \in Req, job' = [job EXCEPT ![r] = NoJob], UNCHANGED <<image, torn>>
      PROVE  Store!Next
  <2>1. \A q \in Req : job'[q] = IF q \in {r} THEN NoJob ELSE job[q]
    BY <1>1, <1>3
  <2>2. Store!GiveUp({r})
    BY <1>1, <1>3, <2>1, SomeGiveUp
  <2> QED BY <2>2 DEF Store!Next
<1>4. ASSUME NEW r \in Req, Load(r)
      PROVE  Store!Next
  <2>1. CASE job' = [job EXCEPT ![r] = NoJob]
    BY <1>3, <1>4, <2>1 DEF Load
  <2>2. CASE job' # [job EXCEPT ![r] = NoJob]
    BY <1>4, <2>2, LoadImplements DEF Store!Next
  <2> QED BY <2>1, <2>2
<1>5. ASSUME NEW r \in Req, SaveFails(r)
      PROVE  Store!Next
  BY <1>3, <1>5 DEF SaveFails, Idle
<1>6. CASE Kill
  <2>1. UNCHANGED <<image, torn>> /\ \A q \in Req : job'[q] = IF q \in Req THEN NoJob ELSE job[q]
    BY <1>6 DEF Kill
  <2>2. Store!GiveUp(Req)
    BY <1>1, <2>1, SomeGiveUp
  <2> QED BY <2>2 DEF Store!Next
<1>7. CASE UNCHANGED vars
  BY <1>7 DEF vars, Store!vars
<1> QED BY <1>2, <1>4, <1>5, <1>6, <1>7 DEF Next

\* The routes implement FileStore: whatever is written, deleted, refused or killed,
\* every file reads back, through its directory entries, its extents and its blocks, as
\* the last request that put the image back knew it (cpm.ts:357, cpm.ts:459).  An entry
\* holds no more records than an extent counts, as in both geometries that detectParams
\* finds in an image (cpm-filesystem.ts:983).
THEOREM RoutesImplementFileStore ==
    ASSUME RecordsPerEntry <= RecordsPerExtent
    PROVE  Spec => ImplementsFileStore
<1>1. Init => LegibleInv /\ Store!Init
  BY InitLegible, InitImplements
<1>2. LegibleInv /\ [Next]_vars => LegibleInv'
  BY NextLegible
<1>3. LegibleInv /\ [Next]_vars => [Store!Next]_(Store!vars)
  BY NextImplements
<1> QED BY <1>1, <1>2, <1>3, PTL DEF Spec, ImplementsFileStore, Store!Spec
=============================================================================
