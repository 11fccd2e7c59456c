--------------------------- MODULE CpmFileSystem ----------------------------
(***************************************************************************)
(* The CP/M file system inside a disk image, and the routes that put files *)
(* into an image and delete them (src/cpm-filesystem.ts,                   *)
(* src/routes/cpm.ts).                                                     *)
(*                                                                         *)
(* A file is one or more directory entries, each with up to BlocksPerEntry *)
(* block numbers, an extent number and a count of records.  What a file    *)
(* holds is a number of records, in blocks that each hold a part of the    *)
(* data of one request.  Bytes, sectors and their framing are left out:    *)
(* readSector undoes what writeSector does.  A length is a number of       *)
(* records, as the code rounds it up and pads the last record.             *)
(***************************************************************************)
EXTENDS Naturals, FiniteSets, Sequences, SequencesExt

CONSTANTS
    File,             \* names of files: user, name and extension
    TotalBlocks,      \* blocks of the image
    DirBlocks,        \* blocks the code takes for the directory
    HiddenBlocks,     \* directory blocks a foreign image may have beyond them
    MaxDir,           \* directory entries
    BlocksPerEntry,   \* 8 in the code
    RecordsPerBlock,  \* blocksize / 128
    RecordsPerExtent, \* 128 in the code
    Req,              \* requests that may be in progress at the same time: numbers
    Lengths,          \* bound: lengths of files, in records
    MaxRequests       \* bound: requests ever made

ASSUME ConstantsAssumption ==
    /\ DirBlocks \in Nat \ {0} /\ HiddenBlocks \in Nat /\ MaxDir \in Nat \ {0}
    /\ TotalBlocks \in Nat /\ TotalBlocks > DirBlocks + HiddenBlocks
    /\ BlocksPerEntry \in Nat \ {0} /\ RecordsPerBlock \in Nat \ {0}
    /\ RecordsPerExtent \in Nat \ {0}
    /\ Req \subseteq Nat /\ Lengths \subseteq Nat /\ MaxRequests \in Nat

VARIABLES
    image,    \* the image as it was last written: its directory and its blocks
    torn,     \* the file of the image is open for writing, or was left cut off
    hidden,   \* blocks of a directory larger than the code knows of
    job,      \* what each request does
    requests  \* requests made so far

vars == <<image, torn, hidden, job, requests>>

Block == 0 .. TotalBlocks - 1
Slot == 1 .. MaxDir
Unused == "unused"  \* status 0xE5

ASSUME NamesAssumption == Unused \notin File

NoEntry == [file |-> Unused, extent |-> 0, rc |-> 0, blocks |-> <<>>]
NoPart == <<0, 0>>

\* Data of a request, by its number.  `deleted' asks for the file to go.
NoData == [number |-> 0, records |-> 0, deleted |-> FALSE]
NoImage == [dir |-> <<>>, store |-> <<>>]
NoJob == [pc |-> "idle", file |-> Unused, data |-> NoData, image |-> NoImage]

RoundUp(a, b) == (a + b - 1) \div b
AtMost(a, b) == IF a < b THEN a ELSE b

\* recordsPerEntry, logicalExtentsPerEntry, and the extent mask that a reader
\* derives from the same numbers.
RecordsPerEntry == BlocksPerEntry * RecordsPerBlock
ExtentsPerEntry == IF RecordsPerEntry < RecordsPerExtent THEN 1
                   ELSE RecordsPerEntry \div RecordsPerExtent

\* A formatted image, or one made elsewhere: with a file behind its directory.
Formatted == [dir |-> [s \in Slot |-> NoEntry], store |-> [b \in Block |-> NoPart]]
Init ==
    /\ hidden \in {{}, DirBlocks .. DirBlocks + HiddenBlocks - 1}
    /\ \E f \in File, b \in {DirBlocks + Cardinality(hidden)} :
         image \in {Formatted,
                    [dir |-> [Formatted.dir EXCEPT ![1] =
                        [file |-> f, extent |-> 0, rc |-> 1, blocks |-> <<b>>]],
                     store |-> [Formatted.store EXCEPT ![b] = <<0, 1>>]]}
    /\ torn = FALSE
    /\ job = [r \in Req |-> NoJob]
    /\ requests = 0

-----------------------------------------------------------------------------
(* Mutations of definitions below: what a plausible slip in the code would do. *)

\* No gap is reserved between the directory and the first file.
MutReserved(im) == {}

\* A full last entry has a record count of zero.
MutLastCount(records) == records % RecordsPerExtent

-----------------------------------------------------------------------------
(* Blocks and entries *)

BlocksIn(entry) == {entry.blocks[i] : i \in DOMAIN entry.blocks}
Live(im) == {s \in Slot : im.dir[s].file # Unused}
Used(im) == UNION {BlocksIn(im.dir[s]) : s \in Live(im)}

\* The gap between the directory and the first block of a file: it may be directory.
Reserved(im) ==
    LET used == Used(im) IN IF used = {} THEN {} ELSE {b \in Block : \A u \in used : b < u}

\* A mutation: a file keeps only the blocks of its first entry from others.
MutFreeBlocks(im) ==
    LET first == {s \in Live(im) : im.dir[s].extent = 0}
    IN {b \in Block : b >= DirBlocks} \ (UNION {BlocksIn(im.dir[s]) : s \in first} \cup Reserved(im))

\* buildAllocationBitmap
FreeBlocks(im) == {b \in Block : b >= DirBlocks} \ (Used(im) \cup Reserved(im))
FreeSlots(im) == Slot \ Live(im)

\* The k-th of a set of numbers, from below: blocks and entries are taken in order.
Nth(S, k) == CHOOSE x \in S : Cardinality({y \in S : y < x}) = k - 1

\* deleteFile: the entries are marked, the blocks stay as they are.
Erased(im, f) ==
    [im EXCEPT !.dir = [s \in Slot |-> IF im.dir[s].file = f THEN NoEntry ELSE im.dir[s]]]

\* The record count of the last entry of a file.
LastCount(records) ==
    IF records <= RecordsPerExtent THEN records
    ELSE IF records % RecordsPerExtent = 0 THEN RecordsPerExtent
    ELSE records % RecordsPerExtent

BlocksFor(records) == RoundUp(records, RecordsPerBlock)
EntriesFor(records) ==
    IF records = 0 THEN 1 ELSE RoundUp(BlocksFor(records), BlocksPerEntry)

\* The k-th entry of a file of so many records, in these free blocks.
EntryOf(f, records, free, k) ==
    LET before == (k - 1) * BlocksPerEntry
        held == AtMost(BlocksPerEntry, BlocksFor(records) - before)
    IN [file |-> f,
        extent |-> (k - 1) * ExtentsPerEntry,
        rc |-> IF k = EntriesFor(records) THEN LastCount(records - before * RecordsPerBlock)
               ELSE AtMost(RecordsPerEntry, RecordsPerExtent),
        blocks |-> [i \in 1 .. held |-> Nth(free, before + i)]]

\* writeFile: what was there goes first; "Disk full", "Directory full".
Fits(im, f, records) ==
    /\ BlocksFor(records) <= Cardinality(FreeBlocks(Erased(im, f)))
    /\ EntriesFor(records) <= Cardinality(FreeSlots(Erased(im, f)))

Written(im, f, data) ==
    LET old == Erased(im, f)
        free == FreeBlocks(old)
        slots == FreeSlots(old)
        entry(s) == CHOOSE k \in 1 .. EntriesFor(data.records) : s = Nth(slots, k)
        part(b) == CHOOSE i \in 1 .. BlocksFor(data.records) : b = Nth(free, i)
    IN [dir |-> [s \in Slot |->
            IF \E k \in 1 .. EntriesFor(data.records) : s = Nth(slots, k)
            THEN EntryOf(f, data.records, free, entry(s)) ELSE old.dir[s]],
        store |-> [b \in Block |->
            IF \E i \in 1 .. BlocksFor(data.records) : b = Nth(free, i)
            THEN <<data.number, part(b)>> ELSE old.store[b]]]

-----------------------------------------------------------------------------
(* What a reader finds *)

SlotsOf(im, f) == {s \in Slot : im.dir[s].file = f}

\* The entries of a file by their extents.
Extents(im, f) ==
    LET slots == SlotsOf(im, f)
        Before(s) == {t \in slots : im.dir[t].extent < im.dir[s].extent}
    IN [k \in 1 .. Cardinality(slots) |->
          im.dir[CHOOSE s \in slots : Cardinality(Before(s)) = k - 1]]

\* All blocks of some entries, in order.
BlocksOf(entries) == FlattenSeq([k \in DOMAIN entries |-> entries[k].blocks])

\* listFiles: all blocks of every entry but the last, and the records of that.
RecordsIn(entries) ==
    LET last == entries[Len(entries)]
    IN Len(BlocksOf(Front(entries))) * RecordsPerBlock
         + (last.extent % ExtentsPerEntry) * RecordsPerExtent + last.rc

\* readFile: all blocks in order, cut to the size.
Held(im, f) ==
    LET entries == Extents(im, f)
        blocks == BlocksOf(entries)
        parts == [i \in DOMAIN blocks |-> im.store[blocks[i]]]
        records == RecordsIn(entries)
    IN [parts |-> SubSeq(parts, 1, AtMost(Len(parts), BlocksFor(records))), records |-> records]

-----------------------------------------------------------------------------
(* The routes *)

Idle(r) == job' = [job EXCEPT ![r] = NoJob]

\* POST and DELETE /api/images/:filename/cpm/files: the image is not mounted.
Ask(r, f) ==
    /\ requests < MaxRequests
    /\ job[r].pc = "idle" /\ \A q \in Req : job[q].pc = "idle" => r <= q
    /\ requests' = requests + 1
    /\ \E data \in {[number |-> requests + 1, records |-> n, deleted |-> FALSE] : n \in Lengths}
                     \cup {[NoData EXCEPT !.deleted = TRUE]} :
         job' = [job EXCEPT ![r] = [NoJob EXCEPT !.pc = "read", !.file = f, !.data = data]]
    /\ UNCHANGED <<image, torn, hidden>>

\* readFile has the image; the change is made in memory, or is refused.
Load(r) ==
    /\ job[r].pc = "read"
    /\ LET f == job[r].file
           data == job[r].data
           possible == /\ ~torn
                       /\ IF data.deleted THEN SlotsOf(image, f) # {}
                          ELSE Fits(image, f, data.records)
           changed == IF data.deleted THEN Erased(image, f) ELSE Written(image, f, data)
       IN IF possible
          THEN job' = [job EXCEPT ![r].pc = "changed", ![r].image = changed]
          ELSE Idle(r)
    /\ UNCHANGED <<image, torn, hidden, requests>>

\* writeFile opens the image, and so cuts it off; and has written it.
Open(r) ==
    /\ job[r].pc = "changed"
    /\ torn' = TRUE
    /\ job' = [job EXCEPT ![r].pc = "open"]
    /\ UNCHANGED <<image, hidden, requests>>

Save(r) ==
    /\ job[r].pc = "open"
    /\ image' = job[r].image
    /\ torn' = FALSE
    /\ Idle(r)
    /\ UNCHANGED <<hidden, requests>>

\* The disk refuses the write; the process is killed.
SaveFails(r) ==
    /\ job[r].pc \in {"changed", "open"}
    /\ Idle(r)
    /\ UNCHANGED <<image, torn, hidden, requests>>

Kill ==
    /\ \E r \in Req : job[r] # NoJob
    /\ job' = [r \in Req |-> NoJob]
    /\ UNCHANGED <<image, torn, hidden, requests>>

Next ==
    \/ \E r \in Req : (\E f \in File : Ask(r, f)) \/ Load(r) \/ Open(r) \/ Save(r) \/ SaveFails(r)
    \/ Kill

Spec == Init /\ [][Next]_vars

-----------------------------------------------------------------------------
\* Every variable has the values its comment names.
Entry == [file : File \cup {Unused}, extent : Nat, rc : 0 .. RecordsPerExtent,
          blocks : Seq(Block)]
Images == [dir : [Slot -> Entry], store : [Block -> Seq(Nat)]]
CpmTypeOK ==
    /\ image \in Images
    /\ torn \in BOOLEAN /\ hidden \subseteq Block
    /\ \A r \in Req : /\ job[r].pc \in {"idle", "read", "changed", "open"}
                      /\ job[r].image \in Images \cup {NoImage}
                      /\ job[r].pc \in {"changed", "open"} => job[r].image \in Images
    /\ requests \in 0 .. MaxRequests

\* A block belongs to the directory, to one entry of one file, or to none.
Sound(im) ==
    /\ \A s, t \in Live(im) : s # t => BlocksIn(im.dir[s]) \cap BlocksIn(im.dir[t]) = {}
    /\ \A s \in Live(im) :
         /\ \A b \in BlocksIn(im.dir[s]) : b >= DirBlocks
         /\ \A i, j \in DOMAIN im.dir[s].blocks :
              im.dir[s].blocks[i] = im.dir[s].blocks[j] => i = j

\* No image that is written, or is about to be, has a block twice in its directory
\* or a file in its directory blocks (allocateBlocks, buildAllocationBitmap).
BlocksUsedOnce ==
    /\ CpmTypeOK
    /\ Sound(image)
    /\ \A r \in Req : job[r].pc \in {"changed", "open"} => Sound(job[r].image)

\* While another file that has blocks marks where the directory ends, no write goes to directory
\* blocks that the code does not know of ("Allocating into them would clobber live
\* directory sectors", cpm-filesystem.ts:880).
HiddenDirectoryStays ==
    [][\A r \in Req :
         /\ job[r].pc = "read" /\ job'[r].pc = "changed"
         /\ hidden \cap Used(image) = {}
         /\ \E s \in Live(image) :
              image.dir[s].file # job[r].file /\ image.dir[s].blocks # <<>>
         => \A b \in hidden : job'[r].image.store[b] = image.store[b]]_vars

-----------------------------------------------------------------------------
(* What the routes promise: seen through readFile, the image is the map of FileStore *)

Absent == [parts |-> <<>>, records |-> 0, absent |-> TRUE]
NoMap == <<>>

\* What a file holds that was written whole by the request of this number.
Whole(number, records) ==
    [parts |-> [i \in 1 .. BlocksFor(records) |-> <<number, i>>], records |-> records]
Content == {Whole(n, k) : n \in 0 .. MaxRequests, k \in Lengths \cup {0, 1}}

\* What readFile gives for each name.
Files(im) == [f \in File |-> IF SlotsOf(im, f) = {} THEN Absent ELSE Held(im, f)]

\* What a request wants of its file, and the map it puts back.
Wanted(j) ==
    [file |-> j.file,
     content |-> IF j.data.deleted \/ j.pc = "idle" THEN Absent
                 ELSE Whole(j.data.number, j.data.records)]
Copy(j) == IF j.pc \in {"changed", "open"} THEN Files(j.image) ELSE NoMap

Store == INSTANCE FileStore WITH
    files <- Files(image),
    NoFile <- Unused,
    asked <- [r \in Req |-> Wanted(job[r])],
    mine <- [r \in Req |-> Copy(job[r])]

\* Every file reads back as it was written, whatever is written and deleted besides
\* it, and as the last request to put the image back knew it: the routes implement
\* FileStore.
ImplementsFileStore == Store!Spec
=============================================================================
