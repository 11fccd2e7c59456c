-------------------------- MODULE ConfigStoreProofs --------------------------
(***************************************************************************)
(* What holds of the overrides file, its backups and what runs, for any    *)
(* keys, sections, pages, failures and restarts, as long as requests do    *)
(* not overlap.                                                            *)
(*                                                                         *)
(* IndInv is about types and holds whatever overlaps.  SerialInv says what *)
(* the files hold at every stage of the one request under way: BackupsAt   *)
(* follows the documents of the past through the rotation and the          *)
(* rollback, Ready describes the temporary file, StageOK the rest.  A step *)
(* is described by what it carries from one name to another (Carried), and *)
(* the stage by what lies behind the names.                                *)
(***************************************************************************)
EXTENDS ConfigStore, FiniteSetTheorems, SequenceTheorems, TLAPS

\* What a request may be at, whatever overlaps.
JobOK(j) ==
    /\ j.pc = "idle" <=> j.kind = "none"
    /\ j.pc \in {"stat", "rotate2", "rotate1", "copy", "copying"} => j.kind = "put"
    /\ j.pc \in {"shift1", "shift2"} => j.kind = "rollback"
    /\ j.pc \in {"open", "write", "rename", "done"} => j.kind \in {"put", "rollback"}
    /\ j.kind = "put" => /\ j.section \in Section
                         /\ j.patch \in [KeysOf[j.section] -> Value]
                         /\ KeysOf[j.section] # {}
    /\ j.pc = "write" <=> j.inode # 0

JobsOK == \A p \in Page : JobOK(job[p])

-----------------------------------------------------------------------------
(* Documents and inodes *)

LEMMA Inodes == Inode \subseteq Nat \ {0} /\ 1 .. 5 \subseteq Inode
<1>1. Cardinality(Page) \in Nat
    BY FS_CardinalityType, ConstantsAssumption
<1> QED
    BY <1>1 DEF Inode

\* A document is a function of some of the keys.
LEMMA Documents ==
    /\ \A d : d \in Document <=> \E K \in SUBSET Key : d \in [K -> Value]
    /\ \A d \in Document : DOMAIN d \subseteq Key /\ \A k \in DOMAIN d : d[k] \in Value
    /\ NoDocument \in Document /\ DOMAIN NoDocument = {}
    /\ \A s \in Section : [KeysOf[s] -> Value] \subseteq Document
<1>1. \A d : d \in Document <=> \E K \in SUBSET Key : d \in [K -> Value]
    BY DEF Document
<1>2. NoDocument \in [{} -> Value] /\ DOMAIN NoDocument = {}
    BY DEF NoDocument
<1>3. \A s \in Section : KeysOf[s] \in SUBSET Key
    BY ConstantsAssumption
<1> QED
    BY <1>1, <1>2, <1>3

\* The values of a merge.
LEMMA Merged ==
    ASSUME NEW d \in Document, NEW e \in Document
    PROVE  /\ Merge(d, e) \in Document
           /\ DOMAIN Merge(d, e) = DOMAIN d \cup DOMAIN e
           /\ \A k \in DOMAIN d \cup DOMAIN e :
                 Merge(d, e)[k] = IF k \in DOMAIN e THEN e[k] ELSE d[k]
<1>1. /\ DOMAIN d \cup DOMAIN e \in SUBSET Key
      /\ \A k \in DOMAIN d : d[k] \in Value
      /\ \A k \in DOMAIN e : e[k] \in Value
    BY Documents
<1>2. Merge(d, e) \in [DOMAIN d \cup DOMAIN e -> Value]
    BY <1>1 DEF Merge
<1> QED
    BY <1>1, <1>2, Documents DEF Merge

LEMMA Effects ==
    ASSUME NEW d \in Document
    PROVE  /\ Effective(d) \in [Key -> Value]
           /\ \A k \in Key : Effective(d)[k] = IF k \in DOMAIN d THEN d[k] ELSE Default
<1>1. DOMAIN d \subseteq Key /\ \A k \in DOMAIN d : d[k] \in Value
    BY Documents
<1>2. Baseline \in [Key -> Value] /\ \A k \in Key : Baseline[k] = Default
    BY ConstantsAssumption DEF Baseline
<1>3. Key \cup DOMAIN d = Key
    BY <1>1
<1>4. Effective(d) = [k \in Key |-> IF k \in DOMAIN d THEN d[k] ELSE Baseline[k]]
    BY <1>2, <1>3 DEF Effective, Merge
<1> QED
    BY <1>1, <1>2, <1>4

LEMMA Contents ==
    /\ Created \in Content /\ Torn \in Content
    /\ \A d \in Document : Whole(d) \in Content
    /\ \A c \in Content : c.doc \in Document
    /\ \A c \in Content : c.tag = "whole" => c = Whole(c.doc)
    /\ \A d : Whole(d).tag = "whole" /\ Whole(d).doc = d /\ Whole(d) # Created
<1>1. \A d : Whole(d).tag = "whole" /\ Whole(d).doc = d
    BY DEF Whole
<1>2. Created.tag = "created" /\ Created.doc = NoDocument /\ Torn.tag = "torn" /\ Torn.doc = NoDocument
    BY DEF Created, Torn
<1>3. \A c \in Content : (\E d \in Document : c = Whole(d)) \/ c = Created \/ c = Torn
    BY DEF Content
<1>4. \A c \in Content : c.doc \in Document
    BY <1>1, <1>2, <1>3, Documents
<1>5. \A c \in Content : c.tag = "whole" => c = Whole(c.doc)
    BY <1>1, <1>2, <1>3
<1>6. Created \in Content /\ Torn \in Content /\ \A d \in Document : Whole(d) \in Content
    BY DEF Content
<1>7. \A d : Whole(d) # Created
    BY <1>1, <1>2
<1> QED
    BY <1>1, <1>4, <1>5, <1>6, <1>7

FileRecord == [content : Content, mtime : Nat]

\* The part of the types that is about files.
FilesOK ==
    /\ names \in [Name -> Inode \cup {0}]
    /\ \A m, n \in Name : names[m] = names[n] /\ names[m] # 0 => m = n
    /\ inodes \in [Inode -> FileRecord]

\* What has a name or is open is not forgotten.
LEMMA Remembered ==
    ASSUME FilesOK, NEW nn \in [Name -> Inode \cup {0}], NEW jj
    PROVE  LET ii == Forgotten(nn, jj, inodes)
           IN /\ ii \in [Inode -> FileRecord]
              /\ \A n \in Name : nn[n] # 0 => ii[nn[n]] = inodes[nn[n]]
              /\ \A p \in Page : jj[p].inode \in Inode => ii[jj[p].inode] = inodes[jj[p].inode]
<1>1. [content |-> Created, mtime |-> 0] \in FileRecord
    BY Contents DEF FileRecord
<1>2. \A n \in Name : nn[n] # 0 => nn[n] \in Inode
    OBVIOUS
<1> QED
    BY <1>1, <1>2, SMT DEF Forgotten, FilesOK

\* The override is a document, or not whole.
LEMMA Overrides ==
    ASSUME FilesOK
    PROVE  /\ Override \in Content /\ Override.doc \in Document
           /\ ETag.mtime \in Nat
           /\ \A n \in Name : Exists(n) => /\ names[n] \in Inode /\ inodes[names[n]] \in FileRecord
                                           /\ At(n) \in Content /\ At(n).doc \in Document
<1>1. \A n \in Name : Exists(n) => names[n] \in Inode /\ inodes[names[n]] \in FileRecord
    BY DEF FilesOK, Exists
<1>2. \A n \in Name : Exists(n) => At(n) \in Content
    BY <1>1 DEF At, FileRecord
<1>3. Main \in Name
    BY DEF Main, Name
<1>4. Override \in Content
    BY <1>2, <1>3, Contents, Documents DEF Override
<1>5. ETag.mtime \in Nat
    BY <1>1, <1>3 DEF ETag, FileRecord
<1> QED
    BY <1>1, <1>2, <1>4, <1>5, Contents

-----------------------------------------------------------------------------
(* Types, whatever overlaps. *)

\* The part of the types that is not about files or requests.
RestOK ==
    /\ runtime \in [Key -> Value]
    /\ epoch \in 1 .. MaxRestarts + 1 /\ clock \in Nat
    /\ page \in [Page -> View]
    /\ requests \in 0 .. MaxRequests
    /\ acked \in Document /\ unsure \subseteq Document
    /\ undo \in Seq(Document) /\ told \subseteq Key
    /\ broken \in BOOLEAN /\ met \in BOOLEAN

IndInv == FilesOK /\ RestOK /\ job \in [Page -> Job] /\ JobsOK

LEMMA InvImpliesTypes == IndInv <=> ConfigTypeOK /\ JobsOK
BY DEF IndInv, ConfigTypeOK, FilesOK, RestOK, FileRecord

\* A request that is put at another place is a request still.
LEMMA JobReplaced ==
    ASSUME job \in [Page -> Job], JobsOK, NEW p \in Page, NEW j \in Job, JobOK(j),
           job' = [job EXCEPT ![p] = j]
    PROVE  /\ job' \in [Page -> Job] /\ JobsOK'
           /\ job'[p] = j /\ \A q \in Page \ {p} : job'[q] = job[q]
<1>1. job' \in [Page -> Job] /\ job'[p] = j /\ \A q \in Page \ {p} : job'[q] = job[q]
    OBVIOUS
<1>2. \A q \in Page : JobOK(job'[q])
    <2> TAKE q \in Page
    <2>1. CASE q = p
        BY <2>1, <1>1
    <2>2. CASE q # p
        BY <2>2, <1>1 DEF JobsOK
    <2> QED
        BY <2>1, <2>2
<1> QED
    BY <1>1, <1>2 DEF JobsOK

LEMMA JobMoved ==
    ASSUME job \in [Page -> Job], NEW p \in Page, NEW pc \in Pc,
           job' = [job EXCEPT ![p].pc = pc]
    PROVE  \E j \in Job : /\ job' = [job EXCEPT ![p] = j]
                          /\ j.pc = pc /\ j.kind = job[p].kind /\ j.section = job[p].section
                          /\ j.patch = job[p].patch /\ j.etag = job[p].etag
                          /\ j.doc = job[p].doc /\ j.inode = job[p].inode
                          /\ j.seen = job[p].seen
<1>1. PICK j : j = [job[p] EXCEPT !.pc = pc]
    OBVIOUS
<1>2. job[p] \in Job
    OBVIOUS
<1>3. /\ j.pc = pc /\ j.kind = job[p].kind /\ j.section = job[p].section
      /\ j.patch = job[p].patch /\ j.etag = job[p].etag
      /\ j.doc = job[p].doc /\ j.inode = job[p].inode
      /\ j.seen = job[p].seen
      /\ j \in Job
    BY <1>1, <1>2 DEF Job
<1>4. job' = [job EXCEPT ![p] = j]
    BY <1>1
<1> QED
    BY <1>3, <1>4

LEMMA NoJobs == NoJob \in Job /\ JobOK(NoJob) /\ NoJob.pc = "idle" /\ NoJob.inode = 0
<1>1. NoJob \in Job
    BY Documents DEF NoJob, NoETag, Job, Pc, Kind
<1> QED
    BY <1>1 DEF NoJob, JobOK

\* A file that is renamed over another, or deleted.
LEMMA FilesRenamed ==
    ASSUME FilesOK, NEW from \in Name, NEW to \in Name, from # to,
           names' = Renamed(from, to), NEW jj, inodes' = Forgotten(names', jj, inodes)
    PROVE  FilesOK'
<1>1. names' \in [Name -> Inode \cup {0}] /\ \A m, n \in Name : names'[m] = names'[n] /\ names'[m] # 0 => m = n
    BY DEF FilesOK, Renamed
<1> QED
    BY <1>1, Remembered DEF FilesOK

LEMMA FilesForgotten ==
    ASSUME FilesOK, NEW n \in Name, names' = [names EXCEPT ![n] = 0] \/ names' = names,
           NEW jj, inodes' = Forgotten(names', jj, inodes)
    PROVE  FilesOK'
<1>1. names' \in [Name -> Inode \cup {0}] /\ \A m, k \in Name : names'[m] = names'[k] /\ names'[m] # 0 => m = k
    BY DEF FilesOK
<1> QED
    BY <1>1, Remembered DEF FilesOK

\* A file that is created or truncated.
LEMMA FilesOpened ==
    ASSUME FilesOK, NEW n \in Name, NEW i \in Inode,
           IF Exists(n) THEN i = names[n] ELSE FreeInode(i),
           names' = [names EXCEPT ![n] = i], inodes' = [inodes EXCEPT ![i].content = Created]
    PROVE  FilesOK'
<1>1. names' \in [Name -> Inode \cup {0}] /\ \A m, k \in Name : names'[m] = names'[k] /\ names'[m] # 0 => m = k
    <2>1. \A m \in Name : m # n => names[m] # i
        BY Inodes DEF FilesOK, FreeInode, Exists
    <2> QED
        BY <2>1 DEF FilesOK
<1>2. [inodes[i] EXCEPT !.content = Created] \in FileRecord
    BY Contents DEF FilesOK, FileRecord
<1> QED
    BY <1>1, <1>2 DEF FilesOK

\* The types at the start.
LEMMA PastOf ==
    ASSUME NEW past \in Pasts
    PROVE  /\ Len(past) \in 0 .. 4 /\ DOMAIN past = 1 .. Len(past)
           /\ past \in Seq(Document)
           /\ \A i \in DOMAIN past : past[i] \in Document /\ past[i] # NoDocument
<1>1. past \in Seq(UNION {[d -> Value] : d \in (SUBSET Key) \ {{}}}) /\ Len(past) <= 4
    BY ConstantsAssumption
<1>2. \A d \in UNION {[K -> Value] : K \in (SUBSET Key) \ {{}}} : d \in Document /\ d # NoDocument
    <2> TAKE d \in UNION {[K -> Value] : K \in (SUBSET Key) \ {{}}}
    <2>1. PICK K \in (SUBSET Key) \ {{}} : d \in [K -> Value]
        OBVIOUS
    <2>2. DOMAIN d # {}
        BY <2>1
    <2> QED
        BY <2>1, <2>2, Documents
<1>3. \A i \in 1 .. Len(past) : past[i] \in Document /\ past[i] # NoDocument
    BY <1>1, <1>2
<1>4. Len(past) \in Nat /\ DOMAIN past = 1 .. Len(past)
    BY <1>1
<1>5. past \in Seq(Document)
    <2>1. \A d : d \in UNION {[K -> Value] : K \in (SUBSET Key) \ {{}}} => d \in Document
        BY <1>2
    <2> QED
        BY <2>1, <1>1, <1>3, <1>4, SeqDef
<1> QED
    BY <1>1, <1>3, <1>4, <1>5

LEMMA TypesInit == Init => IndInv
<1> SUFFICES ASSUME Init PROVE IndInv
    OBVIOUS
<1>1. PICK past \in Pasts :
      /\ names = [n \in Name |-> IF n < Len(past) THEN n + 1 ELSE 0]
      /\ inodes = [i \in Inode |-> [content |-> IF i <= Len(past) THEN Whole(past[i]) ELSE Created,
                                    mtime |-> IF i <= Len(past) THEN Len(past) + 1 - i ELSE 0]]
      /\ clock = Len(past)
      /\ acked = IF past = << >> THEN NoDocument ELSE past[1]
      /\ undo = IF past = << >> THEN << >> ELSE Tail(past)
      /\ runtime = Effective(acked)
      /\ epoch = 1
      /\ page = [p \in Page |-> NewView]
      /\ job = [p \in Page |-> NoJob]
      /\ requests = 0
      /\ unsure = {} /\ broken = FALSE /\ told = {} /\ met = FALSE
    BY DEF Init
<1> DEFINE L == Len(past)
<1>2. L \in 0 .. 4 /\ DOMAIN past = 1 .. L /\ past \in Seq(Document) /\ \A i \in 1 .. L : past[i] \in Document
    BY PastOf
<1>3. FilesOK
    <2>1. \A n \in Name : n < L => n + 1 \in Inode
        BY <1>2, Inodes DEF Name
    <2>2. names \in [Name -> Inode \cup {0}]
        BY <2>1, <1>1
    <2>3. \A m, n \in Name : names[m] = names[n] /\ names[m] # 0 => m = n
        BY <1>1, <1>2 DEF Name
    <2>4. \A i \in Inode : [content |-> IF i <= L THEN Whole(past[i]) ELSE Created,
                            mtime |-> IF i <= L THEN L + 1 - i ELSE 0] \in FileRecord
        <3> TAKE i \in Inode
        <3>0. i \in Nat \ {0}
            BY Inodes
        <3>1. (IF i <= L THEN Whole(past[i]) ELSE Created) \in Content
            BY <3>0, <1>2, Contents
        <3>2. (IF i <= L THEN L + 1 - i ELSE 0) \in Nat
            BY <3>0, <1>2
        <3> QED
            BY <3>1, <3>2 DEF FileRecord
    <2> QED
        BY <2>2, <2>3, <2>4, <1>1 DEF FilesOK
<1>4. acked \in Document /\ undo \in Seq(Document)
    BY <1>1, <1>2, Documents, HeadTailProperties
<1>5. NewView \in View
    BY ConstantsAssumption, Documents DEF NewView, View, Baseline, NoETag
<1>6. RestOK
    <2>1. runtime \in [Key -> Value]
        BY <1>1, <1>4, Effects
    <2>2. epoch \in 1 .. MaxRestarts + 1 /\ clock \in Nat /\ requests \in 0 .. MaxRequests
        BY <1>1, <1>2, ConstantsAssumption
    <2>3. page \in [Page -> View]
        BY <1>1, <1>5
    <2>4. unsure \subseteq Document /\ told \subseteq Key /\ broken \in BOOLEAN /\ met \in BOOLEAN
        BY <1>1
    <2> QED
        BY <1>4, <2>1, <2>2, <2>3, <2>4 DEF RestOK
<1>7. job \in [Page -> Job] /\ JobsOK
    BY <1>1, NoJobs DEF JobsOK
<1> QED
    BY <1>3, <1>6, <1>7 DEF IndInv

LEMMA LoadedOK ==
    ASSUME FilesOK
    PROVE  Loaded \in Document
<1>1. Main \in Name /\ Bak \subseteq Name
    BY DEF Main, Bak, Name, MAX_BACKUPS
<1>2. ASSUME \E b \in Bak : Readable(b)
      PROVE  At(CHOOSE b \in Bak : Readable(b) /\ \A a \in Bak : Readable(a) => b <= a).doc \in Document
    <2>1. \E b \in Bak : Readable(b) /\ \A a \in Bak : Readable(a) => b <= a
        BY <1>2 DEF Bak, MAX_BACKUPS
    <2>2. PICK c : c = CHOOSE b \in Bak : Readable(b) /\ \A a \in Bak : Readable(a) => b <= a
        OBVIOUS
    <2>3. c \in Bak /\ Readable(c)
        BY <2>1, <2>2
    <2> QED
        BY <2>2, <2>3, <1>1, Overrides DEF Readable
<1>3. Exists(Main) => At(Main).doc \in Document
    BY <1>1, Overrides
<1> QED
    BY <1>2, <1>3, Documents DEF Loaded

\* What only reads the files leaves them as they are.
LEMMA FilesUnchanged == FilesOK /\ UNCHANGED store => FilesOK'
BY DEF FilesOK, store

\* A request that a page begins.
LEMMA JobBegun ==
    ASSUME job \in [Page -> Job], JobsOK, NEW p \in Page, NEW j \in Job, JobOK(j), MayRequest(p),
           RestOK, job' = [job EXCEPT ![p] = j],
           UNCHANGED <<store, runtime, epoch, page, acked, unsure, undo, broken, told>>
    PROVE  RestOK' /\ job' \in [Page -> Job] /\ JobsOK'
<1>1. requests' \in 0 .. MaxRequests
    BY ConstantsAssumption DEF MayRequest, RestOK
<1>2. met' \in BOOLEAN
    BY DEF MayRequest, RestOK
<1>3. clock' = clock
    BY DEF store
<1>4. RestOK'
    BY <1>1, <1>2, <1>3 DEF RestOK
<1> QED
    BY <1>4, JobReplaced

LEMMA PageStepTypes ==
    ASSUME IndInv, NEW p \in Page, PageStep(p)
    PROVE  IndInv'
<1>0. FilesOK /\ RestOK /\ job \in [Page -> Job] /\ JobsOK
    BY DEF IndInv
<1>1. page \in [Page -> View] /\ page[p] \in View /\ job[p] \in Job /\ runtime \in [Key -> Value]
    BY <1>0 DEF RestOK
<1>2. CASE ConfigLoaded(p)
    <2>1. PICK v : v = [page[p] EXCEPT !.loading = "status", !.values = runtime]
        OBVIOUS
    <2>2. v \in View
        BY <1>1, <2>1 DEF View
    <2>3. page' = [page EXCEPT ![p] = v]
        BY <1>1, <1>2, <2>1 DEF ConfigLoaded
    <2>4. page' \in [Page -> View]
        BY <2>2, <2>3, <1>1
    <2>5. RestOK'
        BY <1>0, <1>2, <2>4 DEF RestOK, ConfigLoaded, ghosts, store
    <2> QED
        BY <1>0, <1>2, <2>5, FilesUnchanged DEF IndInv, JobsOK, ConfigLoaded
<1>3. CASE StatusLoaded(p)
    <2>1. PICK v : v = [page[p] EXCEPT !.loading = "no", !.etag = ETag, !.seen = Override.doc]
        OBVIOUS
    <2>2. ETag \in [epoch : Nat, mtime : Nat]
        BY <1>0, Overrides, ConstantsAssumption DEF ETag, RestOK
    <2>3. v \in View
        BY <1>0, <1>1, <2>1, <2>2, Overrides DEF View
    <2>4. page' = [page EXCEPT ![p] = v]
        BY <1>1, <1>3, <2>1 DEF StatusLoaded
    <2>5. page' \in [Page -> View]
        BY <2>3, <2>4, <1>1
    <2>6. RestOK'
        BY <1>0, <1>3, <2>5 DEF RestOK, StatusLoaded, ghosts, store
    <2> QED
        BY <1>0, <1>3, <2>6, FilesUnchanged DEF IndInv, JobsOK, StatusLoaded
<1>4. ASSUME NEW s \in Section, Put(p, s)
      PROVE  IndInv'
    <2>1. PICK patch \in [KeysOf[s] -> Value] :
             /\ \E k \in KeysOf[s] : patch[k] # page[p].values[k]
             /\ job' = [job EXCEPT ![p] = [NoJob EXCEPT !.pc = "stat", !.kind = "put",
                        !.section = s, !.patch = patch, !.etag = page[p].etag,
                        !.seen = page[p].seen]]
        BY <1>4 DEF Put
    <2>2. PICK j : j = [NoJob EXCEPT !.pc = "stat", !.kind = "put", !.section = s, !.patch = patch,
                            !.etag = page[p].etag, !.seen = page[p].seen]
        OBVIOUS
    <2>3. patch \in Document
        BY Documents
    <2>4. page[p].etag \in [epoch : Nat, mtime : Nat] /\ page[p].seen \in Document
        BY <1>1 DEF View
    <2>5. j \in Job
        BY <2>2, <2>3, <2>4, Documents DEF NoJob, Job, Pc, Kind
    <2>6. /\ j.pc = "stat" /\ j.kind = "put" /\ j.section = s /\ j.patch = patch /\ j.inode = 0
        BY <2>2 DEF NoJob
    <2>7. JobOK(j)
        BY <2>1, <2>6 DEF JobOK
    <2> QED
        BY <1>0, <1>4, <2>1, <2>2, <2>5, <2>7, JobBegun, FilesUnchanged DEF Put, IndInv
<1>5. CASE Rollback(p)
    <2>1. PICK j : j = [NoJob EXCEPT !.pc = "read", !.kind = "rollback"]
        OBVIOUS
    <2>2. j \in Job /\ JobOK(j)
        BY <2>1, Documents DEF NoJob, NoETag, Job, Pc, Kind, JobOK
    <2> QED
        BY <1>0, <1>5, <2>1, <2>2, JobBegun, FilesUnchanged DEF Rollback, IndInv
<1>6. CASE Reload(p)
    <2>1. PICK j : j = [NoJob EXCEPT !.pc = "read", !.kind = "reload"]
        OBVIOUS
    <2>2. j \in Job /\ JobOK(j)
        BY <2>1, Documents DEF NoJob, NoETag, Job, Pc, Kind, JobOK
    <2> QED
        BY <1>0, <1>6, <2>1, <2>2, JobBegun, FilesUnchanged DEF Reload, IndInv
<1> QED
    BY <1>2, <1>3, <1>4, <1>5, <1>6 DEF PageStep

\* The documents to go back to, with one more in front of them.
LEMMA UndoneIs ==
    ASSUME undo \in Seq(Document), NEW d \in Document
    PROVE  /\ Undone(d) \in Seq(Document)
           /\ Len(Undone(d)) = IF Len(undo) < MAX_BACKUPS THEN Len(undo) + 1 ELSE MAX_BACKUPS
           /\ Undone(d)[1] = d
           /\ \A i \in Nat \ {0} : i + 1 <= Len(Undone(d)) => Undone(d)[i + 1] = undo[i]
<1>1. PICK s : s = <<d>> \o undo
    OBVIOUS
<1>2. /\ s \in Seq(Document) /\ Len(s) = Len(undo) + 1 /\ s[1] = d
      /\ \A i \in 1 .. Len(undo) : s[i + 1] = undo[i]
    BY <1>1
<1>3. PICK n \in Nat : n = IF Len(undo) < MAX_BACKUPS THEN Len(undo) + 1 ELSE MAX_BACKUPS
    BY DEF MAX_BACKUPS
<1>4. 1 <= n /\ n <= Len(s) /\ n <= Len(undo) + 1
    BY <1>2, <1>3 DEF MAX_BACKUPS
<1>5. Undone(d) = SubSeq(s, 1, n)
    BY <1>1, <1>3 DEF Undone
<1>6. Undone(d) = [i \in 1 .. n |-> s[i]]
    BY <1>2, <1>4, <1>5
<1>7. \A i \in 1 .. n : s[i] \in Document
    BY <1>2, <1>4
<1>8. Undone(d) \in Seq(Document) /\ Len(Undone(d)) = n
    BY <1>6, <1>7
<1>9. Undone(d)[1] = d
    BY <1>2, <1>4, <1>6
<1>10. ASSUME NEW i \in Nat \ {0}, i + 1 <= n PROVE Undone(d)[i + 1] = undo[i]
    BY <1>2, <1>4, <1>6, <1>10
<1> QED
    BY <1>3, <1>8, <1>9, <1>10

\* What pages hold when a request ends.
LEMMA AskedAgain ==
    ASSUME page \in [Page -> View], NEW p \in Page, page' = [page EXCEPT ![p].loading = "config"]
    PROVE  page' \in [Page -> View]
<1>1. [page[p] EXCEPT !.loading = "config"] \in View
    BY DEF View
<1> QED
    BY <1>1

LEMMA AnsweredOK ==
    ASSUME FilesOK, page \in [Page -> View], NEW p \in Page, Answered(p)
    PROVE  page' \in [Page -> View]
<1>1. PICK more \in BOOLEAN :
      page' = [page EXCEPT
        ![p].loading = IF more THEN "no" ELSE "config",
        ![p].etag = IF more THEN [epoch |-> page[p].etag.epoch, mtime |-> ETag.mtime] ELSE @,
        ![p].seen = IF more THEN Override.doc ELSE @]
    BY DEF Answered
<1>2. PICK e : e = IF more THEN [epoch |-> page[p].etag.epoch, mtime |-> ETag.mtime] ELSE page[p].etag
    OBVIOUS
<1>3. PICK d : d = IF more THEN Override.doc ELSE page[p].seen
    OBVIOUS
<1>4. page[p] \in View
    OBVIOUS
<1>5. e \in [epoch : Nat, mtime : Nat]
    BY <1>2, <1>4, Overrides DEF View
<1>6. d \in Document
    BY <1>3, <1>4, Overrides DEF View
<1>7. PICK v : v = [page[p] EXCEPT !.loading = IF more THEN "no" ELSE "config", !.etag = e, !.seen = d]
    OBVIOUS
<1>8. v \in View
    BY <1>4, <1>5, <1>6, <1>7 DEF View
<1>9. page' = [page EXCEPT ![p] = v]
    BY <1>1, <1>2, <1>3, <1>7
<1> QED
    BY <1>8, <1>9

\* The steps that leave all but the files and the requests as they are.
LEMMA RestUnchanged ==
    ASSUME RestOK, UNCHANGED <<runtime, epoch, page, requests, acked, unsure, undo, told, met>>,
           clock' \in Nat, broken' \in BOOLEAN
    PROVE  RestOK'
BY DEF RestOK

\* A request that goes on to another place with the same document and the same file.
LEMMA JobWentOn ==
    ASSUME job \in [Page -> Job], JobsOK, NEW p \in Page, NEW pc \in Pc \ {"idle", "write"},
           job[p].pc \notin {"idle", "write"},
           pc \in {"stat", "rotate2", "rotate1", "copy", "copying"} => job[p].kind = "put",
           pc \in {"shift1", "shift2"} => job[p].kind = "rollback",
           pc \in {"open", "rename", "done"} => job[p].kind \in {"put", "rollback"},
           Goto(p, pc)
    PROVE  job' \in [Page -> Job] /\ JobsOK'
<1>0. pc \in Pc /\ job' = [job EXCEPT ![p].pc = pc]
    BY DEF Goto
<1>1. PICK j \in Job : /\ job' = [job EXCEPT ![p] = j]
                       /\ j.pc = pc /\ j.kind = job[p].kind /\ j.section = job[p].section
                       /\ j.patch = job[p].patch /\ j.etag = job[p].etag
                       /\ j.doc = job[p].doc /\ j.inode = job[p].inode
                       /\ j.seen = job[p].seen
    BY <1>0, JobMoved, Zenon
<1>2. JobOK(job[p])
    BY DEF JobsOK
<1>3. JobOK(j)
    BY <1>1, <1>2 DEF JobOK
<1> QED
    BY <1>1, <1>3, JobReplaced

LEMMA RequestStepTypes ==
    ASSUME IndInv, NEW p \in Page, RequestStep(p)
    PROVE  IndInv'
<1>0. FilesOK /\ RestOK /\ job \in [Page -> Job] /\ JobsOK
    BY DEF IndInv
<1>1. /\ page \in [Page -> View] /\ page[p] \in View /\ job[p] \in Job /\ JobOK(job[p])
      /\ runtime \in [Key -> Value]
      /\ clock \in Nat /\ broken \in BOOLEAN
    BY <1>0 DEF RestOK, JobsOK
<1>n. Main \in Name /\ Tmp \in Name /\ Target \in Name /\ 1 \in Name /\ 2 \in Name /\ 3 \in Name
    BY DEF Main, Tmp, Target, Name
<1>2. CASE ETagChecked(p)
    <2>1. PICK pc \in {"read", "failed"} : Goto(p, pc)
        BY <1>2 DEF ETagChecked
    <2>2. job' \in [Page -> Job] /\ JobsOK'
        BY <1>0, <1>2, <2>1, JobWentOn DEF ETagChecked, Pc
    <2> QED
        BY <1>0, <1>1, <1>2, <2>2, RestUnchanged, FilesUnchanged DEF ETagChecked, IndInv, ghosts, store
<1>3. CASE OverrideRead(p)
    <2>1. PICK pc \in {"rotate2", "failed"} : pc = IF Override.tag = "whole" THEN "rotate2" ELSE "failed"
        OBVIOUS
    <2>2. PICK d : d = IF Override.tag = "whole" THEN Merge(Override.doc, job[p].patch) ELSE NoDocument
        OBVIOUS
    <2>3. d \in Document
        BY <1>0, <1>1, <2>2, Overrides, Merged, Documents DEF Job
    <2>4. PICK j : j = [job[p] EXCEPT !.pc = pc, !.doc = d]
        OBVIOUS
    <2>5. j \in Job
        BY <1>1, <2>1, <2>3, <2>4 DEF Job, Pc
    <2>6. j.pc = pc /\ j.kind = "put" /\ j.section = job[p].section /\ j.patch = job[p].patch
          /\ j.inode = job[p].inode
        BY <1>1, <1>3, <2>4 DEF Job, OverrideRead
    <2>7. JobOK(j)
        BY <1>1, <1>3, <2>1, <2>6 DEF JobOK, OverrideRead
    <2>8. job' = [job EXCEPT ![p] = j]
        BY <1>3, <2>1, <2>2, <2>4 DEF OverrideRead
    <2>9. job' \in [Page -> Job] /\ JobsOK'
        BY <1>0, <2>5, <2>7, <2>8, JobReplaced
    <2> QED
        BY <1>0, <1>1, <1>3, <2>9, RestUnchanged, FilesUnchanged DEF OverrideRead, IndInv, ghosts, store
<1>4. CASE BackupRead(p)
    <2>1. PICK pc \in {"open", "failed"} : pc = IF Readable(1) THEN "open" ELSE "failed"
        OBVIOUS
    <2>2. PICK d : d = IF Readable(1) THEN At(1).doc ELSE NoDocument
        OBVIOUS
    <2>3. d \in Document
        BY <1>0, <1>n, <2>2, Overrides, Documents DEF Readable
    <2>4. PICK j : j = [job[p] EXCEPT !.pc = pc, !.doc = d]
        OBVIOUS
    <2>5. j \in Job
        BY <1>1, <2>1, <2>3, <2>4 DEF Job, Pc
    <2>6. j.pc = pc /\ j.kind = "rollback" /\ j.section = job[p].section /\ j.patch = job[p].patch
          /\ j.inode = job[p].inode
        BY <1>1, <1>4, <2>4 DEF Job, BackupRead
    <2>7. JobOK(j)
        BY <1>1, <1>4, <2>1, <2>6 DEF JobOK, BackupRead
    <2>8. job' = [job EXCEPT ![p] = j]
        BY <1>4, <2>1, <2>2, <2>4 DEF BackupRead
    <2>9. job' \in [Page -> Job] /\ JobsOK'
        BY <1>0, <2>5, <2>7, <2>8, JobReplaced
    <2> QED
        BY <1>0, <1>1, <1>4, <2>9, RestUnchanged, FilesUnchanged DEF BackupRead, IndInv, ghosts, store
<1>5. CASE Rotated(p)
    <2>1. PICK pc \in {"rotate1", "copy"} : Goto(p, pc)
        BY <1>5 DEF Rotated
    <2>2. job[p].kind = "put"
        BY <1>1, <1>5 DEF Rotated, JobOK
    <2>3. job' \in [Page -> Job] /\ JobsOK'
        BY <1>0, <1>5, <2>1, <2>2, JobWentOn DEF Rotated, Pc
    <2>4. PICK from \in {1, 2} : names' = IF Exists(from) THEN Renamed(from, from + 1) ELSE names
        BY <1>5 DEF Rotated, Rotation
    <2>f. from \in Name /\ from + 1 \in Name /\ inodes' = Forgotten(names', job', inodes)
        BY <1>5, <1>n DEF Rotated
    <2>5. FilesOK'
        <3>1. CASE Exists(from)
            BY <3>1, <1>0, <2>4, <2>f, FilesRenamed
        <3>2. CASE ~Exists(from)
            BY <3>2, <1>0, <2>4, <2>f, FilesForgotten
        <3> QED
            BY <3>1, <3>2
    <2> QED
        BY <1>0, <1>1, <1>5, <2>3, <2>5, RestUnchanged DEF Rotated, IndInv, ghosts
<1>6. CASE CopyBegins(p)
    <2>1. job' \in [Page -> Job] /\ JobsOK'
        BY <1>0, <1>1, <1>6, JobWentOn DEF CopyBegins, Pc, JobOK
    <2>2. FilesOK'
        BY <1>0, <1>6, <1>n, FilesOpened DEF CopyBegins
    <2> QED
        BY <1>0, <1>1, <1>6, <2>1, <2>2, RestUnchanged DEF CopyBegins, IndInv, ghosts
<1>7. CASE CopyEnds(p)
    <2>1. job' \in [Page -> Job] /\ JobsOK'
        BY <1>0, <1>1, <1>7, JobWentOn DEF CopyEnds, Pc, JobOK
    <2>2. FilesOK'
        <3>1. CASE Exists(1) /\ Exists(Main)
            <4>1. At(Main) \in Content /\ names[1] \in Inode /\ inodes[names[1]] \in FileRecord
                BY <3>1, <1>0, <1>n, Overrides
            <4>2. [inodes[names[1]] EXCEPT !.content = At(Main)] \in FileRecord
                BY <4>1 DEF FileRecord
            <4>3. names' = names /\ inodes' = [inodes EXCEPT ![names[1]].content = At(Main)]
                BY <3>1, <1>7 DEF CopyEnds
            <4> QED
                BY <1>0, <4>1, <4>2, <4>3 DEF FilesOK
        <3>2. CASE ~(Exists(1) /\ Exists(Main))
            BY <3>2, <1>0, <1>7 DEF CopyEnds, FilesOK
        <3> QED
            BY <3>1, <3>2
    <2> QED
        BY <1>0, <1>1, <1>7, <2>1, <2>2, RestUnchanged DEF CopyEnds, IndInv, ghosts
<1>8. CASE NothingToCopy(p)
    <2>1. job' \in [Page -> Job] /\ JobsOK'
        BY <1>0, <1>1, <1>8, JobWentOn DEF NothingToCopy, Pc, JobOK
    <2> QED
        BY <1>0, <1>1, <1>8, <2>1, RestUnchanged, FilesUnchanged DEF NothingToCopy, IndInv, ghosts, store
<1>9. CASE TmpOpened(p)
    <2>1. PICK i \in Inode :
             /\ IF Exists(Target) THEN i = names[Target] ELSE FreeInode(i)
             /\ names' = [names EXCEPT ![Target] = i]
             /\ inodes' = [inodes EXCEPT ![i].content = Created]
             /\ job' = [job EXCEPT ![p].pc = "write", ![p].inode = i]
        BY <1>9 DEF TmpOpened
    <2>2. FilesOK'
        BY <1>0, <1>n, <2>1, FilesOpened
    <2>3. PICK j : j = [job[p] EXCEPT !.pc = "write", !.inode = i]
        OBVIOUS
    <2>4. j \in Job
        BY <1>1, <2>3 DEF Job, Pc
    <2>5. j.pc = "write" /\ j.kind = job[p].kind /\ j.section = job[p].section /\ j.patch = job[p].patch
          /\ j.inode = i
        BY <1>1, <2>3 DEF Job
    <2>6. JobOK(j)
        BY <1>1, <1>9, <2>5, Inodes DEF JobOK, TmpOpened
    <2>7. job' = [job EXCEPT ![p] = j]
        BY <2>1, <2>3
    <2>8. job' \in [Page -> Job] /\ JobsOK'
        BY <1>0, <2>4, <2>6, <2>7, JobReplaced
    <2> QED
        BY <1>0, <1>1, <1>9, <2>2, <2>8, RestUnchanged DEF TmpOpened, IndInv, ghosts
<1>10. CASE TmpWritten(p)
    <2>1. PICK c \in {Whole(job[p].doc)} \cup
                     (IF inodes[job[p].inode].content = Created THEN {} ELSE {Torn}) :
             inodes' = [inodes EXCEPT ![job[p].inode] = [content |-> c, mtime |-> clock + 1]]
        BY <1>10 DEF TmpWritten
    <2>2. c \in Content
        BY <1>1, <2>1, Contents DEF Job
    <2>3. [content |-> c, mtime |-> clock + 1] \in FileRecord
        BY <1>1, <2>2 DEF FileRecord
    <2>4. FilesOK'
        BY <1>0, <1>10, <2>1, <2>3 DEF TmpWritten, FilesOK
    <2>5. PICK j : j = [job[p] EXCEPT !.pc = "rename", !.inode = 0]
        OBVIOUS
    <2>6. j \in Job
        BY <1>1, <2>5 DEF Job, Pc
    <2>7. j.pc = "rename" /\ j.kind = job[p].kind /\ j.section = job[p].section /\ j.patch = job[p].patch
          /\ j.inode = 0
        BY <1>1, <2>5 DEF Job
    <2>8. JobOK(j)
        BY <1>1, <1>10, <2>7 DEF JobOK, TmpWritten
    <2>9. job' = [job EXCEPT ![p] = j]
        BY <1>10, <2>5 DEF TmpWritten
    <2>10. job' \in [Page -> Job] /\ JobsOK'
        BY <1>0, <2>6, <2>8, <2>9, JobReplaced
    <2> QED
        BY <1>0, <1>1, <1>10, <2>4, <2>10, RestUnchanged DEF TmpWritten, IndInv, ghosts
<1>11. CASE WriteFails(p)
    <2>1. PICK j : j = [job[p] EXCEPT !.pc = "failed", !.inode = 0]
        OBVIOUS
    <2>2. j \in Job
        BY <1>1, <2>1 DEF Job, Pc
    <2>3. j.pc = "failed" /\ j.kind = job[p].kind /\ j.section = job[p].section /\ j.patch = job[p].patch
          /\ j.inode = 0
        BY <1>1, <2>1 DEF Job
    <2>4. JobOK(j)
        BY <1>1, <1>11, <2>3 DEF JobOK, WriteFails
    <2>5. job' = [job EXCEPT ![p] = j]
        BY <1>11, <2>1 DEF WriteFails
    <2>6. job' \in [Page -> Job] /\ JobsOK'
        BY <1>0, <2>2, <2>4, <2>5, JobReplaced
    <2>7. FilesOK'
        BY <1>0, <1>11, <1>n, FilesForgotten DEF WriteFails
    <2> QED
        BY <1>0, <1>1, <1>11, <2>6, <2>7, RestUnchanged DEF WriteFails, IndInv
<1>12. CASE TmpRenamed(p)
    <2>1. PICK pc \in {"done", "shift1", "failed"} :
             /\ Goto(p, pc)
             /\ pc = "shift1" => job[p].kind # "put"
        BY <1>12 DEF TmpRenamed, AfterRename
    <2>2. job' \in [Page -> Job] /\ JobsOK'
        BY <1>0, <1>1, <1>12, <2>1, JobWentOn DEF TmpRenamed, Pc, JobOK
    <2>3. FilesOK'
        BY <1>0, <1>12, <1>n, FilesRenamed, FilesForgotten DEF TmpRenamed, Target, Tmp, Main
    <2>4. broken' \in BOOLEAN
        BY <1>1, <1>12 DEF TmpRenamed
    <2> QED
        BY <1>0, <1>1, <1>12, <2>2, <2>3, <2>4, RestUnchanged DEF TmpRenamed, IndInv
<1>13. CASE Shifted(p)
    <2>1. PICK pc \in {"shift2", "done"} : Goto(p, pc)
        BY <1>13 DEF Shifted
    <2>2. job' \in [Page -> Job] /\ JobsOK'
        BY <1>0, <1>1, <1>13, <2>1, JobWentOn DEF Shifted, Pc, JobOK
    <2>3. PICK to \in {1, 2} : names' = IF Exists(to + 1) THEN Renamed(to + 1, to)
                                                          ELSE [names EXCEPT ![to] = SlotAfter(to)]
        BY <1>13 DEF Shifted
    <2>4. Exists(to + 1) \/ names' = names \/ names' = [names EXCEPT ![to] = 0]
        BY <1>0, <1>n, <2>3 DEF SlotAfter, FilesOK
    <2>f. to \in Name /\ to + 1 \in Name /\ inodes' = Forgotten(names', job', inodes)
        BY <1>13, <1>n DEF Shifted
    <2>5. FilesOK'
        <3>1. CASE Exists(to + 1)
            BY <3>1, <1>0, <2>3, <2>f, FilesRenamed
        <3>2. CASE ~Exists(to + 1)
            BY <3>2, <1>0, <2>4, <2>f, FilesForgotten
        <3> QED
            BY <3>1, <3>2
    <2> QED
        BY <1>0, <1>1, <1>13, <2>2, <2>5, RestUnchanged DEF Shifted, IndInv, ghosts
<1>14. CASE PutSucceeds(p)
    <2>1. job' \in [Page -> Job] /\ JobsOK'
        BY <1>0, <1>14, NoJobs, JobReplaced DEF PutSucceeds
    <2>2. runtime' \in [Key -> Value]
        <3>1. \A k \in KeysOf[job[p].section] : job[p].patch[k] \in Value
            BY <1>1, <1>14 DEF PutSucceeds, JobOK
        <3> QED
            BY <1>1, <1>14, <3>1 DEF PutSucceeds, AppliedLive
    <2>3. told' \subseteq Key
        <3>1. KeysOf[job[p].section] \subseteq Key
            BY <1>1, <1>14, ConstantsAssumption DEF PutSucceeds, JobOK
        <3> QED
            BY <1>0, <1>14, <3>1 DEF PutSucceeds, RestOK
    <2>4. undo' \in Seq(Document) /\ acked' \in Document /\ unsure' \subseteq Document
        <3>1. acked \in Document /\ undo \in Seq(Document)
            BY <1>0 DEF RestOK
        <3>2. Undone(acked) \in Seq(Document)
            BY <3>1, UndoneIs
        <3>3. << >> \in Seq(Document)
            OBVIOUS
        <3> QED
            BY <1>1, <1>14, <3>2, <3>3 DEF PutSucceeds, Job
    <2>5. page' \in [Page -> View]
        BY <1>0, <1>14, AnsweredOK DEF PutSucceeds, RestOK
    <2>6. RestOK'
        BY <1>0, <1>14, <2>2, <2>3, <2>4, <2>5 DEF PutSucceeds, RestOK, store
    <2> QED
        BY <1>0, <1>14, <2>1, <2>6, FilesUnchanged DEF PutSucceeds, IndInv
<1>15. CASE RollbackSucceeds(p)
    <2>1. job' \in [Page -> Job] /\ JobsOK'
        BY <1>0, <1>15, NoJobs, JobReplaced DEF RollbackSucceeds
    <2>2. undo' \in Seq(Document) /\ acked' \in Document /\ unsure' \subseteq Document
        BY <1>0, <1>1, <1>15, HeadTailProperties DEF RollbackSucceeds, RestOK, Job
    <2>3. page' \in [Page -> View]
        BY <1>0, <1>15, AskedAgain DEF RollbackSucceeds, RestOK
    <2>4. RestOK'
        BY <1>0, <1>15, <2>2, <2>3 DEF RollbackSucceeds, RestOK, store
    <2> QED
        BY <1>0, <1>15, <2>1, <2>4, FilesUnchanged DEF RollbackSucceeds, IndInv
<1>16. CASE ReloadEnds(p)
    <2>1. job' \in [Page -> Job] /\ JobsOK'
        BY <1>0, <1>16, NoJobs, JobReplaced DEF ReloadEnds
    <2>2. runtime' \in [Key -> Value] /\ told' \subseteq Key
        <3>1. Effective(Override.doc) \in [Key -> Value]
            BY <1>0, Overrides, Effects
        <3> QED
            BY <1>0, <1>1, <1>16, <3>1 DEF ReloadEnds, RestOK
    <2>3. page' \in [Page -> View]
        BY <1>0, <1>16, AskedAgain DEF ReloadEnds, RestOK
    <2>4. RestOK'
        BY <1>0, <1>16, <2>2, <2>3 DEF ReloadEnds, RestOK, store
    <2> QED
        BY <1>0, <1>16, <2>1, <2>4, FilesUnchanged DEF ReloadEnds, IndInv
<1>17. CASE RequestFails(p)
    <2>1. job' \in [Page -> Job] /\ JobsOK'
        BY <1>0, <1>17, NoJobs, JobReplaced DEF RequestFails
    <2>2. page' \in [Page -> View]
        BY <1>0, <1>17, AskedAgain DEF RequestFails, RestOK
    <2>3. RestOK'
        BY <1>0, <1>17, <2>2 DEF RequestFails, RestOK, store, ghosts
    <2> QED
        BY <1>0, <1>17, <2>1, <2>3, FilesUnchanged DEF RequestFails, IndInv
<1> QED
    BY <1>2, <1>3, <1>4, <1>5, <1>6, <1>7, <1>8, <1>9, <1>10, <1>11, <1>12, <1>13, <1>14, <1>15,
       <1>16, <1>17 DEF RequestStep

LEMMA RestartTypes ==
    ASSUME IndInv, Restart
    PROVE  IndInv'
<1>0. FilesOK /\ RestOK /\ job \in [Page -> Job] /\ JobsOK
    BY DEF IndInv
<1>1. FilesOK'
    <2>1. Main \in Name /\ names' = names
        BY DEF Restart, Main, Name
    <2> QED
        BY <1>0, <2>1, FilesForgotten DEF Restart
<1>2. job' \in [Page -> Job] /\ JobsOK'
    BY NoJobs DEF Restart, JobsOK
<1>3. runtime' \in [Key -> Value]
    BY <1>0, LoadedOK, Effects DEF Restart
<1>4. epoch' \in 1 .. MaxRestarts + 1
    BY <1>0, ConstantsAssumption DEF Restart, RestOK
<1>5. page' \in [Page -> View]
    <2>1. \A q \in Page : page[q] \in View /\ [page[q] EXCEPT !.loading = "config"] \in View
        BY <1>0 DEF RestOK, View
    <2> QED
        BY <2>1 DEF Restart
<1>6. unsure' \subseteq Document
    BY <1>0 DEF Restart, RestOK, Writing, Job
<1>7. broken' \in BOOLEAN /\ told' \subseteq Key
    BY <1>0 DEF Restart, RestOK
<1>8. RestOK'
    BY <1>0, <1>3, <1>4, <1>5, <1>6, <1>7 DEF Restart, RestOK
<1> QED
    BY <1>1, <1>2, <1>8 DEF IndInv

LEMMA TypesStep == IndInv /\ [Next]_vars => IndInv'
<1> SUFFICES ASSUME IndInv, [Next]_vars PROVE IndInv'
    OBVIOUS
<1>1. CASE UNCHANGED vars
    BY <1>1 DEF IndInv, FilesOK, RestOK, JobsOK, vars, store, ghosts
<1>2. CASE Next
    BY <1>2, PageStepTypes, RequestStepTypes, RestartTypes DEF Next
<1> QED
    BY <1>1, <1>2

\* Types, and that no inode has two names, whatever overlaps, fails or is cut short:
\* the save, the rotation and the rollback move files and make no links.
THEOREM TypesAlways == Spec => []ConfigTypeOK
<1>1. Spec => []IndInv
    BY TypesInit, TypesStep, PTL DEF Spec
<1> QED
    BY <1>1, InvImpliesTypes, PTL

-----------------------------------------------------------------------------
(* While no two requests overlap: what the files hold at every stage of a  *)
(* request, and how the documents of the past lie in the backups.          *)

BeforeRename == {"stat", "read", "rotate2", "rotate1", "copy", "copying", "open",
                 "write", "rename", "failed"}
Placed == {"shift1", "shift2", "done"}

\* Backup b holds document i of those that rolling back should find.
Has(b, i) == IF i \in DOMAIN undo THEN Exists(b) /\ At(b) = Whole(undo[i]) ELSE ~Exists(b)
Kept == Has(1, 1) /\ Has(2, 2) /\ Has(3, 3)
Shifting == Has(2, 1) /\ Has(3, 2)
First == IF acked = NoDocument THEN ~Exists(1) ELSE Exists(1) /\ At(1) = Whole(acked)

\* The backups at each stage of a request, while every rotation was completed.
BackupsAt(j) ==
    /\ j.pc \in {"stat", "read", "rotate2", "shift1", "failed"} => Kept
    /\ j.pc = "rotate1" => Has(1, 1) /\ ~Exists(2) /\ Has(3, 2)
    /\ j.pc = "copy" => ~Exists(1) /\ Shifting
    /\ j.pc = "copying" => Exists(1) /\ Exists(Main) /\ Shifting
    /\ j.pc \in {"open", "write", "rename", "done"} /\ j.kind = "put" => First /\ Shifting
    /\ j.pc \in {"open", "write", "rename"} /\ j.kind = "rollback" => Kept
    /\ j.pc = "shift2" => Has(1, 2) /\ ~Exists(2) /\ Has(3, 3)
    /\ j.pc = "done" /\ j.kind = "rollback" => Has(1, 2) /\ Has(2, 3) /\ ~Exists(3)
    /\ j.kind = "rollback" /\ j.pc \notin {"read", "failed"} => undo # << >> /\ j.doc = undo[1]

\* The documents that rolling back should find, while every rotation was completed.
UndoOK ==
    /\ unsure = {}
    /\ Len(undo) <= MAX_BACKUPS
    /\ acked = NoDocument => undo = << >>
    /\ \A i \in DOMAIN undo : undo[i] # NoDocument

\* The override is the document of the last request that was acknowledged, or of
\* one that was cut off; and what runs follows it.
Current == Override.doc \in {acked} \cup unsure
Recorded == ~broken => (Exists(Main) <=> acked # NoDocument)
Follows == \A k \in Key \ told : runtime[k] = Effective(Override.doc)[k]

\* A tag that is current was made of the override as it is.
MainTime == IF Exists(Main) THEN inodes[names[Main]].mtime ELSE 0
TagOK(tag, seen) ==
    /\ tag.mtime <= clock /\ tag.epoch <= epoch
    /\ tag = ETag => seen = Override.doc

\* The file that a request is about to put in place.
Ready(j) ==
    /\ Exists(Tmp) /\ At(Tmp) = Whole(j.doc)
    /\ inodes[names[Tmp]].mtime = clock /\ MainTime < clock
    /\ \A q \in Page : page[q].etag.mtime < clock

StageOK(j) ==
    /\ j.pc \in BeforeRename => Current /\ Recorded /\ Follows
    /\ j.pc = "stat" => TagOK(j.etag, j.seen)
    /\ j.kind = "put" /\ j.pc \in BeforeRename \ {"stat", "failed"} => j.seen = Override.doc
    /\ j.kind = "put" /\ j.pc \in (BeforeRename \ {"stat", "read", "failed"}) \cup Placed =>
          /\ j.doc # NoDocument
          /\ \A k \in KeysOf[j.section] : Effective(j.doc)[k] = j.patch[k]
          /\ \A k \in Key \ KeysOf[j.section] :
                k \notin told => runtime[k] = Effective(j.doc)[k]
    /\ j.pc = "write" => /\ names[Tmp] = j.inode
                         /\ inodes[j.inode].content = Created
    /\ j.pc = "rename" => Ready(j)
    /\ j.pc \in Placed => Exists(Main) /\ Override.doc = j.doc
    /\ ~broken => BackupsAt(j)

TagsOK == \A v \in {page[p] : p \in Page} : TagOK(v.etag, v.seen)
Rested == Current /\ Recorded /\ Follows /\ (~broken => Kept)

Serially ==
    /\ \A p, q \in Busy : p = q
    /\ Override.tag = "whole" /\ MainTime <= clock
    /\ TagsOK
    /\ ~broken => UndoOK
    /\ Busy = {} => Rested
    /\ \A j \in {job[p] : p \in Busy} : StageOK(j)

SerialInv == ~met => Serially
-----------------------------------------------------------------------------
(* What a step does to the file behind each name. *)

\* What the name "from" led to is now behind the name "to".
Carried(from, to) ==
    /\ names'[to] # 0 <=> names[from] # 0
    /\ names[from] # 0 => inodes'[names'[to]] = inodes[names[from]]

LEMMA CarriedFile ==
    ASSUME NEW from, NEW to, Carried(from, to)
    PROVE  /\ Exists(to)' <=> Exists(from)
           /\ Exists(from) => At(to)' = At(from)
BY DEF Carried, Exists, At

\* A backup that is carried along with the history.
LEMMA CarriedBackup ==
    ASSUME NEW from, NEW to, NEW i, Carried(from, to), undo' = undo, Has(from, i)
    PROVE  Has(to, i)'
BY CarriedFile DEF Has

LEMMA RenameCarries ==
    ASSUME FilesOK, NEW from \in Name, NEW to \in Name, from # to,
           names' = Renamed(from, to), NEW jj, inodes' = Forgotten(names', jj, inodes)
    PROVE  /\ Carried(from, to) /\ names'[from] = 0
           /\ \A n \in Name \ {from, to} : Carried(n, n)
<1>1. names' \in [Name -> Inode \cup {0}]
    BY DEF FilesOK, Renamed
<1>2. \A n \in Name : names'[n] # 0 => inodes'[names'[n]] = inodes[names'[n]]
    BY <1>1, Remembered
<1>3. names'[to] = names[from] /\ names'[from] = 0 /\ \A n \in Name \ {from, to} : names'[n] = names[n]
    BY DEF FilesOK, Renamed
<1> QED
    BY <1>2, <1>3 DEF Carried

LEMMA DeleteCarries ==
    ASSUME FilesOK, NEW k \in Name, names' = [names EXCEPT ![k] = 0],
           NEW jj, inodes' = Forgotten(names', jj, inodes)
    PROVE  /\ names'[k] = 0
           /\ \A n \in Name \ {k} : Carried(n, n)
<1>1. names' \in [Name -> Inode \cup {0}]
    BY DEF FilesOK
<1>2. \A n \in Name : names'[n] # 0 => inodes'[names'[n]] = inodes[names'[n]]
    BY <1>1, Remembered
<1> QED
    BY <1>2 DEF Carried, FilesOK

LEMMA KeepCarries ==
    ASSUME FilesOK, names' = names,
           inodes' = inodes \/ \E jj : inodes' = Forgotten(names', jj, inodes)
    PROVE  \A n \in Name : Carried(n, n)
<1>1. \A n \in Name : names'[n] # 0 => inodes'[names'[n]] = inodes[names'[n]]
    BY Remembered DEF FilesOK
<1> QED
    BY <1>1 DEF Carried

\* Only the file that is written to changes.
LEMMA WriteCarries ==
    ASSUME FilesOK, NEW k \in Name, NEW i \in Inode,
           names' = [names EXCEPT ![k] = i], Exists(k) => i = names[k], ~Exists(k) => FreeInode(i),
           \A h \in Inode \ {i} : inodes'[h] = inodes[h]
    PROVE  /\ names'[k] = i /\ names'[k] # 0
           /\ \A n \in Name \ {k} : Carried(n, n)
<1>1. i # 0 /\ \A n \in Name \ {k} : names[n] # i
    BY Inodes DEF FilesOK, FreeInode, Exists
<1>2. \A n \in Name \ {k} : names[n] # 0 => inodes'[names[n]] = inodes[names[n]]
    BY <1>1 DEF FilesOK
<1> QED
    BY <1>1, <1>2 DEF Carried, FilesOK

\* While the file itself stays, what is said about it stays.
LEMMA MainStays ==
    ASSUME Carried(Main, Main)
    PROVE  Override' = Override /\ MainTime' = MainTime
BY CarriedFile DEF Override, MainTime, Carried, Exists, At

LEMMA TagsStay ==
    ASSUME IndInv, IndInv', Carried(Main, Main), UNCHANGED epoch, clock <= clock', NEW tag, NEW seen,
           tag.mtime \in Nat, TagOK(tag, seen)
    PROVE  TagOK(tag, seen)'
<1>1. ETag' = ETag
    BY MainStays DEF ETag, MainTime
<1>2. clock \in Nat /\ clock' \in Nat
    BY DEF IndInv, RestOK
<1> QED
    BY <1>1, <1>2, MainStays DEF TagOK

\* What is said about a request before it puts its file in place.
LEMMA OverrideStays ==
    ASSUME Carried(Main, Main), UNCHANGED <<runtime, acked, unsure, told>>, ~broken' => ~broken
    PROVE  /\ Current => Current'
           /\ Recorded => Recorded'
           /\ Follows => Follows'
<1>1. Current' <=> Current
    BY MainStays DEF Current
<1>2. Recorded => Recorded'
    BY CarriedFile DEF Recorded
<1>3. Follows' <=> Follows
    BY MainStays DEF Follows
<1> QED
    BY <1>1, <1>2, <1>3

\* The request that is under way is the only one.
LEMMA OneBusy ==
    ASSUME IndInv, Serially, NEW p \in Page, job[p].pc # "idle"
    PROVE  /\ p \in Busy /\ StageOK(job[p]) /\ job[p] \in Job /\ JobOK(job[p])
           /\ \A q \in Page \ {p} : job[q].pc = "idle"
BY DEF IndInv, JobsOK, Busy, Serially

\* A step of a request that is not its last.
LEMMA Onward ==
    ASSUME IndInv, IndInv', Serially, NEW p \in Page, job[p].pc # "idle",
           NEW j \in Job, j.pc # "idle", job' = [job EXCEPT ![p] = j],
           UNCHANGED <<acked, unsure, undo>>, ~broken' => ~broken,
           Override'.tag = "whole", MainTime' <= clock', TagsOK', StageOK(j)'
    PROVE  Serially'
<1>1. job \in [Page -> Job]
    BY DEF IndInv
<1>2. job'[p] = j /\ \A q \in Page \ {p} : job'[q] = job[q] /\ job[q].pc = "idle"
    BY <1>1, OneBusy
<1>3. Busy' = {p}
    BY <1>2 DEF Busy
<1>4. {job'[q] : q \in Busy'} = {j}
    BY <1>2, <1>3
<1>5. (\A i \in {job[q] : q \in Busy} : StageOK(i))'
    BY <1>4
<1>6. (~broken => UndoOK)'
    BY DEF Serially, UndoOK
<1>7. (\A q, r \in Busy : q = r)' /\ Busy' # {}
    BY <1>3
<1> QED
    BY <1>5, <1>6, <1>7 DEF Serially

LEMMA TagsTyped ==
    ASSUME IndInv
    PROVE  \A v \in {page[q] : q \in Page} : v.etag.mtime \in Nat /\ v.etag.epoch \in Nat
BY DEF IndInv, RestOK, View

\* The same for a step that leaves the file itself where it is.
LEMMA Midway ==
    ASSUME IndInv, IndInv', Serially, NEW p \in Page, job[p].pc # "idle",
           NEW j \in Job, j.pc # "idle", job' = [job EXCEPT ![p] = j],
           UNCHANGED <<acked, unsure, undo, page, epoch>>, ~broken' => ~broken,
           Carried(Main, Main), clock <= clock', StageOK(j)'
    PROVE  Serially'
<1>1. Override'.tag = "whole"
    BY MainStays DEF Serially
<1>2. MainTime' <= clock'
    <2>1. MainTime \in Nat
        BY DEF IndInv, FilesOK, FileRecord, MainTime, Exists, Main, Name
    <2>2. clock \in Nat /\ clock' \in Nat
        BY DEF IndInv, RestOK
    <2> QED
        BY <2>1, <2>2, MainStays DEF Serially
<1>3. TagsOK'
    <2>1. \A v \in {page[q] : q \in Page} : TagOK(v.etag, v.seen)'
        BY TagsTyped, TagsStay DEF Serially, TagsOK
    <2> QED
        BY <2>1 DEF TagsOK
<1> QED
    BY <1>1, <1>2, <1>3, Onward

-----------------------------------------------------------------------------
(* The steps of a request that is alone. *)

LEMMA Numbers ==
    /\ Main \in Name /\ Tmp \in Name /\ 1 \in Name /\ 2 \in Name /\ 3 \in Name
    /\ Main = 0 /\ Tmp = 4 /\ Target = Tmp
BY DEF Main, Tmp, Target, Name

LEMMA KeptStays ==
    ASSUME \A n \in {1, 2, 3} : Carried(n, n), undo' = undo, Kept
    PROVE  Kept'
BY CarriedBackup DEF Kept

LEMMA ClockStays == IndInv /\ clock' = clock => clock <= clock'
BY DEF IndInv, RestOK

LEMMA UndoDomain ==
    ASSUME IndInv
    PROVE  /\ DOMAIN undo = 1 .. Len(undo) /\ Len(undo) \in Nat
           /\ undo = << >> <=> 1 \notin DOMAIN undo
           /\ 3 \in DOMAIN undo => 2 \in DOMAIN undo
           /\ 2 \in DOMAIN undo => 1 \in DOMAIN undo
<1>1. undo \in Seq(Document)
    BY DEF IndInv, RestOK
<1>2. Len(undo) \in Nat /\ DOMAIN undo = 1 .. Len(undo) /\ (undo = << >> <=> Len(undo) = 0)
    BY <1>1, EmptySeq, LenProperties
<1> QED
    BY <1>2

LEMMA SerialETagChecked ==
    ASSUME IndInv, IndInv', Serially, NEW p \in Page, ETagChecked(p)
    PROVE  Serially'
<1>1. /\ job[p].pc = "stat" /\ job[p].kind = "put"
      /\ StageOK(job[p]) /\ job \in [Page -> Job]
    BY OneBusy DEF ETagChecked, IndInv, JobOK
<1>2. PICK pc \in {"read", "failed"} : /\ job' = [job EXCEPT ![p].pc = pc]
                                       /\ pc = "read" => job[p].etag = ETag
    BY DEF ETagChecked, ETagMatches, Goto
<1>p. pc \in Pc
    BY <1>2 DEF Pc
<1>3. PICK j \in Job : /\ job' = [job EXCEPT ![p] = j]
                       /\ j.pc = pc /\ j.kind = job[p].kind /\ j.section = job[p].section
                       /\ j.patch = job[p].patch /\ j.etag = job[p].etag
                       /\ j.doc = job[p].doc /\ j.inode = job[p].inode
                       /\ j.seen = job[p].seen
    BY <1>1, <1>2, <1>p, JobMoved, Zenon
<1>4. \A n \in Name : Carried(n, n)
    BY KeepCarries DEF IndInv, ETagChecked, store
<1>5. UNCHANGED <<acked, unsure, undo, told, runtime, page, epoch, clock, broken>>
    BY DEF ETagChecked, ghosts, store
<1>6. Current' /\ Recorded' /\ Follows'
    BY <1>1, <1>4, <1>5, OverrideStays, Numbers DEF StageOK, BeforeRename
<1>7. (~broken => Kept)'
    BY <1>1, <1>4, <1>5, KeptStays, Numbers DEF StageOK, BackupsAt
<1>8. pc = "read" => (j.seen = Override.doc)'
    BY <1>1, <1>2, <1>3, <1>4, MainStays, Numbers DEF StageOK, TagOK
<1>9. StageOK(j)'
    BY <1>1, <1>2, <1>3, <1>6, <1>7, <1>8 DEF StageOK, BackupsAt, BeforeRename, Placed
<1> QED
    BY <1>1, <1>2, <1>3, <1>4, <1>5, <1>9, ClockStays, Midway, Numbers

LEMMA SerialOverrideRead ==
    ASSUME IndInv, IndInv', Serially, NEW p \in Page, OverrideRead(p)
    PROVE  Serially'
<1>1. /\ job[p].pc = "read" /\ job[p].kind = "put"
      /\ StageOK(job[p]) /\ job \in [Page -> Job] /\ job[p] \in Job /\ JobOK(job[p])
      /\ Override.tag = "whole" /\ FilesOK
    BY OneBusy DEF OverrideRead, IndInv, Serially
<1>2. PICK d : d = Merge(Override.doc, job[p].patch)
    OBVIOUS
<1>3. PICK s \in Section : s = job[p].section
    BY <1>1 DEF JobOK
<1>4. job[p].patch \in Document /\ DOMAIN job[p].patch = KeysOf[s] /\ KeysOf[s] # {} /\ KeysOf[s] \subseteq Key
    BY <1>1, <1>3, ConstantsAssumption DEF Job, JobOK
<1>5. /\ d \in Document /\ DOMAIN d = DOMAIN Override.doc \cup KeysOf[s]
      /\ \A k \in DOMAIN Override.doc \cup KeysOf[s] :
            d[k] = IF k \in KeysOf[s] THEN job[p].patch[k] ELSE Override.doc[k]
    <2>1. PICK c : c = Override.doc
        OBVIOUS
    <2>2. PICK e : e = job[p].patch
        OBVIOUS
    <2>3. c \in Document /\ e \in Document /\ DOMAIN e = KeysOf[s]
        BY <1>1, <1>4, <2>1, <2>2, Overrides
    <2>4. d = Merge(c, e)
        BY <1>2, <2>1, <2>2
    <2>5. /\ d \in Document /\ DOMAIN d = DOMAIN c \cup DOMAIN e
          /\ \A k \in DOMAIN c \cup DOMAIN e : d[k] = IF k \in DOMAIN e THEN e[k] ELSE c[k]
        BY <2>3, <2>4, Merged
    <2> QED
        BY <2>1, <2>2, <2>3, <2>5
<1>6. d # NoDocument
    BY <1>4, <1>5, Documents
<1>7. \A k \in KeysOf[s] : Effective(d)[k] = job[p].patch[k]
    BY <1>4, <1>5, Effects
<1>8. \A k \in Key \ KeysOf[s] : Effective(d)[k] = Effective(Override.doc)[k]
    BY <1>1, <1>5, Effects, Overrides
<1>9. PICK j : j = [job[p] EXCEPT !.pc = "rotate2", !.doc = d]
    OBVIOUS
<1>10. /\ j \in Job
       /\ j.pc = "rotate2" /\ j.kind = "put" /\ j.section = s /\ j.patch = job[p].patch
       /\ j.doc = d /\ j.seen = job[p].seen
    BY <1>1, <1>3, <1>5, <1>9 DEF Job, Pc
<1>11. job' = [job EXCEPT ![p] = j]
    BY <1>1, <1>2, <1>9 DEF OverrideRead
<1>12. \A n \in Name : Carried(n, n)
    BY KeepCarries DEF IndInv, OverrideRead, store
<1>13. UNCHANGED <<acked, unsure, undo, told, runtime, page, epoch, clock, broken>>
    BY DEF OverrideRead, ghosts, store
<1>14. Current' /\ Recorded' /\ Follows'
    BY <1>1, <1>12, <1>13, OverrideStays, Numbers DEF StageOK, BeforeRename
<1>15. (~broken => Kept)'
    BY <1>1, <1>12, <1>13, KeptStays, Numbers DEF StageOK, BackupsAt
<1>16. (j.seen = Override.doc)'
    BY <1>1, <1>10, <1>12, MainStays, Numbers DEF StageOK, BeforeRename
<1>17. (\A k \in Key \ KeysOf[s] : k \notin told => runtime[k] = Effective(d)[k])'
    BY <1>1, <1>8, <1>13 DEF StageOK, BeforeRename, Follows
<1>18. StageOK(j)'
    BY <1>6, <1>7, <1>10, <1>14, <1>15, <1>16, <1>17 DEF StageOK, BackupsAt, BeforeRename, Placed
<1> QED
    BY <1>1, <1>10, <1>11, <1>12, <1>13, <1>18, ClockStays, Midway, Numbers

LEMMA SerialBackupRead ==
    ASSUME IndInv, IndInv', Serially, NEW p \in Page, BackupRead(p)
    PROVE  Serially'
<1>1. /\ job[p].pc = "read" /\ job[p].kind = "rollback"
      /\ StageOK(job[p]) /\ job \in [Page -> Job] /\ job[p] \in Job /\ FilesOK
    BY OneBusy DEF BackupRead, IndInv
<1>2. PICK pc \in {"open", "failed"} : pc = IF Readable(1) THEN "open" ELSE "failed"
    OBVIOUS
<1>3. PICK d \in Document : d = IF Readable(1) THEN At(1).doc ELSE NoDocument
    BY <1>1, Overrides, Numbers, Documents DEF Readable
<1>4. PICK j : j = [job[p] EXCEPT !.pc = pc, !.doc = d]
    OBVIOUS
<1>5. /\ j \in Job
      /\ j.pc = pc /\ j.kind = "rollback" /\ j.doc = d
    BY <1>1, <1>2, <1>3, <1>4 DEF Job, Pc
<1>6. job' = [job EXCEPT ![p] = j]
    BY <1>1, <1>2, <1>3, <1>4 DEF BackupRead
<1>7. \A n \in Name : Carried(n, n)
    BY KeepCarries DEF IndInv, BackupRead, store
<1>8. UNCHANGED <<acked, unsure, undo, told, runtime, page, epoch, clock, broken>>
    BY DEF BackupRead, ghosts, store
<1>9. Current' /\ Recorded' /\ Follows'
    BY <1>1, <1>7, <1>8, OverrideStays, Numbers DEF StageOK, BeforeRename
<1>10. (~broken => Kept)'
    BY <1>1, <1>7, <1>8, KeptStays, Numbers DEF StageOK, BackupsAt
<1>11. pc = "open" /\ ~broken => (undo # << >> /\ d = undo[1])
    <2> SUFFICES ASSUME pc = "open", ~broken PROVE undo # << >> /\ d = undo[1]
        OBVIOUS
    <2>1. Readable(1) /\ Has(1, 1)
        BY <1>1, <1>2 DEF StageOK, BackupsAt, Kept
    <2>2. 1 \in DOMAIN undo /\ At(1) = Whole(undo[1])
        BY <2>1 DEF Has, Readable
    <2> QED
        BY <2>1, <2>2, <1>3, Contents, UndoDomain
<1>12. StageOK(j)'
    BY <1>2, <1>5, <1>8, <1>9, <1>10, <1>11 DEF StageOK, BackupsAt, BeforeRename, Placed
<1> QED
    BY <1>1, <1>2, <1>5, <1>6, <1>7, <1>8, <1>12, ClockStays, Midway, Numbers

\* A request that has read its document and has not put its file in place goes on.
LEMMA StageMoves ==
    ASSUME NEW i, StageOK(i), i.pc \in BeforeRename \ {"stat", "read", "failed"},
           NEW j, j.pc \in BeforeRename \ {"stat", "read", "failed"},
           j.kind = i.kind, j.section = i.section, j.patch = i.patch, j.doc = i.doc, j.seen = i.seen,
           Carried(Main, Main), UNCHANGED <<runtime, acked, unsure, told>>, ~broken' => ~broken,
           (j.pc = "write" => names[Tmp] = j.inode /\ inodes[j.inode].content = Created)',
           (j.pc = "rename" => Ready(j))',
           (~broken => BackupsAt(j))'
    PROVE  StageOK(j)'
<1>1. Current' /\ Recorded' /\ Follows'
    BY OverrideStays DEF StageOK
<1>2. (j.kind = "put" => j.seen = Override.doc)'
    BY MainStays DEF StageOK
<1>3. (j.kind = "put" => /\ j.doc # NoDocument
                         /\ \A k \in KeysOf[j.section] : Effective(j.doc)[k] = j.patch[k]
                         /\ \A k \in Key \ KeysOf[j.section] :
                               k \notin told => runtime[k] = Effective(j.doc)[k])'
    BY DEF StageOK
<1>4. j.pc # "stat" /\ j.pc \notin Placed
    BY DEF BeforeRename, Placed
<1> QED
    BY <1>1, <1>2, <1>3, <1>4 DEF StageOK

LEMMA SerialRotated ==
    ASSUME IndInv, IndInv', Serially, NEW p \in Page, Rotated(p)
    PROVE  Serially'
<1>1. /\ job[p].pc \in {"rotate2", "rotate1"} /\ job[p].kind = "put"
      /\ StageOK(job[p]) /\ job \in [Page -> Job] /\ FilesOK
    BY OneBusy DEF Rotated, IndInv, JobOK
<1>2. PICK pc \in {"rotate1", "copy"} : /\ job' = [job EXCEPT ![p].pc = pc]
                                        /\ pc = IF job[p].pc = "rotate2" THEN "rotate1" ELSE "copy"
    BY DEF Rotated, Goto
<1>p. pc \in Pc
    BY <1>2 DEF Pc
<1>3. PICK j \in Job : /\ job' = [job EXCEPT ![p] = j]
                       /\ j.pc = pc /\ j.kind = job[p].kind /\ j.section = job[p].section
                       /\ j.patch = job[p].patch /\ j.etag = job[p].etag
                       /\ j.doc = job[p].doc /\ j.inode = job[p].inode
                       /\ j.seen = job[p].seen
    BY <1>1, <1>2, <1>p, JobMoved, Zenon
<1>4. UNCHANGED <<acked, unsure, undo, told, runtime, page, epoch, clock, broken>>
    BY DEF Rotated, ghosts
<1>5. PICK from \in {1, 2} :
        /\ from = IF job[p].pc = "rotate2" THEN 2 ELSE 1
        /\ names' = IF Exists(from) THEN Renamed(from, from + 1) ELSE names
        /\ inodes' = Forgotten(names', job', inodes)
    BY <1>1 DEF Rotated, Rotation
<1>6. from \in Name /\ from + 1 \in Name /\ Main \in Name \ {from, from + 1}
    BY DEF Name, Main
<1>7. CASE Exists(from)
    <2>1. /\ Carried(from, from + 1) /\ names'[from] = 0
          /\ \A n \in Name \ {from, from + 1} : Carried(n, n)
        BY <1>1, <1>5, <1>6, <1>7, RenameCarries
    <2>2. (~broken => BackupsAt(j))'
        <3> SUFFICES ASSUME ~broken PROVE BackupsAt(j)'
            BY <1>4
        <3>1. CASE job[p].pc = "rotate2"
            <4>1. Kept /\ from = 2 /\ j.pc = "rotate1" /\ j.kind = "put"
                BY <3>1, <1>1, <1>2, <1>3, <1>5 DEF StageOK, BackupsAt
            <4>2. Carried(1, 1) /\ Carried(2, 3) /\ ~Exists(2)'
                BY <2>1, <4>1 DEF Name, Exists
            <4>3. Has(1, 1)' /\ Has(3, 2)'
                BY <4>1, <4>2, <1>4, CarriedBackup DEF Kept
            <4> QED
                BY <4>1, <4>2, <4>3 DEF BackupsAt
        <3>2. CASE job[p].pc = "rotate1"
            <4>1. Has(1, 1) /\ Has(3, 2) /\ from = 1 /\ j.pc = "copy" /\ j.kind = "put"
                BY <3>2, <1>1, <1>2, <1>3, <1>5 DEF StageOK, BackupsAt
            <4>2. Carried(3, 3) /\ Carried(1, 2) /\ ~Exists(1)'
                BY <2>1, <4>1 DEF Name, Exists
            <4>3. Has(2, 1)' /\ Has(3, 2)'
                BY <4>1, <4>2, <1>4, CarriedBackup
            <4> QED
                BY <4>1, <4>2, <4>3 DEF BackupsAt, Shifting
        <3> QED
            BY <3>1, <3>2, <1>1
    <2> QED
        BY <2>1, <2>2, <1>1, <1>2, <1>3, <1>4, <1>6, StageMoves, ClockStays, Midway DEF BeforeRename
<1>8. CASE ~Exists(from)
    <2>1. \A n \in Name : Carried(n, n)
        BY <1>1, <1>5, <1>8, KeepCarries
    <2>2. (~broken => BackupsAt(j))'
        <3> SUFFICES ASSUME ~broken PROVE BackupsAt(j)'
            BY <1>4
        <3>0. Carried(1, 1) /\ Carried(2, 2) /\ Carried(3, 3)
            BY <2>1 DEF Name
        <3>1. CASE job[p].pc = "rotate2"
            <4>1. Kept /\ ~Exists(2) /\ j.pc = "rotate1" /\ j.kind = "put"
                BY <3>1, <1>1, <1>2, <1>3, <1>5, <1>8 DEF StageOK, BackupsAt
            <4>2. Has(3, 2)
                BY <4>1, UndoDomain DEF Kept, Has
            <4>3. Has(1, 1)' /\ Has(3, 2)' /\ ~Exists(2)'
                BY <3>0, <4>1, <4>2, <1>4, CarriedBackup, CarriedFile DEF Kept
            <4> QED
                BY <4>1, <4>3 DEF BackupsAt
        <3>2. CASE job[p].pc = "rotate1"
            <4>1. Has(1, 1) /\ ~Exists(2) /\ Has(3, 2) /\ ~Exists(1) /\ j.pc = "copy" /\ j.kind = "put"
                BY <3>2, <1>1, <1>2, <1>3, <1>5, <1>8 DEF StageOK, BackupsAt
            <4>2. Has(2, 1)
                BY <4>1 DEF Has
            <4>3. Has(2, 1)' /\ Has(3, 2)' /\ ~Exists(1)'
                BY <3>0, <4>1, <4>2, <1>4, CarriedBackup, CarriedFile
            <4> QED
                BY <4>1, <4>3 DEF BackupsAt, Shifting
        <3> QED
            BY <3>1, <3>2, <1>1
    <2> QED
        BY <2>1, <2>2, <1>1, <1>2, <1>3, <1>4, <1>6, StageMoves, ClockStays, Midway DEF BeforeRename
<1> QED
    BY <1>7, <1>8

LEMMA SerialNothingToCopy ==
    ASSUME IndInv, IndInv', Serially, NEW p \in Page, NothingToCopy(p)
    PROVE  Serially'
<1>1. /\ job[p].pc = "copy" /\ job[p].kind = "put" /\ ~Exists(Main)
      /\ StageOK(job[p]) /\ job \in [Page -> Job] /\ FilesOK
    BY OneBusy DEF NothingToCopy, IndInv, JobOK
<1>2. job' = [job EXCEPT ![p].pc = "open"] /\ "open" \in Pc
    BY DEF NothingToCopy, Goto, Pc
<1>3. PICK j \in Job : /\ job' = [job EXCEPT ![p] = j]
                       /\ j.pc = "open" /\ j.kind = job[p].kind /\ j.section = job[p].section
                       /\ j.patch = job[p].patch /\ j.etag = job[p].etag
                       /\ j.doc = job[p].doc /\ j.inode = job[p].inode
                       /\ j.seen = job[p].seen
    BY <1>1, <1>2, JobMoved, Zenon
<1>4. UNCHANGED <<acked, unsure, undo, told, runtime, page, epoch, clock, broken>>
    BY DEF NothingToCopy, ghosts, store
<1>5. \A n \in Name : Carried(n, n)
    BY KeepCarries DEF IndInv, NothingToCopy, store
<1>6. (~broken => BackupsAt(j))'
    <2> SUFFICES ASSUME ~broken PROVE BackupsAt(j)'
        BY <1>4
    <2>0. Carried(1, 1) /\ Carried(2, 2) /\ Carried(3, 3)
        BY <1>5 DEF Name
    <2>1. ~Exists(1) /\ Has(2, 1) /\ Has(3, 2) /\ acked = NoDocument
        BY <1>1 DEF StageOK, BackupsAt, Shifting, BeforeRename, Recorded
    <2>2. ~Exists(1)' /\ Has(2, 1)' /\ Has(3, 2)' /\ acked' = NoDocument
        BY <2>0, <2>1, <1>4, CarriedBackup, CarriedFile
    <2> QED
        BY <2>2, <1>1, <1>3 DEF BackupsAt, Shifting, First
<1> QED
    BY <1>1, <1>3, <1>4, <1>5, <1>6, Numbers, StageMoves, ClockStays, Midway DEF BeforeRename

LEMMA SerialCopyBegins ==
    ASSUME IndInv, IndInv', Serially, NEW p \in Page, CopyBegins(p)
    PROVE  Serially'
<1>1. /\ job[p].pc = "copy" /\ job[p].kind = "put" /\ Exists(Main)
      /\ StageOK(job[p]) /\ job \in [Page -> Job] /\ FilesOK
    BY OneBusy DEF CopyBegins, IndInv, JobOK
<1>2. job' = [job EXCEPT ![p].pc = "copying"] /\ "copying" \in Pc
    BY DEF CopyBegins, Goto, Pc
<1>3. PICK j \in Job : /\ job' = [job EXCEPT ![p] = j]
                       /\ j.pc = "copying" /\ j.kind = job[p].kind /\ j.section = job[p].section
                       /\ j.patch = job[p].patch /\ j.etag = job[p].etag
                       /\ j.doc = job[p].doc /\ j.inode = job[p].inode
                       /\ j.seen = job[p].seen
    BY <1>1, <1>2, JobMoved, Zenon
<1>4. UNCHANGED <<acked, unsure, undo, told, runtime, page, epoch, clock, broken>>
    BY DEF CopyBegins, ghosts
<1>5. /\ names'[1] # 0
      /\ \A n \in Name \ {1} : Carried(n, n)
    <2>1. PICK i \in Inode : /\ IF Exists(1) THEN i = names[1] ELSE FreeInode(i)
                             /\ names' = [names EXCEPT ![1] = i]
                             /\ inodes' = [inodes EXCEPT ![i].content = Created]
        BY DEF CopyBegins
    <2>2. \A h \in Inode \ {i} : inodes'[h] = inodes[h]
        BY <2>1, <1>1 DEF FilesOK
    <2>3. (Exists(1) => i = names[1]) /\ (~Exists(1) => FreeInode(i))
        BY <2>1
    <2> QED
        BY <2>1, <2>2, <2>3, <1>1, Numbers, WriteCarries
<1>6. Carried(Main, Main) /\ Carried(2, 2) /\ Carried(3, 3) /\ Exists(1)' /\ Exists(Main)'
    BY <1>1, <1>5, CarriedFile, Numbers DEF Exists
<1>7. (~broken => BackupsAt(j))'
    <2> SUFFICES ASSUME ~broken PROVE BackupsAt(j)'
        BY <1>4
    <2>1. Has(2, 1) /\ Has(3, 2)
        BY <1>1 DEF StageOK, BackupsAt, Shifting
    <2>2. Has(2, 1)' /\ Has(3, 2)'
        BY <1>6, <2>1, <1>4, CarriedBackup
    <2> QED
        BY <2>2, <1>1, <1>3, <1>6 DEF BackupsAt, Shifting
<1> QED
    BY <1>1, <1>3, <1>4, <1>6, <1>7, StageMoves, ClockStays, Midway DEF BeforeRename

LEMMA SerialCopyEnds ==
    ASSUME IndInv, IndInv', Serially, NEW p \in Page, CopyEnds(p)
    PROVE  Serially'
<1>1. /\ job[p].pc = "copying" /\ job[p].kind = "put"
      /\ StageOK(job[p]) /\ job \in [Page -> Job] /\ FilesOK
    BY OneBusy DEF CopyEnds, IndInv, JobOK
<1>2. job' = [job EXCEPT ![p].pc = "open"] /\ "open" \in Pc
    BY DEF CopyEnds, Goto, Pc
<1>3. PICK j \in Job : /\ job' = [job EXCEPT ![p] = j]
                       /\ j.pc = "open" /\ j.kind = job[p].kind /\ j.section = job[p].section
                       /\ j.patch = job[p].patch /\ j.etag = job[p].etag
                       /\ j.doc = job[p].doc /\ j.inode = job[p].inode
                       /\ j.seen = job[p].seen
    BY <1>1, <1>2, JobMoved, Zenon
<1>4. UNCHANGED <<acked, unsure, undo, told, runtime, page, epoch, clock, broken, names>>
    BY DEF CopyEnds, ghosts
<1>5. /\ \A n \in Name \ {1} : Carried(n, n)
      /\ Exists(1) /\ Exists(Main) => Exists(1)' /\ At(1)' = At(Main)
    <2>1. CASE Exists(1) /\ Exists(Main)
        <3>1. PICK r : r = [inodes[names[1]] EXCEPT !.content = At(Main)]
            OBVIOUS
        <3>2. names[1] \in Inode /\ inodes[names[1]] \in FileRecord
            BY <2>1, <1>1, Overrides, Numbers
        <3>3. r.content = At(Main)
            BY <3>1, <3>2 DEF FileRecord
        <3>4. PICK i \in Inode : i = names[1]
            BY <3>2
        <3>5. inodes' = [inodes EXCEPT ![i] = r]
            BY <2>1, <3>1, <3>4 DEF CopyEnds
        <3>6. names' = [names EXCEPT ![1] = i]
            BY <1>1, <1>4, <3>4, Numbers DEF FilesOK
        <3>7. (\A h \in Inode \ {i} : inodes'[h] = inodes[h]) /\ inodes'[i] = r
            BY <1>1, <3>5 DEF FilesOK
        <3>8. /\ names'[1] = i /\ names'[1] # 0
              /\ \A n \in Name \ {1} : Carried(n, n)
            BY <2>1, <3>4, <3>6, <3>7, <1>1, Numbers, WriteCarries
        <3> QED
            BY <3>3, <3>7, <3>8 DEF Exists, At
    <2>2. CASE ~(Exists(1) /\ Exists(Main))
        BY <2>2, <1>1, <1>4, KeepCarries DEF CopyEnds
    <2> QED
        BY <2>1, <2>2
<1>6. Carried(Main, Main) /\ Carried(2, 2) /\ Carried(3, 3)
    BY <1>5, Numbers
<1>7. (~broken => BackupsAt(j))'
    <2> SUFFICES ASSUME ~broken PROVE BackupsAt(j)'
        BY <1>4
    <2>1. Has(2, 1) /\ Has(3, 2) /\ Exists(1) /\ Exists(Main) /\ acked # NoDocument
        BY <1>1 DEF StageOK, BackupsAt, Shifting, BeforeRename, Recorded
    <2>2. Has(2, 1)' /\ Has(3, 2)'
        BY <1>6, <2>1, <1>4, CarriedBackup
    <2>3. At(Main) = Whole(acked)
        <3>1. Override.doc = acked
            BY <1>1 DEF StageOK, BeforeRename, Current, Serially, UndoOK
        <3>2. At(Main) \in Content /\ At(Main).tag = "whole"
            BY <2>1, <1>1, Overrides, Numbers DEF Serially, Override
        <3> QED
            BY <2>1, <3>1, <3>2, Contents DEF Override
    <2>4. First'
        BY <2>1, <2>3, <1>4, <1>5 DEF First
    <2> QED
        BY <2>2, <2>4, <1>1, <1>3 DEF BackupsAt, Shifting
<1> QED
    BY <1>1, <1>3, <1>4, <1>6, <1>7, StageMoves, ClockStays, Midway DEF BeforeRename

LEMMA BackupsStay ==
    ASSUME \A n \in Name \ {Main, Tmp} : Carried(n, n), undo' = undo, acked' = acked
    PROVE  /\ Kept => Kept'
           /\ Shifting => Shifting'
           /\ First => First'
<1>1. Carried(1, 1) /\ Carried(2, 2) /\ Carried(3, 3)
    BY DEF Name, Main, Tmp
<1>2. Kept => Kept'
    BY <1>1, CarriedBackup DEF Kept
<1>3. Shifting => Shifting'
    BY <1>1, CarriedBackup DEF Shifting
<1>4. First => First'
    BY <1>1, CarriedFile DEF First
<1> QED
    BY <1>2, <1>3, <1>4

LEMMA SerialTmpOpened ==
    ASSUME IndInv, IndInv', Serially, NEW p \in Page, TmpOpened(p)
    PROVE  Serially'
<1>1. /\ job[p].pc = "open" /\ job[p].kind \in {"put", "rollback"}
      /\ StageOK(job[p]) /\ job \in [Page -> Job] /\ job[p] \in Job /\ FilesOK
    BY OneBusy DEF TmpOpened, IndInv, JobOK
<1>2. PICK i \in Inode :
         /\ IF Exists(Target) THEN i = names[Target] ELSE FreeInode(i)
         /\ names' = [names EXCEPT ![Target] = i]
         /\ inodes' = [inodes EXCEPT ![i].content = Created]
         /\ job' = [job EXCEPT ![p].pc = "write", ![p].inode = i]
    BY DEF TmpOpened
<1>3. PICK j : j = [job[p] EXCEPT !.pc = "write", !.inode = i]
    OBVIOUS
<1>4. /\ j \in Job
      /\ j.pc = "write" /\ j.kind = job[p].kind /\ j.section = job[p].section
      /\ j.patch = job[p].patch /\ j.doc = job[p].doc /\ j.inode = i
      /\ j.seen = job[p].seen
    BY <1>1, <1>3 DEF Job, Pc
<1>5. job' = [job EXCEPT ![p] = j]
    BY <1>2, <1>3
<1>6. UNCHANGED <<acked, unsure, undo, told, runtime, page, epoch, clock, broken>>
    BY DEF TmpOpened, ghosts
<1>7. /\ names'[Tmp] = i
      /\ \A n \in Name \ {Tmp} : Carried(n, n)
    <2>1. \A h \in Inode \ {i} : inodes'[h] = inodes[h]
        BY <1>1, <1>2 DEF FilesOK
    <2>2. /\ Exists(Tmp) => i = names[Tmp]
          /\ ~Exists(Tmp) => FreeInode(i)
          /\ names' = [names EXCEPT ![Tmp] = i]
        BY <1>2, Numbers
    <2> QED
        BY <1>1, <2>1, <2>2, Numbers, WriteCarries, ZenonT(60)
<1>8. inodes'[i].content = Created
    BY <1>1, <1>2 DEF FilesOK, FileRecord
<1>9. (~broken => BackupsAt(j))'
    <2> SUFFICES ASSUME ~broken PROVE BackupsAt(j)'
        BY <1>6
    <2>1. BackupsAt(job[p])
        BY <1>1 DEF StageOK
    <2> QED
        BY <2>1, <1>1, <1>4, <1>6, <1>7, BackupsStay DEF BackupsAt
<1>10. Carried(Main, Main)
    BY <1>7, Numbers
<1>11. (j.pc = "write" => names[Tmp] = j.inode /\ inodes[j.inode].content = Created)'
    BY <1>4, <1>7, <1>8
<1> QED
    BY <1>1, <1>4, <1>5, <1>6, <1>9, <1>10, <1>11, StageMoves, ClockStays, Midway DEF BeforeRename

LEMMA SerialTmpWritten ==
    ASSUME IndInv, IndInv', Serially, NEW p \in Page, TmpWritten(p)
    PROVE  Serially'
<1>1. /\ job[p].pc = "write" /\ job[p].kind \in {"put", "rollback"}
      /\ StageOK(job[p]) /\ job \in [Page -> Job] /\ job[p] \in Job /\ FilesOK
      /\ job[p].inode \in Inode /\ clock \in Nat
    BY OneBusy DEF TmpWritten, IndInv, RestOK, JobOK, Job
<1>2. names[Tmp] = job[p].inode /\ inodes[job[p].inode].content = Created
    BY <1>1 DEF StageOK
<1>3. inodes' = [inodes EXCEPT ![job[p].inode] = [content |-> Whole(job[p].doc), mtime |-> clock + 1]]
    BY <1>2 DEF TmpWritten
<1>4. PICK j : j = [job[p] EXCEPT !.pc = "rename", !.inode = 0]
    OBVIOUS
<1>5. /\ j \in Job
      /\ j.pc = "rename" /\ j.kind = job[p].kind /\ j.section = job[p].section
      /\ j.patch = job[p].patch /\ j.doc = job[p].doc /\ j.seen = job[p].seen
    BY <1>1, <1>4 DEF Job, Pc
<1>6. job' = [job EXCEPT ![p] = j]
    BY <1>4 DEF TmpWritten
<1>7. UNCHANGED <<acked, unsure, undo, told, runtime, page, epoch, broken>>
    BY DEF TmpWritten, ghosts
<1>8. /\ names'[Tmp] = names[Tmp] /\ names'[Tmp] # 0
      /\ \A n \in Name \ {Tmp} : Carried(n, n)
    <2>1. PICK i \in Inode : i = job[p].inode
        BY <1>1
    <2>2. \A h \in Inode \ {i} : inodes'[h] = inodes[h]
        BY <1>1, <1>3, <2>1 DEF FilesOK
    <2>3. names' = [names EXCEPT ![Tmp] = i]
        BY <1>1, <1>2, <2>1, Numbers DEF TmpWritten, FilesOK
    <2>4. Exists(Tmp)
        BY <1>2, <2>1, Inodes DEF Exists
    <2> QED
        BY <1>1, <1>2, <2>1, <2>2, <2>3, <2>4, Numbers, WriteCarries, ZenonT(60)
<1>9. clock' = clock + 1
    BY DEF TmpWritten
<1>10. Carried(Main, Main)
    BY <1>8, Numbers
<1>11. Ready(j)'
    <2>1. inodes'[names'[Tmp]] = [content |-> Whole(j.doc), mtime |-> clock']
        BY <1>1, <1>2, <1>3, <1>5, <1>8, <1>9 DEF FilesOK
    <2>2. Exists(Tmp)' /\ At(Tmp)' = Whole(j.doc) /\ inodes'[names'[Tmp]].mtime = clock'
        BY <1>8, <2>1 DEF Exists, At
    <2>3. MainTime' < clock'
        <3>1. MainTime \in Nat
            BY <1>1, Numbers DEF FilesOK, FileRecord, MainTime, Exists
        <3> QED
            BY <3>1, <1>1, <1>9, <1>10, MainStays DEF Serially
    <2>4. \A q \in Page : page'[q].etag.mtime < clock'
        <3> TAKE q \in Page
        <3>1. PICK v \in {page[r] : r \in Page} : v = page[q]
            OBVIOUS
        <3>2. v.etag.mtime \in Nat /\ v.etag.mtime <= clock
            BY TagsTyped DEF Serially, TagsOK, TagOK
        <3> QED
            BY <3>1, <3>2, <1>1, <1>7, <1>9
    <2> QED
        BY <2>2, <2>3, <2>4 DEF Ready
<1>12. (~broken => BackupsAt(j))'
    <2> SUFFICES ASSUME ~broken PROVE BackupsAt(j)'
        BY <1>7
    <2>1. BackupsAt(job[p])
        BY <1>1 DEF StageOK
    <2> QED
        BY <2>1, <1>1, <1>5, <1>7, <1>8, BackupsStay DEF BackupsAt
<1>13. clock <= clock'
    BY <1>1, <1>9
<1>14. StageOK(j)'
    BY <1>1, <1>5, <1>7, <1>10, <1>11, <1>12, StageMoves DEF BeforeRename
<1> QED
    BY <1>1, <1>5, <1>6, <1>7, <1>10, <1>13, <1>14, Midway

LEMMA SerialWriteFails ==
    ASSUME IndInv, IndInv', Serially, NEW p \in Page, WriteFails(p)
    PROVE  Serially'
<1>1. /\ job[p].pc = "write" /\ job[p].kind \in {"put", "rollback"}
      /\ StageOK(job[p]) /\ job \in [Page -> Job] /\ job[p] \in Job /\ FilesOK
    BY OneBusy DEF WriteFails, IndInv, JobOK
<1>2. PICK j : j = [job[p] EXCEPT !.pc = "failed", !.inode = 0]
    OBVIOUS
<1>3. /\ j \in Job
      /\ j.pc = "failed" /\ j.kind = job[p].kind
    BY <1>1, <1>2 DEF Job, Pc
<1>4. job' = [job EXCEPT ![p] = j]
    BY <1>2 DEF WriteFails
<1>5. UNCHANGED <<acked, unsure, undo, told, runtime, page, epoch, clock>> /\ broken' = TRUE
    BY DEF WriteFails
<1>6. Carried(Main, Main)
    <2>1. names' = [names EXCEPT ![Tmp] = 0] /\ inodes' = Forgotten(names', job', inodes)
        BY DEF WriteFails
    <2>2. \A n \in Name \ {Tmp} : Carried(n, n)
        BY <1>1, <2>1, DeleteCarries, Numbers
    <2> QED
        BY <2>2, Numbers
<1>7. Current' /\ Recorded' /\ Follows'
    BY <1>1, <1>5, <1>6, OverrideStays DEF StageOK, BeforeRename
<1>8. StageOK(j)'
    BY <1>3, <1>5, <1>7 DEF StageOK, BeforeRename, Placed
<1> QED
    BY <1>1, <1>3, <1>4, <1>5, <1>6, <1>8, ClockStays, Midway

LEMMA SerialTmpRenamed ==
    ASSUME IndInv, IndInv', Serially, NEW p \in Page, TmpRenamed(p)
    PROVE  Serially'
<1>1. /\ job[p].pc = "rename" /\ job[p].kind \in {"put", "rollback"}
      /\ StageOK(job[p]) /\ job \in [Page -> Job] /\ job[p] \in Job /\ FilesOK
      /\ clock \in Nat
    BY OneBusy DEF TmpRenamed, IndInv, RestOK, JobOK
<1>2. Ready(job[p])
    BY <1>1 DEF StageOK
<1>3. /\ names' = Renamed(Tmp, Main) /\ inodes' = Forgotten(names', job', inodes)
      /\ job' = [job EXCEPT ![p].pc = AfterRename(p)]
      /\ UNCHANGED <<acked, unsure, undo, told, runtime, page, epoch, clock, broken>>
    <2>1. Exists(Target) /\ Target # Main /\ broken \in BOOLEAN
        BY <1>2, Numbers DEF Ready, IndInv, RestOK
    <2>2. names' = Renamed(Target, Main) /\ Goto(p, AfterRename(p))
        BY <2>1 DEF TmpRenamed
    <2>3. broken' = broken
        BY <2>1 DEF TmpRenamed
    <2>4. /\ inodes' = Forgotten(names', job', inodes)
          /\ UNCHANGED <<acked, unsure, undo, told, runtime, page, epoch, clock>>
        BY DEF TmpRenamed
    <2> QED
        BY <2>2, <2>3, <2>4, Numbers DEF Goto
<1>4. PICK pc \in {"done", "shift1"} : pc = AfterRename(p) /\ (pc = "done" <=> job[p].kind = "put")
    BY DEF AfterRename
<1>p. pc \in Pc /\ job' = [job EXCEPT ![p].pc = pc]
    BY <1>3, <1>4 DEF Pc
<1>5. PICK j \in Job : /\ job' = [job EXCEPT ![p] = j]
                       /\ j.pc = pc /\ j.kind = job[p].kind /\ j.section = job[p].section
                       /\ j.patch = job[p].patch /\ j.etag = job[p].etag
                       /\ j.doc = job[p].doc /\ j.inode = job[p].inode
                       /\ j.seen = job[p].seen
    BY <1>1, <1>p, JobMoved, Zenon
<1>6. Carried(Tmp, Main) /\ \A n \in Name \ {Main, Tmp} : Carried(n, n)
    BY <1>1, <1>3, RenameCarries, Numbers
<1>7. Exists(Main)' /\ Override' = Whole(j.doc) /\ MainTime' = clock'
    <2>1. Exists(Main)' /\ At(Main)' = Whole(j.doc)
        BY <1>2, <1>5, <1>6, CarriedFile DEF Ready
    <2>2. inodes'[names'[Main]].mtime = clock'
        BY <1>2, <1>3, <1>6 DEF Ready, Carried, Exists
    <2> QED
        BY <2>1, <2>2 DEF Override, MainTime
<1>8. Override'.tag = "whole" /\ Override'.doc = j.doc
    BY <1>7, Contents
<1>9. TagsOK'
    <2>1. ASSUME NEW q \in Page, NEW v, v = page[q] PROVE TagOK(v.etag, v.seen)'
        <3>1. v.etag.mtime < clock /\ v.etag.mtime \in Nat
            BY <1>2, <2>1, TagsTyped DEF Ready
        <3>2. v.etag.mtime <= clock /\ v.etag.epoch <= epoch
            BY <2>1 DEF Serially, TagsOK, TagOK
        <3>3. ETag'.mtime = clock
            BY <1>3, <1>7 DEF ETag, MainTime
        <3>4. v.etag # ETag'
            BY <3>1, <3>3, <1>1
        <3> QED
            BY <3>2, <3>4, <1>3 DEF TagOK
    <2> QED
        BY <2>1, <1>3 DEF TagsOK
<1>10. (~broken => BackupsAt(j))'
    <2> SUFFICES ASSUME ~broken PROVE BackupsAt(j)'
        BY <1>3
    <2>1. BackupsAt(job[p])
        BY <1>1 DEF StageOK
    <2>2. Kept => Kept'
        BY <1>3, <1>6, BackupsStay
    <2>3. Shifting /\ First => Shifting' /\ First'
        BY <1>3, <1>6, BackupsStay
    <2> QED
        BY <2>1, <2>2, <2>3, <1>1, <1>3, <1>4, <1>5 DEF BackupsAt
<1>11. (j.kind = "put" => /\ j.doc # NoDocument
                          /\ \A k \in KeysOf[j.section] : Effective(j.doc)[k] = j.patch[k]
                          /\ \A k \in Key \ KeysOf[j.section] :
                                k \notin told => runtime[k] = Effective(j.doc)[k])'
    BY <1>1, <1>3, <1>5 DEF StageOK, BeforeRename
<1>12. StageOK(j)'
    BY <1>4, <1>5, <1>7, <1>8, <1>10, <1>11 DEF StageOK, BeforeRename, Placed
<1>13. MainTime' <= clock'
    BY <1>1, <1>3, <1>7
<1>14. j.pc # "idle"
    BY <1>4, <1>5
<1> QED
    BY <1>1, <1>3, <1>5, <1>8, <1>9, <1>12, <1>13, <1>14, Onward

LEMMA SerialShifted ==
    ASSUME IndInv, IndInv', Serially, NEW p \in Page, Shifted(p)
    PROVE  Serially'
<1>1. /\ job[p].pc \in {"shift1", "shift2"} /\ job[p].kind = "rollback"
      /\ StageOK(job[p]) /\ job \in [Page -> Job] /\ FilesOK
    BY OneBusy DEF Shifted, IndInv, JobOK
<1>2. PICK pc \in {"shift2", "done"} : /\ job' = [job EXCEPT ![p].pc = pc]
                                       /\ pc = IF job[p].pc = "shift1" THEN "shift2" ELSE "done"
    BY DEF Shifted, Goto
<1>p. pc \in Pc
    BY <1>2 DEF Pc
<1>3. PICK j \in Job : /\ job' = [job EXCEPT ![p] = j]
                       /\ j.pc = pc /\ j.kind = job[p].kind /\ j.section = job[p].section
                       /\ j.patch = job[p].patch /\ j.etag = job[p].etag
                       /\ j.doc = job[p].doc /\ j.inode = job[p].inode
                       /\ j.seen = job[p].seen
    BY <1>1, <1>2, <1>p, JobMoved, Zenon
<1>4. UNCHANGED <<acked, unsure, undo, told, runtime, page, epoch, clock, broken>>
    BY DEF Shifted, ghosts
<1>5. PICK to \in {1, 2} :
        /\ to = IF job[p].pc = "shift1" THEN 1 ELSE 2
        /\ names' = IF Exists(to + 1) THEN Renamed(to + 1, to)
                                      ELSE [names EXCEPT ![to] = SlotAfter(to)]
        /\ inodes' = Forgotten(names', job', inodes)
    BY <1>1 DEF Shifted
<1>6. to \in Name /\ to + 1 \in Name /\ Main \in Name \ {to, to + 1}
    BY DEF Name, Main
<1>7. Carried(Main, Main) /\ ((~broken => BackupsAt(j)) /\ Exists(Main))'
    <2>0. Exists(Main)
        BY <1>1 DEF StageOK, Placed
    <2>1. CASE Exists(to + 1)
        <3>1. /\ Carried(to + 1, to) /\ names'[to + 1] = 0
              /\ \A n \in Name \ {to + 1, to} : Carried(n, n)
            BY <1>1, <1>5, <1>6, <2>1, RenameCarries
        <3>2. Carried(Main, Main) /\ Exists(Main)'
            BY <3>1, <1>6, <2>0, CarriedFile
        <3>3. (~broken => BackupsAt(j))'
            <4> SUFFICES ASSUME ~broken PROVE BackupsAt(j)'
                BY <1>4
            <4>1. CASE job[p].pc = "shift1"
                <5>1. Kept /\ to = 1 /\ j.pc = "shift2" /\ j.kind = "rollback" /\ undo # << >> /\ j.doc = undo[1]
                    BY <4>1, <1>1, <1>2, <1>3, <1>5 DEF StageOK, BackupsAt
                <5>2. Carried(2, 1) /\ Carried(3, 3) /\ ~Exists(2)'
                    BY <3>1, <5>1 DEF Name, Exists
                <5>3. Has(1, 2)' /\ Has(3, 3)'
                    BY <5>1, <5>2, <1>4, CarriedBackup DEF Kept
                <5> QED
                    BY <5>1, <5>2, <5>3, <1>4 DEF BackupsAt
            <4>2. CASE job[p].pc = "shift2"
                <5>1. /\ Has(1, 2) /\ Has(3, 3) /\ to = 2 /\ j.pc = "done" /\ j.kind = "rollback"
                      /\ undo # << >> /\ j.doc = undo[1]
                    BY <4>2, <1>1, <1>2, <1>3, <1>5 DEF StageOK, BackupsAt
                <5>2. Carried(3, 2) /\ Carried(1, 1) /\ ~Exists(3)'
                    BY <3>1, <5>1 DEF Name, Exists
                <5>3. Has(1, 2)' /\ Has(2, 3)'
                    BY <5>1, <5>2, <1>4, CarriedBackup
                <5> QED
                    BY <5>1, <5>2, <5>3, <1>4 DEF BackupsAt
            <4> QED
                BY <4>1, <4>2, <1>1
        <3> QED
            BY <3>2, <3>3
    <2>2. CASE ~Exists(to + 1)
        <3>1. CASE job[p].pc = "shift1"
            <4>1. to = 1 /\ j.pc = "shift2" /\ j.kind = "rollback"
                BY <3>1, <1>1, <1>2, <1>3, <1>5
            <4>2. names' = [names EXCEPT ![1] = 0]
                BY <4>1, <1>5, <2>2 DEF SlotAfter
            <4>3. names'[1] = 0 /\ \A n \in Name \ {1} : Carried(n, n)
                BY <4>2, <1>1, <1>5, Numbers, DeleteCarries
            <4>4. Carried(Main, Main) /\ Carried(2, 2) /\ Carried(3, 3) /\ ~Exists(1)'
                BY <4>3, Numbers DEF Exists
            <4>5. ~broken => BackupsAt(j)'
                <5> SUFFICES ASSUME ~broken PROVE BackupsAt(j)'
                    OBVIOUS
                <5>1. Kept /\ ~Exists(2) /\ undo # << >> /\ j.doc = undo[1]
                    BY <3>1, <4>1, <1>1, <1>3, <2>2 DEF StageOK, BackupsAt
                <5>2. 2 \notin DOMAIN undo /\ Has(3, 3)
                    BY <5>1 DEF Kept, Has
                <5>3. Has(1, 2)' /\ ~Exists(2)' /\ Has(3, 3)'
                    BY <5>1, <5>2, <4>4, <1>4, CarriedBackup, CarriedFile DEF Has
                <5> QED
                    BY <5>1, <5>3, <4>1, <1>4 DEF BackupsAt
            <4>6. Exists(Main)'
                BY <2>0, <4>4, CarriedFile
            <4> QED
                BY <4>4, <4>5, <4>6, <1>4
        <3>2. CASE job[p].pc = "shift2"
            <4>1. to = 2 /\ j.pc = "done" /\ j.kind = "rollback"
                BY <3>2, <1>1, <1>2, <1>3, <1>5
            <4>2. names' = names
                BY <4>1, <1>1, <1>5, <2>2 DEF SlotAfter, FilesOK
            <4>3. \A n \in Name : Carried(n, n)
                BY <4>2, <1>1, <1>5, KeepCarries
            <4>4. Carried(Main, Main) /\ Carried(1, 1) /\ Carried(2, 2) /\ Carried(3, 3)
                BY <4>3, Numbers
            <4>5. ~broken => BackupsAt(j)'
                <5> SUFFICES ASSUME ~broken PROVE BackupsAt(j)'
                    OBVIOUS
                <5>1. Has(1, 2) /\ ~Exists(2) /\ Has(3, 3) /\ ~Exists(3) /\ undo # << >> /\ j.doc = undo[1]
                    BY <3>2, <4>1, <1>1, <1>3, <2>2 DEF StageOK, BackupsAt
                <5>2. Has(2, 3)
                    BY <5>1 DEF Has
                <5>3. Has(1, 2)' /\ Has(2, 3)' /\ ~Exists(3)'
                    BY <5>1, <5>2, <4>4, <1>4, CarriedBackup, CarriedFile
                <5> QED
                    BY <5>1, <5>3, <4>1, <1>4 DEF BackupsAt
            <4>6. Exists(Main)'
                BY <2>0, <4>4, CarriedFile
            <4> QED
                BY <4>4, <4>5, <4>6, <1>4
        <3> QED
            BY <3>1, <3>2, <1>1
    <2> QED
        BY <2>1, <2>2
<1>8. (Override.doc = j.doc)'
    BY <1>1, <1>3, <1>7, MainStays DEF StageOK, Placed
<1>9. StageOK(j)'
    BY <1>1, <1>2, <1>3, <1>7, <1>8 DEF StageOK, BeforeRename, Placed
<1> QED
    BY <1>1, <1>2, <1>3, <1>4, <1>7, <1>9, ClockStays, Midway

-----------------------------------------------------------------------------
(* The ends of a request that is alone. *)

LEMMA StoreCarries ==
    ASSUME IndInv, UNCHANGED store
    PROVE  \A n \in Name : Carried(n, n)
BY KeepCarries DEF IndInv, store

\* A page that takes another tag.
LEMMA TagsReplaced ==
    ASSUME IndInv, IndInv', TagsOK, Carried(Main, Main), UNCHANGED <<epoch, clock>>, NEW p \in Page,
           NEW v, page' = [page EXCEPT ![p] = v], TagOK(v.etag, v.seen)'
    PROVE  TagsOK'
<1>1. page \in [Page -> View]
    BY DEF IndInv, RestOK
<1>2. \A w \in {page[q] : q \in Page} : TagOK(w.etag, w.seen)'
    BY TagsTyped, TagsStay, ClockStays DEF TagsOK
<1>3. \A w \in {page'[q] : q \in Page} : w = v \/ w \in {page[q] : q \in Page}
    BY <1>1
<1>4. \A w \in {page'[q] : q \in Page} : TagOK(w.etag, w.seen)'
    BY <1>2, <1>3
<1> QED
    BY <1>4 DEF TagsOK

LEMMA TagsAskedAgain ==
    ASSUME IndInv, IndInv', TagsOK, Carried(Main, Main), UNCHANGED <<epoch, clock>>, NEW p \in Page,
           page' = [page EXCEPT ![p].loading = "config"]
    PROVE  TagsOK'
<1>1. page[p] \in View
    BY DEF IndInv, RestOK
<1>2. PICK v : v = [page[p] EXCEPT !.loading = "config"]
    OBVIOUS
<1>3. PICK w \in {page[q] : q \in Page} : w = page[p]
    OBVIOUS
<1>4. v.etag = w.etag /\ v.seen = w.seen
    BY <1>1, <1>2, <1>3 DEF View
<1>5. TagOK(w.etag, w.seen)'
    BY <1>3, TagsTyped, TagsStay, ClockStays DEF TagsOK
<1>6. TagOK(v.etag, v.seen)'
    BY <1>4, <1>5
<1>7. page' = [page EXCEPT ![p] = v]
    BY <1>2
<1> QED
    BY <1>6, <1>7, TagsReplaced

\* A tag that was made now.
LEMMA TagNow ==
    ASSUME IndInv, MainTime <= clock, NEW tag, NEW seen,
           tag.mtime = ETag.mtime, tag.epoch \in Nat, tag.epoch <= epoch, seen = Override.doc
    PROVE  TagOK(tag, seen)
BY DEF TagOK, ETag, MainTime

LEMMA TagsAnswered ==
    ASSUME IndInv, IndInv', TagsOK, MainTime <= clock, UNCHANGED <<store, epoch>>, NEW p \in Page,
           Answered(p)
    PROVE  TagsOK'
<1>0. Carried(Main, Main) /\ UNCHANGED <<epoch, clock>>
    BY StoreCarries, Numbers DEF store
<1>1. PICK more \in BOOLEAN :
      page' = [page EXCEPT
        ![p].loading = IF more THEN "no" ELSE "config",
        ![p].etag = IF more THEN [epoch |-> page[p].etag.epoch, mtime |-> ETag.mtime] ELSE @,
        ![p].seen = IF more THEN Override.doc ELSE @]
    BY DEF Answered
<1>2. PICK e : e = IF more THEN [epoch |-> page[p].etag.epoch, mtime |-> ETag.mtime] ELSE page[p].etag
    OBVIOUS
<1>3. PICK d : d = IF more THEN Override.doc ELSE page[p].seen
    OBVIOUS
<1>4. page[p] \in View
    BY DEF IndInv, RestOK
<1>5. PICK v : v = [page[p] EXCEPT !.loading = IF more THEN "no" ELSE "config", !.etag = e, !.seen = d]
    OBVIOUS
<1>6. v.etag = e /\ v.seen = d
    BY <1>4, <1>5 DEF View
<1>7. page' = [page EXCEPT ![p] = v]
    BY <1>1, <1>2, <1>3, <1>5
<1>8. PICK w \in {page[q] : q \in Page} : w = page[p]
    OBVIOUS
<1>9. TagOK(w.etag, w.seen) /\ w.etag.mtime \in Nat /\ w.etag.epoch \in Nat
    BY TagsTyped DEF TagsOK
<1>10. e.mtime \in Nat /\ TagOK(e, d)
    <2>1. CASE more
        <3>1. e.mtime = ETag.mtime /\ e.epoch = w.etag.epoch /\ d = Override.doc
            BY <2>1, <1>2, <1>3, <1>8
        <3>2. e.epoch \in Nat /\ e.epoch <= epoch
            BY <3>1, <1>9 DEF TagOK
        <3>3. e.mtime \in Nat
            BY <3>1, Overrides DEF IndInv
        <3> QED
            BY <3>1, <3>2, <3>3, TagNow
    <2>2. CASE ~more
        BY <2>2, <1>2, <1>3, <1>8, <1>9
    <2> QED
        BY <2>1, <2>2
<1>11. TagOK(e, d)'
    BY <1>0, <1>10, TagsStay, ClockStays
<1>12. TagOK(v.etag, v.seen)'
    BY <1>6, <1>11
<1> QED
    BY <1>0, <1>7, <1>12, TagsReplaced

LEMMA Settled ==
    ASSUME IndInv, IndInv', Serially, NEW p \in Page, job[p].pc # "idle",
           job' = [job EXCEPT ![p] = NoJob], UNCHANGED <<store, epoch>>,
           TagsOK', (~broken => UndoOK)', Rested'
    PROVE  Serially'
<1>1. job \in [Page -> Job]
    BY DEF IndInv
<1>2. \A q \in Page : job'[q].pc = "idle"
    BY <1>1, OneBusy, NoJobs
<1>3. Busy' = {}
    BY <1>2 DEF Busy
<1>4. Override' = Override /\ MainTime' = MainTime /\ clock' = clock
    BY StoreCarries, MainStays, Numbers DEF store
<1> QED
    BY <1>3, <1>4 DEF Serially

\* The backups, once the new document is acknowledged.
LEMMA HistoryGrows ==
    ASSUME IndInv, UndoOK, First, Shifting, \A n \in Name : Carried(n, n),
           undo' = IF undo = << >> /\ acked = NoDocument THEN << >> ELSE Undone(acked),
           acked' # NoDocument, unsure' = {}
    PROVE  Kept' /\ UndoOK'
<1>0. undo \in Seq(Document) /\ acked \in Document /\ DOMAIN undo = 1 .. Len(undo) /\ Len(undo) \in 0 .. 3
    <2>1. undo \in Seq(Document) /\ acked \in Document
        BY DEF IndInv, RestOK
    <2>2. DOMAIN undo = 1 .. Len(undo) /\ Len(undo) \in Nat
        BY UndoDomain
    <2>3. Len(undo) <= 3
        BY DEF UndoOK, MAX_BACKUPS
    <2> QED
        BY <2>1, <2>2, <2>3
<1>1. /\ Exists(1)' <=> Exists(1)
      /\ Exists(2)' <=> Exists(2)
      /\ Exists(3)' <=> Exists(3)
      /\ Exists(1) => At(1)' = At(1)
      /\ Exists(2) => At(2)' = At(2)
      /\ Exists(3) => At(3)' = At(3)
    BY CarriedFile, Numbers
<1>2. CASE acked = NoDocument
    <2>1. undo = << >> /\ undo' = << >>
        BY <1>2 DEF UndoOK
    <2>2. DOMAIN undo = {} /\ DOMAIN undo' = {} /\ Len(undo') = 0
        BY <2>1
    <2>3. Kept'
        BY <1>1, <1>2, <2>2 DEF First, Shifting, Has, Kept
    <2> QED
        BY <2>1, <2>2, <2>3 DEF UndoOK, MAX_BACKUPS
<1>3. CASE acked # NoDocument
    <2>1. undo' = Undone(acked)
        BY <1>3
    <2>2. /\ undo' \in Seq(Document)
          /\ Len(undo') = IF Len(undo) < 3 THEN Len(undo) + 1 ELSE 3
          /\ undo'[1] = acked
          /\ \A i \in Nat \ {0} : i + 1 <= Len(undo') => undo'[i + 1] = undo[i]
        <3>1. /\ Undone(acked) \in Seq(Document)
              /\ Len(Undone(acked)) = IF Len(undo) < MAX_BACKUPS THEN Len(undo) + 1 ELSE MAX_BACKUPS
              /\ Undone(acked)[1] = acked
              /\ \A i \in Nat \ {0} : i + 1 <= Len(Undone(acked)) => Undone(acked)[i + 1] = undo[i]
            BY <1>0, UndoneIs, Zenon
        <3> QED
            BY <2>1, <3>1 DEF MAX_BACKUPS
    <2>3. DOMAIN undo' = 1 .. Len(undo')
        BY <2>2
    <2>4. /\ 1 \in DOMAIN undo'
          /\ 2 \in DOMAIN undo' <=> 1 \in DOMAIN undo
          /\ 3 \in DOMAIN undo' <=> 2 \in DOMAIN undo
          /\ 1 \in DOMAIN undo => undo'[2] = undo[1]
          /\ 2 \in DOMAIN undo => undo'[3] = undo[2]
        BY <1>0, <2>2, <2>3
    <2>5. Has(1, 1)'
        BY <1>1, <1>3, <2>2, <2>4 DEF First, Has
    <2>6. Has(2, 2)' /\ Has(3, 3)'
        BY <1>1, <2>4 DEF Shifting, Has
    <2>7. \A i \in DOMAIN undo' : undo'[i] # NoDocument
        <3> TAKE i \in DOMAIN undo'
        <3>1. CASE i = 1
            BY <3>1, <1>3, <2>2
        <3>2. CASE i # 1
            <4>1. PICK h \in Nat \ {0} : i = h + 1 /\ h \in DOMAIN undo /\ h + 1 <= Len(undo')
                <5>1. i \in Nat /\ i > 1 /\ i <= Len(undo') /\ i - 1 <= Len(undo)
                    BY <3>2, <1>0, <2>2, <2>3
                <5> QED
                    BY <5>1, <1>0
            <4> QED
                BY <4>1, <2>2 DEF UndoOK
        <3> QED
            BY <3>1, <3>2
    <2>8. Len(undo') <= MAX_BACKUPS
        BY <1>0, <2>2 DEF MAX_BACKUPS
    <2> QED
        BY <2>5, <2>6, <2>7, <2>8 DEF Kept, UndoOK
<1> QED
    BY <1>2, <1>3

LEMMA SerialPutSucceeds ==
    ASSUME IndInv, IndInv', Serially, NEW p \in Page, PutSucceeds(p)
    PROVE  Serially'
<1>1. /\ job[p].pc = "done" /\ job[p].kind = "put"
      /\ StageOK(job[p]) /\ job[p] \in Job /\ JobOK(job[p])
    BY OneBusy DEF PutSucceeds
<1>2. /\ UNCHANGED <<store, epoch, broken>> /\ Answered(p)
      /\ job' = [job EXCEPT ![p] = NoJob] /\ acked' = job[p].doc /\ unsure' = {}
      /\ undo' = IF undo = << >> /\ acked = NoDocument THEN << >> ELSE Undone(acked)
      /\ told' = told \cup (KeysOf[job[p].section] \ Live)
      /\ runtime' = [k \in Key |-> IF k \in KeysOf[job[p].section] \cap Live THEN job[p].patch[k]
                                                                           ELSE runtime[k]]
    BY DEF PutSucceeds, AppliedLive
<1>3. TagsOK'
    BY <1>2, TagsAnswered DEF Serially
<1>4. \A n \in Name : Carried(n, n)
    BY <1>2, StoreCarries
<1>5. /\ Exists(Main)' /\ Override' = Override /\ Override.doc = acked' /\ acked' # NoDocument
    BY <1>1, <1>2, <1>4, CarriedFile, MainStays, Numbers DEF StageOK, Placed
<1>6. Current' /\ Recorded'
    BY <1>5 DEF Current, Recorded
<1>7. Follows'
    <2>1. ASSUME NEW k \in Key, k \notin told' PROVE runtime'[k] = Effective(acked')[k]
        <3>1. CASE k \in KeysOf[job[p].section]
            <4>1. k \in Live /\ runtime'[k] = job[p].patch[k]
                BY <3>1, <2>1, <1>2
            <4> QED
                BY <3>1, <4>1, <1>1, <1>2 DEF StageOK, Placed
        <3>2. CASE k \notin KeysOf[job[p].section]
            <4>1. k \notin told /\ runtime'[k] = runtime[k]
                BY <3>2, <2>1, <1>2
            <4> QED
                BY <3>2, <4>1, <1>1, <1>2 DEF StageOK, Placed
        <3> QED
            BY <3>1, <3>2
    <2>2. Override'.doc = acked'
        BY <1>5
    <2>3. \A k \in Key \ told' : runtime'[k] = Effective(Override'.doc)[k]
        BY <2>1, <2>2
    <2> QED
        BY <2>3 DEF Follows
<1>8. (~broken => Kept /\ UndoOK)'
    <2> SUFFICES ASSUME ~broken PROVE Kept' /\ UndoOK'
        BY <1>2
    <2>1. UndoOK /\ First /\ Shifting
        BY <1>1 DEF Serially, StageOK, BackupsAt
    <2> QED
        BY <2>1, <1>2, <1>4, <1>5, HistoryGrows
<1>9. Rested'
    BY <1>6, <1>7, <1>8 DEF Rested
<1> QED
    BY <1>1, <1>2, <1>3, <1>8, <1>9, Settled

LEMMA SerialRollbackSucceeds ==
    ASSUME IndInv, IndInv', Serially, NEW p \in Page, RollbackSucceeds(p)
    PROVE  Serially'
<1>1. /\ job[p].pc = "done" /\ job[p].kind = "rollback"
      /\ StageOK(job[p]) /\ job[p] \in Job /\ JobOK(job[p])
    BY OneBusy DEF RollbackSucceeds
<1>2. /\ UNCHANGED <<store, epoch, broken>> /\ page' = [page EXCEPT ![p].loading = "config"]
      /\ job' = [job EXCEPT ![p] = NoJob] /\ acked' = job[p].doc /\ unsure' = {}
      /\ undo' = IF undo = << >> THEN << >> ELSE Tail(undo)
      /\ told' = Key
    BY DEF RollbackSucceeds
<1>3. \A n \in Name : Carried(n, n)
    BY <1>2, StoreCarries
<1>4. TagsOK'
    BY <1>2, <1>3, TagsAskedAgain, Numbers DEF Serially, store
<1>5. /\ Exists(Main)' /\ Override' = Override /\ Override.doc = acked'
    BY <1>1, <1>2, <1>3, CarriedFile, MainStays, Numbers DEF StageOK, Placed
<1>6. (~broken => Kept /\ UndoOK)' /\ (~broken' => acked' # NoDocument)
    <2> SUFFICES ASSUME ~broken PROVE Kept' /\ UndoOK' /\ acked' # NoDocument
        BY <1>2
    <2>1. /\ UndoOK /\ Has(1, 2) /\ Has(2, 3) /\ ~Exists(3)
          /\ undo # << >> /\ job[p].doc = undo[1]
        BY <1>1 DEF Serially, StageOK, BackupsAt
    <2>2. /\ undo \in Seq(Document) /\ DOMAIN undo = 1 .. Len(undo) /\ Len(undo) \in 1 .. 3
        <3>1. undo \in Seq(Document)
            BY DEF IndInv, RestOK
        <3>2. DOMAIN undo = 1 .. Len(undo) /\ Len(undo) \in Nat
            BY UndoDomain
        <3>3. Len(undo) <= 3
            BY <2>1 DEF UndoOK, MAX_BACKUPS
        <3>4. Len(undo) # 0
            BY <2>1, <3>1, EmptySeq
        <3> QED
            BY <3>1, <3>2, <3>3, <3>4
    <2>3. /\ undo' = Tail(undo) /\ Len(undo') = Len(undo) - 1 /\ DOMAIN undo' = 1 .. Len(undo) - 1
          /\ \A i \in 1 .. Len(undo) - 1 : undo'[i] = undo[i + 1]
        BY <1>2, <2>1, <2>2
    <2>4. acked' # NoDocument
        BY <1>2, <2>1, <2>2 DEF UndoOK
    <2>5. \A i \in DOMAIN undo' : undo'[i] # NoDocument
        BY <2>1, <2>2, <2>3 DEF UndoOK
    <2>6. UndoOK'
        BY <1>2, <2>2, <2>3, <2>4, <2>5, SMTT(30) DEF UndoOK, MAX_BACKUPS
    <2>7. /\ 1 \in DOMAIN undo' <=> 2 \in DOMAIN undo
          /\ 2 \in DOMAIN undo' <=> 3 \in DOMAIN undo
          /\ 3 \notin DOMAIN undo'
          /\ 2 \in DOMAIN undo => undo'[1] = undo[2]
          /\ 3 \in DOMAIN undo => undo'[2] = undo[3]
        BY <2>2, <2>3
    <2>8. /\ Exists(1)' <=> Exists(1)
          /\ Exists(2)' <=> Exists(2)
          /\ Exists(3)' <=> Exists(3)
          /\ Exists(1) => At(1)' = At(1)
          /\ Exists(2) => At(2)' = At(2)
        BY <1>3, CarriedFile, Numbers
    <2>9. Has(1, 1)' /\ Has(2, 2)' /\ Has(3, 3)'
        BY <2>1, <2>7, <2>8 DEF Has
    <2> QED
        BY <2>4, <2>6, <2>9 DEF Kept
<1>7. Current' /\ Recorded' /\ Follows'
    BY <1>2, <1>5, <1>6 DEF Current, Recorded, Follows
<1>8. Rested'
    BY <1>6, <1>7 DEF Rested
<1> QED
    BY <1>1, <1>2, <1>4, <1>6, <1>8, Settled

LEMMA SerialReloadEnds ==
    ASSUME IndInv, IndInv', Serially, NEW p \in Page, ReloadEnds(p)
    PROVE  Serially'
<1>1. /\ job[p].pc = "read" /\ job[p].kind = "reload" /\ StageOK(job[p])
    BY OneBusy DEF ReloadEnds
<1>2. /\ UNCHANGED <<store, epoch, acked, unsure, undo, broken>>
      /\ page' = [page EXCEPT ![p].loading = "config"]
      /\ job' = [job EXCEPT ![p] = NoJob]
      /\ runtime' = [k \in Key |-> IF k \in Reloadable THEN Effective(Override.doc)[k] ELSE runtime[k]]
      /\ told' = told \ Reloadable
    BY DEF ReloadEnds, Serially
<1>3. \A n \in Name : Carried(n, n)
    BY <1>2, StoreCarries
<1>4. TagsOK'
    BY <1>2, <1>3, TagsAskedAgain, Numbers DEF Serially, store
<1>5. Override' = Override /\ Current /\ Recorded /\ Follows
    BY <1>1, <1>3, MainStays, Numbers DEF StageOK, BeforeRename
<1>6. Current' /\ Recorded'
    BY <1>2, <1>3, <1>5, CarriedFile, Numbers DEF Current, Recorded
<1>7. Follows'
    <2>1. \A k \in Key \ told' : runtime'[k] = Effective(Override'.doc)[k]
        BY <1>2, <1>5 DEF Follows
    <2> QED
        BY <2>1 DEF Follows
<1>8. (~broken => Kept)' /\ (~broken => UndoOK)'
    <2>1. ~broken => Kept /\ UndoOK
        BY <1>1 DEF StageOK, BackupsAt, Serially
    <2>2. Kept => Kept'
        BY <1>2, <1>3, BackupsStay
    <2>3. UndoOK => UndoOK'
        BY <1>2 DEF UndoOK
    <2> QED
        BY <2>1, <2>2, <2>3, <1>2
<1>9. Rested'
    BY <1>6, <1>7, <1>8 DEF Rested
<1> QED
    BY <1>1, <1>2, <1>4, <1>8, <1>9, Settled

LEMMA SerialRequestFails ==
    ASSUME IndInv, IndInv', Serially, NEW p \in Page, RequestFails(p)
    PROVE  Serially'
<1>1. /\ job[p].pc = "failed" /\ StageOK(job[p])
    BY OneBusy DEF RequestFails
<1>2. /\ UNCHANGED <<store, epoch, runtime, told, acked, unsure, undo, broken>>
      /\ page' = [page EXCEPT ![p].loading = "config"]
      /\ job' = [job EXCEPT ![p] = NoJob]
    BY DEF RequestFails, ghosts
<1>3. \A n \in Name : Carried(n, n)
    BY <1>2, StoreCarries
<1>4. TagsOK'
    BY <1>2, <1>3, TagsAskedAgain, Numbers DEF Serially, store
<1>5. Current' /\ Recorded' /\ Follows'
    BY <1>1, <1>2, <1>3, OverrideStays, Numbers DEF StageOK, BeforeRename
<1>6. (~broken => Kept)' /\ (~broken => UndoOK)'
    <2>1. ~broken => Kept /\ UndoOK
        BY <1>1 DEF StageOK, BackupsAt, Serially
    <2>2. Kept => Kept'
        BY <1>2, <1>3, BackupsStay
    <2>3. UndoOK => UndoOK'
        BY <1>2 DEF UndoOK
    <2> QED
        BY <2>1, <2>2, <2>3, <1>2
<1>7. Rested'
    BY <1>5, <1>6 DEF Rested
<1> QED
    BY <1>1, <1>2, <1>4, <1>6, <1>7, Settled

-----------------------------------------------------------------------------
(* Pages, restarts and the start. *)

\* A page that loads something.
LEMMA PageOnly ==
    ASSUME IndInv, IndInv', Serially, UNCHANGED <<store, runtime, epoch, job, ghosts>>, TagsOK',
           \A j \in {job[p] : p \in Busy} : Ready(j) => Ready(j)'
    PROVE  Serially'
<1>1. UNCHANGED <<names, inodes, clock, runtime, epoch, job, acked, unsure, undo, broken, told, met>>
    BY DEF store, ghosts
<1>2. Override' = Override /\ MainTime' = MainTime /\ ETag' = ETag /\ Busy' = Busy
    BY <1>1 DEF Override, MainTime, ETag, Exists, At, Busy
<1>3. Rested => Rested'
    BY <1>1, <1>2 DEF Rested, Current, Recorded, Follows, Kept, Has, Exists, At
<1>4. UndoOK => UndoOK'
    BY <1>1 DEF UndoOK
<1>5. ASSUME NEW j \in {job[p] : p \in Busy} PROVE StageOK(j)'
    <2>0. StageOK(j)
        BY DEF Serially
    <2>1. (Current => Current') /\ (Recorded => Recorded') /\ (Follows => Follows')
        BY <1>1, <1>2 DEF Current, Recorded, Follows, Exists
    <2>2. BackupsAt(j) => BackupsAt(j)'
        BY <1>1 DEF BackupsAt, Kept, Shifting, First, Has, Exists, At
    <2>3. TagOK(j.etag, j.seen) => TagOK(j.etag, j.seen)'
        BY <1>1, <1>2 DEF TagOK
    <2>4. Ready(j) => Ready(j)'
        OBVIOUS
    <2>5. Exists(Main) => Exists(Main)'
        BY <1>1 DEF Exists
    <2> QED
        BY <2>0, <2>1, <2>2, <2>3, <2>4, <2>5, <1>1, <1>2 DEF StageOK
<1>6. (\A j \in {job[p] : p \in Busy} : StageOK(j))'
    BY <1>1, <1>2, <1>5
<1>7. (~broken => UndoOK)' /\ (Busy = {} => Rested)'
    BY <1>1, <1>2, <1>3, <1>4 DEF Serially
<1>8. (Override.tag = "whole" /\ MainTime <= clock)' /\ (\A p, q \in Busy : p = q)'
    BY <1>1, <1>2 DEF Serially
<1> QED
    BY <1>6, <1>7, <1>8 DEF Serially

LEMMA SerialConfigLoaded ==
    ASSUME IndInv, IndInv', Serially, NEW p \in Page, ConfigLoaded(p)
    PROVE  Serially'
<1>0. page \in [Page -> View] /\ page[p] \in View
    BY DEF IndInv, RestOK
<1>1. UNCHANGED <<store, runtime, epoch, job, ghosts>>
    BY DEF ConfigLoaded
<1>2. \A q \in Page : page'[q].etag = page[q].etag /\ page'[q].seen = page[q].seen
    <2> TAKE q \in Page
    <2>1. CASE q = p
        BY <2>1, <1>0 DEF ConfigLoaded, View
    <2>2. CASE q # p
        BY <2>2, <1>0 DEF ConfigLoaded
    <2> QED
        BY <2>1, <2>2
<1>3. Carried(Main, Main) /\ UNCHANGED <<epoch, clock>>
    BY <1>1, StoreCarries, Numbers DEF store
<1>4. TagsOK'
    <2>1. ASSUME NEW q \in Page, NEW w, w = page'[q] PROVE TagOK(w.etag, w.seen)'
        <3>1. PICK v \in {page[r] : r \in Page} : v = page[q]
            OBVIOUS
        <3>2. TagOK(v.etag, v.seen)'
            BY <1>3, TagsTyped, TagsStay, ClockStays DEF TagsOK, Serially
        <3>3. w.etag = v.etag /\ w.seen = v.seen
            BY <2>1, <3>1, <1>2
        <3> QED
            BY <3>2, <3>3
    <2> QED
        BY <2>1 DEF TagsOK
<1>5. \A j \in {job[q] : q \in Busy} : Ready(j) => Ready(j)'
    BY <1>1, <1>2 DEF Ready, store, Exists, At, MainTime
<1> QED
    BY <1>1, <1>4, <1>5, PageOnly

LEMMA SerialStatusLoaded ==
    ASSUME IndInv, IndInv', Serially, NEW p \in Page, StatusLoaded(p)
    PROVE  Serially'
<1>0. page \in [Page -> View] /\ page[p] \in View /\ FilesOK
    BY DEF IndInv, RestOK
<1>1. UNCHANGED <<store, runtime, epoch, job, ghosts>>
    BY DEF StatusLoaded
<1>2. PICK v : v = [page[p] EXCEPT !.loading = "no", !.etag = ETag, !.seen = Override.doc]
    OBVIOUS
<1>3. v.etag = ETag /\ v.seen = Override.doc
    BY <1>0, <1>2 DEF View
<1>4. page' = [page EXCEPT ![p] = v]
    BY <1>0, <1>2 DEF StatusLoaded
<1>5. Carried(Main, Main) /\ UNCHANGED <<epoch, clock>>
    BY <1>1, StoreCarries, Numbers DEF store
<1>6. ETag.mtime = MainTime /\ MainTime <= clock /\ ETag.epoch = epoch /\ epoch \in Nat /\ ETag.mtime \in Nat
    BY <1>0, Overrides, ConstantsAssumption DEF ETag, MainTime, Serially, IndInv, RestOK
<1>7. TagsOK'
    <2>1. v.etag.mtime \in Nat /\ v.etag.epoch \in Nat /\ v.etag.epoch <= epoch /\ v.etag.mtime = ETag.mtime
        BY <1>3, <1>6
    <2>2. TagOK(v.etag, v.seen)
        BY <1>3, <1>6, <2>1, TagNow
    <2>3. TagOK(v.etag, v.seen)'
        BY <1>5, <2>1, <2>2, TagsStay, ClockStays
    <2> QED
        BY <1>4, <1>5, <2>3, TagsReplaced DEF Serially
<1>8. \A j \in {job[q] : q \in Busy} : Ready(j) => Ready(j)'
    <2>1. ASSUME NEW j, Ready(j) PROVE Ready(j)'
        <3>1. \A q \in Page : page'[q].etag.mtime < clock'
            <4> TAKE q \in Page
            <4>1. CASE q = p
                BY <4>1, <2>1, <1>0, <1>3, <1>4, <1>5, <1>6 DEF Ready
            <4>2. CASE q # p
                BY <4>2, <2>1, <1>0, <1>4, <1>5 DEF Ready
            <4> QED
                BY <4>1, <4>2
        <3> QED
            BY <2>1, <3>1, <1>1 DEF Ready, store, Exists, At, MainTime
    <2> QED
        BY <2>1
<1> QED
    BY <1>1, <1>7, <1>8, PageOnly

\* A request that begins while no other is under way.
LEMMA Begun ==
    ASSUME IndInv, IndInv', Serially, Busy = {}, NEW p \in Page, NEW j \in Job,
           j.pc \in {"stat", "read"}, j.pc = "read" => j.kind # "put",
           j.pc = "stat" => TagOK(j.etag, j.seen) /\ j.kind = "put",
           job' = [job EXCEPT ![p] = j],
           UNCHANGED <<store, runtime, epoch, page, acked, unsure, undo, broken, told>>
    PROVE  Serially'
<1>0. job \in [Page -> Job]
    BY DEF IndInv
<1>1. \A n \in Name : Carried(n, n)
    BY StoreCarries
<1>2. clock' = clock /\ Carried(Main, Main)
    BY <1>1, Numbers DEF store
<1>3. Rested
    BY DEF Serially
<1>4. Current' /\ Recorded' /\ Follows'
    BY <1>2, <1>3, OverrideStays DEF Rested
<1>5. (~broken => Kept)'
    BY <1>1, <1>3, BackupsStay DEF Rested
<1>6. j.pc = "stat" => TagOK(j.etag, j.seen)'
    <2>1. j.etag.mtime \in Nat
        BY DEF Job
    <2> QED
        BY <1>2, <2>1, TagsStay, ClockStays
<1>7. StageOK(j)'
    BY <1>4, <1>5, <1>6 DEF StageOK, BackupsAt, BeforeRename, Placed
<1>8. Busy' = {p} /\ job'[p] = j
    BY <1>0 DEF Busy
<1>9. {job'[q] : q \in Busy'} = {j}
    BY <1>8
<1>10. (\A i \in {job[q] : q \in Busy} : StageOK(i))'
    BY <1>7, <1>9
<1>11. TagsOK'
    <2>1. \A v \in {page[q] : q \in Page} : TagOK(v.etag, v.seen)'
        BY <1>2, TagsTyped, TagsStay, ClockStays DEF Serially, TagsOK
    <2> QED
        BY <2>1 DEF TagsOK
<1>12. Override'.tag = "whole" /\ MainTime' <= clock'
    BY <1>2, MainStays DEF Serially
<1>13. (~broken => UndoOK)'
    BY DEF Serially, UndoOK
<1>14. (\A q, r \in Busy : q = r)' /\ Busy' # {}
    BY <1>8
<1> QED
    BY <1>10, <1>11, <1>12, <1>13, <1>14 DEF Serially

LEMMA SerialBegins ==
    ASSUME IndInv, IndInv', SerialInv, ~met', NEW p \in Page,
           (\E s \in Section : Put(p, s)) \/ Rollback(p) \/ Reload(p)
    PROVE  Serially'
<1>1. ~met /\ Busy = {}
    BY DEF Put, Rollback, Reload, MayRequest, IndInv, RestOK
<1>2. Serially
    BY <1>1 DEF SerialInv
<1>3. ASSUME NEW s \in Section, Put(p, s) PROVE Serially'
    <2>1. PICK patch \in [KeysOf[s] -> Value] :
             job' = [job EXCEPT ![p] = [NoJob EXCEPT !.pc = "stat", !.kind = "put",
                        !.section = s, !.patch = patch, !.etag = page[p].etag,
                        !.seen = page[p].seen]]
        BY <1>3 DEF Put
    <2>2. PICK j : j = [NoJob EXCEPT !.pc = "stat", !.kind = "put", !.section = s, !.patch = patch,
                            !.etag = page[p].etag, !.seen = page[p].seen]
        OBVIOUS
    <2>3. page[p].etag \in [epoch : Nat, mtime : Nat] /\ page[p].seen \in Document /\ patch \in Document
        BY Documents DEF View, IndInv, RestOK
    <2>4. j \in Job /\ j.pc = "stat" /\ j.kind = "put" /\ j.etag = page[p].etag /\ j.seen = page[p].seen
        BY <2>2, <2>3, Documents DEF NoJob, Job, Pc, Kind
    <2>5. TagOK(j.etag, j.seen)
        <3>1. PICK v \in {page[r] : r \in Page} : v = page[p]
            OBVIOUS
        <3>2. TagOK(v.etag, v.seen)
            BY <1>2 DEF Serially, TagsOK
        <3> QED
            BY <3>1, <3>2, <2>4
    <2>6. job' = [job EXCEPT ![p] = j]
        BY <2>1, <2>2
    <2>7. UNCHANGED <<store, runtime, epoch, page, acked, unsure, undo, broken, told>>
        BY <1>3 DEF Put
    <2> QED
        BY <1>1, <1>2, <2>4, <2>5, <2>6, <2>7, Begun
<1>4. CASE Rollback(p)
    <2>1. PICK j : j = [NoJob EXCEPT !.pc = "read", !.kind = "rollback"]
        OBVIOUS
    <2>2. j \in Job /\ j.pc = "read" /\ j.kind = "rollback"
        BY <2>1, Documents DEF NoJob, NoETag, Job, Pc, Kind
    <2>3. job' = [job EXCEPT ![p] = j]
        BY <1>4, <2>1 DEF Rollback
    <2>4. UNCHANGED <<store, runtime, epoch, page, acked, unsure, undo, broken, told>>
        BY <1>4 DEF Rollback
    <2> QED
        BY <1>1, <1>2, <2>2, <2>3, <2>4, Begun
<1>5. CASE Reload(p)
    <2>1. PICK j : j = [NoJob EXCEPT !.pc = "read", !.kind = "reload"]
        OBVIOUS
    <2>2. j \in Job /\ j.pc = "read" /\ j.kind = "reload"
        BY <2>1, Documents DEF NoJob, NoETag, Job, Pc, Kind
    <2>3. job' = [job EXCEPT ![p] = j]
        BY <1>5, <2>1 DEF Reload
    <2>4. UNCHANGED <<store, runtime, epoch, page, acked, unsure, undo, broken, told>>
        BY <1>5 DEF Reload
    <2> QED
        BY <1>1, <1>2, <2>2, <2>3, <2>4, Begun
<1> QED
    BY <1>3, <1>4, <1>5

\* What a restart finds: the file, or nothing of a request that had not put its own in place.
LEMMA SerialRestart ==
    ASSUME IndInv, IndInv', Serially, Restart
    PROVE  Serially'
<1>0. FilesOK /\ job \in [Page -> Job] /\ page \in [Page -> View] /\ epoch \in Nat
      /\ broken \in BOOLEAN
    BY ConstantsAssumption DEF IndInv, RestOK
<1>1. /\ epoch' = epoch + 1 /\ runtime' = Effective(Loaded)
      /\ broken' = (broken \/ Writing # {}) /\ unsure' = unsure \cup {job[q].doc : q \in Writing}
      /\ UNCHANGED <<names, clock, acked, undo>> /\ told' = {}
    BY DEF Restart
<1>2. \A n \in Name : Carried(n, n)
    BY <1>0, KeepCarries DEF Restart
<1>3. Override' = Override /\ MainTime' = MainTime
    BY <1>2, MainStays, Numbers
<1>4. Busy' = {}
    BY NoJobs DEF Restart, Busy
<1>5. Loaded = Override.doc
    <2>1. Exists(Main) => Readable(Main)
        BY DEF Serially, Override, Readable
    <2> QED
        BY <2>1, Contents DEF Loaded, Override
<1>6. TagsOK'
    <2>1. ASSUME NEW q \in Page, NEW w, w = page'[q] PROVE TagOK(w.etag, w.seen)'
        <3>1. PICK v \in {page[r] : r \in Page} : v = page[q]
            OBVIOUS
        <3>2. TagOK(v.etag, v.seen) /\ v.etag.epoch \in Nat
            BY TagsTyped DEF Serially, TagsOK
        <3>3. v \in View
            BY <1>0
        <3>4. w.etag = v.etag
            BY <2>1, <3>1, <3>3 DEF Restart, View
        <3>5. w.etag.mtime <= clock' /\ w.etag.epoch <= epoch /\ w.etag.epoch \in Nat
            BY <3>2, <3>4, <1>1 DEF TagOK
        <3>6. ETag'.epoch = epoch + 1
            BY <1>1 DEF ETag
        <3>7. w.etag # ETag' /\ w.etag.epoch <= epoch'
            BY <3>5, <3>6, <1>0, <1>1
        <3> QED
            BY <3>5, <3>7 DEF TagOK
    <2> QED
        BY <2>1 DEF TagsOK
<1>7. Current' /\ (~broken' => Recorded /\ Kept)
    <2>1. CASE Busy = {}
        BY <2>1, <1>1, <1>3 DEF Serially, Rested, Current
    <2>2. CASE Busy # {}
        <3>1. PICK p \in Page : p \in Busy /\ job[p].pc # "idle"
            BY <2>2 DEF Busy
        <3>2. StageOK(job[p]) /\ job[p] \in Job
            BY <3>1, OneBusy
        <3>3. job[p].pc \in BeforeRename \cup Placed
            BY <3>1, <3>2 DEF Job, Pc, BeforeRename, Placed
        <3>4. CASE job[p].pc \in BeforeRename
            <4>1. Current /\ Recorded
                BY <3>2, <3>4 DEF StageOK
            <4>2. Current'
                BY <4>1, <1>1, <1>3 DEF Current
            <4>3. ~broken' => Kept
                <5> SUFFICES ASSUME ~broken' PROVE Kept
                    OBVIOUS
                <5>1. ~broken /\ p \notin Writing
                    BY <1>0, <1>1
                <5>2. job[p].pc \in {"stat", "read", "failed"}
                    BY <3>1, <5>1 DEF Writing
                <5> QED
                    BY <3>2, <5>1, <5>2 DEF StageOK, BackupsAt
            <4> QED
                BY <4>1, <4>2, <4>3
        <3>5. CASE job[p].pc \in Placed
            <4>1. p \in Writing /\ Override.doc = job[p].doc
                BY <3>1, <3>2, <3>5 DEF StageOK, Writing, Placed
            <4>2. Current'
                BY <4>1, <1>1, <1>3 DEF Current
            <4>3. broken'
                BY <4>1, <1>1
            <4> QED
                BY <4>2, <4>3
        <3> QED
            BY <3>3, <3>4, <3>5
    <2> QED
        BY <2>1, <2>2
<1>8. Recorded'
    BY <1>1, <1>2, <1>7, CarriedFile, Numbers DEF Recorded
<1>9. Follows'
    BY <1>1, <1>3, <1>5 DEF Follows
<1>10. (~broken => Kept)' /\ (~broken => UndoOK)'
    <2>1. Kept => Kept'
        BY <1>1, <1>2, BackupsStay
    <2>2. ~broken' => ~broken /\ Writing = {} /\ unsure' = unsure
        BY <1>0, <1>1
    <2>3. ~broken' => UndoOK'
        BY <2>2, <1>1 DEF Serially, UndoOK
    <2> QED
        BY <2>1, <2>3, <1>7
<1>11. (Override.tag = "whole" /\ MainTime <= clock)'
    BY <1>1, <1>3 DEF Serially
<1>12. Rested'
    BY <1>7, <1>8, <1>9, <1>10 DEF Rested
<1> QED
    BY <1>4, <1>6, <1>10, <1>11, <1>12 DEF Serially

LEMMA SerialInit == Init => SerialInv
<1> SUFFICES ASSUME Init PROVE Serially
    BY DEF SerialInv
<1>1. PICK past \in Pasts :
      /\ names = [n \in Name |-> IF n < Len(past) THEN n + 1 ELSE 0]
      /\ inodes = [i \in Inode |-> [content |-> IF i <= Len(past) THEN Whole(past[i]) ELSE Created,
                                    mtime |-> IF i <= Len(past) THEN Len(past) + 1 - i ELSE 0]]
      /\ clock = Len(past)
      /\ acked = IF past = << >> THEN NoDocument ELSE past[1]
      /\ undo = IF past = << >> THEN << >> ELSE Tail(past)
      /\ runtime = Effective(acked)
      /\ epoch = 1
      /\ page = [p \in Page |-> NewView]
      /\ job = [p \in Page |-> NoJob]
      /\ requests = 0
      /\ unsure = {} /\ broken = FALSE /\ told = {} /\ met = FALSE
    BY DEF Init
<1>2. PICK L : L = Len(past)
    OBVIOUS
<1>3. /\ L \in 0 .. 4 /\ DOMAIN past = 1 .. L /\ past \in Seq(Document)
      /\ \A i \in 1 .. L : past[i] \in Document /\ past[i] # NoDocument
    BY <1>2, PastOf
<1>4. past = << >> <=> L = 0
    BY <1>2, <1>3, EmptySeq
\* The file and the backup with number n are the document n + 1 of the past.
<1>5. ASSUME NEW n \in 0 .. 3
      PROVE  /\ Exists(n) <=> n + 1 <= L
             /\ Exists(n) => /\ At(n) = Whole(past[n + 1])
                             /\ inodes[names[n]].mtime = L - n
    <2>1. n \in Name /\ n + 1 \in Inode
        BY Inodes DEF Name
    <2>2. names[n] = IF n < L THEN n + 1 ELSE 0
        BY <1>1, <1>2, <2>1
    <2>3. Exists(n) <=> n + 1 <= L
        BY <1>3, <2>2 DEF Exists
    <2>4. ASSUME n + 1 <= L
          PROVE  inodes[names[n]].content = Whole(past[n + 1]) /\ inodes[names[n]].mtime = L - n
        <3>1. names[n] = n + 1
            BY <1>3, <2>2, <2>4
        <3>2. inodes[n + 1] = [content |-> Whole(past[n + 1]), mtime |-> L + 1 - (n + 1)]
            BY <1>1, <1>2, <2>1, <2>4
        <3>3. L + 1 - (n + 1) = L - n
            BY <1>3
        <3> QED
            BY <3>1, <3>2, <3>3
    <2> QED
        BY <2>3, <2>4 DEF At
<1>6. Busy = {}
    BY <1>1, NoJobs DEF Busy
<1>7. CASE L = 0
    <2>1. acked = NoDocument /\ undo = << >> /\ clock = 0
        BY <1>1, <1>2, <1>4, <1>7
    <2>2. ~Exists(0) /\ ~Exists(1) /\ ~Exists(2) /\ ~Exists(3)
        BY <1>5, <1>7
    <2>3. Override = Whole(NoDocument) /\ MainTime = 0
        BY <2>2 DEF Override, MainTime, Main
    <2>4. Kept
        BY <2>1, <2>2 DEF Kept, Has
    <2>5. Current /\ Recorded /\ Follows
        BY <1>1, <2>1, <2>2, <2>3, Contents DEF Current, Recorded, Follows, Main
    <2>6. UndoOK
        <3>1. DOMAIN undo = {} /\ Len(undo) = 0
            BY <2>1
        <3> QED
            BY <1>1, <2>1, <3>1 DEF UndoOK, MAX_BACKUPS
    <2>7. TagsOK
        BY <1>1, <2>1 DEF TagsOK, TagOK, NewView, NoETag, ETag
    <2> QED
        BY <1>6, <2>1, <2>3, <2>4, <2>5, <2>6, <2>7, Contents DEF Serially, Rested
<1>8. CASE L # 0
    <2>1. L \in 1 .. 4
        BY <1>3, <1>8
    <2>2. acked = past[1] /\ undo = Tail(past) /\ clock = L /\ acked \in Document /\ acked # NoDocument
        BY <1>1, <1>2, <1>3, <1>4, <2>1
    <2>3. /\ Len(undo) = L - 1 /\ DOMAIN undo = 1 .. L - 1
          /\ \A i \in 1 .. L - 1 : undo[i] = past[i + 1]
        BY <1>2, <1>3, <2>1, <2>2
    <2>4. Exists(Main) /\ At(Main) = Whole(acked) /\ inodes[names[Main]].mtime = L
        BY <1>5, <2>1, <2>2 DEF Main
    <2>5. Override = Whole(acked) /\ MainTime = L
        BY <2>4 DEF Override, MainTime
    <2>6. ASSUME NEW b \in 1 .. 3 PROVE Has(b, b)
        <3>1. b \in 0 .. 3
            OBVIOUS
        <3>2. Exists(b) <=> b \in DOMAIN undo
            BY <1>5, <2>1, <2>3, <3>1
        <3>3. b \in DOMAIN undo => At(b) = Whole(undo[b])
            BY <1>5, <2>1, <2>3, <3>1, <3>2
        <3> QED
            BY <3>2, <3>3 DEF Has
    <2>7. Kept
        BY <2>6 DEF Kept
    <2>8. Current /\ Recorded /\ Follows
        BY <1>1, <2>2, <2>4, <2>5, Contents DEF Current, Recorded, Follows
    <2>9. UndoOK
        <3>1. \A i \in DOMAIN undo : undo[i] # NoDocument
            BY <1>3, <2>1, <2>3
        <3>2. Len(undo) <= MAX_BACKUPS
            BY <2>1, <2>3 DEF MAX_BACKUPS
        <3> QED
            BY <1>1, <2>2, <3>1, <3>2 DEF UndoOK
    <2>10. TagsOK
        BY <1>1, <2>1, <2>2 DEF TagsOK, TagOK, NewView, NoETag, ETag
    <2> QED
        BY <1>6, <2>1, <2>2, <2>5, <2>7, <2>8, <2>9, <2>10, Contents DEF Serially, Rested
<1> QED
    BY <1>7, <1>8

LEMMA SerialStep == IndInv /\ IndInv' /\ SerialInv /\ [Next]_vars => SerialInv'
<1> SUFFICES ASSUME IndInv, IndInv', SerialInv, [Next]_vars, ~met' PROVE Serially'
    BY DEF SerialInv
<1>1. CASE UNCHANGED vars
    <2>1. Serially /\ UNCHANGED <<store, runtime, epoch, job, ghosts, page>>
        BY <1>1 DEF SerialInv, vars, ghosts
    <2>2. Carried(Main, Main) /\ UNCHANGED <<epoch, clock>>
        BY <2>1, StoreCarries, Numbers DEF store
    <2>3. TagsOK'
        <3>1. \A v \in {page[q] : q \in Page} : TagOK(v.etag, v.seen)'
            BY <2>1, <2>2, TagsTyped, TagsStay, ClockStays DEF Serially, TagsOK
        <3> QED
            BY <2>1, <3>1 DEF TagsOK
    <2>4. \A j \in {job[q] : q \in Busy} : Ready(j) => Ready(j)'
        BY <2>1 DEF Ready, store, Exists, At, MainTime
    <2> QED
        BY <2>1, <2>3, <2>4, PageOnly
<1>2. ASSUME NEW p \in Page, PageStep(p) PROVE Serially'
    <2>1. CASE ConfigLoaded(p) \/ StatusLoaded(p)
        <3>1. ~met
            BY <2>1 DEF ConfigLoaded, StatusLoaded, ghosts
        <3> QED
            BY <2>1, <3>1, SerialConfigLoaded, SerialStatusLoaded DEF SerialInv
    <2>2. CASE (\E s \in Section : Put(p, s)) \/ Rollback(p) \/ Reload(p)
        BY <2>2, SerialBegins
    <2> QED
        BY <1>2, <2>1, <2>2 DEF PageStep
<1>3. ASSUME NEW p \in Page, RequestStep(p) PROVE Serially'
    <2>1. met' = met
        BY <1>3 DEF RequestStep, ETagChecked, OverrideRead, BackupRead, Rotated, CopyBegins, CopyEnds,
           NothingToCopy, TmpOpened, TmpWritten, WriteFails, TmpRenamed, Shifted, PutSucceeds,
           RollbackSucceeds, ReloadEnds, RequestFails, ghosts
    <2>2. Serially
        BY <2>1 DEF SerialInv
    <2> QED
        BY <1>3, <2>2, SerialETagChecked, SerialOverrideRead, SerialBackupRead, SerialRotated,
           SerialCopyBegins, SerialCopyEnds, SerialNothingToCopy, SerialTmpOpened, SerialTmpWritten,
           SerialWriteFails, SerialTmpRenamed, SerialShifted, SerialPutSucceeds,
           SerialRollbackSucceeds, SerialReloadEnds, SerialRequestFails DEF RequestStep
<1>4. CASE Restart
    <2>1. Serially
        BY <1>4 DEF Restart, SerialInv
    <2> QED
        BY <1>4, <2>1, SerialRestart
<1> QED
    BY <1>1, <1>2, <1>3, <1>4 DEF Next

THEOREM SerialInvariance == Spec => [](IndInv /\ SerialInv)
<1>1. Init => IndInv /\ SerialInv
    BY TypesInit, SerialInit
<1>2. IndInv /\ SerialInv /\ [Next]_vars => (IndInv /\ SerialInv)'
    BY TypesStep, SerialStep
<1> QED
    BY <1>1, <1>2, PTL DEF Spec

-----------------------------------------------------------------------------
(* What follows. *)

\* A process that is killed anywhere finds a whole file with the document of the last
\* request that was acknowledged, or of one that a crash cut off or that is under way.
THEOREM ConfigSurvives == Spec => []AcknowledgedConfigSurvives
<1>1. IndInv /\ SerialInv => AcknowledgedConfigSurvives
    <2> SUFFICES ASSUME IndInv, Serially
                 PROVE  /\ Override.tag = "whole"
                        /\ Override.doc \in {acked} \cup unsure \cup {job[p].doc : p \in Writing}
        BY DEF SerialInv, AcknowledgedConfigSurvives
    <2>1. CASE Busy = {}
        BY <2>1 DEF Serially, Rested, Current
    <2>2. CASE Busy # {}
        <3>1. PICK p \in Page : p \in Busy /\ job[p].pc # "idle"
            BY <2>2 DEF Busy
        <3>2. StageOK(job[p]) /\ job[p] \in Job
            BY <3>1, OneBusy
        <3>3. job[p].pc \in BeforeRename \cup Placed
            BY <3>1, <3>2 DEF Job, Pc, BeforeRename, Placed
        <3>4. CASE job[p].pc \in BeforeRename
            BY <3>2, <3>4 DEF StageOK, Current, Serially
        <3>5. CASE job[p].pc \in Placed
            <4>1. p \in Writing /\ Override.doc = job[p].doc
                BY <3>1, <3>2, <3>5 DEF StageOK, Writing, Placed
            <4> QED
                BY <4>1 DEF Serially
        <3> QED
            BY <3>3, <3>4, <3>5
    <2> QED
        BY <2>1, <2>2
<1> QED
    BY <1>1, SerialInvariance, PTL

\* While no rotation was cut short, the backups are the documents before the current
\* one, newest first, none twice and none left out.
THEOREM BackupsHoldTheHistory == Spec => []BackupsAreHistory
<1>1. IndInv /\ SerialInv => BackupsAreHistory
    <2> SUFFICES ASSUME IndInv, SerialInv PROVE BackupsAreHistory
        OBVIOUS
    <2>1. ConfigTypeOK
        BY InvImpliesTypes
    <2>2. ASSUME ~met, ~broken, Busy = {}, NEW b \in Bak
          PROVE  IF b <= Len(undo) THEN Readable(b) /\ At(b).doc = undo[b] ELSE ~Exists(b)
        <3>1. Has(b, b)
            BY <2>2 DEF SerialInv, Serially, Rested, Kept, Bak, MAX_BACKUPS
        <3>2. b \in DOMAIN undo <=> b <= Len(undo)
            BY UndoDomain DEF Bak, MAX_BACKUPS
        <3> QED
            BY <3>1, <3>2, Contents DEF Has, Readable
    <2> QED
        BY <2>1, <2>2 DEF BackupsAreHistory
<1> QED
    BY <1>1, SerialInvariance, PTL

\* What runs is what is saved, but for the keys of which a response said that they
\* need a restart.
THEOREM DaemonFollowsTheFile == Spec => []RuntimeFollowsFile
<1>1. IndInv /\ SerialInv => RuntimeFollowsFile
    BY DEF SerialInv, Serially, Rested, Follows, RuntimeFollowsFile
<1> QED
    BY <1>1, SerialInvariance, PTL

\* A save replaces no document other than the one that its page had the tag of.
THEOREM StaleSavesAreRefused == Spec => NoBlindOverwrite
<1>1. ASSUME IndInv, SerialInv, NEW p \in Page, job[p].kind = "put", TmpRenamed(p), ~met
      PROVE  Override.doc = job[p].seen
    <2>1. job[p].pc = "rename" /\ StageOK(job[p])
        BY <1>1, OneBusy DEF TmpRenamed, SerialInv
    <2> QED
        BY <1>1, <2>1 DEF StageOK, BeforeRename
<1>2. IndInv /\ SerialInv /\ [Next]_vars =>
         [\A p \in Page : job[p].kind = "put" /\ TmpRenamed(p) /\ ~met =>
             Override.doc = job[p].seen]_vars
    BY <1>1
<1> QED
    BY <1>2, SerialInvariance, PTL DEF Spec, NoBlindOverwrite

=============================================================================
