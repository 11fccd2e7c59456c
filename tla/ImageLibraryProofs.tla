------------------------- MODULE ImageLibraryProofs -------------------------
(***************************************************************************)
(* What holds of any number of images, rows, snapshots and requests, and   *)
(* what is kept of a name on which requests did not overlap.               *)
(***************************************************************************)
EXTENDS ImageLibrary, FiniteSetTheorems, TLAPS

\* Nothing of a row, of a mount or of a file is half there.
WholeRecords ==
    /\ \A n \in Name : names[n].image = 0 => names[n] = NoFile
    /\ \A f \in Ref : refs[f].name = NoName => refs[f] = NoRef
    /\ \A s \in Snap : rows[s].name = NoName \/ s > snapped => rows[s] = NoRef
    /\ mount.name = NoName => mount = NoMount
    /\ mount.name # NoName => mount.file # NoFile

\* What a request may be at.
RequestOK(j) ==
    /\ j.pc = "idle" => j = NoJob
    /\ j.pc # "idle" => j.from \in Name /\ j.kind # "none"
    /\ j.pc # "idle" /\ j.kind \in {"clone", "rename"} => j.to \in Name /\ j.to # j.from
    /\ j.kind \notin {"clone", "rename"} => j.to = NoName
    /\ j.pc = "record" => j.kind \in {"upload", "snapshot", "rollback", "forget"}
    /\ j.pc \in {"splinters", "overrides"} => j.kind = "delete"
    /\ j.pc = "sync" => j.kind \in {"delete", "rename", "point"}
    /\ j.kind = "point" => j.pc = "sync"

-----------------------------------------------------------------------------
(* The names on which requests did not overlap *)

\* A request has all its names to itself, or none.
Alone ==
    /\ \A r, q \in Req : r # q /\ Subject(r) \cap Subject(q) # {} => Subject(r) \subseteq excused
    /\ \A r \in Req : Subject(r) \cap excused # {} => Subject(r) \subseteq excused

\* No row is at the name, but for a policy that was there first.
Bare(n) ==
    /\ notes[n] = 0 /\ policies[n] \in {0, Orphan}
    /\ \A f \in Ref : refs[f].name # n
    /\ \A s \in Snap : rows[s].name # n

\* What a request that is alone has found out, or done so far.
Stage(r) ==
    LET j == job[r]
    IN /\ j.pc = "act" /\ j.kind = "create" => ~Exists(j.from)
       /\ j.pc = "act" /\ j.kind \in {"clone", "rename"} => ~Exists(j.to)
       /\ j.pc \in {"act", "record"} /\ j.kind \in {"delete", "rename", "rollback"} =>
            mount.name # j.from
       /\ j.pc = "record" /\ j.kind = "upload" /\ j.image = 0 =>
            mount.name # j.from /\ Bare(j.from)
       /\ j.pc = "record" /\ j.kind = "snapshot" =>
            Exists(j.from) /\ j.image = names[j.from].image
       /\ j.pc = "act" /\ j.kind = "rollback" =>
            \A s \in j.snaps : rows[s].name = j.from
       /\ j.pc = "record" /\ j.kind = "rollback" =>
            Exists(j.from) /\ tmps[j.from] = names[j.from].image
       /\ j.pc \in {"splinters", "overrides"} =>
            /\ ~Exists(j.from) /\ notes[j.from] = 0
            /\ \A s \in Snap : rows[s].name # j.from
       /\ j.pc = "overrides" =>
            /\ policies[j.from] = 0
            /\ \A f \in Ref : f = "splinter" => refs[f].name # j.from

Stages == \A r \in Req : Subject(r) \cap excused = {} => Stage(r)

Deleting(n) == \E r \in Req : n \in Subject(r) /\ job[r].pc \in {"splinters", "overrides"}

RowsFollow == \A n \in Name \ excused : Deleting(n) \/ Follows(n)

-----------------------------------------------------------------------------
(* Snapshots, whatever overlaps *)

\* The row of a snapshot and its file are not both there, or both gone.
Between(j) ==
    \/ j.kind = "snapshot" /\ j.pc = "record"
    \/ j.kind = "delete" /\ j.pc = "splinters"
    \/ j.kind = "forget" /\ j.pc = "record"

SnapsOK ==
    /\ \A r \in Req : \A s \in job[r].snaps :
         LET j == job[r]
         IN /\ s <= snapped
            /\ j.kind = "snapshot" =>
                 /\ rows[s] = NoRef /\ s \in blobs
                 /\ \A q \in Req : q # r => s \notin job[q].snaps
            /\ j.kind = "delete" => rows[s] = NoRef
            /\ j.kind = "forget" /\ j.pc = "record" => s \notin blobs
            /\ j.kind \in {"forget", "rollback"} => rows[s].name \in {j.from, NoName} \cup excused
    /\ \A s \in 1 .. snapped :
         (\A r \in Req : s \in job[r].snaps => ~Between(job[r])) => (rows[s] # NoRef <=> s \in blobs)

-----------------------------------------------------------------------------
(* The session of the client *)

SessionOK ==
    "client" \in Ref /\ (\A r \in Req : job[r].pc # "sync") =>
      LET n == refs["client"].name
      IN /\ n = NoName => session = NoFile
         /\ n # NoName /\ n \notin excused => Deleting(n) \/ session.image = names[n].image

IndInv ==
    /\ LibraryTypeOK /\ WholeRecords
    /\ \A r \in Req : RequestOK(job[r])
    /\ Alone /\ Stages /\ RowsFollow /\ MountedImageStays
    /\ SnapsOK /\ SessionOK

-----------------------------------------------------------------------------
(* The steps *)

\* A request begins, about names and snapshots that suit it.
Begins(r, kind, from, to, snaps) ==
    /\ kind \in Kind \ {"point"} /\ from \in Name /\ snaps \subseteq Snap
    /\ IF kind \in {"clone", "rename"} THEN to \in Name \ {from} /\ ~Exists(to) ELSE to = NoName
    /\ kind = "create" => ~Exists(from)
    /\ kind \in {"delete", "rename", "rollback"} => mount.name # from
    /\ snaps # {} => kind \in {"rollback", "forget"}
    /\ \A s \in snaps : rows[s].name = from
    /\ Asks(r, kind, from, to, snaps)

\* What may happen next, a request's beginning as one case.
LEMMA NextCases ==
    ASSUME Next
    PROVE  \/ \E r \in Req, kind \in Kind, from \in Name, to \in Name \cup {NoName},
                 snaps \in SUBSET Snap : Begins(r, kind, from, to, snaps)
           \/ \E r \in Req, f \in Ref, n \in Name : Point(r, f, n)
           \/ \E r \in Req, f \in Ref : Unpoint(r, f)
           \/ \E r \in Req : RequestStep(r)
           \/ \E n \in Name : SetNote(n) \/ SetPolicy(n)
           \/ Unmount
  <1> USE DEF Begins, Kind
  <1>1. ASSUME NEW r \in Req, NewRequest(r)
        PROVE  \/ \E kind \in Kind, from \in Name, to \in Name \cup {NoName},
                     snaps \in SUBSET Snap : Begins(r, kind, from, to, snaps)
               \/ \E f \in Ref, n \in Name : Point(r, f, n)
               \/ \E f \in Ref : Unpoint(r, f)
    <2>1. PICK n \in Name :
            \/ Create(r, n) \/ Upload(r, n)
            \/ \E m \in Name : Clone(r, n, m) \/ Rename(r, n, m)
            \/ Format(r, n) \/ Mount(r, n) \/ Delete(r, n)
            \/ \E f \in Ref : Point(r, f, n) \/ Unpoint(r, f)
            \/ Snapshot(r, n)
            \/ \E s \in Snap : Rollback(r, n, s) \/ Forget(r, n, s)
      BY <1>1, Zenon DEF NewRequest
    <2>2. CASE Create(r, n)
      <3>1. Begins(r, "create", n, NoName, {})
        BY <2>2 DEF Create, Taken
      <3> QED  BY <3>1
    <2>3. CASE Upload(r, n)
      <3>1. Begins(r, "upload", n, NoName, {})
        BY <2>3 DEF Upload
      <3> QED  BY <3>1
    <2>4. ASSUME NEW m \in Name, Clone(r, n, m) PROVE Begins(r, "clone", n, m, {})
      BY <2>4 DEF Clone, Taken
    <2>5. ASSUME NEW m \in Name, Rename(r, n, m) PROVE Begins(r, "rename", n, m, {})
      BY <2>5 DEF Rename, Taken, Mounted
    <2>6. CASE Format(r, n)
      <3>1. Begins(r, "format", n, NoName, {})
        BY <2>6 DEF Format
      <3> QED  BY <3>1
    <2>7. CASE Mount(r, n)
      <3>1. Begins(r, "mount", n, NoName, {})
        BY <2>7 DEF Mount
      <3> QED  BY <3>1
    <2>8. CASE Delete(r, n)
      <3>1. Begins(r, "delete", n, NoName, {})
        BY <2>8 DEF Delete, Mounted
      <3> QED  BY <3>1
    <2>9. CASE Snapshot(r, n)
      <3>1. Begins(r, "snapshot", n, NoName, {})
        BY <2>9 DEF Snapshot
      <3> QED  BY <3>1
    <2>10. ASSUME NEW s \in Snap, Rollback(r, n, s) PROVE Begins(r, "rollback", n, NoName, {s})
      BY <2>10 DEF Rollback, Mounted, SnapshotsOf
    <2>11. ASSUME NEW s \in Snap, Forget(r, n, s) PROVE Begins(r, "forget", n, NoName, {s})
      BY <2>11 DEF Forget, SnapshotsOf
    <2>12. ASSUME NEW m \in Name, Clone(r, n, m) \/ Rename(r, n, m)
           PROVE  \E kind \in Kind, from \in Name, to \in Name \cup {NoName},
                     snaps \in SUBSET Snap : Begins(r, kind, from, to, snaps)
      BY <2>4, <2>5, <2>12
    <2>13. ASSUME NEW s \in Snap, Rollback(r, n, s) \/ Forget(r, n, s)
           PROVE  \E kind \in Kind, from \in Name, to \in Name \cup {NoName},
                     snaps \in SUBSET Snap : Begins(r, kind, from, to, snaps)
      <3>1. {s} \in SUBSET Snap
        OBVIOUS
      <3> QED  BY <2>10, <2>11, <2>13, <3>1
    <2> HIDE DEF Begins, Kind
    <2> QED  BY <2>1, <2>2, <2>3, <2>6, <2>7, <2>8, <2>9, <2>12, <2>13, Zenon
  <1> HIDE DEF Begins, Kind
  <1> QED  BY <1>1, Zenon DEF Next

-----------------------------------------------------------------------------
(* The types *)

Types == LibraryTypeOK /\ WholeRecords /\ \A r \in Req : RequestOK(job[r])

FilesOK ==
    /\ names \in [Name -> File] /\ tmps \in [Name -> 0 .. MaxImages]
    /\ made \in 0 .. MaxImages
    /\ \A n \in Name : names[n].image = 0 => names[n] = NoFile
TablesOK ==
    /\ notes \in [Name -> 0 .. Orphan] /\ policies \in [Name -> 0 .. Orphan]
    /\ refs \in [Ref -> [name : Name \cup {NoName}, image : 0 .. MaxImages]]
    /\ \A f \in Ref : refs[f].name = NoName => refs[f] = NoRef
RowsOK ==
    /\ rows \in [Snap -> [name : Name \cup {NoName}, image : 0 .. MaxImages]]
    /\ blobs \subseteq 1 .. snapped /\ snapped \in 0 .. MaxSnaps
    /\ \A s \in Snap : rows[s].name = NoName \/ s > snapped => rows[s] = NoRef
DrivesOK ==
    /\ mount \in [name : Name \cup {NoName}, file : File] /\ session \in File
    /\ mount.name = NoName => mount = NoMount
    /\ mount.name # NoName => mount.file # NoFile
JobsOK ==
    /\ job \in [Req -> Job]
    /\ \A r \in Req : RequestOK(job[r])
    /\ requests \in 0 .. MaxRequests
    /\ excused \subseteq Name

LEMMA TypesInParts ==
    /\ Types <=> FilesOK /\ TablesOK /\ RowsOK /\ DrivesOK /\ JobsOK
    /\ Types' <=> FilesOK' /\ TablesOK' /\ RowsOK' /\ DrivesOK' /\ JobsOK'
  BY Zenon DEF Types, LibraryTypeOK, WholeRecords, FilesOK, TablesOK, RowsOK, DrivesOK, JobsOK

\* What a step leaves alone keeps its type.
LEMMA TypesFrame ==
    /\ FilesOK /\ UNCHANGED files => FilesOK'
    /\ TablesOK /\ UNCHANGED <<notes, policies, refs>> => TablesOK'
    /\ RowsOK /\ UNCHANGED <<rows, blobs, snapped>> => RowsOK'
    /\ DrivesOK /\ UNCHANGED drives => DrivesOK'
    /\ JobsOK /\ UNCHANGED <<job, requests, excused>> => JobsOK'
  <1>1. FilesOK /\ UNCHANGED files => FilesOK'
    BY DEF FilesOK, files
  <1>2. TablesOK /\ UNCHANGED <<notes, policies, refs>> => TablesOK'
    BY DEF TablesOK
  <1>3. RowsOK /\ UNCHANGED <<rows, blobs, snapped>> => RowsOK'
    BY DEF RowsOK
  <1>4. DrivesOK /\ UNCHANGED drives => DrivesOK'
    BY DEF DrivesOK, drives
  <1>5. JobsOK /\ UNCHANGED <<job, requests, excused>> => JobsOK'
    BY DEF JobsOK
  <1> QED  BY <1>1, <1>2, <1>3, <1>4, <1>5

\* The record of one request is replaced.
LEMMA JobReplaced ==
    ASSUME JobsOK, NEW r \in Req, NEW j \in Job, RequestOK(j),
           job' = [job EXCEPT ![r] = j],
           requests' \in 0 .. MaxRequests, excused' \subseteq Name
    PROVE  JobsOK'
  BY DEF JobsOK

LEMMA NoJobOK == NoJob \in Job /\ RequestOK(NoJob)
  BY ConstantsAssumption DEF NoJob, Job, Pc, RequestOK

\* A request goes on, is done, or moves to its next part.
LEMMA JobMoves ==
    ASSUME JobsOK, NEW r \in Req, requests' = requests, excused' \subseteq Name
    PROVE  /\ Finish(r) => JobsOK'
           /\ \A pc \in Pc : Goto(r, pc) /\ RequestOK([job[r] EXCEPT !.pc = pc]) => JobsOK'
  <1>1. requests' \in 0 .. MaxRequests
    BY DEF JobsOK
  <1>2. ASSUME Finish(r) PROVE JobsOK'
    BY <1>1, <1>2, NoJobOK, JobReplaced DEF Finish
  <1>3. ASSUME NEW pc \in Pc, Goto(r, pc), RequestOK([job[r] EXCEPT !.pc = pc]) PROVE JobsOK'
    <2>1. [job[r] EXCEPT !.pc = pc] \in Job
      BY DEF JobsOK, Job
    <2>2. job' = [job EXCEPT ![r] = [job[r] EXCEPT !.pc = pc]]
      BY <1>3 DEF Goto, JobsOK
    <2> QED  BY <1>1, <1>3, <2>1, <2>2, JobReplaced
  <1> QED  BY <1>2, <1>3

\* Write leaves a file under the name, and changes no other.
LEMMA WriteOK ==
    ASSUME FilesOK, NEW n \in Name, Write(n), tmps' = tmps
    PROVE  /\ FilesOK'
           /\ names' = [names EXCEPT ![n] = names'[n]]
           /\ names'[n] \in File /\ names'[n] # NoFile
           /\ Exists(n) => names' = names
  <1> USE ConstantsAssumption
  <1>1. /\ names[n] \in File /\ made \in 0 .. MaxImages /\ made' <= MaxImages
        /\ made' = IF Exists(n) THEN made ELSE made + 1
        /\ names' = [names EXCEPT ![n] = Opened(n)]
    BY DEF FilesOK, Write
  <1>2. Opened(n) \in File /\ Opened(n) # NoFile /\ Opened(n).image # 0 /\ made' \in 0 .. MaxImages
    BY <1>1 DEF Opened, File, NoFile, Exists, FilesOK
  <1>3. Exists(n) => names' = names
    BY <1>1 DEF Opened, FilesOK
  <1>4. names'[n] = Opened(n) /\ \A m \in Name : m # n => names'[m] = names[m]
    BY <1>1 DEF FilesOK
  <1>5. names' \in [Name -> File]
    BY <1>1, <1>2 DEF FilesOK
  <1>6. FilesOK'
    BY <1>2, <1>4, <1>5 DEF FilesOK
  <1>7. names' = [names EXCEPT ![n] = names'[n]]
    BY <1>1, <1>4
  <1> QED  BY <1>2, <1>3, <1>4, <1>6, <1>7

\* Nothing is done for want of the file.
LEMMA FailsOK ==
    ASSUME Types, NEW r \in Req, NEW n \in Name, FailsWithout(r, n) PROVE Types'
  <1>1. FilesOK /\ TablesOK /\ RowsOK /\ DrivesOK /\ JobsOK
    BY TypesInParts
  <1>2. /\ Finish(r) /\ UNCHANGED requests /\ UNCHANGED excused
        /\ UNCHANGED files /\ UNCHANGED <<notes, policies, refs>>
        /\ UNCHANGED <<rows, blobs, snapped>> /\ UNCHANGED drives
    BY DEF FailsWithout, tables, snapshots
  <1>3. JobsOK'
    BY <1>1, <1>2, JobMoves DEF JobsOK
  <1> QED  BY <1>1, <1>2, <1>3, TypesFrame, TypesInParts

\* Met names only names.
LEMMA MetNames ==
    ASSUME JobsOK, NEW ns \in SUBSET Name PROVE Met(ns) \subseteq Name
  <1>1. \A r \in Req : Subject(r) \subseteq Name
    BY DEF JobsOK, Job, Subject
  <1>2. UNION {Subject(r) : r \in {q \in Req : Subject(q) \cap ns # {}}} \subseteq Name
    BY <1>1
  <1> QED  BY <1>2 DEF Met, JobsOK

LEMMA BeginsTypes ==
    ASSUME Types, NEW r \in Req, NEW kind \in Kind, NEW from \in Name,
           NEW to \in Name \cup {NoName}, NEW snaps \in SUBSET Snap,
           Begins(r, kind, from, to, snaps)
    PROVE  Types'
  <1> USE ConstantsAssumption
  <1>1. FilesOK /\ TablesOK /\ RowsOK /\ DrivesOK /\ JobsOK
    BY TypesInParts
  <1>2. /\ requests < MaxRequests /\ requests' = requests + 1
        /\ excused' = Met({from, to} \ {NoName})
        /\ job' = [job EXCEPT ![r] = [NoJob EXCEPT !.pc = "act", !.kind = kind, !.from = from,
                                               !.to = to, !.snaps = snaps]]
        /\ UNCHANGED files /\ UNCHANGED <<notes, policies, refs>>
        /\ UNCHANGED <<rows, blobs, snapped>> /\ UNCHANGED drives
    BY DEF Begins, Asks, tables, snapshots
  <1>3. /\ kind \in Kind \ {"point"}
        /\ IF kind \in {"clone", "rename"} THEN to \in Name \ {from} ELSE to = NoName
    BY DEF Begins
  <1>4. PICK j : j = [NoJob EXCEPT !.pc = "act", !.kind = kind, !.from = from, !.to = to,
                                   !.snaps = snaps]
    OBVIOUS
  <1>5. j = [pc |-> "act", kind |-> kind, from |-> from, to |-> to, snaps |-> snaps, image |-> 0]
    BY <1>4 DEF NoJob
  <1>6. j \in Job
    BY <1>5 DEF Job, Pc
  <1>7. RequestOK(j)
    BY <1>3, <1>5 DEF RequestOK, Kind
  <1>8. excused' \subseteq Name
    BY <1>1, <1>2, MetNames
  <1>9. requests' \in 0 .. MaxRequests
    BY <1>1, <1>2 DEF JobsOK
  <1>10. JobsOK'
    BY <1>1, <1>2, <1>4, <1>6, <1>7, <1>8, <1>9, JobReplaced
  <1> QED  BY <1>1, <1>2, <1>10, TypesFrame, TypesInParts

LEMMA ToldTypes ==
    ASSUME Types, TablesOK', NEW r \in Req, NEW f \in Ref, NEW n \in Name, Told(r, f, n)
    PROVE  Types'
  <1> USE ConstantsAssumption
  <1>1. FilesOK /\ TablesOK /\ RowsOK /\ DrivesOK /\ JobsOK
    BY TypesInParts
  <1>2. /\ UNCHANGED files /\ UNCHANGED <<rows, blobs, snapped>> /\ UNCHANGED drives
        /\ excused' = Met({n})
    BY DEF Told, snapshots
  <1>3. excused' \subseteq Name
    BY <1>1, <1>2, MetNames
  <1>4. CASE f # "client"
    <2>1. UNCHANGED <<job, requests>>
      BY <1>4 DEF Told
    <2> QED  BY <1>1, <1>2, <1>3, <2>1, TypesFrame, TypesInParts DEF JobsOK
  <1>5. CASE f = "client"
    <2>1. PICK j : j = [NoJob EXCEPT !.pc = "sync", !.kind = "point", !.from = n]
      OBVIOUS
    <2>2. j = [pc |-> "sync", kind |-> "point", from |-> n, to |-> NoName, snaps |-> {},
               image |-> 0]
      BY <2>1 DEF NoJob
    <2>3. j \in Job /\ RequestOK(j)
      BY <2>2 DEF Job, Pc, RequestOK, Kind
    <2>4. job' = [job EXCEPT ![r] = j] /\ requests' \in 0 .. MaxRequests
      BY <1>1, <1>5, <2>1 DEF Told, JobsOK
    <2>5. JobsOK'
      BY <1>1, <1>3, <2>3, <2>4, JobReplaced
    <2> QED  BY <1>1, <1>2, <2>5, TypesFrame, TypesInParts
  <1> QED  BY <1>4, <1>5

\* Where a request is when it takes a step, and what it is about.
LEMMA AboutNames ==
    ASSUME Types, NEW r \in Req, job[r].pc # "idle"
    PROVE  /\ job[r].from \in Name /\ job[r] \in Job /\ RequestOK(job[r])
           /\ job[r].kind \in {"clone", "rename"} => job[r].to \in Name /\ job[r].to # job[r].from
  BY DEF Types, LibraryTypeOK, RequestOK

LEMMA RequestTypes ==
    ASSUME Types, SnapsOK, NEW r \in Req, RequestStep(r) PROVE Types'
  <1> USE ConstantsAssumption
  <1> DEFINE n == job[r].from
  <1>1. FilesOK /\ TablesOK /\ RowsOK /\ DrivesOK /\ JobsOK
    BY TypesInParts
  <1>2. job[r].pc # "idle"
    BY DEF RequestStep, Created, Uploaded, Inspected, Formatted, Opens, Unlinked, SnapshotsGone,
           SplintersGone, Sync, Renamed, SnapshotCopied, SnapshotRecorded, RollbackCopied,
           RolledBack, BlobForgotten, RowForgotten, Acts
  <1>3. /\ job[r].from \in Name /\ job[r] \in Job /\ RequestOK(job[r])
        /\ job[r].kind \in {"clone", "rename"} => job[r].to \in Name /\ job[r].to # job[r].from
    BY <1>2, AboutNames
  <1>4. excused \subseteq Name /\ requests \in 0 .. MaxRequests
    BY <1>1 DEF JobsOK
  <1>5. CASE Created(r)
    <2>1. CASE FailsWithout(r, n)
      BY <1>3, <2>1, FailsOK
    <2>2. CASE ~FailsWithout(r, n)
      <3>1. PICK m \in Name : Write(m)
        BY <1>3, <1>5, <2>2 DEF Created, Acts
      <3>2. /\ Finish(r) /\ UNCHANGED <<requests, excused>> /\ tmps' = tmps
            /\ UNCHANGED <<notes, policies, refs>>
            /\ UNCHANGED <<rows, blobs, snapped>> /\ UNCHANGED drives
        BY <1>5, <2>2 DEF Created, tables, snapshots
      <3>3. FilesOK'
        BY <1>1, <3>1, <3>2, WriteOK
      <3>4. JobsOK'
        BY <1>1, <1>4, <3>2, JobMoves
      <3> QED  BY <1>1, <3>2, <3>3, <3>4, TypesFrame, TypesInParts
    <2> QED  BY <2>1, <2>2
  <1>6. CASE Uploaded(r)
    <2>1. /\ Write(n) /\ UNCHANGED <<requests, excused>> /\ tmps' = tmps
          /\ UNCHANGED <<notes, policies, refs>>
          /\ UNCHANGED <<rows, blobs, snapped>> /\ UNCHANGED drives
      BY <1>6 DEF Uploaded, tables, snapshots
    <2>2. FilesOK'
      BY <1>1, <1>3, <2>1, WriteOK
    <2>3. PICK j : j = [job[r] EXCEPT !.pc = "record", !.image = names[n].image]
      OBVIOUS
    <2>4. j \in Job /\ RequestOK(j)
      BY <1>1, <1>3, <1>6, <2>3 DEF Uploaded, Acts, Job, Pc, RequestOK, FilesOK, File
    <2>5. job' = [job EXCEPT ![r] = j]
      BY <1>1, <1>6, <2>3 DEF Uploaded, JobsOK
    <2>6. JobsOK'
      BY <1>1, <1>4, <2>1, <2>4, <2>5, JobReplaced
    <2> QED  BY <1>1, <2>1, <2>2, <2>6, TypesFrame, TypesInParts
  <1>7. CASE Inspected(r)
    <2>1. /\ Finish(r) /\ UNCHANGED requests /\ UNCHANGED <<notes, policies, refs>>
          /\ UNCHANGED <<rows, blobs, snapped>> /\ UNCHANGED drives
          /\ UNCHANGED <<tmps, made>>
      BY <1>7 DEF Inspected, tables, snapshots
    <2>2. excused' \subseteq Name /\ (names' = names \/ names' = [names EXCEPT ![n] = NoFile])
      BY <1>3, <1>4, <1>7 DEF Inspected
    <2>3. FilesOK'
      BY <1>1, <2>1, <2>2 DEF FilesOK, NoFile, File
    <2>4. JobsOK'
      BY <1>1, <2>1, <2>2, JobMoves
    <2> QED  BY <1>1, <2>1, <2>3, <2>4, TypesFrame, TypesInParts
  <1>8. CASE Formatted(r)
    <2>1. /\ Finish(r) /\ UNCHANGED <<requests, excused>> /\ tmps' = tmps /\ Write(n)
          /\ UNCHANGED <<notes, policies, refs>>
          /\ UNCHANGED <<rows, blobs, snapped>> /\ UNCHANGED drives
      BY <1>8 DEF Formatted, tables, snapshots
    <2>2. FilesOK'
      BY <1>1, <1>3, <2>1, WriteOK
    <2>3. JobsOK'
      BY <1>1, <1>4, <2>1, JobMoves
    <2> QED  BY <1>1, <2>1, <2>2, <2>3, TypesFrame, TypesInParts
  <1>9. CASE Opens(r)
    <2>1. CASE ~Exists(n)
      BY <1>3, <1>9, <2>1, FailsOK DEF Opens
    <2>2. CASE Exists(n)
      <3>1. /\ mount' = [name |-> n, file |-> names[n]] /\ session' = session
            /\ Finish(r) /\ UNCHANGED <<requests, excused>> /\ UNCHANGED files
            /\ UNCHANGED <<notes, policies, refs>> /\ UNCHANGED <<rows, blobs, snapped>>
        BY <1>9, <2>2 DEF Opens, tables, snapshots
      <3>2. DrivesOK'
        BY <1>1, <1>3, <2>2, <3>1 DEF DrivesOK, Exists, FilesOK, NoMount
      <3>3. JobsOK'
        BY <1>1, <1>4, <3>1, JobMoves
      <3> QED  BY <1>1, <3>1, <3>2, <3>3, TypesFrame, TypesInParts
    <2> QED  BY <2>1, <2>2
  <1>10. CASE Unlinked(r)
    <2>1. CASE ~Exists(n)
      BY <1>3, <1>10, <2>1, FailsOK DEF Unlinked
    <2>2. CASE Exists(n)
      <3>1. PICK gone \in SUBSET Snap : gone = Forgotten(n)
        BY DEF Forgotten, SnapshotsOf
      <3>2. PICK j : j = [job[r] EXCEPT !.pc = "splinters", !.snaps = gone]
        OBVIOUS
      <3>3. /\ names' = [names EXCEPT ![n] = NoFile] /\ notes' = [notes EXCEPT ![n] = 0]
            /\ rows' = [s \in Snap |-> IF s \in gone THEN NoRef ELSE rows[s]]
            /\ job' = [job EXCEPT ![r].pc = "splinters", ![r].snaps = gone]
            /\ UNCHANGED <<tmps, made, policies, refs>> /\ UNCHANGED <<blobs, snapped>>
            /\ UNCHANGED drives /\ UNCHANGED <<requests, excused>>
        BY <1>10, <2>2, <3>1 DEF Unlinked, snapshots
      <3>4. FilesOK' /\ TablesOK'
        BY <1>1, <1>3, <3>3 DEF FilesOK, TablesOK, NoFile, File, Orphan
      <3>5. RowsOK'
        BY <1>1, <3>3 DEF RowsOK, NoRef
      <3>6. j \in Job /\ RequestOK(j)
        BY <1>3, <1>10, <3>2 DEF Unlinked, Acts, Job, Pc, RequestOK
      <3>7. job' = [job EXCEPT ![r] = j]
        BY <1>1, <3>2, <3>3 DEF JobsOK
      <3>8. JobsOK'
        BY <1>1, <1>4, <3>3, <3>6, <3>7, JobReplaced
      <3> QED  BY <1>1, <3>3, <3>4, <3>5, <3>8, TypesFrame, TypesInParts
    <2> QED  BY <2>1, <2>2
  <1>11. CASE SnapshotsGone(r)
    <2>1. /\ blobs' = blobs \ job[r].snaps /\ policies' = [policies EXCEPT ![n] = 0]
          /\ refs' = [f \in Ref |-> IF f = "splinter" /\ refs[f].name = n THEN NoRef ELSE refs[f]]
          /\ Goto(r, "overrides") /\ UNCHANGED files /\ UNCHANGED <<notes, rows, snapped>>
          /\ UNCHANGED drives /\ UNCHANGED <<requests, excused>>
      BY <1>11 DEF SnapshotsGone
    <2>2. policies' \in [Name -> 0 .. Orphan]
      BY <1>1, <1>3, <2>1 DEF TablesOK, Orphan
    <2>5. refs' \in [Ref -> [name : Name \cup {NoName}, image : 0 .. MaxImages]]
      BY <1>1, <2>1 DEF TablesOK, NoRef
    <2>6. TablesOK'
      BY <1>1, <2>1, <2>2, <2>5 DEF TablesOK
    <2>7. RowsOK'
      BY <1>1, <2>1 DEF RowsOK
    <2>3. RequestOK([job[r] EXCEPT !.pc = "overrides"])
      BY <1>3, <1>11 DEF SnapshotsGone, RequestOK, Job
    <2>4. JobsOK'
      BY <1>1, <1>4, <2>1, <2>3, JobMoves DEF Pc
    <2> QED  BY <1>1, <2>1, <2>4, <2>6, <2>7, TypesFrame, TypesInParts
  <1>12. CASE SplintersGone(r)
    <2>1. /\ refs' = [f \in Ref |-> IF f # "splinter" /\ refs[f].name = n THEN NoRef ELSE refs[f]]
          /\ Goto(r, "sync") /\ UNCHANGED files /\ UNCHANGED <<notes, policies>>
          /\ UNCHANGED <<rows, blobs, snapped>>
          /\ UNCHANGED drives /\ UNCHANGED <<requests, excused>>
      BY <1>12 DEF SplintersGone, snapshots
    <2>2. TablesOK'
      BY <1>1, <2>1 DEF TablesOK, NoRef
    <2>3. RequestOK([job[r] EXCEPT !.pc = "sync"])
      BY <1>3, <1>12 DEF SplintersGone, RequestOK, Job
    <2>4. JobsOK'
      BY <1>1, <1>4, <2>1, <2>3, JobMoves DEF Pc
    <2> QED  BY <1>1, <2>1, <2>2, <2>4, TypesFrame, TypesInParts
  <1>13. CASE Sync(r)
    <2>1. /\ session' = Synced /\ mount' = mount /\ Finish(r) /\ UNCHANGED files
          /\ UNCHANGED <<notes, policies, refs>> /\ UNCHANGED <<rows, blobs, snapped>>
          /\ UNCHANGED <<requests, excused>>
      BY <1>13 DEF Sync, tables, snapshots
    <2>2. Synced \in File
      BY <1>1 DEF Synced, FilesOK, TablesOK, NoFile, File
    <2>3. DrivesOK'
      BY <1>1, <2>1, <2>2 DEF DrivesOK
    <2>4. JobsOK'
      BY <1>1, <1>4, <2>1, JobMoves
    <2> QED  BY <1>1, <2>1, <2>3, <2>4, TypesFrame, TypesInParts
  <1>14. CASE Renamed(r)
    <2>1. CASE ~Exists(n)
      BY <1>3, <1>14, <2>1, FailsOK DEF Renamed
    <2>2. CASE Exists(n)
      <3>1. PICK to \in Name : to = job[r].to
        BY <1>3, <1>14 DEF Renamed, Acts
      <3>2. /\ names' = [names EXCEPT ![to] = names[n], ![n] = NoFile]
            /\ notes' = notes \/ notes' = MovedKey(notes, n, to)
            /\ rows' = rows \/ rows' = [x \in DOMAIN rows |-> Moved(rows[x], n, to)]
            /\ policies' = policies \/ policies' = MovedKey(policies, n, to)
            /\ refs' = refs \/ refs' = [x \in DOMAIN refs |-> Moved(refs[x], n, to)]
            /\ Goto(r, "sync") \/ Finish(r)
            /\ excused' \in {excused, excused \cup {n, to}}
            /\ UNCHANGED <<tmps, made, requests>> /\ UNCHANGED <<blobs, snapped>>
            /\ UNCHANGED drives
        BY <1>14, <2>2, <3>1 DEF Renamed, snapshots
      <3>3. FilesOK'
        BY <1>1, <1>3, <3>1, <3>2 DEF FilesOK, NoFile, File
      <3>4. notes' \in [Name -> 0 .. Orphan] /\ policies' \in [Name -> 0 .. Orphan]
        BY <1>1, <1>3, <3>1, <3>2 DEF MovedKey, TablesOK, Orphan
      <3>5. refs' \in [Ref -> [name : Name \cup {NoName}, image : 0 .. MaxImages]]
        BY <1>1, <1>3, <3>1, <3>2 DEF Moved, TablesOK
      <3>6. \A f \in Ref : refs'[f].name = NoName => refs'[f] = NoRef
        BY <1>1, <1>3, <3>1, <3>2 DEF Moved, TablesOK
      <3>7. TablesOK'
        BY <3>4, <3>5, <3>6 DEF TablesOK
      <3>8. rows' \in [Snap -> [name : Name \cup {NoName}, image : 0 .. MaxImages]]
        BY <1>1, <1>3, <3>1, <3>2 DEF Moved, RowsOK
      <3>9. \A s \in Snap : rows'[s].name = NoName \/ s > snapped => rows'[s] = NoRef
        BY <1>1, <1>3, <3>1, <3>2 DEF Moved, RowsOK, NoRef
      <3>10. RowsOK'
        BY <1>1, <3>2, <3>8, <3>9 DEF RowsOK
      <3>11. RequestOK([job[r] EXCEPT !.pc = "sync"])
        BY <1>3, <1>14 DEF Renamed, Acts, RequestOK, Job
      <3>12. excused' \subseteq Name
        BY <1>3, <1>4, <3>1, <3>2
      <3>13. JobsOK'
        BY <1>1, <3>2, <3>11, <3>12, JobMoves DEF Pc
      <3> QED  BY <1>1, <3>2, <3>3, <3>7, <3>10, <3>13, TypesFrame, TypesInParts
    <2> QED  BY <2>1, <2>2
  <1>15. CASE SnapshotCopied(r)
    <2>1. CASE ~Exists(n)
      BY <1>3, <1>15, <2>1, FailsOK DEF SnapshotCopied
    <2>2. CASE Exists(n)
      <3>1. PICK j : j = [job[r] EXCEPT !.pc = "record", !.snaps = {snapped + 1},
                                        !.image = names[n].image]
        OBVIOUS
      <3>2. /\ snapped < MaxSnaps /\ snapped' = snapped + 1 /\ blobs' = blobs \cup {snapped + 1}
            /\ job' = [job EXCEPT ![r].pc = "record", ![r].snaps = {snapped + 1},
                                  ![r].image = names[n].image]
            /\ UNCHANGED files /\ UNCHANGED rows /\ UNCHANGED <<notes, policies, refs>>
            /\ UNCHANGED drives /\ UNCHANGED <<requests, excused>>
        BY <1>15, <2>2 DEF SnapshotCopied, Copied, tables
      <3>7. snapped' \in 0 .. MaxSnaps /\ snapped' \in Snap /\ blobs' \subseteq 1 .. snapped'
        BY <1>1, <3>2 DEF RowsOK, Snap
      <3>3. RowsOK'
        BY <1>1, <3>2, <3>7 DEF RowsOK, Snap
      <3>8. job[r].kind = "snapshot" /\ names[n].image \in 0 .. MaxImages
        BY <1>1, <1>3, <1>15 DEF SnapshotCopied, Acts, FilesOK, File
      <3>9. j \in Job
        BY <1>3, <3>1, <3>2, <3>7, <3>8 DEF Job, Pc
      <3>10. RequestOK(j)
        BY <1>3, <3>1, <3>8 DEF Job, RequestOK
      <3>4. j \in Job /\ RequestOK(j)
        BY <3>9, <3>10
      <3>5. job' = [job EXCEPT ![r] = j]
        BY <1>1, <3>1, <3>2 DEF JobsOK
      <3>6. JobsOK'
        BY <1>1, <1>4, <3>2, <3>4, <3>5, JobReplaced
      <3> QED  BY <1>1, <3>2, <3>3, <3>6, TypesFrame, TypesInParts
    <2> QED  BY <2>1, <2>2
  <1>16. CASE SnapshotRecorded(r)
    <2>1. /\ rows' = [s \in Snap |-> IF s \in job[r].snaps
                                     THEN [name |-> n, image |-> job[r].image] ELSE rows[s]]
          /\ Finish(r) /\ UNCHANGED files /\ UNCHANGED <<notes, policies, refs>>
          /\ UNCHANGED <<blobs, snapped>> /\ UNCHANGED drives /\ UNCHANGED <<requests, excused>>
      BY <1>16 DEF SnapshotRecorded, snapshots
    <2>2. \A s \in job[r].snaps : s <= snapped
      BY DEF SnapsOK
    <2>3. rows' \in [Snap -> [name : Name \cup {NoName}, image : 0 .. MaxImages]]
      BY <1>1, <1>3, <2>1 DEF RowsOK, Job
    <2>4. \A s \in Snap : rows'[s].name = NoName \/ s > snapped => rows'[s] = NoRef
      BY <1>1, <1>3, <2>1, <2>2 DEF RowsOK, Snap
    <2>5. RowsOK'
      BY <1>1, <2>1, <2>3, <2>4 DEF RowsOK
    <2>6. JobsOK'
      BY <1>1, <1>4, <2>1, JobMoves
    <2> QED  BY <1>1, <2>1, <2>5, <2>6, TypesFrame, TypesInParts
  <1>17. CASE RollbackCopied(r)
    <2>1. PICK s \in job[r].snaps :
            IF s \in blobs
            THEN /\ tmps' = [tmps EXCEPT ![n] = rows[s].image]
                 /\ job' = [job EXCEPT ![r].pc = "record"]
            ELSE Finish(r) /\ UNCHANGED tmps
      BY <1>17 DEF RollbackCopied
    <2>2. /\ UNCHANGED <<names, made>> /\ UNCHANGED <<notes, policies, refs>>
          /\ UNCHANGED <<rows, blobs, snapped>> /\ UNCHANGED drives
          /\ UNCHANGED <<requests, excused>>
      BY <1>17 DEF RollbackCopied, tables, snapshots
    <2>3. s \in Snap
      BY <1>3 DEF Job
    <2>4. FilesOK'
      BY <1>1, <1>3, <2>1, <2>2, <2>3 DEF FilesOK, RowsOK
    <2>5. RequestOK([job[r] EXCEPT !.pc = "record"])
      BY <1>3, <1>17 DEF RollbackCopied, Acts, RequestOK, Job
    <2>6. Goto(r, "record") \/ Finish(r)
      BY <2>1 DEF Goto
    <2>7. JobsOK'
      BY <1>1, <1>4, <2>2, <2>5, <2>6, JobMoves DEF Pc
    <2> QED  BY <1>1, <2>2, <2>4, <2>7, TypesFrame, TypesInParts
  <1>18. CASE RolledBack(r)
    <2>1. /\ tmps' = [tmps EXCEPT ![n] = 0]
          /\ names' = IF tmps[n] = 0 THEN names
                      ELSE [names EXCEPT ![n] = [image |-> tmps[n],
                                                 version |-> names[n].version + 1]]
          /\ made' = made /\ Finish(r) /\ UNCHANGED <<notes, policies, refs>>
          /\ UNCHANGED <<rows, blobs, snapped>> /\ UNCHANGED drives
          /\ UNCHANGED <<requests, excused>>
      BY <1>1, <1>3, <1>18 DEF RolledBack, tables, snapshots, FilesOK
    <2>2. FilesOK'
      BY <1>1, <1>3, <2>1 DEF FilesOK, File
    <2>3. JobsOK'
      BY <1>1, <1>4, <2>1, JobMoves
    <2> QED  BY <1>1, <2>1, <2>2, <2>3, TypesFrame, TypesInParts
  <1>19. CASE BlobForgotten(r)
    <2>1. /\ blobs' = blobs \ job[r].snaps /\ job' = [job EXCEPT ![r].pc = "record"]
          /\ UNCHANGED files /\ UNCHANGED <<notes, policies, refs>> /\ UNCHANGED <<rows, snapped>>
          /\ UNCHANGED drives /\ UNCHANGED <<requests, excused>>
      BY <1>19 DEF BlobForgotten, tables
    <2>2. RowsOK'
      BY <1>1, <2>1 DEF RowsOK
    <2>3. RequestOK([job[r] EXCEPT !.pc = "record"])
      BY <1>3, <1>19 DEF BlobForgotten, Acts, RequestOK, Job
    <2>4. JobsOK'
      BY <1>1, <1>4, <2>1, <2>3, JobMoves DEF Pc, Goto
    <2> QED  BY <1>1, <2>1, <2>2, <2>4, TypesFrame, TypesInParts
  <1>20. CASE RowForgotten(r)
    <2>1. /\ rows' = [s \in Snap |-> IF s \in job[r].snaps THEN NoRef ELSE rows[s]]
          /\ Finish(r) /\ UNCHANGED files /\ UNCHANGED <<notes, policies, refs>>
          /\ UNCHANGED <<blobs, snapped>> /\ UNCHANGED drives /\ UNCHANGED <<requests, excused>>
      BY <1>20 DEF RowForgotten, snapshots
    <2>2. RowsOK'
      BY <1>1, <2>1 DEF RowsOK, NoRef
    <2>3. JobsOK'
      BY <1>1, <1>4, <2>1, JobMoves
    <2> QED  BY <1>1, <2>1, <2>2, <2>3, TypesFrame, TypesInParts
  <1> QED  BY <1>5, <1>6, <1>7, <1>8, <1>9, <1>10, <1>11, <1>12, <1>13, <1>14, <1>15, <1>16, <1>17,
              <1>18, <1>19, <1>20 DEF RequestStep

LEMMA TypesStep ==
    ASSUME Types, SnapsOK, [Next]_vars PROVE Types'
  <1>1. FilesOK /\ TablesOK /\ RowsOK /\ DrivesOK /\ JobsOK
    BY TypesInParts
  <1>2. ASSUME NEW r \in Req, NEW f \in Ref, NEW n \in Name, Point(r, f, n) PROVE Types'
    <2>1. refs' = [refs EXCEPT ![f] = [name |-> n, image |-> names[n].image]]
          /\ UNCHANGED <<notes, policies>> /\ Told(r, f, n)
      BY <1>2 DEF Point, Told
    <2>2. names[n].image \in 0 .. MaxImages
      BY <1>1 DEF FilesOK, File
    <2>3. refs' \in [Ref -> [name : Name \cup {NoName}, image : 0 .. MaxImages]]
      BY <1>1, <2>1, <2>2 DEF TablesOK
    <2>4. TablesOK'
      BY <1>1, <2>1, <2>3, ConstantsAssumption DEF TablesOK
    <2> QED  BY <2>1, <2>4, ToldTypes
  <1>3. ASSUME NEW r \in Req, NEW f \in Ref, Unpoint(r, f) PROVE Types'
    <2>1. refs' = [refs EXCEPT ![f] = NoRef] /\ UNCHANGED <<notes, policies>>
          /\ refs[f] # NoRef /\ Told(r, f, refs[f].name)
      BY <1>3 DEF Unpoint, Told
    <2>2. refs[f].name \in Name
      BY <1>1, <2>1 DEF TablesOK
    <2>3. refs' \in [Ref -> [name : Name \cup {NoName}, image : 0 .. MaxImages]]
      BY <1>1, <2>1, ConstantsAssumption DEF TablesOK, NoRef
    <2>4. TablesOK'
      BY <1>1, <2>1, <2>3 DEF TablesOK
    <2> QED  BY <2>1, <2>2, <2>4, ToldTypes
  <1>4. ASSUME NEW n \in Name, SetNote(n) \/ SetPolicy(n) PROVE Types'
    <2>1. /\ UNCHANGED files /\ UNCHANGED <<rows, blobs, snapped>> /\ UNCHANGED drives
          /\ UNCHANGED <<job, requests, refs>> /\ excused' = Met({n})
      BY <1>4 DEF SetNote, SetPolicy, snapshots
    <2>2. JobsOK'
      BY <1>1, <2>1, MetNames DEF JobsOK
    <2>3. names[n].image \in 0 .. Orphan /\ Whose(n) \in 0 .. Orphan
      BY <1>1, ConstantsAssumption DEF Whose, Orphan, FilesOK, File
    <2>4. notes' \in [Name -> 0 .. Orphan]
      BY <1>1, <1>4, <2>3 DEF SetNote, SetPolicy, TablesOK
    <2>5. policies' \in [Name -> 0 .. Orphan]
      BY <1>1, <1>4, <2>3, ConstantsAssumption DEF SetNote, SetPolicy, TablesOK, Orphan
    <2>6. TablesOK'
      BY <1>1, <2>1, <2>4, <2>5 DEF TablesOK
    <2> QED  BY <1>1, <2>1, <2>2, <2>6, TypesFrame, TypesInParts
  <1>5. CASE Unmount
    <2>1. /\ mount' = NoMount /\ session' = session /\ UNCHANGED files
          /\ UNCHANGED <<notes, policies, refs>> /\ UNCHANGED <<rows, blobs, snapped>>
          /\ UNCHANGED <<job, requests, excused>>
      BY <1>5 DEF Unmount, tables, snapshots
    <2>2. DrivesOK'
      BY <1>1, <2>1, ConstantsAssumption DEF DrivesOK, NoMount, NoFile, File
    <2> QED  BY <1>1, <2>1, <2>2, TypesFrame, TypesInParts
  <1>6. CASE UNCHANGED vars
    BY <1>1, <1>6, TypesFrame, TypesInParts DEF vars, tables, snapshots
  <1>7. ASSUME NEW r \in Req, NEW kind \in Kind, NEW from \in Name,
               NEW to \in Name \cup {NoName}, NEW snaps \in SUBSET Snap,
               Begins(r, kind, from, to, snaps)
        PROVE  Types'
    BY <1>7, BeginsTypes
  <1>8. ASSUME NEW r \in Req, RequestStep(r) PROVE Types'
    BY <1>8, RequestTypes
  <1> QED  BY <1>2, <1>3, <1>4, <1>5, <1>6, <1>7, <1>8, NextCases, Zenon

-----------------------------------------------------------------------------
(* The beginning *)

LEMMA InitOK == Init => IndInv
  <1> SUFFICES ASSUME Init PROVE IndInv
    OBVIOUS
  <1> USE ConstantsAssumption
  <1>1. PICK there \in {{}} \cup {{n} : n \in Name} :
          /\ made = Cardinality(there)
          /\ names = [n \in Name |-> [NoFile EXCEPT !.image = IF n \in there THEN 1 ELSE 0]]
    BY DEF Init
  <1>2. /\ notes = [n \in Name |-> names[n].image] /\ policies = notes
        /\ tmps = [n \in Name |-> 0] /\ refs = [f \in Ref |-> NoRef]
        /\ rows = [s \in Snap |-> NoRef] /\ blobs = {} /\ snapped = 0
        /\ mount = NoMount /\ session = NoFile /\ job = [r \in Req |-> NoJob]
        /\ requests = 0 /\ excused = {}
    BY DEF Init
  <1>3. made \in 0 .. MaxImages
    <2>1. CASE there = {}
      BY <1>1, <2>1, FS_EmptySet
    <2>2. ASSUME NEW n \in Name, there = {n} PROVE made \in 0 .. MaxImages
      <3>1. Cardinality({n}) = 1
        BY FS_Singleton, Zenon
      <3> QED  BY <1>1, <2>2, <3>1
    <2> QED  BY <2>1, <2>2
  <1>4. FilesOK
    BY <1>1, <1>2, <1>3 DEF FilesOK, NoFile, File
  <1>5. \A n \in Name : names[n].image \in 0 .. 1
    BY <1>1 DEF NoFile
  <1>6. TablesOK
    BY <1>2, <1>5 DEF TablesOK, NoRef, Orphan
  <1>7. RowsOK
    BY <1>2 DEF RowsOK, NoRef
  <1>8. DrivesOK
    BY <1>2 DEF DrivesOK, NoMount, NoFile, File
  <1>9. JobsOK
    BY <1>2, NoJobOK DEF JobsOK
  <1>10. Types
    BY <1>4, <1>6, <1>7, <1>8, <1>9, TypesInParts
  <1>11. Alone
    BY <1>2 DEF Alone, Subject, NoJob
  <1>12. Stages
    BY <1>2 DEF Stages, Stage, NoJob
  <1>13. \A n \in Name : Follows(n)
    BY <1>1, <1>2, <1>5 DEF Follows, NoRef
  <1>14. MountedImageStays
    BY <1>2 DEF MountedImageStays
  <1>15. SnapsOK
    BY <1>2 DEF SnapsOK, NoJob
  <1>16. SessionOK
    BY <1>2 DEF SessionOK, NoRef
  <1> QED  BY <1>10, <1>11, <1>12, <1>13, <1>14, <1>15, <1>16, Zenon DEF IndInv, RowsFollow, Types

-----------------------------------------------------------------------------
(* What a step does not touch stays as it was *)

\* The step leaves alone what is kept about this name.
SameAt(n) ==
    /\ names'[n] = names[n] /\ tmps'[n] = tmps[n]
    /\ notes'[n] = notes[n] /\ policies'[n] = policies[n]
    /\ mount'.name = n => mount' = mount
    /\ \A f \in Ref : refs'[f].name = n => refs'[f] = refs[f]
    /\ \A s \in Snap : rows'[s].name = n \/ rows[s].name = n => rows'[s] = rows[s]

LEMMA FollowsFrame ==
    ASSUME NEW n \in Name, SameAt(n), Follows(n) PROVE Follows(n)'
  <1>1. names'[n] = names[n] /\ notes'[n] = notes[n] /\ policies'[n] = policies[n]
    BY DEF SameAt
  <1>2. notes'[n] \in {0, names'[n].image} /\ policies'[n] \in {0, names'[n].image, Orphan}
    BY <1>1 DEF Follows
  <1>3. \A f \in Ref : refs'[f].name = n => Exists(n)' /\ refs'[f].image = names'[n].image
    BY DEF SameAt, Follows, Exists
  <1>4. \A s \in Snap : rows'[s].name = n => Exists(n)' /\ rows'[s].image = names'[n].image
    BY DEF SameAt, Follows, Exists
  <1> QED  BY <1>2, <1>3, <1>4 DEF Follows

LEMMA StageFrame ==
    ASSUME Types, NEW r \in Req, Stage(r), job'[r] = job[r],
           \A n \in Subject(r) : SameAt(n)
    PROVE  Stage(r)'
  <1>1. CASE job[r].pc = "idle"
    BY <1>1 DEF Stage
  <1>2. CASE job[r].pc # "idle"
    <2>1. PICK j \in Job : j = job[r]
      BY <1>2, AboutNames
    <2>2. j.from \in Name /\ RequestOK(j) /\ job'[r] = j
          /\ (j.kind \in {"clone", "rename"} => j.to \in Name)
      BY <1>2, <2>1, AboutNames
    <2>3. SameAt(j.from) /\ (j.kind \in {"clone", "rename"} => SameAt(j.to))
      BY <2>1, <2>2, ConstantsAssumption DEF Subject
    <2>4. /\ names'[j.from] = names[j.from] /\ tmps'[j.from] = tmps[j.from]
          /\ notes'[j.from] = notes[j.from] /\ policies'[j.from] = policies[j.from]
          /\ mount'.name = j.from => mount' = mount
          /\ \A f \in Ref : refs'[f].name = j.from => refs'[f] = refs[f]
          /\ \A s \in Snap : rows'[s].name = j.from \/ rows[s].name = j.from =>
                               rows'[s] = rows[s]
          /\ j.kind \in {"clone", "rename"} => names'[j.to] = names[j.to]
      BY <2>3 DEF SameAt
    <2>5. /\ j.pc = "act" /\ j.kind = "create" => names'[j.from] = NoFile
          /\ j.pc = "act" /\ j.kind \in {"clone", "rename"} => names'[j.to] = NoFile
      BY <2>1, <2>4 DEF Stage, Exists
    <2>6. j.pc \in {"act", "record"} /\ j.kind \in {"delete", "rename", "rollback"} =>
            mount'.name # j.from
      BY <2>1, <2>4 DEF Stage
    <2>7. j.pc = "record" /\ j.kind = "upload" /\ j.image = 0 =>
            mount'.name # j.from /\ Bare(j.from)'
      BY <2>1, <2>4 DEF Stage, Bare
    <2>8. /\ j.pc = "record" /\ j.kind = "snapshot" =>
               names'[j.from] # NoFile /\ j.image = names'[j.from].image
          /\ j.pc = "record" /\ j.kind = "rollback" =>
               names'[j.from] # NoFile /\ tmps'[j.from] = names'[j.from].image
      BY <2>1, <2>4 DEF Stage, Exists
    <2>9. j.pc = "act" /\ j.kind = "rollback" => \A s \in j.snaps : rows'[s].name = j.from
      BY <2>1, <2>4 DEF Stage, Job
    <2>10. j.pc \in {"splinters", "overrides"} =>
             /\ names'[j.from] = NoFile /\ notes'[j.from] = 0
             /\ \A s \in Snap : rows'[s].name # j.from
      BY <2>1, <2>4 DEF Stage, Exists
    <2>11. j.pc = "overrides" =>
             /\ policies'[j.from] = 0
             /\ \A f \in Ref : f = "splinter" => refs'[f].name # j.from
      BY <2>1, <2>4 DEF Stage
    <2> QED  BY <2>2, <2>5, <2>6, <2>7, <2>8, <2>9, <2>10, <2>11 DEF Stage, Exists
  <1> QED  BY <1>1, <1>2

\* A step that touches the names ns, and the requests that are about no other
\* name: it keeps what holds of each name, when it does so on ns.
LEMMA Touches ==
    ASSUME Types, Types', Alone, Stages, RowsFollow, MountedImageStays,
           NEW ns \in SUBSET Name, excused \subseteq excused',
           \A n \in Name \ (ns \cup excused') : SameAt(n),
           \A q \in Req : \/ /\ job'[q] = job[q]
                             /\ Subject(q) \cap ns # {} => Subject(q) \subseteq excused'
                          \/ /\ Subject(q) \subseteq ns
                             /\ Subject(q)' \cap excused' = {} => Stage(q)',
           \A n \in ns \ excused' :
             /\ Deleting(n)' \/ Follows(n)'
             /\ mount'.name = n => names'[n] = mount'.file
    PROVE  Stages' /\ RowsFollow' /\ MountedImageStays'
  <1>1. ASSUME NEW q \in Req, job'[q] = job[q] PROVE Subject(q)' = Subject(q)
    BY <1>1 DEF Subject
  <1>2. \A q \in Req : Subject(q) \subseteq Name
    <2>1. \A q \in Req : job[q] \in Job
      BY DEF Types, LibraryTypeOK
    <2> QED  BY <2>1 DEF Job, Subject
  <1>3. ASSUME NEW q \in Req, Subject(q)' \cap excused' = {} PROVE Stage(q)'
    <2>1. CASE /\ job'[q] = job[q]
               /\ Subject(q) \cap ns # {} => Subject(q) \subseteq excused'
      <3>1. Subject(q) \cap excused' = {}
        BY <1>1, <1>3, <2>1
      <3>2. \A n \in Subject(q) : n \in Name \ (ns \cup excused')
        BY <1>2, <2>1, <3>1
      <3>3. Stage(q)
        BY <3>1 DEF Stages
      <3> QED  BY <2>1, <3>2, <3>3, StageFrame
    <2> QED  BY <1>3, <2>1
  <1>4. ASSUME NEW n \in Name \ excused' PROVE Deleting(n)' \/ Follows(n)'
    <2>1. CASE n \notin ns
      <3>1. SameAt(n)
        BY <2>1
      <3>2. CASE Follows(n)
        BY <3>1, <3>2, FollowsFrame
      <3>3. CASE Deleting(n)
        <4>1. PICK q \in Req : n \in Subject(q) /\ job[q].pc \in {"splinters", "overrides"}
          BY <3>3 DEF Deleting
        <4>2. job'[q] = job[q]
          BY <2>1, <4>1
        <4>3. n \in Subject(q)' /\ job'[q].pc \in {"splinters", "overrides"}
          BY <1>1, <4>1, <4>2
        <4> QED  BY <4>3 DEF Deleting
      <3> QED  BY <3>2, <3>3 DEF RowsFollow
    <2> QED  BY <2>1
  <1>5. ASSUME mount' # NoMount, mount'.name \notin excused', mount'.name \in Name
        PROVE  names'[mount'.name] = mount'.file
    <2>1. CASE mount'.name \notin ns
      BY <1>5, <2>1 DEF SameAt, MountedImageStays
    <2> QED  BY <1>5, <2>1
  <1>6. Stages' /\ RowsFollow'
    BY <1>3, <1>4 DEF Stages, RowsFollow
  <1>7. mount' # NoMount => mount'.name \in Name
    BY TypesInParts DEF DrivesOK
  <1> QED  BY <1>5, <1>6, <1>7 DEF MountedImageStays

-----------------------------------------------------------------------------
(* Requests that begin, and rows that are written, at the names ns *)

\* On the names that requests met, all that have to do with them are excused.
LEMMA MetTogether ==
    ASSUME Types, Alone, NEW ns \in SUBSET Name, excused' = Met(ns)
    PROVE  /\ excused \subseteq excused'
           /\ ns \cap excused' # {} => ns \subseteq excused'
           /\ \A q \in Req : Subject(q) \cap ns # {} =>
                               Subject(q) \subseteq excused' /\ ns \subseteq excused'
           /\ \A q \in Req : Subject(q) \cap excused' # {} => Subject(q) \subseteq excused'
  <1> DEFINE others == UNION {Subject(q) : q \in {p \in Req : Subject(p) \cap ns # {}}}
  <1>1. \A q \in Req : Subject(q) \cap ns # {} => Subject(q) \subseteq others
    OBVIOUS
  <1>2. CASE others = {} /\ ns \cap excused = {}
    <2>1. excused' = excused
      BY <1>2 DEF Met
    <2>2. \A q \in Req : Subject(q) \cap ns = {}
      BY <1>1, <1>2
    <2> QED  BY <1>2, <2>1, <2>2 DEF Alone
  <1>3. CASE ~(others = {} /\ ns \cap excused = {})
    <2>1. excused' = excused \cup ns \cup others
      BY <1>3 DEF Met
    <2>2. ASSUME NEW q \in Req, Subject(q) \cap excused' # {} PROVE Subject(q) \subseteq excused'
      <3>1. CASE Subject(q) \cap excused # {}
        BY <2>1, <3>1 DEF Alone
      <3>2. CASE Subject(q) \cap ns # {}
        BY <1>1, <2>1, <3>2
      <3>3. ASSUME NEW p \in Req, Subject(p) \cap ns # {}, Subject(q) \cap Subject(p) # {}
            PROVE  Subject(q) \subseteq excused'
        <4>1. CASE p = q
          BY <1>1, <2>1, <3>3, <4>1
        <4>2. CASE p # q
          BY <2>1, <3>3, <4>2 DEF Alone
        <4> QED  BY <4>1, <4>2
      <3>4. Subject(q) \cap excused # {} \/ Subject(q) \cap ns # {} \/ Subject(q) \cap others # {}
        BY <2>1, <2>2
      <3> QED  BY <3>1, <3>2, <3>3, <3>4
    <2> QED  BY <1>1, <2>1, <2>2
  <1> QED  BY <1>2, <1>3

\* One request at most is new on the names, the others go on as they were.
LEMMA AloneMet ==
    ASSUME Types, Alone, NEW ns \in SUBSET Name, excused' = Met(ns), NEW R \in SUBSET Req,
           \A r, q \in R : r = q,
           \A r \in R : Subject(r)' = ns,
           \A q \in Req \ R : job'[q] = job[q]
    PROVE  Alone'
  <1>1. \A q \in Req \ R : Subject(q)' = Subject(q)
    BY DEF Subject
  <1>2. ASSUME NEW r \in Req, NEW q \in Req, r # q, Subject(r)' \cap Subject(q)' # {}
        PROVE  Subject(r)' \subseteq excused'
    <2>1. CASE r \in R
      BY <1>1, <1>2, <2>1, MetTogether
    <2>2. CASE q \in R
      BY <1>1, <1>2, <2>2, MetTogether
    <2>3. CASE r \notin R /\ q \notin R
      <3>1. Subject(r) \subseteq excused
        BY <1>1, <1>2, <2>3 DEF Alone
      <3> QED  BY <1>1, <2>3, <3>1, MetTogether
    <2> QED  BY <2>1, <2>2, <2>3
  <1>3. ASSUME NEW r \in Req, Subject(r)' \cap excused' # {} PROVE Subject(r)' \subseteq excused'
    BY <1>1, <1>3, MetTogether
  <1> QED  BY <1>2, <1>3 DEF Alone

\* A request that goes on, or is done, has no new names; what breaks off half way
\* is excused on all its names.
LEMMA AloneStep ==
    ASSUME Alone, NEW r \in Req, Subject(r)' \in {Subject(r), {}},
           \A q \in Req \ {r} : job'[q] = job[q],
           excused' \in {excused, excused \cup Subject(r)}
    PROVE  Alone'
  <1>1. \A q \in Req : Subject(q)' \subseteq Subject(q)
    BY DEF Subject
  <1>2. \A q \in Req : Subject(q)' \in {Subject(q), {}}
    BY DEF Subject
  <1>3. ASSUME NEW p \in Req, NEW q \in Req, p # q, Subject(p)' \cap Subject(q)' # {}
        PROVE  Subject(p)' \subseteq excused'
    BY <1>1, <1>3 DEF Alone
  <1>4. ASSUME NEW q \in Req, Subject(q)' \cap excused' # {} PROVE Subject(q)' \subseteq excused'
    <2>1. CASE Subject(q) \cap excused # {}
      BY <1>1, <2>1 DEF Alone
    <2>2. CASE Subject(q) \cap Subject(r) # {} /\ excused' = excused \cup Subject(r)
      <3>1. CASE q = r
        BY <1>1, <2>2, <3>1
      <3>2. CASE q # r
        BY <1>1, <2>2, <3>2 DEF Alone
      <3> QED  BY <3>1, <3>2
    <2> QED  BY <1>1, <1>4, <2>1, <2>2
  <1> QED  BY <1>3, <1>4 DEF Alone

-----------------------------------------------------------------------------
(* The steps of a request, on its own names *)

NamesOK == Alone /\ Stages /\ RowsFollow /\ MountedImageStays

\* A request that is alone can rely on what it found out, and on the rows.
LEMMA Mine ==
    ASSUME Types, NamesOK, NEW r \in Req, Subject(r) \cap excused = {}
    PROVE  /\ Stage(r)
           /\ \A n \in Subject(r) :
                /\ job[r].pc \notin {"splinters", "overrides"} => Follows(n)
                /\ mount.name = n => names[n] = mount.file
  <1>1. Stage(r)
    BY DEF NamesOK, Stages
  <1>2. Subject(r) \subseteq Name
    BY DEF Types, LibraryTypeOK, Job, Subject
  <1>3. ASSUME NEW n \in Subject(r), job[r].pc \notin {"splinters", "overrides"}
        PROVE  Follows(n)
    <2>1. ~Deleting(n)
      BY <1>3 DEF NamesOK, Alone, Deleting
    <2> QED  BY <1>2, <2>1 DEF NamesOK, RowsFollow
  <1>4. ASSUME NEW n \in Subject(r), mount.name = n PROVE names[n] = mount.file
    BY <1>2, <1>4, ConstantsAssumption DEF NamesOK, MountedImageStays, NoMount
  <1> QED  BY <1>1, <1>3, <1>4

\* A step that touches the names of its request only.
LEMMA OwnNames ==
    ASSUME Types, Types', NamesOK, NEW r \in Req, Subject(r)' \in {Subject(r), {}},
           \A q \in Req \ {r} : job'[q] = job[q],
           excused' \in {excused, excused \cup Subject(r)},
           \A n \in Name \ (Subject(r) \cup excused') : SameAt(n),
           Subject(r) \cap excused' = {} =>
             /\ job'[r].pc # "idle" => Stage(r)'
             /\ \A n \in Subject(r) : /\ Deleting(n)' \/ Follows(n)'
                                      /\ mount'.name = n => names'[n] = mount'.file
    PROVE  NamesOK'
  <1>1. Alone /\ Stages /\ RowsFollow /\ MountedImageStays
    BY DEF NamesOK
  <1>2. Alone'
    BY <1>1, AloneStep
  <1>3. Subject(r) \in SUBSET Name /\ excused \subseteq excused'
    BY DEF Types, LibraryTypeOK, Job, Subject
  <1>4. ASSUME NEW q \in Req \ {r}, Subject(q) \cap Subject(r) # {}
        PROVE  Subject(q) \subseteq excused'
    BY <1>1, <1>3, <1>4 DEF Alone
  <1>5. Subject(r)' \cap excused' = {} => Stage(r)'
    <2>1. CASE job'[r].pc = "idle"
      BY <2>1 DEF Stage
    <2>2. CASE job'[r].pc # "idle"
      <3>1. job'[r].from \in Name
        BY <2>2 DEF Types, RequestOK
      <3>2. Subject(r)' = Subject(r)
        BY <3>1, ConstantsAssumption DEF Subject
      <3> QED  BY <2>2, <3>2
    <2> QED  BY <2>1, <2>2
  <1>6. ASSUME NEW n \in Subject(r) \ excused' PROVE Subject(r) \cap excused' = {}
    BY <1>1, <1>3, <1>6 DEF Alone
  <1>7. Stages' /\ RowsFollow' /\ MountedImageStays'
    BY <1>1, <1>3, <1>4, <1>5, <1>6, Touches
  <1> QED  BY <1>2, <1>7 DEF NamesOK

\* The request is done, or goes on.
LEMMA SubjectMoves ==
    ASSUME Types, NEW r \in Req
    PROVE  /\ Finish(r) => /\ Subject(r)' = {} /\ job'[r].pc = "idle"
                           /\ \A q \in Req \ {r} : job'[q] = job[q]
           /\ \A pc \in Pc : Goto(r, pc) =>
                /\ Subject(r)' = Subject(r) /\ job'[r] = [job[r] EXCEPT !.pc = pc]
                /\ \A q \in Req \ {r} : job'[q] = job[q]
  <1>1. job \in [Req -> Job]
    BY DEF Types, LibraryTypeOK
  <1>2. ASSUME Finish(r) PROVE job'[r] = NoJob /\ \A q \in Req \ {r} : job'[q] = job[q]
    BY <1>1, <1>2 DEF Finish
  <1>3. ASSUME Finish(r) PROVE Subject(r)' = {} /\ job'[r].pc = "idle"
    BY <1>2, <1>3 DEF Subject, NoJob
  <1>4. ASSUME NEW pc \in Pc, Goto(r, pc)
        PROVE  /\ job'[r] = [job[r] EXCEPT !.pc = pc]
               /\ \A q \in Req \ {r} : job'[q] = job[q]
    BY <1>1, <1>4 DEF Goto
  <1>5. ASSUME NEW pc \in Pc, Goto(r, pc) PROVE Subject(r)' = Subject(r)
    <2>1. job'[r].from = job[r].from /\ job'[r].to = job[r].to
      BY <1>1, <1>4, <1>5, ZenonT(60) DEF Job
    <2> QED  BY <2>1 DEF Subject
  <1> QED  BY <1>2, <1>3, <1>4, <1>5

\* Nothing but the request changes.
LEMMA FailsNames ==
    ASSUME Types, Types', NamesOK, NEW r \in Req, Finish(r),
           UNCHANGED files, UNCHANGED tables, UNCHANGED mount, UNCHANGED excused,
           job[r].pc \notin {"splinters", "overrides"}
    PROVE  NamesOK'
  <1>1. /\ Subject(r)' = {} /\ job'[r].pc = "idle"
        /\ \A q \in Req \ {r} : job'[q] = job[q]
    BY SubjectMoves
  <1>2. \A n \in Name : SameAt(n)
    BY DEF SameAt, files, tables
  <1>3. Subject(r) \subseteq Name
    BY DEF Types, LibraryTypeOK, Job, Subject
  <1>4. ASSUME Subject(r) \cap excused = {}, NEW n \in Subject(r)
        PROVE  /\ Deleting(n)' \/ Follows(n)'
               /\ mount'.name = n => names'[n] = mount'.file
    <2>1. Follows(n) /\ (mount.name = n => names[n] = mount.file)
      BY <1>4, Mine
    <2>2. Follows(n)'
      BY <1>2, <1>3, <1>4, <2>1, FollowsFrame
    <2> QED  BY <2>1, <2>2 DEF files
  <1> QED  BY <1>1, <1>2, <1>4, OwnNames

\* A file that is written anew keeps its rows, and there were none at a free name.
LEMMA WriteFollows ==
    ASSUME Types, NEW n \in Name, Write(n), tmps' = tmps, UNCHANGED tables, UNCHANGED mount,
           Follows(n), mount.name = n => names[n] = mount.file
    PROVE  Follows(n)' /\ (mount'.name = n => names'[n] = mount'.file)
  <1>1. FilesOK /\ DrivesOK
    BY TypesInParts
  <1>2. Exists(n) => names' = names
    BY <1>1, WriteOK
  <1>3. CASE Exists(n)
    BY <1>2, <1>3 DEF Follows, Exists, tables
  <1>4. CASE ~Exists(n)
    <2>1. names[n].image = 0
      BY <1>4 DEF Exists, NoFile
    <2>2. /\ notes[n] = 0 /\ policies[n] \in {0, Orphan}
          /\ \A f \in Ref : refs[f].name # n
          /\ \A s \in Snap : rows[s].name # n
      BY <1>4, <2>1 DEF Follows
    <2>3. mount.name # n
      BY <1>1, <1>4, ConstantsAssumption DEF DrivesOK, Exists
    <2> QED  BY <2>2, <2>3 DEF Follows, tables
  <1> QED  BY <1>3, <1>4

\* A step that writes a file under a name of its request.
LEMMA WriteNames ==
    ASSUME Types, Types', NamesOK, NEW r \in Req, NEW n \in Subject(r), Write(n), tmps' = tmps,
           UNCHANGED tables, UNCHANGED mount, UNCHANGED excused,
           job[r].pc \notin {"splinters", "overrides"},
           Subject(r)' \in {Subject(r), {}},
           \A q \in Req \ {r} : job'[q] = job[q],
           Subject(r) \cap excused = {} => (job'[r].pc # "idle" => Stage(r)')
    PROVE  NamesOK'
  <1>1. Subject(r) \subseteq Name /\ FilesOK
    BY TypesInParts DEF Types, LibraryTypeOK, Job, Subject
  <1>2. names' = [names EXCEPT ![n] = names'[n]]
    BY <1>1, WriteOK
  <1>5. \A m \in Name \ {n} : names'[m] = names[m]
    BY <1>1, <1>2 DEF FilesOK
  <1>3. \A m \in Name \ {n} : SameAt(m)
    BY <1>5 DEF SameAt, tables
  <1>4. ASSUME Subject(r) \cap excused = {}, NEW m \in Subject(r)
        PROVE  Follows(m)' /\ (mount'.name = m => names'[m] = mount'.file)
    <2>1. Follows(m) /\ (mount.name = m => names[m] = mount.file)
      BY <1>4, Mine
    <2>2. CASE m = n
      BY <1>1, <2>1, <2>2, WriteFollows
    <2>3. CASE m # n
      BY <1>1, <1>3, <1>4, <2>1, <2>3, FollowsFrame DEF SameAt
    <2> QED  BY <2>2, <2>3
  <1> QED  BY <1>1, <1>3, <1>4, OwnNames

\* The names of a request that is at an image.
LEMMA SubjectIs ==
    ASSUME Types, NEW r \in Req, job[r].pc # "idle"
    PROVE  /\ job[r].kind \in {"clone", "rename"} => Subject(r) = {job[r].from, job[r].to}
           /\ job[r].kind \notin {"clone", "rename"} => Subject(r) = {job[r].from}
  BY AboutNames, ConstantsAssumption DEF Subject, RequestOK

LEMMA MakesNames ==
    ASSUME Types, Types', NamesOK, NEW r \in Req,
           Created(r) \/ Uploaded(r) \/ Formatted(r)
    PROVE  NamesOK'
  <1> PICK n : n = job[r].from
    OBVIOUS
  <1>1. job[r].pc = "act" /\ job[r].kind \in {"create", "clone", "upload", "format"}
    BY DEF Created, Uploaded, Formatted, Acts
  <1>2. /\ n \in Name /\ n \in Subject(r)
        /\ job[r].kind = "clone" => job[r].to \in Subject(r)
        /\ job[r] \in Job
    BY <1>1, AboutNames, SubjectIs
  <1>3. CASE Uploaded(r)
    <2>1. /\ Write(n) /\ tmps' = tmps /\ UNCHANGED tables /\ UNCHANGED mount /\ UNCHANGED excused
          /\ job' = [job EXCEPT ![r].pc = "record", ![r].image = names[n].image]
      BY <1>3 DEF Uploaded, drives
    <2>2. job'[r] = [job[r] EXCEPT !.pc = "record", !.image = names[n].image]
          /\ \A q \in Req \ {r} : job'[q] = job[q]
      BY <2>1 DEF Types, LibraryTypeOK
    <2>3. job'[r].from = n /\ job'[r].to = job[r].to
      BY <1>2, <2>2 DEF Job
    <2>4. Subject(r)' = Subject(r)
      BY <2>3 DEF Subject
    <2>5. ASSUME Subject(r) \cap excused = {} PROVE Stage(r)'
      <3>1. Follows(n) /\ (mount.name = n => names[n] = mount.file)
        BY <1>1, <1>2, <2>5, Mine
      <3>2. names[n].image = 0 => names[n] = NoFile
        BY <1>2 DEF Types, WholeRecords
      <3>3. mount.name # NoName => mount.file # NoFile
        BY DEF Types, WholeRecords
      <3>4. names[n].image = 0 => mount.name # n /\ Bare(n)
        BY <1>2, <3>1, <3>2, <3>3, ConstantsAssumption DEF Follows, Bare, Exists
      <3>5. Bare(n) => Bare(n)'
        BY <2>1 DEF Bare, tables
      <3>7. job[r].kind = "upload"
        BY <1>3 DEF Uploaded, Acts
      <3>6. job'[r].pc = "record" /\ job'[r].kind = "upload" /\ job'[r].image = names[n].image
        BY <1>2, <2>2, <3>7 DEF Job
      <3> QED  BY <2>1, <2>3, <3>4, <3>5, <3>6 DEF Stage
    <2> QED  BY <1>1, <1>2, <2>1, <2>2, <2>4, <2>5, WriteNames
  <1>4. CASE Created(r) \/ Formatted(r)
    <2>1. /\ Finish(r) /\ UNCHANGED tables /\ UNCHANGED mount /\ UNCHANGED excused
          /\ tmps' = tmps
      BY <1>4 DEF Created, Formatted, FailsWithout, drives, files
    <2>2. UNCHANGED files \/ \E m \in Subject(r) : Write(m)
      BY <1>1, <1>2, <1>4 DEF Created, Formatted, FailsWithout, Acts
    <2>3. /\ Subject(r)' = {} /\ job'[r].pc = "idle" /\ \A q \in Req \ {r} : job'[q] = job[q]
      BY <2>1, SubjectMoves
    <2>4. CASE UNCHANGED files
      BY <1>1, <2>1, <2>4, FailsNames
    <2>5. ASSUME NEW m \in Subject(r), Write(m) PROVE NamesOK'
      BY <1>1, <2>1, <2>3, <2>5, WriteNames
    <2> QED  BY <2>2, <2>4, <2>5
  <1> QED  BY <1>3, <1>4

\* What no step of a request about one name does to the others.
LEMMA OneName ==
    ASSUME Types, Types', NamesOK, NEW r \in Req, NEW n \in Name,
           job[r].pc # "idle", n = job[r].from, job[r].kind \notin {"clone", "rename"},
           Subject(r)' \in {Subject(r), {}},
           \A q \in Req \ {r} : job'[q] = job[q],
           excused' \in {excused, excused \cup {n}},
           \A m \in Name \ ({n} \cup excused') : SameAt(m),
           n \notin excused' =>
             /\ job'[r].pc # "idle" => Stage(r)'
             /\ Deleting(n)' \/ Follows(n)'
             /\ mount'.name = n => names'[n] = mount'.file
    PROVE  NamesOK'
  <1>1. Subject(r) = {n}
    BY SubjectIs
  <1>2. {n} \cap excused' = {} => n \notin excused'
    OBVIOUS
  <1> QED  BY <1>1, <1>2, OwnNames

LEMMA MineOne ==
    ASSUME Types, NamesOK, NEW r \in Req, job[r].pc # "idle",
           job[r].kind \notin {"clone", "rename"}, job[r].from \notin excused
    PROVE  /\ Stage(r)
           /\ job[r].pc \notin {"splinters", "overrides"} => Follows(job[r].from)
           /\ mount.name = job[r].from => names[job[r].from] = mount.file
  BY SubjectIs, Mine

\* All that is kept about an image goes with it to its new name, which was free.
LEMMA RenamedNames ==
    ASSUME Types, Types', NamesOK, NEW r \in Req, Renamed(r) PROVE NamesOK'
  <1> USE ConstantsAssumption
  <1> PICK n : n = job[r].from
    OBVIOUS
  <1> PICK to : to = job[r].to
    OBVIOUS
  <1>1. job[r].pc = "act" /\ job[r].kind = "rename"
    BY DEF Renamed, Acts
  <1>2. n \in Name /\ to \in Name /\ to # n /\ Subject(r) = {n, to} /\ job[r] \in Job
    BY <1>1, AboutNames, SubjectIs
  <1>3. FilesOK /\ TablesOK /\ RowsOK /\ DrivesOK /\ JobsOK
    BY TypesInParts
  <1>4. CASE ~Exists(n)
    BY <1>1, <1>4, FailsNames DEF Renamed, FailsWithout, drives
  <1>5. CASE Exists(n)
    <2>1. PICK noted \in BOOLEAN : noted = ~Blocked(notes, n, to)
      BY DEF Blocked
    <2>2. PICK whole \in BOOLEAN : whole = (noted /\ ~Blocked(policies, n, to))
      BY DEF Blocked
    <2>3. /\ names' = [names EXCEPT ![to] = names[n], ![n] = NoFile]
          /\ notes' = IF noted THEN MovedKey(notes, n, to) ELSE notes
          /\ rows' = IF noted THEN [x \in DOMAIN rows |-> Moved(rows[x], n, to)] ELSE rows
          /\ policies' = IF whole THEN MovedKey(policies, n, to) ELSE policies
          /\ refs' = IF whole THEN [x \in DOMAIN refs |-> Moved(refs[x], n, to)] ELSE refs
          /\ IF whole THEN Goto(r, "sync") ELSE Finish(r)
          /\ excused' = IF whole THEN excused ELSE excused \cup {n, to}
          /\ tmps' = tmps /\ mount' = mount
      BY <1>5, <2>1, <2>2 DEF Renamed, drives
    <2>4. /\ \A q \in Req \ {r} : job'[q] = job[q]
          /\ whole => Subject(r)' = Subject(r) /\ job'[r] = [job[r] EXCEPT !.pc = "sync"]
          /\ ~whole => Subject(r)' = {}
      BY <2>2, <2>3, SubjectMoves DEF Pc
    <2>5. \A f \in Ref : /\ refs'[f] \in {refs[f], Moved(refs[f], n, to)}
                         /\ whole => refs'[f] = Moved(refs[f], n, to)
      BY <1>3, <2>3 DEF TablesOK
    <2>6. \A s \in Snap : /\ rows'[s] \in {rows[s], Moved(rows[s], n, to)}
                          /\ noted => rows'[s] = Moved(rows[s], n, to)
      BY <1>3, <2>3 DEF RowsOK
    <2>7. ASSUME NEW m \in Name \ {n, to} PROVE SameAt(m)
      <3>1. names'[m] = names[m] /\ notes'[m] = notes[m] /\ policies'[m] = policies[m]
        BY <1>2, <1>3, <2>3 DEF FilesOK, TablesOK, MovedKey
      <3>2. \A f \in Ref : refs'[f].name = m => refs'[f] = refs[f]
        BY <1>3, <2>5, <2>7 DEF Moved, TablesOK
      <3>3. \A s \in Snap : rows'[s].name = m \/ rows[s].name = m => rows'[s] = rows[s]
        BY <1>3, <2>6, <2>7 DEF Moved, RowsOK
      <3> QED  BY <2>3, <3>1, <3>2, <3>3 DEF SameAt
    <2>8. ASSUME Subject(r) \cap excused' = {}
          PROVE  /\ job'[r].pc # "idle" => Stage(r)'
                 /\ \A m \in Subject(r) : /\ Follows(m)'
                                          /\ mount'.name = m => names'[m] = mount'.file
      <3>1. whole /\ noted /\ excused' = excused
        BY <1>2, <2>2, <2>3, <2>8
      <3>2. Stage(r) /\ Follows(n) /\ Follows(to) /\ (mount.name = to => names[to] = mount.file)
        BY <1>1, <1>2, <2>8, <3>1, Mine
      <3>3. names[to] = NoFile /\ mount.name # n
        BY <1>1, <3>2 DEF Stage, Exists
      <3>4. mount.name # to
        BY <1>2, <1>3, <3>2, <3>3 DEF DrivesOK
      <3>5. names'[to] = names[n] /\ names'[n] = NoFile
        BY <1>2, <1>3, <2>3 DEF FilesOK
      <3>6. /\ notes[to] = 0 /\ policies[to] \in {0, Orphan}
            /\ \A f \in Ref : refs[f].name # to
            /\ \A s \in Snap : rows[s].name # to
        BY <3>2, <3>3 DEF Follows, Exists, NoFile
      <3>7. /\ notes[n] \in {0, names[n].image} /\ policies[n] \in {0, names[n].image, Orphan}
            /\ \A f \in Ref : refs[f].name = n => refs[f].image = names[n].image
            /\ \A s \in Snap : rows[s].name = n => rows[s].image = names[n].image
        BY <3>2 DEF Follows
      <3>8. ~(policies[n] # 0 /\ policies[to] # 0)
        BY <2>2, <3>1 DEF Blocked
      <3>9. notes'[n] = 0 /\ notes'[to] \in {0, names[n].image}
        BY <1>2, <1>3, <2>3, <3>1, <3>6, <3>7 DEF MovedKey, TablesOK
      <3>10. policies'[n] = 0 /\ policies'[to] \in {0, names[n].image, Orphan}
        BY <1>2, <1>3, <2>3, <3>1, <3>6, <3>7, <3>8 DEF MovedKey, TablesOK
      <3>11. ASSUME NEW f \in Ref
            PROVE  refs'[f].name # n /\ (refs'[f].name = to => refs'[f].image = names[n].image)
        <4>1. PICK row \in [name : Name \cup {NoName}, image : 0 .. MaxImages] : row = refs[f]
          BY <1>3 DEF TablesOK
        <4>2. refs'[f] = Moved(row, n, to)
          BY <2>5, <3>1, <4>1
        <4>3. row.name # to /\ (row.name = n => row.image = names[n].image)
          BY <3>6, <3>7, <4>1
        <4> QED  BY <1>2, <4>1, <4>2, <4>3 DEF Moved
      <3>12. ASSUME NEW s \in Snap
            PROVE  rows'[s].name # n /\ (rows'[s].name = to => rows'[s].image = names[n].image)
        <4>1. PICK row \in [name : Name \cup {NoName}, image : 0 .. MaxImages] : row = rows[s]
          BY <1>3 DEF RowsOK
        <4>2. rows'[s] = Moved(row, n, to)
          BY <2>6, <3>1, <4>1
        <4>3. row.name # to /\ (row.name = n => row.image = names[n].image)
          BY <3>6, <3>7, <4>1
        <4> QED  BY <1>2, <4>1, <4>2, <4>3 DEF Moved
      <3>13. Follows(n)'
        BY <3>5, <3>9, <3>10, <3>11, <3>12 DEF Follows, NoFile
      <3>14. Follows(to)'
        BY <1>5, <3>5, <3>9, <3>10, <3>11, <3>12 DEF Follows, Exists
      <3>15. job'[r].pc = "sync"
        BY <1>2, <2>4, <3>1 DEF Job
      <3>16. Stage(r)'
        BY <3>15 DEF Stage
      <3> QED  BY <1>2, <2>3, <3>3, <3>4, <3>13, <3>14, <3>16
    <2>9. excused' \in {excused, excused \cup Subject(r)}
      BY <1>2, <2>3
    <2>10. Subject(r)' \in {Subject(r), {}}
      BY <2>4
    <2>11. \A m \in Name \ (Subject(r) \cup excused') : SameAt(m)
      BY <1>2, <2>7
    <2> QED  BY <2>4, <2>8, <2>9, <2>10, <2>11, OwnNames
  <1> QED  BY <1>4, <1>5

LEMMA RequestNames ==
    ASSUME Types, Types', NamesOK, SnapsOK, NEW r \in Req, RequestStep(r) PROVE NamesOK'
  <1> USE ConstantsAssumption
  <1> PICK n : n = job[r].from
    OBVIOUS
  <1>1. job[r].pc # "idle"
    BY DEF RequestStep, Created, Uploaded, Inspected, Formatted, Opens, Unlinked, SnapshotsGone,
           SplintersGone, Sync, Renamed, SnapshotCopied, SnapshotRecorded, RollbackCopied,
           RolledBack, BlobForgotten, RowForgotten, Acts
  <1>2. /\ n \in Name /\ job[r] \in Job /\ RequestOK(job[r])
        /\ job[r].kind \in {"clone", "rename"} => job[r].to \in Name /\ job[r].to # n
    BY <1>1, AboutNames
  <1>3. FilesOK /\ TablesOK /\ RowsOK /\ DrivesOK /\ JobsOK
    BY TypesInParts
  <1>4. ASSUME FailsWithout(r, n), job[r].pc \notin {"splinters", "overrides"} PROVE NamesOK'
    BY <1>4, FailsNames DEF FailsWithout, drives
  <1>5. CASE Created(r) \/ Uploaded(r) \/ Formatted(r)
    BY <1>5, MakesNames
  <1>6. CASE Inspected(r)
    <2>1. /\ Finish(r) /\ UNCHANGED tables /\ UNCHANGED mount /\ tmps' = tmps
          /\ job[r].pc = "record" /\ job[r].kind = "upload"
      BY <1>6 DEF Inspected, drives
    <2>2. \/ names' = names /\ excused' = excused
          \/ /\ names' = [names EXCEPT ![n] = NoFile]
             /\ excused' = IF job[r].image = 0 THEN excused ELSE excused \cup {n}
      BY <1>6 DEF Inspected
    <2>3. /\ Subject(r)' = {} /\ job'[r].pc = "idle" /\ \A q \in Req \ {r} : job'[q] = job[q]
      BY <2>1, SubjectMoves
    <2>4. \A m \in Name \ {n} : SameAt(m)
      BY <1>3, <2>1, <2>2 DEF SameAt, tables, FilesOK
    <2>5. ASSUME n \notin excused'
          PROVE  Follows(n)' /\ (mount'.name = n => names'[n] = mount'.file)
      <3>1. Stage(r) /\ Follows(n) /\ (mount.name = n => names[n] = mount.file)
        BY <1>1, <2>1, <2>2, <2>5, MineOne
      <3>2. CASE names' = names
        BY <2>1, <3>1, <3>2 DEF Follows, Exists, tables
      <3>3. CASE names' # names
        <4>1. names'[n] = NoFile /\ job[r].image = 0
          BY <1>2, <1>3, <2>2, <2>5, <3>3 DEF FilesOK
        <4>2. mount.name # n /\ Bare(n)
          BY <2>1, <3>1, <4>1 DEF Stage
        <4> QED  BY <2>1, <4>1, <4>2 DEF Follows, Bare, tables, NoFile
      <3> QED  BY <3>2, <3>3
    <2> QED  BY <1>1, <1>2, <2>1, <2>2, <2>3, <2>4, <2>5, OneName
  <1>7. CASE Opens(r)
    <2>1. job[r].pc = "act" /\ job[r].kind = "mount"
      BY <1>7 DEF Opens, Acts
    <2>2. CASE ~Exists(n)
      BY <1>4, <1>7, <2>1, <2>2 DEF Opens
    <2>3. CASE Exists(n)
      <3>1. /\ mount' = [name |-> n, file |-> names[n]] /\ Finish(r) /\ UNCHANGED files
            /\ UNCHANGED tables /\ excused' = excused
        BY <1>7, <2>3 DEF Opens
      <3>2. /\ Subject(r)' = {} /\ job'[r].pc = "idle"
            /\ \A q \in Req \ {r} : job'[q] = job[q]
        BY <3>1, SubjectMoves
      <3>3. \A m \in Name \ {n} : SameAt(m)
        BY <3>1 DEF SameAt, tables, files
      <3>4. n \notin excused => Follows(n)
        BY <1>1, <2>1, MineOne
      <3>5. Follows(n) => Follows(n)'
        BY <3>1 DEF Follows, Exists, tables, files
      <3>6. mount'.name = n => names'[n] = mount'.file
        BY <3>1 DEF files
      <3> QED  BY <1>1, <1>2, <2>1, <3>1, <3>2, <3>3, <3>4, <3>5, <3>6, OneName
    <2> QED  BY <2>2, <2>3
  <1>8. CASE Unlinked(r)
    <2>1. job[r].pc = "act" /\ job[r].kind = "delete"
      BY <1>8 DEF Unlinked, Acts
    <2>2. CASE ~Exists(n)
      BY <1>4, <1>8, <2>1, <2>2 DEF Unlinked
    <2>3. CASE Exists(n)
      <3>1. PICK gone \in SUBSET Snap : gone = {s \in Snap : rows[s].name = n}
        OBVIOUS
      <3>2. /\ names' = [names EXCEPT ![n] = NoFile] /\ notes' = [notes EXCEPT ![n] = 0]
            /\ rows' = [s \in Snap |-> IF s \in gone THEN NoRef ELSE rows[s]]
            /\ job' = [job EXCEPT ![r].pc = "splinters", ![r].snaps = gone]
            /\ UNCHANGED <<tmps, policies, refs>> /\ mount' = mount /\ excused' = excused
        BY <1>8, <2>3, <3>1 DEF Unlinked, drives, Forgotten, SnapshotsOf
      <3>3. job'[r] = [job[r] EXCEPT !.pc = "splinters", !.snaps = gone]
            /\ \A q \in Req \ {r} : job'[q] = job[q]
        BY <1>3, <3>2 DEF JobsOK
      <3>4. job'[r].from = n /\ job'[r].to = job[r].to /\ job'[r].pc = "splinters"
            /\ job'[r].kind = "delete"
        BY <1>2, <2>1, <3>3 DEF Job
      <3>5. Subject(r)' = Subject(r)
        BY <3>4 DEF Subject
      <3>6. /\ names'[n] = NoFile /\ notes'[n] = 0 /\ \A s \in Snap : rows'[s].name # n
        BY <1>2, <1>3, <3>1, <3>2 DEF FilesOK, TablesOK, NoRef
      <3>7. \A m \in Name \ {n} : SameAt(m)
        BY <1>3, <3>1, <3>2 DEF SameAt, FilesOK, TablesOK, NoRef
      <3>8. n \notin excused => Stage(r)
        BY <1>1, <2>1, MineOne
      <3>9. n \notin excused => mount.name # n
        BY <2>1, <3>8 DEF Stage
      <3>10. Stage(r)'
        BY <3>4, <3>6 DEF Stage, Exists
      <3>11. n \in Subject(r)'
        BY <1>1, <2>1, <3>5, SubjectIs
      <3>12. Deleting(n)'
        BY <3>4, <3>11 DEF Deleting
      <3> QED  BY <1>1, <1>2, <2>1, <3>2, <3>3, <3>5, <3>7, <3>9, <3>10, <3>12, OneName
    <2> QED  BY <2>2, <2>3
  <1>9. CASE SnapshotsGone(r)
    <2>1. /\ job[r].pc = "splinters" /\ job[r].kind = "delete"
          /\ policies' = [policies EXCEPT ![n] = 0]
          /\ refs' = [f \in Ref |-> IF f = "splinter" /\ refs[f].name = n THEN NoRef ELSE refs[f]]
          /\ Goto(r, "overrides") /\ UNCHANGED files /\ UNCHANGED <<notes, rows>>
          /\ mount' = mount /\ excused' = excused
      BY <1>2, <1>9 DEF SnapshotsGone, drives, RequestOK
    <2>2. /\ Subject(r)' = Subject(r) /\ job'[r] = [job[r] EXCEPT !.pc = "overrides"]
          /\ \A q \in Req \ {r} : job'[q] = job[q]
      BY <2>1, SubjectMoves DEF Pc
    <2>3. job'[r].from = n /\ job'[r].pc = "overrides" /\ job'[r].kind = "delete"
      BY <1>2, <2>1, <2>2 DEF Job
    <2>4. \A m \in Name \ {n} : SameAt(m)
      BY <1>3, <2>1 DEF SameAt, files, TablesOK, NoRef
    <2>5. n \notin excused =>
            Stage(r) /\ (mount.name = n => names[n] = mount.file)
      BY <1>1, <2>1, MineOne
    <2>6. policies'[n] = 0 /\ \A f \in Ref : f = "splinter" => refs'[f].name # n
      BY <1>2, <1>3, <2>1 DEF TablesOK, NoRef
    <2>7. n \notin excused => Stage(r)'
      <3>1. Stage(r) => ~Exists(n) /\ notes[n] = 0 /\ \A s \in Snap : rows[s].name # n
        BY <2>1 DEF Stage
      <3>2. ~Exists(n) /\ notes[n] = 0 /\ (\A s \in Snap : rows[s].name # n) => Stage(r)'
        BY <2>1, <2>3, <2>6 DEF Stage, Exists, files
      <3> QED  BY <2>5, <3>1, <3>2
    <2>8. n \in Subject(r)'
      BY <1>1, <2>1, <2>2, SubjectIs
    <2>9. Deleting(n)'
      BY <2>3, <2>8 DEF Deleting
    <2>10. n \notin excused => (mount'.name = n => names'[n] = mount'.file)
      BY <2>1, <2>5 DEF files
    <2> QED  BY <1>1, <1>2, <2>1, <2>2, <2>4, <2>7, <2>9, <2>10, OneName
  <1>10. CASE SplintersGone(r)
    <2>1. /\ job[r].pc = "overrides" /\ job[r].kind = "delete"
          /\ refs' = [f \in Ref |-> IF f # "splinter" /\ refs[f].name = n THEN NoRef ELSE refs[f]]
          /\ Goto(r, "sync") /\ UNCHANGED files /\ UNCHANGED <<notes, policies, rows>>
          /\ mount' = mount /\ excused' = excused
      BY <1>2, <1>10 DEF SplintersGone, drives, RequestOK
    <2>2. /\ Subject(r)' = Subject(r) /\ job'[r] = [job[r] EXCEPT !.pc = "sync"]
          /\ \A q \in Req \ {r} : job'[q] = job[q]
      BY <2>1, SubjectMoves DEF Pc
    <2>3. job'[r].from = n /\ job'[r].pc = "sync" /\ job'[r].kind = "delete"
      BY <1>2, <2>1, <2>2 DEF Job
    <2>4. \A m \in Name \ {n} : SameAt(m)
      BY <1>3, <2>1 DEF SameAt, files, TablesOK, NoRef
    <2>5. n \notin excused =>
            Stage(r) /\ (mount.name = n => names[n] = mount.file)
      BY <1>1, <2>1, MineOne
    <2>6. ASSUME n \notin excused PROVE Follows(n)'
      <3>1. /\ names[n] = NoFile /\ notes[n] = 0 /\ policies[n] = 0
            /\ \A s \in Snap : rows[s].name # n
            /\ \A f \in Ref : f = "splinter" => refs[f].name # n
        BY <2>1, <2>5, <2>6 DEF Stage, Exists
      <3>2. \A f \in Ref : refs'[f].name # n
        BY <1>2, <2>1, <3>1 DEF NoRef
      <3> QED  BY <2>1, <3>1, <3>2 DEF Follows, files
    <2>7. Stage(r)'
      BY <2>3 DEF Stage
    <2>8. n \notin excused => (mount'.name = n => names'[n] = mount'.file)
      BY <2>1, <2>5 DEF files
    <2> QED  BY <1>1, <1>2, <2>1, <2>2, <2>4, <2>6, <2>7, <2>8, OneName
  <1>11. CASE Sync(r)
    BY <1>11, FailsNames DEF Sync
  <1>12. CASE SnapshotCopied(r)
    <2>1. job[r].pc = "act" /\ job[r].kind = "snapshot"
      BY <1>12 DEF SnapshotCopied, Acts
    <2>2. CASE ~Exists(n)
      BY <1>4, <1>12, <2>1, <2>2 DEF SnapshotCopied
    <2>3. CASE Exists(n)
      <3>1. /\ job' = [job EXCEPT ![r].pc = "record", ![r].snaps = {snapped + 1},
                                  ![r].image = names[n].image]
            /\ UNCHANGED files /\ UNCHANGED tables /\ mount' = mount /\ excused' = excused
        BY <1>12, <2>3 DEF SnapshotCopied, drives
      <3>2. job'[r] = [job[r] EXCEPT !.pc = "record", !.snaps = {snapped + 1},
                                     !.image = names[n].image]
            /\ \A q \in Req \ {r} : job'[q] = job[q]
        BY <1>3, <3>1 DEF JobsOK
      <3>3. /\ job'[r].from = n /\ job'[r].to = job[r].to /\ job'[r].pc = "record"
            /\ job'[r].kind = "snapshot" /\ job'[r].image = names[n].image
        BY <1>2, <2>1, <3>2 DEF Job
      <3>4. Subject(r)' = Subject(r)
        BY <3>3 DEF Subject
      <3>5. \A m \in Name : SameAt(m)
        BY <3>1 DEF SameAt, files, tables
      <3>6. Stage(r)'
        BY <2>3, <3>1, <3>3 DEF Stage, Exists, files
      <3>7. n \notin excused => Follows(n) /\ (mount.name = n => names[n] = mount.file)
        BY <1>1, <2>1, MineOne
      <3>8. Follows(n) => Follows(n)'
        BY <1>2, <3>5, FollowsFrame
      <3>9. n \notin excused => (mount'.name = n => names'[n] = mount'.file)
        BY <3>1, <3>7 DEF files
      <3> QED  BY <1>1, <1>2, <2>1, <3>1, <3>2, <3>4, <3>5, <3>6, <3>7, <3>8, <3>9, OneName
    <2> QED  BY <2>2, <2>3
  <1>13. CASE SnapshotRecorded(r)
    <2>1. /\ job[r].pc = "record" /\ job[r].kind = "snapshot"
          /\ rows' = [s \in Snap |-> IF s \in job[r].snaps
                                     THEN [name |-> n, image |-> job[r].image] ELSE rows[s]]
          /\ Finish(r) /\ UNCHANGED files /\ UNCHANGED <<notes, policies, refs>>
          /\ mount' = mount /\ excused' = excused
      BY <1>13 DEF SnapshotRecorded, drives
    <2>2. /\ Subject(r)' = {} /\ job'[r].pc = "idle" /\ \A q \in Req \ {r} : job'[q] = job[q]
      BY <2>1, SubjectMoves
    <2>3. \A s \in job[r].snaps : rows[s] = NoRef
      BY <2>1 DEF SnapsOK
    <2>4. \A m \in Name \ {n} : SameAt(m)
      BY <2>1, <2>3 DEF SameAt, files, NoRef
    <2>5. ASSUME n \notin excused
          PROVE  Follows(n)' /\ (mount'.name = n => names'[n] = mount'.file)
      <3>1. Stage(r) /\ Follows(n) /\ (mount.name = n => names[n] = mount.file)
        BY <1>1, <2>1, <2>5, MineOne
      <3>2. Exists(n) /\ job[r].image = names[n].image
        BY <2>1, <3>1 DEF Stage
      <3>3. \A s \in Snap : rows'[s].name = n => rows'[s].image = names[n].image
        BY <2>1, <3>1, <3>2 DEF Follows
      <3> QED  BY <2>1, <3>1, <3>2, <3>3 DEF Follows, Exists, files
    <2> QED  BY <1>1, <1>2, <2>1, <2>2, <2>4, <2>5, OneName
  <1>14. CASE RollbackCopied(r)
    <2>1. PICK s \in job[r].snaps :
            IF s \in blobs
            THEN /\ tmps' = [tmps EXCEPT ![n] = rows[s].image]
                 /\ job' = [job EXCEPT ![r].pc = "record"]
            ELSE Finish(r) /\ UNCHANGED tmps
      BY <1>14 DEF RollbackCopied
    <2>2. /\ job[r].pc = "act" /\ job[r].kind = "rollback" /\ names' = names /\ made' = made
          /\ UNCHANGED tables /\ mount' = mount /\ excused' = excused
      BY <1>14 DEF RollbackCopied, Acts, drives
    <2>3. CASE s \notin blobs
      BY <2>1, <2>2, <2>3, FailsNames DEF files
    <2>4. CASE s \in blobs
      <3>1. Goto(r, "record") /\ tmps' = [tmps EXCEPT ![n] = rows[s].image]
        BY <2>1, <2>4 DEF Goto
      <3>2. /\ Subject(r)' = Subject(r) /\ job'[r] = [job[r] EXCEPT !.pc = "record"]
            /\ \A q \in Req \ {r} : job'[q] = job[q]
        BY <3>1, SubjectMoves DEF Pc
      <3>3. job'[r].from = n /\ job'[r].pc = "record" /\ job'[r].kind = "rollback"
        BY <1>2, <2>2, <3>2 DEF Job
      <3>4. \A m \in Name \ {n} : SameAt(m)
        BY <1>3, <2>2, <3>1 DEF SameAt, tables, FilesOK
      <3>5. ASSUME n \notin excused
            PROVE  Stage(r)' /\ Follows(n)' /\ (mount'.name = n => names'[n] = mount'.file)
        <4>1. Stage(r) /\ Follows(n) /\ (mount.name = n => names[n] = mount.file)
          BY <1>1, <2>2, <3>5, MineOne
        <4>2. rows[s].name = n /\ mount.name # n /\ s \in Snap
          BY <1>2, <2>2, <4>1 DEF Stage, Job
        <4>3. Exists(n) /\ rows[s].image = names[n].image
          BY <4>1, <4>2 DEF Follows
        <4>4. tmps'[n] = names[n].image
          BY <1>2, <1>3, <3>1, <4>3 DEF FilesOK
        <4>5. Stage(r)'
          BY <2>2, <3>3, <4>2, <4>3, <4>4 DEF Stage, Exists
        <4>6. Follows(n)'
          BY <2>2, <4>1 DEF Follows, Exists, tables
        <4> QED  BY <2>2, <4>2, <4>5, <4>6
      <3> QED  BY <1>1, <1>2, <2>2, <3>2, <3>4, <3>5, OneName
    <2> QED  BY <2>3, <2>4
  <1>15. CASE RolledBack(r)
    <2>1. /\ job[r].pc = "record" /\ job[r].kind = "rollback"
          /\ tmps' = [tmps EXCEPT ![n] = 0]
          /\ names' = IF tmps[n] = 0 THEN names
                      ELSE [names EXCEPT ![n] = [image |-> tmps[n],
                                                 version |-> names[n].version + 1]]
          /\ Finish(r) /\ UNCHANGED tables /\ mount' = mount /\ excused' = excused
      BY <1>2, <1>3, <1>15 DEF RolledBack, drives, FilesOK
    <2>2. /\ Subject(r)' = {} /\ job'[r].pc = "idle" /\ \A q \in Req \ {r} : job'[q] = job[q]
      BY <2>1, SubjectMoves
    <2>3. \A m \in Name \ {n} : SameAt(m)
      BY <1>3, <2>1 DEF SameAt, tables, FilesOK
    <2>4. ASSUME n \notin excused
          PROVE  Follows(n)' /\ (mount'.name = n => names'[n] = mount'.file)
      <3>1. Stage(r) /\ Follows(n)
        BY <1>1, <2>1, <2>4, MineOne
      <3>2. Exists(n) /\ tmps[n] = names[n].image /\ mount.name # n
        BY <2>1, <3>1 DEF Stage
      <3>3. names[n].image # 0
        BY <1>2, <1>3, <3>2 DEF FilesOK, Exists
      <3>4. names'[n].image = names[n].image
        BY <1>2, <1>3, <2>1, <3>2 DEF FilesOK
      <3>5. names'[n] # NoFile
        BY <3>3, <3>4 DEF NoFile
      <3> QED  BY <2>1, <3>1, <3>2, <3>4, <3>5 DEF Follows, Exists, tables
    <2> QED  BY <1>1, <1>2, <2>1, <2>2, <2>3, <2>4, OneName
  <1>16. CASE BlobForgotten(r)
    <2>1. /\ job[r].pc = "act" /\ job[r].kind = "forget" /\ Goto(r, "record")
          /\ UNCHANGED files /\ UNCHANGED tables /\ mount' = mount /\ excused' = excused
      BY <1>16 DEF BlobForgotten, Acts, Goto, drives
    <2>2. /\ Subject(r)' = Subject(r) /\ job'[r] = [job[r] EXCEPT !.pc = "record"]
          /\ \A q \in Req \ {r} : job'[q] = job[q]
      BY <2>1, SubjectMoves DEF Pc
    <2>3. job'[r].pc = "record" /\ job'[r].kind = "forget"
      BY <1>2, <2>1, <2>2 DEF Job
    <2>4. \A m \in Name : SameAt(m)
      BY <2>1 DEF SameAt, files, tables
    <2>5. n \notin excused => Follows(n) /\ (mount.name = n => names[n] = mount.file)
      BY <1>1, <2>1, MineOne
    <2>6. Follows(n) => Follows(n)'
      BY <1>2, <2>4, FollowsFrame
    <2>7. Stage(r)'
      BY <2>3 DEF Stage
    <2>8. n \notin excused => (mount'.name = n => names'[n] = mount'.file)
      BY <2>1, <2>5 DEF files
    <2> QED  BY <1>1, <1>2, <2>1, <2>2, <2>4, <2>5, <2>6, <2>7, <2>8, OneName
  <1>17. CASE RowForgotten(r)
    <2>1. /\ job[r].pc = "record" /\ job[r].kind = "forget"
          /\ rows' = [s \in Snap |-> IF s \in job[r].snaps THEN NoRef ELSE rows[s]]
          /\ Finish(r) /\ UNCHANGED files /\ UNCHANGED <<notes, policies, refs>>
          /\ mount' = mount /\ excused' = excused
      BY <1>17 DEF RowForgotten, drives
    <2>2. /\ Subject(r)' = {} /\ job'[r].pc = "idle" /\ \A q \in Req \ {r} : job'[q] = job[q]
      BY <2>1, SubjectMoves
    <2>3. \A s \in job[r].snaps : rows[s].name \in {n, NoName} \cup excused
      BY <2>1 DEF SnapsOK
    <2>4. \A m \in Name \ ({n} \cup excused) : SameAt(m)
      BY <2>1, <2>3 DEF SameAt, files, NoRef
    <2>5. n \notin excused => Follows(n) /\ (mount.name = n => names[n] = mount.file)
      BY <1>1, <2>1, MineOne
    <2>6. \A s \in Snap : rows'[s].name = n => rows'[s] = rows[s]
      BY <1>2, <2>1 DEF NoRef
    <2>7. Follows(n) => Follows(n)'
      BY <2>1, <2>6 DEF Follows, Exists, files
    <2>8. n \notin excused => (mount'.name = n => names'[n] = mount'.file)
      BY <2>1, <2>5 DEF files
    <2> QED  BY <1>1, <1>2, <2>1, <2>2, <2>4, <2>5, <2>7, <2>8, OneName
  <1>18. CASE Renamed(r)
    BY <1>18, RenamedNames
  <1> QED  BY <1>5, <1>6, <1>7, <1>8, <1>9, <1>10, <1>11, <1>12, <1>13, <1>14, <1>15, <1>16, <1>17,
              <1>18 DEF RequestStep

LEMMA BeginsNames ==
    ASSUME Types, Types', NamesOK, NEW r \in Req, NEW kind \in Kind, NEW from \in Name,
           NEW to \in Name \cup {NoName}, NEW snaps \in SUBSET Snap,
           Begins(r, kind, from, to, snaps)
    PROVE  NamesOK'
  <1> USE ConstantsAssumption
  <1>1. /\ job[r].pc = "idle" /\ excused' = Met({from, to} \ {NoName})
        /\ job' = [job EXCEPT ![r] = [NoJob EXCEPT !.pc = "act", !.kind = kind, !.from = from,
                                               !.to = to, !.snaps = snaps]]
        /\ UNCHANGED files /\ UNCHANGED tables /\ mount' = mount
    BY DEF Begins, Asks, drives
  <1>2. PICK ns \in SUBSET Name : ns = {from, to} \ {NoName}
    OBVIOUS
  <1>3. /\ \A q \in Req \ {r} : job'[q] = job[q]
        /\ job'[r] = [pc |-> "act", kind |-> kind, from |-> from, to |-> to, snaps |-> snaps,
                      image |-> 0]
    BY <1>1 DEF NoJob, Types, LibraryTypeOK
  <1>4. Subject(r)' = ns /\ Subject(r) = {}
    <2>1. job[r] = NoJob
      BY <1>1 DEF Types, RequestOK
    <2> QED  BY <1>2, <1>3, <2>1 DEF Subject, NoJob
  <1>5. Alone /\ Stages /\ RowsFollow /\ MountedImageStays
    BY DEF NamesOK
  <1>6. Alone'
    <2>1. {r} \in SUBSET Req /\ \A p, q \in {r} : p = q
      OBVIOUS
    <2>2. \A p \in {r} : Subject(p)' = ns
      BY <1>4
    <2> QED  BY <1>1, <1>2, <1>3, <1>5, <2>1, <2>2, AloneMet
  <1>7. excused \subseteq excused'
    BY <1>1, <1>2, <1>5, MetTogether
  <1>8. \A m \in Name : SameAt(m)
    BY <1>1 DEF SameAt, files, tables
  <1>9. Stage(r)'
    <2>1. /\ kind = "create" => ~Exists(from)
          /\ kind \in {"clone", "rename"} => ~Exists(to)
          /\ kind \in {"delete", "rename", "rollback"} => mount.name # from
          /\ \A s \in snaps : rows[s].name = from
      BY DEF Begins
    <2> QED  BY <1>1, <1>3, <2>1 DEF Stage, Exists, files, tables
  <1>10. \A q \in Req : \/ job'[q] = job[q] /\ Subject(q) \cap {} = {}
                        \/ Subject(q) = {} /\ Stage(q)'
    BY <1>3, <1>4, <1>9
  <1>11. Stages' /\ RowsFollow' /\ MountedImageStays'
    <2>1. {} \in SUBSET Name /\ \A n \in {} \ excused' : FALSE
      OBVIOUS
    <2>2. \A q \in Req : \/ /\ job'[q] = job[q]
                            /\ Subject(q) \cap {} # {} => Subject(q) \subseteq excused'
                         \/ /\ Subject(q) \subseteq {}
                            /\ Subject(q)' \cap excused' = {} => Stage(q)'
      BY <1>10
    <2> QED  BY <1>5, <1>7, <1>8, <2>1, <2>2, Touches
  <1> QED  BY <1>6, <1>11 DEF NamesOK

\* A row is written at a name, by the way: R is the request that tells the session.
LEMMA WrittenNames ==
    ASSUME Types, Types', NamesOK, NEW n \in Name, NEW R \in SUBSET Req,
           excused' = Met({n}), \A p, q \in R : p = q,
           \A q \in Req \ R : job'[q] = job[q],
           \A q \in R : Subject(q) = {} /\ Subject(q)' = {n} /\ Stage(q)',
           \A m \in Name \ {n} : SameAt(m),
           UNCHANGED names, UNCHANGED mount,
           Follows(n) => Follows(n)'
    PROVE  NamesOK'
  <1> USE ConstantsAssumption
  <1>1. Alone /\ Stages /\ RowsFollow /\ MountedImageStays
    BY DEF NamesOK
  <1>2. /\ excused \subseteq excused'
        /\ \A q \in Req : Subject(q) \cap {n} # {} => Subject(q) \subseteq excused' /\ n \in excused'
    <2>1. {n} \in SUBSET Name
      OBVIOUS
    <2> QED  BY <1>1, <2>1, MetTogether
  <1>3. Alone'
    BY <1>1, AloneMet
  <1>4. n \notin excused' => Follows(n)'
    <2>1. n \notin excused' => ~Deleting(n)
      BY <1>2 DEF Deleting
    <2> QED  BY <1>1, <1>2, <2>1 DEF RowsFollow
  <1>5. n \notin excused' => (mount'.name = n => names'[n] = mount'.file)
    BY <1>1, <1>2 DEF MountedImageStays, NoMount
  <1>6. \A q \in Req : \/ /\ job'[q] = job[q]
                          /\ Subject(q) \cap {n} # {} => Subject(q) \subseteq excused'
                       \/ /\ Subject(q) \subseteq {n}
                          /\ Subject(q)' \cap excused' = {} => Stage(q)'
    BY <1>2
  <1>7. \A m \in {n} \ excused' : /\ Deleting(m)' \/ Follows(m)'
                                  /\ mount'.name = m => names'[m] = mount'.file
    BY <1>4, <1>5
  <1>8. Stages' /\ RowsFollow' /\ MountedImageStays'
    <2>1. {n} \in SUBSET Name /\ \A m \in Name \ ({n} \cup excused') : SameAt(m)
      OBVIOUS
    <2> QED  BY <1>1, <1>2, <1>6, <1>7, <2>1, Touches
  <1> QED  BY <1>3, <1>8 DEF NamesOK

LEMMA ToldNames ==
    ASSUME Types, Types', NamesOK, NEW r \in Req, NEW f \in Ref, NEW n \in Name, NEW row,
           Told(r, f, n), refs' = [refs EXCEPT ![f] = row],
           row.name = n => Exists(n) /\ row.image = names[n].image,
           row.name \in {n, NoName}
    PROVE  NamesOK'
  <1> USE ConstantsAssumption
  <1>1. /\ excused' = Met({n}) /\ UNCHANGED files /\ UNCHANGED <<notes, policies, rows>>
        /\ mount' = mount
    BY DEF Told, drives
  <1>2. TablesOK /\ JobsOK
    BY TypesInParts
  <1>3. \A g \in Ref : refs'[g] = IF g = f THEN row ELSE refs[g]
    BY <1>2 DEF TablesOK
  <1>4. \A m \in Name \ {n} : SameAt(m)
    BY <1>1, <1>3 DEF SameAt, files
  <1>5. Follows(n) => Follows(n)'
    BY <1>1, <1>3 DEF Follows, Exists, files
  <1>6. CASE f # "client"
    <2>1. job' = job
      BY <1>6 DEF Told
    <2>2. {} \in SUBSET Req /\ \A q \in Req \ {} : job'[q] = job[q]
      BY <2>1
    <2> QED  BY <1>1, <1>4, <1>5, <2>2, WrittenNames DEF files
  <1>7. CASE f = "client"
    <2>1. /\ job[r].pc = "idle"
          /\ job' = [job EXCEPT ![r] = [NoJob EXCEPT !.pc = "sync", !.kind = "point", !.from = n]]
      BY <1>7 DEF Told
    <2>2. /\ \A q \in Req \ {r} : job'[q] = job[q]
          /\ job'[r] = [pc |-> "sync", kind |-> "point", from |-> n, to |-> NoName, snaps |-> {},
                        image |-> 0]
      BY <1>2, <2>1 DEF NoJob, JobsOK
    <2>3. job[r] = NoJob
      BY <1>2, <2>1 DEF JobsOK, RequestOK
    <2>4. Subject(r) = {} /\ Subject(r)' = {n}
      BY <2>2, <2>3 DEF Subject, NoJob
    <2>5. Stage(r)'
      BY <2>2 DEF Stage
    <2>6. {r} \in SUBSET Req /\ (\A p, q \in {r} : p = q)
          /\ \A q \in {r} : Subject(q) = {} /\ Subject(q)' = {n} /\ Stage(q)'
      BY <2>4, <2>5
    <2> QED  BY <1>1, <1>4, <1>5, <2>2, <2>6, WrittenNames DEF files
  <1> QED  BY <1>6, <1>7

LEMMA NamesStep ==
    ASSUME Types, Types', NamesOK, SnapsOK, [Next]_vars PROVE NamesOK'
  <1> USE ConstantsAssumption
  <1>1. FilesOK /\ TablesOK /\ JobsOK
    BY TypesInParts
  <1>2. ASSUME NEW r \in Req, NEW f \in Ref, NEW n \in Name, Point(r, f, n) PROVE NamesOK'
    <2>1. PICK row : row = [name |-> n, image |-> names[n].image]
      OBVIOUS
    <2>2. refs' = [refs EXCEPT ![f] = row] /\ Exists(n) /\ Told(r, f, n)
      BY <1>2, <2>1 DEF Point
    <2> QED  BY <2>1, <2>2, ToldNames
  <1>3. ASSUME NEW r \in Req, NEW f \in Ref, Unpoint(r, f) PROVE NamesOK'
    <2>1. PICK n : n = refs[f].name
      OBVIOUS
    <2>2. refs' = [refs EXCEPT ![f] = NoRef] /\ refs[f] # NoRef /\ Told(r, f, n)
      BY <1>3, <2>1 DEF Unpoint
    <2>3. n \in Name
      BY <1>1, <2>1, <2>2 DEF TablesOK
    <2> QED  BY <2>2, <2>3, ToldNames DEF NoRef
  <1>4. ASSUME NEW n \in Name, SetNote(n) \/ SetPolicy(n) PROVE NamesOK'
    <2>1. /\ UNCHANGED files /\ UNCHANGED <<refs, rows>> /\ UNCHANGED mount
          /\ UNCHANGED job /\ excused' = Met({n})
      BY <1>4 DEF SetNote, SetPolicy, drives
    <2>2. /\ notes' = notes \/ notes' = [notes EXCEPT ![n] = names[n].image]
          /\ policies' = policies \/ \E whose \in {0, Whose(n)} :
                                       policies' = [policies EXCEPT ![n] = whose]
      BY <1>4 DEF SetNote, SetPolicy
    <2>3. \A m \in Name \ {n} : SameAt(m)
      BY <1>1, <2>1, <2>2 DEF SameAt, files, TablesOK
    <2>4. Whose(n) \in {names[n].image, Orphan}
      BY DEF Whose
    <2>5. notes'[n] \in {notes[n], names[n].image}
          /\ policies'[n] \in {policies[n], 0, names[n].image, Orphan}
      BY <1>1, <2>2, <2>4 DEF TablesOK
    <2>6. Follows(n) => Follows(n)'
      BY <2>1, <2>5 DEF Follows, Exists, files
    <2>7. {} \in SUBSET Req /\ \A q \in Req \ {} : job'[q] = job[q]
      BY <2>1
    <2> QED  BY <2>1, <2>3, <2>6, <2>7, WrittenNames DEF files
  <1>5. CASE Unmount \/ UNCHANGED vars
    <2>1. /\ UNCHANGED files /\ UNCHANGED tables /\ mount' \in {mount, NoMount}
          /\ UNCHANGED job /\ UNCHANGED excused
      BY <1>5 DEF Unmount, vars, drives
    <2>2. \A n \in Name : SameAt(n)
      BY <2>1 DEF SameAt, files, tables, NoMount
    <2>3. Alone /\ Stages /\ RowsFollow /\ MountedImageStays
      BY DEF NamesOK
    <2>4. Alone'
      BY <2>1, <2>3 DEF Alone, Subject
    <2>5. /\ {} \in SUBSET Name /\ \A n \in {} \ excused' : FALSE
          /\ \A q \in Req : /\ job'[q] = job[q]
                            /\ Subject(q) \cap {} # {} => Subject(q) \subseteq excused'
      BY <2>1
    <2>6. Stages' /\ RowsFollow' /\ MountedImageStays'
      BY <2>1, <2>2, <2>3, <2>5, Touches
    <2> QED  BY <2>4, <2>6 DEF NamesOK
  <1>6. ASSUME NEW r \in Req, NEW kind \in Kind, NEW from \in Name,
               NEW to \in Name \cup {NoName}, NEW snaps \in SUBSET Snap,
               Begins(r, kind, from, to, snaps)
        PROVE  NamesOK'
    BY <1>6, BeginsNames
  <1>7. ASSUME NEW r \in Req, RequestStep(r) PROVE NamesOK'
    BY <1>7, RequestNames
  <1> QED  BY <1>2, <1>3, <1>4, <1>5, <1>6, <1>7, NextCases, Zenon

-----------------------------------------------------------------------------
(* Snapshots *)

\* A snapshot that a request is at, and one that is between no two steps.
SnapOf(r, s) ==
    LET j == job[r]
    IN /\ s <= snapped
       /\ j.kind = "snapshot" =>
            /\ rows[s] = NoRef /\ s \in blobs
            /\ \A q \in Req : q # r => s \notin job[q].snaps
       /\ j.kind = "delete" => rows[s] = NoRef
       /\ j.kind = "forget" /\ j.pc = "record" => s \notin blobs
       /\ j.kind \in {"forget", "rollback"} => rows[s].name \in {j.from, NoName} \cup excused
Accounted(s) ==
    (\A r \in Req : s \in job[r].snaps => ~Between(job[r])) => (rows[s] # NoRef <=> s \in blobs)

LEMMA SnapsInParts ==
    /\ SnapsOK <=> /\ \A r \in Req : \A s \in job[r].snaps : SnapOf(r, s)
                   /\ \A s \in 1 .. snapped : Accounted(s)
    /\ SnapsOK' <=> /\ \A r \in Req : \A s \in job'[r].snaps : SnapOf(r, s)'
                    /\ \A s \in 1 .. snapped' : Accounted(s)'
  BY Zenon DEF SnapsOK, SnapOf, Accounted

\* A request goes on about the same snapshots, or is done, and is between no steps.
Passes(q) ==
    \/ job'[q] = job[q]
    \/ /\ ~Between(job[q])
       /\ \/ job'[q].snaps = {}
          \/ /\ job'[q].snaps = job[q].snaps /\ job'[q].kind = job[q].kind
             /\ job'[q].from = job[q].from /\ ~Between(job'[q])

LEMMA SnapsFrame ==
    ASSUME SnapsOK, UNCHANGED <<rows, blobs, snapped>>, excused \subseteq excused',
           \A q \in Req : Passes(q)
    PROVE  SnapsOK'
  <1>1. ASSUME NEW r \in Req, NEW s \in job'[r].snaps PROVE SnapOf(r, s)'
    <2>1. s \in job[r].snaps /\ job'[r].kind = job[r].kind /\ job'[r].from = job[r].from
      BY DEF Passes
    <2>2. SnapOf(r, s)
      BY <2>1, SnapsInParts
    <2>3. \A q \in Req : s \notin job[q].snaps => s \notin job'[q].snaps
      BY DEF Passes
    <2>4. job'[r].kind = "forget" /\ job'[r].pc = "record" => s \notin blobs
      BY <2>1, <2>2 DEF Passes, Between, SnapOf
    <2> QED  BY <2>1, <2>2, <2>3, <2>4 DEF SnapOf
  <1>2. ASSUME NEW s \in 1 .. snapped' PROVE Accounted(s)'
    <2>1. Accounted(s)
      BY SnapsInParts
    <2>2. ASSUME NEW r \in Req, s \in job[r].snaps, Between(job[r])
          PROVE  s \in job'[r].snaps /\ Between(job'[r])
      BY <2>2 DEF Passes
    <2> QED  BY <2>1, <2>2 DEF Accounted
  <1> QED  BY <1>1, <1>2, SnapsInParts

\* Every request passes when one of them does, and the others are not concerned.
LEMMA OnePasses ==
    ASSUME Types, NEW r \in Req, ~Between(job[r]),
           Finish(r) \/ \E pc \in Pc : Goto(r, pc) /\ ~Between([job[r] EXCEPT !.pc = pc])
    PROVE  \A q \in Req : Passes(q)
  <1>1. job \in [Req -> Job]
    BY DEF Types, LibraryTypeOK
  <1>2. CASE Finish(r)
    BY <1>1, <1>2 DEF Finish, NoJob, Passes
  <1>3. ASSUME NEW pc \in Pc, Goto(r, pc), ~Between([job[r] EXCEPT !.pc = pc])
        PROVE  \A q \in Req : Passes(q)
    <2>1. job'[r] = [job[r] EXCEPT !.pc = pc] /\ \A q \in Req \ {r} : job'[q] = job[q]
      BY <1>1, <1>3 DEF Goto
    <2>2. job'[r].snaps = job[r].snaps /\ job'[r].kind = job[r].kind
          /\ job'[r].from = job[r].from
      BY <1>1, <2>1 DEF Job
    <2>3. ~Between(job'[r])
      BY <1>3, <2>1
    <2> QED  BY <2>1, <2>2, <2>3 DEF Passes
  <1> QED  BY <1>2, <1>3

\* The rows of the snapshots go to the new name; what is about to roll back or to
\* forget one of them has met the rename.
LEMMA RenamedSnaps ==
    ASSUME Types, Types', NamesOK, SnapsOK, NEW r \in Req, Renamed(r),
           excused \subseteq excused'
    PROVE  SnapsOK'
  <1> USE ConstantsAssumption
  <1> PICK n : n = job[r].from
    OBVIOUS
  <1> PICK to : to = job[r].to
    OBVIOUS
  <1>1. job[r].pc = "act" /\ job[r].kind = "rename"
    BY DEF Renamed, Acts
  <1>2. n \in Name /\ to \in Name /\ to # n /\ Subject(r) = {n, to} /\ job[r] \in Job
    BY <1>1, AboutNames, SubjectIs
  <1>3. FilesOK /\ RowsOK /\ JobsOK
    BY TypesInParts
  <1>4. ~Between(job[r]) /\ ~Between([job[r] EXCEPT !.pc = "sync"])
    BY <1>1, <1>2 DEF Between, Job
  <1>5. blobs' = blobs /\ snapped' = snapped /\ (Goto(r, "sync") \/ Finish(r))
    BY DEF Renamed, FailsWithout, snapshots
  <1>6. \A q \in Req : Passes(q)
    BY <1>4, <1>5, OnePasses DEF Pc
  <1>7. CASE rows' = rows
    BY <1>5, <1>6, <1>7, SnapsFrame
  <1>8. CASE rows' # rows
    <2>1. rows' = [x \in DOMAIN rows |-> Moved(rows[x], n, to)]
      BY <1>8 DEF Renamed, FailsWithout, tables
    <2>2. \A s \in Snap : /\ rows'[s] = NoRef <=> rows[s] = NoRef
                          /\ rows'[s] = rows[s] \/ (rows[s].name = n /\ rows'[s].name = to)
      <3>1. ASSUME NEW s \in Snap
            PROVE  /\ rows'[s] = NoRef <=> rows[s] = NoRef
                   /\ rows'[s] = rows[s] \/ (rows[s].name = n /\ rows'[s].name = to)
        <4>1. PICK row \in [name : Name \cup {NoName}, image : 0 .. MaxImages] : row = rows[s]
          BY <1>3 DEF RowsOK
        <4>2. rows'[s] = Moved(row, n, to)
          BY <1>3, <2>1, <4>1 DEF RowsOK
        <4>3. CASE row.name = n
          <5>1. rows'[s].name = to /\ row.name # NoName
            BY <1>2, <4>1, <4>2, <4>3 DEF Moved
          <5>2. rows'[s] # NoRef /\ rows[s] # NoRef
            BY <1>2, <4>1, <5>1 DEF NoRef
          <5> QED  BY <4>1, <4>3, <5>1, <5>2
        <4>4. CASE row.name # n
          <5>1. rows'[s] = rows[s]
            BY <4>1, <4>2, <4>4 DEF Moved
          <5> QED  BY <5>1
        <4> QED  BY <4>3, <4>4
      <3> QED  BY <3>1
    <2>3. ASSUME NEW q \in Req, NEW s \in job'[q].snaps PROVE SnapOf(q, s)'
      <3>1. s \in job[q].snaps /\ job'[q].kind = job[q].kind /\ job'[q].from = job[q].from
        BY <1>6, <2>3 DEF Passes
      <3>2. SnapOf(q, s) /\ s \in Snap
        <4>1. job[q] \in Job
          BY <1>3 DEF JobsOK
        <4> QED  BY <3>1, <4>1, SnapsInParts DEF Job
      <3>3. \A p \in Req : s \notin job[p].snaps => s \notin job'[p].snaps
        BY <1>6 DEF Passes
      <3>4. job'[q].kind = "forget" /\ job'[q].pc = "record" => s \notin blobs
        BY <1>6, <3>1, <3>2 DEF Passes, Between, SnapOf
      <3>5. ASSUME job[q].kind \in {"forget", "rollback"}
            PROVE  rows'[s].name \in {job[q].from, NoName} \cup excused'
        <4>1. rows[s].name \in {job[q].from, NoName} \cup excused
          BY <3>2, <3>5 DEF SnapOf
        <4>2. CASE rows'[s] = rows[s]
          BY <4>1, <4>2
        <4>3. CASE rows[s].name = n /\ rows'[s].name = to
          <5>1. CASE n \in excused
            BY <1>2, <4>3, <5>1 DEF NamesOK, Alone
          <5>2. CASE n = job[q].from
            <6>1. q # r /\ n \in Subject(q)
              BY <1>1, <1>2, <3>5, <5>2 DEF Subject
            <6>2. Subject(r) \subseteq excused
              BY <1>2, <6>1 DEF NamesOK, Alone
            <6> QED  BY <1>2, <4>3, <6>2
          <5> QED  BY <1>2, <4>1, <4>3, <5>1, <5>2
        <4> QED  BY <2>2, <3>2, <4>2, <4>3
      <3> QED  BY <1>5, <2>2, <3>1, <3>2, <3>3, <3>4, <3>5 DEF SnapOf
    <2>4. ASSUME NEW s \in 1 .. snapped' PROVE Accounted(s)'
      <3>1. Accounted(s) /\ s \in Snap
        BY <1>3, <1>5, SnapsInParts DEF RowsOK, Snap
      <3>2. ASSUME NEW q \in Req, s \in job[q].snaps, Between(job[q])
            PROVE  s \in job'[q].snaps /\ Between(job'[q])
        BY <1>6, <3>2 DEF Passes
      <3> QED  BY <1>5, <2>2, <3>1, <3>2 DEF Accounted
    <2> QED  BY <2>3, <2>4, SnapsInParts
  <1> QED  BY <1>7, <1>8

\* One step of a request that is about snapshots: it suffices to look at what it
\* does to its own and to theirs.
LEMMA RequestSnaps ==
    ASSUME Types, Types', NamesOK, SnapsOK, NEW r \in Req, RequestStep(r),
           excused \subseteq excused'
    PROVE  SnapsOK'
  <1> USE ConstantsAssumption
  <1> PICK n : n = job[r].from
    OBVIOUS
  <1>1. job[r].pc # "idle"
    BY DEF RequestStep, Created, Uploaded, Inspected, Formatted, Opens, Unlinked, SnapshotsGone,
           SplintersGone, Sync, Renamed, SnapshotCopied, SnapshotRecorded, RollbackCopied,
           RolledBack, BlobForgotten, RowForgotten, Acts
  <1>2. n \in Name /\ job[r] \in Job /\ RequestOK(job[r])
    BY <1>1, AboutNames
  <1>3. FilesOK /\ RowsOK /\ JobsOK
    BY TypesInParts
  <1>4. \A q \in Req : job[q] \in Job /\ job[q].snaps \subseteq Snap
    BY <1>3 DEF JobsOK, Job
  <1>5. /\ \A q \in Req : \A s \in job[q].snaps : SnapOf(q, s)
        /\ \A s \in 1 .. snapped : Accounted(s)
    BY SnapsInParts
  <1>6. ASSUME UNCHANGED <<rows, blobs, snapped>>, ~Between(job[r]),
               Finish(r) \/ \E pc \in Pc : Goto(r, pc) /\ ~Between([job[r] EXCEPT !.pc = pc])
        PROVE  SnapsOK'
    BY <1>6, OnePasses, SnapsFrame
  <1>7. ASSUME FailsWithout(r, n), job[r].pc = "act" PROVE SnapsOK'
    BY <1>6, <1>7 DEF FailsWithout, tables, snapshots, Between
  <1>8. CASE Created(r)
    BY <1>6, <1>8 DEF Created, FailsWithout, tables, snapshots, Between, Acts
  <1>9. CASE Uploaded(r)
    <2>1. /\ UNCHANGED <<rows, blobs, snapped>> /\ job[r].kind = "upload"
          /\ job' = [job EXCEPT ![r].pc = "record", ![r].image = names[n].image]
      BY <1>9 DEF Uploaded, tables, snapshots, Acts
    <2>2. job'[r] = [job[r] EXCEPT !.pc = "record", !.image = names[n].image]
          /\ \A q \in Req \ {r} : job'[q] = job[q]
      BY <1>3, <2>1 DEF JobsOK
    <2>3. job'[r].snaps = job[r].snaps /\ job'[r].kind = job[r].kind
          /\ job'[r].from = job[r].from
      BY <1>2, <2>2 DEF Job
    <2>4. \A q \in Req : Passes(q)
      BY <2>1, <2>2, <2>3 DEF Passes, Between
    <2> QED  BY <2>1, <2>4, SnapsFrame
  <1>10. CASE Inspected(r)
    BY <1>6, <1>10 DEF Inspected, tables, snapshots, Between
  <1>11. CASE Formatted(r)
    BY <1>6, <1>11 DEF Formatted, tables, snapshots, Between, Acts
  <1>12. CASE Opens(r)
    BY <1>6, <1>7, <1>12 DEF Opens, tables, snapshots, Between, Acts
  <1>13. CASE SplintersGone(r)
    <2>1. /\ UNCHANGED <<rows, blobs, snapped>> /\ job[r].pc = "overrides"
          /\ job[r].kind = "delete" /\ Goto(r, "sync")
      BY <1>2, <1>13 DEF SplintersGone, snapshots, RequestOK
    <2>2. ~Between([job[r] EXCEPT !.pc = "sync"])
      BY <1>2, <2>1 DEF Between, Job
    <2> QED  BY <1>6, <2>1, <2>2 DEF Between, Pc
  <1>14. CASE Sync(r)
    <2>1. UNCHANGED <<rows, blobs, snapped>> /\ Finish(r) /\ job[r].pc = "sync"
      BY <1>14 DEF Sync, tables, snapshots
    <2> QED  BY <1>2, <1>6, <2>1 DEF Between, RequestOK
  <1>15. CASE RollbackCopied(r)
    <2>1. /\ UNCHANGED <<rows, blobs, snapped>> /\ job[r].kind = "rollback"
          /\ Goto(r, "record") \/ Finish(r)
      BY <1>15 DEF RollbackCopied, tables, snapshots, Acts, Goto
    <2>2. ~Between([job[r] EXCEPT !.pc = "record"])
      BY <1>2, <2>1 DEF Between, Job
    <2> QED  BY <1>6, <2>1, <2>2 DEF Between, Pc
  <1>16. CASE RolledBack(r)
    BY <1>6, <1>16 DEF RolledBack, tables, snapshots, Between
  <1>17. CASE Unlinked(r)
    <2>1. job[r].pc = "act" /\ job[r].kind = "delete"
      BY <1>17 DEF Unlinked, Acts
    <2>2. CASE ~Exists(n)
      BY <1>7, <1>17, <2>1, <2>2 DEF Unlinked
    <2>3. CASE Exists(n)
      <3>1. PICK gone \in SUBSET Snap : gone = {s \in Snap : rows[s].name = n}
        OBVIOUS
      <3>2. /\ rows' = [s \in Snap |-> IF s \in gone THEN NoRef ELSE rows[s]]
            /\ job' = [job EXCEPT ![r].pc = "splinters", ![r].snaps = gone]
            /\ blobs' = blobs /\ snapped' = snapped
        BY <1>17, <2>3, <3>1 DEF Unlinked, snapshots, Forgotten, SnapshotsOf
      <3>3. job'[r] = [job[r] EXCEPT !.pc = "splinters", !.snaps = gone]
            /\ \A q \in Req \ {r} : job'[q] = job[q]
        BY <1>3, <3>2 DEF JobsOK
      <3>4. job'[r].snaps = gone /\ job'[r].pc = "splinters" /\ job'[r].kind = "delete"
        BY <1>2, <2>1, <3>3 DEF Job
      <3>5. \A s \in gone : s <= snapped /\ rows[s] # NoRef /\ rows'[s] = NoRef
        BY <1>2, <1>3, <3>1, <3>2 DEF RowsOK, NoRef, Snap
      <3>6. \A s \in Snap \ gone : rows'[s] = rows[s]
        BY <3>2
      <3>7. ASSUME NEW q \in Req \ {r}, NEW s \in job'[q].snaps PROVE SnapOf(q, s)'
        <4>1. SnapOf(q, s) /\ s \in Snap
          BY <1>4, <1>5, <3>3, <3>7
        <4>2. rows'[s] = rows[s] \/ rows'[s] = NoRef
          BY <3>5, <3>6, <4>1
        <4>3. job[q].kind = "snapshot" => s \notin gone
          BY <3>5, <4>1 DEF SnapOf
        <4> QED  BY <3>2, <3>3, <3>4, <4>1, <4>2, <4>3 DEF SnapOf, NoRef
      <3>8. ASSUME NEW s \in job'[r].snaps PROVE SnapOf(r, s)'
        BY <3>2, <3>4, <3>5 DEF SnapOf
      <3>9. ASSUME NEW s \in 1 .. snapped' PROVE Accounted(s)'
        <4>1. CASE s \in gone
          BY <3>4, <4>1 DEF Accounted, Between
        <4>2. CASE s \notin gone
          <5>1. s \in Snap \ gone /\ s \in 1 .. snapped
            BY <1>3, <3>2, <4>2 DEF RowsOK, Snap
          <5>2. ~Between(job[r])
            BY <2>1 DEF Between
          <5> QED  BY <1>5, <3>2, <3>3, <3>6, <5>1, <5>2 DEF Accounted
        <4> QED  BY <4>1, <4>2
      <3> QED  BY <3>7, <3>8, <3>9, SnapsInParts
    <2> QED  BY <2>2, <2>3
  <1>18. CASE SnapshotsGone(r)
    <2>1. /\ job[r].pc = "splinters" /\ job[r].kind = "delete" /\ Goto(r, "overrides")
          /\ blobs' = blobs \ job[r].snaps /\ rows' = rows /\ snapped' = snapped
      BY <1>2, <1>18 DEF SnapshotsGone, RequestOK
    <2>2. /\ job'[r] = [job[r] EXCEPT !.pc = "overrides"]
          /\ \A q \in Req \ {r} : job'[q] = job[q]
      BY <1>3, <2>1 DEF Goto, JobsOK
    <2>3. job'[r].snaps = job[r].snaps /\ job'[r].kind = "delete" /\ job'[r].pc = "overrides"
      BY <1>2, <2>1, <2>2 DEF Job
    <2>4. ASSUME NEW q \in Req, NEW s \in job'[q].snaps PROVE SnapOf(q, s)'
      <3>1. SnapOf(q, s) /\ job'[q].kind = job[q].kind
        BY <1>5, <2>1, <2>2, <2>3, <2>4
      <3> QED  BY <2>1, <2>2, <2>3, <3>1 DEF SnapOf
    <2>5. ASSUME NEW s \in 1 .. snapped' PROVE Accounted(s)'
      <3>1. CASE s \in job[r].snaps
        BY <1>5, <2>1, <3>1 DEF SnapOf, Accounted
      <3>2. CASE s \notin job[r].snaps
        BY <1>5, <2>1, <2>2, <3>2 DEF Accounted
      <3> QED  BY <3>1, <3>2
    <2> QED  BY <2>4, <2>5, SnapsInParts
  <1>19. CASE SnapshotCopied(r)
    <2>1. job[r].pc = "act" /\ job[r].kind = "snapshot"
      BY <1>19 DEF SnapshotCopied, Acts
    <2>2. CASE ~Exists(n)
      BY <1>7, <1>19, <2>1, <2>2 DEF SnapshotCopied
    <2>3. CASE Exists(n)
      <3>1. /\ job' = [job EXCEPT ![r].pc = "record", ![r].snaps = {snapped + 1},
                                  ![r].image = names[n].image]
            /\ snapped < MaxSnaps /\ snapped' = snapped + 1
            /\ blobs' = blobs \cup {snapped + 1} /\ rows' = rows
        BY <1>19, <2>3 DEF SnapshotCopied, Copied, tables
      <3>2. job'[r] = [job[r] EXCEPT !.pc = "record", !.snaps = {snapped + 1},
                                     !.image = names[n].image]
            /\ \A q \in Req \ {r} : job'[q] = job[q]
        BY <1>3, <3>1 DEF JobsOK
      <3>3. job'[r].snaps = {snapped + 1} /\ job'[r].pc = "record"
            /\ job'[r].kind = "snapshot"
        BY <1>2, <2>1, <3>2 DEF Job
      <3>4. snapped \in Nat /\ snapped + 1 \in Snap /\ rows[snapped + 1] = NoRef
        BY <1>3, <3>1 DEF RowsOK, Snap
      <3>5. \A q \in Req : \A s \in job[q].snaps : s <= snapped /\ s \in Nat
        BY <1>4, <1>5 DEF SnapOf, Snap
      <3>6. ASSUME NEW q \in Req \ {r}, NEW s \in job'[q].snaps PROVE SnapOf(q, s)'
        <4>1. SnapOf(q, s) /\ s <= snapped /\ s \in Nat /\ s # snapped + 1
          BY <1>5, <3>2, <3>4, <3>5, <3>6
        <4>2. s <= snapped'
          BY <3>1, <3>4, <4>1
        <4>3. \A p \in Req : s \notin job[p].snaps => s \notin job'[p].snaps
          BY <3>2, <3>3, <4>1
        <4> QED  BY <3>1, <3>2, <4>1, <4>2, <4>3 DEF SnapOf
      <3>7. ASSUME NEW s \in job'[r].snaps PROVE SnapOf(r, s)'
        <4>1. s = snapped + 1
          BY <3>3
        <4>2. \A q \in Req : q # r => s \notin job'[q].snaps
          BY <3>2, <3>4, <3>5, <4>1
        <4>3. s <= snapped' /\ rows'[s] = NoRef /\ s \in blobs'
          BY <3>1, <3>4, <4>1
        <4> QED  BY <3>3, <4>2, <4>3 DEF SnapOf
      <3>8. ASSUME NEW s \in 1 .. snapped' PROVE Accounted(s)'
        <4>1. CASE s = snapped + 1
          BY <3>3, <4>1 DEF Accounted, Between
        <4>2. CASE s \in 1 .. snapped
          <5>1. ~Between(job[r])
            BY <2>1 DEF Between
          <5>2. s # snapped + 1
            BY <3>4, <4>2
          <5> QED  BY <1>5, <3>1, <3>2, <4>2, <5>1, <5>2 DEF Accounted
        <4> QED  BY <3>1, <3>4, <4>1, <4>2
      <3> QED  BY <3>6, <3>7, <3>8, SnapsInParts
    <2> QED  BY <2>2, <2>3
  <1>20. CASE SnapshotRecorded(r)
    <2>1. /\ job[r].pc = "record" /\ job[r].kind = "snapshot" /\ Finish(r)
          /\ rows' = [s \in Snap |-> IF s \in job[r].snaps
                                     THEN [name |-> n, image |-> job[r].image] ELSE rows[s]]
          /\ blobs' = blobs /\ snapped' = snapped
      BY <1>20 DEF SnapshotRecorded, snapshots
    <2>2. job'[r].snaps = {} /\ \A q \in Req \ {r} : job'[q] = job[q]
      BY <1>3, <2>1 DEF Finish, NoJob, JobsOK
    <2>3. \A s \in job[r].snaps : /\ rows'[s] # NoRef /\ s \in blobs
                                  /\ \A q \in Req \ {r} : s \notin job[q].snaps
      BY <1>2, <1>4, <1>5, <2>1 DEF SnapOf, NoRef
    <2>4. \A s \in Snap \ job[r].snaps : rows'[s] = rows[s]
      BY <2>1
    <2>5. ASSUME NEW q \in Req, NEW s \in job'[q].snaps PROVE SnapOf(q, s)'
      <3>1. q # r /\ s \in job[q].snaps /\ SnapOf(q, s) /\ s \in Snap \ job[r].snaps
        BY <1>4, <1>5, <2>2, <2>3, <2>5
      <3> QED  BY <2>1, <2>2, <2>4, <3>1 DEF SnapOf
    <2>6. ASSUME NEW s \in 1 .. snapped' PROVE Accounted(s)'
      <3>1. CASE s \in job[r].snaps
        BY <2>1, <2>3, <3>1 DEF Accounted
      <3>2. CASE s \notin job[r].snaps
        <4>1. s \in Snap
          BY <1>3, <2>1 DEF RowsOK, Snap
        <4> QED  BY <1>5, <2>1, <2>2, <2>4, <3>2, <4>1 DEF Accounted
      <3> QED  BY <3>1, <3>2
    <2> QED  BY <2>5, <2>6, SnapsInParts
  <1>21. CASE BlobForgotten(r)
    <2>1. /\ job[r].pc = "act" /\ job[r].kind = "forget" /\ Goto(r, "record")
          /\ blobs' = blobs \ job[r].snaps /\ rows' = rows /\ snapped' = snapped
      BY <1>21 DEF BlobForgotten, Acts, tables, Goto
    <2>2. /\ job'[r] = [job[r] EXCEPT !.pc = "record"]
          /\ \A q \in Req \ {r} : job'[q] = job[q]
      BY <1>3, <2>1 DEF Goto, JobsOK
    <2>3. job'[r].snaps = job[r].snaps /\ job'[r].kind = "forget" /\ job'[r].pc = "record"
          /\ job'[r].from = job[r].from
      BY <1>2, <2>1, <2>2 DEF Job
    <2>4. ASSUME NEW q \in Req \ {r}, NEW s \in job'[q].snaps PROVE SnapOf(q, s)'
      <3>1. SnapOf(q, s) /\ s \in job[q].snaps
        BY <1>5, <2>2, <2>4
      <3>2. \A p \in Req : job'[p].snaps = job[p].snaps
        BY <2>2, <2>3
      <3> QED  BY <2>1, <2>2, <3>1, <3>2 DEF SnapOf
    <2>5. ASSUME NEW s \in job'[r].snaps PROVE SnapOf(r, s)'
      <3>1. SnapOf(r, s)
        BY <1>5, <2>3, <2>5
      <3> QED  BY <2>1, <2>3, <3>1 DEF SnapOf
    <2>6. ASSUME NEW s \in 1 .. snapped' PROVE Accounted(s)'
      <3>1. CASE s \in job[r].snaps
        BY <2>3, <3>1 DEF Accounted, Between
      <3>2. CASE s \notin job[r].snaps
        BY <1>5, <2>1, <2>2, <3>2 DEF Accounted
      <3> QED  BY <3>1, <3>2
    <2> QED  BY <2>4, <2>5, <2>6, SnapsInParts
  <1>22. CASE RowForgotten(r)
    <2>1. /\ job[r].pc = "record" /\ job[r].kind = "forget" /\ Finish(r)
          /\ rows' = [s \in Snap |-> IF s \in job[r].snaps THEN NoRef ELSE rows[s]]
          /\ blobs' = blobs /\ snapped' = snapped
      BY <1>22 DEF RowForgotten, snapshots
    <2>2. job'[r].snaps = {} /\ \A q \in Req \ {r} : job'[q] = job[q]
      BY <1>3, <2>1 DEF Finish, NoJob, JobsOK
    <2>3. \A s \in Snap : rows'[s] = NoRef \/ (rows'[s] = rows[s] /\ s \notin job[r].snaps)
      BY <2>1
    <2>4. ASSUME NEW q \in Req, NEW s \in job'[q].snaps PROVE SnapOf(q, s)'
      <3>1. q # r /\ s \in job[q].snaps /\ SnapOf(q, s) /\ s \in Snap
        BY <1>4, <1>5, <2>2, <2>4
      <3> QED  BY <2>1, <2>2, <2>3, <3>1 DEF SnapOf, NoRef
    <2>5. ASSUME NEW s \in 1 .. snapped' PROVE Accounted(s)'
      <3>1. CASE s \in job[r].snaps
        <4>1. s \notin blobs /\ s \in Snap
          BY <1>4, <1>5, <2>1, <3>1 DEF SnapOf
        <4> QED  BY <2>1, <3>1, <4>1 DEF Accounted
      <3>2. CASE s \notin job[r].snaps
        <4>1. s \in Snap
          BY <1>3, <2>1 DEF RowsOK, Snap
        <4> QED  BY <1>5, <2>1, <2>2, <3>2, <4>1 DEF Accounted
      <3> QED  BY <3>1, <3>2
    <2> QED  BY <2>4, <2>5, SnapsInParts
  <1>23. CASE Renamed(r)
    BY <1>23, RenamedSnaps
  <1> QED  BY <1>8, <1>9, <1>10, <1>11, <1>12, <1>13, <1>14, <1>15, <1>16, <1>17, <1>18, <1>19,
              <1>20, <1>21, <1>22, <1>23 DEF RequestStep

\* Nothing that is excused is asked for again.
LEMMA ExcusedGrows ==
    ASSUME Types, NamesOK, [Next]_vars PROVE excused \subseteq excused'
  <1>1. JobsOK /\ TablesOK
    BY TypesInParts
  <1>2. \A ns \in SUBSET Name : excused' = Met(ns) => excused \subseteq excused'
    BY MetTogether DEF NamesOK
  <1>3. ASSUME NEW r \in Req, NEW kind \in Kind, NEW from \in Name,
               NEW to \in Name \cup {NoName}, NEW snaps \in SUBSET Snap,
               Begins(r, kind, from, to, snaps)
        PROVE  excused \subseteq excused'
    <2>1. excused' = Met({from, to} \ {NoName}) /\ {from, to} \ {NoName} \in SUBSET Name
      BY <1>3 DEF Begins, Asks
    <2> QED  BY <1>2, <2>1
  <1>4. ASSUME NEW r \in Req, NEW f \in Ref, NEW n \in Name, Point(r, f, n)
        PROVE  excused \subseteq excused'
    BY <1>2, <1>4 DEF Point, Told
  <1>5. ASSUME NEW r \in Req, NEW f \in Ref, Unpoint(r, f) PROVE excused \subseteq excused'
    <2>1. excused' = Met({refs[f].name}) /\ refs[f].name \in Name
      BY <1>1, <1>5 DEF Unpoint, Told, TablesOK
    <2> QED  BY <1>2, <2>1
  <1>6. ASSUME NEW n \in Name, SetNote(n) \/ SetPolicy(n) PROVE excused \subseteq excused'
    BY <1>2, <1>6 DEF SetNote, SetPolicy
  <1>7. ASSUME NEW r \in Req, RequestStep(r) PROVE excused \subseteq excused'
    BY <1>7 DEF RequestStep, Created, Uploaded, Inspected, Formatted, Opens, Unlinked,
       SnapshotsGone, SplintersGone, Sync, Renamed, SnapshotCopied, SnapshotRecorded,
       RollbackCopied, RolledBack, BlobForgotten, RowForgotten, FailsWithout
  <1>8. CASE Unmount \/ UNCHANGED vars
    BY <1>8 DEF Unmount, vars
  <1> QED  BY <1>3, <1>4, <1>5, <1>6, <1>7, <1>8, NextCases, Zenon

LEMMA SnapsStep ==
    ASSUME Types, Types', NamesOK, SnapsOK, [Next]_vars PROVE SnapsOK'
  <1> USE ConstantsAssumption
  <1>1. FilesOK /\ RowsOK /\ JobsOK
    BY TypesInParts
  <1>2. excused \subseteq excused'
    BY ExcusedGrows
  <1>3. ASSUME NEW r \in Req, NEW kind \in Kind, NEW from \in Name,
               NEW to \in Name \cup {NoName}, NEW snaps \in SUBSET Snap,
               Begins(r, kind, from, to, snaps)
        PROVE  SnapsOK'
    <2>1. /\ job[r].pc = "idle" /\ UNCHANGED <<rows, blobs, snapped>>
          /\ job' = [job EXCEPT ![r] = [NoJob EXCEPT !.pc = "act", !.kind = kind, !.from = from,
                                                 !.to = to, !.snaps = snaps]]
      BY <1>3 DEF Begins, Asks, tables, snapshots
    <2>2. /\ \A q \in Req \ {r} : job'[q] = job[q]
          /\ job'[r] = [pc |-> "act", kind |-> kind, from |-> from, to |-> to, snaps |-> snaps,
                        image |-> 0]
      BY <1>1, <2>1 DEF NoJob, JobsOK
    <2>3. /\ \A s \in snaps : rows[s].name = from
          /\ snaps # {} => kind \in {"rollback", "forget"}
      BY <1>3 DEF Begins
    <2>4. \A s \in snaps : rows[s] # NoRef /\ s <= snapped
      BY <1>1, <2>3 DEF RowsOK, NoRef, Snap
    <2>5. job[r] = NoJob
      BY <1>1, <2>1 DEF JobsOK, RequestOK
    <2>6. ASSUME NEW q \in Req \ {r}, NEW s \in job'[q].snaps PROVE SnapOf(q, s)'
      <3>1. SnapOf(q, s)
        BY <2>2, <2>6, SnapsInParts
      <3>2. job[q].kind = "snapshot" => s \notin snaps
        BY <2>4, <3>1 DEF SnapOf
      <3> QED  BY <1>2, <2>1, <2>2, <3>1, <3>2 DEF SnapOf
    <2>7. ASSUME NEW s \in job'[r].snaps PROVE SnapOf(r, s)'
      BY <2>1, <2>2, <2>3, <2>4, <2>7 DEF SnapOf
    <2>8. ASSUME NEW s \in 1 .. snapped' PROVE Accounted(s)'
      <3>1. Accounted(s)
        BY <2>1, SnapsInParts
      <3>2. ~Between(job'[r]) /\ ~Between(job[r])
        BY <2>2, <2>5 DEF Between, NoJob
      <3> QED  BY <2>1, <2>2, <3>1, <3>2 DEF Accounted
    <2> QED  BY <2>6, <2>7, <2>8, SnapsInParts
  <1>4. ASSUME NEW r \in Req, NEW f \in Ref, NEW n, Told(r, f, n), rows' = rows PROVE SnapsOK'
    <2>1. UNCHANGED <<rows, blobs, snapped>>
      BY <1>4 DEF Told, snapshots
    <2>2. CASE job' = job
      BY <1>2, <2>1, <2>2, SnapsFrame DEF Passes
    <2>3. CASE job' # job
      <3>1. /\ job[r].pc = "idle"
            /\ job' = [job EXCEPT ![r] = [NoJob EXCEPT !.pc = "sync", !.kind = "point",
                                                       !.from = n]]
        BY <1>4, <2>3 DEF Told
      <3>2. job[r] = NoJob /\ job'[r].snaps = {} /\ \A q \in Req \ {r} : job'[q] = job[q]
        BY <1>1, <3>1 DEF JobsOK, RequestOK, NoJob
      <3>3. \A q \in Req : Passes(q)
        BY <3>2 DEF Passes, Between, NoJob
      <3> QED  BY <1>2, <2>1, <3>3, SnapsFrame
    <2> QED  BY <2>2, <2>3
  <1>5. ASSUME NEW r \in Req, NEW f \in Ref, NEW n \in Name, Point(r, f, n) PROVE SnapsOK'
    BY <1>4, <1>5 DEF Point, Told
  <1>6. ASSUME NEW r \in Req, NEW f \in Ref, Unpoint(r, f) PROVE SnapsOK'
    BY <1>4, <1>6 DEF Unpoint, Told
  <1>7. ASSUME NEW n \in Name, SetNote(n) \/ SetPolicy(n) PROVE SnapsOK'
    BY <1>2, <1>7, SnapsFrame DEF SetNote, SetPolicy, snapshots, Passes
  <1>8. CASE Unmount \/ UNCHANGED vars
    BY <1>2, <1>8, SnapsFrame DEF Unmount, vars, tables, snapshots, Passes
  <1>9. ASSUME NEW r \in Req, RequestStep(r) PROVE SnapsOK'
    BY <1>2, <1>9, RequestSnaps
  <1> QED  BY <1>3, <1>5, <1>6, <1>7, <1>8, <1>9, NextCases, Zenon

-----------------------------------------------------------------------------
(* The image at a name, and who reads it *)

\* Why the image at a name may change.
NewThere(n) == ~Exists(n) /\ ~Deleting(n)
Leaves(n) ==
    \E r \in Req :
      /\ job[r].from = n
      /\ \/ job[r].kind = "delete" /\ Deleting(n)'
         \/ job[r].kind = "upload" /\ job[r].image = 0 /\ Bare(n)
         \/ /\ job[r].kind = "rename" /\ job'[r].pc = "sync"
            /\ names'[job[r].to].image = names[n].image

LEMMA ImageChanges ==
    ASSUME Types, Types', NamesOK, [Next]_vars, NEW n \in Name, n \notin excused',
           names'[n].image # names[n].image
    PROVE  NewThere(n) \/ Leaves(n)
  <1> USE ConstantsAssumption
  <1>1. FilesOK /\ JobsOK
    BY TypesInParts
  <1>2. n \notin excused
    BY ExcusedGrows
  <1>3. ASSUME NEW r \in Req, RequestStep(r) PROVE NewThere(n) \/ Leaves(n)
    <2>1. /\ job[r].pc # "idle" /\ job[r].from \in Name /\ job[r] \in Job /\ RequestOK(job[r])
          /\ job[r].kind \in {"clone", "rename"} => job[r].to \in Name /\ job[r].to # job[r].from
      <3>1. job[r].pc # "idle"
        BY <1>3 DEF RequestStep, Created, Uploaded, Inspected, Formatted, Opens, Unlinked,
           SnapshotsGone, SplintersGone, Sync, Renamed, SnapshotCopied, SnapshotRecorded,
           RollbackCopied, RolledBack, BlobForgotten, RowForgotten, Acts
      <3> QED  BY <3>1, AboutNames
    <2>2. ASSUME n \in Subject(r), job[r].pc \notin {"splinters", "overrides"}
          PROVE  Stage(r) /\ ~Deleting(n)
      <3>1. Subject(r) \cap excused = {}
        BY <1>2, <2>2 DEF NamesOK, Alone
      <3>2. Stage(r)
        BY <3>1, Mine
      <3>3. ~Deleting(n)
        BY <2>2, <3>1 DEF NamesOK, Alone, Deleting
      <3> QED  BY <3>2, <3>3
    <2>3. ASSUME NEW m \in Subject(r) \cap Name, Write(m), tmps' = tmps, job[r].pc = "act"
          PROVE  NewThere(n)
      <3>1. names' = [names EXCEPT ![m] = Opened(m)]
        BY <2>3 DEF Write
      <3>2. n = m /\ ~Exists(m)
        BY <1>1, <3>1 DEF Opened, FilesOK
      <3> QED  BY <2>2, <2>3, <3>2 DEF NewThere
    <2>4. CASE Created(r) \/ Uploaded(r) \/ Formatted(r)
      <3>1. job[r].pc = "act" /\ tmps' = tmps
        BY <2>4 DEF Created, Uploaded, Formatted, Acts, FailsWithout, files
      <3>2. PICK m \in {job[r].from, job[r].to} : Write(m) /\ m \in Name
        BY <2>1, <2>4 DEF Created, Uploaded, Formatted, Acts, FailsWithout, files
      <3>3. m \in Subject(r) \cap Name
        BY <3>2 DEF Subject
      <3> QED  BY <2>3, <3>1, <3>2, <3>3
    <2>5. CASE Inspected(r)
      <3>1. /\ job[r].pc = "record" /\ job[r].kind = "upload"
            /\ names' = [names EXCEPT ![job[r].from] = NoFile]
            /\ excused' = IF job[r].image = 0 THEN excused ELSE excused \cup {job[r].from}
        BY <2>5 DEF Inspected
      <3>2. n = job[r].from /\ job[r].image = 0
        BY <1>1, <2>1, <3>1 DEF FilesOK
      <3>3. Stage(r)
        BY <2>1, <2>2, <3>1, <3>2 DEF Subject
      <3>4. Bare(n)
        BY <3>1, <3>2, <3>3 DEF Stage
      <3> QED  BY <3>1, <3>2, <3>4 DEF Leaves
    <2>6. CASE Unlinked(r)
      <3>1. job[r].pc = "act" /\ job[r].kind = "delete" /\ Exists(job[r].from)
        BY <2>6 DEF Unlinked, Acts, FailsWithout, files
      <3>2. /\ names' = [names EXCEPT ![job[r].from] = NoFile]
            /\ job' = [job EXCEPT ![r].pc = "splinters", ![r].snaps = Forgotten(job[r].from)]
        BY <2>6, <3>1 DEF Unlinked
      <3>3. n = job[r].from
        BY <1>1, <2>1, <3>2 DEF FilesOK
      <3>4. job'[r] = [job[r] EXCEPT !.pc = "splinters", !.snaps = Forgotten(job[r].from)]
        BY <1>1, <3>2 DEF JobsOK
      <3>5. job'[r].from = n /\ job'[r].pc = "splinters"
        BY <2>1, <3>3, <3>4 DEF Job
      <3>6. Deleting(n)'
        BY <3>5 DEF Deleting, Subject
      <3> QED  BY <3>1, <3>3, <3>6 DEF Leaves
    <2>7. CASE Renamed(r)
      <3>1. job[r].pc = "act" /\ job[r].kind = "rename" /\ Exists(job[r].from)
        BY <2>7 DEF Renamed, Acts, FailsWithout, files
      <3>2. /\ names' = [names EXCEPT ![job[r].to] = names[job[r].from], ![job[r].from] = NoFile]
            /\ \/ Goto(r, "sync")
               \/ excused' = excused \cup {job[r].from, job[r].to}
        BY <2>7, <3>1 DEF Renamed
      <3>3. n = job[r].from \/ n = job[r].to
        BY <1>1, <2>1, <3>1, <3>2 DEF FilesOK
      <3>4. Goto(r, "sync")
        BY <3>2, <3>3
      <3>5. job'[r].pc = "sync"
        BY <1>1, <2>1, <3>4 DEF Goto, JobsOK, Job
      <3>6. Stage(r) /\ ~Deleting(n)
        BY <2>1, <2>2, <3>1, <3>3 DEF Subject
      <3>7. CASE n = job[r].to
        BY <3>1, <3>6, <3>7 DEF Stage, NewThere
      <3>8. CASE n = job[r].from
        <4>1. names'[job[r].to].image = names[n].image
          BY <1>1, <2>1, <3>1, <3>2, <3>8 DEF FilesOK
        <4> QED  BY <3>1, <3>5, <3>8, <4>1 DEF Leaves
      <3> QED  BY <3>3, <3>7, <3>8
    <2>8. CASE RolledBack(r)
      <3>1. /\ job[r].pc = "record" /\ job[r].kind = "rollback"
            /\ names' = [names EXCEPT ![job[r].from] =
                           [image |-> tmps[job[r].from], version |-> @.version + 1]]
        BY <2>8 DEF RolledBack
      <3>2. n = job[r].from
        BY <1>1, <2>1, <3>1 DEF FilesOK
      <3>3. Stage(r)
        BY <2>1, <2>2, <3>1, <3>2 DEF Subject
      <3>4. tmps[n] = names[n].image
        BY <3>1, <3>2, <3>3 DEF Stage
      <3>5. names'[n].image = tmps[n]
        BY <1>1, <3>1, <3>2 DEF FilesOK
      <3> QED  BY <3>4, <3>5
    <2>9. CASE \/ Opens(r) \/ SnapshotsGone(r) \/ SplintersGone(r) \/ Sync(r)
               \/ SnapshotCopied(r) \/ SnapshotRecorded(r) \/ RollbackCopied(r)
               \/ BlobForgotten(r) \/ RowForgotten(r)
      BY <2>9 DEF Opens, SnapshotsGone, SplintersGone, Sync, SnapshotCopied, SnapshotRecorded,
         RollbackCopied, BlobForgotten, RowForgotten, FailsWithout, files
    <2> QED  BY <1>3, <2>4, <2>5, <2>6, <2>7, <2>8, <2>9 DEF RequestStep
  <1>4. ASSUME \A r \in Req : ~RequestStep(r) PROVE FALSE
    <2>1. \A r, kind, from, to, snaps : Begins(r, kind, from, to, snaps) => names' = names
      BY DEF Begins, Asks, files
    <2>2. \A r, f, m : Point(r, f, m) \/ Unpoint(r, f) => names' = names
      BY DEF Point, Unpoint, Told, files
    <2>3. \A m : SetNote(m) \/ SetPolicy(m) \/ Unmount => names' = names
      BY DEF SetNote, SetPolicy, Unmount, files
    <2>4. UNCHANGED vars => names' = names
      BY DEF vars, files
    <2>5. names' = names
      BY <1>4, <2>1, <2>2, <2>3, <2>4, NextCases, Zenon
    <2> QED  BY <2>5
  <1> QED  BY <1>3, <1>4

\* The step leaves no session to be told, and tells none.
Same ==
    /\ \A r \in Req : job[r].pc # "sync"
    /\ session' = session /\ refs'["client"] = refs["client"]
    /\ \A n \in Name : Deleting(n) => Deleting(n)'

LEMMA Quiet ==
    ASSUME Types, Types', [Next]_vars, "client" \in Ref,
           \A r \in Req : ~Sync(r), \A r \in Req : job'[r].pc # "sync"
    PROVE  Same
  <1> USE DEF Same
  <1>1. TablesOK /\ JobsOK
    BY TypesInParts
  \* Enough: the request is where it was when it deletes, or was not about to tell.
  <1>2. ASSUME NEW r \in Req, \A q \in Req \ {r} : job'[q] = job[q],
               job[r].pc \notin {"splinters", "overrides", "sync"},
               session' = session, refs'["client"] = refs["client"]
        PROVE  Same
    <2>1. \A q \in Req : job[q].pc # "sync"
      BY <1>2
    <2>2. ASSUME NEW n \in Name, Deleting(n) PROVE Deleting(n)'
      <3>1. PICK q \in Req : n \in Subject(q) /\ job[q].pc \in {"splinters", "overrides"}
        BY <2>2 DEF Deleting
      <3>2. job'[q] = job[q]
        BY <1>2, <3>1
      <3>3. n \in Subject(q)' /\ job'[q].pc \in {"splinters", "overrides"}
        BY <3>1, <3>2 DEF Subject
      <3> QED  BY <3>3 DEF Deleting
    <2> QED  BY <1>2, <2>1, <2>2
  <1>3. ASSUME NEW r \in Req, NEW kind \in Kind, NEW from \in Name,
               NEW to \in Name \cup {NoName}, NEW snaps \in SUBSET Snap,
               Begins(r, kind, from, to, snaps)
        PROVE  Same
    <2>1. /\ job[r].pc = "idle" /\ session' = session /\ refs' = refs
          /\ \A q \in Req \ {r} : job'[q] = job[q]
      BY <1>1, <1>3 DEF Begins, Asks, tables, drives, JobsOK
    <2> QED  BY <1>2, <2>1
  <1>4. ASSUME job' = job, session' = session, refs'["client"] = refs["client"] PROVE Same
    BY <1>4 DEF Deleting, Subject
  <1>5. ASSUME NEW r \in Req, NEW f \in Ref, NEW n, NEW row, Told(r, f, n),
               refs' = [refs EXCEPT ![f] = row]
        PROVE  Same
    <2>1. CASE f = "client"
      <3>1. job'[r].pc = "sync"
        BY <1>1, <1>5, <2>1 DEF Told, JobsOK, NoJob
      <3> QED  BY <3>1
    <2>2. CASE f # "client"
      BY <1>1, <1>4, <1>5, <2>2 DEF Told, drives, TablesOK
    <2> QED  BY <2>1, <2>2
  <1>6. ASSUME NEW r \in Req, NEW f \in Ref, NEW n \in Name, Point(r, f, n) PROVE Same
    BY <1>5, <1>6 DEF Point
  <1>7. ASSUME NEW r \in Req, NEW f \in Ref, Unpoint(r, f) PROVE Same
    BY <1>5, <1>7 DEF Unpoint
  <1>8. ASSUME NEW n \in Name, SetNote(n) \/ SetPolicy(n) PROVE Same
    BY <1>4, <1>8 DEF SetNote, SetPolicy, drives
  <1>9. CASE Unmount \/ UNCHANGED vars
    BY <1>4, <1>9 DEF Unmount, vars, tables, drives
  <1>10. ASSUME NEW r \in Req, RequestStep(r) PROVE Same
    <2>1. job[r] \in Job /\ RequestOK(job[r])
      BY <1>1 DEF JobsOK
    <2>2. ASSUME Finish(r) \/ \E pc \in Pc : Goto(r, pc),
                 job[r].pc \notin {"splinters", "overrides", "sync"},
                 session' = session, refs'["client"] = refs["client"]
          PROVE  Same
      <3>1. \A q \in Req \ {r} : job'[q] = job[q]
        BY <1>1, <2>2 DEF Finish, Goto, JobsOK
      <3> QED  BY <1>2, <2>2, <3>1
    <2>3. ASSUME NEW n, FailsWithout(r, n), job[r].pc = "act" PROVE Same
      BY <2>2, <2>3 DEF FailsWithout, drives, tables
    <2>4. CASE Created(r) \/ Formatted(r) \/ Inspected(r) \/ RolledBack(r)
      BY <2>2, <2>4 DEF Created, Formatted, Inspected, RolledBack, FailsWithout, Acts, drives,
         tables
    <2>5. CASE SnapshotRecorded(r) \/ RowForgotten(r)
      BY <2>2, <2>5 DEF SnapshotRecorded, RowForgotten, drives
    <2>6. CASE RollbackCopied(r) \/ BlobForgotten(r)
      <3>1. /\ Finish(r) \/ Goto(r, "record")
            /\ job[r].pc = "act" /\ session' = session /\ refs' = refs
        BY <2>6 DEF RollbackCopied, BlobForgotten, Goto, Acts, drives, tables
      <3> QED  BY <2>2, <3>1 DEF Pc
    <2>7. CASE Opens(r)
      BY <2>2, <2>7 DEF Opens, FailsWithout, Acts, drives, tables
    <2>8. CASE Uploaded(r) \/ SnapshotCopied(r)
      <3>1. /\ job[r].pc = "act" /\ session' = session /\ refs' = refs
            /\ \A q \in Req \ {r} : job'[q] = job[q]
        BY <1>1, <2>8 DEF Uploaded, SnapshotCopied, FailsWithout, Finish, Acts, drives, tables,
           JobsOK
      <3> QED  BY <1>2, <3>1
    <2>9. CASE Unlinked(r)
      <3>1. /\ job[r].pc = "act" /\ session' = session /\ refs' = refs
            /\ \A q \in Req \ {r} : job'[q] = job[q]
        BY <1>1, <2>9 DEF Unlinked, FailsWithout, Finish, Acts, drives, tables, JobsOK
      <3> QED  BY <1>2, <3>1
    <2>10. CASE SnapshotsGone(r)
      <3>1. /\ job[r].pc = "splinters" /\ Goto(r, "overrides") /\ session' = session
            /\ refs'["client"] = refs["client"]
        BY <2>10 DEF SnapshotsGone, drives
      <3>2. /\ job'[r] = [job[r] EXCEPT !.pc = "overrides"]
            /\ \A q \in Req \ {r} : job'[q] = job[q]
        BY <1>1, <3>1 DEF Goto, JobsOK
      <3>3. /\ job'[r].pc = "overrides" /\ job'[r].from = job[r].from
            /\ job'[r].to = job[r].to
        BY <2>1, <3>2 DEF Job
      <3>4. \A q \in Req : /\ Subject(q)' = Subject(q)
                           /\ job[q].pc \in {"splinters", "overrides"} =>
                                job'[q].pc \in {"splinters", "overrides"}
        BY <3>2, <3>3 DEF Subject
      <3>5. \A q \in Req : job[q].pc # "sync"
        BY <3>1, <3>2
      <3>6. \A n \in Name : Deleting(n) => Deleting(n)'
        BY <3>4 DEF Deleting
      <3> QED  BY <3>1, <3>5, <3>6
    <2>11. CASE SplintersGone(r)
      <3>1. Goto(r, "sync")
        BY <2>11 DEF SplintersGone
      <3>2. job'[r].pc = "sync"
        BY <1>1, <2>1, <3>1 DEF Goto, JobsOK, Job
      <3> QED  BY <3>2
    <2>12. CASE Renamed(r)
      <3>1. CASE ~Exists(job[r].from)
        BY <2>3, <2>12, <3>1 DEF Renamed, Acts
      <3>2. CASE Exists(job[r].from)
        <4>1. CASE Goto(r, "sync")
          <5>1. job'[r].pc = "sync"
            BY <1>1, <2>1, <4>1 DEF Goto, JobsOK, Job
          <5> QED  BY <5>1
        <4>2. CASE ~Goto(r, "sync")
          BY <2>2, <2>12, <3>2, <4>2 DEF Renamed, Acts, drives
        <4> QED  BY <4>1, <4>2
      <3> QED  BY <3>1, <3>2
    <2> QED  BY <1>10, <2>4, <2>5, <2>6, <2>7, <2>8, <2>9, <2>10, <2>11, <2>12 DEF RequestStep
  <1> HIDE DEF Same
  <1> QED  BY <1>3, <1>6, <1>7, <1>8, <1>9, <1>10, NextCases, Zenon

LEMMA SessionStep ==
    ASSUME Types, Types', NamesOK, SessionOK, [Next]_vars PROVE SessionOK'
  <1> USE ConstantsAssumption
  <1> SUFFICES ASSUME "client" \in Ref, \A r \in Req : job'[r].pc # "sync",
                      NEW n, n = refs'["client"].name
               PROVE  /\ n = NoName => session' = NoFile
                      /\ n # NoName /\ n \notin excused' =>
                           Deleting(n)' \/ session'.image = names'[n].image
    BY DEF SessionOK, Deleting, Subject
  <1>1. FilesOK /\ TablesOK
    BY TypesInParts
  <1>2. CASE \E r \in Req : Sync(r)
    <2>1. session' = Synced /\ refs' = refs /\ names' = names
      BY <1>2 DEF Sync, tables, files
    <2>2. refs["client"].name = NoName => refs["client"] = NoRef
      BY <1>1 DEF TablesOK
    <2> QED  BY <2>1, <2>2 DEF Synced, NoRef
  <1>3. CASE \A r \in Req : ~Sync(r)
    <2>1. /\ \A r \in Req : job[r].pc # "sync"
          /\ session' = session /\ refs'["client"] = refs["client"]
          /\ \A m \in Name : Deleting(m) => Deleting(m)'
      BY <1>3, Quiet DEF Same
    <2>2. n = refs["client"].name
      BY <2>1
    <2>3. /\ n = NoName => session = NoFile
          /\ n # NoName /\ n \notin excused => Deleting(n) \/ session.image = names[n].image
      BY <2>1, <2>2 DEF SessionOK
    <2>4. ASSUME n # NoName, n \notin excused' PROVE Deleting(n)' \/ session'.image = names'[n].image
      <3>1. n \in Name /\ n \notin excused
        BY <1>1, <2>2, <2>4, ExcusedGrows DEF TablesOK
      <3>2. CASE Deleting(n)
        BY <2>1, <3>1, <3>2
      <3>3. CASE ~Deleting(n) /\ names'[n].image # names[n].image
        <4>1. Follows(n)
          BY <3>1, <3>3 DEF NamesOK, RowsFollow
        <4>2. Exists(n) /\ ~Bare(n)
          BY <2>2, <4>1 DEF Follows, Bare
        <4>3. NewThere(n) \/ Leaves(n)
          BY <2>4, <3>1, <3>3, ImageChanges
        <4>4. Deleting(n)'
          BY <4>2, <4>3 DEF NewThere, Leaves
        <4> QED  BY <4>4
      <3>4. CASE ~Deleting(n) /\ names'[n].image = names[n].image
        BY <2>1, <2>3, <2>4, <3>1, <3>4
      <3> QED  BY <3>2, <3>3, <3>4
    <2> QED  BY <2>1, <2>2, <2>3, <2>4
  <1> QED  BY <1>2, <1>3

-----------------------------------------------------------------------------
(* The theorems *)

LEMMA Inductive == IndInv /\ [Next]_vars => IndInv'
  <1> SUFFICES ASSUME IndInv, [Next]_vars PROVE IndInv'
    OBVIOUS
  <1>1. Types /\ NamesOK /\ SnapsOK /\ SessionOK
    BY Zenon DEF IndInv, Types, NamesOK
  <1>2. Types'
    BY <1>1, TypesStep
  <1>3. NamesOK'
    BY <1>1, <1>2, NamesStep
  <1>4. SnapsOK'
    BY <1>1, <1>2, SnapsStep
  <1>5. SessionOK'
    BY <1>1, <1>2, SessionStep
  <1> QED  BY <1>2, <1>3, <1>4, <1>5, Zenon DEF IndInv, Types, NamesOK

LEMMA Invariance == Spec => []IndInv
  BY InitOK, Inductive, PTL DEF Spec

\* While a drive of the operator has an image open, no request that came alone
\* replaces, renames or removes the file, however many images, drives' clients and
\* requests there are (the checks of isDiskMounted in images.ts).
THEOREM MountedImagesStay == Spec => []MountedImageStays
  <1>1. IndInv => MountedImageStays
    BY DEF IndInv
  <1> QED  BY Invariance, <1>1, PTL

\* The note, the policy, the snapshots and the references kept under a name are of
\* the image that is there (the cascade of the delete and the rename routes, and
\* rollbackSnapshot).
THEOREM RowsFollowImages == Spec => []RowsFollowTheirImage
  <1>1. IndInv => RowsFollowTheirImage
    BY DEF IndInv, RowsFollow, RowsFollowTheirImage, Deleting, Busy
  <1> QED  BY Invariance, <1>1, PTL

\* However requests overlap, a snapshot that none of them is at has both its row and
\* its file, or neither (disk-snapshots.ts).
THEOREM SnapshotsAreAccounted == Spec => []SnapshotsAccounted
  <1>1. ASSUME IndInv PROVE SnapshotsAccounted
    <2>1. LibraryTypeOK /\ SnapsOK
      BY <1>1 DEF IndInv
    <2> QED  BY <2>1 DEF SnapsOK, SnapshotsAccounted
  <1> QED  BY Invariance, <1>1, PTL

\* Once it has been told, the session of a client reads the image that its override
\* names (syncAll and syncClient after the routes that move overrides).
THEOREM ClientsReadTheirImage == Spec => []ClientReadsItsImage
  <1>1. ASSUME IndInv PROVE ClientReadsItsImage
    <2>1. SessionOK
      BY <1>1 DEF IndInv
    <2> QED  BY <2>1 DEF SessionOK, ClientReadsItsImage, Deleting, Busy
  <1> QED  BY Invariance, <1>1, PTL

\* An image leaves its name by a delete, a rename that brings it to its new name, or
\* the refusal of the upload that made it, and by no request that makes a file.
THEOREM ImagesStayTheirs == Spec => ImagesStay
  <1>1. ASSUME IndInv, [Next]_vars
        PROVE  [\A n \in Name :
                  Exists(n) /\ n \notin excused' /\ names'[n].image # names[n].image =>
                    \E r \in Req :
                      \/ job[r].kind = "delete" /\ job[r].from = n
                      \/ job[r].kind = "upload" /\ job[r].from = n /\ job[r].image = 0
                      \/ job[r].kind = "rename" /\ job[r].from = n
                         /\ names'[job[r].to].image = names[n].image]_vars
    <2>1. Types /\ NamesOK /\ SnapsOK /\ Types'
      BY <1>1, TypesStep, Zenon DEF IndInv, Types, NamesOK
    <2>2. ASSUME NEW n \in Name, Exists(n), n \notin excused', names'[n].image # names[n].image
          PROVE  Leaves(n)
      BY <1>1, <2>1, <2>2, ImageChanges DEF NewThere
    <2> QED  BY <2>2 DEF Leaves
  <1> QED  BY Invariance, <1>1, PTL DEF Spec, ImagesStay

=============================================================================
