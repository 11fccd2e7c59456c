---------------------------- MODULE ImageLibrary ----------------------------
(***************************************************************************)
(* The disk images of the daemon and what is kept about them: the routes   *)
(* that make, copy, format, rename and delete images                       *)
(* (src/routes/images.ts, src/mcp-server.ts), their snapshots              *)
(* (src/services/disk-snapshots.ts), and the rows that know an image by    *)
(* its file name (src/database.ts).                                        *)
(*                                                                         *)
(* An action is what the code does between two awaits of the file system;  *)
(* the database is synchronous and its awaits end no action.  The bytes of *)
(* a file are left out: a file tells which image it is, as the operator    *)
(* sees it, and an image remains itself when it is renamed, formatted,     *)
(* overwritten by an upload or rolled back.  A rollback puts another file  *)
(* under the name, which `version' tells from the one that is open.        *)
(***************************************************************************)
EXTENDS Naturals, FiniteSets

CONSTANTS
    Name,        \* file names of images
    Ref,         \* rows that point at an image by its name, out of RefKinds
    Req,         \* requests that may be in progress at the same time: numbers
    MaxImages,   \* bound: images ever made
    MaxSnaps,    \* bound: snapshots ever made
    MaxRequests  \* bound: requests ever made

\* The splinter of a client, its mount override, the startup disk of a profile.
RefKinds == {"splinter", "client", "profile"}

NoName == "none"

ASSUME ConstantsAssumption ==
    /\ NoName \notin Name
    /\ Ref \subseteq RefKinds
    /\ Req \subseteq Nat
    /\ MaxImages \in Nat \ {0} /\ MaxSnaps \in Nat /\ MaxRequests \in Nat

VARIABLES
    names,    \* the file each name leads to
    tmps,     \* the image in <name>.rollback.tmp of each name, 0: no such file
    made,     \* images made so far
    notes,    \* table disk_notes: whose note each name has, 0: no row
    policies, \* table disk_policies, the same
    refs,     \* per row that points at an image: the name, and whose it was
    rows,     \* table disk_snapshots: the name and the image, per snapshot
    blobs,    \* snapshots whose file is there
    snapped,  \* snapshots made so far
    mount,    \* what an operator's drive has mounted: the name, the open file
    session,  \* the file that the client's session has open for its override
    job,      \* what each request does
    requests, \* requests made so far
    excused   \* ghost: names on which requests overlapped or broke off half way

files == <<names, tmps, made>>
tables == <<notes, policies, refs, rows>>
snapshots == <<blobs, snapped>>
drives == <<mount, session>>
vars == <<files, tables, snapshots, drives, job, requests, excused>>

Snap == 1 .. MaxSnaps
File == [image : 0 .. MaxImages, version : Nat]
NoFile == [image |-> 0, version |-> 0]
Orphan == MaxImages + 1  \* a row made for a name that had no image
NoRef == [name |-> NoName, image |-> 0]
NoMount == [name |-> NoName, file |-> NoFile]

Kind == {"create", "clone", "upload", "format", "delete", "rename", "mount",
         "point", "snapshot", "rollback", "forget"}
Pc == {"idle", "act", "record", "splinters", "overrides", "sync"}
Job == [pc : Pc, kind : Kind \cup {"none"}, from : Name \cup {NoName},
        to : Name \cup {NoName}, snaps : SUBSET Snap, image : 0 .. MaxImages]
NoJob == [pc |-> "idle", kind |-> "none", from |-> NoName, to |-> NoName, snaps |-> {},
          image |-> 0]

\* An empty library, or one image with a note and a policy.
Init ==
    \E there \in {{}} \cup {{n} : n \in Name} :
      /\ made = Cardinality(there)
      /\ names = [n \in Name |-> [NoFile EXCEPT !.image = IF n \in there THEN 1 ELSE 0]]
      /\ notes = [n \in Name |-> names[n].image]
      /\ policies = notes
      /\ tmps = [n \in Name |-> 0]
      /\ refs = [f \in Ref |-> NoRef]
      /\ rows = [s \in Snap |-> NoRef]
      /\ blobs = {} /\ snapped = 0
      /\ mount = NoMount /\ session = NoFile
      /\ job = [r \in Req |-> NoJob]
      /\ requests = 0
      /\ excused = {}

-----------------------------------------------------------------------------
(* Mutations of definitions below: what a plausible slip in the code would do. *)

\* The drives are not asked.
MutMounted(n) == FALSE

\* Only a file that is mounted is in the way of a new one.
MutTaken(n) == mount.name = n

\* The rows of a renamed image stay behind.
MutMoved(row, from, to) == row

\* Live sessions are not told that the override is gone.
MutSynced == session

\* The copy of a snapshot is not awaited, and fails unseen.
MutCopied(s) == blobs

-----------------------------------------------------------------------------
Subject(r) == {job[r].from, job[r].to} \ {NoName}
Busy(n) == \E r \in Req : n \in Subject(r)

\* A request meets others on these names: on all that it and they have to do with
\* the outcome is left open.
Met(ns) ==
    LET others == UNION {Subject(r) : r \in {q \in Req : Subject(q) \cap ns # {}}}
    IN IF others = {} /\ ns \cap excused = {} THEN excused ELSE excused \cup ns \cup others

Exists(n) == names[n] # NoFile

\* existsSync of the file that a request would make.
Taken(n) == Exists(n)

\* isDiskMounted: the operator's drives are asked, the sessions are not.
Mounted(n) == mount.name = n

\* A row that is made for a name now.
Whose(n) == IF Exists(n) THEN names[n].image ELSE Orphan

\* A request of this kind, about these names and snapshots, begins.
Asks(r, kind, from, to, snaps) ==
    /\ requests < MaxRequests
    /\ job[r].pc = "idle" /\ \A q \in Req : job[q].pc = "idle" => r <= q
    /\ requests' = requests + 1
    /\ excused' = Met({from, to} \ {NoName})
    /\ job' = [job EXCEPT ![r] = [NoJob EXCEPT !.pc = "act", !.kind = kind, !.from = from,
                                               !.to = to, !.snaps = snaps]]
    /\ UNCHANGED <<files, tables, snapshots, drives>>

Goto(r, pc) == job' = [job EXCEPT ![r].pc = pc]
Finish(r) == job' = [job EXCEPT ![r] = NoJob]
Acts(r, kinds) == job[r].pc = "act" /\ job[r].kind \in kinds

\* open(name, 'w'): the file that is there, emptied, or a new image.
Opened(n) == IF Exists(n) THEN names[n] ELSE [NoFile EXCEPT !.image = made + 1]
Write(n) ==
    /\ made' = IF Exists(n) THEN made ELSE made + 1
    /\ made' <= MaxImages
    /\ names' = [names EXCEPT ![n] = Opened(n)]

\* The request fails for want of its file and changes nothing.
FailsWithout(r, n) ==
    /\ ~Exists(n)
    /\ Finish(r)
    /\ UNCHANGED <<files, tables, snapshots, drives, requests, excused>>

-----------------------------------------------------------------------------
(* New images *)

\* POST /api/images/create, and saveClientSplinterAsDisk: a name that is free.
Create(r, n) == ~Taken(n) /\ Asks(r, "create", n, NoName, {})

\* POST /api/images/:filename/clone: to the first name that is free.
Clone(r, n, copy) == Exists(n) /\ ~Taken(copy) /\ n # copy /\ Asks(r, "clone", n, copy, {})

\* POST /api/images/upload: no name is refused.
Upload(r, n) == Asks(r, "upload", n, NoName, {})

\* writeFile, copyFile.
Created(r) ==
    /\ Acts(r, {"create", "clone"})
    /\ LET j == job[r]
           n == IF j.kind = "clone" THEN j.to ELSE j.from
       IN IF j.kind = "clone" /\ ~Exists(j.from)
          THEN FailsWithout(r, j.from)
          ELSE /\ Write(n)
               /\ Finish(r)
               /\ UNCHANGED <<tmps, tables, snapshots, drives, requests, excused>>

\* multer has written the upload; its first bytes are read next.
Uploaded(r) ==
    /\ Acts(r, {"upload"})
    /\ Write(job[r].from)
    /\ job' = [job EXCEPT ![r].pc = "record", ![r].image = names[job[r].from].image]
    /\ UNCHANGED <<tmps, tables, snapshots, drives, requests, excused>>

\* They are those of a disk, or of a forbidden kind and the file is removed,
\* which takes the image that it was written over with it.
Inspected(r) ==
    /\ job[r].pc = "record" /\ job[r].kind = "upload"
    /\ Finish(r)
    /\ LET n == job[r].from
       IN \/ UNCHANGED <<names, excused>>
          \/ /\ names' = [names EXCEPT ![n] = NoFile]
             /\ excused' = IF job[r].image = 0 THEN excused ELSE excused \cup {n}
    /\ UNCHANGED <<tmps, made, tables, snapshots, drives, requests>>

-----------------------------------------------------------------------------
(* An image is formatted, mounted, deleted *)

\* POST /api/images/:filename/format
Format(r, n) == Exists(n) /\ ~Mounted(n) /\ Asks(r, "format", n, NoName, {})

Formatted(r) ==
    /\ Acts(r, {"format"})
    /\ Write(job[r].from)
    /\ Finish(r)
    /\ UNCHANGED <<tmps, tables, snapshots, drives, requests, excused>>

\* The operator mounts and unmounts; all that happens there is in DriveManager.
Mount(r, n) == Exists(n) /\ mount = NoMount /\ Asks(r, "mount", n, NoName, {})

Opens(r) ==
    /\ Acts(r, {"mount"})
    /\ LET n == job[r].from
       IN IF ~Exists(n)
          THEN FailsWithout(r, n)
          ELSE /\ mount' = [name |-> n, file |-> names[n]]
               /\ Finish(r)
               /\ UNCHANGED <<files, tables, snapshots, session, requests, excused>>

Unmount ==
    /\ mount # NoMount
    /\ mount' = NoMount
    /\ UNCHANGED <<files, tables, snapshots, session, job, requests, excused>>

\* DELETE /api/images/:filename
Delete(r, n) == Exists(n) /\ ~Mounted(n) /\ Asks(r, "delete", n, NoName, {})

\* The snapshots that are recorded under the name.
SnapshotsOf(n) == {s \in Snap : rows[s].name = n}

\* deleteSnapshotsForDisk: the rows go first, their files after.
Forgotten(n) == SnapshotsOf(n)

\* unlink; then the note and the rows of the snapshots.
Unlinked(r) ==
    /\ Acts(r, {"delete"})
    /\ LET n == job[r].from
           gone == Forgotten(n)
       IN IF ~Exists(n)
          THEN FailsWithout(r, n)
          ELSE /\ names' = [names EXCEPT ![n] = NoFile]
               /\ notes' = [notes EXCEPT ![n] = 0]
               /\ rows' = [s \in Snap |-> IF s \in gone THEN NoRef ELSE rows[s]]
               /\ job' = [job EXCEPT ![r].pc = "splinters", ![r].snaps = gone]
               /\ UNCHANGED <<tmps, made, policies, refs, snapshots, drives, requests,
                              excused>>

\* The files of the snapshots are gone; then the policy and the splinters.
SnapshotsGone(r) ==
    /\ job[r].pc = "splinters"
    /\ LET n == job[r].from
       IN /\ blobs' = blobs \ job[r].snaps
          /\ policies' = [policies EXCEPT ![n] = 0]
          /\ refs' = [f \in Ref |-> IF f = "splinter" /\ refs[f].name = n THEN NoRef
                                    ELSE refs[f]]
    /\ Goto(r, "overrides")
    /\ UNCHANGED <<files, notes, rows, snapped, drives, requests, excused>>

\* The files of the splinters are gone; then the overrides and the profiles.
SplintersGone(r) ==
    /\ job[r].pc = "overrides"
    /\ refs' = [f \in Ref |-> IF f # "splinter" /\ refs[f].name = job[r].from THEN NoRef
                              ELSE refs[f]]
    /\ Goto(r, "sync")
    /\ UNCHANGED <<files, notes, policies, rows, snapshots, drives, requests, excused>>

\* What a session opens for the override of its client.
Synced ==
    IF "client" \notin Ref \/ refs["client"] = NoRef THEN NoFile ELSE names[refs["client"].name]

\* syncAll, syncClient.
Sync(r) ==
    /\ job[r].pc = "sync"
    /\ session' = Synced
    /\ Finish(r)
    /\ UNCHANGED <<files, tables, snapshots, mount, requests, excused>>

-----------------------------------------------------------------------------
(* An image is renamed *)

\* PUT /api/images/:filename/rename
Rename(r, from, to) ==
    /\ from # to
    /\ Exists(from) /\ ~Mounted(from) /\ ~Taken(to)
    /\ Asks(r, "rename", from, to, {})

\* A row of a table follows the image: UPDATE ... SET filename.
Moved(row, from, to) == IF row.name = from THEN [row EXCEPT !.name = to] ELSE row

\* A table whose key is the name: UNIQUE fails if both names have a row.
Blocked(table, from, to) == table[from] # 0 /\ table[to] # 0
MovedKey(table, from, to) ==
    IF table[from] = 0 THEN table ELSE [table EXCEPT ![to] = table[from], ![from] = 0]

\* rename, then the note, the snapshots, the policy, the splinters, the overrides
\* and the profiles.  What comes after a row that is in the way is not done.
Renamed(r) ==
    /\ Acts(r, {"rename"})
    /\ LET from == job[r].from
           to == job[r].to
           noted == ~Blocked(notes, from, to)
           whole == noted /\ ~Blocked(policies, from, to)
           Rows(table) == [x \in DOMAIN table |-> Moved(table[x], from, to)]
       IN IF ~Exists(from)
          THEN FailsWithout(r, from)
          ELSE /\ names' = [names EXCEPT ![to] = names[from], ![from] = NoFile]
               /\ notes' = IF noted THEN MovedKey(notes, from, to) ELSE notes
               /\ rows' = IF noted THEN Rows(rows) ELSE rows
               /\ policies' = IF whole THEN MovedKey(policies, from, to) ELSE policies
               /\ refs' = IF whole THEN Rows(refs) ELSE refs
               /\ IF whole THEN Goto(r, "sync") ELSE Finish(r)
               /\ excused' = IF whole THEN excused ELSE excused \cup {from, to}
               /\ UNCHANGED <<tmps, made, snapshots, drives, requests>>

-----------------------------------------------------------------------------
(* Rows about an image *)

\* A row that is written without a request in between; the sessions of a client
\* whose override it is are told next.
Told(r, f, n) ==
    /\ excused' = Met({n})
    /\ IF f # "client" THEN UNCHANGED <<job, requests>>
       ELSE /\ requests < MaxRequests /\ requests' = requests + 1
            /\ job[r].pc = "idle" /\ \A q \in Req : job[q].pc = "idle" => r <= q
            /\ job' = [job EXCEPT ![r] = [NoJob EXCEPT !.pc = "sync", !.kind = "point",
                                                       !.from = n]]
    /\ UNCHANGED <<files, notes, policies, rows, snapshots, drives>>

\* PUT /api/images/:filename/notes
SetNote(n) ==
    /\ Exists(n)
    /\ notes' = [notes EXCEPT ![n] = names[n].image]
    /\ excused' = Met({n})
    /\ UNCHANGED <<files, policies, refs, rows, snapshots, drives, job, requests>>

\* PUT /api/images/:filename/policy: the image need not exist.
SetPolicy(n) ==
    /\ \E whose \in {0, Whose(n)} : policies' = [policies EXCEPT ![n] = whose]
    /\ excused' = Met({n})
    /\ UNCHANGED <<files, notes, refs, rows, snapshots, drives, job, requests>>

\* setClientDrive, setProfileDisk, and the fork of a session: no await parts the
\* check from the row.  The session of a client is told after it.
Point(r, f, n) ==
    /\ Exists(n)
    /\ refs' = [refs EXCEPT ![f] = [name |-> n, image |-> names[n].image]]
    /\ Told(r, f, n)

\* clearClientDrive, clearProfileDisk, and the discard of a splinter.
Unpoint(r, f) ==
    /\ refs[f] # NoRef
    /\ refs' = [refs EXCEPT ![f] = NoRef]
    /\ Told(r, f, refs[f].name)

-----------------------------------------------------------------------------
(* Snapshots *)

\* createSnapshot: allowed while the image is mounted.
Snapshot(r, n) ==
    /\ Exists(n) /\ snapped < MaxSnaps
    /\ Asks(r, "snapshot", n, NoName, {})

\* The snapshots whose file is there once a copy is made.
Copied(s) == blobs \cup {s}

\* copyFile to <id>.snap.
SnapshotCopied(r) ==
    /\ Acts(r, {"snapshot"})
    /\ snapped < MaxSnaps
    /\ IF ~Exists(job[r].from)
       THEN FailsWithout(r, job[r].from)
       ELSE /\ snapped' = snapped + 1
            /\ blobs' = Copied(snapped + 1)
            /\ job' = [job EXCEPT ![r].pc = "record", ![r].snaps = {snapped + 1},
                                  ![r].image = names[job[r].from].image]
            /\ UNCHANGED <<files, tables, drives, requests, excused>>

\* stat, and the row of the snapshot under the name the request gave.
SnapshotRecorded(r) ==
    /\ job[r].pc = "record" /\ job[r].kind = "snapshot"
    /\ rows' = [s \in Snap |-> IF s \in job[r].snaps
                               THEN [name |-> job[r].from, image |-> job[r].image]
                               ELSE rows[s]]
    /\ Finish(r)
    /\ UNCHANGED <<files, notes, policies, refs, snapshots, drives, requests, excused>>

\* rollbackSnapshot
Rollback(r, n, s) ==
    /\ Exists(n) /\ ~Mounted(n) /\ s \in SnapshotsOf(n)
    /\ Asks(r, "rollback", n, NoName, {s})

\* access, copyFile to <image>.rollback.tmp.
RollbackCopied(r) ==
    /\ Acts(r, {"rollback"})
    /\ \E s \in job[r].snaps :
         IF s \in blobs
         THEN /\ tmps' = [tmps EXCEPT ![job[r].from] = rows[s].image]
              /\ job' = [job EXCEPT ![r].pc = "record"]
         ELSE Finish(r) /\ UNCHANGED tmps
    /\ UNCHANGED <<names, made, tables, snapshots, drives, requests, excused>>

\* rename over the image.
RolledBack(r) ==
    /\ job[r].pc = "record" /\ job[r].kind = "rollback"
    /\ LET n == job[r].from
       IN /\ tmps' = [tmps EXCEPT ![n] = 0]
          /\ names' = IF tmps[n] = 0 THEN names
                      ELSE [names EXCEPT ![n] = [image |-> tmps[n], version |-> @.version + 1]]
    /\ Finish(r)
    /\ UNCHANGED <<made, tables, snapshots, drives, requests, excused>>

\* deleteSnapshot: the file, then the row.
Forget(r, n, s) == s \in SnapshotsOf(n) /\ Asks(r, "forget", n, NoName, {s})

BlobForgotten(r) ==
    /\ Acts(r, {"forget"})
    /\ blobs' = blobs \ job[r].snaps
    /\ job' = [job EXCEPT ![r].pc = "record"]
    /\ UNCHANGED <<files, tables, snapped, drives, requests, excused>>

RowForgotten(r) ==
    /\ job[r].pc = "record" /\ job[r].kind = "forget"
    /\ rows' = [s \in Snap |-> IF s \in job[r].snaps THEN NoRef ELSE rows[s]]
    /\ Finish(r)
    /\ UNCHANGED <<files, notes, policies, refs, snapshots, drives, requests, excused>>

-----------------------------------------------------------------------------
NewRequest(r) ==
    \E n \in Name :
      \/ Create(r, n) \/ Upload(r, n)
      \/ \E m \in Name : Clone(r, n, m) \/ Rename(r, n, m)
      \/ Format(r, n) \/ Mount(r, n) \/ Delete(r, n)
      \/ \E f \in Ref : Point(r, f, n) \/ Unpoint(r, f)
      \/ Snapshot(r, n)
      \/ \E s \in Snap : Rollback(r, n, s) \/ Forget(r, n, s)

RequestStep(r) ==
    \/ Created(r) \/ Uploaded(r) \/ Inspected(r)
    \/ Formatted(r) \/ Opens(r)
    \/ Unlinked(r) \/ SnapshotsGone(r) \/ SplintersGone(r) \/ Sync(r)
    \/ Renamed(r)
    \/ SnapshotCopied(r) \/ SnapshotRecorded(r)
    \/ RollbackCopied(r) \/ RolledBack(r)
    \/ BlobForgotten(r) \/ RowForgotten(r)

Next ==
    \/ \E r \in Req : NewRequest(r) \/ RequestStep(r)
    \/ \E n \in Name : SetNote(n) \/ SetPolicy(n)
    \/ Unmount

Spec == Init /\ [][Next]_vars

-----------------------------------------------------------------------------
\* Every variable has the values its comment names.
LibraryTypeOK ==
    /\ names \in [Name -> File] /\ tmps \in [Name -> 0 .. MaxImages]
    /\ made \in 0 .. MaxImages
    /\ notes \in [Name -> 0 .. Orphan] /\ policies \in [Name -> 0 .. Orphan]
    /\ refs \in [Ref -> [name : Name \cup {NoName}, image : 0 .. MaxImages]]
    /\ rows \in [Snap -> [name : Name \cup {NoName}, image : 0 .. MaxImages]]
    /\ blobs \subseteq 1 .. snapped /\ snapped \in 0 .. MaxSnaps
    /\ mount \in [name : Name \cup {NoName}, file : File] /\ session \in File
    /\ job \in [Req -> Job]
    /\ requests \in 0 .. MaxRequests
    /\ excused \subseteq Name

\* What an operator's drive has open stays the file at the name it was mounted by:
\* no request that came alone replaces, renames or removes it ("the open fd would
\* dangle", images.ts:804).
MountedImageStays ==
    mount # NoMount /\ mount.name \notin excused => names[mount.name] = mount.file

\* The rows at a name are of the image at that name.  A policy may be there first.
Follows(n) ==
    /\ notes[n] \in {0, names[n].image}
    /\ policies[n] \in {0, names[n].image, Orphan}
    /\ \A f \in Ref : refs[f].name = n => Exists(n) /\ refs[f].image = names[n].image
    /\ \A s \in Snap : rows[s].name = n => Exists(n) /\ rows[s].image = names[n].image

\* The note, the policy, the snapshots, the splinter, the override and the startup
\* disk at a name are of the image at that name, once the requests about it are
\* done: nothing of a deleted image falls to its successor, nothing is lost on the
\* way when an image is renamed, and a rollback restores an image to itself.
RowsFollowTheirImage == \A n \in Name : ~Busy(n) /\ n \notin excused => Follows(n)

\* An image leaves its name only when the operator deletes or renames it, or as the
\* upload that brought it is refused, and a renamed image arrives: no request that makes a file writes over another
\* ("Don't clobber an existing image", images.ts:817).
ImagesStay ==
    [][\A n \in Name : Exists(n) /\ n \notin excused' /\ names'[n].image # names[n].image =>
         \E r \in Req :
           \/ job[r].kind = "delete" /\ job[r].from = n
           \/ job[r].kind = "upload" /\ job[r].from = n /\ job[r].image = 0
           \/ job[r].kind = "rename" /\ job[r].from = n
              /\ names'[job[r].to].image = names[n].image]_vars

\* A snapshot is listed when its file is there, and no file is left without a row,
\* whatever the requests that overlap: but for the snapshots a request is at.
SnapshotsAccounted ==
    /\ LibraryTypeOK
    /\ \A s \in 1 .. snapped :
         (\A r \in Req : s \notin job[r].snaps) => (rows[s] # NoRef <=> s \in blobs)

\* The session of the client reads the image that its override names, perhaps as it
\* was before a rollback, and none once the override is gone.
ClientReadsItsImage ==
    (\A r \in Req : job[r].pc # "sync") /\ "client" \in Ref =>
      LET n == refs["client"].name
      IN IF n = NoName
         THEN session = NoFile
         ELSE n \in excused \/ Busy(n) \/ session.image = names[n].image
=============================================================================
