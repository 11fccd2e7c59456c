---------------------------- MODULE DriveSession ----------------------------
(***************************************************************************)
(* One drive as the connections of a multi-client server see it:           *)
(* copy-on-write sessions (src/drive-session.ts), the connections that own *)
(* them (src/services/connection-manager.ts), the mount tables they follow *)
(* (src/mount-registry.ts, src/client-mount-registry.ts) and the requests  *)
(* that change what they should serve (src/services/client-service.ts,     *)
(* src/services/splinter-service.ts).  The drives of a session share       *)
(* nothing, so one drive stands for all.                                   *)
(*                                                                         *)
(* An action is what the code does between two awaits.  The database is    *)
(* synchronous, so its awaits end none.  A file is an inode: a name may    *)
(* move to another one under an open handle.  Its bytes are abstract: the  *)
(* image it was copied from, the last write it got, and whose write it is. *)
(***************************************************************************)
EXTENDS Naturals, Sequences, FiniteSets, SequencesExt

CONSTANTS
    Client,        \* ids a client may present
    Image,         \* master images
    Conn,          \* connections; each is made once
    Req,           \* requests that may be in progress at the same time
    WriteMaster,   \* deps.writeMaster: the client that writes the images, if any
    SelfContained, \* clients that are machines of this server
    Faults,        \* the I/O calls that may fail, out of FaultSites
    MaxRequests,   \* bound: requests, remounts and restarts ever made
    MaxWrites      \* bound: track writes ever begun

FaultSites == {"open", "copy", "fork", "reattach"}
Anonymous == "anonymous"
Public == "public"
NoImage == "none"
NoConn == "none"

ASSUME NamesAssumption ==
    /\ Anonymous \notin Client
    /\ NoImage \notin Image
    /\ Public \notin Client \cup Conn
    /\ NoConn \notin Conn
    /\ Client \cap Conn = {}
    /\ Conn \cap Req = {}
ASSUME SetsAssumption ==
    /\ IsFiniteSet(Image)
    /\ SelfContained \subseteq Client
    /\ Faults \subseteq FaultSites
    /\ MaxRequests \in Nat /\ MaxWrites \in Nat

Proc == Conn \cup Req

VARIABLES
    mounts,        \* the operator's mount table entry
    overrides,     \* per client, its own mount table entry
    epoch,         \* epochs given out so far
    rows,          \* table client_splinters: the base each client's splinter is of
    files,         \* every inode ever made
    masterFile,    \* the inode that the name of each image leads to
    splinterFile,  \* the one that .splinter/<client>/drive.img leads to, 0: none
    scratches,     \* inodes that a name in .transient leads to
    connections,   \* the map of ConnectionManager, in its order
    client,        \* the client of each connection
    socket,        \* the peer's end of each connection
    sds,           \* every SessionDrive ever made
    drives,        \* per connection, the SessionDrive in the session's map, 0: none
    loop,          \* per connection, the write its command loop is executing
    job,           \* what each connection's setup or removal, and each request, does
    requests,      \* requests made so far
    stamps,        \* writes begun so far
    acked          \* per client, the last write it was told has been done

tables == <<mounts, overrides, epoch>>
disk == <<files, masterFile, splinterFile, scratches, rows>>
net == <<connections, client, socket>>
session == <<sds, drives>>
bounds == <<requests, stamps>>
vars == <<tables, disk, net, session, loop, job, bounds, acked>>

File == [image : Image, stamp : 0 .. MaxWrites, author : Client \cup Conn \cup {Public}]
Version == [own : BOOLEAN, epoch : Nat]
NoVersion == [own |-> FALSE, epoch |-> 0]
MountEntry == [filename : Image \cup {NoImage}, epoch : Nat, readonly : BOOLEAN]
NotMounted == [filename |-> NoImage, epoch |-> 0, readonly |-> FALSE]
Entry == [filename : Image \cup {NoImage}, version : Version]
NoEntry == [filename |-> NoImage, version |-> NoVersion]

\* open: new calls on the handle are accepted; a close has not been asked for.
SessionDrive == [file : Nat \ {0}, rw : BOOLEAN, open : BOOLEAN, master : Image,
                 baseVersion : Version, scratch : Nat]

Kind == {"none", "connect", "remove", "client", "forget", "commit"}
Pc == {"idle", "sync", "close", "unlink", "reattach", "discard", "open",
       "forget", "check", "copy", "rename", "reload"}
Job == [pc : Pc, kind : Kind, client : Client \cup {Anonymous}, visited : SUBSET Conn,
        conn : Conn \cup {NoConn}, entry : Entry, sd : Nat, scratch : Nat,
        base : Image \cup {NoImage}, tmp : Nat]
NoJob == [pc |-> "idle", kind |-> "none", client |-> Anonymous, visited |-> {},
          conn |-> NoConn, entry |-> NoEntry, sd |-> 0,
          scratch |-> 0, base |-> NoImage, tmp |-> 0]

LoopPc == {"idle", "copy", "reopen", "write", "fsync"}
Write == [pc : LoopPc, sd : Nat, file : Nat, stamp : 0 .. MaxWrites]
NoWrite == [pc |-> "idle", sd |-> 0, file |-> 0, stamp |-> 0]

Ack == [image : Image \cup {NoImage}, stamp : 0 .. MaxWrites]
NoAck == [image |-> NoImage, stamp |-> 0]

\* The images in some order: the first inodes.
Library == CHOOSE s \in [1 .. Cardinality(Image) -> Image] :
               \A f \in Image : \E i \in DOMAIN s : s[i] = f

Init ==
    /\ mounts = NotMounted
    /\ overrides = [c \in Client |-> NotMounted]
    /\ epoch = 0
    /\ rows = [c \in Client |-> NoImage]
    /\ files = [i \in DOMAIN Library |->
                  [image |-> Library[i], stamp |-> 0, author |-> Public]]
    /\ masterFile = [f \in Image |-> CHOOSE i \in DOMAIN Library : Library[i] = f]
    /\ splinterFile = [c \in Client |-> 0]
    /\ scratches = {}
    /\ connections = << >>
    /\ client = [k \in Conn |-> Anonymous]
    /\ socket = [k \in Conn |-> "new"]
    /\ sds = << >>
    /\ drives = [k \in Conn |-> 0]
    /\ loop = [k \in Conn |-> NoWrite]
    /\ job = [p \in Proc |-> NoJob]
    /\ requests = 0
    /\ stamps = 0
    /\ acked = [c \in Client |-> NoAck]
-----------------------------------------------------------------------------
(* What a session should serve, and what it does *)

WritesMaster(k) == client[k] # Anonymous /\ client[k] = WriteMaster
Persistent(k) == client[k] # Anonymous /\ ~WritesMaster(k)
InheritsGlobal(c) == c \notin SelfContained

\* Whose writes a session may show, besides what is in the images.
Owner(k) == IF client[k] = Anonymous THEN k ELSE client[k]

Served == {connections[i] : i \in DOMAIN connections}

Override(c) == IF c = Anonymous THEN NotMounted ELSE overrides[c]

\* The client's own mount, else the operator's.
ResolveEffective(c) ==
    IF Override(c) # NotMounted
    THEN [filename |-> Override(c).filename,
          version |-> [own |-> TRUE, epoch |-> Override(c).epoch]]
    ELSE IF InheritsGlobal(c) /\ mounts # NotMounted
         THEN [filename |-> mounts.filename,
               version |-> [own |-> FALSE, epoch |-> mounts.epoch]]
         ELSE NoEntry

-----------------------------------------------------------------------------
(* Mutations of definitions below: what a plausible slip in the code would do. *)

MutOutOfDate(k) ==                               \* a mount that is gone is not noticed
    LET entry == ResolveEffective(client[k])
    IN entry # NoEntry /\ (drives[k] = 0 \/ sds[drives[k]].baseVersion # entry.version)
MutOpenDrive(j) == [j EXCEPT !.pc = "open"]      \* the database is not asked
MutDropsSplinter(p) == FALSE                     \* ephemeral splinters are kept too
MutForks(k, sd) == FALSE                         \* the first write does not fork
MutSplinter(k) == masterFile[sds[loop[k].sd].master] \* the fork reopens the image

-----------------------------------------------------------------------------
(* Sessions and handles *)

\* sync() has something to do for session k.
OutOfDate(k) ==
    LET entry == ResolveEffective(client[k])
    IN IF drives[k] = 0 THEN entry # NoEntry
                        ELSE sds[drives[k]].baseVersion # entry.version

\* A synchronous part is about to run: no other event comes first.
NextEvent == \A p \in Proc : job[p].pc # "sync"

Go(p, j) == job' = [job EXCEPT ![p] = j]
At(p, pc) == job[p].pc = pc /\ NextEvent
Done(p) == Go(p, NoJob)

\* A name leads to a file.
Exists(file) == file # 0

\* FileHandle.close(): the calls on the handle end, no other begins.
CloseRequested(sd) == [sds EXCEPT ![sd].open = FALSE]

\* A write is in flight on the handle that job p closes.
InFlight(p) ==
    \E k \in Conn : /\ loop[k].pc \in {"write", "fsync"}
                    /\ loop[k].sd = job[p].sd
                    /\ sds[job[p].sd].scratch = job[p].scratch

-----------------------------------------------------------------------------
(* closeDrive and openDrive, for the session job[p].conn *)

\* closeDrive, up to its first await.
CloseDrive(p, j) ==
    LET sd == drives[j.conn]
    IN /\ sds' = CloseRequested(sd)
       /\ Go(p, [j EXCEPT !.pc = "close", !.sd = sd, !.scratch = sds[sd].scratch])

\* openDrive, up to its first await: the database knows of a splinter or not.
OpenDrive(j) ==
    LET c == client[j.conn]
    IN IF Persistent(j.conn) /\ rows[c] # NoImage
       THEN [j EXCEPT !.pc = IF rows[c] = j.entry.filename THEN "reattach" ELSE "discard"]
       ELSE [j EXCEPT !.pc = "open"]

\* closeDrive is done: the drive leaves the map and sync() goes on.
DriveClosed(p) ==
    /\ drives' = [drives EXCEPT ![job[p].conn] = 0]
    /\ IF job[p].kind = "remove" THEN Done(p)
       ELSE IF job[p].entry = NoEntry THEN Go(p, [job[p] EXCEPT !.pc = "sync"])
            ELSE Go(p, OpenDrive(job[p]))

\* An ephemeral splinter is unlinked with its drive.
DropsSplinter(p) == sds[job[p].sd].scratch # 0 /\ ~Persistent(job[p].conn)
-----------------------------------------------------------------------------
(* sync(), of the sessions a job is to bring up to date *)

\* A connection that is being set up is not in the map yet.
SessionsOf(p) ==
    CASE job[p].kind = "connect" -> {p}
      [] job[p].kind = "commit" -> Served
      [] OTHER -> {k \in Served : client[k] = job[p].client}

\* The first of these sessions in the map, after those visited, with something to do.
Before(k, l) ==
    \E i, n \in DOMAIN connections : i < n /\ connections[i] = k /\ connections[n] = l
Waiting(p) == {k \in SessionsOf(p) \ job[p].visited : OutOfDate(k)}
First(p, k) == \A l \in Waiting(p) : ~Before(l, k)

\* syncAll and syncClient go through the map as it is when they come to it.
SyncSession(p) ==
    /\ job[p].pc = "sync"
    /\ \E k \in Waiting(p) :
         LET j == [job[p] EXCEPT !.conn = k, !.entry = ResolveEffective(client[k]),
                       !.visited = {l \in SessionsOf(p) : l = k \/ Before(l, k)}]
         IN /\ First(p, k)
            /\ IF drives[k] = 0 THEN Go(p, OpenDrive(j)) /\ UNCHANGED sds
                                ELSE CloseDrive(p, j)
    /\ UNCHANGED <<tables, disk, net, drives, loop, bounds, acked>>

\* All are up to date: a connection that was set up starts its command loop.
SyncDone(p) ==
    /\ job[p].pc = "sync"
    /\ Waiting(p) = {}
    /\ Done(p)
    /\ connections' = IF job[p].kind = "connect" THEN Append(connections, p)
                      ELSE connections
    /\ UNCHANGED <<tables, disk, client, socket, session, loop, bounds, acked>>

HandleClosed(p) ==
    /\ At(p, "close")
    /\ ~InFlight(p)
    /\ IF DropsSplinter(p) THEN Go(p, [job[p] EXCEPT !.pc = "unlink"]) /\ UNCHANGED drives
                           ELSE DriveClosed(p)
    /\ UNCHANGED <<tables, disk, net, sds, loop, bounds, acked>>

SplinterUnlinked(p) ==
    /\ At(p, "unlink")
    /\ scratches' = scratches \ {sds[job[p].sd].scratch}
    /\ DriveClosed(p)
    /\ UNCHANGED <<tables, files, masterFile, splinterFile, rows, net, sds, loop,
                   bounds, acked>>

\* The drive comes into the session's map, and sync() goes on.
Attach(p, file, rw, scratch) ==
    /\ sds' = Append(sds, [file |-> file, rw |-> rw, open |-> TRUE,
                           master |-> job[p].entry.filename,
                           baseVersion |-> job[p].entry.version, scratch |-> scratch])
    /\ drives' = [drives EXCEPT ![job[p].conn] = Len(sds) + 1]
    /\ Go(p, [job[p] EXCEPT !.pc = "sync"])

\* The client finds the splinter of the last time.
Reattached(p) ==
    /\ At(p, "reattach")
    /\ LET file == splinterFile[client[job[p].conn]]
       IN Exists(file) /\ Attach(p, file, TRUE, file)
    /\ UNCHANGED <<tables, disk, net, loop, bounds, acked>>

\* The splinter is not there, or cannot be opened: its row goes.
ReattachFails(p) ==
    /\ At(p, "reattach")
    /\ ~Exists(splinterFile[client[job[p].conn]]) \/ "reattach" \in Faults
    /\ rows' = [rows EXCEPT ![client[job[p].conn]] = NoImage]
    /\ Go(p, [job[p] EXCEPT !.pc = "open"])
    /\ UNCHANGED <<tables, files, masterFile, splinterFile, scratches, net, session,
                   loop, bounds, acked>>

\* The splinter is of another image: it goes, and its row.
Discarded(p) ==
    /\ At(p, "discard")
    /\ splinterFile' = [splinterFile EXCEPT ![client[job[p].conn]] = 0]
    /\ rows' = [rows EXCEPT ![client[job[p].conn]] = NoImage]
    /\ Go(p, [job[p] EXCEPT !.pc = "open"])
    /\ UNCHANGED <<tables, files, masterFile, scratches, net, session, loop, bounds,
                   acked>>

MasterOpened(p) ==
    /\ At(p, "open")
    /\ Attach(p, masterFile[job[p].entry.filename], WritesMaster(job[p].conn), 0)
    /\ UNCHANGED <<tables, disk, net, loop, bounds, acked>>

OpenFails(p) ==
    /\ "open" \in Faults
    /\ At(p, "open")
    /\ drives' = [drives EXCEPT ![job[p].conn] = 0]
    /\ Go(p, [job[p] EXCEPT !.pc = "sync"])
    /\ UNCHANGED <<tables, disk, net, sds, loop, bounds, acked>>

-----------------------------------------------------------------------------
(* Connections *)

Connect(k, c) ==
    /\ NextEvent
    /\ socket[k] = "new"
    /\ socket' = [socket EXCEPT ![k] = "open"]
    /\ client' = [client EXCEPT ![k] = c]
    /\ Go(k, [NoJob EXCEPT !.pc = "sync", !.kind = "connect"])
    /\ UNCHANGED <<tables, disk, connections, session, loop, bounds, acked>>

\* The peer goes away.  Until the connection is in the map nobody listens.
Leave(k) ==
    /\ NextEvent
    /\ socket[k] = "open"
    /\ socket' = [socket EXCEPT ![k] = "closed"]
    /\ connections' = IF k \in Served
                      THEN RemoveAt(connections, CHOOSE i \in DOMAIN connections : connections[i] = k)
                      ELSE connections
    /\ IF k \in Served /\ drives[k] # 0
       THEN CloseDrive(k, [NoJob EXCEPT !.kind = "remove", !.conn = k])
       ELSE UNCHANGED <<sds, job>>
    /\ UNCHANGED <<tables, disk, client, drives, loop, bounds, acked>>
-----------------------------------------------------------------------------
(* writeTrack, in the command loop of a connection *)

\* A session writes an image itself, or has forked.
Forks(k, sd) == ~WritesMaster(k) /\ sds[sd].scratch = 0

Writing(k, pc, sd) ==
    [NoWrite EXCEPT !.pc = pc, !.sd = sd, !.stamp = stamps + 1,
                    !.file = IF pc = "write" THEN sds[sd].file ELSE 0]

\* The command has come: the drive is in the map.
WriteTrack(k) ==
    /\ NextEvent
    /\ k \in Served /\ socket[k] = "open"
    /\ loop[k].pc = "idle"
    /\ drives[k] # 0
    /\ stamps < MaxWrites
    /\ IF Forks(k, drives[k])
       THEN loop' = [loop EXCEPT ![k] = Writing(k, "copy", drives[k])]
       ELSE /\ sds[drives[k]].open
            /\ loop' = [loop EXCEPT ![k] = Writing(k, "write", drives[k])]
    /\ stamps' = stamps + 1
    /\ UNCHANGED <<tables, disk, net, session, job, requests, acked>>

LoopAt(k, pc) == loop[k].pc = pc /\ NextEvent

\* The write has failed, or is done: the loop waits for the next command.
LoopIdle(k) == loop' = [loop EXCEPT ![k] = NoWrite]

MasterOf(k) == files[masterFile[sds[loop[k].sd].master]]

\* forkSplinter has copied the image, over the client's old splinter if there is
\* one, and closes the session's handle.
ForkCopied(k) ==
    /\ LoopAt(k, "copy")
    /\ LET old == IF Persistent(k) THEN splinterFile[client[k]] ELSE 0
           new == IF old = 0 THEN Len(files) + 1 ELSE old
       IN /\ files' = IF old = 0 THEN Append(files, MasterOf(k))
                      ELSE [files EXCEPT ![old] = MasterOf(k)]
          /\ IF Persistent(k)
             THEN /\ splinterFile' = [splinterFile EXCEPT ![client[k]] = new]
                  /\ UNCHANGED scratches
             ELSE scratches' = scratches \cup {new} /\ UNCHANGED splinterFile
          /\ loop' = [loop EXCEPT ![k].pc = "reopen", ![k].file = new]
    /\ sds' = CloseRequested(loop[k].sd)
    /\ UNCHANGED <<tables, masterFile, rows, net, drives, job, bounds, acked>>

\* A copy that fails removes what it has written.
ForkCopyFails(k) ==
    /\ "copy" \in Faults
    /\ LoopAt(k, "copy")
    /\ splinterFile' = IF Persistent(k) THEN [splinterFile EXCEPT ![client[k]] = 0]
                       ELSE splinterFile
    /\ LoopIdle(k)
    /\ UNCHANGED <<tables, files, masterFile, scratches, rows, net, session, job,
                   bounds, acked>>

\* The splinter as its name finds it now.
Splinter(k) == IF Persistent(k) THEN splinterFile[client[k]] ELSE loop[k].file

\* The SessionDrive gets the splinter's handle, the database the row, and the
\* write begins.
ForkOpened(k) ==
    /\ LoopAt(k, "reopen")
    /\ Exists(Splinter(k))
    /\ sds' = [sds EXCEPT ![loop[k].sd].file = Splinter(k), ![loop[k].sd].rw = TRUE,
                          ![loop[k].sd].open = TRUE, ![loop[k].sd].scratch = Splinter(k)]
    /\ rows' = IF Persistent(k)
               THEN [rows EXCEPT ![client[k]] = sds[loop[k].sd].master]
               ELSE rows
    /\ loop' = [loop EXCEPT ![k].pc = "write", ![k].file = Splinter(k)]
    /\ UNCHANGED <<tables, files, masterFile, splinterFile, scratches, net, drives, job,
                   bounds, acked>>

ForkFails(k) ==
    /\ LoopAt(k, "reopen")
    /\ ~Exists(Splinter(k)) \/ "fork" \in Faults
    /\ LoopIdle(k)
    /\ UNCHANGED <<tables, disk, net, session, job, bounds, acked>>

\* The bytes are in the file; a handle that is closing takes no sync().
WriteLands(k) ==
    /\ LoopAt(k, "write")
    /\ files' = [files EXCEPT ![loop[k].file].stamp = loop[k].stamp,
                              ![loop[k].file].author =
                                  IF WritesMaster(k) THEN Public ELSE Owner(k)]
    /\ IF sds[loop[k].sd].open THEN loop' = [loop EXCEPT ![k].pc = "fsync"]
                               ELSE LoopIdle(k)
    /\ UNCHANGED <<tables, masterFile, splinterFile, scratches, rows, net, session, job,
                   bounds, acked>>

EffectiveImage(c) == ResolveEffective(c).filename

\* The client is told that its write is done.
WriteSynced(k) ==
    /\ LoopAt(k, "fsync")
    /\ LoopIdle(k)
    /\ acked' = IF Persistent(k) /\ EffectiveImage(client[k]) = sds[loop[k].sd].master
                THEN [acked EXCEPT ![client[k]] =
                         [image |-> sds[loop[k].sd].master, stamp |-> loop[k].stamp]]
                ELSE acked
    /\ UNCHANGED <<tables, disk, net, session, job, bounds>>

-----------------------------------------------------------------------------
(* Requests *)

Request(r) ==
    /\ NextEvent
    /\ job[r].pc = "idle"
    /\ requests < MaxRequests
    /\ requests' = requests + 1

\* A client that is given another image knows that its writes were to the old one.
StillServed(m, o) ==
    [c \in Client |->
        LET image == IF o[c] # NotMounted THEN o[c].filename
                     ELSE IF InheritsGlobal(c) THEN m.filename ELSE NoImage
        IN IF image \in {NoImage, acked[c].image} THEN acked[c] ELSE NoAck]

\* The registry of the operator's drives; no session is told.
OperatorMount(f, readonly) ==
    /\ NextEvent
    /\ requests < MaxRequests
    /\ requests' = requests + 1
    /\ mounts' = [filename |-> f, epoch |-> epoch + 1, readonly |-> readonly]
    /\ epoch' = epoch + 1
    /\ acked' = StillServed(mounts', overrides)
    /\ UNCHANGED <<overrides, disk, net, session, loop, job, stamps>>

OperatorUnmount ==
    /\ NextEvent
    /\ mounts # NotMounted
    /\ mounts' = NotMounted
    /\ UNCHANGED <<overrides, epoch, disk, net, session, loop, job, bounds, acked>>

\* setClientDrive.  A session does not ask whether its own mount is read-only.
SetClientDrive(r, c, f) ==
    /\ Request(r)
    /\ overrides' = [overrides EXCEPT ![c] =
                        [filename |-> f, epoch |-> epoch + 1, readonly |-> FALSE]]
    /\ epoch' = epoch + 1
    /\ acked' = StillServed(mounts, overrides')
    /\ Go(r, [NoJob EXCEPT !.pc = "sync", !.kind = "client", !.client = c])
    /\ UNCHANGED <<mounts, disk, net, session, loop, stamps>>

\* clearClientDrive, which also syncs when there was nothing to clear.
ClearClientDrive(r, c) ==
    /\ Request(r)
    /\ overrides' = [overrides EXCEPT ![c] = NotMounted]
    /\ acked' = StillServed(mounts, overrides')
    /\ Go(r, [NoJob EXCEPT !.pc = "sync", !.kind = "client", !.client = c])
    /\ UNCHANGED <<mounts, epoch, disk, net, session, loop, stamps>>

\* forgetClient, up to the unlink of the splinter that the database names.
ForgetClient(r, c) ==
    /\ Request(r)
    /\ Go(r, [NoJob EXCEPT !.pc = "forget", !.kind = "forget", !.client = c,
                           !.base = rows[c]])
    /\ UNCHANGED <<tables, disk, net, session, loop, stamps, acked>>

Forgotten(r) ==
    /\ At(r, "forget")
    /\ LET c == job[r].client
       IN /\ IF job[r].base = NoImage THEN UNCHANGED <<splinterFile, rows>>
             ELSE /\ splinterFile' = [splinterFile EXCEPT ![c] = 0]
                  /\ rows' = [rows EXCEPT ![c] = NoImage]
          /\ overrides' = [overrides EXCEPT ![c] = NotMounted]
          /\ acked' = [StillServed(mounts, overrides') EXCEPT ![c] = NoAck]
    /\ Go(r, [job[r] EXCEPT !.pc = "sync"])
    /\ UNCHANGED <<mounts, epoch, files, masterFile, scratches, net, session, loop,
                   bounds>>
\* commitClientSplinter, up to the check that the splinter is there.
CommitClientSplinter(r, c) ==
    /\ rows[c] # NoImage
    /\ Request(r)
    /\ Go(r, [NoJob EXCEPT !.pc = "check", !.kind = "commit", !.client = c,
                           !.base = rows[c]])
    /\ UNCHANGED <<tables, disk, net, session, loop, stamps, acked>>

\* Somebody may write the image itself: the operator's drive, or the client that
\* does, if it is connected and the image is mounted for it.
BaseWritableByLiveMaster(f) ==
    \/ mounts.filename = f /\ ~mounts.readonly
    \/ \E k \in Served :
          /\ WritesMaster(k)
          /\ f = IF overrides[client[k]] # NotMounted THEN overrides[client[k]].filename
                 ELSE mounts.filename

CommitChecked(r) ==
    /\ At(r, "check")
    /\ IF Exists(splinterFile[job[r].client]) /\ ~BaseWritableByLiveMaster(job[r].base)
       THEN Go(r, [job[r] EXCEPT !.pc = "copy"])
       ELSE Done(r)
    /\ UNCHANGED <<tables, disk, net, session, loop, bounds, acked>>

\* The splinter is in <image>.commit.tmp, for everybody to see.
CommitCopied(r) ==
    /\ At(r, "copy")
    /\ IF ~Exists(splinterFile[job[r].client]) THEN Done(r) /\ UNCHANGED files
       ELSE /\ files' = Append(files, [files[splinterFile[job[r].client]] EXCEPT
                                           !.author = Public])
            /\ Go(r, [job[r] EXCEPT !.pc = "rename", !.tmp = Len(files) + 1])
    /\ UNCHANGED <<tables, masterFile, splinterFile, scratches, rows, net, session, loop,
                   bounds, acked>>

\* The image's name leads to the copy; the operator's drives reload, or there are
\* none and the sessions follow.
CommitRenamed(r) ==
    /\ At(r, "rename")
    /\ masterFile' = [masterFile EXCEPT ![job[r].base] = job[r].tmp]
    /\ Go(r, [job[r] EXCEPT !.pc = IF mounts.filename = job[r].base THEN "reload"
                                   ELSE "sync"])
    /\ UNCHANGED <<tables, files, splinterFile, scratches, rows, net, session, loop,
                   bounds, acked>>

\* reloadDrive has mounted the image again, unless the drive has changed.
Reloaded(r) ==
    /\ At(r, "reload")
    /\ IF mounts.filename = job[r].base
       THEN mounts' = [mounts EXCEPT !.epoch = epoch + 1] /\ epoch' = epoch + 1
       ELSE UNCHANGED <<mounts, epoch>>
    /\ Go(r, [job[r] EXCEPT !.pc = "sync"])
    /\ UNCHANGED <<overrides, disk, net, session, loop, bounds, acked>>

\* The server stops at any moment and starts again: it forgets what is in memory,
\* keeps the files and the database, and empties .transient.
Restart ==
    /\ requests < MaxRequests
    /\ requests' = requests + 1
    /\ mounts' = NotMounted
    /\ scratches' = {}
    /\ connections' = << >>
    /\ socket' = [k \in Conn |-> IF socket[k] = "new" THEN "new" ELSE "closed"]
    /\ sds' = [i \in DOMAIN sds |-> [sds[i] EXCEPT !.open = FALSE]]
    /\ drives' = [k \in Conn |-> 0]
    /\ loop' = [k \in Conn |-> NoWrite]
    /\ job' = [p \in Proc |-> NoJob]
    /\ UNCHANGED <<overrides, epoch, files, masterFile, splinterFile, rows, client,
                   stamps, acked>>

-----------------------------------------------------------------------------
(* Activities that the code does not keep apart *)

WorksOn(p, k) ==
    job[p].pc \in {"close", "unlink", "reattach", "discard", "open"} /\ job[p].conn = k

Alive(k) == k \in Served \/ job[k].pc # "idle" \/ loop[k].pc # "idle"

\* A fork and a sync, or a fork and the removal of its connection.
ForkMeets ==
    \E k \in Conn : /\ loop[k].pc \in {"copy", "reopen"}
                    /\ k \notin Served \/ \E p \in Proc : WorksOn(p, k)

\* Two syncs of one session, or a sync and the removal of its connection.
Syncs(r, k) ==
    \/ WorksOn(r, k)
    \/ /\ job[r].pc = "sync"
       /\ k \in SessionsOf(r)

SyncMeets ==
    \E r \in Req, k \in Conn :
        WorksOn(r, k) /\ (k \notin Served \/ \E q \in Req \ {r} : Syncs(q, k))

\* Two sessions of one client, who have one splinter.
ClientMeets ==
    \E k, l \in Conn : k # l /\ client[k] = client[l] /\ Persistent(k) /\ Alive(k) /\ Alive(l)

\* A session and forgetClient, which unlinks the splinter under it.
ForgetMeets ==
    \E r \in Req, k \in Conn :
        job[r].kind = "forget" /\ client[k] = job[r].client /\ Alive(k)

\* A connection that is being set up and a request that would sync it.
SetupMeets == \E k \in Conn, r \in Req : job[k].kind = "connect" /\ job[r].pc # "idle"

\* A sync that closes a drive under a write to serve another image, and a mount that
\* brings the drive's image back: the client is told of a write that the sync discards.
MountMeets ==
    \E p \in Proc, k \in Conn :
        /\ WorksOn(p, k) /\ InFlight(p) /\ job[p].entry # NoEntry
        /\ ResolveEffective(client[k]).filename \notin {NoImage, job[p].entry.filename}

Overlap ==
    \/ ForkMeets \/ SyncMeets \/ ClientMeets \/ ForgetMeets \/ SetupMeets \/ MountMeets

-----------------------------------------------------------------------------

SyncNext(p) ==
    \/ SyncSession(p) \/ SyncDone(p)
    \/ HandleClosed(p) \/ SplinterUnlinked(p)
    \/ Reattached(p) \/ ReattachFails(p) \/ Discarded(p)
    \/ MasterOpened(p) \/ OpenFails(p)

ConnNext(k) ==
    \/ \E c \in Client \cup {Anonymous} : Connect(k, c)
    \/ Leave(k)
    \/ WriteTrack(k) \/ ForkCopied(k) \/ ForkCopyFails(k) \/ ForkOpened(k) \/ ForkFails(k)
    \/ WriteLands(k) \/ WriteSynced(k)

RequestNext(r) ==
    \/ \E c \in Client : \/ \E f \in Image : SetClientDrive(r, c, f)
                         \/ ClearClientDrive(r, c)
                         \/ ForgetClient(r, c)
                         \/ CommitClientSplinter(r, c)
    \/ Forgotten(r)
    \/ CommitChecked(r) \/ CommitCopied(r) \/ CommitRenamed(r) \/ Reloaded(r)

Next ==
    \/ \E p \in Proc : SyncNext(p)
    \/ \E k \in Conn : ConnNext(k)
    \/ \E r \in Req : RequestNext(r)
    \/ \E f \in Image, readonly \in BOOLEAN : OperatorMount(f, readonly)
    \/ OperatorUnmount
    \/ Restart

Spec == Init /\ [][Next]_vars

\* The steps after which none of the activities above meet.
Apart == ~Overlap'
ApartSpec == Init /\ [][Next /\ Apart]_vars

-----------------------------------------------------------------------------
(* Properties *)

\* The variables have their types.
TypeOK ==
    /\ mounts \in MountEntry
    /\ overrides \in [Client -> MountEntry]
    /\ epoch \in Nat
    /\ rows \in [Client -> Image \cup {NoImage}]
    /\ files \in Seq(File)
    /\ masterFile \in [Image -> DOMAIN files]
    /\ splinterFile \in [Client -> DOMAIN files \cup {0}]
    /\ scratches \subseteq DOMAIN files
    /\ connections \in Seq(Conn)
    /\ client \in [Conn -> Client \cup {Anonymous}]
    /\ socket \in [Conn -> {"new", "open", "closed"}]
    /\ sds \in Seq(SessionDrive)
    /\ drives \in [Conn -> DOMAIN sds \cup {0}]
    /\ loop \in [Conn -> Write]
    /\ job \in [Proc -> Job]
    /\ requests \in 0 .. MaxRequests
    /\ stamps \in 0 .. MaxWrites
    /\ acked \in [Client -> Ack]

\* Whatever meets whatever, the bytes of a master image change only when the client
\* that writes images writes one, or a commit replaces it: no other session ever
\* reaches an image (drive-session.ts:8-11).
MasterImage(f) == files[masterFile[f]]
ImagesChangeOnlyAsAllowed ==
    [][\A f \in Image : MasterImage(f)' # MasterImage(f) =>
          \/ \E r \in Req : job[r].pc = "rename" /\ job[r].base = f
          \/ \E k \in Conn : loop[k].pc = "write" /\ WritesMaster(k)]_vars

\* Whatever meets whatever, a session shows its own client's writes and what is, or
\* was committed, in the images: never what another client wrote for itself
\* ("other clients are unaffected", drive-session.ts:8-9).
SessionsAreIsolated ==
    /\ TypeOK
    /\ \A k \in Conn : drives[k] # 0 =>
         files[sds[drives[k]].file].author \in {Owner(k), Public}

Quiet ==
    /\ \A p \in Proc : job[p].pc = "idle"
    /\ \A k \in Conn : loop[k].pc = "idle"

\* A client that was told that its write is done, and has been given no other image
\* since, finds it, or a later one: through reconnects, mounts of the same image, commits and
\* restarts (drive-session.ts:46-47, 163-184), as long as what the code does not keep apart
\* does not meet (Apart).
AcknowledgedSurvives ==
    \A c \in Client : acked[c] # NoAck =>
        /\ rows[c] = acked[c].image
        /\ splinterFile[c] # 0
        /\ files[splinterFile[c]].author = c
        /\ files[splinterFile[c]].stamp >= acked[c].stamp
        /\ \A k \in Served :
              client[k] = c /\ drives[k] # 0 /\ sds[drives[k]].master = acked[c].image =>
                  sds[drives[k]].file = splinterFile[c]

\* An open handle belongs to a live session, and so does a file in .transient: nothing
\* is left behind by reconnects, remounts and failures (drive-session.ts:303-325),
\* with the same proviso.
NothingLeftBehind ==
    Quiet =>
        /\ \A i \in DOMAIN sds : sds[i].open => \E k \in Served : drives[k] = i
        /\ \A n \in scratches : \E k \in Served : drives[k] # 0 /\ sds[drives[k]].scratch = n

\* When nothing is in progress a session has the drive that its client's own mount
\* table names, or failed to open it, and none that it no longer names
\* (client-service.ts:150-171).
FollowsOverrides ==
    Quiet => \A k \in Served : drives[k] # 0 =>
        LET v == sds[drives[k]].baseVersion
        IN (v.own \/ Override(client[k]) # NotMounted) =>
               v = ResolveEffective(client[k]).version
=============================================================================
