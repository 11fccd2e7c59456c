---------------------------- MODULE DriveManager ----------------------------
(***************************************************************************)
(* The operator's drive engine (src/drive.ts) and the mount table it feeds *)
(* (src/mount-registry.ts).  Every `await` of the code ends an action, so  *)
(* two requests for the same drive, and the guest's own I/O, interleave at *)
(* exactly the points where the event loop may switch.                     *)
(*                                                                         *)
(* Bytes are abstract: a file holds the number of the last write it got    *)
(* (its stamp), and a copy copies the stamp.  Milliseconds are abstract: a *)
(* swap window is open or not, and expires at some later moment.           *)
(***************************************************************************)
EXTENDS Naturals, Sequences

CONSTANTS
    Drive,         \* drive numbers
    Image,         \* master images in the library
    Req,           \* requests that may be in progress at the same time
    Faults,        \* the I/O calls that may fail, out of FaultSites
    MaxRequests,   \* bound: requests ever made
    MaxWrites,     \* bound: track writes the guest ever makes
    MaxRetries     \* MAX_RETRIES of writeTrack

FaultSites == {"close", "access", "scratch", "open", "reopen", "write", "commit"}

ASSUME FaultsAssumption == Faults \subseteq FaultSites
ASSUME BoundsAssumption ==
    MaxRequests \in Nat /\ MaxWrites \in Nat /\ MaxRetries \in Nat \ {0}

ASSUME DriveAssumption == Drive # {}

NoImage == "none"
ErrorImage == "--ERROR--"
ASSUME ImageAssumption == Image \cap {NoImage, ErrorImage} = {}

VARIABLES
    drives,        \* DriveState of each drive
    fileHandles,   \* number of the handle the engine holds for each drive, 0: none
    handles,       \* every handle ever opened: its file, its mode, still open
    images,        \* stamp of each master image
    scratches,     \* every scratch copy ever made
    commitTmp,     \* stamp in <master>.commit.tmp, per image
    mountRegistry, \* the operator mount table
    op,            \* the request each process is executing
    guest,         \* the track transfer of the FDC command loop
    cached,        \* per drive, the file the FDC's track buffer may hold
    requests,      \* requests made so far
    stamps         \* writes begun so far; a retry writes the same bytes

vars == <<drives, fileHandles, handles, images, scratches, commitTmp,
          mountRegistry, op, guest, cached, requests, stamps>>

engine == <<drives, fileHandles, handles, mountRegistry>>
files == <<images, scratches, commitTmp>>
fdc == <<guest, cached, stamps>>

Stamp == 0 .. MaxWrites
NoStamp == MaxWrites + 1

\* A file is a master image or the n-th scratch copy.
Master(f) == [scratch |-> FALSE, image |-> f, number |-> 0]
ScratchFile(n, f) == [scratch |-> TRUE, image |-> f, number |-> n]
NoPath == Master(NoImage)
Path == [scratch : BOOLEAN, image : Image \cup {NoImage}, number : Nat]

DriveState == [mounted : BOOLEAN, filename : Image \cup {NoImage, ErrorImage},
               readonly : BOOLEAN, transient : BOOLEAN, scratchPath : Nat,
               dirty : BOOLEAN, swapWindow : BOOLEAN]

\* orphan: the file was replaced by a rename since it was opened.
Handle == [path : Path, rw : BOOLEAN, open : BOOLEAN, orphan : BOOLEAN]

\* saved: the stamp that the scratch and its master last had in common.
Scratch == [stamp : Stamp, saved : Stamp, exists : BOOLEAN]

MountEntry == [filename : Image \cup {NoImage}, readonly : BOOLEAN]
NotMounted == [filename |-> NoImage, readonly |-> FALSE]

Kind == {"none", "mount", "unmount", "protect", "commit"}
Pc == {"idle", "close", "discard", "access", "policy", "scratch", "open",
       "abandon", "copy", "rename"}
Operation == [pc : Pc, kind : Kind, drive : Drive, image : Image \cup {NoImage},
              flag : BOOLEAN, swap : BOOLEAN, handle : Nat, doomed : Nat,
              path : Path, rw : BOOLEAN]

GuestPc == {"idle", "datasync", "write", "sync", "sleep", "read"}
Guest == [pc : GuestPc, drive : Drive, handle : Nat, protected : BOOLEAN,
          attempt : 0 .. MaxRetries - 1, stamp : Stamp]

AnyDrive == CHOOSE d \in Drive : TRUE
NoOperation == [pc |-> "idle", kind |-> "none", drive |-> AnyDrive,
                image |-> NoImage, flag |-> FALSE, swap |-> FALSE,
                handle |-> 0, doomed |-> 0, path |-> NoPath, rw |-> FALSE]
NoTransfer == [pc |-> "idle", drive |-> AnyDrive, handle |-> 0,
               protected |-> FALSE, attempt |-> 0, stamp |-> 0]

Init ==
    /\ drives = [d \in Drive |->
                    [mounted |-> FALSE, filename |-> NoImage, readonly |-> FALSE,
                     transient |-> FALSE, scratchPath |-> 0, dirty |-> FALSE,
                     swapWindow |-> FALSE]]
    /\ fileHandles = [d \in Drive |-> 0]
    /\ handles = << >>
    /\ images = [f \in Image |-> 0]
    /\ scratches = << >>
    /\ commitTmp = [f \in Image |-> NoStamp]
    /\ mountRegistry = [d \in Drive |-> NotMounted]
    /\ op = [r \in Req |-> NoOperation]
    /\ guest = NoTransfer
    /\ cached = [d \in Drive |-> NoPath]
    /\ requests = 0
    /\ stamps = 0

-----------------------------------------------------------------------------
(* Mutations of definitions below: what a plausible slip in the code would do. *)

MutNeedsReopen(d, flag) == drives[d].mounted /\ flag
MutMountedElsewhere(d, f) == FALSE               \* the commit's guard is gone
MutOpensWindow(d) == drives[d].swapWindow        \* no window over a mounted image
MutMarkedBroken(s) == [s EXCEPT !.filename = ErrorImage]
MutWritable(d) == TRUE                           \* the read-only check is gone
MutRetryHandle ==                                \* the retry looks the handle up again
    IF fileHandles[guest.drive] = 0 THEN guest.handle ELSE fileHandles[guest.drive]

-----------------------------------------------------------------------------
(* Handles and files *)

\* A call of the guest is running on handle h: FileHandle.close() waits for it.
InFlight(h) ==
    guest.pc \in {"datasync", "write", "sync", "read"} /\ guest.handle = h

\* FileHandle.close(): from now on every new call on the handle fails (EBADF).
CloseRequested(h) ==
    IF h = 0 THEN handles ELSE [handles EXCEPT ![h].open = FALSE]

StampOf(p) == IF p.scratch THEN scratches[p.number].stamp ELSE images[p.image]

Fail(site) == site \in Faults

Busy(d) == \E r \in Req : op[r].pc # "idle" /\ op[r].drive = d

\* A request whose await has nothing to wait for: no scratch to unlink, or the
\* policy, whose database is synchronous.  It goes on (as a microtask) before the
\* event loop takes the next event.
Microtask(r) ==
    \/ op[r].pc \in {"discard", "abandon"} /\ op[r].doomed = 0
    \/ op[r].pc = "policy"

\* No microtask is pending: the event loop takes the next event.
NextEvent == \A r \in Req : ~Microtask(r)

\* Request r goes on from this await.
Resumes(r, pc) ==
    /\ op[r].pc = pc
    /\ Microtask(r) \/ NextEvent

\* The guest's call settles.
GuestResumes(pc) ==
    /\ guest.pc = pc
    /\ NextEvent

-----------------------------------------------------------------------------
(* Requests: the synchronous part before the first await *)

Begin(r) ==
    /\ NextEvent
    /\ op[r].pc = "idle"
    /\ requests < MaxRequests
    /\ requests' = requests + 1

\* A mount, an unmount or a change of mode starts by closing the handle in the
\* map, if there is one, and goes on to drop the scratch.
Release(r, d, h, o) ==
    /\ handles' = CloseRequested(h)
    /\ op' = [op EXCEPT ![r] =
                 [o EXCEPT !.pc = IF h = 0 THEN "discard" ELSE "close",
                           !.handle = h,
                           !.doomed = IF h = 0 THEN drives[d].scratchPath ELSE 0]]

\* The FDC may hold a track of the image that is, or was a moment ago, on the drive.
OpensWindow(d) == drives[d].mounted \/ drives[d].swapWindow

StartMount(r, d, f) ==
    /\ Begin(r)
    /\ Release(r, d, fileHandles[d],
               [NoOperation EXCEPT !.kind = "mount", !.drive = d, !.image = f,
                    !.swap = OpensWindow(d)])
    /\ UNCHANGED <<files, fdc, drives, fileHandles, mountRegistry>>

\* reloadDrive: mountDrive over the image the drive already has.
StartReload(r, d) ==
    /\ drives[d].mounted
    /\ drives[d].filename \in Image
    /\ StartMount(r, d, drives[d].filename)

StartUnmount(r, d) ==
    /\ Begin(r)
    /\ Release(r, d, IF drives[d].mounted THEN fileHandles[d] ELSE 0,
               [NoOperation EXCEPT !.kind = "unmount", !.drive = d,
                    !.swap = drives[d].mounted])
    /\ UNCHANGED <<files, fdc, drives, fileHandles, mountRegistry>>

NeedsReopen(d, flag) == drives[d].mounted /\ drives[d].readonly # flag

\* MountRegistry.setReadonly, called for a mounted drive.
WithFlag(d, flag) ==
    IF drives[d].mounted /\ mountRegistry[d] # NotMounted
    THEN [mountRegistry EXCEPT ![d].readonly = flag]
    ELSE mountRegistry

\* The flag changes at once; the file is reopened only if the drive is mounted
\* and the flag is a new one.
WriteProtect(r, d, flag) ==
    /\ Begin(r)
    /\ drives' = [drives EXCEPT ![d].readonly = flag]
    /\ IF NeedsReopen(d, flag)
       THEN /\ Release(r, d, fileHandles[d],
                       [NoOperation EXCEPT !.kind = "protect", !.drive = d,
                            !.image = drives[d].filename, !.flag = flag])
            /\ UNCHANGED mountRegistry
       ELSE /\ mountRegistry' = WithFlag(d, flag)
            /\ UNCHANGED <<handles, op>>
    /\ UNCHANGED <<files, fdc, fileHandles>>

MountedElsewhere(d, f) ==
    \E e \in Drive \ {d} : drives[e].mounted /\ drives[e].filename = f

\* Refused unless the drive is transient, and while its master is on another drive.
StartCommit(r, d) ==
    /\ drives[d].transient
    /\ drives[d].scratchPath # 0
    /\ drives[d].filename \in Image
    /\ ~MountedElsewhere(d, drives[d].filename)
    /\ Begin(r)
    /\ op' = [op EXCEPT ![r] =
                 [NoOperation EXCEPT !.pc = "copy", !.kind = "commit", !.drive = d,
                      !.image = drives[d].filename,
                      !.path = ScratchFile(drives[d].scratchPath, drives[d].filename)]]
    /\ UNCHANGED <<engine, files, fdc>>

-----------------------------------------------------------------------------
(* Requests: what happens after each await *)

Finished(r) == op' = [op EXCEPT ![r] = NoOperation]

\* The close has completed.  The map entry goes, whichever handle it holds by now.
HandleClosed(r) ==
    LET d == op[r].drive IN
    /\ Resumes(r, "close")
    /\ ~InFlight(op[r].handle)
    /\ fileHandles' = [fileHandles EXCEPT ![d] = 0]
    /\ op' = [op EXCEPT ![r].pc = "discard", ![r].doomed = drives[d].scratchPath]
    /\ UNCHANGED <<files, fdc, drives, handles, mountRegistry, requests>>

\* Only an unmount gives up when the close fails.
CloseFails(r) ==
    /\ Fail("close")
    /\ Resumes(r, "close") /\ op[r].kind = "unmount"
    /\ ~InFlight(op[r].handle)
    /\ fileHandles' = [fileHandles EXCEPT ![op[r].drive] = 0]
    /\ Finished(r)
    /\ UNCHANGED <<files, fdc, drives, handles, mountRegistry, requests>>

Unlinked(n) == IF n = 0 THEN scratches ELSE [scratches EXCEPT ![n].exists = FALSE]

WithoutScratch(s) ==
    [s EXCEPT !.scratchPath = 0, !.transient = FALSE, !.dirty = FALSE]

\* discardScratch has unlinked the file; the request goes on to its own business.
ScratchDiscarded(r) ==
    LET d == op[r].drive
        s == WithoutScratch(drives[d])
    IN
    /\ Resumes(r, "discard")
    /\ scratches' = Unlinked(op[r].doomed)
    /\ \/ /\ op[r].kind = "mount"
          /\ drives' = [drives EXCEPT ![d] =
                           [s EXCEPT !.swapWindow = @ \/ op[r].swap]]
          /\ op' = [op EXCEPT ![r].pc = "access"]
          /\ UNCHANGED mountRegistry
       \/ /\ op[r].kind = "unmount"
          /\ drives' = [drives EXCEPT ![d] =
                           [s EXCEPT !.filename = NoImage, !.mounted = FALSE,
                                     !.swapWindow = @ \/ op[r].swap]]
          /\ mountRegistry' = [mountRegistry EXCEPT ![d] = NotMounted]
          /\ Finished(r)
       \/ /\ op[r].kind = "protect"
          /\ drives' = [drives EXCEPT ![d] = s]
          /\ op' = [op EXCEPT ![r].pc = IF op[r].flag THEN "policy" ELSE "open",
                              ![r].path = Master(op[r].image),
                              ![r].rw = TRUE]
          /\ UNCHANGED mountRegistry
    /\ UNCHANGED <<fdc, fileHandles, handles, images, commitTmp, requests>>

\* fs.access succeeded; a write-protected drive asks for the transient policy first.
ImageFound(r) ==
    LET protected == drives[op[r].drive].readonly IN
    /\ Resumes(r, "access")
    /\ op' = [op EXCEPT ![r].pc = IF protected THEN "policy" ELSE "open",
                        ![r].path = Master(op[r].image),
                        ![r].rw = TRUE]
    /\ UNCHANGED <<engine, files, fdc, requests>>

\* The policy lookup answers: scratch copy, or the master itself.  A mount reads
\* the drive's flag again for the mode, a change of mode uses the requested flag.
PolicyAnswered(r) ==
    /\ Resumes(r, "policy")
    /\ \/ op' = [op EXCEPT ![r].pc = "scratch"]
       \/ op' = [op EXCEPT ![r].pc = "open",
                           ![r].rw = op[r].kind = "mount"
                                     /\ ~drives[op[r].drive].readonly]
    /\ UNCHANGED <<engine, files, fdc, requests>>

\* createScratch has copied the master.
ScratchCreated(r) ==
    LET f == op[r].image IN
    /\ Resumes(r, "scratch")
    /\ scratches' = Append(scratches, [stamp |-> images[f], saved |-> images[f],
                                       exists |-> TRUE])
    /\ op' = [op EXCEPT ![r].pc = "open",
                        ![r].path = ScratchFile(Len(scratches) + 1, f),
                        ![r].rw = TRUE]
    /\ UNCHANGED <<engine, fdc, images, commitTmp, requests>>

\* The new handle is in the map and the drive state describes it.
Opened(r) ==
    LET d == op[r].drive
        p == op[r].path
        s == [drives[d] EXCEPT !.transient = p.scratch, !.scratchPath = p.number,
                               !.dirty = FALSE]
    IN
    /\ Resumes(r, "open")
    /\ handles' = Append(handles, [path |-> p, rw |-> op[r].rw, open |-> TRUE,
                                   orphan |-> FALSE])
    /\ fileHandles' = [fileHandles EXCEPT ![d] = Len(handles) + 1]
    /\ \/ /\ op[r].kind = "mount"
          /\ drives' = [drives EXCEPT ![d] =
                           [s EXCEPT !.filename = op[r].image, !.mounted = TRUE]]
          /\ mountRegistry' = [mountRegistry EXCEPT ![d] =
                                  [filename |-> op[r].image,
                                   readonly |-> drives[d].readonly]]
       \/ /\ op[r].kind = "protect"
          /\ drives' = [drives EXCEPT ![d] = s]
          /\ mountRegistry' = WithFlag(d, op[r].flag)
    /\ Finished(r)
    /\ UNCHANGED <<files, fdc, requests>>

MarkedBroken(s) == [s EXCEPT !.mounted = FALSE, !.filename = ErrorImage]

\* mountDrive's catch: the slot is marked as broken, then its scratch is dropped.
MountFails(r) ==
    LET d == op[r].drive IN
    /\ op[r].kind = "mount"
    /\ \/ Resumes(r, "access") /\ Fail("access")
       \/ Resumes(r, "scratch") /\ Fail("scratch")
       \/ Resumes(r, "open") /\ Fail("open")
    /\ drives' = [drives EXCEPT ![d] = MarkedBroken(@)]
    /\ op' = [op EXCEPT ![r].pc = "abandon", ![r].doomed = drives[d].scratchPath]
    /\ UNCHANGED <<files, fdc, fileHandles, handles, mountRegistry, requests>>

MountAbandoned(r) ==
    /\ Resumes(r, "abandon")
    /\ scratches' = Unlinked(op[r].doomed)
    /\ drives' = [drives EXCEPT ![op[r].drive] = WithoutScratch(@)]
    /\ Finished(r)
    /\ UNCHANGED <<fdc, fileHandles, handles, images, commitTmp, mountRegistry, requests>>

\* remountWithMode: a failed open unmounts the drive; a failed createScratch,
\* outside the try, changes nothing more.
RemountFails(r) ==
    /\ op[r].kind = "protect"
    /\ \/ /\ Resumes(r, "open") /\ Fail("reopen")
          /\ drives' = [drives EXCEPT ![op[r].drive].mounted = FALSE]
       \/ /\ Resumes(r, "scratch") /\ Fail("scratch")
          /\ UNCHANGED drives
    /\ Finished(r)
    /\ UNCHANGED <<files, fdc, fileHandles, handles, mountRegistry, requests>>

-----------------------------------------------------------------------------
(* commitTransient *)

\* The scratch, if it still exists, is copied to <master>.commit.tmp.
CommitCopied(r) ==
    LET o == op[r] IN
    /\ Resumes(r, "copy")
    /\ scratches[o.path.number].exists
    /\ commitTmp' = [commitTmp EXCEPT ![o.image] = StampOf(o.path)]
    /\ op' = [op EXCEPT ![r].pc = "rename"]
    /\ UNCHANGED <<engine, fdc, images, scratches, requests>>

\* The copy takes the master's name; handles on the old file keep the old file.
CommitRenamed(r) ==
    LET f == op[r].image
        n == op[r].path.number
    IN
    /\ Resumes(r, "rename")
    /\ commitTmp[f] # NoStamp
    /\ images' = [images EXCEPT ![f] = commitTmp[f]]
    /\ commitTmp' = [commitTmp EXCEPT ![f] = NoStamp]
    /\ scratches' = [scratches EXCEPT ![n].saved = commitTmp[f]]
    /\ handles' = [h \in DOMAIN handles |->
                      [handles[h] EXCEPT !.orphan = @ \/ handles[h].path = Master(f)]]
    /\ drives' = [drives EXCEPT ![op[r].drive].dirty = FALSE]
    /\ Finished(r)
    /\ UNCHANGED <<fdc, fileHandles, mountRegistry, requests>>

\* Either call may fail; the copy is then unlinked, whoever made it.
CommitFails(r) ==
    LET o == op[r] IN
    /\ \/ Resumes(r, "copy") /\ (Fail("commit") \/ ~scratches[o.path.number].exists)
       \/ Resumes(r, "rename") /\ (Fail("commit") \/ commitTmp[o.image] = NoStamp)
    /\ commitTmp' = [commitTmp EXCEPT ![o.image] = NoStamp]
    /\ Finished(r)
    /\ UNCHANGED <<engine, fdc, images, scratches, requests>>

-----------------------------------------------------------------------------
(* The guest: readTrack and writeTrack, one at a time from the command loop *)

Ready(d) ==
    /\ ~drives[d].swapWindow
    /\ drives[d].mounted
    /\ fileHandles[d] # 0
    /\ handles[fileHandles[d]].open

BeginRead(d) ==
    /\ GuestResumes("idle")
    /\ Ready(d)
    /\ guest' = [NoTransfer EXCEPT !.pc = "read", !.drive = d,
                     !.handle = fileHandles[d]]
    /\ UNCHANGED <<engine, files, op, cached, requests, stamps>>

\* The FDC keeps the track in its buffer.
ReadDone ==
    /\ GuestResumes("read")
    /\ cached' = [cached EXCEPT ![guest.drive] = handles[guest.handle].path]
    /\ guest' = NoTransfer
    /\ UNCHANGED <<engine, files, op, requests, stamps>>

\* A write-protected drive takes writes only when a scratch copy backs it.
Writable(d) == drives[d].readonly => drives[d].transient

\* The guards of writeTrack, then its first await (datasync on the handle).
BeginWrite(d) ==
    /\ GuestResumes("idle")
    /\ stamps < MaxWrites
    /\ Ready(d)
    /\ Writable(d)
    /\ guest' = [NoTransfer EXCEPT !.pc = "datasync", !.drive = d,
                     !.handle = fileHandles[d], !.protected = drives[d].readonly,
                     !.stamp = stamps + 1]
    /\ stamps' = stamps + 1
    /\ UNCHANGED <<engine, files, op, cached, requests>>

\* A step of the transfer is over; the next one fails if the handle is closed.
NextCall(pc) ==
    guest' = IF handles[guest.handle].open THEN [guest EXCEPT !.pc = pc]
                                           ELSE NoTransfer

DatasyncDone ==
    /\ GuestResumes("datasync")
    /\ NextCall("write")
    /\ UNCHANGED <<engine, files, op, cached, requests, stamps>>

\* The bytes land in the file behind the handle, wherever its name now leads.
WriteLands ==
    LET h == handles[guest.handle] IN
    /\ GuestResumes("write")
    /\ h.rw
    /\ IF h.path.scratch
       THEN /\ scratches' = [scratches EXCEPT ![h.path.number].stamp = guest.stamp]
            /\ UNCHANGED images
       ELSE /\ images' = IF h.orphan THEN images
                         ELSE [images EXCEPT ![h.path.image] = guest.stamp]
            /\ UNCHANGED scratches
    /\ NextCall("sync")
    /\ UNCHANGED <<engine, commitTmp, op, cached, requests, stamps>>

\* A handle opened read-only refuses the write.
WriteRefused ==
    /\ GuestResumes("write")
    /\ ~handles[guest.handle].rw
    /\ guest' = NoTransfer
    /\ UNCHANGED <<engine, files, op, cached, requests, stamps>>

MayRetry == guest.attempt < MaxRetries - 1

\* write() or sync() fails: retried after a delay, or given up.
WriteFails ==
    /\ Fail("write")
    /\ GuestResumes("write") \/ GuestResumes("sync")
    /\ \/ /\ MayRetry
          /\ guest' = [guest EXCEPT !.pc = "sleep", !.attempt = @ + 1]
       \/ guest' = NoTransfer
    /\ UNCHANGED <<engine, files, op, cached, requests, stamps>>

\* The retry uses the handle the write started with.
RetryHandle == guest.handle

RetryWrite ==
    /\ GuestResumes("sleep")
    /\ guest' = IF handles[RetryHandle].open
                THEN [guest EXCEPT !.pc = "write", !.handle = RetryHandle]
                ELSE NoTransfer
    /\ UNCHANGED <<engine, files, op, cached, requests, stamps>>

SyncDone ==
    LET d == guest.drive IN
    /\ GuestResumes("sync")
    /\ drives' = [drives EXCEPT ![d].dirty = @ \/ drives[d].transient]
    /\ guest' = NoTransfer
    /\ UNCHANGED <<files, fileHandles, handles, mountRegistry, op, cached, requests, stamps>>

\* The window outlasts any request (assumed) and the FDC's polling: when it has
\* passed, the FDC has seen the drive not ready and dropped its track buffer.
WindowExpires(d) ==
    /\ NextEvent
    /\ drives[d].swapWindow
    /\ ~Busy(d)
    /\ drives' = [drives EXCEPT ![d].swapWindow = FALSE]
    /\ cached' = [cached EXCEPT ![d] = NoPath]
    /\ UNCHANGED <<files, fileHandles, handles, mountRegistry, op, guest, requests, stamps>>

-----------------------------------------------------------------------------
Start(r) ==
    \E d \in Drive :
        \/ \E f \in Image : StartMount(r, d, f)
        \/ StartReload(r, d)
        \/ StartUnmount(r, d)
        \/ \E flag \in BOOLEAN : WriteProtect(r, d, flag)
        \/ StartCommit(r, d)

Continue(r) ==
    \/ HandleClosed(r) \/ CloseFails(r) \/ ScratchDiscarded(r)
    \/ ImageFound(r) \/ PolicyAnswered(r) \/ ScratchCreated(r) \/ Opened(r)
    \/ MountFails(r) \/ MountAbandoned(r) \/ RemountFails(r)
    \/ CommitCopied(r) \/ CommitRenamed(r) \/ CommitFails(r)

GuestStep ==
    \/ \E d \in Drive : BeginRead(d) \/ BeginWrite(d)
    \/ ReadDone \/ DatasyncDone \/ WriteLands \/ WriteRefused \/ WriteFails
    \/ RetryWrite \/ SyncDone

Next ==
    \/ \E r \in Req : Start(r) \/ Continue(r)
    \/ GuestStep
    \/ \E d \in Drive : WindowExpires(d)

Spec == Init /\ [][Next]_vars

-----------------------------------------------------------------------------
(* Properties *)

\* Every variable holds a value of its type.
TypeOK ==
    /\ drives \in [Drive -> DriveState]
    /\ fileHandles \in [Drive -> 0 .. Len(handles)]
    /\ handles \in Seq(Handle)
    /\ images \in [Image -> Stamp]
    /\ scratches \in Seq(Scratch)
    /\ commitTmp \in [Image -> Stamp \cup {NoStamp}]
    /\ mountRegistry \in [Drive -> MountEntry]
    /\ op \in [Req -> Operation]
    /\ guest \in Guest
    /\ cached \in [Drive -> Path]
    /\ requests \in 0 .. MaxRequests
    /\ stamps \in 0 .. MaxWrites

\* Whatever overlaps and whatever fails, a mounted drive and the mount table name
\* the same image: the per-connection layer opens what the operator mounted.
RegistryNamesMountedImage ==
    \A d \in Drive : drives[d].mounted =>
        /\ drives[d].filename \in Image
        /\ mountRegistry[d].filename = drives[d].filename

\* A write admitted on a write-protected drive goes to a handle on a scratch copy,
\* although the drive may be remounted, unprotected or unmounted meanwhile.
ProtectedWritesStayOnScratch ==
    guest.pc \in {"datasync", "write", "sync", "sleep"} /\ guest.protected
        => handles[guest.handle].path.scratch

WrittenByGuest(f) ==
    /\ guest.pc = "write" /\ ~guest.protected
    /\ handles[guest.handle].path = Master(f)

CommittedBy(r, f) ==
    /\ op[r].pc = "rename" /\ op[r].image = f
    /\ op[r].path.scratch /\ op[r].path.image = f
    /\ images'[f] = commitTmp[f]

MasterStep ==
    \A f \in Image : images'[f] # images[f] =>
        WrittenByGuest(f) \/ \E r \in Req : CommittedBy(r, f)

\* A master image changes only by a write admitted on a drive that was not
\* write-protected, or by a commit of a scratch copy of that very image.
MasterChangesOnlyAsAllowed == [][MasterStep]_vars

\* A handle that is open is the one its drive uses.
HandlesAccounted ==
    \A h \in DOMAIN handles : handles[h].open =>
        \E d \in Drive : fileHandles[d] = h /\ drives[d].mounted

\* A scratch file on the disk belongs to a drive, or to the request about to open it.
ScratchesAccounted ==
    \A n \in DOMAIN scratches : scratches[n].exists =>
        \/ \E d \in Drive : drives[d].transient /\ drives[d].scratchPath = n
        \/ \E r \in Req : /\ op[r].pc \in {"open", "abandon"}
                          /\ op[r].path.scratch /\ op[r].path.number = n

\* No drive is on a file that a commit has replaced.
NoOrphanHandle ==
    \A d \in Drive : fileHandles[d] # 0 =>
        ~(handles[fileHandles[d]].open /\ handles[fileHandles[d]].orphan)

\* The files of the engine are accounted for, whatever mounts, commits and failures
\* follow each other: the mount that replaces a handle closes it first ("so we don't
\* leak the fd"), no scratch copy stays on the disk, and no drive is left on a file
\* that a commit has replaced, where its writes would be acknowledged and lost.
FilesAccounted == HandlesAccounted /\ ScratchesAccounted /\ NoOrphanHandle

\* Between requests, a drive that is not write-protected writes to its master: no
\* mount or change of mode leaves it on a scratch copy, on an image it had
\* before, or on a handle that cannot write.
WritableReachesMaster ==
    \A d \in Drive :
        ~Busy(d) /\ drives[d].mounted /\ ~drives[d].readonly /\ fileHandles[d] # 0 =>
            /\ ~drives[d].transient
            /\ handles[fileHandles[d]].path = Master(drives[d].filename)
            /\ handles[fileHandles[d]].rw

\* Between requests, the entry of a mounted drive also has its read-only flag.
RegistryAgrees ==
    \A d \in Drive : ~Busy(d) /\ drives[d].mounted =>
        mountRegistry[d] = [filename |-> drives[d].filename,
                            readonly |-> drives[d].readonly]

\* Between requests the flag, the mode and file of the handle, and the mount table say
\* the same of a drive, in whatever order it was protected, unprotected and mounted.
DrivesAgree == WritableReachesMaster /\ RegistryAgrees

\* The FDC never gets a track of another image while its track buffer may hold
\* one of the image before: the not-ready window comes in between.
NoStaleImage ==
    [][\A d \in Drive :
          cached'[d] # cached[d] /\ cached[d].image # NoImage
              => cached'[d].image \in {NoImage, cached[d].image}]_vars

=============================================================================
