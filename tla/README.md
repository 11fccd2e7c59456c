# Verification of the BitsBy8 disk server

BitsBy8 (`fdcplus-web`) is a Node.js server that stands in for the floppy drives of
an Altair computer. An FDC+ controller, a board on a serial line or an emulated one
on a WebSocket, sends commands (`STAT`, `READ`, `WRIT`); the server answers them from
disk images that an operator mounts, write-protects, snapshots and replaces through a
web interface. It also runs emulated machines of its own, keeps their profiles and
their disks, transfers files and records consoles.

The process has one thread and no locks. Every `await` is a place where another
request, a timer or the bytes of a controller may come in between, and most of what
can go wrong does so there. The models therefore cut each operation at its awaits:
**one TLA+ action is what the code does between two awaits.**

## Inventory

| Part | Source | State | Operations | What is hard |
|---|---|---|---|---|
| Drive engine | `src/drive.ts` | `drives`, `fileHandles`, the master images, the scratch copies of write-protected images, the swap windows | mount, unmount, write-protect, read and write a track, commit a scratch, reload | requests for one drive overlap at every await; each I/O call may fail half-way; handles outlive the decision to use them |
| Operator mount table | `src/mount-registry.ts` | entry per drive, epoch | `set`, `setReadonly`, `clear` | must follow the engine through failures |
| FDC command loop | `src/server.ts` | where the loop is, `paused`, `running` | `STAT`, `READ`, `WRIT` in two phases, `pause`, `resume`, `stop` | timeouts, retries of the controller, an answer for the wrong command |
| Serial transport | `src/serial.ts`, `src/routes/serial.ts` | byte buffer, waiting receives | open, close, receive and send with a checksum | lost and garbled bytes, no framing; a port closed under a receive |
| WebSocket transport | `src/ws-transport.ts` | active socket, byte buffer, waiters | accept, close, receive, send | a new connection displaces the old one in the middle of a command |
| Per-connection drives | `src/drive-session.ts`, `src/client-mount-registry.ts` | per session: handles, splinters (private copies), resolved versions | `sync`, copy-on-write, `dispose` | sync against sync, against writes and against dispose; two sessions of one client |
| Connections | `src/services/connection-manager.ts`, `in-process-fdc-channel.ts` | live connections | add, remove, `syncAll`, `stopAll` | sockets that close while they are being set up |
| Clients, splinters | `src/services/client-service.ts`, `splinter-service.ts` | database rows, overrides, files | set, clear, forget; commit, save as | check, then await, then act |
| Disk serving | `src/services/disk-serving.ts` | the server, its loop, a flag | enable, disable | two loops on one transport |
| Machines | `src/services/instance-manager.ts`, `instance-snapshot-service.ts` | instances and their state | define, start, stop, destroy, snapshot, restore | start against start and destroy; disks replaced under a session |
| Configuration | `src/services/config-persistence.ts`, `restart-manager.ts`, `src/routes/config.ts`, `ConfigPage.svelte` | the file, its backups, what runs, what a page shows | write, rotate, roll back, reload, restart | crash between two renames; no lock; a tag checked before an await |
| Image library | `src/routes/images.ts`, `src/services/disk-snapshots.ts`, `src/database.ts` | files, rows of five tables by file name, snapshots | upload, create, clone, format, delete, rename, snapshot, roll back | a file moves, then row after row; a name is used again; checks before awaits |
| XMODEM and replay | `src/xmodem-sender.ts`, `src/replay-engine.ts`, `src/terminal-serial.ts` | block number, byte handlers, retries; the terminal port | send, replay, cancel, open, close | NAK, lost ACK, timeouts, late bytes; two senders on one line |
| Consoles | `src/services/console-hub.ts`, `console-input.ts`, `mcp-terminal-wait.ts` | ring buffer, cursors | write, read since, wait for text | a ring that overwrites what is unread |
| Sessions | `src/services/session-store.ts` | tokens and expiry | create, touch, sweep | expiry against use |
| CP/M file system | `src/cpm-filesystem.ts` | directory, allocation | read, write, delete | extents and blocks at their limits |
| Profiles, bundles, cards | `src/services/profile-service.ts`, `preset-seed.ts`, `profile-disk-service.ts`, `eprom-service.ts`, `bundle-service.ts`, `card-authoring.ts`, `resolver.ts` | versions of profiles, startup disks, the catalog of cards, references by name | create, edit, clone, rename, reset, delete, import; author and delete cards; seed at boot | names are used again; rows of four tables, and memory, refer to a profile by its name; every boot seeds what the user has changed |
| The rest | `web-server.ts`, `mcp-server.ts`, `database.ts`, frontend, KiCad, packaging | | | request parsing, presentation, hardware |

How the parts meet: routes and MCP tools call the drive engine and the services
directly; the engine feeds the mount table, from which the per-connection sessions
open their own handles; a command loop owns one transport and one engine (the shared
one, or a session); services replace image files under engines and sessions and ask
them to reload. What makes each part correct is in its section below.

## Modules

| Module | What it is |
|---|---|
| `DriveManager` | the drive engine and the mount table |
| `DriveManagerProofs` | its theorems |
| `FdcServer` | the command loop, its frames, and the controller of `docs/PROTOCOL.md` |
| `SerialLink` | what the serial transport adds to `FdcServer`: the operator who reconfigures the port |
| `WsLink` | what the shared WebSocket transport adds: controllers that connect, leave and are cut off |
| `FdcLinks` | the command loop on either transport, with fairness |
| `FdcLinksProofs` | its theorems |
| `DriveSession` | the per-connection drives, the connections, the client mounts, forgetting a client and committing its splinter |
| `DriveSessionProofs` | its theorems |
| `ConfigStore` | the overrides file of the daemon, its backups, the routes and the page that change it |
| `ConfigStoreProofs` | its theorems |
| `Machines` | virtual machines, their connections, sessions and snapshots |
| `MachinesProofs` | its theorems |
| `ImageLibrary` | images, their snapshots, and the rows that know an image by its name |
| `ImageLibraryProofs` | its theorems |
| `Profiles` | versions of machine profiles, their cards and startup disks, and what refers to them |
| `ProfilesProofs` | its theorems |
| `FileStore` | what the files of a CP/M disk are to their users |
| `CpmFileSystem` | directory and blocks, the requests that read and write back an image, and the mapping to `FileStore` |
| `CpmFileSystemProofs` | its theorems |
| `Transfer` | XMODEM, replay of text, and the terminal port they share |
| `MC...` | values of constants for TLC |

Definitions named `Mut...` are mutations: each is the body of the definition of the
same name with a slip that a programmer might make, and each property is broken by
one of them. They are not part of any specification.

### DriveManager

*State.* `drives`, `fileHandles` and `mountRegistry` are the maps of the code.
`handles` are the open file descriptions of the operating system: a handle keeps its
file when the name is renamed over (`orphan`), and is closed at most once. `images`,
`scratches` and `commitTmp` are the file system. `op` is, per request in progress,
the local variables of its function and the await where it stands; `guest` is the
same for `readTrack`/`writeTrack`, of which the command loop runs one at a time;
`cached` is the track buffer of the controller's board.

*Data.* A file holds the number of the last write it got; a copy copies it.

*Actions.* `StartMount`, `StartReload`, `StartUnmount`, `WriteProtect` and `StartCommit`
are the synchronous beginnings; `HandleClosed`, `ScratchDiscarded`, `ImageFound`,
`PolicyAnswered`, `ScratchCreated`, `Opened`, `CommitCopied`, `CommitRenamed` and the
failures (`CloseFails`, `MountFails`, `MountAbandoned`, `RemountFails`, `CommitFails`)
are what follows each await. `mountDrive`, `unmountDrive` and `remountWithMode` share
the steps they share in the code. An await that has nothing to wait for (no scratch to
unlink; a policy answered by the synchronous database) goes on before the next event:
`Microtask`, `NextEvent`. `FileHandle.close()` waits for the calls in flight on the
handle (`InFlight`), and no call starts on it any more.

*Assumed.* A request takes less than the 2.5 s of the swap window (`WindowExpires`
waits for `Busy` to end), and in that window the controller, which polls ten times a
second, sees the drive not ready and drops its buffer. `unmountAll` is an unmount of
each drive. Which I/O calls may fail is the constant `Faults`.

### FdcServer, SerialLink, WsLink, FdcLinks

*State.* `srv` is where the loop stands and the command it serves; `rx` the tokens in
the receive buffer; `tx` the responses on their way; `fdc` what each controller waits
for; `drive`, `disk` and `fdcErrno` the engine, reduced to one drive that may be
protected or taken away, the block each track holds, and the error code that the loop
reads after a failure. `acked` records, per track, the last write reported as
successful.

*Data.* A command is `CmdSize` tokens, a track `DataSize`, and a checksum, where the
transport has one, one more. Tokens carry the message they are part of, so a frame cut
out of the stream at the wrong place shows what it is made of. On the serial line a
frame is accepted only if its tokens are those of one message; the WebSocket takes
anything. That a 16-bit sum never agrees by accident is assumed.

*Actions.* One per exit of each handler of `server.ts`. `TimeOut` is a receive that
ends for lack of bytes: over the serial line it has eaten what there was (`Leftover`).
`ClosePort` leaves a receive in progress waiting past the buffer (`orphan`). The operator
reconfigures the port when `Reconfigures` says: `settled` assumes that the 25 ms which the route
waits after `pause()` are enough for a command that is being served (a receive that waits may
take seconds, and is closed under).

*The controller* is external: it is modelled from `docs/PROTOCOL.md`. It waits one
second for an answer, may repeat the command or give up, ignores answers it does not
expect, and sends a track when `WRIT` is answered OK.

*Time.* On the WebSocket a controller waits until it is answered or its socket closes. On
the serial line there are two settings (`Timing`). `timely`: the loop finishes whatever it has begun within the
controller's second, so the controller only times out on a loop that lacks bytes, and
does so before the server's five seconds for data end (`OutWaited`). `early`: a
controller may stop waiting at any moment. A burst of noise is shorter than a command:
faults are of single tokens (`garble`, `drop`) and of responses (`mute`).

*Fairness* (`FdcLinks!LiveSpec`). Weak fairness of the loop (timers fire, the event
loop runs what is ready) and of the controller's answers and retries; nobody has to
give up, and no fault has to happen or to stop (their number is bounded). Strong
fairness of `CommandTimeout`: the server waits one second for a command and so does the
controller before it repeats it; both clocks run freely, so the server's ends first
once in a while. Without it the property fails: a controller whose retry always comes
just before the server's timeout keeps a stream that lost one byte shifted for ever.

### DriveSession

*State.* `mounts` and `overrides` are the two mount tables, `rows` the table
`client_splinters` of the database, `connections` the map of the connection manager in
its order, `drives` the map of each session and `sds` the objects in it: a fork may go
on with an object that a sync has already taken out of the map, so objects have an
identity. `files` are inodes; `masterFile`, `splinterFile` and `scratches` the names that
lead to them. `loop` is the write a command loop is executing, `job` what a set-up, a
removal or a request is doing and the locals it captured. `acked` is what each client was
told. The drives of a session share nothing, so one drive is modelled.

*Data.* A file is the image it was copied from, the last write it got and whose it was;
what a commit publishes becomes everybody's. One epoch counter stands for those of the
two registries: versions are only compared, and say which table they are of.

*Actions.* `sync()` of a session is `SyncSession` (what it does before its first await),
`HandleClosed`, `SplinterUnlinked`, `Reattached`, `ReattachFails`, `Discarded`,
`MasterOpened`, `OpenFails`; `SyncDone` ends a request, or puts a connection that was set
up in the map. `Connect` and `Leave` are the socket's; a peer that leaves during the
set-up is not noticed, as in the code. A write is `WriteTrack`, then, if it is the first,
`ForkCopied` and `ForkOpened`, then `WriteLands` and `WriteSynced`. `SetClientDrive`,
`ClearClientDrive`, `ForgetClient` and `CommitClientSplinter` begin requests; `Restart`
stops everything at any moment. The operator's mounts are `OperatorMount` and
`OperatorUnmount`: the routes for drives tell no session, although the comment at
`drive-session.ts:92` says that `sync` is called "whenever the operator changes mounts".

*Assumed.* The reload of the operator's drive after a commit keeps the image mounted and
bumps its epoch. Ids are distinct as directory names. The not-ready window of a session,
which only delays writes, and reads, which change nothing, are left out.

*What may meet.* `Spec` lets everything meet. `Apart`, the `ACTION_CONSTRAINT` of one run,
leaves out the steps that bring together what the
properties about losing nothing need apart, and `Overlap` names it: a fork and a sync or
removal of its session (`ForkMeets`), two syncs, or a sync and a removal, of one session
(`SyncMeets`), two sessions of one client (`ClientMeets`), a session and `forgetClient`
(`ForgetMeets`), a set-up and a request (`SetupMeets`), a sync that closes a drive under a
write in order to serve another image, and a mount that brings the drive's image back
(`MountMeets`). The code keeps none of these apart; what happens when they meet is below.
`ApartSpec` is the specification whose steps keep `Apart`; the proofs are about it.

### ConfigStore

*State.* `names` and `inodes` are the directory of the overrides file: its name, three
backups and the temporary file; a request that writes holds an inode, and names may move
under it. `runtime` is what the daemon runs with, `epoch` its start-up stamp, `page` what
each open page shows and the tag (`ETag`) it will send back, `job` the request of a page.

*Actions.* The page loads (`ConfigLoaded`, `StatusLoaded`) and asks (`Put`, `Rollback`, `Reload`).
`ETagChecked`, `OverrideRead`, `BackupRead`, `Rotated`, `CopyBegins`, `CopyEnds`, `TmpOpened`,
`TmpWritten`, `TmpRenamed`, `Shifted` and their failures are what follows each await of
`config-persistence.ts`; `PutSucceeds`, `RollbackSucceeds` and `ReloadEnds` answer. `Restart`
ends the process between any two of them, planned or not; the new process merges the
layers again.

*Data.* A document is a partial function from keys to values; a file is a whole document,
just created, or torn. Some keys are applied to what runs at once (`Live`), some by a
reload, the rest by a restart.

### Machines

*State.* `inst` and `db` are the map of the manager and the rows; `attempts` holds every
start ever begun, with its connection, session, channel and machine, because a start that
is overtaken leaves one behind; `splinter` is the private copy of each instance, `snaps` the
snapshots, `overrides` the client mount registry.

*Actions.* `Define`, `CreateTransient`, `Start`, `Stop`, `Destroy`, `BeginSnapshot`,
`BeginRestore` and `DeleteSnapshot` are the operations up to their first await; `Started`,
`BuildFails`, `SnapshotTaken`, `RestoreCopied`, `RestoreFails` what follows; `Disposed` is the
end of a session whose channel was closed, `BeginWrite` and `WriteLands` the guest's.

*Data.* A drive holds the last write that reached it. One drive stands for those of a
machine; `DriveSession` has what a session does with it.

*Fairness* (`FairSpec`): calls to the file system return (`Continue`, `WriteLands`), and a loop
whose channel is closed gets to its end (`Disposed`).

### ImageLibrary

*State.* `names` are the files, each of which says which image it is and which version of
it; `notes`, `policies`, `rows` and `refs` are the tables of the database that know an image by
its file name; `blobs` are the files of snapshots; `mount` and `session` are what an
operator's drive and a client's session have open.

*Actions.* A beginning per route (`Create`, `Upload`, `Clone`, `Format`, `Rename`, `Delete`,
`Mount`, `Snapshot`, `Rollback`, `Forget`, `SetNote`, `SetPolicy`, `Point`, `Unpoint`) and a step per
await that follows. The database is synchronous, so its awaits end no action.

### Profiles

*State.* The tables `profiles`, `disks` and `catalog`; the references by `name@version` in
the rows of `instances` and `snapshots`, and those the instance manager holds in memory
(`loaded`); `booting`, the presets the boot in progress has not looked at. `stamp` orders
versions by their insertion: the code orders them by `created_at` and `rowid`.

*Actions.* One per request: `CreateProfile`, `CreateProfileFromPreset`, `ImportBundle`,
`UpdateProfile`, `WriteRom` (burn and erase), `ResetPreset`, `CloneProfile`, `RenameProfile`,
`DeleteVersion`, `DeleteProfile`, `SetProfileDisk`, `ClearProfileDisk`, `ForgetImage`,
`AuthorCard`, `DeleteAuthoredCard`, `DefineInstance`, `DestroyInstance`, `TakeSnapshot`,
`DeleteSnapshot`. A request is one step because the database is synchronous: the promises
that these operations await are fulfilled already, and the event loop runs such a
request to its end before it takes the next. `SeedPreset` is one step of the
boot, which ends before the server listens (`Serving`); `Restart` may come between two of
them, and not in the middle of a step: a process killed between the two statements of one
request is left out.

*Data.* A content stands for everything a version describes; what matters of it is which
cards it uses and whether it is another one. Two contents with the same cards differ in the
ROM of one. Notes, panels and the spelling of names follow the content.

### FileStore and CpmFileSystem

`FileStore` says what the users of a CP/M disk are promised: a map from file names to
contents; a request takes the map, changes the file it names in its own copy, and puts the
copy back. That the map is put back whole, and not the file, is the promise of the code,
not a better one: the later of two overlapping requests undoes the earlier.

`CpmFileSystem` has the directory entries with their extents and blocks, `FreeBlocks`,
`Written`, `Erased` and `Held` (what `readFile` returns), and the requests of
`routes/cpm.ts`: `Ask`, `Load`, `Open`, `Save`, `SaveFails` and `Kill`. Its last section is the
refinement mapping: an image stands for the files read from it (`Files`), a request for what
it wants of its file (`Wanted`) and the map it puts back (`Copy`), and
`ImplementsFileStore` says that the routes implement `FileStore`.
Directories may be larger than the geometry that the code assumes (`HiddenBlocks`).

### Transfer

*State.* `sender` is the XMODEM engine: where it stands, the block, the tries, its buffer and
its list of byte handlers; `replay` the other engine; `port` whether the terminal port is
open; `toGuest` and `toHost` the line; `guest` the program that receives.

*Actions.* `FileRead`, `Written`, `TimeOut`, `Arrive` and the failures are the sender's awaits
and callbacks; a callback that ends a wait is followed by everything up to the next await
(`Goes`, `CalledBack`). `Start`, `Cancel`, `KeyTyped`, `ClosePort` and `OpenPort` are the operator's.
The guest is external and speaks XMODEM as its receivers do: it begins, repeats itself,
takes or refuses a packet, ends.

*Fairness* (`Spec`): timers fire, reads and writes return, the replay goes on. Nothing is
assumed of the guest or of the line.

## Runs

| Run | States | Bounds | Shows |
|---|---|---|---|
| `drive_overlap` | 103 000 | one drive, two images, three requests of which two overlap, all faults, two writes | the mount table names what is mounted; a write admitted on a protected drive never reaches a master; masters change only by admitted writes and commits |
| `drive_serial` | 639 000 | two images, requests one at a time but the guest at every await, the faults after which the code cleans up | no handle and no scratch is lost and no drive is on a replaced file (`FilesAccounted`); a writable drive reaches its master and the mount table has the right flag (`DrivesAgree`); no stale track |
| `serial_reopen` | 4 050 000 | two tracks, two writes, all line faults, a port closed while the loop waits or sleeps, and opened again, a controller that stops waiting at any moment | a track holds a whole block that was sent for it |
| `links` | 135 000 | two tracks, two writes; on the serial line one controller, lost bytes and lost responses; on the WebSocket two controllers, one after the other, four sockets opened or closed | acknowledged writes are on the disk, no response reaches a controller that did not ask for it, a `READ` gets its own track, every command on the serial line is answered in the end (except a `READ` of an absent drive, which the code does not answer) |
| `session_overlap` | 1 960 000 | two connections, a persistent client and the one that writes images, or anonymous ones; two requests at once, splinters that cannot be opened and forks whose opening fails, one write, restarts | sessions are isolated and images change only as allowed, whatever meets |
| `session_apart` | 531 000 | the steps that keep `Apart`, two connections that may be of one client after another, two requests in all, two writes | acknowledged writes are found again, nothing is left behind, overrides are followed |
| `config` | 349 000 | two pages, two keys of two sections, of which one is live and one reloadable; three writes or rollbacks, one refused, one restart, an installation with no, or three, files | the file is whole and is what was last acknowledged or was cut off; the backups are the history; nothing is overwritten unseen; what runs is what is saved |
| `machines` | 124 000 | one instance, two requests at once, two starts, two writes, one snapshot; a profile that does not resolve, a machine that cannot be built | no machine without its instance; the row tells the status; the registry has the disks of what runs; the drive keeps what was acknowledged or restored; connections end |
| `library` | 746 000 | two names, two images, one snapshot, three requests of which two overlap, a splinter and an override | a mounted image stays; rows follow their image; snapshots are accounted for; a client reads its image; no image is written over |
| `profiles` | 645 000 | a preset and another name, three contents, a card of the engine and a card of a kernel, one image, instance and snapshot, four versions ever made, any number of restarts that leave room for the presets | the newest version is the highest; what refers to a profile stays with it; definitions change only by edits and resets |
| `cpm` | 64 000 | two files, six blocks, three directory entries, two blocks per entry and four records per extent, files of none, four and five records; two requests at once, three in all | no block has two owners, a directory larger than assumed stays whole, the routes implement `FileStore` |
| `transfer` | 408 000 | a file of no and of three blocks, numbers modulo 3, two tries, one transfer, one replay, one event of the operator or of an impatient guest | `completed` means received; a cancelled transfer sends no more packets; the line is listened to while, and only while, a transfer runs; every transfer ends |

The bounds are small because the operations are: two requests overlap in every way two
can, and the third comes after; two images tell the old one from the new one; two
writes tell a stale byte from a fresh one; two faults make a fault during the recovery
from a fault. Block numbers wrap around within one file, and an entry is full with four
records and overflows with five. `MaxQueue` is above what a loop leaves unread while a
controller waits.

## Margins

Where the properties end, and what lies beyond. Each can be reproduced with the change of
a configuration that is named.

**Drives.** A write that lands between the copy and the end of `commitTransient` is neither
in the master nor marked dirty, although `protocol.ts:63-64` says that `dirty` "flips on the
first successful write". A mount or a change of mode that opens the master during the copy
ends on the file that the commit replaces, which `drive.ts:693-694` means to exclude: with
`Req = {r1, r2}` in `MCDriveManagerSerial.cfg`, `FilesAccounted` fails, for this reason and because
two overlapping mounts leave a handle that nobody holds; `NoStaleImage` fails as well (the
window is decided before the first await). With `Faults <- AllFaults`, `FilesAccounted` fails: the
catch of `mountDrive` drops a scratch path that is not set yet (`drive.ts:262-264`). With
`Faults = {"scratch"}`, `DrivesAgree` fails: write-protecting a drive whose scratch copy fails
leaves it mounted, protected in the table, with no handle (`drive.ts:379` is outside the `try`
whose `catch` says "Mark drive as unmounted on remount failure"). No property says that
the mount table empties when a mount fails: a mount that fails over a mounted drive leaves
the entry of the old image (`drive.ts:255-266`).

**Command loop.** A `WRIT` whose data never arrives, or arrives damaged, is answered with the
engine's last code, which may be OK (`server.ts:334`; `docs/PROTOCOL.md:103-105`):
`AcknowledgedIsOnDisk` on a line with `"garble"`. With `Displaces = TRUE` in
`MCFdcLinksTimely.cfg`, a controller receives an answer to a command of the one it displaced,
and `TrackHoldsSentBlock` fails: the first bytes of a new connection are written to the disk as
the end of the old one's track (`ws-transport.ts:27`). With `Reconfigures = "anytime"` in
`MCFdcLinksReopen.cfg`, `TrackHoldsSentBlock` fails too: `pause()`, "Pause command handling"
(`server.ts:112`), stops the loop at its top only; a port closed and opened again while a
`WRIT` is being served (a disk slower than 25 ms) drops the next `WRIT`, and the track that follows
it on the new line is written where the old one belonged.

**Sessions.** `MCDriveSessionApart.cfg` without its `ACTION_CONSTRAINT` breaks all three
properties, and leaving any one disjunct out of `Overlap` breaks at least one of them:
without `ForkMeets` a fork against a removal leaves its handle and, for an anonymous
client, its scratch, and a sync that reopens a drive during its first write drops the object
that is being forked, so that an acknowledged write is on a splinter nobody reads
(`drive-session.ts:292`); without `SyncMeets` a request whose sync comes while another one is
still opening the session's drive finds nothing to do and is over too soon; without
`ClientMeets` the second session of a client forks over the first one's splinter; without
`ForgetMeets` a session whose mount does not change goes on writing to the splinter that
was unlinked; without `SetupMeets` a mount that changes during a set-up is not followed.
Leaving out `MountMeets` shows only with `MaxRequests = 4` (one client, connection and request
are enough): a sync has resolved what to serve, image B, and waits for the close of a drive
of image A under which a write is in flight; the operator mounts A again, so that the client
is told of a write to the image it is given; the sync goes on with the B it read before its
await and discards the splinter (`drive-session.ts:94-118`). The proof of `AcknowledgedSurvives`
found this one: its invariant was not inductive without it.
With `"reattach"` in `Faults`, `AcknowledgedSurvives` fails: any failure to open a splinter
drops its row (`drive-session.ts:175-178`, whose comment says "File vanished"). With
`"fork"`, `NothingLeftBehind` fails: the scratch whose opening failed has no owner.

**Configuration.** With `Meet = TRUE` in `MCConfigStore.cfg` all but `NoBlindOverwrite` fail: no
lock is held, two writes share the temporary file, the later one loses the earlier one's
keys, and a rotation may copy half a file. Also outside the properties: a page that reloads
what runs after it has saved shows the old value of a key that waits for a restart, and its
next save of the section reverts it, with a valid tag; `POST /api/config` toggles
`server.verbose` whatever it is sent; an override that cannot be parsed makes every `PUT` fail
until a rollback; a crash in the middle of the migration of a legacy file leaves backups
under the legacy names.

**Machines.** The properties exclude, by the ghosts `met`, `failed` and `hurried`, what the code
does when requests overlap: two starts make two machines, of which the first belongs to
nobody; a stop or destroy during a start leaves a machine of an instance that is stopped or
gone; a failed start leaves its disks in the registry, and a transient instance in the list.
A restore does not wait for the session of the machine it stopped, whose last write may land
in the restored disk. With `Mounts = {"other"}`, `DriveKeepsPromise` fails: a snapshot copies
the operator's entries, not those of the machine's own drives
(`instance-snapshot-service.ts:167-170`). A transient instance leaves its splinter's row and
file after it is destroyed (`instance-manager.ts:160` says "no DB/splinter residue"); rows of
persistent instances are not read again after a restart. One instance is enough: with two,
all properties hold too (655 000 states).

**Image library.** `excused` names what is left out: names on which requests overlapped or
broke off half way. There, setting a policy does not ask whether the image exists, so that
a later rename to that name throws after it has moved the file; an upload writes straight
over an image that is there, even a mounted one, and removes it when it is refused. A
rollback, format, delete and rename ask the operator's drives and not the sessions, so
that a client may read the replaced file ("Refused while the disk is mounted on any drive",
`disk-snapshots.ts:134`). Two rollbacks of one image share `.rollback.tmp`. The MCP tool
`delete_disk_image` does not remove the rows of startup disks. The run was repeated with
`Ref = {"client"}`, `MaxRequests = 4` (1 900 000 states) and with `Ref = {"client", "profile"}`.

**Profiles.** A rename moves the rows and not the reference that the instance manager holds,
although `database.ts:977` promises that nothing dangles: the next start of the instance
finds no startup disks, or those of a profile that took the old name, and its next snapshot
stores the old name. `LineageStaysTogether` is about the rows, and so does not see it.
The number of a newest version that was deleted is given again. Deleting the last version,
unlike deleting the profile, leaves its startup disks: a later profile of the name has
them, and a rename to the name may fail on them. A preset that was renamed or deleted is
seeded again at the next boot, although `preset-seed.ts:5-7` says that one the user "edited
or renamed" is skipped; a boot cut off between a preset and its disk leaves it without the
disk until it is reset. A reset of a user's profile that has a preset's name overwrites its newest
version (`DefinitionsStand` allows this). An authored card is deleted although profiles use
it, and those no longer resolve.

**CP/M.** With `RecordsPerExtent = 2`, the refinement fails: where an entry holds more records
than an extent counts, a file is read back short. Such a geometry (8 MB disks) is reached
only when it is passed explicitly, since `detectParams` never returns it and no caller passes
one; such a disk is then taken for another one, with the wrong number of boot tracks. The
write-back is not atomic, although the comment says so, and a process that is killed leaves
the image torn: `FileStore` allows it, as the code does. A file that owned the first block of a hidden directory
hands it on when it is deleted. That an image is not mounted is checked before the await
and not after it.

**Transfer.** A wait that times out leaves its handler, which swallows one byte. That protects
against a late answer (`MutStale`, without it, breaks `CompletedMeansReceived`), but after an answer that
was truly lost, every later answer goes to the wait before, and the block fails after ten
tries ("Timeout — retry", `xmodem-sender.ts:221`), unless the receiver speaks unasked.
`CompletedMeansReceived` excludes (`noisy`) a line with old bytes on it and a receiver that repeats itself in the
middle of a file: its extra answers acknowledge blocks that were not received. A
cancellation is not looked at while the end is being sent: such a transfer may still
report `completed`. The MCP tool starts a replay without asking either engine, so a replay and
a transfer may share the line; `POST /api/replay/cancel` then cancels the replay alone. Also
checked: files of two blocks, two events, three tries without replay. Two transfers in
sequence were not exhausted (1 300 000 states in five minutes without a violation).

## Proofs

`DriveManagerProofs` proves, for any number of drives, images, overlapping requests,
writes and retries and any set of faults:

- `TypeCorrect`: `Spec => []TypeOK`;
- `RegistryCorrect`: `Spec => []RegistryNamesMountedImage`;
- `ScratchTakesProtectedWrites`: `Spec => []ProtectedWritesStayOnScratch`;
- `MasterPristine`: `Spec => MasterChangesOnlyAsAllowed`.

They rest on the assumptions that `DriveManager` names and on `Invariance`: the
invariant `IndInv` is inductive. `TypeOK` and the two properties are not: that a
protected write is on a scratch needs, when the write is admitted, that a drive marked
transient has a handle on a scratch (`DriveOK`), which every request in progress may
disturb (`OperationOK`: what a request will put into the drive state is a scratch that
exists, or a master), and that numbers of handles and scratches point at something
(`References`). The step is proved action by action; handles are only ever closed or
appended, which two lemmas on sequences capture once (`ClosingKeepsPaths` and the lemmas on
`Append`). `MasterPristine` uses the same invariant: only three actions write `images`
(`ImageWriters`), and for each of them the invariant names the reason.

The other two invariants are about requests that do not overlap, the setting of `drive_serial`,
and are proved for it: `OneAtATime` (one request at a time, at any of the drives) and
`Faults \subseteq HandledFaults` (any fault but a failing open; Margins says how each of the two
breaks them otherwise).

- `EveryFileAccounted`: `Spec => []FilesAccounted`;
- `DrivesStayInAgreement`: `Spec => []DrivesAgree`;
- `BufferFollowsTheImage`: `Spec => NoStaleImage`, for which the track that the FDC has buffered is
  of the image that the drive has mounted, or the drive was swapped and has yet to tell it.

`SerialInv` says what a drive, its handle, its scratch and its entry in the mount table have to
do with each other between requests (`QuietOK`), and what is left of that at each stage of the
request under way (`BusyOK`, `CommitOK`); that an open handle is the handle of exactly one drive
(`Owned`); and what the track buffer may hold (`CacheOK`). A request disturbs one drive: the
lemmas `StepKeepsSerial` and `OtherStepKeepsSerial` reduce each step to that drive. A swap
makes the intermediate states differ from those of an unmount followed by a mount, and the
invariant has to carry `swapWindow` through all of them.

`DriveSessionProofs` proves, for any clients, connections, overlapping requests, writes and faults:

- `SessionsIsolated`: `Spec => []SessionsAreIsolated`;
- `ImagesProtected`: `Spec => ImagesChangeOnlyAsAllowed`;

and, for the steps that keep `Apart`:

- `OverridesFollowed`: `ApartSpec => []FollowsOverrides`;
- `NothingLeft`: `ApartSpec => []NothingLeftBehind`, where a copied splinter can be opened
  (`"fork" \notin Faults`);
- `AcknowledgedKept`: `ApartSpec => []AcknowledgedSurvives`, where a splinter that is there can be
  opened (`"reattach" \notin Faults`; Margins says how each of the two faults breaks its property).

The first two do not need the steps to keep apart. The argument is that of an owner: every file has one
from the moment it is made (a client, a connection that has no client, or the public, whose files are the
images), and every `SessionDrive` belongs to one connection. `Labelled` says that there are such
labels, and that a drive that has not forked shows the public's file and one that has shows
its owner's; a step makes at most one file and one drive, and the lemmas give each its label. The
rest of `IndInv` says what a suspended sync, write, removal or commit holds on to.

The other three share an invariant (`Base`) that adds to `IndInv` what `Apart` gives and what the
code then keeps of it (`Structure`): a connection is set up, in the map, or being removed, and its
job says which (`Seated`); who closes a drive has asked for it, who opens one finds none yet, and
nobody else is at work on the session (`WorkedOn`); where a write stands, and on which drive
(`Writes`); a drive and a transient file have one session (`Owned`). `StillApart` turns `Apart` after a
step into what a lemma can use. On that rest three invariants, one for each property. For what is
left behind, `OpenOwned` and `ScratchOwned`: an open handle has its session, and so has a file in
`.transient`, if only as the one that a fork is about to open. For what is followed, `Tracks`: the drive
of a session is the one that its client's mount table names, or a sync that will see to it is
on its way (`WillSync`). For what was acknowledged, `Keeps`: from the moment a client is told, its
splinter is the file that has the write, its row names the image, and what its sessions write
is later (`LoopLater`); a drive that has forked is on that splinter (`OnSplinter`), and a sync that opens
one works with an entry that will not discard it (`OpensKept`). TLC checks all of them together
on five small instances, of which two allow four requests.

`ConfigStoreProofs` proves, for any sections, keys, values, pages, faults and restarts:

- `TypesAlways`: `Spec => []ConfigTypeOK`, whatever overlaps;
- `ConfigSurvives`: `Spec => []AcknowledgedConfigSurvives`;
- `BackupsHoldTheHistory`: `Spec => []BackupsAreHistory`;
- `DaemonFollowsTheFile`: `Spec => []RuntimeFollowsFile`;
- `StaleSavesAreRefused`: `Spec => NoBlindOverwrite`.

The last four are about requests that have not met (`met`), since no lock keeps two saves apart; the
history, besides, about rotations that were not cut short (`broken`). `SerialInv` says what
the four names of the disk lead to at every await of a save and of a rollback: `BackupsAt`
which of the past documents is behind each backup, `Ready` that the temporary file is whole
before it is renamed, `StageOK` what the override, the memory of the daemon and the request
agree on, and `TagsOK` that a page with the current tag has seen the current document. A process
may be killed at each of these stages, so each says what a restart will find. Steps are described
by what they carry from one name to another (`Carried`); a document behind a name is then followed
through renames without mention of inodes. TLC checks `SerialInv` on the instance of `config`.

`ImageLibraryProofs` proves, for any names, rows, snapshots and requests:

- `MountedImagesStay`: `Spec => []MountedImageStays`;
- `RowsFollowImages`: `Spec => []RowsFollowTheirImage`;
- `SnapshotsAreAccounted`: `Spec => []SnapshotsAccounted`, whatever overlaps;
- `ClientsReadTheirImage`: `Spec => []ClientReadsItsImage`;
- `ImagesStayTheirs`: `Spec => ImagesStay`.

A request has all its names to itself or all of them are excused (`Alone`), and what such a request has
found out before an await still holds after it (`Stage`): a mount checked before the await of a delete,
a target that did not exist, a temporary copy that is of the image. `RowsFollow` and `SnapsOK`
except the names and snapshots of which one half is already gone.

`CpmFileSystemProofs` proves, for any geometry, directory, files, lengths and requests, and wherever
a process is killed:

- `BlocksCorrect`: `Spec => []BlocksUsedOnce`;
- `HiddenDirectoryKept`: `Spec => HiddenDirectoryStays`;
- `FilesCorrect`: what a request makes of the image that it read leaves every other file as it is,
  and holds every record of its own file, in extents that are numbered as they should be;
- `RoutesImplementFileStore`: `Spec => ImplementsFileStore`, where an entry holds no more records
  than an extent counts (`RecordsPerEntry <= RecordsPerExtent`; otherwise it is false, see Margins).

The invariant is short (`Sound`: no block twice, none in the directory, of the image and of each
image that a request carries). The work is in the operators: the k-th of a set of free blocks
is an injection (`RankGrows`, `NthIsThere`), the blocks of an extent are the ones that its
position gives it, and the extents of a file cover its blocks without overlap. `FilesCorrect` is
the step of the refinement for the directory.

The refinement adds the way back, from the directory to the file (`LegibleInv`: in every image each
file that is there lies in its entries as some request laid it out, `Placed`). A file that is `Placed`
is read back whole (`PlacedReads`): its extents come in order, since sorting by extent number
undoes the numbering (`ExtentsInOrder`), and their blocks one after the other are the blocks of
the file (`BlocksInPlace`), since every entry but the last is full. What concatenation does to any number
of sequences needs induction (`FlattenSeqIs`); it is argued as the least length at which the claim
fails (`LeastNumber`, from the library's `WFMin`), so no theorem about operators is needed. A request leaves
the files of others `Placed` (`OthersStayPlaced`), places or erases its own (`WrittenIsPlaced`,
`ErasedIsGone`), and each action is then a step of `FileStore` or changes nothing there
(`NextImplements`). TLC checks `LegibleInv` on the instance of `cpm`.

`FdcLinksProofs` proves, on either transport, for any sizes of frames, tracks, controllers, faults of
the line and of the disk, and whenever a controller on the line stops waiting:

- `TracksHoldTheirBlocks`: `Spec => []TrackHoldsSentBlock`;
- `ResponsesAreSolicited`: `Spec => []NoUnsolicitedResponse`.

Both are about what `OneByOne` says: no controller displaces another (`Displaces`), and a port is
closed when no command is being served (`Reconfigures`); Margins says how each breaks them otherwise.
For a controller that waits in time (`InTime`: besides, on the line it asks again only when the
loop waits for more bytes than there are, and its port is left alone), the setting of `links`:

- `ReadsGetTheirTrack`: `Spec => ReadGetsItsTrack`;
- `AcknowledgementsAreTrue`: `Spec => []AcknowledgedIsOnDisk`, on a line that damages no byte
  (`"garble" \notin LineFaults`; with it the property is false, see Margins) but may lose bytes
  and answers.

A frame of data does not say where it belongs, so the argument is about the order of the
stream. On the serial line (`SerialInv`), what comes before the first byte of a track is the end of
a `WRIT` for that track, or noise (`StreamOK`); so when the loop has taken a `WRIT` and
nothing since, the track that is next is the right one (`HeadOK`). A timeout forgets what it has
eaten and cannot break this, nor can any retry, since a controller sends a track only after
it was answered, behind the last command that it sent. On a WebSocket nothing is lost, and loop and
controller go in step (`Lockstep`): of the command, the response and the track at most one is on
its way, and it is what the other side waits for. The lemmas about tokens say what a fault leaves of
a message (`ArrivalsAre`), and that a frame taken for a message is that message, whole (`TakenIs`).
The steps of the loop fall into six cases (`ServerCases`), those of a controller into three
(`ControllerCases`). TLC checks `IndInv` on the instances of `serial_reopen` and `links`.

In time, the loop and the controller take turns on the line as well (`LineInv`): while the loop
serves a command nothing follows it (`Serves`), between two commands the next one that it can find
is the last that was asked (`Rests`), and while it waits for a track the controller has been told
to send it, has sent what there is of it, or has given up and sent less than a track by then
(`Awaits`). What is left of a write that was given up is at most answers to it (`Stale`), which no wait for
a track takes. `AckInv` numbers the writes: a track holds none that was not asked for, and a success
on its way to a controller that waits for one (`StatusOK`) is of the last. The loop also reports the code of
an earlier operation when a track does not come; that controller has asked again by then
(`OutWaited`). TLC checks both invariants on the instance of `links`, and `LineInv` with `"garble"` too.

`MachinesProofs` proves, for any number of instances, overlapping requests, starts, writes
and snapshots:

- `RowsCorrect`: `Spec => []RowTellsStatus`;
- `MachinesCanBeStopped`: `Spec => []NoStrayMachine`;
- `OverridesCorrect`: `Spec => []OverridesFollowMachines`;
- `DrivesKeepTheirPromise`: `Spec => []DriveKeepsPromise`, where the operator has no other
  image mounted (`"other" \notin Mounts`; with it the property is false, see Margins).

Why they hold: as long as no two requests for an instance overlap, the request that is in
progress is the only one that may change it (`AloneOK`), and the attempt it works on is the
one it began (`JobOK`, `OneRequestPerAttempt`); an attempt in progress belongs to exactly one
request or is the machine of its instance (`AttemptOK`, `InstanceOK`). The two properties about
machines and overrides are conjuncts of the invariant `IndInv` themselves. Those about data
need one more invariant (`PromiseOK`): a write on its way is one that its instance may come
to hold, and what a snapshot or restore is copying is what it promised. TLC checks `IndInv`
on the instance of the run.

`ProfilesProofs` proves, for any names, presets, contents, cards, instances, snapshots and
bound of versions:

- `ProfilesInvariance`: `Spec => []IndInv`;
- `NewestCorrect`: `Spec => []NewestIsHighest`;
- `DefinitionsCorrect`: `Spec => DefinitionsStand`;
- `LineageCorrect`: `Spec => LineageStaysTogether`.

The invariant is that of one table (`TableInv`): stamps tell versions apart and are not from
the future, and within a name they are in the order of the numbers. Every request writes the table
in one of five ways (insertion of a first or of a next version, overwriting, deletion,
renaming to a free name), and one lemma for each shows that the invariant is kept; so the
cases of `Next` fall into few. `NewestIsHighest` alone is nearly inductive; the two action
properties need besides that a stamp identifies a version across a step.

Only model-checked:

- transfers;
- liveness (`EveryCommandAnswered`, `ConnectionsEnd`, `TransferEnds`), out of the prover's reach.

The assumptions on constants are those that the modules name. Four are there for the proofs:
images are finitely many in `DriveSession` (the numbers of their files are), pages in `ConfigStore`
(so are inodes), a past document there is not empty, since every save writes keys, and in
`CpmFileSystem` no file has the name that stands for an unused entry (status `0xE5`, which is no
user number).

## Plan

Done: the drive engine, the machines, the profiles, the sessions, the configuration, the image
library and CP/M with their proofs, the refinement of CP/M among them; the command loop on both
transports, with the proofs about its stream and its acknowledgements; transfers.

Next, in this order:

1. The invariants of `Transfer` as theorems.
2. An abstract specification of a session (a guest sees its own writes over the image it was
   given) that `DriveSession` implements while its steps keep `Apart`.
3. `DiskServing`: the loops as processes that share a port.

## Not modelled

- *Disk serving* starts and stops the loop that `FdcLinks` has once; two loops on one port
  would need its line to be shared between them.
- *Consoles, sessions and authentication*: tables and rings inside one process, changed
  without awaits.
- *Of profiles and cards*: the schemas of cards and profiles, the parsing of ROM images and
  the rules about collisions of addresses, which are pure checks of one request; listings of
  the catalog.
- *The HTTP, WebSocket and MCP layers* parse requests and present answers. Where they decide
  something (which drive a request is about, which rows go with an image, who may start a
  transfer), the module of the component has it.
- *The browser client*, but for the configuration page and its banner; the emulated machine
  (`@joezilla/8sim`, another package); hardware drawings and packaging.
