------------------------------ MODULE Machines ------------------------------
(***************************************************************************)
(* Virtual machines: their life (src/services/instance-manager.ts), the    *)
(* in-process connection that serves the drive of each                     *)
(* (src/services/connection-manager.ts,                                    *)
(* src/services/in-process-fdc-channel.ts), the mounts they own            *)
(* (src/client-mount-registry.ts), their snapshots                         *)
(* (src/services/instance-snapshot-service.ts) and the requests of         *)
(* src/routes/instances.ts.                                                *)
(*                                                                         *)
(* An action is what the code does between two awaits.  One drive stands   *)
(* for all; DriveSession has what a session does with it, so that here a   *)
(* drive holds the last write that reached it, or the image it began with. *)
(***************************************************************************)
EXTENDS Naturals, FiniteSets, FiniteSetsExt

CONSTANTS
    Id,          \* instances; an id is never used twice
    Req,         \* requests that may be in progress at the same time: numbers
    Snap,        \* snapshots ever taken
    Mounts,      \* the operator's mounts: "none", the "same" image as the machines, or an "other"
    Faults,      \* what may fail: a profile that does not resolve, a machine that cannot be built
    MaxStarts,   \* bound: attempts to start a machine
    MaxWrites    \* bound: track writes of all guests

ASSUME ConstantsAssumption ==
    /\ "none" \notin Id \cup Snap
    /\ Faults \subseteq {"resolve", "build"}
    /\ Req \subseteq Nat
    /\ Mounts \subseteq {"none", "same", "other"}
    /\ MaxStarts \in Nat \ {0} /\ MaxWrites \in Nat

VARIABLES
    inst,      \* the RunningInstance objects
    db,        \* table machine_instances: the status column, "none": no row
    overrides, \* instances whose startup disks are in the client mount registry
    attempts,  \* every start ever begun: its connection, its session and its machine
    starts,    \* how many
    splinter,  \* per instance, what its splinter holds, NoFile: it has none
    alien,     \* instances whose splinter is recorded as one of another image
    snaps,     \* what each snapshot holds
    mounted,   \* what the operator has mounted, out of Mounts
    job,       \* what each request does
    stamps,    \* writes begun so far
    promised,  \* ghost: what the drive of each instance may hold
    failed,    \* ghost: instances with a start that failed
    met,       \* ghost: instances with two requests at a time
    hurried    \* ghost: a restore replaced a drive with a write still in flight

manager == <<inst, db, overrides>>
disks == <<splinter, alien, snaps, mounted>>
ghosts == <<promised, failed, met, hurried>>
vars == <<manager, attempts, starts, disks, job, stamps, ghosts>>

-----------------------------------------------------------------------------
Attempt == 1 .. MaxStarts

\* What a drive may hold: the image of its profile, a write of a guest, and the
\* image that the operator has mounted.
Image == 0
OperatorImage == MaxWrites + 1
NoFile == MaxWrites + 2
Content == 0 .. MaxWrites + 1

\* place: whether the map of the manager has it.
Instance == [place : {"new", "map", "gone"}, status : {"defined", "running", "stopped"},
             transient : BOOLEAN, machine : Attempt \cup {0}]
Known(i) == inst[i].place = "map"
Running(i) == inst[i].status = "running"

\* conn: the served connection with its session; machine: runs until torn down;
\* write: what the session is writing, 0: nothing.
AttemptState == [owner : Id \cup {"none"}, conn : {"none", "syncing", "served", "removing", "gone"},
                 channel : {"none", "open", "closed"}, machine : {"none", "runs", "stopped"},
                 write : 0 .. MaxWrites]
NoAttempt == [owner |-> "none", conn |-> "none", channel |-> "none", machine |-> "none",
              write |-> 0]

Kind == {"none", "start", "snapshot", "restore"}
Pc == {"idle", "sync", "copy"}
Job == [pc : Pc, kind : Kind, id : Id \cup {"none"}, attempt : Attempt \cup {0},
        snap : Snap \cup {"none"}, source : Content \cup {NoFile}, restart : BOOLEAN]
NoJob == [pc |-> "idle", kind |-> "none", id |-> "none", attempt |-> 0, snap |-> "none",
          source |-> NoFile, restart |-> FALSE]

Init ==
    /\ inst = [i \in Id |-> [place |-> "new", status |-> "defined", transient |-> FALSE,
                             machine |-> 0]]
    /\ db = [i \in Id |-> "none"]
    /\ overrides = {}
    /\ attempts = [a \in Attempt |-> NoAttempt]
    /\ starts = 0
    /\ splinter = [i \in Id |-> NoFile]
    /\ alien = {}
    /\ snaps = [s \in Snap |-> NoFile]
    /\ mounted \in Mounts
    /\ job = [r \in Req |-> NoJob]
    /\ stamps = 0
    /\ promised = [i \in Id |-> {Image}]
    /\ failed = {} /\ met = {} /\ hurried = FALSE

-----------------------------------------------------------------------------
(* Mutations of definitions below: what a plausible slip in the code would do. *)

\* Stopping leaves the startup disks in the registry.
MutCleared(i) == overrides

\* The connection manager is not told of a channel that closes.
MutChannelClosed(a) == [attempts EXCEPT ![a].channel = "closed"]

\* Destroying an instance leaves its machine.
MutHasMachine(i) == FALSE

\* A restore does not record the splinter that it has written.
MutRestored(i, content) == splinter

\* The row says "running" when the start begins.
MutBegun(i) == IF inst[i].transient THEN db ELSE [db EXCEPT ![i] = "running"]

-----------------------------------------------------------------------------
(* Requests *)

Busy(i) == {r \in Req : job[r].id = i}

\* A request for instance i.
Asks(r, i) ==
    /\ job[r].pc = "idle" /\ \A q \in Req : job[q].pc = "idle" => r <= q
    /\ met' = IF Busy(i) = {} THEN met ELSE met \cup {i}

Finish(r) == job' = [job EXCEPT ![r] = NoJob]

\* What the drive of an instance holds.
Holds(i) == IF splinter[i] = NoFile THEN Image ELSE splinter[i]

-----------------------------------------------------------------------------
(* Starting *)

\* What the row of an instance says while it is being started.
Begun(i) == db

\* startInstance, up to the first file that the session opens.  Only a profile
\* that resolves gets so far.
BeginStart(r, i) ==
    /\ starts < MaxStarts
    /\ starts' = starts + 1
    /\ overrides' = overrides \cup {i}
    /\ attempts' = [attempts EXCEPT ![starts + 1].owner = i, ![starts + 1].conn = "syncing"]
    /\ job' = [job EXCEPT ![r] = [NoJob EXCEPT !.pc = "sync", !.kind = "start", !.id = i,
                                               !.attempt = starts + 1]]
    /\ db' = Begun(i)

Define(i) ==
    /\ inst[i].place = "new"
    /\ inst' = [inst EXCEPT ![i].place = "map"]
    /\ db' = [db EXCEPT ![i] = "defined"]
    /\ UNCHANGED <<overrides, attempts, starts, disks, job, stamps, ghosts>>

\* An instance of which the profile does not resolve stays registered.
CreateTransient(r, i) ==
    /\ inst[i].place = "new"
    /\ inst' = [inst EXCEPT ![i].place = "map", ![i].transient = TRUE]
    /\ Asks(r, i)
    /\ \/ BeginStart(r, i) /\ UNCHANGED failed
       \/ /\ "resolve" \in Faults
          /\ failed' = failed \cup {i}
          /\ UNCHANGED <<db, overrides, attempts, starts, job>>
    /\ UNCHANGED <<disks, stamps, promised, hurried>>

Start(r, i) ==
    /\ Known(i) /\ ~Running(i)
    /\ Asks(r, i)
    /\ BeginStart(r, i)
    /\ UNCHANGED <<inst, disks, stamps, promised, failed, hurried>>

NowRuns(i, a) == [inst EXCEPT ![i].status = "running", ![i].machine = a]

\* The session has opened the splinter, or dropped it as one of another image; the
\* connection is in the map, its close handler is set, the machine is built and
\* runs; the object gets all this even if the map has lost it.
Started(r) ==
    /\ job[r].pc = "sync"
    /\ LET i == job[r].id
           a == job[r].attempt
       IN  /\ attempts' = [attempts EXCEPT ![a].conn = "served", ![a].channel = "open",
                                           ![a].machine = "runs"]
           /\ inst' = NowRuns(i, a)
           /\ db' = IF db[i] = "none" THEN db ELSE [db EXCEPT ![i] = "running"]
           /\ splinter' = IF i \in alien THEN [splinter EXCEPT ![i] = NoFile] ELSE splinter
           /\ alien' = alien \ {i}
    /\ Finish(r)
    /\ UNCHANGED <<overrides, starts, snaps, mounted, stamps, ghosts>>

\* buildMachine throws: the channel is closed; the overrides stay.
BuildFails(r) ==
    /\ job[r].pc = "sync" /\ "build" \in Faults
    /\ attempts' = [attempts EXCEPT ![job[r].attempt].conn = "removing",
                                    ![job[r].attempt].channel = "closed"]
    /\ failed' = failed \cup {job[r].id}
    /\ Finish(r)
    /\ UNCHANGED <<manager, starts, disks, stamps, promised, met, hurried>>

-----------------------------------------------------------------------------
(* Stopping *)

\* The client's end of the channel is closed: its handler removes the connection,
\* unless it has been removed, and lets the session close its files.
ChannelClosed(a) ==
    [attempts EXCEPT ![a].channel = "closed",
                     ![a].conn = IF @ = "served" THEN "removing" ELSE @]

Cleared(i) == overrides \ {i}

\* teardown.
TornDown(i) ==
    LET a == inst[i].machine
    IN  [ChannelClosed(a) EXCEPT ![a].machine = "stopped"]

Stop(r, i) ==
    /\ Known(i) /\ Running(i)
    /\ Asks(r, i)
    /\ attempts' = TornDown(i)
    /\ inst' = [inst EXCEPT ![i].status = "stopped", ![i].machine = 0]
    /\ db' = IF db[i] = "none" THEN db ELSE [db EXCEPT ![i] = "stopped"]
    /\ overrides' = Cleared(i)
    /\ UNCHANGED <<starts, disks, job, stamps, promised, failed, hurried>>

HasMachine(i) == Running(i)

Destroy(r, i) ==
    /\ Known(i)
    /\ Asks(r, i)
    /\ attempts' = IF HasMachine(i) THEN TornDown(i) ELSE attempts
    /\ overrides' = IF HasMachine(i) THEN Cleared(i) ELSE overrides
    /\ inst' = [inst EXCEPT ![i].place = "gone", ![i].machine = 0]
    /\ db' = [db EXCEPT ![i] = "none"]
    /\ UNCHANGED <<starts, disks, job, stamps, promised, failed, hurried>>

\* The session has closed its files, which waits for the write in flight.
Disposed(a) ==
    /\ attempts[a].conn = "removing" /\ attempts[a].write = 0
    /\ attempts' = [attempts EXCEPT ![a] = [NoAttempt EXCEPT !.conn = "gone", !.channel = "closed"]]
    /\ UNCHANGED <<manager, starts, disks, job, stamps, ghosts>>

-----------------------------------------------------------------------------
(* The guest writes a track; the first write forks the splinter. *)

BeginWrite(a) ==
    /\ attempts[a].machine = "runs" /\ attempts[a].conn = "served" /\ attempts[a].write = 0
    /\ stamps < MaxWrites
    /\ stamps' = stamps + 1
    /\ attempts' = [attempts EXCEPT ![a].write = stamps + 1]
    /\ promised' = [promised EXCEPT ![attempts[a].owner] = @ \cup {stamps + 1}]
    /\ UNCHANGED <<manager, starts, disks, job, failed, met, hurried>>

\* Other writes to the drive of an instance that are on their way.
InFlight(i, a) ==
    {attempts[b].write : b \in {c \in Attempt \ {a} : attempts[c].owner = i}} \ {0}

\* It is acknowledged if the machine is still there to hear it.
WriteLands(a) ==
    /\ attempts[a].write # 0
    /\ LET i == attempts[a].owner
           w == attempts[a].write
       IN  /\ splinter' = [splinter EXCEPT ![i] = w]
           /\ promised' = IF attempts[a].channel = "open"
                          THEN [promised EXCEPT ![i] = {w} \cup InFlight(i, a)]
                          ELSE promised
           /\ alien' = IF splinter[i] = NoFile THEN alien \ {i} ELSE alien
    /\ attempts' = [attempts EXCEPT ![a].write = 0]
    /\ UNCHANGED <<manager, starts, snaps, mounted, job, stamps, failed, met, hurried>>

-----------------------------------------------------------------------------
(* Snapshots *)

\* The operator's mounts say which drives there are to copy, and from where if
\* the instance has no splinter.
BeginSnapshot(r, i, s) ==
    /\ Known(i) /\ mounted # "none"
    /\ snaps[s] = NoFile /\ \A q \in Req : job[q].snap # s
    /\ Asks(r, i)
    /\ job' = [job EXCEPT ![r] = [NoJob EXCEPT !.pc = "copy", !.kind = "snapshot", !.id = i,
                                               !.snap = s, !.source = splinter[i]]]
    /\ UNCHANGED <<manager, attempts, starts, disks, stamps, promised, failed, hurried>>

SnapshotTaken(r) ==
    /\ job[r].pc = "copy" /\ job[r].kind = "snapshot"
    /\ snaps' = [snaps EXCEPT ![job[r].snap] =
                    IF job[r].source # NoFile THEN splinter[job[r].id]
                    ELSE IF mounted = "same" THEN Image ELSE OperatorImage]
    /\ Finish(r)
    /\ UNCHANGED <<manager, attempts, starts, splinter, alien, mounted, stamps, ghosts>>

\* The target may be another instance; it is stopped if it runs.
BeginRestore(r, i, s) ==
    /\ Known(i) /\ snaps[s] # NoFile
    /\ Asks(r, i)
    /\ attempts' = IF Running(i) THEN TornDown(i) ELSE attempts
    /\ overrides' = IF Running(i) THEN Cleared(i) ELSE overrides
    /\ inst' = [inst EXCEPT ![i].status = IF Running(i) THEN "stopped" ELSE @,
                            ![i].machine = IF Running(i) THEN 0 ELSE @]
    /\ db' = IF Running(i) /\ db[i] # "none" THEN [db EXCEPT ![i] = "stopped"] ELSE db
    /\ job' = [job EXCEPT ![r] = [NoJob EXCEPT !.pc = "copy", !.kind = "restore", !.id = i,
                                               !.snap = s, !.restart = Running(i)]]
    /\ UNCHANGED <<starts, disks, stamps, promised, failed, hurried>>

Restored(i, content) == [splinter EXCEPT ![i] = content]

\* The file is over the splinter, the row says so, and the machine is started
\* again if it ran; a snapshot whose files are gone restores nothing.
RestoreCopied(r) ==
    /\ job[r].pc = "copy" /\ job[r].kind = "restore"
    /\ LET i == job[r].id
           content == snaps[job[r].snap]
           writing == \E a \in Attempt : attempts[a].owner = i /\ attempts[a].write # 0
       IN  /\ splinter' = IF content = NoFile THEN splinter ELSE Restored(i, content)
           /\ alien' = IF content # NoFile /\ mounted = "other" THEN alien \cup {i} ELSE alien
           /\ promised' = IF content = NoFile THEN promised
                          ELSE [promised EXCEPT ![i] = {content}]
           /\ hurried' = (hurried \/ writing)
           /\ \/ /\ job[r].restart /\ Known(i) /\ ~Running(i)
                 /\ BeginStart(r, i)
              \/ /\ ~(job[r].restart /\ Known(i) /\ ~Running(i))
                 /\ Finish(r)
                 /\ UNCHANGED <<db, overrides, attempts, starts>>
    /\ UNCHANGED <<inst, snaps, mounted, stamps, failed, met>>

\* The files go while they are being copied: the machine is not started again.
RestoreFails(r) ==
    /\ job[r].pc = "copy" /\ job[r].kind = "restore"
    /\ snaps[job[r].snap] = NoFile
    /\ Finish(r)
    /\ UNCHANGED <<manager, attempts, starts, disks, stamps, ghosts>>

DeleteSnapshot(s) ==
    /\ snaps[s] # NoFile
    /\ snaps' = [snaps EXCEPT ![s] = NoFile]
    /\ UNCHANGED <<manager, attempts, starts, splinter, alien, mounted, job, stamps, ghosts>>

-----------------------------------------------------------------------------
InstanceStep(r, i) ==
    \/ CreateTransient(r, i) \/ Start(r, i) \/ Stop(r, i) \/ Destroy(r, i)
    \/ \E s \in Snap : BeginSnapshot(r, i, s) \/ BeginRestore(r, i, s)

Continue(r) ==
    \/ Started(r) \/ BuildFails(r) \/ SnapshotTaken(r)
    \/ RestoreCopied(r) \/ RestoreFails(r)

Next ==
    \/ \E i \in Id : Define(i)
    \/ \E r \in Req, i \in Id : InstanceStep(r, i)
    \/ \E r \in Req : Continue(r)
    \/ \E a \in Attempt : Disposed(a) \/ BeginWrite(a) \/ WriteLands(a)
    \/ \E s \in Snap : DeleteSnapshot(s)

Spec == Init /\ [][Next]_vars

\* Calls to the file system return; what the host asks for next is up to it.
Fairness ==
    /\ \A r \in Req : WF_vars(Continue(r))
    /\ \A a \in Attempt : WF_vars(WriteLands(a)) /\ WF_vars(Disposed(a))

FairSpec == Spec /\ Fairness

-----------------------------------------------------------------------------
(* Properties. *)

\* Types; and an instance in the map has a machine exactly while it says that it runs.
MachinesTypeOK ==
    /\ inst \in [Id -> Instance]
    /\ \A i \in Id : Known(i) => (Running(i) <=> inst[i].machine # 0)
    /\ db \in [Id -> {"none", "defined", "running", "stopped"}]
    /\ overrides \subseteq Id /\ alien \subseteq Id
    /\ attempts \in [Attempt -> AttemptState] /\ starts \in 0 .. MaxStarts
    /\ splinter \in [Id -> Content \cup {NoFile}]
    /\ snaps \in [Snap -> Content \cup {NoFile}]
    /\ mounted \in Mounts
    /\ job \in [Req -> Job]
    /\ stamps \in 0 .. MaxWrites
    /\ promised \in [Id -> SUBSET Content]
    /\ failed \subseteq Id /\ met \subseteq Id /\ hurried \in BOOLEAN

\* Every machine that runs is the one of an instance that is in the map and says
\* that it runs, so that somebody can stop it; unless requests for the instance
\* have overlapped, which starts two machines, or one for an instance that is gone.
NoStrayMachine ==
    \A a \in Attempt : attempts[a].machine = "runs" /\ attempts[a].owner \notin met =>
        LET i == attempts[a].owner IN Known(i) /\ Running(i) /\ inst[i].machine = a

\* However requests interleave, the row of a persistent instance tells its status.
RowTellsStatus ==
    /\ MachinesTypeOK
    /\ \A i \in Id : Known(i) /\ ~inst[i].transient => db[i] = inst[i].status

\* The client mount registry has the startup disks of an instance exactly while it
\* runs or is being started; a start that fails leaves them, and so do overlaps.
OverridesFollowMachines ==
    \A i \in Id \ (met \cup failed) :
        i \in overrides <=> \/ Known(i) /\ Running(i)
                            \/ \E r \in Req : job[r].kind = "start" /\ job[r].id = i

\* A drive holds the last write that its guest was told has been done, or what was
\* restored since, or a write cut off on its way; across stops, starts and restores,
\* unless a restore was too quick for a write of the machine that it stopped.
DriveKeepsPromise ==
    ~hurried => \A i \in Id : Holds(i) \in promised[i]

\* The connection of a machine that was torn down goes away, with its session.
ConnectionsEnd ==
    \A a \in Attempt : attempts[a].channel = "closed" ~> attempts[a].conn = "gone"
=============================================================================
