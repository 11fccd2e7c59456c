--------------------------- MODULE MachinesProofs ---------------------------
(***************************************************************************)
(* What holds of the virtual machines for any number of instances,         *)
(* requests, snapshots, starts and writes.                                 *)
(***************************************************************************)
EXTENDS Machines, TLAPS

\* What a request does is about an instance, and a start about an attempt of it.
JobOK(r) ==
    /\ job[r].pc = "idle" => job[r] = NoJob
    /\ job[r].pc # "idle" => job[r].id \in Id
    /\ job[r].pc = "sync" <=> job[r].kind = "start"
    /\ job[r].pc = "copy" => job[r].snap \in Snap
    /\ job[r].pc = "sync" => /\ job[r].attempt \in 1 .. starts
                             /\ attempts[job[r].attempt].conn = "syncing"
                             /\ attempts[job[r].attempt].owner = job[r].id

\* An attempt that is being made is the attempt of one request.
OneRequestPerAttempt ==
    \A r, q \in Req :
        job[r].pc = "sync" /\ job[q].pc = "sync" /\ r # q => job[r].attempt # job[q].attempt

AttemptOK(a) ==
    /\ a > starts => attempts[a] = NoAttempt
    /\ attempts[a].conn \in {"syncing", "served", "removing"} => attempts[a].owner \in Id
    /\ attempts[a].machine = "runs" => attempts[a].owner \in Id
    /\ attempts[a].write # 0 => attempts[a].owner \in Id

InstanceOK(i) ==
    /\ inst[i].place = "new" => /\ inst[i].status = "defined" /\ inst[i].machine = 0
                                /\ i \notin overrides /\ Busy(i) = {}
    /\ inst[i].machine <= starts
    /\ Known(i) /\ ~inst[i].transient => db[i] = inst[i].status

\* While the requests for an instance have not met, there is at most one, and a start
\* is the start of an instance that is there and does not run.
AloneOK(i) ==
    i \notin met =>
        /\ \A r, q \in Req : job[r].id = i /\ job[q].id = i => r = q
        /\ \A r \in Req : job[r].id = i /\ job[r].pc = "sync" => Known(i) /\ ~Running(i)

IndInv ==
    /\ MachinesTypeOK
    /\ \A r \in Req : JobOK(r)
    /\ OneRequestPerAttempt
    /\ \A a \in Attempt : AttemptOK(a)
    /\ \A i \in Id : InstanceOK(i) /\ AloneOK(i)
    /\ NoStrayMachine
    /\ OverridesFollowMachines

-----------------------------------------------------------------------------
LEMMA NoneIsNoName == "none" \notin Id /\ "none" \notin Snap
BY ConstantsAssumption

LEMMA IdleTypes == NoAttempt \in AttemptState /\ NoJob \in Job
BY ConstantsAssumption DEF NoAttempt, AttemptState, NoJob, Job, Kind, Pc, NoFile

\* Tearing down stops one machine, and changes no other attempt.
OnlyStops(i) ==
    /\ attempts' \in [Attempt -> AttemptState]
    /\ \A b \in Attempt :
          /\ attempts'[b].owner = attempts[b].owner /\ attempts'[b].write = attempts[b].write
          /\ \/ attempts'[b].conn = attempts[b].conn
             \/ attempts'[b].conn = "removing" /\ attempts[b].conn = "served"
          /\ attempts'[b].machine \in {attempts[b].machine, "stopped"}
          /\ b = inst[i].machine \/ attempts'[b] = attempts[b]

OneMachineStops(i) ==
    /\ inst[i].machine \in Attempt
    /\ attempts'[inst[i].machine].machine = "stopped"
    /\ OnlyStops(i)

LEMMA TearingDown ==
    ASSUME MachinesTypeOK, NEW i \in Id, Known(i), Running(i), attempts' = TornDown(i)
    PROVE  OneMachineStops(i)
<1> DEFINE a == inst[i].machine
           e == [attempts[a] EXCEPT !.channel = "closed", !.machine = "stopped",
                                    !.conn = IF @ = "served" THEN "removing" ELSE @]
<1>1. a \in Attempt /\ attempts \in [Attempt -> AttemptState] /\ attempts[a] \in AttemptState
    BY DEF MachinesTypeOK, Instance
<1>2. attempts' = [attempts EXCEPT ![a] = e]
    BY <1>1 DEF TornDown, ChannelClosed, AttemptState
<1>3. /\ e \in AttemptState
      /\ e.owner = attempts[a].owner /\ e.write = attempts[a].write /\ e.machine = "stopped"
      /\ e.conn = IF attempts[a].conn = "served" THEN "removing" ELSE attempts[a].conn
    BY <1>1 DEF AttemptState
<1> HIDE DEF e
<1>4. /\ attempts' \in [Attempt -> AttemptState]
      /\ \A b \in Attempt : attempts'[b] = IF b = a THEN e ELSE attempts[b]
    BY <1>1, <1>2, <1>3
<1> QED
    BY <1>1, <1>3, <1>4 DEF OneMachineStops, OnlyStops

LEMMA InitEstablishes == Init => IndInv
<1> SUFFICES ASSUME Init PROVE IndInv
    OBVIOUS
<1>1. Image \in Content /\ 0 \in 0 .. MaxStarts /\ 0 \in 0 .. MaxWrites
    BY ConstantsAssumption DEF Image, Content
<1>2. MachinesTypeOK
    BY <1>1, IdleTypes DEF Init, MachinesTypeOK, Instance, Known, Running
<1>3. \A r \in Req : JobOK(r)
    BY DEF Init, JobOK, NoJob
<1>4. OneRequestPerAttempt
    BY DEF Init, OneRequestPerAttempt, NoJob
<1>5. \A a \in Attempt : AttemptOK(a)
    BY DEF Init, AttemptOK, NoAttempt
<1>6. \A i \in Id : InstanceOK(i) /\ AloneOK(i)
    BY NoneIsNoName DEF Init, InstanceOK, AloneOK, Busy, Known, NoJob
<1>7. NoStrayMachine /\ OverridesFollowMachines
    BY DEF Init, NoStrayMachine, OverridesFollowMachines, NoAttempt, NoJob, Known
<1> QED
    BY <1>2, <1>3, <1>4, <1>5, <1>6, <1>7 DEF IndInv

LEMMA StopPreserves ==
    ASSUME IndInv, NEW r \in Req, NEW i \in Id, Stop(r, i)
    PROVE  IndInv'
<1> USE NoneIsNoName
<1>1. OneMachineStops(i)
    BY TearingDown DEF IndInv, Stop
<1>2. MachinesTypeOK'
    BY <1>1 DEF OneMachineStops, OnlyStops, IndInv, Stop, Asks, Cleared, MachinesTypeOK,
       Instance, Known, Running, disks
<1>3. \A q \in Req : JobOK(q)'
    BY <1>1 DEF OneMachineStops, OnlyStops, IndInv, Stop, JobOK, MachinesTypeOK, Job, Attempt
<1>4. OneRequestPerAttempt'
    BY DEF IndInv, Stop, OneRequestPerAttempt
<1>5. \A a \in Attempt : AttemptOK(a)'
    BY <1>1 DEF OneMachineStops, OnlyStops, IndInv, Stop, AttemptOK, InstanceOK, MachinesTypeOK,
       Attempt
<1>6. \A j \in Id : InstanceOK(j)'
    BY DEF IndInv, Stop, InstanceOK, Known, Busy, Cleared, MachinesTypeOK, Instance, Running
<1>7. \A j \in Id : AloneOK(j)'
    BY DEF IndInv, Stop, AloneOK, Asks, Busy, Known, Running, MachinesTypeOK, Instance
<1>8. NoStrayMachine'
    BY <1>1 DEF OneMachineStops, OnlyStops, IndInv, Stop, NoStrayMachine, Asks, Known, Running,
       MachinesTypeOK, Instance, AttemptOK
<1>9. OverridesFollowMachines'
    BY DEF IndInv, Stop, OverridesFollowMachines, Asks, Busy, Cleared, Known, Running,
       MachinesTypeOK, Instance
<1> QED
    BY <1>2, <1>3, <1>4, <1>5, <1>6, <1>7, <1>8, <1>9 DEF IndInv


LEMMA DefinePreserves ==
    ASSUME IndInv, NEW i \in Id, Define(i)
    PROVE  IndInv'
<1> USE NoneIsNoName
<1>1. MachinesTypeOK'
    BY DEF IndInv, Define, MachinesTypeOK, Instance, Known, Running, InstanceOK, disks, ghosts
<1>2. \A q \in Req : JobOK(q)'
    BY DEF IndInv, Define, JobOK
<1>3. OneRequestPerAttempt'
    BY DEF IndInv, Define, OneRequestPerAttempt
<1>4. \A b \in Attempt : AttemptOK(b)'
    BY DEF IndInv, Define, AttemptOK
<1>5. \A j \in Id : InstanceOK(j)'
    BY DEF IndInv, Define, InstanceOK, Busy, Known, Running, MachinesTypeOK, Instance
<1>6. \A j \in Id : AloneOK(j)'
    BY DEF IndInv, Define, AloneOK, Known, Running, MachinesTypeOK, Instance, Busy, InstanceOK,
       ghosts
<1>7. NoStrayMachine'
    BY DEF IndInv, Define, NoStrayMachine, Known, Running, MachinesTypeOK, Instance, ghosts,
       AttemptOK
<1>8. OverridesFollowMachines'
    BY DEF IndInv, Define, OverridesFollowMachines, Known, Running, MachinesTypeOK, Instance,
       ghosts, InstanceOK, Busy
<1> QED
    BY <1>1, <1>2, <1>3, <1>4, <1>5, <1>6, <1>7, <1>8 DEF IndInv

LEMMA DestroyPreserves ==
    ASSUME IndInv, NEW r \in Req, NEW i \in Id, Destroy(r, i)
    PROVE  IndInv'
<1> USE NoneIsNoName
<1>1. OnlyStops(i) /\ (Running(i) => OneMachineStops(i))
    <2>1. CASE ~Running(i)
        <3>1. attempts' = attempts
            BY <2>1 DEF Destroy, HasMachine
        <3> QED
            BY <2>1, <3>1 DEF OnlyStops, IndInv, MachinesTypeOK
    <2>2. CASE Running(i)
        <3>1. attempts' = TornDown(i)
            BY <2>2 DEF Destroy, HasMachine
        <3> QED
            BY <2>2, <3>1, TearingDown DEF IndInv, Destroy, OneMachineStops
    <2> QED
        BY <2>1, <2>2
<1>2. inst[i] \in Instance
    BY DEF IndInv, MachinesTypeOK
<1>3. [inst[i] EXCEPT !.place = "gone", !.machine = 0] \in Instance
    BY <1>2 DEF Instance
<1>4. inst' = [inst EXCEPT ![i] =
                   [inst[i] EXCEPT !.place = "gone", !.machine = 0]]
    BY DEF IndInv, Destroy, MachinesTypeOK, Instance
<1>5. UNCHANGED starts /\ UNCHANGED job
    BY DEF Destroy
<1>6. MachinesTypeOK'
    BY <1>1, <1>3, <1>4 DEF IndInv, Destroy, MachinesTypeOK, OnlyStops, Known, Running, disks,
       Asks, Cleared, HasMachine, Instance
<1>7. \A q \in Req : JobOK(q)'
    BY <1>1, <1>5 DEF IndInv, JobOK, OnlyStops, MachinesTypeOK, Job, Attempt
<1>8. OneRequestPerAttempt'
    BY <1>5 DEF IndInv, OneRequestPerAttempt
<1>9. \A b \in Attempt : AttemptOK(b)'
    BY <1>1, <1>5 DEF IndInv, AttemptOK, InstanceOK, MachinesTypeOK, Attempt, OnlyStops
<1>10. \A j \in Id : InstanceOK(j)'
    BY <1>3, <1>4 DEF IndInv, Destroy, InstanceOK, Busy, Known, Running, MachinesTypeOK,
       Instance, Cleared, HasMachine
<1>11. \A j \in Id : AloneOK(j)'
    BY <1>4 DEF IndInv, Destroy, AloneOK, Known, Running, MachinesTypeOK, Instance, Busy, Asks
<1>12. NoStrayMachine'
    BY <1>1, <1>4 DEF IndInv, Destroy, NoStrayMachine, Known, Running, MachinesTypeOK, Instance,
       Asks, AttemptOK, OnlyStops, OneMachineStops, HasMachine
<1>13. OverridesFollowMachines'
    BY <1>4 DEF IndInv, Destroy, OverridesFollowMachines, Known, Running, MachinesTypeOK,
       Instance, Asks, Busy, Cleared, HasMachine
<1> QED
    BY <1>6, <1>7, <1>8, <1>9, <1>10, <1>11, <1>12, <1>13 DEF IndInv

LEMMA BeginRestorePreserves ==
    ASSUME IndInv, NEW r \in Req, NEW i \in Id, NEW s \in Snap, BeginRestore(r, i, s)
    PROVE  IndInv'
<1> USE NoneIsNoName
<1>1. OnlyStops(i) /\ (Running(i) => OneMachineStops(i))
    <2>1. CASE ~Running(i)
        <3>1. attempts' = attempts
            BY <2>1 DEF BeginRestore
        <3> QED
            BY <2>1, <3>1 DEF OnlyStops, IndInv, MachinesTypeOK
    <2>2. CASE Running(i)
        <3>1. attempts' = TornDown(i)
            BY <2>2 DEF BeginRestore
        <3> QED
            BY <2>2, <3>1, TearingDown DEF IndInv, BeginRestore, OneMachineStops
    <2> QED
        BY <2>1, <2>2
<1>2. inst[i] \in Instance
    BY DEF IndInv, MachinesTypeOK
<1>3. [inst[i] EXCEPT !.status = IF Running(i) THEN "stopped" ELSE @,
                               !.machine = IF Running(i) THEN 0 ELSE @] \in Instance
    BY <1>2 DEF Instance, Running
<1>4. inst' = [inst EXCEPT ![i] =
                   [inst[i] EXCEPT !.status = IF Running(i) THEN "stopped" ELSE @,
                               !.machine = IF Running(i) THEN 0 ELSE @]]
    BY DEF IndInv, BeginRestore, MachinesTypeOK, Instance
<1>5. UNCHANGED starts
    BY DEF BeginRestore
<1>6. NoJob \in Job
    BY IdleTypes
<1>7. job' \in [Req -> Job]
    BY <1>6 DEF IndInv, BeginRestore, MachinesTypeOK, Job, Kind, Pc, Running
<1>8. MachinesTypeOK'
    BY <1>1, <1>3, <1>4, <1>7 DEF IndInv, BeginRestore, MachinesTypeOK, OnlyStops, Known,
       Running, disks, Asks, Cleared, Instance
<1>9. \A q \in Req : JobOK(q)'
    BY <1>1 DEF IndInv, JobOK, OnlyStops, MachinesTypeOK, Job, Attempt, BeginRestore, NoJob,
       Asks
<1>10. OneRequestPerAttempt'
    BY DEF IndInv, BeginRestore, OneRequestPerAttempt, MachinesTypeOK, NoJob
<1>11. \A b \in Attempt : AttemptOK(b)'
    BY <1>1, <1>5 DEF IndInv, AttemptOK, InstanceOK, MachinesTypeOK, Attempt, OnlyStops
<1>12. \A j \in Id : InstanceOK(j)'
    BY <1>3, <1>4 DEF IndInv, BeginRestore, InstanceOK, Busy, Known, Running, MachinesTypeOK,
       Instance, Cleared, NoJob, Asks
<1>13. \A j \in Id : AloneOK(j)'
    BY <1>4 DEF IndInv, BeginRestore, AloneOK, Known, Running, MachinesTypeOK, Instance, Busy,
       Asks, NoJob, JobOK
<1>14. NoStrayMachine'
    BY <1>1, <1>4 DEF IndInv, BeginRestore, NoStrayMachine, Known, Running, MachinesTypeOK,
       Instance, Asks, AttemptOK, OnlyStops, OneMachineStops
<1>15. OverridesFollowMachines'
    BY <1>4 DEF IndInv, BeginRestore, OverridesFollowMachines, Known, Running, MachinesTypeOK,
       Instance, Asks, Busy, Cleared, NoJob, JobOK
<1> QED
    BY <1>8, <1>9, <1>10, <1>11, <1>12, <1>13, <1>14, <1>15 DEF IndInv

LEMMA BeginSnapshotPreserves ==
    ASSUME IndInv, NEW r \in Req, NEW i \in Id, NEW s \in Snap, BeginSnapshot(r, i, s)
    PROVE  IndInv'
<1> USE NoneIsNoName
<1>1. MachinesTypeOK'
    BY DEF IndInv, BeginSnapshot, MachinesTypeOK, Instance, Known, Running, Asks, disks,
       manager, Job, Kind, Pc, NoJob, NoFile
<1>2. \A q \in Req : JobOK(q)'
    BY DEF IndInv, BeginSnapshot, JobOK, NoJob, MachinesTypeOK, manager
<1>3. OneRequestPerAttempt'
    BY DEF IndInv, BeginSnapshot, OneRequestPerAttempt, MachinesTypeOK, NoJob
<1>4. \A b \in Attempt : AttemptOK(b)'
    BY DEF IndInv, BeginSnapshot, AttemptOK
<1>5. \A j \in Id : InstanceOK(j)'
    BY DEF IndInv, BeginSnapshot, InstanceOK, Busy, NoJob, MachinesTypeOK, Known, Running,
       manager
<1>6. \A j \in Id : AloneOK(j)'
    BY DEF IndInv, BeginSnapshot, AloneOK, Busy, NoJob, JobOK, MachinesTypeOK, Known, Running,
       Asks, manager
<1>7. NoStrayMachine'
    BY DEF IndInv, BeginSnapshot, NoStrayMachine, Known, Running, Asks, manager
<1>8. OverridesFollowMachines'
    BY DEF IndInv, BeginSnapshot, OverridesFollowMachines, Known, Running, MachinesTypeOK,
       NoJob, JobOK, Asks, manager
<1> QED
    BY <1>1, <1>2, <1>3, <1>4, <1>5, <1>6, <1>7, <1>8 DEF IndInv

LEMMA DisposedPreserves ==
    ASSUME IndInv, NEW a \in Attempt, Disposed(a)
    PROVE  IndInv'
<1> USE NoneIsNoName
<1>1. MachinesTypeOK'
    BY ConstantsAssumption DEF IndInv, Disposed, MachinesTypeOK, Instance, Known, Running,
       AttemptState, NoAttempt, Attempt, Content, NoFile, manager, disks, ghosts
<1>2. \A q \in Req : JobOK(q)'
    BY DEF IndInv, Disposed, JobOK, MachinesTypeOK, NoAttempt, AttemptState, manager, disks,
       ghosts
<1>3. OneRequestPerAttempt'
    BY DEF IndInv, Disposed, OneRequestPerAttempt
<1>4. \A b \in Attempt : AttemptOK(b)'
    BY DEF IndInv, Disposed, AttemptOK, MachinesTypeOK, NoAttempt, AttemptState, manager, disks,
       ghosts
<1>5. \A j \in Id : InstanceOK(j)'
    BY DEF IndInv, Disposed, InstanceOK, Known, Running, Busy, manager, disks, ghosts
<1>6. \A j \in Id : AloneOK(j)'
    BY DEF IndInv, Disposed, AloneOK, Known, Running, manager, disks, ghosts
<1>7. NoStrayMachine'
    BY DEF IndInv, Disposed, NoStrayMachine, Known, Running, MachinesTypeOK, NoAttempt,
       AttemptState, manager, disks, ghosts
<1>8. OverridesFollowMachines'
    BY DEF IndInv, Disposed, OverridesFollowMachines, Known, Running, manager, disks, ghosts
<1> QED
    BY <1>1, <1>2, <1>3, <1>4, <1>5, <1>6, <1>7, <1>8 DEF IndInv

LEMMA BeginWritePreserves ==
    ASSUME IndInv, NEW a \in Attempt, BeginWrite(a)
    PROVE  IndInv'
<1> USE NoneIsNoName
<1>1. attempts[a].owner \in Id /\ attempts[a] \in AttemptState
    BY DEF IndInv, BeginWrite, AttemptOK, MachinesTypeOK
<1>2. stamps + 1 \in 1 .. MaxWrites /\ stamps + 1 \in Content
    BY ConstantsAssumption DEF IndInv, BeginWrite, MachinesTypeOK, Content
<1>3. attempts' \in [Attempt -> AttemptState]
    BY <1>1, <1>2 DEF IndInv, BeginWrite, MachinesTypeOK, AttemptState
<1>4. promised' \in [Id -> SUBSET Content]
    BY <1>1, <1>2 DEF IndInv, BeginWrite, MachinesTypeOK
<1>5. MachinesTypeOK'
    BY <1>2, <1>3, <1>4 DEF IndInv, BeginWrite, MachinesTypeOK, Known, Running, manager, disks
<1>6. \A q \in Req : JobOK(q)'
    BY DEF IndInv, BeginWrite, JobOK, MachinesTypeOK, NoAttempt, AttemptState, manager, disks,
       ghosts
<1>7. OneRequestPerAttempt'
    BY DEF IndInv, BeginWrite, OneRequestPerAttempt
<1>8. \A b \in Attempt : AttemptOK(b)'
    BY DEF IndInv, BeginWrite, AttemptOK, MachinesTypeOK, NoAttempt, AttemptState, manager,
       disks, ghosts
<1>9. \A j \in Id : InstanceOK(j)'
    BY DEF IndInv, BeginWrite, InstanceOK, Known, Running, Busy, manager, disks, ghosts
<1>10. \A j \in Id : AloneOK(j)'
    BY DEF IndInv, BeginWrite, AloneOK, Known, Running, manager, disks, ghosts
<1>11. NoStrayMachine'
    BY DEF IndInv, BeginWrite, NoStrayMachine, Known, Running, MachinesTypeOK, NoAttempt,
       AttemptState, manager, disks, ghosts
<1>12. OverridesFollowMachines'
    BY DEF IndInv, BeginWrite, OverridesFollowMachines, Known, Running, manager, disks, ghosts
<1> QED
    BY <1>5, <1>6, <1>7, <1>8, <1>9, <1>10, <1>11, <1>12 DEF IndInv

LEMMA WriteLandsPreserves ==
    ASSUME IndInv, NEW a \in Attempt, WriteLands(a)
    PROVE  IndInv'
<1> USE NoneIsNoName
<1>1. attempts[a].owner \in Id /\ attempts[a] \in AttemptState
    BY DEF IndInv, WriteLands, AttemptOK, MachinesTypeOK
<1>2. attempts[a].write \in Content
    BY <1>1, ConstantsAssumption DEF AttemptState, Content
<1>3. InFlight(attempts[a].owner, a) \subseteq Content
    BY ConstantsAssumption DEF IndInv, MachinesTypeOK, AttemptState, InFlight, Content
<1>4. attempts' \in [Attempt -> AttemptState]
    BY <1>1, ConstantsAssumption DEF IndInv, WriteLands, MachinesTypeOK, AttemptState
<1>5. promised' \in [Id -> SUBSET Content]
    BY <1>1, <1>2, <1>3 DEF IndInv, WriteLands, MachinesTypeOK
<1>6. splinter' \in [Id -> Content \cup {NoFile}] /\ alien' \subseteq Id
    BY <1>1, <1>2 DEF IndInv, WriteLands, MachinesTypeOK
<1>7. MachinesTypeOK'
    BY <1>4, <1>5, <1>6 DEF IndInv, WriteLands, MachinesTypeOK, Known, Running, manager
<1>8. \A q \in Req : JobOK(q)'
    BY DEF IndInv, WriteLands, JobOK, MachinesTypeOK, NoAttempt, AttemptState, manager, disks,
       ghosts
<1>9. OneRequestPerAttempt'
    BY DEF IndInv, WriteLands, OneRequestPerAttempt
<1>10. \A b \in Attempt : AttemptOK(b)'
    BY DEF IndInv, WriteLands, AttemptOK, MachinesTypeOK, NoAttempt, AttemptState, manager,
       disks, ghosts
<1>11. \A j \in Id : InstanceOK(j)'
    BY DEF IndInv, WriteLands, InstanceOK, Known, Running, Busy, manager, disks, ghosts
<1>12. \A j \in Id : AloneOK(j)'
    BY DEF IndInv, WriteLands, AloneOK, Known, Running, manager, disks, ghosts
<1>13. NoStrayMachine'
    BY DEF IndInv, WriteLands, NoStrayMachine, Known, Running, MachinesTypeOK, NoAttempt,
       AttemptState, manager, disks, ghosts
<1>14. OverridesFollowMachines'
    BY DEF IndInv, WriteLands, OverridesFollowMachines, Known, Running, manager, disks, ghosts
<1> QED
    BY <1>7, <1>8, <1>9, <1>10, <1>11, <1>12, <1>13, <1>14 DEF IndInv

LEMMA DeleteSnapshotPreserves ==
    ASSUME IndInv, NEW s \in Snap, DeleteSnapshot(s)
    PROVE  IndInv'
<1> USE NoneIsNoName
<1>1. MachinesTypeOK'
    BY DEF IndInv, DeleteSnapshot, MachinesTypeOK, Instance, Known, Running, AttemptState,
       NoAttempt, Attempt, Content, NoFile, manager, disks, ghosts
<1>2. \A q \in Req : JobOK(q)'
    BY DEF IndInv, DeleteSnapshot, JobOK, MachinesTypeOK, NoAttempt, AttemptState, manager,
       disks, ghosts
<1>3. OneRequestPerAttempt'
    BY DEF IndInv, DeleteSnapshot, OneRequestPerAttempt
<1>4. \A b \in Attempt : AttemptOK(b)'
    BY DEF IndInv, DeleteSnapshot, AttemptOK, MachinesTypeOK, NoAttempt, AttemptState, manager,
       disks, ghosts
<1>5. \A j \in Id : InstanceOK(j)'
    BY DEF IndInv, DeleteSnapshot, InstanceOK, Known, Running, Busy, manager, disks, ghosts
<1>6. \A j \in Id : AloneOK(j)'
    BY DEF IndInv, DeleteSnapshot, AloneOK, Known, Running, manager, disks, ghosts
<1>7. NoStrayMachine'
    BY DEF IndInv, DeleteSnapshot, NoStrayMachine, Known, Running, MachinesTypeOK, NoAttempt,
       AttemptState, manager, disks, ghosts
<1>8. OverridesFollowMachines'
    BY DEF IndInv, DeleteSnapshot, OverridesFollowMachines, Known, Running, manager, disks,
       ghosts
<1> QED
    BY <1>1, <1>2, <1>3, <1>4, <1>5, <1>6, <1>7, <1>8 DEF IndInv

LEMMA Counters ==
    ASSUME IndInv
    PROVE  /\ starts \in Nat /\ 1 .. starts \subseteq Attempt /\ Attempt \subseteq Nat
           /\ \A j \in Id : inst[j].machine \in Nat
<1>1. starts \in Nat /\ 1 .. starts \subseteq Attempt /\ Attempt \subseteq Nat
    BY ConstantsAssumption DEF IndInv, MachinesTypeOK, Attempt
<1>2. \A j \in Id : inst[j].machine \in Attempt \cup {0}
    BY DEF IndInv, MachinesTypeOK, Instance
<1> QED
    BY <1>1, <1>2, 0 \in Nat

\* What a start does, before its first await.
Begins(r, i) ==
    /\ starts + 1 \in Attempt /\ starts' = starts + 1 /\ starts' \in 0 .. MaxStarts
    /\ attempts' \in [Attempt -> AttemptState]
    /\ attempts'[starts + 1].owner = i /\ attempts'[starts + 1].conn = "syncing"
    /\ attempts'[starts + 1].machine = "none" /\ attempts'[starts + 1].write = 0
    /\ \A b \in Attempt : b # starts + 1 => attempts'[b] = attempts[b]
    /\ overrides' = overrides \cup {i} /\ db' = db
    /\ job' \in [Req -> Job]
    /\ job'[r].pc = "sync" /\ job'[r].kind = "start" /\ job'[r].id = i
    /\ job'[r].attempt = starts + 1
    /\ \A q \in Req : q # r => job'[q] = job[q]

LEMMA Beginning ==
    ASSUME IndInv, NEW r \in Req, NEW i \in Id, BeginStart(r, i)
    PROVE  Begins(r, i)
<1> DEFINE a == starts + 1
           e == [NoAttempt EXCEPT !.owner = i, !.conn = "syncing"]
           j == [NoJob EXCEPT !.pc = "sync", !.kind = "start", !.id = i, !.attempt = a]
<1>1. a \in Attempt /\ attempts \in [Attempt -> AttemptState] /\ job \in [Req -> Job]
    BY ConstantsAssumption DEF IndInv, MachinesTypeOK, BeginStart, Attempt
<1>2. attempts[a] = NoAttempt
    BY <1>1 DEF IndInv, AttemptOK, MachinesTypeOK
<1>3. e \in AttemptState /\ j \in Job
    BY <1>1, IdleTypes DEF AttemptState, Job, Kind, Pc
<1>4. /\ e.owner = i /\ e.conn = "syncing" /\ e.machine = "none" /\ e.write = 0
      /\ j.pc = "sync" /\ j.kind = "start" /\ j.id = i /\ j.attempt = a
    BY DEF NoAttempt, NoJob
<1>5. attempts' = [attempts EXCEPT ![a] = e]
    BY <1>1, <1>2 DEF BeginStart
<1>6. starts' \in 0 .. MaxStarts
    BY <1>1, ConstantsAssumption DEF IndInv, MachinesTypeOK, BeginStart, Attempt
<1>7. job' = [job EXCEPT ![r] = j] /\ starts' = a /\ overrides' = overrides \cup {i} /\ db' = db
    BY DEF BeginStart, Begun
<1> HIDE DEF e, j
<1> QED
    BY <1>1, <1>3, <1>4, <1>5, <1>7, <1>6 DEF Begins

LEMMA BeginningPreserves ==
    ASSUME IndInv, NEW r \in Req, NEW i \in Id, Begins(r, i), MachinesTypeOK',
           Known(i), ~Running(i), UNCHANGED <<inst, failed>>, job[r].pc # "sync",
           \/ job[r].id = i /\ met' = met
           \/ job[r].id = "none" /\ Asks(r, i)
    PROVE  IndInv'
<1>1. \A q \in Req : JobOK(q)'
    BY NoneIsNoName, Counters DEF IndInv, Begins, JobOK
<1>2. OneRequestPerAttempt'
    BY Counters DEF IndInv, Begins, OneRequestPerAttempt, JobOK
<1>3. \A b \in Attempt : AttemptOK(b)'
    BY Counters DEF IndInv, Begins, AttemptOK
<1>4. \A j \in Id : InstanceOK(j)'
    BY NoneIsNoName, Counters DEF IndInv, Begins, InstanceOK, Busy, Known
<1>5. \A j \in Id : AloneOK(j)'
    BY NoneIsNoName DEF IndInv, Begins, AloneOK, Busy, Known, Running, Asks
<1>6. NoStrayMachine'
    BY Counters DEF IndInv, Begins, NoStrayMachine, Known, Running, Asks
<1>7. OverridesFollowMachines'
    BY NoneIsNoName DEF IndInv, Begins, OverridesFollowMachines, Known, Running, Asks, JobOK,
       Busy
<1> QED
    BY <1>1, <1>2, <1>3, <1>4, <1>5, <1>6, <1>7 DEF IndInv

LEMMA StartPreserves ==
    ASSUME IndInv, NEW r \in Req, NEW i \in Id, Start(r, i)
    PROVE  IndInv'
<1>1. Begins(r, i)
    BY Beginning DEF Start
<1>2. MachinesTypeOK'
    BY <1>1, Counters DEF IndInv, Begins, Start, MachinesTypeOK, Known, Running, disks, Asks,
       Attempt
<1>3. job[r].pc = "idle" /\ job[r].id = "none"
    BY DEF IndInv, Start, Asks, JobOK, NoJob
<1> QED
    BY <1>1, <1>2, <1>3, BeginningPreserves DEF Start

\* A request that is not a start ends, and leaves the rest as it was.
LEMMA EndingPreserves ==
    ASSUME IndInv, NEW r \in Req, MachinesTypeOK', job[r].kind # "start",
           job'[r] = NoJob, \A q \in Req : q # r => job'[q] = job[q],
           UNCHANGED <<inst, db, overrides, attempts, starts, failed, met>>
    PROVE  IndInv'
<1> USE NoneIsNoName
<1>1. \A q \in Req : JobOK(q)'
    <2>1. JobOK(r)'
        BY DEF JobOK, NoJob
    <2>2. \A q \in Req : q # r => JobOK(q)'
        BY DEF IndInv, JobOK
    <2> QED
        BY <2>1, <2>2
<1>2. OneRequestPerAttempt'
    BY DEF IndInv, OneRequestPerAttempt, NoJob
<1>3. \A b \in Attempt : AttemptOK(b)'
    BY DEF IndInv, AttemptOK
<1>4. \A j \in Id : InstanceOK(j)'
    BY DEF IndInv, InstanceOK, Busy, Known, NoJob
<1>5. \A j \in Id : AloneOK(j)'
    BY DEF IndInv, AloneOK, Known, Running, NoJob
<1>6. NoStrayMachine'
    BY DEF IndInv, NoStrayMachine, Known, Running
<1>7. OverridesFollowMachines'
    BY DEF IndInv, OverridesFollowMachines, Known, Running, NoJob
<1> QED
    BY <1>1, <1>2, <1>3, <1>4, <1>5, <1>6, <1>7 DEF IndInv

LEMMA CreateTransientPreserves ==
    ASSUME IndInv, NEW r \in Req, NEW i \in Id, CreateTransient(r, i)
    PROVE  IndInv'
<1> USE NoneIsNoName
<1>1. \/ Begins(r, i) /\ UNCHANGED failed
      \/ failed' = failed \cup {i} /\ UNCHANGED <<db, overrides, attempts, starts, job>>
    BY Beginning DEF CreateTransient
<1>2. inst[i] \in Instance /\ inst[i].place = "new" /\ inst \in [Id -> Instance]
    BY DEF IndInv, CreateTransient, MachinesTypeOK
<1>3. LET e == [inst[i] EXCEPT !.place = "map", !.transient = TRUE] IN
      /\ inst' = [inst EXCEPT ![i] = e] /\ e \in Instance
      /\ e.place = "map" /\ e.transient /\ e.status = inst[i].status /\ e.machine = inst[i].machine
    BY <1>2 DEF CreateTransient, Instance
<1>4. /\ inst[i].place = "new" /\ inst[i].status = "defined" /\ inst[i].machine = 0
      /\ inst' \in [Id -> Instance]
      /\ inst'[i].place = "map" /\ inst'[i].transient
      /\ inst'[i].status = inst[i].status /\ inst'[i].machine = 0
      /\ \A j \in Id : j # i => inst'[j] = inst[j]
    BY <1>2, <1>3 DEF IndInv, InstanceOK
<1>5. MachinesTypeOK'
    BY <1>1, Counters, <1>4 DEF IndInv, CreateTransient, Begins, MachinesTypeOK, Known, Running,
       disks, Asks, Attempt
<1>6. \A q \in Req : JobOK(q)'
    <2>1. CASE Begins(r, i)
        BY <2>1, Counters DEF IndInv, Begins, JobOK
    <2>2. CASE UNCHANGED <<db, overrides, attempts, starts, job>>
        BY <2>2 DEF IndInv, JobOK
    <2> QED
        BY <1>1, <2>1, <2>2
<1>7. OneRequestPerAttempt'
    BY <1>1, Counters, <1>4 DEF IndInv, CreateTransient, Begins, OneRequestPerAttempt, JobOK,
       MachinesTypeOK
<1>8. \A b \in Attempt : AttemptOK(b)'
    BY <1>1, Counters, <1>4 DEF IndInv, CreateTransient, Begins, AttemptOK, MachinesTypeOK
<1>9. \A j \in Id : InstanceOK(j)'
    BY <1>1, Counters, <1>4 DEF IndInv, CreateTransient, Begins, InstanceOK, Busy, Known,
       MachinesTypeOK, Asks, Running
<1>10. \A j \in Id : AloneOK(j)'
    BY <1>1, Counters, <1>4 DEF IndInv, CreateTransient, Begins, AloneOK, Busy, Known, Running,
       Asks, JobOK
<1>11. NoStrayMachine'
    BY <1>1, Counters, <1>4 DEF IndInv, CreateTransient, Begins, NoStrayMachine, Known, Running,
       Asks, AttemptOK
<1>12. OverridesFollowMachines'
    BY <1>1, Counters, <1>4 DEF IndInv, CreateTransient, Begins, OverridesFollowMachines, Known,
       Running, Asks, JobOK, Busy
<1> QED
    BY <1>5, <1>6, <1>7, <1>8, <1>9, <1>10, <1>11, <1>12 DEF IndInv

LEMMA StartedPreserves ==
    ASSUME IndInv, NEW r \in Req, Started(r)
    PROVE  IndInv'
<1> DEFINE i == job[r].id
           a == job[r].attempt
<1> USE NoneIsNoName
<1>1. /\ job[r].pc = "sync" /\ job[r].id = i /\ job[r].attempt = a
      /\ i \in Id /\ a \in Attempt /\ a # 0 /\ a <= starts
      /\ attempts[a].owner = i /\ attempts[a].conn = "syncing"
      /\ attempts[a] \in AttemptState
    BY Counters DEF IndInv, Started, JobOK, MachinesTypeOK
<1>2. /\ attempts' \in [Attempt -> AttemptState]
      /\ attempts'[a].owner = i /\ attempts'[a].write = attempts[a].write
      /\ attempts'[a].conn = "served" /\ attempts'[a].machine = "runs"
      /\ \A b \in Attempt : b # a => attempts'[b] = attempts[b]
    BY <1>1 DEF IndInv, Started, MachinesTypeOK, AttemptState
<1>3. /\ job' \in [Req -> Job] /\ job'[r] = NoJob
      /\ \A q \in Req : q # r => job'[q] = job[q]
    BY IdleTypes DEF IndInv, Started, Finish, MachinesTypeOK
<1>4. /\ inst' \in [Id -> Instance]
      /\ inst'[i].status = "running" /\ inst'[i].machine = a
      /\ inst'[i].place = inst[i].place /\ inst'[i].transient = inst[i].transient
      /\ \A j \in Id : j # i => inst'[j] = inst[j]
    <2>1. inst \in [Id -> Instance]
        BY DEF IndInv, MachinesTypeOK
    <2>2. inst' = [inst EXCEPT ![i].status = "running", ![i].machine = a]
        BY DEF Started, NowRuns
    <2>3. inst'[i] = [inst[i] EXCEPT !.status = "running", !.machine = a]
        BY <2>1, <2>2, <1>1
    <2>4. \A j \in Id : j # i => inst'[j] = inst[j]
        BY <2>1, <2>2, <1>1
    <2>5. inst'[i] \in Instance
        BY <2>1, <2>3, <1>1 DEF Instance
    <2>6. inst' \in [Id -> Instance]
        BY <2>1, <2>2, <2>4, <2>5
    <2>7. /\ inst'[i].status = "running" /\ inst'[i].machine = a
          /\ inst'[i].place = inst[i].place /\ inst'[i].transient = inst[i].transient
        BY <2>1, <2>3, <1>1 DEF Instance
    <2> QED
        BY <2>4, <2>6, <2>7
<1>5. inst[i].place # "new"
    BY <1>1 DEF IndInv, Started, InstanceOK, Busy
<1>6. splinter' \in [Id -> Content \cup {NoFile}] /\ alien' \subseteq Id
    BY <1>1 DEF IndInv, Started, MachinesTypeOK
<1>7. /\ db' \in [Id -> {"none", "defined", "running", "stopped"}]
      /\ db'[i] = IF db[i] = "none" THEN "none" ELSE "running"
      /\ \A j \in Id : j # i => db'[j] = db[j]
    BY <1>1 DEF IndInv, Started, MachinesTypeOK
<1>8. UNCHANGED <<overrides, starts, snaps, mounted, stamps, ghosts>>
    BY DEF Started
<1>9. i \notin met => Known(i) /\ ~Running(i)
    BY <1>1 DEF IndInv, AloneOK
<1> HIDE DEF i, a
<1>10. MachinesTypeOK'
    BY <1>1, <1>2, <1>3, <1>4, <1>6, <1>7, <1>8 DEF IndInv, MachinesTypeOK, Known, Running,
       ghosts
<1>11. \A q \in Req : JobOK(q)'
    BY <1>1, <1>2, <1>3, Counters DEF IndInv, Started, JobOK, NoJob, OneRequestPerAttempt,
       MachinesTypeOK, Attempt
<1>12. OneRequestPerAttempt'
    BY <1>1, <1>2, <1>3, Counters DEF IndInv, OneRequestPerAttempt, NoJob
<1>13. \A b \in Attempt : AttemptOK(b)'
    BY <1>1, <1>2, <1>3, Counters DEF IndInv, Started, AttemptOK
<1>14. \A j \in Id : InstanceOK(j)'
    BY <1>1, <1>2, <1>3, <1>4, <1>5, <1>7, Counters, SMTT(30) DEF IndInv, Started, InstanceOK, Busy,
       Known, NoJob, MachinesTypeOK, Instance
<1>15. \A j \in Id : AloneOK(j)'
    BY <1>1, <1>2, <1>3, <1>4, Counters DEF IndInv, Started, AloneOK, Known, Running, NoJob,
       ghosts
<1>16. NoStrayMachine'
    <2> SUFFICES ASSUME NEW b \in Attempt, attempts'[b].machine = "runs",
                        attempts'[b].owner \notin met
                 PROVE  LET o == attempts'[b].owner
                        IN  /\ inst'[o].place = "map" /\ inst'[o].status = "running"
                            /\ inst'[o].machine = b
        BY <1>8 DEF NoStrayMachine, Known, Running, ghosts
    <2>1. CASE b = a
        BY <2>1, <1>1, <1>2, <1>4, <1>9 DEF Known
    <2>2. CASE b # a
        <3>1. attempts[b].machine = "runs" /\ attempts[b].owner = attempts'[b].owner
            BY <2>2, <1>2
        <3>2. /\ Known(attempts[b].owner) /\ Running(attempts[b].owner)
              /\ inst[attempts[b].owner].machine = b
            BY <3>1 DEF IndInv, NoStrayMachine
        <3>3. attempts[b].owner \in Id /\ attempts[b].owner # i
            BY <3>1, <3>2, <1>9 DEF IndInv, AttemptOK
        <3> QED
            BY <3>1, <3>2, <3>3, <1>4 DEF Known, Running
    <2> QED
        BY <2>1, <2>2
<1>17. OverridesFollowMachines'
    BY <1>1, <1>2, <1>3, <1>4, Counters DEF IndInv, Started, OverridesFollowMachines, AloneOK,
       JobOK, Known, Running, NoJob, ghosts
<1> QED
    BY <1>10, <1>11, <1>12, <1>13, <1>14, <1>15, <1>16, <1>17 DEF IndInv

LEMMA BuildFailsPreserves ==
    ASSUME IndInv, NEW r \in Req, BuildFails(r)
    PROVE  IndInv'
<1> DEFINE i == job[r].id
           a == job[r].attempt
<1> USE NoneIsNoName
<1>1. /\ job[r].pc = "sync" /\ job[r].id = i /\ job[r].attempt = a
      /\ i \in Id /\ a \in Attempt /\ a # 0 /\ a <= starts
      /\ attempts[a].owner = i /\ attempts[a].conn = "syncing"
      /\ attempts[a] \in AttemptState
    BY Counters DEF IndInv, BuildFails, JobOK, MachinesTypeOK
<1>2. /\ attempts' \in [Attempt -> AttemptState]
      /\ attempts'[a].owner = i /\ attempts'[a].write = attempts[a].write
      /\ attempts'[a].conn = "removing" /\ attempts'[a].machine = attempts[a].machine
      /\ \A b \in Attempt : b # a => attempts'[b] = attempts[b]
    BY <1>1 DEF IndInv, BuildFails, MachinesTypeOK, AttemptState
<1>3. /\ job' \in [Req -> Job] /\ job'[r] = NoJob
      /\ \A q \in Req : q # r => job'[q] = job[q]
    BY IdleTypes DEF IndInv, BuildFails, Finish, MachinesTypeOK
<1> HIDE DEF i, a
<1>4. MachinesTypeOK'
    BY <1>1, <1>2, <1>3, Counters DEF IndInv, BuildFails, MachinesTypeOK, Known, Running,
       manager, disks
<1>5. \A q \in Req : JobOK(q)'
    BY <1>1, <1>2, <1>3, Counters DEF IndInv, BuildFails, JobOK, NoJob, OneRequestPerAttempt,
       MachinesTypeOK, Attempt, manager
<1>6. OneRequestPerAttempt'
    BY <1>1, <1>2, <1>3, Counters DEF IndInv, OneRequestPerAttempt, NoJob
<1>7. \A b \in Attempt : AttemptOK(b)'
    BY <1>1, <1>2, <1>3, Counters DEF IndInv, BuildFails, AttemptOK
<1>8. \A j \in Id : InstanceOK(j)'
    BY <1>1, <1>2, <1>3, Counters DEF IndInv, BuildFails, InstanceOK, Busy, Known, NoJob,
       manager
<1>9. \A j \in Id : AloneOK(j)'
    BY <1>1, <1>2, <1>3, Counters DEF IndInv, BuildFails, AloneOK, Known, Running, NoJob,
       manager
<1>10. NoStrayMachine'
    BY <1>1, <1>2, <1>3, Counters DEF IndInv, BuildFails, NoStrayMachine, Known, Running,
       manager
<1>11. OverridesFollowMachines'
    BY <1>1, <1>2, <1>3, Counters DEF IndInv, BuildFails, OverridesFollowMachines, JobOK, Known,
       Running, NoJob, manager
<1> QED
    BY <1>4, <1>5, <1>6, <1>7, <1>8, <1>9, <1>10, <1>11 DEF IndInv

LEMMA SnapshotTakenPreserves ==
    ASSUME IndInv, NEW r \in Req, SnapshotTaken(r)
    PROVE  IndInv'
<1>1. job[r].kind # "start" /\ job' = [job EXCEPT ![r] = NoJob]
    BY DEF SnapshotTaken, Finish
<1>2. job'[r] = NoJob /\ (\A q \in Req : q # r => job'[q] = job[q]) /\ job' \in [Req -> Job]
    BY <1>1, IdleTypes DEF IndInv, MachinesTypeOK
<1>3. MachinesTypeOK'
    BY <1>1, <1>2, ConstantsAssumption DEF IndInv, SnapshotTaken, MachinesTypeOK, JobOK, Known,
       Running, OperatorImage, Image, Content, NoFile, manager, ghosts
<1> QED
    BY <1>1, <1>2, <1>3, EndingPreserves DEF SnapshotTaken, manager, ghosts

LEMMA RestoreFailsPreserves ==
    ASSUME IndInv, NEW r \in Req, RestoreFails(r)
    PROVE  IndInv'
<1>1. job[r].kind # "start" /\ job' = [job EXCEPT ![r] = NoJob]
    BY DEF RestoreFails, Finish
<1>2. job'[r] = NoJob /\ (\A q \in Req : q # r => job'[q] = job[q]) /\ job' \in [Req -> Job]
    BY <1>1, IdleTypes DEF IndInv, MachinesTypeOK
<1>3. MachinesTypeOK'
    BY <1>2 DEF IndInv, RestoreFails, MachinesTypeOK, Known, Running, manager, disks, ghosts
<1> QED
    BY <1>1, <1>2, <1>3, EndingPreserves DEF RestoreFails, manager, ghosts

LEMMA RestoreCopiedPreserves ==
    ASSUME IndInv, NEW r \in Req, RestoreCopied(r)
    PROVE  IndInv'
<1> DEFINE i == job[r].id
<1>1. job[r].pc = "copy" /\ job[r].kind = "restore" /\ i \in Id /\ job[r].snap \in Snap
    BY DEF IndInv, RestoreCopied, JobOK
<1>2. /\ splinter' \in [Id -> Content \cup {NoFile}] /\ alien' \subseteq Id
      /\ promised' \in [Id -> SUBSET Content] /\ hurried' \in BOOLEAN
    BY <1>1 DEF IndInv, RestoreCopied, Restored, MachinesTypeOK
<1>3. UNCHANGED <<inst, snaps, mounted, stamps, failed, met>>
    BY DEF RestoreCopied
<1>4. CASE BeginStart(r, i) /\ Known(i) /\ ~Running(i)
    <2>1. Begins(r, i)
        BY <1>1, <1>4, Beginning
    <2>2. /\ overrides' \subseteq Id /\ db' = db /\ job' \in [Req -> Job]
          /\ attempts' \in [Attempt -> AttemptState] /\ starts' \in 0 .. MaxStarts
        BY <1>1, <2>1 DEF IndInv, MachinesTypeOK, Begins
    <2>3. MachinesTypeOK'
        BY <1>2, <1>3, <2>2 DEF IndInv, MachinesTypeOK, Known, Running
    <2> QED
        BY <1>1, <1>3, <1>4, <2>1, <2>3, BeginningPreserves
<1>5. CASE Finish(r) /\ UNCHANGED <<db, overrides, attempts, starts>>
    <2>1. job'[r] = NoJob /\ (\A q \in Req : q # r => job'[q] = job[q]) /\ job' \in [Req -> Job]
        BY <1>5, IdleTypes DEF IndInv, MachinesTypeOK, Finish
    <2>2. MachinesTypeOK'
        BY <1>2, <1>3, <1>5, <2>1 DEF IndInv, MachinesTypeOK, Known, Running
    <2> QED
        BY <1>1, <1>3, <1>5, <2>1, <2>2, EndingPreserves
<1> QED
    BY <1>4, <1>5 DEF RestoreCopied

LEMMA StutteringPreserves == IndInv /\ UNCHANGED vars => IndInv'
BY DEF IndInv, vars, manager, disks, ghosts, MachinesTypeOK, JobOK, OneRequestPerAttempt,
   AttemptOK,
       InstanceOK, AloneOK, NoStrayMachine, OverridesFollowMachines, Known, Running, Busy

LEMMA Inductive == IndInv /\ [Next]_vars => IndInv'
<1> SUFFICES ASSUME IndInv, [Next]_vars PROVE IndInv'
    OBVIOUS
<1>1. CASE \E i \in Id : Define(i)
    BY <1>1, DefinePreserves
<1>2. ASSUME NEW r \in Req, NEW i \in Id, InstanceStep(r, i) PROVE IndInv'
    BY <1>2, CreateTransientPreserves, StartPreserves, StopPreserves, DestroyPreserves,
       BeginSnapshotPreserves, BeginRestorePreserves DEF InstanceStep
<1>3. ASSUME NEW r \in Req, Continue(r) PROVE IndInv'
    BY <1>3, StartedPreserves, BuildFailsPreserves, SnapshotTakenPreserves,
       RestoreCopiedPreserves, RestoreFailsPreserves DEF Continue
<1>4. ASSUME NEW a \in Attempt, Disposed(a) \/ BeginWrite(a) \/ WriteLands(a) PROVE IndInv'
    BY <1>4, DisposedPreserves, BeginWritePreserves, WriteLandsPreserves
<1>5. CASE \E s \in Snap : DeleteSnapshot(s)
    BY <1>5, DeleteSnapshotPreserves
<1> QED
    BY <1>1, <1>2, <1>3, <1>4, <1>5, StutteringPreserves DEF Next

-----------------------------------------------------------------------------
(* The theorems *)

\* The invariant holds in every behaviour.
THEOREM Invariance == Spec => []IndInv
BY InitEstablishes, Inductive, PTL DEF Spec

\* Types; and the row of a persistent instance tells its status, however requests
\* for it interleave and whatever fails.
THEOREM RowsCorrect == Spec => []RowTellsStatus
<1>1. IndInv => RowTellsStatus
    BY DEF IndInv, RowTellsStatus, InstanceOK
<1> QED
    BY <1>1, Invariance, PTL

\* A machine that runs is the one of an instance that somebody can stop, while requests
\* for the instance do not overlap.
THEOREM MachinesCanBeStopped == Spec => []NoStrayMachine
<1>1. IndInv => NoStrayMachine
    BY DEF IndInv
<1> QED
    BY <1>1, Invariance, PTL

\* The client mount registry has the startup disks of the instances that run or start,
\* while requests for them do not overlap and no start of theirs has failed.
THEOREM OverridesCorrect == Spec => []OverridesFollowMachines
<1>1. IndInv => OverridesFollowMachines
    BY DEF IndInv
<1> QED
    BY <1>1, Invariance, PTL

-----------------------------------------------------------------------------
(* What the drive of an instance holds *)

\* A write on its way is one that the drive may come to hold.
PromiseOK ==
    /\ alien = {} /\ mounted # "other"
    /\ ~hurried => /\ \A i \in Id : Holds(i) \in promised[i]
                   /\ \A a \in Attempt :
                         attempts[a].write # 0 => attempts[a].write \in promised[attempts[a].owner]

\* A step keeps the promise if it touches no drive and begins no write.
WritesStay ==
    \A a \in Attempt : attempts'[a].write # 0 =>
        attempts'[a].write = attempts[a].write /\ attempts'[a].owner = attempts[a].owner

LEMMA PromiseKept ==
    ASSUME PromiseOK, WritesStay, UNCHANGED <<splinter, alien, mounted, promised, hurried>>
    PROVE  PromiseOK'
BY DEF PromiseOK, WritesStay, Holds

LEMMA PromiseKeptByStart ==
    ASSUME IndInv, NEW r \in Req, NEW i \in Id, BeginStart(r, i)
    PROVE  WritesStay
BY Beginning DEF Begins, WritesStay

LEMMA PromiseKeptByTeardown ==
    ASSUME IndInv, NEW i \in Id, Known(i), Running(i), attempts' = TornDown(i)
    PROVE  WritesStay
BY TearingDown DEF IndInv, OneMachineStops, OnlyStops, WritesStay

LEMMA PromiseKeptByRequest ==
    ASSUME IndInv, PromiseOK, NEW r \in Req, NEW i \in Id, InstanceStep(r, i)
    PROVE  PromiseOK'
<1>1. CASE CreateTransient(r, i)
    BY <1>1, PromiseKeptByStart, PromiseKept DEF CreateTransient, disks, WritesStay
<1>2. CASE Start(r, i)
    BY <1>2, PromiseKeptByStart, PromiseKept DEF Start, disks
<1>3. CASE Stop(r, i)
    BY <1>3, PromiseKeptByTeardown, PromiseKept DEF Stop, disks
<1>4. CASE Destroy(r, i)
    <2>1. WritesStay
        BY <1>4, PromiseKeptByTeardown DEF Destroy, HasMachine, WritesStay
    <2> QED
        BY <1>4, <2>1, PromiseKept DEF Destroy, disks
<1>5. ASSUME NEW s \in Snap, BeginSnapshot(r, i, s) PROVE PromiseOK'
    BY <1>5, PromiseKept DEF BeginSnapshot, disks, WritesStay
<1>6. ASSUME NEW s \in Snap, BeginRestore(r, i, s) PROVE PromiseOK'
    <2>1. WritesStay
        BY <1>6, PromiseKeptByTeardown DEF BeginRestore, WritesStay
    <2> QED
        BY <1>6, <2>1, PromiseKept DEF BeginRestore, disks
<1> QED
    BY <1>1, <1>2, <1>3, <1>4, <1>5, <1>6 DEF InstanceStep

LEMMA PromiseKeptByRestore ==
    ASSUME IndInv, PromiseOK, NEW r \in Req, RestoreCopied(r)
    PROVE  PromiseOK'
<1> DEFINE i == job[r].id
           content == snaps[job[r].snap]
<1>1. i \in Id /\ content \in Content \cup {NoFile}
    BY DEF IndInv, RestoreCopied, JobOK, MachinesTypeOK
<1>2. WritesStay
    BY <1>1, PromiseKeptByStart DEF RestoreCopied, WritesStay
<1>3. alien' = {} /\ mounted' # "other"
    BY DEF RestoreCopied, PromiseOK
<1>4. CASE content = NoFile
    BY <1>2, <1>3, <1>4 DEF RestoreCopied, PromiseOK, WritesStay, Holds
<1>5. CASE content # NoFile
    <2>1. /\ splinter' = [splinter EXCEPT ![i] = content]
          /\ promised' = [promised EXCEPT ![i] = {content}]
        BY <1>5 DEF RestoreCopied, Restored
    <2>2. splinter \in [Id -> Content \cup {NoFile}] /\ promised \in [Id -> SUBSET Content]
        BY DEF IndInv, MachinesTypeOK
    <2>3. ~hurried' => ~hurried /\ \A a \in Attempt : attempts[a].owner = i => attempts[a].write = 0
        BY DEF RestoreCopied
    <2>4. \A j \in Id : ~hurried' => Holds(j)' \in promised'[j]
        BY <1>1, <1>5, <2>1, <2>2, <2>3 DEF PromiseOK, Holds
    <2>5. \A a \in Attempt : ~hurried' /\ attempts'[a].write # 0
                               => attempts'[a].write \in promised'[attempts'[a].owner]
        BY <1>1, <1>2, <2>1, <2>2, <2>3 DEF PromiseOK, WritesStay, IndInv, AttemptOK
    <2> QED
        BY <1>3, <2>4, <2>5 DEF PromiseOK
<1> QED
    BY <1>4, <1>5

LEMMA PromiseKeptByWrite ==
    ASSUME IndInv, PromiseOK, NEW a \in Attempt, WriteLands(a)
    PROVE  PromiseOK'
<1> DEFINE i == attempts[a].owner
           w == attempts[a].write
<1>1. i \in Id /\ w # 0 /\ w # NoFile
    BY ConstantsAssumption
       DEF IndInv, WriteLands, AttemptOK, MachinesTypeOK, AttemptState, NoFile
<1>2. /\ splinter' = [splinter EXCEPT ![i] = w] /\ hurried' = hurried /\ mounted' = mounted
      /\ \/ promised' = [promised EXCEPT ![i] = {w} \cup InFlight(i, a)]
         \/ promised' = promised
    BY DEF WriteLands
<1>3. splinter \in [Id -> Content \cup {NoFile}] /\ promised \in [Id -> SUBSET Content]
    BY DEF IndInv, MachinesTypeOK
<1>4. /\ attempts'[a].write = 0
      /\ \A b \in Attempt : b # a => attempts'[b] = attempts[b]
    BY DEF IndInv, WriteLands, MachinesTypeOK, AttemptState
<1>5. alien' = {} /\ mounted' # "other"
    BY <1>2 DEF WriteLands, PromiseOK
<1>6. \A j \in Id : ~hurried' => Holds(j)' \in promised'[j]
    BY <1>1, <1>2, <1>3 DEF PromiseOK, Holds
<1>7. ASSUME NEW b \in Attempt, ~hurried', attempts'[b].write # 0
      PROVE  attempts'[b].write \in promised'[attempts'[b].owner]
    <2>1. b # a /\ attempts'[b] = attempts[b] /\ attempts[b].owner \in Id
        BY <1>4, <1>7 DEF IndInv, AttemptOK
    <2>2. attempts[b].write \in promised[attempts[b].owner]
        BY <1>2, <1>7, <2>1 DEF PromiseOK
    <2>3. attempts[b].owner = i => attempts[b].write \in InFlight(i, a)
        BY <1>7, <2>1 DEF InFlight
    <2> QED
        BY <1>1, <1>2, <1>3, <2>1, <2>2, <2>3
<1> QED
    BY <1>5, <1>6, <1>7 DEF PromiseOK

LEMMA PromiseStep ==
    ASSUME IndInv, PromiseOK, [Next]_vars
    PROVE  PromiseOK'
<1>1. ASSUME NEW i \in Id, Define(i) PROVE PromiseOK'
    BY <1>1, PromiseKept DEF Define, disks, ghosts, WritesStay
<1>2. ASSUME NEW r \in Req, NEW i \in Id, InstanceStep(r, i) PROVE PromiseOK'
    BY <1>2, PromiseKeptByRequest
<1>3. ASSUME NEW r \in Req, Continue(r) PROVE PromiseOK'
    <2>1. CASE Started(r)
        <3>1. WritesStay
            BY <2>1 DEF IndInv, Started, JobOK, MachinesTypeOK, AttemptState, WritesStay
        <3> QED
            BY <2>1, <3>1, PromiseKept DEF PromiseOK, Started, ghosts
    <2>2. CASE BuildFails(r)
        <3>1. WritesStay
            BY <2>2 DEF IndInv, BuildFails, JobOK, MachinesTypeOK, AttemptState, WritesStay
        <3> QED
            BY <2>2, <3>1, PromiseKept DEF BuildFails, disks
    <2>3. CASE SnapshotTaken(r) \/ RestoreFails(r)
        BY <2>3, PromiseKept DEF SnapshotTaken, RestoreFails, disks, ghosts, WritesStay
    <2> QED
        BY <1>3, <2>1, <2>2, <2>3, PromiseKeptByRestore DEF Continue
<1>4. ASSUME NEW a \in Attempt, Disposed(a) PROVE PromiseOK'
    <2>1. WritesStay
        BY <1>4 DEF IndInv, Disposed, MachinesTypeOK, NoAttempt, WritesStay
    <2> QED
        BY <1>4, <2>1, PromiseKept DEF Disposed, disks, ghosts
<1>5. ASSUME NEW a \in Attempt, BeginWrite(a) PROVE PromiseOK'
    <2>1. attempts[a].owner \in Id /\ promised \in [Id -> SUBSET Content]
        BY <1>5 DEF IndInv, BeginWrite, AttemptOK, MachinesTypeOK
    <2>2. /\ attempts'[a].write = stamps + 1 /\ attempts'[a].owner = attempts[a].owner
          /\ \A b \in Attempt : b # a => attempts'[b] = attempts[b]
        BY <1>5 DEF IndInv, BeginWrite, MachinesTypeOK, AttemptState
    <2> QED
        BY <1>5, <2>1, <2>2 DEF PromiseOK, BeginWrite, disks, Holds, IndInv, AttemptOK
<1>6. ASSUME NEW a \in Attempt, WriteLands(a) PROVE PromiseOK'
    BY <1>6, PromiseKeptByWrite
<1>7. ASSUME NEW s \in Snap, DeleteSnapshot(s) PROVE PromiseOK'
    BY <1>7, PromiseKept DEF DeleteSnapshot, ghosts, WritesStay
<1>8. CASE UNCHANGED vars
    BY <1>8, PromiseKept DEF vars, disks, ghosts, WritesStay
<1> QED
    BY <1>1, <1>2, <1>3, <1>4, <1>5, <1>6, <1>7, <1>8 DEF Next

\* Where the operator has no other image mounted, a drive holds what its guest was told,
\* or what was restored, whatever overlaps and fails; unless a restore was too quick.
THEOREM DrivesKeepTheirPromise ==
    ASSUME "other" \notin Mounts
    PROVE  Spec => []DriveKeepsPromise
<1>1. Init => PromiseOK
    BY ConstantsAssumption DEF Init, PromiseOK, Holds, NoAttempt
<1>2. IndInv /\ PromiseOK /\ [Next]_vars => PromiseOK'
    BY PromiseStep
<1>3. PromiseOK => DriveKeepsPromise
    BY DEF PromiseOK, DriveKeepsPromise
<1> QED
    BY <1>1, <1>2, <1>3, Invariance, PTL DEF Spec
=============================================================================
