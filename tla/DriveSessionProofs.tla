------------------------- MODULE DriveSessionProofs -------------------------
(***************************************************************************)
(* What holds of the sessions of any number of clients and connections,    *)
(* whatever their syncs, forks, removals and requests have to do with each *)
(* other.                                                                  *)
(***************************************************************************)
EXTENDS DriveSession, FiniteSetTheorems, SequenceTheorems, TLAPS

TablesOK ==
    /\ mounts \in MountEntry
    /\ mounts # NotMounted => mounts.filename \in Image
    /\ overrides \in [Client -> MountEntry]
    /\ \A c \in Client : overrides[c] # NotMounted => overrides[c].filename \in Image
    /\ epoch \in Nat
    /\ acked \in [Client -> Ack]
    /\ requests \in 0 .. MaxRequests
    /\ stamps \in 0 .. MaxWrites

DiskOK ==
    /\ rows \in [Client -> Image \cup {NoImage}]
    /\ files \in Seq(File)
    /\ masterFile \in [Image -> DOMAIN files]
    /\ splinterFile \in [Client -> DOMAIN files \cup {0}]
    /\ scratches \subseteq DOMAIN files

\* A connection in the map has presented its client.
NetOK ==
    /\ connections \in Seq(Conn)
    /\ client \in [Conn -> Client \cup {Anonymous}]
    /\ socket \in [Conn -> {"new", "open", "closed"}]
    /\ \A k \in Served : socket[k] # "new"

DrivesOK ==
    /\ sds \in Seq(SessionDrive)
    /\ \A n \in DOMAIN sds : sds[n].file \in DOMAIN files
    /\ drives \in [Conn -> DOMAIN sds \cup {0}]

LoopsOK ==
    /\ loop \in [Conn -> Write]
    /\ \A k \in Conn :
         /\ loop[k].pc # "idle" => loop[k].sd \in DOMAIN sds
         /\ loop[k].pc \in {"reopen", "write", "fsync"} => loop[k].file \in DOMAIN files

\* What process p has captured while it does j.
Fits(p, j) ==
    /\ j.kind = "connect" => p \in Conn /\ socket[p] # "new"
    /\ j.entry # NoEntry => j.entry.filename \in Image
    /\ j.pc \in {"close", "unlink", "reattach", "discard", "open"} =>
         j.conn \in Conn /\ socket[j.conn] # "new"
    /\ j.pc \in {"close", "unlink"} => j.sd \in DOMAIN sds
    /\ j.pc \in {"reattach", "discard"} => Persistent(j.conn)
    /\ j.pc \in {"reattach", "discard", "open"} => j.entry # NoEntry
    /\ j.pc \in {"forget", "check", "copy", "rename"} => j.client \in Client
    /\ j.pc \in {"check", "copy", "rename", "reload"} => j.base \in Image
    /\ j.pc = "rename" => j.tmp \in DOMAIN files

JobsOK ==
    /\ job \in [Proc -> Job]
    /\ \A p \in Proc : Fits(p, job[p])

-----------------------------------------------------------------------------
(* Every file is of the public or of one owner, and every SessionDrive of one
   connection, from the moment they are made. *)

Owners == Client \cup Conn \cup {Public}

FilesLabelled(own) ==
    /\ \A i \in DOMAIN files : files[i].author \in {own[i], Public}
    /\ \A f \in Image : own[masterFile[f]] = Public
    /\ \A c \in Client : splinterFile[c] # 0 => own[splinterFile[c]] = c
    /\ \A p \in Proc : job[p].pc = "rename" => own[job[p].tmp] = Public

\* A drive that has not forked shows the public's files, or else its owner's.
DrivesLabelled(own, user) ==
    /\ \A n \in DOMAIN sds :
         /\ socket[user[n]] # "new"
         /\ own[sds[n].file] = IF sds[n].scratch = 0 THEN Public ELSE Owner(user[n])
    /\ \A k \in Conn : drives[k] # 0 => user[drives[k]] = k

LoopsLabelled(own, user) ==
    \A k \in Conn :
      /\ loop[k].pc # "idle" => user[loop[k].sd] = k
      /\ loop[k].pc \in {"copy", "reopen"} => ~WritesMaster(k)
      /\ loop[k].pc \in {"reopen", "write", "fsync"} /\ ~WritesMaster(k) =>
           own[loop[k].file] = Owner(k)

Labels(own, user) ==
    /\ own \in [DOMAIN files -> Owners]
    /\ user \in [DOMAIN sds -> Conn]
    /\ FilesLabelled(own) /\ DrivesLabelled(own, user) /\ LoopsLabelled(own, user)

Labelled == \E own, user : Labels(own, user)

IndInv == TablesOK /\ DiskOK /\ NetOK /\ DrivesOK /\ LoopsOK /\ JobsOK /\ Labelled

-----------------------------------------------------------------------------
(* Sequences *)

LEMMA AppendTo ==
    ASSUME NEW S, NEW s \in Seq(S), NEW e \in S
    PROVE  /\ Append(s, e) \in Seq(S)
           /\ DOMAIN s = 1 .. Len(s) /\ Len(s) \in Nat
           /\ DOMAIN Append(s, e) = DOMAIN s \cup {Len(s) + 1}
           /\ Len(s) + 1 \notin DOMAIN s
           /\ Append(s, e)[Len(s) + 1] = e
           /\ \A i \in DOMAIN s : Append(s, e)[i] = s[i]
<1>1. Len(s) \in Nat /\ DOMAIN s = 1 .. Len(s)
  BY LenProperties
<1>2. /\ Append(s, e) \in Seq(S)
      /\ Len(Append(s, e)) = Len(s) + 1
      /\ Append(s, e)[Len(s) + 1] = e
      /\ \A i \in 1 .. Len(s) : Append(s, e)[i] = s[i]
  BY AppendProperties, <1>1
<1>3. DOMAIN Append(s, e) = 1 .. Len(s) + 1
  BY <1>2, LenProperties
<1> QED BY <1>1, <1>2, <1>3

LEMMA UpdateOf ==
    ASSUME NEW S, NEW s \in Seq(S), NEW i \in DOMAIN s, NEW e \in S
    PROVE  /\ [s EXCEPT ![i] = e] \in Seq(S)
           /\ DOMAIN [s EXCEPT ![i] = e] = DOMAIN s
           /\ \A n \in DOMAIN s : [s EXCEPT ![i] = e][n] = IF n = i THEN e ELSE s[n]
<1>1. DOMAIN s = 1 .. Len(s)
  BY LenProperties
<1>2. [s EXCEPT ![i] = e] \in Seq(S)
  BY ExceptSeq, <1>1
<1> QED BY <1>1, <1>2

LEMMA RemoveFrom ==
    ASSUME NEW S, NEW s \in Seq(S), NEW i \in DOMAIN s
    PROVE  /\ RemoveAt(s, i) \in Seq(S)
           /\ \A n \in DOMAIN RemoveAt(s, i) : \E m \in DOMAIN s : RemoveAt(s, i)[n] = s[m]
           /\ DOMAIN RemoveAt(s, i) = 1 .. Len(s) - 1
           /\ \A n \in 1 .. Len(s) - 1 :
                RemoveAt(s, i)[n] = IF n < i THEN s[n] ELSE s[n + 1]
<1> DEFINE front == SubSeq(s, 1, i - 1)
           back == SubSeq(s, i + 1, Len(s))
<1>1. DOMAIN s = 1 .. Len(s) /\ Len(s) \in Nat /\ s \in [1 .. Len(s) -> S] /\ i \in 1 .. Len(s)
  BY LenProperties
<1>2. /\ front \in Seq(S) /\ Len(front) = i - 1
      /\ \A n \in 1 .. i - 1 : front[n] = s[n]
  <2>1. \A n \in 1 .. i - 1 : s[n] \in S
    BY <1>1
  <2> QED BY <1>1, <2>1, SubSeqProperties
<1>3. /\ back \in Seq(S) /\ Len(back) = Len(s) - i
      /\ \A n \in 1 .. Len(s) - i : back[n] = s[i + n]
  <2>1. \A n \in i + 1 .. Len(s) : s[n] \in S
    BY <1>1
  <2>2. i + 1 \in Int /\ Len(s) \in Int
    BY <1>1
  <2>3. /\ back \in Seq(S) /\ Len(back) = IF i + 1 <= Len(s) THEN Len(s) - (i + 1) + 1 ELSE 0
        /\ \A n \in 1 .. Len(s) - (i + 1) + 1 : back[n] = s[i + 1 + n - 1]
    BY <2>1, <2>2, SubSeqProperties
  <2> QED BY <1>1, <2>3
<1> HIDE DEF front, back
<1>4. /\ front \o back \in Seq(S) /\ Len(front \o back) = Len(s) - 1
      /\ \A n \in 1 .. Len(s) - 1 :
           (front \o back)[n] = IF n <= i - 1 THEN front[n] ELSE back[n - (i - 1)]
  <2>1. /\ front \o back \in Seq(S) /\ Len(front \o back) = Len(front) + Len(back)
        /\ \A n \in 1 .. Len(front) + Len(back) :
             (front \o back)[n] = IF n <= Len(front) THEN front[n] ELSE back[n - Len(front)]
    BY <1>2, <1>3, ConcatProperties
  <2>2. Len(front) + Len(back) = Len(s) - 1
    BY <1>1, <1>2, <1>3
  <2> QED BY <1>2, <2>1, <2>2
<1>5. DOMAIN (front \o back) = 1 .. Len(s) - 1
  BY <1>4, LenProperties
<1>6. \A n \in 1 .. Len(s) - 1 : \E m \in DOMAIN s : (front \o back)[n] = s[m]
  <2> TAKE n \in 1 .. Len(s) - 1
  <2>1. CASE n <= i - 1
    BY <1>1, <1>2, <1>4, <2>1, SMTT(30)
  <2>2. CASE ~(n <= i - 1)
    <3>1. n - (i - 1) \in 1 .. Len(s) - i /\ i + (n - (i - 1)) \in DOMAIN s
      BY <1>1, <2>2
    <3> QED BY <1>1, <1>3, <1>4, <2>2, <3>1
  <2> QED BY <2>1, <2>2
<1>7. \A n \in 1 .. Len(s) - 1 : (front \o back)[n] = IF n < i THEN s[n] ELSE s[n + 1]
  <2> TAKE n \in 1 .. Len(s) - 1
  <2>1. CASE n < i
    BY <1>1, <1>2, <1>4, <2>1, SMTT(30)
  <2>2. CASE ~(n < i)
    <3>1. n - (i - 1) \in 1 .. Len(s) - i /\ i + (n - (i - 1)) = n + 1 /\ ~(n <= i - 1)
      BY <1>1, <2>2
    <3>2. (front \o back)[n] = back[n - (i - 1)]
      BY <1>4, <3>1
    <3>3. back[n - (i - 1)] = s[i + (n - (i - 1))]
      BY <1>3, <3>1
    <3>4. (front \o back)[n] = s[n + 1]
      BY <3>1, <3>2, <3>3
    <3> QED BY <2>2, <3>4
  <2> QED BY <2>1, <2>2
<1>8. RemoveAt(s, i) = front \o back
  BY DEF RemoveAt, front, back
<1> QED BY <1>4, <1>5, <1>6, <1>7, <1>8

-----------------------------------------------------------------------------
(* The initial states *)

LEMMA LibraryNumbersImages ==
    /\ Cardinality(Image) \in Nat
    /\ Library \in [1 .. Cardinality(Image) -> Image]
    /\ \A f \in Image : \E i \in DOMAIN Library : Library[i] = f
<1>1. Cardinality(Image) \in Nat /\ ExistsBijection(1 .. Cardinality(Image), Image)
  BY SetsAssumption, FS_CardinalityType
<1>2. PICK s \in Bijection(1 .. Cardinality(Image), Image) : TRUE
  BY <1>1 DEF ExistsBijection
<1>3. /\ s \in [1 .. Cardinality(Image) -> Image]
      /\ \A f \in Image : \E i \in DOMAIN s : s[i] = f
  BY <1>2 DEF Bijection, Injection, Surjection
<1> QED BY <1>1, <1>3 DEF Library

LEMMA InitHolds == Init => IndInv
<1> SUFFICES ASSUME Init PROVE IndInv
  OBVIOUS
<1> USE NamesAssumption, SetsAssumption
<1> DEFINE count == Cardinality(Image)
<1>1. /\ count \in Nat
      /\ Library \in [1 .. count -> Image] /\ DOMAIN Library = 1 .. count
      /\ \A f \in Image : \E i \in 1 .. count : Library[i] = f
  BY LibraryNumbersImages
<1> HIDE DEF count
<1>2. /\ files = [i \in 1 .. count |-> [image |-> Library[i], stamp |-> 0, author |-> Public]]
      /\ DOMAIN files = 1 .. count
  BY <1>1 DEF Init
<1>3. files \in Seq(File)
  <2>1. \A i \in 1 .. count :
          [image |-> Library[i], stamp |-> 0, author |-> Public] \in File
    BY <1>1 DEF File
  <2> QED BY <1>1, <1>2, <2>1, SeqDef
<1>4. masterFile \in [Image -> DOMAIN files]
  BY <1>1, <1>2 DEF Init
<1>5. TablesOK
  BY DEF Init, TablesOK, NotMounted, MountEntry, NoAck, Ack
<1>6. DiskOK
  BY <1>3, <1>4 DEF Init, DiskOK
<1>7. NetOK /\ Served = {}
  BY EmptySeq DEF Init, NetOK, Served
<1>8. DrivesOK /\ DOMAIN sds = {}
  BY EmptySeq, LenProperties DEF Init, DrivesOK
<1>9. LoopsOK
  BY <1>8 DEF Init, LoopsOK, NoWrite, Write, LoopPc
<1>10. JobsOK
  BY DEF Init, JobsOK, Fits, NoJob, Job, Pc, Kind, NoEntry, Entry, NoVersion, Version
<1>11. Labels([i \in DOMAIN files |-> Public], [n \in DOMAIN sds |-> NoConn])
  <2>1. FilesLabelled([i \in DOMAIN files |-> Public])
    BY <1>2, <1>4 DEF Init, FilesLabelled, NoJob
  <2>2. LoopsLabelled([i \in DOMAIN files |-> Public], [n \in DOMAIN sds |-> NoConn])
    BY DEF Init, LoopsLabelled, NoWrite
  <2>3. DrivesLabelled([i \in DOMAIN files |-> Public], [n \in DOMAIN sds |-> NoConn])
    BY <1>8 DEF Init, DrivesLabelled
  <2> QED BY <1>8, <2>1, <2>2, <2>3 DEF Labels, Owners
<1>12. Labelled
  BY <1>11 DEF Labelled
<1> QED BY <1>5, <1>6, <1>7, <1>8, <1>9, <1>10, <1>12 DEF IndInv

-----------------------------------------------------------------------------
(* Jobs *)

\* What a step does to what the jobs have captured.
Grows ==
    /\ \A k \in Conn : socket[k] # "new" => socket'[k] # "new" /\ client'[k] = client[k]
    /\ DOMAIN sds \subseteq DOMAIN sds'
    /\ DOMAIN files \subseteq DOMAIN files'

LEMMA FitsStays ==
    ASSUME Grows, NEW p, NEW j, Fits(p, j)
    PROVE  Fits(p, j)'
BY DEF Grows, Fits, Persistent, WritesMaster

LEMMA JobsStay ==
    ASSUME JobsOK, Grows, UNCHANGED job
    PROVE  JobsOK'
BY FitsStays DEF JobsOK

LEMMA JobGoes ==
    ASSUME JobsOK, Grows, NEW p \in Proc, NEW j \in Job, Go(p, j), Fits(p, j)'
    PROVE  JobsOK' /\ job'[p] = j /\ \A q \in Proc : q # p => job'[q] = job[q]
<1>1. /\ job' \in [Proc -> Job] /\ job'[p] = j
      /\ \A q \in Proc : q # p => job'[q] = job[q]
  BY DEF JobsOK, Go
<1>2. ASSUME NEW q \in Proc, q # p PROVE Fits(q, job[q])'
  <2>1. Fits(q, job[q]) /\ job'[q] = job[q]
    BY <1>1, <1>2 DEF JobsOK
  <2>2. PICK i : i = job[q]
    OBVIOUS
  <2>3. Fits(q, i)'
    BY <2>1, <2>2, FitsStays
  <2> QED BY <2>1, <2>2, <2>3
<1>3. Fits(p, job[p])'
  BY <1>1
<1> QED BY <1>1, <1>2, <1>3 DEF JobsOK

LEMMA NoJobFits == NoJob \in Job /\ \A p \in Proc : Fits(p, NoJob)
BY DEF NoJob, Job, Fits, Pc, Kind, NoEntry, Entry, NoVersion, Version

-----------------------------------------------------------------------------
(* Steps that put nothing new into a file, a drive or a loop *)

SameFiles ==
    /\ DOMAIN sds' = DOMAIN sds
    /\ \A n \in DOMAIN sds : sds'[n].file = sds[n].file /\ sds'[n].scratch = sds[n].scratch

Tame ==
    /\ Grows
    /\ UNCHANGED <<files, masterFile>>
    /\ \A c \in Client : splinterFile'[c] \in {0, splinterFile[c]}
    /\ SameFiles
    /\ \A k \in Conn : drives'[k] \in {0, drives[k]}
    /\ \A k \in Conn : loop'[k] \in {NoWrite, loop[k]}
    /\ \A p \in Proc : job'[p].pc = "rename" => job'[p] = job[p]

LEMMA OwnerStays ==
    ASSUME Grows, NEW k \in Conn, socket[k] # "new"
    PROVE  /\ Owner(k)' = Owner(k)
           /\ WritesMaster(k)' = WritesMaster(k)
           /\ Persistent(k)' = Persistent(k)
BY DEF Grows, Owner, WritesMaster, Persistent

LEMMA LoopsAlive ==
    ASSUME NEW own, NEW user, Labels(own, user), LoopsOK, NEW k \in Conn, loop[k].pc # "idle"
    PROVE  socket[k] # "new"
BY DEF Labels, LoopsLabelled, DrivesLabelled, LoopsOK

LEMMA TameKeepsLabels ==
    ASSUME IndInv, Tame
    PROVE  Labelled'
<1>1. PICK own, user : Labels(own, user)
  BY DEF IndInv, Labelled
<1> HIDE DEF IndInv
<1>2. FilesLabelled(own)'
  BY <1>1 DEF Labels, FilesLabelled, Tame
<1>3. DrivesLabelled(own, user)'
  <2>1. ASSUME NEW n \in DOMAIN sds
        PROVE  /\ socket'[user[n]] # "new"
               /\ own[sds'[n].file] = IF sds'[n].scratch = 0 THEN Public ELSE Owner(user[n])'
    <3>1. user[n] \in Conn /\ socket[user[n]] # "new"
      BY <1>1 DEF Labels, DrivesLabelled
    <3>2. Owner(user[n])' = Owner(user[n])
      BY <3>1, OwnerStays DEF Tame
    <3> QED BY <1>1, <3>1, <3>2 DEF Labels, DrivesLabelled, Tame, SameFiles, Grows
  <2> QED BY <1>1, <2>1 DEF Labels, DrivesLabelled, Tame, SameFiles
<1>4. LoopsLabelled(own, user)'
  <2> SUFFICES ASSUME NEW k \in Conn, loop'[k].pc # "idle"
               PROVE  /\ user[loop'[k].sd] = k
                      /\ loop'[k].pc \in {"copy", "reopen"} => ~WritesMaster(k)'
                      /\ loop'[k].pc \in {"reopen", "write", "fsync"} /\ ~WritesMaster(k)' =>
                           own[loop'[k].file] = Owner(k)'
    BY DEF LoopsLabelled
  <2>1. loop'[k] = loop[k] /\ loop[k].pc # "idle"
    BY DEF Tame, NoWrite
  <2>2. socket[k] # "new"
    BY <1>1, <2>1, LoopsAlive DEF IndInv
  <2>3. Owner(k)' = Owner(k) /\ WritesMaster(k)' = WritesMaster(k)
    BY <2>2, OwnerStays DEF Tame
  <2> QED BY <1>1, <2>1, <2>3 DEF Labels, LoopsLabelled
<1>5. Labels(own, user)'
  BY <1>1, <1>2, <1>3, <1>4 DEF Labels, Tame, SameFiles
<1> QED BY <1>5 DEF Labelled

LEMMA TameKeepsLoops ==
    ASSUME LoopsOK, Tame, loop' \in [Conn -> Write]
    PROVE  LoopsOK'
BY DEF LoopsOK, Tame, SameFiles, NoWrite

LEMMA LoopIdles ==
    ASSUME LoopsOK, NEW k \in Conn, LoopIdle(k)
    PROVE  loop' \in [Conn -> Write] /\ \A l \in Conn : loop'[l] \in {NoWrite, loop[l]}
BY SetsAssumption DEF LoopsOK, LoopIdle, NoWrite, Write, LoopPc

\* A handle that is asked to close changes nothing else of its SessionDrive.
LEMMA CloseKeepsDrives ==
    ASSUME DrivesOK, NEW n \in DOMAIN sds, sds' = CloseRequested(n)
    PROVE  sds' \in Seq(SessionDrive) /\ SameFiles
<1>1. DOMAIN sds = 1 .. Len(sds) /\ sds \in Seq(SessionDrive) /\ sds[n] \in SessionDrive
  BY ElementOfSeq, LenProperties DEF DrivesOK
<1>2. [sds[n] EXCEPT !.open = FALSE] \in SessionDrive
  BY <1>1 DEF SessionDrive
<1>3. sds' = [sds EXCEPT ![n] = [sds[n] EXCEPT !.open = FALSE]]
  BY DEF CloseRequested
<1>4. sds' \in Seq(SessionDrive) /\ DOMAIN sds' = DOMAIN sds
      /\ \A i \in DOMAIN sds : sds'[i] = IF i = n THEN [sds[n] EXCEPT !.open = FALSE] ELSE sds[i]
  BY <1>1, <1>2, <1>3, UpdateOf
<1> QED BY <1>1, <1>4, ZenonT(60) DEF SameFiles, SessionDrive

LEMMA ServedAreConns == NetOK => \A k \in Served : k \in Conn /\ socket[k] # "new"
BY ElementOfSeq, LenProperties DEF NetOK, Served

LEMMA Effective ==
    ASSUME TablesOK, NEW c \in Client \cup {Anonymous}
    PROVE  /\ ResolveEffective(c) \in Entry
           /\ ResolveEffective(c) # NoEntry => ResolveEffective(c).filename \in Image
<1>1. /\ Override(c) \in MountEntry
      /\ Override(c) # NotMounted => Override(c).filename \in Image
  BY DEF TablesOK, Override, NotMounted, MountEntry
<1>2. ASSUME NEW m \in MountEntry, NEW own \in BOOLEAN
      PROVE  [filename |-> m.filename, version |-> [own |-> own, epoch |-> m.epoch]] \in Entry
  BY DEF MountEntry, Entry, Version
<1>3. NoEntry \in Entry
  BY DEF NoEntry, Entry, Version, NoVersion
<1>4. CASE Override(c) # NotMounted
  BY <1>1, <1>2, <1>4 DEF ResolveEffective
<1>5. CASE Override(c) = NotMounted /\ InheritsGlobal(c) /\ mounts # NotMounted
  <2>1. /\ mounts \in MountEntry /\ mounts.filename \in Image
        /\ [filename |-> mounts.filename,
            version |-> [own |-> FALSE, epoch |-> mounts.epoch]] \in Entry
    BY <1>2, <1>5 DEF TablesOK
  <2> QED BY <1>5, <2>1 DEF ResolveEffective
<1>6. CASE Override(c) = NotMounted /\ ~(InheritsGlobal(c) /\ mounts # NotMounted)
  BY <1>3, <1>6 DEF ResolveEffective
<1> QED BY <1>4, <1>5, <1>6

\* What a job does next with a drive that is closed.
LEMMA OpenDriveFits ==
    ASSUME DiskOK, NEW p \in Proc, NEW j \in Job, Fits(p, j),
           j.conn \in Conn, socket[j.conn] # "new", j.entry # NoEntry
    PROVE  OpenDrive(j) \in Job /\ Fits(p, OpenDrive(j)) /\ OpenDrive(j).pc # "rename"
<1>1. ASSUME NEW pc \in {"reattach", "discard", "open"},
             pc \in {"reattach", "discard"} => Persistent(j.conn)
      PROVE  [j EXCEPT !.pc = pc] \in Job /\ Fits(p, [j EXCEPT !.pc = pc])
             /\ [j EXCEPT !.pc = pc].pc = pc
  BY <1>1 DEF Job, Pc, Fits
<1> QED BY <1>1 DEF OpenDrive

LEMMA DriveClosedFits ==
    ASSUME IndInv, Grows, UNCHANGED <<rows, socket, client, sds, files>>,
           NEW p \in Proc, job[p].pc \in {"close", "unlink"}, DriveClosed(p)
    PROVE  /\ JobsOK'
           /\ \A q \in Proc : job'[q].pc = "rename" => job'[q] = job[q]
           /\ drives' \in [Conn -> DOMAIN sds \cup {0}]
           /\ \A k \in Conn : drives'[k] \in {0, drives[k]}
<1>1. job[p] \in Job /\ Fits(p, job[p]) /\ job[p].conn \in Conn /\ socket[job[p].conn] # "new"
  BY DEF IndInv, JobsOK, Fits
<1>2. drives' = [drives EXCEPT ![job[p].conn] = 0]
  BY DEF DriveClosed
<1>3. PICK j \in Job : Go(p, j) /\ Fits(p, j) /\ j.pc # "rename"
  <2>1. CASE job[p].kind = "remove"
    BY <2>1, NoJobFits DEF DriveClosed, Done, NoJob
  <2>2. CASE job[p].kind # "remove" /\ job[p].entry = NoEntry
    <3>1. [job[p] EXCEPT !.pc = "sync"] \in Job /\ Fits(p, [job[p] EXCEPT !.pc = "sync"])
      BY <1>1 DEF Job, Pc, Fits
    <3> QED BY <2>2, <3>1 DEF DriveClosed, Job
  <2>3. CASE job[p].kind # "remove" /\ job[p].entry # NoEntry
    BY <1>1, <2>3, OpenDriveFits DEF DriveClosed, IndInv
  <2> QED BY <2>1, <2>2, <2>3
<1>4. Fits(p, j)'
  BY <1>3, FitsStays
<1> QED BY <1>1, <1>2, <1>3, <1>4, JobGoes DEF IndInv, DrivesOK

-----------------------------------------------------------------------------
(* Syncs *)

\* What most steps leave to be shown.
LEMMA TameSteps ==
    ASSUME IndInv, Tame, TablesOK', DiskOK', NetOK', JobsOK',
           sds' \in Seq(SessionDrive), drives' \in [Conn -> DOMAIN sds \cup {0}],
           loop' \in [Conn -> Write]
    PROVE  IndInv'
<1>1. DrivesOK'
  BY DEF IndInv, DrivesOK, Tame, SameFiles
<1> QED BY <1>1, TameKeepsLabels, TameKeepsLoops DEF IndInv

LEMMA TypesNow ==
    ASSUME IndInv
    PROVE  /\ sds \in Seq(SessionDrive) /\ drives \in [Conn -> DOMAIN sds \cup {0}]
           /\ loop \in [Conn -> Write] /\ job \in [Proc -> Job]
           /\ \A p \in Proc : Fits(p, job[p])
BY DEF IndInv, DrivesOK, LoopsOK, JobsOK

LEMMA SyncSessionKeeps ==
    ASSUME IndInv, NEW p \in Proc, SyncSession(p)
    PROVE  IndInv'
<1>1. PICK k \in Waiting(p) :
        LET j == [job[p] EXCEPT !.conn = k, !.entry = ResolveEffective(client[k]),
                      !.visited = {l \in SessionsOf(p) : l = k \/ Before(l, k)}]
        IN IF drives[k] = 0 THEN Go(p, OpenDrive(j)) /\ UNCHANGED sds
                            ELSE CloseDrive(p, j)
  BY DEF SyncSession
<1> DEFINE j == [job[p] EXCEPT !.conn = k, !.entry = ResolveEffective(client[k]),
                     !.visited = {l \in SessionsOf(p) : l = k \/ Before(l, k)}]
<1>2. /\ UNCHANGED <<mounts, overrides, epoch, files, masterFile, splinterFile, scratches, rows,
                     connections, client, socket, drives, loop, requests, stamps, acked>>
      /\ job[p].pc = "sync"
  BY DEF SyncSession, tables, disk, net, bounds
<1>3. job[p] \in Job /\ Fits(p, job[p])
  BY TypesNow
<1>4. \A l \in SessionsOf(p) : l \in Conn /\ socket[l] # "new"
  BY <1>3, ServedAreConns DEF SessionsOf, Fits, IndInv
<1>5. k \in Conn /\ socket[k] # "new" /\ OutOfDate(k) /\ client[k] \in Client \cup {Anonymous}
  BY <1>4 DEF Waiting, IndInv, NetOK
<1>6. j \in Job /\ Fits(p, j) /\ j.conn = k /\ j.entry = ResolveEffective(client[k])
      /\ j.pc = "sync"
  <2>1. /\ ResolveEffective(client[k]) \in Entry
        /\ ResolveEffective(client[k]) # NoEntry => ResolveEffective(client[k]).filename \in Image
    BY <1>5, Effective DEF IndInv
  <2>2. {l \in SessionsOf(p) : l = k \/ Before(l, k)} \in SUBSET Conn
    BY <1>4
  <2> QED BY <1>2, <1>3, <1>5, <2>1, <2>2 DEF Job, Fits
<1> HIDE DEF j
<1>7. TablesOK' /\ DiskOK' /\ NetOK'
  BY <1>2 DEF IndInv, TablesOK, DiskOK, NetOK, Served
<1>8. CASE drives[k] = 0
  <2>1. Go(p, OpenDrive(j)) /\ UNCHANGED sds
    BY <1>1, <1>8 DEF j
  <2>2. j.entry # NoEntry
    BY <1>5, <1>6, <1>8 DEF OutOfDate
  <2>3. Grows /\ SameFiles
    BY <1>2, <2>1 DEF Grows, SameFiles
  <2>4. OpenDrive(j) \in Job /\ Fits(p, OpenDrive(j)) /\ OpenDrive(j).pc # "rename"
    BY <1>5, <1>6, <2>2, OpenDriveFits DEF IndInv
  <2>5. PICK i \in Job : i = OpenDrive(j)
    BY <2>4
  <2>6. Go(p, i) /\ Fits(p, i)'
    BY <2>1, <2>3, <2>4, <2>5, FitsStays
  <2>7. JobsOK' /\ \A q \in Proc : job'[q].pc = "rename" => job'[q] = job[q]
    BY <2>3, <2>4, <2>5, <2>6, JobGoes DEF IndInv
  <2>8. Tame
    BY <1>2, <2>3, <2>7 DEF Tame
  <2> QED BY <1>2, <1>7, <2>1, <2>7, <2>8, TypesNow, TameSteps
<1>9. CASE drives[k] # 0
  <2>1. /\ drives[k] \in DOMAIN sds
        /\ sds' = CloseRequested(drives[k])
        /\ Go(p, [j EXCEPT !.pc = "close", !.sd = drives[k], !.scratch = sds[drives[k]].scratch])
    BY <1>1, <1>5, <1>6, <1>9, TypesNow DEF j, CloseDrive
  <2>2. sds' \in Seq(SessionDrive) /\ SameFiles
    BY <2>1, CloseKeepsDrives DEF IndInv
  <2>3. Grows
    BY <1>2, <2>2 DEF Grows, SameFiles
  <2>4. PICK i : i = [j EXCEPT !.pc = "close", !.sd = drives[k], !.scratch = sds[drives[k]].scratch]
    OBVIOUS
  <2>5. i \in Job /\ Fits(p, i) /\ i.pc = "close"
    <3>1. DOMAIN sds \subseteq Nat /\ sds[drives[k]] \in SessionDrive
      BY <2>1, TypesNow, LenProperties, ElementOfSeq
    <3> QED BY <1>5, <1>6, <2>1, <2>4, <3>1 DEF Job, Pc, Fits, SessionDrive
  <2>6. Fits(p, i)' /\ Go(p, i)
    BY <2>1, <2>3, <2>4, <2>5, FitsStays
  <2>7. JobsOK' /\ \A q \in Proc : job'[q].pc = "rename" => job'[q] = job[q]
    BY <2>3, <2>5, <2>6, JobGoes DEF IndInv
  <2>8. Tame
    BY <1>2, <2>2, <2>3, <2>7 DEF Tame
  <2> QED BY <1>2, <1>7, <2>2, <2>7, <2>8, TypesNow, TameSteps
<1> QED BY <1>8, <1>9

\* A job that goes on, when nothing else changes that the others look at.
LEMMA JobGoesOn ==
    ASSUME IndInv, Grows, NEW p \in Proc, NEW j \in Job, Fits(p, j), Go(p, j), j.pc # "rename"
    PROVE  /\ JobsOK'
           /\ \A q \in Proc : job'[q].pc = "rename" => job'[q] = job[q]
<1>1. Fits(p, j)'
  BY FitsStays
<1> QED BY <1>1, JobGoes DEF IndInv

LEMMA SameIsTame ==
    ASSUME IndInv, UNCHANGED sds
    PROVE  SameFiles /\ sds' \in Seq(SessionDrive)
BY TypesNow DEF SameFiles

LEMMA SyncDoneKeeps ==
    ASSUME IndInv, NEW p \in Proc, SyncDone(p)
    PROVE  IndInv'
<1>1. /\ UNCHANGED <<mounts, overrides, epoch, files, masterFile, splinterFile, scratches, rows,
                     client, socket, sds, drives, loop, requests, stamps, acked>>
      /\ job[p].pc = "sync" /\ Go(p, NoJob)
      /\ connections' = IF job[p].kind = "connect" THEN Append(connections, p) ELSE connections
  BY DEF SyncDone, tables, disk, session, bounds, Done
<1>2. Grows
  BY <1>1 DEF Grows
<1>3. JobsOK' /\ \A q \in Proc : job'[q].pc = "rename" => job'[q] = job[q]
  <2>1. NoJob \in Job /\ Fits(p, NoJob) /\ NoJob.pc # "rename"
    BY NoJobFits DEF NoJob
  <2> QED BY <1>1, <1>2, <2>1, JobGoesOn
<1>4. NetOK'
  <2>1. CASE job[p].kind = "connect"
    <3>1. p \in Conn /\ socket[p] # "new"
      BY <2>1, TypesNow DEF Fits
    <3>2. connections' = Append(connections, p) /\ connections \in Seq(Conn)
      BY <1>1, <2>1 DEF IndInv, NetOK
    <3> QED BY <1>1, <3>1, <3>2, AppendTo DEF IndInv, NetOK, Served
  <2>2. CASE job[p].kind # "connect"
    BY <1>1, <2>2 DEF IndInv, NetOK, Served
  <2> QED BY <2>1, <2>2
<1>5. TablesOK' /\ DiskOK'
  BY <1>1 DEF IndInv, TablesOK, DiskOK
<1>6. Tame
  BY <1>1, <1>2, <1>3, SameIsTame DEF Tame
<1> QED BY <1>1, <1>3, <1>4, <1>5, <1>6, SameIsTame, TypesNow, TameSteps

LEMMA HandleClosedKeeps ==
    ASSUME IndInv, NEW p \in Proc, HandleClosed(p)
    PROVE  IndInv'
<1>1. /\ UNCHANGED <<mounts, overrides, epoch, files, masterFile, splinterFile, scratches, rows,
                     connections, client, socket, sds, loop, requests, stamps, acked>>
      /\ job[p].pc = "close"
  BY DEF HandleClosed, tables, disk, net, bounds, At
<1>2. Grows
  BY <1>1 DEF Grows
<1>3. /\ JobsOK' /\ \A q \in Proc : job'[q].pc = "rename" => job'[q] = job[q]
      /\ drives' \in [Conn -> DOMAIN sds \cup {0}] /\ \A k \in Conn : drives'[k] \in {0, drives[k]}
  <2>1. CASE DropsSplinter(p)
    <3>1. Go(p, [job[p] EXCEPT !.pc = "unlink"]) /\ UNCHANGED drives
      BY <2>1 DEF HandleClosed
    <3>2. /\ [job[p] EXCEPT !.pc = "unlink"] \in Job /\ Fits(p, [job[p] EXCEPT !.pc = "unlink"])
          /\ [job[p] EXCEPT !.pc = "unlink"].pc # "rename"
      <4>1. job[p] \in Job /\ Fits(p, job[p])
        BY TypesNow
      <4> QED BY <1>1, <4>1 DEF Job, Pc, Fits
    <3>3. PICK i \in Job : i = [job[p] EXCEPT !.pc = "unlink"]
      BY <3>2
    <3>4. JobsOK' /\ \A q \in Proc : job'[q].pc = "rename" => job'[q] = job[q]
      BY <1>2, <3>1, <3>2, <3>3, JobGoesOn
    <3> QED BY <3>1, <3>4, TypesNow
  <2>2. CASE ~DropsSplinter(p)
    <3>1. DriveClosed(p)
      BY <2>2 DEF HandleClosed
    <3> QED BY <1>1, <1>2, <3>1, DriveClosedFits
  <2> QED BY <2>1, <2>2
<1>4. TablesOK' /\ DiskOK' /\ NetOK'
  BY <1>1 DEF IndInv, TablesOK, DiskOK, NetOK, Served
<1>5. Tame
  BY <1>1, <1>2, <1>3, SameIsTame DEF Tame
<1> QED BY <1>1, <1>3, <1>4, <1>5, SameIsTame, TypesNow, TameSteps

LEMMA SplinterUnlinkedKeeps ==
    ASSUME IndInv, NEW p \in Proc, SplinterUnlinked(p)
    PROVE  IndInv'
<1>1. /\ UNCHANGED <<mounts, overrides, epoch, files, masterFile, splinterFile, rows,
                     connections, client, socket, sds, loop, requests, stamps, acked>>
      /\ job[p].pc = "unlink" /\ DriveClosed(p)
      /\ scratches' \subseteq scratches
  BY DEF SplinterUnlinked, tables, net, bounds, At
<1>2. Grows
  BY <1>1 DEF Grows
<1>3. /\ JobsOK' /\ \A q \in Proc : job'[q].pc = "rename" => job'[q] = job[q]
      /\ drives' \in [Conn -> DOMAIN sds \cup {0}] /\ \A k \in Conn : drives'[k] \in {0, drives[k]}
  BY <1>1, <1>2, DriveClosedFits
<1>4. TablesOK' /\ DiskOK' /\ NetOK'
  BY <1>1 DEF IndInv, TablesOK, DiskOK, NetOK, Served
<1>5. Tame
  BY <1>1, <1>2, <1>3, SameIsTame DEF Tame
<1> QED BY <1>1, <1>3, <1>4, <1>5, SameIsTame, TypesNow, TameSteps

\* The same job with another place in the code, where it has captured what it needs.
LEMMA PcFits ==
    ASSUME IndInv, NEW p \in Proc, NEW pc,
           \/ pc = "sync"
           \/ pc = "open" /\ job[p].pc \in {"reattach", "discard"}
           \/ pc = "copy" /\ job[p].pc = "check"
           \/ pc = "reload" /\ job[p].pc = "rename"
    PROVE  /\ [job[p] EXCEPT !.pc = pc] \in Job /\ Fits(p, [job[p] EXCEPT !.pc = pc])
           /\ [job[p] EXCEPT !.pc = pc].pc # "rename"
<1>1. job[p] \in Job /\ Fits(p, job[p])
  BY TypesNow
<1> QED BY <1>1 DEF Job, Pc, Fits

LEMMA PcGoes ==
    ASSUME IndInv, Grows, NEW p \in Proc, NEW pc, Go(p, [job[p] EXCEPT !.pc = pc]),
           \/ pc = "sync"
           \/ pc = "open" /\ job[p].pc \in {"reattach", "discard"}
           \/ pc = "copy" /\ job[p].pc = "check"
           \/ pc = "reload" /\ job[p].pc = "rename"
    PROVE  /\ JobsOK'
           /\ \A q \in Proc : job'[q].pc = "rename" => job'[q] = job[q]
<1>1. PICK i \in Job : i = [job[p] EXCEPT !.pc = pc]
  BY PcFits
<1>2. Fits(p, i) /\ i.pc # "rename" /\ Go(p, i)
  BY <1>1, PcFits
<1> QED BY <1>2, JobGoesOn

LEMMA OpenStepsKeep ==
    ASSUME IndInv, NEW p \in Proc, ReattachFails(p) \/ Discarded(p) \/ OpenFails(p)
    PROVE  IndInv'
<1>1. /\ UNCHANGED <<mounts, overrides, epoch, files, masterFile, scratches,
                     connections, client, socket, sds, loop, requests, stamps, acked>>
      /\ job[p].pc \in {"reattach", "discard", "open"}
  BY DEF ReattachFails, Discarded, OpenFails, tables, disk, net, session, bounds, At
<1>2. Grows
  BY <1>1 DEF Grows
<1>3. \/ Go(p, [job[p] EXCEPT !.pc = "open"]) /\ job[p].pc \in {"reattach", "discard"}
      \/ Go(p, [job[p] EXCEPT !.pc = "sync"])
  BY DEF ReattachFails, Discarded, OpenFails, At
<1>4. JobsOK' /\ \A q \in Proc : job'[q].pc = "rename" => job'[q] = job[q]
  BY <1>2, <1>3, PcGoes
<1>5. job[p].conn \in Conn /\ client[job[p].conn] \in Client \cup {Anonymous}
  BY <1>1, TypesNow DEF Fits, IndInv, NetOK
<1>6. /\ rows' \in [Client -> Image \cup {NoImage}]
      /\ splinterFile' \in [Client -> DOMAIN files \cup {0}]
      /\ \A c \in Client : splinterFile'[c] \in {0, splinterFile[c]}
      /\ drives' \in [Conn -> DOMAIN sds \cup {0}]
      /\ \A k \in Conn : drives'[k] \in {0, drives[k]}
  <2>1. CASE ReattachFails(p)
    BY <2>1, TypesNow DEF ReattachFails, IndInv, DiskOK, session
  <2>2. CASE Discarded(p)
    BY <2>2, TypesNow DEF Discarded, IndInv, DiskOK, session
  <2>3. CASE OpenFails(p)
    BY <2>3, TypesNow DEF OpenFails, IndInv, DiskOK, disk
  <2> QED BY <2>1, <2>2, <2>3
<1>7. TablesOK' /\ DiskOK' /\ NetOK'
  BY <1>1, <1>6 DEF IndInv, TablesOK, DiskOK, NetOK, Served
<1>8. Tame
  BY <1>1, <1>2, <1>4, <1>6, SameIsTame DEF Tame
<1> QED BY <1>1, <1>4, <1>6, <1>7, <1>8, SameIsTame, TypesNow, TameSteps

-----------------------------------------------------------------------------
(* Connections, and what a loop gives up or is done with *)

LEMMA ConnectKeeps ==
    ASSUME IndInv, NEW k \in Conn, NEW c \in Client \cup {Anonymous}, Connect(k, c)
    PROVE  IndInv'
<1>1. /\ UNCHANGED <<mounts, overrides, epoch, files, masterFile, splinterFile, scratches, rows,
                     connections, sds, drives, loop, requests, stamps, acked>>
      /\ socket[k] = "new"
      /\ socket' = [socket EXCEPT ![k] = "open"] /\ client' = [client EXCEPT ![k] = c]
      /\ Go(k, [NoJob EXCEPT !.pc = "sync", !.kind = "connect"])
  BY DEF Connect, tables, disk, session, bounds
<1>2. Grows
  BY <1>1 DEF Grows, IndInv, NetOK
<1>3. NetOK'
  BY <1>1 DEF IndInv, NetOK, Served
<1>4. JobsOK' /\ \A q \in Proc : job'[q].pc = "rename" => job'[q] = job[q]
  <2>1. PICK i : i = [NoJob EXCEPT !.pc = "sync", !.kind = "connect"]
    OBVIOUS
  <2>2. i \in Job /\ i.pc # "rename"
    BY <2>1, NoJobFits DEF NoJob, Job, Pc, Kind
  <2>3. Fits(k, i)'
    BY <1>1, <2>1 DEF Fits, NoJob, IndInv, NetOK
  <2>4. k \in Proc /\ Go(k, i)
    BY <1>1, <2>1 DEF Proc
  <2> QED BY <1>2, <2>2, <2>3, <2>4, JobGoes DEF IndInv
<1>5. TablesOK' /\ DiskOK'
  BY <1>1 DEF IndInv, TablesOK, DiskOK
<1>6. Tame
  BY <1>1, <1>2, <1>4, SameIsTame DEF Tame
<1> QED BY <1>1, <1>3, <1>4, <1>5, <1>6, SameIsTame, TypesNow, TameSteps

LEMMA LeaveKeeps ==
    ASSUME IndInv, NEW k \in Conn, Leave(k)
    PROVE  IndInv'
<1>1. /\ UNCHANGED <<mounts, overrides, epoch, files, masterFile, splinterFile, scratches, rows,
                     client, drives, loop, requests, stamps, acked>>
      /\ socket[k] = "open" /\ socket' = [socket EXCEPT ![k] = "closed"]
      /\ k \in Proc
  BY DEF Leave, tables, disk, bounds, Proc
<1>2. connections' \in Seq(Conn)
      /\ \A i \in DOMAIN connections' : \E n \in DOMAIN connections : connections'[i] = connections[n]
  <2>1. CASE k \in Served
    <3>1. PICK i \in DOMAIN connections : connections' = RemoveAt(connections, i)
      BY <2>1 DEF Leave, Served
    <3> QED BY <3>1, RemoveFrom DEF IndInv, NetOK
  <2>2. CASE k \notin Served
    BY <2>2 DEF Leave, IndInv, NetOK
  <2> QED BY <2>1, <2>2
<1>3. NetOK'
  BY <1>1, <1>2 DEF IndInv, NetOK, Served
<1>4. CASE k \in Served /\ drives[k] # 0
  <2>1. /\ drives[k] \in DOMAIN sds
        /\ sds' = CloseRequested(drives[k])
        /\ Go(k, [[NoJob EXCEPT !.kind = "remove", !.conn = k] EXCEPT
                     !.pc = "close", !.sd = drives[k], !.scratch = sds[drives[k]].scratch])
    BY <1>4, TypesNow DEF Leave, CloseDrive, NoJob
  <2>2. sds' \in Seq(SessionDrive) /\ SameFiles
    BY <2>1, CloseKeepsDrives DEF IndInv
  <2>3. Grows
    BY <1>1, <2>2 DEF Grows, SameFiles, IndInv, NetOK
  <2>4. PICK i : i = [[NoJob EXCEPT !.kind = "remove", !.conn = k] EXCEPT
                         !.pc = "close", !.sd = drives[k], !.scratch = sds[drives[k]].scratch]
    OBVIOUS
  <2>5. i \in Job /\ Fits(k, i) /\ i.pc = "close"
    <3>1. DOMAIN sds \subseteq Nat /\ sds[drives[k]] \in SessionDrive
      BY <2>1, TypesNow, LenProperties, ElementOfSeq
    <3> QED BY <1>1, <2>1, <2>4, <3>1, NoJobFits DEF NoJob, Job, Pc, Kind, Fits, SessionDrive
  <2>6. JobsOK' /\ \A q \in Proc : job'[q].pc = "rename" => job'[q] = job[q]
    BY <1>1, <2>1, <2>3, <2>4, <2>5, JobGoesOn
  <2>7. TablesOK' /\ DiskOK'
    BY <1>1 DEF IndInv, TablesOK, DiskOK
  <2>8. Tame
    BY <1>1, <2>2, <2>3, <2>6 DEF Tame
  <2> QED BY <1>1, <1>3, <2>2, <2>6, <2>7, <2>8, TypesNow, TameSteps
<1>5. CASE ~(k \in Served /\ drives[k] # 0)
  <2>1. UNCHANGED <<sds, job>>
    BY <1>5 DEF Leave
  <2>2. Grows
    BY <1>1, <2>1 DEF Grows, IndInv, NetOK
  <2>3. JobsOK'
    BY <2>1, <2>2, JobsStay DEF IndInv
  <2>4. TablesOK' /\ DiskOK'
    BY <1>1 DEF IndInv, TablesOK, DiskOK
  <2>5. Tame
    BY <1>1, <2>1, <2>2, SameIsTame DEF Tame
  <2> QED BY <1>1, <1>3, <2>1, <2>3, <2>4, <2>5, SameIsTame, TypesNow, TameSteps
<1> QED BY <1>4, <1>5

\* A write that ends: it failed, or its client is told.
LEMMA LoopEndsKeep ==
    ASSUME IndInv, NEW k \in Conn, ForkCopyFails(k) \/ ForkFails(k) \/ WriteSynced(k)
    PROVE  IndInv'
<1>1. /\ UNCHANGED <<mounts, overrides, epoch, files, masterFile, scratches, rows,
                     connections, client, socket, sds, drives, job, requests, stamps>>
      /\ LoopIdle(k)
  BY DEF ForkCopyFails, ForkFails, WriteSynced, tables, disk, net, session, bounds
<1>2. Grows
  BY <1>1 DEF Grows
<1>3. /\ splinterFile' \in [Client -> DOMAIN files \cup {0}]
      /\ \A c \in Client : splinterFile'[c] \in {0, splinterFile[c]}
      /\ acked' \in [Client -> Ack]
  <2>1. CASE ForkCopyFails(k)
    BY <2>1 DEF ForkCopyFails, IndInv, DiskOK, TablesOK
  <2>2. CASE ForkFails(k)
    BY <2>2 DEF ForkFails, IndInv, DiskOK, TablesOK, disk
  <2>3. CASE WriteSynced(k)
    <3>1. sds[loop[k].sd].master \in Image /\ loop[k].stamp \in 0 .. MaxWrites
      <4>1. loop[k].sd \in DOMAIN sds /\ loop[k] \in Write
        BY <2>3 DEF WriteSynced, LoopAt, IndInv, LoopsOK
      <4>2. sds[loop[k].sd] \in SessionDrive
        BY <4>1, TypesNow, LenProperties, ElementOfSeq
      <4> QED BY <4>1, <4>2 DEF SessionDrive, Write
    <3>2. [image |-> sds[loop[k].sd].master, stamp |-> loop[k].stamp] \in Ack
      BY <3>1 DEF Ack
    <3>3. acked' \in [Client -> Ack]
      BY <2>3, <3>2 DEF WriteSynced, IndInv, TablesOK
    <3> QED BY <2>3, <3>3 DEF WriteSynced, IndInv, DiskOK, disk
  <2> QED BY <2>1, <2>2, <2>3
<1>4. TablesOK' /\ DiskOK' /\ NetOK'
  BY <1>1, <1>3 DEF IndInv, TablesOK, DiskOK, NetOK, Served
<1>5. loop' \in [Conn -> Write] /\ \A l \in Conn : loop'[l] \in {NoWrite, loop[l]}
  BY <1>1, LoopIdles DEF IndInv
<1>6. Tame
  BY <1>1, <1>2, <1>3, <1>5, SameIsTame DEF Tame
<1>7. JobsOK'
  BY <1>1, <1>2, JobsStay DEF IndInv
<1> QED BY <1>1, <1>4, <1>5, <1>6, <1>7, SameIsTame, TypesNow, TameSteps

-----------------------------------------------------------------------------
(* Requests *)

LEMMA AcksStay ==
    ASSUME TablesOK, NEW m, NEW o
    PROVE  StillServed(m, o) \in [Client -> Ack]
<1>1. NoAck \in Ack /\ acked \in [Client -> Ack]
  BY SetsAssumption DEF TablesOK, NoAck, Ack
<1> QED BY <1>1 DEF StillServed

\* A step that changes the mount tables, rows, splinter names and one job at most.
LEMMA TablesStepKeeps ==
    ASSUME IndInv, TablesOK', JobsOK',
           \A q \in Proc : job'[q].pc = "rename" => job'[q] = job[q],
           rows' \in [Client -> Image \cup {NoImage}],
           splinterFile' \in [Client -> DOMAIN files \cup {0}],
           \A c \in Client : splinterFile'[c] \in {0, splinterFile[c]},
           UNCHANGED <<files, masterFile, scratches, connections, client, socket, sds, drives,
                       loop>>
    PROVE  IndInv'
<1>1. DiskOK' /\ NetOK'
  BY DEF IndInv, DiskOK, NetOK, Served
<1>2. Tame
  BY SameIsTame DEF Tame, Grows
<1> QED BY <1>1, <1>2, SameIsTame, TypesNow, TameSteps

LEMMA OperatorKeeps ==
    ASSUME IndInv,
           \/ \E f \in Image, readonly \in BOOLEAN : OperatorMount(f, readonly)
           \/ OperatorUnmount
    PROVE  IndInv'
<1>1. /\ UNCHANGED <<overrides, files, masterFile, splinterFile, scratches, rows, connections,
                     client, socket, sds, drives, loop, job, stamps>>
  BY DEF OperatorMount, OperatorUnmount, disk, net, session, bounds
<1>2. TablesOK'
  <2>1. CASE OperatorUnmount
    BY <2>1 DEF OperatorUnmount, IndInv, TablesOK, bounds, NotMounted, MountEntry
  <2>2. CASE \E f \in Image, readonly \in BOOLEAN : OperatorMount(f, readonly)
    <3>1. PICK f \in Image, readonly \in BOOLEAN : OperatorMount(f, readonly)
      BY <2>2
    <3>2. acked' = StillServed(mounts', overrides)
      BY <3>1 DEF OperatorMount
    <3>3. acked' \in [Client -> Ack]
      BY <3>2, AcksStay DEF IndInv
    <3>4. /\ mounts' = [filename |-> f, epoch |-> epoch + 1, readonly |-> readonly]
          /\ epoch' = epoch + 1 /\ requests' = requests + 1 /\ requests < MaxRequests
          /\ UNCHANGED <<overrides, stamps>>
      BY <3>1 DEF OperatorMount
    <3> HIDE DEF IndInv
    <3> QED BY <3>3, <3>4, SetsAssumption DEF IndInv, TablesOK, MountEntry
  <2> QED BY <2>1, <2>2
<1>3. JobsOK'
  BY <1>1, JobsStay DEF IndInv, Grows
<1> QED BY <1>1, <1>2, <1>3, TablesStepKeeps DEF IndInv, DiskOK

\* What a request begins with.
LEMMA NewRequest ==
    ASSUME IndInv, NEW r \in Req, Request(r)
    PROVE  r \in Proc /\ requests' \in 0 .. MaxRequests
BY SetsAssumption DEF Request, IndInv, TablesOK, Proc

LEMMA NewJobFits ==
    ASSUME IndInv, NEW r \in Req, NEW c \in Client, NEW j,
           \/ j = [NoJob EXCEPT !.pc = "sync", !.kind = "client", !.client = c]
           \/ j = [NoJob EXCEPT !.pc = "forget", !.kind = "forget", !.client = c,
                                !.base = rows[c]]
           \/ /\ j = [NoJob EXCEPT !.pc = "check", !.kind = "commit", !.client = c,
                                   !.base = rows[c]]
              /\ rows[c] # NoImage
    PROVE  j \in Job /\ Fits(r, j) /\ j.pc # "rename"
<1>1. NoJob \in Job /\ NoJob.entry = NoEntry
  BY NoJobFits DEF NoJob
<1>2. rows[c] \in Image \cup {NoImage}
  BY DEF IndInv, DiskOK
<1>3. j \in Job /\ j.entry = NoEntry /\ j.client = c
      /\ j.pc \in {"sync", "forget", "check"} /\ j.kind \in Kind \ {"connect"}
      /\ (j.pc = "check" => j.base \in Image)
  BY <1>1, <1>2, ZenonT(60) DEF Job, Pc, Kind
<1> QED BY <1>3 DEF Fits

LEMMA RequestsKeep ==
    ASSUME IndInv, NEW r \in Req, NEW c \in Client,
           \/ \E f \in Image : SetClientDrive(r, c, f)
           \/ ClearClientDrive(r, c)
           \/ ForgetClient(r, c)
           \/ CommitClientSplinter(r, c)
    PROVE  IndInv'
<1>1. /\ UNCHANGED <<mounts, files, masterFile, splinterFile, scratches, rows, connections,
                     client, socket, sds, drives, loop, stamps>>
      /\ Request(r)
  BY DEF SetClientDrive, ClearClientDrive, ForgetClient, CommitClientSplinter, tables, disk,
         net, session
<1>2. Grows
  BY <1>1 DEF Grows
<1>3. PICK j :
        /\ Go(r, j)
        /\ \/ j = [NoJob EXCEPT !.pc = "sync", !.kind = "client", !.client = c]
           \/ j = [NoJob EXCEPT !.pc = "forget", !.kind = "forget", !.client = c,
                                !.base = rows[c]]
           \/ /\ j = [NoJob EXCEPT !.pc = "check", !.kind = "commit", !.client = c,
                                   !.base = rows[c]]
              /\ rows[c] # NoImage
  BY DEF SetClientDrive, ClearClientDrive, ForgetClient, CommitClientSplinter
<1>4. JobsOK' /\ \A q \in Proc : job'[q].pc = "rename" => job'[q] = job[q]
  <2>1. j \in Job /\ Fits(r, j) /\ j.pc # "rename"
    BY <1>3, NewJobFits
  <2> QED BY <1>1, <1>2, <1>3, <2>1, NewRequest, JobGoesOn
<1>5. /\ acked' \in [Client -> Ack] /\ epoch' \in Nat
      /\ overrides' \in [Client -> MountEntry]
      /\ \A d \in Client : overrides'[d] # NotMounted => overrides'[d].filename \in Image
  <2>1. CASE \E f \in Image : SetClientDrive(r, c, f)
    <3>1. PICK f \in Image :
            /\ overrides' = [overrides EXCEPT ![c] =
                               [filename |-> f, epoch |-> epoch + 1, readonly |-> FALSE]]
            /\ epoch' = epoch + 1
            /\ acked' = StillServed(mounts, overrides')
      BY <2>1 DEF SetClientDrive
    <3>2. acked' \in [Client -> Ack]
      BY <3>1, AcksStay DEF IndInv
    <3>3. PICK m : m = [filename |-> f, epoch |-> epoch + 1, readonly |-> FALSE]
      OBVIOUS
    <3>4. /\ overrides' \in [Client -> MountEntry]
          /\ \A d \in Client : overrides'[d] # NotMounted => overrides'[d].filename \in Image
      <4>1. m \in MountEntry /\ m.filename \in Image
        BY <3>3 DEF IndInv, TablesOK, MountEntry
      <4>2. overrides' = [overrides EXCEPT ![c] = m]
        BY <3>1, <3>3
      <4> QED BY <4>1, <4>2 DEF IndInv, TablesOK
    <3>5. epoch' \in Nat
      BY <3>1 DEF IndInv, TablesOK
    <3> QED BY <3>2, <3>4, <3>5
  <2>2. CASE ClearClientDrive(r, c)
    <3>1. /\ overrides' = [overrides EXCEPT ![c] = NotMounted]
          /\ epoch' = epoch
          /\ acked' = StillServed(mounts, overrides')
      BY <2>2 DEF ClearClientDrive
    <3>2. acked' \in [Client -> Ack]
      BY <3>1, AcksStay DEF IndInv
    <3> QED BY <3>1, <3>2 DEF IndInv, TablesOK, MountEntry, NotMounted
  <2>3. CASE ForgetClient(r, c) \/ CommitClientSplinter(r, c)
    BY <2>3 DEF ForgetClient, CommitClientSplinter, IndInv, TablesOK, tables
  <2> QED BY <2>1, <2>2, <2>3
<1>6. TablesOK'
  BY <1>1, <1>5, NewRequest DEF IndInv, TablesOK
<1> QED BY <1>1, <1>4, <1>6, TablesStepKeeps DEF IndInv, DiskOK

\* What a request does when it has been let on.
LEMMA RequestStepsKeep ==
    ASSUME IndInv, NEW r \in Req, Forgotten(r) \/ CommitChecked(r) \/ Reloaded(r)
    PROVE  IndInv'
<1>1. /\ UNCHANGED <<files, masterFile, scratches, connections,
                     client, socket, sds, drives, loop, requests, stamps>>
      /\ r \in Proc
  BY DEF Forgotten, CommitChecked, Reloaded, disk, net, session, bounds, Proc
<1>2. Grows
  BY <1>1 DEF Grows
<1>3. JobsOK' /\ \A q \in Proc : job'[q].pc = "rename" => job'[q] = job[q]
  <2>1. CASE Go(r, NoJob)
    <3>1. NoJob \in Job /\ Fits(r, NoJob) /\ NoJob.pc # "rename"
      BY <1>1, NoJobFits DEF NoJob
    <3> QED BY <1>1, <1>2, <2>1, <3>1, JobGoesOn
  <2>2. CASE Go(r, [job[r] EXCEPT !.pc = "sync"])
    BY <1>1, <1>2, <2>2, PcGoes
  <2>3. CASE Go(r, [job[r] EXCEPT !.pc = "copy"]) /\ job[r].pc = "check"
    BY <1>1, <1>2, <2>3, PcGoes
  <2> QED BY <2>1, <2>2, <2>3 DEF Forgotten, CommitChecked, Reloaded, At, Done
<1>4. /\ TablesOK'
      /\ rows' \in [Client -> Image \cup {NoImage}]
      /\ splinterFile' \in [Client -> DOMAIN files \cup {0}]
      /\ \A c \in Client : splinterFile'[c] \in {0, splinterFile[c]}
  <2>1. CASE Forgotten(r)
    <3> DEFINE c == job[r].client
    <3>1. /\ c \in Client
          /\ overrides' = [overrides EXCEPT ![c] = NotMounted]
          /\ acked' = [StillServed(mounts, overrides') EXCEPT ![c] = NoAck]
          /\ UNCHANGED <<mounts, epoch>>
      BY <2>1, <1>1, TypesNow DEF Forgotten, At, Fits
    <3>2. StillServed(mounts, overrides') \in [Client -> Ack] /\ NoAck \in Ack
      BY AcksStay, SetsAssumption DEF IndInv, NoAck, Ack
    <3>3. /\ rows' \in [Client -> Image \cup {NoImage}]
          /\ splinterFile' \in [Client -> DOMAIN files \cup {0}]
          /\ \A d \in Client : splinterFile'[d] \in {0, splinterFile[d]}
      BY <2>1, <3>1 DEF Forgotten, IndInv, DiskOK
    <3>4. acked' \in [Client -> Ack]
      BY <3>1, <3>2
    <3>5. NotMounted \in MountEntry
      BY DEF NotMounted, MountEntry
    <3>6. TablesOK'
      BY <1>1, <3>1, <3>4, <3>5 DEF IndInv, TablesOK
    <3> QED BY <3>3, <3>6
  <2>2. CASE CommitChecked(r)
    BY <2>2 DEF CommitChecked, IndInv, TablesOK, DiskOK, tables, disk, bounds
  <2>3. CASE Reloaded(r)
    <3>1. /\ UNCHANGED <<overrides, rows, splinterFile, acked>>
          /\ IF mounts.filename = job[r].base
             THEN mounts' = [mounts EXCEPT !.epoch = epoch + 1] /\ epoch' = epoch + 1
             ELSE UNCHANGED <<mounts, epoch>>
      BY <2>3 DEF Reloaded, disk
    <3>2. /\ mounts' \in MountEntry /\ epoch' \in Nat
          /\ mounts' # NotMounted => mounts'.filename \in Image
      <4>1. CASE mounts.filename = job[r].base /\ mounts # NotMounted
        BY <3>1, <4>1 DEF IndInv, TablesOK, MountEntry
      <4>2. CASE mounts.filename # job[r].base
        BY <3>1, <4>2 DEF IndInv, TablesOK
      <4>3. CASE mounts.filename = job[r].base /\ mounts = NotMounted
        <5>1. job[r].base \in Image
          BY <1>1, <2>3, TypesNow DEF Reloaded, At, Fits
        <5> QED BY <4>3, <5>1, NamesAssumption DEF NotMounted
      <4> QED BY <4>1, <4>2, <4>3
    <3> QED BY <1>1, <3>1, <3>2 DEF IndInv, TablesOK, DiskOK
  <2> QED BY <2>1, <2>2, <2>3
<1> QED BY <1>1, <1>3, <1>4, TablesStepKeeps

LEMMA RestartKeeps ==
    ASSUME IndInv, Restart
    PROVE  IndInv'
<1>1. /\ UNCHANGED <<overrides, epoch, files, masterFile, splinterFile, rows, client, stamps, acked>>
      /\ mounts' = NotMounted /\ scratches' = {} /\ connections' = << >>
      /\ requests' = requests + 1 /\ requests < MaxRequests
      /\ socket' = [k \in Conn |-> IF socket[k] = "new" THEN "new" ELSE "closed"]
      /\ sds' = [i \in DOMAIN sds |-> [sds[i] EXCEPT !.open = FALSE]]
      /\ drives' = [k \in Conn |-> 0]
      /\ loop' = [k \in Conn |-> NoWrite]
      /\ job' = [p \in Proc |-> NoJob]
  BY DEF Restart
<1>2. sds' \in Seq(SessionDrive) /\ SameFiles
  <2>1. /\ DOMAIN sds = 1 .. Len(sds) /\ Len(sds) \in Nat
        /\ \A i \in 1 .. Len(sds) : sds[i] \in SessionDrive
    BY TypesNow, LenProperties, ElementOfSeq
  <2>2. \A i \in 1 .. Len(sds) : [sds[i] EXCEPT !.open = FALSE] \in SessionDrive
    BY <2>1 DEF SessionDrive
  <2>3. sds' = [i \in 1 .. Len(sds) |-> [sds[i] EXCEPT !.open = FALSE]]
    BY <1>1, <2>1
  <2>4. sds' \in Seq(SessionDrive)
    BY <2>1, <2>2, <2>3, SeqDef
  <2> QED BY <2>1, <2>3, <2>4 DEF SameFiles, SessionDrive
<1>3. Grows
  BY <1>1, <1>2 DEF Grows, SameFiles, IndInv, NetOK
<1>4. JobsOK'
  <2>1. NoJob \in Job
    BY NoJobFits
  <2>2. \A p \in Proc : job'[p].pc = "idle" /\ job'[p].kind = "none" /\ job'[p].entry = NoEntry
    BY <1>1 DEF NoJob
  <2> QED BY <1>1, <2>1, <2>2 DEF JobsOK, Fits
<1>5. TablesOK'
  BY <1>1, SetsAssumption DEF IndInv, TablesOK, NotMounted, MountEntry
<1>6. DiskOK' /\ NetOK'
  BY <1>1, EmptySeq DEF IndInv, DiskOK, NetOK, Served
<1>7. loop' \in [Conn -> Write]
  BY <1>1, SetsAssumption DEF NoWrite, Write, LoopPc
<1>8. Tame
  BY <1>1, <1>2, <1>3 DEF Tame, NoJob, IndInv, DiskOK
<1> QED BY <1>1, <1>2, <1>4, <1>5, <1>6, <1>7, <1>8, TameSteps, TypesNow

-----------------------------------------------------------------------------
(* Steps that give a file, a drive or a loop what it did not have *)

\* A drive that shows what its session may show gets into the session's map.
LEMMA AttachKeeps ==
    ASSUME IndInv, NEW p \in Proc, NEW file \in DOMAIN files, NEW rw \in BOOLEAN, NEW scratch \in Nat,
           job[p].pc \in {"reattach", "open"}, Attach(p, file, rw, scratch),
           UNCHANGED <<tables, disk, net, loop, bounds, acked>>,
           \A own, user : Labels(own, user) =>
               own[file] = IF scratch = 0 THEN Public ELSE Owner(job[p].conn)
    PROVE  IndInv'
<1>0. PICK conn, n : conn = job[p].conn /\ n = Len(sds) + 1
  OBVIOUS
<1> DEFINE sd == [file |-> file, rw |-> rw, open |-> TRUE, master |-> job[p].entry.filename,
                  baseVersion |-> job[p].entry.version, scratch |-> scratch]
<1>1. UNCHANGED <<mounts, overrides, epoch, files, masterFile, splinterFile, scratches, rows,
                  connections, client, socket, loop, requests, stamps, acked>>
  BY DEF tables, disk, net, bounds
<1>2. /\ job[p] \in Job /\ conn \in Conn /\ socket[conn] # "new" /\ job[p].entry.filename \in Image
  BY <1>0, TypesNow DEF Fits
<1>3. sd \in SessionDrive
  <2>1. DOMAIN files \subseteq Nat \ {0}
    BY LenProperties DEF IndInv, DiskOK
  <2> QED BY <1>2, <2>1 DEF SessionDrive, Job, Entry
<1>4. /\ sds' = Append(sds, sd) /\ drives' = [drives EXCEPT ![conn] = n]
      /\ Go(p, [job[p] EXCEPT !.pc = "sync"])
  BY <1>0 DEF Attach
<1> HIDE DEF sd
<1>5. /\ sds' \in Seq(SessionDrive)
      /\ DOMAIN sds' = DOMAIN sds \cup {n} /\ n \notin DOMAIN sds /\ n \in Nat \ {0}
      /\ sds'[n] = sd /\ \A i \in DOMAIN sds : sds'[i] = sds[i]
  <2>1. sds \in Seq(SessionDrive)
    BY TypesNow
  <2> QED BY <1>0, <1>3, <1>4, <2>1, AppendTo
<1>6. Grows
  BY <1>1, <1>5 DEF Grows
<1>7. JobsOK' /\ \A q \in Proc : job'[q].pc = "rename" => job'[q] = job[q]
  BY <1>4, <1>6, PcGoes
<1>8. drives' \in [Conn -> DOMAIN sds' \cup {0}]
      /\ \A k \in Conn : drives'[k] = IF k = conn THEN n ELSE drives[k]
  BY <1>2, <1>4, <1>5, TypesNow
<1>9. DrivesOK'
  BY <1>1, <1>5, <1>8 DEF sd, IndInv, DrivesOK
<1>10. TablesOK' /\ DiskOK' /\ NetOK'
  BY <1>1 DEF IndInv, TablesOK, DiskOK, NetOK, Served
<1>11. LoopsOK'
  BY <1>1, <1>5 DEF IndInv, LoopsOK
<1>12. Labelled'
  <2>1. PICK own, user : Labels(own, user)
    BY DEF IndInv, Labelled
  <2>2. PICK user2 : /\ user2 \in [DOMAIN sds' -> Conn] /\ user2[n] = conn
                     /\ \A i \in DOMAIN sds : user2[i] = user[i]
    <3>1. /\ [i \in DOMAIN sds' |-> IF i = n THEN conn ELSE user[i]] \in [DOMAIN sds' -> Conn]
          /\ [i \in DOMAIN sds' |-> IF i = n THEN conn ELSE user[i]][n] = conn
          /\ \A i \in DOMAIN sds :
                [m \in DOMAIN sds' |-> IF m = n THEN conn ELSE user[m]][i] = user[i]
      BY <1>2, <1>5, <2>1 DEF Labels
    <3> QED BY <3>1
  <2>3. FilesLabelled(own)'
    BY <1>1, <1>7, <2>1 DEF Labels, FilesLabelled
  <2>4. own[file] = IF scratch = 0 THEN Public ELSE Owner(conn)
    BY <1>0, <2>1
  <2>5. \A k \in Conn : Owner(k)' = Owner(k)
    BY <1>1 DEF Owner
  <2>6. DrivesLabelled(own, user2)'
    <3>1. ASSUME NEW i \in DOMAIN sds
          PROVE  /\ socket'[user2[i]] # "new"
                 /\ own[sds'[i].file] = IF sds'[i].scratch = 0 THEN Public ELSE Owner(user2[i])'
      <4>1. user[i] \in Conn
        BY <2>1 DEF Labels
      <4> QED BY <1>1, <1>5, <2>1, <2>2, <2>5, <4>1 DEF Labels, DrivesLabelled
    <3>2. /\ socket'[user2[n]] # "new"
          /\ own[sds'[n].file] = IF sds'[n].scratch = 0 THEN Public ELSE Owner(user2[n])'
      BY <1>1, <1>2, <1>5, <2>2, <2>4, <2>5 DEF sd
    <3>3. ASSUME NEW k \in Conn, drives'[k] # 0 PROVE user2[drives'[k]] = k
      <4>1. CASE k = conn
        BY <1>8, <2>2, <4>1
      <4>2. CASE k # conn
        <5>1. drives'[k] = drives[k] /\ drives[k] \in DOMAIN sds
          BY <1>8, <3>3, <4>2, TypesNow
        <5> QED BY <2>1, <2>2, <3>3, <5>1 DEF Labels, DrivesLabelled
      <4> QED BY <4>1, <4>2
    <3> QED BY <1>5, <3>1, <3>2, <3>3 DEF DrivesLabelled
  <2>7. LoopsLabelled(own, user2)'
    BY <1>1, <2>1, <2>2, <2>5 DEF Labels, LoopsLabelled, WritesMaster, IndInv, LoopsOK
  <2>8. Labels(own, user2)'
    BY <1>1, <2>1, <2>2, <2>3, <2>6, <2>7 DEF Labels
  <2> QED BY <2>8 DEF Labelled
<1> QED BY <1>7, <1>9, <1>10, <1>11, <1>12 DEF IndInv

LEMMA ReattachedKeeps ==
    ASSUME IndInv, NEW p \in Proc, Reattached(p)
    PROVE  IndInv'
<1> DEFINE conn == job[p].conn
           file == splinterFile[client[conn]]
<1>1. /\ job[p].pc = "reattach" /\ file # 0 /\ Attach(p, file, TRUE, file)
      /\ UNCHANGED <<tables, disk, net, loop, bounds, acked>>
  BY DEF Reattached, At, Exists
<1>2. Persistent(conn) /\ conn \in Conn /\ client[conn] \in Client
  BY <1>1, TypesNow DEF Fits, Persistent, IndInv, NetOK
<1>3. file \in DOMAIN files /\ DOMAIN files \subseteq Nat
  BY <1>1, <1>2, LenProperties DEF IndInv, DiskOK
<1>4. ASSUME NEW own, NEW user, Labels(own, user)
      PROVE  own[file] = Owner(conn)
  BY <1>1, <1>2, <1>4 DEF Labels, FilesLabelled, Owner, Persistent
<1> QED BY <1>1, <1>3, <1>4, AttachKeeps

LEMMA MasterOpenedKeeps ==
    ASSUME IndInv, NEW p \in Proc, MasterOpened(p)
    PROVE  IndInv'
<1> DEFINE file == masterFile[job[p].entry.filename]
           rw == WritesMaster(job[p].conn)
<1>1. /\ job[p].pc = "open" /\ Attach(p, file, rw, 0)
      /\ UNCHANGED <<tables, disk, net, loop, bounds, acked>>
  BY DEF MasterOpened, At
<1>2. job[p].entry.filename \in Image
  BY <1>1, TypesNow DEF Fits
<1>3. file \in DOMAIN files /\ rw \in BOOLEAN
  BY <1>2 DEF IndInv, DiskOK, WritesMaster
<1>4. ASSUME NEW own, NEW user, Labels(own, user)
      PROVE  own[file] = Public
  BY <1>2, <1>4 DEF Labels, FilesLabelled
<1> QED BY <1>1, <1>3, <1>4, AttachKeeps

LEMMA WriteTrackKeeps ==
    ASSUME IndInv, NEW k \in Conn, WriteTrack(k)
    PROVE  IndInv'
<1> DEFINE sd == drives[k]
<1>1. /\ UNCHANGED <<mounts, overrides, epoch, files, masterFile, splinterFile, scratches, rows,
                     connections, client, socket, sds, drives, job, requests, acked>>
      /\ sd # 0 /\ stamps < MaxWrites /\ stamps' = stamps + 1
  BY DEF WriteTrack, tables, disk, net, session
<1>2. /\ sd \in DOMAIN sds /\ sds[sd].file \in DOMAIN files /\ sds[sd] \in SessionDrive
      /\ DOMAIN sds \subseteq Nat /\ DOMAIN files \subseteq Nat
  BY <1>1, TypesNow, LenProperties, ElementOfSeq DEF IndInv, DrivesOK, DiskOK
<1>3. stamps' \in 0 .. MaxWrites /\ stamps + 1 \in 0 .. MaxWrites
  BY <1>1, SetsAssumption DEF IndInv, TablesOK
<1>4. PICK w \in Write : /\ loop' = [loop EXCEPT ![k] = w]
                         /\ w.sd = sd
                         /\ \/ w.pc = "copy" /\ Forks(k, sd)
                            \/ w.pc = "write" /\ ~Forks(k, sd) /\ w.file = sds[sd].file
  <2>1. ASSUME NEW pc \in {"copy", "write"}
        PROVE  /\ Writing(k, pc, sd) \in Write
               /\ Writing(k, pc, sd).pc = pc /\ Writing(k, pc, sd).sd = sd
               /\ pc = "write" => Writing(k, pc, sd).file = sds[sd].file
    BY <1>2, <1>3 DEF Writing, Write, NoWrite, LoopPc
  <2>2. CASE Forks(k, sd)
    BY <2>1, <2>2 DEF WriteTrack
  <2>3. CASE ~Forks(k, sd)
    BY <2>1, <2>3 DEF WriteTrack
  <2> QED BY <2>2, <2>3
<1>5. TablesOK' /\ DiskOK' /\ NetOK' /\ DrivesOK'
  BY <1>1, <1>3 DEF IndInv, TablesOK, DiskOK, NetOK, DrivesOK, Served
<1>6. JobsOK'
  BY <1>1, JobsStay DEF IndInv, Grows
<1>7. LoopsOK'
  BY <1>1, <1>2, <1>4 DEF IndInv, LoopsOK
<1>8. Labelled'
  <2>1. PICK own, user : Labels(own, user)
    BY DEF IndInv, Labelled
  <2>2. \A l \in Conn : Owner(l)' = Owner(l) /\ WritesMaster(l)' = WritesMaster(l)
    BY <1>1 DEF Owner, WritesMaster
  <2>3. FilesLabelled(own)'
    BY <1>1, <2>1 DEF Labels, FilesLabelled
  <2>4. DrivesLabelled(own, user)'
    BY <1>1, <2>1, <2>2 DEF Labels, DrivesLabelled
  <2>5. user[sd] = k /\ (sds[sd].scratch # 0 => own[sds[sd].file] = Owner(k))
    BY <1>1, <1>2, <2>1 DEF Labels, DrivesLabelled
  <2>6. LoopsLabelled(own, user)'
    BY <1>4, <2>1, <2>2, <2>5 DEF Labels, LoopsLabelled, Forks, IndInv, LoopsOK
  <2>7. Labels(own, user)'
    BY <1>1, <2>1, <2>3, <2>4, <2>6 DEF Labels
  <2> QED BY <2>7 DEF Labelled
<1> QED BY <1>5, <1>6, <1>7, <1>8 DEF IndInv

\* A new file gets its label; the old ones keep theirs.
LEMMA LabelNewFile ==
    ASSUME NEW own, NEW o \in Owners, NEW e \in File, files \in Seq(File),
           own \in [DOMAIN files -> Owners], files' = Append(files, e)
    PROVE  \E own2 : /\ own2 \in [DOMAIN files' -> Owners]
                     /\ own2[Len(files) + 1] = o
                     /\ \A i \in DOMAIN files : own2[i] = own[i]
<1>1. DOMAIN files' = DOMAIN files \cup {Len(files) + 1} /\ Len(files) + 1 \notin DOMAIN files
  BY AppendTo
<1>2. PICK own2 : own2 = [i \in DOMAIN files' |-> IF i = Len(files) + 1 THEN o ELSE own[i]]
  OBVIOUS
<1>3. /\ own2 \in [DOMAIN files' -> Owners]
      /\ own2[Len(files) + 1] = o
      /\ \A i \in DOMAIN files : own2[i] = own[i]
  BY <1>1, <1>2
<1> QED BY <1>3

LEMMA CommitCopiedKeeps ==
    ASSUME IndInv, NEW r \in Req, CommitCopied(r)
    PROVE  IndInv'
<1>1. /\ UNCHANGED <<mounts, overrides, epoch, masterFile, splinterFile, scratches, rows,
                     connections, client, socket, sds, drives, loop, requests, stamps, acked>>
      /\ job[r].pc = "copy" /\ r \in Proc
  BY DEF CommitCopied, tables, net, session, bounds, At, Proc
<1>2. CASE ~Exists(splinterFile[job[r].client])
  <2>1. Go(r, NoJob) /\ UNCHANGED files
    BY <1>2 DEF CommitCopied, Done
  <2>2. NoJob \in Job /\ Fits(r, NoJob) /\ NoJob.pc # "rename" /\ Grows
    BY <1>1, <2>1, NoJobFits DEF NoJob, Grows
  <2>3. JobsOK' /\ \A q \in Proc : job'[q].pc = "rename" => job'[q] = job[q]
    BY <1>1, <2>1, <2>2, JobGoesOn
  <2>4. TablesOK'
    BY <1>1 DEF IndInv, TablesOK
  <2> QED BY <1>1, <2>1, <2>3, <2>4, TablesStepKeeps DEF IndInv, DiskOK
<1>3. CASE Exists(splinterFile[job[r].client])
  <2> DEFINE from == splinterFile[job[r].client]
             e == [files[from] EXCEPT !.author = Public]
  <2>1. PICK n : n = Len(files) + 1
    OBVIOUS
  <2>2. PICK j : j = [job[r] EXCEPT !.pc = "rename", !.tmp = n]
    OBVIOUS
  <2>3. files' = Append(files, e) /\ Go(r, j)
    BY <1>3, <2>1, <2>2 DEF CommitCopied
  <2>4. e \in File
    <3>1. job[r].client \in Client
      BY <1>1, TypesNow DEF Fits
    <3>2. from \in DOMAIN files
      BY <1>3, <3>1 DEF Exists, IndInv, DiskOK
    <3>3. files[from] \in File
      BY <3>2, LenProperties, ElementOfSeq DEF IndInv, DiskOK
    <3> QED BY <3>3 DEF File
  <2> HIDE DEF e
  <2>5. /\ files \in Seq(File) /\ files' \in Seq(File)
        /\ DOMAIN files' = DOMAIN files \cup {n} /\ n \notin DOMAIN files /\ n \in Nat
        /\ files'[n] = e /\ \A i \in DOMAIN files : files'[i] = files[i]
    <3>1. files \in Seq(File)
      BY DEF IndInv, DiskOK
    <3> QED BY <2>1, <2>3, <2>4, <3>1, AppendTo
  <2>6. Grows
    BY <1>1, <2>5 DEF Grows
  <2>7. j \in Job /\ Fits(r, j)' /\ j.pc = "rename" /\ j.tmp = n
    <3>1. job[r] \in Job /\ Fits(r, job[r])
      BY <1>1, TypesNow
    <3>2. j \in Job /\ j.pc = "rename" /\ j.tmp = n /\ j.kind = job[r].kind
          /\ j.entry = job[r].entry /\ j.client = job[r].client /\ j.base = job[r].base
      BY <2>2, <2>5, <3>1 DEF Job, Pc
    <3>3. /\ j.kind = "connect" => r \in Conn /\ socket[r] # "new"
          /\ j.entry # NoEntry => j.entry.filename \in Image
          /\ j.client \in Client /\ j.base \in Image
      BY <1>1, <3>1, <3>2 DEF Fits
    <3> QED BY <1>1, <2>5, <3>2, <3>3 DEF Fits
  <2>8. JobsOK' /\ job'[r] = j /\ \A q \in Proc : q # r => job'[q] = job[q]
    BY <1>1, <2>3, <2>6, <2>7, JobGoes DEF IndInv
  <2>9. TablesOK' /\ DiskOK' /\ NetOK' /\ DrivesOK' /\ LoopsOK'
    BY <1>1, <2>5 DEF IndInv, TablesOK, DiskOK, NetOK, DrivesOK, LoopsOK, Served
  <2>10. Labelled'
    <3>1. PICK own, user : Labels(own, user)
      BY DEF IndInv, Labelled
    <3>2. PICK own2 : /\ own2 \in [DOMAIN files' -> Owners]
                      /\ own2[n] = Public
                      /\ \A i \in DOMAIN files : own2[i] = own[i]
      <4>1. own \in [DOMAIN files -> Owners] /\ Public \in Owners
        BY <3>1 DEF Labels, Owners
      <4>2. files \in Seq(File) /\ files' = Append(files, e) /\ e \in File
        BY <2>3, <2>4, <2>5
      <4>3. \E own2 : /\ own2 \in [DOMAIN files' -> Owners]
                      /\ own2[Len(files) + 1] = Public
                      /\ \A i \in DOMAIN files : own2[i] = own[i]
        BY <4>1, <4>2, LabelNewFile
      <4> QED BY <2>1, <4>3
    <3>3. \A k \in Conn : Owner(k)' = Owner(k) /\ WritesMaster(k)' = WritesMaster(k)
      BY <1>1 DEF Owner, WritesMaster
    <3>4. FilesLabelled(own2)'
      <4>1. \A i \in DOMAIN files' : files'[i].author \in {own2[i], Public}
        <5>1. e.author = Public
          BY <2>4 DEF e, File
        <5>2. \A i \in DOMAIN files : files[i].author \in {own[i], Public}
          BY <3>1 DEF Labels, FilesLabelled
        <5>3. ASSUME NEW i \in DOMAIN files PROVE files'[i].author \in {own2[i], Public}
          BY <2>5, <3>2, <5>2
        <5>4. files'[n].author \in {own2[n], Public}
          BY <2>5, <5>1
        <5> QED BY <2>5, <5>3, <5>4
      <4>2. \A q \in Proc : job'[q].pc = "rename" => own2[job'[q].tmp] = Public
        <5>1. ASSUME NEW q \in Proc, q # r, job[q].pc = "rename"
              PROVE  own2[job[q].tmp] = Public
          <6>1. job[q].tmp \in DOMAIN files
            BY <5>1, TypesNow DEF Fits
          <6> QED BY <3>1, <3>2, <5>1, <6>1 DEF Labels, FilesLabelled
        <5> QED BY <2>7, <2>8, <3>2, <5>1
      <4>3. \A f \in Image : own2[masterFile[f]] = Public
        BY <3>1, <3>2 DEF Labels, FilesLabelled, IndInv, DiskOK
      <4>4. \A c \in Client : splinterFile[c] # 0 => own2[splinterFile[c]] = c
        BY <3>1, <3>2 DEF Labels, FilesLabelled, IndInv, DiskOK
      <4> QED BY <1>1, <4>1, <4>2, <4>3, <4>4 DEF FilesLabelled
    <3>5. DrivesLabelled(own2, user)'
      BY <1>1, <3>1, <3>2, <3>3 DEF Labels, DrivesLabelled, IndInv, DrivesOK
    <3>6. LoopsLabelled(own2, user)'
      BY <1>1, <3>1, <3>2, <3>3 DEF Labels, LoopsLabelled, IndInv, LoopsOK
    <3>7. Labels(own2, user)'
      BY <1>1, <3>1, <3>2, <3>4, <3>5, <3>6 DEF Labels
    <3> QED BY <3>7 DEF Labelled
  <2> QED BY <2>8, <2>9, <2>10 DEF IndInv
<1> QED BY <1>2, <1>3

LEMMA CommitRenamedKeeps ==
    ASSUME IndInv, NEW r \in Req, CommitRenamed(r)
    PROVE  IndInv'
<1>1. /\ UNCHANGED <<mounts, overrides, epoch, files, splinterFile, scratches, rows,
                     connections, client, socket, sds, drives, loop, requests, stamps, acked>>
      /\ job[r].pc = "rename" /\ r \in Proc
      /\ masterFile' = [masterFile EXCEPT ![job[r].base] = job[r].tmp]
      /\ \/ Go(r, [job[r] EXCEPT !.pc = "reload"])
         \/ Go(r, [job[r] EXCEPT !.pc = "sync"])
  BY DEF CommitRenamed, tables, net, session, bounds, At, Proc
<1>2. job[r].base \in Image /\ job[r].tmp \in DOMAIN files
  BY <1>1, TypesNow DEF Fits
<1>3. Grows
  BY <1>1 DEF Grows
<1>4. JobsOK' /\ \A q \in Proc : job'[q].pc = "rename" => job'[q] = job[q]
  BY <1>1, <1>3, PcGoes
<1>5. TablesOK' /\ DiskOK' /\ NetOK' /\ DrivesOK' /\ LoopsOK'
  BY <1>1, <1>2 DEF IndInv, TablesOK, DiskOK, NetOK, DrivesOK, LoopsOK, Served
<1>6. Labelled'
  <2>1. PICK own, user : Labels(own, user)
    BY DEF IndInv, Labelled
  <2>2. \A k \in Conn : Owner(k)' = Owner(k) /\ WritesMaster(k)' = WritesMaster(k)
    BY <1>1 DEF Owner, WritesMaster
  <2>3. \A f \in Image : own[masterFile'[f]] = Public
    BY <1>1, <1>2, <2>1 DEF Labels, FilesLabelled, IndInv, DiskOK
  <2>4. FilesLabelled(own)'
    BY <1>1, <1>4, <2>1, <2>3 DEF Labels, FilesLabelled
  <2>5. DrivesLabelled(own, user)' /\ LoopsLabelled(own, user)'
    BY <1>1, <2>1, <2>2 DEF Labels, DrivesLabelled, LoopsLabelled
  <2>6. Labels(own, user)'
    BY <1>1, <2>1, <2>4, <2>5 DEF Labels
  <2> QED BY <2>6 DEF Labelled
<1> QED BY <1>4, <1>5, <1>6 DEF IndInv

LEMMA WriteLandsKeeps ==
    ASSUME IndInv, NEW k \in Conn, WriteLands(k)
    PROVE  IndInv'
<1> DEFINE author == IF WritesMaster(k) THEN Public ELSE Owner(k)
           old == files[loop[k].file]
           e == [old EXCEPT !.stamp = loop[k].stamp, !.author = author]
<1>1. /\ UNCHANGED <<mounts, overrides, epoch, masterFile, splinterFile, scratches, rows,
                     connections, client, socket, sds, drives, job, requests, stamps, acked>>
      /\ loop[k].pc = "write"
      /\ files' = [files EXCEPT ![loop[k].file] = e]
      /\ loop' = [loop EXCEPT ![k].pc = "fsync"] \/ LoopIdle(k)
  BY DEF WriteLands, tables, net, session, bounds, LoopAt
<1>2. /\ loop[k] \in Write /\ loop[k].file \in DOMAIN files /\ files \in Seq(File)
      /\ old \in File
  <2>1. loop[k] \in Write /\ loop[k].file \in DOMAIN files /\ files \in Seq(File)
    BY <1>1 DEF IndInv, LoopsOK, DiskOK
  <2> QED BY <2>1, LenProperties, ElementOfSeq
<1>3. author \in Owners /\ e \in File /\ e.author = author
  <2>1. author \in Owners
    BY DEF IndInv, NetOK, Owner, Owners
  <2>2. loop[k].stamp \in 0 .. MaxWrites
    BY <1>2 DEF Write
  <2> QED BY <1>2, <2>1, <2>2 DEF File, Owners
<1> HIDE DEF e, author, old
<1>4. /\ files' \in Seq(File) /\ DOMAIN files' = DOMAIN files
      /\ \A i \in DOMAIN files : files'[i] = IF i = loop[k].file THEN e ELSE files[i]
  BY <1>1, <1>2, <1>3, UpdateOf
<1>5. /\ loop' \in [Conn -> Write]
      /\ \A l \in Conn : l # k => loop'[l] = loop[l]
      /\ \/ loop'[k] = NoWrite
         \/ loop'[k].pc = "fsync" /\ loop'[k].sd = loop[k].sd /\ loop'[k].file = loop[k].file
  <2>1. CASE LoopIdle(k)
    <3>1. loop' \in [Conn -> Write]
      BY <2>1, LoopIdles DEF IndInv
    <3> QED BY <2>1, <3>1, TypesNow DEF LoopIdle
  <2>2. CASE loop' = [loop EXCEPT ![k].pc = "fsync"]
    BY <1>2, <2>2, TypesNow DEF Write, LoopPc
  <2> QED BY <1>1, <2>1, <2>2
<1>6. TablesOK' /\ DiskOK' /\ NetOK' /\ DrivesOK'
  BY <1>1, <1>4 DEF IndInv, TablesOK, DiskOK, NetOK, DrivesOK, Served
<1>7. LoopsOK'
  BY <1>1, <1>4, <1>5 DEF IndInv, LoopsOK, NoWrite
<1>8. JobsOK'
  BY <1>1, <1>4, JobsStay DEF IndInv, Grows
<1>9. Labelled'
  <2>1. PICK own, user : Labels(own, user)
    BY DEF IndInv, Labelled
  <2>2. \A l \in Conn : Owner(l)' = Owner(l) /\ WritesMaster(l)' = WritesMaster(l)
    BY <1>1 DEF Owner, WritesMaster
  <2>3. author \in {own[loop[k].file], Public}
    BY <1>1, <2>1 DEF author, Labels, LoopsLabelled
  <2>4. FilesLabelled(own)'
    BY <1>1, <1>3, <1>4, <2>1, <2>3 DEF Labels, FilesLabelled
  <2>5. DrivesLabelled(own, user)'
    BY <1>1, <2>1, <2>2 DEF Labels, DrivesLabelled
  <2>6. LoopsLabelled(own, user)'
    BY <1>1, <1>5, <2>1, <2>2 DEF Labels, LoopsLabelled, NoWrite
  <2>7. Labels(own, user)'
    BY <1>1, <1>4, <2>1, <2>4, <2>5, <2>6 DEF Labels
  <2> QED BY <2>7 DEF Labelled
<1> QED BY <1>6, <1>7, <1>8, <1>9 DEF IndInv

\* The copy of an image belongs to the session that makes it.
LEMMA ForkCopiedKeeps ==
    ASSUME IndInv, NEW k \in Conn, ForkCopied(k)
    PROVE  IndInv'
<1> DEFINE old == IF Persistent(k) THEN splinterFile[client[k]] ELSE 0
<1>0. PICK new, e : new = (IF old = 0 THEN Len(files) + 1 ELSE old) /\ e = MasterOf(k)
  OBVIOUS
<1>1. /\ UNCHANGED <<mounts, overrides, epoch, masterFile, rows, connections, client, socket,
                     drives, job, requests, stamps, acked>>
      /\ loop[k].pc = "copy"
      /\ files' = IF old = 0 THEN Append(files, e) ELSE [files EXCEPT ![old] = e]
      /\ IF Persistent(k)
         THEN splinterFile' = [splinterFile EXCEPT ![client[k]] = new] /\ UNCHANGED scratches
         ELSE scratches' = scratches \cup {new} /\ UNCHANGED splinterFile
      /\ loop' = [loop EXCEPT ![k].pc = "reopen", ![k].file = new]
      /\ sds' = CloseRequested(loop[k].sd)
  BY <1>0 DEF ForkCopied, tables, net, bounds, LoopAt
<1>2. PICK own, user : Labels(own, user)
  BY DEF IndInv, Labelled
<1>3. /\ loop[k].sd \in DOMAIN sds /\ user[loop[k].sd] = k /\ ~WritesMaster(k)
      /\ Persistent(k) => client[k] \in Client
      /\ Owner(k) \in Owners
  BY <1>1, <1>2 DEF Labels, LoopsLabelled, IndInv, LoopsOK, NetOK, Persistent, Owner, Owners
<1>4. e \in File /\ e.author = Public /\ files \in Seq(File)
  <2>1. sds[loop[k].sd].master \in Image
    <3>1. sds[loop[k].sd] \in SessionDrive
      BY <1>3, TypesNow, LenProperties, ElementOfSeq
    <3> QED BY <3>1 DEF SessionDrive
  <2>2. masterFile[sds[loop[k].sd].master] \in DOMAIN files /\ files \in Seq(File)
    BY <2>1 DEF IndInv, DiskOK
  <2>3. e \in File
    BY <1>0, <2>2, LenProperties, ElementOfSeq DEF MasterOf
  <2> QED BY <1>0, <1>2, <2>1, <2>2, <2>3 DEF MasterOf, Labels, FilesLabelled
<1>5. /\ files' \in Seq(File) /\ DOMAIN files' = DOMAIN files \cup {new}
      /\ new \in Nat \ {0} /\ files'[new] = e
      /\ \A i \in DOMAIN files : i # new => files'[i] = files[i]
      /\ old # 0 => new \in DOMAIN files
      /\ old = 0 => new \notin DOMAIN files
  <2>0. DOMAIN files = 1 .. Len(files) /\ Len(files) \in Nat
    BY <1>4, LenProperties
  <2>1. CASE old = 0
    BY <1>0, <1>1, <1>4, <2>0, <2>1, AppendTo
  <2>2. CASE old # 0
    <3>1. old \in DOMAIN files /\ new = old
      BY <1>0, <1>3, <2>2 DEF IndInv, DiskOK
    <3>2. files' = [files EXCEPT ![old] = e]
      BY <1>1, <2>2
    <3>3. /\ files' \in Seq(File) /\ DOMAIN files' = DOMAIN files
          /\ \A i \in DOMAIN files : files'[i] = IF i = old THEN e ELSE files[i]
      BY <1>4, <3>1, <3>2, UpdateOf
    <3> QED BY <2>0, <2>2, <3>1, <3>3
  <2> QED BY <2>1, <2>2
<1>6. PICK own2 : /\ own2 \in [DOMAIN files' -> Owners]
                  /\ own2[new] = Owner(k)
                  /\ \A i \in DOMAIN files : own2[i] = own[i]
  <2>1. CASE old = 0
    <3>1. own \in [DOMAIN files -> Owners] /\ files' = Append(files, e) /\ new = Len(files) + 1
      BY <1>0, <1>1, <1>2, <2>1 DEF Labels
    <3> QED BY <1>3, <1>4, <3>1, LabelNewFile
  <2>2. CASE old # 0
    <3>1. /\ new \in DOMAIN files /\ DOMAIN files' = DOMAIN files /\ Persistent(k)
          /\ new = splinterFile[client[k]]
      BY <1>0, <1>5, <2>2
    <3>2. own \in [DOMAIN files' -> Owners] /\ own[new] = Owner(k)
      BY <1>2, <1>3, <2>2, <3>1 DEF Labels, FilesLabelled, Owner, Persistent
    <3> QED BY <3>2
  <2> QED BY <2>1, <2>2
<1>7. sds' \in Seq(SessionDrive) /\ SameFiles
  BY <1>1, <1>3, CloseKeepsDrives DEF IndInv
<1>8. /\ loop' \in [Conn -> Write]
      /\ \A l \in Conn : l # k => loop'[l] = loop[l]
      /\ loop'[k].pc = "reopen" /\ loop'[k].sd = loop[k].sd /\ loop'[k].file = new
  <2>1. loop[k] \in Write
    BY TypesNow
  <2>2. [loop[k] EXCEPT !.pc = "reopen", !.file = new] \in Write
    BY <1>5, <2>1 DEF Write, LoopPc
  <2>3. loop' = [loop EXCEPT ![k] = [loop[k] EXCEPT !.pc = "reopen", !.file = new]]
    BY <1>1
  <2> QED BY <2>1, <2>2, <2>3, TypesNow DEF Write
<1>9. TablesOK' /\ DrivesOK' /\ NetOK'
  BY <1>1, <1>5, <1>7 DEF IndInv, TablesOK, DrivesOK, NetOK, SameFiles, Served
<1>10. DiskOK'
  <2>1. /\ masterFile' \in [Image -> DOMAIN files'] /\ rows' \in [Client -> Image \cup {NoImage}]
        /\ splinterFile \in [Client -> DOMAIN files \cup {0}] /\ scratches \subseteq DOMAIN files
        /\ new \in DOMAIN files' /\ DOMAIN files \subseteq DOMAIN files'
    BY <1>1, <1>5 DEF IndInv, DiskOK
  <2>2. splinterFile' \in [Client -> DOMAIN files' \cup {0}] /\ scratches' \subseteq DOMAIN files'
    BY <1>1, <1>3, <2>1
  <2> QED BY <1>5, <2>1, <2>2 DEF DiskOK
<1>11. LoopsOK'
  BY <1>3, <1>5, <1>7, <1>8 DEF IndInv, LoopsOK, SameFiles
<1>12. JobsOK'
  <2>1. Grows
    BY <1>1, <1>5, <1>7 DEF Grows, SameFiles
  <2> QED BY <1>1, <2>1, JobsStay DEF IndInv
<1>13. Labelled'
  <2>1. \A l \in Conn : Owner(l)' = Owner(l) /\ WritesMaster(l)' = WritesMaster(l)
    BY <1>1 DEF Owner, WritesMaster
  <2>2. FilesLabelled(own2)'
    <3>1. \A i \in DOMAIN files' : files'[i].author \in {own2[i], Public}
      BY <1>2, <1>4, <1>5, <1>6 DEF Labels, FilesLabelled
    <3>2. \A f \in Image : own2[masterFile[f]] = Public
      BY <1>2, <1>6 DEF Labels, FilesLabelled, IndInv, DiskOK
    <3>3. ASSUME NEW c \in Client, splinterFile'[c] # 0 PROVE own2[splinterFile'[c]] = c
      <4>1. CASE Persistent(k) /\ c = client[k]
        <5>1. splinterFile'[c] = new /\ Owner(k) = c
          BY <1>1, <4>1 DEF IndInv, DiskOK, Owner, Persistent
        <5> QED BY <1>6, <5>1
      <4>2. CASE ~(Persistent(k) /\ c = client[k])
        <5>1. splinterFile'[c] = splinterFile[c] /\ splinterFile[c] \in DOMAIN files
          BY <1>1, <3>3, <4>2 DEF IndInv, DiskOK
        <5> QED BY <1>2, <1>6, <3>3, <5>1 DEF Labels, FilesLabelled
      <4> QED BY <4>1, <4>2
    <3>4. \A q \in Proc : job'[q].pc = "rename" => own2[job'[q].tmp] = Public
      BY <1>1, <1>2, <1>6, TypesNow DEF Labels, FilesLabelled, Fits
    <3> QED BY <1>1, <3>1, <3>2, <3>3, <3>4 DEF FilesLabelled
  <2>3. DrivesLabelled(own2, user)'
    <3>1. ASSUME NEW n \in DOMAIN sds
          PROVE  /\ socket'[user[n]] # "new"
                 /\ own2[sds'[n].file] = IF sds'[n].scratch = 0 THEN Public ELSE Owner(user[n])'
      <4>1. user[n] \in Conn /\ sds[n].file \in DOMAIN files
        BY <1>2 DEF Labels, IndInv, DrivesOK
      <4>2. sds'[n].file = sds[n].file /\ sds'[n].scratch = sds[n].scratch
        BY <1>7 DEF SameFiles
      <4>3. /\ socket[user[n]] # "new"
            /\ own[sds[n].file] = IF sds[n].scratch = 0 THEN Public ELSE Owner(user[n])
        BY <1>2 DEF Labels, DrivesLabelled
      <4> QED BY <1>1, <1>6, <2>1, <4>1, <4>2, <4>3
    <3> QED BY <1>1, <1>2, <1>7, <3>1 DEF Labels, DrivesLabelled, SameFiles
  <2>4. LoopsLabelled(own2, user)'
    <3>1. ASSUME NEW l \in Conn, l # k
          PROVE  /\ loop'[l].pc # "idle" => user[loop'[l].sd] = l
                 /\ loop'[l].pc \in {"copy", "reopen"} => ~WritesMaster(l)'
                 /\ loop'[l].pc \in {"reopen", "write", "fsync"} /\ ~WritesMaster(l)' =>
                      own2[loop'[l].file] = Owner(l)'
      BY <1>2, <1>6, <1>8, <2>1, <3>1 DEF Labels, LoopsLabelled, IndInv, LoopsOK
    <3>2. /\ user[loop'[k].sd] = k /\ ~WritesMaster(k)'
          /\ own2[loop'[k].file] = Owner(k)'
      BY <1>3, <1>6, <1>8, <2>1
    <3> QED BY <1>8, <3>1, <3>2 DEF LoopsLabelled
  <2>5. Labels(own2, user)'
    BY <1>2, <1>6, <1>7, <2>2, <2>3, <2>4 DEF Labels, SameFiles
  <2> QED BY <2>5 DEF Labelled
<1> QED BY <1>9, <1>10, <1>11, <1>12, <1>13 DEF IndInv

\* The drive that has forked shows the splinter, which is its client's.
LEMMA ForkOpenedKeeps ==
    ASSUME IndInv, NEW k \in Conn, ForkOpened(k)
    PROVE  IndInv'
<1>0. PICK n, file : n = loop[k].sd /\ file = Splinter(k)
  OBVIOUS
<1> DEFINE sd == [sds[n] EXCEPT !.file = file, !.rw = TRUE, !.open = TRUE, !.scratch = file]
<1>1. /\ UNCHANGED <<mounts, overrides, epoch, files, masterFile, splinterFile, scratches,
                     connections, client, socket, drives, job, requests, stamps, acked>>
      /\ loop[k].pc = "reopen" /\ file # 0
      /\ sds' = [sds EXCEPT ![n] = sd]
      /\ rows' = IF Persistent(k) THEN [rows EXCEPT ![client[k]] = sds[n].master] ELSE rows
      /\ loop' = [loop EXCEPT ![k] = [loop[k] EXCEPT !.pc = "write", !.file = file]]
  BY <1>0 DEF ForkOpened, tables, net, bounds, LoopAt, Exists
<1>2. PICK own, user : Labels(own, user)
  BY DEF IndInv, Labelled
<1>3. /\ n \in DOMAIN sds /\ user[n] = k /\ ~WritesMaster(k)
      /\ Persistent(k) => client[k] \in Client
      /\ sds[n] \in SessionDrive /\ sds \in Seq(SessionDrive) /\ loop[k] \in Write
  <2>1. /\ n \in DOMAIN sds /\ user[n] = k /\ ~WritesMaster(k)
        /\ Persistent(k) => client[k] \in Client
    BY <1>0, <1>1, <1>2 DEF Labels, LoopsLabelled, IndInv, LoopsOK, NetOK, Persistent
  <2> QED BY <2>1, TypesNow, LenProperties, ElementOfSeq
<1>4. file \in DOMAIN files /\ file \in Nat \ {0} /\ own[file] = Owner(k)
  <2>1. file \in DOMAIN files /\ own[file] = Owner(k)
    <3>1. CASE Persistent(k)
      BY <1>0, <1>1, <1>2, <1>3, <3>1
         DEF Splinter, Labels, FilesLabelled, IndInv, DiskOK, Owner, Persistent
    <3>2. CASE ~Persistent(k)
      BY <1>0, <1>1, <1>2, <1>3, <3>2 DEF Splinter, Labels, LoopsLabelled, IndInv, LoopsOK
    <3> QED BY <3>1, <3>2
  <2>2. DOMAIN files \subseteq Nat \ {0}
    BY LenProperties DEF IndInv, DiskOK
  <2> QED BY <2>1, <2>2
<1>5. sd \in SessionDrive /\ sd.file = file /\ sd.scratch = file
  BY <1>3, <1>4 DEF SessionDrive
<1> HIDE DEF sd
<1>6. /\ sds' \in Seq(SessionDrive) /\ DOMAIN sds' = DOMAIN sds
      /\ \A i \in DOMAIN sds : sds'[i] = IF i = n THEN sd ELSE sds[i]
  BY <1>1, <1>3, <1>5, UpdateOf
<1>7. /\ loop' \in [Conn -> Write]
      /\ \A l \in Conn : l # k => loop'[l] = loop[l]
      /\ loop'[k].pc = "write" /\ loop'[k].sd = n /\ loop'[k].file = file
  <2>1. [loop[k] EXCEPT !.pc = "write", !.file = file] \in Write
    BY <1>3, <1>4 DEF Write, LoopPc
  <2> QED BY <1>0, <1>1, <1>3, <2>1, TypesNow DEF Write
<1>8. TablesOK' /\ DrivesOK' /\ NetOK'
  BY <1>1, <1>4, <1>5, <1>6 DEF IndInv, TablesOK, DrivesOK, NetOK, Served
<1>9. DiskOK'
  <2>1. sds[n].master \in Image
    BY <1>3 DEF SessionDrive
  <2> QED BY <1>1, <1>3, <2>1 DEF IndInv, DiskOK
<1>10. LoopsOK'
  BY <1>1, <1>3, <1>4, <1>6, <1>7 DEF IndInv, LoopsOK
<1>11. JobsOK'
  BY <1>1, <1>6, JobsStay DEF IndInv, Grows
<1>12. Labelled'
  <2>1. \A l \in Conn : Owner(l)' = Owner(l) /\ WritesMaster(l)' = WritesMaster(l)
    BY <1>1 DEF Owner, WritesMaster
  <2>2. FilesLabelled(own)'
    BY <1>1, <1>2 DEF Labels, FilesLabelled
  <2>3. DrivesLabelled(own, user)'
    <3>1. ASSUME NEW i \in DOMAIN sds
          PROVE  /\ socket'[user[i]] # "new"
                 /\ own[sds'[i].file] = IF sds'[i].scratch = 0 THEN Public ELSE Owner(user[i])'
      <4>1. user[i] \in Conn /\ socket'[user[i]] # "new"
        BY <1>1, <1>2 DEF Labels, DrivesLabelled
      <4>2. CASE i = n
        BY <1>3, <1>4, <1>5, <1>6, <2>1, <4>1, <4>2
      <4>3. CASE i # n
        BY <1>2, <1>6, <2>1, <4>1, <4>3 DEF Labels, DrivesLabelled
      <4> QED BY <4>1, <4>2, <4>3
    <3> QED BY <1>1, <1>2, <1>6, <3>1 DEF Labels, DrivesLabelled
  <2>4. LoopsLabelled(own, user)'
    <3>1. ASSUME NEW l \in Conn, l # k
          PROVE  /\ loop'[l].pc # "idle" => user[loop'[l].sd] = l
                 /\ loop'[l].pc \in {"copy", "reopen"} => ~WritesMaster(l)'
                 /\ loop'[l].pc \in {"reopen", "write", "fsync"} /\ ~WritesMaster(l)' =>
                      own[loop'[l].file] = Owner(l)'
      BY <1>2, <1>7, <2>1, <3>1 DEF Labels, LoopsLabelled
    <3>2. /\ user[loop'[k].sd] = k /\ ~WritesMaster(k)'
          /\ own[loop'[k].file] = Owner(k)'
      BY <1>3, <1>4, <1>7, <2>1
    <3> QED BY <1>7, <3>1, <3>2 DEF LoopsLabelled
  <2>5. Labels(own, user)'
    BY <1>1, <1>2, <1>6, <2>2, <2>3, <2>4 DEF Labels
  <2> QED BY <2>5 DEF Labelled
<1> QED BY <1>8, <1>9, <1>10, <1>11, <1>12 DEF IndInv

-----------------------------------------------------------------------------
(* The theorems *)

LEMMA StutterKeeps ==
    ASSUME IndInv, UNCHANGED vars
    PROVE  IndInv'
<1>1. UNCHANGED <<mounts, overrides, epoch, files, masterFile, splinterFile, scratches, rows,
                  connections, client, socket, sds, drives, loop, job, requests, stamps, acked>>
  BY DEF vars, tables, disk, net, session, bounds
<1>2. TablesOK' /\ JobsOK' /\ \A q \in Proc : job'[q].pc = "rename" => job'[q] = job[q]
  BY <1>1, JobsStay DEF IndInv, TablesOK, Grows
<1> QED BY <1>1, <1>2, TablesStepKeeps DEF IndInv, DiskOK

LEMMA NextKeeps ==
    ASSUME IndInv, [Next]_vars
    PROVE  IndInv'
<1>1. ASSUME NEW p \in Proc, SyncNext(p) PROVE IndInv'
  BY <1>1, SyncSessionKeeps, SyncDoneKeeps, HandleClosedKeeps, SplinterUnlinkedKeeps,
     ReattachedKeeps, MasterOpenedKeeps, OpenStepsKeep DEF SyncNext
<1>2. ASSUME NEW k \in Conn, ConnNext(k) PROVE IndInv'
  BY <1>2, ConnectKeeps, LeaveKeeps, WriteTrackKeeps, ForkCopiedKeeps, ForkOpenedKeeps,
     WriteLandsKeeps, LoopEndsKeep DEF ConnNext
<1>3. ASSUME NEW r \in Req, RequestNext(r) PROVE IndInv'
  BY <1>3, RequestsKeep, RequestStepsKeep, CommitCopiedKeeps, CommitRenamedKeeps DEF RequestNext
<1>4. ASSUME NEW f \in Image, NEW readonly \in BOOLEAN, OperatorMount(f, readonly) PROVE IndInv'
  BY <1>4, OperatorKeeps
<1>5. CASE OperatorUnmount
  BY <1>5, OperatorKeeps
<1>6. CASE Restart
  BY <1>6, RestartKeeps
<1>7. CASE UNCHANGED vars
  BY <1>7, StutterKeeps
<1> QED BY <1>1, <1>2, <1>3, <1>4, <1>5, <1>6, <1>7 DEF Next

LEMMA IndInvIsolates == IndInv => SessionsAreIsolated
<1> SUFFICES ASSUME IndInv PROVE SessionsAreIsolated
  OBVIOUS
<1>1. TypeOK
  BY DEF IndInv, TablesOK, DiskOK, NetOK, DrivesOK, LoopsOK, JobsOK, TypeOK
<1>2. ASSUME NEW k \in Conn, drives[k] # 0
      PROVE  files[sds[drives[k]].file].author \in {Owner(k), Public}
  <2>1. PICK own, user : Labels(own, user)
    BY DEF IndInv, Labelled
  <2>2. drives[k] \in DOMAIN sds /\ sds[drives[k]].file \in DOMAIN files
    BY <1>2 DEF IndInv, DrivesOK
  <2>3. user[drives[k]] = k /\ own[sds[drives[k]].file] \in {Owner(k), Public}
    BY <1>2, <2>1, <2>2 DEF Labels, DrivesLabelled
  <2> QED BY <2>1, <2>2, <2>3 DEF Labels, FilesLabelled
<1> QED BY <1>1, <1>2 DEF SessionsAreIsolated

\* Whatever meets whatever, and however many there are, no session ever shows bytes
\* that another client wrote for itself (drive-session.ts:8-9).
THEOREM SessionsIsolated == Spec => []SessionsAreIsolated
<1>1. IndInv /\ [Next]_vars => IndInv'
  BY NextKeeps
<1> QED BY <1>1, InitHolds, IndInvIsolates, PTL DEF Spec

\* An image's bytes change only when the client that writes images writes, or when
\* a commit of that image gives its name to the copy (drive-session.ts:8-11): no step of another session
\* reaches the file that an image's name leads to.
LEMMA OnlyTheseTouchImages ==
    ASSUME IndInv, [Next]_vars, NEW f \in Image, MasterImage(f)' # MasterImage(f)
    PROVE  \/ \E r \in Req : job[r].pc = "rename" /\ job[r].base = f
           \/ \E k \in Conn : loop[k].pc = "write" /\ WritesMaster(k)
<1>1. PICK own, user : Labels(own, user)
  BY DEF IndInv, Labelled
<1>2. /\ masterFile \in [Image -> DOMAIN files] /\ files \in Seq(File)
      /\ masterFile[f] \in DOMAIN files /\ own[masterFile[f]] = Public
  BY <1>1 DEF IndInv, DiskOK, Labels, FilesLabelled
<1>3. ~(UNCHANGED <<files, masterFile>>)
  BY DEF MasterImage
<1>4. \/ \E k \in Conn : ForkCopied(k) \/ WriteLands(k)
      \/ \E r \in Req : CommitCopied(r) \/ CommitRenamed(r)
  BY <1>3, ZenonT(60) DEF Next, SyncNext, ConnNext, RequestNext, vars, disk, SyncSession, SyncDone,
     HandleClosed, SplinterUnlinked, Reattached, ReattachFails, Discarded, MasterOpened,
     OpenFails, Connect, Leave, WriteTrack, ForkCopyFails, ForkOpened, ForkFails, WriteSynced,
     SetClientDrive, ClearClientDrive, ForgetClient, CommitClientSplinter, Forgotten,
     CommitChecked, Reloaded, OperatorMount, OperatorUnmount, Restart
<1>5. ASSUME NEW r \in Req, CommitRenamed(r) PROVE job[r].pc = "rename" /\ job[r].base = f
  BY <1>2, <1>5 DEF CommitRenamed, At, MasterImage
<1>6. ASSUME NEW r \in Req, CommitCopied(r) PROVE FALSE
  <2>1. UNCHANGED masterFile
    BY <1>6 DEF CommitCopied
  <2>2. PICK e : files' = Append(files, e)
    BY <1>3, <1>6, <2>1 DEF CommitCopied
  <2>3. files'[masterFile[f]] = files[masterFile[f]]
    <3>1. masterFile[f] \in 1 .. Len(files)
      BY <1>2, LenProperties
    <3> QED BY <1>2, <2>2, <3>1
  <2> QED BY <2>1, <2>3 DEF MasterImage
<1>7. ASSUME NEW k \in Conn, ForkCopied(k) PROVE FALSE
  <2> DEFINE old == IF Persistent(k) THEN splinterFile[client[k]] ELSE 0
  <2>1. /\ UNCHANGED masterFile
        /\ files' = IF old = 0 THEN Append(files, MasterOf(k))
                    ELSE [files EXCEPT ![old] = MasterOf(k)]
    BY <1>7 DEF ForkCopied
  <2>2. CASE old = 0
    <3>1. masterFile[f] \in 1 .. Len(files)
      BY <1>2, LenProperties
    <3> QED BY <1>2, <2>1, <2>2, <3>1 DEF MasterImage
  <2>3. CASE old # 0
    <3>1. own[old] \in Client
      BY <1>1, <2>3 DEF Labels, FilesLabelled, IndInv, NetOK, Persistent
    <3>2. old # masterFile[f]
      BY <1>2, <3>1, NamesAssumption
    <3> QED BY <1>2, <2>1, <2>3, <3>2 DEF MasterImage
  <2> QED BY <2>2, <2>3
<1>8. ASSUME NEW k \in Conn, WriteLands(k) PROVE loop[k].pc = "write" /\ WritesMaster(k)
  <2>1. /\ UNCHANGED masterFile /\ loop[k].pc = "write"
        /\ \A i \in DOMAIN files : i # loop[k].file => files'[i] = files[i]
    BY <1>2, <1>8 DEF WriteLands, LoopAt
  <2>2. loop[k].file = masterFile[f]
    BY <1>2, <2>1 DEF MasterImage
  <2>3. Owner(k) \in Client \cup Conn
    BY DEF Owner, IndInv, NetOK
  <2> QED BY <1>1, <1>2, <2>1, <2>2, <2>3, NamesAssumption DEF Labels, LoopsLabelled
<1> QED BY <1>4, <1>5, <1>6, <1>7, <1>8

\* The action property of the runs, for every client, connection and image.
THEOREM ImagesProtected == Spec => ImagesChangeOnlyAsAllowed
<1>1. IndInv /\ [Next]_vars => IndInv'
  BY NextKeeps
<1>2. IndInv /\ [Next]_vars =>
        [\A f \in Image : MasterImage(f)' # MasterImage(f) =>
            \/ \E r \in Req : job[r].pc = "rename" /\ job[r].base = f
            \/ \E k \in Conn : loop[k].pc = "write" /\ WritesMaster(k)]_vars
  BY OnlyTheseTouchImages
<1> QED BY <1>1, <1>2, InitHolds, PTL DEF Spec, ImagesChangeOnlyAsAllowed

-----------------------------------------------------------------------------
(* While the steps keep Apart: where the drives, the writes and the jobs of the
   sessions are. *)

Closing == {"close", "unlink"}
Opening == {"reattach", "discard", "open"}

\* A connection is set up, then in the map, then removed; a request does neither.
SeatedJob(p, j) ==
    /\ p \in Conn /\ j.pc # "idle" =>
         /\ p \notin Served
         /\ \/ j.pc = "sync" /\ j.kind = "connect"
            \/ j.pc \in Opening /\ j.kind = "connect" /\ j.conn = p
            \/ j.pc \in Closing /\ j.kind \in {"connect", "remove"} /\ j.conn = p
    /\ p \in Req => j.kind \notin {"connect", "remove"} /\ (j.pc = "forget" => j.kind = "forget")

Seated ==
    /\ \A i, n \in DOMAIN connections : connections[i] = connections[n] => i = n
    /\ \A p \in Proc : SeatedJob(p, job[p])

\* Who closes a drive has asked for it; who opens one has none yet.
DoesWork(p, k) ==
    /\ job[p].pc \in Closing =>
         /\ drives[k] # 0 /\ job[p].sd = drives[k]
         /\ ~sds[drives[k]].open /\ job[p].scratch = sds[drives[k]].scratch
    /\ job[p].pc = "unlink" => loop[k].pc = "idle"
    /\ job[p].pc \in Opening => drives[k] = 0

WorkedOn(k) == \A p \in Proc : WorksOn(p, k) => DoesWork(p, k)

\* A write is on the drive in the map.
Writes(k) ==
    loop[k].pc # "idle" =>
      /\ drives[k] = loop[k].sd
      /\ loop[k].pc \in {"copy", "reopen"} => sds[loop[k].sd].scratch = 0
      /\ loop[k].pc \in {"write", "fsync"} =>
           /\ loop[k].file = sds[loop[k].sd].file
           /\ ~WritesMaster(k) => sds[loop[k].sd].scratch # 0

\* A drive is of a connection that is in the map, or is being set up or removed.
Owned(k) == drives[k] # 0 => k \in Served \/ job[k].pc # "idle"

SessionOK(k) == WorkedOn(k) /\ Writes(k) /\ Owned(k)
Structure == Seated /\ \A k \in Conn : SessionOK(k)

Base == IndInv /\ Structure /\ ~Overlap

-----------------------------------------------------------------------------
(* What holds of the states above *)

LEMMA SessionFacts ==
    ASSUME IndInv
    PROVE  /\ Served \subseteq Conn
           /\ \A k \in Served : socket[k] # "new"
           /\ DOMAIN sds \subseteq Nat \ {0}
           /\ \A n \in DOMAIN sds : sds[n] \in SessionDrive
           /\ \A k \in Conn : drives[k] # 0 => drives[k] \in DOMAIN sds /\ socket[k] # "new"
           /\ \A k, l \in Conn : drives[k] # 0 /\ drives[k] = drives[l] => k = l
           /\ \A k \in Conn : loop[k].pc # "idle" =>
                loop[k].sd \in DOMAIN sds /\ socket[k] # "new"
<1>1. PICK own, user : Labels(own, user)
  BY DEF IndInv, Labelled
<1>2. /\ sds \in Seq(SessionDrive) /\ drives \in [Conn -> DOMAIN sds \cup {0}]
  BY TypesNow
<1>3. DOMAIN sds \subseteq Nat \ {0} /\ \A n \in DOMAIN sds : sds[n] \in SessionDrive
  <2>1. DOMAIN sds = 1 .. Len(sds) /\ Len(sds) \in Nat
    BY <1>2, LenProperties
  <2> QED BY <1>2, <2>1, ElementOfSeq
<1>4. \A k \in Conn : drives[k] # 0 => user[drives[k]] = k /\ socket[user[drives[k]]] # "new"
  BY <1>1, <1>2 DEF Labels, DrivesLabelled
<1>5. \A k \in Conn : loop[k].pc # "idle" => loop[k].sd \in DOMAIN sds /\ socket[k] # "new"
  BY <1>1, LoopsAlive DEF IndInv, LoopsOK
<1>6. Served \subseteq Conn /\ \A k \in Served : socket[k] # "new"
  BY ServedAreConns DEF IndInv
<1> QED BY <1>2, <1>3, <1>4, <1>5, <1>6

LEMMA OneWorker ==
    ASSUME Seated, ~Overlap, NEW p \in Proc, NEW q \in Proc, NEW k \in Conn,
           WorksOn(p, k), WorksOn(q, k)
    PROVE  p = q
<1>1. \A r \in Proc : r \in Conn /\ WorksOn(r, k) => r = k /\ k \notin Served
  BY DEF Seated, SeatedJob, WorksOn, Closing, Opening
<1>2. \A r \in Req : WorksOn(r, k) => k \in Served /\ \A s \in Req \ {r} : ~WorksOn(s, k)
  BY DEF Overlap, SyncMeets, Syncs
<1> QED BY <1>1, <1>2 DEF Proc

LEMMA OneWorkerThen ==
    ASSUME Seated', ~Overlap', NEW p \in Proc, NEW q \in Proc, NEW k \in Conn,
           WorksOn(p, k)', WorksOn(q, k)'
    PROVE  p = q
<1>1. \A r \in Proc : r \in Conn /\ WorksOn(r, k)' => r = k /\ k \notin Served'
  BY DEF Seated, SeatedJob, WorksOn, Closing, Opening
<1>2. \A r \in Req : WorksOn(r, k)' => k \in Served' /\ \A s \in Req \ {r} : ~WorksOn(s, k)'
  BY DEF Overlap, SyncMeets, Syncs
<1> QED BY <1>1, <1>2 DEF Proc

\* A connection that works is removed or set up; a request works for those in the map.
LEMMA WorkerOf ==
    ASSUME Seated, ~Overlap, NEW p \in Proc, NEW k \in Conn, WorksOn(p, k)
    PROVE  \/ p = k /\ k \in Conn /\ k \notin Served /\ job[k].pc # "idle"
           \/ p \in Req /\ p \notin Conn /\ k \in Served
<1>1. p \in Conn => p = k /\ k \notin Served /\ job[k].pc # "idle"
  BY DEF Seated, SeatedJob, WorksOn, Closing, Opening
<1>2. p \in Req => k \in Served /\ p \notin Conn
  BY NamesAssumption DEF Overlap, SyncMeets, Syncs
<1> QED BY <1>1, <1>2 DEF Proc

\* Process p goes on as j.
Steps(p, j) == job'[p] = j /\ \A q \in Proc : q # p => job'[q] = job[q]

LEMMA Went ==
    ASSUME IndInv, NEW p \in Proc, NEW j, Go(p, j)
    PROVE  Steps(p, j)
BY TypesNow DEF Go, Steps

LEMMA SeatedGoes ==
    ASSUME Seated, UNCHANGED connections, NEW p \in Proc, NEW j, Steps(p, j), SeatedJob(p, j)
    PROVE  Seated'
BY DEF Seated, SeatedJob, Steps, Served

\* Every session but those of K is left as it is.
Others(K) ==
    \A l \in Conn \ K :
      /\ client'[l] = client[l]
      /\ loop'[l] = loop[l]
      /\ drives'[l] = drives[l]
      /\ drives[l] # 0 => sds'[drives[l]] = sds[drives[l]]
      /\ l \in Served => l \in Served'

LEMMA OthersStayOK ==
    ASSUME Base, NEW K, Others(K), NEW p \in Proc, NEW j, Steps(p, j),
           p \in Conn => p \in K,
           j.pc \in Closing \cup Opening => j.conn \in K
    PROVE  \A l \in Conn \ K : SessionOK(l)'
<1> SUFFICES ASSUME NEW l \in Conn, l \notin K PROVE SessionOK(l)'
  OBVIOUS
<1>1. SessionOK(l)
  BY DEF Base, Structure
<1>2. l \in Proc /\ l # p /\ job'[l] = job[l]
  BY DEF Proc, Steps
<1>3. WorkedOn(l)'
  <2> SUFFICES ASSUME NEW q \in Proc, WorksOn(q, l)' PROVE DoesWork(q, l)'
    BY DEF WorkedOn
  <2>1. q # p /\ job'[q] = job[q] /\ WorksOn(q, l)
    BY DEF Steps, WorksOn, Closing, Opening
  <2>2. DoesWork(q, l)
    BY <1>1, <2>1 DEF SessionOK, WorkedOn
  <2> QED BY <2>1, <2>2 DEF DoesWork, Others
<1>4. Writes(l)'
  BY <1>1, SessionFacts DEF SessionOK, Writes, Others, WritesMaster, Base
<1>5. Owned(l)'
  BY <1>1, <1>2 DEF SessionOK, Owned, Others
<1> QED BY <1>3, <1>4, <1>5 DEF SessionOK

-----------------------------------------------------------------------------
(* What the steps of a sync do *)

SameTask(i, j) ==
    /\ i.kind = j.kind /\ i.client = j.client /\ i.visited = j.visited
    /\ i.conn = j.conn /\ i.entry = j.entry

\* Job i opens a drive, and the database knows of a splinter or not.
OpensAs(i) ==
    LET row == rows[client[i.conn]]
    IN /\ i.pc \in Opening
       /\ i.pc = "reattach" => Persistent(i.conn) /\ row = i.entry.filename
       /\ i.pc = "discard" => Persistent(i.conn) /\ row # i.entry.filename
       /\ i.pc = "open" /\ Persistent(i.conn) => row = NoImage

LEMMA DriveOpens ==
    ASSUME NEW j \in Job
    PROVE  SameTask(OpenDrive(j), j) /\ OpensAs(OpenDrive(j))
<1>1. ASSUME NEW pc
      PROVE  [j EXCEPT !.pc = pc].pc = pc /\ SameTask([j EXCEPT !.pc = pc], j)
  BY DEF Job, SameTask
<1>2. CASE Persistent(j.conn) /\ rows[client[j.conn]] # NoImage
  BY <1>1, <1>2 DEF OpenDrive, OpensAs, Opening, SameTask
<1>3. CASE ~(Persistent(j.conn) /\ rows[client[j.conn]] # NoImage)
  BY <1>1, <1>3 DEF OpenDrive, OpensAs, Opening, SameTask
<1> QED BY <1>2, <1>3

\* The handle of drive n is to be closed.
Shuts(n) ==
    /\ DOMAIN sds' = DOMAIN sds
    /\ ~sds'[n].open
    /\ \A m \in DOMAIN sds :
         /\ m # n => sds'[m] = sds[m]
         /\ sds'[m].open => sds[m].open
         /\ sds'[m].file = sds[m].file /\ sds'[m].scratch = sds[m].scratch
         /\ sds'[m].master = sds[m].master /\ sds'[m].baseVersion = sds[m].baseVersion

LEMMA Closes ==
    ASSUME IndInv, NEW n \in DOMAIN sds, sds' = CloseRequested(n)
    PROVE  Shuts(n)
<1>1. sds[n] \in SessionDrive
  BY SessionFacts
<1>2. PICK e : e = [sds[n] EXCEPT !.open = FALSE]
  OBVIOUS
<1>3. /\ e.open = FALSE /\ e.file = sds[n].file /\ e.scratch = sds[n].scratch
      /\ e.master = sds[n].master /\ e.baseVersion = sds[n].baseVersion
  BY <1>1, <1>2 DEF SessionDrive
<1>4. sds' = [sds EXCEPT ![n] = e]
  BY <1>2 DEF CloseRequested
<1>5. /\ DOMAIN sds' = DOMAIN sds /\ sds'[n] = e
      /\ \A m \in DOMAIN sds : m # n => sds'[m] = sds[m]
  BY <1>4, TypesNow, UpdateOf
<1> QED BY <1>3, <1>5 DEF Shuts

Visits(p, k) == {l \in SessionsOf(p) : l = k \/ Before(l, k)}

LEMMA SyncSessionDoes ==
    ASSUME IndInv, NEW p \in Proc, SyncSession(p)
    PROVE  /\ UNCHANGED <<mounts, overrides, epoch, files, masterFile, splinterFile, scratches,
                          rows, connections, client, socket, drives, loop, requests, stamps,
                          acked>>
           /\ job[p].pc = "sync"
           /\ \E k, j :
                /\ k \in Waiting(p) /\ k \in Conn /\ First(p, k)
                /\ Steps(p, j)
                /\ j.kind = job[p].kind /\ j.client = job[p].client
                /\ j.conn = k /\ j.entry = ResolveEffective(client[k])
                /\ j.visited = Visits(p, k)
                /\ \/ drives[k] = 0 /\ UNCHANGED sds /\ OpensAs(j) /\ j.entry # NoEntry
                   \/ /\ drives[k] # 0 /\ Shuts(drives[k])
                      /\ j.pc = "close" /\ j.sd = drives[k]
                      /\ j.scratch = sds[drives[k]].scratch
<1>1. PICK k \in Waiting(p) :
        LET j == [job[p] EXCEPT !.conn = k, !.entry = ResolveEffective(client[k]),
                      !.visited = {l \in SessionsOf(p) : l = k \/ Before(l, k)}]
        IN /\ First(p, k)
           /\ IF drives[k] = 0 THEN Go(p, OpenDrive(j)) /\ UNCHANGED sds
                               ELSE CloseDrive(p, j)
  BY DEF SyncSession
<1> DEFINE i == [job[p] EXCEPT !.conn = k, !.entry = ResolveEffective(client[k]),
                     !.visited = Visits(p, k)]
<1>2. /\ UNCHANGED <<mounts, overrides, epoch, files, masterFile, splinterFile, scratches,
                     rows, connections, client, socket, drives, loop, requests, stamps, acked>>
      /\ job[p].pc = "sync"
  BY DEF SyncSession, tables, disk, net, bounds
<1>3. job[p] \in Job /\ Fits(p, job[p])
  BY TypesNow
<1>4. \A l \in SessionsOf(p) : l \in Conn
  BY <1>3, SessionFacts DEF SessionsOf, Fits
<1>5. k \in Conn /\ OutOfDate(k) /\ client[k] \in Client \cup {Anonymous}
  BY <1>4 DEF Waiting, IndInv, NetOK
<1>6. /\ i \in Job /\ i.kind = job[p].kind /\ i.client = job[p].client
      /\ i.conn = k /\ i.entry = ResolveEffective(client[k]) /\ i.visited = Visits(p, k)
  <2>1. ResolveEffective(client[k]) \in Entry
    BY <1>5, Effective DEF IndInv
  <2>2. Visits(p, k) \in SUBSET Conn
    BY <1>4 DEF Visits
  <2> QED BY <1>3, <1>5, <2>1, <2>2 DEF Job
<1>7. First(p, k) /\ IF drives[k] = 0 THEN Go(p, OpenDrive(i)) /\ UNCHANGED sds
                                      ELSE CloseDrive(p, i)
  BY <1>1 DEF Visits
<1> HIDE DEF i
<1>8. CASE drives[k] = 0
  <2>1. SameTask(OpenDrive(i), i) /\ OpensAs(OpenDrive(i))
    BY <1>6, DriveOpens
  <2>2. Steps(p, OpenDrive(i)) /\ UNCHANGED sds
    BY <1>7, <1>8, Went
  <2>3. i.entry # NoEntry
    BY <1>5, <1>6, <1>8 DEF OutOfDate
  <2> QED BY <1>2, <1>5, <1>6, <1>7, <1>8, <2>1, <2>2, <2>3 DEF SameTask
<1>9. CASE drives[k] # 0
  <2>1. PICK j : j = [i EXCEPT !.pc = "close", !.sd = drives[k], !.scratch = sds[drives[k]].scratch]
    OBVIOUS
  <2>2. Go(p, j) /\ sds' = CloseRequested(drives[k])
    BY <1>6, <1>7, <1>9, <2>1 DEF CloseDrive
  <2>3. Steps(p, j) /\ Shuts(drives[k])
    BY <1>5, <1>9, <2>2, Went, Closes, SessionFacts
  <2>4. /\ j.pc = "close" /\ j.sd = drives[k] /\ j.scratch = sds[drives[k]].scratch
        /\ j.kind = i.kind /\ j.client = i.client
        /\ j.conn = i.conn /\ j.entry = i.entry /\ j.visited = i.visited
    BY <1>6, <2>1 DEF Job
  <2> QED BY <1>2, <1>5, <1>6, <1>7, <1>9, <2>3, <2>4
<1> QED BY <1>8, <1>9

\* The drive has left the map.
Drops(p, j) ==
    /\ Steps(p, j)
    /\ drives' = [drives EXCEPT ![job[p].conn] = 0]
    /\ \/ job[p].kind = "remove" /\ j = NoJob
       \/ /\ job[p].kind # "remove" /\ SameTask(j, job[p])
          /\ \/ job[p].entry = NoEntry /\ j.pc = "sync"
             \/ job[p].entry # NoEntry /\ OpensAs(j)

LEMMA DriveClosedDoes ==
    ASSUME IndInv, NEW p \in Proc, DriveClosed(p)
    PROVE  \E j : Drops(p, j)
<1>1. job[p] \in Job
  BY TypesNow
<1>2. drives' = [drives EXCEPT ![job[p].conn] = 0]
  BY DEF DriveClosed
<1>3. CASE job[p].kind = "remove"
  BY <1>2, <1>3, Went DEF DriveClosed, Done, Drops
<1>4. CASE job[p].kind # "remove" /\ job[p].entry = NoEntry
  <2>1. PICK j : j = [job[p] EXCEPT !.pc = "sync"]
    OBVIOUS
  <2>2. SameTask(j, job[p]) /\ j.pc = "sync"
    BY <1>1, <2>1 DEF SameTask, Job
  <2>3. Steps(p, j)
    BY <1>4, <2>1, Went DEF DriveClosed
  <2> QED BY <1>2, <1>4, <2>2, <2>3 DEF Drops
<1>5. CASE job[p].kind # "remove" /\ job[p].entry # NoEntry
  <2>1. Steps(p, OpenDrive(job[p]))
    BY <1>5, Went DEF DriveClosed
  <2>2. SameTask(OpenDrive(job[p]), job[p]) /\ OpensAs(OpenDrive(job[p]))
    BY <1>1, DriveOpens
  <2> QED BY <1>2, <1>5, <2>1, <2>2 DEF Drops
<1> QED BY <1>3, <1>4, <1>5

\* A job that goes on with nothing captured anew.
LEMMA PcSteps ==
    ASSUME IndInv, NEW p \in Proc, NEW pc, Go(p, [job[p] EXCEPT !.pc = pc])
    PROVE  /\ Steps(p, job'[p]) /\ SameTask(job'[p], job[p]) /\ job'[p].pc = pc
           /\ job'[p].sd = job[p].sd /\ job'[p].scratch = job[p].scratch
<1>1. PICK j : j = [job[p] EXCEPT !.pc = pc]
  OBVIOUS
<1>2. job[p] \in Job
  BY TypesNow
<1>3. /\ SameTask(j, job[p]) /\ j.pc = pc
      /\ j.sd = job[p].sd /\ j.scratch = job[p].scratch
  BY <1>1, <1>2 DEF Job, SameTask
<1>4. Steps(p, j)
  BY <1>1, Went
<1>5. job'[p] = j
  BY <1>4 DEF Steps
<1> QED BY <1>3, <1>4, <1>5

\* The session has the new drive n.
Attaches(p, n, file, scratch) ==
    /\ n \notin DOMAIN sds /\ n # 0
    /\ DOMAIN sds' = DOMAIN sds \cup {n}
    /\ \A m \in DOMAIN sds : sds'[m] = sds[m]
    /\ sds'[n].file = file /\ sds'[n].scratch = scratch
    /\ sds'[n].master = job[p].entry.filename
    /\ sds'[n].baseVersion = job[p].entry.version
    /\ drives' = [drives EXCEPT ![job[p].conn] = n]

LEMMA AttachDoes ==
    ASSUME IndInv, NEW p \in Proc, job[p].pc \in {"reattach", "open"},
           NEW file \in DOMAIN files, NEW rw \in BOOLEAN, NEW scratch \in Nat,
           Attach(p, file, rw, scratch)
    PROVE  /\ \E n : Attaches(p, n, file, scratch)
           /\ \E j : Steps(p, j) /\ SameTask(j, job[p]) /\ j.pc = "sync"
<1>1. PICK e : e = [file |-> file, rw |-> rw, open |-> TRUE,
                    master |-> job[p].entry.filename,
                    baseVersion |-> job[p].entry.version, scratch |-> scratch]
  OBVIOUS
<1>2. e \in SessionDrive
  <2>1. file \in Nat \ {0}
    <3>1. DOMAIN files = 1 .. Len(files) /\ Len(files) \in Nat
      BY LenProperties DEF IndInv, DiskOK
    <3> QED BY <3>1
  <2>2. job[p] \in Job /\ Fits(p, job[p])
    BY TypesNow
  <2>3. job[p].entry.filename \in Image /\ job[p].entry.version \in Version
    BY <2>2 DEF Fits, Job, Entry
  <2> QED BY <1>1, <2>1, <2>3 DEF SessionDrive
<1>3. sds' = Append(sds, e) /\ drives' = [drives EXCEPT ![job[p].conn] = Len(sds) + 1]
  BY <1>1 DEF Attach
<1>4. /\ DOMAIN sds' = DOMAIN sds \cup {Len(sds) + 1}
      /\ Len(sds) + 1 \notin DOMAIN sds
      /\ sds'[Len(sds) + 1] = e
      /\ \A m \in DOMAIN sds : sds'[m] = sds[m]
  BY <1>2, <1>3, TypesNow, AppendTo
<1>5. Len(sds) + 1 # 0
  BY TypesNow, LenProperties
<1>6. Attaches(p, Len(sds) + 1, file, scratch)
  BY <1>1, <1>3, <1>4, <1>5 DEF Attaches
<1>7. \E j : Steps(p, j) /\ SameTask(j, job[p]) /\ j.pc = "sync"
  <2>1. Go(p, [job[p] EXCEPT !.pc = "sync"])
    BY DEF Attach
  <2> QED BY <2>1, PcSteps
<1> QED BY <1>6, <1>7

-----------------------------------------------------------------------------
(* Steps of a sync keep the structure *)

\* A job that goes on for the session it works for.
LEMMA SeatedGoesOn ==
    ASSUME Base, NEW p \in Proc, NEW k \in Conn, WorksOn(p, k), UNCHANGED connections,
           NEW j, Steps(p, j), SameTask(j, job[p]),
           j.pc \in {"sync"} \cup Opening => j.kind # "remove",
           j.pc \in {"sync", "unlink"} \cup Opening
    PROVE  Seated'
<1>1. SeatedJob(p, job[p])
  BY DEF Base, Structure, Seated
<1>2. SeatedJob(p, j)
  BY <1>1 DEF SeatedJob, SameTask, WorksOn, Opening, Closing
<1> QED BY <1>2, SeatedGoes DEF Base, Structure

LEMMA StructureOf ==
    ASSUME Base, NEW K, Others(K), NEW p \in Proc, NEW j, Steps(p, j),
           p \in Conn => p \in K,
           j.pc \in Closing \cup Opening => j.conn \in K,
           Seated', \A k \in K : SessionOK(k)'
    PROVE  Structure'
BY OthersStayOK DEF Structure

LEMMA SyncSessionKeepsStructure ==
    ASSUME Base, IndInv', ~Overlap', NEW p \in Proc, SyncSession(p)
    PROVE  Structure'
<1> USE DEF Base
<1>1. /\ UNCHANGED <<connections, client, socket, drives, loop>>
      /\ job[p].pc = "sync"
  BY SyncSessionDoes
<1>2. PICK k, j :
                /\ k \in Waiting(p) /\ k \in Conn
                /\ Steps(p, j)
                /\ j.kind = job[p].kind
                /\ j.conn = k
                /\ \/ drives[k] = 0 /\ UNCHANGED sds /\ OpensAs(j) 
                   \/ /\ drives[k] # 0 /\ Shuts(drives[k])
                      /\ j.pc = "close" /\ j.sd = drives[k]
                      /\ j.scratch = sds[drives[k]].scratch
  BY SyncSessionDoes
<1>3. k \in SessionsOf(p)
  BY <1>2 DEF Waiting
<1>4. p \in Conn => p = k /\ p \notin Served /\ j.kind = "connect"
  BY <1>1, <1>2, <1>3 DEF Structure, Seated, SeatedJob, SessionsOf, Opening, Closing
<1>5. p \in Req => k \in Served /\ p \notin Conn
  <2>1. p \in Req => job[p].kind # "connect" /\ p \notin Conn
    BY NamesAssumption DEF Structure, Seated, SeatedJob
  <2> QED BY <1>3, <2>1 DEF SessionsOf
<1>6. Seated'
  <2>1. SeatedJob(p, j)
    BY <1>2, <1>4 DEF SeatedJob, Structure, Seated, OpensAs, Opening, Closing
  <2> QED BY <1>1, <1>2, <2>1, SeatedGoes DEF Structure
<1>7. Others({k})
  <2>1. \A l \in Conn : l # k /\ drives[l] # 0 => sds'[drives[l]] = sds[drives[l]]
    BY <1>2, SessionFacts DEF Shuts
  <2> QED BY <1>1, <2>1 DEF Others, Served
<1>8. SessionOK(k)'
  <2>1. SessionOK(k)
    BY <1>2 DEF Structure
  <2>2. WorksOn(p, k)'
    BY <1>2 DEF WorksOn, Steps, OpensAs, Opening
  <2>3. \A q \in Proc : WorksOn(q, k)' => q = p
    <3> TAKE q \in Proc
    <3> QED BY <1>2, <1>6, <2>2, OneWorkerThen
  <2>4. DoesWork(p, k)'
    BY <1>1, <1>2, SessionFacts DEF DoesWork, Steps, OpensAs, Opening, Closing, Shuts
  <2>5. WorkedOn(k)'
    BY <2>3, <2>4 DEF WorkedOn
  <2>6. Writes(k)'
    BY <1>1, <1>2, <2>1, SessionFacts DEF SessionOK, Writes, WritesMaster, Shuts
  <2>7. Owned(k)'
    BY <1>1, <1>2, <1>4, <1>5, NamesAssumption DEF Owned, Steps, Proc, Served, OpensAs, Opening
  <2> QED BY <2>5, <2>6, <2>7 DEF SessionOK
<1> QED
  <2>1. j.pc \in Closing \cup Opening => j.conn \in {k}
    BY <1>2
  <2> QED BY <1>2, <1>4, <1>6, <1>7, <1>8, <2>1, StructureOf

LEMMA SyncDoneKeepsStructure ==
    ASSUME Base, NEW p \in Proc, SyncDone(p)
    PROVE  Structure'
<1> USE DEF Base
<1>1. /\ UNCHANGED <<client, sds, drives, loop>>
      /\ job[p].pc = "sync" /\ Steps(p, NoJob)
      /\ connections' = IF job[p].kind = "connect" THEN Append(connections, p) ELSE connections
  BY Went DEF SyncDone, Done, session
<1>2. p \in Conn => p \notin Served /\ job[p].kind = "connect"
  BY <1>1 DEF Structure, Seated, SeatedJob, Opening, Closing
<1>3. p \in Req => p \notin Conn /\ job[p].kind # "connect"
  BY NamesAssumption DEF Structure, Seated, SeatedJob
<1>4. /\ \A i, n \in DOMAIN connections' : connections'[i] = connections'[n] => i = n
      /\ Served' = IF p \in Conn THEN Served \cup {p} ELSE Served
  <2>1. CASE p \in Conn
    <3>1. connections' = Append(connections, p) /\ connections \in Seq(Conn)
      BY <1>1, <1>2, <2>1 DEF IndInv, NetOK
    <3>2. /\ DOMAIN connections' = DOMAIN connections \cup {Len(connections) + 1}
          /\ Len(connections) + 1 \notin DOMAIN connections
          /\ connections'[Len(connections) + 1] = p
          /\ \A i \in DOMAIN connections : connections'[i] = connections[i]
      BY <2>1, <3>1, AppendTo
    <3>3. \A i, n \in DOMAIN connections : connections[i] = connections[n] => i = n
      BY DEF Structure, Seated
    <3>4. \A i \in DOMAIN connections : connections[i] # p
      BY <1>2, <2>1 DEF Served
    <3>5. Served' = Served \cup {p}
      BY <3>2 DEF Served
    <3> QED BY <2>1, <3>2, <3>3, <3>4, <3>5
  <2>2. CASE p \notin Conn
    <3>1. connections' = connections
      BY <1>1, <1>3, <2>2 DEF Proc
    <3> QED BY <2>2, <3>1 DEF Served, Structure, Seated
  <2> QED BY <2>1, <2>2
<1>5. Seated'
  <2>1. ASSUME NEW q \in Proc PROVE SeatedJob(q, job[q])'
    <3>1. SeatedJob(q, job[q])
      BY DEF Structure, Seated
    <3>2. q = p => SeatedJob(q, job[q])'
      BY <1>1 DEF SeatedJob, Steps, NoJob
    <3>3. q # p => SeatedJob(q, job[q])'
      BY <1>1, <1>4, <3>1 DEF SeatedJob, Steps
    <3> QED BY <3>2, <3>3
  <2> QED BY <1>4, <2>1 DEF Seated
<1>6. Others({p} \cap Conn)
  BY <1>1, <1>4 DEF Others
<1>7. \A k \in {p} \cap Conn : SessionOK(k)'
  <2> SUFFICES ASSUME p \in Conn PROVE SessionOK(p)'
    OBVIOUS
  <2>1. SessionOK(p)
    BY DEF Structure
  <2>2. WorkedOn(p)'
    <3> SUFFICES ASSUME NEW q \in Proc, WorksOn(q, p)' PROVE DoesWork(q, p)'
      BY DEF WorkedOn
    <3>1. q # p /\ job'[q] = job[q]
      BY <1>1 DEF Steps, WorksOn, NoJob
    <3>2. DoesWork(q, p)
      BY <2>1, <3>1 DEF SessionOK, WorkedOn, WorksOn
    <3> QED BY <1>1, <3>1, <3>2 DEF DoesWork
  <2>3. Writes(p)'
    BY <1>1, <2>1 DEF SessionOK, Writes, WritesMaster
  <2>4. Owned(p)'
    BY <1>4 DEF Owned
  <2> QED BY <2>2, <2>3, <2>4 DEF SessionOK
<1> QED
  <2>1. p \in Conn => p \in {p} \cap Conn
    OBVIOUS
  <2>2. NoJob.pc \notin Closing \cup Opening
    BY DEF NoJob, Closing, Opening
  <2> QED BY <1>1, <1>5, <1>6, <1>7, <2>1, <2>2, StructureOf

\* What a worker's steps have to show.
LEMMA WorkerKeepsStructure ==
    ASSUME Base, NEW p \in Proc, NEW k \in Conn, WorksOn(p, k), NEW j, Steps(p, j),
           j.conn = k \/ j.pc = "idle", Seated', Others({k}),
           j.pc # "idle" => DoesWork(p, k)', Writes(k)', drives'[k] # 0 => j.pc # "idle",
           UNCHANGED connections
    PROVE  Structure'
<1> USE DEF Base
<1>1. WorkedOn(k)'
  <2> SUFFICES ASSUME NEW q \in Proc, WorksOn(q, k)' PROVE DoesWork(q, k)'
    BY DEF WorkedOn
  <2>1. q = p
    BY OneWorker DEF Structure, Steps, WorksOn
  <2> QED BY <2>1 DEF WorksOn, Steps
<1>2. Owned(k)'
  <2>1. p = k \/ k \in Served
    BY WorkerOf DEF Structure
  <2> QED BY <2>1 DEF Owned, Served, Steps
<1>3. SessionOK(k)'
  BY <1>1, <1>2 DEF SessionOK
<1>4. p \in Conn => p \in {k}
  BY WorkerOf DEF Structure
<1>5. j.pc \in Closing \cup Opening => j.conn \in {k}
  BY DEF Closing, Opening
<1> QED BY <1>3, <1>4, <1>5, StructureOf

LEMMA DropsKeepsStructure ==
    ASSUME Base, NEW p \in Proc, NEW k \in Conn, WorksOn(p, k), NEW j, Drops(p, j),
           loop[k].pc = "idle", UNCHANGED <<connections, client, sds, loop>>
    PROVE  Structure'
<1> USE DEF Base
<1>1. /\ job[p].conn = k /\ drives \in [Conn -> DOMAIN sds \cup {0}]
      /\ drives' = [drives EXCEPT ![k] = 0]
  BY TypesNow DEF WorksOn, Drops
<1>2. Seated'
  <2>1. CASE j = NoJob
    <3>1. SeatedJob(p, NoJob)
      BY DEF SeatedJob, NoJob
    <3> QED BY <2>1, <3>1, SeatedGoes DEF Structure, Drops
  <2>2. CASE j # NoJob
    BY <2>2, SeatedGoesOn DEF Drops, OpensAs, SameTask
  <2> QED BY <2>1, <2>2
<1>3. Others({k})
  BY <1>1 DEF Others, Served
<1>4. j.conn = k \/ j.pc = "idle"
  BY <1>1 DEF Drops, SameTask, NoJob
<1>5. j.pc # "idle" => DoesWork(p, k)'
  BY <1>1 DEF Drops, OpensAs, DoesWork, Steps, Opening, Closing, NoJob
<1>6. Writes(k)' /\ drives'[k] = 0
  BY <1>1 DEF Writes
<1> QED BY <1>2, <1>3, <1>4, <1>5, <1>6, WorkerKeepsStructure DEF Drops

\* Nothing is in flight on a handle that has been closed, and no fork has met the sync.
LEMMA ClosedIsIdle ==
    ASSUME Base, NEW p \in Proc, NEW k \in Conn, WorksOn(p, k),
           job[p].pc = "close" => ~InFlight(p), job[p].pc \in Closing
    PROVE  loop[k].pc = "idle"
<1> USE DEF Base
<1>1. SessionOK(k) /\ DoesWork(p, k)
  BY DEF Structure, SessionOK, WorkedOn
<1>2. loop[k].pc \in LoopPc
  BY TypesNow DEF Write
<1>3. loop[k].pc \notin {"copy", "reopen"}
  BY DEF Overlap, ForkMeets
<1>4. loop[k].pc \in {"write", "fsync"} => InFlight(p)
  BY <1>1 DEF DoesWork, SessionOK, Writes, InFlight, WorksOn, Closing
<1> QED BY <1>1, <1>2, <1>3, <1>4 DEF LoopPc, DoesWork, Closing

LEMMA ClosingKeepsStructure ==
    ASSUME Base, NEW p \in Proc, HandleClosed(p) \/ SplinterUnlinked(p)
    PROVE  Structure'
<1>0. IndInv /\ Structure
  BY DEF Base
<1>1. UNCHANGED <<connections, client, sds, loop>>
  BY DEF HandleClosed, SplinterUnlinked, net
<1>2. PICK k \in Conn : WorksOn(p, k) /\ job[p].conn = k
  BY <1>0, TypesNow DEF HandleClosed, SplinterUnlinked, At, WorksOn, Fits
<1>3. loop[k].pc = "idle"
  <2>1. CASE HandleClosed(p)
    <3>1. job[p].pc \in Closing /\ ~InFlight(p)
      BY <2>1 DEF HandleClosed, At, Closing
    <3> QED BY <1>2, <3>1, ClosedIsIdle
  <2>2. CASE SplinterUnlinked(p)
    <3>1. job[p].pc \in Closing /\ job[p].pc # "close"
      BY <2>2 DEF SplinterUnlinked, At, Closing
    <3> QED BY <1>2, <3>1, ClosedIsIdle
  <2> QED BY <2>1, <2>2
<1>4. CASE DriveClosed(p)
  <2>1. PICK j : Drops(p, j)
    BY <1>0, <1>4, DriveClosedDoes
  <2> QED BY <1>1, <1>2, <1>3, <2>1, DropsKeepsStructure
<1>5. CASE ~DriveClosed(p)
  <2>1. /\ Go(p, [job[p] EXCEPT !.pc = "unlink"]) /\ UNCHANGED drives
        /\ job[p].pc = "close"
    BY <1>5 DEF HandleClosed, SplinterUnlinked, At
  <2>2. PICK j : /\ Steps(p, j) /\ SameTask(j, job[p]) /\ j.pc = "unlink"
                 /\ j.sd = job[p].sd /\ j.scratch = job[p].scratch
    BY <1>0, <2>1, PcSteps
  <2>3. Seated'
    BY <1>1, <1>2, <2>2, SeatedGoesOn DEF Opening
  <2>4. Others({k})
    BY <1>1, <2>1 DEF Others, Served
  <2>5. SessionOK(k) /\ DoesWork(p, k)
    BY <1>0, <1>2 DEF Structure, SessionOK, WorkedOn
  <2>6. DoesWork(p, k)' /\ Writes(k)'
    BY <1>1, <1>3, <2>1, <2>2, <2>5 DEF DoesWork, Steps, Opening, Closing, Writes
  <2> QED BY <1>1, <1>2, <2>2, <2>3, <2>4, <2>6, WorkerKeepsStructure DEF SameTask
<1> QED BY <1>4, <1>5

\* What reattaching and opening an image have in common.
LEMMA AttachingDoes ==
    ASSUME Base, NEW p \in Proc, Reattached(p) \/ MasterOpened(p)
    PROVE  /\ UNCHANGED <<mounts, overrides, epoch, files, masterFile, splinterFile, scratches,
                          rows, connections, client, socket, loop, requests, stamps, acked>>
           /\ \E k, n, file, scratch, j :
                /\ k \in Conn /\ WorksOn(p, k) /\ job[p].conn = k /\ job[p].pc \in Opening
                /\ drives[k] = 0 /\ loop[k].pc = "idle"
                /\ job[p].entry # NoEntry
                /\ Attaches(p, n, file, scratch)
                /\ Steps(p, j) /\ SameTask(j, job[p]) /\ j.pc = "sync"
                /\ \/ /\ job[p].pc = "reattach" /\ scratch = file
                      /\ file = splinterFile[client[k]] /\ file # 0
                   \/ job[p].pc = "open" /\ scratch = 0
<1> USE DEF Base
<1>1. UNCHANGED <<mounts, overrides, epoch, files, masterFile, splinterFile, scratches,
                  rows, connections, client, socket, loop, requests, stamps, acked>>
  BY DEF Reattached, MasterOpened, tables, disk, net, bounds
<1>2. job[p].pc \in {"reattach", "open"} /\ Fits(p, job[p])
  BY TypesNow DEF Reattached, MasterOpened, At
<1>3. PICK k \in Conn : WorksOn(p, k) /\ job[p].conn = k
  BY <1>2 DEF WorksOn, Fits
<1>4. drives[k] = 0 /\ loop[k].pc = "idle"
  <2>1. SessionOK(k) /\ DoesWork(p, k)
    BY <1>3 DEF Structure, SessionOK, WorkedOn
  <2> QED BY <1>2, <2>1, SessionFacts DEF DoesWork, SessionOK, Writes, Opening
<1>5. CASE Reattached(p)
  <2>1. PICK file \in DOMAIN files :
          /\ file = splinterFile[client[k]] /\ file # 0 /\ Attach(p, file, TRUE, file)
          /\ job[p].pc = "reattach"
    <3>1. client[k] \in Client
      BY <1>2, <1>3, <1>5 DEF Reattached, At, Fits, Persistent, IndInv, NetOK
    <3>2. splinterFile[client[k]] \in DOMAIN files \cup {0}
      BY <3>1 DEF IndInv, DiskOK
    <3> QED BY <1>3, <1>5, <3>2 DEF Reattached, Exists, At
  <2>2. file \in Nat
    BY LenProperties DEF IndInv, DiskOK
  <2>3. /\ \E n : Attaches(p, n, file, file)
        /\ \E j : Steps(p, j) /\ SameTask(j, job[p]) /\ j.pc = "sync"
    BY <1>2, <2>1, <2>2, AttachDoes
  <2> QED BY <1>1, <1>2, <1>3, <1>4, <2>1, <2>3 DEF Fits, Opening
<1>6. CASE MasterOpened(p)
  <2>1. PICK file \in DOMAIN files, rw \in BOOLEAN : Attach(p, file, rw, 0) /\ job[p].pc = "open"
    <3>1. job[p].entry.filename \in Image
      BY <1>2, <1>6 DEF MasterOpened, At, Fits
    <3>2. masterFile[job[p].entry.filename] \in DOMAIN files
      BY <3>1 DEF IndInv, DiskOK
    <3>3. WritesMaster(job[p].conn) \in BOOLEAN
      BY DEF WritesMaster
    <3> QED BY <1>6, <3>2, <3>3 DEF MasterOpened, At
  <2>2. /\ \E n : Attaches(p, n, file, 0)
        /\ \E j : Steps(p, j) /\ SameTask(j, job[p]) /\ j.pc = "sync"
    BY <1>2, <2>1, AttachDoes
  <2> QED BY <1>1, <1>2, <1>3, <1>4, <2>1, <2>2 DEF Fits, Opening
<1> QED BY <1>5, <1>6

LEMMA AttachingKeepsStructure ==
    ASSUME Base, NEW p \in Proc, Reattached(p) \/ MasterOpened(p)
    PROVE  Structure'
<1> USE DEF Base
<1>1. UNCHANGED <<connections, client, loop>>
  BY AttachingDoes
<1>2. PICK k, n, file, scratch, j :
                /\ k \in Conn /\ WorksOn(p, k) /\ job[p].conn = k /\ job[p].pc \in Opening
                /\ drives[k] = 0 /\ loop[k].pc = "idle"
                /\ Attaches(p, n, file, scratch)
                /\ Steps(p, j) /\ SameTask(j, job[p]) /\ j.pc = "sync"
  BY AttachingDoes
<1>3. Seated'
  <2>1. j.kind # "remove"
    BY <1>2 DEF Structure, Seated, SeatedJob, SameTask, Opening, Closing, Proc
  <2> QED BY <1>1, <1>2, <2>1, SeatedGoesOn DEF Opening
<1>4. Others({k})
  <2>1. \A l \in Conn : drives[l] # 0 => drives[l] \in DOMAIN sds
    BY SessionFacts
  <2>2. \A l \in Conn : l # k => drives'[l] = drives[l]
    BY <1>2, TypesNow DEF Attaches
  <2> QED BY <1>1, <1>2, <2>1, <2>2 DEF Others, Served, Attaches
<1>5. DoesWork(p, k)' /\ Writes(k)'
  BY <1>1, <1>2 DEF DoesWork, Steps, Writes, Opening, Closing
<1> QED BY <1>1, <1>2, <1>3, <1>4, <1>5, WorkerKeepsStructure DEF SameTask

\* What the other steps of openDrive have in common.
LEMMA OpeningDoes ==
    ASSUME Base, NEW p \in Proc, ReattachFails(p) \/ Discarded(p) \/ OpenFails(p)
    PROVE  /\ UNCHANGED <<mounts, overrides, epoch, files, masterFile, scratches, connections,
                          client, socket, sds, drives, loop, requests, stamps, acked>>
           /\ \E k, j :
                /\ k \in Conn /\ WorksOn(p, k) /\ job[p].conn = k /\ job[p].pc \in Opening
                /\ drives[k] = 0 /\ loop[k].pc = "idle"
                /\ job[p].entry # NoEntry
                /\ Steps(p, j) /\ SameTask(j, job[p])
                /\ \/ OpenFails(p) /\ j.pc = "sync"
                   \/ ~OpenFails(p) /\ j.pc = "open"
<1>0. IndInv /\ Structure
  BY DEF Base
<1>1. UNCHANGED <<mounts, overrides, epoch, files, masterFile, scratches, connections,
                  client, socket, sds, loop, requests, stamps, acked>>
  BY DEF ReattachFails, Discarded, OpenFails, tables, disk, net, session, bounds
<1>2. job[p].pc \in Opening /\ Fits(p, job[p])
  BY <1>0, TypesNow DEF ReattachFails, Discarded, OpenFails, At, Opening
<1>3. PICK k \in Conn : WorksOn(p, k) /\ job[p].conn = k
  BY <1>2 DEF WorksOn, Fits, Opening
<1>4. drives[k] = 0 /\ loop[k].pc = "idle"
  <2>1. SessionOK(k) /\ DoesWork(p, k)
    BY <1>0, <1>3 DEF Structure, SessionOK, WorkedOn
  <2> QED BY <1>0, <1>2, <2>1, SessionFacts DEF DoesWork, SessionOK, Writes
<1>5. drives' = drives
  BY <1>0, <1>3, <1>4, TypesNow DEF ReattachFails, Discarded, OpenFails, session
<1>6. job[p].entry # NoEntry
  BY <1>2 DEF Fits, Opening
<1>7. CASE OpenFails(p)
  <2>1. Go(p, [job[p] EXCEPT !.pc = "sync"])
    BY <1>7 DEF OpenFails
  <2>2. Steps(p, job'[p]) /\ SameTask(job'[p], job[p]) /\ job'[p].pc = "sync"
    BY <1>0, <2>1, PcSteps
  <2> QED BY <1>1, <1>2, <1>3, <1>4, <1>5, <1>6, <1>7, <2>2
<1>8. CASE ~OpenFails(p)
  <2>1. Go(p, [job[p] EXCEPT !.pc = "open"])
    BY <1>8 DEF ReattachFails, Discarded
  <2>2. Steps(p, job'[p]) /\ SameTask(job'[p], job[p]) /\ job'[p].pc = "open"
    BY <1>0, <2>1, PcSteps
  <2> QED BY <1>1, <1>2, <1>3, <1>4, <1>5, <1>6, <1>8, <2>2
<1> QED BY <1>7, <1>8

LEMMA OpeningKeepsStructure ==
    ASSUME Base, NEW p \in Proc, ReattachFails(p) \/ Discarded(p) \/ OpenFails(p)
    PROVE  Structure'
<1> USE DEF Base
<1>1. UNCHANGED <<connections, client, sds, drives, loop>>
  BY OpeningDoes
<1>2. PICK k, j :
                /\ k \in Conn /\ WorksOn(p, k) /\ job[p].conn = k /\ job[p].pc \in Opening
                /\ drives[k] = 0 /\ loop[k].pc = "idle"
                /\ Steps(p, j) /\ SameTask(j, job[p])
                /\ j.pc \in {"sync", "open"}
  BY OpeningDoes
<1>3. Seated'
  <2>1. j.kind # "remove"
    BY <1>2 DEF Structure, Seated, SeatedJob, SameTask, Opening, Closing, Proc
  <2> QED BY <1>1, <1>2, <2>1, SeatedGoesOn DEF Opening
<1>4. Others({k})
  BY <1>1 DEF Others, Served
<1>5. DoesWork(p, k)' /\ Writes(k)'
  BY <1>1, <1>2 DEF DoesWork, Steps, Writes, Opening, Closing
<1> QED BY <1>1, <1>2, <1>3, <1>4, <1>5, WorkerKeepsStructure DEF SameTask

-----------------------------------------------------------------------------
(* Connections, writes and requests keep the structure *)

LEMMA NewConnection ==
    ASSUME Base, NEW k \in Conn, socket[k] = "new"
    PROVE  /\ drives[k] = 0 /\ loop[k].pc = "idle" /\ k \notin Served /\ job[k].pc = "idle"
           /\ \A p \in Proc : ~WorksOn(p, k)
<1>0. IndInv /\ Structure
  BY DEF Base
<1>1. drives[k] = 0 /\ loop[k].pc = "idle" /\ k \notin Served
  BY <1>0, SessionFacts
<1>2. \A p \in Proc : ~WorksOn(p, k)
  BY <1>0, TypesNow DEF WorksOn, Fits
<1>3. job[k].pc = "idle"
  <2>1. SeatedJob(k, job[k]) /\ Fits(k, job[k]) /\ k \in Proc
    BY <1>0, TypesNow DEF Structure, Seated, Proc
  <2> QED BY <1>2, <2>1 DEF SeatedJob, Fits, WorksOn, Opening, Closing
<1> QED BY <1>1, <1>2, <1>3

LEMMA ConnectKeepsStructure ==
    ASSUME Base, NEW k \in Conn, NEW c \in Client \cup {Anonymous}, Connect(k, c)
    PROVE  Structure'
<1> USE DEF Base
<1>1. /\ UNCHANGED <<connections, sds, drives, loop>>
      /\ socket[k] = "new" /\ k \in Proc
      /\ client' = [client EXCEPT ![k] = c]
      /\ Go(k, [NoJob EXCEPT !.pc = "sync", !.kind = "connect"])
  BY DEF Connect, session, Proc
<1>2. PICK j : j = [NoJob EXCEPT !.pc = "sync", !.kind = "connect"]
  OBVIOUS
<1>3. Steps(k, j) /\ j.pc = "sync" /\ j.kind = "connect"
  BY <1>1, <1>2, Went DEF NoJob
<1>4. /\ drives[k] = 0 /\ loop[k].pc = "idle" /\ k \notin Served /\ job[k].pc = "idle"
      /\ \A p \in Proc : ~WorksOn(p, k)
  BY <1>1, NewConnection
<1>5. Seated'
  <2>1. SeatedJob(k, j)
    BY <1>3, <1>4, NamesAssumption DEF SeatedJob
  <2> QED BY <1>1, <1>3, <2>1, SeatedGoes DEF Structure
<1>6. Others({k})
  BY <1>1 DEF Others, Served, IndInv, NetOK
<1>7. SessionOK(k)'
  <2>1. WorkedOn(k)'
    BY <1>3, <1>4 DEF WorkedOn, WorksOn, Steps
  <2>2. Writes(k)' /\ Owned(k)'
    BY <1>1, <1>4 DEF Writes, Owned
  <2> QED BY <2>1, <2>2 DEF SessionOK
<1> QED
  <2>1. j.pc \notin Closing \cup Opening
    BY <1>3 DEF Closing, Opening
  <2> QED BY <1>1, <1>3, <1>5, <1>6, <1>7, <2>1, StructureOf

\* A peer that leaves takes its connection out of the map, and only this one.
LEMMA LeaveDoes ==
    ASSUME Base, NEW k \in Conn, Leave(k)
    PROVE  /\ UNCHANGED <<mounts, overrides, epoch, files, masterFile, splinterFile, scratches,
                          rows, client, drives, loop, requests, stamps, acked>>
           /\ \A l \in Conn : l # k => socket'[l] = socket[l]
           /\ Served' = Served \ {k}
           /\ \A i, n \in DOMAIN connections' : connections'[i] = connections'[n] => i = n
           /\ k \in Proc
           /\ \/ /\ k \in Served /\ drives[k] # 0 /\ drives[k] \in DOMAIN sds
                 /\ Shuts(drives[k])
                 /\ Steps(k, job'[k])
                 /\ job'[k].pc = "close" /\ job'[k].kind = "remove" /\ job'[k].conn = k
                 /\ job'[k].sd = drives[k] /\ job'[k].scratch = sds[drives[k]].scratch
                 /\ job'[k].entry = NoEntry
              \/ ~(k \in Served /\ drives[k] # 0) /\ UNCHANGED <<sds, job>>
<1> USE DEF Base
<1>1. /\ UNCHANGED <<mounts, overrides, epoch, files, masterFile, splinterFile, scratches,
                     rows, client, drives, loop, requests, stamps, acked>>
      /\ socket' = [socket EXCEPT ![k] = "closed"]
      /\ k \in Proc
  BY DEF Leave, tables, disk, bounds, Proc
<1>2. \A l \in Conn : l # k => socket'[l] = socket[l]
  BY <1>1 DEF IndInv, NetOK
<1>3. /\ connections \in Seq(Conn)
      /\ \A i, n \in DOMAIN connections : connections[i] = connections[n] => i = n
  BY DEF IndInv, NetOK, Structure, Seated
<1>4. /\ Served' = Served \ {k}
      /\ \A i, n \in DOMAIN connections' : connections'[i] = connections'[n] => i = n
  <2>1. CASE k \in Served
    <3> DEFINE at == CHOOSE i \in DOMAIN connections : connections[i] = k
    <3>1. at \in DOMAIN connections /\ connections[at] = k
      BY <2>1 DEF Served
    <3>2. connections' = RemoveAt(connections, at)
      BY <2>1 DEF Leave
    <3> HIDE DEF at
    <3>3. DOMAIN connections = 1 .. Len(connections) /\ Len(connections) \in Nat
      BY <1>3, LenProperties
    <3>4. PICK len \in Nat : len = Len(connections)
      BY <3>3
    <3>5. /\ DOMAIN connections' = 1 .. len - 1
          /\ \A n \in 1 .. len - 1 :
               connections'[n] = IF n < at THEN connections[n] ELSE connections[n + 1]
      BY <1>3, <3>1, <3>2, <3>4, RemoveFrom
    <3>6. \A i, n \in 1 .. len : connections[i] = connections[n] => i = n
      BY <1>3, <3>3, <3>4
    <3>7. at \in 1 .. len
      BY <3>1, <3>3, <3>4
    <3>8. \A i, n \in DOMAIN connections' : connections'[i] = connections'[n] => i = n
      <4> SUFFICES ASSUME NEW i \in 1 .. len - 1, NEW n \in 1 .. len - 1,
                          connections'[i] = connections'[n]
                   PROVE  i = n
        BY <3>5
      <4>1. PICK ii \in 1 .. len : ii = IF i < at THEN i ELSE i + 1
        BY <3>4, <3>7
      <4>2. PICK nn \in 1 .. len : nn = IF n < at THEN n ELSE n + 1
        BY <3>4, <3>7
      <4>3. connections[ii] = connections[nn]
        BY <3>5, <4>1, <4>2
      <4>4. ii = nn
        BY <3>6, <4>3
      <4> QED BY <3>7, <4>1, <4>2, <4>4
    <3>9. Served' \subseteq Served \ {k}
      <4> SUFFICES ASSUME NEW i \in 1 .. len - 1
                   PROVE  connections'[i] \in Served /\ connections'[i] # k
        BY <3>5 DEF Served
      <4>1. PICK ii \in 1 .. len : ii # at /\ ii = IF i < at THEN i ELSE i + 1
        BY <3>4, <3>7
      <4>2. connections'[i] = connections[ii]
        BY <3>5, <4>1
      <4> QED BY <3>1, <3>3, <3>4, <3>6, <3>7, <4>1, <4>2 DEF Served
    <3>10. Served \ {k} \subseteq Served'
      <4> SUFFICES ASSUME NEW i \in 1 .. len, connections[i] # k
                   PROVE  connections[i] \in Served'
        BY <3>3, <3>4 DEF Served
      <4>1. i # at
        BY <3>1
      <4>2. PICK n \in 1 .. len - 1 : i = IF n < at THEN n ELSE n + 1
        <5>1. i < at => i \in 1 .. len - 1
          BY <3>4, <3>7
        <5>2. ~(i < at) => i - 1 \in 1 .. len - 1 /\ ~(i - 1 < at) /\ i - 1 + 1 = i
          BY <3>4, <3>7, <4>1
        <5> QED BY <5>1, <5>2
      <4>3. connections[i] = connections'[n]
        BY <3>5, <4>2
      <4> QED BY <3>5, <4>3 DEF Served
    <3> QED BY <3>8, <3>9, <3>10
  <2>2. CASE k \notin Served
    <3>1. connections' = connections
      BY <2>2 DEF Leave
    <3> QED BY <1>3, <2>2, <3>1 DEF Served
  <2> QED BY <2>1, <2>2
<1>5. CASE k \in Served /\ drives[k] # 0
  <2>1. PICK i : i = [NoJob EXCEPT !.kind = "remove", !.conn = k]
    OBVIOUS
  <2>2. CloseDrive(k, i) /\ i.conn = k /\ i.kind = "remove" /\ i.entry = NoEntry
    BY <1>5, <2>1 DEF Leave, NoJob
  <2>3. PICK j : j = [i EXCEPT !.pc = "close", !.sd = drives[k], !.scratch = sds[drives[k]].scratch]
    OBVIOUS
  <2>4. /\ j.pc = "close" /\ j.kind = "remove" /\ j.conn = k /\ j.entry = NoEntry
        /\ j.sd = drives[k] /\ j.scratch = sds[drives[k]].scratch
    BY <2>1, <2>3 DEF NoJob
  <2>5. Go(k, j) /\ sds' = CloseRequested(drives[k])
    BY <2>2, <2>3 DEF CloseDrive
  <2>6. drives[k] \in DOMAIN sds
    BY <1>5, SessionFacts
  <2>7. Steps(k, j) /\ Shuts(drives[k])
    BY <1>1, <2>5, <2>6, Went, Closes
  <2>8. job'[k] = j
    BY <2>7 DEF Steps
  <2> QED BY <1>1, <1>2, <1>4, <1>5, <2>4, <2>6, <2>7, <2>8
<1>6. CASE ~(k \in Served /\ drives[k] # 0)
  <2>1. UNCHANGED <<sds, job>>
    BY <1>6 DEF Leave
  <2> QED BY <1>1, <1>2, <1>4, <1>6, <2>1
<1> QED BY <1>5, <1>6

LEMMA LeaveKeepsStructure ==
    ASSUME Base, ~Overlap', NEW k \in Conn, Leave(k)
    PROVE  Structure'
<1> USE DEF Base
<1>1. /\ UNCHANGED <<client, drives, loop>>
      /\ Served' = Served \ {k}
      /\ \A i, n \in DOMAIN connections' : connections'[i] = connections'[n] => i = n
      /\ k \in Proc
  BY LeaveDoes
<1>2. SessionOK(k) /\ SeatedJob(k, job[k])
  BY <1>1 DEF Structure, Seated
<1>3. CASE k \in Served /\ drives[k] # 0
  <2>1. /\ drives[k] \in DOMAIN sds /\ Shuts(drives[k])
        /\ Steps(k, job'[k])
        /\ job'[k].pc = "close" /\ job'[k].kind = "remove" /\ job'[k].conn = k
        /\ job'[k].sd = drives[k] /\ job'[k].scratch = sds[drives[k]].scratch
    BY <1>3, LeaveDoes
  <2>2. Seated'
    <3>1. ASSUME NEW q \in Proc, q # k PROVE SeatedJob(q, job[q])'
      <4>1. SeatedJob(q, job[q]) /\ job'[q] = job[q]
        BY <2>1, <3>1 DEF Structure, Seated, Steps
      <4> QED BY <1>1, <4>1 DEF SeatedJob
    <3>2. SeatedJob(k, job[k])'
      BY <1>1, <2>1, NamesAssumption DEF SeatedJob, Closing
    <3> QED BY <1>1, <3>1, <3>2 DEF Seated
  <2>3. Others({k})
    <3>1. \A l \in Conn : l # k /\ drives[l] # 0 => sds'[drives[l]] = sds[drives[l]]
      BY <2>1, SessionFacts DEF Shuts
    <3> QED BY <1>1, <3>1 DEF Others
  <2>4. WorkedOn(k)'
    <3> SUFFICES ASSUME NEW q \in Proc, WorksOn(q, k)' PROVE DoesWork(q, k)'
      BY DEF WorkedOn
    <3>1. WorksOn(k, k)'
      BY <2>1 DEF WorksOn
    <3>2. q = k
      BY <1>1, <2>2, <3>1, OneWorkerThen
    <3> QED BY <1>1, <1>3, <2>1, <3>2 DEF DoesWork, Opening, Shuts
  <2>5. Writes(k)'
    <3>1. loop[k].pc # "idle" => loop[k].sd = drives[k]
      BY <1>2 DEF SessionOK, Writes
    <3> QED BY <1>1, <1>2, <2>1, <3>1 DEF SessionOK, Writes, WritesMaster, Shuts
  <2>6. Owned(k)'
    BY <2>1 DEF Owned
  <2> QED BY <1>1, <2>1, <2>2, <2>3, <2>4, <2>5, <2>6, StructureOf DEF SessionOK
<1>4. CASE ~(k \in Served /\ drives[k] # 0)
  <2>1. UNCHANGED <<sds, job>>
    BY <1>4, LeaveDoes
  <2>2. Seated'
    BY <1>1, <2>1 DEF Structure, Seated, SeatedJob
  <2>3. Others({k})
    BY <1>1, <2>1 DEF Others
  <2>4. SessionOK(k)'
    <3>1. WorkedOn(k)'
      BY <1>1, <1>2, <2>1 DEF SessionOK, WorkedOn, WorksOn, DoesWork
    <3>2. Writes(k)'
      BY <1>1, <1>2, <2>1 DEF SessionOK, Writes, WritesMaster
    <3>3. Owned(k)'
      BY <1>1, <1>2, <1>4, <2>1 DEF SessionOK, Owned
    <3> QED BY <3>1, <3>2, <3>3 DEF SessionOK
  <2>5. Steps(k, job[k])
    BY <2>1 DEF Steps
  <2>6. job[k].pc \in Closing \cup Opening => job[k].conn \in {k}
    BY <1>2 DEF SeatedJob, Opening, Closing
  <2> QED BY <1>1, <2>2, <2>3, <2>4, <2>5, <2>6, StructureOf
<1> QED BY <1>3, <1>4

\* A write of session k goes on.
LEMMA WriteKeepsStructure ==
    ASSUME Base, NEW k \in Conn, UNCHANGED <<connections, client, drives, job>>,
           Others({k}), WorkedOn(k)', Writes(k)'
    PROVE  Structure'
<1> USE DEF Base
<1>1. SessionOK(k) /\ SeatedJob(k, job[k]) /\ k \in Proc
  BY DEF Structure, Seated, Proc
<1>2. Seated'
  BY DEF Structure, Seated, SeatedJob, Served
<1>3. SessionOK(k)'
  BY <1>1 DEF SessionOK, Owned, Served
<1>4. Steps(k, job[k])
  BY DEF Steps
<1>5. job[k].pc \in Closing \cup Opening => job[k].conn \in {k}
  BY <1>1 DEF SeatedJob, Opening, Closing
<1> QED BY <1>1, <1>2, <1>3, <1>4, <1>5, StructureOf

\* Nobody works on a session that forks, and its drive is there.
LEMMA WhoWrites ==
    ASSUME Base, NEW k \in Conn, loop[k].pc # "idle"
    PROVE  /\ drives[k] = loop[k].sd /\ drives[k] # 0 /\ drives[k] \in DOMAIN sds
           /\ loop[k].pc \in {"copy", "reopen"} =>
                /\ \A q \in Proc : ~WorksOn(q, k)
                /\ k \in Served
                /\ sds[drives[k]].scratch = 0 /\ ~WritesMaster(k)
           /\ \A q \in Proc : WorksOn(q, k) => job[q].pc = "close"
<1> USE DEF Base
<1>1. SessionOK(k)
  BY DEF Structure
<1>2. drives[k] = loop[k].sd /\ drives[k] # 0 /\ drives[k] \in DOMAIN sds
  BY <1>1, SessionFacts DEF SessionOK, Writes
<1>3. ASSUME loop[k].pc \in {"copy", "reopen"}
      PROVE  /\ \A q \in Proc : ~WorksOn(q, k)
             /\ k \in Served
             /\ sds[drives[k]].scratch = 0
  BY <1>1, <1>2, <1>3 DEF Overlap, ForkMeets, SessionOK, Writes
<1>4. loop[k].pc \in {"copy", "reopen"} => ~WritesMaster(k)
  BY DEF IndInv, Labelled, Labels, LoopsLabelled
<1>5. \A q \in Proc : WorksOn(q, k) => job[q].pc = "close"
  BY <1>1, <1>2 DEF SessionOK, WorkedOn, DoesWork, WorksOn, Opening, Closing
<1> QED BY <1>2, <1>3, <1>4, <1>5

\* A step of a write that leaves the drives alone: it ends, or reaches its fsync.
LEMMA LoopGoesOn ==
    ASSUME Base, NEW k \in Conn,
           ForkCopyFails(k) \/ ForkFails(k) \/ WriteLands(k) \/ WriteSynced(k)
    PROVE  /\ UNCHANGED <<mounts, overrides, epoch, masterFile, scratches, rows, connections,
                          client, socket, sds, drives, job, requests, stamps>>
           /\ loop[k].pc # "idle"
           /\ \A l \in Conn : l # k => loop'[l] = loop[l]
           /\ \/ loop'[k] = NoWrite
              \/ /\ WriteLands(k) /\ loop'[k].pc = "fsync" /\ sds[loop[k].sd].open
                 /\ loop'[k].sd = loop[k].sd /\ loop'[k].file = loop[k].file
                 /\ loop'[k].stamp = loop[k].stamp
<1>0. IndInv
  BY DEF Base
<1>1. /\ UNCHANGED <<mounts, overrides, epoch, masterFile, scratches, rows, connections,
                     client, socket, sds, drives, job, requests, stamps>>
      /\ loop[k].pc # "idle"
  BY DEF ForkCopyFails, ForkFails, WriteLands, WriteSynced, tables, disk, net, session,
     bounds, LoopAt
<1>2. loop \in [Conn -> Write] /\ loop[k] \in Write
  BY <1>0, TypesNow
<1>3. CASE LoopIdle(k)
  BY <1>1, <1>2, <1>3 DEF LoopIdle
<1>4. CASE ~LoopIdle(k)
  <2>1. WriteLands(k) /\ loop' = [loop EXCEPT ![k].pc = "fsync"] /\ sds[loop[k].sd].open
    BY <1>4 DEF ForkCopyFails, ForkFails, WriteLands, WriteSynced
  <2>2. /\ loop'[k].pc = "fsync" /\ loop'[k].sd = loop[k].sd /\ loop'[k].file = loop[k].file
        /\ loop'[k].stamp = loop[k].stamp
        /\ \A l \in Conn : l # k => loop'[l] = loop[l]
    BY <1>2, <2>1 DEF Write
  <2> QED BY <1>1, <2>1, <2>2
<1> QED BY <1>3, <1>4

LEMMA LoopsKeepStructure ==
    ASSUME Base, NEW k \in Conn,
           ForkCopyFails(k) \/ ForkFails(k) \/ WriteLands(k) \/ WriteSynced(k)
    PROVE  Structure'
<1> USE DEF Base
<1>1. /\ UNCHANGED <<connections, client, sds, drives, job>>
      /\ loop[k].pc # "idle"
      /\ \A l \in Conn : l # k => loop'[l] = loop[l]
      /\ \/ loop'[k] = NoWrite
         \/ /\ WriteLands(k) /\ loop'[k].pc = "fsync"
            /\ loop'[k].sd = loop[k].sd /\ loop'[k].file = loop[k].file
  BY LoopGoesOn
<1>2. SessionOK(k)
  BY DEF Structure
<1>3. Others({k})
  BY <1>1 DEF Others, Served
<1>4. WorkedOn(k)'
  BY <1>1, <1>2, WhoWrites DEF SessionOK, WorkedOn, WorksOn, DoesWork
<1>5. Writes(k)'
  <2>1. WriteLands(k) => loop[k].pc = "write"
    BY DEF WriteLands, LoopAt
  <2> QED BY <1>1, <1>2, <2>1 DEF SessionOK, Writes, WritesMaster, NoWrite
<1> QED BY <1>1, <1>3, <1>4, <1>5, WriteKeepsStructure

\* The new file of a fork: the client's splinter, or one more file.
LEMMA ForkCopiedDoes ==
    ASSUME Base, NEW k \in Conn, ForkCopied(k)
    PROVE  /\ UNCHANGED <<mounts, overrides, epoch, masterFile, rows, connections, client, socket,
                          drives, job, requests, stamps, acked>>
           /\ loop[k].pc = "copy" /\ Shuts(drives[k])
           /\ loop'[k].pc = "reopen" /\ loop'[k].sd = drives[k]
           /\ loop'[k].stamp = loop[k].stamp
           /\ \A l \in Conn : l # k => loop'[l] = loop[l]
           /\ loop'[k].file # 0
           /\ \A i \in DOMAIN files :
                /\ i # loop'[k].file => files'[i] = files[i]
                /\ i = loop'[k].file => Persistent(k) /\ i = splinterFile[client[k]]
           /\ IF Persistent(k)
              THEN /\ splinterFile' = [splinterFile EXCEPT ![client[k]] = loop'[k].file]
                   /\ UNCHANGED scratches
              ELSE scratches' = scratches \cup {loop'[k].file} /\ UNCHANGED splinterFile
<1>0. IndInv
  BY DEF Base
<1> DEFINE old == IF Persistent(k) THEN splinterFile[client[k]] ELSE 0
           new == IF old = 0 THEN Len(files) + 1 ELSE old
<1>1. /\ UNCHANGED <<mounts, overrides, epoch, masterFile, rows, connections, client, socket,
                     drives, job, requests, stamps, acked>>
      /\ loop[k].pc = "copy"
  BY DEF ForkCopied, LoopAt, tables, net, bounds
<1>2. /\ files' = IF old = 0 THEN Append(files, MasterOf(k)) ELSE [files EXCEPT ![old] = MasterOf(k)]
      /\ IF Persistent(k)
         THEN splinterFile' = [splinterFile EXCEPT ![client[k]] = new] /\ UNCHANGED scratches
         ELSE scratches' = scratches \cup {new} /\ UNCHANGED splinterFile
      /\ loop' = [loop EXCEPT ![k].pc = "reopen", ![k].file = new]
      /\ sds' = CloseRequested(loop[k].sd)
  BY DEF ForkCopied
<1>3. drives[k] = loop[k].sd /\ drives[k] \in DOMAIN sds
  BY <1>1, WhoWrites
<1>4. Shuts(drives[k])
  BY <1>0, <1>2, <1>3, Closes
<1>5. /\ files \in Seq(File) /\ DOMAIN files = 1 .. Len(files) /\ Len(files) \in Nat
      /\ splinterFile \in [Client -> DOMAIN files \cup {0}]
  BY <1>0, LenProperties DEF IndInv, DiskOK
<1>6. old \in DOMAIN files \cup {0}
  <2>1. Persistent(k) => client[k] \in Client
    BY <1>0 DEF Persistent, IndInv, NetOK
  <2> QED BY <1>5, <2>1
<1>7. new # 0 /\ (old = 0 => new \notin DOMAIN files)
  BY <1>5, <1>6
<1>8. /\ loop'[k].pc = "reopen" /\ loop'[k].sd = loop[k].sd /\ loop'[k].stamp = loop[k].stamp
      /\ loop'[k].file = new
      /\ \A l \in Conn : l # k => loop'[l] = loop[l]
  <2>1. loop \in [Conn -> Write] /\ loop[k] \in Write
    BY <1>0, TypesNow
  <2> HIDE DEF new
  <2> QED BY <1>2, <2>1 DEF Write
<1>9. ASSUME NEW i \in DOMAIN files
      PROVE  /\ i # new => files'[i] = files[i]
             /\ i = new => Persistent(k) /\ i = splinterFile[client[k]]
  <2>1. CASE old = 0
    <3>1. files' = Append(files, MasterOf(k)) /\ i # new
      BY <1>2, <1>7, <2>1
    <3>2. files'[i] = files[i]
      BY <1>5, <3>1
    <3> QED BY <3>1, <3>2
  <2>2. CASE old # 0
    <3>1. files' = [files EXCEPT ![old] = MasterOf(k)] /\ new = old
      BY <1>2, <2>2
    <3>2. Persistent(k) /\ old = splinterFile[client[k]]
      BY <2>2
    <3> QED BY <1>5, <3>1, <3>2
  <2> QED BY <2>1, <2>2
<1> HIDE DEF old, new
<1> QED BY <1>1, <1>2, <1>3, <1>4, <1>7, <1>8, <1>9

LEMMA ForkCopiedKeepsStructure ==
    ASSUME Base, NEW k \in Conn, ForkCopied(k)
    PROVE  Structure'
<1>0. IndInv /\ Structure
  BY DEF Base
<1>1. /\ UNCHANGED <<connections, client, drives, job>>
      /\ loop[k].pc = "copy" /\ Shuts(drives[k])
      /\ loop'[k].pc = "reopen" /\ loop'[k].sd = drives[k]
      /\ \A l \in Conn : l # k => loop'[l] = loop[l]
  BY ForkCopiedDoes
<1>2. /\ \A q \in Proc : ~WorksOn(q, k)
      /\ drives[k] \in DOMAIN sds /\ sds[drives[k]].scratch = 0
  BY <1>1, WhoWrites
<1>3. Others({k})
  <2>1. \A l \in Conn : l # k /\ drives[l] # 0 => sds'[drives[l]] = sds[drives[l]]
    BY <1>0, <1>1, <1>2, SessionFacts DEF Shuts
  <2> QED BY <1>1, <2>1 DEF Others, Served
<1>4. WorkedOn(k)'
  BY <1>1, <1>2 DEF WorkedOn, WorksOn
<1>5. Writes(k)'
  BY <1>1, <1>2 DEF Writes, Shuts
<1> QED BY <1>1, <1>3, <1>4, <1>5, WriteKeepsStructure

LEMMA ForkOpenedDoes ==
    ASSUME Base, NEW k \in Conn, ForkOpened(k)
    PROVE  /\ UNCHANGED <<mounts, overrides, epoch, files, masterFile, splinterFile, scratches,
                          connections, client, socket, drives, job, requests, stamps, acked>>
           /\ loop[k].pc = "reopen"
           /\ loop'[k].pc = "write" /\ loop'[k].sd = drives[k]
           /\ loop'[k].stamp = loop[k].stamp
           /\ \A l \in Conn : l # k => loop'[l] = loop[l]
           /\ Splinter(k) # 0 /\ loop'[k].file = Splinter(k)
           /\ DOMAIN sds' = DOMAIN sds
           /\ \A m \in DOMAIN sds : m # drives[k] => sds'[m] = sds[m]
           /\ sds'[drives[k]].file = Splinter(k) /\ sds'[drives[k]].scratch = Splinter(k)
           /\ sds'[drives[k]].master = sds[drives[k]].master
           /\ sds'[drives[k]].baseVersion = sds[drives[k]].baseVersion
           /\ rows' = IF Persistent(k) THEN [rows EXCEPT ![client[k]] = sds[drives[k]].master]
                      ELSE rows
<1>0. IndInv
  BY DEF Base
<1>1. /\ UNCHANGED <<mounts, overrides, epoch, files, masterFile, splinterFile, scratches,
                     connections, client, socket, drives, job, requests, stamps, acked>>
      /\ loop[k].pc = "reopen" /\ Splinter(k) # 0
  BY DEF ForkOpened, LoopAt, tables, net, bounds, Exists
<1>2. drives[k] = loop[k].sd /\ drives[k] \in DOMAIN sds
  BY <1>1, WhoWrites
<1>3. PICK e : e = [sds[loop[k].sd] EXCEPT !.file = Splinter(k), !.rw = TRUE, !.open = TRUE,
                                          !.scratch = Splinter(k)]
  OBVIOUS
<1>4. sds' = [sds EXCEPT ![loop[k].sd] = e]
  BY <1>3 DEF ForkOpened
<1>5. sds[loop[k].sd] \in SessionDrive /\ sds \in Seq(SessionDrive)
  BY <1>0, <1>2, SessionFacts, TypesNow
<1>6. /\ e.file = Splinter(k) /\ e.scratch = Splinter(k) /\ e.master = sds[loop[k].sd].master
      /\ e.baseVersion = sds[loop[k].sd].baseVersion
  BY <1>3, <1>5 DEF SessionDrive
<1>7. /\ DOMAIN sds' = DOMAIN sds /\ sds'[drives[k]] = e
      /\ \A m \in DOMAIN sds : m # drives[k] => sds'[m] = sds[m]
  BY <1>2, <1>4, <1>5
<1>8. /\ loop'[k].pc = "write" /\ loop'[k].sd = loop[k].sd /\ loop'[k].stamp = loop[k].stamp
      /\ loop'[k].file = Splinter(k)
      /\ \A l \in Conn : l # k => loop'[l] = loop[l]
  <2>1. loop \in [Conn -> Write] /\ loop[k] \in Write
    BY <1>0, TypesNow
  <2>2. loop' = [loop EXCEPT ![k].pc = "write", ![k].file = Splinter(k)]
    BY DEF ForkOpened
  <2> QED BY <2>1, <2>2 DEF Write
<1>9. rows' = IF Persistent(k) THEN [rows EXCEPT ![client[k]] = sds[drives[k]].master] ELSE rows
  BY <1>2 DEF ForkOpened
<1> QED BY <1>1, <1>2, <1>6, <1>7, <1>8, <1>9

LEMMA ForkOpenedKeepsStructure ==
    ASSUME Base, NEW k \in Conn, ForkOpened(k)
    PROVE  Structure'
<1>0. IndInv /\ Structure
  BY DEF Base
<1>1. /\ UNCHANGED <<connections, client, drives, job>>
      /\ loop[k].pc = "reopen"
      /\ loop'[k].pc = "write" /\ loop'[k].sd = drives[k]
      /\ \A l \in Conn : l # k => loop'[l] = loop[l]
      /\ Splinter(k) # 0 /\ loop'[k].file = Splinter(k)
      /\ \A m \in DOMAIN sds : m # drives[k] => sds'[m] = sds[m]
      /\ sds'[drives[k]].file = Splinter(k) /\ sds'[drives[k]].scratch = Splinter(k)
  BY ForkOpenedDoes
<1>2. /\ \A q \in Proc : ~WorksOn(q, k)
      /\ drives[k] \in DOMAIN sds
  BY <1>1, WhoWrites
<1>3. Others({k})
  <2>1. \A l \in Conn : l # k /\ drives[l] # 0 => sds'[drives[l]] = sds[drives[l]]
    BY <1>0, <1>1, <1>2, SessionFacts
  <2> QED BY <1>1, <2>1 DEF Others, Served
<1>4. WorkedOn(k)'
  BY <1>1, <1>2 DEF WorkedOn, WorksOn
<1>5. Writes(k)'
  BY <1>1, <1>2 DEF Writes
<1> QED BY <1>1, <1>3, <1>4, <1>5, WriteKeepsStructure

LEMMA WriteTrackDoes ==
    ASSUME Base, NEW k \in Conn, WriteTrack(k)
    PROVE  /\ UNCHANGED <<mounts, overrides, epoch, files, masterFile, splinterFile, scratches,
                          rows, connections, client, socket, sds, drives, job, requests, acked>>
           /\ stamps' = stamps + 1
           /\ k \in Served /\ loop[k].pc = "idle" /\ drives[k] # 0 /\ drives[k] \in DOMAIN sds
           /\ \A l \in Conn : l # k => loop'[l] = loop[l]
           /\ loop'[k].sd = drives[k] /\ loop'[k].stamp = stamps + 1
           /\ \/ loop'[k].pc = "copy" /\ sds[drives[k]].scratch = 0 /\ ~WritesMaster(k)
              \/ /\ loop'[k].pc = "write" /\ sds[drives[k]].open
                 /\ loop'[k].file = sds[drives[k]].file
                 /\ ~WritesMaster(k) => sds[drives[k]].scratch # 0
<1>0. IndInv
  BY DEF Base
<1>1. /\ UNCHANGED <<mounts, overrides, epoch, files, masterFile, splinterFile, scratches,
                     rows, connections, client, socket, sds, drives, job, requests, acked>>
      /\ stamps' = stamps + 1
      /\ k \in Served /\ loop[k].pc = "idle" /\ drives[k] # 0
  BY DEF WriteTrack, tables, disk, net, session
<1>2. drives[k] \in DOMAIN sds
  BY <1>0, <1>1, SessionFacts
<1>3. PICK pc \in {"copy", "write"} :
        /\ loop' = [loop EXCEPT ![k] = Writing(k, pc, drives[k])]
        /\ pc = "copy" => Forks(k, drives[k])
        /\ pc = "write" => ~Forks(k, drives[k]) /\ sds[drives[k]].open
  BY DEF WriteTrack
<1>4. PICK w : w = Writing(k, pc, drives[k])
  OBVIOUS
<1>5. /\ w.pc = pc /\ w.sd = drives[k] /\ w.stamp = stamps + 1
      /\ pc = "write" => w.file = sds[drives[k]].file
  BY <1>4 DEF Writing, NoWrite
<1>6. loop'[k] = w /\ \A l \in Conn : l # k => loop'[l] = loop[l]
  BY <1>0, <1>3, <1>4, TypesNow
<1> QED BY <1>1, <1>2, <1>3, <1>5, <1>6 DEF Forks

LEMMA WriteTrackKeepsStructure ==
    ASSUME Base, ~Overlap', NEW k \in Conn, WriteTrack(k)
    PROVE  Structure'
<1>0. IndInv /\ Structure
  BY DEF Base
<1>1. /\ UNCHANGED <<connections, client, sds, drives, job>>
      /\ loop[k].pc = "idle" /\ drives[k] # 0
      /\ \A l \in Conn : l # k => loop'[l] = loop[l]
      /\ loop'[k].sd = drives[k]
      /\ \/ loop'[k].pc = "copy" /\ sds[drives[k]].scratch = 0
         \/ /\ loop'[k].pc = "write" /\ sds[drives[k]].open
            /\ loop'[k].file = sds[drives[k]].file
            /\ ~WritesMaster(k) => sds[drives[k]].scratch # 0
  BY WriteTrackDoes
<1>2. Others({k})
  BY <1>1 DEF Others, Served
<1>3. WorkedOn(k)'
  <2> SUFFICES ASSUME NEW q \in Proc, WorksOn(q, k)' PROVE DoesWork(q, k)'
    BY DEF WorkedOn
  <2>1. WorksOn(q, k) /\ job[q].pc \in Closing \cup Opening
    BY <1>1 DEF WorksOn, Opening, Closing
  <2>2. DoesWork(q, k)
    BY <1>0, <2>1 DEF Structure, SessionOK, WorkedOn
  <2>3. ~sds[drives[k]].open
    BY <1>1, <2>1, <2>2 DEF DoesWork
  <2>4. loop'[k].pc = "copy"
    BY <1>1, <2>3
  <2> QED BY <2>4 DEF Overlap, ForkMeets
<1>4. Writes(k)'
  BY <1>1 DEF Writes, WritesMaster
<1> QED BY <1>1, <1>2, <1>3, <1>4, WriteKeepsStructure

\* Job j works on no session.
Aside(j) ==
    /\ j.pc \notin Closing \cup Opening
    /\ j.kind \notin {"connect", "remove"}
    /\ j.pc = "forget" => j.kind = "forget"

\* A request's own steps leave the sessions alone.
LEMMA RequestDoes ==
    ASSUME Base, NEW r \in Req, RequestNext(r)
    PROVE  /\ UNCHANGED <<scratches, connections, client, socket, sds, drives, loop, stamps>>
           /\ r \in Proc
           /\ Steps(r, job'[r])
           /\ job[r].pc \notin Closing \cup Opening \cup {"sync"}
           /\ Aside(job'[r])
<1>0. IndInv /\ r \in Proc /\ SeatedJob(r, job[r])
  BY DEF Base, Structure, Seated, Proc
<1>1. UNCHANGED <<scratches, connections, client, socket, sds, drives, loop, stamps>>
  BY DEF RequestNext, SetClientDrive, ClearClientDrive, ForgetClient, CommitClientSplinter,
     Forgotten, CommitChecked, CommitCopied, CommitRenamed, Reloaded, disk, net, session, bounds
<1>2. \E j : Go(r, j) /\ Aside(j)
  <2>1. ASSUME NEW c \in Client,
               \/ \E f \in Image : SetClientDrive(r, c, f)
               \/ ClearClientDrive(r, c)
               \/ ForgetClient(r, c)
               \/ CommitClientSplinter(r, c)
        PROVE  \E j : Go(r, j) /\ Aside(j)
    <3>1. PICK j :
            /\ Go(r, j)
            /\ \/ j = [NoJob EXCEPT !.pc = "sync", !.kind = "client", !.client = c]
               \/ j = [NoJob EXCEPT !.pc = "forget", !.kind = "forget", !.client = c,
                                    !.base = rows[c]]
               \/ j = [NoJob EXCEPT !.pc = "check", !.kind = "commit", !.client = c,
                                    !.base = rows[c]]
      BY <2>1 DEF SetClientDrive, ClearClientDrive, ForgetClient, CommitClientSplinter
    <3>2. /\ j.pc \in {"sync", "forget", "check"} /\ j.kind \in {"client", "forget", "commit"}
          /\ j.pc = "forget" => j.kind = "forget"
      BY <3>1 DEF NoJob
    <3> QED BY <3>1, <3>2 DEF Aside, Closing, Opening
  <2>2. ASSUME NEW pc, Go(r, [job[r] EXCEPT !.pc = pc]),
               pc \notin Closing \cup Opening \cup {"forget"}
        PROVE  \E j : Go(r, j) /\ Aside(j)
    <3>1. PICK j : j = [job[r] EXCEPT !.pc = pc]
      OBVIOUS
    <3>2. job[r] \in Job /\ job[r].kind \notin {"connect", "remove"}
      BY <1>0, TypesNow DEF SeatedJob
    <3>3. j.pc = pc /\ j.kind = job[r].kind
      BY <3>1, <3>2 DEF Job
    <3> QED BY <2>2, <3>1, <3>2, <3>3 DEF Aside
  <2>3. ASSUME Done(r)
        PROVE  \E j : Go(r, j) /\ Aside(j)
    <3>1. PICK j : j = NoJob
      OBVIOUS
    <3> QED BY <2>3, <3>1 DEF Done, NoJob, Aside, Closing, Opening
  <2>4. CASE CommitCopied(r) /\ ~Done(r)
    <3>1. PICK j : j = [job[r] EXCEPT !.pc = "rename", !.tmp = Len(files) + 1]
      OBVIOUS
    <3>2. Go(r, j)
      BY <2>4, <3>1 DEF CommitCopied
    <3>3. job[r] \in Job /\ job[r].kind \notin {"connect", "remove"}
      BY <1>0, TypesNow DEF SeatedJob
    <3>4. j.pc = "rename" /\ j.kind = job[r].kind
      BY <3>1, <3>3 DEF Job
    <3> QED BY <3>2, <3>3, <3>4 DEF Aside, Closing, Opening
  <2>5. CASE \/ Forgotten(r) \/ Reloaded(r)
             \/ CommitRenamed(r) \/ (CommitChecked(r) /\ ~Done(r))
    <3>1. PICK pc \in {"sync", "copy", "reload"} : Go(r, [job[r] EXCEPT !.pc = pc])
      BY <2>5 DEF Forgotten, Reloaded, CommitRenamed, CommitChecked
    <3> QED BY <2>2, <3>1 DEF Closing, Opening
  <2> QED BY <2>1, <2>3, <2>4, <2>5 DEF RequestNext
<1>3. /\ Steps(r, job'[r])
      /\ Aside(job'[r])
  <2>1. PICK j : Go(r, j) /\ Aside(j)
    BY <1>2
  <2>2. Steps(r, j)
    BY <1>0, <2>1, Went
  <2>3. job'[r] = j
    BY <2>2 DEF Steps
  <2> QED BY <2>1, <2>2, <2>3
<1>4. job[r].pc \notin Closing \cup Opening \cup {"sync"}
  BY DEF RequestNext, SetClientDrive, ClearClientDrive, ForgetClient, CommitClientSplinter,
     Forgotten, CommitChecked, CommitCopied, CommitRenamed, Reloaded, Request, At, Opening, Closing
<1> QED BY <1>0, <1>1, <1>3, <1>4

LEMMA RequestKeepsStructure ==
    ASSUME Base, NEW r \in Req, RequestNext(r)
    PROVE  Structure'
<1>0. Structure
  BY DEF Base
<1>1. /\ UNCHANGED <<connections, client, sds, drives, loop>>
      /\ r \in Proc /\ Steps(r, job'[r])
      /\ Aside(job'[r])
  BY RequestDoes
<1>2. r \notin Conn
  BY NamesAssumption
<1>3. Seated'
  <2>1. SeatedJob(r, job'[r])
    BY <1>1, <1>2 DEF SeatedJob, Aside
  <2> QED BY <1>0, <1>1, <2>1, SeatedGoes DEF Structure
<1>4. Others({})
  BY <1>1 DEF Others, Served
<1> QED BY <1>1, <1>2, <1>3, <1>4, StructureOf DEF Aside

LEMMA StillStructure ==
    ASSUME Structure, UNCHANGED <<connections, client, sds, drives, loop, job>>
    PROVE  Structure'
BY DEF Structure, Seated, SeatedJob, SessionOK, WorkedOn, WorksOn, DoesWork, Writes,
   WritesMaster, Owned, Served

LEMMA RestartDoes ==
    ASSUME Restart
    PROVE  /\ UNCHANGED <<overrides, epoch, files, masterFile, splinterFile, rows, client, stamps,
                          acked>>
           /\ Served' = {} /\ scratches' = {} /\ mounts' = NotMounted
           /\ \A k \in Conn : drives'[k] = 0 /\ loop'[k] = NoWrite
           /\ \A p \in Proc : job'[p] = NoJob
           /\ DOMAIN connections' = {}
<1>1. DOMAIN connections' = {}
  BY EmptySeq, LenProperties DEF Restart
<1> QED BY <1>1 DEF Restart, Served

LEMMA RestartKeepsStructure ==
    ASSUME Restart
    PROVE  Structure'
<1>1. /\ Served' = {} /\ DOMAIN connections' = {}
      /\ \A k \in Conn : drives'[k] = 0 /\ loop'[k].pc = "idle"
      /\ \A p \in Proc : job'[p].pc = "idle" /\ job'[p].kind = "none"
  BY RestartDoes DEF NoWrite, NoJob
<1>2. Seated'
  BY <1>1 DEF Seated, SeatedJob
<1>3. \A k \in Conn : SessionOK(k)'
  BY <1>1 DEF SessionOK, WorkedOn, WorksOn, Writes, Owned
<1> QED BY <1>2, <1>3 DEF Structure

LEMMA InitStructure == Init => Structure /\ ~Overlap
<1> SUFFICES ASSUME Init PROVE Structure /\ ~Overlap
  OBVIOUS
<1>1. /\ DOMAIN connections = {} /\ Served = {}
      /\ \A k \in Conn : drives[k] = 0 /\ loop[k].pc = "idle"
      /\ \A p \in Proc : job[p].pc = "idle" /\ job[p].kind = "none"
  BY EmptySeq, LenProperties DEF Init, Served, NoWrite, NoJob
<1>2. Seated
  BY <1>1 DEF Seated, SeatedJob
<1>3. \A k \in Conn : SessionOK(k)
  BY <1>1 DEF SessionOK, WorkedOn, WorksOn, Writes, Owned
<1>4. ~Overlap
  BY <1>1 DEF Overlap, ForkMeets, SyncMeets, ClientMeets, ForgetMeets, SetupMeets, MountMeets,
     WorksOn, Syncs, Alive, Proc
<1> QED BY <1>2, <1>3, <1>4 DEF Structure

LEMMA StructureKept ==
    ASSUME Base, IndInv', ~Overlap', [Next]_vars
    PROVE  Structure'
<1>1. ASSUME NEW p \in Proc, SyncNext(p) PROVE Structure'
  BY <1>1, SyncSessionKeepsStructure, SyncDoneKeepsStructure, ClosingKeepsStructure,
     AttachingKeepsStructure, OpeningKeepsStructure DEF SyncNext
<1>2. ASSUME NEW k \in Conn, ConnNext(k) PROVE Structure'
  BY <1>2, ConnectKeepsStructure, LeaveKeepsStructure, LoopsKeepStructure,
     ForkCopiedKeepsStructure, ForkOpenedKeepsStructure, WriteTrackKeepsStructure DEF ConnNext
<1>3. ASSUME NEW r \in Req, RequestNext(r) PROVE Structure'
  BY <1>3, RequestKeepsStructure
<1>4. ASSUME UNCHANGED <<connections, client, sds, drives, loop, job>> PROVE Structure'
  BY <1>4, StillStructure DEF Base
<1>5. ASSUME NEW f \in Image, NEW readonly \in BOOLEAN, OperatorMount(f, readonly)
      PROVE  Structure'
  BY <1>4, <1>5 DEF OperatorMount, net, session
<1>6. CASE OperatorUnmount
  BY <1>4, <1>6 DEF OperatorUnmount, net, session
<1>7. CASE Restart
  BY <1>7, RestartKeepsStructure
<1>8. CASE UNCHANGED vars
  BY <1>4, <1>8 DEF vars, net, session
<1> QED BY <1>1, <1>2, <1>3, <1>5, <1>6, <1>7, <1>8 DEF Next

LEMMA StillApart ==
    ASSUME ~Overlap, UNCHANGED vars
    PROVE  ~Overlap'
<1>1. UNCHANGED <<mounts, overrides, epoch, connections, client, sds, drives, loop, job>>
  BY DEF vars, tables, net, session
<1>2. /\ (ForkMeets' => ForkMeets) /\ (SyncMeets' => SyncMeets)
      /\ (ClientMeets' => ClientMeets) /\ (ForgetMeets' => ForgetMeets)
  BY <1>1 DEF ForkMeets, SyncMeets, ClientMeets, ForgetMeets, WorksOn, Syncs, SessionsOf,
     Alive, Persistent, WritesMaster, Served
<1>3. (SetupMeets' => SetupMeets) /\ (MountMeets' => MountMeets)
  BY <1>1 DEF SetupMeets, MountMeets, WorksOn, InFlight, ResolveEffective, Override
<1> QED BY <1>2, <1>3 DEF Overlap

LEMMA BaseKept ==
    ASSUME Base, [Next /\ Apart]_vars
    PROVE  Base' /\ [Next]_vars
<1>0. IndInv /\ [Next]_vars
  BY DEF Base
<1>1. IndInv'
  BY <1>0, NextKeeps
<1>2. ~Overlap'
  BY StillApart DEF Base, Apart
<1>3. Structure'
  BY <1>0, <1>1, <1>2, StructureKept
<1> QED BY <1>0, <1>1, <1>2, <1>3 DEF Base

-----------------------------------------------------------------------------
(* While the steps keep Apart: who has the open handles and the transient files. *)

\* Session k has the transient file n, or is about to open it.
Holds(k, n) ==
    /\ ~Persistent(k)
    /\ \/ drives[k] # 0 /\ sds[drives[k]].scratch = n
       \/ loop[k].pc = "reopen" /\ loop[k].file = n

OpenOwned == \A i \in DOMAIN sds : sds[i].open => \E k \in Conn : drives[k] = i
ScratchOwned == \A n \in scratches : \E k \in Conn : Holds(k, n)

LEMMA OpenStays ==
    ASSUME OpenOwned, UNCHANGED drives, DOMAIN sds' = DOMAIN sds,
           \A m \in DOMAIN sds : sds'[m].open => sds[m].open \/ \E k \in Conn : drives[k] = m
    PROVE  OpenOwned'
BY DEF OpenOwned

LEMMA HoldsOn ==
    ASSUME Base, UNCHANGED <<client, drives, loop>>,
           \A m \in DOMAIN sds : sds'[m].scratch = sds[m].scratch,
           NEW k \in Conn, NEW n, Holds(k, n)
    PROVE  Holds(k, n)'
<1>1. drives[k] # 0 => drives[k] \in DOMAIN sds
  BY SessionFacts DEF Base
<1> QED BY <1>1 DEF Holds, Persistent, WritesMaster

LEMMA ScratchStays ==
    ASSUME Base, ScratchOwned, scratches' \subseteq scratches, UNCHANGED <<client, drives, loop>>,
           \A m \in DOMAIN sds : sds'[m].scratch = sds[m].scratch
    PROVE  ScratchOwned'
<1>1. ASSUME NEW n \in scratches' PROVE \E k \in Conn : Holds(k, n)'
  <2>1. PICK k \in Conn : Holds(k, n)
    BY <1>1 DEF ScratchOwned
  <2>2. Holds(k, n)'
    BY <2>1, HoldsOn
  <2> QED BY <2>1, <2>2
<1> QED BY <1>1 DEF ScratchOwned

\* A step that leaves the sessions alone, but for closing handles.
LEMMA LeftStays ==
    ASSUME Base, OpenOwned, ScratchOwned, UNCHANGED <<scratches, client, drives, loop>>,
           sds' = sds \/ \E n \in DOMAIN sds : Shuts(n)
    PROVE  OpenOwned' /\ ScratchOwned'
<1>1. /\ DOMAIN sds' = DOMAIN sds
      /\ \A m \in DOMAIN sds : (sds'[m].open => sds[m].open) /\ sds'[m].scratch = sds[m].scratch
  BY DEF Shuts
<1> QED BY <1>1, OpenStays, ScratchStays

\* A drive leaves the map when its handle is closed and its transient file gone.
LEMMA DropsKeepsLeft ==
    ASSUME Base, OpenOwned, ScratchOwned, NEW p \in Proc, NEW k \in Conn, WorksOn(p, k),
           job[p].pc \in Closing, loop[k].pc = "idle", UNCHANGED <<client, sds, loop>>,
           drives' = [drives EXCEPT ![k] = 0], scratches' \subseteq scratches,
           Persistent(k) \/ sds[drives[k]].scratch \notin scratches'
    PROVE  OpenOwned' /\ ScratchOwned'
<1>0. IndInv /\ Structure
  BY DEF Base
<1>1. /\ drives'[k] = 0 /\ \A l \in Conn : l # k => drives'[l] = drives[l]
  BY <1>0, TypesNow
<1>2. ~sds[drives[k]].open
  BY <1>0 DEF Structure, SessionOK, WorkedOn, DoesWork
<1>3. OpenOwned'
  BY <1>1, <1>2 DEF OpenOwned
<1>4. ASSUME NEW n \in scratches' PROVE \E l \in Conn : Holds(l, n)'
  <2>1. PICK l \in Conn : Holds(l, n)
    BY <1>4 DEF ScratchOwned
  <2>2. l # k
    BY <1>4, <2>1 DEF Holds
  <2>3. Holds(l, n)'
    BY <1>1, <2>1, <2>2 DEF Holds, Persistent, WritesMaster
  <2> QED BY <2>1, <2>3
<1> QED BY <1>3, <1>4 DEF ScratchOwned

LEMMA NoFileZero == IndInv => 0 \notin scratches
BY LenProperties DEF IndInv, DiskOK

LEMMA ClosingKeepsLeft ==
    ASSUME Base, OpenOwned, ScratchOwned, NEW p \in Proc, HandleClosed(p) \/ SplinterUnlinked(p)
    PROVE  OpenOwned' /\ ScratchOwned'
<1>0. IndInv /\ Structure
  BY DEF Base
<1>1. UNCHANGED <<client, sds, loop>> /\ scratches' \subseteq scratches
  BY DEF HandleClosed, SplinterUnlinked, net, disk
<1>2. PICK k \in Conn : WorksOn(p, k) /\ job[p].conn = k
  BY <1>0, TypesNow DEF HandleClosed, SplinterUnlinked, At, WorksOn, Fits
<1>3. job[p].pc \in Closing /\ loop[k].pc = "idle" /\ job[p].sd = drives[k]
  <2>1. job[p].pc \in Closing /\ (job[p].pc = "close" => ~InFlight(p))
    BY DEF HandleClosed, SplinterUnlinked, At, Closing
  <2>2. job[p].sd = drives[k]
    BY <1>0, <1>2, <2>1 DEF Structure, SessionOK, WorkedOn, DoesWork
  <2> QED BY <1>2, <2>1, <2>2, ClosedIsIdle
<1>4. CASE DriveClosed(p)
  <2>1. drives' = [drives EXCEPT ![k] = 0]
    BY <1>2, <1>4 DEF DriveClosed
  <2>2. Persistent(k) \/ sds[drives[k]].scratch \notin scratches'
    <3>1. CASE HandleClosed(p) /\ ~DropsSplinter(p)
      BY <1>0, <1>1, <1>2, <1>3, <3>1, NoFileZero DEF DropsSplinter
    <3>2. CASE SplinterUnlinked(p)
      BY <1>3, <3>2 DEF SplinterUnlinked
    <3>3. CASE HandleClosed(p) /\ DropsSplinter(p)
      <4>1. UNCHANGED drives /\ drives \in [Conn -> DOMAIN sds \cup {0}] /\ drives[k] # 0
        BY <1>0, <1>2, <1>3, <3>3, TypesNow DEF HandleClosed, Structure, SessionOK, WorkedOn, DoesWork
      <4> QED BY <2>1, <4>1
    <3> QED BY <3>1, <3>2, <3>3
  <2> QED BY <1>1, <1>2, <1>3, <2>1, <2>2, DropsKeepsLeft
<1>5. CASE ~DriveClosed(p)
  <2>1. UNCHANGED <<drives, scratches>>
    BY <1>5 DEF HandleClosed, SplinterUnlinked, disk
  <2> QED BY <1>1, <2>1, LeftStays
<1> QED BY <1>4, <1>5

LEMMA SyncKeepsLeft ==
    ASSUME Base, OpenOwned, ScratchOwned, NEW p \in Proc, SyncNext(p)
    PROVE  OpenOwned' /\ ScratchOwned'
<1>0. IndInv /\ Structure
  BY DEF Base
<1>1. CASE SyncSession(p)
  <2>1. UNCHANGED <<scratches, client, drives, loop>>
    BY <1>0, <1>1, SyncSessionDoes
  <2>2. PICK k : /\ k \in Conn
                 /\ UNCHANGED sds \/ (drives[k] # 0 /\ Shuts(drives[k]))
    BY <1>0, <1>1, SyncSessionDoes
  <2>3. drives[k] # 0 => drives[k] \in DOMAIN sds
    BY <1>0, <2>2, SessionFacts
  <2> QED BY <2>1, <2>2, <2>3, LeftStays
<1>2. CASE SyncDone(p)
  BY <1>2, LeftStays DEF SyncDone, session, disk
<1>3. CASE HandleClosed(p) \/ SplinterUnlinked(p)
  BY <1>3, ClosingKeepsLeft
<1>4. CASE Reattached(p) \/ MasterOpened(p)
  <2>1. UNCHANGED <<scratches, client, loop>>
    BY <1>4, AttachingDoes
  <2>2. PICK k, n, file, scratch :
          /\ k \in Conn /\ job[p].conn = k /\ drives[k] = 0 /\ loop[k].pc = "idle"
          /\ Attaches(p, n, file, scratch)
    BY <1>4, AttachingDoes
  <2>3. drives'[k] = n /\ \A l \in Conn : l # k => drives'[l] = drives[l]
    BY <1>0, <2>2, TypesNow DEF Attaches
  <2>4. OpenOwned'
    <3>1. ASSUME NEW i \in DOMAIN sds', sds'[i].open PROVE \E l \in Conn : drives'[l] = i
      <4>1. CASE i = n
        BY <2>2, <2>3, <4>1
      <4>2. CASE i # n
        <5>1. i \in DOMAIN sds /\ sds[i].open /\ i # 0
          BY <1>0, <2>2, <3>1, <4>2, SessionFacts DEF Attaches
        <5>2. PICK l \in Conn : drives[l] = i
          BY <5>1 DEF OpenOwned
        <5> QED BY <2>2, <2>3, <5>1, <5>2
      <4> QED BY <4>1, <4>2
    <3> QED BY <3>1 DEF OpenOwned
  <2>5. ScratchOwned'
    <3>1. ASSUME NEW m \in scratches' PROVE \E l \in Conn : Holds(l, m)'
      <4>1. PICK l \in Conn : Holds(l, m)
        BY <2>1, <3>1 DEF ScratchOwned
      <4>2. l # k
        BY <2>2, <4>1 DEF Holds
      <4>3. drives[l] # 0 => sds'[drives[l]] = sds[drives[l]]
        BY <1>0, <2>2, <4>1, SessionFacts DEF Attaches
      <4>4. Holds(l, m)'
        BY <2>1, <2>3, <4>1, <4>2, <4>3 DEF Holds, Persistent, WritesMaster
      <4> QED BY <4>1, <4>4
    <3> QED BY <3>1 DEF ScratchOwned
  <2> QED BY <2>4, <2>5
<1>5. CASE ReattachFails(p) \/ Discarded(p) \/ OpenFails(p)
  <2>1. UNCHANGED <<scratches, client, sds, drives, loop>>
    BY <1>5, OpeningDoes
  <2> QED BY <2>1, LeftStays
<1> QED BY <1>1, <1>2, <1>3, <1>4, <1>5 DEF SyncNext

LEMMA ConnKeepsLeft ==
    ASSUME Base, OpenOwned, ScratchOwned, "fork" \notin Faults, NEW k \in Conn, ConnNext(k)
    PROVE  OpenOwned' /\ ScratchOwned'
<1>0. IndInv /\ Structure
  BY DEF Base
<1>1. ASSUME NEW c \in Client \cup {Anonymous}, Connect(k, c) PROVE OpenOwned' /\ ScratchOwned'
  <2>1. /\ UNCHANGED <<scratches, sds, drives, loop>> /\ socket[k] = "new"
        /\ client' = [client EXCEPT ![k] = c]
    BY <1>1 DEF Connect, session, disk
  <2>2. drives[k] = 0 /\ loop[k].pc = "idle"
    BY <2>1, NewConnection
  <2>3. ASSUME NEW n \in scratches' PROVE \E l \in Conn : Holds(l, n)'
    <3>1. PICK l \in Conn : Holds(l, n)
      BY <2>1, <2>3 DEF ScratchOwned
    <3>2. l # k
      BY <2>2, <3>1 DEF Holds
    <3>3. client'[l] = client[l]
      BY <1>0, <2>1, <3>2 DEF IndInv, NetOK
    <3> QED BY <2>1, <3>1, <3>3 DEF Holds, Persistent, WritesMaster
  <2>4. OpenOwned'
    BY <2>1, OpenStays
  <2> QED BY <2>3, <2>4 DEF ScratchOwned
<1>2. CASE Leave(k)
  <2>1. UNCHANGED <<scratches, client, drives, loop>>
    BY <1>2, LeaveDoes
  <2>2. UNCHANGED sds \/ (drives[k] \in DOMAIN sds /\ Shuts(drives[k]))
    BY <1>2, LeaveDoes
  <2> QED BY <2>1, <2>2, LeftStays
<1>3. CASE ForkCopyFails(k) \/ ForkFails(k) \/ WriteLands(k) \/ WriteSynced(k)
  <2>1. /\ UNCHANGED <<scratches, client, sds, drives>>
        /\ \A l \in Conn : l # k => loop'[l] = loop[l]
    BY <1>3, LoopGoesOn
  <2>2. ASSUME NEW n \in scratches' PROVE \E l \in Conn : Holds(l, n)'
    <3>1. PICK l \in Conn : Holds(l, n)
      BY <2>1, <2>2 DEF ScratchOwned
    <3>2. l = k => ~(loop[l].pc = "reopen" /\ loop[l].file = n)
      <4>1. n # 0
        BY <1>0, <2>1, <2>2, NoFileZero
      <4> QED BY <1>3, <3>1, <4>1 DEF ForkCopyFails, ForkFails, WriteLands, WriteSynced, LoopAt,
              Splinter, Exists, Holds
    <3> QED BY <2>1, <3>1, <3>2 DEF Holds, Persistent, WritesMaster
  <2>3. OpenOwned'
    BY <2>1, OpenStays
  <2> QED BY <2>2, <2>3 DEF ScratchOwned
<1>4. CASE ForkCopied(k)
  <2>1. /\ UNCHANGED <<client, drives>>
        /\ loop[k].pc = "copy" /\ Shuts(drives[k])
        /\ loop'[k].pc = "reopen"
        /\ \A l \in Conn : l # k => loop'[l] = loop[l]
        /\ IF Persistent(k) THEN UNCHANGED scratches
                            ELSE scratches' = scratches \cup {loop'[k].file}
    BY <1>4, ForkCopiedDoes
  <2>2. ASSUME NEW n \in scratches' PROVE \E l \in Conn : Holds(l, n)'
    <3>1. CASE n \in scratches
      <4>1. PICK l \in Conn : Holds(l, n)
        BY <3>1 DEF ScratchOwned
      <4>2. drives[l] # 0 => sds'[drives[l]].scratch = sds[drives[l]].scratch
        BY <1>0, <2>1, <4>1, SessionFacts DEF Shuts
      <4>3. Holds(l, n)'
        BY <2>1, <4>1, <4>2 DEF Holds, Persistent, WritesMaster
      <4> QED BY <4>1, <4>3
    <3>2. CASE n \notin scratches
      <4>1. ~Persistent(k) /\ n = loop'[k].file
        BY <2>1, <2>2, <3>2
      <4>2. Holds(k, n)'
        BY <2>1, <4>1 DEF Holds, Persistent, WritesMaster
      <4> QED BY <4>2
    <3> QED BY <3>1, <3>2
  <2>3. OpenOwned'
    BY <2>1, OpenStays DEF Shuts
  <2> QED BY <2>2, <2>3 DEF ScratchOwned
<1>5. CASE ForkOpened(k)
  <2>1. /\ UNCHANGED <<scratches, client, drives>>
        /\ loop[k].pc = "reopen"
        /\ \A l \in Conn : l # k => loop'[l] = loop[l]
        /\ DOMAIN sds' = DOMAIN sds
        /\ \A m \in DOMAIN sds : m # drives[k] => sds'[m] = sds[m]
        /\ sds'[drives[k]].scratch = Splinter(k)
    BY <1>5, ForkOpenedDoes
  <2>2. drives[k] # 0 /\ drives[k] \in DOMAIN sds /\ sds[drives[k]].scratch = 0
    BY <2>1, WhoWrites
  <2>3. ASSUME NEW n \in scratches' PROVE \E l \in Conn : Holds(l, n)'
    <3>1. PICK l \in Conn : Holds(l, n)
      BY <2>1, <2>3 DEF ScratchOwned
    <3>2. CASE l = k
      <4>1. n # 0
        BY <1>0, <2>1, <2>3, NoFileZero
      <4>2. sds'[drives[k]].scratch = n
        BY <2>1, <2>2, <3>1, <3>2, <4>1 DEF Holds, Splinter
      <4> QED BY <2>1, <2>2, <3>1, <3>2, <4>2 DEF Holds, Persistent, WritesMaster
    <3>3. CASE l # k
      <4>1. drives[l] # 0 => sds'[drives[l]] = sds[drives[l]]
        BY <1>0, <2>1, <2>2, <3>1, <3>3, SessionFacts
      <4> QED BY <2>1, <3>1, <3>3, <4>1 DEF Holds, Persistent, WritesMaster
    <3> QED BY <3>2, <3>3
  <2>4. OpenOwned'
    BY <2>1, <2>2, OpenStays
  <2> QED BY <2>3, <2>4 DEF ScratchOwned
<1>6. CASE WriteTrack(k)
  <2>1. /\ UNCHANGED <<scratches, client, sds, drives>> /\ loop[k].pc = "idle"
        /\ \A l \in Conn : l # k => loop'[l] = loop[l]
    BY <1>6, WriteTrackDoes
  <2>2. ASSUME NEW n \in scratches' PROVE \E l \in Conn : Holds(l, n)'
    <3>1. PICK l \in Conn : Holds(l, n)
      BY <2>1, <2>2 DEF ScratchOwned
    <3> QED BY <2>1, <3>1 DEF Holds, Persistent, WritesMaster
  <2>3. OpenOwned'
    BY <2>1, OpenStays
  <2> QED BY <2>2, <2>3 DEF ScratchOwned
<1> QED BY <1>1, <1>2, <1>3, <1>4, <1>5, <1>6 DEF ConnNext

LEMMA LeftKept ==
    ASSUME Base, OpenOwned, ScratchOwned, "fork" \notin Faults, [Next]_vars
    PROVE  OpenOwned' /\ ScratchOwned'
<1>1. ASSUME UNCHANGED <<scratches, client, sds, drives, loop>> PROVE OpenOwned' /\ ScratchOwned'
  BY <1>1, LeftStays
<1>2. ASSUME NEW r \in Req, RequestNext(r) PROVE OpenOwned' /\ ScratchOwned'
  BY <1>1, <1>2, RequestDoes
<1>3. ASSUME NEW f \in Image, NEW readonly \in BOOLEAN, OperatorMount(f, readonly)
      PROVE  OpenOwned' /\ ScratchOwned'
  BY <1>1, <1>3 DEF OperatorMount, disk, net, session
<1>4. CASE OperatorUnmount \/ UNCHANGED vars
  BY <1>1, <1>4 DEF OperatorUnmount, vars, disk, net, session
<1>5. CASE Restart
  <2>1. scratches' = {} /\ DOMAIN sds' = DOMAIN sds /\ \A i \in DOMAIN sds : ~sds'[i].open
    BY <1>5, TypesNow, SessionFacts DEF Restart, Base, SessionDrive
  <2> QED BY <2>1 DEF OpenOwned, ScratchOwned
<1> QED BY <1>2, <1>3, <1>4, <1>5, SyncKeepsLeft, ConnKeepsLeft DEF Next

\* When nothing is in progress, every drive is of a session in the map.
LEMMA LeftBehindNothing ==
    ASSUME Base, OpenOwned, ScratchOwned
    PROVE  NothingLeftBehind
<1> SUFFICES ASSUME Quiet
             PROVE  /\ \A i \in DOMAIN sds : sds[i].open => \E k \in Served : drives[k] = i
                    /\ \A n \in scratches :
                         \E k \in Served : drives[k] # 0 /\ sds[drives[k]].scratch = n
  BY DEF NothingLeftBehind
<1>0. IndInv /\ Structure
  BY DEF Base
<1>1. \A k \in Conn : drives[k] # 0 => k \in Served
  BY <1>0 DEF Structure, SessionOK, Owned, Quiet, Proc
<1>2. 0 \notin DOMAIN sds
  BY <1>0, SessionFacts
<1>3. \A k \in Conn, n \in scratches : Holds(k, n) => drives[k] # 0 /\ sds[drives[k]].scratch = n
  BY DEF Holds, Quiet
<1> QED BY <1>1, <1>2, <1>3 DEF OpenOwned, ScratchOwned

\* Nothing is left behind by reconnects, remounts, restarts and failures, as long as the
\* activities of Overlap do not meet and a copied splinter can be opened
\* (drive-session.ts:303-325): for any number of clients, connections and requests.
THEOREM NothingLeft ==
    ASSUME "fork" \notin Faults
    PROVE  ApartSpec => []NothingLeftBehind
<1> DEFINE Inv == Base /\ OpenOwned /\ ScratchOwned
<1>1. Init => Inv
  <2>1. Init => OpenOwned /\ ScratchOwned
    BY EmptySeq, LenProperties DEF Init, OpenOwned, ScratchOwned
  <2> QED BY <2>1, InitHolds, InitStructure DEF Base
<1>2. Inv /\ [Next /\ Apart]_vars => Inv'
  BY BaseKept, LeftKept
<1>3. Inv => NothingLeftBehind
  BY LeftBehindNothing
<1> QED BY <1>1, <1>2, <1>3, PTL DEF ApartSpec

-----------------------------------------------------------------------------
(* While the steps keep Apart: who follows the mount table of a session's client. *)

\* A drive opened as v is the one of client c's own mount, if it has one.
Follows(c, v) ==
    IF Override(c) # NotMounted THEN v = [own |-> TRUE, epoch |-> Override(c).epoch]
                                ELSE ~v.own

\* Job p closes the drive of session k, or has yet to come to it.
WillSync(p, k) ==
    \/ WorksOn(p, k) /\ job[p].pc \in Closing
    \/ /\ job[p].pc \in Closing \cup Opening \cup {"sync"}
       /\ job[p].kind # "remove"
       /\ k \in SessionsOf(p) \ job[p].visited

Tracked(k) ==
    drives[k] # 0 => \/ Follows(client[k], sds[drives[k]].baseVersion)
                     \/ \E p \in Proc : WillSync(p, k)
EntryTracked(p) ==
    \A k \in Conn : WorksOn(p, k) /\ job[p].kind # "remove" => Follows(client[k], job[p].entry.version)

Tracks == (\A k \in Conn : Tracked(k)) /\ (\A p \in Proc : EntryTracked(p))

LEMMA EffectiveFollows ==
    ASSUME NEW c
    PROVE  /\ Follows(c, ResolveEffective(c).version)
           /\ \A v : Follows(c, v) /\ (v.own \/ Override(c) # NotMounted) =>
                v = ResolveEffective(c).version
<1>1. CASE Override(c) # NotMounted
  BY <1>1 DEF Follows, ResolveEffective
<1>2. CASE Override(c) = NotMounted
  BY <1>2 DEF Follows, ResolveEffective, NoEntry, NoVersion
<1> QED BY <1>1, <1>2

LEMMA UpToDateFollows ==
    ASSUME NEW k \in Conn, ~OutOfDate(k), drives[k] # 0
    PROVE  Follows(client[k], sds[drives[k]].baseVersion)
<1>1. sds[drives[k]].baseVersion = ResolveEffective(client[k]).version
  BY DEF OutOfDate
<1> QED BY <1>1, EffectiveFollows

\* A job that goes on with what it does.
LEMMA WillSyncStays ==
    ASSUME NEW q \in Proc, NEW k \in Conn, WillSync(q, k),
           k \in Served => k \in Served', client'[k] = client[k],
           \/ job'[q] = job[q]
           \/ /\ SameTask(job'[q], job[q])
              /\ job'[q].pc \in Closing \cup Opening \cup {"sync"}
              /\ job[q].kind # "remove" \/ job'[q].pc \in Closing
              /\ WorksOn(q, k) => job'[q].pc \in Closing
    PROVE  WillSync(q, k)'
<1>1. CASE WorksOn(q, k) /\ job[q].pc \in Closing
  BY <1>1 DEF WillSync, WorksOn, SameTask, Closing
<1>2. CASE ~(WorksOn(q, k) /\ job[q].pc \in Closing)
  <2>1. /\ job[q].pc \in Closing \cup Opening \cup {"sync"} /\ job[q].kind # "remove"
        /\ k \in SessionsOf(q) \ job[q].visited
    BY <1>2 DEF WillSync
  <2>2. /\ job'[q].pc \in Closing \cup Opening \cup {"sync"}
        /\ job'[q].kind = job[q].kind /\ job'[q].visited = job[q].visited
        /\ job'[q].client = job[q].client
    BY <2>1 DEF SameTask
  <2>3. k \in SessionsOf(q)'
    BY <2>1, <2>2 DEF SessionsOf
  <2> QED BY <2>1, <2>2, <2>3 DEF WillSync
<1> QED BY <1>1, <1>2

\* Session k keeps its drive, and those who were to sync it still are.
LEMMA TrackedStays ==
    ASSUME NEW k \in Conn, Tracked(k), UNCHANGED overrides, client'[k] = client[k],
           drives'[k] \in {0, drives[k]},
           drives[k] # 0 => sds'[drives[k]].baseVersion = sds[drives[k]].baseVersion,
           \A p \in Proc : WillSync(p, k) /\ drives'[k] # 0 => Tracked(k)'
    PROVE  Tracked(k)'
BY DEF Tracked, Follows, Override

LEMMA EntryStays ==
    ASSUME NEW p \in Proc, EntryTracked(p), UNCHANGED overrides,
           \A k \in Conn : WorksOn(p, k) => client'[k] = client[k],
           \/ job'[p] = job[p]
           \/ SameTask(job'[p], job[p]) /\ job[p].pc \in Closing \cup Opening
           \/ job'[p].pc \notin Closing \cup Opening
    PROVE  EntryTracked(p)'
<1> SUFFICES ASSUME NEW k \in Conn, WorksOn(p, k)', job'[p].kind # "remove"
             PROVE  Follows(client[k], job[p].entry.version)'
  BY DEF EntryTracked
<1>1. WorksOn(p, k) /\ job[p].kind # "remove" /\ job'[p].entry = job[p].entry
  BY DEF WorksOn, SameTask, Closing, Opening
<1>2. Follows(client[k], job[p].entry.version) /\ client'[k] = client[k]
  BY <1>1 DEF EntryTracked
<1> QED BY <1>1, <1>2 DEF Follows, Override

LEMMA WorkedAreOld ==
    ASSUME IndInv, NEW p \in Proc, NEW k, WorksOn(p, k)
    PROVE  k \in Conn /\ socket[k] # "new"
BY TypesNow DEF WorksOn, Fits

\* A step of the sessions that is none of their syncs'.
LEMMA TracksStay ==
    ASSUME Tracks, UNCHANGED <<overrides, connections, client, drives, job>>,
           \A k \in Conn : drives[k] # 0 =>
             sds'[drives[k]].baseVersion = sds[drives[k]].baseVersion
    PROVE  Tracks'
<1>1. ASSUME NEW k \in Conn PROVE Tracked(k)'
  <2>1. Tracked(k)
    BY DEF Tracks
  <2>2. \A p \in Proc : WillSync(p, k) => WillSync(p, k)'
    BY WillSyncStays DEF Served
  <2> QED BY <2>1, <2>2 DEF Tracked, Follows, Override
<1>2. ASSUME NEW p \in Proc PROVE EntryTracked(p)'
  BY EntryStays DEF Tracks
<1> QED BY <1>1, <1>2 DEF Tracks

\* Job p goes on with its task, and another drive comes to session k or none.
LEMMA WorkerKeepsTracks ==
    ASSUME Base, Tracks, NEW p \in Proc, NEW k \in Conn, WorksOn(p, k),
           UNCHANGED <<overrides, connections, client>>,
           Steps(p, job'[p]), SameTask(job'[p], job[p]),
           job'[p].pc \in Closing \cup Opening \cup {"sync"},
           job[p].kind # "remove" \/ job'[p].pc \in Closing,
           \A l \in Conn : l # k =>
             /\ drives'[l] = drives[l]
             /\ drives[l] # 0 => sds'[drives[l]].baseVersion = sds[drives[l]].baseVersion,
           Tracked(k)'
    PROVE  Tracks'
<1>1. ASSUME NEW l \in Conn, l # k PROVE Tracked(l)'
  <2>1. Tracked(l)
    BY DEF Tracks
  <2>2. ~WorksOn(p, l)
    BY <1>1 DEF WorksOn
  <2>3. ASSUME NEW q \in Proc, WillSync(q, l) PROVE WillSync(q, l)'
    <3>1. q # p => job'[q] = job[q]
      BY DEF Steps
    <3> QED BY <2>2, <2>3, <3>1, WillSyncStays DEF Served
  <2> QED BY <1>1, <2>1, <2>3 DEF Tracked, Follows, Override
<1>2. ASSUME NEW q \in Proc PROVE EntryTracked(q)'
  <2>1. q # p => job'[q] = job[q]
    BY DEF Steps
  <2>2. job[p].pc \in Closing \cup Opening
    BY DEF WorksOn, Closing, Opening
  <2> QED BY <2>1, <2>2, EntryStays DEF Tracks
<1> QED BY <1>1, <1>2 DEF Tracks

LEMMA SyncSessionKeepsTracks ==
    ASSUME Base, Tracks, NEW p \in Proc, SyncSession(p)
    PROVE  Tracks'
<1>0. IndInv /\ Structure
  BY DEF Base
<1>1. UNCHANGED <<overrides, mounts, connections, client, drives>> /\ job[p].pc = "sync"
  BY <1>0, SyncSessionDoes
<1>2. PICK k, j :
        /\ k \in Waiting(p) /\ k \in Conn /\ First(p, k)
        /\ Steps(p, j)
        /\ j.kind = job[p].kind /\ j.client = job[p].client
        /\ j.conn = k /\ j.entry = ResolveEffective(client[k])
        /\ j.visited = Visits(p, k)
        /\ \/ drives[k] = 0 /\ UNCHANGED sds /\ OpensAs(j) /\ j.entry # NoEntry
           \/ /\ drives[k] # 0 /\ Shuts(drives[k])
              /\ j.pc = "close" /\ j.sd = drives[k]
              /\ j.scratch = sds[drives[k]].scratch
  BY <1>0, SyncSessionDoes
<1>3. \A l \in Conn : drives[l] # 0 => sds'[drives[l]].baseVersion = sds[drives[l]].baseVersion
  BY <1>0, <1>2, SessionFacts DEF Shuts
<1>4. job'[p] = j /\ j.pc \in Closing \cup Opening /\ j.kind # "remove"
  <2>1. job[p].kind # "remove"
    BY <1>0, <1>1 DEF Structure, Seated, SeatedJob, Closing, Opening, Proc
  <2> QED BY <1>2, <2>1 DEF Steps, OpensAs, Closing
<1>5. ASSUME NEW l \in Conn, drives[l] # 0 PROVE Tracked(l)'
  <2>1. Tracked(l)
    BY DEF Tracks
  <2>2. ASSUME NEW q \in Proc, WillSync(q, l), q # p PROVE WillSync(q, l)'
    <3>1. job'[q] = job[q]
      BY <1>2, <2>2 DEF Steps
    <3> QED BY <1>1, <2>2, <3>1, WillSyncStays DEF Served
  <2>3. ASSUME WillSync(p, l)
        PROVE  WillSync(p, l)' \/ Follows(client[l], sds[drives[l]].baseVersion)
    <3>1. l \in SessionsOf(p) \ job[p].visited
      BY <1>1, <2>3 DEF WillSync, Closing
    <3>2. SessionsOf(p)' = SessionsOf(p)
      <4>1. Served' = Served
        BY <1>1 DEF Served
      <4>2. job'[p].kind = job[p].kind /\ job'[p].client = job[p].client
        BY <1>2, <1>4
      <4> QED BY <1>1, <4>1, <4>2 DEF SessionsOf
    <3>3. CASE l = k
      BY <1>2, <1>4, <1>5, <3>3 DEF WillSync, WorksOn, Closing
    <3>4. CASE l # k /\ l \notin Visits(p, k)
      BY <1>2, <1>4, <3>1, <3>2, <3>4 DEF WillSync
    <3>5. CASE l # k /\ l \in Visits(p, k)
      <4>1. Before(l, k)
        BY <3>5 DEF Visits
      <4>2. l \notin Waiting(p)
        BY <1>2, <4>1 DEF First
      <4>3. ~OutOfDate(l)
        BY <3>1, <4>2 DEF Waiting
      <4> QED BY <1>5, <4>3, UpToDateFollows
    <3> QED BY <3>3, <3>4, <3>5
  <2>4. Follows(client[l], sds[drives[l]].baseVersion) \/ \E q \in Proc : WillSync(q, l)'
    BY <1>5, <2>1, <2>2, <2>3 DEF Tracked
  <2> QED BY <1>1, <1>3, <1>5, <2>4 DEF Tracked, Follows, Override
<1>6. ASSUME NEW q \in Proc PROVE EntryTracked(q)'
  <2>1. CASE q = p
    <3>1. Follows(client[k], j.entry.version)
      BY <1>2, EffectiveFollows
    <3>2. \A l \in Conn : WorksOn(p, l)' => l = k
      BY <1>2, <1>4 DEF WorksOn
    <3> QED BY <1>1, <1>4, <2>1, <3>1, <3>2 DEF EntryTracked, Follows, Override
  <2>2. CASE q # p
    <3>1. job'[q] = job[q]
      BY <1>2, <2>2 DEF Steps
    <3> QED BY <1>1, <3>1, EntryStays DEF Tracks
  <2> QED BY <2>1, <2>2
<1>7. \A l \in Conn : drives[l] = 0 => Tracked(l)'
  BY <1>1 DEF Tracked
<1> QED BY <1>5, <1>6, <1>7 DEF Tracks

LEMMA SyncDoneKeepsTracks ==
    ASSUME Base, Tracks, NEW p \in Proc, SyncDone(p)
    PROVE  Tracks'
<1>0. IndInv /\ Structure
  BY DEF Base
<1>1. /\ UNCHANGED <<overrides, client, sds, drives>>
      /\ job[p].pc = "sync" /\ Steps(p, NoJob) /\ Waiting(p) = {}
      /\ connections' = IF job[p].kind = "connect" THEN Append(connections, p) ELSE connections
  BY <1>0, Went DEF SyncDone, Done, session, tables
<1>2. Served \subseteq Served'
  <2>1. CASE job[p].kind = "connect"
    <3>1. p \in Conn /\ connections \in Seq(Conn)
      BY <1>0, <2>1, TypesNow DEF Fits, IndInv, NetOK
    <3> QED BY <1>1, <2>1, <3>1, AppendTo DEF Served
  <2> QED BY <1>1, <2>1 DEF Served
<1>3. ASSUME NEW k \in Conn PROVE Tracked(k)'
  <2>1. Tracked(k)
    BY DEF Tracks
  <2>2. ASSUME NEW q \in Proc, WillSync(q, k), q # p PROVE WillSync(q, k)'
    <3>1. job'[q] = job[q]
      BY <1>1, <2>2 DEF Steps
    <3> QED BY <1>1, <1>2, <2>2, <3>1, WillSyncStays
  <2>3. WillSync(p, k) /\ drives[k] # 0 => Follows(client[k], sds[drives[k]].baseVersion)
    <3>1. WillSync(p, k) => ~OutOfDate(k)
      BY <1>1 DEF WillSync, Waiting, Closing
    <3> QED BY <3>1, UpToDateFollows
  <2> QED BY <1>1, <2>1, <2>2, <2>3 DEF Tracked, Follows, Override
<1>4. ASSUME NEW q \in Proc PROVE EntryTracked(q)'
  <2>1. job'[q] = job[q] \/ job'[q].pc \notin Closing \cup Opening
    BY <1>1 DEF Steps, NoJob, Closing, Opening
  <2> QED BY <1>1, <2>1, EntryStays DEF Tracks
<1> QED BY <1>3, <1>4 DEF Tracks

LEMMA ClosingKeepsTracks ==
    ASSUME Base, Tracks, NEW p \in Proc, HandleClosed(p) \/ SplinterUnlinked(p)
    PROVE  Tracks'
<1>0. IndInv /\ Structure
  BY DEF Base
<1>1. UNCHANGED <<overrides, connections, client, sds>> /\ job[p].pc \in Closing
  BY DEF HandleClosed, SplinterUnlinked, net, tables, At, Closing
<1>2. PICK k \in Conn : WorksOn(p, k) /\ job[p].conn = k
  BY <1>0, TypesNow DEF HandleClosed, SplinterUnlinked, At, WorksOn, Fits
<1>3. CASE DriveClosed(p)
  <2>1. PICK j : Drops(p, j)
    BY <1>0, <1>3, DriveClosedDoes
  <2>2. drives'[k] = 0 /\ \A l \in Conn : l # k => drives'[l] = drives[l]
    BY <1>0, <1>2, <2>1, TypesNow DEF Drops
  <2>3. job'[p] = j /\ Steps(p, job'[p])
    BY <2>1 DEF Drops, Steps
  <2>4. CASE job[p].kind # "remove"
    <3>1. SameTask(job'[p], job[p]) /\ job'[p].pc \in Opening \cup {"sync"}
      BY <2>1, <2>3, <2>4 DEF Drops, OpensAs
    <3>2. Tracked(k)'
      BY <2>2 DEF Tracked
    <3> QED BY <1>1, <1>2, <2>2, <2>3, <2>4, <3>1, <3>2, WorkerKeepsTracks
  <2>5. CASE job[p].kind = "remove"
    <3>1. job'[p].pc = "idle"
      BY <2>1, <2>3, <2>5 DEF Drops, NoJob
    <3>2. ASSUME NEW l \in Conn, l # k PROVE Tracked(l)'
      <4>1. Tracked(l)
        BY DEF Tracks
      <4>2. \A q \in Proc : WillSync(q, l) => q # p /\ job'[q] = job[q]
        BY <1>2, <2>3, <2>5, <3>2 DEF WillSync, WorksOn, Steps
      <4>3. \A q \in Proc : WillSync(q, l) => WillSync(q, l)'
        BY <1>1, <4>2, WillSyncStays DEF Served
      <4> QED BY <1>1, <2>2, <3>2, <4>1, <4>3 DEF Tracked, Follows, Override
    <3>3. ASSUME NEW q \in Proc PROVE EntryTracked(q)'
      <4>1. job'[q] = job[q] \/ job'[q].pc \notin Closing \cup Opening
        BY <2>3, <3>1 DEF Steps, Closing, Opening
      <4> QED BY <1>1, <4>1, EntryStays DEF Tracks
    <3>4. Tracked(k)'
      BY <2>2 DEF Tracked
    <3> QED BY <3>2, <3>3, <3>4 DEF Tracks
  <2> QED BY <2>4, <2>5
<1>4. CASE ~DriveClosed(p)
  <2>1. Go(p, [job[p] EXCEPT !.pc = "unlink"]) /\ UNCHANGED drives
    BY <1>4 DEF HandleClosed, SplinterUnlinked
  <2>2. Steps(p, job'[p]) /\ SameTask(job'[p], job[p]) /\ job'[p].pc = "unlink"
    BY <1>0, <2>1, PcSteps
  <2>3. Tracked(k)'
    <3>1. WillSync(p, k)'
      BY <1>2, <2>2 DEF WillSync, WorksOn, SameTask, Closing
    <3> QED BY <3>1 DEF Tracked
  <2>4. job'[p].pc \in Closing
    BY <2>2 DEF Closing
  <2> QED BY <1>1, <1>2, <2>1, <2>2, <2>3, <2>4, WorkerKeepsTracks
<1> QED BY <1>3, <1>4

LEMMA OpensForWhom ==
    ASSUME Base, NEW p \in Proc, job[p].pc \in Opening
    PROVE  job[p].kind # "remove"
BY DEF Base, Structure, Seated, SeatedJob, Opening, Closing, Proc

LEMMA AttachingKeepsTracks ==
    ASSUME Base, Tracks, NEW p \in Proc, Reattached(p) \/ MasterOpened(p)
    PROVE  Tracks'
<1>0. IndInv
  BY DEF Base
<1>1. UNCHANGED <<overrides, connections, client>>
  BY AttachingDoes
<1>2. PICK k, n, file, scratch, j :
        /\ k \in Conn /\ WorksOn(p, k) /\ job[p].conn = k /\ job[p].pc \in Opening
        /\ drives[k] = 0
        /\ Attaches(p, n, file, scratch)
        /\ Steps(p, j) /\ SameTask(j, job[p]) /\ j.pc = "sync"
  BY AttachingDoes
<1>3. job'[p] = j /\ job[p].kind # "remove"
  BY <1>2, OpensForWhom DEF Steps
<1>4. drives'[k] = n /\ \A l \in Conn : l # k => drives'[l] = drives[l]
  BY <1>0, <1>2, TypesNow DEF Attaches
<1>5. \A l \in Conn : drives[l] # 0 => sds'[drives[l]].baseVersion = sds[drives[l]].baseVersion
  BY <1>0, <1>2, SessionFacts DEF Attaches
<1>6. Tracked(k)'
  <2>1. Follows(client[k], job[p].entry.version)
    BY <1>2, <1>3 DEF Tracks, EntryTracked
  <2> QED BY <1>1, <1>2, <1>4, <2>1 DEF Tracked, Follows, Override, Attaches
<1>7. Steps(p, job'[p]) /\ SameTask(job'[p], job[p]) /\ job'[p].pc = "sync"
  BY <1>2, <1>3
<1> QED BY <1>1, <1>2, <1>3, <1>4, <1>5, <1>6, <1>7, WorkerKeepsTracks

LEMMA OpeningKeepsTracks ==
    ASSUME Base, Tracks, NEW p \in Proc, ReattachFails(p) \/ Discarded(p) \/ OpenFails(p)
    PROVE  Tracks'
<1>1. UNCHANGED <<overrides, connections, client, sds, drives>>
  BY OpeningDoes
<1>2. PICK k, j :
        /\ k \in Conn /\ WorksOn(p, k) /\ job[p].pc \in Opening
        /\ drives[k] = 0
        /\ Steps(p, j) /\ SameTask(j, job[p])
        /\ j.pc \in {"sync", "open"}
  BY OpeningDoes
<1>3. job'[p] = j /\ job[p].kind # "remove"
  BY <1>2, OpensForWhom DEF Steps
<1>4. Tracked(k)'
  BY <1>1, <1>2 DEF Tracked
<1>5. Steps(p, job'[p]) /\ SameTask(job'[p], job[p]) /\ job'[p].pc \in Opening \cup {"sync"}
  BY <1>2, <1>3 DEF Opening
<1> QED BY <1>1, <1>2, <1>3, <1>4, <1>5, WorkerKeepsTracks

LEMMA ConnectKeepsTracks ==
    ASSUME Base, Tracks, NEW k \in Conn, NEW c \in Client \cup {Anonymous}, Connect(k, c)
    PROVE  Tracks'
<1>0. IndInv
  BY DEF Base
<1>1. /\ UNCHANGED <<overrides, connections, sds, drives>>
      /\ socket[k] = "new" /\ k \in Proc
      /\ client' = [client EXCEPT ![k] = c]
      /\ Go(k, [NoJob EXCEPT !.pc = "sync", !.kind = "connect"])
  BY DEF Connect, session, tables, Proc
<1>2. PICK j : j = [NoJob EXCEPT !.pc = "sync", !.kind = "connect"]
  OBVIOUS
<1>3. Steps(k, j) /\ j.pc = "sync"
  BY <1>0, <1>1, <1>2, Went DEF NoJob
<1>4. drives[k] = 0 /\ job[k].pc = "idle" /\ \A p \in Proc : ~WorksOn(p, k)
  BY <1>1, NewConnection
<1>5. \A l \in Conn : l # k => client'[l] = client[l]
  BY <1>0, <1>1 DEF IndInv, NetOK
<1>6. ASSUME NEW l \in Conn PROVE Tracked(l)'
  <2>1. Tracked(l)
    BY DEF Tracks
  <2>2. \A q \in Proc : WillSync(q, l) => job'[q] = job[q]
    BY <1>3, <1>4 DEF WillSync, WorksOn, Closing, Opening, Steps
  <2>3. l # k => \A q \in Proc : WillSync(q, l) => WillSync(q, l)'
    BY <1>1, <1>5, <2>2, WillSyncStays DEF Served
  <2> QED BY <1>1, <1>4, <1>5, <2>1, <2>3 DEF Tracked, Follows, Override
<1>7. ASSUME NEW q \in Proc PROVE EntryTracked(q)'
  <2>1. job'[q] = job[q] \/ job'[q].pc \notin Closing \cup Opening
    BY <1>3 DEF Steps, Closing, Opening
  <2>2. \A l \in Conn : WorksOn(q, l) => client'[l] = client[l]
    BY <1>4, <1>5
  <2> QED BY <1>1, <2>1, <2>2, EntryStays DEF Tracks
<1> QED BY <1>6, <1>7 DEF Tracks

LEMMA LeaveKeepsTracks ==
    ASSUME Base, Tracks, NEW k \in Conn, Leave(k)
    PROVE  Tracks'
<1>0. IndInv /\ Structure
  BY DEF Base
<1>1. /\ UNCHANGED <<overrides, client, drives>>
      /\ Served' = Served \ {k} /\ k \in Proc
  BY LeaveDoes
<1>2. \/ /\ k \in Served /\ drives[k] # 0 /\ drives[k] \in DOMAIN sds
         /\ Shuts(drives[k]) /\ Steps(k, job'[k])
         /\ job'[k].pc = "close" /\ job'[k].kind = "remove" /\ job'[k].conn = k
      \/ ~(k \in Served /\ drives[k] # 0) /\ UNCHANGED <<sds, job>>
  BY LeaveDoes
<1>3. \A l \in Conn : drives[l] # 0 => sds'[drives[l]].baseVersion = sds[drives[l]].baseVersion
  BY <1>0, <1>2, SessionFacts DEF Shuts
<1>4. \A q \in Proc : job'[q] = job[q] \/ (q = k /\ job[q].pc = "idle" /\ job'[q].kind = "remove")
  BY <1>0, <1>1, <1>2 DEF Structure, Seated, SeatedJob, Steps
<1>5. ASSUME NEW l \in Conn, l # k \/ ~(k \in Served /\ drives[k] # 0) PROVE Tracked(l)'
  <2>1. Tracked(l)
    BY DEF Tracks
  <2>2. \A q \in Proc : WillSync(q, l) => job'[q] = job[q]
    BY <1>4 DEF WillSync, WorksOn, Closing, Opening
  <2>3. drives[l] # 0 => \A q \in Proc : WillSync(q, l) => WillSync(q, l)'
    BY <1>1, <1>5, <2>2, WillSyncStays
  <2> QED BY <1>1, <1>3, <2>1, <2>3 DEF Tracked, Follows, Override
<1>6. k \in Served /\ drives[k] # 0 => Tracked(k)'
  BY <1>1, <1>2 DEF Tracked, WillSync, WorksOn, Closing
<1>7. ASSUME NEW q \in Proc PROVE EntryTracked(q)'
  <2>1. CASE job'[q] = job[q]
    BY <1>1, <2>1, EntryStays DEF Tracks
  <2>2. CASE job'[q].kind = "remove"
    BY <2>2 DEF EntryTracked
  <2> QED BY <1>4, <2>1, <2>2
<1> QED BY <1>5, <1>6, <1>7 DEF Tracks

\* Request r has changed the table of client c, and is about to sync its sessions.
LEMMA ChangedTableTracks ==
    ASSUME Base, Tracks, ~Overlap', NEW r \in Req, NEW c \in Client,
           UNCHANGED <<connections, client, sds, drives>>,
           \A d \in Client : d # c => overrides'[d] = overrides[d],
           Steps(r, job'[r]), job[r].pc \notin Closing \cup Opening \cup {"sync"},
           job'[r].pc = "sync", job'[r].kind \in {"client", "forget"}, job'[r].client = c,
           \/ job'[r].visited = {}
           \/ \A k \in Conn : client[k] = c => drives[k] = 0
    PROVE  Tracks'
<1>0. IndInv /\ Structure /\ r \in Proc /\ r \notin Conn
  BY NamesAssumption DEF Base, Proc
<1>1. SessionsOf(r)' = {k \in Served : client[k] = c}
  BY DEF SessionsOf, Served
<1>2. \A q \in Proc : q # r => job'[q] = job[q]
  BY DEF Steps
<1>4. \A k \in Conn : client[k] \in Client \cup {Anonymous}
  BY <1>0 DEF IndInv, NetOK
<1>5. ASSUME NEW k \in Conn, job[k].pc # "idle" PROVE job[k].kind = "remove"
  <2>1. k \in Proc /\ job'[k] = job[k]
    BY <1>0, <1>2 DEF Proc
  <2>2. job[k].kind # "connect"
    BY <2>1 DEF Overlap, SetupMeets
  <2> QED BY <1>0, <1>5, <2>1, <2>2 DEF Structure, Seated, SeatedJob
<1>6. ASSUME NEW k \in Conn PROVE Tracked(k)'
  <2>1. Tracked(k)
    BY DEF Tracks
  <2>2. \A q \in Proc : WillSync(q, k) => WillSync(q, k)'
    <3>1. \A q \in Proc : WillSync(q, k) => q # r
      BY DEF WillSync
    <3> QED BY <1>2, <3>1, WillSyncStays DEF Served
  <2>3. CASE client[k] # c
    BY <1>4, <2>1, <2>2, <2>3 DEF Tracked, Follows, Override
  <2>4. CASE client[k] = c /\ drives[k] # 0 /\ k \in Served
    BY <1>0, <1>1, <2>4 DEF Tracked, WillSync
  <2>5. CASE client[k] = c /\ drives[k] # 0 /\ k \notin Served
    <3>1. k \in Proc /\ job[k].pc # "idle"
      BY <1>0, <2>5 DEF Structure, SessionOK, Owned, Proc
    <3>2. job[k].kind = "remove"
      BY <1>5, <3>1
    <3>3. WorksOn(k, k) /\ job[k].pc \in Closing
      BY <1>0, <3>1, <3>2 DEF Structure, Seated, SeatedJob, WorksOn, Closing, Opening
    <3>4. WillSync(k, k)
      BY <3>3 DEF WillSync
    <3> QED BY <2>2, <3>1, <3>4 DEF Tracked
  <2> QED BY <2>3, <2>4, <2>5 DEF Tracked
<1>7. ASSUME NEW q \in Proc PROVE EntryTracked(q)'
  <2> SUFFICES ASSUME NEW k \in Conn, WorksOn(q, k)', job'[q].kind # "remove"
               PROVE  Follows(client[k], job[q].entry.version)'
    BY DEF EntryTracked
  <2>1. q # r /\ job'[q] = job[q] /\ WorksOn(q, k)
    BY <1>2 DEF WorksOn
  <2>2. Follows(client[k], job[q].entry.version)
    BY <2>1 DEF Tracks, EntryTracked
  <2>3. client[k] # c
    <3> SUFFICES ASSUME client[k] = c PROVE FALSE
      OBVIOUS
    <3>1. CASE q = k /\ k \in Conn /\ job[k].pc # "idle"
      BY <1>5, <2>1, <3>1
    <3>2. CASE q \in Req /\ k \in Served
      <4>1. k \in SessionsOf(r)'
        BY <1>1, <3>2
      <4>2. Syncs(r, k)'
        BY <4>1 DEF Syncs
      <4> QED BY <2>1, <3>2, <4>2 DEF Overlap, SyncMeets
    <3> QED BY <2>1, <3>1, <3>2, WorkerOf DEF Base, Structure
  <2> QED BY <1>4, <2>1, <2>2, <2>3 DEF Follows, Override
<1> QED BY <1>6, <1>7 DEF Tracks

LEMMA RequestKeepsTracks ==
    ASSUME Base, Tracks, ~Overlap', NEW r \in Req, RequestNext(r)
    PROVE  Tracks'
<1>0. IndInv /\ Structure
  BY DEF Base
<1>1. /\ UNCHANGED <<connections, client, sds, drives>>
      /\ r \in Proc /\ Steps(r, job'[r])
      /\ job[r].pc \notin Closing \cup Opening \cup {"sync"}
      /\ Aside(job'[r])
  BY RequestDoes
<1>2. ASSUME NEW c \in Client, (\E f \in Image : SetClientDrive(r, c, f)) \/ ClearClientDrive(r, c)
      PROVE  Tracks'
  <2>1. PICK j : j = [NoJob EXCEPT !.pc = "sync", !.kind = "client", !.client = c]
    OBVIOUS
  <2>2. j.pc = "sync" /\ j.kind = "client" /\ j.client = c /\ j.visited = {}
    BY <2>1 DEF NoJob
  <2>3. Go(r, j) /\ \E e : overrides' = [overrides EXCEPT ![c] = e]
    BY <1>2, <2>1 DEF SetClientDrive, ClearClientDrive
  <2>4. Steps(r, j)
    BY <1>0, <1>1, <2>3, Went
  <2>5. job'[r] = j
    BY <2>4 DEF Steps
  <2>6. \A d \in Client : d # c => overrides'[d] = overrides[d]
    BY <1>0, <2>3 DEF IndInv, TablesOK
  <2> QED BY <1>1, <2>2, <2>5, <2>6, ChangedTableTracks
<1>3. CASE Forgotten(r)
  <2>1. PICK c \in Client : c = job[r].client
    BY <1>0, <1>1, <1>3, TypesNow DEF Forgotten, At, Fits
  <2>2. /\ overrides' = [overrides EXCEPT ![c] = NotMounted]
        /\ Go(r, [job[r] EXCEPT !.pc = "sync"])
        /\ job[r].pc = "forget"
    BY <1>3, <2>1 DEF Forgotten, At
  <2>3. SameTask(job'[r], job[r]) /\ job'[r].pc = "sync"
    BY <1>0, <1>1, <2>2, PcSteps
  <2>4. job[r].kind = "forget"
    BY <1>0, <1>1, <2>2 DEF Structure, Seated, SeatedJob
  <2>5. ASSUME NEW k \in Conn, client[k] = c PROVE drives[k] = 0
    <3>1. ~Alive(k)
      BY <2>1, <2>4, <2>5 DEF Base, Overlap, ForgetMeets
    <3> QED BY <1>0, <3>1 DEF Structure, SessionOK, Owned, Alive
  <2>6. \A d \in Client : d # c => overrides'[d] = overrides[d]
    BY <1>0, <2>2 DEF IndInv, TablesOK
  <2>7. job'[r].kind \in {"client", "forget"} /\ job'[r].client = c
    BY <2>1, <2>3, <2>4 DEF SameTask
  <2> QED BY <1>1, <2>3, <2>5, <2>6, <2>7, ChangedTableTracks
<1>4. ASSUME UNCHANGED overrides PROVE Tracks'
  <2>1. \A q \in Proc : job'[q] = job[q] \/ (q = r /\ job'[q].pc \notin Closing \cup Opening)
    BY <1>1 DEF Steps, Aside
  <2>2. ASSUME NEW k \in Conn PROVE Tracked(k)'
    <3>1. Tracked(k)
      BY DEF Tracks
    <3>2. \A q \in Proc : WillSync(q, k) => job'[q] = job[q]
      BY <1>1, <2>1 DEF WillSync
    <3>3. \A q \in Proc : WillSync(q, k) => WillSync(q, k)'
      BY <1>1, <3>2, WillSyncStays DEF Served
    <3> QED BY <1>1, <1>4, <3>1, <3>3 DEF Tracked, Follows, Override
  <2>3. ASSUME NEW q \in Proc PROVE EntryTracked(q)'
    BY <1>1, <1>4, <2>1, EntryStays DEF Tracks
  <2> QED BY <2>2, <2>3 DEF Tracks
<1>5. ASSUME NEW c \in Client, ForgetClient(r, c) \/ CommitClientSplinter(r, c)
      PROVE  UNCHANGED overrides
  BY <1>5 DEF ForgetClient, CommitClientSplinter, tables
<1>6. CASE CommitChecked(r) \/ CommitCopied(r) \/ CommitRenamed(r) \/ Reloaded(r)
  BY <1>6, <1>4 DEF CommitChecked, CommitCopied, CommitRenamed, Reloaded, tables
<1> QED BY <1>2, <1>3, <1>4, <1>5, <1>6 DEF RequestNext

LEMMA TracksKept ==
    ASSUME Base, Tracks, ~Overlap', [Next]_vars
    PROVE  Tracks'
<1>0. IndInv
  BY DEF Base
<1>1. ASSUME NEW p \in Proc, SyncNext(p) PROVE Tracks'
  BY <1>1, SyncSessionKeepsTracks, SyncDoneKeepsTracks, ClosingKeepsTracks, AttachingKeepsTracks,
     OpeningKeepsTracks DEF SyncNext
<1>2. ASSUME NEW k \in Conn, ConnNext(k) PROVE Tracks'
  <2>1. CASE ForkCopyFails(k) \/ ForkFails(k) \/ WriteLands(k) \/ WriteSynced(k)
    <3>1. UNCHANGED <<overrides, connections, client, sds, drives, job>>
      BY <2>1, LoopGoesOn
    <3> QED BY <3>1, TracksStay
  <2>2. CASE ForkCopied(k)
    <3>1. UNCHANGED <<overrides, connections, client, drives, job>> /\ Shuts(drives[k])
      BY <2>2, ForkCopiedDoes
    <3>2. \A l \in Conn : drives[l] # 0 =>
            sds'[drives[l]].baseVersion = sds[drives[l]].baseVersion
      BY <1>0, <3>1, SessionFacts DEF Shuts
    <3> QED BY <3>1, <3>2, TracksStay
  <2>3. CASE ForkOpened(k)
    <3>1. /\ UNCHANGED <<overrides, connections, client, drives, job>>
          /\ \A m \in DOMAIN sds : m # drives[k] => sds'[m] = sds[m]
          /\ sds'[drives[k]].baseVersion = sds[drives[k]].baseVersion
      BY <2>3, ForkOpenedDoes
    <3>2. \A l \in Conn : drives[l] # 0 =>
            sds'[drives[l]].baseVersion = sds[drives[l]].baseVersion
      BY <1>0, <3>1, SessionFacts
    <3> QED BY <3>1, <3>2, TracksStay
  <2>4. CASE WriteTrack(k)
    <3>1. UNCHANGED <<overrides, connections, client, sds, drives, job>>
      BY <2>4, WriteTrackDoes
    <3> QED BY <3>1, TracksStay
  <2> QED BY <1>2, <2>1, <2>2, <2>3, <2>4, ConnectKeepsTracks, LeaveKeepsTracks DEF ConnNext
<1>3. ASSUME NEW r \in Req, RequestNext(r) PROVE Tracks'
  BY <1>3, RequestKeepsTracks
<1>4. ASSUME UNCHANGED <<overrides, connections, client, sds, drives, job>> PROVE Tracks'
  BY <1>4, TracksStay
<1>5. ASSUME NEW f \in Image, NEW readonly \in BOOLEAN, OperatorMount(f, readonly)
      PROVE  Tracks'
  BY <1>4, <1>5 DEF OperatorMount, net, session
<1>6. CASE OperatorUnmount \/ UNCHANGED vars
  BY <1>4, <1>6 DEF OperatorUnmount, vars, tables, net, session
<1>7. CASE Restart
  <2>1. /\ \A k \in Conn : drives'[k] = 0
        /\ \A p \in Proc : job'[p].pc = "idle"
    BY <1>7, RestartDoes DEF NoJob
  <2> QED BY <2>1 DEF Tracks, Tracked, EntryTracked, WorksOn
<1> QED BY <1>1, <1>2, <1>3, <1>5, <1>6, <1>7 DEF Next

\* When no sync goes on, every drive follows its client's table.
LEMMA QuietFollows ==
    ASSUME Base, Tracks
    PROVE  FollowsOverrides
<1> SUFFICES ASSUME Quiet, NEW k \in Served, drives[k] # 0
             PROVE  LET v == sds[drives[k]].baseVersion
                    IN (v.own \/ Override(client[k]) # NotMounted) =>
                           v = ResolveEffective(client[k]).version
  BY DEF FollowsOverrides
<1>1. k \in Conn
  BY SessionFacts DEF Base
<1>2. \A p \in Proc : ~WillSync(p, k)
  BY DEF Quiet, WillSync, WorksOn, Closing, Opening
<1>3. Follows(client[k], sds[drives[k]].baseVersion)
  BY <1>1, <1>2 DEF Tracks, Tracked
<1> QED BY <1>3, EffectiveFollows

\* When nothing is in progress every session serves what its client's own mount table
\* names, as long as the activities of Overlap do not meet (client-service.ts:150-171):
\* for any number of clients, connections and requests, whatever fails.
THEOREM OverridesFollowed == ApartSpec => []FollowsOverrides
<1>1. Init => Tracks
  BY DEF Init, Tracks, Tracked, EntryTracked, WorksOn, NoJob, Proc
<1>2. Init => Base
  BY InitHolds, InitStructure DEF Base
<1>3. Base /\ Tracks /\ [Next /\ Apart]_vars => Base' /\ Tracks'
  <2> SUFFICES ASSUME Base, Tracks, [Next /\ Apart]_vars PROVE Base' /\ Tracks'
    OBVIOUS
  <2>1. Base' /\ [Next]_vars /\ ~Overlap'
    BY BaseKept DEF Base
  <2> QED BY <2>1, TracksKept
<1>4. Base /\ Tracks => FollowsOverrides
  BY QuietFollows
<1> QED BY <1>1, <1>2, <1>3, <1>4, PTL DEF ApartSpec

-----------------------------------------------------------------------------
(* While the steps keep Apart: where the acknowledged writes are. *)

\* The splinter of client c has the write it was told of, or a later one.
Kept(c) ==
    acked[c] # NoAck =>
      /\ c # WriteMaster
      /\ acked[c].image \in Image /\ EffectiveImage(c) \in {NoImage, acked[c].image}
      /\ rows[c] = acked[c].image
      /\ splinterFile[c] # 0
      /\ files[splinterFile[c]].author = c
      /\ files[splinterFile[c]].stamp >= acked[c].stamp
      /\ acked[c].stamp <= stamps

\* A write is later than what its client was told of, and a fork replaces none of that.
LoopLater(k) ==
    Persistent(k) /\ loop[k].pc # "idle" =>
      /\ loop[k].stamp > acked[client[k]].stamp /\ loop[k].stamp <= stamps
      /\ loop[k].pc \in {"copy", "reopen"} => acked[client[k]] = NoAck
      /\ loop[k].pc = "fsync" =>
           /\ files[loop[k].file].author = client[k]
           /\ files[loop[k].file].stamp = loop[k].stamp

\* A drive that has forked is on the client's splinter, as the database has it.
OnSplinter(k) ==
    Persistent(k) /\ drives[k] # 0 =>
      /\ sds[drives[k]].scratch # 0 =>
           /\ sds[drives[k]].scratch = splinterFile[client[k]]
           /\ sds[drives[k]].file = splinterFile[client[k]]
           /\ rows[client[k]] = sds[drives[k]].master
      /\ acked[client[k]] # NoAck => sds[drives[k]].scratch # 0

\* Who opens a drive discards no write that its client was told of.
OpensKept(p, k) ==
    WorksOn(p, k) /\ Persistent(k) /\ job[p].kind # "remove" =>
      /\ job[p].entry # NoEntry =>
           acked[client[k]] = NoAck \/ acked[client[k]].image = job[p].entry.filename
      /\ job[p].pc \in {"discard", "open"} => acked[client[k]] = NoAck
      /\ job[p].pc = "reattach" => rows[client[k]] = job[p].entry.filename

Keeps ==
    /\ \A c \in Client : Kept(c)
    /\ \A k \in Conn : LoopLater(k) /\ OnSplinter(k)
    /\ \A p \in Proc, k \in Conn : OpensKept(p, k)

-----------------------------------------------------------------------------

LEMMA PersistentHasClient ==
    ASSUME IndInv, NEW k \in Conn, Persistent(k)
    PROVE  client[k] \in Client /\ client[k] # WriteMaster /\ Owner(k) = client[k]
BY DEF IndInv, NetOK, Persistent, WritesMaster, Owner

\* Whoever has a drive, a write or a worker lives, and is the only session of its client.
LEMMA WhoLives ==
    ASSUME Base, NEW k \in Conn, drives[k] # 0 \/ loop[k].pc # "idle" \/ \E p \in Proc : WorksOn(p, k)
    PROVE  Alive(k)
<1>0. Seated /\ ~Overlap /\ SessionOK(k)
  BY DEF Base, Structure
<1>1. drives[k] # 0 => Alive(k)
  BY <1>0 DEF SessionOK, Owned, Alive
<1>2. \A p \in Proc : WorksOn(p, k) => Alive(k)
  BY <1>0, WorkerOf DEF Alive
<1> QED BY <1>1, <1>2 DEF Alive

LEMMA OneSession ==
    ASSUME Base, NEW k \in Conn, NEW l \in Conn, client[k] = client[l], Persistent(k),
           drives[k] # 0 \/ loop[k].pc # "idle" \/ \E p \in Proc : WorksOn(p, k),
           drives[l] # 0 \/ loop[l].pc # "idle" \/ \E p \in Proc : WorksOn(p, l)
    PROVE  k = l
<1>1. Alive(k) /\ Alive(l)
  BY WhoLives
<1> QED BY <1>1 DEF Base, Overlap, ClientMeets

LEMMA EffectiveIs ==
    ASSUME NEW c \in Client
    PROVE  /\ EffectiveImage(c) =
                IF overrides[c] # NotMounted THEN overrides[c].filename
                ELSE IF InheritsGlobal(c) THEN mounts.filename ELSE NoImage
           /\ EffectiveImage(c)' =
                IF overrides'[c] # NotMounted THEN overrides'[c].filename
                ELSE IF InheritsGlobal(c) THEN mounts'.filename ELSE NoImage
<1>1. c # Anonymous
  BY NamesAssumption
<1>2. NotMounted.filename = NoImage /\ NoEntry.filename = NoImage
  BY DEF NotMounted, NoEntry
<1> QED BY <1>1, <1>2 DEF EffectiveImage, ResolveEffective, Override

\* The splinter of a client keeps what it has, and so does its row.
LEMMA KeptStays ==
    ASSUME IndInv, NEW c \in Client, Kept(c), acked'[c] \in {acked[c], NoAck},
           acked'[c] # NoAck =>
             /\ EffectiveImage(c)' \in {NoImage, EffectiveImage(c)}
             /\ rows'[c] = rows[c] /\ splinterFile'[c] = splinterFile[c]
             /\ splinterFile[c] # 0 => files'[splinterFile[c]] = files[splinterFile[c]],
           stamps' >= stamps, stamps' \in Nat
    PROVE  Kept(c)'
<1>1. acked[c].stamp \in Nat /\ stamps \in Nat
  BY SetsAssumption DEF IndInv, TablesOK, Ack
<1> QED BY <1>1 DEF Kept

LEMMA LoopLaterStays ==
    ASSUME IndInv, NEW k \in Conn, LoopLater(k), client'[k] = client[k],
           loop'[k] \in {loop[k], NoWrite},
           Persistent(k) => acked'[client[k]] \in {acked[client[k]], NoAck},
           Persistent(k) /\ loop[k].pc = "fsync" => files'[loop[k].file] = files[loop[k].file],
           stamps' >= stamps, stamps' \in Nat
    PROVE  LoopLater(k)'
<1> SUFFICES ASSUME Persistent(k), loop[k].pc # "idle", loop'[k] = loop[k] PROVE LoopLater(k)'
  BY DEF LoopLater, NoWrite, Persistent, WritesMaster
<1>1. client[k] \in Client /\ loop[k].stamp \in Nat /\ stamps \in Nat
  BY PersistentHasClient, SetsAssumption, TypesNow DEF Write, IndInv, TablesOK
<1>2. acked[client[k]].stamp \in Nat
  BY <1>1, SetsAssumption DEF IndInv, TablesOK, Ack
<1>3. loop'[k].stamp > acked'[client[k]].stamp /\ loop'[k].stamp <= stamps'
  BY <1>1, <1>2 DEF LoopLater, NoAck
<1> QED BY <1>3 DEF LoopLater

LEMMA OnSplinterStays ==
    ASSUME NEW k \in Conn, OnSplinter(k), client'[k] = client[k], drives'[k] \in {0, drives[k]},
           drives[k] # 0 =>
             /\ sds'[drives[k]].scratch = sds[drives[k]].scratch
             /\ sds'[drives[k]].file = sds[drives[k]].file
             /\ sds'[drives[k]].master = sds[drives[k]].master,
           Persistent(k) =>
             /\ acked'[client[k]] \in {acked[client[k]], NoAck}
             /\ drives[k] # 0 =>
                  /\ splinterFile'[client[k]] = splinterFile[client[k]]
                  /\ rows'[client[k]] = rows[client[k]]
    PROVE  OnSplinter(k)'
BY DEF OnSplinter, Persistent, WritesMaster

LEMMA OpensKeptStays ==
    ASSUME NEW p \in Proc, NEW k \in Conn, OpensKept(p, k),
           WorksOn(p, k) => client'[k] = client[k],
           \/ job'[p] = job[p]
           \/ job'[p].pc \notin Closing \cup Opening
           \/ job'[p].kind = "remove" 
           \/ SameTask(job'[p], job[p]) /\ job[p].pc \in Closing /\ job'[p].pc \in Closing,
           Persistent(k) /\ WorksOn(p, k) =>
             /\ acked'[client[k]] \in {acked[client[k]], NoAck}
             /\ rows'[client[k]] = rows[client[k]]
    PROVE  OpensKept(p, k)'
<1> SUFFICES ASSUME WorksOn(p, k)', Persistent(k)', job'[p].kind # "remove"
             PROVE  OpensKept(p, k)'
  BY DEF OpensKept
<1>1. CASE job'[p] = job[p]
  <2>1. WorksOn(p, k) /\ client'[k] = client[k] /\ Persistent(k)
    BY <1>1 DEF WorksOn, Persistent, WritesMaster
  <2> QED BY <1>1, <2>1 DEF OpensKept
<1>2. CASE SameTask(job'[p], job[p]) /\ job[p].pc \in Closing /\ job'[p].pc \in Closing
  <2>1. WorksOn(p, k) /\ client'[k] = client[k] /\ Persistent(k)
    BY <1>2 DEF WorksOn, Persistent, WritesMaster, SameTask, Closing
  <2> QED BY <1>2, <2>1 DEF OpensKept, SameTask, Closing
<1>3. job'[p].pc \in Closing \cup Opening
  BY DEF WorksOn, Closing, Opening
<1> QED BY <1>1, <1>2, <1>3

\* A job that opens a drive as the database has it.
LEMMA OpensAsKept ==
    ASSUME IndInv, Keeps, NEW p \in Proc, NEW k \in Conn,
           UNCHANGED <<client, rows, acked>>,
           job'[p].conn = k, OpensAs(job'[p]), job'[p].entry # NoEntry,
           Persistent(k) => \/ acked[client[k]] = NoAck
                            \/ acked[client[k]].image = job'[p].entry.filename
    PROVE  OpensKept(p, k)'
<1> SUFFICES ASSUME Persistent(k) PROVE OpensKept(p, k)'
  BY DEF OpensKept, Persistent, WritesMaster
<1>1. client[k] \in Client /\ Kept(client[k])
  BY PersistentHasClient DEF Keeps
<1>2. acked[client[k]] # NoAck =>
        rows[client[k]] = job'[p].entry.filename /\ rows[client[k]] # NoImage
  BY <1>1, NamesAssumption DEF Kept
<1> QED BY <1>2 DEF OpensKept, OpensAs

-----------------------------------------------------------------------------
(* Steps of a sync keep the acknowledged writes *)

\* The files, the database and what the clients were told are as they were.
Untouched == UNCHANGED <<mounts, overrides, files, splinterFile, rows, acked, stamps>>

LEMMA UntouchedKept ==
    ASSUME IndInv, Keeps, Untouched
    PROVE  \A c \in Client : Kept(c)'
<1>1. stamps \in Nat
  BY SetsAssumption DEF IndInv, TablesOK
<1> QED BY <1>1, EffectiveIs, KeptStays DEF Keeps, Untouched

LEMMA UntouchedLoops ==
    ASSUME IndInv, Keeps, Untouched, UNCHANGED <<client, loop>>
    PROVE  \A k \in Conn : LoopLater(k)'
<1>1. stamps \in Nat
  BY SetsAssumption DEF IndInv, TablesOK
<1> QED BY <1>1, LoopLaterStays DEF Keeps, Untouched

LEMMA UntouchedDrives ==
    ASSUME Keeps, Untouched, UNCHANGED client, NEW k \in Conn, drives'[k] \in {0, drives[k]},
           drives[k] # 0 =>
             /\ sds'[drives[k]].scratch = sds[drives[k]].scratch
             /\ sds'[drives[k]].file = sds[drives[k]].file
             /\ sds'[drives[k]].master = sds[drives[k]].master
    PROVE  OnSplinter(k)'
BY OnSplinterStays DEF Keeps, Untouched

LEMMA UntouchedJobs ==
    ASSUME Keeps, Untouched, UNCHANGED client, NEW p \in Proc, NEW k \in Conn,
           \/ job'[p] = job[p]
           \/ job'[p].pc \notin Closing \cup Opening
           \/ job'[p].kind = "remove"
           \/ SameTask(job'[p], job[p]) /\ job[p].pc \in Closing /\ job'[p].pc \in Closing
    PROVE  OpensKept(p, k)'
BY OpensKeptStays DEF Keeps, Untouched

LEMMA SyncSessionKeepsAcks ==
    ASSUME Base, Keeps, NEW p \in Proc, SyncSession(p)
    PROVE  Keeps'
<1>0. IndInv
  BY DEF Base
<1>1. Untouched /\ UNCHANGED <<client, drives, loop>>
  BY <1>0, SyncSessionDoes DEF Untouched
<1>2. PICK k, j :
        /\ k \in Conn /\ Steps(p, j)
        /\ j.conn = k /\ j.entry = ResolveEffective(client[k])
        /\ \/ drives[k] = 0 /\ UNCHANGED sds /\ OpensAs(j) /\ j.entry # NoEntry
           \/ drives[k] # 0 /\ Shuts(drives[k]) /\ j.pc = "close"
  BY <1>0, SyncSessionDoes
<1>3. job'[p] = j
  BY <1>2 DEF Steps
<1>4. Persistent(k) /\ j.entry # NoEntry =>
        acked[client[k]] = NoAck \/ acked[client[k]].image = j.entry.filename
  <2> SUFFICES ASSUME Persistent(k), j.entry # NoEntry, acked[client[k]] # NoAck
               PROVE  acked[client[k]].image = j.entry.filename
    OBVIOUS
  <2>1. Kept(client[k]) /\ EffectiveImage(client[k]) = j.entry.filename
    BY <1>0, <1>2, PersistentHasClient DEF Keeps, EffectiveImage
  <2>2. j.entry.filename \in Image
    <3>1. client[k] \in Client \cup {Anonymous}
      BY <1>0, <1>2 DEF IndInv, NetOK
    <3> QED BY <1>0, <1>2, <3>1, Effective DEF IndInv
  <2> QED BY <2>1, <2>2, NamesAssumption DEF Kept
<1>5. \A l \in Conn : OpensKept(p, l)'
  <2>1. OpensKept(p, k)'
    <3>1. CASE OpensAs(j) /\ j.entry # NoEntry
      BY <1>0, <1>1, <1>2, <1>3, <1>4, <3>1, OpensAsKept DEF Untouched
    <3>2. CASE j.pc = "close"
      BY <1>1, <1>3, <1>4, <3>2 DEF OpensKept, Untouched, Persistent, WritesMaster
    <3> QED BY <1>2, <3>1, <3>2
  <2>2. \A l \in Conn : l # k => ~WorksOn(p, l)'
    BY <1>2, <1>3 DEF WorksOn
  <2> QED BY <1>2, <2>1, <2>2 DEF OpensKept
<1>6. ASSUME NEW q \in Proc, NEW l \in Conn PROVE OpensKept(q, l)'
  <2>1. q # p => job'[q] = job[q]
    BY <1>2 DEF Steps
  <2> QED BY <1>1, <1>5, <2>1, UntouchedJobs
<1>7. ASSUME NEW l \in Conn PROVE OnSplinter(l)'
  <2>1. drives[l] # 0 => /\ sds'[drives[l]].scratch = sds[drives[l]].scratch
                         /\ sds'[drives[l]].file = sds[drives[l]].file
                         /\ sds'[drives[l]].master = sds[drives[l]].master
    BY <1>0, <1>2, SessionFacts DEF Shuts
  <2> QED BY <1>1, <2>1, UntouchedDrives
<1> QED BY <1>0, <1>1, <1>6, <1>7, UntouchedKept, UntouchedLoops DEF Keeps

LEMMA ClosingKeepsAcks ==
    ASSUME Base, Keeps, NEW p \in Proc, HandleClosed(p) \/ SplinterUnlinked(p)
    PROVE  Keeps'
<1>0. IndInv
  BY DEF Base
<1>1. Untouched /\ UNCHANGED <<client, sds, loop>> /\ job[p].pc \in Closing
  BY DEF HandleClosed, SplinterUnlinked, net, disk, tables, bounds, At, Closing, Untouched
<1>2. PICK k \in Conn : WorksOn(p, k) /\ job[p].conn = k
  BY <1>0, TypesNow DEF HandleClosed, SplinterUnlinked, At, WorksOn, Fits
<1>3. CASE DriveClosed(p)
  <2>1. PICK j : Drops(p, j)
    BY <1>0, <1>3, DriveClosedDoes
  <2>2. \A l \in Conn : drives'[l] \in {0, drives[l]}
    BY <1>0, <1>2, <2>1, TypesNow DEF Drops
  <2>3. job'[p] = j /\ \A q \in Proc : q # p => job'[q] = job[q]
    BY <2>1 DEF Drops, Steps
  <2>4. \A l \in Conn : OnSplinter(l)'
    BY <1>1, <2>2, UntouchedDrives
  <2>5. CASE job'[p].pc \in {"idle", "sync"}
    <3>1. \A q \in Proc, l \in Conn : OpensKept(q, l)'
      BY <1>1, <2>3, <2>5, UntouchedJobs DEF Closing, Opening
    <3> QED BY <1>0, <1>1, <2>4, <3>1, UntouchedKept, UntouchedLoops DEF Keeps
  <2>6. CASE ~(job'[p].pc \in {"idle", "sync"})
    <3>1. /\ job[p].kind # "remove" /\ SameTask(job'[p], job[p]) /\ OpensAs(job'[p])
          /\ job[p].entry # NoEntry
      BY <2>1, <2>3, <2>6 DEF Drops, NoJob
    <3>2. Persistent(k) => acked[client[k]] = NoAck \/ acked[client[k]].image = job[p].entry.filename
      BY <1>2, <3>1 DEF Keeps, OpensKept
    <3>3. job'[p].conn = k /\ job'[p].entry = job[p].entry
      BY <1>2, <3>1 DEF SameTask
    <3>4. OpensKept(p, k)'
      BY <1>0, <1>1, <3>1, <3>2, <3>3, OpensAsKept DEF Untouched
    <3>5. ASSUME NEW q \in Proc, NEW l \in Conn PROVE OpensKept(q, l)'
      <4>1. q = p /\ l # k => ~WorksOn(q, l)'
        BY <3>3 DEF WorksOn
      <4>2. q # p => OpensKept(q, l)'
        BY <1>1, <2>3, UntouchedJobs
      <4> QED BY <3>4, <4>1, <4>2 DEF OpensKept
    <3> QED BY <1>0, <1>1, <2>4, <3>5, UntouchedKept, UntouchedLoops DEF Keeps
  <2> QED BY <2>5, <2>6
<1>4. CASE ~DriveClosed(p)
  <2>1. Go(p, [job[p] EXCEPT !.pc = "unlink"]) /\ UNCHANGED drives
    BY <1>4 DEF HandleClosed, SplinterUnlinked
  <2>2. Steps(p, job'[p]) /\ SameTask(job'[p], job[p]) /\ job'[p].pc = "unlink"
    BY <1>0, <2>1, PcSteps
  <2>3. \A q \in Proc, l \in Conn : OpensKept(q, l)'
    BY <1>1, <2>2, UntouchedJobs DEF Steps, Closing
  <2>4. \A l \in Conn : OnSplinter(l)'
    BY <1>1, <2>1, UntouchedDrives
  <2> QED BY <1>0, <1>1, <2>3, <2>4, UntouchedKept, UntouchedLoops DEF Keeps
<1> QED BY <1>3, <1>4

LEMMA AttachingKeepsAcks ==
    ASSUME Base, Keeps, NEW p \in Proc, Reattached(p) \/ MasterOpened(p)
    PROVE  Keeps'
<1>0. IndInv
  BY DEF Base
<1>1. Untouched /\ UNCHANGED <<client, loop>>
  BY AttachingDoes DEF Untouched
<1>2. PICK k, n, file, scratch, j :
        /\ k \in Conn /\ WorksOn(p, k) /\ job[p].conn = k /\ job[p].pc \in Opening
        /\ drives[k] = 0
        /\ Attaches(p, n, file, scratch)
        /\ Steps(p, j) /\ SameTask(j, job[p]) /\ j.pc = "sync"
        /\ \/ /\ job[p].pc = "reattach" /\ scratch = file
              /\ file = splinterFile[client[k]] /\ file # 0
           \/ job[p].pc = "open" /\ scratch = 0
  BY AttachingDoes
<1>3. drives'[k] = n /\ \A l \in Conn : l # k => drives'[l] = drives[l]
  BY <1>0, <1>2, TypesNow DEF Attaches
<1>4. OnSplinter(k)'
  <2>1. OpensKept(p, k) /\ job[p].kind # "remove"
    BY <1>2, OpensForWhom DEF Keeps
  <2> QED BY <1>1, <1>2, <1>3, <2>1 DEF OnSplinter, OpensKept, Untouched, Attaches,
             Persistent, WritesMaster
<1>5. ASSUME NEW l \in Conn PROVE OnSplinter(l)'
  <2>1. drives[l] # 0 => sds'[drives[l]] = sds[drives[l]]
    BY <1>0, <1>2, SessionFacts DEF Attaches
  <2>2. l # k => OnSplinter(l)'
    BY <1>1, <1>3, <2>1, UntouchedDrives
  <2> QED BY <1>4, <2>2
<1>6. \A q \in Proc, l \in Conn : OpensKept(q, l)'
  BY <1>1, <1>2, UntouchedJobs DEF Steps, Closing, Opening
<1> QED BY <1>0, <1>1, <1>5, <1>6, UntouchedKept, UntouchedLoops DEF Keeps

\* What a session whose client has been told of no write does to its splinter is
\* nothing to the others.
LEMMA OthersKeep ==
    ASSUME Base, Keeps, NEW k \in Conn, Persistent(k), acked[client[k]] = NoAck,
           drives[k] # 0 \/ loop[k].pc # "idle" \/ \E p \in Proc : WorksOn(p, k),
           UNCHANGED <<mounts, overrides, client, acked, stamps>>,
           \A d \in Client : d # client[k] =>
             /\ rows'[d] = rows[d] /\ splinterFile'[d] = splinterFile[d]
             /\ splinterFile[d] # 0 => files'[splinterFile[d]] = files[splinterFile[d]],
           \A l \in Conn : l # k =>
             /\ loop'[l] = loop[l] /\ drives'[l] = drives[l]
             /\ drives[l] # 0 => sds'[drives[l]] = sds[drives[l]]
             /\ Persistent(l) /\ loop[l].pc = "fsync" /\ client[l] # client[k] =>
                  files'[loop[l].file] = files[loop[l].file],
           \A q \in Proc, l \in Conn : l # k /\ WorksOn(q, l)' => job'[q] = job[q]
    PROVE  /\ \A c \in Client : Kept(c)'
           /\ \A l \in Conn : l # k => LoopLater(l)' /\ OnSplinter(l)'
           /\ \A q \in Proc, l \in Conn : l # k => OpensKept(q, l)'
<1>0. IndInv /\ stamps \in Nat
  BY SetsAssumption DEF Base, IndInv, TablesOK
<1>1. ASSUME NEW c \in Client PROVE Kept(c)'
  <2>1. c # client[k] => Kept(c)'
    BY <1>0, EffectiveIs, KeptStays DEF Keeps
  <2>2. c = client[k] => Kept(c)'
    BY DEF Kept
  <2> QED BY <2>1, <2>2
<1>2. ASSUME NEW l \in Conn, l # k PROVE LoopLater(l)' /\ OnSplinter(l)'
  <2>1. CASE client[l] = client[k]
    <3>1. drives[l] = 0 /\ loop[l].pc = "idle"
      BY <1>2, <2>1, OneSession
    <3> QED BY <1>2, <3>1 DEF LoopLater, OnSplinter
  <2>2. CASE client[l] # client[k]
    <3>1. LoopLater(l) /\ OnSplinter(l)
      BY DEF Keeps
    <3>2. Persistent(l) => client[l] \in Client
      BY <1>0, PersistentHasClient
    <3>3. LoopLater(l)'
      BY <1>0, <1>2, <2>2, <3>1, LoopLaterStays
    <3>4. OnSplinter(l)'
      BY <1>2, <2>2, <3>1, <3>2, OnSplinterStays
    <3> QED BY <3>3, <3>4
  <2> QED BY <2>1, <2>2
<1>3. ASSUME NEW q \in Proc, NEW l \in Conn, l # k PROVE OpensKept(q, l)'
  <2> SUFFICES ASSUME WorksOn(q, l)', Persistent(l) PROVE OpensKept(q, l)'
    BY DEF OpensKept, Persistent, WritesMaster
  <2>1. job'[q] = job[q] /\ WorksOn(q, l)
    BY <1>3 DEF WorksOn
  <2>2. client[l] # client[k]
    BY <1>3, <2>1, OneSession
  <2>3. client[l] \in Client
    BY <1>0, PersistentHasClient
  <2> QED BY <2>1, <2>2, <2>3, OpensKeptStays DEF Keeps
<1> QED BY <1>1, <1>2, <1>3

LEMMA OpeningKeepsAcks ==
    ASSUME Base, Keeps, "reattach" \notin Faults,
           NEW p \in Proc, ReattachFails(p) \/ Discarded(p) \/ OpenFails(p)
    PROVE  Keeps'
<1>0. IndInv
  BY DEF Base
<1>1. UNCHANGED <<mounts, overrides, files, client, acked, stamps, sds, drives, loop>>
  BY OpeningDoes
<1>2. PICK k, j :
        /\ k \in Conn /\ WorksOn(p, k) /\ job[p].conn = k /\ job[p].pc \in Opening
        /\ drives[k] = 0 /\ loop[k].pc = "idle"
        /\ Steps(p, j) /\ SameTask(j, job[p])
        /\ \/ OpenFails(p) /\ j.pc = "sync"
           \/ ~OpenFails(p) /\ j.pc = "open"
  BY OpeningDoes
<1>3. job'[p] = j /\ \A q \in Proc : q # p => job'[q] = job[q]
  BY <1>2 DEF Steps
<1>4. CASE OpenFails(p)
  <2>1. Untouched
    BY <1>1, <1>4 DEF Untouched, OpenFails, disk
  <2>2. \A q \in Proc, l \in Conn : OpensKept(q, l)'
    <3>1. job'[p].pc = "sync"
      BY <1>2, <1>3, <1>4
    <3> QED BY <1>1, <1>3, <2>1, <3>1, UntouchedJobs DEF Closing, Opening
  <2>3. \A l \in Conn : OnSplinter(l)'
    BY <1>1, <2>1, UntouchedDrives
  <2> QED BY <1>0, <1>1, <2>1, <2>2, <2>3, UntouchedKept, UntouchedLoops DEF Keeps
<1>5. CASE ~OpenFails(p)
  <2>1. Persistent(k)
    BY <1>0, <1>2, <1>5, TypesNow DEF ReattachFails, Discarded, At, Fits
  <2>2. PICK c \in Client : c = client[k]
    BY <1>0, <1>2, <2>1, PersistentHasClient
  <2>3. acked[c] = NoAck
    <3>1. CASE ReattachFails(p)
      <4>1. splinterFile[c] = 0
        BY <1>2, <2>2, <3>1 DEF ReattachFails, Exists
      <4> QED BY <4>1 DEF Keeps, Kept
    <3>2. CASE Discarded(p)
      <4>1. job[p].kind # "remove" /\ job[p].pc = "discard"
        BY <1>2, <3>2, OpensForWhom DEF Discarded, At
      <4> QED BY <1>2, <2>1, <2>2, <4>1 DEF Keeps, OpensKept
    <3> QED BY <1>5, <3>1, <3>2
  <2>4. \A d \in Client : d # c => rows'[d] = rows[d] /\ splinterFile'[d] = splinterFile[d]
    <3>1. /\ rows' = [rows EXCEPT ![c] = NoImage]
          /\ splinterFile' = splinterFile \/ splinterFile' = [splinterFile EXCEPT ![c] = 0]
      BY <1>2, <1>5, <2>2 DEF ReattachFails, Discarded
    <3> QED BY <1>0, <3>1 DEF IndInv, DiskOK
  <2>5. \A q \in Proc, l \in Conn : l # k /\ WorksOn(q, l)' => job'[q] = job[q]
    <3>1. j.conn = k
      BY <1>2 DEF SameTask
    <3> QED BY <1>3, <3>1 DEF WorksOn
  <2>6. /\ \A d \in Client : Kept(d)'
        /\ \A l \in Conn : l # k => LoopLater(l)' /\ OnSplinter(l)'
        /\ \A q \in Proc, l \in Conn : l # k => OpensKept(q, l)'
    BY <1>1, <1>2, <2>1, <2>2, <2>3, <2>4, <2>5, OthersKeep
  <2>7. LoopLater(k)' /\ OnSplinter(k)'
    BY <1>1, <1>2 DEF LoopLater, OnSplinter
  <2>8. ASSUME NEW q \in Proc PROVE OpensKept(q, k)'
    <3>1. j.pc = "open"
      BY <1>2, <1>5
    <3>2. q # p => ~WorksOn(q, k)'
      <4>1. q # p => ~WorksOn(q, k)
        BY <1>2, OneWorker DEF Base, Structure
      <4> QED BY <1>3, <4>1 DEF WorksOn
    <3> QED BY <1>1, <1>3, <2>2, <2>3, <3>1, <3>2 DEF OpensKept
  <2> QED BY <1>2, <2>6, <2>7, <2>8 DEF Keeps
<1> QED BY <1>4, <1>5

LEMMA SyncDoneKeepsAcks ==
    ASSUME Base, Keeps, NEW p \in Proc, SyncDone(p)
    PROVE  Keeps'
<1>0. IndInv
  BY DEF Base
<1>1. Untouched /\ UNCHANGED <<client, sds, drives, loop>> /\ Steps(p, NoJob)
  BY <1>0, Went DEF SyncDone, Done, session, tables, disk, bounds, Untouched
<1>2. \A q \in Proc, l \in Conn : OpensKept(q, l)'
  <2>1. \A q \in Proc : job'[q] = job[q] \/ job'[q].pc \notin Closing \cup Opening
    BY <1>1 DEF Steps, NoJob, Closing, Opening
  <2> QED BY <1>1, <2>1, UntouchedJobs
<1>3. \A l \in Conn : OnSplinter(l)'
  BY <1>1, UntouchedDrives
<1> QED BY <1>0, <1>1, <1>2, <1>3, UntouchedKept, UntouchedLoops DEF Keeps

LEMMA ConnectKeepsAcks ==
    ASSUME Base, Keeps, NEW k \in Conn, NEW c \in Client \cup {Anonymous}, Connect(k, c)
    PROVE  Keeps'
<1>0. IndInv
  BY DEF Base
<1>1. /\ Untouched /\ UNCHANGED <<sds, drives, loop>>
      /\ socket[k] = "new" /\ k \in Proc
      /\ client' = [client EXCEPT ![k] = c]
      /\ Go(k, [NoJob EXCEPT !.pc = "sync", !.kind = "connect"])
  BY DEF Connect, session, tables, disk, bounds, Proc, Untouched
<1>2. PICK j : j = [NoJob EXCEPT !.pc = "sync", !.kind = "connect"]
  OBVIOUS
<1>3. Steps(k, j) /\ j.pc = "sync"
  BY <1>0, <1>1, <1>2, Went DEF NoJob
<1>4. drives[k] = 0 /\ loop[k].pc = "idle" /\ \A p \in Proc : ~WorksOn(p, k)
  BY <1>1, NewConnection
<1>5. \A l \in Conn : l # k => client'[l] = client[l]
  BY <1>0, <1>1 DEF IndInv, NetOK
<1>6. ASSUME NEW l \in Conn PROVE LoopLater(l)' /\ OnSplinter(l)'
  <2>1. l = k => LoopLater(l)' /\ OnSplinter(l)'
    BY <1>1, <1>4 DEF LoopLater, OnSplinter
  <2>2. stamps \in Nat
    BY <1>0, SetsAssumption DEF IndInv, TablesOK
  <2>3. l # k => LoopLater(l)'
    BY <1>0, <1>1, <1>5, <2>2, LoopLaterStays DEF Keeps, Untouched
  <2>4. l # k => OnSplinter(l)'
    BY <1>1, <1>5, OnSplinterStays DEF Keeps, Untouched
  <2> QED BY <2>1, <2>3, <2>4
<1>7. ASSUME NEW q \in Proc, NEW l \in Conn PROVE OpensKept(q, l)'
  <2>1. job'[q] = job[q] \/ job'[q].pc \notin Closing \cup Opening
    BY <1>3 DEF Steps, Closing, Opening
  <2>2. WorksOn(q, l) => client'[l] = client[l]
    BY <1>4, <1>5
  <2> QED BY <1>1, <2>1, <2>2, OpensKeptStays DEF Keeps, Untouched
<1> QED BY <1>0, <1>1, <1>6, <1>7, UntouchedKept DEF Keeps

LEMMA LeaveKeepsAcks ==
    ASSUME Base, Keeps, NEW k \in Conn, Leave(k)
    PROVE  Keeps'
<1>0. IndInv
  BY DEF Base
<1>1. Untouched /\ UNCHANGED <<client, drives, loop>> /\ k \in Proc
  BY LeaveDoes DEF Untouched
<1>2. \/ /\ k \in Served /\ drives[k] # 0 /\ drives[k] \in DOMAIN sds
         /\ Shuts(drives[k]) /\ Steps(k, job'[k])
         /\ job'[k].kind = "remove"
      \/ UNCHANGED <<sds, job>>
  BY LeaveDoes
<1>3. \A q \in Proc, l \in Conn : OpensKept(q, l)'
  <2>1. \A q \in Proc : job'[q] = job[q] \/ job'[q].kind = "remove"
    BY <1>2 DEF Steps
  <2> QED BY <1>1, <2>1, UntouchedJobs
<1>4. ASSUME NEW l \in Conn PROVE OnSplinter(l)'
  <2>1. drives[l] # 0 => /\ sds'[drives[l]].scratch = sds[drives[l]].scratch
                         /\ sds'[drives[l]].file = sds[drives[l]].file
                         /\ sds'[drives[l]].master = sds[drives[l]].master
    BY <1>0, <1>2, SessionFacts DEF Shuts
  <2> QED BY <1>1, <2>1, UntouchedDrives
<1> QED BY <1>0, <1>1, <1>3, <1>4, UntouchedKept, UntouchedLoops DEF Keeps

-----------------------------------------------------------------------------
(* Writes keep the acknowledged writes *)

\* Every client has its own splinter, and nobody else writes it.
LEMMA SplintersApart ==
    ASSUME IndInv
    PROVE  /\ \A c, d \in Client : splinterFile[c] # 0 /\ splinterFile[c] = splinterFile[d] => c = d
           /\ \A l \in Conn, c \in Client :
                /\ Persistent(l) /\ loop[l].pc \in {"reopen", "write", "fsync"}
                /\ splinterFile[c] # 0 /\ loop[l].file = splinterFile[c]
                => c = client[l]
<1>1. PICK own, user : Labels(own, user)
  BY DEF IndInv, Labelled
<1>2. \A c \in Client : splinterFile[c] # 0 => own[splinterFile[c]] = c
  BY <1>1 DEF Labels, FilesLabelled
<1>3. \A l \in Conn : Persistent(l) /\ loop[l].pc \in {"reopen", "write", "fsync"} =>
                        own[loop[l].file] = client[l]
  BY <1>1, PersistentHasClient DEF Labels, LoopsLabelled, Persistent
<1> QED BY <1>2, <1>3

\* Where a write goes.
LEMMA WritesOwn ==
    ASSUME Base, NEW k \in Conn, loop[k].pc = "write"
    PROVE  /\ \A d \in Client : splinterFile[d] # 0 /\ splinterFile[d] = loop[k].file =>
                d = client[k] /\ (d # WriteMaster => Persistent(k))
           /\ \A l \in Conn : /\ Persistent(l) /\ loop[l].pc = "fsync"
                              /\ loop[l].file = loop[k].file
                              => Persistent(k) /\ client[k] = client[l]
<1>0. IndInv /\ SessionOK(k)
  BY DEF Base, Structure
<1>1. PICK own, user : Labels(own, user)
  BY <1>0 DEF IndInv, Labelled
<1>2. \A c \in Client : splinterFile[c] # 0 => own[splinterFile[c]] = c
  BY <1>1 DEF Labels, FilesLabelled
<1>3. \A l \in Conn : Persistent(l) /\ loop[l].pc = "fsync" =>
        own[loop[l].file] = client[l] /\ client[l] \in Client /\ client[l] # WriteMaster
  BY <1>0, <1>1, PersistentHasClient DEF Labels, LoopsLabelled, Persistent
<1>4. CASE ~WritesMaster(k)
  <2>1. own[loop[k].file] = Owner(k)
    BY <1>1, <1>4 DEF Labels, LoopsLabelled
  <2>2. Owner(k) \in Client => client[k] = Owner(k) /\ Persistent(k)
    BY <1>4, NamesAssumption DEF Owner, Persistent
  <2> QED BY <1>2, <1>3, <2>1, <2>2
<1>5. CASE WritesMaster(k)
  <2>1. drives[k] # 0 /\ drives[k] \in DOMAIN sds /\ loop[k].file = sds[drives[k]].file
    BY <1>0, WhoWrites DEF SessionOK, Writes
  <2>2. own[loop[k].file] \in {Public, Owner(k)}
    BY <1>1, <2>1 DEF Labels, DrivesLabelled
  <2>3. Owner(k) = client[k] /\ client[k] = WriteMaster
    BY <1>5 DEF WritesMaster, Owner
  <2>4. Public \notin Client
    BY NamesAssumption
  <2> QED BY <1>2, <1>3, <2>2, <2>3, <2>4
<1> QED BY <1>4, <1>5

LEMMA ForkCopyFailsKeepsAcks ==
    ASSUME Base, Keeps, NEW k \in Conn, ForkCopyFails(k)
    PROVE  Keeps'
<1>0. IndInv
  BY DEF Base
<1>1. /\ UNCHANGED <<mounts, overrides, rows, client, sds, drives, job, stamps>>
      /\ loop[k].pc = "copy"
      /\ \A l \in Conn : l # k => loop'[l] = loop[l]
  BY LoopGoesOn DEF ForkCopyFails, LoopAt
<1>2. UNCHANGED <<files, acked>> /\ loop'[k] = NoWrite
  BY <1>0, TypesNow DEF ForkCopyFails, LoopIdle
<1>3. CASE ~Persistent(k)
  <2>1. Untouched
    BY <1>1, <1>2, <1>3 DEF ForkCopyFails, Untouched
  <2>2. stamps \in Nat
    BY <1>0, SetsAssumption DEF IndInv, TablesOK
  <2>3. \A l \in Conn : LoopLater(l)'
    BY <1>0, <1>1, <1>2, <2>1, <2>2, LoopLaterStays DEF Keeps, Untouched
  <2>4. \A l \in Conn : OnSplinter(l)'
    BY <1>1, <2>1, UntouchedDrives
  <2>5. \A q \in Proc, l \in Conn : OpensKept(q, l)'
    BY <1>1, <2>1, UntouchedJobs
  <2> QED BY <1>0, <2>1, <2>3, <2>4, <2>5, UntouchedKept DEF Keeps
<1>4. CASE Persistent(k)
  <2>1. PICK c \in Client : c = client[k]
    BY <1>0, <1>4, PersistentHasClient
  <2>2. acked[c] = NoAck
    BY <1>1, <1>4, <2>1 DEF Keeps, LoopLater
  <2>3. \A d \in Client : d # c => splinterFile'[d] = splinterFile[d]
    <3>1. splinterFile' = [splinterFile EXCEPT ![c] = 0]
      BY <1>4, <2>1 DEF ForkCopyFails
    <3> QED BY <1>0, <3>1 DEF IndInv, DiskOK
  <2>4. /\ \A d \in Client : Kept(d)'
        /\ \A l \in Conn : l # k => LoopLater(l)' /\ OnSplinter(l)'
        /\ \A q \in Proc, l \in Conn : l # k => OpensKept(q, l)'
    BY <1>1, <1>2, <1>4, <2>1, <2>2, <2>3, OthersKeep
  <2>5. sds[drives[k]].scratch = 0 /\ \A q \in Proc : ~WorksOn(q, k)
    BY <1>1, WhoWrites
  <2>6. LoopLater(k)' /\ OnSplinter(k)'
    BY <1>1, <1>2, <2>1, <2>2, <2>5 DEF LoopLater, OnSplinter, NoWrite
  <2>7. \A q \in Proc : OpensKept(q, k)'
    BY <1>1, <2>5 DEF OpensKept, WorksOn
  <2> QED BY <2>4, <2>6, <2>7 DEF Keeps
<1> QED BY <1>3, <1>4

LEMMA ForkFailsKeepsAcks ==
    ASSUME Base, Keeps, NEW k \in Conn, ForkFails(k)
    PROVE  Keeps'
<1>0. IndInv
  BY DEF Base
<1>1. /\ UNCHANGED <<client, sds, drives, job>>
      /\ \A l \in Conn : l # k => loop'[l] = loop[l]
  BY LoopGoesOn
<1>2. Untouched /\ loop'[k] = NoWrite
  BY <1>0, TypesNow DEF ForkFails, LoopIdle, Untouched, tables, disk, bounds
<1>3. stamps \in Nat
  BY <1>0, SetsAssumption DEF IndInv, TablesOK
<1>4. \A l \in Conn : LoopLater(l)'
  BY <1>0, <1>1, <1>2, <1>3, LoopLaterStays DEF Keeps, Untouched
<1>5. \A l \in Conn : OnSplinter(l)'
  BY <1>1, <1>2, UntouchedDrives
<1>6. \A q \in Proc, l \in Conn : OpensKept(q, l)'
  BY <1>1, <1>2, UntouchedJobs
<1> QED BY <1>0, <1>2, <1>4, <1>5, <1>6, UntouchedKept DEF Keeps

LEMMA ForkCopiedKeepsAcks ==
    ASSUME Base, Keeps, NEW k \in Conn, ForkCopied(k)
    PROVE  Keeps'
<1>0. IndInv /\ stamps \in Nat
  BY SetsAssumption DEF Base, IndInv, TablesOK
<1>1. /\ UNCHANGED <<mounts, overrides, rows, client, drives, job, stamps, acked>>
      /\ loop[k].pc = "copy" /\ Shuts(drives[k])
      /\ loop'[k].pc = "reopen" /\ loop'[k].stamp = loop[k].stamp
      /\ \A l \in Conn : l # k => loop'[l] = loop[l]
      /\ \A i \in DOMAIN files :
           /\ i # loop'[k].file => files'[i] = files[i]
           /\ i = loop'[k].file => Persistent(k) /\ i = splinterFile[client[k]]
  BY ForkCopiedDoes
<1>2. drives[k] \in DOMAIN sds /\ sds[drives[k]].scratch = 0 /\ \A q \in Proc : ~WorksOn(q, k)
  BY <1>1, WhoWrites
<1>3. \A l \in Conn : l # k /\ drives[l] # 0 => sds'[drives[l]] = sds[drives[l]]
  BY <1>0, <1>1, <1>2, SessionFacts DEF Shuts
<1>4. /\ \A d \in Client : splinterFile[d] # 0 => splinterFile[d] \in DOMAIN files
      /\ \A l \in Conn : loop[l].pc = "fsync" => loop[l].file \in DOMAIN files
  BY <1>0 DEF IndInv, DiskOK, LoopsOK
<1>5. \A q \in Proc : OpensKept(q, k)'
  BY <1>1, <1>2 DEF OpensKept, WorksOn
<1>6. CASE ~Persistent(k)
  <2>1. UNCHANGED splinterFile
    BY <1>6, ForkCopiedDoes
  <2>2. \A i \in DOMAIN files : files'[i] = files[i]
    BY <1>1, <1>6
  <2>3. \A d \in Client : Kept(d)'
    BY <1>0, <1>1, <1>4, <2>1, <2>2, EffectiveIs, KeptStays DEF Keeps
  <2>4. ASSUME NEW l \in Conn PROVE LoopLater(l)' /\ OnSplinter(l)'
    <3>1. l = k => LoopLater(l)' /\ OnSplinter(l)'
      BY <1>1, <1>6 DEF LoopLater, OnSplinter, Persistent, WritesMaster
    <3>2. l # k => LoopLater(l)'
      BY <1>0, <1>1, <1>4, <2>2, LoopLaterStays DEF Keeps
    <3>3. l # k => OnSplinter(l)'
      BY <1>1, <1>3, <2>1, OnSplinterStays DEF Keeps
    <3> QED BY <3>1, <3>2, <3>3
  <2>5. \A q \in Proc, l \in Conn : OpensKept(q, l)'
    BY <1>1, OpensKeptStays DEF Keeps
  <2> QED BY <2>3, <2>4, <2>5 DEF Keeps
<1>7. CASE Persistent(k)
  <2>1. PICK c \in Client : c = client[k]
    BY <1>0, <1>7, PersistentHasClient
  <2>2. acked[c] = NoAck
    BY <1>1, <1>7, <2>1 DEF Keeps, LoopLater
  <2>3. \A d \in Client : d # c => splinterFile'[d] = splinterFile[d]
    <3>1. splinterFile' = [splinterFile EXCEPT ![c] = loop'[k].file]
      BY <1>7, <2>1, ForkCopiedDoes
    <3> QED BY <1>0, <3>1 DEF IndInv, DiskOK
  <2>4. ASSUME NEW d \in Client, d # c, splinterFile[d] # 0
        PROVE  files'[splinterFile[d]] = files[splinterFile[d]]
    BY <1>0, <1>1, <1>4, <2>1, <2>4, SplintersApart
  <2>5. ASSUME NEW l \in Conn, l # k, Persistent(l), loop[l].pc = "fsync", client[l] # c
        PROVE  files'[loop[l].file] = files[loop[l].file]
    <3>1. loop[l].file \in DOMAIN files /\ loop[l].file # 0
      BY <1>0, <1>4, <2>5, LenProperties DEF IndInv, DiskOK
    <3> QED BY <1>0, <1>1, <2>1, <2>5, <3>1, SplintersApart
  <2>6. /\ \A d \in Client : Kept(d)'
        /\ \A l \in Conn : l # k => LoopLater(l)' /\ OnSplinter(l)'
        /\ \A q \in Proc, l \in Conn : l # k => OpensKept(q, l)'
    BY <1>1, <1>3, <1>7, <2>1, <2>2, <2>3, <2>4, <2>5, OthersKeep
  <2>7. LoopLater(k)'
    BY <1>1, <1>7, <2>1, <2>2 DEF Keeps, LoopLater, Persistent, WritesMaster
  <2>8. OnSplinter(k)'
    BY <1>1, <1>2, <2>1, <2>2 DEF OnSplinter, Shuts
  <2> QED BY <1>5, <2>6, <2>7, <2>8 DEF Keeps
<1> QED BY <1>6, <1>7

LEMMA ForkOpenedKeepsAcks ==
    ASSUME Base, Keeps, NEW k \in Conn, ForkOpened(k)
    PROVE  Keeps'
<1>0. IndInv /\ stamps \in Nat
  BY SetsAssumption DEF Base, IndInv, TablesOK
<1>1. /\ UNCHANGED <<mounts, overrides, files, splinterFile, client, drives, job, stamps, acked>>
      /\ loop[k].pc = "reopen"
      /\ loop'[k].pc = "write" /\ loop'[k].stamp = loop[k].stamp
      /\ \A l \in Conn : l # k => loop'[l] = loop[l]
      /\ \A m \in DOMAIN sds : m # drives[k] => sds'[m] = sds[m]
      /\ sds'[drives[k]].file = Splinter(k) /\ sds'[drives[k]].scratch = Splinter(k)
      /\ sds'[drives[k]].master = sds[drives[k]].master
      /\ Splinter(k) # 0
      /\ rows' = IF Persistent(k) THEN [rows EXCEPT ![client[k]] = sds[drives[k]].master]
                 ELSE rows
  BY ForkOpenedDoes
<1>2. drives[k] \in DOMAIN sds /\ \A q \in Proc : ~WorksOn(q, k)
  BY <1>1, WhoWrites
<1>3. \A l \in Conn : l # k /\ drives[l] # 0 => sds'[drives[l]] = sds[drives[l]]
  BY <1>0, <1>1, <1>2, SessionFacts
<1>4. CASE ~Persistent(k)
  <2>1. Untouched
    BY <1>1, <1>4 DEF Untouched
  <2>2. ASSUME NEW l \in Conn PROVE LoopLater(l)' /\ OnSplinter(l)'
    <3>1. l = k => LoopLater(l)' /\ OnSplinter(l)'
      BY <1>1, <1>4 DEF LoopLater, OnSplinter, Persistent, WritesMaster
    <3>2. l # k => LoopLater(l)'
      BY <1>0, <1>1, LoopLaterStays DEF Keeps
    <3>3. l # k => OnSplinter(l)'
      BY <1>1, <1>3, <2>1, UntouchedDrives
    <3> QED BY <3>1, <3>2, <3>3
  <2>3. \A q \in Proc, l \in Conn : OpensKept(q, l)'
    BY <1>1, <2>1, UntouchedJobs
  <2> QED BY <1>0, <2>1, <2>2, <2>3, UntouchedKept DEF Keeps
<1>5. CASE Persistent(k)
  <2>1. PICK c \in Client : c = client[k]
    BY <1>0, <1>5, PersistentHasClient
  <2>2. acked[c] = NoAck
    BY <1>1, <1>5, <2>1 DEF Keeps, LoopLater
  <2>3. rows'[c] = sds[drives[k]].master /\ \A d \in Client : d # c => rows'[d] = rows[d]
    BY <1>0, <1>1, <1>5, <2>1 DEF IndInv, DiskOK
  <2>4. \A q \in Proc, l \in Conn : l # k /\ WorksOn(q, l)' => job'[q] = job[q]
    BY <1>1
  <2>5. /\ \A d \in Client : Kept(d)'
        /\ \A l \in Conn : l # k => LoopLater(l)' /\ OnSplinter(l)'
        /\ \A q \in Proc, l \in Conn : l # k => OpensKept(q, l)'
    BY <1>1, <1>3, <1>5, <2>1, <2>2, <2>3, <2>4, OthersKeep
  <2>6. LoopLater(k)'
    BY <1>1, <1>5, <2>1, <2>2 DEF Keeps, LoopLater, Persistent, WritesMaster
  <2>7. OnSplinter(k)'
    <3>1. Splinter(k) = splinterFile[c]
      BY <1>5, <2>1 DEF Splinter
    <3> QED BY <1>1, <2>1, <2>2, <2>3, <3>1 DEF OnSplinter
  <2>8. \A q \in Proc : OpensKept(q, k)'
    BY <1>1, <1>2 DEF OpensKept, WorksOn
  <2> QED BY <2>5, <2>6, <2>7, <2>8 DEF Keeps
<1> QED BY <1>4, <1>5

LEMMA WriteTrackKeepsAcks ==
    ASSUME Base, Keeps, NEW k \in Conn, WriteTrack(k)
    PROVE  Keeps'
<1>0. IndInv /\ stamps \in Nat
  BY SetsAssumption DEF Base, IndInv, TablesOK
<1>1. /\ UNCHANGED <<mounts, overrides, files, splinterFile, rows, client, sds, drives, job, acked>>
      /\ stamps' = stamps + 1
      /\ drives[k] # 0
      /\ \A l \in Conn : l # k => loop'[l] = loop[l]
      /\ loop'[k].stamp = stamps + 1
      /\ \/ loop'[k].pc = "copy" /\ sds[drives[k]].scratch = 0
         \/ loop'[k].pc = "write"
  BY WriteTrackDoes
<1>2. stamps' \in Nat /\ stamps' >= stamps
  BY <1>0, <1>1
<1>3. \A d \in Client : Kept(d)'
  BY <1>0, <1>1, <1>2, EffectiveIs, KeptStays DEF Keeps
<1>4. ASSUME NEW l \in Conn PROVE LoopLater(l)'
  <2>1. CASE l # k
    BY <1>0, <1>1, <1>2, <2>1, LoopLaterStays DEF Keeps
  <2>2. CASE l = k /\ Persistent(k)
    <3>1. client[k] \in Client /\ Kept(client[k]) /\ OnSplinter(k)
      BY <1>0, PersistentHasClient, <2>2 DEF Keeps
    <3>2. acked[client[k]].stamp \in Nat /\ acked[client[k]].stamp <= stamps
      <4>1. acked[client[k]] \in Ack /\ NoAck.stamp = 0
        BY <1>0, <3>1 DEF IndInv, TablesOK, NoAck
      <4> QED BY <1>0, <3>1, <4>1, SetsAssumption DEF Kept, Ack
    <3>3. loop'[k].stamp > acked[client[k]].stamp /\ loop'[k].stamp <= stamps'
      BY <1>0, <1>1, <3>2
    <3>4. loop'[k].pc = "copy" => acked[client[k]] = NoAck
      BY <1>1, <2>2, <3>1 DEF OnSplinter
    <3>5. loop'[k].pc \in {"copy", "write"}
      BY <1>1
    <3> QED BY <1>1, <2>2, <3>3, <3>4, <3>5 DEF LoopLater
  <2>3. CASE l = k /\ ~Persistent(k)
    BY <1>1, <2>3 DEF LoopLater, Persistent, WritesMaster
  <2> QED BY <2>1, <2>2, <2>3
<1>5. \A l \in Conn : OnSplinter(l)'
  BY <1>1, OnSplinterStays DEF Keeps
<1>6. \A q \in Proc, l \in Conn : OpensKept(q, l)'
  BY <1>1, OpensKeptStays DEF Keeps
<1> QED BY <1>3, <1>4, <1>5, <1>6 DEF Keeps

LEMMA WriteLandsKeepsAcks ==
    ASSUME Base, Keeps, NEW k \in Conn, WriteLands(k)
    PROVE  Keeps'
<1>0. IndInv /\ stamps \in Nat
  BY SetsAssumption DEF Base, IndInv, TablesOK
<1>1. /\ UNCHANGED <<mounts, overrides, rows, client, sds, drives, job, stamps>>
      /\ \A l \in Conn : l # k => loop'[l] = loop[l]
      /\ \/ loop'[k] = NoWrite
         \/ /\ loop'[k].pc = "fsync"
            /\ loop'[k].file = loop[k].file /\ loop'[k].stamp = loop[k].stamp
  BY LoopGoesOn
<1>2. UNCHANGED <<splinterFile, acked>> /\ loop[k].pc = "write"
  BY DEF WriteLands, LoopAt
<1>3. PICK i \in DOMAIN files : i = loop[k].file
  BY <1>0, <1>2 DEF IndInv, LoopsOK
<1>4. /\ files'[i].stamp = loop[k].stamp
      /\ files'[i].author = IF WritesMaster(k) THEN Public ELSE Owner(k)
      /\ \A n \in DOMAIN files : n # i => files'[n] = files[n]
  <2>1. files[i] \in File /\ i \in DOMAIN files
    BY <1>0, ElementOfSeq, LenProperties DEF IndInv, DiskOK
  <2>2. files' = [files EXCEPT ![i].stamp = loop[k].stamp,
                               ![i].author = IF WritesMaster(k) THEN Public ELSE Owner(k)]
    BY <1>3 DEF WriteLands
  <2> QED BY <2>1, <2>2 DEF File
<1>5. i # 0 /\ loop[k].stamp \in Nat
  BY <1>0, <1>3, SetsAssumption, LenProperties, TypesNow DEF IndInv, DiskOK, Write
<1>6. /\ \A d \in Client : splinterFile[d] = i =>
           d = client[k] /\ (d # WriteMaster => Persistent(k))
      /\ \A l \in Conn : Persistent(l) /\ loop[l].pc = "fsync" /\ loop[l].file = i =>
           Persistent(k) /\ client[k] = client[l]
  BY <1>2, <1>3, <1>5, WritesOwn
<1>7. ASSUME NEW d \in Client PROVE Kept(d)'
  <2>1. Kept(d)
    BY DEF Keeps
  <2>2. CASE acked[d] # NoAck /\ splinterFile[d] = i
    <3>1. d = client[k] /\ Persistent(k)
      BY <1>6, <2>1, <2>2 DEF Kept
    <3>2. files'[i].author = d
      BY <1>0, <1>4, <3>1, PersistentHasClient DEF Persistent
    <3>3. loop[k].stamp > acked[d].stamp
      BY <1>2, <3>1 DEF Keeps, LoopLater
    <3>4. acked[d].stamp \in Nat
      BY <1>0, SetsAssumption DEF IndInv, TablesOK, Ack
    <3>5. files'[i].stamp >= acked[d].stamp
      BY <1>4, <1>5, <3>3, <3>4
    <3>6. EffectiveImage(d)' = EffectiveImage(d)
      BY <1>1, EffectiveIs
    <3> QED BY <1>1, <1>2, <2>1, <2>2, <3>2, <3>5, <3>6 DEF Kept
  <2>3. CASE ~(acked[d] # NoAck /\ splinterFile[d] = i)
    <3>1. acked[d] # NoAck /\ splinterFile[d] # 0 =>
            files'[splinterFile[d]] = files[splinterFile[d]]
      BY <1>0, <1>4, <2>3 DEF IndInv, DiskOK
    <3> QED BY <1>0, <1>1, <1>2, <2>1, <3>1, EffectiveIs, KeptStays
  <2> QED BY <2>2, <2>3
<1>8. ASSUME NEW l \in Conn PROVE LoopLater(l)'
  <2>1. CASE l = k
    <3>1. CASE loop'[k] = NoWrite
      BY <2>1, <3>1 DEF LoopLater, NoWrite
    <3>2. CASE loop'[k] # NoWrite /\ Persistent(k)
      <4>1. files'[i].author = client[k]
        BY <1>0, <1>4, <3>2, PersistentHasClient DEF Persistent
      <4> QED BY <1>1, <1>2, <1>3, <1>4, <2>1, <3>2, <4>1 DEF Keeps, LoopLater
    <3>3. CASE ~Persistent(k)
      BY <1>1, <2>1, <3>3 DEF LoopLater, Persistent, WritesMaster
    <3> QED BY <3>1, <3>2, <3>3
  <2>2. CASE l # k
    <3>1. Persistent(l) /\ loop[l].pc = "fsync" => files'[loop[l].file] = files[loop[l].file]
      <4> SUFFICES ASSUME Persistent(l), loop[l].pc = "fsync", loop[l].file = i PROVE FALSE
        BY <1>0, <1>4 DEF IndInv, LoopsOK
      <4>1. Persistent(k) /\ client[k] = client[l]
        BY <1>6
      <4> QED BY <1>2, <2>2, <4>1, OneSession
    <3> QED BY <1>0, <1>1, <1>2, <2>2, <3>1, LoopLaterStays DEF Keeps
  <2> QED BY <2>1, <2>2
<1>9. \A l \in Conn : OnSplinter(l)'
  BY <1>1, <1>2, OnSplinterStays DEF Keeps
<1>10. \A q \in Proc, l \in Conn : OpensKept(q, l)'
  BY <1>1, <1>2, OpensKeptStays DEF Keeps
<1> QED BY <1>7, <1>8, <1>9, <1>10 DEF Keeps

LEMMA WriteSyncedKeepsAcks ==
    ASSUME Base, Keeps, NEW k \in Conn, WriteSynced(k)
    PROVE  Keeps'
<1>0. IndInv /\ SessionOK(k) /\ stamps \in Nat
  BY SetsAssumption DEF Base, Structure, IndInv, TablesOK
<1>1. /\ UNCHANGED <<mounts, overrides, rows, client, sds, drives, job, stamps>>
      /\ loop[k].pc = "fsync"
      /\ \A l \in Conn : l # k => loop'[l] = loop[l]
  BY LoopGoesOn DEF WriteSynced, LoopAt
<1>2. UNCHANGED <<files, splinterFile>> /\ loop'[k] = NoWrite
  BY <1>0, TypesNow DEF WriteSynced, LoopIdle, disk
<1>3. CASE UNCHANGED acked
  <2>1. Untouched
    BY <1>1, <1>2, <1>3 DEF Untouched
  <2>2. \A l \in Conn : LoopLater(l)'
    BY <1>0, <1>1, <1>2, <1>3, LoopLaterStays DEF Keeps
  <2>3. \A l \in Conn : OnSplinter(l)'
    BY <1>1, <2>1, UntouchedDrives
  <2>4. \A q \in Proc, l \in Conn : OpensKept(q, l)'
    BY <1>1, <2>1, UntouchedJobs
  <2> QED BY <1>0, <2>1, <2>2, <2>3, <2>4, UntouchedKept DEF Keeps
<1>4. CASE ~UNCHANGED acked
  <2>1. Persistent(k) /\ EffectiveImage(client[k]) = sds[loop[k].sd].master
    BY <1>4 DEF WriteSynced
  <2>2. PICK c \in Client : c = client[k] /\ c # WriteMaster
    BY <1>0, <2>1, PersistentHasClient
  <2>3. /\ loop[k].sd = drives[k] /\ drives[k] # 0 /\ drives[k] \in DOMAIN sds
        /\ \A q \in Proc : WorksOn(q, k) => job[q].pc = "close"
    BY <1>1, WhoWrites
  <2>4. PICK a : a = [image |-> sds[drives[k]].master, stamp |-> loop[k].stamp]
    OBVIOUS
  <2>5. acked'[c] = a /\ \A d \in Client : d # c => acked'[d] = acked[d]
    <3>1. acked' = [acked EXCEPT ![c] = a]
      BY <2>1, <2>2, <2>3, <2>4 DEF WriteSynced
    <3> QED BY <1>0, <3>1 DEF IndInv, TablesOK
  <2>6. /\ sds[drives[k]].scratch # 0
        /\ loop[k].file = splinterFile[c] /\ splinterFile[c] # 0
        /\ rows[c] = sds[drives[k]].master
    BY <1>0, <1>1, <2>1, <2>2, <2>3 DEF SessionOK, Writes, Keeps, OnSplinter, Persistent
  <2>7. Kept(c)'
    <3>1. sds[drives[k]].master \in Image
      BY <1>0, <2>3, SessionFacts DEF SessionDrive
    <3>2. EffectiveImage(c)' = sds[drives[k]].master
      BY <1>1, <2>1, <2>2, <2>3, EffectiveIs
    <3>3. /\ files[splinterFile[c]].author = c
          /\ files[splinterFile[c]].stamp = loop[k].stamp /\ loop[k].stamp <= stamps
      BY <1>1, <2>1, <2>2, <2>6 DEF Keeps, LoopLater
    <3>4. loop[k].stamp \in Nat
      BY <1>0, SetsAssumption, TypesNow DEF Write
    <3>5. files[splinterFile[c]].stamp >= loop[k].stamp
      BY <3>3, <3>4
    <3> QED BY <1>1, <1>2, <2>2, <2>4, <2>5, <2>6, <3>1, <3>2, <3>3, <3>5 DEF Kept
  <2>8. \A d \in Client : d # c => Kept(d)'
    BY <1>0, <1>1, <1>2, <2>5, EffectiveIs, KeptStays DEF Keeps
  <2>9. ASSUME NEW l \in Conn, l # k PROVE LoopLater(l)' /\ OnSplinter(l)'
    <3>1. CASE client[l] = c
      <4>1. drives[l] = 0 /\ loop[l].pc = "idle"
        BY <2>1, <2>2, <2>3, <2>9, <3>1, OneSession
      <4> QED BY <1>1, <2>9, <4>1 DEF LoopLater, OnSplinter
    <3>2. CASE client[l] # c
      <4>1. Persistent(l) => client[l] \in Client
        BY <1>0, PersistentHasClient
      <4>2. LoopLater(l)'
        BY <1>0, <1>1, <1>2, <2>5, <2>9, <3>2, <4>1, LoopLaterStays DEF Keeps
      <4>3. OnSplinter(l)'
        BY <1>1, <1>2, <2>5, <3>2, <4>1, OnSplinterStays DEF Keeps
      <4> QED BY <4>2, <4>3
    <3> QED BY <3>1, <3>2
  <2>10. LoopLater(k)' /\ OnSplinter(k)'
    <3>1. OnSplinter(k)
      BY DEF Keeps
    <3> QED BY <1>1, <1>2, <2>2, <2>6, <3>1 DEF LoopLater, OnSplinter, NoWrite, Persistent,
               WritesMaster
  <2>11. ASSUME NEW q \in Proc, NEW l \in Conn PROVE OpensKept(q, l)'
    <3> SUFFICES ASSUME WorksOn(q, l), Persistent(l), job[q].kind # "remove"
                 PROVE  OpensKept(q, l)'
      BY <1>1 DEF OpensKept, WorksOn, Persistent, WritesMaster
    <3>1. CASE client[l] # c
      BY <1>0, <1>1, <2>5, <3>1, PersistentHasClient, OpensKeptStays DEF Keeps
    <3>2. CASE client[l] = c
      <4>1. l = k
        BY <2>1, <2>2, <2>3, <3>2, OneSession
      <4>2. job[q].pc = "close"
        BY <2>3, <4>1
      <4>3. DoesWork(q, k)
        BY <1>0, <4>1 DEF SessionOK, WorkedOn
      <4>4. InFlight(q)
        BY <1>1, <2>3, <4>2, <4>3 DEF InFlight, DoesWork, Closing
      <4>5. job[q].entry # NoEntry =>
              EffectiveImage(c) \in {NoImage, job[q].entry.filename}
        BY <2>2, <4>1, <4>4 DEF Base, Overlap, MountMeets, EffectiveImage
      <4>6. sds[drives[k]].master \in Image
        BY <1>0, <2>3, SessionFacts DEF SessionDrive
      <4>7. job[q].entry # NoEntry => sds[drives[k]].master = job[q].entry.filename
        BY <2>1, <2>2, <2>3, <4>5, <4>6, NamesAssumption
      <4>8. a.image = sds[drives[k]].master
        BY <2>4
      <4> QED BY <1>1, <2>2, <2>5, <4>1, <4>2, <4>7, <4>8 DEF OpensKept
    <3> QED BY <3>1, <3>2
  <2> QED BY <2>7, <2>8, <2>9, <2>10, <2>11 DEF Keeps
<1> QED BY <1>3, <1>4

-----------------------------------------------------------------------------
(* Requests and restarts keep the acknowledged writes *)

\* A change of the tables: a client that is given another image expects nothing.
LEMMA StillServedIs ==
    ASSUME IndInv, NEW c \in Client, acked'[c] = StillServed(mounts', overrides')[c]
    PROVE  /\ acked'[c] \in {acked[c], NoAck}
           /\ acked'[c] # NoAck => EffectiveImage(c)' \in {NoImage, acked'[c].image}
BY EffectiveIs DEF StillServed

LEMMA TablesKeep ==
    ASSUME IndInv, NEW c \in Client, Kept(c),
           UNCHANGED <<rows, splinterFile, files, stamps>>,
           acked'[c] \in {acked[c], NoAck},
           acked'[c] # NoAck => EffectiveImage(c)' \in {NoImage, acked'[c].image}
    PROVE  Kept(c)'
BY DEF Kept

\* A step that leaves the sessions and the splinters alone.
LEMMA SessionsKeep ==
    ASSUME IndInv, Keeps, UNCHANGED <<rows, splinterFile, client, sds, drives, loop, stamps>>,
           \A c \in Client : acked'[c] \in {acked[c], NoAck},
           \A i \in DOMAIN files : files'[i] = files[i],
           \A p \in Proc : job'[p] = job[p] \/ job'[p].pc \notin Closing \cup Opening
    PROVE  /\ \A k \in Conn : LoopLater(k)' /\ OnSplinter(k)'
           /\ \A p \in Proc, k \in Conn : OpensKept(p, k)'
<1>1. ASSUME NEW k \in Conn PROVE LoopLater(k)' /\ OnSplinter(k)'
  <2>1. stamps \in Nat
    BY SetsAssumption DEF IndInv, TablesOK
  <2>2. LoopLater(k)'
    BY <2>1, LoopLaterStays, PersistentHasClient DEF Keeps, IndInv, LoopsOK
  <2>3. OnSplinter(k)'
    BY OnSplinterStays, PersistentHasClient DEF Keeps
  <2> QED BY <2>2, <2>3
<1>2. ASSUME NEW p \in Proc, NEW k \in Conn PROVE OpensKept(p, k)'
  BY OpensKeptStays, PersistentHasClient DEF Keeps
<1> QED BY <1>1, <1>2

LEMMA ForgottenKeepsAcks ==
    ASSUME Base, Keeps, NEW r \in Req, Forgotten(r)
    PROVE  Keeps'
<1>0. IndInv /\ Structure /\ r \in Proc /\ stamps \in Nat
  BY SetsAssumption DEF Base, Proc, IndInv, TablesOK
<1>1. PICK c \in Client : c = job[r].client
  BY <1>0, TypesNow DEF Forgotten, At, Fits
<1>2. /\ UNCHANGED <<mounts, files, client, sds, drives, loop, stamps>>
      /\ splinterFile' = splinterFile \/ splinterFile' = [splinterFile EXCEPT ![c] = 0]
      /\ rows' = rows \/ rows' = [rows EXCEPT ![c] = NoImage]
      /\ acked' = [StillServed(mounts, overrides') EXCEPT ![c] = NoAck]
      /\ job[r].pc = "forget" /\ Go(r, [job[r] EXCEPT !.pc = "sync"])
  BY <1>1 DEF Forgotten, At, session, bounds, net
<1>3. /\ \A d \in Client : d # c => rows'[d] = rows[d] /\ splinterFile'[d] = splinterFile[d]
      /\ acked'[c] = NoAck
      /\ \A d \in Client : d # c => acked'[d] = StillServed(mounts', overrides')[d]
  BY <1>0, <1>2 DEF IndInv, DiskOK, StillServed
<1>4. \A d \in Client : /\ acked'[d] \in {acked[d], NoAck}
                        /\ acked'[d] # NoAck => EffectiveImage(d)' \in {NoImage, acked'[d].image}
  BY <1>0, <1>3, StillServedIs
<1>5. ASSUME NEW k \in Conn, client[k] = c
      PROVE  drives[k] = 0 /\ loop[k].pc = "idle" /\ \A p \in Proc : ~WorksOn(p, k)
  <2>1. job[r].kind = "forget"
    BY <1>0, <1>2 DEF Structure, Seated, SeatedJob
  <2>2. ~Alive(k)
    BY <1>1, <1>5, <2>1 DEF Base, Overlap, ForgetMeets
  <2> QED BY <2>2, WhoLives
<1>6. \A p \in Proc : job'[p] = job[p] \/ job'[p].pc \notin Closing \cup Opening
  <2>1. Steps(r, job'[r]) /\ job'[r].pc = "sync"
    BY <1>0, <1>2, PcSteps
  <2> QED BY <2>1 DEF Steps, Closing, Opening
<1>7. ASSUME NEW d \in Client PROVE Kept(d)'
  <2>1. d = c => Kept(d)'
    BY <1>3 DEF Kept
  <2>2. d # c => Kept(d)'
    BY <1>2, <1>3, <1>4 DEF Keeps, Kept
  <2> QED BY <2>1, <2>2
<1>8. ASSUME NEW k \in Conn PROVE LoopLater(k)' /\ OnSplinter(k)'
  <2>1. client[k] = c => LoopLater(k)' /\ OnSplinter(k)'
    BY <1>2, <1>5 DEF LoopLater, OnSplinter
  <2>2. Persistent(k) => client[k] \in Client
    BY <1>0, PersistentHasClient
  <2>3. LoopLater(k)'
    BY <1>0, <1>2, <1>4, <2>2, LoopLaterStays DEF Keeps
  <2>4. client[k] # c => OnSplinter(k)'
    BY <1>2, <1>3, <1>4, <2>2, OnSplinterStays DEF Keeps
  <2> QED BY <2>1, <2>3, <2>4
<1>9. ASSUME NEW p \in Proc, NEW k \in Conn PROVE OpensKept(p, k)'
  <2>1. Persistent(k) /\ WorksOn(p, k) => client[k] \in Client /\ client[k] # c
    BY <1>0, <1>5, PersistentHasClient
  <2> QED BY <1>2, <1>3, <1>4, <1>6, <2>1, OpensKeptStays DEF Keeps
<1> QED BY <1>7, <1>8, <1>9 DEF Keeps

LEMMA RequestKeepsAcks ==
    ASSUME Base, Keeps, NEW r \in Req, RequestNext(r)
    PROVE  Keeps'
<1>0. IndInv /\ DOMAIN files = 1 .. Len(files) /\ files \in Seq(File)
  BY LenProperties DEF Base, IndInv, DiskOK
<1>1. /\ UNCHANGED <<client, sds, drives, loop, stamps>>
      /\ Steps(r, job'[r]) /\ Aside(job'[r])
  BY RequestDoes
<1>2. \A p \in Proc : job'[p] = job[p] \/ job'[p].pc \notin Closing \cup Opening
  BY <1>1 DEF Steps, Aside
<1>3. ASSUME NEW c \in Client, (\E f \in Image : SetClientDrive(r, c, f)) \/ ClearClientDrive(r, c)
      PROVE  Keeps'
  <2>1. UNCHANGED <<mounts, files, splinterFile, rows>> /\ acked' = StillServed(mounts', overrides')
    BY <1>3 DEF SetClientDrive, ClearClientDrive, disk
  <2>2. \A d \in Client : /\ acked'[d] \in {acked[d], NoAck}
                          /\ acked'[d] # NoAck => EffectiveImage(d)' \in {NoImage, acked'[d].image}
    BY <1>0, <2>1, StillServedIs
  <2>3. \A d \in Client : Kept(d)'
    BY <1>0, <1>1, <2>1, <2>2, TablesKeep DEF Keeps
  <2> QED BY <1>0, <1>1, <1>2, <2>1, <2>2, <2>3, SessionsKeep DEF Keeps
<1>4. ASSUME Untouched PROVE Keeps'
  <2>1. \A i \in DOMAIN files : files'[i] = files[i]
    BY <1>4 DEF Untouched
  <2> QED BY <1>0, <1>1, <1>2, <1>4, <2>1, SessionsKeep, UntouchedKept DEF Keeps, Untouched
<1>5. ASSUME NEW c \in Client, ForgetClient(r, c) \/ CommitClientSplinter(r, c)
      PROVE  Untouched
  BY <1>1, <1>5 DEF ForgetClient, CommitClientSplinter, tables, disk, Untouched
<1>6. CASE CommitChecked(r) \/ CommitRenamed(r)
  <2>1. Untouched
    BY <1>1, <1>6 DEF CommitChecked, CommitRenamed, tables, disk, Untouched
  <2> QED BY <1>4, <2>1
<1>7. CASE CommitCopied(r)
  <2>1. UNCHANGED <<mounts, overrides, splinterFile, rows, acked>>
    BY <1>7 DEF CommitCopied, tables
  <2>2. \A i \in DOMAIN files : files'[i] = files[i]
    <3>1. files' = files \/ \E e : files' = Append(files, e)
      BY <1>7 DEF CommitCopied
    <3> QED BY <1>0, <3>1
  <2>3. ASSUME NEW d \in Client PROVE Kept(d)'
    <3>1. splinterFile[d] # 0 => files'[splinterFile[d]] = files[splinterFile[d]]
      BY <1>0, <2>2 DEF IndInv, DiskOK
    <3>2. stamps \in Nat
      BY <1>0, SetsAssumption DEF IndInv, TablesOK
    <3> QED BY <1>0, <1>1, <2>1, <3>1, <3>2, EffectiveIs, KeptStays DEF Keeps
  <2> QED BY <1>0, <1>1, <1>2, <2>1, <2>2, <2>3, SessionsKeep DEF Keeps
<1>8. CASE Reloaded(r)
  <2>1. UNCHANGED <<overrides, files, splinterFile, rows, acked>>
    BY <1>8 DEF Reloaded, disk
  <2>2. mounts'.filename = mounts.filename
    <3>1. mounts \in MountEntry
      BY <1>0 DEF IndInv, TablesOK
    <3>2. mounts' = mounts \/ mounts' = [mounts EXCEPT !.epoch = epoch + 1]
      BY <1>8 DEF Reloaded
    <3> QED BY <3>1, <3>2 DEF MountEntry
  <2>3. \A d \in Client : EffectiveImage(d)' = EffectiveImage(d)
    BY <2>1, <2>2, EffectiveIs
  <2>4. stamps \in Nat
    BY <1>0, SetsAssumption DEF IndInv, TablesOK
  <2>5. \A d \in Client : Kept(d)'
    BY <1>0, <1>1, <2>1, <2>3, <2>4, KeptStays DEF Keeps
  <2> QED BY <1>0, <1>1, <1>2, <2>1, <2>5, SessionsKeep DEF Keeps
<1> QED BY <1>3, <1>4, <1>5, <1>6, <1>7, <1>8, ForgottenKeepsAcks DEF RequestNext

LEMMA OperatorKeepsAcks ==
    ASSUME Base, Keeps,
           OperatorUnmount \/ \E f \in Image, readonly \in BOOLEAN : OperatorMount(f, readonly)
    PROVE  Keeps'
<1>0. IndInv
  BY DEF Base
<1>1. UNCHANGED <<overrides, files, splinterFile, rows, client, sds, drives, loop, job, stamps>>
  BY DEF OperatorUnmount, OperatorMount, disk, net, session, bounds
<1>2. \A d \in Client : /\ acked'[d] \in {acked[d], NoAck}
                        /\ acked'[d] # NoAck => EffectiveImage(d)' \in {NoImage, acked'[d].image}
  <2>1. CASE OperatorUnmount
    <3>1. acked' = acked /\ mounts'.filename = NoImage
      BY <2>1 DEF OperatorUnmount, NotMounted
    <3>2. \A d \in Client : EffectiveImage(d)' \in {NoImage, EffectiveImage(d)}
      BY <1>1, <3>1, EffectiveIs
    <3> QED BY <3>1, <3>2 DEF Keeps, Kept
  <2>2. CASE ~OperatorUnmount
    <3>1. acked' = StillServed(mounts', overrides')
      BY <1>1, <2>2 DEF OperatorMount
    <3> QED BY <1>0, <3>1, StillServedIs
  <2> QED BY <2>1, <2>2
<1>3. \A d \in Client : Kept(d)'
  BY <1>0, <1>1, <1>2, TablesKeep DEF Keeps
<1> QED BY <1>0, <1>1, <1>2, <1>3, SessionsKeep DEF Keeps

LEMMA RestartKeepsAcks ==
    ASSUME Base, Keeps, Restart
    PROVE  Keeps'
<1>0. IndInv
  BY DEF Base
<1>1. /\ UNCHANGED <<overrides, files, splinterFile, rows, client, stamps, acked>>
      /\ mounts'.filename = NoImage
      /\ \A k \in Conn : drives'[k] = 0 /\ loop'[k].pc = "idle"
      /\ \A p \in Proc : job'[p].pc = "idle"
  BY RestartDoes DEF NotMounted, NoWrite, NoJob
<1>2. \A d \in Client : EffectiveImage(d)' \in {NoImage, EffectiveImage(d)}
  BY <1>1, EffectiveIs
<1>3. \A d \in Client : Kept(d)'
  BY <1>1, <1>2 DEF Keeps, Kept
<1> QED BY <1>1, <1>3 DEF Keeps, LoopLater, OnSplinter, OpensKept, WorksOn

LEMMA KeepsKept ==
    ASSUME Base, Keeps, "reattach" \notin Faults, [Next]_vars
    PROVE  Keeps'
<1>0. IndInv
  BY DEF Base
<1>1. ASSUME NEW p \in Proc, SyncNext(p) PROVE Keeps'
  BY <1>1, SyncSessionKeepsAcks, SyncDoneKeepsAcks, ClosingKeepsAcks, AttachingKeepsAcks,
     OpeningKeepsAcks DEF SyncNext
<1>2. ASSUME NEW k \in Conn, ConnNext(k) PROVE Keeps'
  BY <1>2, ConnectKeepsAcks, LeaveKeepsAcks, ForkCopyFailsKeepsAcks, ForkFailsKeepsAcks,
     ForkCopiedKeepsAcks, ForkOpenedKeepsAcks, WriteTrackKeepsAcks, WriteLandsKeepsAcks,
     WriteSyncedKeepsAcks DEF ConnNext
<1>3. CASE UNCHANGED vars
  <2>1. Untouched /\ UNCHANGED <<client, sds, drives, loop, job>>
    BY <1>3 DEF vars, tables, disk, net, session, bounds, Untouched
  <2> QED BY <1>0, <2>1, UntouchedKept, UntouchedLoops, UntouchedDrives, UntouchedJobs DEF Keeps
<1> QED BY <1>1, <1>2, <1>3, RequestKeepsAcks, OperatorKeepsAcks, RestartKeepsAcks DEF Next

\* What a client was told of is what its sessions serve.
LEMMA KeepsSurvives ==
    ASSUME Base, Keeps
    PROVE  AcknowledgedSurvives
<1> SUFFICES ASSUME NEW c \in Client, acked[c] # NoAck
             PROVE  /\ rows[c] = acked[c].image
                    /\ splinterFile[c] # 0
                    /\ files[splinterFile[c]].author = c
                    /\ files[splinterFile[c]].stamp >= acked[c].stamp
                    /\ \A k \in Served : client[k] = c /\ drives[k] # 0
                                         /\ sds[drives[k]].master = acked[c].image =>
                         sds[drives[k]].file = splinterFile[c]
  BY DEF AcknowledgedSurvives
<1>1. Kept(c)
  BY DEF Keeps
<1>2. ASSUME NEW k \in Served, client[k] = c, drives[k] # 0
      PROVE  sds[drives[k]].file = splinterFile[c]
  <2>1. k \in Conn
    BY SessionFacts DEF Base
  <2>2. Persistent(k)
    BY <1>1, <1>2, NamesAssumption DEF Kept, Persistent, WritesMaster
  <2> QED BY <1>2, <2>1, <2>2 DEF Keeps, OnSplinter
<1> QED BY <1>1, <1>2 DEF Kept

\* A client that was told that its write is done, and has been given no other image since,
\* finds it or a later one, through reconnects, mounts of the same image, commits and
\* restarts (drive-session.ts:46-47, 163-184), as long as the activities of Overlap do not
\* meet and a splinter that is there can be opened: for any number of clients, connections,
\* requests and writes.
THEOREM AcknowledgedKept ==
    ASSUME "reattach" \notin Faults
    PROVE  ApartSpec => []AcknowledgedSurvives
<1>1. Init => Keeps
  BY DEF Init, Keeps, Kept, LoopLater, OnSplinter, OpensKept, WorksOn, NoJob, NoWrite, Proc
<1>2. Init => Base
  BY InitHolds, InitStructure DEF Base
<1>3. Base /\ Keeps /\ [Next /\ Apart]_vars => Base' /\ Keeps'
  BY BaseKept, KeepsKept
<1>4. Base /\ Keeps => AcknowledgedSurvives
  BY KeepsSurvives
<1> QED BY <1>1, <1>2, <1>3, <1>4, PTL DEF ApartSpec

=============================================================================
