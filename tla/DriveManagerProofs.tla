------------------------- MODULE DriveManagerProofs -------------------------
(***************************************************************************)
(* What holds of the drive engine for any number of drives, images,        *)
(* overlapping requests and faults.                                        *)
(***************************************************************************)
EXTENDS DriveManager, SequenceTheorems, TLAPS

\* A path names an existing scratch copy, or a master.
FileRef(p) == IF p.scratch THEN p.number \in 1 .. Len(scratches) ELSE p.number = 0

OperationOK(o) ==
    /\ FileRef(o.path)
    /\ o.handle \in 0 .. Len(handles)
    /\ o.doomed \in 0 .. Len(scratches)
    /\ o.kind \in {"mount", "protect", "commit"} => o.image \in Image
    /\ o.pc \in {"access", "policy", "scratch", "open"} => o.kind \in {"mount", "protect"}
    /\ o.pc \in {"copy", "rename"} =>
          o.kind = "commit" /\ o.path.scratch /\ o.path.image = o.image

\* The flag says where the handle in the map leads.
DriveOK(d) ==
    /\ drives[d].scratchPath \in 0 .. Len(scratches)
    /\ drives[d].transient /\ fileHandles[d] # 0
          => handles[fileHandles[d]].path.scratch

GuestOK ==
    /\ guest.handle \in 0 .. Len(handles)
    /\ guest.pc # "idle" => guest.handle # 0

References ==
    /\ \A r \in Req : OperationOK(op[r])
    /\ \A d \in Drive : DriveOK(d)
    /\ \A h \in 1 .. Len(handles) : FileRef(handles[h].path)
    /\ GuestOK

IndInv ==
    /\ TypeOK
    /\ References
    /\ RegistryNamesMountedImage
    /\ ProtectedWritesStayOnScratch

-----------------------------------------------------------------------------
(* Lemmas about the operators of the model *)

\* Replacing the elements of a sequence by others of the set gives a sequence of
\* the same length.
LEMMA Mapped ==
    ASSUME NEW S, NEW s \in Seq(S), NEW t, t \in [DOMAIN s -> S]
    PROVE  t \in Seq(S) /\ Len(t) = Len(s) /\ DOMAIN t = 1 .. Len(s)
BY SMT

\* Closing a handle changes no path.
LEMMA ClosingKeepsPaths ==
    ASSUME NEW hs \in Seq(Handle), NEW h \in 1 .. Len(hs)
    PROVE  LET t == [hs EXCEPT ![h].open = FALSE] IN
           /\ t \in Seq(Handle)
           /\ Len(t) = Len(hs)
           /\ \A i \in 1 .. Len(hs) : t[i].path = hs[i].path
<1> DEFINE e == [hs[h] EXCEPT !.open = FALSE]
           t == [hs EXCEPT ![h] = e]
<1>1. hs[h] \in Handle
    BY ElementOfSeq
<1>2. e \in Handle /\ e.path = hs[h].path
    BY <1>1 DEF Handle
<1> HIDE DEF e
<1>3. /\ t \in Seq(Handle) /\ Len(t) = Len(hs)
      /\ \A j \in 1 .. Len(hs) : t[j] = IF j = h THEN e ELSE hs[j]
    BY <1>2, ExceptSeq
<1>4. \A i \in 1 .. Len(hs) : t[i].path = hs[i].path
    BY <1>2, <1>3
<1> QED
    BY <1>3, <1>4 DEF e

\* discardScratch removes no scratch from the table, it only marks it.
LEMMA UnlinkingKeepsTable ==
    ASSUME NEW ss \in Seq(Scratch), NEW n \in 1 .. Len(ss)
    PROVE  LET t == [ss EXCEPT ![n].exists = FALSE] IN
           t \in Seq(Scratch) /\ Len(t) = Len(ss)
<1> DEFINE e == [ss[n] EXCEPT !.exists = FALSE]
<1>1. ss[n] \in Scratch
    BY ElementOfSeq
<1>2. e \in Scratch
    BY <1>1 DEF Scratch
<1> HIDE DEF e
<1>3. LET t == [ss EXCEPT ![n] = e] IN t \in Seq(Scratch) /\ Len(t) = Len(ss)
    BY <1>2, ExceptSeq
<1> QED
    BY <1>3 DEF e

LEMMA IdleTypes == NoOperation \in Operation /\ NoTransfer \in Guest
<1>1. AnyDrive \in Drive
    BY DriveAssumption DEF AnyDrive
<1> QED
    BY <1>1, BoundsAssumption, SMT DEF NoOperation, Operation, NoTransfer, Guest, Kind, Pc,
       GuestPc, NoPath, Master, Path, Stamp

LEMMA InitEstablishes == Init => IndInv
<1> SUFFICES ASSUME Init PROVE IndInv
    OBVIOUS
<1>1. TypeOK
    BY IdleTypes, BoundsAssumption, SMT DEF Init, TypeOK, DriveState, MountEntry, NotMounted, NoPath, Master,
       Path, Stamp, NoStamp
<1>2. References
    BY SMT DEF Init, References, OperationOK, DriveOK, GuestOK, FileRef, NoOperation, NoTransfer,
       NoPath, Master
<1>3. RegistryNamesMountedImage /\ ProtectedWritesStayOnScratch
    BY SMT DEF Init, RegistryNamesMountedImage, ProtectedWritesStayOnScratch, NoTransfer
<1> QED
    BY <1>1, <1>2, <1>3 DEF IndInv

-----------------------------------------------------------------------------
(* The steps preserve the invariant *)

LEMMA Tables ==
    ASSUME TypeOK
    PROVE  /\ Len(handles) \in Nat /\ DOMAIN handles = 1 .. Len(handles)
           /\ \A h \in 1 .. Len(handles) : handles[h] \in Handle
           /\ Len(scratches) \in Nat /\ DOMAIN scratches = 1 .. Len(scratches)
           /\ \A n \in 1 .. Len(scratches) : scratches[n] \in Scratch
BY LenProperties, ElementOfSeq DEF TypeOK

\* The tables of handles and scratches only grow, and paths stay.
Growth ==
    /\ Len(handles) <= Len(handles')
    /\ \A h \in 1 .. Len(handles) : handles'[h].path = handles[h].path
    /\ Len(scratches) <= Len(scratches')

WritePc == {"datasync", "write", "sync", "sleep"}

\* What a step does not touch keeps its part of the invariant.
LEMMA Kept ==
    ASSUME IndInv, TypeOK', Growth
    PROVE  /\ \A r \in Req : op'[r] = op[r] => OperationOK(op[r])'
           /\ \A d \in Drive :
                 /\ drives'[d].transient => drives[d].transient
                 /\ drives'[d].scratchPath \in {0, drives[d].scratchPath}
                 /\ fileHandles'[d] \in {0, fileHandles[d]}
                 => DriveOK(d)'
           /\ \A h \in 1 .. Len(handles) : FileRef(handles[h].path)'
           /\ \/ guest' \in {guest, NoTransfer}
              \/ /\ {guest.pc, guest'.pc} \subseteq WritePc
                 /\ guest'.handle = guest.handle
                 /\ guest'.protected = guest.protected
              => GuestOK' /\ ProtectedWritesStayOnScratch'
<1> USE Tables DEF IndInv, Growth
<1>1. /\ Len(handles') \in Nat /\ Len(scratches') \in Nat
      /\ Len(handles) \in Nat /\ Len(scratches) \in Nat
    BY LenProperties DEF TypeOK
<1>2. ASSUME NEW r \in Req, op'[r] = op[r] PROVE OperationOK(op[r])'
    BY <1>1, <1>2 DEF References, OperationOK, FileRef
<1>3. ASSUME NEW d \in Drive, drives'[d].transient => drives[d].transient,
             drives'[d].scratchPath \in {0, drives[d].scratchPath},
             fileHandles'[d] \in {0, fileHandles[d]}
      PROVE  DriveOK(d)'
    <2>1. DriveOK(d) /\ fileHandles[d] \in 0 .. Len(handles)
        BY DEF References, TypeOK
    <2>2. drives'[d].scratchPath \in 0 .. Len(scratches')
        BY <1>1, <1>3, <2>1 DEF DriveOK
    <2>3. ASSUME drives'[d].transient, fileHandles'[d] # 0
          PROVE  handles'[fileHandles'[d]].path.scratch
        <3>1. fileHandles'[d] = fileHandles[d] /\ fileHandles[d] \in 1 .. Len(handles)
            BY <1>1, <1>3, <2>1, <2>3
        <3> QED
            BY <1>3, <2>1, <2>3, <3>1 DEF DriveOK
    <2> QED
        BY <2>2, <2>3 DEF DriveOK
<1>4. ASSUME NEW h \in 1 .. Len(handles) PROVE FileRef(handles[h].path)'
    BY <1>1, <1>4 DEF References, FileRef
<1>5. ASSUME \/ guest' \in {guest, NoTransfer}
             \/ /\ {guest.pc, guest'.pc} \subseteq WritePc
                /\ guest'.handle = guest.handle
                /\ guest'.protected = guest.protected
      PROVE  GuestOK' /\ ProtectedWritesStayOnScratch'
    <2>1. GuestOK /\ ProtectedWritesStayOnScratch
        BY DEF References
    <2>2. CASE guest' = NoTransfer
        BY <1>1, <2>2 DEF NoTransfer, GuestOK, ProtectedWritesStayOnScratch
    <2>3. CASE /\ guest'.handle = guest.handle /\ guest'.protected = guest.protected
               /\ guest'.pc = guest.pc \/ {guest.pc, guest'.pc} \subseteq WritePc
        <3>1. GuestOK'
            BY <1>1, <2>1, <2>3 DEF GuestOK, WritePc
        <3>2. ProtectedWritesStayOnScratch'
            BY <1>1, <2>1, <2>3 DEF GuestOK, WritePc, ProtectedWritesStayOnScratch
        <3> QED
            BY <3>1, <3>2
    <2> QED
        BY <1>5, <2>2, <2>3
<1> QED
    BY <1>2, <1>3, <1>4, <1>5

LEMMA ReleaseKeepsTypes ==
    ASSUME IndInv, NEW r \in Req, NEW d \in Drive, NEW h \in 0 .. Len(handles),
           NEW o \in Operation, Release(r, d, h, o), FileRef(o.path),
           o.kind \in {"mount", "unmount", "protect"},
           o.kind # "unmount" => o.image \in Image
    PROVE  /\ handles' \in Seq(Handle)
           /\ Len(handles') = Len(handles)
           /\ \A i \in 1 .. Len(handles) : handles'[i].path = handles[i].path
           /\ op' \in [Req -> Operation]
           /\ \A q \in Req : scratches' = scratches => OperationOK(op[q])'
<1> USE Tables DEF IndInv
<1>1. /\ handles' \in Seq(Handle)
      /\ Len(handles') = Len(handles)
      /\ \A i \in 1 .. Len(handles) : handles'[i].path = handles[i].path
    <2>1. CASE h = 0
        BY <2>1 DEF Release, CloseRequested, IndInv, TypeOK
    <2>2. CASE h # 0
        BY <2>2, ClosingKeepsPaths DEF Release, CloseRequested, IndInv, TypeOK
    <2> QED
        BY <2>1, <2>2
<1>2. op' \in [Req -> Operation]
    <2> DEFINE x == IF h = 0 THEN drives[d].scratchPath ELSE 0
               y == [o EXCEPT !.pc = IF h = 0 THEN "discard" ELSE "close",
                              !.handle = h, !.doomed = x]
    <2>1. h \in Nat /\ x \in Nat
        BY DEF TypeOK, DriveState
    <2> HIDE DEF x
    <2>2. y \in Operation
        BY <2>1 DEF Operation, Pc
    <2>3. op' = [op EXCEPT ![r] = y]
        BY DEF Release, x
    <2> HIDE DEF y
    <2> QED
        BY <2>2, <2>3 DEF TypeOK
<1>3. ASSUME NEW q \in Req, scratches' = scratches PROVE OperationOK(op[q])'
    <2>1. CASE q # r
        <3>1. op'[q] = op[q]
            BY <2>1 DEF Release, TypeOK
        <3>2. OperationOK(op[q])
            BY DEF References
        <3> QED
            BY <1>1, <1>3, <3>1, <3>2 DEF OperationOK, FileRef
    <2>2. CASE q = r
        <3>1. /\ op'[q].path = o.path /\ op'[q].handle = h
              /\ op'[q].doomed \in {0, drives[d].scratchPath}
              /\ op'[q].kind = o.kind /\ op'[q].image = o.image
              /\ op'[q].pc \in {"discard", "close"}
            BY <2>2 DEF Release, TypeOK, Operation
        <3>2. drives[d].scratchPath \in 0 .. Len(scratches)
            BY DEF References, DriveOK
        <3> QED
            BY <1>1, <1>3, <3>1, <3>2 DEF OperationOK, FileRef
    <2> QED
        BY <2>1, <2>2
<1> QED
    BY <1>1, <1>2, <1>3

\* The steps of the guest: no request, no handle and no drive but the dirty flag changes.
LEMMA GuestKeepsInvariant ==
    ASSUME IndInv, GuestStep
    PROVE  IndInv'
<1> DEFINE GoesOn == \/ guest' = NoTransfer
                     \/ /\ {guest.pc, guest'.pc} \subseteq WritePc
                        /\ guest'.handle = guest.handle
                        /\ guest'.protected = guest.protected
<1> USE Tables DEF IndInv
<1>1. ASSUME UNCHANGED <<fileHandles, handles, mountRegistry, commitTmp, op, requests>>,
             drives' \in [Drive -> DriveState],
             \A d \in Drive : drives'[d] = [drives[d] EXCEPT !.dirty = drives'[d].dirty],
             images' \in [Image -> Stamp],
             scratches' \in Seq(Scratch), Len(scratches') = Len(scratches),
             guest' \in Guest, cached' \in [Drive -> Path], stamps' \in 0 .. MaxWrites,
             GoesOn \/ (GuestOK' /\ ProtectedWritesStayOnScratch')
      PROVE  IndInv'
    <2>1. TypeOK'
        BY <1>1 DEF TypeOK
    <2>2. Growth
        BY <1>1 DEF Growth
    <2>3. \A d \in Drive : /\ drives'[d].mounted = drives[d].mounted
                           /\ drives'[d].filename = drives[d].filename
                           /\ drives'[d].transient = drives[d].transient
                           /\ drives'[d].scratchPath = drives[d].scratchPath
        BY <1>1 DEF TypeOK, DriveState
    <2>6. GuestOK' /\ ProtectedWritesStayOnScratch'
        BY <1>1, <2>1, <2>2, Kept
    <2>4. References'
        BY <1>1, <2>1, <2>2, <2>3, <2>6, Kept DEF References
    <2>5. RegistryNamesMountedImage'
        BY <1>1, <2>3 DEF RegistryNamesMountedImage
    <2> QED
        BY <2>1, <2>4, <2>5, <2>6
<1> USE DEF engine, files, NextCall, GuestResumes
<1>2. guest \in Guest /\ NoTransfer \in Guest /\ GuestOK /\ ProtectedWritesStayOnScratch
    BY IdleTypes DEF TypeOK, References
<1>3. \A d \in Drive : drives[d] = [drives[d] EXCEPT !.dirty = drives[d].dirty]
    BY DEF TypeOK, DriveState
<1>4. ASSUME NEW pc \in {"write", "sync"}, guest.pc \in WritePc, NextCall(pc)
      PROVE  guest' \in Guest /\ GoesOn
    <2>1. [guest EXCEPT !.pc = pc] \in Guest
        BY <1>2 DEF Guest, GuestPc
    <2>2. [guest EXCEPT !.pc = pc] = guest' =>
             guest'.pc = pc /\ guest'.handle = guest.handle /\ guest'.protected = guest.protected
        BY <1>2 DEF Guest
    <2> QED
        BY <1>2, <1>4, <2>1, <2>2 DEF WritePc
<1>5. ASSUME NEW d \in Drive, BeginRead(d)
      PROVE  IndInv'
    <2>2. fileHandles[d] \in 1 .. Len(handles)
        BY <1>5 DEF BeginRead, Ready, TypeOK
    <2>1. guest' \in Guest
        <3>1. fileHandles[d] \in Nat
            BY <2>2
        <3>2. [NoTransfer EXCEPT !.pc = "read", !.drive = d, !.handle = fileHandles[d]] \in Guest
            BY <1>2, <3>1 DEF Guest, GuestPc
        <3> QED
            BY <1>5, <3>2 DEF BeginRead
    <2>3. GuestOK' /\ ProtectedWritesStayOnScratch'
        BY <1>2, <1>5, <2>2 DEF BeginRead, GuestOK, ProtectedWritesStayOnScratch, NoTransfer
    <2> QED
        BY <1>1, <1>3, <1>5, <2>1, <2>3 DEF BeginRead, TypeOK
<1>6. ASSUME NEW d \in Drive, BeginWrite(d)
      PROVE  IndInv'
    <2>1. stamps' \in Stamp
        BY <1>6, BoundsAssumption DEF BeginWrite, TypeOK, Stamp
    <2>2. drives[d].readonly \in BOOLEAN /\ fileHandles[d] \in 1 .. Len(handles)
        BY <1>6 DEF BeginWrite, Ready, TypeOK, DriveState
    <2>3. guest' \in Guest
        <3>1. fileHandles[d] \in Nat /\ stamps + 1 \in Stamp
            BY <1>6, <2>1, <2>2 DEF BeginWrite
        <3>2. [NoTransfer EXCEPT !.pc = "datasync", !.drive = d, !.handle = fileHandles[d],
                  !.protected = drives[d].readonly, !.stamp = stamps + 1] \in Guest
            BY <1>2, <2>2, <3>1 DEF Guest, GuestPc
        <3> QED
            BY <1>6, <3>2 DEF BeginWrite
    <2>4. GuestOK'
        BY <1>6, <2>2 DEF BeginWrite, GuestOK, NoTransfer
    <2>5. ProtectedWritesStayOnScratch'
        BY <1>6, <2>2 DEF BeginWrite, Writable, References, DriveOK, ProtectedWritesStayOnScratch, NoTransfer
    <2> QED
        BY <1>1, <1>3, <1>6, <2>1, <2>3, <2>4, <2>5 DEF BeginWrite, TypeOK, Stamp
<1>7. CASE ReadDone
    <2>1. handles[guest.handle].path \in Path
        BY <1>2, <1>7 DEF ReadDone, GuestOK, Handle
    <2>2. GuestOK' /\ ProtectedWritesStayOnScratch'
        BY <1>7 DEF ReadDone, GuestOK, ProtectedWritesStayOnScratch, NoTransfer
    <2> QED
        BY <1>1, <1>2, <1>3, <1>7, <2>1, <2>2 DEF ReadDone, TypeOK, Guest
<1>8. CASE DatasyncDone
    <2>1. guest' \in Guest /\ GoesOn
        BY <1>4, <1>8 DEF DatasyncDone, WritePc
    <2> QED
        BY <1>1, <1>3, <1>8, <2>1 DEF DatasyncDone, TypeOK
<1>9. CASE WriteLands
    <2> DEFINE h == handles[guest.handle]
    <2>1. h \in Handle /\ guest.stamp \in Stamp /\ FileRef(h.path) /\ guest.handle # 0
        BY <1>2, <1>9 DEF WriteLands, GuestOK, Guest, References
    <2>2. guest' \in Guest /\ GoesOn
        BY <1>4, <1>9 DEF WriteLands, WritePc
    <2>3. images' \in [Image -> Stamp]
        BY <1>9, <2>1 DEF WriteLands, TypeOK
    <2>4. scratches' \in Seq(Scratch) /\ Len(scratches') = Len(scratches)
        <3>1. CASE h.path.scratch
            <4> DEFINE n == h.path.number
                       e == [scratches[n] EXCEPT !.stamp = guest.stamp]
            <4>1. n \in 1 .. Len(scratches)
                BY <2>1, <3>1 DEF FileRef
            <4>2. scratches[n] \in Scratch
                BY <4>1
            <4>3. e \in Scratch
                BY <2>1, <4>2 DEF Scratch
            <4>4. scratches' = [scratches EXCEPT ![n] = e]
                BY <1>9, <3>1 DEF WriteLands
            <4> HIDE DEF e, n
            <4> QED
                BY <4>1, <4>3, <4>4, ExceptSeq DEF TypeOK
        <3>2. CASE ~h.path.scratch
            BY <1>9, <3>2 DEF WriteLands, TypeOK
        <3> QED
            BY <3>1, <3>2
    <2> QED
        BY <1>1, <1>3, <1>9, <2>2, <2>3, <2>4 DEF WriteLands, TypeOK
<1>11. CASE WriteRefused
    BY <1>1, <1>2, <1>3, <1>11 DEF WriteRefused, TypeOK
<1>12. CASE WriteFails
    <2>1. guest' \in Guest /\ GoesOn
        <3>1. CASE guest' = NoTransfer
            BY <1>2, <3>1
        <3>2. CASE MayRetry /\ guest' = [guest EXCEPT !.pc = "sleep", !.attempt = @ + 1]
            <4>1. guest.attempt + 1 \in 0 .. MaxRetries - 1
                BY <1>2, <3>2, BoundsAssumption DEF MayRetry, Guest
            <4>2. guest' \in Guest
                BY <1>2, <3>2, <4>1 DEF Guest, GuestPc
            <4>3. GoesOn
                BY <1>2, <1>12, <3>2 DEF WriteFails, Guest, WritePc
            <4> QED
                BY <4>2, <4>3
        <3> QED
            BY <1>12, <3>1, <3>2 DEF WriteFails
    <2> QED
        BY <1>1, <1>3, <1>12, <2>1 DEF WriteFails, TypeOK
<1>13. CASE RetryWrite
    <2>1. [guest EXCEPT !.pc = "write", !.handle = guest.handle] = [guest EXCEPT !.pc = "write"]
        BY <1>2 DEF Guest
    <2>2. NextCall("write") /\ guest.pc \in WritePc
        BY <1>13, <2>1 DEF RetryWrite, RetryHandle, WritePc
    <2>3. guest' \in Guest /\ GoesOn
        BY <1>4, <2>2
    <2> QED
        BY <1>1, <1>3, <1>13, <2>3 DEF RetryWrite, TypeOK
<1>14. CASE SyncDone
    <2> DEFINE d == guest.drive
               e == [drives[d] EXCEPT !.dirty = @ \/ drives[d].transient]
    <2>1. d \in Drive /\ drives[d] \in DriveState
        BY <1>2 DEF Guest, TypeOK
    <2>2. e \in DriveState /\ e = [drives[d] EXCEPT !.dirty = e.dirty]
        BY <2>1 DEF DriveState
    <2>3. drives' = [drives EXCEPT ![d] = e] /\ guest' = NoTransfer
        BY <1>14 DEF SyncDone
    <2> HIDE DEF e, d
    <2>4. /\ drives' \in [Drive -> DriveState]
          /\ \A c \in Drive : drives'[c] = [drives[c] EXCEPT !.dirty = drives'[c].dirty]
        BY <1>3, <2>1, <2>2, <2>3 DEF TypeOK
    <2> QED
        BY <1>1, <1>2, <1>14, <2>3, <2>4 DEF SyncDone, TypeOK
<1> QED
    BY <1>5, <1>6, <1>7, <1>8, <1>9, <1>11, <1>12, <1>13, <1>14 DEF GuestStep

\* The start of a request: the handle is closed, a flag may change, nothing is opened.
LEMMA StartKeepsInvariant ==
    ASSUME IndInv, NEW r \in Req, Start(r)
    PROVE  IndInv'
<1> USE Tables DEF IndInv, Begin
<1>1. ASSUME UNCHANGED <<files, fdc, fileHandles>>, requests' \in 0 .. MaxRequests,
             handles' \in Seq(Handle), Len(handles') = Len(handles),
             \A i \in 1 .. Len(handles) : handles'[i].path = handles[i].path,
             op' \in [Req -> Operation], \A q \in Req : OperationOK(op[q])',
             drives' \in [Drive -> DriveState],
             \A d \in Drive : drives'[d] = [drives[d] EXCEPT !.readonly = drives'[d].readonly],
             mountRegistry' \in [Drive -> MountEntry],
             \A d \in Drive : drives[d].mounted =>
                mountRegistry'[d].filename = mountRegistry[d].filename
      PROVE  IndInv'
    <2>1. TypeOK'
        BY <1>1 DEF TypeOK, files, fdc
    <2>2. Growth
        BY <1>1 DEF Growth, files
    <2>3. \A d \in Drive : /\ drives'[d].mounted = drives[d].mounted
                           /\ drives'[d].filename = drives[d].filename
                           /\ drives'[d].transient = drives[d].transient
                           /\ drives'[d].scratchPath = drives[d].scratchPath
        BY <1>1 DEF TypeOK, DriveState
    <2>4. GuestOK' /\ ProtectedWritesStayOnScratch'
        BY <1>1, <2>1, <2>2, Kept DEF fdc
    <2>5. References'
        BY <1>1, <2>1, <2>2, <2>3, <2>4, Kept DEF References
    <2>6. RegistryNamesMountedImage'
        BY <1>1, <2>3 DEF RegistryNamesMountedImage
    <2> QED
        BY <2>1, <2>4, <2>5, <2>6
<1>2. NoOperation \in Operation /\ FileRef(NoOperation.path)
    BY IdleTypes DEF NoOperation, FileRef, NoPath, Master
<1>3. \A d \in Drive : /\ drives[d] = [drives[d] EXCEPT !.readonly = drives[d].readonly]
                       /\ fileHandles[d] \in 0 .. Len(handles)
                       /\ drives[d] \in DriveState
    BY DEF TypeOK, DriveState
<1>4. ASSUME Begin(r) PROVE requests' \in 0 .. MaxRequests
    BY <1>4, BoundsAssumption DEF TypeOK
<1>5. ASSUME NEW d \in Drive, NEW f \in Image, StartMount(r, d, f)
      PROVE  IndInv'
    <2> DEFINE o == [NoOperation EXCEPT !.kind = "mount", !.drive = d, !.image = f,
                        !.swap = OpensWindow(d)]
    <2>1. OpensWindow(d) \in BOOLEAN
        BY <1>3 DEF OpensWindow, DriveState
    <2>2. o \in Operation /\ o.path = NoOperation.path /\ o.kind = "mount" /\ o.image = f
        BY <1>2, <2>1 DEF Operation, Kind
    <2>3. Release(r, d, fileHandles[d], o)
        BY <1>5 DEF StartMount
    <2> HIDE DEF o
    <2>4. scratches' = scratches
        BY <1>5 DEF StartMount, files
    <2> QED
        BY <1>1, <1>2, <1>3, <1>4, <1>5, <2>2, <2>3, <2>4, ReleaseKeepsTypes DEF StartMount, TypeOK
<1>6. ASSUME NEW d \in Drive, StartReload(r, d)
      PROVE  IndInv'
    BY <1>5, <1>6 DEF StartReload
<1>7. ASSUME NEW d \in Drive, StartUnmount(r, d)
      PROVE  IndInv'
    <2> DEFINE o == [NoOperation EXCEPT !.kind = "unmount", !.drive = d, !.swap = drives[d].mounted]
               h == IF drives[d].mounted THEN fileHandles[d] ELSE 0
    <2>1. h \in 0 .. Len(handles)
        <3>1. 0 \in 0 .. Len(handles)
            BY Tables
        <3> QED
            BY <1>3, <3>1
    <2>2. o \in Operation /\ o.path = NoOperation.path /\ o.kind = "unmount"
        BY <1>2, <1>3 DEF Operation, Kind, DriveState
    <2>3. Release(r, d, h, o)
        BY <1>7 DEF StartUnmount
    <2> HIDE DEF o, h
    <2>4. scratches' = scratches
        BY <1>7 DEF StartUnmount, files
    <2> QED
        BY <1>1, <1>2, <1>3, <1>4, <1>7, <2>1, <2>2, <2>3, <2>4, ReleaseKeepsTypes DEF StartUnmount, TypeOK
<1>8. ASSUME NEW d \in Drive, NEW flag \in BOOLEAN, WriteProtect(r, d, flag)
      PROVE  IndInv'
    <2>1. /\ drives' \in [Drive -> DriveState]
          /\ \A c \in Drive : drives'[c] = [drives[c] EXCEPT !.readonly = drives'[c].readonly]
        <3> DEFINE e == [drives[d] EXCEPT !.readonly = flag]
        <3>1. e \in DriveState /\ e = [drives[d] EXCEPT !.readonly = e.readonly]
            BY <1>3 DEF DriveState
        <3>2. drives' = [drives EXCEPT ![d] = e]
            BY <1>8 DEF WriteProtect
        <3> HIDE DEF e
        <3> QED
            BY <1>3, <3>1, <3>2 DEF TypeOK
    <2>2. CASE NeedsReopen(d, flag)
        <3> DEFINE o == [NoOperation EXCEPT !.kind = "protect", !.drive = d,
                            !.image = drives[d].filename, !.flag = flag]
        <3>1. drives[d].filename \in Image
            BY <2>2 DEF NeedsReopen, RegistryNamesMountedImage
        <3>2. o \in Operation /\ o.path = NoOperation.path /\ o.kind = "protect"
              /\ o.image \in Image
            BY <1>2, <3>1 DEF Operation, Kind
        <3>3. Release(r, d, fileHandles[d], o) /\ scratches' = scratches
            BY <1>8, <2>2 DEF WriteProtect, files
        <3> HIDE DEF o
        <3> QED
            BY <1>1, <1>2, <1>3, <1>4, <1>8, <2>1, <2>2, <3>2, <3>3, ReleaseKeepsTypes
               DEF WriteProtect, TypeOK
    <2>3. CASE ~NeedsReopen(d, flag)
        <3>1. /\ mountRegistry' \in [Drive -> MountEntry]
              /\ \A c \in Drive : mountRegistry'[c].filename = mountRegistry[c].filename
            <4> DEFINE e == [mountRegistry[d] EXCEPT !.readonly = flag]
            <4>1. mountRegistry[d] \in MountEntry
                BY DEF TypeOK
            <4>2. e \in MountEntry /\ e.filename = mountRegistry[d].filename
                BY <4>1 DEF MountEntry
            <4>3. mountRegistry' \in {mountRegistry, [mountRegistry EXCEPT ![d] = e]}
                BY <1>8, <2>3 DEF WriteProtect, WithFlag
            <4> HIDE DEF e
            <4> QED
                BY <4>2, <4>3 DEF TypeOK
        <3>2. UNCHANGED <<handles, scratches, op>>
            BY <1>8, <2>3 DEF WriteProtect, files
        <3>3. \A q \in Req : OperationOK(op[q])'
            BY <3>2 DEF References, OperationOK, FileRef
        <3> QED
            BY <1>1, <1>4, <1>8, <2>1, <3>1, <3>2, <3>3 DEF WriteProtect, TypeOK
    <2> QED
        BY <2>2, <2>3
<1>9. ASSUME NEW d \in Drive, StartCommit(r, d)
      PROVE  IndInv'
    <2> DEFINE f == drives[d].filename
               n == drives[d].scratchPath
               o == [NoOperation EXCEPT !.pc = "copy", !.kind = "commit", !.drive = d,
                        !.image = f, !.path = ScratchFile(n, f)]
    <2>1. f \in Image /\ n \in 1 .. Len(scratches)
        BY <1>9 DEF StartCommit, References, DriveOK
    <2>2. ScratchFile(n, f) \in Path
        BY <2>1 DEF ScratchFile, Path
    <2>3. o \in Operation /\ op' = [op EXCEPT ![r] = o]
        BY <1>2, <1>9, <2>1, <2>2 DEF StartCommit, Operation, Kind, Pc
    <2>4. /\ o.pc = "copy" /\ o.kind = "commit" /\ o.image = f
          /\ o.path = ScratchFile(n, f) /\ o.handle = 0 /\ o.doomed = 0
        BY <1>2 DEF Operation, NoOperation
    <2> HIDE DEF o
    <2>5. UNCHANGED <<handles, scratches>>
        BY <1>9 DEF StartCommit, engine, files
    <2>6. OperationOK(op[r])'
        <3>1. op'[r] = o
            BY <2>3 DEF TypeOK
        <3>2. 0 \in 0 .. Len(handles) /\ 0 \in 0 .. Len(scratches)
            BY Tables
        <3> QED
            BY <2>1, <2>4, <2>5, <3>1, <3>2 DEF OperationOK, FileRef, ScratchFile
    <2>7. \A q \in Req : OperationOK(op[q])'
        <3> SUFFICES ASSUME NEW q \in Req, q # r PROVE OperationOK(op[q])'
            BY <2>6
        <3>1. op'[q] = op[q] /\ OperationOK(op[q])
            BY <2>3 DEF TypeOK, References
        <3> QED
            BY <2>5, <3>1 DEF OperationOK, FileRef
    <2> QED
        BY <1>1, <1>3, <1>4, <1>9, <2>3, <2>5, <2>7 DEF StartCommit, engine, TypeOK
<1> QED
    BY <1>5, <1>6, <1>7, <1>8, <1>9 DEF Start

\* What the continuation of a request, on its drive, may change: the state of the
\* drive and of the request.
LEMMA ContinueFrame ==
    ASSUME IndInv, NEW r \in Req, NEW o \in Operation, op' = [op EXCEPT ![r] = o],
           UNCHANGED <<fdc, requests>>,
           drives' \in [Drive -> DriveState], fileHandles' \in [Drive -> 0 .. Len(handles')],
           handles' \in Seq(Handle), images' \in [Image -> Stamp], scratches' \in Seq(Scratch),
           commitTmp' \in [Image -> Stamp \cup {NoStamp}],
           mountRegistry' \in [Drive -> MountEntry],
           Growth,
           OperationOK(op[r])',
           \A d \in Drive : \/ /\ drives'[d].transient => drives[d].transient
                             /\ drives'[d].scratchPath \in {0, drives[d].scratchPath}
                             /\ fileHandles'[d] \in {0, fileHandles[d]}
                          \/ DriveOK(d)',
           \A h \in (Len(handles) + 1) .. Len(handles') : FileRef(handles[h].path)',
           RegistryNamesMountedImage'
    PROVE  IndInv'
<1> USE DEF IndInv
<1>1. TypeOK'
    BY DEF TypeOK, fdc
<1>2. GuestOK' /\ ProtectedWritesStayOnScratch'
    BY <1>1, Kept DEF fdc
<1>3. \A q \in Req : OperationOK(op[q])'
    <2> SUFFICES ASSUME NEW q \in Req, q # r PROVE OperationOK(op[q])'
        OBVIOUS
    <2>1. op'[q] = op[q]
        BY DEF TypeOK
    <2> QED
        BY <1>1, <2>1, Kept
<1>4. \A d \in Drive : DriveOK(d)'
    BY <1>1, Kept
<1>5. \A h \in 1 .. Len(handles') : FileRef(handles[h].path)'
    <2>1. Len(handles) \in Nat /\ Len(handles') \in Nat
        BY <1>1, LenProperties DEF TypeOK
    <2>2. ASSUME NEW h \in 1 .. Len(handles') PROVE FileRef(handles[h].path)'
        <3>1. h \in 1 .. Len(handles) \/ h \in (Len(handles) + 1) .. Len(handles')
            BY <2>1
        <3> QED
            BY <1>1, <3>1, Kept
    <2> QED
        BY <2>2
<1> QED
    BY <1>1, <1>2, <1>3, <1>4, <1>5 DEF References

\* Nothing is opened and no copy is made: neither table changes.
LEMMA SameTables ==
    ASSUME UNCHANGED <<handles, scratches>>, TypeOK
    PROVE  /\ Growth
           /\ \A h \in (Len(handles) + 1) .. Len(handles') : FileRef(handles[h].path)'
<1>1. Len(handles) \in Nat /\ Len(scratches) \in Nat
    BY Tables
<1> QED
    BY <1>1 DEF Growth

LEMMA IdleOperationOK ==
    ASSUME TypeOK, NEW r \in Req, op' = [op EXCEPT ![r] = NoOperation],
           Len(handles') \in Nat, Len(scratches') \in Nat
    PROVE  OperationOK(op[r])'
BY DEF TypeOK, OperationOK, FileRef, NoOperation, NoPath, Master

LEMMA UnlinkedTable ==
    ASSUME TypeOK, NEW n \in 0 .. Len(scratches), scratches' = Unlinked(n)
    PROVE  scratches' \in Seq(Scratch) /\ Len(scratches') = Len(scratches)
<1>1. CASE n = 0
    BY <1>1 DEF Unlinked, TypeOK
<1>2. CASE n # 0
    <2>1. n \in 1 .. Len(scratches)
        BY <1>2, Tables
    <2> QED
        BY <1>2, <2>1, UnlinkingKeepsTable DEF Unlinked, TypeOK
<1> QED
    BY <1>1, <1>2

LEMMA ContinueKeepsInvariant ==
    ASSUME IndInv, NEW r \in Req, Continue(r)
    PROVE  IndInv'
<1> DEFINE o == op[r]
           d == op[r].drive
<1>1. /\ o \in Operation /\ d \in Drive /\ drives[d] \in DriveState
      /\ OperationOK(o) /\ DriveOK(d) /\ TypeOK /\ RegistryNamesMountedImage
      /\ fileHandles \in [Drive -> 0 .. Len(handles)]
      /\ Len(handles) \in Nat /\ Len(scratches) \in Nat
      /\ NoOperation \in Operation
    BY Tables, IdleTypes DEF IndInv, TypeOK, References, Operation
<1>2. CASE HandleClosed(r)
    <2> DEFINE p == [o EXCEPT !.pc = "discard", !.doomed = drives[d].scratchPath]
    <2>1. p \in Operation
        BY <1>1 DEF Operation, Pc, DriveState
    <2>2. /\ p.path = o.path /\ p.handle = o.handle /\ p.kind = o.kind /\ p.image = o.image
          /\ p.pc = "discard" /\ p.doomed = drives[d].scratchPath
        BY <1>1 DEF Operation
    <2>3. op' = [op EXCEPT ![r] = p] /\ fileHandles' = [fileHandles EXCEPT ![d] = 0]
        BY <1>2 DEF HandleClosed
    <2>4. UNCHANGED <<files, fdc, drives, handles, mountRegistry, requests>>
        BY <1>2 DEF HandleClosed
    <2> HIDE DEF p
    <2>5. op'[r] = p
        BY <1>1, <2>3 DEF TypeOK
    <2>6. OperationOK(op[r])'
        BY <1>1, <2>2, <2>4, <2>5 DEF OperationOK, FileRef, DriveOK, files
    <2>7. fileHandles' \in [Drive -> 0 .. Len(handles')] /\ \A c \in Drive : fileHandles'[c] \in {0, fileHandles[c]}
        BY <1>1, <2>3, <2>4
    <2>8. RegistryNamesMountedImage'
        BY <1>1, <2>4 DEF RegistryNamesMountedImage
    <2> QED
        BY <1>1, <2>1, <2>3, <2>4, <2>6, <2>7, <2>8, SameTables, ContinueFrame DEF files, TypeOK
<1>3. CASE CloseFails(r)
    <2>1. /\ op' = [op EXCEPT ![r] = NoOperation] /\ fileHandles' = [fileHandles EXCEPT ![d] = 0]
          /\ UNCHANGED <<files, fdc, drives, handles, mountRegistry, requests>>
        BY <1>3 DEF CloseFails, Finished
    <2>2. OperationOK(op[r])'
        BY <1>1, <2>1, IdleOperationOK DEF files
    <2>3. fileHandles' \in [Drive -> 0 .. Len(handles')] /\ \A c \in Drive : fileHandles'[c] \in {0, fileHandles[c]}
        BY <1>1, <2>1
    <2>4. RegistryNamesMountedImage'
        BY <1>1, <2>1 DEF RegistryNamesMountedImage
    <2> QED
        BY <1>1, <2>1, <2>2, <2>3, <2>4, SameTables, ContinueFrame DEF files, TypeOK
\* The steps that only move the request on.
<1>4. ASSUME NEW p \in Operation, op' = [op EXCEPT ![r] = p],
             UNCHANGED <<engine, fdc, images, scratches, requests>>,
             commitTmp' \in [Image -> Stamp \cup {NoStamp}], OperationOK(p)
      PROVE  IndInv'
    <2>1. op'[r] = p
        BY <1>1, <1>4 DEF TypeOK
    <2>2. OperationOK(op[r])' /\ UNCHANGED <<handles, scratches>>
        BY <1>4, <2>1 DEF OperationOK, FileRef, engine
    <2>3. RegistryNamesMountedImage'
        BY <1>1, <1>4 DEF RegistryNamesMountedImage, engine
    <2> QED
        BY <1>1, <1>4, <2>2, <2>3, SameTables, ContinueFrame DEF engine, TypeOK
<1>5. CASE ImageFound(r)
    <2> DEFINE pc == IF drives[d].readonly THEN "policy" ELSE "open"
               p == [o EXCEPT !.pc = pc, !.path = Master(o.image), !.rw = TRUE]
    <2>1. Master(o.image) \in Path
        BY <1>1 DEF Master, Path, Operation
    <2>2. p \in Operation
        BY <1>1, <2>1 DEF Operation, Pc
    <2>3. /\ p.path = Master(o.image) /\ p.handle = o.handle /\ p.doomed = o.doomed
          /\ p.kind = o.kind /\ p.image = o.image /\ p.pc \in {"policy", "open"}
        BY <1>1 DEF Operation
    <2>4. op' = [op EXCEPT ![r] = p] /\ o.pc = "access"
        BY <1>5 DEF ImageFound, Resumes
    <2> HIDE DEF p
    <2>5. OperationOK(p)
        BY <1>1, <2>3, <2>4 DEF OperationOK, FileRef, Master
    <2> QED
        BY <1>1, <1>4, <1>5, <2>2, <2>4, <2>5 DEF ImageFound, files, TypeOK
<1>6. CASE PolicyAnswered(r)
    <2> DEFINE b == o.kind = "mount" /\ ~drives[d].readonly
               p == [o EXCEPT !.pc = "open", !.rw = b]
               q == [o EXCEPT !.pc = "scratch"]
    <2>1. p \in Operation /\ q \in Operation
        BY <1>1 DEF Operation, Pc
    <2>2. /\ p.path = o.path /\ p.handle = o.handle /\ p.doomed = o.doomed
          /\ p.kind = o.kind /\ p.image = o.image /\ p.pc = "open"
          /\ q.path = o.path /\ q.handle = o.handle /\ q.doomed = o.doomed
          /\ q.kind = o.kind /\ q.image = o.image /\ q.pc = "scratch"
        BY <1>1 DEF Operation
    <2>3. (op' = [op EXCEPT ![r] = p] \/ op' = [op EXCEPT ![r] = q]) /\ o.pc = "policy"
        BY <1>6 DEF PolicyAnswered, Resumes
    <2> HIDE DEF p, q
    <2>4. OperationOK(p) /\ OperationOK(q)
        BY <1>1, <2>2, <2>3 DEF OperationOK
    <2> QED
        BY <1>1, <1>4, <1>6, <2>1, <2>3, <2>4 DEF PolicyAnswered, files, TypeOK
<1>7. CASE CommitCopied(r)
    <2> DEFINE p == [o EXCEPT !.pc = "rename"]
    <2>1. p \in Operation
        BY <1>1 DEF Operation, Pc
    <2>2. /\ p.path = o.path /\ p.handle = o.handle /\ p.doomed = o.doomed
          /\ p.kind = o.kind /\ p.image = o.image /\ p.pc = "rename"
        BY <1>1 DEF Operation
    <2>3. op' = [op EXCEPT ![r] = p] /\ o.pc = "copy"
        BY <1>7 DEF CommitCopied, Resumes
    <2> HIDE DEF p
    <2>4. OperationOK(p)
        BY <1>1, <2>2, <2>3 DEF OperationOK
    <2>5. StampOf(o.path) \in Stamp
        <3>1. o.path.scratch /\ o.path.number \in 1 .. Len(scratches)
            BY <1>1, <2>3 DEF OperationOK, FileRef
        <3> QED
            BY <1>1, <3>1, Tables DEF StampOf, Scratch
    <2>6. commitTmp' \in [Image -> Stamp \cup {NoStamp}]
        BY <1>1, <1>7, <2>5 DEF CommitCopied, TypeOK
    <2> QED
        BY <1>4, <1>7, <2>1, <2>3, <2>4, <2>6 DEF CommitCopied
<1>8. CASE CommitFails(r)
    <2>1. OperationOK(NoOperation)
        BY <1>1 DEF OperationOK, FileRef, NoOperation, NoPath, Master
    <2>2. commitTmp' \in [Image -> Stamp \cup {NoStamp}]
        BY <1>1, <1>8 DEF CommitFails, TypeOK
    <2> QED
        BY <1>1, <1>4, <1>8, <2>1, <2>2 DEF CommitFails, Finished
\* The steps that change the state of the drive.
<1>9. CASE ScratchDiscarded(r)
    <2>1. o.pc = "discard" /\ scratches' = Unlinked(o.doomed) /\ o.doomed \in 0 .. Len(scratches)
        BY <1>1, <1>9 DEF ScratchDiscarded, Resumes, OperationOK
    <2>2. scratches' \in Seq(Scratch) /\ Len(scratches') = Len(scratches)
        BY <1>1, <2>1, UnlinkedTable
    <2>3. UNCHANGED <<fdc, fileHandles, handles, images, commitTmp, requests>>
        BY <1>9 DEF ScratchDiscarded
    <2>4. Growth /\ \A h \in (Len(handles) + 1) .. Len(handles') : FileRef(handles[h].path)'
        BY <1>1, <2>2, <2>3 DEF Growth
    <2>5. ASSUME NEW e \in DriveState, e.scratchPath = 0, e.transient = FALSE,
                 drives' = [drives EXCEPT ![d] = e],
                 NEW p \in Operation, op' = [op EXCEPT ![r] = p],
                 OperationOK(p), mountRegistry' \in [Drive -> MountEntry],
                 RegistryNamesMountedImage'
          PROVE  IndInv'
        <3>1. op'[r] = p
            BY <1>1, <2>5 DEF TypeOK
        <3>2. OperationOK(op[r])'
            BY <2>2, <2>3, <2>5, <3>1 DEF OperationOK, FileRef
        <3>3. drives' \in [Drive -> DriveState]
            BY <1>1, <2>5 DEF TypeOK
        <3>4. \A c \in Drive : /\ drives'[c].transient => drives[c].transient
                               /\ drives'[c].scratchPath \in {0, drives[c].scratchPath}
            BY <1>1, <2>5 DEF TypeOK
        <3> QED
            BY <1>1, <2>2, <2>3, <2>4, <2>5, <3>2, <3>3, <3>4, ContinueFrame DEF TypeOK
    <2> DEFINE e == WithoutScratch(drives[d])
    <2>6. /\ e \in DriveState /\ e.scratchPath = 0 /\ e.transient = FALSE
          /\ e.mounted = drives[d].mounted /\ e.filename = drives[d].filename
        BY <1>1 DEF WithoutScratch, DriveState
    <2> HIDE DEF e
    <2>7. CASE o.kind = "mount"
        <3> DEFINE e1 == [e EXCEPT !.swapWindow = @ \/ o.swap]
                   p == [o EXCEPT !.pc = "access"]
        <3>1. /\ e1 \in DriveState /\ e1.scratchPath = 0 /\ e1.transient = FALSE
              /\ e1.mounted = drives[d].mounted /\ e1.filename = drives[d].filename
            BY <2>6 DEF DriveState
        <3>2. p \in Operation /\ OperationOK(p)
            BY <1>1, <2>1, <2>7 DEF Operation, Pc, OperationOK
        <3>3. /\ drives' = [drives EXCEPT ![d] = e1] /\ op' = [op EXCEPT ![r] = p]
              /\ mountRegistry' = mountRegistry
            BY <1>9, <2>7 DEF ScratchDiscarded, e
        <3> HIDE DEF e1, p
        <3>4. RegistryNamesMountedImage'
            BY <1>1, <3>1, <3>3 DEF RegistryNamesMountedImage, TypeOK
        <3> QED
            BY <1>1, <2>5, <3>1, <3>2, <3>3, <3>4 DEF TypeOK
    <2>8. CASE o.kind = "unmount"
        <3> DEFINE e1 == [e EXCEPT !.filename = NoImage, !.mounted = FALSE,
                             !.swapWindow = @ \/ o.swap]
        <3>1. /\ e1 \in DriveState /\ e1.scratchPath = 0 /\ e1.transient = FALSE
              /\ e1.mounted = FALSE
            BY <2>6 DEF DriveState
        <3>2. OperationOK(NoOperation)
            BY <1>1 DEF OperationOK, FileRef, NoOperation, NoPath, Master
        <3>3. /\ drives' = [drives EXCEPT ![d] = e1] /\ op' = [op EXCEPT ![r] = NoOperation]
              /\ mountRegistry' = [mountRegistry EXCEPT ![d] = NotMounted]
            BY <1>9, <2>8 DEF ScratchDiscarded, Finished, e
        <3> HIDE DEF e1
        <3>4. RegistryNamesMountedImage' /\ mountRegistry' \in [Drive -> MountEntry]
            BY <1>1, <3>1, <3>3 DEF RegistryNamesMountedImage, TypeOK, NotMounted, MountEntry
        <3> QED
            BY <1>1, <2>5, <3>1, <3>2, <3>3, <3>4
    <2>9. CASE o.kind = "protect"
        <3> DEFINE pc == IF o.flag THEN "policy" ELSE "open"
                   p == [o EXCEPT !.pc = pc, !.path = Master(o.image), !.rw = TRUE]
        <3>1. Master(o.image) \in Path
            BY <1>1 DEF Master, Path, Operation
        <3>2. /\ p \in Operation /\ p.path = Master(o.image) /\ p.handle = o.handle
              /\ p.doomed = o.doomed /\ p.kind = o.kind /\ p.image = o.image
              /\ p.pc \in {"policy", "open"}
            BY <1>1, <3>1 DEF Operation, Pc
        <3>3. /\ drives' = [drives EXCEPT ![d] = e] /\ op' = [op EXCEPT ![r] = p]
              /\ mountRegistry' = mountRegistry
            BY <1>9, <2>9 DEF ScratchDiscarded, e
        <3> HIDE DEF p
        <3>4. OperationOK(p)
            BY <1>1, <2>9, <3>2 DEF OperationOK, FileRef, Master
        <3>5. RegistryNamesMountedImage'
            BY <1>1, <2>6, <3>3 DEF RegistryNamesMountedImage, TypeOK
        <3> QED
            BY <1>1, <2>5, <2>6, <3>2, <3>3, <3>4, <3>5 DEF TypeOK
    <2> QED
        BY <1>9, <2>7, <2>8, <2>9 DEF ScratchDiscarded
<1>10. CASE ScratchCreated(r)
    <2> DEFINE f == o.image
               x == [stamp |-> images[f], saved |-> images[f], exists |-> TRUE]
               g == ScratchFile(Len(scratches) + 1, f)
               p == [o EXCEPT !.pc = "open", !.path = g, !.rw = TRUE]
    <2>1. o.pc = "scratch" /\ f \in Image
        BY <1>1, <1>10 DEF ScratchCreated, Resumes, OperationOK
    <2>2. x \in Scratch /\ g \in Path
        BY <1>1, <2>1 DEF Scratch, TypeOK, ScratchFile, Path
    <2>3. /\ p \in Operation /\ p.path = g /\ p.handle = o.handle /\ p.doomed = o.doomed
          /\ p.kind = o.kind /\ p.image = o.image /\ p.pc = "open"
        BY <1>1, <2>2 DEF Operation, Pc
    <2>4. /\ scratches' = Append(scratches, x) /\ op' = [op EXCEPT ![r] = p]
          /\ UNCHANGED <<engine, fdc, images, commitTmp, requests>>
        BY <1>10 DEF ScratchCreated
    <2> HIDE DEF x, p
    <2>5. scratches' \in Seq(Scratch) /\ Len(scratches') = Len(scratches) + 1
        BY <1>1, <2>2, <2>4, AppendProperties DEF TypeOK
    <2>6. op'[r] = p
        BY <1>1, <2>4 DEF TypeOK
    <2>7. OperationOK(op[r])'
        BY <1>1, <2>1, <2>3, <2>4, <2>5, <2>6 DEF OperationOK, FileRef, ScratchFile, engine
    <2>8. Growth /\ \A h \in (Len(handles) + 1) .. Len(handles') : FileRef(handles[h].path)'
        BY <1>1, <2>4, <2>5 DEF Growth, engine
    <2>9. RegistryNamesMountedImage'
        BY <1>1, <2>4 DEF RegistryNamesMountedImage, engine
    <2> QED
        BY <1>1, <2>3, <2>4, <2>5, <2>7, <2>8, <2>9, ContinueFrame DEF engine, TypeOK
<1>11. CASE Opened(r)
    <2> DEFINE p == o.path
               n == Len(handles) + 1
               x == [path |-> p, rw |-> o.rw, open |-> TRUE, orphan |-> FALSE]
               e == [drives[d] EXCEPT !.transient = p.scratch, !.scratchPath = p.number,
                                      !.dirty = FALSE]
    <2>1. /\ o.pc = "open" /\ o.image \in Image /\ FileRef(p) /\ p \in Path
        BY <1>1, <1>11 DEF Opened, Resumes, OperationOK, Operation
    <2>2. x \in Handle
        BY <1>1, <2>1 DEF Handle, Operation
    <2>3. /\ e \in DriveState /\ e.transient = p.scratch /\ e.scratchPath = p.number
          /\ e.mounted = drives[d].mounted /\ e.filename = drives[d].filename
        BY <1>1, <2>1 DEF DriveState, Path
    <2>4. /\ handles' = Append(handles, x) /\ fileHandles' = [fileHandles EXCEPT ![d] = n]
          /\ op' = [op EXCEPT ![r] = NoOperation]
          /\ UNCHANGED <<files, fdc, requests>>
        BY <1>11 DEF Opened, Finished
    <2>5. x.path = p
        OBVIOUS
    <2> HIDE DEF x
    <2>6. /\ handles' \in Seq(Handle) /\ Len(handles') = n
          /\ \A h \in 1 .. Len(handles) : handles'[h] = handles[h]
          /\ handles'[n] = x
        BY <1>1, <2>2, <2>4, AppendProperties DEF TypeOK
    <2>7. Growth /\ \A h \in (Len(handles) + 1) .. Len(handles') : FileRef(handles[h].path)'
        BY <1>1, <2>1, <2>4, <2>5, <2>6 DEF Growth, FileRef, files
    <2>8. fileHandles' \in [Drive -> 0 .. Len(handles')]
        BY <1>1, <2>4, <2>6
    <2>9. OperationOK(op[r])'
        <3>1. Len(handles') \in Nat /\ Len(scratches') \in Nat
            BY <1>1, <2>4, <2>6 DEF files
        <3> QED
            BY <1>1, <2>4, <3>1, IdleOperationOK
    <2>10. ASSUME NEW s \in DriveState, drives' = [drives EXCEPT ![d] = s],
                  s.transient = p.scratch, s.scratchPath = p.number,
                  mountRegistry' \in [Drive -> MountEntry], RegistryNamesMountedImage'
           PROVE  IndInv'
        <3>1. drives' \in [Drive -> DriveState]
            BY <1>1, <2>10 DEF TypeOK
        <3>2. drives'[d] = s /\ fileHandles'[d] = n
            BY <1>1, <2>4, <2>10 DEF TypeOK
        <3>3. ASSUME NEW c \in Drive, c = d PROVE DriveOK(c)'
            <4>1. p.scratch => handles'[n].path.scratch
                BY <2>5, <2>6
            <4>2. p.number \in 0 .. Len(scratches)
                BY <1>1, <2>1 DEF FileRef
            <4>3. drives'[d].scratchPath \in 0 .. Len(scratches')
                BY <2>4, <2>10, <3>2, <4>2 DEF files
            <4> QED
                BY <2>10, <3>2, <3>3, <4>1, <4>3 DEF DriveOK
        <3>4. \A c \in Drive : c # d => /\ drives'[c] = drives[c]
                                      /\ fileHandles'[c] = fileHandles[c]
            BY <1>1, <2>4, <2>10 DEF TypeOK
        <3> QED
            <4>1. \A c \in Drive :
                      \/ /\ drives'[c].transient => drives[c].transient
                         /\ drives'[c].scratchPath \in {0, drives[c].scratchPath}
                         /\ fileHandles'[c] \in {0, fileHandles[c]}
                      \/ DriveOK(c)'
                BY <3>3, <3>4
            <4>2. /\ images' \in [Image -> Stamp] /\ scratches' \in Seq(Scratch)
                  /\ commitTmp' \in [Image -> Stamp \cup {NoStamp}]
                BY <1>1, <2>4 DEF files, TypeOK
            <4>3. handles' \in Seq(Handle)
                BY <2>6
            <4> QED
                BY <1>1, <2>4, <2>7, <2>8, <2>9, <2>10, <3>1, <4>1, <4>2, <4>3, ContinueFrame
    <2>11. CASE o.kind = "mount"
        <3> DEFINE s == [e EXCEPT !.filename = o.image, !.mounted = TRUE]
                   m == [filename |-> o.image, readonly |-> drives[d].readonly]
        <3>1. /\ s \in DriveState /\ s.transient = p.scratch /\ s.scratchPath = p.number
              /\ s.mounted = TRUE /\ s.filename = o.image
            BY <2>1, <2>3 DEF DriveState
        <3>2. m \in MountEntry /\ m.filename = o.image
            BY <1>1, <2>1 DEF MountEntry, DriveState
        <3>3. drives' = [drives EXCEPT ![d] = s] /\ mountRegistry' = [mountRegistry EXCEPT ![d] = m]
            BY <1>11, <2>11 DEF Opened
        <3> HIDE DEF s, m, e
        <3>4. RegistryNamesMountedImage' /\ mountRegistry' \in [Drive -> MountEntry]
            BY <1>1, <2>1, <3>1, <3>2, <3>3 DEF RegistryNamesMountedImage, TypeOK
        <3> QED
            BY <2>10, <3>1, <3>3, <3>4
    <2>12. CASE o.kind = "protect"
        <3> DEFINE m == [mountRegistry[d] EXCEPT !.readonly = o.flag]
        <3>1. m \in MountEntry /\ m.filename = mountRegistry[d].filename
            BY <1>1, ZenonT(60) DEF MountEntry, TypeOK, Operation
        <3>2. /\ drives' = [drives EXCEPT ![d] = e]
              /\ mountRegistry' \in {mountRegistry, [mountRegistry EXCEPT ![d] = m]}
            BY <1>11, <2>12 DEF Opened, WithFlag
        <3> HIDE DEF m, e
        <3>3. RegistryNamesMountedImage' /\ mountRegistry' \in [Drive -> MountEntry]
            BY <1>1, <2>3, <3>1, <3>2 DEF RegistryNamesMountedImage, TypeOK
        <3> QED
            BY <2>3, <2>10, <3>2, <3>3
    <2> QED
        BY <1>11, <2>11, <2>12 DEF Opened
\* The steps that close a request after a failure, or after a commit.
<1>12. ASSUME NEW e \in DriveState, drives' = [drives EXCEPT ![d] = e],
              e.transient => drives[d].transient,
              e.scratchPath \in {0, drives[d].scratchPath},
              e.mounted => drives[d].mounted /\ e.filename = drives[d].filename,
              UNCHANGED <<fileHandles, mountRegistry, fdc, requests>>,
              handles' \in Seq(Handle), Len(handles') = Len(handles),
              \A h \in 1 .. Len(handles) : handles'[h].path = handles[h].path,
              scratches' \in Seq(Scratch), Len(scratches') = Len(scratches),
              images' \in [Image -> Stamp], commitTmp' \in [Image -> Stamp \cup {NoStamp}],
              NEW p \in Operation, op' = [op EXCEPT ![r] = p], OperationOK(p)
       PROVE  IndInv'
    <2>1. Growth /\ \A h \in (Len(handles) + 1) .. Len(handles') : FileRef(handles[h].path)'
        BY <1>1, <1>12 DEF Growth
    <2>2. op'[r] = p
        BY <1>1, <1>12 DEF TypeOK
    <2>3. OperationOK(op[r])'
        BY <1>12, <2>2 DEF OperationOK, FileRef
    <2>4. drives' \in [Drive -> DriveState]
        BY <1>1, <1>12 DEF TypeOK
    <2>5. \A c \in Drive : /\ drives'[c].transient => drives[c].transient
                           /\ drives'[c].scratchPath \in {0, drives[c].scratchPath}
        BY <1>1, <1>12 DEF TypeOK
    <2>6. RegistryNamesMountedImage'
        BY <1>1, <1>12 DEF RegistryNamesMountedImage, TypeOK
    <2> QED
        BY <1>1, <1>12, <2>1, <2>3, <2>4, <2>5, <2>6, ContinueFrame DEF TypeOK
<1>13. OperationOK(NoOperation)
    BY <1>1 DEF OperationOK, FileRef, NoOperation, NoPath, Master
<1>14. CASE MountFails(r)
    <2> DEFINE e == MarkedBroken(drives[d])
               p == [o EXCEPT !.pc = "abandon", !.doomed = drives[d].scratchPath]
    <2>1. /\ e \in DriveState /\ e.transient = drives[d].transient
          /\ e.scratchPath = drives[d].scratchPath /\ e.mounted = FALSE
        BY <1>1 DEF MarkedBroken, DriveState
    <2>2. p \in Operation /\ OperationOK(p)
        BY <1>1 DEF Operation, Pc, OperationOK, DriveOK, DriveState
    <2>3. /\ drives' = [drives EXCEPT ![d] = e] /\ op' = [op EXCEPT ![r] = p]
          /\ UNCHANGED <<files, fdc, fileHandles, handles, mountRegistry, requests>>
        BY <1>14 DEF MountFails
    <2> HIDE DEF e, p
    <2> QED
        BY <1>1, <1>12, <2>1, <2>2, <2>3 DEF files, TypeOK
<1>15. CASE MountAbandoned(r)
    <2> DEFINE e == WithoutScratch(drives[d])
    <2>1. /\ e \in DriveState /\ e.scratchPath = 0 /\ e.transient = FALSE
          /\ e.mounted = drives[d].mounted /\ e.filename = drives[d].filename
        BY <1>1 DEF WithoutScratch, DriveState
    <2>2. scratches' = Unlinked(o.doomed) /\ o.doomed \in 0 .. Len(scratches)
        BY <1>1, <1>15 DEF MountAbandoned, OperationOK
    <2>3. scratches' \in Seq(Scratch) /\ Len(scratches') = Len(scratches)
        BY <1>1, <2>2, UnlinkedTable
    <2>4. /\ drives' = [drives EXCEPT ![d] = e] /\ op' = [op EXCEPT ![r] = NoOperation]
          /\ UNCHANGED <<fdc, fileHandles, handles, images, commitTmp, mountRegistry, requests>>
        BY <1>15 DEF MountAbandoned, Finished
    <2> HIDE DEF e
    <2> QED
        BY <1>1, <1>12, <1>13, <2>1, <2>3, <2>4 DEF TypeOK
<1>16. CASE RemountFails(r)
    <2> DEFINE e == [drives[d] EXCEPT !.mounted = FALSE]
    <2>1. /\ e \in DriveState /\ e.transient = drives[d].transient
          /\ e.scratchPath = drives[d].scratchPath /\ e.mounted = FALSE
        BY <1>1 DEF DriveState
    <2>2. /\ drives' = [drives EXCEPT ![d] = e] \/ drives' = [drives EXCEPT ![d] = drives[d]]
          /\ op' = [op EXCEPT ![r] = NoOperation]
          /\ UNCHANGED <<files, fdc, fileHandles, handles, mountRegistry, requests>>
        BY <1>1, <1>16 DEF RemountFails, Finished, TypeOK
    <2> HIDE DEF e
    <2> QED
        BY <1>1, <1>12, <1>13, <2>1, <2>2 DEF files, TypeOK
<1>17. CASE CommitRenamed(r)
    <2> DEFINE f == o.image
               n == o.path.number
               e == [drives[d] EXCEPT !.dirty = FALSE]
               x == [scratches[n] EXCEPT !.saved = commitTmp[f]]
               H(h) == [handles[h] EXCEPT !.orphan = @ \/ handles[h].path = Master(f)]
    <2>1. /\ o.pc = "rename" /\ f \in Image /\ n \in 1 .. Len(scratches)
          /\ commitTmp[f] # NoStamp
        BY <1>1, <1>17 DEF CommitRenamed, Resumes, OperationOK, FileRef
    <2>2. commitTmp[f] \in Stamp
        BY <1>1, <2>1 DEF TypeOK
    <2>3. /\ e \in DriveState /\ e.transient = drives[d].transient
          /\ e.scratchPath = drives[d].scratchPath /\ e.mounted = drives[d].mounted
          /\ e.filename = drives[d].filename
        BY <1>1 DEF DriveState
    <2>4. x \in Scratch
        BY <1>1, <2>1, <2>2, Tables DEF Scratch
    <2>5. \A h \in 1 .. Len(handles) : H(h) \in Handle /\ H(h).path = handles[h].path
        BY <1>1, Tables DEF Handle
    <2>6. /\ drives' = [drives EXCEPT ![d] = e] /\ op' = [op EXCEPT ![r] = NoOperation]
          /\ UNCHANGED <<fdc, fileHandles, mountRegistry, requests>>
          /\ images' = [images EXCEPT ![f] = commitTmp[f]]
          /\ commitTmp' = [commitTmp EXCEPT ![f] = NoStamp]
          /\ scratches' = [scratches EXCEPT ![n] = x]
          /\ handles' = [h \in 1 .. Len(handles) |-> H(h)]
        BY <1>1, <1>17, Tables DEF CommitRenamed, Finished, fdc
    <2> HIDE DEF e, x, H
    <2>7. scratches' \in Seq(Scratch) /\ Len(scratches') = Len(scratches)
        BY <1>1, <2>1, <2>4, <2>6, ExceptSeq DEF TypeOK
    <2>8. /\ handles' \in Seq(Handle) /\ Len(handles') = Len(handles)
          /\ \A h \in 1 .. Len(handles) : handles'[h].path = handles[h].path
        <3>1. handles' \in [DOMAIN handles -> Handle]
            BY <1>1, <2>5, <2>6, Tables
        <3>2. handles' \in Seq(Handle) /\ Len(handles') = Len(handles)
            BY <1>1, <3>1, Mapped DEF TypeOK
        <3> QED
            BY <2>5, <2>6, <3>2
    <2>9. images' \in [Image -> Stamp] /\ commitTmp' \in [Image -> Stamp \cup {NoStamp}]
        BY <1>1, <2>2, <2>6 DEF TypeOK
    <2> QED
        BY <1>1, <1>12, <1>13, <2>3, <2>6, <2>7, <2>8, <2>9
<1> QED
    BY <1>2, <1>3, <1>5, <1>6, <1>7, <1>8, <1>9, <1>10, <1>11, <1>14, <1>15, <1>16, <1>17
       DEF Continue

LEMMA ExpiryKeepsInvariant ==
    ASSUME IndInv, NEW d \in Drive, WindowExpires(d)
    PROVE  IndInv'
<1> DEFINE e == [drives[d] EXCEPT !.swapWindow = FALSE]
<1> USE DEF IndInv
<1>1. /\ e \in DriveState /\ e.transient = drives[d].transient
      /\ e.scratchPath = drives[d].scratchPath /\ e.mounted = drives[d].mounted
      /\ e.filename = drives[d].filename
    BY DEF TypeOK, DriveState
<1>2. /\ drives' = [drives EXCEPT ![d] = e] /\ cached' = [cached EXCEPT ![d] = NoPath]
      /\ UNCHANGED <<files, fileHandles, handles, mountRegistry, op, guest, requests, stamps>>
    BY DEF WindowExpires
<1> HIDE DEF e
<1>3. NoPath \in Path
    BY DEF NoPath, Path, Master
<1>4. TypeOK'
    BY <1>1, <1>2, <1>3 DEF TypeOK, files
<1>5. Growth
    BY <1>2, Tables DEF Growth, files
<1>6. \A c \in Drive : /\ drives'[c].transient = drives[c].transient
                       /\ drives'[c].scratchPath = drives[c].scratchPath
                       /\ drives'[c].mounted = drives[c].mounted
                       /\ drives'[c].filename = drives[c].filename
    BY <1>1, <1>2 DEF TypeOK
<1>7. GuestOK' /\ ProtectedWritesStayOnScratch'
    BY <1>2, <1>4, <1>5, Kept
<1>8. References'
    BY <1>2, <1>4, <1>5, <1>6, <1>7, Kept DEF References
<1>9. RegistryNamesMountedImage'
    BY <1>2, <1>6 DEF RegistryNamesMountedImage
<1> QED
    BY <1>4, <1>7, <1>8, <1>9

LEMMA StutterKeepsInvariant ==
    ASSUME IndInv, UNCHANGED vars
    PROVE  IndInv'
BY DEF IndInv, TypeOK, References, OperationOK, DriveOK, GuestOK, FileRef, vars,
   RegistryNamesMountedImage, ProtectedWritesStayOnScratch

\* The inductive invariant of the drive engine: every value has its type, every
\* reference leads to a file or a handle that exists, and the two invariants below.
THEOREM Invariance == Spec => []IndInv
<1>1. Init => IndInv
    BY InitEstablishes
<1>2. IndInv /\ [Next]_vars => IndInv'
    <2> SUFFICES ASSUME IndInv, [Next]_vars PROVE IndInv'
        OBVIOUS
    <2>1. ASSUME NEW r \in Req, Start(r) PROVE IndInv'
        BY <2>1, StartKeepsInvariant
    <2>2. ASSUME NEW r \in Req, Continue(r) PROVE IndInv'
        BY <2>2, ContinueKeepsInvariant
    <2>3. CASE GuestStep
        BY <2>3, GuestKeepsInvariant
    <2>4. ASSUME NEW d \in Drive, WindowExpires(d) PROVE IndInv'
        BY <2>4, ExpiryKeepsInvariant
    <2>5. CASE UNCHANGED vars
        BY <2>5, StutterKeepsInvariant
    <2> QED
        BY <2>1, <2>2, <2>3, <2>4, <2>5 DEF Next
<1> QED
    BY <1>1, <1>2, PTL DEF Spec

\* Every variable holds a value of its type.
THEOREM TypeCorrect == Spec => []TypeOK
<1>1. IndInv => TypeOK
    BY DEF IndInv
<1> QED
    BY <1>1, Invariance, PTL

\* However requests overlap and fail, a mounted drive and the mount table name the
\* same image.
THEOREM RegistryCorrect == Spec => []RegistryNamesMountedImage
<1>1. IndInv => RegistryNamesMountedImage
    BY DEF IndInv
<1> QED
    BY <1>1, Invariance, PTL

\* A write admitted on a write-protected drive goes to a scratch copy to its end.
THEOREM ScratchTakesProtectedWrites == Spec => []ProtectedWritesStayOnScratch
<1>1. IndInv => ProtectedWritesStayOnScratch
    BY DEF IndInv
<1> QED
    BY <1>1, Invariance, PTL

\* Of all the steps, only a write of the guest and the rename of a commit touch a
\* master.
LEMMA ImageWriters ==
    ASSUME Next, UNCHANGED images => FALSE
    PROVE  WriteLands \/ \E r \in Req : CommitRenamed(r)
<1>1. ASSUME NEW r \in Req, Start(r) PROVE UNCHANGED images
    BY <1>1, Zenon DEF Start, StartMount, StartReload, StartUnmount, WriteProtect,
       StartCommit, files
<1>2. ASSUME NEW r \in Req, Continue(r), ~CommitRenamed(r) PROVE UNCHANGED images
    BY <1>2, Zenon DEF Continue, HandleClosed, CloseFails, ScratchDiscarded, ImageFound,
       PolicyAnswered, ScratchCreated, Opened, MountFails, MountAbandoned, RemountFails,
       CommitCopied, CommitFails, files
<1>3. ASSUME GuestStep, ~WriteLands PROVE UNCHANGED images
    BY <1>3, Zenon DEF GuestStep, BeginRead, BeginWrite, ReadDone, DatasyncDone,
       WriteRefused, WriteFails, RetryWrite, SyncDone, files
<1>4. ASSUME NEW d \in Drive, WindowExpires(d) PROVE UNCHANGED images
    BY <1>4, Zenon DEF WindowExpires, files
<1> QED
    BY <1>1, <1>2, <1>3, <1>4 DEF Next

\* The master image stays pristine: it changes only by a write admitted on a drive
\* that was not write-protected, or by a commit of a scratch copy of that image.
THEOREM MasterPristine == Spec => MasterChangesOnlyAsAllowed
<1>1. IndInv /\ [Next]_vars => [MasterStep]_vars
    <2> SUFFICES ASSUME IndInv, Next, NEW f \in Image, images'[f] # images[f]
                 PROVE  WrittenByGuest(f) \/ \E r \in Req : CommittedBy(r, f)
        BY DEF MasterStep
    <2> USE DEF IndInv
    <2>1. CASE WriteLands
        <3> DEFINE h == handles[guest.handle]
        <3>1. guest.pc = "write" /\ guest.handle \in 1 .. Len(handles)
            BY <2>1, Tables, SMT DEF WriteLands, GuestResumes, References, GuestOK
        <3>2. h \in Handle /\ FileRef(h.path)
            BY <3>1, Tables DEF References
        <3>3. ~h.path.scratch /\ images' = [images EXCEPT ![h.path.image] = guest.stamp]
            BY <2>1 DEF WriteLands
        <3>4. ~guest.protected
            BY <3>1, <3>3 DEF ProtectedWritesStayOnScratch
        <3>5. h.path.image = f
            BY <3>3 DEF TypeOK
        <3>6. h.path = Master(f)
            <4> DEFINE p == h.path
            <4>1. p \in Path /\ p.scratch = FALSE /\ p.number = 0 /\ p.image = f
                BY <3>2, <3>3, <3>5 DEF Handle, Path, FileRef
            <4> HIDE DEF p
            <4>2. p = Master(f)
                BY <4>1, SMT DEF Path, Master
            <4> QED
                BY <4>2 DEF p
        <3> QED
            BY <3>1, <3>4, <3>6 DEF WrittenByGuest
    <2>2. ASSUME NEW r \in Req, CommitRenamed(r) PROVE CommittedBy(r, f)
        <3>1. /\ op[r].pc = "rename" /\ OperationOK(op[r])
              /\ images' = [images EXCEPT ![op[r].image] = commitTmp[op[r].image]]
            BY <2>2 DEF CommitRenamed, Resumes, References
        <3>2. op[r].image = f /\ images'[f] = commitTmp[f]
            BY <3>1 DEF TypeOK
        <3> QED
            BY <3>1, <3>2 DEF OperationOK, CommittedBy
    <2> QED
        BY <2>1, <2>2, ImageWriters
<1> QED
    BY <1>1, Invariance, PTL DEF Spec, MasterChangesOnlyAsAllowed

-----------------------------------------------------------------------------
(* Requests one at a time                                                  *)
(*                                                                         *)
(* What requests that overlap on a drive, or a failing open, would break:  *)
(* that a drive and what is kept for it agree between two requests.        *)

OneAtATime == \A r, q \in Req : r = q

\* The faults after which the code cleans up.
HandledFaults == {"close", "access", "write", "commit"}

\* The part of the drive's state that other requests may rely on.
ScratchOK(d) == drives[d].transient <=> drives[d].scratchPath # 0

\* The file that the drive should be on.
FileOf(d) ==
    IF drives[d].transient THEN ScratchFile(drives[d].scratchPath, drives[d].filename)
    ELSE Master(drives[d].filename)

\* Between requests, and while a commit or an unmount has not yet changed the drive.
Described(d) ==
    /\ ScratchOK(d)
    /\ drives[d].transient => drives[d].readonly /\ drives[d].mounted
    /\ drives[d].mounted =>
          mountRegistry[d] = [filename |-> drives[d].filename, readonly |-> drives[d].readonly]

QuietOK(d) ==
    /\ Described(d)
    /\ fileHandles[d] # 0 =>
          LET h == handles[fileHandles[d]]
          IN /\ drives[d].mounted /\ h.open /\ ~h.orphan
             /\ h.path = FileOf(d)
             /\ ~drives[d].readonly => h.rw

\* The request is at the drive.
At(r, d) == op[r].pc # "idle" /\ op[r].drive = d

BusyOK(r) ==
    LET o == op[r]
        d == o.drive
    IN /\ ScratchOK(d)
       /\ o.kind \in {"mount", "unmount", "protect"}
       /\ o.pc = "close" =>
            /\ o.handle # 0 /\ fileHandles[d] = o.handle /\ drives[d].mounted
            /\ ~handles[o.handle].open /\ handles[o.handle].path.image = drives[d].filename
       /\ o.pc # "close" => fileHandles[d] = 0
       /\ o.pc = "discard" => o.doomed = drives[d].scratchPath
       /\ o.kind = "unmount" => o.pc \in {"close", "discard"} /\ Described(d)
       /\ o.kind \in {"mount", "unmount"} /\ o.pc \in {"close", "discard"} =>
            (drives[d].mounted => o.swap)
       /\ o.kind = "mount" /\ o.pc \notin {"close", "discard"} =>
            (drives[d].mounted => drives[d].swapWindow)
       /\ o.kind = "protect" =>
            /\ drives[d].mounted /\ drives[d].filename = o.image /\ drives[d].readonly = o.flag
       /\ o.pc \in {"access", "policy", "scratch", "open", "abandon"} => ~drives[d].transient
       /\ o.pc = "abandon" => o.doomed = 0 /\ ~drives[d].mounted
       /\ o.pc \in {"close", "discard", "access", "abandon"} => ~o.path.scratch
       /\ o.pc \in {"policy", "scratch"} => drives[d].readonly
       /\ o.pc = "policy" => o.path = Master(o.image)
       /\ o.pc = "open" =>
            /\ o.path.scratch => drives[d].readonly /\ o.path.number # 0
            /\ o.path.image = o.image
            /\ ~drives[d].readonly => o.rw

CommitOK(r) ==
    LET o == op[r]
    IN /\ o.pc \in {"copy", "rename"} /\ drives[o.drive].transient
       /\ drives[o.drive].filename = o.image
       /\ ~MountedElsewhere(o.drive, o.image)

\* The track buffer of the FDC, and the track on its way to it.
CacheOK ==
    /\ \A d \in Drive : ~drives[d].swapWindow =>
          \/ cached[d].image = NoImage
          \/ drives[d].mounted /\ cached[d].image = drives[d].filename
    /\ guest.pc = "read" =>
          /\ guest.handle # 0 /\ fileHandles[guest.drive] = guest.handle
          /\ ~drives[guest.drive].swapWindow

Owned ==
    /\ \A d, e \in Drive : fileHandles[d] # 0 /\ fileHandles[d] = fileHandles[e] => d = e
    /\ \A h \in DOMAIN handles : handles[h].open => \E d \in Drive : fileHandles[d] = h

SerialInv ==
    /\ \A r \in Req : op[r].pc # "idle" =>
          IF op[r].kind = "commit" THEN CommitOK(r) ELSE BusyOK(r)
    /\ \A d \in Drive : (\A r \in Req : At(r, d) => op[r].kind = "commit") => QuietOK(d)
    /\ Owned /\ ScratchesAccounted /\ CacheOK

\* The step leaves the drive, its handle and its entry in the mount table alone.
Untouched(d) ==
    /\ drives'[d].mounted = drives[d].mounted
    /\ drives'[d].filename = drives[d].filename
    /\ drives'[d].readonly = drives[d].readonly
    /\ drives'[d].transient = drives[d].transient
    /\ drives'[d].scratchPath = drives[d].scratchPath
    /\ fileHandles'[d] = fileHandles[d]
    /\ mountRegistry'[d] = mountRegistry[d]
    /\ fileHandles[d] # 0 => handles'[fileHandles[d]] = handles[fileHandles[d]]

LEMMA UntouchedStaysQuiet ==
    ASSUME NEW d \in Drive, QuietOK(d), Untouched(d)
    PROVE  QuietOK(d)'
<1>1. Described(d)'
    BY Zenon DEF QuietOK, Described, ScratchOK, Untouched
<1>2. FileOf(d)' = FileOf(d)
    BY Zenon DEF FileOf, Untouched
<1>3. ASSUME fileHandles'[d] # 0
      PROVE  /\ fileHandles'[d] = fileHandles[d] /\ fileHandles[d] # 0
             /\ handles'[fileHandles'[d]] = handles[fileHandles[d]]
    BY <1>3, Zenon DEF Untouched
<1>4. ASSUME fileHandles'[d] # 0
      PROVE  LET h == handles'[fileHandles'[d]]
             IN /\ drives'[d].mounted /\ h.open /\ ~h.orphan
                /\ h.path = FileOf(d)'
                /\ ~drives'[d].readonly => h.rw
    BY <1>2, <1>3, <1>4, Zenon DEF QuietOK, Untouched
<1> QED
    BY <1>1, <1>4, Zenon DEF QuietOK

Holds(d, n) == drives[d].transient /\ drives[d].scratchPath = n
Awaits(r, n) ==
    op[r].pc \in {"open", "abandon"} /\ op[r].path.scratch /\ op[r].path.number = n

\* A step of request r at drive d changes nothing for the other drives.
StepAt(r, d) ==
    /\ op[r].pc = "idle" \/ op[r].drive = d
    /\ op'[r].pc = "idle" \/ op'[r].drive = d
    /\ \A e \in Drive \ {d} : /\ drives'[e] = drives[e]
                              /\ fileHandles'[e] = fileHandles[e]
                              /\ mountRegistry'[e] = mountRegistry[e]

\* It leaves the scratch copies with an owner if the drive or the request keeps those
\* it had.
LEMMA ScratchesFrame ==
    ASSUME OneAtATime, ScratchesAccounted, NEW r \in Req, NEW d \in Drive, StepAt(r, d),
           \A n \in DOMAIN scratches' :
              scratches'[n].exists => n \in DOMAIN scratches /\ scratches[n].exists,
           \A n \in DOMAIN scratches :
              scratches'[n].exists /\ (Holds(d, n) \/ Awaits(r, n))
                 => Holds(d, n)' \/ Awaits(r, n)'
    PROVE  ScratchesAccounted'
<1> SUFFICES ASSUME NEW n \in DOMAIN scratches', scratches'[n].exists
             PROVE  (\E e \in Drive : Holds(e, n)') \/ (\E q \in Req : Awaits(q, n)')
    BY Zenon DEF ScratchesAccounted, Holds, Awaits
<1>1. n \in DOMAIN scratches /\ scratches[n].exists
    OBVIOUS
<1>2. (\E e \in Drive : Holds(e, n)) \/ (\E q \in Req : Awaits(q, n))
    BY <1>1, Zenon DEF ScratchesAccounted, Holds, Awaits
<1>3. ASSUME NEW e \in Drive, Holds(e, n), e # d PROVE Holds(e, n)'
    BY <1>3, Zenon DEF Holds, StepAt
<1>4. ASSUME NEW q \in Req PROVE q = r
    BY Zenon DEF OneAtATime
<1> QED
    BY <1>1, <1>2, <1>3, <1>4, Zenon

\* The open handles stay with their drives if the handle that leaves the map is closed.
LEMMA OwnedFrame ==
    ASSUME Owned, DOMAIN handles' = DOMAIN handles,
           \A h \in DOMAIN handles : handles'[h].open => handles[h].open,
           \A d \in Drive : \/ fileHandles'[d] = fileHandles[d]
                            \/ fileHandles'[d] = 0 /\ ~handles'[fileHandles[d]].open
    PROVE  Owned'
<1>1. ASSUME NEW d \in Drive, NEW e \in Drive, fileHandles'[d] # 0,
             fileHandles'[d] = fileHandles'[e]
      PROVE  d = e
    <2>1. fileHandles'[d] = fileHandles[d] /\ fileHandles'[e] = fileHandles[e]
        BY <1>1
    <2>2. fileHandles[d] # 0 /\ fileHandles[d] = fileHandles[e]
        BY <1>1, <2>1
    <2> QED
        BY <2>2, Zenon DEF Owned
<1>2. ASSUME NEW h \in DOMAIN handles', handles'[h].open
      PROVE  \E d \in Drive : fileHandles'[d] = h
    <2>1. PICK d \in Drive : fileHandles[d] = h
        BY <1>2, Zenon DEF Owned
    <2> QED
        BY <1>2, <2>1, Zenon
<1> QED
    BY <1>1, <1>2, Zenon DEF Owned

\* What the FDC has buffered stays true if the step leaves the image of its drive
\* alone, or opens the window, or the buffer is empty.
LEMMA CacheFrame ==
    ASSUME CacheOK, NEW r \in Req, NEW d \in Drive, StepAt(r, d), UNCHANGED <<guest, cached>>,
           ~drives'[d].swapWindow =>
              \/ cached[d].image = NoImage
              \/ drives'[d].mounted /\ cached[d].image = drives'[d].filename,
           guest.pc = "read" /\ guest.drive = d =>
              fileHandles'[d] = fileHandles[d] /\ ~drives'[d].swapWindow,
           guest.drive \in Drive
    PROVE  CacheOK'
<1>1. ASSUME NEW e \in Drive, ~drives'[e].swapWindow
      PROVE  \/ cached'[e].image = NoImage
             \/ drives'[e].mounted /\ cached'[e].image = drives'[e].filename
    <2>1. CASE e = d
        BY <1>1, <2>1, Zenon
    <2>2. CASE e # d
        BY <1>1, <2>2, Zenon DEF CacheOK, StepAt
    <2> QED
        BY <2>1, <2>2
<1>2. ASSUME guest'.pc = "read"
      PROVE  /\ guest'.handle # 0 /\ fileHandles'[guest'.drive] = guest'.handle
             /\ ~drives'[guest'.drive].swapWindow
    <2>1. guest' = guest
        OBVIOUS
    <2>2. /\ guest.handle # 0 /\ fileHandles[guest.drive] = guest.handle
          /\ ~drives[guest.drive].swapWindow
        BY <1>2, <2>1, Zenon DEF CacheOK
    <2>3. CASE guest.drive = d
        BY <1>2, <2>1, <2>2, <2>3, Zenon
    <2>4. CASE guest.drive # d
        <3>1. /\ drives'[guest.drive] = drives[guest.drive]
              /\ fileHandles'[guest.drive] = fileHandles[guest.drive]
            BY <2>4, Zenon DEF StepAt
        <3> QED
            BY <2>1, <2>2, <3>1, Zenon
    <2> QED
        BY <2>3, <2>4
<1> QED
    BY <1>1, <1>2, Zenon DEF CacheOK

\* A step of request r at drive d keeps the invariant if it keeps the part of the
\* drive and of the request.
LEMMA StepKeepsSerial ==
    ASSUME OneAtATime, IndInv, SerialInv, NEW r \in Req, NEW d \in Drive, StepAt(r, d),
           \A h \in 1 .. Len(handles) : h # fileHandles[d] => handles'[h] = handles[h],
           op'[r].pc # "idle" =>
              IF op'[r].kind = "commit" THEN CommitOK(r)' ELSE BusyOK(r)',
           op'[r].pc = "idle" \/ op'[r].kind = "commit" => QuietOK(d)',
           Owned', ScratchesAccounted', CacheOK'
    PROVE  SerialInv'
<1>1. ASSUME NEW q \in Req PROVE q = r
    BY Zenon DEF OneAtATime
<1>2. \A q \in Req : op'[q].pc # "idle" =>
         IF op'[q].kind = "commit" THEN CommitOK(q)' ELSE BusyOK(q)'
    BY <1>1, Zenon
<1>3. ASSUME NEW e \in Drive, \A q \in Req : At(q, e)' => op'[q].kind = "commit"
      PROVE  QuietOK(e)'
    <2>1. CASE e = d
        BY <1>3, <2>1, Zenon DEF At, StepAt
    <2>2. CASE e # d
        <3>1. QuietOK(e)
            BY <1>1, <2>2, Zenon DEF SerialInv, At, StepAt
        <3>2. fileHandles[e] # 0 => fileHandles[e] # fileHandles[d]
            BY <2>2, Zenon DEF SerialInv, Owned
        <3>3. fileHandles[e] \in 0 .. Len(handles) /\ Len(handles) \in Nat
            BY Tables DEF IndInv, TypeOK
        <3>4. fileHandles[e] # 0 => fileHandles[e] \in 1 .. Len(handles)
            BY <3>3
        <3>5. Untouched(e)
            BY <2>2, <3>2, <3>4, Zenon DEF Untouched, StepAt
        <3> QED
            BY <3>1, <3>5, UntouchedStaysQuiet
    <2> QED
        BY <2>1, <2>2
<1> QED
    BY <1>2, <1>3, Zenon DEF SerialInv

LEMMA InitSerial == Init => SerialInv
<1> SUFFICES ASSUME Init PROVE SerialInv
    OBVIOUS
<1>1. ASSUME NEW d \in Drive PROVE QuietOK(d)
    <2>1. /\ fileHandles[d] = 0 /\ drives[d].mounted = FALSE
          /\ drives[d].transient = FALSE /\ drives[d].scratchPath = 0
        BY SMT DEF Init
    <2> QED
        BY <2>1, SMT DEF QuietOK, Described, ScratchOK
<1>2. \A r \in Req : op[r].pc = "idle"
    BY SMT DEF Init, NoOperation
<1>3. Owned /\ ScratchesAccounted
    BY SMT DEF Init, Owned, ScratchesAccounted
<1>4. CacheOK
    BY SMT DEF Init, CacheOK, NoTransfer, NoPath, Master
<1> QED
    BY <1>1, <1>2, <1>3, <1>4, Zenon DEF SerialInv

\* A step that is not of a request: only the dirty flag, the window of a drive that no
\* request is at, and the contents of files change.
LEMMA OtherStepKeepsSerial ==
    ASSUME IndInv, SerialInv,
           UNCHANGED <<op, fileHandles, handles, mountRegistry>>,
           \A d \in Drive : /\ drives'[d].mounted = drives[d].mounted
                            /\ drives'[d].filename = drives[d].filename
                            /\ drives'[d].readonly = drives[d].readonly
                            /\ drives'[d].transient = drives[d].transient
                            /\ drives'[d].scratchPath = drives[d].scratchPath
                            /\ Busy(d) => drives'[d].swapWindow = drives[d].swapWindow,
           \A n \in DOMAIN scratches' :
              scratches'[n].exists => n \in DOMAIN scratches /\ scratches[n].exists,
           CacheOK'
    PROVE  SerialInv'
<1>1. ASSUME NEW r \in Req, op[r].pc # "idle"
      PROVE  IF op'[r].kind = "commit" THEN CommitOK(r)' ELSE BusyOK(r)'
    <2>0. PICK d \in Drive : d = op[r].drive
        BY DEF IndInv, TypeOK, Operation
    <2>1. Busy(d)
        BY <1>1, <2>0 DEF Busy
    <2>2. /\ drives'[d].mounted = drives[d].mounted /\ drives'[d].filename = drives[d].filename
          /\ drives'[d].readonly = drives[d].readonly
          /\ drives'[d].transient = drives[d].transient
          /\ drives'[d].scratchPath = drives[d].scratchPath
          /\ drives'[d].swapWindow = drives[d].swapWindow
        BY <2>1
    <2>3. op' = op /\ handles' = handles /\ fileHandles' = fileHandles /\ mountRegistry' = mountRegistry
        OBVIOUS
    <2>4. CASE op[r].kind = "commit"
        <3>1. CommitOK(r)
            BY <1>1, <2>4, Zenon DEF SerialInv
        <3>2. MountedElsewhere(op[r].drive, op[r].image)' => MountedElsewhere(op[r].drive, op[r].image)
            BY <2>3, Zenon DEF MountedElsewhere
        <3>3. CommitOK(r)'
            BY <2>0, <2>2, <2>3, <3>1, <3>2, Zenon DEF CommitOK
        <3> QED
            BY <2>3, <2>4, <3>3, Zenon
    <2>5. CASE op[r].kind # "commit"
        <3>1. BusyOK(r)
            BY <1>1, <2>5, Zenon DEF SerialInv
        <3>2. ScratchOK(d) => ScratchOK(d)'
            BY <2>2, Zenon DEF ScratchOK
        <3>3. Described(d) => Described(d)'
            BY <2>2, <2>3, <3>2, Zenon DEF Described
        <3>4. BusyOK(r)'
            BY <2>0, <2>2, <2>3, <3>1, <3>2, <3>3, SMT DEF BusyOK
        <3> QED
            BY <2>3, <2>5, <3>4, Zenon
    <2> QED
        BY <2>4, <2>5
<1>2. ASSUME NEW d \in Drive, \A r \in Req : At(r, d)' => op'[r].kind = "commit"
      PROVE  QuietOK(d)'
    <2>1. QuietOK(d)
        BY <1>2, Zenon DEF SerialInv, At
    <2>2. Untouched(d)
        BY DEF Untouched
    <2> QED
        BY <2>1, <2>2, UntouchedStaysQuiet
<1>3. Owned'
    BY Zenon DEF SerialInv, Owned
<1>4. ScratchesAccounted'
    <2> SUFFICES ASSUME NEW n \in DOMAIN scratches', scratches'[n].exists
                 PROVE  (\E e \in Drive : Holds(e, n)') \/ (\E q \in Req : Awaits(q, n)')
        BY Zenon DEF ScratchesAccounted, Holds, Awaits
    <2>1. n \in DOMAIN scratches /\ scratches[n].exists
        OBVIOUS
    <2>2. (\E e \in Drive : Holds(e, n)) \/ (\E q \in Req : Awaits(q, n))
        BY <2>1, Zenon DEF SerialInv, ScratchesAccounted, Holds, Awaits
    <2>3. ASSUME NEW e \in Drive, Holds(e, n) PROVE Holds(e, n)'
        BY <2>3 DEF Holds
    <2>4. ASSUME NEW q \in Req, Awaits(q, n) PROVE Awaits(q, n)'
        BY <2>4 DEF Awaits
    <2> QED
        BY <2>2, <2>3, <2>4
<1> QED
    BY <1>1, <1>2, <1>3, <1>4, Zenon DEF SerialInv

\* A drive with a handle that the guest can use has its image in the handle.
LEMMA ReadsItsImage ==
    ASSUME IndInv, SerialInv, NEW d \in Drive, fileHandles[d] # 0
    PROVE  /\ drives[d].mounted
           /\ handles[fileHandles[d]].path.image = drives[d].filename
<1>1. CASE \A r \in Req : At(r, d) => op[r].kind = "commit"
    <2>1. QuietOK(d)
        BY <1>1, Zenon DEF SerialInv
    <2> QED
        BY <2>1 DEF QuietOK, FileOf, Master, ScratchFile
<1>2. ASSUME NEW r \in Req, At(r, d), op[r].kind # "commit"
      PROVE  /\ drives[d].mounted
             /\ handles[fileHandles[d]].path.image = drives[d].filename
    <2>1. BusyOK(r) /\ op[r].drive = d
        BY <1>2, Zenon DEF SerialInv, At
    <2> QED
        BY <2>1, Zenon DEF BusyOK
<1> QED
    BY <1>1, <1>2, Zenon

LEMMA GuestKeepsSerial ==
    ASSUME IndInv, SerialInv, GuestStep
    PROVE  SerialInv'
<1> USE DEF engine, files, GuestResumes
<1>1. /\ guest \in Guest /\ drives \in [Drive -> DriveState] /\ cached \in [Drive -> Path]
      /\ handles \in Seq(Handle) /\ scratches \in Seq(Scratch) /\ GuestOK
      /\ \A h \in 1 .. Len(handles) : handles[h] \in Handle /\ FileRef(handles[h].path)
    BY Tables DEF IndInv, TypeOK, References
<1>2. ASSUME UNCHANGED <<op, fileHandles, handles, mountRegistry>>,
             NEW d \in Drive, NEW b \in BOOLEAN, drives' = [drives EXCEPT ![d].dirty = b] \/ drives' = drives,
             \/ scratches' = scratches
             \/ \E n \in DOMAIN scratches : \E x \in Stamp :
                   scratches' = [scratches EXCEPT ![n].stamp = x],
             cached' = cached, guest'.pc = "read" => guest' = guest
      PROVE  SerialInv'
    <2>1. \A e \in Drive : /\ drives'[e].mounted = drives[e].mounted
                           /\ drives'[e].filename = drives[e].filename
                           /\ drives'[e].readonly = drives[e].readonly
                           /\ drives'[e].transient = drives[e].transient
                           /\ drives'[e].scratchPath = drives[e].scratchPath
                           /\ drives'[e].swapWindow = drives[e].swapWindow
        <3>1. CASE drives' = drives
            BY <3>1
        <3>2. CASE drives' = [drives EXCEPT ![d].dirty = b]
            BY <1>1, <3>2 DEF DriveState
        <3> QED
            BY <1>2, <3>1, <3>2
    <2>2. ASSUME NEW n \in DOMAIN scratches', scratches'[n].exists
          PROVE  n \in DOMAIN scratches /\ scratches[n].exists
        <3>1. CASE scratches' = scratches
            BY <2>2, <3>1
        <3>2. ASSUME NEW m \in DOMAIN scratches, NEW x \in Stamp,
                     scratches' = [scratches EXCEPT ![m].stamp = x]
              PROVE  n \in DOMAIN scratches /\ scratches[n].exists
            <4>1. n \in DOMAIN scratches
                BY <2>2, <3>2
            <4>2. scratches[n] \in Scratch
                BY <4>1, Tables DEF IndInv
            <4>3. scratches'[n].exists = scratches[n].exists
                BY <3>2, <4>1, <4>2 DEF Scratch
            <4> QED
                BY <2>2, <4>1, <4>3
        <3> QED
            BY <1>2, <3>1, <3>2
    <2>4. guest'.pc = "read" => guest.drive \in Drive
        BY <1>1, <1>2 DEF Guest
    <2>3. CacheOK'
        <3>1. CacheOK
            BY DEF SerialInv
        <3>2. ASSUME NEW e \in Drive, ~drives'[e].swapWindow
              PROVE  \/ cached'[e].image = NoImage
                     \/ drives'[e].mounted /\ cached'[e].image = drives'[e].filename
            <4>1. ~drives[e].swapWindow
                BY <2>1, <3>2
            <4>2. cached[e].image = NoImage \/ (drives[e].mounted /\ cached[e].image = drives[e].filename)
                BY <3>1, <4>1, Zenon DEF CacheOK
            <4> QED
                BY <1>2, <2>1, <4>2
        <3>3. ASSUME guest'.pc = "read"
              PROVE  /\ guest'.handle # 0 /\ fileHandles'[guest'.drive] = guest'.handle
                     /\ ~drives'[guest'.drive].swapWindow
            <4>1. guest' = guest /\ fileHandles' = fileHandles
                BY <1>2, <3>3
            <4>2. /\ guest.handle # 0 /\ fileHandles[guest.drive] = guest.handle
                  /\ ~drives[guest.drive].swapWindow
                BY <3>1, <3>3, <4>1, Zenon DEF CacheOK
            <4> QED
                BY <2>1, <2>4, <3>3, <4>1, <4>2
        <3> QED
            BY <3>2, <3>3, Zenon DEF CacheOK
    <2> QED
        BY <1>2, <2>1, <2>2, <2>3, OtherStepKeepsSerial
<1>3. AnyDrive \in Drive
    BY DriveAssumption DEF AnyDrive
<1>4. ASSUME NEW d \in Drive, BeginRead(d) PROVE SerialInv'
    <2>1. /\ drives' = drives /\ scratches' = scratches /\ cached' = cached /\ fileHandles' = fileHandles
          /\ op' = op /\ handles' = handles /\ mountRegistry' = mountRegistry
        BY <1>4, Zenon DEF BeginRead
    <2>2. /\ ~drives[d].swapWindow /\ fileHandles[d] # 0
          /\ guest'.handle = fileHandles[d] /\ guest'.drive = d
        BY <1>4 DEF BeginRead, Ready, NoTransfer
    <2>3. CacheOK'
        <3>1. CacheOK
            BY DEF SerialInv
        <3> QED
            BY <2>1, <2>2, <3>1, Zenon DEF CacheOK
    <2> QED
        BY <2>1, <2>3, OtherStepKeepsSerial
<1>5. ASSUME NEW d \in Drive, BeginWrite(d) PROVE SerialInv'
    <2>1. guest'.pc # "read"
        BY <1>5 DEF BeginWrite, NoTransfer
    <2> QED
        BY <1>2, <1>5, <2>1 DEF BeginWrite
<1>6. CASE ReadDone
    <2>1. /\ drives' = drives /\ scratches' = scratches /\ fileHandles' = fileHandles
          /\ op' = op /\ handles' = handles /\ mountRegistry' = mountRegistry
          /\ guest' = NoTransfer /\ guest.pc = "read"
          /\ cached' = [cached EXCEPT ![guest.drive] = handles[guest.handle].path]
        BY <1>6, Zenon DEF ReadDone
    <2>2. guest.drive \in Drive /\ guest'.pc # "read"
        BY <1>1, <2>1 DEF Guest, NoTransfer
    <2>3. guest.handle # 0 /\ fileHandles[guest.drive] = guest.handle
        BY <2>1, Zenon DEF SerialInv, CacheOK
    <2>4. drives[guest.drive].mounted /\ handles[guest.handle].path.image = drives[guest.drive].filename
        BY <2>2, <2>3, ReadsItsImage
    <2>5. /\ cached'[guest.drive].image = drives[guest.drive].filename
          /\ \A e \in Drive : e # guest.drive => cached'[e] = cached[e]
        BY <1>1, <2>1, <2>2, <2>4
    <2>6. CacheOK'
        <3>1. CacheOK
            BY DEF SerialInv
        <3> QED
            BY <2>1, <2>2, <2>4, <2>5, <3>1, Zenon DEF CacheOK
    <2> QED
        BY <2>1, <2>6, OtherStepKeepsSerial
<1>7. CASE DatasyncDone \/ WriteFails \/ WriteRefused \/ RetryWrite
    <2>3. NoTransfer.pc # "read"
        BY DEF NoTransfer
    <2>1. guest'.pc = "read" => guest' = guest
        <3>1. CASE DatasyncDone
            BY <1>1, <2>3, <3>1 DEF DatasyncDone, NextCall, Guest
        <3>2. CASE WriteFails
            BY <1>1, <2>3, <3>2 DEF WriteFails, Guest
        <3>3. CASE WriteRefused
            BY <2>3, <3>3 DEF WriteRefused
        <3>4. CASE RetryWrite
            BY <1>1, <2>3, <3>4 DEF RetryWrite, Guest
        <3> QED
            BY <1>7, <3>1, <3>2, <3>3, <3>4
    <2>2. UNCHANGED <<op, fileHandles, handles, mountRegistry, drives, scratches, cached>>
        BY <1>7, Zenon DEF DatasyncDone, WriteFails, WriteRefused, RetryWrite
    <2> QED
        BY <1>2, <1>3, <2>1, <2>2
<1>8. CASE WriteLands
    <2>1. guest'.pc = "read" => guest' = guest
        BY <1>1, <1>8 DEF WriteLands, NextCall, NoTransfer, Guest
    <2>2. UNCHANGED <<op, fileHandles, handles, mountRegistry, drives, cached>>
        BY <1>8, Zenon DEF WriteLands
    <2>3. guest.stamp \in Stamp /\ guest.handle \in 1 .. Len(handles)
        BY <1>1, <1>8, Tables DEF Guest, GuestOK, WriteLands, IndInv
    <2>4. handles[guest.handle].path.scratch => handles[guest.handle].path.number \in DOMAIN scratches
        BY <1>1, <2>3 DEF FileRef
    <2>5. \/ scratches' = scratches
          \/ \E n \in DOMAIN scratches : \E x \in Stamp :
                scratches' = [scratches EXCEPT ![n].stamp = x]
        BY <1>8, <2>3, <2>4 DEF WriteLands
    <2> QED
        BY <1>2, <1>3, <2>1, <2>2, <2>5
<1>9. CASE SyncDone
    <2>1. guest'.pc = "read" => guest' = guest
        BY <1>9 DEF SyncDone, NoTransfer
    <2>2. guest.drive \in Drive
        BY <1>1 DEF Guest
    <2>3. UNCHANGED <<op, fileHandles, handles, mountRegistry, scratches, cached>>
        BY <1>9, Zenon DEF SyncDone
    <2>4. PICK b \in BOOLEAN : drives' = [drives EXCEPT ![guest.drive].dirty = b]
        BY <1>1, <1>9, <2>2 DEF SyncDone, DriveState
    <2> QED
        BY <1>2, <2>1, <2>2, <2>3, <2>4
<1> QED
    BY <1>4, <1>5, <1>6, <1>7, <1>8, <1>9 DEF GuestStep

LEMMA ExpiryKeepsSerial ==
    ASSUME IndInv, SerialInv, NEW d \in Drive, WindowExpires(d)
    PROVE  SerialInv'
<1>1. /\ ~Busy(d) /\ drives' = [drives EXCEPT ![d].swapWindow = FALSE]
      /\ cached' = [cached EXCEPT ![d] = NoPath]
      /\ UNCHANGED <<op, fileHandles, handles, mountRegistry, scratches, guest>>
    BY DEF WindowExpires, files
<1>2. \A e \in Drive : /\ drives'[e].mounted = drives[e].mounted
                       /\ drives'[e].filename = drives[e].filename
                       /\ drives'[e].readonly = drives[e].readonly
                       /\ drives'[e].transient = drives[e].transient
                       /\ drives'[e].scratchPath = drives[e].scratchPath
                       /\ e # d => drives'[e].swapWindow = drives[e].swapWindow
    BY <1>1, ZenonT(60) DEF IndInv, TypeOK, DriveState
<1>3. ASSUME NEW e \in Drive, Busy(e) PROVE drives'[e].swapWindow = drives[e].swapWindow
    <2>1. e # d
        BY <1>1, <1>3, Zenon
    <2> QED
        BY <1>2, <2>1, Zenon
<1>4. \A e \in Drive : cached'[e].image = NoImage \/ (e # d /\ cached'[e] = cached[e])
    BY <1>1 DEF IndInv, TypeOK, NoPath, Master
<1>5. guest.drive \in Drive
    BY DEF IndInv, TypeOK, Guest
<1>10. ~drives'[d].swapWindow
    BY <1>1 DEF IndInv, TypeOK, DriveState
<1>6. CacheOK'
    <2>1. CacheOK
        BY DEF SerialInv
    <2>2. ASSUME NEW e \in Drive, ~drives'[e].swapWindow
          PROVE  \/ cached'[e].image = NoImage
                 \/ drives'[e].mounted /\ cached'[e].image = drives'[e].filename
        <3>1. CASE cached'[e].image = NoImage
            BY <3>1
        <3>2. CASE e # d /\ cached'[e] = cached[e]
            <4>1. ~drives[e].swapWindow
                BY <1>2, <2>2, <3>2, Zenon
            <4>2. \/ cached[e].image = NoImage
                  \/ drives[e].mounted /\ cached[e].image = drives[e].filename
                BY <2>1, <4>1, Zenon DEF CacheOK
            <4> QED
                BY <1>2, <3>2, <4>2, Zenon
        <3> QED
            BY <1>4, <3>1, <3>2
    <2>4. guest' = guest /\ fileHandles' = fileHandles
        BY <1>1
    <2>3. guest'.pc = "read" =>
             /\ guest'.handle # 0 /\ fileHandles'[guest'.drive] = guest'.handle
             /\ ~drives'[guest'.drive].swapWindow
        <3>1. CASE guest.drive = d
            BY <1>10, <2>1, <2>4, <3>1, Zenon DEF CacheOK
        <3>2. CASE guest.drive # d
            BY <1>2, <1>5, <2>1, <2>4, <3>2, Zenon DEF CacheOK
        <3> QED
            BY <3>1, <3>2
    <2> QED
        BY <2>2, <2>3, Zenon DEF CacheOK
<1>7. UNCHANGED <<op, fileHandles, handles, mountRegistry>>
    BY <1>1
<1>8. \A n \in DOMAIN scratches' :
         scratches'[n].exists => n \in DOMAIN scratches /\ scratches[n].exists
    BY <1>1
<1>9. \A e \in Drive : /\ drives'[e].mounted = drives[e].mounted
                       /\ drives'[e].filename = drives[e].filename
                       /\ drives'[e].readonly = drives[e].readonly
                       /\ drives'[e].transient = drives[e].transient
                       /\ drives'[e].scratchPath = drives[e].scratchPath
                       /\ Busy(e) => drives'[e].swapWindow = drives[e].swapWindow
    BY <1>2, <1>3, Zenon
<1> QED
    BY <1>6, <1>7, <1>8, <1>9, OtherStepKeepsSerial

\* FileHandle.close() on the handle of a drive.
LEMMA CloseOne ==
    ASSUME TypeOK, NEW h \in 0 .. Len(handles), handles' = CloseRequested(h)
    PROVE  /\ DOMAIN handles' = DOMAIN handles
           /\ \A i \in 1 .. Len(handles) : i # h => handles'[i] = handles[i]
           /\ \A i \in DOMAIN handles : handles'[i].open => handles[i].open
           /\ h # 0 => ~handles'[h].open /\ handles'[h].path = handles[h].path
<1>1. \A i \in 1 .. Len(handles) : handles[i] \in Handle
    BY Tables
<1>2. DOMAIN handles = 1 .. Len(handles) /\ Len(handles) \in Nat
    BY Tables
<1>3. CASE h = 0
    BY <1>2, <1>3 DEF CloseRequested
<1>4. CASE h # 0
    <2>1. h \in 1 .. Len(handles) /\ handles' = [handles EXCEPT ![h].open = FALSE]
        BY <1>2, <1>4 DEF CloseRequested
    <2>2. DOMAIN handles' = DOMAIN handles
        BY <2>1
    <2>3. \A i \in 1 .. Len(handles) : i # h => handles'[i] = handles[i]
        BY <1>2, <2>1
    <2>4. ~handles'[h].open /\ handles'[h].path = handles[h].path
        BY <1>1, <1>2, <2>1 DEF Handle
    <2> QED
        BY <1>2, <2>2, <2>3, <2>4, Zenon
<1> QED
    BY <1>3, <1>4

\* A request that starts by closing the handle of the drive.
LEMMA ReleaseKeepsSerial ==
    ASSUME OneAtATime, IndInv, SerialInv, NEW r \in Req, NEW d \in Drive, op[r].pc = "idle",
           NEW o \in Operation, Release(r, d, fileHandles[d], o),
           o.drive = d, o.kind \in {"mount", "unmount", "protect"}, ~o.path.scratch,
           UNCHANGED <<fileHandles, mountRegistry, scratches, guest, cached>>,
           NEW b \in BOOLEAN, drives' = [drives EXCEPT ![d].readonly = b],
           o.kind # "protect" => b = drives[d].readonly /\ (drives[d].mounted => o.swap),
           o.kind = "protect" => /\ drives[d].mounted /\ drives[d].filename = o.image
                                 /\ b = o.flag
    PROVE  SerialInv'
<1>1. /\ drives \in [Drive -> DriveState] /\ op \in [Req -> Operation] /\ TypeOK
      /\ fileHandles[d] \in 0 .. Len(handles) /\ guest.drive \in Drive
    BY DEF IndInv, TypeOK, Guest
<1>2. \A q \in Req : q = r
    BY Zenon DEF OneAtATime
<1>3. QuietOK(d)
    BY <1>2, Zenon DEF SerialInv, At
<1>4. Owned /\ ScratchesAccounted /\ CacheOK
    BY Zenon DEF SerialInv
<1>5. PICK h \in 0 .. Len(handles) : h = fileHandles[d]
    BY <1>1
<1>6. /\ DOMAIN handles' = DOMAIN handles
      /\ \A i \in 1 .. Len(handles) : i # h => handles'[i] = handles[i]
      /\ \A i \in DOMAIN handles : handles'[i].open => handles[i].open
      /\ h # 0 => ~handles'[h].open /\ handles'[h].path = handles[h].path
    BY <1>1, <1>5, CloseOne DEF Release
<1>7. /\ drives'[d].mounted = drives[d].mounted
      /\ drives'[d].filename = drives[d].filename
      /\ drives'[d].readonly = b
      /\ drives'[d].transient = drives[d].transient
      /\ drives'[d].scratchPath = drives[d].scratchPath
      /\ drives'[d].swapWindow = drives[d].swapWindow
      /\ \A e \in Drive \ {d} : drives'[e] = drives[e]
    BY <1>1 DEF DriveState
<1>8. /\ op'[r].pc = IF h = 0 THEN "discard" ELSE "close"
      /\ op'[r].handle = h
      /\ op'[r].doomed = IF h = 0 THEN drives[d].scratchPath ELSE 0
      /\ op'[r].kind = o.kind /\ op'[r].drive = d /\ op'[r].image = o.image
      /\ op'[r].flag = o.flag /\ op'[r].swap = o.swap /\ op'[r].path = o.path
    BY <1>1, <1>5 DEF Release, Operation
<1>9. StepAt(r, d)
    BY <1>7, <1>8 DEF StepAt
<1>10. BusyOK(r)'
    <2>1. ScratchOK(d)'
        BY <1>3, <1>7, Zenon DEF QuietOK, Described, ScratchOK
    <2>2. h # 0 => /\ drives[d].mounted
                   /\ handles[h].path.image = drives[d].filename
        BY <1>3, <1>5, SMT DEF QuietOK, FileOf, Master, ScratchFile
    <2>3. h # 0 => /\ fileHandles'[d] = h /\ drives'[d].mounted
                   /\ ~handles'[h].open /\ handles'[h].path.image = drives'[d].filename
        BY <1>5, <1>6, <1>7, <2>2, Zenon
    <2>4. h = 0 => fileHandles'[d] = 0
        BY <1>5
    <2>5. o.kind = "unmount" => Described(d)'
        <3>1. SUFFICES ASSUME o.kind = "unmount" PROVE Described(d)'
            OBVIOUS
        <3>2. b = drives[d].readonly
            BY <3>1
        <3> QED
            BY <1>3, <1>7, <2>1, <3>2, Zenon DEF QuietOK, Described
    <2>6. o.kind = "protect" => /\ drives'[d].mounted /\ drives'[d].filename = o.image
                                /\ drives'[d].readonly = o.flag
        BY <1>7, Zenon
    <2>7. o.kind \in {"mount", "unmount"} => (drives'[d].mounted => o.swap)
        BY <1>7, Zenon
    <2> QED
        BY <1>8, <2>1, <2>3, <2>4, <2>5, <2>6, <2>7, SMT DEF BusyOK
<1>11. Owned'
    BY <1>4, <1>6, OwnedFrame
<1>12. ScratchesAccounted'
    <2>1. ASSUME NEW n \in DOMAIN scratches, Holds(d, n) \/ Awaits(r, n)
          PROVE  Holds(d, n)'
        BY <1>7, <2>1, Zenon DEF Holds, Awaits
    <2> QED
        BY <1>4, <1>9, <2>1, ScratchesFrame
<1>13. CacheOK'
    <2>1. ~drives'[d].swapWindow =>
             \/ cached[d].image = NoImage
             \/ drives'[d].mounted /\ cached[d].image = drives'[d].filename
        BY <1>4, <1>7, Zenon DEF CacheOK
    <2>2. guest.pc = "read" /\ guest.drive = d =>
             fileHandles'[d] = fileHandles[d] /\ ~drives'[d].swapWindow
        BY <1>4, <1>7, Zenon DEF CacheOK
    <2> QED
        BY <1>1, <1>4, <1>9, <2>1, <2>2, CacheFrame
<1> QED
    BY <1>5, <1>6, <1>8, <1>9, <1>10, <1>11, <1>12, <1>13, StepKeepsSerial

LEMMA StartKeepsSerial ==
    ASSUME OneAtATime, IndInv, SerialInv, NEW r \in Req, Start(r)
    PROVE  SerialInv'
<1>1. PICK d \in Drive :
         \/ \E f \in Image : StartMount(r, d, f)
         \/ StartReload(r, d)
         \/ StartUnmount(r, d)
         \/ \E flag \in BOOLEAN : WriteProtect(r, d, flag)
         \/ StartCommit(r, d)
    BY Zenon DEF Start
<1>2. /\ op[r].pc = "idle" /\ TypeOK /\ drives \in [Drive -> DriveState]
      /\ op \in [Req -> Operation] /\ guest.drive \in Drive
      /\ mountRegistry \in [Drive -> MountEntry]
    <2>1. op[r].pc = "idle"
        BY <1>1, Zenon DEF StartMount, StartReload, StartUnmount, WriteProtect, StartCommit,
           Begin
    <2> QED
        BY <2>1 DEF IndInv, TypeOK, Guest
<1>3. \A q \in Req : q = r
    BY Zenon DEF OneAtATime
<1>4. QuietOK(d)
    BY <1>2, <1>3, Zenon DEF SerialInv, At
<1>5. Owned /\ ScratchesAccounted /\ CacheOK
    BY Zenon DEF SerialInv
<1>6. NoOperation \in Operation /\ drives[d] \in DriveState /\ ~NoOperation.path.scratch
    BY <1>2, IdleTypes DEF NoOperation, NoPath, Master
<1>7. drives = [drives EXCEPT ![d].readonly = drives[d].readonly]
    BY <1>2 DEF DriveState
<1>8. ASSUME NEW f \in Image, StartMount(r, d, f) PROVE SerialInv'
    <2> DEFINE o == [NoOperation EXCEPT !.kind = "mount", !.drive = d, !.image = f,
                        !.swap = OpensWindow(d)]
    <2>1. OpensWindow(d) \in BOOLEAN /\ (drives[d].mounted => OpensWindow(d))
        BY <1>6 DEF OpensWindow, DriveState
    <2>2. /\ o \in Operation /\ o.drive = d /\ o.kind = "mount"
          /\ o.swap = OpensWindow(d) /\ ~o.path.scratch
        BY <1>6, <2>1 DEF Operation, Kind
    <2>3. /\ Release(r, d, fileHandles[d], o) /\ drives' = drives
          /\ UNCHANGED <<fileHandles, mountRegistry, scratches, guest, cached>>
        BY <1>8 DEF StartMount, files, fdc
    <2> HIDE DEF o
    <2>4. drives[d].readonly \in BOOLEAN
        BY <1>6 DEF DriveState
    <2>5. o.kind # "protect" => (drives[d].mounted => o.swap)
        BY <2>1, <2>2, Zenon
    <2> QED
        BY <1>2, <1>7, <2>2, <2>3, <2>4, <2>5, ReleaseKeepsSerial
<1>9. CASE StartReload(r, d)
    BY <1>8, <1>9 DEF StartReload
<1>10. CASE StartUnmount(r, d)
    <2> DEFINE o == [NoOperation EXCEPT !.kind = "unmount", !.drive = d,
                        !.swap = drives[d].mounted]
    <2>1. drives[d].mounted \in BOOLEAN /\ drives[d].readonly \in BOOLEAN
        BY <1>6 DEF DriveState
    <2>2. /\ o \in Operation /\ o.drive = d /\ o.kind = "unmount"
          /\ o.swap = drives[d].mounted /\ ~o.path.scratch
        BY <1>6, <2>1 DEF Operation, Kind
    <2>6. (IF drives[d].mounted THEN fileHandles[d] ELSE 0) = fileHandles[d]
        BY <1>4, Zenon DEF QuietOK
    <2>3. /\ Release(r, d, fileHandles[d], o) /\ drives' = drives
          /\ UNCHANGED <<fileHandles, mountRegistry, scratches, guest, cached>>
        BY <1>10, <2>6 DEF StartUnmount, files, fdc
    <2> HIDE DEF o
    <2>5. o.kind # "protect" => (drives[d].mounted => o.swap)
        BY <2>2, Zenon
    <2> QED
        BY <1>2, <1>7, <2>1, <2>2, <2>3, <2>5, ReleaseKeepsSerial
<1>11. ASSUME NEW flag \in BOOLEAN, WriteProtect(r, d, flag) PROVE SerialInv'
    <2>1. /\ drives' = [drives EXCEPT ![d].readonly = flag]
          /\ UNCHANGED <<fileHandles, scratches, guest, cached>>
        BY <1>11 DEF WriteProtect, files, fdc
    <2>2. CASE NeedsReopen(d, flag)
        <3> DEFINE o == [NoOperation EXCEPT !.kind = "protect", !.drive = d,
                            !.image = drives[d].filename, !.flag = flag]
        <3>1. drives[d].mounted
            BY <2>2 DEF NeedsReopen
        <3>2. drives[d].filename \in Image
            BY <3>1 DEF IndInv, RegistryNamesMountedImage
        <3>3. /\ o \in Operation /\ o.drive = d /\ o.kind = "protect"
              /\ o.image = drives[d].filename /\ o.flag = flag /\ ~o.path.scratch
            BY <1>6, <3>2 DEF Operation, Kind
        <3>4. /\ Release(r, d, fileHandles[d], o) /\ mountRegistry' = mountRegistry
            BY <1>11, <2>2 DEF WriteProtect
        <3> HIDE DEF o
        <3> QED
            BY <1>2, <2>1, <3>1, <3>3, <3>4, ReleaseKeepsSerial
    <2>3. CASE ~NeedsReopen(d, flag)
        <3>1. /\ mountRegistry' = WithFlag(d, flag) /\ handles' = handles /\ op' = op
            BY <1>11, <2>3 DEF WriteProtect
        <3>2. /\ drives'[d].mounted = drives[d].mounted
              /\ drives'[d].filename = drives[d].filename
              /\ drives'[d].readonly = flag
              /\ drives'[d].transient = drives[d].transient
              /\ drives'[d].scratchPath = drives[d].scratchPath
              /\ drives'[d].swapWindow = drives[d].swapWindow
              /\ \A e \in Drive \ {d} : drives'[e] = drives[e]
            BY <1>2, <2>1 DEF DriveState
        <3>3. ASSUME drives[d].mounted
              PROVE  flag = drives[d].readonly /\ mountRegistry'[d] = mountRegistry[d]
            <4>1. flag = drives[d].readonly
                BY <2>3, <3>3 DEF NeedsReopen
            <4>2. mountRegistry[d].readonly = flag
                BY <1>4, <3>3, <4>1, SMT DEF QuietOK, Described
            <4>3. mountRegistry[d] \in MountEntry
                BY <1>2
            <4>4. [mountRegistry[d] EXCEPT !.readonly = flag] = mountRegistry[d]
                BY <4>2, <4>3 DEF MountEntry
            <4> QED
                BY <1>2, <3>1, <4>1, <4>4 DEF WithFlag
        <3>4. /\ \A e \in Drive \ {d} : mountRegistry'[e] = mountRegistry[e]
              /\ ~drives[d].mounted => mountRegistry' = mountRegistry
            BY <1>2, <3>1 DEF WithFlag
        <3>5. StepAt(r, d)
            BY <1>2, <2>1, <3>1, <3>2, <3>4, Zenon DEF StepAt
        <3>6. QuietOK(d)'
            <4>1. CASE drives[d].mounted
                <5>1. Untouched(d)
                    BY <2>1, <3>1, <3>2, <3>3, <4>1, Zenon DEF Untouched
                <5> QED
                    BY <1>4, <5>1, UntouchedStaysQuiet
            <4>2. CASE ~drives[d].mounted
                <5>1. /\ fileHandles'[d] = 0 /\ ~drives'[d].mounted /\ ~drives'[d].transient
                      /\ ScratchOK(d)
                    BY <1>4, <2>1, <3>2, <4>2, Zenon DEF QuietOK, Described
                <5>2. ScratchOK(d)'
                    BY <3>2, <5>1, Zenon DEF ScratchOK
                <5> QED
                    BY <5>1, <5>2, Zenon DEF QuietOK, Described
            <4> QED
                BY <4>1, <4>2
        <3>7. Owned'
            BY <1>5, <2>1, <3>1, OwnedFrame
        <3>8. ScratchesAccounted'
            <4>1. ASSUME NEW n \in DOMAIN scratches, Holds(d, n) \/ Awaits(r, n)
                  PROVE  Holds(d, n)'
                BY <1>2, <3>2, <4>1, Zenon DEF Holds, Awaits
            <4> QED
                BY <1>5, <2>1, <3>5, <4>1, ScratchesFrame
        <3>9. CacheOK'
            <4>1. ~drives'[d].swapWindow =>
                     \/ cached[d].image = NoImage
                     \/ drives'[d].mounted /\ cached[d].image = drives'[d].filename
                BY <1>5, <3>2, Zenon DEF CacheOK
            <4>2. guest.pc = "read" /\ guest.drive = d =>
                     fileHandles'[d] = fileHandles[d] /\ ~drives'[d].swapWindow
                BY <1>5, <2>1, <3>2, Zenon DEF CacheOK
            <4> QED
                BY <1>2, <1>5, <2>1, <3>5, <4>1, <4>2, CacheFrame
        <3> QED
            BY <1>2, <3>1, <3>5, <3>6, <3>7, <3>8, <3>9, StepKeepsSerial
    <2> QED
        BY <2>2, <2>3
<1>12. CASE StartCommit(r, d)
    <2>1. /\ drives[d].transient /\ ~MountedElsewhere(d, drives[d].filename)
          /\ drives' = drives /\ fileHandles' = fileHandles /\ handles' = handles
          /\ mountRegistry' = mountRegistry /\ scratches' = scratches
          /\ guest' = guest /\ cached' = cached
        BY <1>12, Zenon DEF StartCommit, engine, files, fdc
    <2>2. /\ op'[r].pc = "copy" /\ op'[r].kind = "commit" /\ op'[r].drive = d
          /\ op'[r].image = drives[d].filename
        BY <1>2, <1>12 DEF StartCommit, NoOperation
    <2>3. CommitOK(r)'
        <3>1. ~MountedElsewhere(d, drives[d].filename)'
            BY <2>1, Zenon DEF MountedElsewhere
        <3>2. MountedElsewhere(op[r].drive, op[r].image)' => MountedElsewhere(d, drives[d].filename)'
            BY <2>1, <2>2, Zenon DEF MountedElsewhere
        <3> QED
            BY <2>1, <2>2, <3>1, <3>2, Zenon DEF CommitOK
    <2>4. StepAt(r, d)
        BY <1>2, <2>1, <2>2, Zenon DEF StepAt
    <2>5. QuietOK(d)'
        <3>1. Untouched(d)
            BY <2>1, Zenon DEF Untouched
        <3> QED
            BY <1>4, <3>1, UntouchedStaysQuiet
    <2>6. Owned'
        BY <1>5, <2>1, OwnedFrame
    <2>7. ScratchesAccounted'
        <3>1. ASSUME NEW n \in DOMAIN scratches, Holds(d, n) \/ Awaits(r, n)
              PROVE  Holds(d, n)'
            BY <1>2, <2>1, <3>1, Zenon DEF Holds, Awaits
        <3> QED
            BY <1>5, <2>1, <2>4, <3>1, ScratchesFrame
    <2>8. CacheOK'
        BY <1>5, <2>1, Zenon DEF CacheOK
    <2> QED
        BY <2>1, <2>2, <2>3, <2>4, <2>5, <2>6, <2>7, <2>8, StepKeepsSerial
<1> QED
    BY <1>1, <1>8, <1>9, <1>10, <1>11, <1>12

\* The step of a request at its drive: the part the request keeps for itself.
LEMMA BusyStep ==
    ASSUME OneAtATime, IndInv, SerialInv, NEW r \in Req, op[r].pc # "idle",
           NEW d \in Drive, d = op[r].drive
    PROVE  /\ op[r].kind # "commit" => BusyOK(r)
           /\ op[r].kind = "commit" => CommitOK(r) /\ QuietOK(d)
           /\ Owned /\ ScratchesAccounted /\ CacheOK
<1>1. \A q \in Req : q = r
    BY Zenon DEF OneAtATime
<1> QED
    BY <1>1, Zenon DEF SerialInv, At

\* A step of a request on a drive without a handle: it opens and closes none.
LEMMA ClosedStepKeepsSerial ==
    ASSUME OneAtATime, IndInv, SerialInv, NEW r \in Req, op[r].pc # "idle",
           NEW d \in Drive, d = op[r].drive, fileHandles[d] = 0,
           NEW o \in Operation, op' = [op EXCEPT ![r] = o], o.pc = "idle" \/ o.drive = d,
           NEW s \in DriveState, drives' = [drives EXCEPT ![d] = s],
           \A e \in Drive \ {d} : mountRegistry'[e] = mountRegistry[e],
           UNCHANGED <<fileHandles, handles, guest, cached>>,
           \/ s.swapWindow
           \/ ~s.swapWindow /\ ~drives[d].swapWindow /\ ~drives[d].mounted
           \/ /\ s.mounted = drives[d].mounted /\ s.filename = drives[d].filename
              /\ s.swapWindow = drives[d].swapWindow,
           o.pc # "idle" => o.kind # "commit" /\ BusyOK(r)',
           o.pc = "idle" => QuietOK(d)',
           ScratchesAccounted'
    PROVE  SerialInv'
<1>1. /\ drives \in [Drive -> DriveState] /\ op \in [Req -> Operation] /\ guest.drive \in Drive
    BY DEF IndInv, TypeOK, Guest
<1>2. op'[r] = o /\ drives'[d] = s /\ \A e \in Drive \ {d} : drives'[e] = drives[e]
    BY <1>1
<1>3. StepAt(r, d)
    BY <1>2 DEF StepAt
<1>4. Owned /\ CacheOK
    BY Zenon DEF SerialInv
<1>5. Owned'
    BY <1>4, Zenon DEF Owned
<1>6. CacheOK'
    <2>1. ~drives'[d].swapWindow =>
             \/ cached[d].image = NoImage
             \/ drives'[d].mounted /\ cached[d].image = drives'[d].filename
        BY <1>2, <1>4, Zenon DEF CacheOK
    <2>2. ~(guest.pc = "read" /\ guest.drive = d)
        BY <1>4, Zenon DEF CacheOK
    <2> QED
        BY <1>1, <1>3, <1>4, <2>1, <2>2, CacheFrame
<1> QED
    BY <1>2, <1>3, <1>5, <1>6, Zenon, StepKeepsSerial

\* A step of a commit that leaves the drive and the handles alone.
LEMMA CommitStepKeepsSerial ==
    ASSUME OneAtATime, IndInv, SerialInv, NEW r \in Req, op[r].pc # "idle",
           op[r].kind = "commit",
           NEW o \in Operation, op' = [op EXCEPT ![r] = o],
           \/ o.pc = "idle"
           \/ /\ o.pc \in {"copy", "rename"} /\ o.kind = "commit"
              /\ o.drive = op[r].drive /\ o.image = op[r].image,
           UNCHANGED <<engine, scratches, guest, cached>>
    PROVE  SerialInv'
<1>1. PICK d \in Drive : d = op[r].drive
    BY DEF IndInv, TypeOK, Operation
<1>2. CommitOK(r) /\ QuietOK(d) /\ Owned /\ ScratchesAccounted /\ CacheOK
    BY <1>1, BusyStep
<1>3. op'[r] = o
    BY DEF IndInv, TypeOK
<1>4. StepAt(r, d)
    BY <1>1, <1>3, Zenon DEF StepAt, engine
<1>5. o.pc # "idle" => CommitOK(r)'
    <2> SUFFICES ASSUME o.pc # "idle" PROVE CommitOK(r)'
        OBVIOUS
    <2>1. /\ o.pc \in {"copy", "rename"} /\ o.drive = d /\ o.image = op[r].image
          /\ drives' = drives
        BY <1>1 DEF engine
    <2>2. PICK f : f = op[r].image
        OBVIOUS
    <2>3. drives[d].transient /\ drives[d].filename = f /\ ~MountedElsewhere(d, f)
        BY <1>1, <1>2, <2>2, Zenon DEF CommitOK
    <2>4. ~MountedElsewhere(d, f)'
        BY <2>1, <2>3, Zenon DEF MountedElsewhere
    <2>5. MountedElsewhere(op[r].drive, op[r].image)' => MountedElsewhere(d, f)'
        BY <1>3, <2>1, <2>2, Zenon DEF MountedElsewhere
    <2> QED
        BY <1>3, <2>1, <2>2, <2>3, <2>4, <2>5, Zenon DEF CommitOK
<1>6. QuietOK(d)'
    <2>1. Untouched(d)
        BY Zenon DEF Untouched, engine
    <2> QED
        BY <1>2, <2>1, UntouchedStaysQuiet
<1>7. Owned'
    BY <1>2, Zenon DEF Owned, engine
<1>8. ScratchesAccounted'
    <2>1. ASSUME NEW n \in DOMAIN scratches, Holds(d, n) \/ Awaits(r, n)
          PROVE  Holds(d, n)'
        <3>1. op[r].pc \notin {"open", "abandon"}
            BY <1>2 DEF CommitOK
        <3> QED
            BY <2>1, <3>1, Zenon DEF Holds, Awaits, engine
    <2> QED
        BY <1>2, <1>4, <2>1, ScratchesFrame
<1>9. CacheOK'
    BY <1>2, Zenon DEF CacheOK, engine
<1> QED
    BY <1>3, <1>4, <1>5, <1>6, <1>7, <1>8, <1>9, StepKeepsSerial DEF engine

LEMMA UnlinkOne ==
    ASSUME TypeOK, NEW n \in 0 .. Len(scratches), scratches' = Unlinked(n)
    PROVE  \A m \in DOMAIN scratches' : scratches'[m].exists =>
              m \in DOMAIN scratches /\ scratches[m].exists /\ (n # 0 => m # n)
<1>1. /\ \A m \in 1 .. Len(scratches) : scratches[m] \in Scratch
      /\ DOMAIN scratches = 1 .. Len(scratches) /\ Len(scratches) \in Nat
    BY Tables
<1>2. CASE n = 0
    BY <1>2 DEF Unlinked
<1>3. CASE n # 0
    <2>1. n \in DOMAIN scratches /\ scratches' = [scratches EXCEPT ![n].exists = FALSE]
        BY <1>1, <1>3 DEF Unlinked
    <2>2. DOMAIN scratches' = DOMAIN scratches /\ ~scratches'[n].exists
        BY <1>1, <2>1 DEF Scratch
    <2>3. \A m \in DOMAIN scratches : m # n => scratches'[m] = scratches[m]
        BY <2>1
    <2> QED
        BY <2>2, <2>3, Zenon
<1> QED
    BY <1>2, <1>3

\* The close has completed, or has failed and the unmount gives up.
LEMMA CloseKeepsSerial ==
    ASSUME OneAtATime, IndInv, SerialInv, NEW r \in Req, HandleClosed(r) \/ CloseFails(r)
    PROVE  SerialInv'
<1> DEFINE o == op[r]
<1>1. PICK d \in Drive : d = o.drive
    BY DEF IndInv, TypeOK, Operation
<1>2. /\ o \in Operation /\ TypeOK /\ drives \in [Drive -> DriveState]
      /\ op \in [Req -> Operation] /\ guest.drive \in Drive /\ OperationOK(o)
      /\ fileHandles \in [Drive -> 0 .. Len(handles)] /\ drives[d] \in DriveState
    BY DEF IndInv, TypeOK, Guest, References
<1>3. /\ o.pc = "close" /\ ~InFlight(o.handle)
      /\ fileHandles' = [fileHandles EXCEPT ![d] = 0]
      /\ drives' = drives /\ handles' = handles /\ mountRegistry' = mountRegistry
      /\ scratches' = scratches /\ guest' = guest /\ cached' = cached
    BY <1>1, Zenon DEF HandleClosed, CloseFails, Resumes, files, fdc
<1>4. BusyOK(r) /\ Owned /\ ScratchesAccounted /\ CacheOK
    <2>1. op[r].pc # "idle"
        BY <1>3
    <2>2. op[r].kind # "commit"
        <3>1. ASSUME op[r].kind = "commit" PROVE FALSE
            BY <1>1, <1>3, <2>1, <3>1, BusyStep DEF CommitOK
        <3> QED
            BY <3>1
    <2> QED
        BY <1>1, <2>1, <2>2, BusyStep
<1>5. /\ o.handle # 0 /\ fileHandles[d] = o.handle /\ drives[d].mounted
      /\ ~handles[o.handle].open /\ ~o.path.scratch
      /\ ScratchOK(d) /\ o.kind \in {"mount", "unmount", "protect"}
      /\ o.kind = "unmount" => Described(d)
      /\ o.kind \in {"mount", "unmount"} => (drives[d].mounted => o.swap)
      /\ o.kind = "protect" =>
            /\ drives[d].mounted /\ drives[d].filename = o.image /\ drives[d].readonly = o.flag
    BY <1>1, <1>3, <1>4, SMT DEF BusyOK
<1>6. /\ fileHandles'[d] = 0 /\ \A e \in Drive \ {d} : fileHandles'[e] = fileHandles[e]
    BY <1>2, <1>3
<1>7. Owned'
    BY <1>3, <1>4, <1>5, <1>6, OwnedFrame
<1>8. ScratchOK(d)'
    BY <1>3, <1>5, Zenon DEF ScratchOK
<1>9. Described(d) => Described(d)'
    BY <1>3, <1>8, Zenon DEF Described
<1>10. CASE HandleClosed(r)
    <2>1. op' = [op EXCEPT ![r].pc = "discard", ![r].doomed = drives[d].scratchPath]
        BY <1>1, <1>10 DEF HandleClosed
    <2>2. /\ op'[r].pc = "discard" /\ op'[r].doomed = drives[d].scratchPath
          /\ op'[r].kind = o.kind /\ op'[r].drive = d /\ op'[r].image = o.image
          /\ op'[r].flag = o.flag /\ op'[r].swap = o.swap /\ op'[r].path = o.path
        BY <1>1, <1>2, <2>1 DEF Operation
    <2>3. BusyOK(r)'
        BY <1>3, <1>5, <1>6, <1>8, <1>9, <2>2, SMT DEF BusyOK
    <2>4. StepAt(r, d)
        BY <1>1, <1>3, <1>6, <2>2, Zenon DEF StepAt
    <2>5. ScratchesAccounted'
        <3>1. ASSUME NEW n \in DOMAIN scratches, Holds(d, n) \/ Awaits(r, n)
              PROVE  Holds(d, n)'
            <4>1. ~Awaits(r, n)
                BY <1>3 DEF Awaits
            <4> QED
                BY <1>3, <3>1, <4>1, Zenon DEF Holds
        <3> QED
            BY <1>3, <1>4, <2>4, <3>1, ScratchesFrame
    <2>6. ~(guest.pc = "read" /\ guest.drive = d)
        BY <1>3, <1>4, <1>5 DEF CacheOK, InFlight
    <2>7. CacheOK'
        <3>1. \/ drives'[d].swapWindow \/ cached[d].image = NoImage
              \/ drives'[d].mounted /\ cached[d].image = drives'[d].filename
            BY <1>3, <1>4, Zenon DEF CacheOK
        <3> QED
            BY <1>2, <1>3, <1>4, <2>4, <2>6, <3>1, CacheFrame
    <2>8. op'[r].kind # "commit" /\ op'[r].pc # "idle"
        BY <1>5, <2>2
    <2> QED
        BY <1>3, <1>7, <2>3, <2>4, <2>5, <2>7, <2>8, StepKeepsSerial
<1>11. CASE CloseFails(r)
    <2>1. op' = [op EXCEPT ![r] = NoOperation] /\ o.kind = "unmount"
        BY <1>11 DEF CloseFails, Finished
    <2>2. op'[r].pc = "idle"
        BY <1>2, <2>1 DEF NoOperation
    <2>3. QuietOK(d)'
        BY <1>5, <1>6, <1>9, <2>1, Zenon DEF QuietOK
    <2>4. StepAt(r, d)
        BY <1>1, <1>3, <1>6, <2>2, Zenon DEF StepAt
    <2>5. ScratchesAccounted'
        <3>1. ASSUME NEW n \in DOMAIN scratches, Holds(d, n) \/ Awaits(r, n)
              PROVE  Holds(d, n)'
            <4>1. ~Awaits(r, n)
                BY <1>3 DEF Awaits
            <4> QED
                BY <1>3, <3>1, <4>1, Zenon DEF Holds
        <3> QED
            BY <1>3, <1>4, <2>4, <3>1, ScratchesFrame
    <2>6. ~(guest.pc = "read" /\ guest.drive = d)
        BY <1>3, <1>4, <1>5 DEF CacheOK, InFlight
    <2>7. CacheOK'
        <3>1. \/ drives'[d].swapWindow \/ cached[d].image = NoImage
              \/ drives'[d].mounted /\ cached[d].image = drives'[d].filename
            BY <1>3, <1>4, Zenon DEF CacheOK
        <3> QED
            BY <1>2, <1>3, <1>4, <2>4, <2>6, <3>1, CacheFrame
    <2> QED
        BY <1>3, <1>7, <2>2, <2>3, <2>4, <2>5, <2>7, StepKeepsSerial
<1> QED
    BY <1>10, <1>11

\* The scratch of the drive is gone.
LEMMA DiscardKeepsSerial ==
    ASSUME OneAtATime, IndInv, SerialInv, NEW r \in Req, ScratchDiscarded(r)
    PROVE  SerialInv'
<1>1. PICK d \in Drive : d = op[r].drive
    BY DEF IndInv, TypeOK, Operation
<1>2. PICK o \in Operation : o = op[r]
    BY DEF IndInv, TypeOK
<1>3. /\ TypeOK /\ drives \in [Drive -> DriveState] /\ op \in [Req -> Operation]
      /\ OperationOK(o) /\ drives[d] \in DriveState /\ mountRegistry \in [Drive -> MountEntry]
    BY <1>2 DEF IndInv, TypeOK, References
<1>4. /\ o.pc = "discard" /\ scratches' = Unlinked(o.doomed)
      /\ fileHandles' = fileHandles /\ handles' = handles /\ guest' = guest /\ cached' = cached
    BY <1>2, Zenon DEF ScratchDiscarded, Resumes, fdc
<1>5. BusyOK(r) /\ Owned /\ ScratchesAccounted /\ CacheOK
    <2>1. op[r].pc # "idle"
        BY <1>2, <1>4
    <2>2. op[r].kind # "commit"
        <3>1. ASSUME op[r].kind = "commit" PROVE FALSE
            BY <1>1, <1>2, <1>4, <2>1, <3>1, BusyStep DEF CommitOK
        <3> QED
            BY <3>1
    <2> QED
        BY <1>1, <2>1, <2>2, BusyStep
<1>6. /\ fileHandles[d] = 0 /\ o.doomed = drives[d].scratchPath /\ ~o.path.scratch
      /\ ScratchOK(d) /\ o.kind \in {"mount", "unmount", "protect"}
      /\ o.kind = "unmount" => Described(d)
      /\ o.kind \in {"mount", "unmount"} => (drives[d].mounted => o.swap)
      /\ o.kind = "protect" =>
            /\ drives[d].mounted /\ drives[d].filename = o.image /\ drives[d].readonly = o.flag
    BY <1>1, <1>2, <1>4, <1>5, SMT DEF BusyOK
<1>7. PICK s \in DriveState : s = WithoutScratch(drives[d])
    BY <1>3 DEF WithoutScratch, DriveState
<1>8. /\ s.scratchPath = 0 /\ ~s.transient /\ s.mounted = drives[d].mounted
      /\ s.filename = drives[d].filename /\ s.readonly = drives[d].readonly
      /\ s.swapWindow = drives[d].swapWindow
    BY <1>3, <1>7 DEF WithoutScratch, DriveState
<1>9. ASSUME NEW p \in Operation, op' = [op EXCEPT ![r] = p], p.pc = "idle" \/ p.drive = d,
             NEW e \in DriveState, drives' = [drives EXCEPT ![d] = e],
             \A c \in Drive \ {d} : mountRegistry'[c] = mountRegistry[c]
      PROVE  ScratchesAccounted'
    <2>1. o.doomed \in 0 .. Len(scratches)
        BY <1>3 DEF OperationOK
    <2>2. \A m \in DOMAIN scratches' : scratches'[m].exists =>
             m \in DOMAIN scratches /\ scratches[m].exists /\ (o.doomed # 0 => m # o.doomed)
        BY <1>3, <1>4, <2>1, UnlinkOne
    <2>3. op'[r] = p /\ \A c \in Drive \ {d} : drives'[c] = drives[c]
        BY <1>3, <1>9
    <2>4. StepAt(r, d)
        BY <1>1, <1>4, <1>9, <2>3, Zenon DEF StepAt
    <2>5. ASSUME NEW n \in DOMAIN scratches, scratches'[n].exists, Holds(d, n) \/ Awaits(r, n)
          PROVE  FALSE
        <3>1. ~Awaits(r, n)
            BY <1>2, <1>4 DEF Awaits
        <3>2. n = o.doomed /\ n \in 1 .. Len(scratches)
            BY <1>3, <1>6, <2>5, <3>1, Tables DEF Holds
        <3>3. o.doomed # 0
            BY <3>2
        <3>4. n \in DOMAIN scratches'
            BY <1>3, <1>4, <2>1, <3>2, <3>3, Tables DEF Unlinked
        <3> QED
            BY <2>2, <2>5, <3>2, <3>3, <3>4
    <2> QED
        BY <1>5, <2>2, <2>4, <2>5, ScratchesFrame
<1>10. ASSUME o.kind = "mount", drives' = [drives EXCEPT ![d] = [s EXCEPT !.swapWindow = @ \/ o.swap]],
              op' = [op EXCEPT ![r].pc = "access"], mountRegistry' = mountRegistry
       PROVE  SerialInv'
    <2>1. PICK e \in DriveState : e = [s EXCEPT !.swapWindow = @ \/ o.swap]
        BY DEF DriveState, Operation
    <2>2. /\ e.scratchPath = 0 /\ ~e.transient /\ e.mounted = drives[d].mounted
          /\ e.filename = drives[d].filename /\ e.readonly = drives[d].readonly
          /\ e.swapWindow = (drives[d].swapWindow \/ o.swap)
        BY <1>8, <2>1 DEF DriveState
    <2>3. PICK p \in Operation : p = [o EXCEPT !.pc = "access"]
        BY DEF Operation, Pc
    <2>4. /\ p.pc = "access" /\ p.kind = "mount" /\ p.drive = d /\ p.image = o.image
          /\ ~p.path.scratch
        BY <1>1, <1>2, <1>6, <1>10, <2>3 DEF Operation
    <2>5. drives' = [drives EXCEPT ![d] = e] /\ op' = [op EXCEPT ![r] = p]
        BY <1>2, <1>3, <1>10, <2>1, <2>3
    <2>6. drives'[d] = e /\ op'[r] = p /\ fileHandles'[d] = 0
        BY <1>3, <1>4, <1>6, <2>5
    <2>7. drives[d].mounted => e.swapWindow
        BY <1>6, <1>10, <2>2, Zenon
    <2>8. BusyOK(r)'
        <3>1. ScratchOK(d)'
            BY <2>2, <2>6, Zenon DEF ScratchOK
        <3>2. ~drives'[d].transient /\ (drives'[d].mounted => drives'[d].swapWindow)
            BY <2>2, <2>6, <2>7, Zenon
        <3> QED
            BY <2>4, <2>6, <3>1, <3>2, SMT DEF BusyOK
    <2>9. \/ e.swapWindow
          \/ ~e.swapWindow /\ ~drives[d].swapWindow /\ ~drives[d].mounted
        BY <2>2, <2>7, Zenon
    <2>10. ScratchesAccounted'
        BY <1>9, <1>10, <2>4, <2>5
    <2>11. op[r].pc # "idle" /\ p.pc # "idle" /\ p.kind # "commit"
        BY <1>2, <1>4, <2>4
    <2> QED
        BY <1>1, <1>4, <1>6, <1>10, <2>4, <2>5, <2>8, <2>9, <2>10, <2>11, ClosedStepKeepsSerial, ZenonT(60)
<1>11. ASSUME o.kind = "unmount",
              drives' = [drives EXCEPT ![d] = [s EXCEPT !.filename = NoImage, !.mounted = FALSE,
                                                 !.swapWindow = @ \/ o.swap]],
              op' = [op EXCEPT ![r] = NoOperation],
              mountRegistry' = [mountRegistry EXCEPT ![d] = NotMounted]
       PROVE  SerialInv'
    <2>1. PICK e \in DriveState : e = [s EXCEPT !.filename = NoImage, !.mounted = FALSE,
                                                 !.swapWindow = @ \/ o.swap]
        BY DEF DriveState, Operation
    <2>2. /\ e.scratchPath = 0 /\ ~e.transient /\ ~e.mounted
          /\ e.swapWindow = (drives[d].swapWindow \/ o.swap)
        BY <1>8, <2>1 DEF DriveState
    <2>3. NoOperation \in Operation /\ NoOperation.pc = "idle"
        BY IdleTypes DEF NoOperation
    <2>5. drives' = [drives EXCEPT ![d] = e]
        BY <1>11, <2>1
    <2>6. drives'[d] = e /\ fileHandles'[d] = 0
        BY <1>3, <1>4, <1>6, <2>5
    <2>7. \A c \in Drive \ {d} : mountRegistry'[c] = mountRegistry[c]
        BY <1>3, <1>11
    <2>8. QuietOK(d)'
        <3>1. ScratchOK(d)'
            BY <2>2, <2>6, Zenon DEF ScratchOK
        <3> QED
            BY <2>2, <2>6, <3>1, Zenon DEF QuietOK, Described
    <2>9. \/ e.swapWindow
          \/ ~e.swapWindow /\ ~drives[d].swapWindow /\ ~drives[d].mounted
        BY <1>6, <1>11, <2>2, Zenon
    <2>10. ScratchesAccounted'
        BY <1>9, <1>11, <2>3, <2>5, <2>7
    <2>11. op[r].pc # "idle"
        BY <1>2, <1>4
    <2> QED
        <3>1. op' = [op EXCEPT ![r] = NoOperation] /\ UNCHANGED <<fileHandles, handles, guest, cached>>
            BY <1>4, <1>11
        <3> QED
            BY <1>1, <1>6, <2>3, <2>5, <2>7, <2>8, <2>9, <2>10, <2>11, <3>1, ClosedStepKeepsSerial
<1>12. ASSUME o.kind = "protect", drives' = [drives EXCEPT ![d] = s],
              op' = [op EXCEPT ![r].pc = IF o.flag THEN "policy" ELSE "open",
                               ![r].path = Master(o.image), ![r].rw = TRUE],
              mountRegistry' = mountRegistry
       PROVE  SerialInv'
    <2>3. PICK p \in Operation : p = [o EXCEPT !.pc = IF o.flag THEN "policy" ELSE "open",
                                               !.path = Master(o.image), !.rw = TRUE]
        BY DEF Operation, Pc, Path, Master
    <2>4. /\ p.pc = IF o.flag THEN "policy" ELSE "open"
          /\ p.kind = "protect" /\ p.drive = d /\ p.image = o.image /\ p.flag = o.flag
          /\ p.path = Master(o.image) /\ p.rw
        BY <1>1, <1>2, <1>12, <2>3 DEF Operation
    <2>5. op' = [op EXCEPT ![r] = p]
        BY <1>2, <1>3, <1>12, <2>3
    <2>6. drives'[d] = s /\ op'[r] = p /\ fileHandles'[d] = 0
        BY <1>3, <1>4, <1>6, <1>12, <2>5
    <2>7. ~p.path.scratch /\ p.path.image = p.image
        BY <2>4 DEF Master
    <2>8. BusyOK(r)'
        <3>1. ScratchOK(d)'
            BY <1>8, <2>6, Zenon DEF ScratchOK
        <3>2. /\ ~drives'[d].transient /\ drives'[d].mounted /\ drives'[d].filename = p.image
              /\ drives'[d].readonly = p.flag
            BY <1>6, <1>8, <1>12, <2>4, <2>6, ZenonT(30)
        <3>3. p.pc = "policy" => drives'[d].readonly
            BY <2>4, <3>2
        <3> QED
            BY <2>4, <2>6, <2>7, <3>1, <3>2, <3>3, SMT DEF BusyOK
    <2>10. ScratchesAccounted'
        BY <1>9, <1>12, <2>4, <2>5
    <2>11. op[r].pc # "idle" /\ p.pc # "idle" /\ p.kind # "commit"
        BY <1>2, <1>4, <2>4
    <2> QED
        BY <1>1, <1>4, <1>6, <1>8, <1>12, <2>4, <2>5, <2>8, <2>10, <2>11, ClosedStepKeepsSerial
<1> QED
    BY <1>1, <1>2, <1>7, <1>10, <1>11, <1>12, Zenon DEF ScratchDiscarded, Finished

\* A request that has found, asked or copied something goes on without touching the
\* drive.
LEMMA LookupKeepsSerial ==
    ASSUME OneAtATime, IndInv, SerialInv, NEW r \in Req,
           ImageFound(r) \/ PolicyAnswered(r) \/ ScratchCreated(r)
    PROVE  SerialInv'
<1>1. PICK d \in Drive : d = op[r].drive
    BY DEF IndInv, TypeOK, Operation
<1>2. PICK o \in Operation : o = op[r]
    BY DEF IndInv, TypeOK
<1>3. /\ TypeOK /\ drives \in [Drive -> DriveState] /\ op \in [Req -> Operation]
      /\ OperationOK(o) /\ drives[d] \in DriveState
    BY <1>2 DEF IndInv, TypeOK, References
<1>4. /\ o.pc \in {"access", "policy", "scratch"}
      /\ drives' = drives /\ mountRegistry' = mountRegistry
      /\ fileHandles' = fileHandles /\ handles' = handles /\ guest' = guest /\ cached' = cached
    <2>1. op[r].pc = "access" \/ op[r].pc = "policy" \/ op[r].pc = "scratch"
        BY Zenon DEF ImageFound, PolicyAnswered, ScratchCreated, Resumes
    <2>2. /\ drives' = drives /\ mountRegistry' = mountRegistry
          /\ fileHandles' = fileHandles /\ handles' = handles /\ guest' = guest /\ cached' = cached
        BY Zenon DEF ImageFound, PolicyAnswered, ScratchCreated, engine, fdc
    <2> QED
        BY <1>2, <2>1, <2>2
<1>5. BusyOK(r) /\ Owned /\ ScratchesAccounted /\ CacheOK
    <2>1. op[r].pc # "idle"
        BY <1>2, <1>4
    <2>2. op[r].kind # "commit"
        <3>1. ASSUME op[r].kind = "commit" PROVE FALSE
            BY <1>1, <1>2, <1>4, <2>1, <3>1, BusyStep DEF CommitOK
        <3> QED
            BY <3>1
    <2> QED
        BY <1>1, <2>1, <2>2, BusyStep
<1>6. /\ fileHandles[d] = 0 /\ ScratchOK(d) /\ ~drives[d].transient
      /\ o.kind \in {"mount", "protect"}
      /\ o.kind = "mount" => (drives[d].mounted => drives[d].swapWindow)
      /\ o.kind = "protect" =>
            /\ drives[d].mounted /\ drives[d].filename = o.image /\ drives[d].readonly = o.flag
      /\ o.pc \in {"policy", "scratch"} => drives[d].readonly
      /\ o.pc = "policy" => o.path = Master(o.image)
    BY <1>1, <1>2, <1>3, <1>4, <1>5, SMT DEF BusyOK, OperationOK
<1>7. ASSUME NEW p \in Operation, op' = [op EXCEPT ![r] = p], p.kind = o.kind, p.drive = d,
             p.image = o.image, p.flag = o.flag, p.pc \in {"policy", "scratch", "open"},
             p.pc \in {"policy", "scratch"} => drives[d].readonly,
             p.pc = "policy" => p.path = Master(p.image),
             p.pc = "open" => /\ p.path.scratch => drives[d].readonly /\ p.path.number # 0
                              /\ p.path.image = p.image
                              /\ ~drives[d].readonly => p.rw,
             ScratchesAccounted'
      PROVE  SerialInv'
    <2>1. op'[r] = p /\ fileHandles'[d] = 0
        BY <1>3, <1>4, <1>6, <1>7
    <2>2. BusyOK(r)'
        <3>1. ScratchOK(d)'
            BY <1>4, <1>6, Zenon DEF ScratchOK
        <3> QED
            BY <1>4, <1>6, <1>7, <2>1, <3>1, SMT DEF BusyOK
    <2>3. drives' = [drives EXCEPT ![d] = drives[d]]
        BY <1>3, <1>4
    <2>4. op[r].pc # "idle" /\ p.pc # "idle" /\ p.kind # "commit"
        BY <1>2, <1>4, <1>6, <1>7
    <2> QED
        BY <1>1, <1>3, <1>4, <1>6, <1>7, <2>2, <2>3, <2>4, ClosedStepKeepsSerial
<1>8. ASSUME NEW p \in Operation, op' = [op EXCEPT ![r] = p], p.drive = d,
             scratches' = scratches
      PROVE  ScratchesAccounted'
    <2>1. op'[r] = p
        BY <1>3, <1>8
    <2>2. StepAt(r, d)
        BY <1>1, <1>4, <1>8, <2>1, Zenon DEF StepAt
    <2>3. ASSUME NEW n \in DOMAIN scratches, Holds(d, n) \/ Awaits(r, n)
          PROVE  FALSE
        BY <1>2, <1>4, <1>6, <2>3 DEF Holds, Awaits
    <2> QED
        BY <1>5, <1>8, <2>2, <2>3, ScratchesFrame
<1>9. CASE ImageFound(r)
    <2>1. PICK p \in Operation :
             p = [o EXCEPT !.pc = IF drives[d].readonly THEN "policy" ELSE "open",
                           !.path = Master(o.image), !.rw = TRUE]
        BY DEF Operation, Pc, Path, Master
    <2>2. /\ p.pc = IF drives[d].readonly THEN "policy" ELSE "open"
          /\ p.kind = o.kind /\ p.drive = d /\ p.image = o.image /\ p.flag = o.flag
          /\ p.path = Master(o.image) /\ p.rw
        BY <1>1, <1>2, <2>1 DEF Operation
    <2>3. op' = [op EXCEPT ![r] = p] /\ scratches' = scratches
        BY <1>1, <1>2, <1>3, <1>9, <2>1 DEF ImageFound, files
    <2>4. ~p.path.scratch /\ p.path.image = p.image
        BY <2>2 DEF Master
    <2>5. p.pc \in {"policy", "scratch"} => drives[d].readonly
        BY <2>2
    <2> QED
        BY <1>7, <1>8, <2>2, <2>3, <2>4, <2>5
<1>10. CASE PolicyAnswered(r)
    <2>1. o.pc = "policy" /\ scratches' = scratches
        BY <1>2, <1>10 DEF PolicyAnswered, Resumes, files
    <2>2. drives[d].readonly /\ o.path = Master(o.image)
        BY <1>6, <2>1
    <2>3. ~o.path.scratch /\ o.path.image = o.image
        BY <2>2 DEF Master
    <2>4. CASE op' = [op EXCEPT ![r].pc = "scratch"]
        <3>1. PICK p \in Operation : p = [o EXCEPT !.pc = "scratch"]
            BY DEF Operation, Pc
        <3>2. /\ p.pc = "scratch" /\ p.kind = o.kind /\ p.drive = d /\ p.image = o.image
              /\ p.flag = o.flag
            BY <1>1, <1>2, <3>1 DEF Operation
        <3>3. op' = [op EXCEPT ![r] = p]
            BY <1>2, <1>3, <2>4, <3>1
        <3> QED
            BY <1>7, <1>8, <2>1, <2>2, <3>2, <3>3
    <2>5. CASE op' = [op EXCEPT ![r].pc = "open",
                               ![r].rw = op[r].kind = "mount"
                                         /\ ~drives[op[r].drive].readonly]
        <3> DEFINE w == o.kind = "mount" /\ ~drives[d].readonly
        <3>1. PICK p \in Operation : p = [o EXCEPT !.pc = "open", !.rw = w]
            BY DEF Operation, Pc
        <3>2. /\ p.pc = "open" /\ p.kind = o.kind /\ p.drive = d /\ p.image = o.image
              /\ p.flag = o.flag /\ p.path = o.path
            BY <1>1, <1>2, <3>1 DEF Operation
        <3>3. op' = [op EXCEPT ![r] = p]
            BY <1>1, <1>2, <1>3, <2>5, <3>1
        <3> QED
            BY <1>7, <1>8, <2>1, <2>2, <2>3, <3>2, <3>3
    <2> QED
        BY <1>10, <2>4, <2>5, Zenon DEF PolicyAnswered
<1>11. CASE ScratchCreated(r)
    <2> DEFINE f == o.image
    <2>1. o.pc = "scratch" /\ f \in Image
        BY <1>2, <1>3, <1>6, <1>11 DEF ScratchCreated, Resumes, OperationOK
    <2>2. PICK x \in Scratch : x = [stamp |-> images[f], saved |-> images[f], exists |-> TRUE]
        BY <1>3, <2>1 DEF TypeOK, Scratch
    <2>3. PICK p \in Operation : p = [o EXCEPT !.pc = "open",
                                               !.path = ScratchFile(Len(scratches) + 1, f), !.rw = TRUE]
        <3>1. Len(scratches) + 1 \in Nat
            BY <1>3, Tables
        <3> QED
            BY <2>1, <3>1 DEF Operation, Pc, Path, ScratchFile
    <2>4. /\ p.pc = "open" /\ p.kind = o.kind /\ p.drive = d /\ p.image = o.image
          /\ p.flag = o.flag /\ p.path = ScratchFile(Len(scratches) + 1, f) /\ p.rw
        BY <1>1, <1>2, <2>3 DEF Operation
    <2>5. op' = [op EXCEPT ![r] = p] /\ scratches' = Append(scratches, x)
        BY <1>2, <1>3, <1>11, <2>2, <2>3 DEF ScratchCreated
    <2>6. Len(scratches) \in Nat /\ DOMAIN scratches = 1 .. Len(scratches) /\ scratches \in Seq(Scratch)
        BY <1>3, Tables DEF TypeOK
    <2>7. /\ p.path.scratch /\ p.path.number = Len(scratches) + 1 /\ p.path.number # 0
          /\ p.path.image = p.image
        BY <2>4, <2>6 DEF ScratchFile
    <2>8. ScratchesAccounted'
        <3> SUFFICES ASSUME NEW n \in DOMAIN scratches', scratches'[n].exists
                     PROVE  (\E e \in Drive : Holds(e, n)') \/ (\E q \in Req : Awaits(q, n)')
            BY Zenon DEF ScratchesAccounted, Holds, Awaits
        <3>1. op'[r] = p
            BY <1>3, <2>5
        <3>2. CASE n = Len(scratches) + 1
            BY <2>4, <2>7, <3>1, <3>2 DEF Awaits
        <3>3. CASE n # Len(scratches) + 1
            <4>1. n \in DOMAIN scratches /\ scratches'[n] = scratches[n]
                BY <2>2, <2>5, <2>6, <3>3, AppendProperties
            <4>2. (\E e \in Drive : Holds(e, n)) \/ (\E q \in Req : Awaits(q, n))
                BY <1>5, <4>1, Zenon DEF ScratchesAccounted, Holds, Awaits
            <4>3. ASSUME NEW q \in Req PROVE ~Awaits(q, n)
                BY <1>2, <1>4, Zenon DEF OneAtATime, Awaits
            <4>4. \A e \in Drive : Holds(e, n) => Holds(e, n)'
                BY <1>4, Zenon DEF Holds
            <4> QED
                BY <4>2, <4>3, <4>4, Zenon
        <3> QED
            BY <3>2, <3>3
    <2>9. drives[d].readonly
        BY <1>6, <2>1
    <2> HIDE DEF f
    <2> QED
        BY <1>7, <2>4, <2>5, <2>7, <2>8, <2>9
<1> QED
    BY <1>9, <1>10, <1>11

\* The new handle is the drive's, and the drive describes it.
LEMMA OpenedKeepsSerial ==
    ASSUME OneAtATime, IndInv, SerialInv, NEW r \in Req, Opened(r)
    PROVE  SerialInv'
<1>1. PICK d \in Drive : d = op[r].drive
    BY DEF IndInv, TypeOK, Operation
<1>2. PICK o \in Operation : o = op[r]
    BY DEF IndInv, TypeOK
<1>3. /\ TypeOK /\ drives \in [Drive -> DriveState] /\ op \in [Req -> Operation]
      /\ OperationOK(o) /\ drives[d] \in DriveState /\ mountRegistry \in [Drive -> MountEntry]
      /\ guest.drive \in Drive /\ fileHandles \in [Drive -> 0 .. Len(handles)]
      /\ RegistryNamesMountedImage
    BY <1>2 DEF IndInv, TypeOK, References, Guest
<1>4. /\ o.pc = "open" /\ op' = [op EXCEPT ![r] = NoOperation]
      /\ scratches' = scratches /\ guest' = guest /\ cached' = cached
    BY <1>2, Zenon DEF Opened, Resumes, Finished, files, fdc
<1>5. BusyOK(r) /\ Owned /\ ScratchesAccounted /\ CacheOK
    <2>1. op[r].pc # "idle"
        BY <1>2, <1>4
    <2>2. op[r].kind # "commit"
        <3>1. ASSUME op[r].kind = "commit" PROVE FALSE
            BY <1>1, <1>2, <1>4, <2>1, <3>1, BusyStep DEF CommitOK
        <3> QED
            BY <3>1
    <2> QED
        BY <1>1, <2>1, <2>2, BusyStep
<1>6. /\ fileHandles[d] = 0 /\ ~drives[d].transient
      /\ o.kind \in {"mount", "protect"}
      /\ o.kind = "mount" => (drives[d].mounted => drives[d].swapWindow)
      /\ o.kind = "protect" =>
            /\ drives[d].mounted /\ drives[d].filename = o.image /\ drives[d].readonly = o.flag
      /\ o.path.scratch => drives[d].readonly /\ o.path.number # 0
      /\ o.path.image = o.image
      /\ ~drives[d].readonly => o.rw
      /\ o.image \in Image
    BY <1>1, <1>2, <1>3, <1>4, <1>5, SMT DEF BusyOK, OperationOK
<1>7. PICK p \in Path : p = o.path
    BY DEF Operation
<1>8. /\ p.scratch \in BOOLEAN /\ p.number \in Nat /\ (p.scratch <=> p.number # 0)
      /\ p.image = o.image
      /\ p = IF p.scratch THEN ScratchFile(p.number, o.image) ELSE Master(o.image)
    <2>1. p.scratch \in BOOLEAN /\ p.number \in Nat /\ (p.scratch <=> p.number # 0)
        BY <1>3, <1>6, <1>7 DEF Path, OperationOK, FileRef
    <2> QED
        BY <1>6, <1>7, <2>1 DEF Path, ScratchFile, Master
<1>9. PICK h \in Handle : h = [path |-> p, rw |-> o.rw, open |-> TRUE, orphan |-> FALSE]
    BY DEF Handle, Operation
<1>10. /\ h.path = p /\ h.rw = o.rw /\ h.open /\ ~h.orphan
    BY <1>9
<1>11. PICK k \in Nat : k = Len(handles) + 1
    BY <1>3, Tables
<1>12. handles' = Append(handles, h) /\ fileHandles' = [fileHandles EXCEPT ![d] = k]
    BY <1>1, <1>2, <1>7, <1>9, <1>11 DEF Opened
<1>13. /\ DOMAIN handles = 1 .. Len(handles) /\ DOMAIN handles' = 1 .. k
       /\ \A i \in 1 .. Len(handles) : handles'[i] = handles[i]
       /\ handles'[k] = h /\ k \notin 1 .. Len(handles) /\ k # 0
       /\ \A i \in 1 .. k : i # k => i \in 1 .. Len(handles)
       /\ \A e \in Drive : fileHandles[e] # k
    <2>1. handles \in Seq(Handle) /\ Len(handles) \in Nat /\ DOMAIN handles = 1 .. Len(handles)
        BY <1>3, Tables DEF TypeOK
    <2>2. /\ Len(handles') = k /\ handles'[k] = h /\ handles' \in Seq(Handle)
          /\ \A i \in 1 .. Len(handles) : handles'[i] = handles[i]
        BY <1>11, <1>12, <2>1, AppendProperties
    <2>3. DOMAIN handles' = 1 .. k
        BY <2>2, LenProperties
    <2>4. /\ k \notin 1 .. Len(handles) /\ k # 0
          /\ \A i \in 1 .. k : i # k => i \in 1 .. Len(handles)
        BY <1>11, <2>1
    <2>5. \A e \in Drive : fileHandles[e] # k
        BY <1>3, <1>11, <2>1
    <2> QED
        BY <2>1, <2>2, <2>3, <2>4, <2>5
<1>14. fileHandles'[d] = k /\ \A e \in Drive \ {d} : fileHandles'[e] = fileHandles[e]
    BY <1>3, <1>12
<1>15. Owned'
    <2>1. ASSUME NEW a \in Drive, NEW b \in Drive, fileHandles'[a] # 0,
                 fileHandles'[a] = fileHandles'[b]
          PROVE  a = b
        <3>1. CASE a = d /\ b # d
            BY <1>13, <1>14, <2>1, <3>1
        <3>2. CASE a # d /\ b = d
            BY <1>13, <1>14, <2>1, <3>2
        <3>3. CASE a # d /\ b # d
            <4>1. fileHandles[a] # 0 /\ fileHandles[a] = fileHandles[b]
                BY <1>14, <2>1, <3>3
            <4> QED
                BY <1>5, <4>1, Zenon DEF Owned
        <3> QED
            BY <3>1, <3>2, <3>3
    <2>2. ASSUME NEW i \in DOMAIN handles', handles'[i].open
          PROVE  \E e \in Drive : fileHandles'[e] = i
        <3>1. CASE i = k
            BY <1>14, <3>1
        <3>2. CASE i # k
            <4>1. i \in DOMAIN handles /\ handles'[i] = handles[i]
                BY <1>13, <3>2
            <4>2. PICK e \in Drive : fileHandles[e] = i
                BY <1>5, <2>2, <4>1, Zenon DEF Owned
            <4>3. i # 0
                BY <1>13, <4>1
            <4>4. e # d
                BY <1>6, <4>2, <4>3
            <4> QED
                BY <1>14, <4>2, <4>4
        <3> QED
            BY <3>1, <3>2
    <2> QED
        BY <2>1, <2>2, Zenon DEF Owned
<1> DEFINE Becomes(s) ==
              /\ drives' = [drives EXCEPT ![d] = s]
              /\ s.mounted /\ s.filename = o.image /\ s.readonly = drives[d].readonly
              /\ s.transient = p.scratch /\ s.scratchPath = p.number
              /\ s.swapWindow = drives[d].swapWindow
              /\ \A e \in Drive \ {d} : mountRegistry'[e] = mountRegistry[e]
              /\ mountRegistry'[d] = [filename |-> o.image, readonly |-> drives[d].readonly]
<1>16. \E s \in DriveState : Becomes(s)
    <2>6. p.scratch \in BOOLEAN /\ p.number \in Nat /\ drives[d] \in DriveState
        BY <1>3, <1>8
    <2>1. PICK x \in DriveState : x = [drives[d] EXCEPT !.transient = p.scratch,
                                              !.scratchPath = p.number, !.dirty = FALSE]
        BY <2>6 DEF DriveState
    <2>2. /\ x.transient = p.scratch /\ x.scratchPath = p.number
          /\ x.mounted = drives[d].mounted /\ x.filename = drives[d].filename
          /\ x.readonly = drives[d].readonly /\ x.swapWindow = drives[d].swapWindow
        BY <1>3, <2>1 DEF DriveState
    <2>3. \/ /\ o.kind = "mount"
             /\ drives' = [drives EXCEPT ![d] = [x EXCEPT !.filename = o.image, !.mounted = TRUE]]
             /\ mountRegistry' = [mountRegistry EXCEPT ![d] =
                                     [filename |-> o.image, readonly |-> drives[d].readonly]]
          \/ /\ o.kind = "protect"
             /\ drives' = [drives EXCEPT ![d] = x]
             /\ mountRegistry' = WithFlag(d, o.flag)
        BY <1>1, <1>2, <1>7, <2>1, Zenon DEF Opened
    <2>4. ASSUME o.kind = "mount",
                 drives' = [drives EXCEPT ![d] = [x EXCEPT !.filename = o.image, !.mounted = TRUE]],
                 mountRegistry' = [mountRegistry EXCEPT ![d] =
                                     [filename |-> o.image, readonly |-> drives[d].readonly]]
          PROVE  \E s \in DriveState : Becomes(s)
        <3>1. PICK s \in DriveState : s = [x EXCEPT !.filename = o.image, !.mounted = TRUE]
            BY <1>6 DEF DriveState
        <3>2. /\ s.mounted /\ s.filename = o.image /\ s.readonly = drives[d].readonly
              /\ s.transient = p.scratch /\ s.scratchPath = p.number
              /\ s.swapWindow = drives[d].swapWindow
            BY <2>2, <3>1 DEF DriveState
        <3>3. /\ \A e \in Drive \ {d} : mountRegistry'[e] = mountRegistry[e]
              /\ mountRegistry'[d] = [filename |-> o.image, readonly |-> drives[d].readonly]
            BY <1>3, <2>4
        <3>4. drives' = [drives EXCEPT ![d] = s]
            BY <2>4, <3>1
        <3> QED
            BY <3>2, <3>3, <3>4
    <2>5. ASSUME o.kind = "protect", drives' = [drives EXCEPT ![d] = x],
                 mountRegistry' = WithFlag(d, o.flag)
          PROVE  \E s \in DriveState : Becomes(s)
        <3>1. drives[d].mounted /\ drives[d].filename = o.image /\ drives[d].readonly = o.flag
            BY <1>6, <2>5
        <3>2. mountRegistry[d] \in MountEntry /\ mountRegistry[d].filename = o.image
            BY <1>3, <3>1 DEF RegistryNamesMountedImage
        <3>3. mountRegistry[d] # NotMounted
            BY <1>6, <3>2, ImageAssumption DEF NotMounted
        <3>4. mountRegistry' = [mountRegistry EXCEPT ![d].readonly = o.flag]
            BY <2>5, <3>1, <3>3 DEF WithFlag
        <3>5. /\ \A e \in Drive \ {d} : mountRegistry'[e] = mountRegistry[e]
              /\ mountRegistry'[d] = [mountRegistry[d] EXCEPT !.readonly = o.flag]
            BY <1>3, <3>4
        <3>6. mountRegistry'[d] = [filename |-> o.image, readonly |-> drives[d].readonly]
            BY <3>1, <3>2, <3>5 DEF MountEntry
        <3>7. /\ x.mounted /\ x.filename = o.image
            BY <2>2, <3>1
        <3> QED
            BY <2>2, <2>5, <3>5, <3>6, <3>7
    <2> QED
        BY <2>3, <2>4, <2>5
<1>17. PICK s \in DriveState : Becomes(s)
    BY <1>16
<1>18. drives'[d] = s /\ \A e \in Drive \ {d} : drives'[e] = drives[e]
    BY <1>3, <1>17
<1>19. op'[r].pc = "idle"
    BY <1>3, <1>4 DEF NoOperation
<1>20. StepAt(r, d)
    BY <1>1, <1>14, <1>17, <1>18, <1>19, Zenon DEF StepAt
<1>21. QuietOK(d)'
    <2>1. ScratchOK(d)'
        BY <1>8, <1>17, <1>18, Zenon DEF ScratchOK
    <2>2. drives'[d].transient => drives'[d].readonly /\ drives'[d].mounted
        BY <1>6, <1>7, <1>17, <1>18, Zenon
    <2>3. mountRegistry'[d] = [filename |-> drives'[d].filename, readonly |-> drives'[d].readonly]
        BY <1>17, <1>18, Zenon
    <2>4. FileOf(d)' = p
        BY <1>8, <1>17, <1>18, Zenon DEF FileOf
    <2>5. /\ drives'[d].mounted /\ h.open /\ ~h.orphan /\ h.path = FileOf(d)'
          /\ ~drives'[d].readonly => h.rw
        BY <1>6, <1>10, <1>17, <1>18, <2>4, Zenon
    <2>6. handles'[fileHandles'[d]] = h
        BY <1>13, <1>14
    <2> QED
        BY <2>1, <2>2, <2>3, <2>5, <2>6, Zenon DEF QuietOK, Described
<1>22. ScratchesAccounted'
    <2>1. ASSUME NEW n \in DOMAIN scratches, Holds(d, n) \/ Awaits(r, n)
          PROVE  Holds(d, n)'
        <3>1. ~Holds(d, n)
            BY <1>6, Zenon DEF Holds
        <3>2. p.scratch /\ p.number = n
            BY <1>2, <1>7, <2>1, <3>1, Zenon DEF Awaits
        <3> QED
            BY <1>17, <1>18, <3>2, Zenon DEF Holds
    <2> QED
        BY <1>4, <1>5, <1>20, <2>1, ScratchesFrame
<1>23. CacheOK'
    <2>1. ~(guest.pc = "read" /\ guest.drive = d)
        BY <1>5, <1>6, Zenon DEF CacheOK
    <2>2. ASSUME ~drives'[d].swapWindow
          PROVE  \/ cached[d].image = NoImage
                 \/ drives'[d].mounted /\ cached[d].image = drives'[d].filename
        <3>1. ~drives[d].swapWindow
            BY <1>17, <1>18, <2>2, Zenon
        <3>2. \/ cached[d].image = NoImage
              \/ drives[d].mounted /\ cached[d].image = drives[d].filename
            BY <1>5, <3>1, Zenon DEF CacheOK
        <3>3. drives[d].mounted => drives[d].filename = o.image
            BY <1>6, <3>1, Zenon
        <3> QED
            BY <1>17, <1>18, <3>2, <3>3, Zenon
    <2> QED
        BY <1>3, <1>4, <1>5, <1>20, <2>1, <2>2, CacheFrame
<1> QED
    BY <1>13, <1>15, <1>19, <1>20, <1>21, <1>22, <1>23, StepKeepsSerial

\* The image was not there: the drive is marked as broken, and had no scratch.
LEMMA FailureKeepsSerial ==
    ASSUME OneAtATime, Faults \subseteq HandledFaults, IndInv, SerialInv, NEW r \in Req,
           MountFails(r) \/ MountAbandoned(r)
    PROVE  SerialInv'
<1>1. PICK d \in Drive : d = op[r].drive
    BY DEF IndInv, TypeOK, Operation
<1>2. PICK o \in Operation : o = op[r]
    BY DEF IndInv, TypeOK
<1>3. /\ TypeOK /\ drives \in [Drive -> DriveState] /\ op \in [Req -> Operation]
      /\ drives[d] \in DriveState
    BY <1>2 DEF IndInv, TypeOK
<1>4. /\ (o.pc = "access" /\ o.kind = "mount") \/ o.pc = "abandon"
      /\ UNCHANGED <<fileHandles, handles, mountRegistry, guest, cached>>
    <2>1. ASSUME MountFails(r) PROVE op[r].pc = "access" /\ op[r].kind = "mount"
        BY <2>1, SMT DEF MountFails, Resumes, Fail, HandledFaults
    <2>2. ASSUME MountAbandoned(r) PROVE op[r].pc = "abandon"
        BY <2>2, Zenon DEF MountAbandoned, Resumes
    <2>3. UNCHANGED <<fileHandles, handles, mountRegistry, guest, cached>>
        BY Zenon DEF MountFails, MountAbandoned, fdc
    <2> QED
        BY <1>2, <2>1, <2>2, <2>3
<1>5. BusyOK(r) /\ Owned /\ ScratchesAccounted /\ CacheOK
    <2>1. op[r].pc # "idle"
        BY <1>2, <1>4
    <2>2. op[r].kind # "commit"
        <3>1. ASSUME op[r].kind = "commit" PROVE FALSE
            BY <1>1, <1>2, <1>4, <2>1, <3>1, BusyStep DEF CommitOK
        <3> QED
            BY <3>1
    <2> QED
        BY <1>1, <2>1, <2>2, BusyStep
<1>6. /\ fileHandles[d] = 0 /\ ScratchOK(d) /\ ~drives[d].transient
      /\ o.kind = "mount" => (drives[d].mounted => drives[d].swapWindow)
      /\ o.pc = "abandon" => o.doomed = 0 /\ ~drives[d].mounted
      /\ ~o.path.scratch
    BY <1>1, <1>2, <1>4, <1>5, SMT DEF BusyOK
<1>7. drives[d].scratchPath = 0
    BY <1>6, Zenon DEF ScratchOK
<1>8. ASSUME NEW p \in Operation, op' = [op EXCEPT ![r] = p], p.pc = "idle" \/ p.drive = d,
             NEW e \in DriveState, drives' = [drives EXCEPT ![d] = e], scratches' = scratches
      PROVE  ScratchesAccounted'
    <2>1. op'[r] = p /\ \A c \in Drive \ {d} : drives'[c] = drives[c]
        BY <1>3, <1>8
    <2>2. StepAt(r, d)
        BY <1>1, <1>4, <1>8, <2>1, Zenon DEF StepAt
    <2>3. ASSUME NEW n \in DOMAIN scratches, Holds(d, n) \/ Awaits(r, n)
          PROVE  FALSE
        BY <1>2, <1>6, <1>8, <2>3 DEF Holds, Awaits
    <2> QED
        BY <1>5, <1>8, <2>2, <2>3, ScratchesFrame
<1>9. CASE MountFails(r)
    <2>1. PICK e \in DriveState : e = MarkedBroken(drives[d])
        BY <1>3 DEF MarkedBroken, DriveState
    <2>2. /\ ~e.mounted /\ e.transient = drives[d].transient
          /\ e.scratchPath = drives[d].scratchPath /\ e.swapWindow = drives[d].swapWindow
        BY <1>3, <2>1 DEF MarkedBroken, DriveState
    <2>3. PICK p \in Operation : p = [o EXCEPT !.pc = "abandon", !.doomed = 0]
        BY DEF Operation, Pc
    <2>4. /\ p.pc = "abandon" /\ p.kind = o.kind /\ p.drive = d /\ p.image = o.image
          /\ p.flag = o.flag /\ p.path = o.path /\ p.doomed = 0
        BY <1>1, <1>2, <2>3 DEF Operation
    <2>5. /\ drives' = [drives EXCEPT ![d] = e] /\ op' = [op EXCEPT ![r] = p]
          /\ scratches' = scratches
        BY <1>1, <1>2, <1>3, <1>7, <1>9, <2>1, <2>3 DEF MountFails, files
    <2>6. drives'[d] = e /\ op'[r] = p /\ fileHandles'[d] = 0
        BY <1>3, <1>4, <1>6, <2>5
    <2>7. o.kind = "mount"
        BY <1>2, <1>9 DEF MountFails
    <2>8. BusyOK(r)'
        <3>1. ScratchOK(d)'
            BY <1>6, <2>2, <2>6, Zenon DEF ScratchOK
        <3>2. ~drives'[d].mounted /\ ~drives'[d].transient /\ ~p.path.scratch
            BY <1>6, <2>2, <2>4, <2>6, Zenon
        <3> QED
            BY <2>4, <2>6, <2>7, <3>1, <3>2, SMT DEF BusyOK
    <2>9. \/ e.swapWindow
          \/ ~e.swapWindow /\ ~drives[d].swapWindow /\ ~drives[d].mounted
        BY <1>6, <2>2, <2>7, Zenon
    <2>10. ScratchesAccounted'
        BY <1>8, <2>4, <2>5
    <2>11. op[r].pc # "idle" /\ p.pc # "idle" /\ p.kind # "commit"
        BY <1>2, <1>4, <2>4, <2>7
    <2>12. \A c \in Drive \ {d} : mountRegistry'[c] = mountRegistry[c]
        BY <1>4
    <2> QED
        BY <1>1, <1>4, <1>6, <2>4, <2>5, <2>8, <2>9, <2>10, <2>11, <2>12, ClosedStepKeepsSerial
<1>10. CASE MountAbandoned(r)
    <2>1. PICK e \in DriveState : e = WithoutScratch(drives[d])
        BY <1>3 DEF WithoutScratch, DriveState
    <2>2. /\ e.mounted = drives[d].mounted /\ e.filename = drives[d].filename
          /\ e.swapWindow = drives[d].swapWindow /\ ~e.transient /\ e.scratchPath = 0
        BY <1>3, <2>1 DEF WithoutScratch, DriveState
    <2>3. NoOperation \in Operation /\ NoOperation.pc = "idle"
        BY IdleTypes DEF NoOperation
    <2>4. o.pc = "abandon"
        BY <1>2, <1>10 DEF MountAbandoned, Resumes
    <2>5. /\ drives' = [drives EXCEPT ![d] = e] /\ op' = [op EXCEPT ![r] = NoOperation]
          /\ scratches' = scratches
        BY <1>1, <1>2, <1>6, <1>10, <2>1, <2>4 DEF MountAbandoned, Finished, Unlinked
    <2>6. drives'[d] = e /\ fileHandles'[d] = 0
        BY <1>3, <1>4, <1>6, <2>5
    <2>7. QuietOK(d)'
        <3>1. ScratchOK(d)'
            BY <2>2, <2>6, Zenon DEF ScratchOK
        <3>2. ~drives'[d].mounted /\ ~drives'[d].transient
            BY <1>6, <2>2, <2>4, <2>6, Zenon
        <3> QED
            BY <2>6, <3>1, <3>2, Zenon DEF QuietOK, Described
    <2>8. ScratchesAccounted'
        BY <1>8, <2>3, <2>5
    <2>9. op[r].pc # "idle"
        BY <1>2, <2>4
    <2>10. \A c \in Drive \ {d} : mountRegistry'[c] = mountRegistry[c]
        BY <1>4
    <2> QED
        BY <1>1, <1>4, <1>6, <2>2, <2>3, <2>5, <2>7, <2>8, <2>9, <2>10, ClosedStepKeepsSerial
<1> QED
    BY <1>9, <1>10

\* A commit orphans no drive: no other drive is on the master, and its own is on the
\* scratch.
LEMMA RenameKeepsSerial ==
    ASSUME OneAtATime, IndInv, SerialInv, NEW r \in Req, CommitRenamed(r)
    PROVE  SerialInv'
<1>1. PICK d \in Drive : d = op[r].drive
    BY DEF IndInv, TypeOK, Operation
<1>2. PICK o \in Operation : o = op[r]
    BY DEF IndInv, TypeOK
<1>3. PICK f \in Image : f = o.image
    <2>1. o.pc = "rename" /\ OperationOK(o)
        BY <1>2, Zenon DEF CommitRenamed, Resumes, IndInv, References
    <2> QED
        BY <2>1 DEF OperationOK
<1>4. /\ TypeOK /\ drives \in [Drive -> DriveState] /\ op \in [Req -> Operation]
      /\ OperationOK(o) /\ drives[d] \in DriveState /\ guest.drive \in Drive
      /\ fileHandles \in [Drive -> 0 .. Len(handles)]
    BY <1>2 DEF IndInv, TypeOK, References, Guest
<1>5. /\ o.pc = "rename" /\ op' = [op EXCEPT ![r] = NoOperation]
      /\ UNCHANGED <<fileHandles, mountRegistry, guest, cached>>
    BY <1>2, Zenon DEF CommitRenamed, Resumes, Finished, fdc
<1>6. op[r].pc # "idle" /\ op[r].kind = "commit" /\ o.path.number \in 1 .. Len(scratches)
    BY <1>2, <1>4, <1>5 DEF OperationOK, FileRef
<1>7. CommitOK(r) /\ QuietOK(d) /\ Owned /\ ScratchesAccounted /\ CacheOK
    BY <1>1, <1>6, BusyStep
<1>8. drives[d].transient /\ ~MountedElsewhere(d, f)
    BY <1>1, <1>2, <1>3, <1>7, Zenon DEF CommitOK
<1>9. /\ drives'[d].mounted = drives[d].mounted
      /\ drives'[d].filename = drives[d].filename
      /\ drives'[d].readonly = drives[d].readonly
      /\ drives'[d].transient = drives[d].transient
      /\ drives'[d].scratchPath = drives[d].scratchPath
      /\ drives'[d].swapWindow = drives[d].swapWindow
      /\ \A e \in Drive \ {d} : drives'[e] = drives[e]
    <2>1. drives' = [drives EXCEPT ![d].dirty = FALSE]
        BY <1>1 DEF CommitRenamed
    <2> QED
        BY <1>4, <2>1 DEF DriveState
<1>10. op'[r].pc = "idle"
    BY <1>4, <1>5 DEF NoOperation
<1>11. StepAt(r, d)
    BY <1>1, <1>5, <1>9, <1>10, Zenon DEF StepAt
<1>12. /\ DOMAIN handles' = DOMAIN handles /\ DOMAIN handles = 1 .. Len(handles)
       /\ \A h \in DOMAIN handles : handles[h] \in Handle
       /\ \A h \in DOMAIN handles :
             handles'[h] = [handles[h] EXCEPT !.orphan = @ \/ handles[h].path = Master(f)]
    BY <1>2, <1>3, <1>4, Tables DEF CommitRenamed
<1>13. /\ \A h \in DOMAIN handles : /\ handles'[h].path = handles[h].path
                                    /\ handles'[h].rw = handles[h].rw
       /\ \A h \in DOMAIN handles : handles'[h].open => handles[h].open
       /\ \A h \in DOMAIN handles : handles[h].path # Master(f) => handles'[h] = handles[h]
    BY <1>12 DEF Handle
\* A drive at rest, other than this one, is not on the master.
<1>14. ASSUME NEW e \in Drive, QuietOK(e)
       PROVE  Untouched(e)
    <2>1. ASSUME fileHandles[e] # 0 PROVE handles'[fileHandles[e]] = handles[fileHandles[e]]
        <3>1. fileHandles[e] \in DOMAIN handles
            BY <1>4, <1>12, <2>1
        <3>2. drives[e].mounted /\ handles[fileHandles[e]].path = FileOf(e)
            BY <1>14, <2>1, Zenon DEF QuietOK
        <3>3. FileOf(e) # Master(f)
            <4>1. CASE drives[e].transient
                BY <4>1 DEF FileOf, ScratchFile, Master
            <4>2. CASE ~drives[e].transient
                <5>1. e # d
                    BY <1>8, <4>2
                <5>2. drives[e].filename # f
                    BY <1>8, <3>2, <5>1 DEF MountedElsewhere
                <5> QED
                    BY <4>2, <5>2 DEF FileOf, Master
            <4> QED
                BY <4>1, <4>2
        <3> QED
            BY <1>13, <3>1, <3>2, <3>3
    <2>2. CASE e = d
        BY <1>5, <1>9, <2>1, <2>2, Zenon DEF Untouched
    <2>3. CASE e # d
        BY <1>5, <1>9, <2>1, <2>3, Zenon DEF Untouched
    <2> QED
        BY <2>2, <2>3
<1>15. ASSUME NEW e \in Drive PROVE QuietOK(e)'
    <2>1. QuietOK(e)
        <3>1. CASE e = d
            BY <1>7, <3>1
        <3>2. CASE e # d
            BY <1>1, <3>2, Zenon DEF SerialInv, At, OneAtATime
        <3> QED
            BY <3>1, <3>2
    <2> QED
        BY <1>14, <2>1, UntouchedStaysQuiet
<1>16. Owned'
    BY <1>5, <1>7, <1>12, <1>13, OwnedFrame
<1>17. ScratchesAccounted'
    <2>1. ASSUME NEW n \in DOMAIN scratches', scratches'[n].exists
          PROVE  n \in DOMAIN scratches /\ scratches[n].exists
        <3>1. PICK m \in DOMAIN scratches :
                 scratches' = [scratches EXCEPT ![m].saved = commitTmp[op[r].image]]
            BY <1>2, <1>4, <1>6, Tables DEF CommitRenamed
        <3>2. n \in DOMAIN scratches /\ scratches[n] \in Scratch
            BY <1>4, <3>1, Tables
        <3> QED
            BY <2>1, <3>1, <3>2 DEF Scratch
    <2>2. ASSUME NEW n \in DOMAIN scratches, Holds(d, n) \/ Awaits(r, n)
          PROVE  Holds(d, n)'
        <3>1. ~Awaits(r, n)
            BY <1>2, <1>5 DEF Awaits
        <3> QED
            BY <1>9, <2>2, <3>1, Zenon DEF Holds
    <2> QED
        BY <1>7, <1>11, <2>1, <2>2, ScratchesFrame
<1>18. CacheOK'
    <2>1. ~drives'[d].swapWindow =>
             \/ cached[d].image = NoImage
             \/ drives'[d].mounted /\ cached[d].image = drives'[d].filename
        BY <1>7, <1>9, Zenon DEF CacheOK
    <2>2. guest.pc = "read" /\ guest.drive = d =>
             fileHandles'[d] = fileHandles[d] /\ ~drives'[d].swapWindow
        BY <1>5, <1>7, <1>9, Zenon DEF CacheOK
    <2> QED
        BY <1>4, <1>5, <1>7, <1>11, <2>1, <2>2, CacheFrame
<1> QED
    BY <1>10, <1>15, <1>16, <1>17, <1>18, Zenon DEF SerialInv, OneAtATime

LEMMA ContinueKeepsSerial ==
    ASSUME OneAtATime, Faults \subseteq HandledFaults, IndInv, SerialInv, NEW r \in Req,
           Continue(r)
    PROVE  SerialInv'
<1>1. CASE HandleClosed(r) \/ CloseFails(r)
    BY <1>1, CloseKeepsSerial
<1>2. CASE ScratchDiscarded(r)
    BY <1>2, DiscardKeepsSerial
<1>3. CASE ImageFound(r) \/ PolicyAnswered(r) \/ ScratchCreated(r)
    BY <1>3, LookupKeepsSerial
<1>4. CASE Opened(r)
    BY <1>4, OpenedKeepsSerial
<1>5. CASE MountFails(r) \/ MountAbandoned(r)
    BY <1>5, FailureKeepsSerial
<1>6. ~RemountFails(r)
    BY SMT DEF RemountFails, Fail, HandledFaults
<1>7. CASE CommitCopied(r) \/ CommitFails(r)
    <2>1. op \in [Req -> Operation] /\ OperationOK(op[r])
        BY DEF IndInv, TypeOK, References
    <2>2. op[r].pc \in {"copy", "rename"}
        BY <1>7, SMT DEF CommitCopied, CommitFails, Resumes
    <2>3. op[r].kind = "commit" /\ op[r].pc # "idle"
        BY <2>1, <2>2 DEF OperationOK
    <2>4. UNCHANGED <<engine, scratches, guest, cached>>
        BY <1>7, Zenon DEF CommitCopied, CommitFails, fdc
    <2>5. CASE CommitCopied(r)
        <3>1. PICK o \in Operation : o = [op[r] EXCEPT !.pc = "rename"]
            BY <2>1, ZenonT(60) DEF Operation, Pc
        <3>2. /\ o.pc = "rename" /\ o.kind = "commit" /\ o.drive = op[r].drive
              /\ o.image = op[r].image
            BY <2>1, <2>3, <3>1 DEF Operation
        <3>3. op' = [op EXCEPT ![r] = o]
            BY <2>1, <2>5, <3>1 DEF CommitCopied
        <3> QED
            BY <2>3, <2>4, <3>2, <3>3, CommitStepKeepsSerial
    <2>6. CASE CommitFails(r)
        <3>1. op' = [op EXCEPT ![r] = NoOperation]
            BY <2>6 DEF CommitFails, Finished
        <3>2. NoOperation \in Operation /\ NoOperation.pc = "idle"
            BY IdleTypes DEF NoOperation
        <3> QED
            BY <2>3, <2>4, <3>1, <3>2, CommitStepKeepsSerial
    <2> QED
        BY <1>7, <2>5, <2>6
<1>8. CASE CommitRenamed(r)
    BY <1>8, RenameKeepsSerial
<1> QED
    BY <1>1, <1>2, <1>3, <1>4, <1>5, <1>6, <1>7, <1>8, Zenon DEF Continue

LEMMA StutterKeepsSerial ==
    ASSUME IndInv, SerialInv, UNCHANGED vars
    PROVE  SerialInv'
<1>1. /\ op' = op /\ fileHandles' = fileHandles /\ handles' = handles
      /\ mountRegistry' = mountRegistry /\ drives' = drives /\ scratches' = scratches
      /\ guest' = guest /\ cached' = cached
    BY DEF vars
<1>2. CacheOK'
    BY <1>1, Zenon DEF SerialInv, CacheOK
<1> QED
    BY <1>1, <1>2, OtherStepKeepsSerial

\* The inductive invariant for requests that do not overlap: what the request in
\* progress has done so far, and, of every drive that no request is at, that its state,
\* its handle, its scratch copy, its entry in the mount table and what the FDC may have
\* buffered of it fit together.
THEOREM SerialInvariance ==
    ASSUME OneAtATime, Faults \subseteq HandledFaults
    PROVE  Spec => [](IndInv /\ SerialInv)
<1>1. Init => SerialInv
    BY InitSerial
<1>2. IndInv /\ SerialInv /\ [Next]_vars => SerialInv'
    <2> SUFFICES ASSUME IndInv, SerialInv, [Next]_vars PROVE SerialInv'
        OBVIOUS
    <2>1. ASSUME NEW r \in Req, Start(r) PROVE SerialInv'
        BY <2>1, StartKeepsSerial
    <2>2. ASSUME NEW r \in Req, Continue(r) PROVE SerialInv'
        BY <2>2, ContinueKeepsSerial
    <2>3. CASE GuestStep
        BY <2>3, GuestKeepsSerial
    <2>4. ASSUME NEW d \in Drive, WindowExpires(d) PROVE SerialInv'
        BY <2>4, ExpiryKeepsSerial
    <2>5. CASE UNCHANGED vars
        BY <2>5, StutterKeepsSerial
    <2> QED
        BY <2>1, <2>2, <2>3, <2>4, <2>5, Zenon DEF Next
<1> QED
    BY <1>1, <1>2, Invariance, PTL DEF Spec

LEMMA FilesFollow == ASSUME OneAtATime, IndInv, SerialInv PROVE FilesAccounted
<1>1. ASSUME NEW d \in Drive, fileHandles[d] # 0
      PROVE  ~handles[fileHandles[d]].open \/ (drives[d].mounted /\ ~handles[fileHandles[d]].orphan)
    <2>1. CASE \A r \in Req : At(r, d) => op[r].kind = "commit"
        <3>1. QuietOK(d)
            BY <2>1, Zenon DEF SerialInv
        <3> QED
            BY <1>1, <3>1, Zenon DEF QuietOK
    <2>2. ASSUME NEW r \in Req, At(r, d), op[r].kind # "commit"
          PROVE  ~handles[fileHandles[d]].open
        <3>1. BusyOK(r) /\ op[r].drive = d
            BY <2>2, Zenon DEF SerialInv, At
        <3> QED
            BY <1>1, <3>1, Zenon DEF BusyOK
    <2> QED
        BY <2>1, <2>2, Zenon
<1>2. HandlesAccounted
    <2> SUFFICES ASSUME NEW h \in DOMAIN handles, handles[h].open
                 PROVE  \E d \in Drive : fileHandles[d] = h /\ drives[d].mounted
        BY Zenon DEF HandlesAccounted
    <2>1. PICK d \in Drive : fileHandles[d] = h
        BY Zenon DEF SerialInv, Owned
    <2>2. h # 0
        BY Tables DEF IndInv
    <2> QED
        BY <1>1, <2>1, <2>2, Zenon
<1>3. NoOrphanHandle
    BY <1>1, Zenon DEF NoOrphanHandle
<1> QED
    BY <1>2, <1>3, Zenon DEF FilesAccounted, SerialInv

LEMMA DrivesFollow == ASSUME IndInv, SerialInv PROVE DrivesAgree
<1>1. ASSUME NEW d \in Drive, ~Busy(d) PROVE QuietOK(d)
    BY <1>1, Zenon DEF SerialInv, Busy, At
<1>2. WritableReachesMaster
    <2> SUFFICES ASSUME NEW d \in Drive, ~Busy(d), drives[d].mounted, ~drives[d].readonly,
                        fileHandles[d] # 0
                 PROVE  /\ ~drives[d].transient
                        /\ handles[fileHandles[d]].path = Master(drives[d].filename)
                        /\ handles[fileHandles[d]].rw
        BY Zenon DEF WritableReachesMaster
    <2>1. QuietOK(d)
        BY <1>1
    <2>2. ~drives[d].transient
        BY <2>1, Zenon DEF QuietOK, Described
    <2> QED
        BY <2>1, <2>2, Zenon DEF QuietOK, FileOf
<1>3. RegistryAgrees
    BY <1>1, Zenon DEF RegistryAgrees, QuietOK, Described
<1> QED
    BY <1>2, <1>3, Zenon DEF DrivesAgree

\* When requests do not overlap and no open fails: every open handle is the one its
\* mounted drive uses, every scratch copy on the disk belongs to a drive or is about to be
\* opened, and no drive is on a file that a commit has replaced.
THEOREM EveryFileAccounted ==
    ASSUME OneAtATime, Faults \subseteq HandledFaults
    PROVE  Spec => []FilesAccounted
<1>1. IndInv /\ SerialInv => FilesAccounted
    BY FilesFollow
<1> QED
    BY <1>1, SerialInvariance, PTL

\* Under the same conditions, between requests the flag, the handle and the mount table
\* say the same of every drive.
THEOREM DrivesStayInAgreement ==
    ASSUME OneAtATime, Faults \subseteq HandledFaults
    PROVE  Spec => []DrivesAgree
<1>1. IndInv /\ SerialInv => DrivesAgree
    BY DrivesFollow
<1> QED
    BY <1>1, SerialInvariance, PTL

\* Only a read that has finished and the end of a window change what the FDC may have
\* buffered.
LEMMA BufferChanges ==
    ASSUME Next, UNCHANGED cached => FALSE
    PROVE  ReadDone \/ \E d \in Drive : WindowExpires(d)
<1>1. ASSUME NEW r \in Req, Start(r) PROVE UNCHANGED cached
    BY <1>1, Zenon DEF Start, StartMount, StartReload, StartUnmount, WriteProtect,
       StartCommit, fdc
<1>2. ASSUME NEW r \in Req, Continue(r) PROVE UNCHANGED cached
    BY <1>2, Zenon DEF Continue, HandleClosed, CloseFails, ScratchDiscarded, ImageFound,
       PolicyAnswered, ScratchCreated, Opened, MountFails, MountAbandoned, RemountFails,
       CommitCopied, CommitRenamed, CommitFails, fdc
<1>3. ASSUME GuestStep, ~ReadDone PROVE UNCHANGED cached
    BY <1>3, Zenon DEF GuestStep, BeginRead, BeginWrite, DatasyncDone, WriteLands,
       WriteRefused, WriteFails, RetryWrite, SyncDone
<1> QED
    BY <1>1, <1>2, <1>3, Zenon DEF Next

\* Under the same conditions the FDC never gets a track of another image while its
\* buffer may hold one of the image before: the not-ready window comes in between.
THEOREM BufferFollowsTheImage ==
    ASSUME OneAtATime, Faults \subseteq HandledFaults
    PROVE  Spec => NoStaleImage
<1> DEFINE Fresh == \A d \in Drive :
                       cached'[d] # cached[d] /\ cached[d].image # NoImage
                          => cached'[d].image \in {NoImage, cached[d].image}
<1>1. IndInv /\ SerialInv /\ [Next]_vars => [Fresh]_vars
    <2> SUFFICES ASSUME IndInv, SerialInv, Next, NEW d \in Drive, cached'[d] # cached[d],
                        cached[d].image # NoImage
                 PROVE  cached'[d].image \in {NoImage, cached[d].image}
        BY DEF Fresh
    <2>1. guest \in Guest /\ cached \in [Drive -> Path]
        BY DEF IndInv, TypeOK
    <2>2. CASE ReadDone
        <3>1. /\ guest.pc = "read"
              /\ cached' = [cached EXCEPT ![guest.drive] = handles[guest.handle].path]
            BY <2>2 DEF ReadDone, GuestResumes
        <3>2. guest.drive = d /\ cached'[d] = handles[guest.handle].path
            BY <2>1, <3>1
        <3>3. guest.handle # 0 /\ fileHandles[d] = guest.handle /\ ~drives[d].swapWindow
            BY <3>1, <3>2, Zenon DEF SerialInv, CacheOK
        <3>4. handles[guest.handle].path.image = drives[d].filename
            BY <3>3, ReadsItsImage
        <3>5. cached[d].image = drives[d].filename
            BY <3>3, Zenon DEF SerialInv, CacheOK
        <3> QED
            BY <3>2, <3>4, <3>5
    <2>3. ASSUME NEW e \in Drive, WindowExpires(e)
          PROVE  cached'[d].image = NoImage
        <3>1. cached' = [cached EXCEPT ![e] = NoPath]
            BY <2>3 DEF WindowExpires
        <3>2. cached'[d] = NoPath
            BY <2>1, <3>1
        <3> QED
            BY <3>2 DEF NoPath, Master
    <2> QED
        BY <2>2, <2>3, BufferChanges
<1> QED
    BY <1>1, SerialInvariance, PTL DEF Spec, NoStaleImage

=============================================================================
