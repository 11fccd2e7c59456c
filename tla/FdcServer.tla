------------------------------ MODULE FdcServer ------------------------------
(***************************************************************************)
(* The command loop that serves an FDC+ controller (src/server.ts), the    *)
(* frames it reads (src/protocol.ts), and the controller at the other end. *)
(* SerialLink and WsLink add what their transports do; FdcLinks puts them  *)
(* together.                                                               *)
(*                                                                         *)
(* Bytes are abstract: a command is CmdSize tokens, a track of data is     *)
(* DataSize, and a checksum, where the transport has one, is one more.  A  *)
(* frame the server takes is a message only if its tokens are exactly the  *)
(* tokens of one message: a checksum is assumed to tell.  The drive engine *)
(* is one drive that the operator mounts, protects and takes away, and     *)
(* calls that may fail; DriveManager models it.                            *)
(***************************************************************************)
EXTENDS Naturals, Sequences, SequencesExt

CONSTANTS
    Client,      \* controllers that may be at the other end
    Track,       \* track numbers
    Transports,  \* the transports the daemon may be started with
    CmdSize,     \* tokens of a command
    DataSize,    \* tokens of a track
    LineFaults,  \* a serial line: "garble" or "drop" a token, "mute" a response
    Timing,      \* when a controller on it stops waiting: "timely", "early"
    MaxWrites,   \* bound: track writes the guests ask for
    MaxFaults,   \* bound: faults of the line and of the disk
    MaxChanges,  \* bound: actions of the operator
    MaxQueue     \* bound: tokens waiting for the server

ASSUME SizesAssumption == CmdSize \in Nat \ {0} /\ DataSize \in Nat /\ CmdSize < DataSize
ASSUME FdcBoundsAssumption ==
    MaxWrites \in Nat /\ MaxFaults \in Nat /\ MaxChanges \in Nat /\ MaxQueue \in Nat
ASSUME ChoicesAssumption ==
    /\ Transports \subseteq {"serial", "ws"}
    /\ LineFaults \subseteq {"garble", "drop", "mute"}
    /\ Timing \in {"timely", "early"}

NoTrack == "no track"
NoClient == "nobody"
ASSUME NamesAssumption == NoTrack \notin Track /\ NoClient \notin Client

VARIABLES
    transport,  \* what the daemon was started with
    peer,       \* the controller the transport is connected to
    wired,      \* controllers whose bytes still reach the server
    rx,         \* tokens that have reached the server
    orphan,     \* the port was closed under the receive in progress
    srv,        \* the command loop: where it is, and what it is serving
    paused,     \* pause() was called
    drive,      \* the drive, as the engine sees it
    disk,       \* the block that each track holds
    fdcErrno,   \* the engine's last error code
    fdc,        \* per controller, what it is waiting for
    acked,      \* per track, the last write whose success was reported
    tx,         \* responses on their way to each controller
    writes,     \* track writes asked for so far
    faults,     \* faults so far
    changes     \* changes so far

vars == <<transport, peer, wired, rx, orphan, srv, paused, drive, disk, fdcErrno, fdc,
          acked, tx, writes, faults, changes>>

link == <<transport, peer, wired, orphan, paused>>
engine == <<drive, disk, fdcErrno>>
controllers == <<fdc, acked, writes>>

\* What controllers send.  A command names a track; a block of data does not: its
\* sender, its track and its number only tell which block it is.
Message == [op : {"STAT", "READ", "WRIT", "DATA"}, from : Client \cup {NoClient},
            track : Track \cup {NoTrack}, write : 0 .. MaxWrites]
Noise == [op |-> "noise", from |-> NoClient, track |-> NoTrack, write |-> 0]
Token == [msg : Message \cup {Noise}, part : Nat]

Command(c, o, t) == [op |-> o, from |-> c, track |-> t, write |-> 0]
Block(c, t, n) == [op |-> "DATA", from |-> c, track |-> t, write |-> n]
Blank(t) == Block(NoClient, t, 0)

FdcError == {"OK", "NOT_READY", "CHKSUM_ERR", "WRITE_ERR"}

\* What the server sends; about is the command it answers, which is not on the wire.
Response == [op : {"STAT", "WRIT", "WSTA", "DATA"}, code : FdcError, ready : BOOLEAN,
             block : Message \cup {Noise}, about : Message]

Srv == [pc : {"command", "poll", "read", "datasync", "data", "write"},
        cmd : Message \cup {Noise}, block : Message \cup {Noise}]
Waiting(where) == [pc |-> where, cmd |-> Noise, block |-> Noise]

Fdc == [pc : {"idle", "stat", "read", "writ", "wsta"}, track : Track \cup {NoTrack},
        write : 0 .. MaxWrites]
Idle == [pc |-> "idle", track |-> NoTrack, write |-> 0]

Init ==
    /\ transport \in Transports
    /\ peer \in Client /\ wired = {peer}
    /\ rx = << >> /\ orphan = FALSE
    /\ srv = Waiting("command") /\ paused = FALSE
    /\ drive = "ready"
    /\ disk = [t \in Track |-> Blank(t)]
    /\ fdcErrno = "OK"
    /\ fdc = [c \in Client |-> Idle]
    /\ acked = [t \in Track |-> 0]
    /\ tx = [c \in Client |-> << >>]
    /\ writes = 0 /\ faults = 0 /\ changes = 0

-----------------------------------------------------------------------------
(* Mutations of definitions below: what a plausible slip in the code would do. *)

MutLeftover == rx                      \* a timed-out frame is kept
MutDecoded(s) == s[1].msg              \* the checksum is not compared
MutRejectionCode == fdcErrno           \* writeTrack throws and sets no code

-----------------------------------------------------------------------------
(* Frames *)

\* Serial frames carry a checksum; a WebSocket is trusted.
Checksums == transport = "serial"

Frame(op) ==
    (IF op = "DATA" THEN DataSize ELSE CmdSize) + (IF Checksums THEN 1 ELSE 0)

Tokens(m) == [i \in 1 .. Frame(m.op) |-> [msg |-> m, part |-> i]]

\* What receiveBuffer makes of as many tokens as it asked for.
Decoded(s) == IF s = Tokens(s[1].msg) THEN s[1].msg ELSE Noise

Wanted == Frame(IF srv.pc = "data" THEN "DATA" ELSE "command")

\* receiveBuffer has what it asked for.
Ready == ~orphan /\ Len(rx) >= Wanted
Taken == Decoded(SubSeq(rx, 1, Wanted))

Take(where) ==
    /\ srv.pc = where
    /\ Ready
    /\ rx' = SubSeq(rx, Wanted + 1, Len(rx))

\* A receive that times out has eaten what there was of its frame; over a WebSocket
\* it leaves it in the buffer.
Leftover == IF Checksums /\ ~orphan THEN << >> ELSE rx

\* A controller that holds a response goes on well within the server's timeouts.
Silence == (transport = "serial" /\ Timing = "early") \/ \A c \in Client : tx[c] = << >>

TimeOut(where) ==
    /\ srv.pc = where
    /\ ~Ready
    /\ Silence
    /\ rx' = Leftover
    /\ orphan' = FALSE
    /\ UNCHANGED <<transport, peer, wired, paused>>

\* The server waits five seconds for data, a controller one second for anything: it
\* has asked again, or given up, by then.
OutWaited(c) ==
    transport = "serial" /\ Timing = "timely" =>
        c \notin wired \/ fdc[c] = Idle \/ (orphan /\ fdc[c].pc # "wsta")

-----------------------------------------------------------------------------
(* Responses *)

Fault ==
    /\ faults < MaxFaults
    /\ faults' = faults + 1

\* sendBuffer throws when nobody is connected.
Deliver(op, code, block) ==
    tx' = IF peer = NoClient THEN tx
          ELSE [tx EXCEPT ![peer] =
                   Append(@, [op |-> op, code |-> code, ready |-> drive # "absent",
                              block |-> block,
                              about |-> IF srv.cmd = Noise THEN Taken ELSE srv.cmd])]

\* The line may lose a response: the controller ignores one with a bad checksum.
Respond(op, code, block) ==
    \/ Deliver(op, code, block) /\ UNCHANGED faults
    \/ transport = "serial" /\ "mute" \in LineFaults /\ Fault /\ UNCHANGED tx

\* Back to the top of the loop.
Top == IF paused \/ peer = NoClient THEN Waiting("poll") ELSE Waiting("command")

-----------------------------------------------------------------------------
(* The command loop *)

\* The loop sleeps while it is paused or the transport is closed, and for a moment
\* after a timeout.
Poll ==
    /\ srv.pc = "poll"
    /\ Top.pc = "command"
    /\ srv' = Top
    /\ UNCHANGED <<link, rx, engine, controllers, tx, faults, changes>>

\* The wait for a command ends after a second: this is how the loop finds its place
\* again in a broken stream.
CommandTimeout ==
    /\ TimeOut("command")
    /\ srv' = Waiting("poll")
    /\ UNCHANGED <<engine, controllers, tx, faults, changes>>

\* A frame that is no command is ignored.
IgnoreFrame ==
    /\ Take("command")
    /\ Taken.op \notin {"STAT", "READ", "WRIT"}
    /\ srv' = Top
    /\ UNCHANGED <<link, engine, controllers, tx, faults, changes>>

ServeStat ==
    /\ Take("command")
    /\ Taken.op = "STAT"
    /\ Respond("STAT", "OK", Noise)
    /\ srv' = Top
    /\ UNCHANGED <<link, engine, controllers, changes>>

\* readTrack refuses at once when there is no drive; the controller gets no answer.
ServeRead ==
    /\ Take("command")
    /\ Taken.op = "READ"
    /\ IF drive = "absent"
       THEN srv' = Top /\ fdcErrno' = "NOT_READY"
       ELSE /\ srv' = [Waiting("read") EXCEPT !.cmd = Taken]
            /\ UNCHANGED fdcErrno
    /\ UNCHANGED <<link, drive, disk, controllers, tx, faults, changes>>

ReadDone ==
    LET t == srv.cmd.track IN
    /\ srv.pc = "read"
    /\ \/ Respond("DATA", "OK", disk[t]) /\ fdcErrno' = "OK"
       \/ Fault /\ fdcErrno' = "NOT_READY" /\ UNCHANGED tx
    /\ srv' = Top
    /\ UNCHANGED <<link, rx, drive, disk, controllers, changes>>

\* canWrite looks at the drive, then tries the handle.
ServeWrit ==
    /\ Take("command")
    /\ Taken.op = "WRIT"
    /\ IF drive = "ready"
       THEN /\ srv' = [Waiting("datasync") EXCEPT !.cmd = Taken]
            /\ UNCHANGED <<tx, faults>>
       ELSE /\ Respond("WRIT", "NOT_READY", Noise)
            /\ srv' = Top
    /\ UNCHANGED <<link, engine, controllers, changes>>

\* The controller is told to send the track.
DatasyncDone ==
    /\ srv.pc = "datasync"
    /\ Respond("WRIT", "OK", Noise)
    /\ srv' = IF peer = NoClient THEN Top ELSE [srv EXCEPT !.pc = "data"]
    /\ UNCHANGED <<link, rx, engine, controllers, changes>>

\* What the controller is told when the data does not come, or comes damaged.
StaleCode == fdcErrno

DataTimeout ==
    /\ TimeOut("data")
    /\ \A c \in Client : OutWaited(c)
    /\ Respond("WSTA", StaleCode, Noise)
    /\ srv' = Top
    /\ UNCHANGED <<engine, controllers, changes>>

DataDamaged ==
    /\ Take("data")
    /\ Checksums /\ Taken = Noise
    /\ Respond("WSTA", StaleCode, Noise)
    /\ srv' = Top
    /\ UNCHANGED <<link, engine, controllers, changes>>

\* The guards of writeTrack.
RejectionCode == IF drive = "absent" THEN "NOT_READY" ELSE "WRITE_ERR"

WriteRejected ==
    /\ Take("data")
    /\ Checksums => Taken # Noise
    /\ drive # "ready"
    /\ fdcErrno' = RejectionCode
    /\ Respond("WSTA", RejectionCode, Noise)
    /\ srv' = Top
    /\ UNCHANGED <<link, drive, disk, controllers, changes>>

BeginWrite ==
    /\ Take("data")
    /\ Checksums => Taken # Noise
    /\ drive = "ready"
    /\ srv' = [srv EXCEPT !.pc = "write", !.block = Taken]
    /\ UNCHANGED <<link, engine, controllers, tx, faults, changes>>

WriteDone ==
    /\ srv.pc = "write"
    /\ disk' = [disk EXCEPT ![srv.cmd.track] = srv.block]
    /\ fdcErrno' = "OK"
    /\ Respond("WSTA", "OK", Noise)
    /\ srv' = Top
    /\ UNCHANGED <<link, rx, drive, controllers, changes>>

\* write() or sync() fails for good; the bytes may be on the disk all the same.
WriteFails ==
    /\ srv.pc = "write"
    /\ disk' \in {disk, [disk EXCEPT ![srv.cmd.track] = srv.block]}
    /\ fdcErrno' = "WRITE_ERR"
    /\ Deliver("WSTA", "WRITE_ERR", Noise)
    /\ Fault
    /\ srv' = Top
    /\ UNCHANGED <<link, rx, drive, controllers, changes>>

-----------------------------------------------------------------------------
(* The operator: the drive changes under the loop; it is never mounted anew here. *)

Change ==
    /\ changes < MaxChanges
    /\ changes' = changes + 1

DriveChanges ==
    /\ Change
    /\ drive' \in {"ready", "protected", "absent"} \ {drive}
    /\ UNCHANGED <<link, rx, srv, disk, fdcErrno, controllers, tx, faults>>

-----------------------------------------------------------------------------
(* The controller, as docs/PROTOCOL.md has it *)

\* The tokens of a message as they may arrive.
Arrivals(m) ==
    LET s == Tokens(m) IN
    (IF "garble" \in LineFaults
     THEN {[s EXCEPT ![i] = [msg |-> Noise, part |-> 0]] : i \in DOMAIN s} ELSE {})
    \cup (IF "drop" \in LineFaults THEN {RemoveAt(s, i) : i \in DOMAIN s} ELSE {})

Transmit(c, m) ==
    /\ Len(rx) + Frame(m.op) <= MaxQueue
    /\ IF c \in wired
       THEN \/ rx' = rx \o Tokens(m) /\ UNCHANGED faults
            \/ transport = "serial" /\ Fault /\ \E s \in Arrivals(m) : rx' = rx \o s
       ELSE UNCHANGED <<rx, faults>>

CommandOf(c) ==
    Command(c, CASE fdc[c].pc = "stat" -> "STAT"
                 [] fdc[c].pc = "read" -> "READ"
                 [] OTHER -> "WRIT",
            fdc[c].track)

AskStatus(c) ==
    /\ fdc[c] = Idle
    /\ Transmit(c, Command(c, "STAT", NoTrack))
    /\ fdc' = [fdc EXCEPT ![c].pc = "stat"]
    /\ UNCHANGED <<link, srv, engine, acked, tx, writes, changes>>

AskRead(c, t) ==
    /\ fdc[c] = Idle
    /\ Transmit(c, Command(c, "READ", t))
    /\ fdc' = [fdc EXCEPT ![c] = [pc |-> "read", track |-> t, write |-> 0]]
    /\ UNCHANGED <<link, srv, engine, acked, tx, writes, changes>>

AskWrite(c, t) ==
    /\ fdc[c] = Idle
    /\ writes < MaxWrites
    /\ writes' = writes + 1
    /\ Transmit(c, Command(c, "WRIT", t))
    /\ fdc' = [fdc EXCEPT ![c] = [pc |-> "writ", track |-> t, write |-> writes + 1]]
    /\ UNCHANGED <<link, srv, engine, acked, tx, changes>>

\* A response of the kind the controller waits for ends the wait; it cannot tell
\* which command a response is about.
Expected(c) ==
    /\ tx[c] # << >>
    /\ Head(tx[c]).op = CASE fdc[c].pc = "stat" -> "STAT"
                          [] fdc[c].pc = "read" -> "DATA"
                          [] fdc[c].pc = "writ" -> "WRIT"
                          [] fdc[c].pc = "wsta" -> "WSTA"
                          [] OTHER -> "nothing"

Consume(c) == tx' = [tx EXCEPT ![c] = Tail(@)]

IgnoreResponse(c) ==
    /\ tx[c] # << >> /\ ~Expected(c)
    /\ Consume(c)
    /\ UNCHANGED <<link, rx, srv, engine, controllers, faults, changes>>

\* Told to go on, the controller sends the track.
SendTrack(c) ==
    /\ Expected(c) /\ fdc[c].pc = "writ" /\ Head(tx[c]).code = "OK"
    /\ Consume(c)
    /\ Transmit(c, Block(c, fdc[c].track, fdc[c].write))
    /\ fdc' = [fdc EXCEPT ![c].pc = "wsta"]
    /\ UNCHANGED <<link, srv, engine, acked, writes, changes>>

\* Any other answer is final.
Finish(c) ==
    /\ Expected(c) /\ ~(fdc[c].pc = "writ" /\ Head(tx[c]).code = "OK")
    /\ Consume(c)
    /\ fdc' = [fdc EXCEPT ![c] = Idle]
    /\ acked' = IF fdc[c].pc = "wsta" /\ Head(tx[c]).code = "OK"
                THEN [acked EXCEPT ![fdc[c].track] = fdc[c].write]
                ELSE acked
    /\ UNCHANGED <<link, rx, srv, engine, writes, faults, changes>>

\* The loop waits for more bytes than there are.  (An orphaned wait for a command
\* began before its port was opened again: it ends first.)
Starved ==
    \/ srv.pc = "command" /\ ~Ready /\ ~orphan
    \/ srv.pc = "data" /\ ~Ready
    \/ srv.pc = "poll" /\ Len(rx) < Frame("command")

\* A controller waits a second.  "timely": the loop answers within that second
\* whatever it has begun to serve, and is not paused for as long; so a controller
\* gives up only on a loop that waits for more bytes, or on a closed port.  Over a
\* WebSocket nothing is lost, and a controller waits.
TimedOut(c) ==
    /\ transport = "serial"
    /\ fdc[c] # Idle
    /\ tx[c] = << >>
    /\ \/ Timing = "early"
       \/ Timing = "timely" /\ Starved
       \/ Timing = "timely" /\ srv.pc = "poll" /\ c \notin wired

Retry(c) ==
    /\ TimedOut(c)
    /\ Transmit(c, CommandOf(c))
    /\ fdc' = [fdc EXCEPT ![c].pc = IF @ = "wsta" THEN "writ" ELSE @]
    /\ UNCHANGED <<link, srv, engine, acked, tx, writes, changes>>

GiveUp(c) ==
    /\ TimedOut(c)
    /\ fdc' = [fdc EXCEPT ![c] = Idle]
    /\ UNCHANGED <<link, rx, srv, engine, acked, tx, writes, faults, changes>>

-----------------------------------------------------------------------------
ServerStep ==
    \/ Poll \/ CommandTimeout \/ IgnoreFrame \/ ServeStat \/ ServeRead \/ ReadDone
    \/ ServeWrit \/ DatasyncDone \/ DataTimeout \/ DataDamaged \/ WriteRejected
    \/ BeginWrite \/ WriteDone \/ WriteFails

Ask(c) ==
    \/ AskStatus(c)
    \/ \E t \in Track : AskRead(c, t) \/ AskWrite(c, t)

Answered(c) == IgnoreResponse(c) \/ SendTrack(c) \/ Finish(c)

-----------------------------------------------------------------------------
(* Properties *)

\* Every variable holds a value of its type.
FdcTypeOK ==
    /\ transport \in Transports
    /\ peer \in Client \cup {NoClient} /\ wired \subseteq Client
    /\ rx \in Seq(Token) /\ Len(rx) <= MaxQueue
    /\ orphan \in BOOLEAN /\ paused \in BOOLEAN
    /\ srv \in Srv
    /\ drive \in {"ready", "protected", "absent"}
    /\ disk \in [Track -> Message \cup {Noise}]
    /\ fdcErrno \in FdcError
    /\ fdc \in [Client -> Fdc]
    /\ acked \in [Track -> 0 .. MaxWrites]
    /\ tx \in [Client -> Seq(Response)]
    /\ writes \in 0 .. MaxWrites /\ faults \in 0 .. MaxFaults /\ changes \in Nat

\* A track holds a whole block that a controller sent for that track, although blocks
\* on the wire do not say where they belong: never another track's, never the bytes
\* of a command or of two messages.
TrackHoldsSentBlock ==
    /\ FdcTypeOK
    /\ \A t \in Track : disk[t].op = "DATA" /\ disk[t].track = t

\* A controller that takes a track of data for the answer to its READ has got the
\* track it asked for.
ReadGetsItsTrack ==
    [][\A c \in Client :
          fdc[c].pc = "read" /\ fdc'[c] = Idle /\ tx'[c] # tx[c]
              => /\ Head(tx[c]).about.track = fdc[c].track
                 /\ Head(tx[c]).block.track = fdc[c].track]_vars

\* A write reported as successful is on the disk: WSTA carries the "Final status of
\* the write command after receiving the track data".
AcknowledgedIsOnDisk ==
    \A t \in Track : disk[t].write >= acked[t]

\* "The server never sends an unsolicited message": what a controller receives is
\* about a command of its own.
NoUnsolicitedResponse ==
    \A c \in Client : \A i \in DOMAIN tx[c] : tx[c][i].about.from = c

\* However the serial line fails, every command is answered in the end: the loop finds its
\* place again in a broken stream, and the retry gets through.  Only the READ of a
\* drive that is not there is never answered.
EveryCommandAnswered ==
    \A c \in Client :
        fdc[c] # Idle /\ transport = "serial"
            ~> fdc[c] = Idle \/ (fdc[c].pc = "read" /\ drive = "absent")
=============================================================================
