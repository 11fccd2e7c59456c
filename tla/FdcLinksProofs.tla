--------------------------- MODULE FdcLinksProofs ---------------------------
(***************************************************************************)
(* What holds of the command loop on either transport, for any sizes of    *)
(* frames, tracks, controllers and faults, and whenever a controller on    *)
(* the line stops waiting.                                                 *)
(*                                                                         *)
(* A frame does not say where its data belongs.  On the serial line the    *)
(* stream does: what comes before the first byte of a track is the end of  *)
(* a WRIT for it, so that a loop that has just taken a WRIT and finds a    *)
(* whole track next has the right one (SerialInv).  On a WebSocket nothing *)
(* is lost, and the loop and its controller go in step (Lockstep).         *)
(*                                                                         *)
(* A controller that waits in time takes turns with the loop on the line   *)
(* as well (LineInv): then reads get their track, and a success is true    *)
(* (AckInv).                                                               *)
(***************************************************************************)
EXTENDS FdcLinks, SequenceTheorems, TLAPS

\* The first token of a track.
Begins(tok) == tok.part = 1 /\ tok.msg.op = "DATA"

TokensOK == \A i \in DOMAIN rx :
    rx[i].msg # Noise /\ rx[i].msg.op # "STAT" => rx[i].msg.track \in Track

SrvOK ==
    /\ srv.pc \in {"command", "poll"} => srv = Waiting(srv.pc)
    /\ srv.pc = "read" => srv.cmd.op = "READ"
    /\ srv.pc \in {"datasync", "data", "write"} => srv.cmd.op = "WRIT"
    /\ srv.pc \notin {"command", "poll"} => srv.cmd.track \in Track
    /\ srv.pc = "write" => srv.block.op = "DATA" /\ srv.block.track = srv.cmd.track

FdcOK == \A c \in Client :
    /\ fdc[c].pc = "idle" => fdc[c] = Idle
    /\ fdc[c].pc \in {"read", "writ", "wsta"} => fdc[c].track \in Track
    /\ fdc[c].pc = "stat" => fdc[c].track = NoTrack

DiskOK == \A t \in Track : disk[t].op = "DATA" /\ disk[t].track = t

Common == FdcTypeOK /\ TokensOK /\ SrvOK /\ FdcOK /\ DiskOK

-----------------------------------------------------------------------------
(* The serial line *)

PortOK ==
    /\ peer \in {Controller, NoClient}
    /\ wired = {peer} \ {NoClient}
    /\ peer = NoClient => rx = << >> /\ (srv.pc = "poll" \/ orphan)
    /\ orphan => srv.pc \in {"command", "data"}

\* Everything is about commands of the one controller.
OwnOK ==
    /\ \A i \in DOMAIN rx : rx[i].msg = Noise \/ rx[i].msg.from = Controller
    /\ srv.cmd = Noise \/ srv.cmd.from = Controller
    /\ \A c \in Client : tx[c] # << >> => c = Controller
    /\ \A i \in DOMAIN tx[Controller] : tx[Controller][i].about.from = Controller

\* What comes before a track on the line.
Announces(m, t) == m = Noise \/ (m.op = "WRIT" /\ m.track = t)

StreamOK ==
    /\ \A i \in DOMAIN rx : i > 1 /\ Begins(rx[i]) => Announces(rx[i - 1].msg, rx[i].msg.track)
    /\ fdc[Controller].pc = "writ" /\ rx # << >> =>
         Announces(rx[Len(rx)].msg, fdc[Controller].track)

\* The loop has taken a WRIT, and nothing since.
HeadOK == srv.pc \in {"datasync", "data"} /\ ~orphan =>
    /\ rx # << >> /\ Begins(rx[1]) => rx[1].msg.track = srv.cmd.track
    /\ rx = << >> /\ fdc[Controller].pc = "writ" => fdc[Controller].track = srv.cmd.track

SerialInv == PortOK /\ OwnOK /\ StreamOK /\ HeadOK

-----------------------------------------------------------------------------
(* The shared WebSocket *)

\* The response r ends the wait of c.
Ends(c, r) ==
    \/ fdc[c].pc = "stat" /\ r.op = "STAT"
    \/ fdc[c].pc = "read" /\ r.op = "DATA"
    \/ fdc[c].pc = "writ" /\ r.op = "WRIT" /\ r.code # "OK"
    \/ fdc[c].pc = "wsta" /\ r.op = "WSTA"

\* The loop is between two commands.
Between(c) ==
    \/ fdc[c].pc = "idle" /\ rx = << >> /\ tx[c] = << >>
    \/ fdc[c].pc \in {"stat", "read", "writ"} /\ rx = Tokens(CommandOf(c)) /\ tx[c] = << >>
    \/ rx = << >> /\ Len(tx[c]) = 1 /\ Ends(c, tx[c][1])
    \/ fdc[c].pc = "read" /\ rx = << >> /\ tx[c] = << >>

\* The controller has been told to go on, or has sent its track.
Sending(c) ==
    /\ srv.cmd = Command(c, "WRIT", fdc[c].track)
    /\ \/ /\ fdc[c].pc = "writ" /\ rx = << >>
          /\ Len(tx[c]) = 1 /\ tx[c][1].op = "WRIT" /\ tx[c][1].code = "OK"
       \/ /\ fdc[c].pc = "wsta" /\ tx[c] = << >>
          /\ rx = Tokens(Block(c, fdc[c].track, fdc[c].write))

\* The loop serves what c waits for.
Serving(c) ==
    /\ rx = << >> /\ tx[c] = << >>
    /\ srv.pc = "read" => fdc[c].pc = "read" /\ srv.cmd = CommandOf(c)
    /\ srv.pc = "datasync" => fdc[c].pc = "writ" /\ srv.cmd = CommandOf(c)
    /\ srv.pc = "write" =>
         /\ fdc[c].pc = "wsta" /\ srv.cmd = Command(c, "WRIT", fdc[c].track)
         /\ srv.block = Block(c, fdc[c].track, fdc[c].write)

Lockstep(c) ==
    /\ srv.pc \in {"command", "poll"} => Between(c)
    /\ srv.pc = "data" => Sending(c)
    /\ srv.pc \in {"read", "datasync", "write"} => Serving(c)

WsInv ==
    /\ ~orphan /\ ~paused
    /\ \A c, d \in wired : c = d
    /\ \A c \in Client \ wired : fdc[c] = Idle /\ tx[c] = << >>
    /\ \A c \in Client : \A i \in DOMAIN tx[c] : tx[c][i].about.from = c
    /\ peer = NoClient => srv.pc \notin {"command", "data"}
    /\ \A c \in Client : peer = c => c \in wired /\ Lockstep(c)

IndInv ==
    /\ Common
    /\ transport = "serial" => SerialInv
    /\ transport = "ws" => WsInv

\* One controller at a time, and a port that is closed when the loop is at rest.
OneByOne == ~Displaces /\ Reconfigures # "anytime"

-----------------------------------------------------------------------------
(* Frames and tokens *)

LEMMA Sizes ==
    /\ \A op : Frame(op) \in Nat \ {0}
    /\ \A op : op # "DATA" => Frame(op) = Frame("command") /\ Frame(op) < Frame("DATA")
    /\ transport = "serial" => \A op : Frame(op) > 1
<1>1. CmdSize \in Nat \ {0} /\ DataSize \in Nat /\ CmdSize < DataSize
    BY SizesAssumption
<1> QED
    BY <1>1 DEF Frame, Checksums

LEMMA NoiseIsNoMessage == Noise \notin Message /\ Noise.op = "noise" /\ Noise.track = NoTrack
    BY DEF Noise, Message

LEMMA Given ==
    /\ NoTrack \notin Track /\ NoClient \notin Client /\ Controller \in Client
    /\ MaxWrites \in Nat /\ MaxFaults \in Nat /\ MaxChanges \in Nat /\ MaxQueue \in Nat
    BY NamesAssumption, ControllerAssumption, FdcBoundsAssumption

LEMMA TokensAre ==
    ASSUME NEW m \in Message
    PROVE  /\ Tokens(m) \in Seq(Token) /\ Len(Tokens(m)) = Frame(m.op)
           /\ \A i \in 1 .. Frame(m.op) : Tokens(m)[i] = [msg |-> m, part |-> i]
<1>1. Frame(m.op) \in Nat
    BY Sizes
<1>2. \A i \in 1 .. Frame(m.op) : [msg |-> m, part |-> i] \in Token
    BY <1>1 DEF Token
<1>3. Tokens(m) \in [1 .. Frame(m.op) -> Token]
    BY <1>2 DEF Tokens
<1>4. Tokens(m) \in Seq(Token) /\ Len(Tokens(m)) = Frame(m.op)
    BY <1>1, <1>3
<1> QED
    BY <1>4 DEF Tokens

\* What may arrive of m on the line that starts with the tokens of m.
Arrived(m, s) ==
    /\ s \in Seq(Token) /\ Len(s) \in 1 .. Frame(m.op)
    /\ \A i \in 1 .. Len(s) : s[i].msg \in {m, Noise} /\ (Begins(s[i]) => i = 1)
    /\ s[1].msg = m => s[1].part = 1 \/ (s[1].part = 2 /\ Len(s) = Frame(m.op) - 1)
    /\ "garble" \notin LineFaults /\ Len(s) = Frame(m.op) => s = Tokens(m)

LEMMA WholeArrives ==
    ASSUME NEW m \in Message
    PROVE  Arrived(m, Tokens(m))
<1> DEFINE n == Frame(m.op)
           t == Tokens(m)
<1>1. /\ n \in Nat \ {0} /\ t \in Seq(Token) /\ Len(t) = n
      /\ \A i \in 1 .. n : t[i] = [msg |-> m, part |-> i]
    BY TokensAre, Sizes
<1> HIDE DEF n, t
<1>2. \A i \in 1 .. n : t[i].msg = m /\ t[i].part = i
    BY <1>1
<1>3. t[1].part = 1 /\ t = Tokens(m)
    BY <1>1, <1>2 DEF t
<1>4. Arrived(m, t)
    BY <1>1, <1>2, <1>3 DEF Arrived, Begins, n
<1> QED
    BY <1>4 DEF t

LEMMA ArrivalsAre ==
    ASSUME transport = "serial", NEW m \in Message, NEW s \in Arrivals(m)
    PROVE  Arrived(m, s)
<1> DEFINE t == Tokens(m)
           n == Frame(m.op)
<1>1. /\ t \in Seq(Token) /\ Len(t) = n /\ DOMAIN t = 1 .. n
      /\ \A i \in 1 .. n : t[i] = [msg |-> m, part |-> i]
      /\ n \in Nat /\ n > 1
    BY TokensAre, Sizes
<1> HIDE DEF t, n
<1>2. ASSUME "garble" \in LineFaults, NEW i \in 1 .. n,
             s = [t EXCEPT ![i] = [msg |-> Noise, part |-> 0]]
      PROVE  Arrived(m, s)
    <2>1. [msg |-> Noise, part |-> 0] \in Token
        BY DEF Token
    <2>2. /\ s \in Seq(Token) /\ Len(s) = n
          /\ \A j \in 1 .. n : s[j] = IF j = i THEN [msg |-> Noise, part |-> 0] ELSE t[j]
        BY <1>1, <1>2, <2>1, ExceptSeq
    <2>3. \A j \in 1 .. n : s[j].msg \in {m, Noise} /\ (s[j].part = 1 => j = 1)
        BY <1>1, <2>2
    <2>4. s[1].msg = m => s[1].part = 1
        <3>1. 1 \in 1 .. n /\ m # Noise
            BY <1>1, NoiseIsNoMessage
        <3> QED
            BY <1>1, <2>2, <3>1
    <2> QED
        BY <1>1, <1>2, <2>2, <2>3, <2>4 DEF Arrived, Begins, n
<1>3. ASSUME NEW i \in 1 .. n, s = RemoveAt(t, i)
      PROVE  Arrived(m, s)
    <2> DEFINE a == SubSeq(t, 1, i - 1)
               b == SubSeq(t, i + 1, Len(t))
    <2>1. \A j \in 1 .. n : t[j] \in Token
        BY <1>1, ElementOfSeq
    <2>2. i - 1 \in Int /\ i + 1 \in Int /\ 1 \in Int
        BY <1>1
    <2>3. /\ a \in Seq(Token) /\ Len(a) = i - 1
          /\ \A j \in 1 .. i - 1 : a[j] = t[j]
        <3>1. \A j \in 1 .. i - 1 : t[j] \in Token
            BY <1>1, <2>1
        <3>2. /\ SubSeq(t, 1, i - 1) \in Seq(Token)
              /\ Len(SubSeq(t, 1, i - 1)) = IF 1 <= i - 1 THEN (i - 1) - 1 + 1 ELSE 0
              /\ \A j \in 1 .. (i - 1) - 1 + 1 : SubSeq(t, 1, i - 1)[j] = t[1 + j - 1]
            BY <2>2, <3>1, SubSeqProperties
        <3> QED
            BY <1>1, <3>2
    <2>4. /\ b \in Seq(Token) /\ Len(b) = n - i
          /\ \A j \in 1 .. n - i : b[j] = t[i + j]
        <3>1. \A j \in i + 1 .. n : t[j] \in Token
            BY <1>1, <2>1
        <3>2. /\ SubSeq(t, i + 1, n) \in Seq(Token)
              /\ Len(SubSeq(t, i + 1, n)) = IF i + 1 <= n THEN n - (i + 1) + 1 ELSE 0
              /\ \A j \in 1 .. n - (i + 1) + 1 : SubSeq(t, i + 1, n)[j] = t[(i + 1) + j - 1]
            BY <1>1, <2>2, <3>1, SubSeqProperties
        <3> QED
            BY <1>1, <3>2
    <2>5. s = a \o b
        BY <1>3 DEF RemoveAt
    <2> HIDE DEF a, b
    <2>6. /\ s \in Seq(Token) /\ Len(s) = n - 1
          /\ \A j \in 1 .. n - 1 : s[j] = IF j <= i - 1 THEN a[j] ELSE b[j - (i - 1)]
        <3>1. /\ a \o b \in Seq(Token) /\ Len(a \o b) = Len(a) + Len(b)
              /\ \A j \in 1 .. Len(a) + Len(b) :
                    (a \o b)[j] = IF j <= Len(a) THEN a[j] ELSE b[j - Len(a)]
            BY <2>3, <2>4, ConcatProperties
        <3> QED
            BY <1>1, <2>3, <2>4, <2>5, <3>1
    <2>7. \A j \in 1 .. n - 1 : s[j] = t[j] \/ (s[j] = t[j + 1] /\ j + 1 \in 1 .. n)
        <3> SUFFICES ASSUME NEW j \in 1 .. n - 1
                     PROVE  s[j] = t[j] \/ (s[j] = t[j + 1] /\ j + 1 \in 1 .. n)
            OBVIOUS
        <3>1. CASE j <= i - 1
            BY <1>1, <2>3, <2>6, <3>1
        <3>2. CASE ~(j <= i - 1)
            <4>1. j - (i - 1) \in 1 .. n - i /\ i + (j - (i - 1)) = j + 1
                BY <1>1, <3>2
            <4>2. s[j] = t[i + (j - (i - 1))]
                BY <2>4, <2>6, <3>2, <4>1
            <4> QED
                BY <1>1, <4>1, <4>2
        <3> QED
            BY <3>1, <3>2
    <2>8. \A j \in 1 .. n - 1 : s[j].msg = m /\ (s[j].part = 1 => j = 1)
        BY <1>1, <2>7
    <2>9. s[1].part \in {1, 2}
        <3>1. 1 \in 1 .. n - 1
            BY <1>1
        <3> QED
            BY <1>1, <2>7, <3>1
    <2> QED
        BY <1>1, <2>6, <2>8, <2>9 DEF Arrived, Begins, n
<1> QED
    BY <1>1, <1>2, <1>3 DEF Arrivals, t

LEMMA DecodedIs ==
    /\ \A m \in Message : Decoded(Tokens(m)) = m
    /\ \A s : Decoded(s) # Noise => s = Tokens(Decoded(s))
<1>1. ASSUME NEW m \in Message PROVE Decoded(Tokens(m)) = m
    <2>2. Frame(m.op) \in Nat \ {0} /\ \A i \in 1 .. Frame(m.op) : Tokens(m)[i] = [msg |-> m, part |-> i]
        BY TokensAre, Sizes
    <2>1. Tokens(m)[1] = [msg |-> m, part |-> 1]
        BY <2>2
    <2> QED
        BY <2>1 DEF Decoded
<1> QED
    BY <1>1 DEF Decoded

-----------------------------------------------------------------------------
(* Taking and sending *)

\* The loop takes a frame: what is left follows it.
LEMMA TakeLeaves ==
    ASSUME FdcTypeOK, NEW where, Take(where)
    PROVE  /\ srv.pc = where /\ ~orphan /\ Wanted \in 1 .. Len(rx)
           /\ rx' \in Seq(Token) /\ Len(rx') = Len(rx) - Wanted
           /\ \A i \in 1 .. Len(rx') : rx'[i] = rx[Wanted + i]
           /\ Len(rx') <= MaxQueue
<1>1. /\ rx \in Seq(Token) /\ Len(rx) \in Nat /\ Len(rx) <= MaxQueue
      /\ \A i \in 1 .. Len(rx) : rx[i] \in Token
    BY LenProperties, ElementOfSeq DEF FdcTypeOK
<1>2. Wanted \in Nat \ {0} /\ Wanted <= Len(rx) /\ ~orphan /\ srv.pc = where
    BY <1>1, Sizes DEF Take, Ready, Wanted
<1>3. rx' = SubSeq(rx, Wanted + 1, Len(rx))
    BY DEF Take
<1>4. Wanted + 1 \in Int /\ Len(rx) \in Int /\ \A i \in Wanted + 1 .. Len(rx) : rx[i] \in Token
    BY <1>1, <1>2
<1>5. /\ rx' \in Seq(Token)
      /\ Len(rx') = IF Wanted + 1 <= Len(rx) THEN Len(rx) - (Wanted + 1) + 1 ELSE 0
      /\ \A i \in 1 .. Len(rx) - (Wanted + 1) + 1 : rx'[i] = rx[(Wanted + 1) + i - 1]
    BY <1>3, <1>4, SubSeqProperties
<1>6. Len(rx') = Len(rx) - Wanted
    BY <1>1, <1>2, <1>5
<1>7. \A i \in 1 .. Len(rx') : rx'[i] = rx[Wanted + i]
    BY <1>1, <1>2, <1>5, <1>6
<1> QED
    BY <1>1, <1>2, <1>5, <1>6, <1>7, Given

\* A frame that is taken for a message is the message.
LEMMA TakenIs ==
    ASSUME FdcTypeOK, Ready
    PROVE  /\ Taken \in Message \cup {Noise}
           /\ Taken # Noise => /\ Wanted = Frame(Taken.op) /\ Len(rx) >= Wanted
                               /\ \A i \in 1 .. Wanted : rx[i] = [msg |-> Taken, part |-> i]
           /\ \A m \in Message : rx = Tokens(m) /\ Wanted = Frame(m.op) => Taken = m
<1>1. /\ rx \in Seq(Token) /\ Len(rx) \in Nat
      /\ \A i \in 1 .. Len(rx) : rx[i] \in Token
    BY LenProperties, ElementOfSeq DEF FdcTypeOK
<1>2. Wanted \in Nat \ {0} /\ Wanted <= Len(rx)
    BY <1>1, Sizes DEF Ready, Wanted
<1> DEFINE s == SubSeq(rx, 1, Wanted)
<1>3. /\ s \in Seq(Token) /\ Len(s) = Wanted
      /\ \A i \in 1 .. Wanted : s[i] = rx[i]
    <2>1. 1 \in Int /\ Wanted \in Int /\ \A i \in 1 .. Wanted : rx[i] \in Token
        BY <1>1, <1>2
    <2>2. /\ SubSeq(rx, 1, Wanted) \in Seq(Token)
          /\ Len(SubSeq(rx, 1, Wanted)) = IF 1 <= Wanted THEN Wanted - 1 + 1 ELSE 0
          /\ \A i \in 1 .. Wanted - 1 + 1 : SubSeq(rx, 1, Wanted)[i] = rx[1 + i - 1]
        BY <2>1, SubSeqProperties
    <2> QED
        BY <1>2, <2>2
<1>4. Taken = Decoded(s)
    BY DEF Taken
<1> HIDE DEF s
<1>5. s[1].msg \in Message \cup {Noise}
    <2>1. s[1] \in Token
        BY <1>1, <1>2, <1>3
    <2> QED
        BY <2>1 DEF Token
<1>6. Taken \in Message \cup {Noise}
    BY <1>4, <1>5 DEF Decoded
<1>7. ASSUME Taken # Noise
      PROVE  Wanted = Frame(Taken.op) /\ \A i \in 1 .. Wanted : rx[i] = [msg |-> Taken, part |-> i]
    <2>1. s = Tokens(Taken) /\ Taken \in Message
        BY <1>4, <1>6, <1>7, DecodedIs
    <2>2. Len(s) = Frame(Taken.op) /\ \A i \in 1 .. Frame(Taken.op) : s[i] = [msg |-> Taken, part |-> i]
        BY <2>1, TokensAre
    <2> QED
        BY <1>3, <2>2
<1>8. ASSUME NEW m \in Message, rx = Tokens(m), Wanted = Frame(m.op) PROVE Taken = m
    <2>1. Len(rx) = Wanted
        BY <1>8, TokensAre
    <2>2. s = rx
        BY <1>1, <2>1, SubSeqFull DEF s
    <2> QED
        BY <1>4, <1>8, <2>2, DecodedIs
<1> QED
    BY <1>1, <1>2, <1>6, <1>7, <1>8

\* Tokens of m are at the end, behind those that were there.
Extended(m) ==
    /\ Len(rx') > Len(rx) /\ Len(rx') <= Len(rx) + Frame(m.op)
    /\ \A i \in 1 .. Len(rx) : rx'[i] = rx[i]
    /\ \A i \in Len(rx) + 1 .. Len(rx') :
          rx'[i].msg \in {m, Noise} /\ (Begins(rx'[i]) => i = Len(rx) + 1)
    /\ rx'[Len(rx) + 1].msg = m =>
          \/ rx'[Len(rx) + 1].part = 1
          \/ rx'[Len(rx) + 1].part = 2 /\ Len(rx') = Len(rx) + Frame(m.op) - 1
    /\ rx = << >> /\ "garble" \notin LineFaults /\ Len(rx') = Frame(m.op) => rx' = Tokens(m)

LEMMA TransmitExtends ==
    ASSUME FdcTypeOK, NEW c \in Client, NEW m \in Message, Transmit(c, m)
    PROVE  /\ rx' \in Seq(Token) /\ Len(rx') <= MaxQueue /\ faults' \in 0 .. MaxFaults
           /\ c \notin wired => rx' = rx
           /\ c \in wired => Extended(m)
           /\ transport = "ws" /\ c \in wired /\ rx = << >> => rx' = Tokens(m)
<1>1. /\ rx \in Seq(Token) /\ Len(rx) \in Nat /\ faults \in 0 .. MaxFaults /\ MaxFaults \in Nat
      /\ MaxQueue \in Nat /\ Frame(m.op) \in Nat
    BY LenProperties, Given, Sizes DEF FdcTypeOK
<1>2. CASE c \notin wired
    BY <1>1, <1>2 DEF Transmit, FdcTypeOK
<1>3. CASE c \in wired
    <2>1. PICK s : /\ Arrived(m, s) /\ rx' = rx \o s /\ faults' \in 0 .. MaxFaults
                   /\ transport = "ws" => s = Tokens(m)
        <3>1. CASE rx' = rx \o Tokens(m) /\ UNCHANGED faults
            BY <1>1, <3>1, WholeArrives
        <3>2. ASSUME transport = "serial", Fault, NEW s \in Arrivals(m), rx' = rx \o s
              PROVE  Arrived(m, s) /\ faults' \in 0 .. MaxFaults
            BY <1>1, <3>2, ArrivalsAre DEF Fault
        <3>3. \/ rx' = rx \o Tokens(m) /\ UNCHANGED faults
              \/ transport = "serial" /\ Fault /\ \E s \in Arrivals(m) : rx' = rx \o s
            BY <1>3 DEF Transmit
        <3> QED
            BY <3>1, <3>2, <3>3
    <2>2. s \in Seq(Token) /\ Len(s) \in 1 .. Frame(m.op)
        BY <2>1 DEF Arrived
    <2>3. /\ rx' \in Seq(Token) /\ Len(rx') = Len(rx) + Len(s)
          /\ \A i \in 1 .. Len(rx) + Len(s) : rx'[i] = IF i <= Len(rx) THEN rx[i] ELSE s[i - Len(rx)]
        BY <1>1, <2>1, <2>2, ConcatProperties
    <2>4. \A i \in 1 .. Len(rx) : rx'[i] = rx[i]
        BY <1>1, <2>2, <2>3
    <2>5. ASSUME NEW i \in Len(rx) + 1 .. Len(rx')
          PROVE  rx'[i].msg \in {m, Noise} /\ (Begins(rx'[i]) => i = Len(rx) + 1)
        <3>1. i - Len(rx) \in 1 .. Len(s) /\ rx'[i] = s[i - Len(rx)]
            BY <1>1, <2>2, <2>3
        <3>2. s[i - Len(rx)].msg \in {m, Noise} /\ (Begins(s[i - Len(rx)]) => i - Len(rx) = 1)
            BY <2>1, <3>1 DEF Arrived
        <3> QED
            BY <1>1, <3>1, <3>2
    <2>6. Len(rx') <= MaxQueue
        BY <1>1, <2>2, <2>3 DEF Transmit
    <2>7. rx = << >> => rx' = s
        BY <2>1, <2>2, ConcatEmptySeq
    <2>9. rx'[Len(rx) + 1] = s[1]
        <3>1. Len(rx) + 1 \in 1 .. Len(rx) + Len(s) /\ Len(rx) + 1 - Len(rx) = 1
            BY <1>1, <2>2
        <3> QED
            BY <1>1, <2>3, <3>1
    <2>10. /\ s[1].msg = m => s[1].part = 1 \/ (s[1].part = 2 /\ Len(s) = Frame(m.op) - 1)
           /\ "garble" \notin LineFaults /\ Len(s) = Frame(m.op) => s = Tokens(m)
        BY <2>1 DEF Arrived
    <2>11. rx = << >> /\ "garble" \notin LineFaults /\ Len(rx') = Frame(m.op) => rx' = Tokens(m)
        BY <2>7, <2>10
    <2>12. Len(rx') > Len(rx) /\ Len(rx') <= Len(rx) + Frame(m.op)
        BY <1>1, <2>2, <2>3
    <2>13. rx'[Len(rx) + 1].msg = m =>
              \/ rx'[Len(rx) + 1].part = 1
              \/ rx'[Len(rx) + 1].part = 2 /\ Len(rx') = Len(rx) + Frame(m.op) - 1
        BY <1>1, <2>2, <2>3, <2>9, <2>10
    <2>8. Extended(m)
        BY <2>4, <2>5, <2>11, <2>12, <2>13, Zenon DEF Extended
    <2> QED
        BY <1>3, <2>1, <2>3, <2>6, <2>7, <2>8
<1> QED
    BY <1>2, <1>3

\* A response about m is sent, or lost.
Sent(op, code, m) ==
    \/ tx' = tx /\ (peer = NoClient \/ transport = "serial")
    \/ peer \in Client /\ \E r \in Response :
          /\ r.op = op /\ r.code = code /\ r.about = m
          /\ op = "DATA" => r.block.track = m.track
          /\ tx' = [tx EXCEPT ![peer] = Append(tx[peer], r)]

LEMMA DeliverSends ==
    ASSUME FdcTypeOK, NEW op \in {"STAT", "WRIT", "WSTA", "DATA"}, NEW code \in FdcError,
           NEW block \in Message \cup {Noise}, NEW m \in Message,
           srv.cmd = Noise => Taken = m, srv.cmd # Noise => srv.cmd = m,
           op = "DATA" => block.track = m.track,
           Deliver(op, code, block)
    PROVE  tx' \in [Client -> Seq(Response)] /\ Sent(op, code, m)
<1> DEFINE r == [op |-> op, code |-> code, ready |-> drive # "absent", block |-> block, about |-> m]
<1>1. r \in Response
    BY DEF Response
<1>2. (IF srv.cmd = Noise THEN Taken ELSE srv.cmd) = m
    OBVIOUS
<1>3. CASE peer = NoClient
    BY <1>3 DEF Deliver, Sent, FdcTypeOK
<1>4. CASE peer # NoClient
    <2>1. tx' = [tx EXCEPT ![peer] = Append(tx[peer], r)]
        BY <1>2, <1>4 DEF Deliver
    <2>2. peer \in Client /\ tx \in [Client -> Seq(Response)]
        BY <1>4 DEF FdcTypeOK
    <2>3. r.op = op /\ r.code = code /\ r.about = m /\ (op = "DATA" => r.block.track = m.track)
        OBVIOUS
    <2> HIDE DEF r
    <2>4. tx[peer] \in Seq(Response)
        BY <2>2
    <2>5. Append(tx[peer], r) \in Seq(Response)
        BY <1>1, <2>4
    <2> QED
        BY <1>1, <2>1, <2>2, <2>3, <2>5 DEF Sent
<1> QED
    BY <1>3, <1>4

LEMMA RespondSends ==
    ASSUME FdcTypeOK, NEW op \in {"STAT", "WRIT", "WSTA", "DATA"}, NEW code \in FdcError,
           NEW block \in Message \cup {Noise}, NEW m \in Message,
           srv.cmd = Noise => Taken = m, srv.cmd # Noise => srv.cmd = m,
           op = "DATA" => block.track = m.track,
           Respond(op, code, block)
    PROVE  /\ tx' \in [Client -> Seq(Response)] /\ Sent(op, code, m)
           /\ faults' \in 0 .. MaxFaults
<1>1. faults \in 0 .. MaxFaults /\ MaxFaults \in Nat
    BY Given DEF FdcTypeOK
<1>2. CASE Deliver(op, code, block) /\ UNCHANGED faults
    BY <1>1, <1>2, DeliverSends
<1>3. CASE transport = "serial" /\ "mute" \in LineFaults /\ Fault /\ UNCHANGED tx
    BY <1>1, <1>3 DEF Fault, Sent, FdcTypeOK
<1> QED
    BY <1>2, <1>3 DEF Respond

-----------------------------------------------------------------------------
(* Types *)

LEMMA TopIs ==
    /\ Top \in Srv /\ Top = Waiting(Top.pc)
    /\ Top.pc = IF paused \/ peer = NoClient THEN "poll" ELSE "command"
    /\ Top.cmd = Noise
    BY DEF Top, Waiting, Srv

LEMMA FdcInit == LinksInit => Common
<1> SUFFICES ASSUME LinksInit PROVE Common
    OBVIOUS
<1>1. \A t \in Track : Blank(t) \in Message /\ Blank(t).op = "DATA" /\ Blank(t).track = t
    BY Given DEF Blank, Block, Message
<1>2. Idle \in Fdc /\ Waiting("command") \in Srv /\ Idle.pc = "idle" /\ Waiting("command").pc = "command"
    BY Given DEF Idle, Fdc, Waiting, Srv
<1>3. << >> \in Seq(Token) /\ << >> \in Seq(Response) /\ Len(<< >>) = 0
    OBVIOUS
<1>4. FdcTypeOK
    <2>1. /\ transport \in Transports /\ peer \in Client \cup {NoClient} /\ wired \subseteq Client
          /\ rx = << >> /\ orphan \in BOOLEAN /\ paused \in BOOLEAN /\ srv \in Srv
          /\ drive \in {"ready", "protected", "absent"} /\ fdcErrno \in FdcError
        BY <1>2, ZenonT(30) DEF LinksInit, Init, FdcError
    <2>2. /\ disk \in [Track -> Message \cup {Noise}] /\ fdc \in [Client -> Fdc]
        BY <1>1, <1>2 DEF LinksInit, Init
    <2>3. /\ acked \in [Track -> 0 .. MaxWrites] /\ tx \in [Client -> Seq(Response)]
          /\ writes \in 0 .. MaxWrites /\ faults \in 0 .. MaxFaults /\ changes \in Nat
        BY <1>3, Given DEF LinksInit, Init
    <2> QED
        BY <1>3, <2>1, <2>2, <2>3, Given DEF FdcTypeOK
<1>5. TokensOK
    BY DEF LinksInit, Init, TokensOK
<1>6. SrvOK
    BY <1>2 DEF LinksInit, Init, SrvOK
<1>7. FdcOK
    BY <1>2 DEF LinksInit, Init, FdcOK, Idle
<1>8. DiskOK
    BY <1>1 DEF LinksInit, Init, DiskOK
<1> QED
    BY <1>4, <1>5, <1>6, <1>7, <1>8 DEF Common

LEMMA TakeKeepsTokens ==
    ASSUME FdcTypeOK, TokensOK, NEW where, Take(where)
    PROVE  /\ TokensOK'
           /\ Taken # Noise /\ Taken.op # "STAT" => Taken.track \in Track
<1>1. /\ Wanted \in 1 .. Len(rx) /\ rx \in Seq(Token) /\ Len(rx) \in Nat /\ DOMAIN rx = 1 .. Len(rx)
      /\ rx' \in Seq(Token) /\ Len(rx') = Len(rx) - Wanted /\ DOMAIN rx' = 1 .. Len(rx')
      /\ \A i \in 1 .. Len(rx') : rx'[i] = rx[Wanted + i]
    BY TakeLeaves, LenProperties DEF FdcTypeOK
<1>2. ASSUME NEW i \in 1 .. Len(rx'), rx'[i].msg # Noise, rx'[i].msg.op # "STAT"
      PROVE  rx'[i].msg.track \in Track
    <2>1. Wanted + i \in DOMAIN rx /\ rx'[i] = rx[Wanted + i]
        BY <1>1
    <2> QED
        BY <1>2, <2>1 DEF TokensOK
<1>3. ASSUME Taken # Noise, Taken.op # "STAT" PROVE Taken.track \in Track
    <2>1. Ready
        BY DEF Take
    <2>2. rx[1] = [msg |-> Taken, part |-> 1] /\ 1 \in DOMAIN rx
        BY <1>1, <1>3, <2>1, TakenIs
    <2>3. rx[1].msg = Taken
        BY <2>2
    <2> QED
        BY <1>3, <2>2, <2>3 DEF TokensOK
<1> QED
    BY <1>1, <1>2, <1>3 DEF TokensOK

LEMMA LeftoverKeepsTokens ==
    ASSUME FdcTypeOK, TokensOK, NEW where, TimeOut(where)
    PROVE  /\ rx' \in Seq(Token) /\ Len(rx') <= MaxQueue /\ TokensOK'
           /\ rx' = rx \/ rx' = << >>
           /\ srv.pc = where /\ orphan' = FALSE
<1>1. (rx' = rx \/ rx' = << >>) /\ srv.pc = where /\ orphan' = FALSE
    BY DEF TimeOut, Leftover
<1>2. CASE rx' = rx
    BY <1>1, <1>2 DEF TokensOK, FdcTypeOK
<1>3. CASE rx' = << >>
    <2>1. << >> \in Seq(Token) /\ Len(<< >>) = 0 /\ DOMAIN << >> = {}
        OBVIOUS
    <2> QED
        BY <1>1, <1>3, <2>1, Given DEF TokensOK
<1> QED
    BY <1>1, <1>2, <1>3

-----------------------------------------------------------------------------
(* The steps of the loop, by what they do to the stream *)

\* The loop sleeps, or looks again.
Looks ==
    /\ UNCHANGED <<tx, disk>>
    /\ \/ /\ srv.pc = "poll" /\ srv' = Waiting("command") /\ peer # NoClient
          /\ UNCHANGED <<rx, orphan>>
       \/ TimeOut("command") /\ srv' = Waiting("poll")

\* It takes a command.
Commanded ==
    /\ Take("command") /\ UNCHANGED <<disk, orphan>>
    /\ \/ Taken.op \notin {"STAT", "WRIT"} /\ tx' = tx /\ srv' = Top
       \/ Taken.op = "STAT" /\ Sent("STAT", "OK", Taken) /\ srv' = Top
       \/ Taken.op = "WRIT" /\ Sent("WRIT", "NOT_READY", Taken) /\ srv' = Top
       \/ Taken.op = "READ" /\ tx' = tx /\ srv' = [Waiting("read") EXCEPT !.cmd = Taken]
       \/ Taken.op = "WRIT" /\ tx' = tx /\ srv' = [Waiting("datasync") EXCEPT !.cmd = Taken]

\* The engine has read, or written.
Served ==
    /\ UNCHANGED <<rx, orphan>> /\ srv' = Top
    /\ \/ /\ srv.pc = "read" /\ disk' = disk
          /\ tx' = tx \/ Sent("DATA", "OK", srv.cmd)
       \/ /\ srv.pc = "write"
          /\ disk' \in {disk, [disk EXCEPT ![srv.cmd.track] = srv.block]}
          /\ \E code \in FdcError :
                /\ Sent("WSTA", code, srv.cmd)
                /\ code = "OK" => disk' = [disk EXCEPT ![srv.cmd.track] = srv.block]

\* The controller may go on.
Synced ==
    /\ srv.pc = "datasync" /\ UNCHANGED <<rx, orphan, disk>>
    /\ Sent("WRIT", "OK", srv.cmd)
    /\ srv' = IF peer = NoClient THEN Top ELSE [srv EXCEPT !.pc = "data"]

\* The track does not come, or cannot be written.
Refused ==
    /\ \/ TimeOut("data") /\ \A c \in Client : OutWaited(c)
       \/ Take("data") /\ UNCHANGED orphan
    /\ srv' = Top /\ disk' = disk
    /\ \E code \in FdcError :
          /\ Sent("WSTA", code, srv.cmd)
          /\ code = "OK" => TimeOut("data") \/ (transport = "serial" /\ Taken = Noise)

\* The track has come.
Received ==
    /\ Take("data") /\ UNCHANGED <<disk, orphan, tx>>
    /\ transport = "serial" => Taken # Noise
    /\ srv' = [srv EXCEPT !.pc = "write", !.block = Taken]

Rest == <<transport, peer, wired, paused, drive, fdc, acked, writes, changes>>

LEMMA ServerCases ==
    ASSUME Common, ServerStep
    PROVE  /\ UNCHANGED Rest
           /\ tx' \in [Client -> Seq(Response)] /\ faults' \in 0 .. MaxFaults
           /\ fdcErrno' \in FdcError
           /\ Looks \/ Commanded \/ Served \/ Synced \/ Refused \/ Received
<1>0. /\ FdcTypeOK /\ SrvOK /\ TokensOK /\ DiskOK
      /\ tx \in [Client -> Seq(Response)] /\ faults \in 0 .. MaxFaults /\ fdcErrno \in FdcError
      /\ disk \in [Track -> Message \cup {Noise}] /\ transport \in {"serial", "ws"}
      /\ MaxFaults \in Nat /\ Noise \notin Message /\ Noise.op = "noise"
      /\ Noise \in Message \cup {Noise}
    BY NoiseIsNoMessage, Given, ChoicesAssumption DEF Common, FdcTypeOK
<1> USE DEF link, engine, controllers
<1>1. CASE Poll
    <2>1. /\ UNCHANGED Rest /\ UNCHANGED <<tx, disk, rx, orphan, faults, fdcErrno>>
          /\ srv.pc = "poll" /\ srv' = Top /\ Top.pc = "command"
        BY <1>1, Zenon DEF Poll, Rest
    <2>2. srv' = Waiting("command") /\ peer # NoClient
        BY <2>1, TopIs
    <2> QED
        BY <1>0, <2>1, <2>2 DEF Looks
<1>2. CASE CommandTimeout
    <2>1. /\ TimeOut("command") /\ srv' = Waiting("poll")
          /\ UNCHANGED <<drive, disk, fdcErrno, fdc, acked, writes, tx, faults, changes>>
        BY <1>2, Zenon DEF CommandTimeout
    <2>2. UNCHANGED <<transport, peer, wired, paused>>
        BY <2>1, Zenon DEF TimeOut
    <2> QED
        BY <1>0, <2>1, <2>2 DEF Looks, Rest
<1>3. CASE IgnoreFrame
    <2>1. /\ Take("command") /\ srv' = Top /\ Taken.op \notin {"STAT", "READ", "WRIT"}
          /\ UNCHANGED Rest /\ UNCHANGED <<tx, disk, orphan, faults, fdcErrno>>
        BY <1>3, Zenon DEF IgnoreFrame, Rest
    <2> QED
        BY <1>0, <2>1 DEF Commanded
<1>4. ASSUME Take("command"), Taken.op \in {"STAT", "READ", "WRIT"}
      PROVE  Taken \in Message /\ srv.cmd = Noise
    <2>1. srv.pc = "command" /\ Ready
        BY <1>4, Zenon DEF Take
    <2>2. Taken \in Message \cup {Noise}
        BY <1>0, <2>1, TakenIs
    <2>3. srv = Waiting("command")
        BY <1>0, <2>1 DEF SrvOK
    <2> QED
        BY <1>0, <1>4, <2>2, <2>3 DEF Waiting
<1>5. CASE ServeStat
    <2>1. /\ Take("command") /\ srv' = Top /\ Taken.op = "STAT"
          /\ UNCHANGED Rest /\ UNCHANGED <<disk, orphan, fdcErrno>>
          /\ Respond("STAT", "OK", Noise)
        BY <1>5, Zenon DEF ServeStat, Rest
    <2>2. PICK m \in Message : m = Taken
        BY <1>4, <2>1
    <2>3. /\ tx' \in [Client -> Seq(Response)] /\ Sent("STAT", "OK", m) /\ faults' \in 0 .. MaxFaults
        <3>1. srv.cmd = Noise /\ "OK" \in FdcError
            BY <1>4, <2>1 DEF FdcError
        <3> QED
            BY <1>0, <2>1, <2>2, <3>1, RespondSends
    <2> QED
        BY <1>0, <2>1, <2>2, <2>3 DEF Commanded
<1>6. CASE ServeRead
    <2>1. /\ Take("command") /\ Taken.op = "READ"
          /\ UNCHANGED Rest /\ UNCHANGED <<tx, disk, orphan, faults>>
          /\ \/ srv' = Top /\ fdcErrno' = "NOT_READY"
             \/ srv' = [Waiting("read") EXCEPT !.cmd = Taken] /\ UNCHANGED fdcErrno
        BY <1>6, Zenon DEF ServeRead, Rest
    <2> QED
        BY <1>0, <2>1 DEF Commanded, FdcError
<1>7. CASE ServeWrit
    <2>1. /\ Take("command") /\ Taken.op = "WRIT"
          /\ UNCHANGED Rest /\ UNCHANGED <<disk, orphan, fdcErrno>>
          /\ \/ /\ srv' = [Waiting("datasync") EXCEPT !.cmd = Taken]
                /\ UNCHANGED <<tx, faults>>
             \/ Respond("WRIT", "NOT_READY", Noise) /\ srv' = Top
        BY <1>7, Zenon DEF ServeWrit, Rest
    <2>2. PICK m \in Message : m = Taken
        BY <1>4, <2>1
    <2>3. ASSUME Respond("WRIT", "NOT_READY", Noise)
          PROVE  /\ tx' \in [Client -> Seq(Response)] /\ Sent("WRIT", "NOT_READY", m)
                 /\ faults' \in 0 .. MaxFaults
        <3>1. srv.cmd = Noise /\ "NOT_READY" \in FdcError
            BY <1>4, <2>1 DEF FdcError
        <3> QED
            BY <1>0, <2>2, <2>3, <3>1, RespondSends
    <2> QED
        BY <1>0, <2>1, <2>2, <2>3 DEF Commanded
<1>8. ASSUME srv.pc \in {"read", "datasync", "data", "write"}
      PROVE  srv.cmd \in Message /\ srv.cmd # Noise /\ srv.cmd.track \in Track
    <2>1. srv \in Srv
        BY <1>0 DEF FdcTypeOK
    <2> QED
        BY <1>0, <1>8, <2>1, Given DEF Srv, SrvOK, Noise
<1>9. CASE ReadDone
    <2>1. /\ srv.pc = "read" /\ srv' = Top
          /\ UNCHANGED Rest /\ UNCHANGED <<rx, disk, orphan>>
          /\ \/ Respond("DATA", "OK", disk[srv.cmd.track]) /\ fdcErrno' = "OK"
             \/ Fault /\ fdcErrno' = "NOT_READY" /\ UNCHANGED tx
        BY <1>9, Zenon DEF ReadDone, Rest
    <2>2. CASE Respond("DATA", "OK", disk[srv.cmd.track]) /\ fdcErrno' = "OK"
        <3>1. PICK m \in Message : m = srv.cmd
            BY <1>8, <2>1
        <3>2. /\ disk[srv.cmd.track] \in Message \cup {Noise} /\ "OK" \in FdcError /\ srv.cmd # Noise
              /\ disk[srv.cmd.track].track = srv.cmd.track
            BY <1>0, <1>8, <2>1 DEF FdcError, DiskOK
        <3>3. /\ tx' \in [Client -> Seq(Response)] /\ Sent("DATA", "OK", m)
              /\ faults' \in 0 .. MaxFaults
            BY <1>0, <2>2, <3>1, <3>2, RespondSends
        <3> QED
            BY <2>1, <2>2, <3>1, <3>2, <3>3 DEF Served
    <2>3. CASE Fault /\ fdcErrno' = "NOT_READY" /\ UNCHANGED tx
        <3>1. faults' \in 0 .. MaxFaults /\ fdcErrno' \in FdcError
            BY <1>0, <2>3 DEF Fault, FdcError
        <3> QED
            BY <1>0, <2>1, <2>3, <3>1 DEF Served
    <2> QED
        BY <2>1, <2>2, <2>3
<1>10. CASE DatasyncDone
    <2>1. /\ srv.pc = "datasync" /\ UNCHANGED Rest /\ UNCHANGED <<rx, disk, orphan, fdcErrno>>
          /\ srv' = (IF peer = NoClient THEN Top ELSE [srv EXCEPT !.pc = "data"])
          /\ Respond("WRIT", "OK", Noise)
        BY <1>10, Zenon DEF DatasyncDone, Rest
    <2>2. PICK m \in Message : m = srv.cmd
        BY <1>8, <2>1
    <2>3. srv.cmd # Noise /\ "OK" \in FdcError
        BY <1>8, <2>1 DEF FdcError
    <2>4. /\ tx' \in [Client -> Seq(Response)] /\ Sent("WRIT", "OK", m)
          /\ faults' \in 0 .. MaxFaults
        BY <1>0, <2>1, <2>2, <2>3, RespondSends
    <2> QED
        BY <1>0, <2>1, <2>2, <2>4 DEF Synced
<1>11. ASSUME srv.pc \in {"data", "write"}, NEW code \in FdcError,
              Respond("WSTA", code, Noise) \/ (Deliver("WSTA", code, Noise) /\ Fault)
       PROVE  /\ tx' \in [Client -> Seq(Response)] /\ Sent("WSTA", code, srv.cmd)
              /\ faults' \in 0 .. MaxFaults
    <2>1. PICK m \in Message : m = srv.cmd
        BY <1>8, <1>11
    <2>2. srv.cmd # Noise
        BY <1>8, <1>11
    <2>3. CASE Respond("WSTA", code, Noise)
        BY <1>0, <2>1, <2>2, <2>3, RespondSends
    <2>4. CASE Deliver("WSTA", code, Noise) /\ Fault
        <3>1. faults' \in 0 .. MaxFaults
            BY <1>0, <2>4 DEF Fault
        <3> QED
            BY <1>0, <2>1, <2>2, <2>4, <3>1, DeliverSends
    <2> QED
        BY <1>11, <2>3, <2>4
<1>12. CASE DataTimeout
    <2>1. /\ TimeOut("data") /\ srv' = Top /\ Respond("WSTA", fdcErrno, Noise)
          /\ \A c \in Client : OutWaited(c)
          /\ UNCHANGED <<drive, disk, fdcErrno, fdc, acked, writes, changes>>
        BY <1>12, Zenon DEF DataTimeout, StaleCode
    <2>2. UNCHANGED <<transport, peer, wired, paused>> /\ srv.pc = "data"
        BY <2>1, Zenon DEF TimeOut
    <2>3. PICK code \in FdcError : code = fdcErrno
        BY <1>0
    <2>4. /\ tx' \in [Client -> Seq(Response)] /\ Sent("WSTA", code, srv.cmd)
          /\ faults' \in 0 .. MaxFaults
        BY <1>11, <2>1, <2>2, <2>3
    <2> QED
        BY <1>0, <2>1, <2>2, <2>3, <2>4 DEF Refused, Rest
<1>13. CASE DataDamaged
    <2>1. /\ Take("data") /\ srv' = Top /\ Respond("WSTA", fdcErrno, Noise)
          /\ transport = "serial" /\ Taken = Noise
          /\ UNCHANGED Rest /\ UNCHANGED <<disk, orphan, fdcErrno>>
        BY <1>13, Zenon DEF DataDamaged, StaleCode, Rest, Checksums
    <2>2. PICK code \in FdcError : code = fdcErrno
        BY <1>0
    <2>3. srv.pc = "data"
        BY <2>1, Zenon DEF Take
    <2>4. /\ tx' \in [Client -> Seq(Response)] /\ Sent("WSTA", code, srv.cmd)
          /\ faults' \in 0 .. MaxFaults
        BY <1>11, <2>1, <2>2, <2>3
    <2> QED
        BY <1>0, <2>1, <2>2, <2>4 DEF Refused
<1>14. CASE WriteRejected
    <2>1. /\ Take("data") /\ srv' = Top /\ Respond("WSTA", RejectionCode, Noise)
          /\ fdcErrno' = RejectionCode
          /\ UNCHANGED Rest /\ UNCHANGED <<disk, orphan>>
        BY <1>14, Zenon DEF WriteRejected, Rest
    <2>2. PICK code \in FdcError : code = RejectionCode /\ code # "OK"
        BY DEF RejectionCode, FdcError
    <2>3. srv.pc = "data"
        BY <2>1, Zenon DEF Take
    <2>4. /\ tx' \in [Client -> Seq(Response)] /\ Sent("WSTA", code, srv.cmd)
          /\ faults' \in 0 .. MaxFaults
        BY <1>11, <2>1, <2>2, <2>3
    <2> QED
        BY <2>1, <2>2, <2>4 DEF Refused
<1>15. CASE BeginWrite
    <2>1. /\ Take("data") /\ srv' = [srv EXCEPT !.pc = "write", !.block = Taken]
          /\ transport = "serial" => Taken # Noise
          /\ UNCHANGED Rest /\ UNCHANGED <<disk, orphan, tx, faults, fdcErrno>>
        BY <1>15, Zenon DEF BeginWrite, Rest, Checksums
    <2> QED
        BY <1>0, <2>1 DEF Received
<1>16. CASE WriteDone
    <2>1. /\ srv.pc = "write" /\ srv' = Top /\ Respond("WSTA", "OK", Noise)
          /\ disk' = [disk EXCEPT ![srv.cmd.track] = srv.block] /\ fdcErrno' = "OK"
          /\ UNCHANGED Rest /\ UNCHANGED <<rx, orphan>>
        BY <1>16, Zenon DEF WriteDone, Rest
    <2>2. "OK" \in FdcError
        BY DEF FdcError
    <2>3. /\ tx' \in [Client -> Seq(Response)] /\ Sent("WSTA", "OK", srv.cmd)
          /\ faults' \in 0 .. MaxFaults
        BY <1>11, <2>1, <2>2
    <2> QED
        BY <2>1, <2>2, <2>3 DEF Served
<1>17. CASE WriteFails
    <2>1. /\ srv.pc = "write" /\ srv' = Top /\ Deliver("WSTA", "WRITE_ERR", Noise) /\ Fault
          /\ disk' \in {disk, [disk EXCEPT ![srv.cmd.track] = srv.block]} /\ fdcErrno' = "WRITE_ERR"
          /\ UNCHANGED Rest /\ UNCHANGED <<rx, orphan>>
        BY <1>17, Zenon DEF WriteFails, Rest
    <2>2. "WRITE_ERR" \in FdcError
        BY DEF FdcError
    <2>3. /\ tx' \in [Client -> Seq(Response)] /\ Sent("WSTA", "WRITE_ERR", srv.cmd)
          /\ faults' \in 0 .. MaxFaults
        BY <1>11, <2>1, <2>2
    <2> QED
        BY <2>1, <2>2, <2>3 DEF Served
<1> QED
    BY <1>1, <1>2, <1>3, <1>5, <1>6, <1>7, <1>9, <1>10, <1>12, <1>13, <1>14, <1>15, <1>16, <1>17
       DEF ServerStep

-----------------------------------------------------------------------------
(* Types and shapes, in every step *)

\* The track that the loop takes is whole, and is the one it was told.
LEMMA ReceivedIsRight ==
    ASSUME IndInv, Received
    PROVE  Taken \in Message /\ Taken.op = "DATA" /\ Taken.track = srv.cmd.track
<1>1. /\ Common /\ FdcTypeOK /\ SrvOK /\ transport \in {"serial", "ws"}
      /\ srv.pc = "data" /\ Ready /\ ~orphan /\ Len(rx) \in Nat
    BY ChoicesAssumption, LenProperties DEF IndInv, Common, FdcTypeOK, Received, Take, Ready
<1>2. Wanted = Frame("DATA") /\ Wanted \in Nat \ {0}
    BY <1>1, Sizes DEF Wanted
<1>3. CASE transport = "serial"
    <2>1. SerialInv /\ Taken # Noise
        BY <1>3 DEF IndInv, Received
    <2>2. /\ Taken \in Message /\ Wanted = Frame(Taken.op) /\ Len(rx) >= Wanted
          /\ \A i \in 1 .. Wanted : rx[i] = [msg |-> Taken, part |-> i]
        BY <1>1, <2>1, TakenIs
    <2>3. Taken.op = "DATA"
        <3>1. ASSUME Taken.op # "DATA" PROVE FALSE
            <4>1. Frame(Taken.op) < Frame("DATA") /\ Frame(Taken.op) \in Nat
                BY <3>1, Sizes
            <4> QED
                BY <1>2, <2>2, <4>1
        <3> QED
            BY <3>1
    <2>4. rx # << >> /\ rx[1].part = 1 /\ rx[1].msg = Taken
        <3>1. 1 \in 1 .. Wanted
            BY <1>2
        <3>2. rx[1] = [msg |-> Taken, part |-> 1]
            BY <2>2, <3>1
        <3>3. rx # << >>
            BY <1>1, <1>2, <2>2
        <3> QED
            BY <3>2, <3>3
    <2>5. Begins(rx[1])
        BY <2>3, <2>4 DEF Begins
    <2> QED
        BY <1>1, <2>1, <2>2, <2>3, <2>4, <2>5 DEF SerialInv, HeadOK
<1>4. CASE transport = "ws"
    <2>1. WsInv
        BY <1>4 DEF IndInv
    <2>2. PICK c \in Client : peer = c
        BY <1>1, <2>1 DEF WsInv, FdcTypeOK
    <2>3. Sending(c)
        BY <1>1, <2>1, <2>2 DEF WsInv, Lockstep
    <2>4. rx # << >>
        BY <1>1, <1>2 DEF Ready
    <2>5. PICK m \in Message : m = Block(c, fdc[c].track, fdc[c].write)
        <3>1. fdc[c] \in Fdc
            BY <1>1 DEF FdcTypeOK
        <3> QED
            BY <3>1 DEF Block, Message, Fdc
    <2>6. m.op = "DATA" /\ m.track = fdc[c].track
        BY <2>5 DEF Block
    <2>7. rx = Tokens(m) /\ srv.cmd = Command(c, "WRIT", fdc[c].track)
        BY <2>3, <2>4, <2>5 DEF Sending
    <2>8. Taken = m
        BY <1>1, <1>2, <2>6, <2>7, TakenIs
    <2> QED
        BY <2>6, <2>7, <2>8 DEF Command
<1> QED
    BY <1>1, <1>3, <1>4

LEMMA ServerKeepsCommon ==
    ASSUME IndInv, ServerStep
    PROVE  Common'
<1>1. /\ UNCHANGED Rest
      /\ tx' \in [Client -> Seq(Response)] /\ faults' \in 0 .. MaxFaults
      /\ fdcErrno' \in FdcError
      /\ Looks \/ Commanded \/ Served \/ Synced \/ Refused \/ Received
    BY ServerCases DEF IndInv
<1>2. /\ FdcTypeOK /\ TokensOK /\ SrvOK /\ FdcOK /\ DiskOK /\ srv \in Srv
      /\ disk \in [Track -> Message \cup {Noise}] /\ rx \in Seq(Token) /\ Len(rx) <= MaxQueue
      /\ orphan \in BOOLEAN
    BY DEF IndInv, Common, FdcTypeOK
<1>3. rx' \in Seq(Token) /\ Len(rx') <= MaxQueue /\ TokensOK' /\ orphan' \in BOOLEAN
    <2>1. CASE UNCHANGED <<rx, orphan>>
        BY <1>2, <2>1 DEF TokensOK
    <2>2. ASSUME NEW where, TimeOut(where)
          PROVE  rx' \in Seq(Token) /\ Len(rx') <= MaxQueue /\ TokensOK' /\ orphan' \in BOOLEAN
        BY <1>2, <2>2, LeftoverKeepsTokens
    <2>3. ASSUME NEW where, Take(where), orphan' = orphan
          PROVE  rx' \in Seq(Token) /\ Len(rx') <= MaxQueue /\ TokensOK' /\ orphan' \in BOOLEAN
        BY <1>2, <2>3, TakeLeaves, TakeKeepsTokens
    <2> QED
        BY <1>1, <2>1, <2>2, <2>3 DEF Looks, Commanded, Served, Synced, Refused, Received
<1>4. ASSUME srv' = Top \/ srv' = Waiting("command") \/ srv' = Waiting("poll")
      PROVE  srv' \in Srv /\ SrvOK'
    <2>1. \A where : Waiting(where).pc = where
        BY DEF Waiting
    <2>2. srv' = Waiting(srv'.pc) /\ srv'.pc \in {"command", "poll"}
        BY <1>4, <2>1, TopIs
    <2>3. srv' \in Srv
        BY <2>2 DEF Waiting, Srv
    <2> QED
        BY <2>2, <2>3 DEF SrvOK
<1>5. ASSUME Taken \in Message, Taken.track \in Track,
             \/ Taken.op = "READ" /\ srv' = [Waiting("read") EXCEPT !.cmd = Taken]
             \/ Taken.op = "WRIT" /\ srv' = [Waiting("datasync") EXCEPT !.cmd = Taken]
      PROVE  srv' \in Srv /\ SrvOK'
    <2>1. CASE Taken.op = "READ" /\ srv' = [Waiting("read") EXCEPT !.cmd = Taken]
        <3>1. srv' = [pc |-> "read", cmd |-> Taken, block |-> Noise]
            BY <2>1 DEF Waiting
        <3>2. srv' \in Srv
            BY <1>5, <3>1 DEF Srv
        <3> QED
            BY <1>5, <2>1, <3>1, <3>2 DEF SrvOK
    <2>2. CASE Taken.op = "WRIT" /\ srv' = [Waiting("datasync") EXCEPT !.cmd = Taken]
        <3>1. srv' = [pc |-> "datasync", cmd |-> Taken, block |-> Noise]
            BY <2>2 DEF Waiting
        <3>2. srv' \in Srv
            BY <1>5, <3>1 DEF Srv
        <3> QED
            BY <1>5, <2>2, <3>1, <3>2 DEF SrvOK
    <2> QED
        BY <1>5, <2>1, <2>2
<1>6. srv' \in Srv /\ SrvOK'
    <2>1. CASE Commanded
        <3>1. ASSUME Taken.op \in {"READ", "WRIT"} PROVE Taken \in Message /\ Taken.track \in Track
            <4>1. Take("command") /\ Ready
                BY <2>1, Zenon DEF Commanded, Take
            <4>2. Taken \in Message /\ Taken # Noise
                BY <1>2, <3>1, <4>1, TakenIs, NoiseIsNoMessage
            <4> QED
                BY <1>2, <3>1, <4>1, <4>2, TakeKeepsTokens
        <3> QED
            BY <1>4, <1>5, <2>1, <3>1 DEF Commanded
    <2>2. CASE Synced /\ srv' = [srv EXCEPT !.pc = "data"]
        <3>1. /\ srv' \in Srv /\ srv'.pc = "data" /\ srv'.cmd = srv.cmd /\ srv.pc = "datasync"
            BY <1>2, <2>2 DEF Srv, Synced
        <3> QED
            BY <1>2, <3>1 DEF SrvOK
    <2>3. CASE Received
        <3>1. Taken \in Message /\ Taken.op = "DATA" /\ Taken.track = srv.cmd.track
            BY <2>3, ReceivedIsRight
        <3>2. srv.pc = "data" /\ srv' = [srv EXCEPT !.pc = "write", !.block = Taken]
            BY <2>3, Zenon DEF Received, Take
        <3>3. /\ srv' \in Srv /\ srv'.pc = "write" /\ srv'.cmd = srv.cmd /\ srv'.block = Taken
            BY <1>2, <3>1, <3>2 DEF Srv
        <3> QED
            BY <1>2, <3>1, <3>2, <3>3 DEF SrvOK
    <2> QED
        BY <1>1, <1>4, <2>1, <2>2, <2>3 DEF Looks, Served, Synced, Refused
<1>7. disk' \in [Track -> Message \cup {Noise}] /\ DiskOK'
    <2>1. CASE disk' = disk
        BY <1>2, <2>1 DEF DiskOK
    <2>2. CASE srv.pc = "write" /\ disk' = [disk EXCEPT ![srv.cmd.track] = srv.block]
        <3>1. /\ srv.block \in Message \cup {Noise} /\ srv.block.op = "DATA"
              /\ srv.block.track = srv.cmd.track /\ srv.cmd.track \in Track
            BY <1>2, <2>2 DEF Srv, SrvOK
        <3> QED
            BY <1>2, <2>2, <3>1 DEF DiskOK
    <2> QED
        BY <1>1, <2>1, <2>2 DEF Looks, Commanded, Served, Synced, Refused, Received
<1>8. FdcTypeOK' /\ FdcOK'
    BY <1>1, <1>2, <1>3, <1>6, <1>7 DEF FdcTypeOK, FdcOK, Rest
<1> QED
    BY <1>3, <1>6, <1>7, <1>8 DEF Common

-----------------------------------------------------------------------------
(* The loop on the serial line *)

LEMMA SentIs ==
    ASSUME tx \in [Client -> Seq(Response)], NEW op, NEW code, NEW m, Sent(op, code, m)
    PROVE  /\ \A c \in Client : c # peer => tx'[c] = tx[c]
           /\ \A c \in Client : \A i \in DOMAIN tx'[c] :
                 \/ i \in DOMAIN tx[c] /\ tx'[c][i] = tx[c][i]
                 \/ c = peer /\ tx'[c][i].about = m
           /\ transport = "ws" => \A c \in Client : c = peer /\ tx[c] = << >> =>
                 Len(tx'[c]) = 1 /\ tx'[c][1].op = op /\ tx'[c][1].code = code
<1>1. CASE tx' = tx /\ (peer = NoClient \/ transport = "serial")
    BY <1>1, Given
<1>2. ASSUME peer \in Client, NEW r \in Response, r.op = op, r.code = code, r.about = m,
             tx' = [tx EXCEPT ![peer] = Append(tx[peer], r)]
      PROVE  /\ \A c \in Client : c # peer => tx'[c] = tx[c]
             /\ \A c \in Client : \A i \in DOMAIN tx'[c] :
                   \/ i \in DOMAIN tx[c] /\ tx'[c][i] = tx[c][i]
                   \/ c = peer /\ tx'[c][i].about = m
             /\ \A c \in Client : c = peer /\ tx[c] = << >> =>
                   Len(tx'[c]) = 1 /\ tx'[c][1].op = op /\ tx'[c][1].code = code
    <2> DEFINE s == tx[peer]
               t == tx'[peer]
    <2>1. s \in Seq(Response) /\ t = Append(s, r) /\ \A c \in Client : c # peer => tx'[c] = tx[c]
        BY <1>2
    <2>2. /\ Len(s) \in Nat /\ DOMAIN s = 1 .. Len(s) /\ t \in Seq(Response)
          /\ Len(t) = Len(s) + 1 /\ DOMAIN t = 1 .. Len(t)
          /\ \A i \in 1 .. Len(s) : t[i] = s[i]
          /\ t[Len(s) + 1] = r
        BY <2>1, LenProperties, AppendProperties
    <2> HIDE DEF s, t
    <2>3. \A i \in DOMAIN t : (i \in DOMAIN s /\ t[i] = s[i]) \/ t[i] = r
        BY <2>2
    <2>4. s = << >> => Len(t) = 1 /\ t[1] = r
        BY <2>2
    <2>5. ASSUME NEW c \in Client, NEW i \in DOMAIN tx'[c]
          PROVE  \/ i \in DOMAIN tx[c] /\ tx'[c][i] = tx[c][i]
                 \/ c = peer /\ tx'[c][i].about = m
        BY <1>2, <2>1, <2>3, <2>5 DEF s, t
    <2> QED
        BY <1>2, <2>1, <2>4, <2>5 DEF s, t
<1> QED
    BY <1>1, <1>2 DEF Sent

\* The steps of the loop that take a frame leave the stream in order.
LEMMA TakeKeepsStream ==
    ASSUME IndInv, SerialInv, NEW where, Take(where), UNCHANGED fdc
    PROVE  /\ StreamOK' /\ peer # NoClient
           /\ \A i \in DOMAIN rx' : rx'[i].msg = Noise \/ rx'[i].msg.from = Controller
           /\ Taken # Noise => Taken.from = Controller
<1>1. /\ FdcTypeOK /\ rx \in Seq(Token) /\ Len(rx) \in Nat /\ DOMAIN rx = 1 .. Len(rx)
      /\ Ready /\ srv.pc = where /\ ~orphan
      /\ Wanted \in 1 .. Len(rx)
      /\ rx' \in Seq(Token) /\ Len(rx') = Len(rx) - Wanted /\ DOMAIN rx' = 1 .. Len(rx')
      /\ \A i \in 1 .. Len(rx') : rx'[i] = rx[Wanted + i]
    BY TakeLeaves, LenProperties DEF IndInv, Common, FdcTypeOK, Take
<1>2. Len(rx') \in Nat /\ Wanted \in Nat
    BY <1>1
<1>3. ASSUME NEW i \in DOMAIN rx', i > 1, Begins(rx'[i])
      PROVE  Announces(rx'[i - 1].msg, rx'[i].msg.track)
    <2>1. /\ Wanted + i \in DOMAIN rx /\ Wanted + i > 1 /\ i - 1 \in 1 .. Len(rx')
          /\ Wanted + (i - 1) = (Wanted + i) - 1
        BY <1>1, <1>2, <1>3
    <2>2. rx'[i] = rx[Wanted + i] /\ rx'[i - 1] = rx[(Wanted + i) - 1]
        BY <1>1, <1>3, <2>1
    <2> QED
        BY <1>3, <2>1, <2>2 DEF SerialInv, StreamOK
<1>4. ASSUME fdc'[Controller].pc = "writ", rx' # << >>
      PROVE  Announces(rx'[Len(rx')].msg, fdc'[Controller].track)
    <2>1. Len(rx') \in 1 .. Len(rx') /\ Wanted + Len(rx') = Len(rx) /\ rx # << >>
        BY <1>1, <1>2, <1>4
    <2>2. rx'[Len(rx')] = rx[Len(rx)]
        BY <1>1, <2>1
    <2> QED
        BY <1>4, <2>1, <2>2 DEF SerialInv, StreamOK
<1>5. ASSUME NEW i \in DOMAIN rx' PROVE rx'[i].msg = Noise \/ rx'[i].msg.from = Controller
    <2>1. Wanted + i \in DOMAIN rx /\ rx'[i] = rx[Wanted + i]
        BY <1>1, <1>2
    <2> QED
        BY <2>1 DEF SerialInv, OwnOK
<1>6. ASSUME Taken # Noise PROVE Taken.from = Controller
    <2>1. rx[1] = [msg |-> Taken, part |-> 1] /\ 1 \in DOMAIN rx
        BY <1>1, <1>6, TakenIs
    <2>2. rx[1].msg = Taken
        BY <2>1
    <2> QED
        BY <1>6, <2>1, <2>2 DEF SerialInv, OwnOK
<1>7. peer # NoClient
    BY <1>1 DEF SerialInv, PortOK
<1> QED
    BY <1>3, <1>4, <1>5, <1>6, <1>7 DEF StreamOK

\* What follows a WRIT is what its controller sends next.
LEMMA WritHeads ==
    ASSUME IndInv, SerialInv, Take("command"), Taken.op = "WRIT", UNCHANGED fdc
    PROVE  /\ rx' # << >> /\ Begins(rx'[1]) => rx'[1].msg.track = Taken.track
           /\ rx' = << >> /\ fdc[Controller].pc = "writ" => fdc[Controller].track = Taken.track
<1>1. /\ FdcTypeOK /\ rx \in Seq(Token) /\ Len(rx) \in Nat /\ DOMAIN rx = 1 .. Len(rx)
      /\ Ready /\ Wanted \in 1 .. Len(rx)
      /\ rx' \in Seq(Token) /\ Len(rx') = Len(rx) - Wanted
      /\ \A i \in 1 .. Len(rx') : rx'[i] = rx[Wanted + i]
    BY TakeLeaves, LenProperties DEF IndInv, Common, FdcTypeOK, Take
<1>2. Taken # Noise
    BY NoiseIsNoMessage
<1>3. rx[Wanted] = [msg |-> Taken, part |-> Wanted]
    <2>1. \A i \in 1 .. Wanted : rx[i] = [msg |-> Taken, part |-> i]
        BY <1>1, <1>2, TakenIs
    <2>2. Wanted \in 1 .. Wanted
        BY <1>1
    <2> QED
        BY <2>1, <2>2
<1>4. rx[Wanted].msg = Taken
    BY <1>3
<1>5. ASSUME rx' # << >>, Begins(rx'[1]) PROVE rx'[1].msg.track = Taken.track
    <2>1. 1 \in 1 .. Len(rx') /\ Wanted + 1 \in DOMAIN rx /\ Wanted + 1 > 1 /\ (Wanted + 1) - 1 = Wanted
        BY <1>1, <1>5
    <2>2. rx'[1] = rx[Wanted + 1]
        BY <1>1, <2>1
    <2>3. Announces(rx[(Wanted + 1) - 1].msg, rx[Wanted + 1].msg.track)
        BY <1>5, <2>1, <2>2 DEF SerialInv, StreamOK
    <2> QED
        BY <1>2, <1>4, <2>1, <2>2, <2>3 DEF Announces
<1>6. ASSUME rx' = << >>, fdc[Controller].pc = "writ" PROVE fdc[Controller].track = Taken.track
    <2>1. Len(rx) = Wanted /\ rx # << >>
        <3>1. Len(rx') = 0
            BY <1>6
        <3>2. Len(rx) = Wanted /\ Len(rx) > 0
            <4>1. Len(rx) \in Nat /\ Wanted \in 1 .. Len(rx) /\ 0 = Len(rx) - Wanted
                BY <1>1, <3>1
            <4>2. \A n \in Nat : \A w \in 1 .. n : 0 = n - w => n = w /\ n > 0
                OBVIOUS
            <4> QED
                BY <4>1, <4>2
        <3>3. Len(<< >>) = 0
            OBVIOUS
        <3> QED
            BY <3>2, <3>3
    <2>2. Announces(rx[Len(rx)].msg, fdc[Controller].track)
        BY <1>6, <2>1 DEF SerialInv, StreamOK
    <2> QED
        BY <1>2, <1>4, <2>1, <2>2 DEF Announces
<1> QED
    BY <1>5, <1>6

LEMMA ServerKeepsSerial ==
    ASSUME IndInv, SerialInv, ServerStep
    PROVE  SerialInv'
<1>1. /\ UNCHANGED Rest
      /\ Looks \/ Commanded \/ Served \/ Synced \/ Refused \/ Received
    BY ServerCases DEF IndInv
<1>2. /\ FdcTypeOK /\ TokensOK /\ SrvOK /\ tx \in [Client -> Seq(Response)]
      /\ rx \in Seq(Token) /\ peer \in Client \cup {NoClient} /\ srv \in Srv
    BY DEF IndInv, Common, FdcTypeOK
<1>3. UNCHANGED <<fdc, peer, wired, paused, transport>>
    BY <1>1 DEF Rest
<1>4. /\ orphan => srv.pc \in {"command", "data"}
      /\ peer = NoClient => rx = << >> /\ (srv.pc = "poll" \/ orphan)
    BY DEF SerialInv, PortOK
\* A step that ends at the top of the loop.
<1>5. ASSUME NEW m, m # Noise => m.from = Controller, \E op, code : Sent(op, code, m),
             m # Noise \/ tx' = tx
      PROVE  /\ \A c \in Client : tx'[c] # << >> => c = Controller
             /\ \A i \in DOMAIN tx'[Controller] : tx'[Controller][i].about.from = Controller
    <2>1. CASE tx' = tx
        BY <2>1, <1>3 DEF SerialInv, OwnOK
    <2>2. CASE m # Noise
        <3>1. PICK op, code : Sent(op, code, m)
            BY <1>5
        <3>2. /\ \A c \in Client : c # peer => tx'[c] = tx[c]
              /\ \A c \in Client : \A i \in DOMAIN tx'[c] :
                    \/ i \in DOMAIN tx[c] /\ tx'[c][i] = tx[c][i]
                    \/ c = peer /\ tx'[c][i].about = m
            BY <1>2, <3>1, SentIs
        <3>3. CASE tx' = tx
            BY <2>1, <3>3
        <3>4. CASE tx' # tx
            <4>1. peer \in Client
                BY <3>1, <3>4 DEF Sent
            <4>2. peer = Controller
                BY <4>1, Given DEF SerialInv, PortOK
            <4> QED
                BY <1>5, <2>2, <3>2, <4>2, Given DEF SerialInv, OwnOK
        <3> QED
            BY <3>3, <3>4
    <2> QED
        BY <1>5, <2>1, <2>2
<1>7. CASE Looks
    <2>1. tx' = tx /\ srv'.cmd = Noise /\ srv'.pc \in {"command", "poll"}
        BY <1>7 DEF Looks, Waiting
    <2>2. CASE srv.pc = "poll" /\ srv' = Waiting("command") /\ peer # NoClient /\ UNCHANGED <<rx, orphan>>
        <3>1. ~orphan
            BY <1>4, <2>2
        <3>2. PortOK'
            BY <1>3, <2>2, <3>1 DEF PortOK, SerialInv
        <3>3. OwnOK' /\ StreamOK'
            BY <1>3, <2>1, <2>2 DEF SerialInv, OwnOK, StreamOK
        <3> QED
            BY <2>1, <3>2, <3>3 DEF SerialInv, HeadOK
    <2>3. CASE TimeOut("command") /\ srv' = Waiting("poll")
        <3>1. (rx' = rx \/ rx' = << >>) /\ orphan' = FALSE /\ srv'.pc = "poll"
            BY <1>2, <2>3, LeftoverKeepsTokens DEF Waiting
        <3>2. PortOK'
            BY <1>3, <1>4, <3>1 DEF PortOK, SerialInv
        <3>3. OwnOK' /\ StreamOK'
            BY <1>3, <2>1, <3>1 DEF SerialInv, OwnOK, StreamOK
        <3> QED
            BY <2>1, <3>2, <3>3 DEF SerialInv, HeadOK
    <2> QED
        BY <1>7, <2>2, <2>3 DEF Looks
<1>8. CASE Commanded
    <2>1. Take("command") /\ UNCHANGED orphan /\ srv.pc = "command" /\ ~orphan
        BY <1>8, Zenon DEF Commanded, Take, Ready
    <2>2. /\ StreamOK' /\ peer # NoClient
          /\ \A i \in DOMAIN rx' : rx'[i].msg = Noise \/ rx'[i].msg.from = Controller
          /\ Taken # Noise => Taken.from = Controller
        BY <1>3, <2>1, TakeKeepsStream
    <2>3. PortOK'
        BY <1>3, <2>1, <2>2 DEF PortOK, SerialInv
    <2>4. /\ \A c \in Client : tx'[c] # << >> => c = Controller
          /\ \A i \in DOMAIN tx'[Controller] : tx'[Controller][i].about.from = Controller
        <3>1. CASE tx' = tx
            BY <3>1 DEF SerialInv, OwnOK
        <3>2. CASE Taken.op \in {"STAT", "WRIT"} /\ \E op, code : Sent(op, code, Taken)
            <4>1. Taken # Noise
                BY <3>2, NoiseIsNoMessage
            <4> QED
                BY <1>5, <2>2, <3>2, <4>1
        <3> QED
            BY <1>8, <3>1, <3>2 DEF Commanded
    <2>5. CASE srv' = Top
        <3>1. srv'.cmd = Noise /\ srv'.pc \in {"command", "poll"}
            BY <2>5, TopIs
        <3> QED
            BY <2>2, <2>3, <2>4, <3>1 DEF SerialInv, OwnOK, HeadOK
    <2>6. CASE Taken.op = "READ" /\ srv' = [Waiting("read") EXCEPT !.cmd = Taken]
        <3>1. srv'.cmd = Taken /\ srv'.pc = "read"
            BY <2>6 DEF Waiting
        <3> QED
            BY <2>2, <2>3, <2>4, <3>1 DEF SerialInv, OwnOK, HeadOK
    <2>7. CASE Taken.op = "WRIT" /\ srv' = [Waiting("datasync") EXCEPT !.cmd = Taken]
        <3>1. srv'.cmd = Taken /\ srv'.pc = "datasync"
            BY <2>7 DEF Waiting
        <3>2. HeadOK'
            BY <1>3, <2>1, <2>7, <3>1, WritHeads DEF HeadOK
        <3> QED
            BY <2>2, <2>3, <2>4, <3>1, <3>2 DEF SerialInv, OwnOK
    <2> QED
        BY <1>8, <2>5, <2>6, <2>7 DEF Commanded
<1>9. ASSUME srv.pc \in {"read", "datasync", "data", "write"}
      PROVE  srv.cmd # Noise /\ srv.cmd.from = Controller
    BY <1>2, <1>9, NoiseIsNoMessage DEF SrvOK, SerialInv, OwnOK
<1>10. CASE Served
    <2>1. /\ UNCHANGED <<rx, orphan>> /\ srv' = Top /\ srv.pc \in {"read", "write"}
          /\ tx' = tx \/ \E op, code : Sent(op, code, srv.cmd)
        BY <1>10 DEF Served
    <2>2. srv'.cmd = Noise /\ srv'.pc \in {"command", "poll"} /\ ~orphan /\ peer # NoClient
        BY <1>4, <2>1, TopIs
    <2>3. /\ \A c \in Client : tx'[c] # << >> => c = Controller
          /\ \A i \in DOMAIN tx'[Controller] : tx'[Controller][i].about.from = Controller
        <3>1. CASE tx' = tx
            BY <3>1 DEF SerialInv, OwnOK
        <3> QED
            BY <1>5, <1>9, <2>1, <3>1
    <2>4. PortOK' /\ StreamOK'
        BY <1>3, <2>1, <2>2 DEF SerialInv, PortOK, StreamOK
    <2> QED
        BY <2>1, <2>2, <2>3, <2>4 DEF SerialInv, OwnOK, HeadOK
<1>11. CASE Synced
    <2>1. /\ UNCHANGED <<rx, orphan>> /\ srv.pc = "datasync"
          /\ \E op, code : Sent(op, code, srv.cmd)
        BY <1>11 DEF Synced
    <2>2. ~orphan /\ peer # NoClient
        BY <1>4, <2>1
    <2>3. srv'.cmd = srv.cmd /\ srv'.pc = "data"
        BY <1>2, <1>11, <2>2 DEF Synced, Srv
    <2>4. /\ \A c \in Client : tx'[c] # << >> => c = Controller
          /\ \A i \in DOMAIN tx'[Controller] : tx'[Controller][i].about.from = Controller
        BY <1>5, <1>9, <2>1
    <2>5. PortOK' /\ StreamOK'
        BY <1>3, <2>1, <2>2 DEF SerialInv, PortOK, StreamOK
    <2>6. HeadOK'
        BY <1>3, <2>1, <2>2, <2>3 DEF SerialInv, HeadOK
    <2> QED
        BY <1>9, <2>1, <2>3, <2>4, <2>5, <2>6 DEF SerialInv, OwnOK
<1>12. CASE Refused
    <2>1. /\ srv' = Top /\ srv.pc = "data" /\ \E op, code : Sent(op, code, srv.cmd)
        BY <1>12, Zenon DEF Refused, TimeOut, Take
    <2>2. srv'.cmd = Noise /\ srv'.pc \in {"command", "poll"} /\ (peer = NoClient => srv'.pc = "poll")
        BY <2>1, TopIs
    <2>3. /\ \A c \in Client : tx'[c] # << >> => c = Controller
          /\ \A i \in DOMAIN tx'[Controller] : tx'[Controller][i].about.from = Controller
        BY <1>5, <1>9, <2>1
    <2>4. /\ PortOK' /\ StreamOK'
          /\ \A i \in DOMAIN rx' : rx'[i].msg = Noise \/ rx'[i].msg.from = Controller
        <3>1. CASE TimeOut("data")
            <4>1. (rx' = rx \/ rx' = << >>) /\ orphan' = FALSE
                BY <1>2, <3>1, LeftoverKeepsTokens
            <4>2. PortOK'
                BY <1>3, <1>4, <2>2, <4>1 DEF PortOK, SerialInv
            <4> QED
                BY <1>3, <4>1, <4>2 DEF SerialInv, OwnOK, StreamOK
        <3>2. CASE Take("data") /\ UNCHANGED orphan
            <4>1. /\ StreamOK' /\ peer # NoClient
                  /\ \A i \in DOMAIN rx' : rx'[i].msg = Noise \/ rx'[i].msg.from = Controller
                BY <1>3, <3>2, TakeKeepsStream
            <4>2. ~orphan
                BY <3>2 DEF Take, Ready
            <4> QED
                BY <1>3, <3>2, <4>1, <4>2 DEF PortOK, SerialInv
        <3> QED
            BY <1>12, <3>1, <3>2 DEF Refused
    <2> QED
        BY <2>2, <2>3, <2>4 DEF SerialInv, OwnOK, HeadOK
<1>13. CASE Received
    <2>1. /\ Take("data") /\ UNCHANGED <<orphan, tx>> /\ srv.pc = "data" /\ ~orphan
        BY <1>13, Zenon DEF Received, Take, Ready
    <2>2. srv'.pc = "write" /\ srv'.cmd = srv.cmd
        BY <1>2, <1>13 DEF Received, Srv
    <2>3. /\ StreamOK' /\ peer # NoClient
          /\ \A i \in DOMAIN rx' : rx'[i].msg = Noise \/ rx'[i].msg.from = Controller
        BY <1>3, <2>1, TakeKeepsStream
    <2>4. PortOK'
        BY <1>3, <2>1, <2>3 DEF PortOK, SerialInv
    <2> QED
        BY <1>9, <2>1, <2>2, <2>3, <2>4 DEF SerialInv, OwnOK, HeadOK
<1> QED
    BY <1>1, <1>7, <1>8, <1>10, <1>11, <1>12, <1>13

-----------------------------------------------------------------------------
(* The steps of a controller *)

CommandFor(c, f) ==
    Command(c, IF f.pc = "stat" THEN "STAT" ELSE IF f.pc = "read" THEN "READ" ELSE "WRIT", f.track)

\* It sends a command, for the first time or again.
Asks(c, f) ==
    /\ f.pc \in {"stat", "read", "writ"}
    /\ Transmit(c, CommandFor(c, f)) /\ tx' = tx
    /\ fdc[c] = Idle \/ TimedOut(c)

\* It is told to go on, and sends the track.
Sends(c, f) ==
    /\ f.pc = "wsta" /\ fdc[c].pc = "writ" /\ f.track = fdc[c].track /\ f.write = fdc[c].write
    /\ tx[c] # << >> /\ Head(tx[c]).op = "WRIT" /\ Head(tx[c]).code = "OK"
    /\ Transmit(c, Block(c, f.track, f.write)) /\ tx' = [tx EXCEPT ![c] = Tail(tx[c])]

\* It stops waiting, or takes a response that ends nothing.
Stops(c, f) ==
    /\ UNCHANGED <<rx, faults>>
    /\ \/ f = Idle /\ TimedOut(c) /\ tx' = tx
       \/ /\ \/ f = Idle /\ Expected(c) /\ ~(fdc[c].pc = "writ" /\ Head(tx[c]).code = "OK")
             \/ f = fdc[c] /\ ~Expected(c)
          /\ tx[c] # << >> /\ tx' = [tx EXCEPT ![c] = Tail(tx[c])]

FdcIs(f) ==
    /\ f \in Fdc
    /\ f.pc = "idle" => f = Idle
    /\ f.pc \in {"read", "writ", "wsta"} => f.track \in Track
    /\ f.pc = "stat" => f.track = NoTrack

ControllerStep(c) == Ask(c) \/ Answered(c) \/ Retry(c) \/ GiveUp(c)

Elsewhere == <<transport, peer, wired, orphan, paused, srv, drive, disk, fdcErrno, changes>>

LEMMA ControllerCases ==
    ASSUME Common, NEW c \in Client, ControllerStep(c)
    PROVE  /\ UNCHANGED Elsewhere
           /\ acked' \in [Track -> 0 .. MaxWrites] /\ writes' \in 0 .. MaxWrites
           /\ \E f \in Fdc : /\ FdcIs(f) /\ fdc' = [fdc EXCEPT ![c] = f]
                             /\ Asks(c, f) \/ Sends(c, f) \/ Stops(c, f)
<1>0. /\ fdc \in [Client -> Fdc] /\ FdcIs(fdc[c]) /\ fdc[c] \in Fdc
      /\ acked \in [Track -> 0 .. MaxWrites] /\ writes \in 0 .. MaxWrites
      /\ MaxWrites \in Nat /\ NoTrack \notin Track
    BY Given DEF Common, FdcTypeOK, FdcOK, FdcIs
<1> USE DEF link, engine, controllers
<1>1. FdcIs(Idle) /\ Idle \in Fdc
    BY <1>0 DEF FdcIs, Idle, Fdc
<1>2. CASE AskStatus(c)
    <2> DEFINE f == [Idle EXCEPT !.pc = "stat"]
    <2>1. /\ fdc[c] = Idle /\ UNCHANGED Elsewhere /\ UNCHANGED <<acked, tx, writes>>
          /\ Transmit(c, Command(c, "STAT", NoTrack))
          /\ fdc' = [fdc EXCEPT ![c].pc = "stat"]
        BY <1>2, Zenon DEF AskStatus, Elsewhere
    <2>2. fdc' = [fdc EXCEPT ![c] = f]
        BY <2>1
    <2>3. f \in Fdc /\ FdcIs(f) /\ CommandFor(c, f) = Command(c, "STAT", NoTrack) /\ f.pc = "stat"
        BY <1>0 DEF FdcIs, Idle, Fdc, CommandFor
    <2> HIDE DEF f
    <2>4. Asks(c, f)
        BY <2>1, <2>3 DEF Asks
    <2> QED
        BY <1>0, <2>1, <2>2, <2>3, <2>4
<1>3. ASSUME NEW t \in Track, AskRead(c, t)
      PROVE  /\ UNCHANGED Elsewhere
             /\ acked' \in [Track -> 0 .. MaxWrites] /\ writes' \in 0 .. MaxWrites
             /\ \E f \in Fdc : FdcIs(f) /\ fdc' = [fdc EXCEPT ![c] = f] /\ Asks(c, f)
    <2> DEFINE f == [pc |-> "read", track |-> t, write |-> 0]
    <2>1. /\ fdc[c] = Idle /\ UNCHANGED Elsewhere /\ UNCHANGED <<acked, tx, writes>>
          /\ Transmit(c, Command(c, "READ", t))
          /\ fdc' = [fdc EXCEPT ![c] = f]
        BY <1>3, Zenon DEF AskRead, Elsewhere
    <2>2. f \in Fdc /\ FdcIs(f) /\ CommandFor(c, f) = Command(c, "READ", t) /\ f.pc = "read"
        BY <1>0 DEF FdcIs, Fdc, CommandFor
    <2> HIDE DEF f
    <2>3. Asks(c, f)
        BY <2>1, <2>2 DEF Asks
    <2> QED
        BY <1>0, <2>1, <2>2, <2>3
<1>4. ASSUME NEW t \in Track, AskWrite(c, t)
      PROVE  /\ UNCHANGED Elsewhere
             /\ acked' \in [Track -> 0 .. MaxWrites] /\ writes' \in 0 .. MaxWrites
             /\ \E f \in Fdc : FdcIs(f) /\ fdc' = [fdc EXCEPT ![c] = f] /\ Asks(c, f)
    <2> DEFINE f == [pc |-> "writ", track |-> t, write |-> writes + 1]
    <2>1. /\ fdc[c] = Idle /\ UNCHANGED Elsewhere /\ UNCHANGED <<acked, tx>>
          /\ writes < MaxWrites /\ writes' = writes + 1
          /\ Transmit(c, Command(c, "WRIT", t))
          /\ fdc' = [fdc EXCEPT ![c] = f]
        BY <1>4, Zenon DEF AskWrite, Elsewhere
    <2>2. writes + 1 \in 0 .. MaxWrites
        BY <1>0, <2>1
    <2>3. f \in Fdc /\ FdcIs(f) /\ CommandFor(c, f) = Command(c, "WRIT", t) /\ f.pc = "writ"
        BY <1>0, <2>2 DEF FdcIs, Fdc, CommandFor
    <2> HIDE DEF f
    <2>4. Asks(c, f)
        BY <2>1, <2>3 DEF Asks
    <2> QED
        BY <1>0, <2>1, <2>2, <2>3, <2>4
<1>5. CASE IgnoreResponse(c)
    <2>1. /\ UNCHANGED Elsewhere /\ UNCHANGED <<rx, faults, fdc, acked, writes>>
          /\ tx[c] # << >> /\ ~Expected(c) /\ Consume(c)
        BY <1>5, Zenon DEF IgnoreResponse, Elsewhere
    <2>2. fdc' = [fdc EXCEPT ![c] = fdc[c]]
        BY <1>0, <2>1
    <2>3. Stops(c, fdc[c])
        BY <2>1 DEF Stops, Consume
    <2> QED
        BY <1>0, <2>1, <2>2, <2>3
<1>6. CASE SendTrack(c)
    <2> DEFINE f == [fdc[c] EXCEPT !.pc = "wsta"]
    <2>1. /\ UNCHANGED Elsewhere /\ UNCHANGED <<acked, writes>>
          /\ Expected(c) /\ fdc[c].pc = "writ" /\ Head(tx[c]).code = "OK"
          /\ Consume(c) /\ Transmit(c, Block(c, fdc[c].track, fdc[c].write))
          /\ fdc' = [fdc EXCEPT ![c].pc = "wsta"]
        BY <1>6, Zenon DEF SendTrack, Elsewhere
    <2>2. fdc' = [fdc EXCEPT ![c] = f]
        BY <2>1
    <2>3. /\ f \in Fdc /\ f.pc = "wsta" /\ f.track = fdc[c].track /\ f.write = fdc[c].write
        BY <1>0 DEF Fdc
    <2> HIDE DEF f
    <2>4. FdcIs(f)
        BY <1>0, <2>1, <2>3 DEF FdcIs
    <2>5. Sends(c, f)
        BY <2>1, <2>3 DEF Sends, Expected, Consume
    <2> QED
        BY <1>0, <2>1, <2>2, <2>3, <2>4, <2>5
<1>7. CASE Finish(c)
    <2>1. /\ UNCHANGED Elsewhere /\ UNCHANGED <<writes, rx, faults>>
          /\ Expected(c) /\ Consume(c) /\ fdc' = [fdc EXCEPT ![c] = Idle]
          /\ ~(fdc[c].pc = "writ" /\ Head(tx[c]).code = "OK")
          /\ acked' = acked \/ acked' = [acked EXCEPT ![fdc[c].track] = fdc[c].write]
        BY <1>7, Zenon DEF Finish, Elsewhere
    <2>2. fdc[c].write \in 0 .. MaxWrites
        BY <1>0 DEF Fdc
    <2>3. acked' \in [Track -> 0 .. MaxWrites]
        BY <1>0, <2>1, <2>2
    <2>4. Stops(c, Idle)
        BY <2>1 DEF Stops, Expected, Consume
    <2> QED
        BY <1>0, <1>1, <2>1, <2>3, <2>4
<1>8. CASE Retry(c)
    <2> DEFINE f == [fdc[c] EXCEPT !.pc = IF fdc[c].pc = "wsta" THEN "writ" ELSE fdc[c].pc]
    <2>1. /\ UNCHANGED Elsewhere /\ UNCHANGED <<acked, tx, writes>>
          /\ TimedOut(c) /\ Transmit(c, CommandOf(c))
          /\ fdc' = [fdc EXCEPT ![c].pc = IF @ = "wsta" THEN "writ" ELSE @]
        BY <1>8, Zenon DEF Retry, Elsewhere
    <2>2. fdc' = [fdc EXCEPT ![c] = f]
        BY <2>1
    <2>3. fdc[c] # Idle
        BY <2>1 DEF TimedOut
    <2>4. fdc[c].pc \in {"stat", "read", "writ", "wsta"}
        BY <1>0, <2>3 DEF Fdc, FdcIs
    <2>5. /\ f \in Fdc /\ f.track = fdc[c].track
          /\ f.pc = IF fdc[c].pc = "wsta" THEN "writ" ELSE fdc[c].pc
        BY <1>0, <2>4 DEF Fdc
    <2> HIDE DEF f
    <2>6. f.pc \in {"stat", "read", "writ"} /\ FdcIs(f)
        BY <1>0, <2>4, <2>5 DEF FdcIs
    <2>7. CommandFor(c, f) = CommandOf(c)
        BY <2>4, <2>5 DEF CommandFor, CommandOf
    <2>8. Asks(c, f)
        BY <2>1, <2>6, <2>7 DEF Asks
    <2> QED
        BY <1>0, <2>1, <2>2, <2>5, <2>6, <2>8
<1>9. CASE GiveUp(c)
    <2>1. /\ UNCHANGED Elsewhere /\ UNCHANGED <<acked, tx, writes, rx, faults>>
          /\ TimedOut(c) /\ fdc' = [fdc EXCEPT ![c] = Idle]
        BY <1>9, Zenon DEF GiveUp, Elsewhere
    <2>2. Stops(c, Idle)
        BY <2>1 DEF Stops
    <2> QED
        BY <1>0, <1>1, <2>1, <2>2
<1> QED
    BY <1>2, <1>3, <1>4, <1>5, <1>6, <1>7, <1>8, <1>9 DEF ControllerStep, Ask, Answered

\* What a controller sends is a message, and names a track if it is about one.
LEMMA SaysIs ==
    ASSUME NEW c \in Client, NEW f \in Fdc, FdcIs(f)
    PROVE  /\ f.pc \in {"stat", "read", "writ"} =>
                /\ CommandFor(c, f) \in Message /\ CommandFor(c, f).from = c
                /\ CommandFor(c, f).op # "DATA"
                /\ CommandFor(c, f).op # "STAT" => CommandFor(c, f).track \in Track
                /\ f.pc = "writ" => CommandFor(c, f).op = "WRIT" /\ CommandFor(c, f).track = f.track
           /\ f.pc = "wsta" =>
                /\ Block(c, f.track, f.write) \in Message
                /\ Block(c, f.track, f.write).from = c /\ Block(c, f.track, f.write).op = "DATA"
                /\ Block(c, f.track, f.write).track = f.track /\ f.track \in Track
    BY Given DEF FdcIs, Fdc, CommandFor, Command, Block, Message

LEMMA ExtendedKeepsTokens ==
    ASSUME FdcTypeOK, TokensOK, NEW m \in Message, m.op # "STAT" => m.track \in Track,
           rx' \in Seq(Token), Extended(m)
    PROVE  TokensOK'
<1>1. /\ Len(rx) \in Nat /\ DOMAIN rx = 1 .. Len(rx) /\ Len(rx') \in Nat /\ DOMAIN rx' = 1 .. Len(rx')
      /\ \A i \in 1 .. Len(rx) : rx'[i] = rx[i]
      /\ \A i \in Len(rx) + 1 .. Len(rx') : rx'[i].msg \in {m, Noise}
    BY LenProperties DEF FdcTypeOK, Extended
<1> SUFFICES ASSUME NEW i \in 1 .. Len(rx'), rx'[i].msg # Noise, rx'[i].msg.op # "STAT"
             PROVE  rx'[i].msg.track \in Track
    BY <1>1 DEF TokensOK
<1>2. CASE i <= Len(rx)
    <2>1. i \in DOMAIN rx /\ rx'[i] = rx[i]
        BY <1>1, <1>2
    <2> QED
        BY <2>1 DEF TokensOK
<1>3. CASE ~(i <= Len(rx))
    <2>1. i \in Len(rx) + 1 .. Len(rx')
        BY <1>1, <1>3
    <2>2. rx'[i].msg = m
        BY <1>1, <2>1
    <2> QED
        BY <2>2
<1> QED
    BY <1>2, <1>3

LEMMA TailIs ==
    ASSUME tx \in [Client -> Seq(Response)], NEW c \in Client, tx[c] # << >>,
           tx' = [tx EXCEPT ![c] = Tail(tx[c])]
    PROVE  /\ tx' \in [Client -> Seq(Response)]
           /\ \A d \in Client : d # c => tx'[d] = tx[d]
           /\ Len(tx[c]) = 1 => tx'[c] = << >>
           /\ \A i \in DOMAIN tx'[c] : i + 1 \in DOMAIN tx[c] /\ tx'[c][i] = tx[c][i + 1]
<1> DEFINE s == tx[c]
<1>1. s \in Seq(Response) /\ s # << >>
    OBVIOUS
<1>2. tx'[c] = Tail(s) /\ \A d \in Client : d # c => tx'[d] = tx[d]
    OBVIOUS
<1>3. /\ Tail(s) \in Seq(Response) /\ Len(s) \in Nat /\ DOMAIN s = 1 .. Len(s)
      /\ Len(Tail(s)) = Len(s) - 1 /\ DOMAIN Tail(s) = 1 .. Len(Tail(s))
      /\ \A i \in 1 .. Len(Tail(s)) : Tail(s)[i] = s[i + 1]
    BY <1>1, HeadTailProperties, LenProperties
<1>4. tx' \in [Client -> Seq(Response)]
    BY <1>3
<1> HIDE DEF s
<1>5. \A i \in DOMAIN Tail(s) : i + 1 \in DOMAIN s /\ Tail(s)[i] = s[i + 1]
    BY <1>3
<1>6. Len(s) = 1 => Tail(s) = << >>
    <2>1. Len(Tail(s)) \in Nat \ {0} \/ Tail(s) = << >>
        BY <1>3, EmptySeq
    <2> QED
        BY <1>3, <2>1
<1> QED
    BY <1>2, <1>4, <1>5, <1>6 DEF s

\* What a controller sends goes behind what is there, if it is connected.
LEMMA SpeechIs ==
    ASSUME FdcTypeOK, NEW c \in Client, NEW f \in Fdc, FdcIs(f),
           Asks(c, f) \/ Sends(c, f) \/ Stops(c, f)
    PROVE  /\ rx' \in Seq(Token) /\ Len(rx') <= MaxQueue /\ faults' \in 0 .. MaxFaults
           /\ c \notin wired => rx' = rx
           /\ Asks(c, f) /\ c \in wired => Extended(CommandFor(c, f))
           /\ Sends(c, f) /\ c \in wired => Extended(Block(c, f.track, f.write))
           /\ Stops(c, f) => rx' = rx
           /\ transport = "ws" /\ c \in wired /\ rx = << >> =>
                /\ Asks(c, f) => rx' = Tokens(CommandFor(c, f))
                /\ Sends(c, f) => rx' = Tokens(Block(c, f.track, f.write))
<1>1. CASE Asks(c, f)
    <2>1. PICK m \in Message : m = CommandFor(c, f)
        BY <1>1, SaysIs DEF Asks
    <2>2. Transmit(c, m) /\ f.pc # "wsta"
        BY <1>1, <2>1 DEF Asks
    <2>3. ~Sends(c, f)
        BY <2>2 DEF Sends
    <2>4. rx' = rx => ~Extended(m)
        <3>1. Len(rx) \in Nat
            BY LenProperties DEF FdcTypeOK
        <3> QED
            BY <3>1 DEF Extended
    <2>5. /\ rx' \in Seq(Token) /\ Len(rx') <= MaxQueue /\ faults' \in 0 .. MaxFaults
          /\ c \notin wired => rx' = rx
          /\ c \in wired => Extended(m)
          /\ transport = "ws" /\ c \in wired /\ rx = << >> => rx' = Tokens(m)
        BY <2>2, TransmitExtends
    <2>6. Stops(c, f) => rx' = rx
        BY DEF Stops
    <2> QED
        BY <2>1, <2>3, <2>5, <2>6
<1>2. CASE Sends(c, f)
    <2>1. PICK m \in Message : m = Block(c, f.track, f.write)
        BY <1>2, SaysIs DEF Sends
    <2>2. Transmit(c, m) /\ f.pc = "wsta"
        BY <1>2, <2>1 DEF Sends
    <2>3. ~Asks(c, f)
        BY <2>2 DEF Asks
    <2>5. /\ rx' \in Seq(Token) /\ Len(rx') <= MaxQueue /\ faults' \in 0 .. MaxFaults
          /\ c \notin wired => rx' = rx
          /\ c \in wired => Extended(m)
          /\ transport = "ws" /\ c \in wired /\ rx = << >> => rx' = Tokens(m)
        BY <2>2, TransmitExtends
    <2>6. Stops(c, f) => rx' = rx
        BY DEF Stops
    <2> QED
        BY <2>1, <2>3, <2>5, <2>6
<1>3. CASE Stops(c, f) /\ ~Asks(c, f) /\ ~Sends(c, f)
    BY <1>3 DEF Stops, FdcTypeOK
<1> QED
    BY <1>1, <1>2, <1>3

LEMMA ControllerKeepsCommon ==
    ASSUME Common, NEW c \in Client, ControllerStep(c)
    PROVE  Common'
<1>1. PICK f \in Fdc : /\ FdcIs(f) /\ fdc' = [fdc EXCEPT ![c] = f]
                       /\ Asks(c, f) \/ Sends(c, f) \/ Stops(c, f)
    BY ControllerCases
<1>2. /\ UNCHANGED Elsewhere
      /\ acked' \in [Track -> 0 .. MaxWrites] /\ writes' \in 0 .. MaxWrites
    BY ControllerCases
<1>3. /\ FdcTypeOK /\ TokensOK /\ SrvOK /\ FdcOK /\ DiskOK
      /\ fdc \in [Client -> Fdc] /\ tx \in [Client -> Seq(Response)]
    BY DEF Common, FdcTypeOK
<1>4. /\ rx' \in Seq(Token) /\ Len(rx') <= MaxQueue /\ faults' \in 0 .. MaxFaults
      /\ c \notin wired => rx' = rx
      /\ Asks(c, f) /\ c \in wired => Extended(CommandFor(c, f))
      /\ Sends(c, f) /\ c \in wired => Extended(Block(c, f.track, f.write))
      /\ Stops(c, f) => rx' = rx
    BY <1>1, <1>3, SpeechIs
<1>5. tx' \in [Client -> Seq(Response)]
    <2>1. tx' = tx \/ (tx[c] # << >> /\ tx' = [tx EXCEPT ![c] = Tail(tx[c])])
        BY <1>1, Zenon DEF Asks, Sends, Stops
    <2> QED
        BY <1>3, <2>1, TailIs
<1>6. TokensOK'
    <2>1. CASE rx' = rx
        BY <1>3, <2>1 DEF TokensOK
    <2>2. CASE c \in wired /\ Asks(c, f)
        <3>1. PICK m \in Message : m = CommandFor(c, f)
            BY <2>2, SaysIs, <1>1 DEF Asks
        <3>2. m.op # "STAT" => m.track \in Track
            BY <1>1, <2>2, <3>1, SaysIs DEF Asks
        <3> QED
            BY <1>3, <1>4, <2>2, <3>1, <3>2, ExtendedKeepsTokens
    <2>3. CASE c \in wired /\ Sends(c, f)
        <3>1. PICK m \in Message : m = Block(c, f.track, f.write)
            BY <1>1, <2>3, SaysIs DEF Sends
        <3>2. m.track \in Track
            BY <1>1, <2>3, <3>1, SaysIs DEF Sends
        <3> QED
            BY <1>3, <1>4, <2>3, <3>1, <3>2, ExtendedKeepsTokens
    <2> QED
        BY <1>1, <1>4, <2>1, <2>2, <2>3
<1>7. fdc' \in [Client -> Fdc] /\ FdcOK'
    <2>1. \A d \in Client : fdc'[d] = IF d = c THEN f ELSE fdc[d]
        BY <1>1, <1>3
    <2> QED
        BY <1>1, <1>3, <2>1 DEF FdcOK, FdcIs
<1>8. FdcTypeOK' /\ SrvOK' /\ DiskOK'
    BY <1>2, <1>3, <1>4, <1>5, <1>7 DEF Elsewhere, FdcTypeOK, SrvOK, DiskOK
<1> QED
    BY <1>6, <1>7, <1>8 DEF Common

-----------------------------------------------------------------------------
(* The controller on the serial line *)

\* Tokens of m go behind the stream in order, if m is no track or follows a WRIT for it.
LEMMA ExtendedKeepsStream ==
    ASSUME FdcTypeOK, SerialInv, NEW m \in Message, rx' \in Seq(Token), Extended(m),
           m.from = Controller,
           m.op = "DATA" /\ rx # << >> => Announces(rx[Len(rx)].msg, m.track)
    PROVE  /\ \A i \in DOMAIN rx' : rx'[i].msg = Noise \/ rx'[i].msg.from = Controller
           /\ \A i \in DOMAIN rx' : i > 1 /\ Begins(rx'[i]) =>
                 Announces(rx'[i - 1].msg, rx'[i].msg.track)
           /\ rx' # << >> /\ rx'[Len(rx')].msg \in {m, Noise}
           /\ rx # << >> => rx'[1] = rx[1]
           /\ rx = << >> /\ Begins(rx'[1]) => rx'[1].msg = m /\ m.op = "DATA"
<1>1. /\ Len(rx) \in Nat /\ DOMAIN rx = 1 .. Len(rx) /\ Len(rx') \in Nat /\ DOMAIN rx' = 1 .. Len(rx')
      /\ Len(rx') > Len(rx)
      /\ \A i \in 1 .. Len(rx) : rx'[i] = rx[i]
      /\ \A i \in Len(rx) + 1 .. Len(rx') :
            rx'[i].msg \in {m, Noise} /\ (Begins(rx'[i]) => i = Len(rx) + 1)
    BY LenProperties DEF FdcTypeOK, Extended
<1>2. rx # << >> => Len(rx) \in Nat \ {0}
    BY EmptySeq DEF FdcTypeOK
<1>3. Noise.op # "DATA"
    BY NoiseIsNoMessage
<1>4. ASSUME NEW i \in 1 .. Len(rx') PROVE rx'[i].msg = Noise \/ rx'[i].msg.from = Controller
    <2>1. CASE i \in 1 .. Len(rx)
        BY <1>1, <2>1 DEF SerialInv, OwnOK
    <2>2. CASE i \in Len(rx) + 1 .. Len(rx')
        BY <1>1, <2>2
    <2> QED
        BY <1>1, <2>1, <2>2
<1>5. ASSUME NEW i \in 1 .. Len(rx'), i > 1, Begins(rx'[i])
      PROVE  Announces(rx'[i - 1].msg, rx'[i].msg.track)
    <2>1. CASE i \in 1 .. Len(rx)
        <3>1. i - 1 \in 1 .. Len(rx) /\ i \in DOMAIN rx
            BY <1>1, <1>5, <2>1
        <3>2. rx'[i] = rx[i] /\ rx'[i - 1] = rx[i - 1]
            BY <1>1, <2>1, <3>1
        <3> QED
            BY <1>5, <3>1, <3>2 DEF SerialInv, StreamOK
    <2>2. CASE i \in Len(rx) + 1 .. Len(rx')
        <3>1. i = Len(rx) + 1 /\ rx'[i].msg \in {m, Noise}
            BY <1>1, <1>5, <2>2
        <3>2. i - 1 = Len(rx) /\ Len(rx) \in 1 .. Len(rx)
            BY <1>1, <1>5, <3>1
        <3>3. rx'[i - 1] = rx[Len(rx)] /\ rx # << >>
            BY <1>1, <3>2
        <3>4. rx'[i].msg = m /\ m.op = "DATA"
            BY <1>3, <1>5, <3>1 DEF Begins
        <3> QED
            BY <3>3, <3>4
    <2> QED
        BY <1>1, <2>1, <2>2
<1>6. rx' # << >> /\ rx'[Len(rx')].msg \in {m, Noise}
    <2>1. Len(rx') \in Len(rx) + 1 .. Len(rx') /\ Len(rx') # 0
        BY <1>1
    <2> QED
        BY <1>1, <2>1, EmptySeq
<1>7. ASSUME rx # << >> PROVE rx'[1] = rx[1]
    <2>1. 1 \in 1 .. Len(rx)
        BY <1>2, <1>7
    <2> QED
        BY <1>1, <2>1
<1>8. ASSUME rx = << >>, Begins(rx'[1]) PROVE rx'[1].msg = m /\ m.op = "DATA"
    <2>1. Len(rx) = 0
        BY <1>8, EmptySeq
    <2>2. 1 \in Len(rx) + 1 .. Len(rx')
        BY <1>1, <2>1
    <2>3. rx'[1].msg \in {m, Noise}
        BY <1>1, <2>2
    <2> QED
        BY <1>3, <1>8, <2>3 DEF Begins
<1> QED
    BY <1>1, <1>4, <1>5, <1>6, <1>7, <1>8

LEMMA ControllerKeepsSerial ==
    ASSUME IndInv, SerialInv, ControllerStep(Controller)
    PROVE  SerialInv'
<1> DEFINE k == Controller
<1>0. k \in Client
    BY Given
<1>c. Common
    BY DEF IndInv
<1>1. PICK f \in Fdc : /\ FdcIs(f) /\ fdc' = [fdc EXCEPT ![k] = f]
                       /\ Asks(k, f) \/ Sends(k, f) \/ Stops(k, f)
    BY <1>c, <1>0, ControllerCases
<1>2. UNCHANGED <<peer, wired, orphan, paused, srv>>
    BY <1>c, <1>0, ControllerCases DEF Elsewhere
<1>3. /\ FdcTypeOK /\ fdc \in [Client -> Fdc] /\ tx \in [Client -> Seq(Response)]
    BY <1>c DEF Common, FdcTypeOK
<1>4. /\ rx' \in Seq(Token)
      /\ k \notin wired => rx' = rx
      /\ Asks(k, f) /\ k \in wired => Extended(CommandFor(k, f))
      /\ Sends(k, f) /\ k \in wired => Extended(Block(k, f.track, f.write))
      /\ Stops(k, f) => rx' = rx
    BY <1>0, <1>1, <1>3, SpeechIs
<1>5. fdc'[k] = f
    BY <1>0, <1>1, <1>3
\* A port that is closed has nothing of the controller.
<1>6. k \notin wired => peer = NoClient /\ rx = << >> /\ (srv.pc = "poll" \/ orphan)
    BY DEF SerialInv, PortOK
<1>7. /\ \A d \in Client : tx'[d] # << >> => d = k
      /\ \A i \in DOMAIN tx'[k] : tx'[k][i].about.from = k
    <2>1. CASE tx' = tx
        BY <2>1 DEF SerialInv, OwnOK
    <2>2. CASE tx[k] # << >> /\ tx' = [tx EXCEPT ![k] = Tail(tx[k])]
        <3>1. /\ \A d \in Client : d # k => tx'[d] = tx[d]
              /\ \A i \in DOMAIN tx'[k] : i + 1 \in DOMAIN tx[k] /\ tx'[k][i] = tx[k][i + 1]
            BY <1>0, <1>3, <2>2, TailIs
        <3> QED
            BY <3>1 DEF SerialInv, OwnOK
    <2> QED
        BY <1>1, <2>1, <2>2 DEF Asks, Sends, Stops
<1> HIDE DEF k
<1>8. CASE rx' = rx /\ (f.pc = "writ" => fdc[k].pc = "writ" /\ f.track = fdc[k].track)
    <2>1. PortOK' /\ OwnOK'
        BY <1>2, <1>7, <1>8 DEF SerialInv, PortOK, OwnOK, k
    <2>2. StreamOK' /\ HeadOK'
        BY <1>2, <1>5, <1>8 DEF SerialInv, StreamOK, HeadOK, k
    <2> QED
        BY <2>1, <2>2 DEF SerialInv
<1>9. CASE k \notin wired
    <2>1. rx' = << >> /\ rx = << >> /\ peer = NoClient /\ (srv.pc = "poll" \/ orphan)
        BY <1>4, <1>6, <1>9
    <2>2. PortOK' /\ OwnOK'
        BY <1>2, <1>7, <2>1 DEF SerialInv, PortOK, OwnOK, k
    <2>3. StreamOK' /\ HeadOK'
        BY <1>2, <2>1 DEF SerialInv, StreamOK, HeadOK
    <2> QED
        BY <2>2, <2>3 DEF SerialInv
\* Something is sent.
<1>10. ASSUME k \in wired, NEW m \in Message, m.from = k, Extended(m),
              m.op = "DATA" /\ rx # << >> => Announces(rx[Len(rx)].msg, m.track),
              f.pc = "writ" => m.op = "WRIT" /\ m.track = f.track,
              m.op = "DATA" => fdc[k].pc = "writ" /\ m.track = fdc[k].track
       PROVE  SerialInv'
    <2>1. /\ \A i \in DOMAIN rx' : rx'[i].msg = Noise \/ rx'[i].msg.from = k
          /\ \A i \in DOMAIN rx' : i > 1 /\ Begins(rx'[i]) =>
                Announces(rx'[i - 1].msg, rx'[i].msg.track)
          /\ rx' # << >> /\ rx'[Len(rx')].msg \in {m, Noise}
          /\ rx # << >> => rx'[1] = rx[1]
          /\ rx = << >> /\ Begins(rx'[1]) => rx'[1].msg = m /\ m.op = "DATA"
        BY <1>3, <1>4, <1>10, ExtendedKeepsStream DEF k
    <2>2. PortOK'
        <3>1. peer # NoClient
            BY <1>10, NamesAssumption, <1>0 DEF SerialInv, PortOK
        <3> QED
            BY <1>2, <3>1 DEF SerialInv, PortOK
    <2>3. OwnOK'
        BY <1>2, <1>7, <2>1 DEF SerialInv, OwnOK, k
    <2>4. StreamOK'
        BY <1>5, <1>10, <2>1 DEF StreamOK, Announces, k
    <2>5. ASSUME srv.pc \in {"datasync", "data"}, ~orphan, Begins(rx'[1])
          PROVE  rx'[1].msg.track = srv.cmd.track
        <3>1. CASE rx # << >>
            BY <2>1, <2>5, <3>1 DEF SerialInv, HeadOK
        <3>2. CASE rx = << >>
            BY <1>10, <2>1, <2>5, <3>2 DEF SerialInv, HeadOK, k
        <3> QED
            BY <3>1, <3>2
    <2>6. HeadOK'
        BY <1>2, <2>1, <2>5 DEF HeadOK
    <2> QED
        BY <2>2, <2>3, <2>4, <2>6 DEF SerialInv
<1>11. CASE Stops(k, f)
    <2>1. f = Idle \/ f = fdc[k]
        BY <1>11 DEF Stops
    <2>2. Idle.pc # "writ"
        BY DEF Idle
    <2> QED
        BY <1>4, <1>8, <1>11, <2>1, <2>2
<1>12. CASE k \in wired /\ Asks(k, f)
    <2>1. PICK m \in Message : m = CommandFor(k, f)
        BY <1>0, <1>1, <1>12, SaysIs DEF Asks
    <2>2. m.from = k /\ m.op # "DATA" /\ (f.pc = "writ" => m.op = "WRIT" /\ m.track = f.track)
        BY <1>0, <1>1, <1>12, <2>1, SaysIs DEF Asks
    <2>3. Extended(m)
        BY <1>4, <1>12, <2>1
    <2> QED
        BY <1>10, <1>12, <2>2, <2>3
<1>13. CASE k \in wired /\ Sends(k, f)
    <2>1. PICK m \in Message : m = Block(k, f.track, f.write)
        BY <1>0, <1>1, <1>13, SaysIs DEF Sends
    <2>2. m.from = k /\ m.track = f.track
        BY <1>0, <1>1, <1>13, <2>1, SaysIs DEF Sends
    <2>3. Extended(m)
        BY <1>4, <1>13, <2>1
    <2>4. f.pc = "wsta" /\ fdc[k].pc = "writ" /\ f.track = fdc[k].track
        BY <1>13 DEF Sends
    <2>5. rx # << >> => Announces(rx[Len(rx)].msg, m.track)
        BY <2>2, <2>4 DEF SerialInv, StreamOK, k
    <2> QED
        BY <1>10, <1>13, <2>2, <2>3, <2>4, <2>5
<1> QED
    BY <1>1, <1>9, <1>11, <1>12, <1>13

-----------------------------------------------------------------------------
(* The shared WebSocket *)

\* Nothing is left of a message that is taken, and all of it has come.
LEMMA MessageIsTaken ==
    ASSUME FdcTypeOK, NEW where, Take(where), NEW m \in Message, rx = Tokens(m),
           Wanted = Frame(m.op)
    PROVE  Taken = m /\ rx' = << >>
<1>1. /\ Wanted \in 1 .. Len(rx) /\ rx' \in Seq(Token) /\ Len(rx') = Len(rx) - Wanted /\ Ready
    BY TakeLeaves DEF Take
<1>2. Taken = m
    BY <1>1, TakenIs
<1>3. Len(rx) = Frame(m.op) /\ Frame(m.op) \in Nat
    BY TokensAre, Sizes
<1>4. Len(rx') = 0
    BY <1>1, <1>3
<1> QED
    BY <1>1, <1>2, <1>4, EmptySeq

LEMMA EmptyIsNotTaken ==
    ASSUME FdcTypeOK, NEW where, Take(where)
    PROVE  rx # << >>
<1>1. Wanted \in 1 .. Len(rx)
    BY TakeLeaves
<1>2. Len(<< >>) = 0 /\ 1 .. 0 = {}
    OBVIOUS
<1> QED
    BY <1>1, <1>2

LEMMA ServerKeepsLockstep ==
    ASSUME IndInv, transport = "ws", WsInv, ServerStep, NEW c \in Client, peer = c
    PROVE  Lockstep(c)' /\ \E m : m.from = c /\ (tx' = tx \/ \E op, code : Sent(op, code, m))
<1>1. /\ Common /\ FdcTypeOK /\ SrvOK /\ FdcOK /\ tx \in [Client -> Seq(Response)] /\ srv \in Srv
      /\ fdc[c] \in Fdc /\ FdcIs(fdc[c]) /\ c # NoClient /\ ~paused
    BY Given DEF IndInv, Common, FdcTypeOK, FdcOK, FdcIs, WsInv
<1>2. /\ fdc' = fdc /\ peer' = peer
      /\ Looks \/ Commanded \/ Served \/ Synced \/ Refused \/ Received
    BY <1>1, ServerCases DEF Rest
<1>3. Lockstep(c)
    BY DEF WsInv
<1>4. /\ tx[c] = << >> => \A op, code, m : Sent(op, code, m) =>
            Len(tx'[c]) = 1 /\ tx'[c][1].op = op /\ tx'[c][1].code = code
    BY <1>1, SentIs
<1>5. /\ CommandOf(c).from = c
      /\ fdc[c].pc \in {"stat", "read", "writ"} =>
            /\ CommandOf(c) \in Message /\ Frame(CommandOf(c).op) = Frame("command")
            /\ CommandOf(c).op = "STAT" <=> fdc[c].pc = "stat"
            /\ CommandOf(c).op = "READ" <=> fdc[c].pc = "read"
            /\ CommandOf(c).op = "WRIT" <=> fdc[c].pc = "writ"
      /\ fdc[c].pc = "writ" => CommandOf(c) = Command(c, "WRIT", fdc[c].track)
      /\ fdc[c].pc = "wsta" =>
            /\ Block(c, fdc[c].track, fdc[c].write) \in Message
            /\ Block(c, fdc[c].track, fdc[c].write).op = "DATA"
      /\ Command(c, "WRIT", fdc[c].track).from = c
    <2>1. fdc[c].pc \in {"stat", "read", "writ"} => CommandOf(c) = CommandFor(c, fdc[c])
        BY DEF CommandOf, CommandFor
    <2>2. fdc[c].pc \in {"stat", "read", "writ"} =>
            /\ CommandFor(c, fdc[c]) \in Message /\ CommandFor(c, fdc[c]).op # "DATA"
        BY <1>1, SaysIs
    <2>3. fdc[c].pc \in {"stat", "read", "writ"} => Frame(CommandFor(c, fdc[c]).op) = Frame("command")
        BY <2>2, Sizes
    <2>4. /\ CommandFor(c, fdc[c]).op = "STAT" <=> fdc[c].pc = "stat"
          /\ CommandFor(c, fdc[c]).op = "READ" <=> fdc[c].pc = "read"
          /\ CommandFor(c, fdc[c]).op = "WRIT" <=> fdc[c].pc \notin {"stat", "read"}
        BY DEF CommandFor, Command
    <2>5. CommandOf(c).from = c /\ Command(c, "WRIT", fdc[c].track).from = c
        BY DEF CommandOf, Command
    <2>6. fdc[c].pc = "writ" => CommandOf(c) = Command(c, "WRIT", fdc[c].track)
        BY DEF CommandOf
    <2>7. fdc[c].pc = "wsta" =>
            /\ Block(c, fdc[c].track, fdc[c].write) \in Message
            /\ Block(c, fdc[c].track, fdc[c].write).op = "DATA"
        BY <1>1, SaysIs
    <2> QED
        BY <2>1, <2>2, <2>3, <2>4, <2>5, <2>6, <2>7
<1>6. CASE Looks
    <2>1. /\ rx' = rx /\ tx' = tx /\ srv.pc \in {"command", "poll"} /\ srv'.pc \in {"command", "poll"}
        BY <1>6 DEF Looks, TimeOut, Leftover, Checksums, Waiting
    <2>2. Between(c)
        BY <1>3, <2>1 DEF Lockstep
    <2>4. transport' = transport
        BY <1>1, ServerCases DEF Rest
    <2>5. Tokens(CommandOf(c))' = Tokens(CommandOf(c))
        BY <1>2, <2>4, Zenon DEF CommandOf, Tokens, Frame, Checksums
    <2>3. Between(c)' /\ srv'.pc \notin {"data", "read", "datasync", "write"}
        BY <1>2, <2>1, <2>2, <2>5 DEF Between, Ends
    <2> QED
        BY <1>5, <2>1, <2>3 DEF Lockstep
<1>7. CASE Commanded
    <2>1. Take("command") /\ srv.pc = "command"
        BY <1>7, Zenon DEF Commanded, Take
    <2>2. fdc[c].pc \in {"stat", "read", "writ"} /\ rx = Tokens(CommandOf(c)) /\ tx[c] = << >>
        BY <1>1, <1>3, <2>1, EmptyIsNotTaken DEF Lockstep, Between
    <2>3. Taken = CommandOf(c) /\ rx' = << >>
        <3>1. PICK m \in Message : m = CommandOf(c)
            BY <1>5, <2>2
        <3>2. Wanted = Frame(m.op)
            BY <1>5, <2>1, <2>2, <3>1 DEF Wanted
        <3> QED
            BY <1>1, <2>1, <2>2, <3>1, <3>2, MessageIsTaken
    <2>4. CASE srv' = Top
        <3>1. srv'.pc \in {"command", "poll"}
            BY <2>4, TopIs
        <3>2. Between(c)'
            <4>1. CASE Taken.op \notin {"STAT", "WRIT"} /\ tx' = tx
                <5>1. fdc[c].pc = "read"
                    BY <1>5, <2>2, <2>3, <4>1
                <5> QED
                    BY <1>2, <2>2, <2>3, <4>1, <5>1 DEF Between
            <4>2. CASE Taken.op = "STAT" /\ Sent("STAT", "OK", Taken)
                <5>1. fdc[c].pc = "stat" /\ Len(tx'[c]) = 1 /\ tx'[c][1].op = "STAT"
                    BY <1>4, <1>5, <2>2, <2>3, <4>2
                <5> QED
                    BY <1>2, <2>3, <5>1 DEF Between, Ends
            <4>3. CASE Taken.op = "WRIT" /\ Sent("WRIT", "NOT_READY", Taken)
                <5>1. /\ fdc[c].pc = "writ" /\ Len(tx'[c]) = 1
                      /\ tx'[c][1].op = "WRIT" /\ tx'[c][1].code # "OK"
                    BY <1>4, <1>5, <2>2, <2>3, <4>3
                <5> QED
                    BY <1>2, <2>3, <5>1 DEF Between, Ends
            <4>4. \A x : ([Waiting("read") EXCEPT !.cmd = x]).pc = "read"
                         /\ ([Waiting("datasync") EXCEPT !.cmd = x]).pc = "datasync"
                BY DEF Waiting
            <4> QED
                BY <1>7, <2>4, <3>1, <4>1, <4>2, <4>3, <4>4 DEF Commanded
        <3>3. tx' = tx \/ \E op, code : Sent(op, code, Taken)
            BY <1>7 DEF Commanded
        <3> QED
            BY <1>5, <2>3, <3>1, <3>2, <3>3 DEF Lockstep
    <2>5. CASE Taken.op = "READ" /\ tx' = tx /\ srv' = [Waiting("read") EXCEPT !.cmd = Taken]
        <3>1. srv'.cmd = Taken /\ srv'.pc = "read"
            BY <2>5 DEF Waiting
        <3>2. fdc[c].pc = "read"
            BY <1>5, <2>2, <2>3, <2>5
        <3>3. CommandOf(c)' = CommandOf(c)
            BY <1>2 DEF CommandOf
        <3>4. Serving(c)'
            BY <1>2, <2>2, <2>3, <2>5, <3>1, <3>2, <3>3 DEF Serving
        <3> QED
            BY <1>5, <2>5, <3>1, <3>4 DEF Lockstep
    <2>6. CASE Taken.op = "WRIT" /\ tx' = tx /\ srv' = [Waiting("datasync") EXCEPT !.cmd = Taken]
        <3>1. srv'.cmd = Taken /\ srv'.pc = "datasync"
            BY <2>6 DEF Waiting
        <3>2. fdc[c].pc = "writ"
            BY <1>5, <2>2, <2>3, <2>6
        <3>3. CommandOf(c)' = CommandOf(c)
            BY <1>2 DEF CommandOf
        <3>4. Serving(c)'
            BY <1>2, <2>2, <2>3, <2>6, <3>1, <3>2, <3>3 DEF Serving
        <3> QED
            BY <1>5, <2>6, <3>1, <3>4 DEF Lockstep
    <2> QED
        BY <1>7, <2>4, <2>5, <2>6 DEF Commanded
<1>8. CASE Served
    <2>1. UNCHANGED rx /\ srv' = Top /\ srv.pc \in {"read", "write"}
        BY <1>8 DEF Served
    <2>2. srv'.pc \in {"command", "poll"}
        BY <2>1, TopIs
    <2>3. Serving(c)
        BY <1>3, <2>1 DEF Lockstep
    <2>4. CASE srv.pc = "read"
        <3>1. fdc[c].pc = "read" /\ srv.cmd = CommandOf(c) /\ rx = << >> /\ tx[c] = << >>
            BY <2>3, <2>4 DEF Serving
        <3>2. tx' = tx \/ Sent("DATA", "OK", srv.cmd)
            BY <1>8, <2>4 DEF Served
        <3>3. Between(c)'
            <4>1. CASE tx' = tx
                BY <1>2, <2>1, <3>1, <4>1 DEF Between
            <4>2. CASE Sent("DATA", "OK", srv.cmd)
                <5>1. Len(tx'[c]) = 1 /\ tx'[c][1].op = "DATA"
                    BY <1>4, <3>1, <4>2
                <5> QED
                    BY <1>2, <2>1, <3>1, <5>1 DEF Between, Ends
            <4> QED
                BY <3>2, <4>1, <4>2
        <3> QED
            BY <1>5, <2>2, <3>1, <3>2, <3>3 DEF Lockstep
    <2>5. CASE srv.pc = "write"
        <3>1. /\ fdc[c].pc = "wsta" /\ srv.cmd = Command(c, "WRIT", fdc[c].track)
              /\ rx = << >> /\ tx[c] = << >>
            BY <2>3, <2>5 DEF Serving
        <3>2. PICK code \in FdcError : Sent("WSTA", code, srv.cmd)
            BY <1>8, <2>5 DEF Served
        <3>3. Len(tx'[c]) = 1 /\ tx'[c][1].op = "WSTA"
            BY <1>4, <3>1, <3>2
        <3>4. Between(c)'
            BY <1>2, <2>1, <3>1, <3>3 DEF Between, Ends
        <3> QED
            BY <1>5, <2>2, <3>1, <3>2, <3>4 DEF Lockstep
    <2> QED
        BY <2>1, <2>4, <2>5
<1>9. CASE Synced
    <2>1. /\ srv.pc = "datasync" /\ UNCHANGED rx /\ Sent("WRIT", "OK", srv.cmd)
          /\ srv' = [srv EXCEPT !.pc = "data"]
        BY <1>1, <1>9 DEF Synced
    <2>2. /\ fdc[c].pc = "writ" /\ srv.cmd = CommandOf(c) /\ rx = << >> /\ tx[c] = << >>
        BY <1>3, <2>1 DEF Lockstep, Serving
    <2>3. srv'.pc = "data" /\ srv'.cmd = Command(c, "WRIT", fdc[c].track)
        BY <1>1, <1>5, <2>1, <2>2 DEF Srv
    <2>4. Len(tx'[c]) = 1 /\ tx'[c][1].op = "WRIT" /\ tx'[c][1].code = "OK"
        BY <1>4, <2>1, <2>2
    <2>5. Sending(c)'
        BY <1>2, <2>1, <2>2, <2>3, <2>4 DEF Sending
    <2> QED
        BY <1>5, <2>1, <2>2, <2>3, <2>5 DEF Lockstep
<1>10. ASSUME Take("data")
       PROVE  /\ fdc[c].pc = "wsta" /\ srv.cmd = Command(c, "WRIT", fdc[c].track)
              /\ tx[c] = << >> /\ rx' = << >> /\ Taken = Block(c, fdc[c].track, fdc[c].write)
    <2>1. srv.pc = "data"
        BY <1>10 DEF Take
    <2>2. /\ fdc[c].pc = "wsta" /\ srv.cmd = Command(c, "WRIT", fdc[c].track)
          /\ tx[c] = << >> /\ rx = Tokens(Block(c, fdc[c].track, fdc[c].write))
        BY <1>1, <1>3, <1>10, <2>1, EmptyIsNotTaken DEF Lockstep, Sending
    <2>3. PICK m \in Message : m = Block(c, fdc[c].track, fdc[c].write)
        BY <1>5, <2>2
    <2>4. Wanted = Frame(m.op)
        BY <1>5, <2>1, <2>2, <2>3 DEF Wanted
    <2>5. Taken = m /\ rx' = << >>
        BY <1>1, <1>10, <2>2, <2>3, <2>4, MessageIsTaken
    <2> QED
        BY <2>2, <2>3, <2>5
<1>11. ~TimeOut("data")
    <2> SUFFICES ASSUME TimeOut("data") PROVE FALSE
        OBVIOUS
    <2>1. srv.pc = "data" /\ ~Ready /\ tx[c] = << >> /\ ~orphan
        BY DEF TimeOut, Silence, WsInv
    <2>2. Len(<< >>) = 0
        OBVIOUS
    <2>3. fdc[c].pc = "wsta" /\ rx = Tokens(Block(c, fdc[c].track, fdc[c].write))
        BY <1>3, <2>1, <2>2 DEF Lockstep, Sending
    <2>4. PICK m \in Message : m = Block(c, fdc[c].track, fdc[c].write)
        BY <1>5, <2>3
    <2>5. Len(rx) = Wanted /\ Wanted \in Nat
        BY <1>5, <2>1, <2>3, <2>4, TokensAre, Sizes DEF Wanted
    <2> QED
        BY <2>1, <2>5 DEF Ready
<1>12. CASE Refused
    <2>1. Take("data") /\ srv' = Top
        BY <1>11, <1>12 DEF Refused
    <2>2. PICK code \in FdcError : Sent("WSTA", code, srv.cmd)
        BY <1>12 DEF Refused
    <2>3. srv'.pc \in {"command", "poll"}
        BY <2>1, TopIs
    <2>4. Len(tx'[c]) = 1 /\ tx'[c][1].op = "WSTA"
        BY <1>4, <1>10, <2>1, <2>2
    <2>5. Between(c)'
        BY <1>2, <1>10, <2>1, <2>4 DEF Between, Ends
    <2> QED
        BY <1>5, <1>10, <2>1, <2>2, <2>3, <2>5 DEF Lockstep
<1>13. CASE Received
    <2>1. Take("data") /\ tx' = tx /\ srv' = [srv EXCEPT !.pc = "write", !.block = Taken]
        BY <1>13 DEF Received
    <2>2. srv'.pc = "write" /\ srv'.cmd = srv.cmd /\ srv'.block = Taken
        BY <1>1, <2>1 DEF Srv
    <2>3. Serving(c)'
        BY <1>2, <1>10, <2>1, <2>2 DEF Serving
    <2> QED
        BY <1>5, <2>1, <2>2, <2>3 DEF Lockstep
<1> QED
    BY <1>2, <1>6, <1>7, <1>8, <1>9, <1>12, <1>13

LEMMA ServerKeepsWs ==
    ASSUME IndInv, transport = "ws", WsInv, ServerStep
    PROVE  WsInv'
<1>1. /\ Common /\ FdcTypeOK /\ tx \in [Client -> Seq(Response)] /\ peer \in Client \cup {NoClient}
    BY DEF IndInv, Common, FdcTypeOK
<1>2. /\ UNCHANGED <<fdc, wired, peer, paused>>
      /\ Looks \/ Commanded \/ Served \/ Synced \/ Refused \/ Received
    BY <1>1, ServerCases DEF Rest
<1>3. ~orphan' /\ ~paused'
    BY <1>2 DEF WsInv, Looks, Commanded, Served, Synced, Refused, Received, TimeOut
<1>4. CASE peer = NoClient
    <2>1. tx' = tx
        BY <1>2, <1>4, Given DEF Looks, Commanded, Served, Synced, Refused, Received, Sent
    <2>2. srv.pc \notin {"command", "data"}
        BY <1>4 DEF WsInv
    <2>3. srv'.pc \notin {"command", "data"}
        <3>1. Served \/ Synced
            BY <1>2, <1>4, <2>2 DEF Looks, Commanded, Refused, Received, Take, TimeOut
        <3>2. srv' = Top
            BY <1>4, <3>1 DEF Served, Synced
        <3> QED
            BY <1>4, <3>2, TopIs
    <2>4. \A d \in Client : peer # d
        BY <1>4, Given
    <2> QED
        BY <1>2, <1>3, <2>1, <2>3, <2>4 DEF WsInv
<1>5. CASE peer # NoClient
    <2>1. PICK c \in Client : peer = c
        BY <1>1, <1>5
    <2>2. Lockstep(c)'
        BY <2>1, ServerKeepsLockstep
    <2>3. PICK m : m.from = c /\ (tx' = tx \/ \E op, code : Sent(op, code, m))
        BY <2>1, ServerKeepsLockstep
    <2>4. /\ \A d \in Client : d # c => tx'[d] = tx[d]
          /\ \A d \in Client : \A i \in DOMAIN tx'[d] : tx'[d][i].about.from = d
        <3>1. CASE tx' = tx
            BY <3>1 DEF WsInv
        <3>2. ASSUME NEW op, NEW code, Sent(op, code, m)
              PROVE  /\ \A d \in Client : d # c => tx'[d] = tx[d]
                     /\ \A d \in Client : \A i \in DOMAIN tx'[d] : tx'[d][i].about.from = d
            BY <1>1, <2>1, <2>3, <3>2, SentIs DEF WsInv
        <3> QED
            BY <2>3, <3>1, <3>2
    <2>5. c \in wired
        BY <2>1 DEF WsInv
    <2> QED
        BY <1>2, <1>3, <1>5, <2>1, <2>2, <2>4, <2>5 DEF WsInv
<1> QED
    BY <1>4, <1>5

LEMMA ControllerKeepsWs ==
    ASSUME IndInv, transport = "ws", WsInv, NEW c \in Client, c \in wired, ControllerStep(c)
    PROVE  WsInv'
<1>1. /\ Common /\ FdcTypeOK /\ tx \in [Client -> Seq(Response)] /\ fdc \in [Client -> Fdc]
      /\ peer \in Client \cup {NoClient} /\ NoClient \notin Client /\ Idle.pc = "idle"
      /\ srv \in Srv
    BY Given DEF IndInv, Common, FdcTypeOK, Idle
<1>2. PICK f \in Fdc : /\ FdcIs(f) /\ fdc' = [fdc EXCEPT ![c] = f]
                       /\ Asks(c, f) \/ Sends(c, f) \/ Stops(c, f)
    BY <1>1, ControllerCases
<1>3. UNCHANGED <<transport, peer, wired, orphan, paused, srv>>
    BY <1>1, ControllerCases DEF Elsewhere
<1>4. fdc'[c] = f /\ \A d \in Client : d # c => fdc'[d] = fdc[d]
    BY <1>1, <1>2
<1>5. ~TimedOut(c)
    BY DEF TimedOut
<1>6. tx' = tx \/ (tx[c] # << >> /\ tx' = [tx EXCEPT ![c] = Tail(tx[c])])
    BY <1>2 DEF Asks, Sends, Stops
<1>7. /\ \A d \in Client : d # c => tx'[d] = tx[d]
      /\ \A d \in Client : \A i \in DOMAIN tx'[d] : tx'[d][i].about.from = d
    <2>1. CASE tx' = tx
        BY <2>1 DEF WsInv
    <2>2. CASE tx[c] # << >> /\ tx' = [tx EXCEPT ![c] = Tail(tx[c])]
        <3>1. /\ \A d \in Client : d # c => tx'[d] = tx[d]
              /\ \A i \in DOMAIN tx'[c] : i + 1 \in DOMAIN tx[c] /\ tx'[c][i] = tx[c][i + 1]
            BY <1>1, <2>2, TailIs
        <3> QED
            BY <3>1 DEF WsInv
    <2> QED
        BY <1>6, <2>1, <2>2
<1>8. ASSUME peer = c PROVE Lockstep(c)'
    <2>1. Lockstep(c)
        BY <1>8 DEF WsInv
    <2>2. rx = << >> => /\ Asks(c, f) => rx' = Tokens(CommandFor(c, f))
                        /\ Sends(c, f) => rx' = Tokens(Block(c, f.track, f.write))
        BY <1>1, <1>2, SpeechIs
    <2>3. Len(tx[c]) = 1 => tx[c] # << >> /\ Head(tx[c]) = tx[c][1]
        <3>1. Len(<< >>) = 0 /\ tx[c] \in Seq(Response)
            BY <1>1
        <3>2. \A s \in Seq(Response) : s # << >> => Head(s) = s[1]
            OBVIOUS
        <3>3. Len(tx[c]) = 1 => tx[c] # << >>
            BY <3>1
        <3> QED
            BY <3>1, <3>2, <3>3
    <2>4. tx[c] # << >> /\ tx' = [tx EXCEPT ![c] = Tail(tx[c])] /\ Len(tx[c]) = 1 => tx'[c] = << >>
        BY <1>1, TailIs
    <2>5. CASE Asks(c, f)
        <3>1. fdc[c].pc = "idle" /\ f.pc \in {"stat", "read", "writ"} /\ tx' = tx
            BY <1>1, <1>5, <2>5 DEF Asks
        <3>2. srv.pc \in {"command", "poll"} /\ Between(c)
            BY <1>1, <2>1, <3>1 DEF Lockstep, Sending, Serving, Srv
        <3>3. rx = << >> /\ tx[c] = << >>
            BY <3>1, <3>2 DEF Between, Ends
        <3>4. rx' = Tokens(CommandFor(c, f))
            BY <2>2, <2>5, <3>3
        <3>5. CommandFor(c, f) = CommandOf(c)'
            BY <1>4, <3>1 DEF CommandFor, CommandOf
        <3>6. Tokens(CommandOf(c))' = Tokens(CommandFor(c, f))
            BY <1>3, <3>5, Zenon DEF Tokens, Frame, Checksums
        <3>7. Between(c)'
            BY <1>4, <3>1, <3>3, <3>4, <3>6 DEF Between
        <3> QED
            BY <1>3, <3>2, <3>7 DEF Lockstep
    <2>6. CASE Sends(c, f)
        <3>1. /\ f.pc = "wsta" /\ fdc[c].pc = "writ" /\ f.track = fdc[c].track /\ f.write = fdc[c].write
              /\ tx[c] # << >> /\ Head(tx[c]).op = "WRIT" /\ Head(tx[c]).code = "OK"
              /\ tx' = [tx EXCEPT ![c] = Tail(tx[c])]
            BY <2>6, Zenon DEF Sends
        <3>2. srv.pc = "data" /\ Sending(c)
            BY <1>1, <2>1, <2>3, <3>1 DEF Lockstep, Between, Ends, Serving, Srv
        <3>3. srv.cmd = Command(c, "WRIT", f.track) /\ rx = << >> /\ Len(tx[c]) = 1
            BY <3>1, <3>2 DEF Sending
        <3>4. rx' = Tokens(Block(c, f.track, f.write)) /\ tx'[c] = << >>
            BY <2>2, <2>4, <2>6, <3>1, <3>3
        <3>5. Tokens(Block(c, fdc[c].track, fdc[c].write))' = Tokens(Block(c, f.track, f.write))
            BY <1>3, <1>4, Zenon DEF Tokens, Frame, Checksums
        <3>6. Sending(c)'
            BY <1>3, <1>4, <3>1, <3>3, <3>4, <3>5 DEF Sending
        <3> QED
            BY <1>3, <3>2, <3>6 DEF Lockstep
    <2>7. CASE Stops(c, f)
        <3>1. /\ rx' = rx /\ tx[c] # << >> /\ tx' = [tx EXCEPT ![c] = Tail(tx[c])]
              /\ f = Idle \/ (f = fdc[c] /\ ~Expected(c))
            BY <1>5, <2>7, Zenon DEF Stops
        <3>2. CASE srv.pc \in {"command", "poll"}
            <4>1. rx = << >> /\ Len(tx[c]) = 1 /\ Ends(c, tx[c][1])
                BY <2>1, <3>1, <3>2 DEF Lockstep, Between
            <4>2. Expected(c)
                BY <2>3, <4>1 DEF Expected, Ends
            <4>3. f = Idle /\ tx'[c] = << >>
                BY <2>4, <3>1, <4>1, <4>2
            <4>4. Between(c)'
                BY <1>1, <1>4, <3>1, <4>1, <4>3 DEF Between
            <4> QED
                BY <1>3, <3>2, <4>4 DEF Lockstep
        <3>3. CASE srv.pc = "data"
            <4>1. fdc[c].pc = "writ" /\ Len(tx[c]) = 1 /\ tx[c][1].op = "WRIT" /\ tx[c][1].code = "OK"
                BY <2>1, <3>1, <3>3 DEF Lockstep, Sending
            <4>2. Expected(c) /\ Head(tx[c]).code = "OK"
                BY <2>3, <4>1 DEF Expected
            <4>3. ControllerStep(c) /\ ~Ask(c) /\ ~Retry(c) /\ ~GiveUp(c) /\ ~IgnoreResponse(c) /\ ~Finish(c)
                <5>1. fdc[c] # Idle
                    BY <1>1, <4>1
                <5>2. ~Ask(c)
                    BY <5>1, Zenon DEF Ask, AskStatus, AskRead, AskWrite
                <5>3. ~Retry(c) /\ ~GiveUp(c)
                    BY <1>5, Zenon DEF Retry, GiveUp
                <5>4. ~IgnoreResponse(c) /\ ~Finish(c)
                    BY <4>1, <4>2, Zenon DEF IgnoreResponse, Finish
                <5> QED
                    BY <5>2, <5>3, <5>4
            <4>4. SendTrack(c)
                BY <4>3, Zenon DEF ControllerStep, Answered
            <4>5. fdc'[c].pc = "wsta"
                BY <1>1, <4>4 DEF SendTrack, Fdc
            <4> QED
                BY <1>1, <1>4, <3>1, <4>1, <4>2, <4>5
        <3>4. CASE srv.pc \in {"read", "datasync", "write"}
            BY <2>1, <3>1, <3>4 DEF Lockstep, Serving
        <3> QED
            BY <1>1, <3>2, <3>3, <3>4 DEF Srv
    <2> QED
        BY <1>2, <2>5, <2>6, <2>7
<1>9. \A d \in Client : peer = d => d = c
    BY DEF WsInv
<1> QED
    BY <1>3, <1>4, <1>7, <1>8, <1>9 DEF WsInv

-----------------------------------------------------------------------------
(* The operator, the sockets and the drive *)

Around == <<transport, drive, disk, fdcErrno, acked, writes, faults>>

LEMMA OperatorKeeps ==
    ASSUME OneByOne, IndInv, Operator
    PROVE  IndInv'
<1>1. transport = "serial"
    BY ChoicesAssumption DEF IndInv, Common, FdcTypeOK, WsInv, Operator, Pause, ClosePort, OpenPort, Resume
<1>2. /\ SerialInv /\ Common /\ FdcTypeOK /\ TokensOK /\ SrvOK /\ FdcOK /\ DiskOK
      /\ srv \in Srv /\ NoClient \notin Client /\ Controller \in Client
    BY <1>1, Given DEF IndInv, Common, FdcTypeOK
<1>3. CASE Pause \/ Resume
    <2>1. UNCHANGED <<transport, peer, wired, rx, orphan, srv, drive, disk, fdcErrno, fdc, acked, tx,
                      writes, faults>>
        BY <1>3, Zenon DEF Pause, Resume, port, engine, controllers
    <2>2. paused' \in BOOLEAN /\ changes' \in Nat
        <3>1. /\ paused' = TRUE \/ paused' = FALSE
              /\ changes' = changes \/ changes' = changes + 1
            BY <1>3, Zenon DEF Pause, Resume, Change
        <3>2. changes' \in Nat
            BY <1>2, <3>1 DEF FdcTypeOK
        <3>3. paused' \in BOOLEAN
            BY <3>1
        <3> QED
            BY <3>2, <3>3
    <2>3. Common'
        BY <1>2, <2>1, <2>2 DEF Common, FdcTypeOK, TokensOK, SrvOK, FdcOK, DiskOK
    <2>4. SerialInv'
        BY <1>2, <2>1 DEF SerialInv, PortOK, OwnOK, StreamOK, HeadOK
    <2> QED
        BY <1>1, <2>1, <2>3, <2>4 DEF IndInv
<1>4. CASE ClosePort
    <2>1. /\ UNCHANGED <<transport, srv, drive, disk, fdcErrno, fdc, acked, tx, writes, faults,
                         paused, changes>>
          /\ Settled /\ peer' = NoClient /\ wired' = {} /\ rx' = << >>
          /\ orphan' = (srv.pc \in {"command", "data"})
        BY <1>4, Zenon DEF ClosePort, port, engine, controllers
    <2>2. /\ << >> \in Seq(Token) /\ Len(<< >>) = 0 /\ DOMAIN << >> = {} /\ MaxQueue \in Nat
        BY Given
    <2>3. orphan' \in BOOLEAN
        BY <2>1
    <2>4. Common'
        BY <1>2, <2>1, <2>2, <2>3 DEF Common, FdcTypeOK, TokensOK, SrvOK, FdcOK, DiskOK
    <2>5. srv.pc \notin {"read", "datasync", "write"}
        BY <2>1 DEF Settled, OneByOne
    <2>6. PortOK'
        BY <1>2, <2>1, <2>5 DEF PortOK, Srv
    <2>7. OwnOK' /\ StreamOK'
        BY <1>2, <2>1, <2>2 DEF SerialInv, OwnOK, StreamOK
    <2>8. HeadOK'
        BY <2>1, <2>5 DEF HeadOK
    <2> QED
        BY <1>1, <2>1, <2>4, <2>6, <2>7, <2>8 DEF IndInv, SerialInv
<1>5. CASE OpenPort
    <2>1. /\ UNCHANGED <<transport, srv, drive, disk, fdcErrno, fdc, acked, tx, writes, faults,
                         paused, rx, orphan, changes>>
          /\ peer' = Controller /\ wired' = {Controller}
        BY <1>5, Zenon DEF OpenPort, port, engine, controllers
    <2>2. Common'
        BY <1>2, <2>1 DEF Common, FdcTypeOK, TokensOK, SrvOK, FdcOK, DiskOK
    <2>3. PortOK'
        BY <1>2, <2>1 DEF SerialInv, PortOK
    <2>4. OwnOK' /\ StreamOK' /\ HeadOK'
        BY <1>2, <2>1 DEF SerialInv, OwnOK, StreamOK, HeadOK
    <2> QED
        BY <1>1, <2>1, <2>2, <2>3, <2>4 DEF IndInv, SerialInv
<1> QED
    BY <1>3, <1>4, <1>5 DEF Operator

LEMMA NetworkKeeps ==
    ASSUME OneByOne, IndInv, Network
    PROVE  IndInv'
<1>1. transport = "ws"
    BY DEF Network, CloseConnection, Accept, Closed, SocketChange
<1>2. /\ WsInv /\ Common /\ FdcTypeOK /\ TokensOK /\ SrvOK /\ FdcOK /\ DiskOK
      /\ srv \in Srv /\ fdc \in [Client -> Fdc] /\ tx \in [Client -> Seq(Response)]
      /\ wired \subseteq Client /\ NoClient \notin Client
    BY <1>1, Given DEF IndInv, Common, FdcTypeOK
<1>3. /\ Idle \in Fdc /\ Idle.pc = "idle" /\ << >> \in Seq(Response) /\ << >> \in Seq(Token)
      /\ Len(<< >>) = 0 /\ DOMAIN << >> = {} /\ MaxQueue \in Nat
    BY Given DEF Idle, Fdc
<1>4. Woken \in Srv /\ (Woken = srv \/ Woken = Waiting("poll")) /\ Woken.pc \notin {"command", "data"}
      /\ Waiting("poll").pc = "poll"
    BY <1>2 DEF Woken, Receiving, Waiting, Srv
<1>5. ASSUME UNCHANGED Around, UNCHANGED <<orphan, paused>>, changes' \in Nat,
             peer' \in Client \cup {NoClient}, wired' \subseteq Client,
             rx' = rx \/ rx' = << >>, srv' = srv \/ srv' = Woken,
             fdc' = fdc \/ \E c \in Client : fdc' = [fdc EXCEPT ![c] = Idle],
             tx' = tx \/ \E c \in Client : tx' = [tx EXCEPT ![c] = << >>]
      PROVE  Common'
    <2>1. fdc' \in [Client -> Fdc] /\ \A d \in Client : fdc'[d] = fdc[d] \/ fdc'[d] = Idle
        BY <1>2, <1>3, <1>5
    <2>2. tx' \in [Client -> Seq(Response)]
        BY <1>2, <1>3, <1>5
    <2>3. rx' \in Seq(Token) /\ Len(rx') <= MaxQueue /\ TokensOK'
        <3>1. CASE rx' = rx
            BY <1>2, <3>1 DEF FdcTypeOK, TokensOK
        <3>2. CASE rx' = << >>
            BY <1>3, <3>2 DEF TokensOK
        <3> QED
            BY <1>5, <3>1, <3>2
    <2>4. SrvOK' /\ srv' \in Srv
        BY <1>2, <1>4, <1>5 DEF SrvOK
    <2>5. FdcOK'
        BY <1>2, <1>3, <2>1 DEF FdcOK
    <2>6. FdcTypeOK' /\ DiskOK'
        BY <1>2, <1>5, <2>1, <2>2, <2>3, <2>4 DEF Around, FdcTypeOK, DiskOK
    <2> QED
        BY <2>3, <2>4, <2>5, <2>6 DEF Common
<1>6. changes' \in Nat
    BY <1>2 DEF Network, CloseConnection, Accept, Closed, SocketChange, FdcTypeOK
<1>7. ASSUME NEW c \in Client, Accept(c) PROVE Common' /\ WsInv'
    <2>1. /\ UNCHANGED Around /\ UNCHANGED <<orphan, paused, srv, fdc, tx>>
          /\ c \notin wired /\ wired = {} /\ srv.pc \in {"command", "poll"}
          /\ peer' = c /\ wired' = wired \cup {c} /\ rx' = << >>
        BY <1>7, Zenon DEF Accept, NewBuffer, loop, engine, Around, OneByOne
    <2>2. Common'
        BY <1>2, <1>5, <1>6, <2>1
    <2>3. fdc[c] = Idle /\ tx[c] = << >>
        BY <1>2, <2>1 DEF WsInv
    <2>4. Between(c)'
        BY <1>3, <2>1, <2>3 DEF Between
    <2>5. Lockstep(c)'
        BY <2>1, <2>4 DEF Lockstep
    <2>6. \A d \in Client : peer' = d => d = c
        BY <2>1
    <2> QED
        BY <1>2, <2>1, <2>2, <2>5, <2>6 DEF WsInv
<1>8. ASSUME NEW c \in Client, Closed(c) PROVE Common' /\ WsInv'
    <2>1. /\ UNCHANGED Around /\ UNCHANGED <<orphan, paused, rx>>
          /\ c \in wired /\ wired' = wired \ {c}
          /\ fdc' = [fdc EXCEPT ![c] = Idle] /\ tx' = [tx EXCEPT ![c] = << >>]
          /\ \/ peer = c /\ peer' = NoClient /\ srv' = Woken
             \/ peer # c /\ peer' = peer /\ srv' = srv
        BY <1>8, Zenon DEF Closed, loop, engine, Around
    <2>2. peer' = NoClient /\ srv'.pc \notin {"command", "data"}
        <3>1. CASE peer = c
            BY <1>4, <2>1, <3>1
        <3>2. CASE peer # c
            <4>1. peer \notin Client
                BY <1>2, <2>1, <3>2 DEF WsInv
            <4>2. peer = NoClient
                BY <1>2, <4>1 DEF FdcTypeOK
            <4> QED
                BY <1>2, <2>1, <3>2, <4>2 DEF WsInv
        <3> QED
            BY <3>1, <3>2
    <2>3. Common'
        BY <1>2, <1>5, <1>6, <2>1, <2>2
    <2>4. \A d \in Client : /\ fdc'[d] = IF d = c THEN Idle ELSE fdc[d]
                            /\ tx'[d] = IF d = c THEN << >> ELSE tx[d]
        BY <1>2, <2>1
    <2>5. \A d \in Client \ wired' : fdc'[d] = Idle /\ tx'[d] = << >>
        BY <1>2, <2>1, <2>4 DEF WsInv
    <2>6. \A d \in Client : \A i \in DOMAIN tx'[d] : tx'[d][i].about.from = d
        BY <1>2, <1>3, <2>4 DEF WsInv
    <2>7. \A d \in Client : peer' # d
        BY <1>2, <2>2
    <2> QED
        BY <1>2, <2>1, <2>2, <2>3, <2>5, <2>6, <2>7 DEF WsInv
<1>9. CASE CloseConnection
    <2>1. /\ UNCHANGED Around /\ UNCHANGED <<orphan, paused, rx, wired, fdc, tx>>
          /\ peer' = NoClient /\ srv' = Woken
        BY <1>9, Zenon DEF CloseConnection, loop, engine, Around
    <2>2. Common'
        BY <1>2, <1>5, <1>6, <2>1
    <2>3. \A d \in Client : peer' # d
        BY <1>2, <2>1
    <2>4. srv'.pc \notin {"command", "data"}
        BY <1>4, <2>1
    <2>5. /\ ~orphan' /\ ~paused' /\ \A c, d \in wired' : c = d
          /\ \A c \in Client \ wired' : fdc'[c] = Idle /\ tx'[c] = << >>
          /\ \A c \in Client : \A i \in DOMAIN tx'[c] : tx'[c][i].about.from = c
        BY <1>2, <2>1 DEF WsInv
    <2>6. WsInv'
        BY <2>3, <2>4, <2>5 DEF WsInv
    <2> QED
        BY <1>1, <2>1, <2>2, <2>6 DEF IndInv, Around
<1> QED
    BY <1>1, <1>7, <1>8, <1>9 DEF Network, IndInv, Accept, Closed, CloseConnection, loop

LEMMA QuietKeeps ==
    ASSUME IndInv, DriveChanges \/ UNCHANGED vars
    PROVE  IndInv'
<1>1. /\ UNCHANGED <<transport, peer, wired, rx, orphan, paused, srv, disk, fdcErrno, fdc, acked,
                     tx, writes, faults>>
    BY Zenon DEF DriveChanges, vars, link, controllers
<1>2. Common /\ FdcTypeOK
    BY DEF IndInv, Common
<1>3. drive' \in {"ready", "protected", "absent"} /\ changes' \in Nat
    BY <1>2 DEF DriveChanges, vars, Change, FdcTypeOK
<1>4. Common'
    BY <1>1, <1>2, <1>3 DEF Common, FdcTypeOK, TokensOK, SrvOK, FdcOK, DiskOK
<1>5. ASSUME SerialInv PROVE SerialInv'
    BY <1>1, <1>5 DEF SerialInv, PortOK, OwnOK, StreamOK, HeadOK
<1>6. ASSUME WsInv PROVE WsInv'
    <2>1. ASSUME NEW c \in Client, Lockstep(c) PROVE Lockstep(c)'
        <3>2. CommandOf(c)' = CommandOf(c)
            BY <1>1, Zenon DEF CommandOf
        <3>3. Tokens(CommandOf(c))' = Tokens(CommandOf(c))
            BY <1>1, Zenon DEF Tokens, Frame, Checksums, CommandOf
        <3>4. Tokens(Block(c, fdc[c].track, fdc[c].write))'
                    = Tokens(Block(c, fdc[c].track, fdc[c].write))
            BY <1>1, Zenon DEF Tokens, Frame, Checksums
        <3>5. Between(c) => Between(c)'
            BY <1>1, <3>3 DEF Between, Ends
        <3>6. Sending(c) => Sending(c)'
            BY <1>1, <3>4 DEF Sending
        <3>7. Serving(c) => Serving(c)'
            BY <1>1, <3>2 DEF Serving
        <3> QED
            BY <1>1, <2>1, <3>5, <3>6, <3>7 DEF Lockstep
    <2> QED
        BY <1>1, <1>6, <2>1 DEF WsInv
<1> QED
    BY <1>1, <1>4, <1>5, <1>6 DEF IndInv

-----------------------------------------------------------------------------
(* The invariant *)

LEMMA InitHolds == LinksInit => IndInv
<1> SUFFICES ASSUME LinksInit PROVE IndInv
    OBVIOUS
<1>1. Common
    BY FdcInit
<1>2. /\ peer \in Client /\ wired = {peer} /\ rx = << >> /\ orphan = FALSE /\ paused = FALSE
      /\ srv = Waiting("command") /\ fdc = [c \in Client |-> Idle] /\ tx = [c \in Client |-> << >>]
      /\ transport = "serial" => peer = Controller
    BY Zenon DEF LinksInit, Init
<1>3. /\ srv.pc = "command" /\ srv.cmd = Noise /\ Idle.pc = "idle" /\ DOMAIN << >> = {}
      /\ \A c \in Client : fdc[c] = Idle /\ tx[c] = << >>
      /\ NoClient \notin Client /\ Controller \in Client
    BY <1>2, Given DEF Waiting, Idle
<1>4. ASSUME transport = "serial" PROVE SerialInv
    BY <1>2, <1>3, <1>4 DEF SerialInv, PortOK, OwnOK, StreamOK, HeadOK
<1>5. ASSUME transport = "ws" PROVE WsInv
    <2>1. Lockstep(peer)
        BY <1>2, <1>3 DEF Lockstep, Between
    <2> QED
        BY <1>2, <1>3, <2>1 DEF WsInv
<1> QED
    BY <1>1, <1>4, <1>5 DEF IndInv

LEMMA Inductive ==
    ASSUME OneByOne, IndInv, [Next]_vars
    PROVE  IndInv'
<1>0. /\ Common /\ transport \in {"serial", "ws"}
    BY ChoicesAssumption DEF IndInv, Common, FdcTypeOK
<1>1. CASE ServerStep
    <2>1. Common' /\ transport' = transport
        BY <1>0, <1>1, ServerKeepsCommon, ServerCases DEF Rest
    <2>2. CASE transport = "serial"
        <3>1. SerialInv
            BY <2>2 DEF IndInv
        <3>2. SerialInv'
            BY <1>1, <3>1, ServerKeepsSerial
        <3> QED
            BY <2>1, <2>2, <3>2 DEF IndInv
    <2>3. CASE transport = "ws"
        <3>1. WsInv
            BY <2>3 DEF IndInv
        <3>2. WsInv'
            BY <1>1, <2>3, <3>1, ServerKeepsWs
        <3> QED
            BY <2>1, <2>3, <3>2 DEF IndInv
    <2> QED
        BY <1>0, <2>2, <2>3
<1>2. ASSUME NEW c \in Client, Speaks(c), ControllerStep(c)
      PROVE  IndInv'
    <2>1. Common' /\ transport' = transport
        BY <1>0, <1>2, ControllerKeepsCommon, ControllerCases DEF Elsewhere
    <2>2. CASE transport = "serial"
        <3>1. SerialInv
            BY <2>2 DEF IndInv
        <3>2. c = Controller
            BY <1>2, <2>2 DEF Speaks
        <3>3. SerialInv'
            BY <1>2, <3>1, <3>2, ControllerKeepsSerial
        <3> QED
            BY <2>1, <2>2, <3>3 DEF IndInv
    <2>3. CASE transport = "ws"
        <3>1. WsInv
            BY <2>3 DEF IndInv
        <3>2. c \in wired
            BY <1>2, <2>3 DEF Speaks
        <3>3. WsInv'
            BY <1>2, <2>3, <3>1, <3>2, ControllerKeepsWs
        <3> QED
            BY <2>1, <2>3, <3>3 DEF IndInv
    <2> QED
        BY <1>0, <2>2, <2>3
<1>3. CASE Operator
    BY <1>3, OperatorKeeps
<1>4. CASE Network
    BY <1>4, NetworkKeeps
<1>5. CASE DriveChanges \/ UNCHANGED vars
    BY <1>5, QuietKeeps
<1>6. \/ ServerStep \/ Operator \/ Network \/ DriveChanges \/ UNCHANGED vars
      \/ \E c \in Client : Speaks(c) /\ ControllerStep(c)
    BY Zenon DEF Next, ControllerStep
<1> QED
    BY <1>1, <1>2, <1>3, <1>4, <1>5, <1>6

\* A frame of data does not say where it belongs, and the loop writes it to the track of
\* the command it serves.  Whatever the line loses or garbles, whenever the controller
\* stops waiting and asks again, on either transport: no block is ever written to
\* another track than its own.
THEOREM TracksHoldTheirBlocks == ASSUME OneByOne PROVE Spec => []TrackHoldsSentBlock
<1>1. LinksInit => IndInv
    BY InitHolds
<1>2. IndInv /\ [Next]_vars => IndInv'
    BY Inductive
<1>3. IndInv => TrackHoldsSentBlock
    BY DEF IndInv, Common, DiskOK, TrackHoldsSentBlock
<1> QED
    BY <1>1, <1>2, <1>3, PTL DEF Spec

\* What the loop sends to a controller is about a command of that controller, although
\* it is sent to whoever is connected by then.
THEOREM ResponsesAreSolicited == ASSUME OneByOne PROVE Spec => []NoUnsolicitedResponse
<1>1. LinksInit => IndInv
    BY InitHolds
<1>2. IndInv /\ [Next]_vars => IndInv'
    BY Inductive
<1>3. IndInv => NoUnsolicitedResponse
    <2> SUFFICES ASSUME IndInv, NEW c \in Client, NEW i \in DOMAIN tx[c]
                 PROVE  tx[c][i].about.from = c
        BY DEF NoUnsolicitedResponse
    <2>1. transport \in {"serial", "ws"}
        BY ChoicesAssumption DEF IndInv, Common, FdcTypeOK
    <2>2. CASE transport = "ws"
        BY <2>2 DEF IndInv, WsInv
    <2>3. CASE transport = "serial"
        <3>1. tx[c] # << >>
            OBVIOUS
        <3> QED
            BY <2>3, <3>1 DEF IndInv, SerialInv, OwnOK
    <2> QED
        BY <2>1, <2>2, <2>3
<1> QED
    BY <1>1, <1>2, <1>3, PTL DEF Spec

-----------------------------------------------------------------------------
(* A controller that waits in time *)

\* One controller at a time, and on the line it asks again only when the loop has
\* nothing of its command left to answer.
InTime == ~Displaces /\ Reconfigures = "never" /\ Timing = "timely"

\* Late answers to a write, which end no wait but one for such an answer.
Stale(s) == \A i \in DOMAIN s : s[i].op = "WSTA"

\* The response r is what c waits for.
Fits(c, r) ==
    \/ fdc[c].pc = "stat" /\ r.op = "STAT"
    \/ /\ fdc[c].pc = "read" /\ r.op = "DATA"
       /\ r.about.track = fdc[c].track /\ r.block.track = fdc[c].track
    \/ fdc[c].pc = "writ" /\ r.op = "WRIT"
    \/ fdc[c].pc = "wsta" /\ r.op = "WSTA"

LastOf(c) == tx[c][Len(tx[c])]

\* It is the last on its way.
Comes(c) ==
    /\ tx[c] # << >> /\ Fits(c, LastOf(c))
    /\ \A i \in DOMAIN tx[c] : i < Len(tx[c]) => tx[c][i].op = "WSTA"

\* A command that the loop would find next is the one that c has asked last.
InFront(c) == \A m \in Message :
    /\ Len(rx) >= Frame("command")
    /\ \A i \in 1 .. Frame("command") : rx[i] = [msg |-> m, part |-> i]
    => m = CommandOf(c) /\ Len(rx) = Frame("command")

\* The loop is between two commands.
Rests(c) ==
    \/ /\ fdc[c].pc # "wsta" /\ Stale(tx[c]) /\ Len(rx) < 2 * Frame("command")
       /\ fdc[c].pc = "idle" => Len(rx) < Frame("command")
       /\ InFront(c)
    \/ /\ fdc[c].pc \in {"stat", "read", "writ"} /\ rx = << >> /\ Comes(c)
       /\ fdc[c].pc = "writ" => LastOf(c).code # "OK"
    \/ fdc[c].pc = "wsta" /\ rx = << >> /\ Len(tx[c]) <= 1 /\ Stale(tx[c])

\* What has come of the track of c, and nothing else.
Coming(c) ==
    LET m == Block(c, fdc[c].track, fdc[c].write) IN
    /\ Len(rx) <= Frame("DATA")
    /\ \A i \in 1 .. Len(rx) : rx[i].msg \in {m, Noise}
    /\ "garble" \notin LineFaults /\ Len(rx) = Frame("DATA") => rx = Tokens(m)

\* The loop waits for a track: c has been told to go on, or has gone on, or has given up.
Awaits(c) ==
    \/ /\ fdc[c].pc = "writ" /\ rx = << >> /\ srv.cmd = Command(c, "WRIT", fdc[c].track)
       /\ Comes(c) /\ LastOf(c).code = "OK"
    \/ /\ fdc[c].pc = "wsta" /\ tx[c] = << >> /\ srv.cmd = Command(c, "WRIT", fdc[c].track)
       /\ Coming(c)
    \/ /\ fdc[c].pc # "wsta" /\ Stale(tx[c]) /\ Len(rx) < Frame("DATA") + Frame("command")
       /\ fdc[c].pc = "idle" => Len(rx) < Frame("DATA")
       /\ Len(rx) >= Frame("DATA") => \E i \in 1 .. Frame("DATA") : rx[i].msg.op # "DATA"

\* The loop serves what c waits for.
Serves(c) ==
    /\ rx = << >> /\ Stale(tx[c])
    /\ srv.pc = "read" => fdc[c].pc = "read" /\ srv.cmd = CommandOf(c)
    /\ srv.pc = "datasync" => fdc[c].pc = "writ" /\ srv.cmd = CommandOf(c)
    /\ srv.pc = "write" =>
         /\ fdc[c].pc = "wsta" /\ tx[c] = << >> /\ srv.cmd = Command(c, "WRIT", fdc[c].track)
         /\ srv.block = Block(c, fdc[c].track, fdc[c].write)

Turn(c) ==
    /\ srv.pc \in {"command", "poll"} => Rests(c)
    /\ srv.pc = "data" => Awaits(c)
    /\ srv.pc \in {"read", "datasync", "write"} => Serves(c)

LineInv ==
    /\ peer = Controller /\ wired = {Controller} /\ ~orphan /\ ~paused
    /\ \A c \in Client : c # Controller => fdc[c] = Idle
    /\ Turn(Controller)

\* On a WebSocket a controller has one response before it at most.
AnswersFit == \A c \in Client : tx[c] # << >> => Len(tx[c]) = 1 /\ Fits(c, tx[c][1])

TimelyInv ==
    /\ transport = "serial" => LineInv
    /\ transport = "ws" => AnswersFit

\* Writes are numbered: a track holds none after the last that was asked for.
WritesOK ==
    /\ \A t \in Track : acked[t] <= disk[t].write /\ disk[t].write <= writes
    /\ \A c \in Client : fdc[c].pc \in {"writ", "wsta"} => fdc[c].write = writes

\* The success that a controller will find is about its last write, which is on the disk.
StatusOK == \A c \in Client : \A i \in DOMAIN tx[c] :
    fdc[c].pc = "wsta" /\ tx[c][i].op = "WSTA" /\ tx[c][i].code = "OK" =>
        disk[fdc[c].track].write = writes

WritingOK == srv.pc = "write" =>
    /\ srv.block.write = writes
    /\ \A c \in wired : fdc[c].pc = "wsta" /\ tx[c] = << >>

AckInv == WritesOK /\ StatusOK /\ WritingOK

\* The writes that a step of c asks for, repeats or has confirmed.
Counts(c, f) ==
    \/ /\ UNCHANGED <<acked, writes>>
       /\ f.pc \in {"writ", "wsta"} => fdc[c].pc \in {"writ", "wsta"} /\ f.write = fdc[c].write
    \/ /\ acked' = acked /\ fdc[c] = Idle
       /\ writes' = writes + 1 /\ f.pc = "writ" /\ f.write = writes'
    \/ /\ writes' = writes /\ f = Idle /\ fdc[c].pc = "wsta"
       /\ tx[c] # << >> /\ Head(tx[c]).op = "WSTA" /\ Head(tx[c]).code = "OK"
       /\ acked' = [acked EXCEPT ![fdc[c].track] = fdc[c].write]

LEMMA ControllerCounts ==
    ASSUME Common, NEW c \in Client, ControllerStep(c)
    PROVE  Counts(c, fdc'[c])
<1>0. fdc \in [Client -> Fdc] /\ fdc[c] \in Fdc /\ Idle.pc = "idle"
    BY DEF Common, FdcTypeOK, Idle
<1> USE DEF link, engine, controllers
<1>1. CASE AskStatus(c)
    <2>1. UNCHANGED <<acked, writes>> /\ fdc' = [fdc EXCEPT ![c].pc = "stat"]
        BY <1>1, Zenon DEF AskStatus
    <2>2. fdc'[c].pc = "stat"
        BY <1>0, <2>1 DEF Fdc
    <2> QED
        BY <2>1, <2>2 DEF Counts
<1>2. ASSUME NEW t \in Track, AskRead(c, t) PROVE Counts(c, fdc'[c])
    <2>1. /\ UNCHANGED <<acked, writes>>
          /\ fdc' = [fdc EXCEPT ![c] = [pc |-> "read", track |-> t, write |-> 0]]
        BY <1>2, Zenon DEF AskRead
    <2>2. fdc'[c].pc = "read"
        BY <1>0, <2>1
    <2> QED
        BY <2>1, <2>2 DEF Counts
<1>3. ASSUME NEW t \in Track, AskWrite(c, t) PROVE Counts(c, fdc'[c])
    <2>1. /\ acked' = acked /\ writes' = writes + 1 /\ fdc[c] = Idle
          /\ fdc' = [fdc EXCEPT ![c] = [pc |-> "writ", track |-> t, write |-> writes + 1]]
        BY <1>3, Zenon DEF AskWrite
    <2>2. fdc'[c].pc = "writ" /\ fdc'[c].write = writes'
        BY <1>0, <2>1
    <2> QED
        BY <2>1, <2>2 DEF Counts
<1>4. CASE IgnoreResponse(c)
    <2>1. UNCHANGED <<acked, writes, fdc>>
        BY <1>4, Zenon DEF IgnoreResponse
    <2> QED
        BY <2>1 DEF Counts
<1>5. CASE SendTrack(c)
    <2>1. /\ UNCHANGED <<acked, writes>> /\ fdc[c].pc = "writ"
          /\ fdc' = [fdc EXCEPT ![c].pc = "wsta"]
        BY <1>5, Zenon DEF SendTrack
    <2>2. fdc'[c].write = fdc[c].write
        BY <1>0, <2>1 DEF Fdc
    <2> QED
        BY <2>1, <2>2 DEF Counts
<1>6. CASE Finish(c)
    <2>1. /\ writes' = writes /\ fdc' = [fdc EXCEPT ![c] = Idle] /\ Expected(c)
          /\ acked' = IF fdc[c].pc = "wsta" /\ Head(tx[c]).code = "OK"
                      THEN [acked EXCEPT ![fdc[c].track] = fdc[c].write] ELSE acked
        BY <1>6, Zenon DEF Finish
    <2>2. fdc'[c] = Idle /\ Idle.pc \notin {"writ", "wsta"}
        BY <1>0, <2>1
    <2>3. tx[c] # << >> /\ (fdc[c].pc = "wsta" => Head(tx[c]).op = "WSTA")
        BY <2>1 DEF Expected
    <2> QED
        BY <2>1, <2>2, <2>3 DEF Counts
<1>7. CASE Retry(c)
    <2>1. /\ UNCHANGED <<acked, writes>>
          /\ fdc' = [fdc EXCEPT ![c].pc = IF @ = "wsta" THEN "writ" ELSE @]
        BY <1>7, Zenon DEF Retry
    <2>2. /\ fdc'[c].write = fdc[c].write
          /\ fdc'[c].pc = IF fdc[c].pc = "wsta" THEN "writ" ELSE fdc[c].pc
        BY <1>0, <2>1 DEF Fdc
    <2> QED
        BY <2>1, <2>2 DEF Counts
<1>8. CASE GiveUp(c)
    <2>1. UNCHANGED <<acked, writes>> /\ fdc' = [fdc EXCEPT ![c] = Idle]
        BY <1>8, Zenon DEF GiveUp
    <2>2. fdc'[c].pc \notin {"writ", "wsta"}
        BY <1>0, <2>1
    <2> QED
        BY <2>1, <2>2 DEF Counts
<1> QED
    BY <1>1, <1>2, <1>3, <1>4, <1>5, <1>6, <1>7, <1>8 DEF ControllerStep, Ask, Answered

-----------------------------------------------------------------------------
(* Responses on their way, and the loop, with a controller that waits *)

LEMMA SentIsLast ==
    ASSUME tx \in [Client -> Seq(Response)], peer \in Client, NEW op, NEW code, NEW m,
           Sent(op, code, m), tx' # tx
    PROVE  /\ tx'[peer] \in Seq(Response) /\ tx'[peer] # << >>
           /\ Len(tx'[peer]) = Len(tx[peer]) + 1
           /\ \A i \in DOMAIN tx'[peer] : i < Len(tx'[peer]) =>
                 i \in DOMAIN tx[peer] /\ tx'[peer][i] = tx[peer][i]
           /\ tx'[peer][Len(tx'[peer])].op = op /\ tx'[peer][Len(tx'[peer])].code = code
           /\ tx'[peer][Len(tx'[peer])].about = m
           /\ op = "DATA" => tx'[peer][Len(tx'[peer])].block.track = m.track
           /\ \A c \in Client : c # peer => tx'[c] = tx[c]
<1>1. PICK r \in Response : /\ r.op = op /\ r.code = code /\ r.about = m
                            /\ op = "DATA" => r.block.track = m.track
                            /\ tx' = [tx EXCEPT ![peer] = Append(tx[peer], r)]
    BY DEF Sent
<1> DEFINE s == tx[peer]
           t == tx'[peer]
<1>2. s \in Seq(Response) /\ t = Append(s, r)
    BY <1>1
<1>3. /\ Len(s) \in Nat /\ DOMAIN s = 1 .. Len(s) /\ t \in Seq(Response)
      /\ Len(t) = Len(s) + 1 /\ DOMAIN t = 1 .. Len(t)
      /\ \A i \in 1 .. Len(s) : t[i] = s[i]
      /\ t[Len(s) + 1] = r
    BY <1>2, LenProperties, AppendProperties
<1> HIDE DEF s, t
<1>4. t # << >> /\ t[Len(t)] = r
    BY <1>3
<1>5. \A i \in DOMAIN t : i < Len(t) => i \in DOMAIN s /\ t[i] = s[i]
    BY <1>3
<1> QED
    BY <1>1, <1>3, <1>4, <1>5 DEF s, t

\* An answer to what its controller waits for.
LEMMA SentComes ==
    ASSUME tx \in [Client -> Seq(Response)], NEW c \in Client, peer = c, Stale(tx[c]),
           fdc' = fdc, NEW op, NEW code, NEW m, Sent(op, code, m),
           \/ fdc[c].pc = "stat" /\ op = "STAT"
           \/ fdc[c].pc = "read" /\ op = "DATA" /\ m.track = fdc[c].track
           \/ fdc[c].pc = "writ" /\ op = "WRIT"
    PROVE  tx' = tx \/ (Comes(c)' /\ LastOf(c)'.code = code)
<1> SUFFICES ASSUME tx' # tx PROVE Comes(c)' /\ LastOf(c)'.code = code
    OBVIOUS
<1>1. /\ tx'[c] # << >>
      /\ \A i \in DOMAIN tx'[c] : i < Len(tx'[c]) => i \in DOMAIN tx[c] /\ tx'[c][i] = tx[c][i]
      /\ tx'[c][Len(tx'[c])].op = op /\ tx'[c][Len(tx'[c])].code = code
      /\ tx'[c][Len(tx'[c])].about = m
      /\ op = "DATA" => tx'[c][Len(tx'[c])].block.track = m.track
    BY SentIsLast
<1>2. \A i \in DOMAIN tx'[c] : i < Len(tx'[c]) => tx'[c][i].op = "WSTA"
    BY <1>1 DEF Stale
<1>3. Fits(c, tx'[c][Len(tx'[c])])
    BY <1>1 DEF Fits
<1> QED
    BY <1>1, <1>2, <1>3 DEF Comes, LastOf, Fits

\* One more late answer to a write.
LEMMA SentIsStale ==
    ASSUME tx \in [Client -> Seq(Response)], NEW c \in Client, peer = c, Stale(tx[c]),
           NEW code, NEW m, Sent("WSTA", code, m)
    PROVE  Stale(tx'[c]) /\ (tx[c] = << >> => Len(tx'[c]) <= 1)
<1>0. Len(<< >>) = 0
    OBVIOUS
<1>1. CASE tx' = tx
    BY <1>0, <1>1
<1>2. CASE tx' # tx
    <2>1. /\ Len(tx'[c]) = Len(tx[c]) + 1 /\ tx'[c] \in Seq(Response)
          /\ \A i \in DOMAIN tx'[c] : i < Len(tx'[c]) => i \in DOMAIN tx[c] /\ tx'[c][i] = tx[c][i]
          /\ tx'[c][Len(tx'[c])].op = "WSTA"
        BY <1>2, SentIsLast
    <2>2. DOMAIN tx'[c] = 1 .. Len(tx'[c]) /\ Len(tx'[c]) \in Nat
        BY <2>1, LenProperties
    <2>3. \A i \in DOMAIN tx'[c] : i < Len(tx'[c]) \/ i = Len(tx'[c])
        BY <2>2
    <2> QED
        BY <1>0, <2>1, <2>3 DEF Stale
<1> QED
    BY <1>1, <1>2

LEMMA RestsShort ==
    ASSUME transport' = transport, NEW c \in Client, fdc'[c].pc # "wsta", Stale(tx'[c]),
           Len(rx') \in Nat, Len(rx') < Frame("command")
    PROVE  Rests(c)'
<1>1. Frame("command")' = Frame("command") /\ Frame("command") \in Nat
    BY Sizes DEF Frame, Checksums
<1>2. Len(rx') < 2 * Frame("command") /\ ~(Len(rx') >= Frame("command"))
    BY <1>1
<1>3. InFront(c)'
    BY <1>1, <1>2 DEF InFront
<1> QED
    BY <1>1, <1>2, <1>3 DEF Rests, Stale

LEMMA LooksKeepsTurn ==
    ASSUME InTime, FdcTypeOK, transport = "serial", LineInv, Looks, UNCHANGED Rest
    PROVE  Turn(Controller)' /\ orphan' = FALSE
<1>0. /\ UNCHANGED <<tx, fdc, transport>> /\ Controller \in Client /\ peer = Controller /\ orphan = FALSE
      /\ Turn(Controller) /\ rx \in Seq(Token) /\ Len(rx) \in Nat /\ Len(<< >>) = 0
      /\ Frame("command") \in Nat \ {0} /\ Frame("command")' = Frame("command")
    BY Given, Sizes, LenProperties DEF LineInv, Looks, Rest, Frame, Checksums, FdcTypeOK
<1>1. CASE srv.pc = "poll" /\ srv' = Waiting("command") /\ UNCHANGED <<rx, orphan>>
    <2>1. Rests(Controller)
        BY <1>0, <1>1 DEF Turn
    <2>2. Rests(Controller)'
        BY <1>0, <1>1, <2>1 DEF Rests, InFront, CommandOf, Comes, LastOf, Fits, Stale
    <2> QED
        BY <1>0, <1>1, <2>2 DEF Turn, Waiting
<1>2. CASE TimeOut("command") /\ srv' = Waiting("poll")
    <2>1. /\ srv.pc = "command" /\ ~Ready /\ Silence /\ orphan' = FALSE /\ rx' = Leftover
        BY <1>2, Zenon DEF TimeOut
    <2>2. Rests(Controller) /\ rx' = << >>
        BY <1>0, <2>1 DEF Turn, Leftover, Checksums
    <2>3. CASE fdc[Controller].pc # "wsta" /\ Stale(tx[Controller])
        <3>1. Len(rx') \in Nat /\ Len(rx') < Frame("command")
            BY <1>0, <2>2
        <3>2. Rests(Controller)'
            BY <1>0, <2>3, <3>1, RestsShort
        <3> QED
            BY <1>2, <2>1, <3>2 DEF Turn, Waiting
    <2>4. CASE fdc[Controller].pc = "wsta" /\ Len(tx[Controller]) <= 1 /\ Stale(tx[Controller])
        <3>1. Rests(Controller)'
            BY <1>0, <2>2, <2>4 DEF Rests, Stale
        <3> QED
            BY <1>2, <2>1, <3>1 DEF Turn, Waiting
    <2>5. Silence => ~Comes(Controller)
        BY <1>0, <2>1 DEF Silence, Comes, InTime
    <2> QED
        BY <2>1, <2>2, <2>3, <2>4, <2>5 DEF Rests
<1> QED
    BY <1>1, <1>2 DEF Looks

\* A command that is taken from the line is the one its controller waits for an answer to.
LEMMA CommandIsLast ==
    ASSUME FdcTypeOK, transport = "serial", LineInv, Take("command")
    PROVE  /\ fdc[Controller].pc \in {"stat", "read", "writ"} /\ Stale(tx[Controller])
           /\ Len(rx') \in Nat /\ Len(rx') < Frame("command")
           /\ Taken # Noise => Taken = CommandOf(Controller) /\ rx' = << >>
<1>0. /\ Turn(Controller) /\ Controller \in Client /\ fdc[Controller] \in Fdc
      /\ rx \in Seq(Token) /\ Len(rx) \in Nat /\ Frame("command") \in Nat \ {0}
    BY Given, Sizes, LenProperties DEF LineInv, FdcTypeOK
<1>1. /\ srv.pc = "command" /\ Ready /\ Wanted \in 1 .. Len(rx)
      /\ rx' \in Seq(Token) /\ Len(rx') = Len(rx) - Wanted
    BY TakeLeaves, Zenon DEF Take
<1>2. Wanted = Frame("command")
    BY <1>1 DEF Wanted
<1>3. rx # << >> /\ Len(rx) >= Frame("command")
    BY <1>0, <1>1, <1>2
<1>4. /\ fdc[Controller].pc # "wsta" /\ Stale(tx[Controller]) /\ Len(rx) < 2 * Frame("command")
      /\ fdc[Controller].pc = "idle" => Len(rx) < Frame("command")
      /\ InFront(Controller)
    BY <1>0, <1>1, <1>3, Zenon DEF Turn, Rests
<1>5. fdc[Controller].pc \in {"stat", "read", "writ"}
    BY <1>0, <1>3, <1>4 DEF Fdc
<1>6. Len(rx') \in Nat /\ Len(rx') < Frame("command")
    BY <1>0, <1>1, <1>2, <1>4
<1>7. ASSUME Taken # Noise PROVE Taken = CommandOf(Controller) /\ rx' = << >>
    <2>1. /\ Taken \in Message /\ Wanted = Frame(Taken.op)
          /\ \A i \in 1 .. Wanted : rx[i] = [msg |-> Taken, part |-> i]
        BY <1>1, <1>7, TakenIs
    <2>2. Taken = CommandOf(Controller) /\ Len(rx) = Frame("command")
        BY <1>2, <1>3, <1>4, <2>1 DEF InFront
    <2>3. Len(rx') = 0
        BY <1>0, <1>1, <1>2, <2>2
    <2> QED
        BY <1>1, <2>2, <2>3, EmptySeq
<1> QED
    BY <1>4, <1>5, <1>6, <1>7

LEMMA CommandKeepsTurn ==
    ASSUME FdcTypeOK, transport = "serial", LineInv, Commanded, UNCHANGED Rest
    PROVE  Turn(Controller)'
<1> DEFINE C == Controller
<1>0. /\ UNCHANGED <<fdc, transport>> /\ C \in Client /\ peer = C /\ peer # NoClient /\ ~paused
      /\ tx \in [Client -> Seq(Response)] /\ Take("command")
      /\ CommandOf(C)' = CommandOf(C)
    BY Given DEF LineInv, Commanded, Rest, FdcTypeOK, CommandOf
<1>1. /\ fdc[C].pc \in {"stat", "read", "writ"} /\ Stale(tx[C])
      /\ Len(rx') \in Nat /\ Len(rx') < Frame("command")
      /\ Taken # Noise => Taken = CommandOf(C) /\ rx' = << >>
    BY <1>0, CommandIsLast
<1>2. Top = Waiting("command") /\ Noise.op = "noise"
    BY <1>0, TopIs, NoiseIsNoMessage
<1>3. CASE tx' = tx /\ srv' = Top
    <2>1. Rests(C)'
        BY <1>0, <1>1, <1>3, RestsShort
    <2> QED
        BY <1>2, <1>3, <2>1 DEF Turn, Waiting
<1>4. ASSUME Taken.op \in {"STAT", "READ", "WRIT"}
      PROVE  /\ Taken = CommandOf(C) /\ rx' = << >>
             /\ Taken.op = "STAT" => fdc[C].pc = "stat"
             /\ Taken.op = "READ" => fdc[C].pc = "read"
             /\ Taken.op = "WRIT" => fdc[C].pc = "writ"
    <2>1. Taken = CommandOf(C) /\ rx' = << >>
        BY <1>1, <1>2, <1>4
    <2> QED
        BY <1>1, <2>1 DEF CommandOf, Command
<1>5. ASSUME srv' = Top, rx' = << >>, tx' # tx,
             \/ Taken.op = "STAT" /\ Sent("STAT", "OK", Taken)
             \/ Taken.op = "WRIT" /\ Sent("WRIT", "NOT_READY", Taken)
      PROVE  Turn(C)'
    <2>1. CASE Taken.op = "STAT" /\ Sent("STAT", "OK", Taken)
        <3>1. fdc[C].pc = "stat"
            BY <1>4, <2>1
        <3>2. Comes(C)'
            BY <1>0, <1>1, <1>5, <2>1, <3>1, SentComes
        <3> QED
            BY <1>0, <1>2, <1>5, <3>1, <3>2 DEF Turn, Rests, Waiting
    <2>2. CASE Taken.op = "WRIT" /\ Sent("WRIT", "NOT_READY", Taken)
        <3>1. fdc[C].pc = "writ"
            BY <1>4, <2>2
        <3>2. Comes(C)' /\ LastOf(C)'.code = "NOT_READY"
            BY <1>0, <1>1, <1>5, <2>2, <3>1, SentComes
        <3> QED
            BY <1>0, <1>2, <1>5, <3>1, <3>2 DEF Turn, Rests, Waiting
    <2> QED
        BY <1>5, <2>1, <2>2
<1>6. CASE Taken.op = "READ" /\ tx' = tx /\ srv' = [Waiting("read") EXCEPT !.cmd = Taken]
    <2>1. srv'.pc = "read" /\ srv'.cmd = Taken
        BY <1>6 DEF Waiting
    <2> QED
        BY <1>0, <1>1, <1>4, <1>6, <2>1 DEF Turn, Serves, Stale
<1>7. CASE Taken.op = "WRIT" /\ tx' = tx /\ srv' = [Waiting("datasync") EXCEPT !.cmd = Taken]
    <2>1. srv'.pc = "datasync" /\ srv'.cmd = Taken
        BY <1>7 DEF Waiting
    <2> QED
        BY <1>0, <1>1, <1>4, <1>7, <2>1 DEF Turn, Serves, Stale
<1> QED
    BY <1>3, <1>4, <1>5, <1>6, <1>7 DEF Commanded

\* The engine answers.
LEMMA ServedKeepsTurn ==
    ASSUME FdcTypeOK, transport = "serial", LineInv, Served \/ Synced, UNCHANGED Rest
    PROVE  Turn(Controller)'
<1> DEFINE C == Controller
<1>0. /\ UNCHANGED <<fdc, transport, rx>> /\ C \in Client /\ peer = C /\ peer # NoClient /\ ~paused
      /\ tx \in [Client -> Seq(Response)] /\ Turn(C) /\ Len(<< >>) = 0
      /\ Frame("command") \in Nat \ {0} /\ Frame("DATA") \in Nat \ {0}
      /\ Frame("command")' = Frame("command") /\ Frame("DATA")' = Frame("DATA")
    BY Given, Sizes DEF LineInv, Served, Synced, Rest, FdcTypeOK, Frame, Checksums
<1>1. Top = Waiting("command")
    BY <1>0, TopIs
<1>2. ASSUME srv.pc \in {"read", "datasync", "write"} PROVE Serves(C)
    BY <1>0, <1>2 DEF Turn
<1>3. CASE Served /\ srv.pc = "read"
    <2>1. /\ Serves(C) /\ srv' = Top /\ rx = << >> /\ Stale(tx[C]) /\ fdc[C].pc = "read"
          /\ srv.cmd.track = fdc[C].track /\ rx' = << >>
        BY <1>0, <1>2, <1>3 DEF Served, Serves, CommandOf, Command
    <2>2. tx' = tx \/ Sent("DATA", "OK", srv.cmd)
        BY <1>3 DEF Served
    <2>3. CASE tx' = tx
        <3>1. Rests(C)'
            BY <1>0, <2>1, <2>3, RestsShort
        <3> QED
            BY <1>1, <2>1, <3>1 DEF Turn, Waiting
    <2>4. CASE Sent("DATA", "OK", srv.cmd) /\ tx' # tx
        <3>1. Comes(C)'
            BY <1>0, <2>1, <2>4, SentComes
        <3> QED
            BY <1>0, <1>1, <2>1, <3>1 DEF Turn, Rests, Waiting
    <2> QED
        BY <2>2, <2>3, <2>4
<1>4. CASE Served /\ srv.pc = "write"
    <2>1. Serves(C) /\ srv' = Top /\ rx' = << >> /\ tx[C] = << >> /\ fdc[C].pc = "wsta" /\ Stale(tx[C])
        BY <1>0, <1>2, <1>4 DEF Served, Serves
    <2>2. PICK code : Sent("WSTA", code, srv.cmd)
        BY <1>4 DEF Served
    <2>3. Stale(tx'[C]) /\ Len(tx'[C]) <= 1
        BY <1>0, <2>1, <2>2, SentIsStale
    <2> QED
        BY <1>0, <1>1, <2>1, <2>3 DEF Turn, Rests, Waiting, Stale
<1>5. CASE Synced
    <2>1. /\ Serves(C) /\ rx' = << >> /\ Stale(tx[C]) /\ fdc[C].pc = "writ"
          /\ srv.cmd = Command(C, "WRIT", fdc[C].track) /\ Sent("WRIT", "OK", srv.cmd)
          /\ srv' = [srv EXCEPT !.pc = "data"]
        BY <1>0, <1>2, <1>5 DEF Synced, Serves, CommandOf
    <2>2. srv'.pc = "data" /\ srv'.cmd = srv.cmd
        BY <2>1 DEF FdcTypeOK, Srv
    <2>3. CASE tx' = tx
        <3>1. Awaits(C)'
            BY <1>0, <2>1, <2>3 DEF Awaits, Stale
        <3> QED
            BY <2>2, <3>1 DEF Turn
    <2>4. CASE tx' # tx
        <3>1. Comes(C)' /\ LastOf(C)'.code = "OK"
            BY <1>0, <2>1, <2>4, SentComes
        <3>2. Awaits(C)'
            BY <1>0, <2>1, <2>2, <3>1 DEF Awaits
        <3> QED
            BY <2>2, <3>2 DEF Turn
    <2> QED
        BY <2>3, <2>4
<1> QED
    BY <1>3, <1>4, <1>5 DEF Served

\* What is taken for a track is the track of a controller that waits for the outcome, or
\* noise.
LEMMA TrackIsCurrent ==
    ASSUME FdcTypeOK, transport = "serial", LineInv, Take("data")
    PROVE  \/ /\ fdc[Controller].pc = "wsta" /\ tx[Controller] = << >> /\ rx' = << >>
              /\ srv.cmd = Command(Controller, "WRIT", fdc[Controller].track)
              /\ Taken # Noise =>
                   Taken = Block(Controller, fdc[Controller].track, fdc[Controller].write)
              /\ "garble" \notin LineFaults => Taken # Noise
           \/ /\ fdc[Controller].pc # "wsta" /\ Stale(tx[Controller]) /\ Taken = Noise
              /\ Len(rx') \in Nat /\ Len(rx') < Frame("command")
<1> DEFINE C == Controller
           n == Frame("DATA")
<1>0. /\ Turn(C) /\ C \in Client /\ fdc[C] \in Fdc
      /\ rx \in Seq(Token) /\ Len(rx) \in Nat /\ n \in Nat \ {0} /\ Frame("command") \in Nat
      /\ \A op : op # "DATA" => Frame(op) < n /\ Frame(op) \in Nat
    BY Given, Sizes, LenProperties DEF LineInv, FdcTypeOK
<1>1. /\ srv.pc = "data" /\ Ready /\ Wanted \in 1 .. Len(rx)
      /\ rx' \in Seq(Token) /\ Len(rx') = Len(rx) - Wanted
    BY TakeLeaves, Zenon DEF Take
<1>2. Wanted = n
    BY <1>1 DEF Wanted
<1>3. rx # << >> /\ Len(rx) >= n /\ Awaits(C)
    BY <1>0, <1>1, <1>2 DEF Turn
<1>4. ASSUME Taken # Noise
      PROVE  /\ Taken \in Message /\ Taken.op = "DATA"
             /\ \A i \in 1 .. n : rx[i].msg = Taken
    <2>1. /\ Taken \in Message /\ Wanted = Frame(Taken.op)
          /\ \A i \in 1 .. Wanted : rx[i] = [msg |-> Taken, part |-> i]
        BY <1>1, <1>4, TakenIs
    <2>2. Taken.op = "DATA"
        BY <1>0, <1>2, <2>1
    <2>3. ASSUME NEW i \in 1 .. n PROVE rx[i].msg = Taken
        <3>1. i \in 1 .. Wanted
            BY <1>2
        <3>2. rx[i] = [msg |-> Taken, part |-> i]
            BY <2>1, <3>1
        <3> QED
            BY <3>2
    <2> QED
        BY <2>1, <2>2, <2>3
<1>5. CASE /\ fdc[C].pc = "wsta" /\ tx[C] = << >> /\ srv.cmd = Command(C, "WRIT", fdc[C].track)
           /\ Coming(C)
    <2>1. PICK m \in Message : m = Block(C, fdc[C].track, fdc[C].write)
        BY <1>0 DEF Block, Message, Fdc
    <2>2. /\ Len(rx) <= n /\ \A i \in 1 .. Len(rx) : rx[i].msg \in {m, Noise}
          /\ "garble" \notin LineFaults /\ Len(rx) = n => rx = Tokens(m)
        BY <1>5, <2>1 DEF Coming
    <2>3. Len(rx) = n /\ rx' = << >>
        <3>1. Len(rx) = n /\ Len(rx') = 0
            BY <1>0, <1>1, <1>2, <1>3, <2>2
        <3> QED
            BY <1>1, <3>1, EmptySeq
    <2>4. Taken # Noise => Taken = m
        <3>1. 1 \in 1 .. n /\ 1 \in 1 .. Len(rx)
            BY <1>0, <2>3
        <3> QED
            BY <1>4, <2>2, <3>1
    <2>5. ASSUME "garble" \notin LineFaults PROVE Taken # Noise
        <3>1. rx = Tokens(m) /\ m.op = "DATA"
            BY <2>1, <2>2, <2>3, <2>5 DEF Block
        <3>2. Taken = m
            BY <1>1, <1>2, <3>1, TakenIs
        <3> QED
            BY <3>2, NoiseIsNoMessage
    <2> QED
        BY <1>5, <2>1, <2>3, <2>4, <2>5
<1>6. CASE /\ fdc[C].pc # "wsta" /\ Stale(tx[C]) /\ Len(rx) < n + Frame("command")
           /\ Len(rx) >= n => \E i \in 1 .. n : rx[i].msg.op # "DATA"
    <2>1. Len(rx') \in Nat /\ Len(rx') < Frame("command")
        BY <1>0, <1>1, <1>2, <1>3, <1>6
    <2>2. PICK i \in 1 .. n : rx[i].msg.op # "DATA"
        BY <1>3, <1>6
    <2>3. Taken = Noise
        BY <1>4, <2>2
    <2> QED
        BY <1>6, <2>1, <2>3
<1> QED
    BY <1>3, <1>5, <1>6 DEF Awaits

LEMMA RefusedKeepsTurn ==
    ASSUME InTime, FdcTypeOK, transport = "serial", LineInv, Refused, UNCHANGED Rest
    PROVE  Turn(Controller)' /\ orphan' = FALSE
<1> DEFINE C == Controller
<1>0. /\ UNCHANGED <<fdc, transport>> /\ C \in Client /\ peer = C /\ peer # NoClient /\ ~paused
      /\ orphan = FALSE /\ C \in wired
      /\ tx \in [Client -> Seq(Response)] /\ Len(<< >>) = 0 /\ Frame("command") \in Nat \ {0}
      /\ srv' = Top
    BY Given, Sizes DEF LineInv, Refused, Rest, FdcTypeOK
<1>1. Top = Waiting("command")
    BY <1>0, TopIs
<1>2. PICK code : Sent("WSTA", code, srv.cmd)
    BY DEF Refused
<1>3. CASE TimeOut("data") /\ \A c \in Client : OutWaited(c)
    <2>1. Silence /\ orphan' = FALSE /\ rx' = Leftover
        BY <1>3, Zenon DEF TimeOut
    <2>2. OutWaited(C)
        BY <1>0, <1>3
    <2>3. fdc[C].pc = "idle" /\ tx[C] = << >> /\ rx' = << >>
        BY <1>0, <2>1, <2>2 DEF OutWaited, InTime, Silence, Leftover, Checksums, Idle
    <2>4. Stale(tx[C])
        BY <2>3 DEF Stale
    <2>5. Stale(tx'[C])
        BY <1>0, <1>2, <2>4, SentIsStale
    <2>6. Rests(C)'
        BY <1>0, <2>3, <2>5, RestsShort
    <2> QED
        BY <1>0, <1>1, <2>1, <2>6 DEF Turn, Waiting
<1>4. CASE Take("data") /\ UNCHANGED orphan
    <2>1. CASE fdc[C].pc = "wsta" /\ tx[C] = << >> /\ rx' = << >>
        <3>1. Stale(tx[C])
            BY <2>1 DEF Stale
        <3>2. Stale(tx'[C]) /\ Len(tx'[C]) <= 1
            BY <1>0, <1>2, <2>1, <3>1, SentIsStale
        <3>3. Rests(C)'
            BY <1>0, <2>1, <3>2 DEF Rests, Stale
        <3> QED
            BY <1>0, <1>1, <1>4, <3>3 DEF Turn, Waiting
    <2>2. CASE /\ fdc[C].pc # "wsta" /\ Stale(tx[C])
               /\ Len(rx') \in Nat /\ Len(rx') < Frame("command")
        <3>1. Stale(tx'[C])
            BY <1>0, <1>2, <2>2, SentIsStale
        <3>2. Rests(C)'
            BY <1>0, <2>2, <3>1, RestsShort
        <3> QED
            BY <1>0, <1>1, <1>4, <3>2 DEF Turn, Waiting
    <2> QED
        BY <1>4, <2>1, <2>2, TrackIsCurrent
<1> QED
    BY <1>3, <1>4 DEF Refused

LEMMA ReceivedKeepsTurn ==
    ASSUME FdcTypeOK, transport = "serial", LineInv, Received, UNCHANGED Rest
    PROVE  Turn(Controller)'
<1> DEFINE C == Controller
<1>1. /\ fdc[C].pc = "wsta" /\ tx[C] = << >> /\ rx' = << >>
      /\ srv.cmd = Command(C, "WRIT", fdc[C].track)
      /\ Taken = Block(C, fdc[C].track, fdc[C].write)
    BY TrackIsCurrent DEF Received
<1>2. /\ UNCHANGED <<fdc, tx>> /\ srv'.pc = "write" /\ srv'.cmd = srv.cmd /\ srv'.block = Taken
    BY DEF Received, Rest, FdcTypeOK, Srv
<1> QED
    BY <1>1, <1>2 DEF Turn, Serves, Stale

LEMMA ServerKeepsLine ==
    ASSUME InTime, Common, transport = "serial", LineInv, ServerStep
    PROVE  LineInv'
<1>1. /\ UNCHANGED Rest
      /\ Looks \/ Commanded \/ Served \/ Synced \/ Refused \/ Received
    BY ServerCases
<1>2. FdcTypeOK /\ orphan = FALSE
    BY DEF Common, LineInv, FdcTypeOK
<1>3. orphan' = FALSE /\ Turn(Controller)'
    <2>1. CASE Looks
        BY <1>1, <1>2, <2>1, LooksKeepsTurn
    <2>2. CASE Commanded
        BY <1>1, <1>2, <2>2, CommandKeepsTurn DEF Commanded
    <2>3. CASE Served \/ Synced
        BY <1>1, <1>2, <2>3, ServedKeepsTurn DEF Served, Synced
    <2>4. CASE Refused
        BY <1>1, <1>2, <2>4, RefusedKeepsTurn
    <2>5. CASE Received
        BY <1>1, <1>2, <2>5, ReceivedKeepsTurn DEF Received
    <2> QED
        BY <1>1, <2>1, <2>2, <2>3, <2>4, <2>5
<1> QED
    BY <1>1, <1>3 DEF LineInv, Rest

-----------------------------------------------------------------------------
(* A controller on the line that waits in time *)

LEMMA TailOfAnswers ==
    ASSUME tx \in [Client -> Seq(Response)], NEW c \in Client, tx[c] # << >>,
           tx' = [tx EXCEPT ![c] = Tail(tx[c])]
    PROVE  /\ Head(tx[c]) = tx[c][1] /\ 1 \in DOMAIN tx[c]
           /\ Stale(tx[c]) => Stale(tx'[c])
           /\ Comes(c) =>
                \/ Head(tx[c]) = LastOf(c) /\ tx'[c] = << >>
                \/ /\ Head(tx[c]).op = "WSTA" /\ tx'[c] # << >>
                   /\ LastOf(c)' = LastOf(c)
                   /\ \A i \in DOMAIN tx'[c] : i < Len(tx'[c]) => tx'[c][i].op = "WSTA"
<1> DEFINE s == tx[c]
           t == tx'[c]
<1>1. s \in Seq(Response) /\ s # << >> /\ t = Tail(s)
    OBVIOUS
<1>2. /\ t \in Seq(Response) /\ Len(s) \in Nat \ {0} /\ DOMAIN s = 1 .. Len(s) /\ Head(s) = s[1]
      /\ Len(t) = Len(s) - 1 /\ DOMAIN t = 1 .. Len(t)
      /\ \A i \in 1 .. Len(t) : t[i] = s[i + 1]
    BY <1>1, HeadTailProperties, LenProperties, EmptySeq
<1> HIDE DEF s, t
<1>3. Stale(s) => Stale(t)
    <2> SUFFICES ASSUME Stale(s), NEW i \in DOMAIN t PROVE t[i].op = "WSTA"
        BY DEF Stale
    <2>1. i + 1 \in DOMAIN s /\ t[i] = s[i + 1]
        BY <1>2
    <2> QED
        BY <2>1 DEF Stale
<1>4. ASSUME \A i \in DOMAIN s : i < Len(s) => s[i].op = "WSTA"
      PROVE  \/ s[1] = s[Len(s)] /\ t = << >>
             \/ /\ s[1].op = "WSTA" /\ t # << >> /\ t[Len(t)] = s[Len(s)]
                /\ \A i \in DOMAIN t : i < Len(t) => t[i].op = "WSTA"
    <2>1. CASE Len(s) = 1
        <3>1. Len(t) = 0
            BY <1>2, <2>1
        <3> QED
            BY <1>2, <2>1, <3>1, EmptySeq
    <2>2. CASE Len(s) > 1
        <3>1. Len(t) \in 1 .. Len(t) /\ Len(t) + 1 = Len(s) /\ 1 \in DOMAIN s
            BY <1>2, <2>2
        <3>4. t # << >>
            BY <1>2, <2>2
        <3>5. t[Len(t)] = s[Len(t) + 1]
            BY <1>2, <3>1
        <3>6. s[1].op = "WSTA"
            BY <1>4, <2>2, <3>1
        <3>2. t # << >> /\ t[Len(t)] = s[Len(s)] /\ s[1].op = "WSTA"
            BY <3>1, <3>4, <3>5, <3>6
        <3>3. ASSUME NEW i \in DOMAIN t, i < Len(t) PROVE t[i].op = "WSTA"
            <4>1. i + 1 \in DOMAIN s /\ i + 1 < Len(s) /\ t[i] = s[i + 1]
                BY <1>2, <3>3
            <4> QED
                BY <1>4, <4>1
        <3> QED
            BY <3>2, <3>3
    <2> QED
        BY <1>2, <2>1, <2>2
<1>5. 1 \in DOMAIN s /\ Head(s) = s[1]
    BY <1>2
<1>6. Comes(c) => \A i \in DOMAIN s : i < Len(s) => s[i].op = "WSTA"
    BY DEF Comes, s
<1> QED
    BY <1>3, <1>4, <1>5, <1>6 DEF s, t, LastOf

\* A command that is sent behind less than a frame is in front only as a whole.
LEMMA SpokenInFront ==
    ASSUME FdcTypeOK, transport = "serial", NEW m \in Message, m.op # "DATA",
           Len(rx) < Frame("command"), rx' \in Seq(Token), Extended(m)
    PROVE  /\ Len(rx') < 2 * Frame("command")
           /\ \A x \in Message :
                 /\ Len(rx') >= Frame("command")
                 /\ \A i \in 1 .. Frame("command") : rx'[i] = [msg |-> x, part |-> i]
                 => x = m /\ Len(rx') = Frame("command")
<1> DEFINE n == Frame("command")
           k == Len(rx)
           l == Len(rx')
<1>1. /\ n \in Nat /\ n > 1 /\ k \in Nat /\ k < n /\ Frame(m.op) = n /\ l \in Nat
      /\ rx \in Seq(Token) /\ Noise \notin Message
    BY Sizes, LenProperties, NoiseIsNoMessage DEF FdcTypeOK
<1>2. /\ l > k /\ l <= k + n
      /\ rx'[k + 1].msg \in {m, Noise}
      /\ rx'[k + 1].msg = m => rx'[k + 1].part = 1 \/ (rx'[k + 1].part = 2 /\ l = k + n - 1)
    <2>1. /\ l > k /\ l <= k + n /\ \A i \in k + 1 .. l : rx'[i].msg \in {m, Noise}
        BY <1>1 DEF Extended
    <2>2. k + 1 \in k + 1 .. l
        BY <1>1, <2>1
    <2> QED
        BY <1>1, <2>1, <2>2 DEF Extended
<1> HIDE DEF n, k, l
<1>3. ASSUME NEW x \in Message, l >= n, \A i \in 1 .. n : rx'[i] = [msg |-> x, part |-> i]
      PROVE  x = m /\ l = n
    <2>1. k + 1 \in 1 .. n
        BY <1>1
    <2>2. rx'[k + 1] = [msg |-> x, part |-> k + 1]
        BY <1>3, <2>1
    <2>3. rx'[k + 1].msg = x /\ rx'[k + 1].part = k + 1
        BY <2>2
    <2>4. x = m
        BY <1>1, <1>2, <2>3
    <2>5. k + 1 = 1 \/ (k + 1 = 2 /\ l = k + n - 1)
        BY <1>2, <2>3, <2>4
    <2>6. l = n
        BY <1>1, <1>2, <1>3, <2>5
    <2> QED
        BY <2>4, <2>6
<1>4. l < 2 * n
    BY <1>1, <1>2
<1> QED
    BY <1>3, <1>4 DEF n, l

\* A controller that asks has nothing on its way but late answers, and the loop waits
\* for more than there is.
LEMMA AsksInTime ==
    ASSUME InTime, FdcTypeOK, transport = "serial", LineInv,
           fdc[Controller] = Idle \/ TimedOut(Controller)
    PROVE  /\ Stale(tx[Controller])
           /\ srv.pc \in {"command", "poll"} => Len(rx) < Frame("command")
           /\ srv.pc = "data" => Len(rx) < Frame("DATA")
           /\ srv.pc \in {"command", "poll", "data"}
<1> DEFINE C == Controller
<1>0. /\ Turn(C) /\ C \in wired /\ ~orphan /\ Len(rx) \in Nat /\ srv.pc \in {"command", "poll",
             "read", "datasync", "data", "write"}
      /\ Frame("command") \in Nat \ {0} /\ Frame("DATA") \in Nat /\ Len(<< >>) = 0
      /\ Frame("command") < Frame("DATA")
    BY Sizes, LenProperties DEF LineInv, FdcTypeOK, Srv
<1>1. CASE fdc[C] = Idle
    <2>1. fdc[C].pc = "idle"
        BY <1>1 DEF Idle
    <2> QED
        BY <1>0, <2>1 DEF Turn, Rests, Awaits, Serves
<1>2. CASE TimedOut(C)
    <2>1. tx[C] = << >> /\ Starved
        BY <1>0, <1>2 DEF TimedOut, InTime
    <2>2. Stale(tx[C])
        BY <2>1 DEF Stale
    <2> QED
        BY <1>0, <2>1, <2>2 DEF Starved, Ready, Wanted
<1> QED
    BY <1>1, <1>2

LEMMA AsksKeepTurn ==
    ASSUME InTime, FdcTypeOK, transport = "serial", LineInv, NEW f \in Fdc, FdcIs(f),
           fdc' = [fdc EXCEPT ![Controller] = f], Asks(Controller, f), UNCHANGED Elsewhere
    PROVE  Turn(Controller)'
<1> DEFINE C == Controller
           n == Frame("command")
           d == Frame("DATA")
<1>0. /\ UNCHANGED <<transport, srv, tx>> /\ C \in Client /\ C \in wired /\ Len(rx) \in Nat
      /\ fdc'[C] = f /\ f.pc \in {"stat", "read", "writ"}
      /\ fdc[C] = Idle \/ TimedOut(C)
      /\ n \in Nat \ {0} /\ d \in Nat /\ n' = n /\ d' = d
    BY Given, Sizes, LenProperties DEF FdcTypeOK, LineInv, Elsewhere, Asks, Frame, Checksums
<1>1. /\ Stale(tx'[C]) /\ srv.pc \in {"command", "poll", "data"}
      /\ srv.pc \in {"command", "poll"} => Len(rx) < n
      /\ srv.pc = "data" => Len(rx) < d
    BY <1>0, AsksInTime
<1>2. PICK m \in Message : m = CommandFor(C, f) /\ m.op # "DATA"
    BY <1>0, SaysIs
<1>3. Extended(m) /\ rx' \in Seq(Token) /\ Frame(m.op) = n
    BY <1>0, <1>2, SpeechIs, Sizes
<1>4. CommandOf(C)' = m
    BY <1>0, <1>2 DEF CommandOf, CommandFor
<1>5. CASE srv.pc \in {"command", "poll"}
    <2>1. /\ Len(rx') < 2 * n
          /\ \A x \in Message :
                /\ Len(rx') >= n
                /\ \A i \in 1 .. n : rx'[i] = [msg |-> x, part |-> i]
                => x = m /\ Len(rx') = n
        BY <1>1, <1>2, <1>3, <1>5, SpokenInFront
    <2>2. InFront(C)'
        BY <1>0, <1>4, <2>1 DEF InFront
    <2>3. Rests(C)'
        BY <1>0, <1>1, <2>1, <2>2 DEF Rests, Stale
    <2> QED
        BY <1>0, <1>5, <2>3 DEF Turn
<1>6. CASE srv.pc = "data"
    <2>1. /\ Len(rx') > Len(rx) /\ Len(rx') <= Len(rx) + n /\ Len(rx) < d
          /\ \A i \in Len(rx) + 1 .. Len(rx') : rx'[i].msg \in {m, Noise}
        BY <1>1, <1>3, <1>6 DEF Extended
    <2>2. Len(rx') \in Nat
        BY <1>3, LenProperties
    <2>3. Len(rx) + 1 \in 1 .. d /\ rx'[Len(rx) + 1].msg.op # "DATA"
        <3>1. Len(rx) + 1 \in 1 .. d /\ Len(rx) + 1 \in Len(rx) + 1 .. Len(rx')
            BY <1>0, <2>1, <2>2
        <3>2. rx'[Len(rx) + 1].msg \in {m, Noise}
            BY <2>1, <3>1
        <3> QED
            BY <1>2, <3>1, <3>2, NoiseIsNoMessage
    <2>4. Len(rx') < d + n
        BY <1>0, <2>1, <2>2
    <2>5. \E i \in 1 .. d : rx'[i].msg.op # "DATA"
        BY <2>3
    <2>6. Awaits(C)'
        BY <1>0, <1>1, <2>4, <2>5 DEF Awaits, Stale
    <2> QED
        BY <1>0, <1>6, <2>6 DEF Turn
<1> QED
    BY <1>1, <1>5, <1>6

LEMMA SendsKeepTurn ==
    ASSUME FdcTypeOK, transport = "serial", LineInv, NEW f \in Fdc, FdcIs(f),
           fdc' = [fdc EXCEPT ![Controller] = f], Sends(Controller, f), UNCHANGED Elsewhere
    PROVE  Turn(Controller)' /\ tx'[Controller] = << >>
<1> DEFINE C == Controller
           d == Frame("DATA")
<1>0. /\ UNCHANGED <<transport, srv>> /\ C \in Client /\ C \in wired /\ Turn(C)
      /\ tx \in [Client -> Seq(Response)] /\ fdc'[C] = f /\ d' = d
      /\ srv.pc \in {"command", "poll", "read", "datasync", "data", "write"}
    BY Given DEF FdcTypeOK, LineInv, Elsewhere, Frame, Checksums, Srv
<1>1. /\ f.pc = "wsta" /\ fdc[C].pc = "writ" /\ f.track = fdc[C].track /\ f.write = fdc[C].write
      /\ tx[C] # << >> /\ Head(tx[C]).op = "WRIT" /\ Head(tx[C]).code = "OK"
      /\ tx' = [tx EXCEPT ![C] = Tail(tx[C])]
    BY DEF Sends
<1>2. /\ ~Stale(tx[C])
      /\ Comes(C) => Head(tx[C]) = LastOf(C) /\ tx'[C] = << >>
    BY <1>0, <1>1, TailOfAnswers DEF Stale
<1>3. srv.pc = "data" /\ rx = << >> /\ srv.cmd = Command(C, "WRIT", f.track) /\ Comes(C)
    BY <1>0, <1>1, <1>2 DEF Turn, Rests, Awaits, Serves
<1>4. PICK m \in Message : m = Block(C, f.track, f.write) /\ m.op = "DATA"
    BY <1>0, <1>1, SaysIs
<1>5. Extended(m)
    BY <1>0, <1>4, SpeechIs
<1>6. /\ Len(rx') <= d /\ \A i \in 1 .. Len(rx') : rx'[i].msg \in {m, Noise}
      /\ "garble" \notin LineFaults /\ Len(rx') = d => rx' = Tokens(m)
    <2>1. Len(rx) = 0 /\ d \in Nat
        BY <1>3, Sizes
    <2> QED
        BY <1>3, <1>4, <1>5, <2>1 DEF Extended
<1>7. Tokens(m)' = Tokens(m)
    BY <1>0 DEF Tokens, Frame, Checksums
<1>8. Coming(C)'
    BY <1>0, <1>4, <1>6, <1>7 DEF Coming
<1>9. Awaits(C)'
    BY <1>0, <1>1, <1>2, <1>3, <1>8 DEF Awaits
<1> QED
    BY <1>0, <1>2, <1>3, <1>9 DEF Turn

\* It takes a response, or stops waiting.
LEMMA StopsKeepTurn ==
    ASSUME InTime, FdcTypeOK, transport = "serial", LineInv, NEW f \in Fdc,
           fdc' = [fdc EXCEPT ![Controller] = f], Stops(Controller, f), UNCHANGED Elsewhere
    PROVE  Turn(Controller)'
<1> DEFINE C == Controller
           n == Frame("command")
           d == Frame("DATA")
<1>0. /\ UNCHANGED <<transport, srv, rx>> /\ C \in Client /\ C \in wired /\ Turn(C)
      /\ tx \in [Client -> Seq(Response)] /\ fdc'[C] = f /\ Len(rx) \in Nat
      /\ n \in Nat \ {0} /\ d \in Nat \ {0} /\ n' = n /\ d' = d /\ Len(<< >>) = 0
      /\ srv.pc \in {"command", "poll", "read", "datasync", "data", "write"}
      /\ Idle.pc = "idle" /\ Stale(<< >>)
    <2>1. UNCHANGED <<transport, srv, rx>>
        BY Zenon DEF Elsewhere, Stops
    <2>2. n' = n /\ d' = d
        BY <2>1 DEF Frame, Checksums
    <2>3. Stale(<< >>) /\ Len(<< >>) = 0 /\ Idle.pc = "idle"
        BY DEF Stale, Idle
    <2> QED
        BY <2>1, <2>2, <2>3, Given, Sizes, LenProperties DEF FdcTypeOK, LineInv, Srv
\* It waits for nothing, and nothing is on its way.
<1>1. ASSUME f = Idle, Stale(tx'[C]),
             srv.pc \in {"command", "poll"} => Len(rx) < n, srv.pc = "data" => Len(rx) < d,
             srv.pc \in {"command", "poll", "data"}
      PROVE  Turn(C)'
    <2>1. CASE srv.pc \in {"command", "poll"}
        <3>1. Rests(C)'
            BY <1>0, <1>1, <2>1, RestsShort
        <3> QED
            BY <1>0, <2>1, <3>1 DEF Turn
    <2>2. CASE srv.pc = "data"
        <3>1. Len(rx') < d + n
            BY <1>0, <1>1, <2>2
        <3>2. Awaits(C)'
            BY <1>0, <1>1, <2>2, <3>1 DEF Awaits, Stale
        <3> QED
            BY <1>0, <2>2, <3>2 DEF Turn
    <2> QED
        BY <1>1, <2>1, <2>2
<1>2. CASE f = Idle /\ TimedOut(C) /\ tx' = tx
    <2>1. /\ Stale(tx'[C]) /\ srv.pc \in {"command", "poll", "data"}
          /\ srv.pc \in {"command", "poll"} => Len(rx) < n
          /\ srv.pc = "data" => Len(rx) < d
        BY <1>2, AsksInTime
    <2> QED
        BY <1>1, <1>2, <2>1
<1>3. ASSUME tx[C] # << >>, tx' = [tx EXCEPT ![C] = Tail(tx[C])]
      PROVE  /\ Stale(tx[C]) => Stale(tx'[C]) /\ Head(tx[C]).op = "WSTA"
             /\ Comes(C) =>
                  \/ Fits(C, Head(tx[C])) /\ Head(tx[C]) = LastOf(C) /\ tx'[C] = << >>
                  \/ /\ Head(tx[C]).op = "WSTA" /\ tx'[C] # << >>
                     /\ LastOf(C)' = LastOf(C) /\ Fits(C, LastOf(C))
                     /\ \A i \in DOMAIN tx'[C] : i < Len(tx'[C]) => tx'[C][i].op = "WSTA"
    <2>1. /\ Head(tx[C]) = tx[C][1] /\ 1 \in DOMAIN tx[C]
          /\ Stale(tx[C]) => Stale(tx'[C])
          /\ Comes(C) =>
               \/ Head(tx[C]) = LastOf(C) /\ tx'[C] = << >>
               \/ /\ Head(tx[C]).op = "WSTA" /\ tx'[C] # << >>
                  /\ LastOf(C)' = LastOf(C)
                  /\ \A i \in DOMAIN tx'[C] : i < Len(tx'[C]) => tx'[C][i].op = "WSTA"
        BY <1>0, <1>3, TailOfAnswers
    <2>2. Stale(tx[C]) => Head(tx[C]).op = "WSTA"
        BY <2>1 DEF Stale
    <2>3. Comes(C) => Fits(C, LastOf(C))
        BY DEF Comes
    <2> QED
        BY <2>1, <2>2, <2>3
<1>4. Expected(C) => /\ fdc[C].pc = "stat" => Head(tx[C]).op = "STAT"
                     /\ fdc[C].pc = "read" => Head(tx[C]).op = "DATA"
                     /\ fdc[C].pc = "writ" => Head(tx[C]).op = "WRIT"
                     /\ fdc[C].pc = "wsta" => Head(tx[C]).op = "WSTA"
                     /\ fdc[C].pc = "idle" => Head(tx[C]).op = "nothing"
    BY DEF Expected
<1>5. tx[C] # << >> /\ Fits(C, Head(tx[C])) => Expected(C)
    BY DEF Expected, Fits
<1>6. CASE /\ f = Idle /\ Expected(C) /\ ~(fdc[C].pc = "writ" /\ Head(tx[C]).code = "OK")
           /\ tx[C] # << >> /\ tx' = [tx EXCEPT ![C] = Tail(tx[C])]
    <2>1. CASE srv.pc \in {"command", "poll"}
        <3>1. Rests(C)
            BY <1>0, <2>1 DEF Turn
        <3>2. /\ ~(fdc[C].pc # "wsta" /\ Stale(tx[C]))
              /\ fdc[C].pc \in {"stat", "read", "writ"} /\ Comes(C) => Stale(tx'[C])
              /\ fdc[C].pc = "wsta" /\ Stale(tx[C]) => Stale(tx'[C])
            <4>1. fdc[C].pc \in {"idle", "stat", "read", "writ", "wsta"}
                BY <1>0 DEF FdcTypeOK, Fdc
            <4> QED
                BY <1>0, <1>3, <1>4, <1>6, <4>1
        <3>3. Stale(tx'[C]) /\ Len(rx) < n
            BY <1>0, <3>1, <3>2 DEF Rests
        <3> QED
            BY <1>1, <1>6, <2>1, <3>3
    <2>2. CASE srv.pc \notin {"command", "poll"}
        <3>1. fdc[C].pc \in {"idle", "stat", "read", "writ", "wsta"}
            BY <1>0 DEF FdcTypeOK, Fdc
        <3>2. ~(fdc[C].pc # "wsta" /\ Stale(tx[C]))
            BY <1>3, <1>4, <1>6, <3>1
        <3>3. ~(fdc[C].pc = "writ" /\ Comes(C) /\ LastOf(C).code = "OK")
            BY <1>3, <1>4, <1>6
        <3> QED
            BY <1>0, <1>6, <2>2, <3>2, <3>3 DEF Turn, Awaits, Serves
    <2> QED
        BY <2>1, <2>2
<1>7. CASE /\ f = fdc[C] /\ ~Expected(C)
           /\ tx[C] # << >> /\ tx' = [tx EXCEPT ![C] = Tail(tx[C])]
    <2>1. fdc' = fdc
        BY <1>7 DEF FdcTypeOK
    <2>2. ~(fdc[C].pc = "wsta" /\ Stale(tx[C]))
        BY <1>3, <1>7 DEF Expected
    <2>3. Stale(tx[C]) => Stale(tx'[C])
        BY <1>3, <1>7
    <2>4. Comes(C) => Comes(C)' /\ LastOf(C)' = LastOf(C)
        BY <1>3, <1>5, <1>7, <2>1 DEF Comes, Fits
    <2>5. CommandOf(C)' = CommandOf(C)
        BY <2>1 DEF CommandOf
    <2>6. CASE srv.pc \in {"command", "poll"}
        <3>1. Rests(C)
            BY <1>0, <2>6 DEF Turn
        <3>2. Rests(C)'
            BY <1>0, <1>7, <2>1, <2>2, <2>3, <2>4, <2>5, <3>1 DEF Rests, InFront, Stale
        <3> QED
            BY <1>0, <2>6, <3>2 DEF Turn
    <2>7. CASE srv.pc = "data"
        <3>1. Awaits(C)
            BY <1>0, <2>7 DEF Turn
        <3>2. Awaits(C)'
            BY <1>0, <1>7, <2>1, <2>3, <2>4, <3>1 DEF Awaits, Stale
        <3> QED
            BY <1>0, <2>7, <3>2 DEF Turn
    <2>8. CASE srv.pc \in {"read", "datasync", "write"}
        <3>1. Serves(C)
            BY <1>0, <2>8 DEF Turn
        <3>2. Serves(C)'
            BY <1>0, <1>7, <2>1, <2>3, <2>5, <3>1 DEF Serves, Stale
        <3> QED
            BY <1>0, <2>8, <3>2 DEF Turn
    <2> QED
        BY <1>0, <2>6, <2>7, <2>8
<1> QED
    BY <1>2, <1>6, <1>7 DEF Stops

LEMMA ControllerKeepsLine ==
    ASSUME InTime, Common, transport = "serial", LineInv, ControllerStep(Controller)
    PROVE  LineInv'
<1>1. PICK f \in Fdc :
         /\ FdcIs(f) /\ fdc' = [fdc EXCEPT ![Controller] = f]
         /\ Asks(Controller, f) \/ Sends(Controller, f) \/ Stops(Controller, f)
    BY ControllerCases, Given
<1>2. UNCHANGED Elsewhere /\ FdcTypeOK
    BY ControllerCases, Given DEF Common
<1>3. Turn(Controller)'
    <2>1. CASE Asks(Controller, f)
        BY <1>1, <1>2, <2>1, AsksKeepTurn
    <2>2. CASE Sends(Controller, f)
        BY <1>1, <1>2, <2>2, SendsKeepTurn
    <2>3. CASE Stops(Controller, f)
        BY <1>1, <1>2, <2>3, StopsKeepTurn
    <2> QED
        BY <1>1, <2>1, <2>2, <2>3
<1>4. \A c \in Client : c # Controller => fdc'[c] = fdc[c]
    BY <1>1 DEF FdcTypeOK, Common
<1> QED
    BY <1>2, <1>3, <1>4 DEF LineInv, Elsewhere

-----------------------------------------------------------------------------
(* Answers on the WebSocket, and the operator, under TimelyInv *)

\* What a step of the loop adds to the responses on their way.
LEMMA SentOne ==
    ASSUME tx \in [Client -> Seq(Response)], NEW op, NEW code, NEW m, Sent(op, code, m)
    PROVE  \A c \in Client : \A i \in DOMAIN tx'[c] :
              \/ i \in DOMAIN tx[c] /\ tx'[c][i] = tx[c][i]
              \/ /\ c = peer /\ tx'[c][i].op = op /\ tx'[c][i].code = code
                 /\ tx'[c][i].about = m /\ (op = "DATA" => tx'[c][i].block.track = m.track)
<1>1. CASE tx' = tx
    BY <1>1
<1>2. CASE tx' # tx
    <2>1. peer \in Client
        BY <1>2 DEF Sent
    <2>2. /\ tx'[peer] \in Seq(Response)
          /\ \A i \in DOMAIN tx'[peer] : i < Len(tx'[peer]) =>
                i \in DOMAIN tx[peer] /\ tx'[peer][i] = tx[peer][i]
          /\ tx'[peer][Len(tx'[peer])].op = op /\ tx'[peer][Len(tx'[peer])].code = code
          /\ tx'[peer][Len(tx'[peer])].about = m
          /\ op = "DATA" => tx'[peer][Len(tx'[peer])].block.track = m.track
          /\ \A c \in Client : c # peer => tx'[c] = tx[c]
        BY <1>2, <2>1, SentIsLast
    <2>3. \A i \in DOMAIN tx'[peer] : i < Len(tx'[peer]) \/ i = Len(tx'[peer])
        BY <2>2, LenProperties
    <2>4. ASSUME NEW c \in Client, NEW i \in DOMAIN tx'[c]
          PROVE  \/ i \in DOMAIN tx[c] /\ tx'[c][i] = tx[c][i]
                 \/ /\ c = peer /\ tx'[c][i].op = op /\ tx'[c][i].code = code
                    /\ tx'[c][i].about = m /\ (op = "DATA" => tx'[c][i].block.track = m.track)
        <3>1. CASE c # peer
            BY <2>2, <2>4, <3>1
        <3>2. CASE c = peer
            BY <2>2, <2>3, <2>4, <3>2
        <3> QED
            BY <3>1, <3>2
    <2> QED
        BY <2>4
<1> QED
    BY <1>1, <1>2

LEMMA ServerKeepsAnswers ==
    ASSUME IndInv, transport = "ws", WsInv, AnswersFit, ServerStep
    PROVE  AnswersFit'
<1>1. /\ FdcTypeOK /\ SrvOK /\ tx \in [Client -> Seq(Response)] /\ NoClient \notin Client
      /\ fdc' = fdc /\ peer' = peer
      /\ Looks \/ Commanded \/ Served \/ Synced \/ Refused \/ Received
    BY ServerCases, Given DEF IndInv, Common, Rest, FdcTypeOK
<1>2. \/ tx' = tx
      \/ \E op, code, m : /\ Sent(op, code, m)
                          /\ op = "DATA" => Served /\ srv.pc = "read" /\ m = srv.cmd
    BY <1>1 DEF Looks, Commanded, Served, Synced, Refused, Received
<1>3. ASSUME NEW c \in Client, c # peer PROVE tx'[c] = tx[c]
    BY <1>1, <1>2, <1>3, SentIs
<1>4. ASSUME NEW c \in Client, c = peer, tx'[c] # << >>
      PROVE  Len(tx'[c]) = 1 /\ Fits(c, tx'[c][1])
    <2>1. Lockstep(c)' /\ Lockstep(c)
        BY <1>4, ServerKeepsLockstep DEF WsInv
    <2>2. srv' \in Srv
        BY ServerKeepsCommon DEF Common, FdcTypeOK
    <2>3. /\ Len(tx'[c]) = 1
          /\ \/ fdc[c].pc = "stat" /\ tx'[c][1].op = "STAT"
             \/ fdc[c].pc = "read" /\ tx'[c][1].op = "DATA"
             \/ fdc[c].pc = "writ" /\ tx'[c][1].op = "WRIT"
             \/ fdc[c].pc = "wsta" /\ tx'[c][1].op = "WSTA"
        BY <1>1, <1>4, <2>1, <2>2 DEF Lockstep, Between, Sending, Serving, Ends, Srv
    <2>4. ASSUME fdc[c].pc = "read"
          PROVE  /\ tx'[c][1].about.track = fdc[c].track
                 /\ tx'[c][1].block.track = fdc[c].track
        <3>1. tx'[c][1].op = "DATA"
            BY <2>3, <2>4
        <3>2. CASE tx'[c] = tx[c]
            BY <1>4, <2>4, <3>2 DEF AnswersFit, Fits
        <3>3. CASE tx'[c] # tx[c]
            <4>1. PICK op, code, m : /\ Sent(op, code, m)
                                     /\ op = "DATA" => Served /\ srv.pc = "read" /\ m = srv.cmd
                BY <1>2, <3>3
            <4>2. tx' # tx
                BY <3>3
            <4>3. /\ tx'[c][Len(tx'[c])].op = op /\ tx'[c][Len(tx'[c])].about = m
                  /\ op = "DATA" => tx'[c][Len(tx'[c])].block.track = m.track
                BY <1>1, <1>4, <4>1, <4>2, SentIsLast
            <4>4. op = "DATA" /\ tx'[c][1].about = m /\ tx'[c][1].block.track = m.track
                BY <2>3, <3>1, <4>3
            <4>5. srv.cmd = CommandOf(c) /\ m = srv.cmd
                BY <2>1, <4>1, <4>4 DEF Lockstep, Serving
            <4> QED
                BY <4>4, <4>5 DEF CommandOf, Command
        <3> QED
            BY <3>2, <3>3
    <2> QED
        BY <2>3, <2>4 DEF Fits
<1>5. ASSUME NEW c \in Client, tx'[c] # << >>
      PROVE  Len(tx'[c]) = 1 /\ Fits(c, tx'[c][1])
    BY <1>3, <1>4, <1>5 DEF AnswersFit
<1> QED
    BY <1>1, <1>5 DEF AnswersFit, Fits

LEMMA ControllerKeepsAnswers ==
    ASSUME Common, transport = "ws", AnswersFit, NEW c \in Client, ControllerStep(c)
    PROVE  /\ AnswersFit'
           /\ fdc'[c].pc = "wsta" => tx'[c] = << >>
<1>1. PICK f \in Fdc : /\ FdcIs(f) /\ fdc' = [fdc EXCEPT ![c] = f]
                       /\ Asks(c, f) \/ Sends(c, f) \/ Stops(c, f)
    BY ControllerCases
<1>2. /\ fdc \in [Client -> Fdc] /\ tx \in [Client -> Seq(Response)] /\ Idle.pc = "idle"
      /\ ~TimedOut(c)
    BY DEF Common, FdcTypeOK, Idle, TimedOut
<1>3. fdc'[c] = f /\ \A d \in Client : d # c => fdc'[d] = fdc[d]
    BY <1>1, <1>2
<1>4. tx'[c] = << >> /\ \A d \in Client : d # c => tx'[d] = tx[d]
    <2>1. CASE Asks(c, f)
        <3>1. fdc[c].pc = "idle" /\ tx' = tx
            BY <1>2, <2>1 DEF Asks
        <3>2. tx[c] = << >>
            BY <3>1 DEF AnswersFit, Fits
        <3> QED
            BY <3>1, <3>2
    <2>2. CASE Sends(c, f) \/ Stops(c, f)
        <3>1. tx[c] # << >> /\ tx' = [tx EXCEPT ![c] = Tail(tx[c])]
            BY <1>2, <2>2 DEF Sends, Stops
        <3>2. Len(tx[c]) = 1
            BY <3>1 DEF AnswersFit
        <3> QED
            BY <1>2, <3>1, <3>2, TailIs
    <2> QED
        BY <1>1, <2>1, <2>2
<1>5. ASSUME NEW d \in Client, tx'[d] # << >>
      PROVE  Len(tx'[d]) = 1 /\ Fits(d, tx[d][1])'
    <2>1. d # c /\ tx'[d] = tx[d] /\ fdc'[d] = fdc[d]
        BY <1>3, <1>4, <1>5
    <2>2. Len(tx[d]) = 1 /\ Fits(d, tx[d][1])
        BY <1>5, <2>1 DEF AnswersFit
    <2> QED
        BY <2>1, <2>2 DEF Fits
<1> QED
    BY <1>4, <1>5 DEF AnswersFit

LEMMA NetworkKeepsAnswers ==
    ASSUME FdcTypeOK, AnswersFit, Network
    PROVE  AnswersFit'
<1>1. CASE UNCHANGED <<fdc, tx>>
    BY <1>1 DEF AnswersFit, Fits
<1>2. ASSUME NEW c \in Client, fdc' = [fdc EXCEPT ![c] = Idle], tx' = [tx EXCEPT ![c] = << >>]
      PROVE  AnswersFit'
    <2>1. \A d \in Client : tx'[d] # << >> => tx'[d] = tx[d] /\ fdc'[d] = fdc[d]
        BY <1>2 DEF FdcTypeOK
    <2> QED
        BY <2>1 DEF AnswersFit, Fits
<1>3. \/ UNCHANGED <<fdc, tx>>
      \/ \E c \in Client : fdc' = [fdc EXCEPT ![c] = Idle] /\ tx' = [tx EXCEPT ![c] = << >>]
    BY Zenon DEF Network, CloseConnection, Accept, Closed
<1> QED
    BY <1>1, <1>2, <1>3

\* The operator does not reconfigure the port.
LEMMA NoOperator ==
    ASSUME InTime, IndInv, TimelyInv
    PROVE  ~Operator
<1>1. ~paused
    BY ChoicesAssumption DEF IndInv, Common, FdcTypeOK, TimelyInv, LineInv, WsInv
<1> QED
    BY <1>1 DEF Operator, Pause, ClosePort, OpenPort, Resume, InTime

LEMMA QuietKeepsTimely ==
    ASSUME TimelyInv, DriveChanges \/ UNCHANGED vars
    PROVE  TimelyInv'
<1>1. UNCHANGED <<transport, peer, wired, rx, orphan, paused, srv, fdc, tx>>
    BY Zenon DEF DriveChanges, vars, link, controllers
<1>2. CommandOf(Controller)' = CommandOf(Controller) /\ LastOf(Controller)' = LastOf(Controller)
    BY <1>1 DEF CommandOf, LastOf
<1>3. Comes(Controller) => Comes(Controller)'
    BY <1>1, <1>2 DEF Comes, Fits
<1>4. \A op : Frame(op)' = Frame(op)
    BY <1>1 DEF Frame, Checksums
<1>5. \A m : Tokens(m)' = Tokens(m)
    BY <1>1 DEF Tokens, Frame, Checksums
<1>6. Coming(Controller) => Coming(Controller)'
    BY <1>1, <1>4, <1>5 DEF Coming
<1>7. Rests(Controller) => Rests(Controller)'
    BY <1>1, <1>2, <1>3, <1>4 DEF Rests, InFront, Stale
<1>8. Awaits(Controller) => Awaits(Controller)'
    BY <1>1, <1>2, <1>3, <1>4, <1>6 DEF Awaits, Stale
<1>9. Serves(Controller) => Serves(Controller)'
    BY <1>1, <1>2 DEF Serves, Stale
<1>10. LineInv => LineInv'
    BY <1>1, <1>7, <1>8, <1>9 DEF LineInv, Turn
<1>11. AnswersFit => AnswersFit'
    BY <1>1 DEF AnswersFit, Fits
<1> QED
    BY <1>1, <1>10, <1>11 DEF TimelyInv

LEMMA InitTimely == LinksInit => TimelyInv
<1> SUFFICES ASSUME LinksInit PROVE TimelyInv
    OBVIOUS
<1>1. /\ peer \in Client /\ wired = {peer} /\ rx = << >> /\ orphan = FALSE /\ paused = FALSE
      /\ srv = Waiting("command") /\ fdc = [c \in Client |-> Idle] /\ tx = [c \in Client |-> << >>]
      /\ transport = "serial" => peer = Controller
    BY Zenon DEF LinksInit, Init
<1>2. /\ srv.pc = "command" /\ Idle.pc = "idle" /\ Len(<< >>) = 0
      /\ \A c \in Client : fdc[c] = Idle /\ tx[c] = << >>
      /\ Controller \in Client /\ Frame("command") \in Nat \ {0}
    BY <1>1, Given, Sizes DEF Waiting, Idle
<1>3. Stale(tx[Controller])
    BY <1>2 DEF Stale
<1>4. InFront(Controller)
    BY <1>1, <1>2 DEF InFront
<1>5. Rests(Controller)
    BY <1>1, <1>2, <1>3, <1>4 DEF Rests
<1>6. transport = "serial" => LineInv
    BY <1>1, <1>2, <1>5 DEF LineInv, Turn
<1>7. AnswersFit
    BY <1>2 DEF AnswersFit
<1> QED
    BY <1>6, <1>7 DEF TimelyInv

LEMMA TimelyInductive ==
    ASSUME InTime, IndInv, TimelyInv, [Next]_vars
    PROVE  IndInv' /\ TimelyInv'
<1>0. Common /\ FdcTypeOK /\ transport \in {"serial", "ws"}
    BY ChoicesAssumption DEF IndInv, Common, FdcTypeOK
<1>1. OneByOne
    BY DEF InTime, OneByOne
<1>2. IndInv'
    BY <1>1, Inductive
<1>3. CASE ServerStep
    <2>1. transport' = transport
        BY <1>0, <1>3, ServerCases DEF Rest
    <2>2. CASE transport = "serial"
        <3>1. LineInv
            BY <2>2 DEF TimelyInv
        <3>2. LineInv'
            BY <1>0, <1>3, <2>2, <3>1, ServerKeepsLine
        <3> QED
            BY <1>2, <2>1, <2>2, <3>2 DEF TimelyInv
    <2>3. CASE transport = "ws"
        <3>1. WsInv /\ AnswersFit
            BY <2>3 DEF TimelyInv, IndInv
        <3>2. AnswersFit'
            BY <1>3, <2>3, <3>1, ServerKeepsAnswers
        <3> QED
            BY <1>2, <2>1, <2>3, <3>2 DEF TimelyInv
    <2> QED
        BY <1>0, <2>2, <2>3
<1>4. ASSUME NEW c \in Client, Speaks(c), ControllerStep(c)
      PROVE  TimelyInv'
    <2>1. transport' = transport
        BY <1>0, <1>4, ControllerCases DEF Elsewhere
    <2>2. CASE transport = "serial"
        <3>1. LineInv /\ c = Controller
            BY <1>4, <2>2 DEF TimelyInv, Speaks
        <3>2. LineInv'
            BY <1>0, <1>4, <2>2, <3>1, ControllerKeepsLine
        <3> QED
            BY <2>1, <2>2, <3>2 DEF TimelyInv
    <2>3. CASE transport = "ws"
        <3>1. AnswersFit
            BY <2>3 DEF TimelyInv
        <3>2. AnswersFit'
            BY <1>0, <1>4, <2>3, <3>1, ControllerKeepsAnswers
        <3> QED
            BY <2>1, <2>3, <3>2 DEF TimelyInv
    <2> QED
        BY <1>0, <2>2, <2>3
<1>5. CASE Network
    <2>1. transport = "ws" /\ transport' = transport
        BY <1>5, Zenon DEF Network, CloseConnection, Accept, Closed, SocketChange, loop
    <2>2. AnswersFit
        BY <2>1 DEF TimelyInv
    <2>3. AnswersFit'
        BY <1>0, <1>5, <2>2, NetworkKeepsAnswers
    <2> QED
        BY <1>2, <2>1, <2>3 DEF TimelyInv
<1>6. CASE DriveChanges \/ UNCHANGED vars
    BY <1>2, <1>6, QuietKeepsTimely
<1>7. \/ ServerStep \/ Operator \/ Network \/ DriveChanges \/ UNCHANGED vars
      \/ \E c \in Client : Speaks(c) /\ ControllerStep(c)
    BY Zenon DEF Next, ControllerStep
<1> QED
    BY <1>2, <1>3, <1>4, <1>5, <1>6, <1>7, NoOperator

-----------------------------------------------------------------------------
(* Reads get their track *)

\* No frame says which track its data is from, and the loop and its controller may each
\* have given up on the other.  With a controller that waits in time, on either transport
\* and whatever the line loses or garbles, data that ends a wait for a track is that track.
THEOREM ReadsGetTheirTrack == ASSUME InTime PROVE Spec => ReadGetsItsTrack
<1>1. LinksInit => IndInv /\ TimelyInv
    BY InitHolds, InitTimely
<1>2. IndInv /\ TimelyInv /\ [Next]_vars => (IndInv /\ TimelyInv)'
    BY TimelyInductive
<1>3. IndInv /\ TimelyInv /\ [Next]_vars =>
        [\A c \in Client :
            fdc[c].pc = "read" /\ fdc'[c] = Idle /\ tx'[c] # tx[c]
                => /\ Head(tx[c]).about.track = fdc[c].track
                   /\ Head(tx[c]).block.track = fdc[c].track]_vars
    <2> SUFFICES ASSUME IndInv, TimelyInv, Next, NEW c \in Client,
                        fdc[c].pc = "read", fdc'[c] = Idle, tx'[c] # tx[c]
                 PROVE  /\ Head(tx[c]).about.track = fdc[c].track
                        /\ Head(tx[c]).block.track = fdc[c].track
        OBVIOUS
    <2>1. /\ Common /\ transport \in {"serial", "ws"} /\ Idle.pc = "idle" /\ Idle # fdc[c]
          /\ fdc \in [Client -> Fdc] /\ tx \in [Client -> Seq(Response)]
        BY ChoicesAssumption DEF IndInv, Common, FdcTypeOK, Idle
    <2>2. CASE transport = "ws"
        <3>1. AnswersFit
            BY <2>2 DEF TimelyInv
        <3>2. tx[c] # << >>
            <4>1. CASE ServerStep
                BY <2>1, <4>1, ServerCases DEF Rest
            <4>2. ASSUME NEW d \in Client, ControllerStep(d) PROVE tx[c] # << >>
                <5>1. PICK f \in Fdc : /\ fdc' = [fdc EXCEPT ![d] = f]
                                       /\ Asks(d, f) \/ Sends(d, f) \/ Stops(d, f)
                    BY <2>1, <4>2, ControllerCases
                <5>2. tx' = tx \/ (tx[d] # << >> /\ tx' = [tx EXCEPT ![d] = Tail(tx[d])])
                    BY <5>1 DEF Asks, Sends, Stops
                <5> QED
                    BY <2>1, <5>2
            <4>3. CASE Network
                <5>1. tx' = tx \/ \E d \in Client : tx' = [tx EXCEPT ![d] = << >>]
                    BY <4>3, Zenon DEF Network, CloseConnection, Accept, Closed
                <5> QED
                    BY <2>1, <5>1
            <4>4. CASE DriveChanges
                BY <4>4 DEF DriveChanges, controllers
            <4> QED
                BY <4>1, <4>2, <4>3, <4>4, NoOperator, Zenon DEF Next, ControllerStep
        <3>3. Fits(c, tx[c][1]) /\ Head(tx[c]) = tx[c][1]
            <4>1. tx[c] \in Seq(Response)
                BY <2>1
            <4>2. Head(tx[c]) = tx[c][1]
                BY <3>2, <4>1, HeadTailProperties
            <4> QED
                BY <3>1, <3>2, <4>2 DEF AnswersFit
        <3> QED
            BY <3>3 DEF Fits
    <2>3. CASE transport = "serial"
        <3>1. LineInv /\ c = Controller
            BY <2>1, <2>3 DEF TimelyInv, LineInv
        <3>2. ~Network /\ ~ServerStep /\ ~DriveChanges
            <4>1. ~Network
                BY <2>3 DEF Network, CloseConnection, Accept, Closed, SocketChange
            <4>2. ~ServerStep
                BY <2>1, ServerCases DEF Rest
            <4>3. ~DriveChanges
                BY DEF DriveChanges, controllers
            <4> QED
                BY <4>1, <4>2, <4>3
        <3>3. PICK d \in Client : Speaks(d) /\ ControllerStep(d)
            BY <3>2, NoOperator, Zenon DEF Next, ControllerStep
        <3>4. d = c
            BY <2>3, <3>1, <3>3 DEF Speaks
        <3>5. PICK f \in Fdc : /\ fdc' = [fdc EXCEPT ![c] = f]
                               /\ Asks(c, f) \/ Sends(c, f) \/ Stops(c, f)
            BY <2>1, <3>3, <3>4, ControllerCases
        <3>6. f = Idle
            BY <2>1, <3>5
        <3>7. Expected(c) /\ tx[c] # << >> /\ tx' = [tx EXCEPT ![c] = Tail(tx[c])]
            BY <2>1, <3>5, <3>6 DEF Asks, Sends, Stops
        <3>8. Head(tx[c]).op = "DATA" /\ ~Stale(tx[c])
            <4>1. Head(tx[c]).op = "DATA"
                BY <3>7 DEF Expected
            <4>2. Head(tx[c]) = tx[c][1] /\ 1 \in DOMAIN tx[c]
                BY <2>1, <3>7, TailOfAnswers
            <4> QED
                BY <4>1, <4>2 DEF Stale
        <3>9. Comes(c)
            <4>1. srv.pc \in {"command", "poll", "read", "datasync", "data", "write"}
                BY <2>1 DEF Common, FdcTypeOK, Srv
            <4> QED
                BY <3>1, <3>8, <4>1 DEF LineInv, Turn, Rests, Awaits, Serves
        <3>10. Head(tx[c]) = LastOf(c) /\ Fits(c, LastOf(c))
            <4>1. Head(tx[c]) = LastOf(c)
                BY <2>1, <3>7, <3>8, <3>9, TailOfAnswers
            <4> QED
                BY <3>9, <4>1 DEF Comes
        <3> QED
            BY <3>10 DEF Fits
    <2> QED
        BY <2>1, <2>2, <2>3
<1> QED
    BY <1>1, <1>2, <1>3, PTL DEF Spec, ReadGetsItsTrack

-----------------------------------------------------------------------------
(* Successes are true *)

LEMMA Numbers ==
    ASSUME Common
    PROVE  /\ \A t \in Track : acked[t] \in Nat /\ disk[t].write \in Nat
           /\ writes \in Nat /\ MaxWrites \in Nat
<1>1. MaxWrites \in Nat
    BY Given
<1>2. \A t \in Track : disk[t] \in Message
    BY NoiseIsNoMessage DEF Common, FdcTypeOK, DiskOK
<1> QED
    BY <1>1, <1>2 DEF Common, FdcTypeOK, Message

\* The loop says OK after it has written the track, or to nobody who would believe it.
LEMMA StatusIsTrue ==
    ASSUME "garble" \notin LineFaults, InTime, IndInv, TimelyInv, AckInv, ServerStep,
           NEW c \in Client, c = peer, fdc[c].pc = "wsta", Sent("WSTA", "OK", srv.cmd),
           \/ srv.pc = "write" /\ disk' = [disk EXCEPT ![srv.cmd.track] = srv.block]
           \/ TimeOut("data") /\ \A d \in Client : OutWaited(d)
           \/ Take("data") /\ transport = "serial" /\ Taken = Noise
    PROVE  disk'[fdc[c].track].write = writes
<1>1. /\ Common /\ FdcTypeOK /\ SrvOK /\ FdcOK /\ transport \in {"serial", "ws"}
      /\ disk \in [Track -> Message \cup {Noise}]
    BY ChoicesAssumption DEF IndInv, Common, FdcTypeOK
<1>2. CASE srv.pc = "write" /\ disk' = [disk EXCEPT ![srv.cmd.track] = srv.block]
    <2>1. srv.cmd = Command(c, "WRIT", fdc[c].track)
        <3>1. CASE transport = "serial"
            BY <1>2, <3>1 DEF TimelyInv, LineInv, Turn, Serves
        <3>2. CASE transport = "ws"
            <4>1. Lockstep(c)
                BY <3>2 DEF IndInv, WsInv
            <4> QED
                BY <1>2, <4>1 DEF Lockstep, Serving
        <3> QED
            BY <1>1, <3>1, <3>2
    <2>2. srv.cmd.track = fdc[c].track /\ fdc[c].track \in Track
        BY <1>1, <2>1 DEF Command, FdcOK
    <2>3. srv.block.write = writes
        BY <1>2 DEF AckInv, WritingOK
    <2> QED
        BY <1>1, <1>2, <2>2, <2>3
<1>3. CASE TimeOut("data") /\ \A d \in Client : OutWaited(d)
    <2>1. srv.pc = "data" /\ ~Ready /\ Silence
        BY <1>3, Zenon DEF TimeOut
    <2>2. CASE transport = "serial"
        <3>1. c \in wired /\ ~orphan
            BY <2>2 DEF TimelyInv, LineInv
        <3>2. fdc[c] = Idle
            BY <1>3, <2>2, <3>1 DEF OutWaited, InTime
        <3> QED
            BY <3>2 DEF Idle
    <2>3. CASE transport = "ws"
        <3>1. Lockstep(c) /\ ~orphan
            BY <2>3 DEF IndInv, WsInv
        <3>2. PICK m \in Message : m = Block(c, fdc[c].track, fdc[c].write)
            <4>1. fdc[c] \in Fdc
                BY <1>1 DEF FdcTypeOK
            <4> QED
                BY <4>1 DEF Block, Message, Fdc
        <3>3. rx = Tokens(m) /\ m.op = "DATA"
            BY <2>1, <3>1, <3>2 DEF Lockstep, Sending, Block
        <3>4. Len(rx) = Wanted /\ Wanted \in Nat
            BY <2>1, <3>3, TokensAre, Sizes DEF Wanted
        <3> QED
            BY <2>1, <3>1, <3>4 DEF Ready
    <2> QED
        BY <1>1, <2>2, <2>3
<1>4. CASE Take("data") /\ transport = "serial" /\ Taken = Noise
    <2>1. LineInv /\ c = Controller
        BY <1>4 DEF TimelyInv, LineInv
    <2> QED
        BY <1>1, <1>4, <2>1, TrackIsCurrent
<1> QED
    BY <1>2, <1>3, <1>4

LEMMA ServerKeepsAck ==
    ASSUME "garble" \notin LineFaults, InTime, IndInv, TimelyInv, AckInv, ServerStep,
           IndInv', TimelyInv'
    PROVE  AckInv'
<1>1. /\ Common /\ FdcTypeOK /\ SrvOK /\ FdcOK /\ transport \in {"serial", "ws"}
      /\ tx \in [Client -> Seq(Response)] /\ disk \in [Track -> Message \cup {Noise}]
      /\ srv \in Srv /\ NoClient \notin Client /\ peer \in Client \cup {NoClient}
    BY ChoicesAssumption, Given DEF IndInv, Common, FdcTypeOK
<1>2. /\ UNCHANGED <<transport, peer, wired, fdc, acked, writes>>
      /\ Looks \/ Commanded \/ Served \/ Synced \/ Refused \/ Received
    BY <1>1, ServerCases DEF Rest
<1>3. WritesOK /\ StatusOK /\ WritingOK
    BY DEF AckInv
<1>4. ASSUME NEW t \in Track PROVE disk'[t] = disk[t] \/ disk'[t].write = writes
    <2>1. CASE disk' = disk
        BY <2>1
    <2>2. CASE srv.pc = "write" /\ disk' = [disk EXCEPT ![srv.cmd.track] = srv.block]
        <3>1. srv.block.write = writes
            BY <1>3, <2>2 DEF WritingOK
        <3> QED
            BY <1>1, <2>2, <3>1
    <2> QED
        BY <1>2, <2>1, <2>2 DEF Looks, Commanded, Served, Synced, Refused, Received
<1>5. WritesOK'
    <2>1. \A t \in Track : /\ acked[t] \in Nat /\ disk[t].write \in Nat /\ writes \in Nat
                           /\ acked[t] <= disk[t].write /\ disk[t].write <= writes
        BY <1>1, <1>3, Numbers DEF WritesOK
    <2>2. ASSUME NEW t \in Track PROVE acked[t] <= disk'[t].write /\ disk'[t].write <= writes
        BY <1>4, <2>1
    <2> QED
        BY <1>2, <1>3, <2>2 DEF WritesOK
<1>6. StatusOK'
    <2> SUFFICES ASSUME NEW c \in Client, NEW i \in DOMAIN tx'[c], fdc[c].pc = "wsta",
                        tx'[c][i].op = "WSTA", tx'[c][i].code = "OK"
                 PROVE  disk'[fdc[c].track].write = writes
        BY <1>2 DEF StatusOK
    <2>1. CASE i \in DOMAIN tx[c] /\ tx'[c][i] = tx[c][i]
        <3>1. disk[fdc[c].track].write = writes /\ fdc[c].track \in Track
            BY <1>1, <1>3, <2>1 DEF StatusOK, FdcOK
        <3> QED
            BY <1>4, <3>1
    <2>2. CASE ~(i \in DOMAIN tx[c] /\ tx'[c][i] = tx[c][i])
        <3>1. tx' # tx
            BY <2>2
        <3>2. \A op, code, m : Sent(op, code, m) => c = peer /\ op = "WSTA" /\ code = "OK"
            BY <1>1, <2>2, SentOne
        <3>3. Served \/ Refused
            BY <1>2, <3>1, <3>2 DEF Looks, Commanded, Synced, Received
        <3>4. CASE Served
            <4>1. PICK code : /\ srv.pc = "write" /\ Sent("WSTA", code, srv.cmd)
                              /\ code = "OK" => disk' = [disk EXCEPT ![srv.cmd.track] = srv.block]
                BY <3>1, <3>2, <3>4 DEF Served
            <4>2. code = "OK" /\ c = peer
                BY <3>2, <4>1
            <4> QED
                BY <4>1, <4>2, StatusIsTrue
        <3>5. CASE Refused
            <4>1. PICK code : /\ Sent("WSTA", code, srv.cmd)
                              /\ code = "OK" => TimeOut("data") \/ (transport = "serial" /\ Taken = Noise)
                BY <3>5 DEF Refused
            <4>2. code = "OK" /\ c = peer
                BY <3>2, <4>1
            <4>3. \/ TimeOut("data") /\ \A d \in Client : OutWaited(d)
                  \/ Take("data")
                BY <3>5 DEF Refused
            <4>4. TimeOut("data") => ~Take("data")
                BY Zenon DEF TimeOut, Take
            <4> QED
                BY <4>1, <4>2, <4>3, <4>4, StatusIsTrue
        <3> QED
            BY <3>3, <3>4, <3>5
    <2> QED
        BY <2>1, <2>2
<1>7. WritingOK'
    <2> SUFFICES ASSUME srv'.pc = "write"
                 PROVE  /\ srv'.block.write = writes
                        /\ \A c \in wired : fdc[c].pc = "wsta" /\ tx'[c] = << >>
        BY <1>2 DEF WritingOK
    <2>1. srv.pc = "data"
        <3>1. Top.pc # "write" /\ Waiting("command").pc # "write" /\ Waiting("poll").pc # "write"
            BY TopIs DEF Waiting
        <3>2. Received
            BY <1>1, <1>2, <3>1
               DEF Looks, Commanded, Served, Synced, Refused, Srv, Waiting
        <3> QED
            BY <3>2, Zenon DEF Received, Take
    <2>2. ASSUME NEW c \in Client, peer = c, wired \subseteq {c}, fdc[c].pc = "wsta",
                 tx'[c] = << >>, srv'.block = Block(c, fdc[c].track, fdc[c].write)
          PROVE  /\ srv'.block.write = writes
                 /\ \A d \in wired : fdc[d].pc = "wsta" /\ tx'[d] = << >>
        <3>1. fdc[c].write = writes
            BY <1>3, <2>2 DEF WritesOK
        <3> QED
            BY <2>2, <3>1 DEF Block
    <2>3. CASE transport = "serial"
        <3>1. Serves(Controller)' /\ peer = Controller /\ wired = {Controller}
            BY <1>2, <2>3 DEF TimelyInv, LineInv, Turn
        <3> QED
            BY <1>2, <2>2, <3>1, Given DEF Serves
    <2>4. CASE transport = "ws"
        <3>1. WsInv /\ WsInv'
            BY <1>2, <2>4 DEF IndInv
        <3>2. PICK c \in Client : peer = c
            BY <1>1, <2>1, <3>1 DEF WsInv
        <3>3. Serving(c)' /\ wired \subseteq {c}
            BY <1>1, <1>2, <3>1, <3>2 DEF WsInv, Lockstep
        <3> QED
            BY <1>2, <2>2, <3>2, <3>3 DEF Serving
    <2> QED
        BY <1>1, <2>3, <2>4
<1> QED
    BY <1>5, <1>6, <1>7 DEF AckInv

LEMMA ControllerKeepsAck ==
    ASSUME InTime, IndInv, TimelyInv, AckInv, NEW c \in Client, Speaks(c), ControllerStep(c)
    PROVE  AckInv'
<1>1. /\ Common /\ FdcTypeOK /\ SrvOK /\ FdcOK /\ transport \in {"serial", "ws"}
      /\ tx \in [Client -> Seq(Response)] /\ fdc \in [Client -> Fdc]
      /\ acked \in [Track -> 0 .. MaxWrites]
      /\ NoClient \notin Client /\ Idle.pc = "idle" /\ Idle \notin {[fdc[c] EXCEPT !.pc = "wsta"]}
    BY ChoicesAssumption, Given DEF IndInv, Common, FdcTypeOK, Idle
<1>2. PICK f \in Fdc : /\ FdcIs(f) /\ fdc' = [fdc EXCEPT ![c] = f]
                       /\ Asks(c, f) \/ Sends(c, f) \/ Stops(c, f)
    BY <1>1, ControllerCases
<1>3. UNCHANGED Elsewhere /\ fdc'[c] = f /\ \A d \in Client : d # c => fdc'[d] = fdc[d]
    BY <1>1, <1>2, ControllerCases
<1>4. Counts(c, f)
    BY <1>1, <1>3, ControllerCounts
<1>5. WritesOK /\ StatusOK /\ WritingOK
    BY DEF AckInv
<1>6. /\ c \in wired
      /\ \A d \in Client : d # c => fdc[d].pc = "idle"
    <2>1. CASE transport = "serial"
        BY <1>1, <2>1 DEF TimelyInv, LineInv, Speaks
    <2>2. CASE transport = "ws"
        BY <1>1, <2>2 DEF IndInv, WsInv, Speaks
    <2> QED
        BY <1>1, <2>1, <2>2
<1>7. srv.pc # "write"
    <2> SUFFICES ASSUME srv.pc = "write" PROVE FALSE
        OBVIOUS
    <2>1. fdc[c].pc = "wsta" /\ tx[c] = << >>
        BY <1>5, <1>6 DEF WritingOK
    <2>2. ~TimedOut(c)
        BY DEF TimedOut, Starved, InTime
    <2> QED
        BY <1>1, <1>2, <2>1, <2>2 DEF Asks, Sends, Stops
<1>8. /\ \A t \in Track : /\ acked[t] \in Nat /\ disk[t].write \in Nat
                          /\ acked[t] <= disk[t].write /\ disk[t].write <= writes
      /\ writes \in Nat
    BY <1>1, <1>5, Numbers DEF WritesOK
<1>9. disk' = disk /\ srv' = srv
    BY <1>3 DEF Elsewhere
<1>10. WritesOK'
    <2>1. CASE /\ UNCHANGED <<acked, writes>>
               /\ f.pc \in {"writ", "wsta"} => fdc[c].pc \in {"writ", "wsta"} /\ f.write = fdc[c].write
        BY <1>3, <1>5, <1>9, <2>1 DEF WritesOK
    <2>2. CASE acked' = acked /\ writes' = writes + 1 /\ f.pc = "writ" /\ f.write = writes'
        <3>1. \A t \in Track : acked[t] <= disk[t].write /\ disk[t].write <= writes'
            BY <1>8, <2>2
        <3>2. \A d \in Client : fdc'[d].pc \in {"writ", "wsta"} => fdc'[d].write = writes'
            BY <1>3, <1>6, <2>2
        <3> QED
            BY <1>9, <2>2, <3>1, <3>2 DEF WritesOK
    <2>3. CASE /\ writes' = writes /\ f = Idle /\ fdc[c].pc = "wsta"
               /\ tx[c] # << >> /\ Head(tx[c]).op = "WSTA" /\ Head(tx[c]).code = "OK"
               /\ acked' = [acked EXCEPT ![fdc[c].track] = fdc[c].write]
        <3>1. Head(tx[c]) = tx[c][1] /\ 1 \in DOMAIN tx[c]
            <4>1. tx[c] \in Seq(Response)
                BY <1>1
            <4> QED
                BY <2>3, <4>1, HeadTailProperties, LenProperties, EmptySeq
        <3>2. disk[fdc[c].track].write = writes /\ fdc[c].write = writes /\ fdc[c].track \in Track
            BY <1>1, <1>5, <2>3, <3>1 DEF StatusOK, WritesOK, FdcOK
        <3>3. ASSUME NEW t \in Track PROVE acked'[t] <= disk[t].write
            <4>1. acked'[t] = acked[t] \/ (t = fdc[c].track /\ acked'[t] = writes)
                BY <1>1, <2>3, <3>2
            <4> QED
                BY <1>8, <3>2, <4>1
        <3>4. \A d \in Client : fdc'[d].pc \in {"writ", "wsta"} => fdc'[d].write = writes'
            BY <1>1, <1>3, <1>6, <2>3
        <3> QED
            BY <1>8, <1>9, <2>3, <3>3, <3>4 DEF WritesOK
    <2> QED
        BY <1>4, <2>1, <2>2, <2>3 DEF Counts
<1>11. StatusOK'
    <2> SUFFICES ASSUME NEW d \in Client, NEW i \in DOMAIN tx'[d], fdc'[d].pc = "wsta",
                        tx'[d][i].op = "WSTA", tx'[d][i].code = "OK"
                 PROVE  disk[fdc'[d].track].write = writes'
        BY <1>9 DEF StatusOK
    <2>1. d = c /\ f.pc = "wsta"
        BY <1>3, <1>6
    <2>2. ~Sends(c, f)
        <3> SUFFICES ASSUME Sends(c, f) PROVE tx'[c] = << >>
            BY <2>1
        <3>1. CASE transport = "serial"
            BY <1>1, <1>2, <1>3, <3>1, SendsKeepTurn DEF TimelyInv, Speaks
        <3>2. CASE transport = "ws"
            BY <1>1, <1>3, <2>1, <3>2, ControllerKeepsAnswers DEF TimelyInv
        <3> QED
            BY <1>1, <3>1, <3>2
    <2>3. /\ f = fdc[c] /\ tx[c] # << >> /\ tx' = [tx EXCEPT ![c] = Tail(tx[c])]
        BY <1>1, <1>2, <2>1, <2>2 DEF Asks, Stops
    <2>4. i + 1 \in DOMAIN tx[c] /\ tx'[c][i] = tx[c][i + 1]
        BY <1>1, <2>1, <2>3, TailIs
    <2>5. writes' = writes
        BY <1>1, <1>4, <2>1 DEF Counts
    <2> QED
        BY <1>3, <1>5, <2>1, <2>3, <2>4, <2>5 DEF StatusOK
<1>12. WritingOK'
    BY <1>7, <1>9 DEF WritingOK
<1> QED
    BY <1>10, <1>11, <1>12 DEF AckInv

LEMMA NetworkKeepsAck ==
    ASSUME InTime, IndInv, AckInv, Network
    PROVE  AckInv'
<1>1. /\ UNCHANGED <<disk, acked, writes>>
      /\ fdc \in [Client -> Fdc] /\ tx \in [Client -> Seq(Response)] /\ Idle.pc = "idle"
    BY Zenon DEF Network, CloseConnection, Accept, Closed, loop, engine, IndInv, Common,
                 FdcTypeOK, Idle
<1>2. WritesOK /\ StatusOK /\ WritingOK
    BY DEF AckInv
<1>3. ASSUME NEW c \in Client
      PROVE  (fdc'[c] = fdc[c] /\ tx'[c] = tx[c]) \/ (fdc'[c].pc = "idle" /\ c \notin wired')
    <2>1. CASE UNCHANGED <<fdc, tx>>
        BY <2>1
    <2>2. ASSUME NEW d \in Client, fdc' = [fdc EXCEPT ![d] = Idle],
                 tx' = [tx EXCEPT ![d] = << >>], wired' = wired \ {d}
          PROVE  (fdc'[c] = fdc[c] /\ tx'[c] = tx[c]) \/ (fdc'[c].pc = "idle" /\ c \notin wired')
        BY <1>1, <2>2
    <2>3. \/ UNCHANGED <<fdc, tx>>
          \/ \E d \in Client : /\ fdc' = [fdc EXCEPT ![d] = Idle]
                               /\ tx' = [tx EXCEPT ![d] = << >>] /\ wired' = wired \ {d}
        BY Zenon DEF Network, CloseConnection, Accept, Closed
    <2> QED
        BY <2>1, <2>2, <2>3
<1>4. WritesOK'
    BY <1>1, <1>2, <1>3 DEF WritesOK
<1>5. StatusOK'
    BY <1>1, <1>2, <1>3 DEF StatusOK
<1>6. WritingOK'
    <2> SUFFICES ASSUME srv'.pc = "write"
                 PROVE  /\ srv'.block.write = writes
                        /\ \A c \in wired' : fdc'[c].pc = "wsta" /\ tx'[c] = << >>
        BY <1>1 DEF WritingOK
    <2>1. Waiting("poll").pc = "poll"
        BY DEF Waiting
    <2>2. srv' = srv
        BY <2>1 DEF Network, CloseConnection, Accept, Closed, Woken
    <2>3. wired' \subseteq wired
        BY <2>2 DEF Network, CloseConnection, Accept, Closed, InTime, loop
    <2>4. wired \subseteq Client
        BY DEF IndInv, Common, FdcTypeOK
    <2> QED
        BY <1>2, <1>3, <2>2, <2>3, <2>4 DEF WritingOK
<1> QED
    BY <1>4, <1>5, <1>6 DEF AckInv

LEMMA AckInductive ==
    ASSUME "garble" \notin LineFaults, InTime, IndInv, TimelyInv, AckInv, [Next]_vars
    PROVE  AckInv'
<1>1. IndInv' /\ TimelyInv'
    BY TimelyInductive
<1>2. CASE ServerStep
    BY <1>1, <1>2, ServerKeepsAck
<1>3. ASSUME NEW c \in Client, Speaks(c), ControllerStep(c)
      PROVE  AckInv'
    BY <1>3, ControllerKeepsAck
<1>4. CASE Network
    BY <1>4, NetworkKeepsAck
<1>5. CASE DriveChanges \/ UNCHANGED vars
    <2>1. UNCHANGED <<wired, srv, disk, fdc, acked, tx, writes>>
        BY <1>5, Zenon DEF DriveChanges, vars, link, controllers
    <2> QED
        BY <2>1 DEF AckInv, WritesOK, StatusOK, WritingOK
<1>6. \/ ServerStep \/ Operator \/ Network \/ DriveChanges \/ UNCHANGED vars
      \/ \E c \in Client : Speaks(c) /\ ControllerStep(c)
    BY Zenon DEF Next, ControllerStep
<1> QED
    BY <1>2, <1>3, <1>4, <1>5, <1>6, NoOperator

LEMMA InitAck == LinksInit => AckInv
<1> SUFFICES ASSUME LinksInit PROVE AckInv
    OBVIOUS
<1>1. /\ srv = Waiting("command") /\ fdc = [c \in Client |-> Idle] /\ tx = [c \in Client |-> << >>]
      /\ disk = [t \in Track |-> Blank(t)] /\ acked = [t \in Track |-> 0] /\ writes = 0
    BY Zenon DEF LinksInit, Init
<1>2. /\ srv.pc = "command" /\ \A c \in Client : fdc[c].pc = "idle"
      /\ \A t \in Track : disk[t].write = 0 /\ acked[t] = 0
    BY <1>1 DEF Waiting, Idle, Blank, Block
<1> QED
    BY <1>1, <1>2 DEF AckInv, WritesOK, StatusOK, WritingOK

\* A controller that is told that its write succeeded may rely on it: the block, or one
\* written after it, is on the disk.  The loop also answers a track that does not come
\* with whatever code the last operation left, which may be the code of a success; with a
\* controller that waits in time nobody is left to believe it, on a line that loses bytes
\* and answers but damages none.  (A track that comes damaged is answered in the same
\* way, to a controller that still waits: hence the hypothesis on the line.)
THEOREM AcknowledgementsAreTrue ==
    ASSUME InTime, "garble" \notin LineFaults
    PROVE  Spec => []AcknowledgedIsOnDisk
<1>1. LinksInit => IndInv /\ TimelyInv /\ AckInv
    BY InitHolds, InitTimely, InitAck
<1>2. IndInv /\ TimelyInv /\ AckInv /\ [Next]_vars => (IndInv /\ TimelyInv /\ AckInv)'
    BY TimelyInductive, AckInductive
<1>3. IndInv /\ TimelyInv /\ AckInv => AcknowledgedIsOnDisk
    <2> SUFFICES ASSUME IndInv, AckInv, NEW t \in Track
                 PROVE  disk[t].write >= acked[t]
        BY DEF AcknowledgedIsOnDisk
    <2>1. acked[t] \in Nat /\ disk[t].write \in Nat
        BY Numbers DEF IndInv
    <2>2. acked[t] <= disk[t].write
        BY DEF AckInv, WritesOK
    <2> QED
        BY <2>1, <2>2
<1> QED
    BY <1>1, <1>2, <1>3, PTL DEF Spec

=============================================================================
