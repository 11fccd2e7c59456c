------------------------------- MODULE Transfer ------------------------------
(***************************************************************************)
(* Sending a file to the machine at the terminal port: the XMODEM sender   *)
(* (src/xmodem-sender.ts), the replay of text (src/replay-engine.ts), what *)
(* starts and cancels them (src/routes/replay.ts, src/services/transfer.ts,*)
(* src/mcp-server.ts, src/websocket/handlers.ts) and the port they share   *)
(* (src/terminal-serial.ts).  The guest is a receiver of XMODEM, external. *)
(*                                                                         *)
(* The line keeps the order of what it carries; it may lose or garble all  *)
(* of it and delay it for as long as it likes, so that any wait may time   *)
(* out before its answer comes.  A packet stands for its bytes, with its   *)
(* number, its block, and whether its check would pass.                    *)
(***************************************************************************)
EXTENDS Naturals, Sequences, SequencesExt

CONSTANTS
    Sizes,       \* sizes of files, in blocks
    MaxRetries,  \* 10 in the code
    Modulus,     \* block numbers; 256 in the code
    Chunks,      \* bound: chunks of a replayed text
    MaxStarts,   \* bound: XMODEM transfers ever begun, and receivers
    MaxReplays,  \* bound: replays ever begun
    MaxEvents    \* bound: keystrokes, closed ports and unasked bytes

ASSUME BoundsAssumption ==
    /\ Sizes \subseteq Nat /\ Chunks \in Nat
    /\ MaxRetries \in Nat \ {0} /\ Modulus \in Nat \ {0, 1}
    /\ MaxStarts \in Nat /\ MaxReplays \in Nat /\ MaxEvents \in Nat

VARIABLES
    sender,   \* the XmodemSender
    replay,   \* the ReplayEngine
    port,     \* the terminal port is open
    toGuest,  \* on the line: packets, EOT, CAN and text
    toHost,   \* on the line: bytes
    guest,    \* the receiver: the blocks it has, and the file it saved
    noisy,    \* ghost: since the transfer began, more went over the line than it and its answers
    count     \* transfers, replays and receivers begun, and other events

vars == <<sender, replay, port, toGuest, toHost, guest, noisy, count>>

Byte == {"ACK", "NAK", "CAN", "C", "junk"}
Gone == "gone"  \* -1, what cancel() gives a waiter

\* What the sender waits for in each of its waits.
Expected == [init |-> {"C", "NAK", "CAN"}, answer |-> {"ACK", "NAK", "CAN"}, end |-> {"ACK", "NAK"}]
Waits == DOMAIN Expected

\* `waiters' are the handlers in dataResolvers: of the wait in progress, or of one
\* that has timed out.
NewSender == [pc |-> "idle", transfer |-> 0, total |-> 0, index |-> 0, retries |-> 0,
              cancelled |-> FALSE, intercepts |-> FALSE, buffer |-> <<>>, waiters |-> <<>>,
              outcome |-> "none"]
NewReplay == [pc |-> "idle", left |-> 0, cancelled |-> FALSE]
Text == [kind |-> "text"]

Init ==
    /\ sender = NewSender
    /\ replay = NewReplay
    /\ port = TRUE
    /\ toGuest = <<>> /\ toHost = <<>>
    /\ guest = [pc |-> "off", got |-> <<>>, saved |-> <<>>]
    /\ noisy = FALSE
    /\ count = [starts |-> 0, replays |-> 0, receivers |-> 0, events |-> 0]

\* A mutation: the terminal gets the line back only after a transfer that completed.
MutEnded(s, outcome) ==
    [s EXCEPT !.pc = "idle", !.intercepts = outcome # "completed", !.buffer = <<>>,
              !.waiters = <<>>, !.outcome = outcome]

\* The `finally' of send().
Ended(s, outcome) ==
    [s EXCEPT !.pc = "idle", !.intercepts = FALSE, !.buffer = <<>>, !.waiters = <<>>,
              !.outcome = outcome]

\* The file with this transfer's blocks, and the block of an index.
BlockOf(s, index) == <<s.transfer, index>>
FileOf(s) == [i \in 1 .. s.total |-> BlockOf(s, i - 1)]

-----------------------------------------------------------------------------
(* Mutations of definitions below: what a plausible slip in the code would do. *)

\* The handler of a wait that times out is taken out of dataResolvers.
MutStale(s) == [s EXCEPT !.waiters = SelectSeq(@, LAMBDA w : w # "live")]

\* Cancellation is looked at once for each block, not for each try.
MutCancelSeen(s) == s.cancelled /\ s.retries = 0

\* A NAK is no failed try.
MutTried(s, byte) == IF byte = "NAK" THEN s.retries ELSE s.retries + 1

-----------------------------------------------------------------------------
(* The sender between two awaits *)

\* The cancellation is seen.
CancelSeen(s) == s.cancelled
Tried(s, byte) == s.retries + 1

\* The head of the loop over blocks, and of that over tries.
Loop(s) ==
    IF s.index = s.total THEN [s EXCEPT !.pc = "eot", !.retries = 0]
    ELSE IF s.retries >= MaxRetries THEN Ended(s, "error")
    ELSE IF CancelSeen(s) THEN [s EXCEPT !.pc = "cancel"]
    ELSE [s EXCEPT !.pc = "write"]

\* The loop over EOTs, which does not look at `cancelled'.
EndLoop(s) ==
    IF s.retries + 1 < MaxRetries THEN [s EXCEPT !.pc = "eot", !.retries = @ + 1]
    ELSE Ended(s, "error")

\* A wait ends with a byte.
Heard(s, byte) ==
    CASE s.pc = "init" ->
           IF s.cancelled THEN [s EXCEPT !.pc = "cancel"]
           ELSE IF byte = "CAN" THEN Ended(s, "cancelled") ELSE Loop(s)
      [] s.pc = "answer" ->
           IF byte = "ACK" THEN Loop([s EXCEPT !.index = @ + 1, !.retries = 0])
           ELSE IF byte = "CAN" THEN Ended(s, "cancelled")
           ELSE Loop([s EXCEPT !.retries = Tried(s, byte)])
      [] s.pc = "end" -> IF byte = "ACK" THEN Ended(s, "completed") ELSE EndLoop(s)

\* waitForByte: the buffer first, up to and with the byte; else a waiter.
Wait(s, pc) ==
    LET hit == SelectInSeq(s.buffer, LAMBDA b : b \in Expected[pc])
    IN IF hit = 0 THEN [s EXCEPT !.pc = pc, !.waiters = Append(@, "live")]
       ELSE Heard([s EXCEPT !.pc = pc, !.buffer = SubSeq(@, hit + 1, Len(@))], s.buffer[hit])

\* The handler of a wait that times out stays.
Stale(s) == [s EXCEPT !.waiters = [i \in DOMAIN @ |-> "stale"]]

TimedOut(s) ==
    CASE s.pc = "init" -> Ended(s, "error")
      [] s.pc = "answer" -> Loop([Stale(s) EXCEPT !.retries = @ + 1])
      [] s.pc = "end" -> EndLoop(Stale(s))

\* handleIncomingData: each byte goes to the first waiter, also when that waits no more.
Fed(s, byte) ==
    LET Give(acc, b) ==
            IF acc.waiters = <<>> THEN [acc EXCEPT !.left = Append(@, b)]
            ELSE IF Head(acc.waiters) = "stale" THEN [acc EXCEPT !.waiters = Tail(@)]
            ELSE IF b \in Expected[s.pc] THEN [acc EXCEPT !.waiters = Tail(@), !.heard = b]
            ELSE [acc EXCEPT !.waiters = Append(Tail(@), "live")]
        fed == FoldLeft(Give, [waiters |-> s.waiters, left |-> <<>>, heard |-> Gone],
                        Append(s.buffer, byte))
        after == [s EXCEPT !.waiters = fed.waiters, !.buffer = fed.left]
    IN IF fed.heard = Gone THEN after ELSE Heard(after, fed.heard)

\* cancel(): every waiter is let go.
Cancelled(s) ==
    IF s.pc = "idle" THEN s
    ELSE LET t == [s EXCEPT !.cancelled = TRUE, !.waiters = <<>>]
         IN IF s.pc \in Waits THEN Heard(t, Gone) ELSE t

\* buildPacket, and what the line may make of what it is given.
Packets(s) ==
    CASE s.pc = "write" ->
           {<<[kind |-> "packet", number |-> (s.index + 1) % Modulus,
               block |-> BlockOf(s, s.index), good |-> good]>> : good \in BOOLEAN} \cup {<<>>}
      [] s.pc = "eot" -> {<<[kind |-> "EOT"]>>, <<>>}
      [] s.pc = "cancel" -> {<<[kind |-> "CAN"]>>, <<>>}
      [] OTHER -> {<<>>}

\* The sender goes on to its next await: a write to a closed port throws.
Goes(s) ==
    LET t == IF ~port /\ s.pc \in {"write", "eot"} THEN Ended(s, "error")
             ELSE IF ~port /\ s.pc = "cancel" THEN Ended(s, "cancelled") ELSE s
    IN /\ sender' = t
       /\ toGuest' \in {toGuest \o packets : packets \in Packets(t)}

\* A callback changes the sender: it goes on only if that ends its wait.
CalledBack(s) ==
    IF sender.pc \in Waits THEN Goes(s) ELSE sender' = s /\ UNCHANGED toGuest

-----------------------------------------------------------------------------
(* Steps of the sender *)

\* send(): one transfer at a time.  What is still on the line is noise for this one.
StartXmodem(total) ==
    /\ count.starts < MaxStarts
    /\ port /\ sender.pc = "idle"
    /\ sender' = [NewSender EXCEPT !.pc = "reading", !.transfer = count.starts + 1,
                                   !.total = total, !.intercepts = TRUE]
    /\ noisy' = (toGuest # <<>> \/ toHost # <<>> \/ guest.pc = "receives" \/ replay.pc # "idle")
    /\ count' = [count EXCEPT !.starts = @ + 1]
    /\ UNCHANGED <<replay, port, toGuest, toHost, guest>>

\* readFile ends; an empty file needs no transfer.
FileRead ==
    /\ sender.pc = "reading"
    /\ Goes(IF sender.total = 0 THEN Ended(sender, "completed") ELSE Wait(sender, "init"))
    /\ UNCHANGED <<replay, port, toHost, guest, noisy, count>>

ReadFails ==
    /\ sender.pc = "reading"
    /\ sender' = Ended(sender, "error")
    /\ UNCHANGED <<replay, port, toGuest, toHost, guest, noisy, count>>

\* What was written has left the transmit buffer.
Written ==
    /\ port /\ sender.pc \in {"write", "eot", "cancel"}
    /\ Goes(IF sender.pc = "cancel" THEN Ended(sender, "cancelled")
            ELSE Wait(sender, IF sender.pc = "write" THEN "answer" ELSE "end"))
    /\ UNCHANGED <<replay, port, toHost, guest, noisy, count>>

WriteFails ==
    /\ sender.pc \in {"write", "eot", "cancel"}
    /\ sender' = Ended(sender, IF sender.pc = "cancel" THEN "cancelled" ELSE "error")
    /\ UNCHANGED <<replay, port, toGuest, toHost, guest, noisy, count>>

TimeOut ==
    /\ sender.pc \in Waits
    /\ Goes(TimedOut(sender))
    /\ UNCHANGED <<replay, port, toHost, guest, noisy, count>>

\* A byte comes: to the sender, else to the browsers; to no one when the port is closed.
Arrive ==
    /\ toHost # <<>>
    /\ toHost' = Tail(toHost)
    /\ IF port /\ sender.intercepts THEN CalledBack(Fed(sender, Head(toHost)))
       ELSE UNCHANGED <<sender, toGuest>>
    /\ UNCHANGED <<replay, port, guest, noisy, count>>

-----------------------------------------------------------------------------
(* The replay of text *)

\* replay(): the engine looks at itself alone.
StartRaw ==
    /\ count.replays < MaxReplays
    /\ port /\ replay.pc = "idle"
    /\ replay' = [NewReplay EXCEPT !.pc = "pace", !.left = Chunks]
    /\ count' = [count EXCEPT !.replays = @ + 1]
    /\ UNCHANGED <<sender, port, toGuest, toHost, guest, noisy>>

\* A turn of its loop: the file is read, or the delay after a chunk is over.
ReplayTurn ==
    /\ replay.pc = "pace"
    /\ IF replay.left = 0 \/ replay.cancelled \/ ~port
       THEN replay' = NewReplay /\ UNCHANGED <<toGuest, noisy>>
       ELSE /\ replay' = [replay EXCEPT !.pc = "write", !.left = @ - 1]
            /\ toGuest' = Append(toGuest, Text)
            /\ noisy' = (noisy \/ sender.pc # "idle")
    /\ UNCHANGED <<sender, port, toHost, guest, count>>

ReplayWritten ==
    /\ replay.pc = "write" /\ port
    /\ replay' = [replay EXCEPT !.pc = "pace"]
    /\ UNCHANGED <<sender, port, toGuest, toHost, guest, noisy, count>>

ReplayFails ==
    /\ replay.pc \in {"pace", "write"}
    /\ replay' = NewReplay
    /\ UNCHANGED <<sender, port, toGuest, toHost, guest, noisy, count>>

-----------------------------------------------------------------------------
(* The operator *)

\* POST /api/replay/start and replay:start ask both engines; the MCP tool asks neither.
Start ==
    \/ /\ sender.pc = "idle" /\ replay.pc = "idle"
       /\ (StartRaw \/ \E total \in Sizes : StartXmodem(total))
    \/ StartRaw
    \/ \E total \in Sizes : StartXmodem(total)

CancelReplay ==
    replay' = IF replay.pc = "idle" THEN replay ELSE [replay EXCEPT !.cancelled = TRUE]

\* POST /api/replay/cancel cancels the replay if there is one; cancelActiveTransfer both.
Cancel ==
    /\ CancelReplay
    /\ \/ CalledBack(Cancelled(sender))
       \/ replay.pc # "idle" /\ UNCHANGED <<sender, toGuest>>
    /\ UNCHANGED <<port, toHost, guest, noisy, count>>

Event == count.events < MaxEvents /\ count' = [count EXCEPT !.events = @ + 1]

\* A keystroke of a browser, or send_to_terminal.
KeyTyped ==
    /\ Event /\ port
    /\ toGuest' = Append(toGuest, Text)
    /\ noisy' = (noisy \/ sender.pc # "idle")
    /\ UNCHANGED <<sender, replay, port, toHost, guest>>

ClosePort ==
    /\ Event /\ port
    /\ port' = FALSE
    /\ UNCHANGED <<sender, replay, toGuest, toHost, guest, noisy>>

OpenPort ==
    /\ ~port /\ port' = TRUE
    /\ UNCHANGED <<sender, replay, toGuest, toHost, guest, noisy, count>>

-----------------------------------------------------------------------------
(* The guest *)

\* A byte to the host, which may be lost or damaged.
Says(byte) == toHost' \in {toHost, Append(toHost, byte), Append(toHost, "junk")}

\* A receiver begins, and asks for the file: with CRC or without.
GuestBegins ==
    /\ count.receivers < MaxStarts
    /\ guest.pc # "receives"
    /\ guest' = [guest EXCEPT !.pc = "receives", !.got = <<>>]
    /\ count' = [count EXCEPT !.receivers = @ + 1]
    /\ noisy' = (noisy \/ toHost # <<>> \/ sender.pc \notin {"idle", "reading", "init"})
    /\ \E byte \in {"C", "NAK"} : Says(byte)
    /\ UNCHANGED <<sender, replay, port, toGuest>>

\* It has waited long, and asks again.
GuestNags ==
    /\ Event
    /\ guest.pc = "receives"
    /\ noisy' = (noisy \/ toHost # <<>> \/ sender.buffer # <<>>
                       \/ sender.pc \notin {"idle", "reading", "init"})
    /\ \E byte \in IF guest.got = <<>> THEN {"C", "NAK"} ELSE {"NAK"} : Says(byte)
    /\ UNCHANGED <<sender, replay, port, toGuest, guest>>

\* It takes a packet: the next block, the one before once more, a damaged one, another.
GuestTakes(packet) ==
    LET number == (Len(guest.got) + 1) % Modulus
        before == Len(guest.got) % Modulus
    IN CASE ~packet.good -> Says("NAK") /\ UNCHANGED guest
         [] packet.good /\ packet.number = number ->
              Says("ACK") /\ guest' = [guest EXCEPT !.got = Append(@, packet.block)]
         [] packet.good /\ packet.number = before -> Says("ACK") /\ UNCHANGED guest
         [] OTHER -> Says("CAN") /\ guest' = [guest EXCEPT !.pc = "off"]

GuestHears ==
    /\ toGuest # <<>>
    /\ toGuest' = Tail(toGuest)
    /\ LET m == Head(toGuest)
       IN IF guest.pc # "receives" \/ m.kind = "text" THEN UNCHANGED <<guest, toHost>>
          ELSE CASE m.kind = "packet" -> GuestTakes(m)
                 [] m.kind = "CAN" -> guest' = [guest EXCEPT !.pc = "off"] /\ UNCHANGED toHost
                 [] m.kind = "EOT" ->
                      \/ Says("NAK") /\ UNCHANGED guest
                      \/ Says("ACK") /\ guest' = [guest EXCEPT !.pc = "off", !.saved = guest.got]
    /\ UNCHANGED <<sender, replay, port, noisy, count>>

-----------------------------------------------------------------------------
SenderStep == FileRead \/ ReadFails \/ Written \/ WriteFails \/ TimeOut
ReplayStep == ReplayTurn \/ ReplayWritten \/ ReplayFails
GuestStep == GuestBegins \/ GuestNags \/ GuestHears
Operator == Start \/ Cancel \/ KeyTyped \/ ClosePort \/ OpenPort

Next == SenderStep \/ ReplayStep \/ Arrive \/ Operator \/ GuestStep

\* Reads and writes end, and timers run out; nothing is asked of the line or the guest.
Fairness == WF_vars(SenderStep) /\ WF_vars(ReplayStep)

Spec == Init /\ [][Next]_vars /\ Fairness

-----------------------------------------------------------------------------
TransferTypeOK ==
    /\ sender.pc \in {"idle", "reading", "write", "eot", "cancel"} \cup Waits
    /\ sender.index \in 0 .. sender.total /\ sender.retries \in 0 .. MaxRetries
    /\ sender.outcome \in {"none", "completed", "cancelled", "error"}
    /\ sender.buffer \in Seq(Byte) /\ sender.waiters \in Seq({"live", "stale"})
    /\ replay.pc \in {"idle", "pace", "write"} /\ port \in BOOLEAN /\ noisy \in BOOLEAN
    /\ toHost \in Seq(Byte) /\ guest.pc \in {"off", "receives"}

\* The sender listens on the line exactly as long as a transfer runs, and has one handler
\* for the wait it is in, behind those that have timed out ("Always restore normal
\* terminal data flow", xmodem-sender.ts:300).
SenderListensWhileItRuns ==
    /\ TransferTypeOK
    /\ sender.intercepts <=> sender.pc # "idle"
    /\ sender.pc \in Waits => /\ sender.waiters # <<>> /\ Last(sender.waiters) = "live"
                              /\ "live" \notin {sender.waiters[i] : i \in 1 .. Len(sender.waiters) - 1}
    /\ sender.pc \notin Waits => "live" \notin {sender.waiters[i] : i \in DOMAIN sender.waiters}

\* A transfer that is reported as completed was received whole, in order and once, however
\* late its answers came and whatever was lost, damaged and repeated; unless it was
\* cancelled, or others used the line meanwhile, or the receiver spoke unasked.
CompletedMeansReceived ==
    [][sender.pc # "idle" /\ sender'.pc = "idle" /\ sender'.outcome = "completed"
         /\ sender.total > 0 /\ ~noisy /\ ~sender.cancelled
       => guest.saved = FileOf(sender)]_vars

\* Once a transfer is cancelled it sends no more packets.
CancelStopsPackets ==
    [][sender.cancelled /\ sender'.transfer = sender.transfer
       => ~ \E i \in DOMAIN toGuest' :
              i > Len(toGuest) /\ toGuest'[i].kind = "packet"]_vars

\* Every transfer and every replay ends, whatever the receiver does or does not do.
TransferEnds ==
    /\ (sender.pc # "idle") ~> (sender.pc = "idle")
    /\ (replay.pc # "idle") ~> (replay.pc = "idle")
=============================================================================
