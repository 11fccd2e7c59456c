----------------------------- MODULE SerialLink -----------------------------
(***************************************************************************)
(* The FDC+ command loop on a serial port (src/serial.ts): one controller, *)
(* frames with checksums, a line that loses and garbles bytes, and an      *)
(* operator who reconfigures the port (PUT /serial in src/routes/serial.ts *)
(* pauses the loop, closes the port, opens it again and resumes).          *)
(***************************************************************************)
EXTENDS FdcServer

CONSTANTS
    Controller,      \* the FDC+ board on the line
    Reconfigures     \* when the operator reconfigures the port

ASSUME ControllerAssumption == Controller \in Client
ASSUME ReconfiguresAssumption == Reconfigures \in {"never", "settled", "anytime"}

port == <<transport, srv, engine, controllers, tx, faults>>

Pause ==
    /\ transport = "serial"
    /\ Reconfigures # "never"
    /\ Change
    /\ ~paused
    /\ paused' = TRUE
    /\ UNCHANGED <<port, peer, wired, rx, orphan>>

\* pause() only stops the loop at its top; the route sleeps 25 ms after it.
\* "settled": a command that was being served is over by then.
Settled == Reconfigures = "anytime" \/ srv.pc \notin {"read", "datasync", "write"}

\* What was received is dropped.  A receive in progress is not told: its bytes will
\* go to the buffer, past it, and it can only time out.
ClosePort ==
    /\ paused
    /\ Settled
    /\ peer # NoClient
    /\ peer' = NoClient /\ wired' = {}
    /\ rx' = << >>
    /\ orphan' = (srv.pc \in {"command", "data"})
    /\ UNCHANGED <<port, paused, changes>>

OpenPort ==
    /\ paused
    /\ peer = NoClient
    /\ peer' = Controller /\ wired' = {Controller}
    /\ UNCHANGED <<port, paused, rx, orphan, changes>>

\* resume() is in a finally: the port may be open or not.
Resume ==
    /\ paused
    /\ paused' = FALSE
    /\ UNCHANGED <<port, peer, wired, rx, orphan, changes>>

Operator == Pause \/ ClosePort \/ OpenPort \/ Resume
=============================================================================
