------------------------------- MODULE WsLink -------------------------------
(***************************************************************************)
(* The FDC+ command loop on the shared WebSocket transport                 *)
(* (src/ws-transport.ts): no checksums, one active controller, and a new   *)
(* connection that displaces the one before.  A socket that is being closed *)
(* still delivers what its controller had sent.                            *)
(***************************************************************************)
EXTENDS FdcServer

CONSTANTS
    Displaces,     \* a controller connects while another is connected or being served
    MaxSockets     \* bound: sockets opened and closed

ASSUME DisplacesAssumption == Displaces \in BOOLEAN /\ MaxSockets \in Nat

loop == <<transport, orphan, paused, engine, acked, writes, faults>>

Receiving == srv.pc \in {"command", "data"}

MutNewBuffer == rx          \* mutation of NewBuffer: what was received stays

\* acceptConnection
NewBuffer == << >>

SocketChange ==
    /\ transport = "ws"
    /\ changes < MaxSockets
    /\ changes' = changes + 1

Accept(c) ==
    /\ SocketChange
    /\ c \notin wired
    /\ Displaces \/ (wired = {} /\ srv.pc \in {"command", "poll"})
    /\ peer' = c
    /\ wired' = wired \cup {c}
    /\ rx' = NewBuffer
    /\ UNCHANGED <<loop, srv, fdc, tx>>

\* The receive in progress is woken and finds the transport closed: the loop goes
\* back to its top before anything else happens.
Woken == IF Receiving THEN Waiting("poll") ELSE srv

\* A socket has closed; its controller starts afresh.
Closed(c) ==
    /\ SocketChange
    /\ c \in wired
    /\ peer = c /\ Receiving => ~Ready
    /\ wired' = wired \ {c}
    /\ fdc' = [fdc EXCEPT ![c] = Idle]
    /\ tx' = [tx EXCEPT ![c] = << >>]
    /\ IF peer = c THEN peer' = NoClient /\ srv' = Woken ELSE UNCHANGED <<peer, srv>>
    /\ UNCHANGED <<loop, rx>>

\* closeConnection: the operator turns the WebSocket transport off.
CloseConnection ==
    /\ SocketChange
    /\ peer # NoClient
    /\ Receiving => ~Ready
    /\ peer' = NoClient
    /\ srv' = Woken
    /\ UNCHANGED <<loop, wired, rx, fdc, tx>>

Network == CloseConnection \/ \E c \in Client : Accept(c) \/ Closed(c)
=============================================================================
