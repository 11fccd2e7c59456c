------------------------------ MODULE FdcLinks ------------------------------
(***************************************************************************)
(* The command loop on the transport that the daemon is started with       *)
(* (src/index.ts): the serial port, with its one controller and an operator *)
(* who reconfigures it, or the shared WebSocket with the controllers that  *)
(* connect to it.                                                          *)
(***************************************************************************)
EXTENDS SerialLink, WsLink

Speaks(c) == IF transport = "serial" THEN c = Controller ELSE c \in wired

LinksInit == Init /\ (transport = "serial" => peer = Controller)

Next ==
    \/ ServerStep
    \/ Operator
    \/ Network
    \/ DriveChanges
    \/ \E c \in Client : Speaks(c) /\ Ask(c)
    \/ \E c \in Client : Speaks(c) /\ Answered(c)
    \/ \E c \in Client : Speaks(c) /\ (Retry(c) \/ GiveUp(c))

Spec == LinksInit /\ [][Next]_vars

\* The event loop runs what is ready, timers fire, and the controller on the serial
\* line goes on.  Nobody has to give up.
Fairness ==
    /\ WF_vars(ServerStep)
    /\ WF_vars(transport = "serial" /\ Answered(Controller))
    /\ WF_vars(Retry(Controller))

\* The controller's second and the server's second end at about the same time: the
\* server's ends first once in a while.
Race == SF_vars(CommandTimeout)

LiveSpec == Spec /\ Fairness /\ Race
=============================================================================
