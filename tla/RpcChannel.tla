------------------------------ MODULE RpcChannel ------------------------------
(***************************************************************************)
(* One TCP connection between an agent and a collector, as the Netty       *)
(* channels of its two ends show it to the code: FIFO in each direction,   *)
(* no loss while both ends are open, unread data lost when an end closes.  *)
(* Netty and TCP are outside the repository; this module states what the   *)
(* handlers rely on.                                                       *)
(***************************************************************************)
EXTENDS Sequences

VARIABLES
    cChan,      \* the client's channel: "connecting", "connected", "closed"
    sChan,      \* the server's channel: "none" before the accept, "connected", "closed"
    link,       \* the network path: "up" or "down"
    c2s,        \* packets written by the client and not yet read by the server
    s2c         \* packets written by the server and not yet read by the client

channelVars == <<cChan, sChan, link, c2s, s2c>>

Handshake == [type |-> "CONTROL_HANDSHAKE"]
ClientClose == [type |-> "CONTROL_CLIENT_CLOSE"]
ServerClose == [type |-> "CONTROL_SERVER_CLOSE"]
Ping(code) == [type |-> "CONTROL_PING", state |-> code]
HandshakeResponse(code) == [type |-> "CONTROL_HANDSHAKE_RESPONSE", code |-> code]

ChannelInit ==
    /\ cChan = "connecting"
    /\ sChan = "none"
    /\ link = "up"
    /\ c2s = <<>>
    /\ s2c = <<>>

\* A write on a closed channel fails, and its listener only logs; what is written to a
\* peer that closed is lost.
ClientWrite(packet) ==
    c2s' = IF cChan = "connected" /\ sChan = "connected" THEN Append(c2s, packet) ELSE c2s

ServerWrite(packet) ==
    s2c' = IF cChan = "connected" /\ sChan = "connected" THEN Append(s2c, packet) ELSE s2c

\* An end that closes its channel reads nothing more.
ClientCloses == cChan' = "closed" /\ s2c' = <<>>
ServerCloses == sChan' = "closed" /\ c2s' = <<>>

\* The three-way handshake of TCP completes.
Establish ==
    /\ cChan = "connecting"
    /\ link = "up"
    /\ cChan' = "connected"
    /\ sChan' = "connected"
    /\ UNCHANGED <<link, c2s, s2c>>

\* The connection is refused or times out.
ConnectFails ==
    /\ cChan = "connecting"
    /\ ClientCloses
    /\ UNCHANGED <<sChan, link, c2s>>

LinkBreaks ==
    /\ link = "up"
    /\ link' = "down"
    /\ UNCHANGED <<cChan, sChan, c2s, s2c>>

\* An end notices that its peer closed or that the path is gone; what it has not
\* read by then is lost (a reset), or was already read (an orderly close).
ClientSeesPeerClosed ==
    /\ cChan = "connected"
    /\ sChan = "closed" \/ link = "down"
    /\ ClientCloses
    /\ UNCHANGED <<sChan, link, c2s>>

ServerSeesPeerClosed ==
    /\ sChan = "connected"
    /\ cChan = "closed" \/ link = "down"
    /\ ServerCloses
    /\ UNCHANGED <<cChan, link, s2c>>

=============================================================================
