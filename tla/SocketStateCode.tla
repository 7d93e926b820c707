--------------------------- MODULE SocketStateCode ---------------------------
(***************************************************************************)
(* The life-cycle codes of a Pinpoint socket and the table that says which *)
(* change is legal (rpc/common/SocketStateCode.java), with the guarded     *)
(* assignment every state change goes through (rpc/common/SocketState.java *)
(* and the to...() methods of PinpointClientHandlerState and               *)
(* DefaultPinpointServerState).  The agent's client handler and the        *)
(* collector's server socket share this table.                             *)
(***************************************************************************)

RunCodes == {"RUN_WITHOUT_HANDSHAKE", "RUN_SIMPLEX", "RUN_DUPLEX"}

ClosingCodes == {"BEING_CLOSE_BY_CLIENT", "BEING_CLOSE_BY_SERVER"}

ErrorCodes ==
    {"ERROR_UNKNOWN", "ERROR_ILLEGAL_STATE_CHANGE", "ERROR_SYNC_STATE_SESSION"}

ClosedCodes ==
    {"CLOSED_BY_CLIENT", "UNEXPECTED_CLOSE_BY_CLIENT",
     "CLOSED_BY_SERVER", "UNEXPECTED_CLOSE_BY_SERVER"} \cup ErrorCodes

SocketStateCodes ==
    {"NONE", "BEING_CONNECT", "CONNECTED", "CONNECT_FAILED", "IGNORE"}
        \cup RunCodes \cup ClosingCodes \cup ClosedCodes

\* The states from which each code may be entered: the enum's constructor arguments.
ValidBefore(next) ==
    CASE next = "BEING_CONNECT" -> {"NONE"}
      [] next = "CONNECTED" -> {"NONE", "BEING_CONNECT"}
      [] next = "CONNECT_FAILED" -> {"BEING_CONNECT"}
      [] next \in {"IGNORE", "RUN_WITHOUT_HANDSHAKE"} -> {"CONNECTED"}
      [] next \in {"RUN_SIMPLEX", "RUN_DUPLEX"} -> {"RUN_WITHOUT_HANDSHAKE"}
      [] next \in ClosingCodes -> RunCodes
      [] next = "CLOSED_BY_CLIENT" -> {"NONE", "BEING_CLOSE_BY_CLIENT"}
      [] next = "CLOSED_BY_SERVER" -> {"NONE", "BEING_CLOSE_BY_SERVER"}
      [] next \in {"UNEXPECTED_CLOSE_BY_CLIENT", "UNEXPECTED_CLOSE_BY_SERVER"} ->
            {"NONE", "CONNECTED"} \cup RunCodes
      [] OTHER -> {}

IsBeforeConnected(code) == code \in {"NONE", "BEING_CONNECT"}

IsRun(code) == code \in RunCodes

OnClose(code) == code \in ClosingCodes

IsClosed(code) == code \in ClosedCodes

\* The private isError: it does not count ERROR_SYNC_STATE_SESSION, so that code,
\* which has no predecessor either, can never be entered.
IsError(code) == code \in {"ERROR_ILLEGAL_STATE_CHANGE", "ERROR_UNKNOWN"}

CanChangeState(code, next) ==
    /\ ~IsError(code)
    /\ code \in ValidBefore(next) \/ IsError(next)

\* SocketState.to: a synchronized test and assignment; a refused change is a no-op
\* the caller may or may not look at.
To(code, next) == IF CanChangeState(code, next) THEN next ELSE code

=============================================================================
