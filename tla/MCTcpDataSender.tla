-------------------------- MODULE MCTcpDataSender --------------------------
(* An instance of TcpDataSender. *)
EXTENDS TcpDataSender

CONSTANTS first, second

\* The first request may be tried as often as there is, the second once less.
MCRetryCount == [d \in Data |-> IF d = first THEN 0 ELSE 1]
=============================================================================
