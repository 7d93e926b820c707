------------------------- MODULE MCPinpointConnection -------------------------
(***************************************************************************)
(* Instances of PinpointConnection for TLC.                                *)
(***************************************************************************)
EXTENDS PinpointConnection

\* The instance with pings leaves out what only repeats a closed channel: the broken link
\* and the released factory.  The ends still close from both sides and at any time.
QuietNetwork == link = "up" /\ ~factoryReleased

=============================================================================
