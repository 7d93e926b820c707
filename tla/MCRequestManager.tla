--------------------------- MODULE MCRequestManager ---------------------------
(***************************************************************************)
(* Instances of RequestManager for TLC.                                    *)
(***************************************************************************)
EXTENDS RequestManager

=============================================================================
