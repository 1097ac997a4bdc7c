--------------------------- MODULE MCVscTransport ---------------------------
(***************************************************************************)
(* VscTransport for TLC.                                                   *)
(***************************************************************************)
EXTENDS VscTransport, TLC
=============================================================================
