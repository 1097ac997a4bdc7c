----------------------------- MODULE MCLjcaGpio -----------------------------
(***************************************************************************)
(* LjcaGpio for TLC.                                                       *)
(***************************************************************************)
EXTENDS LjcaGpio, TLC
=============================================================================
