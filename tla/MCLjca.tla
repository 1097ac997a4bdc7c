------------------------------- MODULE MCLjca -------------------------------
(***************************************************************************)
(* Ljca for TLC: two threads that share a stub, as the two I2C controllers *)
(* do, or one thread alone.                                                *)
(***************************************************************************)
EXTENDS Ljca, TLC

CONSTANTS t1, t2

MCStubOfOne == t1 :> "s1"
MCStubOfPair == t1 :> "s1" @@ t2 :> "s1"
=============================================================================
