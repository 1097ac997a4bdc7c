---------------------------- MODULE MCVscCamera ----------------------------
(***************************************************************************)
(* VscCamera for TLC.                                                      *)
(***************************************************************************)
EXTENDS VscCamera, TLC

\* The threads of the IPU driver are interchangeable.
UserSymmetry == Permutations(Users)
=============================================================================
