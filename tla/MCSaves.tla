------------------------------ MODULE MCSaves ------------------------------
(***************************************************************************)
(* Saves for TLC.  Nothing tells one session from another, nor one profile *)
(* from another, but what they hold.                                       *)
(***************************************************************************)
EXTENDS Saves, TLC

Symmetry == Permutations(Sessions) \cup Permutations(Names)
=============================================================================
