----------------------------- MODULE MCTakeover -----------------------------
(***************************************************************************)
(* Takeover for TLC.  Nothing tells one session from another, nor one      *)
(* character from another.                                                 *)
(***************************************************************************)
EXTENDS Takeover, TLC

Symmetry == Permutations(Sessions) \cup Permutations(Characters)
=============================================================================
