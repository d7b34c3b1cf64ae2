------------------------------- MODULE MCGena -------------------------------
(* Finite instances of Gena. *)
EXTENDS Gena, TLC

CONSTANTS h1, s1, s2
MCSids == {s1, s2}
GenaSymmetry == Permutations(MCSids)
=============================================================================
