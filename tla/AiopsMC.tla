------------------------------ MODULE AiopsMC -------------------------------
(* Model-checking instances of Aiops. *)
EXTENDS Aiops, TLC

Symmetry == Permutations(Workers)
=============================================================================
