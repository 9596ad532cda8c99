---------------------------- MODULE StoreIndexMC ----------------------------
(* The instance of StoreIndex that TLC checks.                             *)
EXTENDS StoreIndex, TLC

\* Addresses are interchangeable, keys too, and file numbers but for 0.
Symmetry == Permutations(Entries) \cup Permutations(Keys)
=============================================================================
