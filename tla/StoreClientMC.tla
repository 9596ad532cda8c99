--------------------------- MODULE StoreClientMC ---------------------------
(* Small instances of StoreClient for TLC. *)
EXTENDS StoreClient, TLC

CONSTANTS c1, c2

TwoClients == {c1, c2}
Symmetry == Permutations(TwoClients)
NoMaxSize == -1
Announced == {-1, 1, 2, 4}
Unannounced == {-1}
====
