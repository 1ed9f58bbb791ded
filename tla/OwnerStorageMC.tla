--------------------------- MODULE OwnerStorageMC ---------------------------
(***************************************************************************)
(* Values for the constants of OwnerStorage: two uploads of one content.   *)
(***************************************************************************)
EXTENDS OwnerStorage, TLC

CONSTANTS k1, k2

ContentMC == [k \in Keys |-> <<"same", "private">>]

Symmetry == Permutations(Keys) \cup Permutations(Attempts) \cup Permutations(Workers)
=============================================================================
