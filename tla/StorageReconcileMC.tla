------------------------- MODULE StorageReconcileMC -------------------------
(***************************************************************************)
(* Values for the constants of StorageReconcile: the owner stores the same *)
(* bytes once in private and once in public.                               *)
(***************************************************************************)
EXTENDS StorageReconcile

CONSTANTS k1, k2

ContentMC == [k \in Keys |-> <<"same", IF k = k1 THEN "private" ELSE "public">>]
=============================================================================
