----------------------- MODULE SubscriptionContractMC -----------------------
(***************************************************************************)
(* Values for the constants of SubscriptionContract: a smaller and a       *)
(* larger plan, both paid by the month.                                    *)
(***************************************************************************)
EXTENDS SubscriptionContract

CONSTANTS o1, o2

PlanOfMC == [o \in PlanOrders |-> IF o = o1 THEN 1 ELSE 2]
CyclesOfMC == [o \in PlanOrders |-> 1]
=============================================================================
