---------------------------- MODULE RefundSagaMC ----------------------------
(***************************************************************************)
(* Values for the constants of RefundSaga.                                 *)
(***************************************************************************)
EXTENDS RefundSaga

EventsMC == Orders \X Steps
=============================================================================
