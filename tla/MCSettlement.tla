----------------------------- MODULE MCSettlement -----------------------------
(***************************************************************************)
(* The instance of Settlement: the scripts of the repository under all     *)
(* four flows and budgets, over one another's leftovers.                   *)
(***************************************************************************)
EXTENDS SettlementWorkloads

AnyRevisions == [flow : Flows, budget : {0, 1, 3}]
=============================================================================
