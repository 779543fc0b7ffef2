----------------------- MODULE MCProcurementWorkflow -----------------------
(***************************************************************************)
(* One request whose lines make two orders, two calls at a time, and       *)
(* enough documents for a request to be sourced twice if it could be.      *)
(***************************************************************************)
EXTENDS ProcurementWorkflow, TLC

CONSTANTS p1

MCGroups == p1 :> 2

\* Calls and documents of a kind are interchangeable.
MCSymmetry == Permutations(Calls) \cup Permutations(Rfqs) \cup Permutations(PurchaseOrders)
=============================================================================
