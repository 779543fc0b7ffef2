----------------------- MODULE MCInventoryOperations -----------------------
(***************************************************************************)
(* A transfer, an adjustment and a count on two places for one item.       *)
(***************************************************************************)
EXTENDS InventoryOperations, TLC

CONSTANTS t1, a1, c1, widget, main, w1, w2

MCKeyItem == [b \in BalanceKeys |-> widget]
MCKeyWarehouse == [b \in BalanceKeys |-> main]
MCOpeningStock == w1 :> 1 @@ w2 :> 0
=============================================================================
