----------------------------- MODULE MCReceiving -----------------------------
(***************************************************************************)
(* Receiving on a small instance: one order for two items, the first of    *)
(* them stored in two places; a second order, already received in part     *)
(* when it was imported, competes for nothing but shares the stock keys.   *)
(***************************************************************************)
EXTENDS Receiving, TLC

CONSTANTS p1, p2, l1, l2, l3, widget, gadget, w1, w2, g1, main, d1, d2

MCPoOf == l1 :> p1 @@ l2 :> p1 @@ l3 :> p2
MCPoLineItem == l1 :> widget @@ l2 :> gadget @@ l3 :> widget
MCOrdered == l1 :> 2 @@ l2 :> 1 @@ l3 :> 2
MCImported == l1 :> 0 @@ l2 :> 0 @@ l3 :> 1
MCKeyItem == w1 :> widget @@ w2 :> widget @@ g1 :> gadget
MCKeyWarehouse == [b \in BalanceKeys |-> main]
MCOpeningStock == w1 :> 1 @@ w2 :> 0 @@ g1 :> 0

\* The two documents are interchangeable.
MCSymmetry == Permutations({d1, d2})
=============================================================================
