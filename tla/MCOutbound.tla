------------------------------ MODULE MCOutbound ------------------------------
(***************************************************************************)
(* Outbound on a small instance: one order with two lines of one item, and *)
(* one line of a second order, compete for the stock of two places.        *)
(***************************************************************************)
EXTENDS Outbound, TLC

CONSTANTS o1, o2, x1, x2, y1, widget, w1, w2, main, r1, r2, s1, s2

MCSalesOrderOf == [l \in SalesLines |-> IF l = y1 THEN o2 ELSE o1]
MCSalesLineItem == [l \in SalesLines |-> widget]
MCKeyItem == w1 :> widget @@ w2 :> widget
MCKeyWarehouse == [b \in BalanceKeys |-> main]
MCOpeningStock == w1 :> 2 @@ w2 :> 1

\* Reservation and shipment identifiers are interchangeable.
MCSymmetry == Permutations(Reservations) \cup Permutations({s1, s2})
=============================================================================
