------------------------------ MODULE MCReturns ------------------------------
(***************************************************************************)
(* Returns on a small instance: a line of a shipment and one of a receipt, *)
(* a unit of the same item in stock and one in quarantine from before      *)
(* lineage.  Customer goods in quarantine may go back to the supplier.     *)
(***************************************************************************)
EXTENDS Returns, TLC

CONSTANTS sold, bought, r1, r2, a1, a2, p1, p2, p3, widget, main, w1

MCSourceDocument == [l \in SourceLines |-> l]
MCReturnType == [l \in SourceLines |-> IF l = sold THEN "customer_return" ELSE "supplier_return"]
MCSourceItem == [l \in SourceLines |-> widget]
MCKeyItem == [b \in BalanceKeys |-> widget]
MCKeyWarehouse == [b \in BalanceKeys |-> main]
MCOpening == [b \in BalanceKeys |-> 1]

\* Identifiers of a kind are interchangeable: the first is used first.
InOrder ==
  /\ request[r1] = NoRequest => request[r2] = NoRequest
  /\ authorization[a1] = NoAuthorization => authorization[a2] = NoAuthorization
  /\ posting[p1] = NoPosting => posting[p2] = NoPosting
  /\ posting[p2] = NoPosting => posting[p3] = NoPosting

\* Two postings for a unit of each line, or three for two units of the
\* shipment and none of the receipt; there no authorization expires.
InBounds ==
  /\ InOrder
  /\ \/ (\A l \in SourceLines : source[l].quantity = 1) /\ posting[p3] = NoPosting
     \/ /\ source[sold].quantity = 2 /\ source[bought].quantity = 1
        /\ request[r1].quantity[bought] = 0 /\ request[r2] = NoRequest
        /\ \A a \in ReturnAuthorizations : authorization[a].deadline = "none"
=============================================================================
