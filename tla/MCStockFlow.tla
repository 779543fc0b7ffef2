----------------------------- MODULE MCStockFlow -----------------------------
(***************************************************************************)
(* Goods are sold from a shelf of two places while they are received,      *)
(* while they are moved, counted and adjusted, or while they are returned: *)
(* each of the three meets the sales in a scenario of its own.             *)
(***************************************************************************)
EXTENDS StockFlow, TLC

CONSTANTS p1, l1, d1, d2, o1, x1, r1, s1, t1, a1, c1,
          sold, bought, q1, g1, g2, h1, h2, widget, w1, w2, main

MCKeyItem == [b \in BalanceKeys |-> widget]
MCKeyWarehouse == [b \in BalanceKeys |-> main]
MCOpeningStock == w1 :> 1 @@ w2 :> 0
MCOpeningQuarantine == [b \in BalanceKeys |-> 0]

MCPoOf == l1 :> p1
MCPoLineItem == l1 :> widget
MCOrdered == l1 :> 2
MCImported == l1 :> 0

MCSalesOrderOf == x1 :> o1
MCSalesLineItem == x1 :> widget

MCSourceDocument == [l \in SourceLines |-> l]
MCReturnType == sold :> "customer_return" @@ bought :> "supplier_return"
MCSourceItem == [l \in SourceLines |-> widget]

-----------------------------------------------------------------------------
VARIABLE scenario  \* the side that works beside the sales

MCInit == FlowInit /\ scenario \in {"receiving", "operations", "returns"}

MCNext ==
  /\ \/ OutboundStep
     \/ scenario = "receiving" /\ ReceivingStep
     \/ scenario = "operations" /\ OperationsStep
     \/ scenario = "returns" /\ ReturnsStep
  /\ RememberWrites
  /\ UNCHANGED scenario

MCSpec == MCInit /\ [][MCNext]_<<flowVars, scenario>>

\* Identifiers of a kind are interchangeable: the first is used first.
InOrder ==
  /\ receivingDocument[d1] = NoDocument => receivingDocument[d2] = NoDocument
  /\ authorization[g1] = NoAuthorization => authorization[g2] = NoAuthorization
  /\ posting[h1] = NoPosting => posting[h2] = NoPosting

\* A transfer and a count meet each other and the sales, an adjustment the
\* sales alone.
SmallOperations ==
  \/ adjustment[a1] = NoOperation
  \/ transfer[t1] = NoOperation /\ count[c1] = NoCount

\* What was shipped and received before stands, and goes back to one place.
SmallReturns ==
  /\ \A l \in SourceLines : source[l] = [quantity |-> 1, posted |-> TRUE]
  /\ \A p \in ReturnPostings : \A l \in DOMAIN posting[p].key : posting[p].key[l] = w1

\* Two reservations meet in the run of Outbound; here one meets the others,
\* beside operations for one unit.
InBounds ==
  /\ InOrder
  /\ scenario # "operations" \/ salesLine[x1].ordered <= 1
  /\ SmallOperations
  /\ SmallReturns
=============================================================================
