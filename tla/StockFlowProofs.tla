--------------------------- MODULE StockFlowProofs ---------------------------
(***************************************************************************)
(* Theorems about Receiving, about Outbound, and about StockFlow, where    *)
(* everyone writes the same stock: for every set of orders, lines,         *)
(* documents, reservations, shipments and balance keys and every ordered,  *)
(* imported and opening quantity.  Those about Returns are in              *)
(* ReturnsProofs.                                                          *)
(***************************************************************************)
EXTENDS StockFlow, QuantityLemmas

-----------------------------------------------------------------------------
\* Receiving

allVars == <<stockVars, receivingVars>>

(***************************************************************************)
(* A document that exists belongs to an order and lists lines of it only.  *)
(***************************************************************************)
DocumentsBelongToOrders ==
  \A d \in ReceivingDocuments :
    receivingDocument[d].postingStatus # "none" =>
      /\ receivingDocument[d].po \in PurchaseOrders
      /\ \A n \in DOMAIN receivingDocument[d].lines :
           PoOf[receivingDocument[d].lines[n].poLine] = receivingDocument[d].po

\* Before its approval an order has received nothing.
UnapprovedOrdersAreEmpty ==
  \A p \in PurchaseOrders :
    purchaseOrder[p].status \in {"pending_approval", "rejected", "draft"} =>
      /\ purchaseOrder[p].base = "none"
      /\ \A l \in LinesOf(p) : received[l] = 0

\* What holds of orders and documents, whoever else writes stock.
OrdersInv ==
  /\ ReceivingTypeOK
  /\ DocumentsBelongToOrders
  /\ UnapprovedOrdersAreEmpty
  /\ ReceivedMatchesDocuments
  /\ NeverOverReceived
  /\ NothingReceivedUnapproved
  /\ OrderStatusMatchesReceipts

\* What holds of stock that only receiving writes.
ReceiptStockInv == StockMatchesReceipts /\ OnHandMatchesMovements /\ StockNeverOversold

ReceivingInv == OrdersInv /\ ReceiptStockInv

-----------------------------------------------------------------------------
\* What the lines of a document add up to

\* A document has finitely many lines.
LEMMA LinesDomain ==
  ASSUME NEW lines \in Seq(DraftLine)
  PROVE  /\ IsFiniteSet(DOMAIN lines)
         /\ \A n \in DOMAIN lines : lines[n] \in DraftLine
<1>1. DOMAIN lines = 1..Len(lines) /\ Len(lines) \in Nat
  OBVIOUS
<1>2. IsFiniteSet(1..Len(lines))
  BY <1>1, FS_Interval, 1 \in Int, Len(lines) \in Int
<1>3. QED
  BY <1>1, <1>2

\* What lines accept, for an order line or into a balance, is a natural number.
LEMMA AcceptedNat ==
  ASSUME NEW lines \in Seq(DraftLine)
  PROVE  /\ \A l : AcceptedOnLine(lines, l) \in Nat
         /\ \A b : AcceptedInto(lines, b) \in Nat
         /\ \A b : LinesInto(lines, b) \in Nat
<1>1. ASSUME NEW l PROVE AcceptedOnLine(lines, l) \in Nat
  <2> DEFINE q == [n \in DOMAIN lines |-> IF lines[n].poLine = l THEN lines[n].accepted ELSE 0]
  <2>1. q \in [DOMAIN lines -> Nat]
    BY LinesDomain DEF DraftLine
  <2> HIDE DEF q
  <2>2. Total(q) \in Nat
    BY <2>1, LinesDomain, TotalNat
  <2>3. QED
    BY <2>2 DEF AcceptedOnLine, q
<1>2. ASSUME NEW b PROVE AcceptedInto(lines, b) \in Nat
  <2> DEFINE q == [n \in DOMAIN lines |-> IF lines[n].key = b THEN lines[n].accepted ELSE 0]
  <2>1. q \in [DOMAIN lines -> Nat]
    BY LinesDomain DEF DraftLine
  <2> HIDE DEF q
  <2>2. Total(q) \in Nat
    BY <2>1, LinesDomain, TotalNat
  <2>3. QED
    BY <2>2 DEF AcceptedInto, q
<1>3. ASSUME NEW b PROVE LinesInto(lines, b) \in Nat
  <2> DEFINE ns == {n \in DOMAIN lines : lines[n].key = b}
  <2>1. ns \in SUBSET (DOMAIN lines)
    OBVIOUS
  <2> HIDE DEF ns
  <2>2. Cardinality(ns) \in Nat
    BY <2>1, LinesDomain, FS_Subset, FS_CardinalityType
  <2>3. QED
    BY <2>2 DEF LinesInto, ns
<1>4. QED
  BY <1>1, <1>2, <1>3

\* An order line or a key that no document line names is left alone.
LEMMA AcceptedElsewhere ==
  ASSUME NEW lines \in Seq(DraftLine)
  PROVE  /\ \A l : (\A n \in DOMAIN lines : lines[n].poLine # l) => AcceptedOnLine(lines, l) = 0
         /\ \A b : (\A n \in DOMAIN lines : lines[n].key # b) => AcceptedInto(lines, b) = 0
<1>1. ASSUME NEW l, \A n \in DOMAIN lines : lines[n].poLine # l
      PROVE  AcceptedOnLine(lines, l) = 0
  <2> DEFINE q == [n \in DOMAIN lines |-> IF lines[n].poLine = l THEN lines[n].accepted ELSE 0]
  <2>1. q \in [DOMAIN lines -> Nat] /\ \A n \in DOMAIN lines : q[n] = 0
    BY <1>1, LinesDomain DEF DraftLine
  <2> HIDE DEF q
  <2>2. Total(q) = 0
    BY <2>1, TotalZero
  <2>3. QED
    BY <2>2 DEF AcceptedOnLine, q
<1>2. ASSUME NEW b, \A n \in DOMAIN lines : lines[n].key # b
      PROVE  AcceptedInto(lines, b) = 0
  <2> DEFINE q == [n \in DOMAIN lines |-> IF lines[n].key = b THEN lines[n].accepted ELSE 0]
  <2>1. q \in [DOMAIN lines -> Nat] /\ \A n \in DOMAIN lines : q[n] = 0
    BY <1>2, LinesDomain DEF DraftLine
  <2> HIDE DEF q
  <2>2. Total(q) = 0
    BY <2>1, TotalZero
  <2>3. QED
    BY <2>2 DEF AcceptedInto, q
<1>3. QED
  BY <1>1, <1>2

\* An order line that a document line names receives something.
LEMMA AcceptedPositive ==
  ASSUME NEW lines \in Seq(DraftLine), NEW n \in DOMAIN lines
  PROVE  AcceptedOnLine(lines, lines[n].poLine) > 0
<1> DEFINE l == lines[n].poLine
           q == [m \in DOMAIN lines |-> IF lines[m].poLine = l THEN lines[m].accepted ELSE 0]
<1>1. q \in [DOMAIN lines -> Nat] /\ q[n] \in Nat \ {0}
  BY LinesDomain DEF DraftLine
<1>2. Total(q) = AcceptedOnLine(lines, l)
  BY DEF AcceptedOnLine
<1> HIDE DEF q
<1>3. q[n] <= Total(q) /\ Total(q) \in Nat
  BY <1>1, LinesDomain, TotalBound, TotalNat
<1>4. QED
  BY <1>1, <1>2, <1>3

-----------------------------------------------------------------------------
\* What receiving does to the stock

\* Receiving adds what is accepted to on hand, available and the ledger alike.
LEMMA ReceiveStockEffect ==
  ASSUME StockTypeOK, NEW lines \in Seq(DraftLine), ReceiveIntoStock(lines)
  PROVE  /\ StockTypeOK'
         /\ \A b \in BalanceKeys :
              /\ balance'[b].onHand = balance[b].onHand + AcceptedInto(lines, b)
              /\ balance'[b].available = balance[b].available + AcceptedInto(lines, b)
              /\ balance'[b].reserved = balance[b].reserved
              /\ CalculateMovementBalance(b)' = CalculateMovementBalance(b) + AcceptedInto(lines, b)
<1>1. ASSUME NEW b \in BalanceKeys
      PROVE  /\ balance'[b] \in BalanceRow
             /\ movement'[b] \in MovementSums
             /\ balance'[b].onHand = balance[b].onHand + AcceptedInto(lines, b)
             /\ balance'[b].available = balance[b].available + AcceptedInto(lines, b)
             /\ balance'[b].reserved = balance[b].reserved
             /\ CalculateMovementBalance(b)' = CalculateMovementBalance(b) + AcceptedInto(lines, b)
  <2> DEFINE k == AcceptedInto(lines, b)
             n == LinesInto(lines, b)
  <2>1. k \in Nat /\ n \in Nat
    BY AcceptedNat
  <2>2. /\ balance'[b] = [balance[b] EXCEPT !.onHand = @ + k, !.available = @ + k, !.version = @ + n]
        /\ movement'[b] = [movement[b] EXCEPT !.quantityIn = @ + k]
    BY DEF ReceiveIntoStock
  <2> HIDE DEF k, n
  <2>3. balance[b] \in BalanceRow /\ movement[b] \in MovementSums
    BY DEF StockTypeOK
  <2>4. /\ balance'[b] \in BalanceRow
        /\ balance'[b].onHand = balance[b].onHand + k
        /\ balance'[b].available = balance[b].available + k
        /\ balance'[b].reserved = balance[b].reserved
    <3>1. balance'[b] = [onHand |-> balance[b].onHand + k, reserved |-> balance[b].reserved,
                         available |-> balance[b].available + k, version |-> balance[b].version + n]
      BY <2>2, <2>3 DEF BalanceRow
    <3>2. /\ balance[b].onHand + k \in Int /\ balance[b].reserved \in Int
          /\ balance[b].available + k \in Int /\ balance[b].version + n \in Nat
      BY <2>1, <2>3 DEF BalanceRow
    <3>3. QED
      BY <3>1, <3>2 DEF BalanceRow
  <2>5. /\ movement'[b] \in MovementSums
        /\ CalculateMovementBalance(b)' = CalculateMovementBalance(b) + k
    BY <2>1, <2>2, <2>3 DEF MovementSums, CalculateMovementBalance
  <2>6. QED
    BY <2>4, <2>5 DEF k
<1>2. StockTypeOK'
  <2>1. balance' = [b \in BalanceKeys |-> balance'[b]] /\ movement' = [b \in BalanceKeys |-> movement'[b]]
    BY DEF ReceiveIntoStock
  <2>2. QED
    BY <1>1, <2>1 DEF StockTypeOK
<1>3. QED
  BY <1>1, <1>2

\* Taking back removes what was accepted from on hand, available and the ledger alike.
LEMMA TakeStockEffect ==
  ASSUME StockTypeOK, NEW lines \in Seq(DraftLine), TakeFromStock(lines)
  PROVE  /\ StockTypeOK'
         /\ \A b \in BalanceKeys :
              /\ balance'[b].onHand = balance[b].onHand - AcceptedInto(lines, b)
              /\ balance'[b].available = balance[b].available - AcceptedInto(lines, b)
              /\ balance'[b].reserved = balance[b].reserved
              /\ CalculateMovementBalance(b)' = CalculateMovementBalance(b) - AcceptedInto(lines, b)
<1>1. ASSUME NEW b \in BalanceKeys
      PROVE  /\ balance'[b] \in BalanceRow
             /\ movement'[b] \in MovementSums
             /\ balance'[b].onHand = balance[b].onHand - AcceptedInto(lines, b)
             /\ balance'[b].available = balance[b].available - AcceptedInto(lines, b)
             /\ balance'[b].reserved = balance[b].reserved
             /\ CalculateMovementBalance(b)' = CalculateMovementBalance(b) - AcceptedInto(lines, b)
  <2> DEFINE k == AcceptedInto(lines, b)
             n == LinesInto(lines, b)
  <2>1. k \in Nat /\ n \in Nat
    BY AcceptedNat
  <2>2. /\ balance'[b] = [balance[b] EXCEPT !.onHand = @ - k, !.available = @ - k, !.version = @ + n]
        /\ movement'[b] = [movement[b] EXCEPT !.quantityOut = @ + k]
    BY DEF TakeFromStock
  <2> HIDE DEF k, n
  <2>3. balance[b] \in BalanceRow /\ movement[b] \in MovementSums
    BY DEF StockTypeOK
  <2>4. /\ balance'[b] \in BalanceRow
        /\ balance'[b].onHand = balance[b].onHand - k
        /\ balance'[b].available = balance[b].available - k
        /\ balance'[b].reserved = balance[b].reserved
    <3>1. balance'[b] = [onHand |-> balance[b].onHand - k, reserved |-> balance[b].reserved,
                         available |-> balance[b].available - k, version |-> balance[b].version + n]
      BY <2>2, <2>3 DEF BalanceRow
    <3>2. /\ balance[b].onHand - k \in Int /\ balance[b].reserved \in Int
          /\ balance[b].available - k \in Int /\ balance[b].version + n \in Nat
      BY <2>1, <2>3 DEF BalanceRow
    <3>3. QED
      BY <3>1, <3>2 DEF BalanceRow
  <2>5. /\ movement'[b] \in MovementSums
        /\ CalculateMovementBalance(b)' = CalculateMovementBalance(b) - k
    BY <2>1, <2>2, <2>3 DEF MovementSums, CalculateMovementBalance
  <2>6. QED
    BY <2>4, <2>5 DEF k
<1>2. StockTypeOK'
  <2>1. balance' = [b \in BalanceKeys |-> balance'[b]] /\ movement' = [b \in BalanceKeys |-> movement'[b]]
    BY DEF TakeFromStock
  <2>2. QED
    BY <1>1, <2>1 DEF StockTypeOK
<1>3. QED
  BY <1>1, <1>2

-----------------------------------------------------------------------------
\* What the posted documents add up to

\* What posted documents accept, for an order line or into a balance, is a natural number.
LEMMA PostedNat ==
  ASSUME ReceivingTypeOK
  PROVE  /\ \A l : PostedOnLine(l) \in [ReceivingDocuments -> Nat]
         /\ \A b : PostedInto(b) \in [ReceivingDocuments -> Nat]
         /\ \A l : Total(PostedOnLine(l)) \in Nat
         /\ \A b : Total(PostedInto(b)) \in Nat
<1>1. \A d \in ReceivingDocuments : receivingDocument[d].lines \in Seq(DraftLine)
  BY DEF ReceivingTypeOK, DocumentRow
<1>2. ASSUME NEW l PROVE PostedOnLine(l) \in [ReceivingDocuments -> Nat]
  BY <1>1, AcceptedNat DEF PostedOnLine
<1>3. ASSUME NEW b PROVE PostedInto(b) \in [ReceivingDocuments -> Nat]
  BY <1>1, AcceptedNat DEF PostedInto
<1>4. QED
  BY <1>2, <1>3, TotalNat, ReceivingAssumption

(***************************************************************************)
(* A step that changes only the status of document d, into or out of       *)
(* posted, changes each total by what the document accepted.               *)
(***************************************************************************)
LEMMA PostedChange ==
  ASSUME ReceivingTypeOK, NEW d \in ReceivingDocuments, NEW status \in {"posted", "reversed"},
         receivingDocument' = [receivingDocument EXCEPT ![d].postingStatus = status]
  PROVE  LET lines  == receivingDocument[d].lines
             before == receivingDocument[d].postingStatus
         IN  /\ \A l : Total(PostedOnLine(l)') =
                  Total(PostedOnLine(l))
                  - (IF before = "posted" THEN AcceptedOnLine(lines, l) ELSE 0)
                  + (IF status = "posted" THEN AcceptedOnLine(lines, l) ELSE 0)
             /\ \A b : Total(PostedInto(b)') =
                  Total(PostedInto(b))
                  - (IF before = "posted" THEN AcceptedInto(lines, b) ELSE 0)
                  + (IF status = "posted" THEN AcceptedInto(lines, b) ELSE 0)
<1> DEFINE lines == receivingDocument[d].lines
<1>1. lines \in Seq(DraftLine)
  BY DEF ReceivingTypeOK, DocumentRow
<1>2. /\ receivingDocument' \in [ReceivingDocuments -> DocumentRow]
      /\ receivingDocument'[d].lines = lines
      /\ receivingDocument'[d].postingStatus = status
      /\ \A e \in ReceivingDocuments \ {d} : receivingDocument'[e] = receivingDocument[e]
  BY DEF ReceivingTypeOK, DocumentRow
<1>3. \A e \in ReceivingDocuments : receivingDocument'[e].lines \in Seq(DraftLine)
  BY <1>2 DEF DocumentRow
<1>4. ASSUME NEW l
      PROVE  /\ Total(PostedOnLine(l)') \in Nat
             /\ Total(PostedOnLine(l)') = Total(PostedOnLine(l)) - PostedOnLine(l)[d] + PostedOnLine(l)'[d]
  <2>1. PostedOnLine(l) \in [ReceivingDocuments -> Nat]
    BY PostedNat
  <2>2. PostedOnLine(l)' \in [ReceivingDocuments -> Nat]
    BY <1>3, AcceptedNat DEF PostedOnLine
  <2>3. \A e \in ReceivingDocuments \ {d} : PostedOnLine(l)'[e] = PostedOnLine(l)[e]
    BY <1>2 DEF PostedOnLine
  <2>4. QED
    BY <2>1, <2>2, <2>3, TotalChange, TotalNat, ReceivingAssumption
<1>5. ASSUME NEW b
      PROVE  /\ Total(PostedInto(b)') \in Nat
             /\ Total(PostedInto(b)') = Total(PostedInto(b)) - PostedInto(b)[d] + PostedInto(b)'[d]
  <2>1. PostedInto(b) \in [ReceivingDocuments -> Nat]
    BY PostedNat
  <2>2. PostedInto(b)' \in [ReceivingDocuments -> Nat]
    BY <1>3, AcceptedNat DEF PostedInto
  <2>3. \A e \in ReceivingDocuments \ {d} : PostedInto(b)'[e] = PostedInto(b)[e]
    BY <1>2 DEF PostedInto
  <2>4. QED
    BY <2>1, <2>2, <2>3, TotalChange, TotalNat, ReceivingAssumption
<1>6. ASSUME NEW l
      PROVE  /\ PostedOnLine(l)[d] = IF receivingDocument[d].postingStatus = "posted"
                                     THEN AcceptedOnLine(lines, l) ELSE 0
             /\ PostedOnLine(l)'[d] = IF status = "posted" THEN AcceptedOnLine(lines, l) ELSE 0
  BY <1>2 DEF PostedOnLine
<1>7. ASSUME NEW b
      PROVE  /\ PostedInto(b)[d] = IF receivingDocument[d].postingStatus = "posted"
                                   THEN AcceptedInto(lines, b) ELSE 0
             /\ PostedInto(b)'[d] = IF status = "posted" THEN AcceptedInto(lines, b) ELSE 0
  BY <1>2 DEF PostedInto
<1> HIDE DEF lines
<1>8. QED
  BY <1>4, <1>5, <1>6, <1>7, Zenon DEF lines

-----------------------------------------------------------------------------
\* The invariant is inductive

\* The invariant holds before any command.
LEMMA InitInv == ReceivingInit => ReceivingInv
<1> SUFFICES ASSUME ReceivingInit PROVE ReceivingInv
  OBVIOUS
<1>0. StockInit
  BY DEF ReceivingInit
<1> USE StockAssumption, ReceivingAssumption
<1>1. ReceivingTypeOK
  <2>1. balance \in [BalanceKeys -> BalanceRow] /\ movement \in [BalanceKeys -> MovementSums]
    BY <1>0 DEF StockInit, BalanceRow, MovementSums
  <2>2. NoDocument \in DocumentRow
    BY DEF NoDocument, DocumentRow
  <2>3. QED
    BY <2>1, <2>2 DEF ReceivingInit, ReceivingTypeOK, StockTypeOK, PoStatuses, BaseStatuses, ReceivablePoStatuses
<1>2. /\ \A l : Total(PostedOnLine(l)) = 0
      /\ \A b : Total(PostedInto(b)) = 0
  <2>1. \A l : PostedOnLine(l) \in [ReceivingDocuments -> Nat]
               /\ \A d \in ReceivingDocuments : PostedOnLine(l)[d] = 0
    BY DEF ReceivingInit, NoDocument, PostedOnLine
  <2>2. \A b : PostedInto(b) \in [ReceivingDocuments -> Nat]
               /\ \A d \in ReceivingDocuments : PostedInto(b)[d] = 0
    BY DEF ReceivingInit, NoDocument, PostedInto
  <2>3. QED
    BY <2>1, <2>2, TotalZero
<1>3. DocumentsBelongToOrders /\ NothingReceivedUnapproved
  BY DEF ReceivingInit, NoDocument, DocumentsBelongToOrders, NothingReceivedUnapproved
<1>4. ReceivedMatchesDocuments /\ NeverOverReceived
  BY <1>2 DEF ReceivingInit, ReceivedMatchesDocuments, NeverOverReceived
<1>5. StockMatchesReceipts /\ OnHandMatchesMovements /\ StockNeverOversold
  BY <1>0, <1>2 DEF StockInit, StockMatchesReceipts, OnHandMatchesMovements, CalculateMovementBalance,
              StockNeverOversold, Reconciles
<1>6. OrderStatusMatchesReceipts
  BY DEF ReceivingInit, OrderStatusMatchesReceipts
<1>7. UnapprovedOrdersAreEmpty
  <2> SUFFICES ASSUME NEW p \in PurchaseOrders,
                      purchaseOrder[p].status \in {"pending_approval", "rejected", "draft"}
               PROVE  purchaseOrder[p].base = "none" /\ \A l \in LinesOf(p) : received[l] = 0
    BY DEF UnapprovedOrdersAreEmpty
  <2>1. purchaseOrder[p].status = "pending_approval" /\ purchaseOrder[p].base = "none"
    BY DEF ReceivingInit, ReceivablePoStatuses
  <2>2. ASSUME NEW l \in LinesOf(p) PROVE received[l] = 0
    BY <2>1 DEF ReceivingInit, LinesOf
  <2>3. QED
    BY <2>1, <2>2
<1>8. QED
  BY <1>1, <1>3, <1>4, <1>5, <1>6, <1>7 DEF ReceivingInv, OrdersInv, ReceiptStockInv

(***************************************************************************)
(* Drafts: neither a quantity nor an order changes, and the document       *)
(* stays unposted.                                                         *)
(***************************************************************************)
LEMMA DraftStep ==
  ASSUME OrdersInv, NEW d \in ReceivingDocuments, NEW row \in DocumentRow,
         receivingDocument' = [receivingDocument EXCEPT ![d] = row],
         receivingDocument[d].postingStatus \in {"none", "unposted"},
         row.postingStatus = "unposted",
         row.po \in PurchaseOrders,
         \A n \in DOMAIN row.lines : PoOf[row.lines[n].poLine] = row.po,
         UNCHANGED <<purchaseOrder, received, stockVars>>
  PROVE  OrdersInv' /\ (ReceiptStockInv => ReceiptStockInv')
<1> USE DEF OrdersInv
<1>1. ReceivingTypeOK'
  BY DEF ReceivingTypeOK, StockTypeOK, stockVars
<1>2. \A l : PostedOnLine(l)' = PostedOnLine(l)
  BY DEF PostedOnLine, ReceivingTypeOK
<1>3. \A b : PostedInto(b)' = PostedInto(b)
  BY DEF PostedInto, ReceivingTypeOK
<1>4. ReceivedMatchesDocuments' /\ NeverOverReceived'
  BY <1>2 DEF ReceivedMatchesDocuments, NeverOverReceived
<1>5. ReceiptStockInv => ReceiptStockInv'
  BY <1>3 DEF ReceiptStockInv, StockMatchesReceipts, OnHandMatchesMovements, CalculateMovementBalance,
              StockNeverOversold, Reconciles, stockVars
<1>6. DocumentsBelongToOrders'
  BY DEF DocumentsBelongToOrders, ReceivingTypeOK
<1>7. NothingReceivedUnapproved'
  BY DEF NothingReceivedUnapproved, ReceivingTypeOK
<1>8. OrderStatusMatchesReceipts'
  BY DEF OrderStatusMatchesReceipts
<1>9. UnapprovedOrdersAreEmpty'
  BY DEF UnapprovedOrdersAreEmpty
<1>10. QED
  BY <1>1, <1>4, <1>5, <1>6, <1>7, <1>8, <1>9

\* The lines a draft may have.
LEMMA DraftsAreLines ==
  ASSUME ReceivingTypeOK, NEW p, NEW lines \in DraftsFor(p)
  PROVE  /\ lines \in Seq(DraftLine)
         /\ \A n \in DOMAIN lines : PoOf[lines[n].poLine] = p
<1>1. PICK n \in 1..MaxReceivingLines : lines \in [1..n -> DraftLinesFor(p)]
  BY DEF DraftsFor
<1>2. \A x \in DraftLinesFor(p) : x \in DraftLine /\ PoOf[x.poLine] = p
  <2> SUFFICES ASSUME NEW x \in DraftLinesFor(p) PROVE x \in DraftLine /\ PoOf[x.poLine] = p
    OBVIOUS
  <2>1. PICK l \in LinesOf(p) :
          x \in [poLine : {l}, key : {b \in BalanceKeys : KeyItem[b] = PoLineItem[l]},
                 accepted : 1..(Ordered[l] - received[l])]
    BY DEF DraftLinesFor
  <2>2. l \in PoLines /\ PoOf[l] = p /\ x.poLine = l
    BY <2>1 DEF LinesOf
  <2>3. Ordered[l] \in Nat /\ received[l] \in Nat
    BY <2>2, ReceivingAssumption DEF ReceivingTypeOK
  <2>4. QED
    BY <2>1, <2>2, <2>3 DEF DraftLine
<1>3. lines \in Seq(DraftLine)
  BY <1>1, <1>2, ReceivingAssumption
<1>4. QED
  BY <1>1, <1>2, <1>3

\* The decision on an order that awaits approval.
LEMMA DecisionStep ==
  ASSUME OrdersInv, NEW p \in PurchaseOrders,
         NEW status \in {"approved", "rejected", "draft"}, NEW base \in BaseStatuses,
         \/ status = "approved" /\ base = "approved"
         \/ status # "approved" /\ base = purchaseOrder[p].base,
         DecidePurchaseOrder(p, status, base)
  PROVE  OrdersInv' /\ (ReceiptStockInv => ReceiptStockInv')
<1> USE DEF OrdersInv, DecidePurchaseOrder
<1>1. ReceivingTypeOK'
  BY DEF ReceivingTypeOK, StockTypeOK, stockVars, PoStatuses, BaseStatuses, ReceivablePoStatuses
<1>2. \A l : PostedOnLine(l)' = PostedOnLine(l)
  BY DEF PostedOnLine
<1>3. \A b : PostedInto(b)' = PostedInto(b)
  BY DEF PostedInto
<1>4. ReceivedMatchesDocuments' /\ NeverOverReceived'
  BY <1>2 DEF ReceivedMatchesDocuments, NeverOverReceived
<1>5. ReceiptStockInv => ReceiptStockInv'
  BY <1>3 DEF ReceiptStockInv, StockMatchesReceipts, OnHandMatchesMovements, CalculateMovementBalance,
              StockNeverOversold, Reconciles, stockVars
<1>6. DocumentsBelongToOrders'
  BY DEF DocumentsBelongToOrders
<1>7. NothingReceivedUnapproved'
  BY DEF NothingReceivedUnapproved, ReceivingTypeOK
<1>8. UnapprovedOrdersAreEmpty'
  BY DEF UnapprovedOrdersAreEmpty, ReceivingTypeOK
<1>9. OrderStatusMatchesReceipts'
  <2> SUFFICES ASSUME NEW q \in PurchaseOrders, purchaseOrder'[q].base # "none"
               PROVE  LET all  == LinesOf(q) # {} /\ \A l \in LinesOf(q) : received[l] = Ordered[l]
                          some == \E l \in LinesOf(q) : received[l] > 0
                          po   == purchaseOrder'[q]
                      IN  /\ all => po.status = "fully_received"
                          /\ some /\ ~all => po.status = "partially_received"
                          /\ ~some => po.status = po.base
    BY DEF OrderStatusMatchesReceipts
  <2>1. CASE q # p
    BY <2>1 DEF OrderStatusMatchesReceipts, ReceivingTypeOK
  <2>2. CASE q = p
    <3>1. purchaseOrder[p].base = "none" /\ \A l \in LinesOf(p) : received[l] = 0
      BY DEF UnapprovedOrdersAreEmpty
    <3>2. purchaseOrder'[p] = [status |-> "approved", base |-> "approved"]
      BY <2>2, <3>1 DEF ReceivingTypeOK
    <3>3. \A l \in LinesOf(p) : Ordered[l] > 0
      BY ReceivingAssumption DEF LinesOf
    <3>4. QED
      BY <2>2, <3>1, <3>2, <3>3
  <2>3. QED
    BY <2>1, <2>2
<1>10. QED
  BY <1>1, <1>4, <1>5, <1>6, <1>7, <1>8, <1>9

(***************************************************************************)
(* The posting of document d: the received quantities and the stock grow   *)
(* by what it accepts, within what was ordered.                            *)
(***************************************************************************)
LEMMA PostStep ==
  ASSUME OrdersInv, NEW d \in ReceivingDocuments, PostReceiving(d)
  PROVE  OrdersInv' /\ (ReceiptStockInv => ReceiptStockInv')
<1> DEFINE doc == receivingDocument[d]
           p   == doc.po
           got == [l \in PoLines |-> received[l] + AcceptedOnLine(doc.lines, l)]
<1> USE DEF OrdersInv
<1>1. /\ doc.postingStatus = "unposted"
      /\ doc.lines \in Seq(DraftLine)
      /\ p \in PurchaseOrders
      /\ purchaseOrder[p].status \in ReceivablePoStatuses
      /\ \A n \in DOMAIN doc.lines : doc.lines[n] \in DraftLine /\ PoOf[doc.lines[n].poLine] = p
  BY LinesDomain DEF PostReceiving, PostingPlanAllows, ReceivingTypeOK, DocumentRow, DocumentsBelongToOrders
<1>2. /\ \A l : AcceptedOnLine(doc.lines, l) \in Nat
      /\ \A b : AcceptedInto(doc.lines, b) \in Nat
      /\ \A b : LinesInto(doc.lines, b) \in Nat
  BY <1>1, AcceptedNat
<1>3. \A l \in PoLines : got[l] \in Nat /\ got[l] <= Ordered[l]
  <2> SUFFICES ASSUME NEW l \in PoLines PROVE got[l] \in Nat /\ got[l] <= Ordered[l]
    OBVIOUS
  <2>1. received[l] \in Nat /\ received[l] <= Ordered[l] /\ Ordered[l] \in Nat
    BY ReceivingAssumption DEF ReceivingTypeOK, NeverOverReceived
  <2>2. CASE \E n \in DOMAIN doc.lines : doc.lines[n].poLine = l
    <3>1. received[l] + AcceptedOnLine(doc.lines, l) <= Ordered[l]
      BY <2>2 DEF PostReceiving, PostingPlanAllows
    <3>2. AcceptedOnLine(doc.lines, l) \in Nat
      BY <1>2
    <3> HIDE DEF doc
    <3>3. QED
      BY <2>1, <3>1, <3>2
  <2>3. CASE \A n \in DOMAIN doc.lines : doc.lines[n].poLine # l
    BY <2>1, <2>3, <1>1, AcceptedElsewhere
  <2>4. QED
    BY <2>2, <2>3
<1>4. \A l \in PoLines : PoOf[l] # p => got[l] = received[l]
  <2> SUFFICES ASSUME NEW l \in PoLines, PoOf[l] # p PROVE AcceptedOnLine(doc.lines, l) = 0
    BY <1>2 DEF ReceivingTypeOK
  <2>1. QED
    BY <1>1, AcceptedElsewhere
<1>5. /\ received' = got
      /\ receivingDocument' = [receivingDocument EXCEPT ![d].postingStatus = "posted"]
      /\ purchaseOrder'[p].status = PoStatus(p, got)
      /\ purchaseOrder'[p].base = IF purchaseOrder[p].base = "none"
                                  THEN purchaseOrder[p].status ELSE purchaseOrder[p].base
      /\ \A q \in PurchaseOrders \ {p} : purchaseOrder'[q] = purchaseOrder[q]
  BY <1>1 DEF PostReceiving, ReceivingTypeOK
<1>6. \E l \in LinesOf(p) : got[l] > 0
  <2>1. 1 \in DOMAIN doc.lines
    <3> DEFINE lines == doc.lines
    <3>1. lines # << >> /\ lines \in Seq(DraftLine)
      BY <1>1 DEF PostReceiving, PostingPlanAllows
    <3> HIDE DEF lines
    <3>2. 1 \in DOMAIN lines
      BY <3>1
    <3>3. QED
      BY <3>2 DEF lines
  <2> DEFINE l == doc.lines[1].poLine
  <2>2. l \in LinesOf(p) /\ l \in PoLines
    BY <1>1, <2>1 DEF LinesOf, DraftLine
  <2>3. AcceptedOnLine(doc.lines, l) > 0
    BY <1>1, <2>1, AcceptedPositive
  <2>4. got[l] > 0
    <3>1. received[l] \in Nat /\ got[l] = received[l] + AcceptedOnLine(doc.lines, l)
      BY <2>2 DEF ReceivingTypeOK
    <3>2. AcceptedOnLine(doc.lines, l) \in Nat
      BY <1>2
    <3> HIDE DEF doc, l, got
    <3>3. QED
      BY <2>3, <3>1, <3>2
  <2>5. QED
    BY <2>2, <2>4
<1>7. purchaseOrder'[p].status =
        IF LinesOf(p) # {} /\ \A l \in LinesOf(p) : got[l] >= Ordered[l]
        THEN "fully_received" ELSE "partially_received"
  <2> HIDE DEF got
  <2>1. QED
    BY <1>5, <1>6 DEF PoStatus
<1>8. /\ purchaseOrder'[p].base \in ReceivablePoStatuses
      /\ purchaseOrder' \in [PurchaseOrders -> [status : PoStatuses, base : BaseStatuses]]
  <2> DEFINE base == IF purchaseOrder[p].base = "none"
                     THEN purchaseOrder[p].status ELSE purchaseOrder[p].base
  <2>1. base \in ReceivablePoStatuses
    BY <1>1 DEF ReceivingTypeOK, BaseStatuses
  <2>2. PoStatus(p, got) \in PoStatuses
    BY <1>5, <1>7 DEF PoStatuses, ReceivablePoStatuses
  <2>3. purchaseOrder' = [purchaseOrder EXCEPT ![p] = [status |-> PoStatus(p, got), base |-> base]]
    BY <1>1 DEF PostReceiving, ReceivingTypeOK
  <2> HIDE DEF base, got
  <2>4. QED
    BY <1>1, <2>1, <2>2, <2>3 DEF ReceivingTypeOK, BaseStatuses
<1>9. ReceivingTypeOK'
  <2>1. received' \in [PoLines -> Nat]
    BY <1>3, <1>5
  <2>2. receivingDocument' \in [ReceivingDocuments -> DocumentRow]
    <3>1. [doc EXCEPT !.postingStatus = "posted"] \in DocumentRow
      BY DEF ReceivingTypeOK, DocumentRow
    <3>2. QED
      BY <1>5, <3>1 DEF ReceivingTypeOK
  <2>3. balance' \in [BalanceKeys -> BalanceRow] /\ movement' \in [BalanceKeys -> MovementSums]
    BY <1>1, ReceiveStockEffect DEF PostReceiving, ReceivingTypeOK, StockTypeOK
  <2>4. QED
    BY <1>8, <2>1, <2>2, <2>3 DEF ReceivingTypeOK, StockTypeOK
<1>10. DocumentsBelongToOrders'
  BY <1>1, <1>5 DEF DocumentsBelongToOrders, ReceivingTypeOK
<1>11. /\ \A l : Total(PostedOnLine(l)') = Total(PostedOnLine(l)) + AcceptedOnLine(doc.lines, l)
       /\ \A b : Total(PostedInto(b)') = Total(PostedInto(b)) + AcceptedInto(doc.lines, b)
  <2>1. /\ \A l : Total(PostedOnLine(l)) \in Nat
        /\ \A b : Total(PostedInto(b)) \in Nat
    BY PostedNat
  <2>2. /\ \A l : Total(PostedOnLine(l)') = Total(PostedOnLine(l)) - 0 + AcceptedOnLine(doc.lines, l)
        /\ \A b : Total(PostedInto(b)') = Total(PostedInto(b)) - 0 + AcceptedInto(doc.lines, b)
    BY <1>1, <1>5, PostedChange, "posted" \in {"posted", "reversed"}
  <2>3. QED
    BY <2>1, <2>2, <1>2
<1>12. ReceivedMatchesDocuments' /\ NeverOverReceived'
  <2>1. ASSUME NEW l \in PoLines
        PROVE  received'[l] = Imported[l] + Total(PostedOnLine(l)')
    <3>1. received[l] = Imported[l] + Total(PostedOnLine(l)) /\ Imported[l] \in Nat
      BY ReceivingAssumption DEF ReceivedMatchesDocuments
    <3>2. received'[l] = received[l] + AcceptedOnLine(doc.lines, l)
      BY <1>5
    <3>3. AcceptedOnLine(doc.lines, l) \in Nat /\ Total(PostedOnLine(l)) \in Nat
      BY <1>2, PostedNat
    <3> HIDE DEF doc
    <3>4. QED
      BY <3>1, <3>2, <3>3, <1>11
  <2>2. QED
    BY <2>1, <1>3, <1>5 DEF ReceivedMatchesDocuments, NeverOverReceived
<1>13. ReceiptStockInv => ReceiptStockInv'
  <2> SUFFICES ASSUME ReceiptStockInv, NEW b \in BalanceKeys
               PROVE  /\ balance'[b].onHand = OpeningStock[b] + Total(PostedInto(b)')
                      /\ balance'[b].onHand = CalculateMovementBalance(b)'
                      /\ balance'[b].available = balance'[b].onHand - balance'[b].reserved
                      /\ 0 <= balance'[b].reserved
                      /\ balance'[b].reserved <= balance'[b].onHand
    BY DEF ReceiptStockInv, StockMatchesReceipts, OnHandMatchesMovements, StockNeverOversold, Reconciles
  <2>1. /\ balance'[b].onHand = balance[b].onHand + AcceptedInto(doc.lines, b)
        /\ balance'[b].available = balance[b].available + AcceptedInto(doc.lines, b)
        /\ balance'[b].reserved = balance[b].reserved
        /\ CalculateMovementBalance(b)' = CalculateMovementBalance(b) + AcceptedInto(doc.lines, b)
    BY <1>1, ReceiveStockEffect DEF PostReceiving, ReceivingTypeOK
  <2>2. /\ balance[b].onHand = OpeningStock[b] + Total(PostedInto(b))
        /\ balance[b].onHand = CalculateMovementBalance(b)
        /\ balance[b].available = balance[b].onHand - balance[b].reserved
        /\ 0 <= balance[b].reserved
        /\ balance[b].reserved <= balance[b].onHand
    BY DEF ReceiptStockInv, StockMatchesReceipts, OnHandMatchesMovements, StockNeverOversold, Reconciles
  <2>3. /\ AcceptedInto(doc.lines, b) \in Nat /\ Total(PostedInto(b)) \in Nat
        /\ OpeningStock[b] \in Nat
        /\ balance[b].onHand \in Int /\ balance[b].reserved \in Int /\ balance[b].available \in Int
    BY <1>2, PostedNat, StockAssumption DEF ReceivingTypeOK, StockTypeOK, BalanceRow
  <2> HIDE DEF doc
  <2>4. QED
    BY <2>1, <2>2, <2>3, <1>11
<1>14. NothingReceivedUnapproved'
  <2> SUFFICES ASSUME NEW e \in ReceivingDocuments,
                      receivingDocument'[e].postingStatus \in {"posted", "reversed"}
               PROVE  /\ purchaseOrder'[receivingDocument'[e].po].status
                           \notin {"pending_approval", "rejected", "draft"}
                      /\ purchaseOrder'[receivingDocument'[e].po].base \in ReceivablePoStatuses
    BY DEF NothingReceivedUnapproved
  <2>1. CASE receivingDocument'[e].po = p
    BY <2>1, <1>7, <1>8
  <2>2. CASE receivingDocument'[e].po # p
    <3>1. e # d /\ receivingDocument'[e] = receivingDocument[e]
      BY <2>2, <1>5 DEF ReceivingTypeOK
    <3>2. receivingDocument[e].po \in PurchaseOrders \ {p}
      BY <2>2, <3>1 DEF DocumentsBelongToOrders
    <3>3. QED
      BY <3>1, <3>2, <1>5 DEF NothingReceivedUnapproved
  <2>3. QED
    BY <2>1, <2>2
<1>15. UnapprovedOrdersAreEmpty'
  <2> SUFFICES ASSUME NEW q \in PurchaseOrders,
                      purchaseOrder'[q].status \in {"pending_approval", "rejected", "draft"}
               PROVE  /\ purchaseOrder'[q].base = "none"
                      /\ \A l \in LinesOf(q) : received'[l] = 0
    BY DEF UnapprovedOrdersAreEmpty
  <2>1. q # p
    BY <1>7
  <2>2. purchaseOrder'[q] = purchaseOrder[q]
    BY <2>1, <1>5
  <2>3. \A l \in LinesOf(q) : received'[l] = received[l]
    BY <2>1, <1>4, <1>5 DEF LinesOf
  <2>4. QED
    BY <2>2, <2>3 DEF UnapprovedOrdersAreEmpty
<1>16. OrderStatusMatchesReceipts'
  <2> SUFFICES ASSUME NEW q \in PurchaseOrders, purchaseOrder'[q].base # "none"
               PROVE  LET all  == LinesOf(q) # {} /\ \A l \in LinesOf(q) : received'[l] = Ordered[l]
                          some == \E l \in LinesOf(q) : received'[l] > 0
                          po   == purchaseOrder'[q]
                      IN  /\ all => po.status = "fully_received"
                          /\ some /\ ~all => po.status = "partially_received"
                          /\ ~some => po.status = po.base
    BY DEF OrderStatusMatchesReceipts, LinesOf
  <2>1. CASE q # p
    <3>1. purchaseOrder'[q] = purchaseOrder[q]
      BY <2>1, <1>5
    <3>2. \A l \in LinesOf(q) : received'[l] = received[l]
      BY <2>1, <1>4, <1>5 DEF LinesOf
    <3>3. QED
      BY <3>1, <3>2 DEF OrderStatusMatchesReceipts
  <2>2. CASE q = p
    <3> HIDE DEF got
    <3>1. \A l \in LinesOf(p) : got[l] \in Nat /\ got[l] <= Ordered[l] /\ Ordered[l] \in Nat
      BY <1>3, ReceivingAssumption DEF LinesOf
    <3>2. \A l \in LinesOf(p) : got[l] >= Ordered[l] <=> got[l] = Ordered[l]
      BY <3>1
    <3> HIDE DEF doc
    <3>3. QED
      BY <2>2, <3>2, <1>5, <1>6, <1>7
  <2>3. QED
    BY <2>1, <2>2
<1>17. QED
  BY <1>9, <1>10, <1>12, <1>13, <1>14, <1>15, <1>16

(***************************************************************************)
(* The reversal of document d: what it brought is taken from the order and *)
(* from the stock, which still holds it unreserved.                        *)
(***************************************************************************)
LEMMA ReverseStep ==
  ASSUME OrdersInv, NEW d \in ReceivingDocuments, ReverseReceiving(d)
  PROVE  OrdersInv' /\ (ReceiptStockInv => ReceiptStockInv')
<1> DEFINE doc == receivingDocument[d]
           p   == doc.po
           left == [l \in PoLines |-> received[l] - AcceptedOnLine(doc.lines, l)]
<1> USE DEF OrdersInv
<1>1. /\ doc.postingStatus = "posted"
      /\ doc.lines \in Seq(DraftLine)
      /\ p \in PurchaseOrders
      /\ purchaseOrder[p].base \in ReceivablePoStatuses
      /\ \A n \in DOMAIN doc.lines : doc.lines[n] \in DraftLine /\ PoOf[doc.lines[n].poLine] = p
  BY LinesDomain DEF ReverseReceiving, ReversalPlanAllows, ReceivingTypeOK, DocumentRow,
                     DocumentsBelongToOrders, NothingReceivedUnapproved
<1>2. /\ \A l : AcceptedOnLine(doc.lines, l) \in Nat
      /\ \A b : AcceptedInto(doc.lines, b) \in Nat
      /\ \A b : LinesInto(doc.lines, b) \in Nat
  BY <1>1, AcceptedNat
<1>3. \A l \in PoLines : left[l] \in Nat /\ left[l] <= Ordered[l]
  <2> SUFFICES ASSUME NEW l \in PoLines PROVE left[l] \in Nat /\ left[l] <= Ordered[l]
    OBVIOUS
  <2>1. received[l] \in Nat /\ received[l] <= Ordered[l] /\ Ordered[l] \in Nat
    BY ReceivingAssumption DEF ReceivingTypeOK, NeverOverReceived
  <2>2. CASE \E n \in DOMAIN doc.lines : doc.lines[n].poLine = l
    <3>1. AcceptedOnLine(doc.lines, l) <= received[l]
      BY <2>2 DEF ReverseReceiving, ReversalPlanAllows
    <3>2. AcceptedOnLine(doc.lines, l) \in Nat
      BY <1>2
    <3> HIDE DEF doc
    <3>3. QED
      BY <2>1, <3>1, <3>2
  <2>3. CASE \A n \in DOMAIN doc.lines : doc.lines[n].poLine # l
    BY <2>1, <2>3, <1>1, AcceptedElsewhere
  <2>4. QED
    BY <2>2, <2>3
<1>4. \A l \in PoLines : PoOf[l] # p => left[l] = received[l]
  <2> SUFFICES ASSUME NEW l \in PoLines, PoOf[l] # p PROVE AcceptedOnLine(doc.lines, l) = 0
    BY <1>2 DEF ReceivingTypeOK
  <2>1. QED
    BY <1>1, AcceptedElsewhere
<1>5. /\ received' = left
      /\ receivingDocument' = [receivingDocument EXCEPT ![d].postingStatus = "reversed"]
      /\ purchaseOrder'[p].status = PoStatus(p, left)
      /\ purchaseOrder'[p].base = purchaseOrder[p].base
      /\ \A q \in PurchaseOrders \ {p} : purchaseOrder'[q] = purchaseOrder[q]
  BY <1>1 DEF ReverseReceiving, ReceivingTypeOK
<1>6. purchaseOrder'[p].status =
        IF LinesOf(p) # {} /\ \A l \in LinesOf(p) : left[l] >= Ordered[l]
        THEN "fully_received"
        ELSE IF \E l \in LinesOf(p) : left[l] > 0 THEN "partially_received"
        ELSE purchaseOrder[p].base
  <2> HIDE DEF left
  <2>1. purchaseOrder[p].base # "none"
    BY <1>1 DEF ReceivablePoStatuses
  <2>2. QED
    BY <1>5, <2>1 DEF PoStatus
<1>7. /\ purchaseOrder'[p].status \in ReceivablePoStatuses \cup {"fully_received"}
      /\ purchaseOrder' \in [PurchaseOrders -> [status : PoStatuses, base : BaseStatuses]]
  <2> HIDE DEF left
  <2>1. purchaseOrder'[p].status \in ReceivablePoStatuses \cup {"fully_received"}
    <3>1. "partially_received" \in ReceivablePoStatuses
      BY DEF ReceivablePoStatuses
    <3>2. QED
      BY <1>1, <1>6, <3>1
  <2>2. PoStatus(p, left) \in PoStatuses
    BY <1>5, <2>1 DEF PoStatuses
  <2>3. purchaseOrder' = [purchaseOrder EXCEPT ![p].status = PoStatus(p, left)]
    BY DEF ReverseReceiving, left
  <2>4. QED
    BY <1>1, <2>1, <2>2, <2>3 DEF ReceivingTypeOK
<1>8. \A b \in BalanceKeys : AcceptedInto(doc.lines, b) = 0 \/ AcceptedInto(doc.lines, b) <= balance[b].available
  <2> SUFFICES ASSUME NEW b \in BalanceKeys
               PROVE  AcceptedInto(doc.lines, b) = 0 \/ AcceptedInto(doc.lines, b) <= balance[b].available
    OBVIOUS
  <2>1. CASE \E n \in DOMAIN doc.lines : doc.lines[n].key = b
    BY <2>1 DEF ReverseReceiving, ReversalPlanAllows
  <2>2. CASE \A n \in DOMAIN doc.lines : doc.lines[n].key # b
    BY <2>2, <1>1, AcceptedElsewhere
  <2>3. QED
    BY <2>1, <2>2
<1>9. ReceivingTypeOK'
  <2>1. received' \in [PoLines -> Nat]
    BY <1>3, <1>5
  <2>2. receivingDocument' \in [ReceivingDocuments -> DocumentRow]
    <3>1. [doc EXCEPT !.postingStatus = "reversed"] \in DocumentRow
      BY DEF ReceivingTypeOK, DocumentRow
    <3>2. QED
      BY <1>5, <3>1 DEF ReceivingTypeOK
  <2>3. balance' \in [BalanceKeys -> BalanceRow] /\ movement' \in [BalanceKeys -> MovementSums]
    BY <1>1, TakeStockEffect DEF ReverseReceiving, ReceivingTypeOK, StockTypeOK
  <2>4. QED
    BY <1>7, <2>1, <2>2, <2>3 DEF ReceivingTypeOK, StockTypeOK
<1>10. DocumentsBelongToOrders'
  BY <1>1, <1>5 DEF DocumentsBelongToOrders, ReceivingTypeOK
<1>11. /\ \A l : Total(PostedOnLine(l)') = Total(PostedOnLine(l)) - AcceptedOnLine(doc.lines, l)
       /\ \A b : Total(PostedInto(b)') = Total(PostedInto(b)) - AcceptedInto(doc.lines, b)
  <2>1. /\ \A l : Total(PostedOnLine(l)) \in Nat
        /\ \A b : Total(PostedInto(b)) \in Nat
    BY PostedNat
  <2>2. /\ \A l : Total(PostedOnLine(l)') = Total(PostedOnLine(l)) - AcceptedOnLine(doc.lines, l) + 0
        /\ \A b : Total(PostedInto(b)') = Total(PostedInto(b)) - AcceptedInto(doc.lines, b) + 0
    BY <1>1, <1>5, PostedChange, "reversed" \in {"posted", "reversed"}
  <2>3. QED
    BY <2>1, <2>2, <1>2
<1>12. ReceivedMatchesDocuments' /\ NeverOverReceived'
  <2>1. ASSUME NEW l \in PoLines
        PROVE  received'[l] = Imported[l] + Total(PostedOnLine(l)')
    <3>1. received[l] = Imported[l] + Total(PostedOnLine(l)) /\ Imported[l] \in Nat
      BY ReceivingAssumption DEF ReceivedMatchesDocuments
    <3>2. received'[l] = received[l] - AcceptedOnLine(doc.lines, l)
      BY <1>5
    <3>3. AcceptedOnLine(doc.lines, l) \in Nat /\ Total(PostedOnLine(l)) \in Nat
      BY <1>2, PostedNat
    <3> HIDE DEF doc
    <3>4. QED
      BY <3>1, <3>2, <3>3, <1>11
  <2>2. QED
    BY <2>1, <1>3, <1>5 DEF ReceivedMatchesDocuments, NeverOverReceived
<1>13. ReceiptStockInv => ReceiptStockInv'
  <2> SUFFICES ASSUME ReceiptStockInv, NEW b \in BalanceKeys
               PROVE  /\ balance'[b].onHand = OpeningStock[b] + Total(PostedInto(b)')
                      /\ balance'[b].onHand = CalculateMovementBalance(b)'
                      /\ balance'[b].available = balance'[b].onHand - balance'[b].reserved
                      /\ 0 <= balance'[b].reserved
                      /\ balance'[b].reserved <= balance'[b].onHand
    BY DEF ReceiptStockInv, StockMatchesReceipts, OnHandMatchesMovements, StockNeverOversold, Reconciles
  <2>1. /\ balance'[b].onHand = balance[b].onHand - AcceptedInto(doc.lines, b)
        /\ balance'[b].available = balance[b].available - AcceptedInto(doc.lines, b)
        /\ balance'[b].reserved = balance[b].reserved
        /\ CalculateMovementBalance(b)' = CalculateMovementBalance(b) - AcceptedInto(doc.lines, b)
    BY <1>1, TakeStockEffect DEF ReverseReceiving, ReceivingTypeOK
  <2>2. /\ balance[b].onHand = OpeningStock[b] + Total(PostedInto(b))
        /\ balance[b].onHand = CalculateMovementBalance(b)
        /\ balance[b].available = balance[b].onHand - balance[b].reserved
        /\ 0 <= balance[b].reserved
        /\ balance[b].reserved <= balance[b].onHand
    BY DEF ReceiptStockInv, StockMatchesReceipts, OnHandMatchesMovements, StockNeverOversold, Reconciles
  <2>3. /\ AcceptedInto(doc.lines, b) \in Nat /\ Total(PostedInto(b)) \in Nat
        /\ OpeningStock[b] \in Nat
        /\ balance[b].onHand \in Int /\ balance[b].reserved \in Int /\ balance[b].available \in Int
        /\ AcceptedInto(doc.lines, b) = 0 \/ AcceptedInto(doc.lines, b) <= balance[b].available
    BY <1>2, <1>8, PostedNat, StockAssumption DEF ReceivingTypeOK, StockTypeOK, BalanceRow
  <2> HIDE DEF doc
  <2>4. QED
    BY <2>1, <2>2, <2>3, <1>11
<1>14. NothingReceivedUnapproved'
  <2> SUFFICES ASSUME NEW e \in ReceivingDocuments,
                      receivingDocument'[e].postingStatus \in {"posted", "reversed"}
               PROVE  /\ purchaseOrder'[receivingDocument'[e].po].status
                           \notin {"pending_approval", "rejected", "draft"}
                      /\ purchaseOrder'[receivingDocument'[e].po].base \in ReceivablePoStatuses
    BY DEF NothingReceivedUnapproved
  <2>1. CASE receivingDocument'[e].po = p
    BY <2>1, <1>1, <1>5, <1>7 DEF ReceivablePoStatuses
  <2>2. CASE receivingDocument'[e].po # p
    <3>1. e # d /\ receivingDocument'[e] = receivingDocument[e]
      BY <2>2, <1>5 DEF ReceivingTypeOK
    <3>2. receivingDocument[e].po \in PurchaseOrders \ {p}
      BY <2>2, <3>1 DEF DocumentsBelongToOrders
    <3>3. QED
      BY <3>1, <3>2, <1>5 DEF NothingReceivedUnapproved
  <2>3. QED
    BY <2>1, <2>2
<1>15. UnapprovedOrdersAreEmpty'
  <2> SUFFICES ASSUME NEW q \in PurchaseOrders,
                      purchaseOrder'[q].status \in {"pending_approval", "rejected", "draft"}
               PROVE  /\ purchaseOrder'[q].base = "none"
                      /\ \A l \in LinesOf(q) : received'[l] = 0
    BY DEF UnapprovedOrdersAreEmpty
  <2>1. q # p
    BY <1>7 DEF ReceivablePoStatuses
  <2>2. purchaseOrder'[q] = purchaseOrder[q]
    BY <2>1, <1>5
  <2>3. \A l \in LinesOf(q) : received'[l] = received[l]
    BY <2>1, <1>4, <1>5 DEF LinesOf
  <2>4. QED
    BY <2>2, <2>3 DEF UnapprovedOrdersAreEmpty
<1>16. OrderStatusMatchesReceipts'
  <2> SUFFICES ASSUME NEW q \in PurchaseOrders, purchaseOrder'[q].base # "none"
               PROVE  LET all  == LinesOf(q) # {} /\ \A l \in LinesOf(q) : received'[l] = Ordered[l]
                          some == \E l \in LinesOf(q) : received'[l] > 0
                          po   == purchaseOrder'[q]
                      IN  /\ all => po.status = "fully_received"
                          /\ some /\ ~all => po.status = "partially_received"
                          /\ ~some => po.status = po.base
    BY DEF OrderStatusMatchesReceipts, LinesOf
  <2>1. CASE q # p
    <3>1. purchaseOrder'[q] = purchaseOrder[q]
      BY <2>1, <1>5
    <3>2. \A l \in LinesOf(q) : received'[l] = received[l]
      BY <2>1, <1>4, <1>5 DEF LinesOf
    <3>3. QED
      BY <3>1, <3>2 DEF OrderStatusMatchesReceipts
  <2>2. CASE q = p
    <3> HIDE DEF left
    <3>1. \A l \in LinesOf(p) : left[l] \in Nat /\ left[l] <= Ordered[l] /\ Ordered[l] \in Nat \ {0}
      BY <1>3, ReceivingAssumption DEF LinesOf
    <3>2. \A l \in LinesOf(p) : left[l] >= Ordered[l] <=> left[l] = Ordered[l]
      BY <3>1
    <3>3. LinesOf(p) # {} /\ (\A l \in LinesOf(p) : left[l] = Ordered[l])
            => \E l \in LinesOf(p) : left[l] > 0
      BY <3>1
    <3> HIDE DEF doc
    <3>4. QED
      BY <2>2, <3>2, <3>3, <1>5, <1>6
  <2>3. QED
    BY <2>1, <2>2
<1>17. QED
  BY <1>9, <1>10, <1>12, <1>13, <1>14, <1>15, <1>16

-----------------------------------------------------------------------------
\* The theorems

\* Others may write stock: the orders and documents are as they were.
LEMMA OrdersFrame == OrdersInv /\ UNCHANGED receivingVars /\ StockTypeOK' => OrdersInv'
<1> SUFFICES ASSUME OrdersInv, UNCHANGED receivingVars, StockTypeOK' PROVE OrdersInv'
  OBVIOUS
<1>1. \A l : PostedOnLine(l)' = PostedOnLine(l)
  BY DEF receivingVars, PostedOnLine
<1>2. ReceivingTypeOK' /\ DocumentsBelongToOrders' /\ UnapprovedOrdersAreEmpty'
  BY DEF OrdersInv, receivingVars, ReceivingTypeOK, DocumentsBelongToOrders, UnapprovedOrdersAreEmpty
<1>3. ReceivedMatchesDocuments' /\ NeverOverReceived'
  BY <1>1 DEF OrdersInv, receivingVars, ReceivedMatchesDocuments, NeverOverReceived
<1>4. NothingReceivedUnapproved' /\ OrderStatusMatchesReceipts'
  BY DEF OrdersInv, receivingVars, NothingReceivedUnapproved, OrderStatusMatchesReceipts
<1>5. QED
  BY <1>2, <1>3, <1>4 DEF OrdersInv

\* A command keeps what holds of the orders, and what holds of the stock when
\* nobody else writes it.
ReceivingKept == OrdersInv' /\ (ReceiptStockInv => ReceiptStockInv')

LEMMA ReceivingKeeps == OrdersInv /\ [ReceivingNext]_allVars => ReceivingKept
<1> SUFFICES ASSUME OrdersInv, [ReceivingNext]_allVars PROVE ReceivingKept
  OBVIOUS
<1> USE DEF ReceivingKept
<1>1. ASSUME NEW p \in PurchaseOrders, ApprovePurchaseOrder(p) PROVE ReceivingKept
  BY <1>1, DecisionStep DEF ApprovePurchaseOrder, BaseStatuses, ReceivablePoStatuses
<1>2. ASSUME NEW p \in PurchaseOrders, RejectPurchaseOrder(p) \/ ReturnPurchaseOrder(p)
      PROVE  ReceivingKept
  <2>1. purchaseOrder[p].base \in BaseStatuses
    BY DEF OrdersInv, ReceivingTypeOK
  <2>2. QED
    BY <1>2, <2>1, DecisionStep DEF RejectPurchaseOrder, ReturnPurchaseOrder
<1>3. ASSUME NEW p \in PurchaseOrders, NEW d \in ReceivingDocuments, NEW lines \in DraftsFor(p),
             CreateReceivingDraft(d, p, lines)
      PROVE  ReceivingKept
  <2> DEFINE row == [po |-> p, lines |-> lines, workflowStatus |-> "draft", postingStatus |-> "unposted"]
  <2>1. /\ lines \in Seq(DraftLine)
        /\ \A n \in DOMAIN lines : PoOf[lines[n].poLine] = p
    BY DraftsAreLines DEF OrdersInv
  <2>2. row \in DocumentRow
    BY <2>1 DEF DocumentRow
  <2>3. /\ receivingDocument' = [receivingDocument EXCEPT ![d] = row]
        /\ receivingDocument[d].postingStatus \in {"none", "unposted"}
        /\ UNCHANGED <<purchaseOrder, received, stockVars>>
    BY <1>3 DEF CreateReceivingDraft
  <2>4. /\ row.postingStatus = "unposted" /\ row.po \in PurchaseOrders
        /\ \A n \in DOMAIN row.lines : PoOf[row.lines[n].poLine] = row.po
    BY <2>1
  <2> HIDE DEF row
  <2>5. QED
    BY <2>2, <2>3, <2>4, DraftStep
<1>4. ASSUME NEW d \in ReceivingDocuments, NEW lines \in DraftsFor(receivingDocument[d].po),
             ReviseReceivingDraft(d, lines)
      PROVE  ReceivingKept
  <2> DEFINE row == [receivingDocument[d] EXCEPT !.lines = lines]
  <2>1. /\ lines \in Seq(DraftLine)
        /\ \A n \in DOMAIN lines : PoOf[lines[n].poLine] = receivingDocument[d].po
    BY DraftsAreLines DEF OrdersInv
  <2>2. receivingDocument[d] \in DocumentRow /\ receivingDocument[d].postingStatus = "unposted"
    BY <1>4 DEF ReviseReceivingDraft, IsDraft, OrdersInv, ReceivingTypeOK
  <2>3. row \in DocumentRow
    BY <2>1, <2>2 DEF DocumentRow
  <2>4. /\ receivingDocument' = [receivingDocument EXCEPT ![d] = row]
        /\ UNCHANGED <<purchaseOrder, received, stockVars>>
    BY <1>4 DEF ReviseReceivingDraft
  <2>5. /\ row.postingStatus = "unposted" /\ row.po \in PurchaseOrders
        /\ \A n \in DOMAIN row.lines : PoOf[row.lines[n].poLine] = row.po
    BY <2>1, <2>2 DEF DocumentRow, OrdersInv, DocumentsBelongToOrders
  <2> HIDE DEF row
  <2>6. QED
    BY <2>2, <2>3, <2>4, <2>5, DraftStep
<1>5. ASSUME NEW d \in ReceivingDocuments, SubmitReceivingDraft(d) PROVE ReceivingKept
  <2> DEFINE row == [receivingDocument[d] EXCEPT !.workflowStatus = "ready_for_receiving"]
  <2>1. receivingDocument[d] \in DocumentRow /\ receivingDocument[d].postingStatus = "unposted"
    BY <1>5 DEF SubmitReceivingDraft, IsDraft, OrdersInv, ReceivingTypeOK
  <2>2. row \in DocumentRow
    BY <2>1 DEF DocumentRow
  <2>3. /\ receivingDocument' = [receivingDocument EXCEPT ![d] = row]
        /\ UNCHANGED <<purchaseOrder, received, stockVars>>
    BY <1>5 DEF SubmitReceivingDraft
  <2>4. /\ row.postingStatus = "unposted" /\ row.po \in PurchaseOrders
        /\ \A n \in DOMAIN row.lines : PoOf[row.lines[n].poLine] = row.po
    BY <2>1 DEF DocumentRow, OrdersInv, DocumentsBelongToOrders
  <2> HIDE DEF row
  <2>5. QED
    BY <2>1, <2>2, <2>3, <2>4, DraftStep
<1>6. ASSUME UNCHANGED allVars PROVE ReceivingKept
  <2>1. OrdersInv'
    BY <1>6, OrdersFrame DEF allVars, stockVars, OrdersInv, ReceivingTypeOK, StockTypeOK
  <2>2. \A b : PostedInto(b)' = PostedInto(b)
    BY <1>6 DEF allVars, receivingVars, PostedInto
  <2>3. ReceiptStockInv => ReceiptStockInv'
    BY <1>6, <2>2
       DEF allVars, stockVars, ReceiptStockInv, StockMatchesReceipts, OnHandMatchesMovements,
           CalculateMovementBalance, StockNeverOversold, Reconciles
  <2>4. QED
    BY <2>1, <2>3
<1>7. QED
  BY <1>1, <1>2, <1>3, <1>4, <1>5, <1>6, PostStep, ReverseStep DEF ReceivingNext, ReceivingPaperwork

\* Every command keeps the invariant.
LEMMA NextInv == ReceivingInv /\ [ReceivingNext]_allVars => ReceivingInv'
BY ReceivingKeeps DEF ReceivingInv, ReceivingKept

(***************************************************************************)
(* ReceivingInv, the conjunction on which the induction rests, holds in    *)
(* every reachable state.                                                  *)
(***************************************************************************)
THEOREM ReceivingInvariant == ReceivingSpec => []ReceivingInv
<1>1. ReceivingInv /\ [ReceivingNext]_<<stockVars, receivingVars>> => ReceivingInv'
  BY NextInv DEF allVars
<1>2. QED
  BY InitInv, <1>1, PTL DEF ReceivingSpec

\* Every row keeps its type: received quantities, and what the ledger adds up as in and out, are naturals.
THEOREM ReceivingTypeCorrect == ReceivingSpec => []ReceivingTypeOK
<1>1. ReceivingInv => ReceivingTypeOK
  BY DEF ReceivingInv, OrdersInv, ReceiptStockInv
<1>2. QED
  BY ReceivingInvariant, <1>1, PTL

(***************************************************************************)
(* ReceivedMatchesDocuments: the quantity received on an order line is     *)
(* what it was imported with and what its posted documents accepted.       *)
(***************************************************************************)
THEOREM ReceiptsAreExact == ReceivingSpec => []ReceivedMatchesDocuments
<1>1. ReceivingInv => ReceivedMatchesDocuments
  BY DEF ReceivingInv, OrdersInv
<1>2. QED
  BY ReceivingInvariant, <1>1, PTL

(***************************************************************************)
(* NeverOverReceived: no line receives more than was ordered, although     *)
(* every draft was written against what remained at its time.              *)
(***************************************************************************)
THEOREM OrdersAreNotExceeded == ReceivingSpec => []NeverOverReceived
<1>1. ReceivingInv => NeverOverReceived
  BY DEF ReceivingInv, OrdersInv
<1>2. QED
  BY ReceivingInvariant, <1>1, PTL

(***************************************************************************)
(* The stock a receiving changes is what the ledger and the posted         *)
(* documents explain, and a reversal never takes away promised stock.      *)
(***************************************************************************)
THEOREM ReceiptsReachStock ==
  ReceivingSpec => [](StockMatchesReceipts /\ OnHandMatchesMovements /\ StockNeverOversold)
<1>1. ReceivingInv => StockMatchesReceipts /\ OnHandMatchesMovements /\ StockNeverOversold
  BY DEF ReceivingInv, OrdersInv, ReceiptStockInv
<1>2. QED
  BY ReceivingInvariant, <1>1, PTL

(***************************************************************************)
(* The status of an order tells what has arrived of it, and nothing        *)
(* arrives for an order that nobody approved.                              *)
(***************************************************************************)
THEOREM OrdersFollowReceipts ==
  ReceivingSpec => [](OrderStatusMatchesReceipts /\ NothingReceivedUnapproved)
<1>1. ReceivingInv => OrderStatusMatchesReceipts /\ NothingReceivedUnapproved
  BY DEF ReceivingInv, OrdersInv, ReceiptStockInv
<1>2. QED
  BY ReceivingInvariant, <1>1, PTL

(***************************************************************************)
(* A posted document keeps its lines for ever, and is reversed at most     *)
(* once.                                                                   *)
(***************************************************************************)
THEOREM PostedStaysPosted == ReceivingSpec => PostedDocumentsAreFacts
<1> DEFINE Fact(d) == receivingDocument[d].postingStatus \in {"posted", "reversed"} =>
         /\ receivingDocument'[d].lines = receivingDocument[d].lines
         /\ receivingDocument'[d].po = receivingDocument[d].po
         /\ receivingDocument[d].postingStatus = "reversed" =>
              receivingDocument'[d].postingStatus = "reversed"
         /\ receivingDocument'[d].postingStatus \in {"posted", "reversed"}
           Facts == \A d \in ReceivingDocuments : Fact(d)
<1>1. ASSUME ReceivingTypeOK, [ReceivingNext]_<<stockVars, receivingVars>>
      PROVE  [Facts]_receivingVars
  <2>1. ASSUME NEW d \in ReceivingDocuments,
               receivingDocument[d].postingStatus \notin {"posted", "reversed"},
               \A e \in ReceivingDocuments \ {d} : receivingDocument'[e] = receivingDocument[e]
        PROVE  Facts
    BY <2>1
  <2>2. ASSUME NEW p \in PurchaseOrders,
               ApprovePurchaseOrder(p) \/ RejectPurchaseOrder(p) \/ ReturnPurchaseOrder(p)
        PROVE  Facts
    BY <2>2 DEF ApprovePurchaseOrder, RejectPurchaseOrder, ReturnPurchaseOrder, DecidePurchaseOrder
  <2>3. ASSUME NEW p, NEW d \in ReceivingDocuments, NEW lines, CreateReceivingDraft(d, p, lines)
        PROVE  Facts
    BY <2>1, <2>3 DEF CreateReceivingDraft, ReceivingTypeOK
  <2>4. ASSUME NEW d \in ReceivingDocuments, NEW lines, ReviseReceivingDraft(d, lines)
        PROVE  Facts
    BY <2>1, <2>4 DEF ReviseReceivingDraft, IsDraft, ReceivingTypeOK
  <2>5. ASSUME NEW d \in ReceivingDocuments, SubmitReceivingDraft(d) PROVE Facts
    BY <2>1, <2>5 DEF SubmitReceivingDraft, IsDraft, ReceivingTypeOK
  <2>6. ASSUME NEW d \in ReceivingDocuments, PostReceiving(d) PROVE Facts
    BY <2>1, <2>6 DEF PostReceiving, PostingPlanAllows, ReceivingTypeOK
  <2>7. ASSUME NEW d \in ReceivingDocuments, ReverseReceiving(d) PROVE Facts
    <3>1. receivingDocument' = [receivingDocument EXCEPT ![d].postingStatus = "reversed"]
          /\ receivingDocument[d].postingStatus = "posted"
      BY <2>7 DEF ReverseReceiving, ReversalPlanAllows
    <3>2. QED
      BY <3>1 DEF ReceivingTypeOK, DocumentRow
  <2>8. ASSUME UNCHANGED <<stockVars, receivingVars>> PROVE [Facts]_receivingVars
    BY <2>8
  <2> HIDE DEF Facts
  <2>9. QED
    BY <1>1, <2>2, <2>3, <2>4, <2>5, <2>6, <2>7, <2>8 DEF ReceivingNext, ReceivingPaperwork
<1>2. QED
  BY <1>1, ReceivingTypeCorrect, PTL DEF ReceivingSpec, PostedDocumentsAreFacts

-----------------------------------------------------------------------------
\* The inductive invariant of sales

\* The line and the key of each reservation, and what it has been allocated.
LineOf == [r \in Reservations |-> reservation[r].line]
KeyOf == [r \in Reservations |-> reservation[r].key]

(***************************************************************************)
(* A reservation that exists is for a line of a confirmed order, at a key. *)
(***************************************************************************)
ReservationsAreNamed ==
  \A r \in Reservations :
    IF reservation[r].status = "none" THEN reservation[r] = NoReservation
    ELSE /\ reservation[r].line \in SalesLines
         /\ reservation[r].key \in BalanceKeys
         /\ salesOrder[SalesOrderOf[reservation[r].line]].workflowStatus \in {"confirmed", "on_hold"}

(***************************************************************************)
(* A shipment takes from reservations of its own order only, and its       *)
(* allocation is in force while it can be posted, used up while it is.     *)
(***************************************************************************)
ShipmentsAreNamed ==
  \A s \in Shipments :
    /\ shipment[s].workflowStatus = "none" => shipment[s] = NoShipment
    /\ shipment[s].workflowStatus # "none" => shipment[s].order \in SalesOrders
    /\ ReadyToShip(s) <=> shipment[s].allocationStatus = "allocated"
    /\ shipment[s].postingStatus = "posted" <=> shipment[s].allocationStatus = "consumed"
    /\ \A r \in Reservations : shipment[s].quantity[r] # 0 =>
         reservation[r].line \in SalesLinesOf(shipment[s].order)

\* A balance has reserved what the reservations at its key hold.
ReservedIsPromised == \A b \in BalanceKeys : balance[b].reserved = AtKey(Promised, b)

SalesInv ==
  /\ OutboundTypeOK
  /\ ReservationsAreNamed
  /\ ShipmentsAreNamed
  /\ ReservationsMatchShipments
  /\ LinesMatchReservations
  /\ StatusesMatchQuantities
  /\ ReservedIsPromised
  /\ StockNeverOversold

-----------------------------------------------------------------------------
\* Reservations

\* What a reservation holds and what it has shipped are natural numbers.
LEMMA HoldsNat ==
  ASSUME OutboundTypeOK, ReservationsMatchShipments
  PROVE  /\ Promised \in [Reservations -> Nat]
         /\ Consumed \in [Reservations -> Nat]
         /\ \A r \in Reservations : reservation[r].allocated <= Promised[r]
<1>1. ASSUME NEW r \in Reservations
      PROVE  /\ Active(reservation[r]) \in Nat
             /\ reservation[r].allocated <= Active(reservation[r])
             /\ reservation[r].consumed \in Nat
  <2>1. /\ reservation[r].reserved \in Nat
        /\ reservation[r].allocated \in Nat
        /\ reservation[r].consumed \in Nat
        /\ reservation[r].released \in Nat
    BY DEF OutboundTypeOK, ReservationRow
  <2>2. Allocatable(reservation[r]) >= 0
    BY DEF ReservationsMatchShipments
  <2>3. QED
    BY <2>1, <2>2 DEF Active, Allocatable
<1>2. QED
  BY <1>1 DEF Promised, Consumed

\* Sums over the reservations of a line or at a key, as shares.
LEMMA SumsAreShares ==
  ASSUME NEW q \in [Reservations -> Nat]
  PROVE  /\ \A l : OnLine(q, l) = Total(Share(LineOf, l, q))
         /\ \A b : AtKey(q, b) = Total(Share(KeyOf, b, q))
<1>1. ASSUME NEW l
      PROVE  [r \in Reservations |-> IF reservation[r].line = l THEN q[r] ELSE 0] = Share(LineOf, l, q)
  BY DEF Share, LineOf
<1>2. ASSUME NEW b
      PROVE  [r \in Reservations |-> IF reservation[r].key = b THEN q[r] ELSE 0] = Share(KeyOf, b, q)
  BY DEF Share, KeyOf
<1>3. QED
  BY <1>1, <1>2 DEF OnLine, AtKey

\* Sums of what two families hold add up.
LEMMA SumsAdd ==
  ASSUME OutboundAssumption,
         NEW q \in [Reservations -> Nat], NEW r \in [Reservations -> Nat],
         NEW s \in [Reservations -> Nat], \A x \in Reservations : s[x] = q[x] + r[x]
  PROVE  /\ \A l : OnLine(s, l) = OnLine(q, l) + OnLine(r, l)
         /\ \A b : AtKey(s, b) = AtKey(q, b) + AtKey(r, b)
<1>1. IsFiniteSet(Reservations)
  BY DEF OutboundAssumption
<1>2. \A l : Total(Share(LineOf, l, s)) = Total(Share(LineOf, l, q)) + Total(Share(LineOf, l, r))
  BY <1>1, ShareAdd
<1>3. \A b : Total(Share(KeyOf, b, s)) = Total(Share(KeyOf, b, q)) + Total(Share(KeyOf, b, r))
  BY <1>1, ShareAdd
<1>4. QED
  BY <1>2, <1>3, SumsAreShares

\* Sums are natural numbers, no less than each of their members, and smaller
\* for smaller families.
LEMMA SumsNat ==
  ASSUME OutboundAssumption, NEW q \in [Reservations -> Nat]
  PROVE  /\ \A l : OnLine(q, l) \in Nat
         /\ \A b : AtKey(q, b) \in Nat
         /\ \A x \in Reservations : q[x] <= OnLine(q, reservation[x].line)
         /\ \A s \in [Reservations -> Nat] : (\A x \in Reservations : q[x] <= s[x]) =>
              /\ \A l : OnLine(q, l) <= OnLine(s, l)
              /\ \A b : AtKey(q, b) <= AtKey(s, b)
<1>1. IsFiniteSet(Reservations)
  BY DEF OutboundAssumption
<1>2. \A f, v : Total(Share(f, v, q)) \in Nat
  BY <1>1, ShareNat
<1>3. \A x \in Reservations : q[x] <= OnLine(q, reservation[x].line)
  <2>1. \A x \in Reservations : q[x] <= Total(Share(LineOf, reservation[x].line, q))
    BY <1>1, ShareNat DEF LineOf
  <2>2. QED
    BY <2>1, SumsAreShares
<1>4. ASSUME NEW s \in [Reservations -> Nat], \A x \in Reservations : q[x] <= s[x]
      PROVE  \A f, v : Total(Share(f, v, q)) <= Total(Share(f, v, s))
  BY <1>1, <1>4, ShareMonotone
<1>5. QED
  BY <1>2, <1>3, <1>4, SumsAreShares

\* A line, or a key, that no reservation with a quantity is for has no sum.
LEMMA SumsZero ==
  ASSUME NEW q \in [Reservations -> Nat]
  PROVE  /\ \A l : (\A x \in Reservations : q[x] # 0 => reservation[x].line # l) => OnLine(q, l) = 0
         /\ \A b : (\A x \in Reservations : q[x] # 0 => reservation[x].key # b) => AtKey(q, b) = 0
<1>1. ASSUME NEW l, \A x \in Reservations : q[x] # 0 => reservation[x].line # l
      PROVE  OnLine(q, l) = 0
  <2>1. \A x \in Reservations : q[x] # 0 => LineOf[x] # l
    BY <1>1 DEF LineOf
  <2>2. Total(Share(LineOf, l, q)) = 0
    BY <2>1, ShareZero
  <2>3. QED
    BY <2>2, SumsAreShares
<1>2. ASSUME NEW b, \A x \in Reservations : q[x] # 0 => reservation[x].key # b
      PROVE  AtKey(q, b) = 0
  <2>1. \A x \in Reservations : q[x] # 0 => KeyOf[x] # b
    BY <1>2 DEF KeyOf
  <2>2. Total(Share(KeyOf, b, q)) = 0
    BY <2>1, ShareZero
  <2>3. QED
    BY <2>2, SumsAreShares
<1>3. QED
  BY <1>1, <1>2

\* A command that keeps the lines and keys of all reservations changes the sums
\* by the quantities only.
LEMMA SumsKeepRows ==
  ASSUME LineOf' = LineOf, KeyOf' = KeyOf,
         Promised' \in [Reservations -> Nat], Consumed' \in [Reservations -> Nat]
  PROVE  /\ \A l : /\ OnLine(Promised, l)' = OnLine(Promised', l)
                   /\ OnLine(Consumed, l)' = OnLine(Consumed', l)
         /\ \A b : AtKey(Promised, b)' = AtKey(Promised', b)
<1>1. ASSUME NEW r \in Reservations
      PROVE  reservation'[r].line = reservation[r].line /\ reservation'[r].key = reservation[r].key
  <2>1. LineOf'[r] = reservation'[r].line /\ LineOf[r] = reservation[r].line
    BY DEF LineOf
  <2>2. KeyOf'[r] = reservation'[r].key /\ KeyOf[r] = reservation[r].key
    BY DEF KeyOf
  <2>3. QED
    BY <2>1, <2>2
<1>2. QED
  BY <1>1 DEF OnLine, AtKey

(***************************************************************************)
(* A command that writes the rows n of the reservations with a quantity in *)
(* q, which keep their line, their key and what was reserved, and brings   *)
(* their statuses up to date.                                              *)
(***************************************************************************)
Rewrites(q, n) ==
  /\ q \in [Reservations -> Nat]
  /\ n \in [Reservations -> ReservationRow]
  /\ \A r \in Reservations : /\ q[r] = 0 => n[r] = reservation[r]
                             /\ q[r] # 0 => n[r].line \in SalesLines
                             /\ n[r].line = reservation[r].line
                             /\ n[r].key = reservation[r].key
                             /\ Allocatable(n[r]) >= 0
  /\ reservation' = [r \in Reservations |-> IF q[r] = 0 THEN reservation[r] ELSE Restated(n[r])]

\* What the rows of reservations keep.
RowsKept ==
  /\ reservation' \in [Reservations -> ReservationRow]
  /\ LineOf' = LineOf /\ KeyOf' = KeyOf
  /\ \A r \in Reservations :
       /\ reservation'[r].line = reservation[r].line
       /\ reservation'[r].key = reservation[r].key
       /\ reservation'[r].status = "none" => reservation'[r] = reservation[r]
       /\ reservation'[r].status = "none" <=> reservation[r].status = "none"
       /\ reservation'[r].status # "none" =>
            reservation'[r].status = ReservationStatus(reservation'[r])
       /\ Allocatable(reservation'[r]) >= 0
  /\ Promised' \in [Reservations -> Nat] /\ Consumed' \in [Reservations -> Nat]

\* Such a command keeps them, and the quantities are those of n.
LEMMA RowsRewritten ==
  ASSUME SalesInv, NEW q, NEW n, Rewrites(q, n)
  PROVE  /\ RowsKept
         /\ \A r \in Reservations :
              /\ reservation'[r].allocated = n[r].allocated
              /\ reservation'[r].consumed = n[r].consumed
              /\ Promised'[r] = Active(n[r])
              /\ Consumed'[r] = n[r].consumed
<1> USE DEF Rewrites
<1>1. ASSUME NEW row \in ReservationRow
      PROVE  /\ ReservationStatus(row) \in ReservationStates
             /\ Restated(row) = [line |-> row.line, key |-> row.key, reserved |-> row.reserved,
                                 allocated |-> row.allocated, consumed |-> row.consumed,
                                 released |-> row.released, status |-> ReservationStatus(row)]
  <2>1. ReservationStatus(row) \in ReservationStates
    BY DEF ReservationStatus, ReservationStates
  <2>2. QED
    BY <2>1 DEF Restated, ReservationRow
<1>2. ASSUME NEW r \in Reservations, q[r] # 0
      PROVE  reservation[r].status # "none"
  <2>1. reservation[r].line \in SalesLines
    BY <1>2
  <2>2. NoReservation.line \notin SalesLines
    BY OutboundAssumption DEF NoReservation
  <2>3. QED
    BY <2>1, <2>2 DEF SalesInv, ReservationsAreNamed
<1>3. ASSUME NEW r \in Reservations
      PROVE  /\ reservation'[r] \in ReservationRow
             /\ reservation'[r].line = reservation[r].line
             /\ reservation'[r].key = reservation[r].key
             /\ reservation'[r].reserved = n[r].reserved
             /\ reservation'[r].allocated = n[r].allocated
             /\ reservation'[r].consumed = n[r].consumed
             /\ reservation'[r].released = n[r].released
             /\ reservation'[r].status = "none" => reservation'[r] = reservation[r]
             /\ reservation'[r].status = "none" <=> reservation[r].status = "none"
             /\ reservation'[r].status # "none" =>
                  reservation'[r].status = ReservationStatus(reservation'[r])
  <2>1. CASE q[r] = 0
    <3>1. reservation'[r] = reservation[r] /\ n[r] = reservation[r]
      BY <2>1
    <3>2. QED
      BY <3>1 DEF SalesInv, StatusesMatchQuantities
  <2>2. CASE q[r] # 0
    <3>1. reservation'[r] = Restated(n[r])
      BY <2>2
    <3>2. /\ reservation'[r].line = n[r].line /\ reservation'[r].key = n[r].key
          /\ reservation'[r].reserved = n[r].reserved
          /\ reservation'[r].allocated = n[r].allocated
          /\ reservation'[r].consumed = n[r].consumed
          /\ reservation'[r].released = n[r].released
          /\ reservation'[r].status = ReservationStatus(n[r])
          /\ reservation'[r] \in ReservationRow
      BY <1>1, <3>1 DEF ReservationRow
    <3>3. ReservationStatus(reservation'[r]) = ReservationStatus(n[r])
      BY <3>2 DEF ReservationStatus, Active
    <3>4. reservation'[r].status # "none"
      BY <1>1, <3>2 DEF ReservationStates
    <3>5. QED
      BY <1>2, <2>2, <3>2, <3>3, <3>4
  <2>3. QED
    BY <2>1, <2>2
<1>4. reservation' \in [Reservations -> ReservationRow]
  <2>1. reservation' = [r \in Reservations |-> reservation'[r]]
    OBVIOUS
  <2>2. QED
    BY <1>3, <2>1
<1>5. LineOf' = LineOf /\ KeyOf' = KeyOf
  BY <1>3 DEF LineOf, KeyOf
<1>6. ASSUME NEW r \in Reservations
      PROVE  /\ Active(reservation'[r]) = Active(n[r]) /\ Active(n[r]) \in Nat
             /\ Allocatable(reservation'[r]) = Allocatable(n[r])
             /\ reservation'[r].consumed \in Nat
  <2>1. /\ n[r].reserved \in Nat /\ n[r].allocated \in Nat
        /\ n[r].consumed \in Nat /\ n[r].released \in Nat
    BY DEF ReservationRow
  <2>2. QED
    BY <1>3, <2>1 DEF Active, Allocatable
<1>7. /\ Promised' \in [Reservations -> Nat] /\ Consumed' \in [Reservations -> Nat]
      /\ \A r \in Reservations : /\ Promised'[r] = Active(reservation'[r])
                                 /\ Consumed'[r] = reservation'[r].consumed
  BY <1>6 DEF Promised, Consumed
<1> HIDE DEF Rewrites
<1>8. \A r \in Reservations : Allocatable(n[r]) >= 0
  BY DEF Rewrites
<1>9. RowsKept
  BY <1>3, <1>4, <1>5, <1>6, <1>7, <1>8 DEF RowsKept
<1>10. QED
  BY <1>3, <1>6, <1>7, <1>9

\* The sums of what is promised and shipped move by that of q.
LEMMA SumsMove ==
  ASSUME SalesInv, RowsKept, NEW q \in [Reservations -> Nat]
  PROVE  /\ (\A r \in Reservations : Promised'[r] = Promised[r] - q[r]) =>
              /\ \A l : OnLine(Promised, l)' = OnLine(Promised, l) - OnLine(q, l)
              /\ \A b : AtKey(Promised, b)' = AtKey(Promised, b) - AtKey(q, b)
         /\ (\A r \in Reservations : Promised'[r] = Promised[r] + q[r]) =>
              /\ \A l : OnLine(Promised, l)' = OnLine(Promised, l) + OnLine(q, l)
              /\ \A b : AtKey(Promised, b)' = AtKey(Promised, b) + AtKey(q, b)
         /\ (\A r \in Reservations : Consumed'[r] = Consumed[r] - q[r]) =>
              \A l : OnLine(Consumed, l)' = OnLine(Consumed, l) - OnLine(q, l)
         /\ (\A r \in Reservations : Consumed'[r] = Consumed[r] + q[r]) =>
              \A l : OnLine(Consumed, l)' = OnLine(Consumed, l) + OnLine(q, l)
         /\ Promised' = Promised =>
              /\ \A l : OnLine(Promised, l)' = OnLine(Promised, l)
              /\ \A b : AtKey(Promised, b)' = AtKey(Promised, b)
         /\ Consumed' = Consumed => \A l : OnLine(Consumed, l)' = OnLine(Consumed, l)
         /\ \A l : OnLine(Promised, l)' \in Nat /\ OnLine(Consumed, l)' \in Nat
         /\ \A b : AtKey(Promised, b)' \in Nat
<1>0. Promised' \in [Reservations -> Nat] /\ Consumed' \in [Reservations -> Nat]
  BY DEF RowsKept
<1>1. Promised \in [Reservations -> Nat] /\ Consumed \in [Reservations -> Nat]
  BY HoldsNat DEF SalesInv
<1>2. /\ \A l : OnLine(Promised, l)' = OnLine(Promised', l)
      /\ \A l : OnLine(Consumed, l)' = OnLine(Consumed', l)
      /\ \A b : AtKey(Promised, b)' = AtKey(Promised', b)
  BY <1>0, SumsKeepRows DEF RowsKept
<1>3. ASSUME NEW p \in [Reservations -> Nat]
      PROVE  \A l : OnLine(p, l) \in Nat /\ AtKey(p, l) \in Nat
  BY SumsNat, OutboundAssumption
<1>4. ASSUME NEW p \in [Reservations -> Nat], NEW n \in [Reservations -> Nat],
             \A r \in Reservations : n[r] = p[r] - q[r]
      PROVE  \A l : /\ OnLine(n, l) = OnLine(p, l) - OnLine(q, l)
                    /\ AtKey(n, l) = AtKey(p, l) - AtKey(q, l)
  <2>1. \A r \in Reservations : p[r] = n[r] + q[r]
    BY <1>4
  <2>2. \A l : OnLine(p, l) = OnLine(n, l) + OnLine(q, l) /\ AtKey(p, l) = AtKey(n, l) + AtKey(q, l)
    BY <2>1, SumsAdd, OutboundAssumption
  <2>3. QED
    BY <1>3, <2>2
<1>5. ASSUME NEW p \in [Reservations -> Nat], NEW n \in [Reservations -> Nat],
             \A r \in Reservations : n[r] = p[r] + q[r]
      PROVE  \A l : /\ OnLine(n, l) = OnLine(p, l) + OnLine(q, l)
                    /\ AtKey(n, l) = AtKey(p, l) + AtKey(q, l)
  BY <1>5, SumsAdd, OutboundAssumption
<1>6. ASSUME \A r \in Reservations : Promised'[r] = Promised[r] - q[r]
      PROVE  \A l : /\ OnLine(Promised', l) = OnLine(Promised, l) - OnLine(q, l)
                    /\ AtKey(Promised', l) = AtKey(Promised, l) - AtKey(q, l)
  BY <1>0, <1>1, <1>4, <1>6
<1>7. ASSUME \A r \in Reservations : Promised'[r] = Promised[r] + q[r]
      PROVE  \A l : /\ OnLine(Promised', l) = OnLine(Promised, l) + OnLine(q, l)
                    /\ AtKey(Promised', l) = AtKey(Promised, l) + AtKey(q, l)
  BY <1>0, <1>1, <1>5, <1>7
<1>8. ASSUME \A r \in Reservations : Consumed'[r] = Consumed[r] - q[r]
      PROVE  \A l : OnLine(Consumed', l) = OnLine(Consumed, l) - OnLine(q, l)
  BY <1>0, <1>1, <1>4, <1>8
<1>9. ASSUME \A r \in Reservations : Consumed'[r] = Consumed[r] + q[r]
      PROVE  \A l : OnLine(Consumed', l) = OnLine(Consumed, l) + OnLine(q, l)
  BY <1>0, <1>1, <1>5, <1>9
<1>10. /\ \A l : OnLine(Promised', l) \in Nat /\ OnLine(Consumed', l) \in Nat
       /\ \A b : AtKey(Promised', b) \in Nat
  BY <1>0, <1>3
<1>11. QED
  BY <1>2, <1>6, <1>7, <1>8, <1>9, <1>10

-----------------------------------------------------------------------------
\* Balances, shipments and order lines

\* What a command that writes balances does to each of them.
LEMMA BalancesWritten ==
  ASSUME StockTypeOK, NEW h \in [BalanceKeys -> Int], NEW k \in [BalanceKeys -> Int],
         WriteBalances(h, k)
  PROVE  /\ balance' \in [BalanceKeys -> BalanceRow]
         /\ \A b \in BalanceKeys :
              /\ balance'[b].onHand = balance[b].onHand + h[b]
              /\ balance'[b].reserved = balance[b].reserved + k[b]
              /\ Reconciles(b) => Reconciles(b)'
<1>1. \A b \in BalanceKeys :
        /\ balance[b].onHand \in Int /\ balance[b].reserved \in Int
        /\ balance[b].available \in Int /\ balance[b].version \in Nat
        /\ h[b] \in Int /\ k[b] \in Int
  BY DEF StockTypeOK, BalanceRow
<1>2. ASSUME NEW b \in BalanceKeys
      PROVE  /\ balance'[b].onHand = balance[b].onHand + h[b]
             /\ balance'[b].reserved = balance[b].reserved + k[b]
             /\ balance'[b].available = balance[b].available + h[b] - k[b]
             /\ balance'[b].version = balance[b].version + (IF k[b] = 0 THEN 0 ELSE 1)
  BY DEF WriteBalances
<1>3. ASSUME NEW b \in BalanceKeys
      PROVE  balance'[b] \in BalanceRow /\ (Reconciles(b) => Reconciles(b)')
  <2>1. /\ balance[b].onHand + h[b] \in Int /\ balance[b].reserved + k[b] \in Int
        /\ balance[b].available + h[b] - k[b] \in Int
        /\ balance[b].version + (IF k[b] = 0 THEN 0 ELSE 1) \in Nat
    BY <1>1
  <2>2. balance'[b] \in BalanceRow
    BY <2>1 DEF BalanceRow, WriteBalances
  <2>3. Reconciles(b) => Reconciles(b)'
    BY <1>1, <1>2 DEF Reconciles
  <2>4. QED
    BY <2>2, <2>3
<1>4. balance' = [b \in BalanceKeys |-> balance'[b]]
  BY DEF WriteBalances
<1>5. QED
  BY <1>2, <1>3, <1>4

\* A command that writes the row of one shipment moves what the shipments in a
\* state allocate by the quantities of that shipment.
WritesShipment(s, row) == row \in ShipmentRow /\ shipment' = [shipment EXCEPT ![s] = row]

LEMMA ShipmentWritten ==
  ASSUME OutboundTypeOK, NEW s \in Shipments, NEW row, WritesShipment(s, row), NEW r \in Reservations, NEW state
  PROVE  /\ ShippedOf(r, state) \in Nat
         /\ ShippedOf(r, state)' = ShippedOf(r, state)
              - (IF shipment[s].allocationStatus = state THEN shipment[s].quantity[r] ELSE 0)
              + (IF row.allocationStatus = state THEN row.quantity[r] ELSE 0)
<1>1. /\ shipment \in [Shipments -> ShipmentRow]
      /\ shipment' \in [Shipments -> ShipmentRow]
      /\ shipment'[s] = row
      /\ \A z \in Shipments \ {s} : shipment'[z] = shipment[z]
  BY DEF OutboundTypeOK, WritesShipment
<1> DEFINE q == [z \in Shipments |->
             IF shipment[z].allocationStatus = state THEN shipment[z].quantity[r] ELSE 0]
           n == [z \in Shipments |->
             IF shipment'[z].allocationStatus = state THEN shipment'[z].quantity[r] ELSE 0]
<1>2. ASSUME NEW w \in ShipmentRow PROVE w.quantity[r] \in Nat
  BY <1>2 DEF ShipmentRow
<1>3. q \in [Shipments -> Nat] /\ n \in [Shipments -> Nat]
  BY <1>1, <1>2
<1>4. /\ q[s] = IF shipment[s].allocationStatus = state THEN shipment[s].quantity[r] ELSE 0
      /\ n[s] = IF row.allocationStatus = state THEN row.quantity[r] ELSE 0
      /\ \A z \in Shipments \ {s} : n[z] = q[z]
  BY <1>1
<1>5. ShippedOf(r, state) = Total(q) /\ ShippedOf(r, state)' = Total(n)
  BY DEF ShippedOf
<1> HIDE DEF q, n
<1>6. Total(q) \in Nat /\ Total(n) = Total(q) - q[s] + n[s]
  BY <1>3, <1>4, TotalNat, TotalChange, OutboundAssumption
<1>7. QED
  BY <1>4, <1>5, <1>6

\* Shipments of other orders than those of l have nothing on line l.
LEMMA ShipmentLines ==
  ASSUME SalesInv, NEW s \in Shipments, NEW l \in SalesLines \ SalesLinesOf(shipment[s].order)
  PROVE  OnLine(shipment[s].quantity, l) = 0
<1>1. shipment[s].quantity \in [Reservations -> Nat]
  BY DEF SalesInv, OutboundTypeOK, ShipmentRow
<1>2. \A r \in Reservations : shipment[s].quantity[r] # 0 => reservation[r].line # l
  BY DEF SalesInv, ShipmentsAreNamed
<1>3. QED
  BY <1>1, <1>2, SumsZero

\* What an order line holds and has shipped is no more than what the shipments
\* and reservations on it leave, seen from one family of quantities.
LEMMA SumsFit ==
  ASSUME SalesInv, NEW q \in [Reservations -> Nat]
  PROVE  /\ (\A r \in Reservations : q[r] <= Promised[r]) =>
              /\ \A l \in SalesLines : OnLine(q, l) <= salesLine[l].reserved
              /\ \A b \in BalanceKeys : AtKey(q, b) <= balance[b].reserved
         /\ (\A r \in Reservations : q[r] <= Consumed[r]) =>
              \A l \in SalesLines : OnLine(q, l) <= salesLine[l].fulfilled
         /\ \A l : OnLine(q, l) \in Nat
         /\ \A b : AtKey(q, b) \in Nat
<1>1. Promised \in [Reservations -> Nat] /\ Consumed \in [Reservations -> Nat]
  BY HoldsNat DEF SalesInv
<1>2. /\ \A l : OnLine(q, l) \in Nat
      /\ \A b : AtKey(q, b) \in Nat
  BY SumsNat, OutboundAssumption
<1>3. ASSUME NEW p \in [Reservations -> Nat], \A r \in Reservations : q[r] <= p[r]
      PROVE  /\ \A l : OnLine(q, l) <= OnLine(p, l)
             /\ \A b : AtKey(q, b) <= AtKey(p, b)
  BY <1>3, SumsNat, OutboundAssumption
<1>4. /\ \A l \in SalesLines : salesLine[l].reserved = OnLine(Promised, l)
      /\ \A l \in SalesLines : salesLine[l].fulfilled = OnLine(Consumed, l)
      /\ \A b \in BalanceKeys : balance[b].reserved = AtKey(Promised, b)
  BY DEF SalesInv, LinesMatchReservations, ReservedIsPromised
<1>5. QED
  BY <1>1, <1>2, <1>3, <1>4

(***************************************************************************)
(* The statuses of orders after a command that writes lines of order o and *)
(* its reservation status, and its fulfilment status where it ships or     *)
(* takes back.                                                             *)
(***************************************************************************)
LEMMA OrdersRestated ==
  ASSUME OutboundTypeOK, StatusesMatchQuantities, NEW o \in SalesOrders,
         NEW lines \in [SalesLines -> SalesLineRow],
         \A l \in SalesLines : /\ lines[l].ordered = salesLine[l].ordered
                               /\ l \notin SalesLinesOf(o) => lines[l] = salesLine[l],
         \/ WriteShippedLines(o, lines)
         \/ /\ WriteReservedLines(o, lines)
            /\ \A l \in SalesLines : lines[l].fulfilled = salesLine[l].fulfilled
  PROVE  /\ salesOrder' \in [SalesOrders -> SalesOrderRow]
         /\ salesLine' = lines
         /\ \A p \in SalesOrders :
              /\ salesOrder'[p].workflowStatus = salesOrder[p].workflowStatus
              /\ salesOrder'[p].reservationStatus = SalesReservationStatus(p, lines)
              /\ salesOrder'[p].fulfillmentStatus = SalesFulfillmentStatus(p, lines)
<1>1. \A p : /\ SalesReservationStatus(p, lines) \in {"not_reserved", "partially_reserved", "fully_reserved"}
             /\ SalesFulfillmentStatus(p, lines) \in {"not_fulfilled", "partially_fulfilled", "fully_fulfilled"}
  BY DEF SalesReservationStatus, SalesFulfillmentStatus
<1>2. ASSUME NEW p \in SalesOrders, p # o
      PROVE  /\ SalesReservationStatus(p, lines) = SalesReservationStatus(p, salesLine)
             /\ SalesFulfillmentStatus(p, lines) = SalesFulfillmentStatus(p, salesLine)
  <2>1. \A l \in SalesLinesOf(p) : lines[l] = salesLine[l]
    BY <1>2 DEF SalesLinesOf
  <2>2. QED
    BY <2>1 DEF SalesReservationStatus, SalesFulfillmentStatus
<1>3. salesOrder \in [SalesOrders -> SalesOrderRow]
  BY DEF OutboundTypeOK
<1>4. CASE WriteShippedLines(o, lines)
  <2> DEFINE row == [workflowStatus |-> salesOrder[o].workflowStatus,
                     reservationStatus |-> SalesReservationStatus(o, lines),
                     fulfillmentStatus |-> SalesFulfillmentStatus(o, lines)]
  <2>1. row \in SalesOrderRow
    BY <1>1, <1>3 DEF SalesOrderRow
  <2>2. /\ salesLine' = lines
        /\ salesOrder'[o] = row
        /\ \A p \in SalesOrders \ {o} : salesOrder'[p] = salesOrder[p]
        /\ salesOrder' = [p \in SalesOrders |-> salesOrder'[p]]
    <3> DEFINE half == [salesOrder EXCEPT ![o].reservationStatus = SalesReservationStatus(o, lines)]
    <3>1. /\ half[o] = [salesOrder[o] EXCEPT !.reservationStatus = SalesReservationStatus(o, lines)]
          /\ \A p \in SalesOrders \ {o} : half[p] = salesOrder[p]
          /\ half = [p \in SalesOrders |-> half[p]]
      BY <1>3
    <3>2. /\ salesLine' = lines
          /\ salesOrder' = [half EXCEPT ![o].fulfillmentStatus = SalesFulfillmentStatus(o, lines)]
      BY <1>4 DEF WriteShippedLines
    <3> HIDE DEF half
    <3>3. /\ salesOrder'[o] = [half[o] EXCEPT !.fulfillmentStatus = SalesFulfillmentStatus(o, lines)]
          /\ \A p \in SalesOrders \ {o} : salesOrder'[p] = half[p]
          /\ salesOrder' = [p \in SalesOrders |-> salesOrder'[p]]
      BY <3>1, <3>2
    <3>4. QED
      BY <1>3, <3>1, <3>2, <3>3 DEF SalesOrderRow
  <2>3. salesOrder' \in [SalesOrders -> SalesOrderRow]
    <3> HIDE DEF row
    <3> QED BY <1>3, <2>1, <2>2
  <2>4. QED
    BY <1>2, <2>2, <2>3 DEF StatusesMatchQuantities
<1>5. CASE /\ WriteReservedLines(o, lines)
           /\ \A l \in SalesLines : lines[l].fulfilled = salesLine[l].fulfilled
  <2> DEFINE row == [workflowStatus |-> salesOrder[o].workflowStatus,
                     reservationStatus |-> SalesReservationStatus(o, lines),
                     fulfillmentStatus |-> salesOrder[o].fulfillmentStatus]
  <2>1. row \in SalesOrderRow
    BY <1>1, <1>3 DEF SalesOrderRow
  <2>2. /\ salesLine' = lines
        /\ salesOrder'[o] = row
        /\ \A p \in SalesOrders \ {o} : salesOrder'[p] = salesOrder[p]
        /\ salesOrder' = [p \in SalesOrders |-> salesOrder'[p]]
    BY <1>3, <1>5 DEF WriteReservedLines, SalesOrderRow
  <2>3. salesOrder' \in [SalesOrders -> SalesOrderRow]
    <3> HIDE DEF row
    <3> QED BY <1>3, <2>1, <2>2
  <2>4. SalesFulfillmentStatus(o, lines) = SalesFulfillmentStatus(o, salesLine)
    BY <1>5 DEF SalesFulfillmentStatus, SalesLinesOf
  <2>5. QED
    BY <1>2, <2>2, <2>3, <2>4 DEF StatusesMatchQuantities
<1>6. QED
  BY <1>4, <1>5

-----------------------------------------------------------------------------
\* Each command keeps the invariant

(***************************************************************************)
(* What remains to be shown of a command that rewrites reservations: that  *)
(* shipments and balances follow.  Names and statuses do.                  *)
(***************************************************************************)
LEMMA CommandKeepsNames ==
  ASSUME SalesInv, RowsKept,
         salesOrder' \in [SalesOrders -> SalesOrderRow],
         \A p \in SalesOrders :
           /\ salesOrder'[p].workflowStatus = salesOrder[p].workflowStatus
           /\ salesOrder'[p].reservationStatus = SalesReservationStatus(p, salesLine')
           /\ salesOrder'[p].fulfillmentStatus = SalesFulfillmentStatus(p, salesLine')
  PROVE  ReservationsAreNamed' /\ StatusesMatchQuantities'
<1>1. ReservationsAreNamed'
  <2> SUFFICES ASSUME NEW r \in Reservations
               PROVE  IF reservation'[r].status = "none" THEN reservation'[r] = NoReservation
                      ELSE /\ reservation'[r].line \in SalesLines
                           /\ reservation'[r].key \in BalanceKeys
                           /\ salesOrder'[SalesOrderOf[reservation'[r].line]].workflowStatus
                                \in {"confirmed", "on_hold"}
    BY DEF ReservationsAreNamed, NoReservation
  <2>1. CASE reservation[r].status = "none"
    BY <2>1 DEF RowsKept, SalesInv, ReservationsAreNamed
  <2>2. CASE reservation[r].status # "none"
    <3>1. /\ reservation[r].line \in SalesLines /\ reservation[r].key \in BalanceKeys
          /\ salesOrder[SalesOrderOf[reservation[r].line]].workflowStatus \in {"confirmed", "on_hold"}
      BY <2>2 DEF SalesInv, ReservationsAreNamed
    <3>2. SalesOrderOf[reservation[r].line] \in SalesOrders
      BY <3>1, OutboundAssumption
    <3>3. QED
      BY <2>2, <3>1, <3>2 DEF RowsKept
  <2>3. QED
    BY <2>1, <2>2
<1>2. StatusesMatchQuantities'
  BY DEF RowsKept, StatusesMatchQuantities, SalesReservationStatus, SalesFulfillmentStatus, SalesLinesOf,
         ReservationStatus, Active
<1>3. QED
  BY <1>1, <1>2

(***************************************************************************)
(* Balances that are written with the change k of what is promised, where  *)
(* what is on hand changes by h and covers it.                             *)
(***************************************************************************)
LEMMA BalancesFollow ==
  ASSUME SalesInv, NEW h \in [BalanceKeys -> Int], NEW k \in [BalanceKeys -> Int],
         WriteBalances(h, k),
         \A b \in BalanceKeys :
           /\ AtKey(Promised, b)' \in Nat
           /\ AtKey(Promised, b)' = AtKey(Promised, b) + k[b]
           /\ k[b] <= h[b] \/ k[b] <= h[b] + balance[b].available
  PROVE  balance' \in [BalanceKeys -> BalanceRow] /\ StockNeverOversold' /\ ReservedIsPromised'
<1>1. /\ balance' \in [BalanceKeys -> BalanceRow]
      /\ \A b \in BalanceKeys :
           /\ balance'[b].onHand = balance[b].onHand + h[b]
           /\ balance'[b].reserved = balance[b].reserved + k[b]
           /\ Reconciles(b) => Reconciles(b)'
  BY BalancesWritten DEF SalesInv, OutboundTypeOK
<1>2. ASSUME NEW b \in BalanceKeys
      PROVE  /\ Reconciles(b)'
             /\ 0 <= balance'[b].reserved
             /\ balance'[b].reserved <= balance'[b].onHand
             /\ balance'[b].reserved = AtKey(Promised, b)'
  <2>1. /\ Reconciles(b) /\ balance[b].reserved <= balance[b].onHand
        /\ balance[b].available = balance[b].onHand - balance[b].reserved
        /\ balance[b].reserved = AtKey(Promised, b)
        /\ balance[b].onHand \in Int /\ balance[b].reserved \in Int
        /\ h[b] \in Int /\ k[b] \in Int
    BY DEF SalesInv, StockNeverOversold, ReservedIsPromised, Reconciles,
           OutboundTypeOK, StockTypeOK, BalanceRow
  <2>2. QED
    BY <1>1, <2>1
<1>3. QED
  BY <1>1, <1>2 DEF StockNeverOversold, ReservedIsPromised

(***************************************************************************)
(* Order lines that are written with what their reservations hold and have *)
(* shipped.                                                                *)
(***************************************************************************)
LinesFollow(o, lines) ==
  /\ lines = [l \in SalesLines |-> lines[l]]
  /\ \A l \in SalesLines :
       /\ lines[l] \in SalesLineRow
       /\ lines[l].ordered = salesLine[l].ordered
       /\ lines[l].reserved = OnLine(Promised, l)'
       /\ lines[l].fulfilled = OnLine(Consumed, l)'
       /\ lines[l].reserved + lines[l].fulfilled <= lines[l].ordered
       /\ l \notin SalesLinesOf(o) => lines[l] = salesLine[l]

LEMMA LinesWritten ==
  ASSUME SalesInv, NEW o \in SalesOrders, NEW lines, LinesFollow(o, lines),
         \/ WriteShippedLines(o, lines)
         \/ /\ WriteReservedLines(o, lines)
            /\ \A l \in SalesLines : lines[l].fulfilled = salesLine[l].fulfilled
  PROVE  /\ salesLine' \in [SalesLines -> SalesLineRow]
         /\ LinesMatchReservations'
         /\ salesOrder' \in [SalesOrders -> SalesOrderRow]
         /\ \A p \in SalesOrders :
              /\ salesOrder'[p].workflowStatus = salesOrder[p].workflowStatus
              /\ salesOrder'[p].reservationStatus = SalesReservationStatus(p, salesLine')
              /\ salesOrder'[p].fulfillmentStatus = SalesFulfillmentStatus(p, salesLine')
<1>1. lines \in [SalesLines -> SalesLineRow]
  BY DEF LinesFollow
<1>2. \A l \in SalesLines : /\ lines[l].ordered = salesLine[l].ordered
                            /\ l \notin SalesLinesOf(o) => lines[l] = salesLine[l]
  BY DEF LinesFollow
<1>3. /\ salesOrder' \in [SalesOrders -> SalesOrderRow]
      /\ salesLine' = lines
      /\ \A p \in SalesOrders :
           /\ salesOrder'[p].workflowStatus = salesOrder[p].workflowStatus
           /\ salesOrder'[p].reservationStatus = SalesReservationStatus(p, lines)
           /\ salesOrder'[p].fulfillmentStatus = SalesFulfillmentStatus(p, lines)
  BY <1>1, <1>2, OrdersRestated DEF SalesInv
<1>4. QED
  BY <1>1, <1>3 DEF LinesFollow, LinesMatchReservations

(***************************************************************************)
(* A shipment that is written with its row w: its reservations follow it   *)
(* into and out of the quantities they are allocated and have shipped.     *)
(***************************************************************************)
ShipmentFollows(s, w) ==
  /\ WritesShipment(s, w)
  /\ w.order \in SalesOrders /\ w.workflowStatus # "none"
  /\ w.workflowStatus = "ready" /\ w.postingStatus = "unposted" <=> w.allocationStatus = "allocated"
  /\ w.postingStatus = "posted" <=> w.allocationStatus = "consumed"
  /\ \A r \in Reservations :
       /\ w.quantity[r] # 0 => reservation[r].line \in SalesLinesOf(w.order)
       /\ reservation'[r].allocated = reservation[r].allocated
            - (IF shipment[s].allocationStatus = "allocated" THEN shipment[s].quantity[r] ELSE 0)
            + (IF w.allocationStatus = "allocated" THEN w.quantity[r] ELSE 0)
       /\ reservation'[r].consumed = reservation[r].consumed
            - (IF shipment[s].allocationStatus = "consumed" THEN shipment[s].quantity[r] ELSE 0)
            + (IF w.allocationStatus = "consumed" THEN w.quantity[r] ELSE 0)

LEMMA ShipmentKept ==
  ASSUME SalesInv, RowsKept, NEW s \in Shipments, NEW w, ShipmentFollows(s, w)
  PROVE  /\ shipment' \in [Shipments -> ShipmentRow]
         /\ ReservationsMatchShipments'
         /\ ShipmentsAreNamed'
<1>1. WritesShipment(s, w)
  BY DEF ShipmentFollows
<1>2. /\ shipment' \in [Shipments -> ShipmentRow]
      /\ shipment'[s] = w
      /\ \A z \in Shipments \ {s} : shipment'[z] = shipment[z]
  BY <1>1 DEF SalesInv, OutboundTypeOK, WritesShipment
<1>3. \A r \in Reservations :
        /\ reservation[r].allocated = ShippedOf(r, "allocated")
        /\ reservation[r].consumed = ShippedOf(r, "consumed")
  BY DEF SalesInv, ReservationsMatchShipments
<1>4. ASSUME NEW r \in Reservations
      PROVE  /\ reservation'[r].allocated = ShippedOf(r, "allocated")'
             /\ reservation'[r].consumed = ShippedOf(r, "consumed")'
             /\ Allocatable(reservation'[r]) >= 0
  <2>1. OutboundTypeOK
    BY DEF SalesInv
  <2>2. /\ ShippedOf(r, "allocated")' = ShippedOf(r, "allocated")
             - (IF shipment[s].allocationStatus = "allocated" THEN shipment[s].quantity[r] ELSE 0)
             + (IF w.allocationStatus = "allocated" THEN w.quantity[r] ELSE 0)
        /\ ShippedOf(r, "consumed")' = ShippedOf(r, "consumed")
             - (IF shipment[s].allocationStatus = "consumed" THEN shipment[s].quantity[r] ELSE 0)
             + (IF w.allocationStatus = "consumed" THEN w.quantity[r] ELSE 0)
    BY <1>1, <2>1, ShipmentWritten
  <2>3. QED
    BY <1>3, <2>2 DEF ShipmentFollows, RowsKept
<1>5. ASSUME NEW z \in Shipments
      PROVE  /\ shipment'[z].workflowStatus = "none" => shipment'[z] = NoShipment
             /\ shipment'[z].workflowStatus # "none" => shipment'[z].order \in SalesOrders
             /\ shipment'[z].workflowStatus = "ready" /\ shipment'[z].postingStatus = "unposted"
                  <=> shipment'[z].allocationStatus = "allocated"
             /\ shipment'[z].postingStatus = "posted" <=> shipment'[z].allocationStatus = "consumed"
             /\ \A r \in Reservations : shipment'[z].quantity[r] # 0 =>
                  reservation[r].line \in SalesLinesOf(shipment'[z].order)
  <2>1. CASE z = s
    BY <1>2, <2>1 DEF ShipmentFollows
  <2>2. CASE z # s
    BY <1>2, <2>2 DEF SalesInv, ShipmentsAreNamed, ReadyToShip
  <2>3. QED
    BY <2>1, <2>2
<1>6. ShipmentsAreNamed'
  <2>1. \A r \in Reservations : reservation'[r].line = reservation[r].line
    BY DEF RowsKept
  <2>2. QED
    BY <1>5, <2>1 DEF ShipmentsAreNamed, ReadyToShip, SalesLinesOf, NoShipment
<1>7. QED
  BY <1>2, <1>4, <1>6 DEF ReservationsMatchShipments

\* A shipment that is drafted or cancelled moves no stock.
LEMMA PaperworkStep ==
  ASSUME SalesInv, RowsKept, Promised' = Promised, Consumed' = Consumed,
         NEW s \in Shipments, NEW w, ShipmentFollows(s, w),
         UNCHANGED <<salesOrder, salesLine, stockVars>>
  PROVE  SalesInv'
<1>1. /\ \A l : OnLine(Promised, l)' = OnLine(Promised, l)
      /\ \A l : OnLine(Consumed, l)' = OnLine(Consumed, l)
      /\ \A b : AtKey(Promised, b)' = AtKey(Promised, b)
  <2>1. Promised \in [Reservations -> Nat]
    BY HoldsNat DEF SalesInv
  <2>2. QED
    BY <2>1, SumsMove
<1>2. shipment' \in [Shipments -> ShipmentRow] /\ ReservationsMatchShipments' /\ ShipmentsAreNamed'
  BY ShipmentKept
<1>3. OutboundTypeOK'
  BY <1>2 DEF RowsKept, SalesInv, OutboundTypeOK, StockTypeOK, stockVars
<1>4. ReservationsAreNamed' /\ StatusesMatchQuantities'
  <2>1. /\ salesOrder' \in [SalesOrders -> SalesOrderRow]
        /\ \A p \in SalesOrders :
             /\ salesOrder'[p].workflowStatus = salesOrder[p].workflowStatus
             /\ salesOrder'[p].reservationStatus = SalesReservationStatus(p, salesLine')
             /\ salesOrder'[p].fulfillmentStatus = SalesFulfillmentStatus(p, salesLine')
    BY DEF SalesInv, OutboundTypeOK, StatusesMatchQuantities
  <2>2. QED
    BY <2>1, CommandKeepsNames
<1>5. LinesMatchReservations' /\ ReservedIsPromised' /\ StockNeverOversold'
  BY <1>1 DEF SalesInv, LinesMatchReservations, ReservedIsPromised, StockNeverOversold, Reconciles,
              stockVars
<1>6. QED
  BY <1>2, <1>3, <1>4, <1>5 DEF SalesInv

\* What a command asks of reservations is natural numbers, of lines of its order.
LEMMA AllocatableNat ==
  ASSUME NEW o, NEW q \in AllocatableQuantities(o)
  PROVE  /\ q \in [Reservations -> Nat]
         /\ \A r \in Reservations : q[r] # 0 =>
              reservation[r].line \in SalesLinesOf(o) /\ q[r] <= Allocatable(reservation[r])
<1>1. 0..MaxOrdered \subseteq Nat
  BY OutboundAssumption
<1>2. q \in [Reservations -> 0..MaxOrdered] /\ \A r \in Reservations : q[r] > 0 =>
         reservation[r].line \in SalesLinesOf(o) /\ q[r] <= Allocatable(reservation[r])
  BY DEF AllocatableQuantities
<1>3. q \in [Reservations -> Nat]
  BY <1>1, <1>2
<1>4. QED
  BY <1>2, <1>3

\* Releasing gives back what was reserved and not allocated.
LEMMA ReleaseStep ==
  ASSUME SalesInv, NEW o \in SalesOrders, NEW q \in AllocatableQuantities(o), ReleaseReservation(o, q)
  PROVE  SalesInv'
<1> DEFINE n == [r \in Reservations |-> [reservation[r] EXCEPT !.released = @ + q[r]]]
           lines == [l \in SalesLines |-> [salesLine[l] EXCEPT !.reserved = @ - OnLine(q, l)]]
           k == [b \in BalanceKeys |-> -AtKey(q, b)]
<1>1. /\ q \in [Reservations -> Nat]
      /\ \A r \in Reservations : q[r] # 0 =>
           reservation[r].line \in SalesLinesOf(o) /\ q[r] <= Allocatable(reservation[r])
  BY AllocatableNat
<1>2. ASSUME NEW r \in Reservations
      PROVE  /\ n[r] \in ReservationRow
             /\ q[r] = 0 => n[r] = reservation[r]
             /\ q[r] # 0 => n[r].line \in SalesLines
             /\ n[r].line = reservation[r].line
             /\ n[r].key = reservation[r].key
             /\ n[r].allocated = reservation[r].allocated
             /\ n[r].consumed = reservation[r].consumed
             /\ Active(n[r]) = Active(reservation[r]) - q[r]
             /\ Allocatable(n[r]) >= 0
  <2>1. /\ reservation[r] \in ReservationRow /\ Allocatable(reservation[r]) >= 0
        /\ q[r] \in Nat /\ (q[r] # 0 => q[r] <= Allocatable(reservation[r]))
    BY <1>1 DEF SalesInv, OutboundTypeOK, ReservationsMatchShipments
  <2>2. q[r] # 0 => reservation[r].line \in SalesLines
    BY <1>1 DEF SalesLinesOf
  <2>3. QED
    BY <2>1, <2>2 DEF ReservationRow, Active, Allocatable
<1>3. n \in [Reservations -> ReservationRow]
  BY <1>2
<1>4. /\ WriteReservedLines(o, lines)
      /\ WriteBalances(Nowhere, k)
      /\ UNCHANGED <<shipment, movement>>
      /\ \A l \in SalesLinesOf(o) : OnLine(q, l) <= salesLine[l].reserved
  BY DEF ReleaseReservation
<1>5. reservation' = [r \in Reservations |-> IF q[r] = 0 THEN reservation[r] ELSE Restated(n[r])]
  BY DEF ReleaseReservation
<1> HIDE DEF n
<1>6. /\ RowsKept
      /\ Consumed' = Consumed
      /\ \A r \in Reservations : /\ reservation'[r].allocated = reservation[r].allocated
                                 /\ reservation'[r].consumed = reservation[r].consumed
      /\ \A l : OnLine(Promised, l)' = OnLine(Promised, l) - OnLine(q, l)
      /\ \A l : OnLine(Consumed, l)' = OnLine(Consumed, l)
      /\ \A b : AtKey(Promised, b)' = AtKey(Promised, b) - AtKey(q, b)
      /\ \A l : OnLine(Promised, l)' \in Nat /\ OnLine(Consumed, l)' \in Nat
      /\ \A b : AtKey(Promised, b)' \in Nat
  <2>1. Rewrites(q, n)
    BY <1>1, <1>2, <1>3, <1>5 DEF Rewrites
  <2>2. /\ RowsKept
        /\ \A r \in Reservations :
             /\ reservation'[r].allocated = n[r].allocated
             /\ reservation'[r].consumed = n[r].consumed
             /\ Promised'[r] = Active(n[r])
             /\ Consumed'[r] = n[r].consumed
    BY <2>1, RowsRewritten
  <2>3. \A r \in Reservations : Promised'[r] = Promised[r] - q[r]
    BY <1>2, <2>2 DEF Promised
  <2>4. Consumed' = Consumed
    BY <1>2, <2>2 DEF Consumed
  <2>5. QED
    BY <1>1, <1>2, <2>2, <2>3, <2>4, SumsMove
<1>7. /\ \A l : OnLine(q, l) \in Nat
      /\ \A b : AtKey(q, b) \in Nat
      /\ \A l \in SalesLines \ SalesLinesOf(o) : OnLine(q, l) = 0
  <2>1. \A l \in SalesLines \ SalesLinesOf(o) : OnLine(q, l) = 0
    BY <1>1, SumsZero
  <2>2. QED
    BY <1>1, <2>1, SumsNat, OutboundAssumption
<1>8. ASSUME NEW l \in SalesLines
      PROVE  /\ lines[l] \in SalesLineRow
             /\ lines[l].ordered = salesLine[l].ordered
             /\ lines[l].fulfilled = salesLine[l].fulfilled
             /\ lines[l].reserved = OnLine(Promised, l)'
             /\ lines[l].fulfilled = OnLine(Consumed, l)'
             /\ lines[l].reserved + lines[l].fulfilled <= lines[l].ordered
             /\ l \notin SalesLinesOf(o) => lines[l] = salesLine[l]
  <2>1. /\ salesLine[l] \in SalesLineRow
        /\ salesLine[l].reserved = OnLine(Promised, l)
        /\ salesLine[l].fulfilled = OnLine(Consumed, l)
        /\ salesLine[l].reserved + salesLine[l].fulfilled <= salesLine[l].ordered
    BY DEF SalesInv, OutboundTypeOK, LinesMatchReservations
  <2>2. /\ OnLine(q, l) \in Nat
        /\ l \notin SalesLinesOf(o) => OnLine(q, l) = 0
        /\ OnLine(Promised, l)' = OnLine(Promised, l) - OnLine(q, l)
        /\ OnLine(Consumed, l)' = OnLine(Consumed, l)
        /\ OnLine(Promised, l)' \in Nat
    BY <1>6, <1>7
  <2>3. lines[l] = [salesLine[l] EXCEPT !.reserved = salesLine[l].reserved - OnLine(q, l)]
    OBVIOUS
  <2> HIDE DEF lines
  <2>4. QED
    BY <2>1, <2>2, <2>3 DEF SalesLineRow
<1>9. /\ salesLine' \in [SalesLines -> SalesLineRow] /\ LinesMatchReservations'
      /\ salesOrder' \in [SalesOrders -> SalesOrderRow]
      /\ \A p \in SalesOrders :
           /\ salesOrder'[p].workflowStatus = salesOrder[p].workflowStatus
           /\ salesOrder'[p].reservationStatus = SalesReservationStatus(p, salesLine')
           /\ salesOrder'[p].fulfillmentStatus = SalesFulfillmentStatus(p, salesLine')
  <2>1. LinesFollow(o, lines)
    BY <1>8 DEF LinesFollow
  <2> HIDE DEF lines
  <2>2. QED
    BY <1>4, <1>8, <2>1, LinesWritten
<1>10. ReservationsAreNamed' /\ StatusesMatchQuantities'
  BY <1>6, <1>9, CommandKeepsNames
<1>11. balance' \in [BalanceKeys -> BalanceRow] /\ StockNeverOversold' /\ ReservedIsPromised'
  <2>1. Nowhere \in [BalanceKeys -> Int] /\ k \in [BalanceKeys -> Int]
    BY <1>7 DEF Nowhere
  <2>2. \A b \in BalanceKeys : /\ AtKey(Promised, b)' \in Nat
                               /\ AtKey(Promised, b)' = AtKey(Promised, b) + k[b]
                               /\ k[b] <= Nowhere[b]
    <3>1. \A b \in BalanceKeys : AtKey(Promised, b) \in Int
      BY DEF SalesInv, ReservedIsPromised, OutboundTypeOK, StockTypeOK, BalanceRow
    <3>2. QED
      BY <1>6, <1>7, <3>1 DEF Nowhere
  <2> HIDE DEF k
  <2>3. QED
    BY <1>4, <2>1, <2>2, BalancesFollow
<1>12. OutboundTypeOK'
  BY <1>4, <1>6, <1>9, <1>11 DEF RowsKept, SalesInv, OutboundTypeOK, StockTypeOK
<1>13. ReservationsMatchShipments'
  BY <1>4, <1>6 DEF RowsKept, SalesInv, ReservationsMatchShipments, ShippedOf
<1>14. ShipmentsAreNamed'
  BY <1>4, <1>6 DEF RowsKept, SalesInv, ShipmentsAreNamed, SalesLinesOf, ReadyToShip
<1>15. QED
  BY <1>9, <1>10, <1>11, <1>12, <1>13, <1>14 DEF SalesInv

\* Drafting a shipment allocates what it will ship.
LEMMA DraftShipmentStep ==
  ASSUME SalesInv, NEW o \in SalesOrders, NEW s \in Shipments, NEW q \in AllocatableQuantities(o),
         CreateShipmentDraft(o, s, q)
  PROVE  SalesInv'
<1> DEFINE n == [r \in Reservations |-> [reservation[r] EXCEPT !.allocated = @ + q[r]]]
           w == [order |-> o, quantity |-> q, workflowStatus |-> "ready",
                 postingStatus |-> "unposted", allocationStatus |-> "allocated"]
<1>1. /\ q \in [Reservations -> Nat]
      /\ \A r \in Reservations : q[r] # 0 =>
           reservation[r].line \in SalesLinesOf(o) /\ q[r] <= Allocatable(reservation[r])
  BY AllocatableNat
<1>2. ASSUME NEW r \in Reservations
      PROVE  /\ n[r] \in ReservationRow
             /\ q[r] = 0 => n[r] = reservation[r]
             /\ q[r] # 0 => n[r].line \in SalesLines
             /\ n[r].line = reservation[r].line
             /\ n[r].key = reservation[r].key
             /\ n[r].allocated = reservation[r].allocated + q[r]
             /\ n[r].consumed = reservation[r].consumed
             /\ Active(n[r]) = Active(reservation[r])
             /\ Allocatable(n[r]) >= 0
  <2>1. /\ reservation[r] \in ReservationRow /\ Allocatable(reservation[r]) >= 0
        /\ q[r] \in Nat /\ (q[r] # 0 => q[r] <= Allocatable(reservation[r]))
    BY <1>1 DEF SalesInv, OutboundTypeOK, ReservationsMatchShipments
  <2>2. q[r] # 0 => reservation[r].line \in SalesLines
    BY <1>1 DEF SalesLinesOf
  <2>3. QED
    BY <2>1, <2>2 DEF ReservationRow, Active, Allocatable
<1>3. n \in [Reservations -> ReservationRow]
  BY <1>2
<1>4. /\ shipment[s].workflowStatus = "none"
      /\ shipment' = [shipment EXCEPT ![s] = w]
      /\ UNCHANGED <<salesOrder, salesLine, stockVars>>
  BY DEF CreateShipmentDraft
<1>5. reservation' = [r \in Reservations |-> IF q[r] = 0 THEN reservation[r] ELSE Restated(n[r])]
  BY DEF CreateShipmentDraft
<1> HIDE DEF n
<1>6. /\ RowsKept
      /\ \A r \in Reservations : /\ reservation'[r].allocated = n[r].allocated
                                 /\ reservation'[r].consumed = n[r].consumed
                                 /\ Promised'[r] = Active(n[r])
                                 /\ Consumed'[r] = n[r].consumed
  <2>1. Rewrites(q, n)
    BY <1>1, <1>2, <1>3, <1>5 DEF Rewrites
  <2>2. QED
    BY <2>1, RowsRewritten
<1>7. Promised' = Promised /\ Consumed' = Consumed
  BY <1>2, <1>6 DEF Promised, Consumed
<1>8. ShipmentFollows(s, w)
  <2>1. w \in ShipmentRow
    BY <1>1 DEF ShipmentRow
  <2>2. shipment[s] = NoShipment
    BY <1>4 DEF SalesInv, ShipmentsAreNamed
  <2>3. \A r \in Reservations : reservation[r].allocated \in Nat /\ reservation[r].consumed \in Nat
    BY DEF SalesInv, OutboundTypeOK, ReservationRow
  <2>4. QED
    BY <1>1, <1>2, <1>4, <1>6, <2>1, <2>2, <2>3 DEF ShipmentFollows, WritesShipment, NoShipment
<1>9. QED
  BY <1>4, <1>6, <1>7, <1>8, PaperworkStep

\* Cancelling a draft gives its allocation back.
LEMMA CancelShipmentStep ==
  ASSUME SalesInv, NEW s \in Shipments, CancelShipmentDraft(s)
  PROVE  SalesInv'
<1> DEFINE q == shipment[s].quantity
           n == [r \in Reservations |-> [reservation[r] EXCEPT !.allocated = @ - q[r]]]
           w == [shipment[s] EXCEPT !.workflowStatus = "cancelled", !.allocationStatus = "deallocated"]
<1>1. /\ ReadyToShip(s)
      /\ shipment[s] \in ShipmentRow
      /\ q \in [Reservations -> Nat]
      /\ \A r \in Reservations : q[r] <= reservation[r].allocated
  BY DEF CancelShipmentDraft, SalesInv, OutboundTypeOK, ShipmentRow
<1>2. /\ shipment[s].order \in SalesOrders
      /\ shipment[s].allocationStatus = "allocated"
      /\ \A r \in Reservations : q[r] # 0 => reservation[r].line \in SalesLinesOf(shipment[s].order)
  BY <1>1 DEF SalesInv, ShipmentsAreNamed, ReadyToShip
<1>3. /\ reservation' = [r \in Reservations |-> IF q[r] = 0 THEN reservation[r] ELSE Restated(n[r])]
      /\ UNCHANGED <<salesOrder, salesLine, stockVars>>
  BY DEF CancelShipmentDraft
<1>4. /\ shipment' = [shipment EXCEPT ![s] = w]
      /\ w \in ShipmentRow
      /\ w.order = shipment[s].order /\ w.quantity = q
      /\ w.workflowStatus = "cancelled" /\ w.postingStatus = "unposted"
      /\ w.allocationStatus = "deallocated"
  <2>1. shipment' = [shipment EXCEPT ![s].workflowStatus = "cancelled", ![s].allocationStatus = "deallocated"]
    BY DEF CancelShipmentDraft
  <2>2. shipment \in [Shipments -> ShipmentRow]
    BY DEF SalesInv, OutboundTypeOK
  <2>3. shipment' = [shipment EXCEPT ![s] = w]
    BY <2>1, <2>2
  <2>4. QED
    BY <1>1, <2>3 DEF ShipmentRow, ReadyToShip
<1> HIDE DEF q, w
<1>5. ASSUME NEW r \in Reservations
      PROVE  /\ n[r] \in ReservationRow
             /\ q[r] = 0 => n[r] = reservation[r]
             /\ q[r] # 0 => n[r].line \in SalesLines
             /\ n[r].line = reservation[r].line
             /\ n[r].key = reservation[r].key
             /\ n[r].allocated = reservation[r].allocated - q[r]
             /\ n[r].consumed = reservation[r].consumed
             /\ Active(n[r]) = Active(reservation[r])
             /\ Allocatable(n[r]) >= 0
  <2>1. /\ reservation[r] \in ReservationRow /\ Allocatable(reservation[r]) >= 0
        /\ q[r] \in Nat /\ q[r] <= reservation[r].allocated
    BY <1>1 DEF SalesInv, OutboundTypeOK, ReservationsMatchShipments
  <2>2. q[r] # 0 => reservation[r].line \in SalesLines
    BY <1>2 DEF SalesLinesOf
  <2>3. QED
    BY <2>1, <2>2 DEF ReservationRow, Active, Allocatable
<1>6. n \in [Reservations -> ReservationRow]
  BY <1>5
<1> HIDE DEF n
<1>7. /\ RowsKept
      /\ \A r \in Reservations : /\ reservation'[r].allocated = n[r].allocated
                                 /\ reservation'[r].consumed = n[r].consumed
                                 /\ Promised'[r] = Active(n[r])
                                 /\ Consumed'[r] = n[r].consumed
  <2>1. Rewrites(q, n)
    BY <1>1, <1>3, <1>5, <1>6 DEF Rewrites
  <2>2. QED
    BY <2>1, RowsRewritten
<1>8. Promised' = Promised /\ Consumed' = Consumed
  BY <1>5, <1>7 DEF Promised, Consumed
<1>9. ShipmentFollows(s, w)
  <2>1. \A r \in Reservations : reservation[r].allocated \in Nat /\ reservation[r].consumed \in Nat
                               /\ q[r] \in Nat
    BY <1>1 DEF SalesInv, OutboundTypeOK, ReservationRow
  <2>2. shipment[s].allocationStatus = "allocated" /\ shipment[s].quantity = q
    BY <1>2 DEF q
  <2>3. \A r \in Reservations : q[r] # 0 => reservation[r].line \in SalesLinesOf(shipment[s].order)
    BY <1>2
  <2>4. QED
    BY <1>2, <1>4, <1>5, <1>7, <2>1, <2>2, <2>3 DEF ShipmentFollows, WritesShipment
<1>10. QED
  BY <1>3, <1>7, <1>8, <1>9, PaperworkStep

\* Posting a shipment uses its allocation up and takes its goods away.
LEMMA PostShipmentStep ==
  ASSUME SalesInv, NEW s \in Shipments, PostShipment(s)
  PROVE  SalesInv'
<1> DEFINE q == shipment[s].quantity
           o == shipment[s].order
           n == [r \in Reservations |-> [reservation[r] EXCEPT !.allocated = @ - q[r], !.consumed = @ + q[r]]]
           w == [shipment[s] EXCEPT !.postingStatus = "posted", !.allocationStatus = "consumed"]
           lines == [l \in SalesLines |-> [salesLine[l] EXCEPT
                      !.reserved = @ - OnLine(q, l), !.fulfilled = @ + OnLine(q, l)]]
           k == [b \in BalanceKeys |-> -AtKey(q, b)]
<1>1. /\ shipment[s] \in ShipmentRow
      /\ q \in [Reservations -> Nat]
      /\ shipment[s].workflowStatus = "ready"
      /\ shipment[s].allocationStatus = "allocated"
      /\ shipment[s].workflowStatus # "none"
      /\ \A r \in Reservations : q[r] <= reservation[r].allocated
  <2>1. /\ shipment[s] \in ShipmentRow
        /\ q \in [Reservations -> Nat]
    BY DEF SalesInv, OutboundTypeOK, ShipmentRow
  <2>2. /\ shipment[s].workflowStatus = "ready"
        /\ shipment[s].allocationStatus = "allocated"
        /\ \A r \in Reservations : q[r] > 0 => q[r] <= reservation[r].allocated
    BY DEF PostShipment, PostingQuantitiesAllow, ReadyToShip
  <2>3. shipment[s].workflowStatus # "none"
    BY <2>2 DEF SalesInv, ShipmentsAreNamed, NoShipment
  <2>4. ASSUME NEW r \in Reservations PROVE q[r] <= reservation[r].allocated
    <3>1. q[r] \in Nat /\ reservation[r].allocated \in Nat
      BY <2>1 DEF SalesInv, OutboundTypeOK, ReservationRow
    <3>2. q[r] > 0 => q[r] <= reservation[r].allocated
      BY <2>2
    <3> HIDE DEF q
    <3>3. QED
      BY <3>1, <3>2
  <2>5. QED
    BY <2>1, <2>2, <2>3, <2>4
<1>2. /\ o \in SalesOrders
      /\ \A r \in Reservations : q[r] # 0 => reservation[r].line \in SalesLinesOf(o)
  BY <1>1 DEF SalesInv, ShipmentsAreNamed
<1>3. /\ reservation' = [r \in Reservations |-> IF q[r] = 0 THEN reservation[r] ELSE Restated(n[r])]
      /\ WriteShippedLines(o, lines)
      /\ WriteBalances(k, k)
  BY DEF PostShipment
<1>4. movement' = [b \in BalanceKeys |-> [movement[b] EXCEPT !.quantityOut = @ + AtKey(q, b)]]
  BY DEF PostShipment
<1>5. /\ shipment' = [shipment EXCEPT ![s] = w]
      /\ w \in ShipmentRow
      /\ w.order = o /\ w.quantity = q
      /\ w.workflowStatus = shipment[s].workflowStatus /\ w.postingStatus = "posted"
      /\ w.allocationStatus = "consumed"
  <2>1. shipment' = [shipment EXCEPT ![s].postingStatus = "posted", ![s].allocationStatus = "consumed"]
    BY DEF PostShipment
  <2>2. shipment \in [Shipments -> ShipmentRow]
    BY DEF SalesInv, OutboundTypeOK
  <2>3. shipment' = [shipment EXCEPT ![s] = w]
    BY <2>1, <2>2
  <2>4. QED
    BY <1>1, <2>3 DEF ShipmentRow
<1>6. shipment[s].quantity = q
  OBVIOUS
<1> HIDE DEF q, o, w
<1>7. ASSUME NEW r \in Reservations
      PROVE  /\ n[r] \in ReservationRow
             /\ q[r] = 0 => n[r] = reservation[r]
             /\ q[r] # 0 => n[r].line \in SalesLines
             /\ n[r].line = reservation[r].line
             /\ n[r].key = reservation[r].key
             /\ n[r].allocated = reservation[r].allocated - q[r]
             /\ n[r].consumed = reservation[r].consumed + q[r]
             /\ Active(n[r]) = Active(reservation[r]) - q[r]
             /\ Allocatable(n[r]) >= 0
  <2>1. /\ reservation[r] \in ReservationRow /\ Allocatable(reservation[r]) >= 0
        /\ q[r] \in Nat /\ q[r] <= reservation[r].allocated
    BY <1>1 DEF SalesInv, OutboundTypeOK, ReservationsMatchShipments
  <2>2. q[r] # 0 => reservation[r].line \in SalesLines
    BY <1>2 DEF SalesLinesOf
  <2>3. /\ n[r].line = reservation[r].line /\ n[r].key = reservation[r].key
        /\ n[r].reserved = reservation[r].reserved /\ n[r].released = reservation[r].released
        /\ n[r].allocated = reservation[r].allocated - q[r]
        /\ n[r].consumed = reservation[r].consumed + q[r]
    BY <2>1 DEF ReservationRow
  <2>4. /\ n[r] \in ReservationRow
        /\ q[r] = 0 => n[r] = reservation[r]
    <3>1. reservation[r].allocated - q[r] \in Nat /\ reservation[r].consumed + q[r] \in Nat
      BY <2>1 DEF ReservationRow
    <3>2. q[r] = 0 => reservation[r].allocated - q[r] = reservation[r].allocated /\ reservation[r].consumed + q[r] = reservation[r].consumed
      BY <2>1 DEF ReservationRow
    <3>3. QED
      BY <2>1, <3>1, <3>2 DEF ReservationRow
  <2>5. /\ reservation[r].reserved \in Nat /\ reservation[r].allocated \in Nat
        /\ reservation[r].consumed \in Nat /\ reservation[r].released \in Nat
    BY <2>1 DEF ReservationRow
  <2> HIDE DEF n
  <2>6. QED
    BY <2>1, <2>2, <2>3, <2>4, <2>5 DEF Active, Allocatable
<1>8. n \in [Reservations -> ReservationRow]
  BY <1>7
<1> HIDE DEF n
<1>9. /\ RowsKept
      /\ \A r \in Reservations : /\ reservation'[r].allocated = n[r].allocated
                                 /\ reservation'[r].consumed = n[r].consumed
                                 /\ Promised'[r] = Active(n[r])
                                 /\ Consumed'[r] = n[r].consumed
  <2>1. Rewrites(q, n)
    BY <1>1, <1>3, <1>7, <1>8 DEF Rewrites
  <2>2. QED
    BY <2>1, RowsRewritten
<1>10. /\ \A l : OnLine(Promised, l)' = OnLine(Promised, l) - OnLine(q, l)
       /\ \A l : OnLine(Consumed, l)' = OnLine(Consumed, l) + OnLine(q, l)
       /\ \A b : AtKey(Promised, b)' = AtKey(Promised, b) - AtKey(q, b)
       /\ \A l : OnLine(Promised, l)' \in Nat /\ OnLine(Consumed, l)' \in Nat
       /\ \A b : AtKey(Promised, b)' \in Nat
  <2>1. \A r \in Reservations : Promised'[r] = Promised[r] - q[r]
    BY <1>7, <1>9 DEF Promised
  <2>2. \A r \in Reservations : Consumed'[r] = Consumed[r] + q[r]
    BY <1>7, <1>9 DEF Consumed
  <2>3. QED
    BY <1>1, <1>9, <2>1, <2>2, SumsMove
<1>11. /\ \A l : OnLine(q, l) \in Nat
       /\ \A b : AtKey(q, b) \in Nat
       /\ \A l \in SalesLines \ SalesLinesOf(o) : OnLine(q, l) = 0
  <2>1. \A l \in SalesLines \ SalesLinesOf(o) : OnLine(q, l) = 0
    BY <1>1, <1>2, SumsZero
  <2>2. QED
    BY <1>1, <2>1, SumsNat, OutboundAssumption
<1>12. ASSUME NEW l \in SalesLines
       PROVE  /\ lines[l] \in SalesLineRow
              /\ lines[l].ordered = salesLine[l].ordered
              /\ lines[l].reserved = OnLine(Promised, l)'
              /\ lines[l].fulfilled = OnLine(Consumed, l)'
              /\ lines[l].reserved + lines[l].fulfilled <= lines[l].ordered
              /\ l \notin SalesLinesOf(o) => lines[l] = salesLine[l]
  <2>1. /\ salesLine[l] \in SalesLineRow
        /\ salesLine[l].reserved = OnLine(Promised, l)
        /\ salesLine[l].fulfilled = OnLine(Consumed, l)
        /\ salesLine[l].reserved + salesLine[l].fulfilled <= salesLine[l].ordered
    BY DEF SalesInv, OutboundTypeOK, LinesMatchReservations
  <2>2. /\ OnLine(q, l) \in Nat
        /\ l \notin SalesLinesOf(o) => OnLine(q, l) = 0
        /\ OnLine(Promised, l)' = OnLine(Promised, l) - OnLine(q, l)
        /\ OnLine(Consumed, l)' = OnLine(Consumed, l) + OnLine(q, l)
        /\ OnLine(Promised, l)' \in Nat /\ OnLine(Consumed, l)' \in Nat
    BY <1>10, <1>11
  <2>3. lines[l] = [salesLine[l] EXCEPT !.reserved = salesLine[l].reserved - OnLine(q, l),
                                        !.fulfilled = salesLine[l].fulfilled + OnLine(q, l)]
    OBVIOUS
  <2> HIDE DEF lines
  <2>4. lines[l] = [ordered |-> salesLine[l].ordered, reserved |-> OnLine(Promised, l)',
                    fulfilled |-> OnLine(Consumed, l)']
    BY <2>1, <2>2, <2>3 DEF SalesLineRow
  <2>5. l \notin SalesLinesOf(o) => lines[l] = salesLine[l]
    <3>1. salesLine[l] = [ordered |-> salesLine[l].ordered, reserved |-> salesLine[l].reserved,
                          fulfilled |-> salesLine[l].fulfilled]
      BY <2>1 DEF SalesLineRow
    <3>2. /\ salesLine[l].reserved \in Nat /\ salesLine[l].fulfilled \in Nat
      BY <2>1 DEF SalesLineRow
    <3>3. QED
      BY <2>1, <2>2, <2>4, <3>1, <3>2
  <2>6. OnLine(Promised, l)' + OnLine(Consumed, l)' = OnLine(Promised, l) + OnLine(Consumed, l)
    BY <2>1, <2>2 DEF SalesLineRow
  <2>7. QED
    BY <2>1, <2>2, <2>4, <2>5, <2>6 DEF SalesLineRow
<1>13. /\ salesLine' \in [SalesLines -> SalesLineRow] /\ LinesMatchReservations'
       /\ salesOrder' \in [SalesOrders -> SalesOrderRow]
       /\ \A p \in SalesOrders :
            /\ salesOrder'[p].workflowStatus = salesOrder[p].workflowStatus
            /\ salesOrder'[p].reservationStatus = SalesReservationStatus(p, salesLine')
            /\ salesOrder'[p].fulfillmentStatus = SalesFulfillmentStatus(p, salesLine')
  <2>1. LinesFollow(o, lines)
    BY <1>12 DEF LinesFollow
  <2> HIDE DEF lines
  <2>2. QED
    BY <1>2, <1>3, <2>1, LinesWritten
<1>14. ReservationsAreNamed' /\ StatusesMatchQuantities'
  BY <1>9, <1>13, CommandKeepsNames
<1>15. balance' \in [BalanceKeys -> BalanceRow] /\ StockNeverOversold' /\ ReservedIsPromised'
  <2>1. k \in [BalanceKeys -> Int]
    BY <1>11
  <2>2. \A b \in BalanceKeys : /\ AtKey(Promised, b)' \in Nat
                               /\ AtKey(Promised, b)' = AtKey(Promised, b) + k[b]
                               /\ k[b] <= k[b]
    <3>1. \A b \in BalanceKeys : AtKey(Promised, b) \in Int
      BY DEF SalesInv, ReservedIsPromised, OutboundTypeOK, StockTypeOK, BalanceRow
    <3>2. QED
      BY <1>10, <1>11, <3>1
  <2> HIDE DEF k
  <2>3. QED
    BY <1>3, <2>1, <2>2, BalancesFollow
<1>16. shipment' \in [Shipments -> ShipmentRow] /\ ReservationsMatchShipments' /\ ShipmentsAreNamed'
  <2>1. ShipmentFollows(s, w)
    <3>1. \A r \in Reservations : reservation[r].allocated \in Nat /\ reservation[r].consumed \in Nat
                                 /\ q[r] \in Nat
      BY <1>1 DEF SalesInv, OutboundTypeOK, ReservationRow
    <3>2. QED
      BY <1>1, <1>2, <1>5, <1>6, <1>7, <1>9, <3>1 DEF ShipmentFollows, WritesShipment
  <2>2. QED
    BY <1>9, <2>1, ShipmentKept
<1>17. movement' \in [BalanceKeys -> MovementSums]
  <2>1. \A b \in BalanceKeys : movement[b] \in MovementSums /\ AtKey(q, b) \in Nat
    BY <1>11 DEF SalesInv, OutboundTypeOK, StockTypeOK
  <2>2. \A b \in BalanceKeys : [movement[b] EXCEPT !.quantityOut = @ + AtKey(q, b)] \in MovementSums
    BY <2>1 DEF MovementSums
  <2>3. QED
    BY <1>4, <2>2
<1>18. OutboundTypeOK'
  BY <1>9, <1>13, <1>15, <1>16, <1>17 DEF RowsKept, OutboundTypeOK, StockTypeOK
<1>19. QED
  BY <1>13, <1>14, <1>15, <1>16, <1>18 DEF SalesInv

\* Reversing a shipment brings the goods and their reservation back.
LEMMA ReverseShipmentStep ==
  ASSUME SalesInv, NEW s \in Shipments, ReverseShipment(s)
  PROVE  SalesInv'
<1> DEFINE q == shipment[s].quantity
           o == shipment[s].order
           n == [r \in Reservations |-> [reservation[r] EXCEPT !.consumed = @ - q[r]]]
           w == [shipment[s] EXCEPT !.postingStatus = "reversed", !.allocationStatus = "reversed"]
           lines == [l \in SalesLines |-> [salesLine[l] EXCEPT
                      !.reserved = @ + OnLine(q, l), !.fulfilled = @ - OnLine(q, l)]]
           k == [b \in BalanceKeys |-> AtKey(q, b)]
<1>1. /\ shipment[s] \in ShipmentRow
      /\ q \in [Reservations -> Nat]
      /\ shipment[s].postingStatus = "posted"
      /\ shipment[s].allocationStatus = "consumed"
      /\ shipment[s].workflowStatus # "none"
      /\ \A r \in Reservations : q[r] <= reservation[r].consumed
  <2>1. /\ shipment[s] \in ShipmentRow
        /\ q \in [Reservations -> Nat]
    BY DEF SalesInv, OutboundTypeOK, ShipmentRow
  <2>2. /\ shipment[s].postingStatus = "posted"
        /\ shipment[s].allocationStatus = "consumed"
        /\ \A r \in Reservations : q[r] > 0 => q[r] <= reservation[r].consumed
    BY DEF ReverseShipment, ReversalQuantitiesAllow, ReadyToShip
  <2>3. shipment[s].workflowStatus # "none"
    BY <2>2 DEF SalesInv, ShipmentsAreNamed, NoShipment
  <2>4. ASSUME NEW r \in Reservations PROVE q[r] <= reservation[r].consumed
    <3>1. q[r] \in Nat /\ reservation[r].consumed \in Nat
      BY <2>1 DEF SalesInv, OutboundTypeOK, ReservationRow
    <3>2. q[r] > 0 => q[r] <= reservation[r].consumed
      BY <2>2
    <3> HIDE DEF q
    <3>3. QED
      BY <3>1, <3>2
  <2>5. QED
    BY <2>1, <2>2, <2>3, <2>4
<1>2. /\ o \in SalesOrders
      /\ \A r \in Reservations : q[r] # 0 => reservation[r].line \in SalesLinesOf(o)
  BY <1>1 DEF SalesInv, ShipmentsAreNamed
<1>3. /\ reservation' = [r \in Reservations |-> IF q[r] = 0 THEN reservation[r] ELSE Restated(n[r])]
      /\ WriteShippedLines(o, lines)
      /\ WriteBalances(k, k)
  BY DEF ReverseShipment
<1>4. movement' = [b \in BalanceKeys |-> [movement[b] EXCEPT !.quantityIn = @ + AtKey(q, b)]]
  BY DEF ReverseShipment
<1>5. /\ shipment' = [shipment EXCEPT ![s] = w]
      /\ w \in ShipmentRow
      /\ w.order = o /\ w.quantity = q
      /\ w.workflowStatus = shipment[s].workflowStatus /\ w.postingStatus = "reversed"
      /\ w.allocationStatus = "reversed"
  <2>1. shipment' = [shipment EXCEPT ![s].postingStatus = "reversed", ![s].allocationStatus = "reversed"]
    BY DEF ReverseShipment
  <2>2. shipment \in [Shipments -> ShipmentRow]
    BY DEF SalesInv, OutboundTypeOK
  <2>3. shipment' = [shipment EXCEPT ![s] = w]
    BY <2>1, <2>2
  <2>4. QED
    BY <1>1, <2>3 DEF ShipmentRow
<1>6. shipment[s].quantity = q
  OBVIOUS
<1> HIDE DEF q, o, w
<1>7. ASSUME NEW r \in Reservations
      PROVE  /\ n[r] \in ReservationRow
             /\ q[r] = 0 => n[r] = reservation[r]
             /\ q[r] # 0 => n[r].line \in SalesLines
             /\ n[r].line = reservation[r].line
             /\ n[r].key = reservation[r].key
             /\ n[r].allocated = reservation[r].allocated
             /\ n[r].consumed = reservation[r].consumed - q[r]
             /\ Active(n[r]) = Active(reservation[r]) + q[r]
             /\ Allocatable(n[r]) >= 0
  <2>1. /\ reservation[r] \in ReservationRow /\ Allocatable(reservation[r]) >= 0
        /\ q[r] \in Nat /\ q[r] <= reservation[r].consumed
    BY <1>1 DEF SalesInv, OutboundTypeOK, ReservationsMatchShipments
  <2>2. q[r] # 0 => reservation[r].line \in SalesLines
    BY <1>2 DEF SalesLinesOf
  <2>3. /\ n[r].line = reservation[r].line /\ n[r].key = reservation[r].key
        /\ n[r].reserved = reservation[r].reserved /\ n[r].released = reservation[r].released
        /\ n[r].allocated = reservation[r].allocated
        /\ n[r].consumed = reservation[r].consumed - q[r]
    BY <2>1 DEF ReservationRow
  <2>4. /\ n[r] \in ReservationRow
        /\ q[r] = 0 => n[r] = reservation[r]
    <3>1. reservation[r].allocated \in Nat /\ reservation[r].consumed - q[r] \in Nat
      BY <2>1 DEF ReservationRow
    <3>2. q[r] = 0 => reservation[r].allocated = reservation[r].allocated /\ reservation[r].consumed - q[r] = reservation[r].consumed
      BY <2>1 DEF ReservationRow
    <3>3. QED
      BY <2>1, <3>1, <3>2 DEF ReservationRow
  <2>5. /\ reservation[r].reserved \in Nat /\ reservation[r].allocated \in Nat
        /\ reservation[r].consumed \in Nat /\ reservation[r].released \in Nat
    BY <2>1 DEF ReservationRow
  <2> HIDE DEF n
  <2>6. QED
    BY <2>1, <2>2, <2>3, <2>4, <2>5 DEF Active, Allocatable
<1>8. n \in [Reservations -> ReservationRow]
  BY <1>7
<1> HIDE DEF n
<1>9. /\ RowsKept
      /\ \A r \in Reservations : /\ reservation'[r].allocated = n[r].allocated
                                 /\ reservation'[r].consumed = n[r].consumed
                                 /\ Promised'[r] = Active(n[r])
                                 /\ Consumed'[r] = n[r].consumed
  <2>1. Rewrites(q, n)
    BY <1>1, <1>3, <1>7, <1>8 DEF Rewrites
  <2>2. QED
    BY <2>1, RowsRewritten
<1>10. /\ \A l : OnLine(Promised, l)' = OnLine(Promised, l) + OnLine(q, l)
       /\ \A l : OnLine(Consumed, l)' = OnLine(Consumed, l) - OnLine(q, l)
       /\ \A b : AtKey(Promised, b)' = AtKey(Promised, b) + AtKey(q, b)
       /\ \A l : OnLine(Promised, l)' \in Nat /\ OnLine(Consumed, l)' \in Nat
       /\ \A b : AtKey(Promised, b)' \in Nat
  <2>1. \A r \in Reservations : Promised'[r] = Promised[r] + q[r]
    BY <1>7, <1>9 DEF Promised
  <2>2. \A r \in Reservations : Consumed'[r] = Consumed[r] - q[r]
    BY <1>7, <1>9 DEF Consumed
  <2>3. QED
    BY <1>1, <1>9, <2>1, <2>2, SumsMove
<1>11. /\ \A l : OnLine(q, l) \in Nat
       /\ \A b : AtKey(q, b) \in Nat
       /\ \A l \in SalesLines \ SalesLinesOf(o) : OnLine(q, l) = 0
  <2>1. \A l \in SalesLines \ SalesLinesOf(o) : OnLine(q, l) = 0
    BY <1>1, <1>2, SumsZero
  <2>2. QED
    BY <1>1, <2>1, SumsNat, OutboundAssumption
<1>12. ASSUME NEW l \in SalesLines
       PROVE  /\ lines[l] \in SalesLineRow
              /\ lines[l].ordered = salesLine[l].ordered
              /\ lines[l].reserved = OnLine(Promised, l)'
              /\ lines[l].fulfilled = OnLine(Consumed, l)'
              /\ lines[l].reserved + lines[l].fulfilled <= lines[l].ordered
              /\ l \notin SalesLinesOf(o) => lines[l] = salesLine[l]
  <2>1. /\ salesLine[l] \in SalesLineRow
        /\ salesLine[l].reserved = OnLine(Promised, l)
        /\ salesLine[l].fulfilled = OnLine(Consumed, l)
        /\ salesLine[l].reserved + salesLine[l].fulfilled <= salesLine[l].ordered
    BY DEF SalesInv, OutboundTypeOK, LinesMatchReservations
  <2>2. /\ OnLine(q, l) \in Nat
        /\ l \notin SalesLinesOf(o) => OnLine(q, l) = 0
        /\ OnLine(Promised, l)' = OnLine(Promised, l) + OnLine(q, l)
        /\ OnLine(Consumed, l)' = OnLine(Consumed, l) - OnLine(q, l)
        /\ OnLine(Promised, l)' \in Nat /\ OnLine(Consumed, l)' \in Nat
    BY <1>10, <1>11
  <2>3. lines[l] = [salesLine[l] EXCEPT !.reserved = salesLine[l].reserved + OnLine(q, l),
                                        !.fulfilled = salesLine[l].fulfilled - OnLine(q, l)]
    OBVIOUS
  <2> HIDE DEF lines
  <2>4. lines[l] = [ordered |-> salesLine[l].ordered, reserved |-> OnLine(Promised, l)',
                    fulfilled |-> OnLine(Consumed, l)']
    BY <2>1, <2>2, <2>3 DEF SalesLineRow
  <2>5. l \notin SalesLinesOf(o) => lines[l] = salesLine[l]
    <3>1. salesLine[l] = [ordered |-> salesLine[l].ordered, reserved |-> salesLine[l].reserved,
                          fulfilled |-> salesLine[l].fulfilled]
      BY <2>1 DEF SalesLineRow
    <3>2. /\ salesLine[l].reserved \in Nat /\ salesLine[l].fulfilled \in Nat
      BY <2>1 DEF SalesLineRow
    <3>3. QED
      BY <2>1, <2>2, <2>4, <3>1, <3>2
  <2>6. OnLine(Promised, l)' + OnLine(Consumed, l)' = OnLine(Promised, l) + OnLine(Consumed, l)
    BY <2>1, <2>2 DEF SalesLineRow
  <2>7. QED
    BY <2>1, <2>2, <2>4, <2>5, <2>6 DEF SalesLineRow
<1>13. /\ salesLine' \in [SalesLines -> SalesLineRow] /\ LinesMatchReservations'
       /\ salesOrder' \in [SalesOrders -> SalesOrderRow]
       /\ \A p \in SalesOrders :
            /\ salesOrder'[p].workflowStatus = salesOrder[p].workflowStatus
            /\ salesOrder'[p].reservationStatus = SalesReservationStatus(p, salesLine')
            /\ salesOrder'[p].fulfillmentStatus = SalesFulfillmentStatus(p, salesLine')
  <2>1. LinesFollow(o, lines)
    BY <1>12 DEF LinesFollow
  <2> HIDE DEF lines
  <2>2. QED
    BY <1>2, <1>3, <2>1, LinesWritten
<1>14. ReservationsAreNamed' /\ StatusesMatchQuantities'
  BY <1>9, <1>13, CommandKeepsNames
<1>15. balance' \in [BalanceKeys -> BalanceRow] /\ StockNeverOversold' /\ ReservedIsPromised'
  <2>1. k \in [BalanceKeys -> Int]
    BY <1>11
  <2>2. \A b \in BalanceKeys : /\ AtKey(Promised, b)' \in Nat
                               /\ AtKey(Promised, b)' = AtKey(Promised, b) + k[b]
                               /\ k[b] <= k[b]
    <3>1. \A b \in BalanceKeys : AtKey(Promised, b) \in Int
      BY DEF SalesInv, ReservedIsPromised, OutboundTypeOK, StockTypeOK, BalanceRow
    <3>2. QED
      BY <1>10, <1>11, <3>1
  <2> HIDE DEF k
  <2>3. QED
    BY <1>3, <2>1, <2>2, BalancesFollow
<1>16. shipment' \in [Shipments -> ShipmentRow] /\ ReservationsMatchShipments' /\ ShipmentsAreNamed'
  <2>1. ShipmentFollows(s, w)
    <3>1. \A r \in Reservations : reservation[r].allocated \in Nat /\ reservation[r].consumed \in Nat
                                 /\ q[r] \in Nat
      BY <1>1 DEF SalesInv, OutboundTypeOK, ReservationRow
    <3>2. QED
      BY <1>1, <1>2, <1>5, <1>6, <1>7, <1>9, <3>1 DEF ShipmentFollows, WritesShipment
  <2>2. QED
    BY <1>9, <2>1, ShipmentKept
<1>17. movement' \in [BalanceKeys -> MovementSums]
  <2>1. \A b \in BalanceKeys : movement[b] \in MovementSums /\ AtKey(q, b) \in Nat
    BY <1>11 DEF SalesInv, OutboundTypeOK, StockTypeOK
  <2>2. \A b \in BalanceKeys : [movement[b] EXCEPT !.quantityIn = @ + AtKey(q, b)] \in MovementSums
    BY <2>1 DEF MovementSums
  <2>3. QED
    BY <1>4, <2>2
<1>18. OutboundTypeOK'
  BY <1>9, <1>13, <1>15, <1>16, <1>17 DEF RowsKept, OutboundTypeOK, StockTypeOK
<1>19. QED
  BY <1>13, <1>14, <1>15, <1>16, <1>18 DEF SalesInv

-----------------------------------------------------------------------------
\* Reserving stock, and the orders themselves

\* What a reserve command asks for: new reservations, on lines of its order.
LEMMA RequestIsNew ==
  ASSUME OutboundTypeOK, ReservationsAreNamed,
         NEW o \in SalesOrders, NEW ask \in ReserveRequests(o)
  PROVE  /\ DOMAIN ask \in SUBSET Reservations
         /\ \A r \in DOMAIN ask :
              /\ reservation[r] = NoReservation
              /\ ask[r].line \in SalesLines /\ SalesOrderOf[ask[r].line] = o
              /\ ask[r].key \in BalanceKeys
              /\ ask[r].quantity \in Nat /\ ask[r].quantity > 0
<1> DEFINE new == {r \in Reservations : reservation[r].status = "none"}
           allocations == {a \in [line : SalesLinesOf(o), key : BalanceKeys, quantity : 1..MaxOrdered] :
                             KeyItem[a.key] = SalesLineItem[a.line]}
<1>1. PICK rs \in SUBSET new : ask \in [rs -> allocations]
  BY DEF ReserveRequests
<1>2. DOMAIN ask = rs /\ \A r \in rs : ask[r] \in allocations /\ r \in new
  BY <1>1
<1>3. \A a \in allocations : /\ a.line \in SalesLinesOf(o) /\ a.key \in BalanceKeys
                             /\ a.quantity \in Nat /\ a.quantity > 0
  BY OutboundAssumption
<1>4. \A r \in new : r \in Reservations /\ reservation[r] = NoReservation
  BY DEF ReservationsAreNamed
<1> HIDE DEF new, allocations
<1>5. QED
  BY <1>2, <1>3, <1>4 DEF SalesLinesOf

\* Requested quantities are what the new reservations hold on a line or at a key.
LEMMA RequestedSums ==
  ASSUME NEW ask, DOMAIN ask \in SUBSET Reservations,
         \A r \in DOMAIN ask : ask[r].quantity \in Nat,
         NEW d \in [Reservations -> Nat],
         \A r \in Reservations : d[r] = IF r \in DOMAIN ask THEN ask[r].quantity ELSE 0,
         NEW f, \A r \in DOMAIN ask : f[r] = ask[r].line,
         NEW g, \A r \in DOMAIN ask : g[r] = ask[r].key
  PROVE  /\ \A l : RequestedOnLine(ask, l) = Total(Share(f, l, d))
         /\ \A b : RequestedAt(ask, b) = Total(Share(g, b, d))
<1>1. ASSUME NEW l PROVE RequestedOnLine(ask, l) = Total(Share(f, l, d))
  <2> DEFINE q == [r \in DOMAIN ask |-> IF ask[r].line = l THEN ask[r].quantity ELSE 0]
  <2>1. q \in [DOMAIN ask -> Nat]
    OBVIOUS
  <2>2. /\ Share(f, l, d) \in [Reservations -> Nat]
        /\ \A r \in DOMAIN ask : Share(f, l, d)[r] = q[r]
        /\ \A r \in Reservations \ DOMAIN ask : Share(f, l, d)[r] = 0
    BY DEF Share
  <2>3. RequestedOnLine(ask, l) = Total(q)
    BY DEF RequestedOnLine
  <2> HIDE DEF q
  <2>4. Total(Share(f, l, d)) = Total(q)
    BY <2>1, <2>2, TotalExtend
  <2>5. QED
    BY <2>3, <2>4
<1>2. ASSUME NEW b PROVE RequestedAt(ask, b) = Total(Share(g, b, d))
  <2> DEFINE q == [r \in DOMAIN ask |-> IF ask[r].key = b THEN ask[r].quantity ELSE 0]
  <2>1. q \in [DOMAIN ask -> Nat]
    OBVIOUS
  <2>2. /\ Share(g, b, d) \in [Reservations -> Nat]
        /\ \A r \in DOMAIN ask : Share(g, b, d)[r] = q[r]
        /\ \A r \in Reservations \ DOMAIN ask : Share(g, b, d)[r] = 0
    BY DEF Share
  <2>3. RequestedAt(ask, b) = Total(q)
    BY DEF RequestedAt
  <2> HIDE DEF q
  <2>4. Total(Share(g, b, d)) = Total(q)
    BY <2>1, <2>2, TotalExtend
  <2>5. QED
    BY <2>3, <2>4
<1>3. QED
  BY <1>1, <1>2

\* A reserve command asks nothing for the lines of other orders.
LEMMA RequestedElsewhere ==
  ASSUME OutboundTypeOK, ReservationsAreNamed,
         NEW o \in SalesOrders, NEW ask \in ReserveRequests(o)
  PROVE  \A l \in SalesLines : l \notin SalesLinesOf(o) => RequestedOnLine(ask, l) = 0
<1> SUFFICES ASSUME NEW l \in SalesLines, l \notin SalesLinesOf(o)
             PROVE  RequestedOnLine(ask, l) = 0
  OBVIOUS
<1> DEFINE q == [r \in DOMAIN ask |-> IF ask[r].line = l THEN ask[r].quantity ELSE 0]
<1>1. \A r \in DOMAIN ask : ask[r].line # l
  BY RequestIsNew DEF SalesLinesOf
<1>2. q \in [DOMAIN ask -> Nat] /\ \A r \in DOMAIN ask : q[r] = 0
  BY <1>1
<1> HIDE DEF q
<1>3. Total(q) = 0
  BY <1>2, TotalZero
<1>4. QED
  BY <1>3 DEF RequestedOnLine, q

\* New reservations promise what was available on the lines that still need it.
LEMMA ReserveStep ==
  ASSUME SalesInv, NEW o \in SalesOrders, NEW ask \in ReserveRequests(o), ReserveInventory(o, ask)
  PROVE  SalesInv'
<1> DEFINE new(r) == [line |-> ask[r].line, key |-> ask[r].key, reserved |-> ask[r].quantity,
                      allocated |-> 0, consumed |-> 0, released |-> 0, status |-> "active"]
           d == [r \in Reservations |-> IF r \in DOMAIN ask THEN ask[r].quantity ELSE 0]
           lines == [l \in SalesLines |-> [salesLine[l] EXCEPT !.reserved = @ + RequestedOnLine(ask, l)]]
           k == [b \in BalanceKeys |-> RequestedAt(ask, b)]
<1>1. /\ DOMAIN ask \in SUBSET Reservations
      /\ \A r \in DOMAIN ask :
           /\ reservation[r] = NoReservation
           /\ ask[r].line \in SalesLines /\ SalesOrderOf[ask[r].line] = o
           /\ ask[r].key \in BalanceKeys
           /\ ask[r].quantity \in Nat /\ ask[r].quantity > 0
  BY RequestIsNew DEF SalesInv
<1>2. /\ WriteReservedLines(o, lines)
      /\ WriteBalances(Nowhere, k)
      /\ UNCHANGED <<shipment, movement>>
      /\ salesOrder[o].workflowStatus = "confirmed"
      /\ RequestFits(o, ask)
  BY DEF ReserveInventory, OrderConfirmed
<1>3. reservation' = [r \in Reservations |-> IF r \in DOMAIN ask THEN new(r) ELSE reservation[r]]
  BY DEF ReserveInventory
<1>4. \A r \in Reservations :
        /\ r \in DOMAIN ask => reservation'[r] = new(r)
        /\ r \notin DOMAIN ask => reservation'[r] = reservation[r]
  BY <1>3
<1>5. ASSUME NEW r \in DOMAIN ask
      PROVE  /\ reservation'[r] \in ReservationRow
             /\ reservation'[r].line = ask[r].line /\ reservation'[r].key = ask[r].key
             /\ reservation'[r].allocated = 0 /\ reservation'[r].consumed = 0
             /\ Active(reservation'[r]) = ask[r].quantity
             /\ Allocatable(reservation'[r]) >= 0
             /\ reservation'[r].status = "active"
             /\ ReservationStatus(reservation'[r]) = "active"
             /\ reservation[r].line = None /\ reservation[r].key = None
             /\ reservation[r].allocated = 0 /\ reservation[r].consumed = 0
             /\ Active(reservation[r]) = 0
  <2>1. r \in Reservations
    BY <1>1
  <2>2. reservation'[r] = new(r)
    BY <1>4, <2>1
  <2>3. /\ ask[r].line \in SalesLines /\ ask[r].key \in BalanceKeys
        /\ ask[r].quantity \in Nat /\ ask[r].quantity > 0
        /\ reservation[r] = NoReservation
    BY <1>1
  <2>4. reservation'[r] \in ReservationRow
    BY <2>2, <2>3 DEF ReservationRow, ReservationStates
  <2>5. QED
    BY <2>2, <2>3, <2>4 DEF Active, Allocatable, ReservationStatus, NoReservation
<1> HIDE DEF new
<1>6. reservation' \in [Reservations -> ReservationRow]
  <2>1. \A r \in Reservations : reservation'[r] \in ReservationRow
    BY <1>4, <1>5 DEF SalesInv, OutboundTypeOK
  <2>2. reservation' = [r \in Reservations |-> reservation'[r]]
    BY <1>3
  <2>3. QED
    BY <2>1, <2>2
<1>7. /\ d \in [Reservations -> Nat]
      /\ Promised \in [Reservations -> Nat] /\ Consumed \in [Reservations -> Nat]
      /\ Promised' \in [Reservations -> Nat] /\ Consumed' = Consumed
      /\ \A r \in Reservations : /\ Promised'[r] = Promised[r] + d[r]
                                 /\ Promised[r] # 0 => r \notin DOMAIN ask
                                 /\ Consumed[r] # 0 => r \notin DOMAIN ask
                                 /\ d[r] = IF r \in DOMAIN ask THEN ask[r].quantity ELSE 0
  <2>1. Promised \in [Reservations -> Nat] /\ Consumed \in [Reservations -> Nat]
    BY HoldsNat DEF SalesInv
  <2>2. \A r \in Reservations : /\ Promised[r] = Active(reservation[r])
                                /\ Promised'[r] = Active(reservation'[r])
                                /\ Consumed[r] = reservation[r].consumed
                                /\ Consumed'[r] = reservation'[r].consumed
    BY DEF Promised, Consumed
  <2>3. d \in [Reservations -> Nat]
    BY <1>1
  <2>4. \A r \in Reservations : d[r] = IF r \in DOMAIN ask THEN ask[r].quantity ELSE 0
    OBVIOUS
  <2> HIDE DEF d
  <2>5. ASSUME NEW r \in Reservations
        PROVE  /\ Promised'[r] = Promised[r] + d[r] /\ Promised'[r] \in Nat
               /\ Promised[r] # 0 => r \notin DOMAIN ask
               /\ Consumed[r] # 0 => r \notin DOMAIN ask
               /\ Consumed'[r] = Consumed[r]
    <3>1. CASE r \in DOMAIN ask
      BY <1>1, <1>5, <2>2, <2>4, <3>1
    <3>2. CASE r \notin DOMAIN ask
      BY <1>4, <2>1, <2>2, <2>4, <3>2
    <3>3. QED
      BY <3>1, <3>2
  <2>6. Promised' \in [Reservations -> Nat] /\ Consumed' = Consumed
    BY <2>5 DEF Promised, Consumed
  <2>7. QED
    BY <2>1, <2>3, <2>4, <2>5, <2>6
<1> HIDE DEF d
<1>8. /\ \A r \in Reservations :
           /\ r \notin DOMAIN ask => LineOf'[r] = LineOf[r] /\ KeyOf'[r] = KeyOf[r]
           /\ LineOf[r] = reservation[r].line /\ LineOf'[r] = reservation'[r].line
           /\ KeyOf[r] = reservation[r].key /\ KeyOf'[r] = reservation'[r].key
      /\ \A r \in DOMAIN ask : LineOf'[r] = ask[r].line /\ KeyOf'[r] = ask[r].key
  BY <1>1, <1>4, <1>5 DEF LineOf, KeyOf
<1>9. /\ \A l : RequestedOnLine(ask, l) = Total(Share(LineOf', l, d))
      /\ \A b : RequestedAt(ask, b) = Total(Share(KeyOf', b, d))
  <2>1. \A r \in DOMAIN ask : ask[r].quantity \in Nat
    BY <1>1
  <2>2. d \in [Reservations -> Nat] /\ \A r \in Reservations :
          d[r] = IF r \in DOMAIN ask THEN ask[r].quantity ELSE 0
    BY <1>7
  <2>3. \A r \in DOMAIN ask : LineOf'[r] = ask[r].line
    BY <1>8
  <2>4. \A r \in DOMAIN ask : KeyOf'[r] = ask[r].key
    BY <1>8
  <2>5. DOMAIN ask \in SUBSET Reservations
    BY <1>1
  <2>6. QED
    BY <2>1, <2>2, <2>3, <2>4, <2>5, RequestedSums
<1>10. ASSUME NEW l
       PROVE  /\ OnLine(Promised, l)' = OnLine(Promised, l) + RequestedOnLine(ask, l)
              /\ OnLine(Consumed, l)' = OnLine(Consumed, l)
              /\ OnLine(Promised, l) \in Nat /\ OnLine(Consumed, l) \in Nat
              /\ RequestedOnLine(ask, l) \in Nat
  <2>1. OnLine(Promised, l)' = Total(Share(LineOf', l, Promised'))
    <3>1. [r \in Reservations |-> IF reservation'[r].line = l THEN Promised'[r] ELSE 0]
            = Share(LineOf', l, Promised')
      BY <1>7, <1>8 DEF Share
    <3>2. QED
      BY <3>1 DEF OnLine
  <2>2. OnLine(Promised, l) = Total(Share(LineOf, l, Promised))
    BY <1>7, SumsAreShares
  <2>3. Total(Share(LineOf', l, Promised')) = Total(Share(LineOf, l, Promised)) + Total(Share(LineOf', l, d))
    <3>1. \A r \in Reservations : /\ Promised'[r] = Promised[r] + d[r]
                                  /\ Promised[r] # 0 => LineOf[r] = LineOf'[r]
                                  /\ d[r] # 0 => LineOf'[r] = LineOf'[r]
      BY <1>7, <1>8
    <3>2. /\ IsFiniteSet(Reservations) /\ d \in [Reservations -> Nat]
          /\ Promised \in [Reservations -> Nat] /\ Promised' \in [Reservations -> Nat]
      BY <1>7, OutboundAssumption
    <3>3. QED
      BY <3>1, <3>2, ShareAdd
  <2>4. OnLine(Consumed, l)' = OnLine(Consumed, l)
    <3>1. \A r \in Reservations : (IF reservation'[r].line = l THEN Consumed'[r] ELSE 0)
                                    = (IF reservation[r].line = l THEN Consumed[r] ELSE 0)
      BY <1>4, <1>7
    <3>2. QED
      BY <3>1 DEF OnLine
  <2>5. Total(Share(LineOf', l, d)) \in Nat
    BY <1>7, ShareNat, OutboundAssumption
  <2>6. OnLine(Promised, l) \in Nat /\ OnLine(Consumed, l) \in Nat
    BY <1>7, SumsNat, OutboundAssumption
  <2>7. QED
    BY <1>9, <2>1, <2>2, <2>3, <2>4, <2>5, <2>6
<1>11. ASSUME NEW b
       PROVE  /\ AtKey(Promised, b)' = AtKey(Promised, b) + RequestedAt(ask, b)
              /\ AtKey(Promised, b) \in Nat /\ RequestedAt(ask, b) \in Nat
  <2>1. AtKey(Promised, b)' = Total(Share(KeyOf', b, Promised'))
    <3>1. [r \in Reservations |-> IF reservation'[r].key = b THEN Promised'[r] ELSE 0]
            = Share(KeyOf', b, Promised')
      BY <1>7, <1>8 DEF Share
    <3>2. QED
      BY <3>1 DEF AtKey
  <2>2. AtKey(Promised, b) = Total(Share(KeyOf, b, Promised))
    BY <1>7, SumsAreShares
  <2>3. Total(Share(KeyOf', b, Promised')) = Total(Share(KeyOf, b, Promised)) + Total(Share(KeyOf', b, d))
    <3>1. \A r \in Reservations : /\ Promised'[r] = Promised[r] + d[r]
                                  /\ Promised[r] # 0 => KeyOf[r] = KeyOf'[r]
                                  /\ d[r] # 0 => KeyOf'[r] = KeyOf'[r]
      BY <1>7, <1>8
    <3>2. /\ IsFiniteSet(Reservations) /\ d \in [Reservations -> Nat]
          /\ Promised \in [Reservations -> Nat] /\ Promised' \in [Reservations -> Nat]
      BY <1>7, OutboundAssumption
    <3>3. QED
      BY <3>1, <3>2, ShareAdd
  <2>4. Total(Share(KeyOf', b, d)) \in Nat
    BY <1>7, ShareNat, OutboundAssumption
  <2>5. AtKey(Promised, b) \in Nat
    BY <1>7, SumsNat, OutboundAssumption
  <2>6. QED
    BY <1>9, <2>1, <2>2, <2>3, <2>4, <2>5
<1>12. \A l \in SalesLines \ SalesLinesOf(o) : RequestedOnLine(ask, l) = 0
  BY RequestedElsewhere DEF SalesInv
<1>13. ASSUME NEW l \in SalesLines
       PROVE  /\ lines[l] \in SalesLineRow
              /\ lines[l].ordered = salesLine[l].ordered
              /\ lines[l].fulfilled = salesLine[l].fulfilled
              /\ lines[l].reserved = OnLine(Promised, l)'
              /\ lines[l].fulfilled = OnLine(Consumed, l)'
              /\ lines[l].reserved + lines[l].fulfilled <= lines[l].ordered
              /\ l \notin SalesLinesOf(o) => lines[l] = salesLine[l]
  <2>1. /\ salesLine[l] \in SalesLineRow
        /\ salesLine[l].reserved = OnLine(Promised, l)
        /\ salesLine[l].fulfilled = OnLine(Consumed, l)
        /\ salesLine[l].reserved + salesLine[l].fulfilled <= salesLine[l].ordered
    BY DEF SalesInv, OutboundTypeOK, LinesMatchReservations
  <2>2. /\ RequestedOnLine(ask, l) \in Nat
        /\ l \notin SalesLinesOf(o) => RequestedOnLine(ask, l) = 0
        /\ OnLine(Promised, l)' = OnLine(Promised, l) + RequestedOnLine(ask, l)
        /\ OnLine(Consumed, l)' = OnLine(Consumed, l)
    BY <1>10, <1>12
  <2>3. l \in SalesLinesOf(o) => RequestedOnLine(ask, l) = 0 \/
          salesLine[l].reserved + salesLine[l].fulfilled + RequestedOnLine(ask, l) <= salesLine[l].ordered
    BY <1>2, <2>2 DEF RequestFits
  <2>4. lines[l] = [salesLine[l] EXCEPT !.reserved = salesLine[l].reserved + RequestedOnLine(ask, l)]
    OBVIOUS
  <2> HIDE DEF lines
  <2>5. QED
    BY <2>1, <2>2, <2>3, <2>4 DEF SalesLineRow
<1>14. /\ salesLine' \in [SalesLines -> SalesLineRow] /\ LinesMatchReservations'
       /\ salesOrder' \in [SalesOrders -> SalesOrderRow]
       /\ \A p \in SalesOrders :
            /\ salesOrder'[p].workflowStatus = salesOrder[p].workflowStatus
            /\ salesOrder'[p].reservationStatus = SalesReservationStatus(p, salesLine')
            /\ salesOrder'[p].fulfillmentStatus = SalesFulfillmentStatus(p, salesLine')
  <2>1. LinesFollow(o, lines)
    BY <1>13 DEF LinesFollow
  <2> HIDE DEF lines
  <2>2. QED
    BY <1>2, <1>13, <2>1, LinesWritten
<1>15. balance' \in [BalanceKeys -> BalanceRow] /\ StockNeverOversold' /\ ReservedIsPromised'
  <2>1. Nowhere \in [BalanceKeys -> Int] /\ k \in [BalanceKeys -> Int]
    BY <1>11 DEF Nowhere
  <2>2. ASSUME NEW b \in BalanceKeys
        PROVE  /\ AtKey(Promised, b)' \in Nat
               /\ AtKey(Promised, b)' = AtKey(Promised, b) + k[b]
               /\ k[b] <= Nowhere[b] \/ k[b] <= Nowhere[b] + balance[b].available
    <3>1. /\ AtKey(Promised, b)' = AtKey(Promised, b) + RequestedAt(ask, b)
          /\ AtKey(Promised, b) \in Nat /\ RequestedAt(ask, b) \in Nat
      BY <1>11
    <3>2. RequestedAt(ask, b) > 0 => RequestedAt(ask, b) <= balance[b].available
      BY <1>2 DEF RequestFits
    <3>3. balance[b].available \in Int
      BY DEF SalesInv, OutboundTypeOK, StockTypeOK, BalanceRow
    <3>4. Nowhere[b] = 0 /\ k[b] = RequestedAt(ask, b)
      BY DEF Nowhere
    <3> HIDE DEF k
    <3>5. QED
      BY <3>1, <3>2, <3>3, <3>4
  <2> HIDE DEF k
  <2>3. QED
    BY <1>2, <2>1, <2>2, BalancesFollow
<1>16. OutboundTypeOK'
  BY <1>2, <1>6, <1>14, <1>15 DEF SalesInv, OutboundTypeOK, StockTypeOK
<1>17. ReservationsMatchShipments'
  <2>1. \A r, state : ShippedOf(r, state)' = ShippedOf(r, state)
    BY <1>2 DEF ShippedOf
  <2>2. \A r \in Reservations : /\ reservation'[r].allocated = reservation[r].allocated
                                /\ reservation'[r].consumed = reservation[r].consumed
                                /\ Allocatable(reservation'[r]) >= 0
    BY <1>4, <1>5 DEF SalesInv, ReservationsMatchShipments
  <2>3. QED
    BY <2>1, <2>2 DEF SalesInv, ReservationsMatchShipments
<1>18. ShipmentsAreNamed'
  <2>1. \A r \in Reservations : \A p : reservation[r].line \in SalesLinesOf(p) =>
          reservation'[r].line = reservation[r].line
    BY <1>4, <1>5, OutboundAssumption DEF SalesLinesOf
  <2>2. QED
    BY <1>2, <2>1 DEF SalesInv, ShipmentsAreNamed, SalesLinesOf, ReadyToShip
<1>19. ReservationsAreNamed'
  <2> SUFFICES ASSUME NEW r \in Reservations
               PROVE  IF reservation'[r].status = "none" THEN reservation'[r] = NoReservation
                      ELSE /\ reservation'[r].line \in SalesLines
                           /\ reservation'[r].key \in BalanceKeys
                           /\ salesOrder'[SalesOrderOf[reservation'[r].line]].workflowStatus
                                \in {"confirmed", "on_hold"}
    BY DEF ReservationsAreNamed, NoReservation
  <2>1. CASE r \in DOMAIN ask
    BY <1>1, <1>2, <1>5, <1>14, <2>1
  <2>2. CASE r \notin DOMAIN ask
    <3>1. reservation'[r] = reservation[r]
      BY <1>4, <2>2
    <3>2. \A l \in SalesLines : SalesOrderOf[l] \in SalesOrders
      BY OutboundAssumption
    <3>3. QED
      BY <1>14, <3>1, <3>2 DEF SalesInv, ReservationsAreNamed
  <2>3. QED
    BY <2>1, <2>2
<1>20. StatusesMatchQuantities'
  <2>1. \A r \in Reservations : reservation'[r].status # "none" =>
          reservation'[r].status = ReservationStatus(reservation'[r])
    BY <1>4, <1>5 DEF SalesInv, StatusesMatchQuantities
  <2>2. QED
    BY <1>14, <2>1 DEF StatusesMatchQuantities, SalesReservationStatus, SalesFulfillmentStatus,
                       SalesLinesOf, ReservationStatus, Active
<1>21. QED
  BY <1>14, <1>15, <1>16, <1>17, <1>18, <1>19, <1>20 DEF SalesInv

\* The sums only look at the reservations.
LEMMA SumsUnchanged ==
  ASSUME UNCHANGED <<reservation, shipment>>
  PROVE  /\ Promised' = Promised /\ Consumed' = Consumed
         /\ \A l : OnLine(Promised, l)' = OnLine(Promised, l) /\ OnLine(Consumed, l)' = OnLine(Consumed, l)
         /\ \A b : AtKey(Promised, b)' = AtKey(Promised, b)
         /\ \A r, state : ShippedOf(r, state)' = ShippedOf(r, state)
<1>1. Promised' = Promised /\ Consumed' = Consumed
  BY DEF Promised, Consumed
<1>2. QED
  BY <1>1 DEF OnLine, AtKey, ShippedOf

\* The lines of an order that is not confirmed yet have nothing reserved.
LEMMA OrderLinesStep ==
  ASSUME SalesInv, NEW o \in SalesOrders, NEW q \in OrderQuantities(o),
         salesOrder[o].workflowStatus \in {"none", "draft"}, WriteOrderLines(o, q),
         \/ salesOrder' = [salesOrder EXCEPT ![o].workflowStatus = "draft"]
         \/ UNCHANGED salesOrder,
         UNCHANGED <<reservation, shipment, stockVars>>
  PROVE  SalesInv'
<1>1. \A r \in Reservations : /\ Promised[r] # 0 => reservation[r].line \notin SalesLinesOf(o)
                              /\ Consumed[r] # 0 => reservation[r].line \notin SalesLinesOf(o)
  <2>1. ASSUME NEW r \in Reservations, reservation[r].line \in SalesLinesOf(o)
        PROVE  reservation[r] = NoReservation
    BY <2>1 DEF SalesInv, ReservationsAreNamed, SalesLinesOf
  <2>2. None \notin SalesLinesOf(o)
    BY OutboundAssumption DEF SalesLinesOf
  <2>3. QED
    BY <2>1, <2>2 DEF NoReservation
<1>2. \A l \in SalesLinesOf(o) : OnLine(Promised, l) = 0 /\ OnLine(Consumed, l) = 0
  <2>1. Promised \in [Reservations -> Nat] /\ Consumed \in [Reservations -> Nat]
    BY HoldsNat DEF SalesInv
  <2>2. QED
    BY <1>1, <2>1, SumsZero
<1>3. \A l \in SalesLines : /\ salesLine[l] \in SalesLineRow
                            /\ salesLine[l].reserved = OnLine(Promised, l)
                            /\ salesLine[l].fulfilled = OnLine(Consumed, l)
                            /\ salesLine[l].reserved + salesLine[l].fulfilled <= salesLine[l].ordered
  BY DEF SalesInv, LinesMatchReservations, OutboundTypeOK
<1>4. ASSUME NEW l \in SalesLines
      PROVE  /\ salesLine'[l] \in SalesLineRow
             /\ l \in SalesLinesOf(o) => salesLine'[l].reserved = 0 /\ salesLine'[l].fulfilled = 0
             /\ l \notin SalesLinesOf(o) => salesLine'[l] = salesLine[l]
             /\ salesLine'[l].reserved = OnLine(Promised, l)
             /\ salesLine'[l].fulfilled = OnLine(Consumed, l)
             /\ salesLine'[l].reserved + salesLine'[l].fulfilled <= salesLine'[l].ordered
  <2>1. CASE l \in SalesLinesOf(o)
    <3>1. q[l] \in Nat
      BY <2>1, OutboundAssumption DEF OrderQuantities
    <3>2. salesLine'[l] = [ordered |-> q[l], reserved |-> 0, fulfilled |-> 0]
      BY <2>1 DEF WriteOrderLines
    <3>3. QED
      BY <2>1, <3>1, <3>2, <1>2 DEF SalesLineRow
  <2>2. CASE l \notin SalesLinesOf(o)
    BY <1>3, <2>2 DEF WriteOrderLines
  <2>3. QED
    BY <2>1, <2>2
<1>5. salesLine' \in [SalesLines -> SalesLineRow]
  <2>1. salesLine' = [l \in SalesLines |-> salesLine'[l]]
    BY DEF WriteOrderLines
  <2>2. QED
    BY <1>4, <2>1
<1>6. /\ salesOrder' \in [SalesOrders -> SalesOrderRow]
      /\ \A p \in SalesOrders :
           /\ p # o => salesOrder'[p] = salesOrder[p]
           /\ salesOrder'[p].reservationStatus = salesOrder[p].reservationStatus
           /\ salesOrder'[p].fulfillmentStatus = salesOrder[p].fulfillmentStatus
  BY DEF SalesInv, OutboundTypeOK, SalesOrderRow
<1>7. OutboundTypeOK'
  BY <1>5, <1>6 DEF SalesInv, OutboundTypeOK, StockTypeOK, stockVars
<1>8. LinesMatchReservations'
  BY <1>4, SumsUnchanged DEF LinesMatchReservations
<1>9. ReservationsAreNamed'
  <2>1. \A l \in SalesLines : SalesOrderOf[l] \in SalesOrders
    BY OutboundAssumption
  <2>2. QED
    BY <1>6, <2>1 DEF SalesInv, ReservationsAreNamed, NoReservation
<1>10. StatusesMatchQuantities'
  <2>1. \A p \in SalesOrders :
          /\ salesOrder'[p].reservationStatus = SalesReservationStatus(p, salesLine')
          /\ salesOrder'[p].fulfillmentStatus = SalesFulfillmentStatus(p, salesLine')
    <3> SUFFICES ASSUME NEW p \in SalesOrders
                 PROVE  /\ SalesReservationStatus(p, salesLine') = SalesReservationStatus(p, salesLine)
                        /\ SalesFulfillmentStatus(p, salesLine') = SalesFulfillmentStatus(p, salesLine)
      BY <1>6 DEF SalesInv, StatusesMatchQuantities
    <3>1. CASE p = o
      <4>1. \A l \in SalesLinesOf(o) : /\ salesLine'[l].reserved = 0 /\ salesLine[l].reserved = 0
                                       /\ salesLine'[l].fulfilled = 0 /\ salesLine[l].fulfilled = 0
        BY <1>2, <1>3, <1>4 DEF SalesLinesOf
      <4>2. QED
        BY <3>1, <4>1 DEF SalesReservationStatus, SalesFulfillmentStatus
    <3>2. CASE p # o
      <4>1. \A l \in SalesLinesOf(p) : salesLine'[l] = salesLine[l]
        BY <1>4, <3>2 DEF SalesLinesOf
      <4>2. QED
        BY <4>1 DEF SalesReservationStatus, SalesFulfillmentStatus
    <3>3. QED
      BY <3>1, <3>2
  <2>2. \A r \in Reservations : reservation'[r].status # "none" =>
          reservation'[r].status = ReservationStatus(reservation'[r])
    BY DEF SalesInv, StatusesMatchQuantities
  <2>3. QED
    BY <2>1, <2>2 DEF StatusesMatchQuantities, SalesReservationStatus, SalesFulfillmentStatus,
                      SalesLinesOf, ReservationStatus, Active
<1>11. ReservationsMatchShipments' /\ ReservedIsPromised' /\ StockNeverOversold'
  BY SumsUnchanged DEF SalesInv, ReservationsMatchShipments, ReservedIsPromised, StockNeverOversold,
                       Reconciles, Allocatable, stockVars
<1>12. ShipmentsAreNamed'
  BY DEF SalesInv, ShipmentsAreNamed, SalesLinesOf, ReadyToShip, NoShipment
<1>13. QED
  BY <1>7, <1>8, <1>9, <1>10, <1>11, <1>12 DEF SalesInv

\* An order that is confirmed, held or resumed keeps everything but that status.
LEMMA TransitionStep ==
  ASSUME SalesInv, NEW o \in SalesOrders, ConfirmOrder(o) \/ HoldOrder(o) \/ ResumeOrder(o)
  PROVE  SalesInv'
<1>1. /\ \E to \in {"confirmed", "on_hold"} : salesOrder' = [salesOrder EXCEPT ![o].workflowStatus = to]
      /\ UNCHANGED <<salesLine, reservation, shipment, stockVars>>
  BY DEF ConfirmOrder, HoldOrder, ResumeOrder, TransitionOrder
<1>2. /\ salesOrder' \in [SalesOrders -> SalesOrderRow]
      /\ \A p \in SalesOrders :
           /\ salesOrder'[p].workflowStatus \in {salesOrder[p].workflowStatus, "confirmed", "on_hold"}
           /\ salesOrder'[p].reservationStatus = salesOrder[p].reservationStatus
           /\ salesOrder'[p].fulfillmentStatus = salesOrder[p].fulfillmentStatus
  BY <1>1 DEF SalesInv, OutboundTypeOK, SalesOrderRow
<1>3. OutboundTypeOK'
  BY <1>1, <1>2 DEF SalesInv, OutboundTypeOK, StockTypeOK, stockVars
<1>4. ReservationsAreNamed'
  <2>1. \A l \in SalesLines : SalesOrderOf[l] \in SalesOrders
    BY OutboundAssumption
  <2>2. QED
    BY <1>1, <1>2, <2>1 DEF SalesInv, ReservationsAreNamed, NoReservation
<1>5. StatusesMatchQuantities'
  BY <1>1, <1>2 DEF SalesInv, StatusesMatchQuantities, SalesReservationStatus, SalesFulfillmentStatus,
                    SalesLinesOf, ReservationStatus, Active
<1>6. /\ ReservationsMatchShipments' /\ ReservedIsPromised' /\ StockNeverOversold'
      /\ LinesMatchReservations'
  BY <1>1, SumsUnchanged DEF SalesInv, ReservationsMatchShipments, ReservedIsPromised,
           StockNeverOversold, Reconciles, Allocatable, LinesMatchReservations, stockVars
<1>7. ShipmentsAreNamed'
  BY <1>1 DEF SalesInv, ShipmentsAreNamed, SalesLinesOf, ReadyToShip, NoShipment
<1>8. QED
  BY <1>3, <1>4, <1>5, <1>6, <1>7 DEF SalesInv

\* Others may change what is on hand, as long as it covers what is promised.
LEMMA OthersStep ==
  ASSUME SalesInv, UNCHANGED outboundVars, StockTypeOK',
         \A b \in BalanceKeys : /\ Reconciles(b)'
                                /\ balance'[b].reserved = balance[b].reserved
                                /\ balance'[b].reserved <= balance'[b].onHand
  PROVE  SalesInv'
<1>1. OutboundTypeOK'
  BY DEF SalesInv, OutboundTypeOK, outboundVars
<1>2. ReservationsAreNamed' /\ ShipmentsAreNamed'
  BY DEF SalesInv, ReservationsAreNamed, ShipmentsAreNamed, SalesLinesOf, ReadyToShip, NoShipment,
         NoReservation, outboundVars
<1>3. StatusesMatchQuantities'
  BY DEF SalesInv, StatusesMatchQuantities, SalesReservationStatus, SalesFulfillmentStatus,
         SalesLinesOf, ReservationStatus, Active, outboundVars
<1>4. ReservationsMatchShipments' /\ ReservedIsPromised' /\ LinesMatchReservations'
  <2>1. UNCHANGED <<reservation, shipment, salesLine>>
    BY DEF outboundVars
  <2>2. QED
    BY <2>1, SumsUnchanged DEF SalesInv, ReservationsMatchShipments, ReservedIsPromised, Allocatable,
                               LinesMatchReservations
<1>5. StockNeverOversold'
  BY DEF SalesInv, StockNeverOversold
<1>6. QED
  BY <1>1, <1>2, <1>3, <1>4, <1>5 DEF SalesInv

-----------------------------------------------------------------------------
\* Theorems about sales

\* The invariant holds before any command.
LEMMA SalesInit == OutboundInit => SalesInv
<1> SUFFICES ASSUME OutboundInit PROVE SalesInv
  OBVIOUS
<1>1. /\ \A b \in BalanceKeys : balance[b] = [onHand |-> OpeningStock[b], reserved |-> 0,
                                              available |-> OpeningStock[b], version |-> 1]
      /\ \A l \in SalesLines : salesLine[l] = [ordered |-> 0, reserved |-> 0, fulfilled |-> 0]
      /\ \A r \in Reservations : reservation[r] = NoReservation
      /\ \A s \in Shipments : shipment[s] = NoShipment
      /\ \A b \in BalanceKeys : OpeningStock[b] \in Nat
  BY StockAssumption DEF OutboundInit, StockInit
<1>2. NoReservation \in ReservationRow /\ NoShipment \in ShipmentRow
  BY DEF NoReservation, ReservationRow, NoShipment, ShipmentRow
<1>3. StockTypeOK
  BY <1>1, StockAssumption DEF OutboundInit, StockInit, StockTypeOK, BalanceRow, MovementSums
<1>4. OutboundTypeOK
  BY <1>2, <1>3 DEF OutboundInit, OutboundTypeOK, SalesOrderRow, SalesLineRow
<1>5. ReservationsAreNamed
  BY <1>1 DEF ReservationsAreNamed, NoReservation
<1>6. ShipmentsAreNamed
  BY <1>1 DEF ShipmentsAreNamed, NoShipment, ReadyToShip
<1>7. ReservationsMatchShipments
  <2>1. ASSUME NEW r \in Reservations, NEW state \in {"allocated", "consumed"}
        PROVE  ShippedOf(r, state) = 0
    <3> DEFINE q == [s \in Shipments |->
                 IF shipment[s].allocationStatus = state THEN shipment[s].quantity[r] ELSE 0]
    <3>1. q \in [Shipments -> Nat] /\ \A s \in Shipments : q[s] = 0
      BY <1>1 DEF NoShipment
    <3> HIDE DEF q
    <3>2. Total(q) = 0
      BY <3>1, TotalZero
    <3>3. QED
      BY <3>2 DEF ShippedOf, q
  <2>2. QED
    BY <1>1, <2>1 DEF ReservationsMatchShipments, NoReservation, Allocatable
<1>8. /\ \A l : OnLine(Promised, l) = 0 /\ OnLine(Consumed, l) = 0
      /\ \A b : AtKey(Promised, b) = 0
  <2>1. /\ Promised \in [Reservations -> Nat] /\ Consumed \in [Reservations -> Nat]
        /\ \A r \in Reservations : Promised[r] = 0 /\ Consumed[r] = 0
    BY <1>1 DEF Promised, Consumed, Active, NoReservation
  <2>2. QED
    BY <2>1, SumsZero
<1>9. LinesMatchReservations /\ ReservedIsPromised /\ StockNeverOversold
  <2>1. LinesMatchReservations
    BY <1>1, <1>8 DEF LinesMatchReservations
  <2>2. ASSUME NEW b \in BalanceKeys
        PROVE  /\ balance[b].onHand = OpeningStock[b] /\ balance[b].available = OpeningStock[b]
               /\ balance[b].reserved = 0 /\ OpeningStock[b] \in Nat
    <3>1. balance[b] = [onHand |-> OpeningStock[b], reserved |-> 0,
                        available |-> OpeningStock[b], version |-> 1]
      BY <1>1
    <3>2. QED
      BY <1>1, <3>1
  <2>3. ReservedIsPromised
    BY <1>8, <2>2 DEF ReservedIsPromised
  <2>4. StockNeverOversold
    BY <2>2 DEF StockNeverOversold, Reconciles
  <2>5. QED
    BY <2>1, <2>3, <2>4
<1>10. StatusesMatchQuantities
  <2>1. \A o \in SalesOrders : /\ salesOrder[o].reservationStatus = "not_reserved"
                               /\ salesOrder[o].fulfillmentStatus = "not_fulfilled"
    BY DEF OutboundInit
  <2>2. \A o \in SalesOrders : \A l \in SalesLinesOf(o) : salesLine[l].reserved = 0 /\ salesLine[l].fulfilled = 0
    BY <1>1 DEF SalesLinesOf
  <2>3. QED
    BY <1>1, <2>1, <2>2 DEF StatusesMatchQuantities, SalesReservationStatus, SalesFulfillmentStatus,
                            NoReservation
<1>11. QED
  BY <1>4, <1>5, <1>6, <1>7, <1>9, <1>10 DEF SalesInv

\* Every command keeps it.
LEMMA SalesNext == SalesInv /\ OutboundNext => SalesInv'
<1> SUFFICES ASSUME SalesInv, OutboundNext PROVE SalesInv'
  OBVIOUS
<1>1. ASSUME NEW o \in SalesOrders, NEW q \in OrderQuantities(o), CreateOrder(o, q) \/ ReviseOrder(o, q)
      PROVE  SalesInv'
  BY <1>1, OrderLinesStep DEF CreateOrder, ReviseOrder
<1>2. QED
  BY <1>1, TransitionStep, ReserveStep, ReleaseStep, DraftShipmentStep, CancelShipmentStep,
     PostShipmentStep, ReverseShipmentStep DEF OutboundNext, OutboundPaperwork

(***************************************************************************)
(* SalesInv, the conjunction on which the induction rests, holds in every  *)
(* reachable state.                                                        *)
(***************************************************************************)
THEOREM SalesInvariant == OutboundSpec => []SalesInv
<1>1. SalesInv /\ UNCHANGED <<stockVars, outboundVars>> => SalesInv'
  <2> SUFFICES ASSUME SalesInv, UNCHANGED <<stockVars, outboundVars>> PROVE SalesInv'
    OBVIOUS
  <2>1. StockTypeOK' /\ \A b \in BalanceKeys : /\ Reconciles(b)'
                                               /\ balance'[b].reserved = balance[b].reserved
                                               /\ balance'[b].reserved <= balance'[b].onHand
    BY DEF SalesInv, OutboundTypeOK, StockTypeOK, StockNeverOversold, Reconciles, stockVars
  <2>2. QED
    BY <2>1, OthersStep
<1>2. SalesInv /\ [OutboundNext]_<<stockVars, outboundVars>> => SalesInv'
  BY <1>1, SalesNext
<1>3. QED
  BY SalesInit, <1>2, PTL DEF OutboundSpec

\* Every row of sales keeps its type: the quantities of lines, reservations and shipments are naturals.
THEOREM SalesTypeCorrect == OutboundSpec => []OutboundTypeOK
<1>1. SalesInv => OutboundTypeOK
  BY DEF SalesInv
<1>2. QED
  BY SalesInvariant, <1>1, PTL

\* Nothing is promised twice: what is reserved of a place is there.
THEOREM PromisesAreCovered == OutboundSpec => []StockNeverOversold
<1>1. SalesInv => StockNeverOversold
  BY DEF SalesInv
<1>2. QED
  BY SalesInvariant, <1>1, PTL

(***************************************************************************)
(* An order line shows what its reservations hold and have shipped, and    *)
(* never more than was ordered.                                            *)
(***************************************************************************)
THEOREM LinesAreExact == OutboundSpec => []LinesMatchReservations
<1>1. SalesInv => LinesMatchReservations
  BY DEF SalesInv
<1>2. QED
  BY SalesInvariant, <1>1, PTL

(***************************************************************************)
(* The shipments drafted and posted of a reservation are what it says is   *)
(* allocated and used up, and fit in what it reserved: no units ship       *)
(* twice.                                                                  *)
(***************************************************************************)
THEOREM UnitsShipOnce == OutboundSpec => []ReservationsMatchShipments
<1>1. SalesInv => ReservationsMatchShipments
  BY DEF SalesInv
<1>2. QED
  BY SalesInvariant, <1>1, PTL

\* The statuses stored with orders and reservations are those of their quantities.
THEOREM StatusesFollow == OutboundSpec => []StatusesMatchQuantities
<1>1. SalesInv => StatusesMatchQuantities
  BY DEF SalesInv
<1>2. QED
  BY SalesInvariant, <1>1, PTL

(***************************************************************************)
(* HeldOrdersDoNotMove: nothing more is promised or shipped of a held      *)
(* order, and its lines stay what was ordered.  A command about one order  *)
(* leaves the lines of the others alone; only an order that is not         *)
(* confirmed yet is given other lines, and only a confirmed one is         *)
(* reserved for or shipped.  Releases and the reversal of shipments may    *)
(* still lower what a held order has.                                      *)
(***************************************************************************)
THEOREM HeldOrdersStay == OutboundSpec => HeldOrdersDoNotMove
<1> DEFINE Kept(l) == /\ salesLine'[l].ordered = salesLine[l].ordered
                      /\ salesLine'[l].fulfilled <= salesLine[l].fulfilled
                      /\ salesLine'[l].reserved + salesLine'[l].fulfilled
                           <= salesLine[l].reserved + salesLine[l].fulfilled
           Held == \A o \in SalesOrders : salesOrder[o].workflowStatus = "on_hold" =>
                     \A l \in SalesLinesOf(o) : Kept(l)
<1>1. ASSUME SalesInv, [OutboundNext]_<<stockVars, outboundVars>>
      PROVE  [Held]_outboundVars
  <2>1. ASSUME \A l \in SalesLines : salesLine'[l] = salesLine[l] PROVE Held
    <3>1. \A l \in SalesLines : /\ salesLine[l].reserved \in Nat /\ salesLine[l].fulfilled \in Nat
      BY <1>1 DEF SalesInv, OutboundTypeOK, SalesLineRow
    <3>2. \A l \in SalesLines : Kept(l)
      BY <2>1, <3>1
    <3> HIDE DEF Kept
    <3>3. QED
      BY <3>2 DEF SalesLinesOf
  <2>2. ASSUME NEW p \in SalesOrders, salesOrder[p].workflowStatus # "on_hold",
               \A l \in SalesLines : l \notin SalesLinesOf(p) => salesLine'[l] = salesLine[l]
        PROVE  Held
    <3>1. \A l \in SalesLines : /\ salesLine[l].reserved \in Nat /\ salesLine[l].fulfilled \in Nat
      BY <1>1 DEF SalesInv, OutboundTypeOK, SalesLineRow
    <3>2. \A l \in SalesLines : l \notin SalesLinesOf(p) => Kept(l)
      BY <2>2, <3>1
    <3> HIDE DEF Kept
    <3>3. QED
      BY <2>2, <3>2 DEF SalesLinesOf
  <2>3. ASSUME \A l \in SalesLines : Kept(l) PROVE Held
    <3> HIDE DEF Kept
    <3> QED BY <2>3 DEF SalesLinesOf
  <2> HIDE DEF Held
  <2>4. ASSUME NEW o \in SalesOrders, NEW q \in OrderQuantities(o), CreateOrder(o, q) \/ ReviseOrder(o, q)
        PROVE  Held
    BY <2>2, <2>4 DEF CreateOrder, ReviseOrder, WriteOrderLines
  <2>5. ASSUME NEW o \in SalesOrders, ConfirmOrder(o) \/ HoldOrder(o) \/ ResumeOrder(o)
        PROVE  Held
    BY <2>1, <2>5 DEF ConfirmOrder, HoldOrder, ResumeOrder, TransitionOrder
  <2>6. ASSUME NEW o \in SalesOrders, NEW ask \in ReserveRequests(o), ReserveInventory(o, ask)
        PROVE  Held
    <3>1. /\ salesOrder[o].workflowStatus = "confirmed"
          /\ \A l \in SalesLines : salesLine'[l] = [salesLine[l] EXCEPT !.reserved = @ + RequestedOnLine(ask, l)]
      BY <2>6 DEF ReserveInventory, OrderConfirmed, WriteReservedLines
    <3>2. \A l \in SalesLines : l \notin SalesLinesOf(o) => RequestedOnLine(ask, l) = 0
      BY <1>1, RequestedElsewhere DEF SalesInv
    <3>3. \A l \in SalesLines : salesLine[l] \in SalesLineRow
      BY <1>1 DEF SalesInv, OutboundTypeOK
    <3>4. \A l \in SalesLines : l \notin SalesLinesOf(o) => salesLine'[l] = salesLine[l]
      BY <3>1, <3>2, <3>3 DEF SalesLineRow
    <3>5. QED
      BY <2>2, <3>1, <3>4
  <2>7. ASSUME NEW o \in SalesOrders, NEW q \in AllocatableQuantities(o), ReleaseReservation(o, q)
        PROVE  Held
    <3>1. ASSUME NEW l \in SalesLines PROVE Kept(l)
      <4>1. salesLine'[l] = [salesLine[l] EXCEPT !.reserved = @ - OnLine(q, l)]
        BY <2>7 DEF ReleaseReservation, WriteReservedLines
      <4>2. salesLine[l] \in SalesLineRow /\ OnLine(q, l) \in Nat
        BY <1>1, AllocatableNat, SumsNat, OutboundAssumption DEF SalesInv, OutboundTypeOK
      <4>3. QED
        BY <4>1, <4>2 DEF SalesLineRow
    <3>2. QED
      BY <2>3, <3>1
  <2>8. ASSUME NEW s \in Shipments, PostShipment(s) \/ ReverseShipment(s)
        PROVE  Held
    <3> DEFINE q == shipment[s].quantity
    <3>1. q \in [Reservations -> Nat]
      BY <1>1 DEF SalesInv, OutboundTypeOK, ShipmentRow
    <3>2. \A l : OnLine(q, l) \in Nat
      BY <3>1, SumsNat, OutboundAssumption
    <3>3. \A l \in SalesLines : salesLine[l] \in SalesLineRow
      BY <1>1 DEF SalesInv, OutboundTypeOK
    <3>4. CASE PostShipment(s)
      <4>1. /\ salesOrder[shipment[s].order].workflowStatus = "confirmed"
            /\ shipment[s].order \in SalesOrders
        BY <1>1, <3>4 DEF PostShipment, OrderConfirmed, ReadyToShip, SalesInv, ShipmentsAreNamed
      <4>2. \A l \in SalesLines : salesLine'[l] = [salesLine[l] EXCEPT !.reserved = @ - OnLine(q, l),
                                                                       !.fulfilled = @ + OnLine(q, l)]
        BY <3>4 DEF PostShipment, WriteShippedLines
      <4>3. \A l \in SalesLines \ SalesLinesOf(shipment[s].order) : OnLine(q, l) = 0
        BY <1>1, ShipmentLines
      <4> HIDE DEF q
      <4>4. ASSUME NEW l \in SalesLines, l \notin SalesLinesOf(shipment[s].order)
            PROVE  salesLine'[l] = salesLine[l]
        <5>1. salesLine'[l] = [salesLine[l] EXCEPT !.reserved = @ - 0, !.fulfilled = @ + 0]
          BY <4>2, <4>3, <4>4
        <5>2. salesLine[l] \in SalesLineRow
          BY <3>3
        <5>3. salesLine[l].reserved - 0 = salesLine[l].reserved /\ salesLine[l].fulfilled + 0 = salesLine[l].fulfilled
          BY <5>2 DEF SalesLineRow
        <5>4. QED
          BY <5>1, <5>2, <5>3 DEF SalesLineRow
      <4>5. QED
        BY <2>2, <4>1, <4>4
    <3>5. CASE ReverseShipment(s)
      <4>1. ASSUME NEW l \in SalesLines PROVE Kept(l)
        <5>1. salesLine'[l] = [salesLine[l] EXCEPT !.reserved = @ + OnLine(q, l),
                                                   !.fulfilled = @ - OnLine(q, l)]
          BY <3>5 DEF ReverseShipment, WriteShippedLines
        <5> HIDE DEF q
        <5>2. /\ salesLine'[l].ordered = salesLine[l].ordered
              /\ salesLine'[l].reserved = salesLine[l].reserved + OnLine(q, l)
              /\ salesLine'[l].fulfilled = salesLine[l].fulfilled - OnLine(q, l)
          BY <3>3, <5>1 DEF SalesLineRow
        <5>3. salesLine[l].reserved \in Nat /\ salesLine[l].fulfilled \in Nat /\ OnLine(q, l) \in Nat
          BY <3>2, <3>3 DEF SalesLineRow
        <5>4. QED
          BY <5>2, <5>3
      <4>2. QED
        BY <2>3, <4>1
    <3>6. QED
      BY <2>8, <3>4, <3>5
  <2>9. ASSUME NEW o \in SalesOrders, NEW s \in Shipments, NEW q, CreateShipmentDraft(o, s, q)
        PROVE  Held
    BY <2>1, <2>9 DEF CreateShipmentDraft
  <2>10. ASSUME NEW s \in Shipments, CancelShipmentDraft(s) PROVE Held
    BY <2>1, <2>10 DEF CancelShipmentDraft
  <2>11. ASSUME UNCHANGED <<stockVars, outboundVars>> PROVE [Held]_outboundVars
    BY <2>11
  <2>12. QED
    BY <1>1, <2>4, <2>5, <2>6, <2>7, <2>8, <2>9, <2>10, <2>11 DEF OutboundNext, OutboundPaperwork
<1>2. QED
  BY <1>1, SalesInvariant, PTL DEF OutboundSpec, HeldOrdersDoNotMove


-----------------------------------------------------------------------------
\* Shipments are never stuck

(***************************************************************************)
(* What a ready shipment takes is allocated, so promised, so on hand and   *)
(* reserved; what a posted one took is used up, so fulfilled.              *)
(***************************************************************************)
LEMMA PromisesHold == SalesInv => PromisesSurvive
<1> SUFFICES ASSUME SalesInv PROVE ReadyShipmentsCanPost /\ PostedShipmentsCanReverse
  BY DEF PromisesSurvive
<1>1. ASSUME NEW s \in Shipments
      PROVE  /\ shipment[s].quantity \in [Reservations -> Nat]
             /\ \A r \in Reservations : shipment[s].allocationStatus = "allocated" =>
                  shipment[s].quantity[r] <= reservation[r].allocated
             /\ \A r \in Reservations : shipment[s].allocationStatus = "consumed" =>
                  shipment[s].quantity[r] <= reservation[r].consumed
  <2>1. \A z \in Shipments : shipment[z].quantity \in [Reservations -> Nat]
    BY DEF SalesInv, OutboundTypeOK, ShipmentRow
  <2>2. ASSUME NEW r \in Reservations, NEW state, shipment[s].allocationStatus = state
        PROVE  shipment[s].quantity[r] <= ShippedOf(r, state)
    <3> DEFINE q == [z \in Shipments |->
                 IF shipment[z].allocationStatus = state THEN shipment[z].quantity[r] ELSE 0]
    <3>1. q \in [Shipments -> Nat]
      BY <2>1
    <3>2. q[s] = shipment[s].quantity[r]
      BY <2>2
    <3>3. ShippedOf(r, state) = Total(q)
      BY DEF ShippedOf
    <3> HIDE DEF q
    <3>4. q[s] <= Total(q)
      BY <3>1, TotalBound, OutboundAssumption
    <3>5. QED
      BY <3>2, <3>3, <3>4
  <2>3. \A r \in Reservations : /\ reservation[r].allocated = ShippedOf(r, "allocated")
                                /\ reservation[r].consumed = ShippedOf(r, "consumed")
    BY DEF SalesInv, ReservationsMatchShipments
  <2>4. QED
    BY <2>1, <2>2, <2>3
<1>2. /\ Promised \in [Reservations -> Nat]
      /\ Consumed \in [Reservations -> Nat]
      /\ \A r \in Reservations : /\ reservation[r].allocated <= Promised[r]
                                 /\ Promised[r] = Active(reservation[r])
                                 /\ Consumed[r] = reservation[r].consumed
                                 /\ reservation[r].allocated \in Nat
  <2>1. \A r \in Reservations : reservation[r].allocated \in Nat
    BY DEF SalesInv, OutboundTypeOK, ReservationRow
  <2>2. QED
    BY <2>1, HoldsNat DEF SalesInv, Promised, Consumed
<1>3. /\ \A l \in SalesLines : /\ salesLine[l].ordered \in Nat
                               /\ salesLine[l].reserved \in Nat
                               /\ salesLine[l].fulfilled \in Nat
                               /\ salesLine[l].reserved + salesLine[l].fulfilled <= salesLine[l].ordered
      /\ \A b \in BalanceKeys : /\ Reconciles(b)
                                /\ balance[b].onHand \in Int
                                /\ balance[b].reserved \in Int
                                /\ balance[b].reserved <= balance[b].onHand
  BY DEF SalesInv, LinesMatchReservations, StockNeverOversold, OutboundTypeOK, SalesLineRow,
         StockTypeOK, BalanceRow
<1>4. ASSUME NEW s \in Shipments, ReadyToShip(s) PROVE PostingQuantitiesAllow(s)
  <2> DEFINE q == shipment[s].quantity
  <2>1. shipment[s].allocationStatus = "allocated"
    BY <1>4 DEF SalesInv, ShipmentsAreNamed
  <2>2. q \in [Reservations -> Nat] /\ \A r \in Reservations : q[r] <= reservation[r].allocated
    BY <1>1, <2>1
  <2> HIDE DEF q
  <2>3. \A r \in Reservations : q[r] <= Promised[r]
    <3> SUFFICES ASSUME NEW r \in Reservations PROVE q[r] <= Promised[r]
      OBVIOUS
    <3>1. q[r] \in Nat /\ reservation[r].allocated \in Nat /\ Promised[r] \in Nat
      BY <1>2, <2>2
    <3>2. q[r] <= reservation[r].allocated /\ reservation[r].allocated <= Promised[r]
      BY <1>2, <2>2
    <3>3. QED
      BY <3>1, <3>2
  <2>4. /\ \A l \in SalesLines : OnLine(q, l) \in Nat /\ OnLine(q, l) <= salesLine[l].reserved
        /\ \A b \in BalanceKeys : AtKey(q, b) \in Nat /\ AtKey(q, b) <= balance[b].reserved
    BY <2>2, <2>3, SumsFit
  <2>5. \A r \in Reservations : q[r] <= reservation[r].allocated /\ q[r] <= Active(reservation[r])
    BY <1>2, <2>2, <2>3
  <2>6. \A b \in BalanceKeys : AtKey(q, b) <= balance[b].onHand
    <3> SUFFICES ASSUME NEW b \in BalanceKeys PROVE AtKey(q, b) <= balance[b].onHand
      OBVIOUS
    <3>1. /\ AtKey(q, b) \in Int /\ balance[b].reserved \in Int /\ balance[b].onHand \in Int
          /\ AtKey(q, b) <= balance[b].reserved /\ balance[b].reserved <= balance[b].onHand
      BY <1>3, <2>4
    <3>2. QED
      BY <3>1
  <2>7. \A l \in SalesLines : salesLine[l].fulfilled + OnLine(q, l) <= salesLine[l].ordered
    BY <1>3, <2>4
  <2>8. QED
    BY <1>3, <2>4, <2>5, <2>6, <2>7 DEF PostingQuantitiesAllow, q
<1>5. ASSUME NEW s \in Shipments, shipment[s].postingStatus = "posted" PROVE ReversalQuantitiesAllow(s)
  <2> DEFINE q == shipment[s].quantity
  <2>1. shipment[s].allocationStatus = "consumed"
    BY <1>5 DEF SalesInv, ShipmentsAreNamed
  <2>2. q \in [Reservations -> Nat] /\ \A r \in Reservations : q[r] <= reservation[r].consumed
    BY <1>1, <2>1
  <2> HIDE DEF q
  <2>3. \A r \in Reservations : q[r] <= Consumed[r]
    BY <1>2, <2>2
  <2>4. \A l \in SalesLines : OnLine(q, l) <= salesLine[l].fulfilled
    BY <2>2, <2>3, SumsFit
  <2>5. QED
    BY <1>3, <2>2, <2>4 DEF ReversalQuantitiesAllow, q
<1>6. QED
  BY <1>4, <1>5 DEF ReadyShipmentsCanPost, PostedShipmentsCanReverse

-----------------------------------------------------------------------------
\* Commands seen from the stock

\* A balance is left alone, or written with a later version.
VersionsRise ==
  \A b \in BalanceKeys : balance'[b] = balance[b] \/ balance[b].version < balance'[b].version

\* The five ways to write stock, key by key.
LEMMA ContractMoves ==
  ASSUME StockNeverOversold',
         \/ \A b \in BalanceKeys : balance'[b].reserved = balance[b].reserved
         \/ \A b \in BalanceKeys : /\ balance'[b].onHand = balance[b].onHand
                                   /\ balance'[b].reserved >= balance[b].reserved
         \/ \A b \in BalanceKeys : /\ balance'[b].onHand = balance[b].onHand
                                   /\ balance'[b].reserved <= balance[b].reserved
         \/ \A b \in BalanceKeys :
              /\ balance'[b].onHand - balance'[b].reserved = balance[b].onHand - balance[b].reserved
              /\ balance'[b].onHand <= balance[b].onHand
         \/ \A b \in BalanceKeys :
              /\ balance'[b].onHand - balance'[b].reserved = balance[b].onHand - balance[b].reserved
              /\ balance'[b].onHand >= balance[b].onHand
  PROVE  Contract!ContractNext
<1>1. Contract!Kept
  BY DEF Contract!Kept, StockNeverOversold
<1>2. CASE \A b \in BalanceKeys : balance'[b].reserved = balance[b].reserved
  BY <1>1, <1>2 DEF Contract!ContractNext, Contract!Restock
<1>3. CASE \A b \in BalanceKeys : /\ balance'[b].onHand = balance[b].onHand
                                  /\ balance'[b].reserved >= balance[b].reserved
  BY <1>1, <1>3 DEF Contract!ContractNext, Contract!Promise
<1>4. CASE \A b \in BalanceKeys : /\ balance'[b].onHand = balance[b].onHand
                                  /\ balance'[b].reserved <= balance[b].reserved
  BY <1>1, <1>4 DEF Contract!ContractNext, Contract!Release
<1>5. CASE \A b \in BalanceKeys :
             /\ balance'[b].onHand - balance'[b].reserved = balance[b].onHand - balance[b].reserved
             /\ balance'[b].onHand <= balance[b].onHand
  BY <1>1, <1>5 DEF Contract!ContractNext, Contract!ShipPromised, Contract!FreeStays
<1>6. CASE \A b \in BalanceKeys :
             /\ balance'[b].onHand - balance'[b].reserved = balance[b].onHand - balance[b].reserved
             /\ balance'[b].onHand >= balance[b].onHand
  BY <1>1, <1>6 DEF Contract!ContractNext, Contract!ReturnPromised, Contract!FreeStays
<1>7. QED
  BY <1>2, <1>3, <1>4, <1>5, <1>6

\* A command of sales gives every balance whose reserved quantity it changes a
\* new version, and changes what is on hand nowhere else.
LEMMA SalesVersions ==
  ASSUME StockTypeOK, NEW h \in [BalanceKeys -> Int], NEW k \in [BalanceKeys -> Int],
         \A b \in BalanceKeys : k[b] = 0 => h[b] = 0,
         WriteBalances(h, k)
  PROVE  VersionsRise
<1> SUFFICES ASSUME NEW b \in BalanceKeys
             PROVE  balance'[b] = balance[b] \/ balance[b].version < balance'[b].version
  BY DEF VersionsRise
<1>1. balance[b] \in BalanceRow /\ h[b] \in Int /\ k[b] \in Int
  BY DEF StockTypeOK
<1>2. balance'[b] = [onHand    |-> balance[b].onHand + h[b],
                     reserved  |-> balance[b].reserved + k[b],
                     available |-> balance[b].available + h[b] - k[b],
                     version   |-> balance[b].version + (IF k[b] = 0 THEN 0 ELSE 1)]
  BY DEF WriteBalances
<1>3. CASE k[b] = 0
  <2>1. h[b] = 0
    BY <1>3
  <2>2. /\ balance[b].onHand + h[b] = balance[b].onHand
        /\ balance[b].reserved + k[b] = balance[b].reserved
        /\ balance[b].available + h[b] - k[b] = balance[b].available
        /\ balance[b].version + 0 = balance[b].version
    BY <1>1, <1>3, <2>1 DEF BalanceRow
  <2>3. balance[b] = [onHand |-> balance[b].onHand, reserved |-> balance[b].reserved,
                      available |-> balance[b].available, version |-> balance[b].version]
    BY <1>1 DEF BalanceRow
  <2>4. QED
    BY <1>2, <1>3, <2>2, <2>3
<1>4. CASE k[b] # 0
  BY <1>1, <1>2, <1>4 DEF BalanceRow
<1>5. QED
  BY <1>3, <1>4

\* What is reserved, released, shipped or taken back on a command of sales.
LEMMA SalesMoves ==
  ASSUME SalesInv, OutboundNext
  PROVE  Contract!ContractNext /\ VersionsRise
<1>1. SalesInv' /\ StockNeverOversold'
  BY SalesNext DEF SalesInv
<1>2. /\ StockTypeOK
      /\ Nowhere \in [BalanceKeys -> Int]
      /\ \A b \in BalanceKeys : /\ Nowhere[b] = 0
                                /\ balance[b].onHand \in Int
                                /\ balance[b].reserved \in Int
  BY DEF SalesInv, OutboundTypeOK, StockTypeOK, BalanceRow, Nowhere
<1>3. ASSUME UNCHANGED stockVars PROVE Contract!ContractNext /\ VersionsRise
  BY <1>1, <1>3, ContractMoves DEF VersionsRise, stockVars
<1>4. ASSUME NEW o \in SalesOrders, NEW ask \in ReserveRequests(o), ReserveInventory(o, ask)
      PROVE  Contract!ContractNext /\ VersionsRise
  <2> DEFINE k == [b \in BalanceKeys |-> RequestedAt(ask, b)]
  <2>1. \A b \in BalanceKeys : RequestedAt(ask, b) \in Nat
    <3> SUFFICES ASSUME NEW b \in BalanceKeys PROVE RequestedAt(ask, b) \in Nat
      OBVIOUS
    <3> DEFINE q == [r \in DOMAIN ask |-> IF ask[r].key = b THEN ask[r].quantity ELSE 0]
    <3>1. /\ DOMAIN ask \in SUBSET Reservations
          /\ \A r \in DOMAIN ask : ask[r].quantity \in Nat
      BY RequestIsNew DEF SalesInv
    <3>2. IsFiniteSet(DOMAIN ask) /\ q \in [DOMAIN ask -> Nat]
      BY <3>1, FS_Subset, OutboundAssumption
    <3> HIDE DEF q
    <3>3. Total(q) \in Nat
      BY <3>2, TotalNat
    <3>4. QED
      BY <3>3 DEF RequestedAt, q
  <2>2. k \in [BalanceKeys -> Int] /\ \A b \in BalanceKeys : k[b] >= 0
    BY <2>1
  <2>3. WriteBalances(Nowhere, k)
    BY <1>4 DEF ReserveInventory
  <2> HIDE DEF k
  <2>4. \A b \in BalanceKeys : /\ balance'[b].onHand = balance[b].onHand + Nowhere[b]
                               /\ balance'[b].reserved = balance[b].reserved + k[b]
    BY <1>2, <2>2, <2>3, BalancesWritten
  <2>5. \A b \in BalanceKeys : /\ balance'[b].onHand = balance[b].onHand
                               /\ balance'[b].reserved >= balance[b].reserved
    BY <1>2, <2>2, <2>4
  <2>6. VersionsRise
    BY <1>2, <2>2, <2>3, SalesVersions
  <2>7. QED
    BY <1>1, <2>5, <2>6, ContractMoves
<1>5. ASSUME NEW o \in SalesOrders, NEW q \in AllocatableQuantities(o), ReleaseReservation(o, q)
      PROVE  Contract!ContractNext /\ VersionsRise
  <2> DEFINE k == [b \in BalanceKeys |-> -AtKey(q, b)]
  <2>1. \A b \in BalanceKeys : AtKey(q, b) \in Nat
    BY AllocatableNat, SumsNat, OutboundAssumption
  <2>2. k \in [BalanceKeys -> Int] /\ \A b \in BalanceKeys : k[b] <= 0
    BY <2>1
  <2>3. WriteBalances(Nowhere, k)
    BY <1>5 DEF ReleaseReservation
  <2> HIDE DEF k
  <2>4. \A b \in BalanceKeys : /\ balance'[b].onHand = balance[b].onHand + Nowhere[b]
                               /\ balance'[b].reserved = balance[b].reserved + k[b]
    BY <1>2, <2>2, <2>3, BalancesWritten
  <2>5. \A b \in BalanceKeys : /\ balance'[b].onHand = balance[b].onHand
                               /\ balance'[b].reserved <= balance[b].reserved
    BY <1>2, <2>2, <2>4
  <2>6. VersionsRise
    BY <1>2, <2>2, <2>3, SalesVersions
  <2>7. QED
    BY <1>1, <2>5, <2>6, ContractMoves
<1>6. ASSUME NEW s \in Shipments, PostShipment(s) \/ ReverseShipment(s)
      PROVE  Contract!ContractNext /\ VersionsRise
  <2> DEFINE q == shipment[s].quantity
             back == [b \in BalanceKeys |-> AtKey(q, b)]
             out == [b \in BalanceKeys |-> -AtKey(q, b)]
  <2>1. q \in [Reservations -> Nat]
    BY DEF SalesInv, OutboundTypeOK, ShipmentRow
  <2>2. \A b \in BalanceKeys : AtKey(q, b) \in Nat
    BY <2>1, SumsNat, OutboundAssumption
  <2>3. /\ back \in [BalanceKeys -> Int] /\ \A b \in BalanceKeys : back[b] >= 0
        /\ out \in [BalanceKeys -> Int] /\ \A b \in BalanceKeys : out[b] <= 0
    BY <2>2
  <2>4. WriteBalances(out, out) \/ WriteBalances(back, back)
    BY <1>6 DEF PostShipment, ReverseShipment
  <2> HIDE DEF back, out
  <2>5. CASE WriteBalances(out, out)
    <3>1. \A b \in BalanceKeys : /\ balance'[b].onHand = balance[b].onHand + out[b]
                                 /\ balance'[b].reserved = balance[b].reserved + out[b]
      BY <1>2, <2>3, <2>5, BalancesWritten
    <3>2. \A b \in BalanceKeys :
            /\ balance'[b].onHand - balance'[b].reserved = balance[b].onHand - balance[b].reserved
            /\ balance'[b].onHand <= balance[b].onHand
      BY <1>2, <2>3, <3>1
    <3>3. VersionsRise
      BY <1>2, <2>3, <2>5, SalesVersions
    <3>4. QED
      BY <1>1, <3>2, <3>3, ContractMoves
  <2>6. CASE WriteBalances(back, back)
    <3>1. \A b \in BalanceKeys : /\ balance'[b].onHand = balance[b].onHand + back[b]
                                 /\ balance'[b].reserved = balance[b].reserved + back[b]
      BY <1>2, <2>3, <2>6, BalancesWritten
    <3>2. \A b \in BalanceKeys :
            /\ balance'[b].onHand - balance'[b].reserved = balance[b].onHand - balance[b].reserved
            /\ balance'[b].onHand >= balance[b].onHand
      BY <1>2, <2>3, <3>1
    <3>3. VersionsRise
      BY <1>2, <2>3, <2>6, SalesVersions
    <3>4. QED
      BY <1>1, <3>2, <3>3, ContractMoves
  <2>7. QED
    BY <2>4, <2>5, <2>6
<1>7. ASSUME NEW o \in SalesOrders, NEW q,
             CreateOrder(o, q) \/ ReviseOrder(o, q) \/ ConfirmOrder(o) \/ HoldOrder(o) \/ ResumeOrder(o)
      PROVE  UNCHANGED stockVars
  BY <1>7 DEF CreateOrder, ReviseOrder, ConfirmOrder, HoldOrder, ResumeOrder, TransitionOrder
<1>8. ASSUME NEW o \in SalesOrders, NEW s \in Shipments, NEW q,
             CreateShipmentDraft(o, s, q) \/ CancelShipmentDraft(s)
      PROVE  UNCHANGED stockVars
  BY <1>8 DEF CreateShipmentDraft, CancelShipmentDraft
<1>9. ASSUME NEW s \in Shipments, CancelShipmentDraft(s) PROVE UNCHANGED stockVars
  BY <1>9 DEF CancelShipmentDraft
<1>10. QED
  BY <1>3, <1>4, <1>5, <1>6, <1>7, <1>8, <1>9 DEF OutboundNext, OutboundPaperwork

-----------------------------------------------------------------------------
\* The others, seen from the sales

\* Every row has its type, adds up and covers what is reserved of it.
StockSound == StockTypeOK /\ StockNeverOversold

(***************************************************************************)
(* What everyone but sales does to stock: the promises stand, what is left *)
(* covers them, every row adds up, and a row that changes gets a version.  *)
(***************************************************************************)
PromisesStand ==
  /\ StockTypeOK'
  /\ \A b \in BalanceKeys : /\ Reconciles(b)'
                            /\ balance'[b].reserved = balance[b].reserved
                            /\ balance'[b].reserved <= balance'[b].onHand
  /\ VersionsRise

\* A command that leaves the stock alone is one of those.
LEMMA StockUntouched == StockSound /\ UNCHANGED stockVars => PromisesStand
<1> SUFFICES ASSUME StockSound, UNCHANGED stockVars PROVE PromisesStand
  OBVIOUS
<1>1. StockTypeOK /\ StockNeverOversold
  BY DEF StockSound
<1>2. QED
  BY <1>1 DEF PromisesStand, StockTypeOK, StockNeverOversold, Reconciles, VersionsRise, stockVars

LEMMA StockStaysSound == StockSound /\ PromisesStand => StockSound'
BY DEF StockSound, PromisesStand, StockNeverOversold

\* For sales and for the contract it is a matter of what is free.
LEMMA PromisesStandStep ==
  ASSUME SalesInv, UNCHANGED outboundVars, PromisesStand
  PROVE  SalesInv' /\ Contract!ContractNext
<1>1. SalesInv'
  BY OthersStep DEF PromisesStand
<1>2. Contract!ContractNext
  BY <1>1, ContractMoves DEF PromisesStand, SalesInv
<1>3. QED
  BY <1>1, <1>2

-----------------------------------------------------------------------------
\* Receiving

\* A key into which no line goes gets nothing.
LEMMA NothingInto ==
  ASSUME NEW lines \in Seq(DraftLine), NEW b, LinesInto(lines, b) = 0
  PROVE  AcceptedInto(lines, b) = 0
<1>1. IsFiniteSet({n \in DOMAIN lines : lines[n].key = b})
  BY LinesDomain, FS_Subset
<1>2. {n \in DOMAIN lines : lines[n].key = b} = {}
  BY <1>1, FS_EmptySet DEF LinesInto
<1>3. QED
  BY <1>2, AcceptedElsewhere

\* The reversal of a receipt takes goods that are there and not promised.
LEMMA ReceivingStands ==
  ASSUME StockSound, OrdersInv, ReceivingNext
  PROVE  PromisesStand
<1>1. StockTypeOK /\ StockNeverOversold
  BY DEF StockSound
<1>2. \A b \in BalanceKeys : /\ balance[b] \in BalanceRow
                             /\ balance[b].onHand \in Int /\ balance[b].reserved \in Int
                             /\ balance[b].available \in Int /\ balance[b].version \in Nat
                             /\ balance[b].available = balance[b].onHand - balance[b].reserved
                             /\ balance[b].reserved <= balance[b].onHand
  BY <1>1 DEF StockTypeOK, BalanceRow, StockNeverOversold, Reconciles
<1>3. ASSUME NEW d \in ReceivingDocuments, PostReceiving(d) \/ ReverseReceiving(d)
      PROVE  PromisesStand
  <2> DEFINE lines == receivingDocument[d].lines
  <2>1. lines \in Seq(DraftLine)
    BY DEF OrdersInv, ReceivingTypeOK, DocumentRow
  <2>2. ReceiveIntoStock(lines) \/ (TakeFromStock(lines) /\ ReversalPlanAllows(d))
    BY <1>3 DEF PostReceiving, ReverseReceiving
  <2>3. \A n \in DOMAIN lines : ReversalPlanAllows(d) =>
          AcceptedInto(lines, lines[n].key) <= balance[lines[n].key].available
    BY DEF ReversalPlanAllows
  <2> HIDE DEF lines
  <2>4. \A b : AcceptedInto(lines, b) \in Nat /\ LinesInto(lines, b) \in Nat
    BY <2>1, AcceptedNat
  <2>5. ASSUME NEW b \in BalanceKeys,
               balance'[b].version = balance[b].version + LinesInto(lines, b),
               AcceptedInto(lines, b) = 0 /\ LinesInto(lines, b) = 0 => balance'[b] = balance[b]
        PROVE  balance'[b] = balance[b] \/ balance[b].version < balance'[b].version
    BY <1>2, <2>1, <2>4, <2>5, NothingInto
  <2>6. CASE ReceiveIntoStock(lines)
    <3>1. /\ StockTypeOK'
          /\ \A b \in BalanceKeys :
               /\ balance'[b].onHand = balance[b].onHand + AcceptedInto(lines, b)
               /\ balance'[b].available = balance[b].available + AcceptedInto(lines, b)
               /\ balance'[b].reserved = balance[b].reserved
      BY <1>1, <2>1, <2>6, ReceiveStockEffect
    <3>2. \A b \in BalanceKeys : /\ Reconciles(b)'
                                 /\ balance'[b].reserved <= balance'[b].onHand
      BY <1>2, <2>4, <3>1 DEF Reconciles
    <3>3. ASSUME NEW b \in BalanceKeys
          PROVE  /\ balance'[b].version = balance[b].version + LinesInto(lines, b)
                 /\ AcceptedInto(lines, b) = 0 /\ LinesInto(lines, b) = 0 => balance'[b] = balance[b]
      <4>1. balance'[b] = [balance[b] EXCEPT !.onHand = @ + AcceptedInto(lines, b),
                                             !.available = @ + AcceptedInto(lines, b),
                                             !.version = @ + LinesInto(lines, b)]
        BY <2>6 DEF ReceiveIntoStock
      <4>2. balance'[b].version = balance[b].version + LinesInto(lines, b)
        BY <1>2, <4>1 DEF BalanceRow
      <4>3. ASSUME AcceptedInto(lines, b) = 0, LinesInto(lines, b) = 0 PROVE balance'[b] = balance[b]
        <5>1. balance'[b] = [balance[b] EXCEPT !.onHand = @ + 0, !.available = @ + 0, !.version = @ + 0]
          BY <4>1, <4>3
        <5>2. /\ balance[b].onHand + 0 = balance[b].onHand
              /\ balance[b].available + 0 = balance[b].available
              /\ balance[b].version + 0 = balance[b].version
          BY <1>2
        <5>3. QED
          BY <1>2, <5>1, <5>2 DEF BalanceRow
      <4>4. QED
        BY <4>2, <4>3
    <3>4. QED
      BY <2>5, <3>1, <3>2, <3>3 DEF PromisesStand, VersionsRise
  <2>7. CASE TakeFromStock(lines) /\ ReversalPlanAllows(d)
    <3>1. /\ StockTypeOK'
          /\ \A b \in BalanceKeys :
               /\ balance'[b].onHand = balance[b].onHand - AcceptedInto(lines, b)
               /\ balance'[b].available = balance[b].available - AcceptedInto(lines, b)
               /\ balance'[b].reserved = balance[b].reserved
      BY <1>1, <2>1, <2>7, TakeStockEffect
    <3>2. ASSUME NEW b \in BalanceKeys
          PROVE  AcceptedInto(lines, b) = 0 \/ AcceptedInto(lines, b) <= balance[b].available
      BY <2>1, <2>3, <2>7, AcceptedElsewhere
    <3>3. \A b \in BalanceKeys : /\ Reconciles(b)'
                                 /\ balance'[b].reserved <= balance'[b].onHand
      BY <1>2, <2>4, <3>1, <3>2 DEF Reconciles
    <3>4. ASSUME NEW b \in BalanceKeys
          PROVE  /\ balance'[b].version = balance[b].version + LinesInto(lines, b)
                 /\ AcceptedInto(lines, b) = 0 /\ LinesInto(lines, b) = 0 => balance'[b] = balance[b]
      <4>1. balance'[b] = [balance[b] EXCEPT !.onHand = @ - AcceptedInto(lines, b),
                                             !.available = @ - AcceptedInto(lines, b),
                                             !.version = @ + LinesInto(lines, b)]
        BY <2>7 DEF TakeFromStock
      <4>2. balance'[b].version = balance[b].version + LinesInto(lines, b)
        BY <1>2, <4>1 DEF BalanceRow
      <4>3. ASSUME AcceptedInto(lines, b) = 0, LinesInto(lines, b) = 0 PROVE balance'[b] = balance[b]
        <5>1. balance'[b] = [balance[b] EXCEPT !.onHand = @ - 0, !.available = @ - 0, !.version = @ + 0]
          BY <4>1, <4>3
        <5>2. /\ balance[b].onHand - 0 = balance[b].onHand
              /\ balance[b].available - 0 = balance[b].available
              /\ balance[b].version + 0 = balance[b].version
          BY <1>2
        <5>3. QED
          BY <1>2, <5>1, <5>2 DEF BalanceRow
      <4>4. QED
        BY <4>2, <4>3
    <3>5. QED
      BY <2>5, <3>1, <3>3, <3>4 DEF PromisesStand, VersionsRise
  <2>8. QED
    BY <2>2, <2>6, <2>7
<1>4. ASSUME ReceivingPaperwork PROVE UNCHANGED stockVars
  BY <1>4 DEF ReceivingPaperwork, ApprovePurchaseOrder, RejectPurchaseOrder, ReturnPurchaseOrder,
              DecidePurchaseOrder, CreateReceivingDraft, ReviseReceivingDraft, SubmitReceivingDraft
<1>5. QED
  BY <1>3, <1>4, StockUntouched DEF ReceivingNext

-----------------------------------------------------------------------------
\* Inventory operations

CountRow == [recorded : UNION {[bs -> BalanceRow] : bs \in SUBSET BalanceKeys},
             counted : UNION {[bs -> 0..MaxCounted \cup {None}] : bs \in SUBSET BalanceKeys},
             workflowStatus : CountStates]

(***************************************************************************)
(* The documents of operations keep their types.  A count has a quantity   *)
(* for every balance it has recorded, and none before it is taken.         *)
(***************************************************************************)
OperationsInv ==
  /\ OperationsTypeOK
  /\ count \in [Counts -> CountRow]
  /\ \A c \in Counts : count[c].workflowStatus = "none" => DOMAIN count[c].recorded = {}

\* Entries that have an effect: finitely many, each on a balance.
Entry == [key : BalanceKeys, delta : Int]
Effective(entries) ==
  IsFiniteSet(DOMAIN entries) /\ \A e \in DOMAIN entries : entries[e] \in Entry

\* What entries bring and take are natural numbers.
LEMMA EntryTotals ==
  ASSUME NEW entries, Effective(entries), NEW b
  PROVE  TotalIn(entries, b) \in Nat /\ TotalOut(entries, b) \in Nat
<1> DEFINE in == [e \in DOMAIN entries |->
             IF entries[e].key = b /\ entries[e].delta > 0 THEN entries[e].delta ELSE 0]
           out == [e \in DOMAIN entries |->
             IF entries[e].key = b /\ entries[e].delta < 0 THEN -entries[e].delta ELSE 0]
<1>1. \A e \in DOMAIN entries : entries[e].delta \in Int
  BY DEF Effective, Entry
<1>2. in \in [DOMAIN entries -> Nat] /\ out \in [DOMAIN entries -> Nat]
  BY <1>1
<1>3. TotalIn(entries, b) = Total(in) /\ TotalOut(entries, b) = Total(out)
  BY DEF TotalIn, TotalOut
<1> HIDE DEF in, out
<1>4. QED
  BY <1>2, <1>3, TotalNat DEF Effective

\* The entries of a transfer, of an adjustment, and of a reversal.
LEMMA LinesAreEffective ==
  /\ \A lines \in Seq(TransferLine) : Effective(TransferEntries(lines))
  /\ \A lines \in Seq(AdjustmentLine) : Effective(lines)
  /\ \A entries : Effective(entries) => Effective(Opposite(entries))
<1>1. ASSUME NEW S, NEW lines \in Seq(S)
      PROVE  IsFiniteSet(DOMAIN lines) /\ \A n \in DOMAIN lines : lines[n] \in S
  <2>1. DOMAIN lines = 1..Len(lines) /\ Len(lines) \in Nat
    OBVIOUS
  <2>2. IsFiniteSet(1..Len(lines))
    BY <2>1, FS_Interval, 1 \in Int, Len(lines) \in Int
  <2>3. QED
    BY <2>1, <2>2
<1>2. ASSUME NEW lines \in Seq(TransferLine) PROVE Effective(TransferEntries(lines))
  <2> DEFINE ends == {"source", "destination"}
             entries == TransferEntries(lines)
  <2>1. IsFiniteSet(ends)
    <3>1. IsFiniteSet({"source"}) /\ IsFiniteSet({"destination"})
      BY FS_Singleton
    <3>2. ends = {"source"} \cup {"destination"}
      OBVIOUS
    <3> HIDE DEF ends
    <3>3. QED
      BY <3>1, <3>2, FS_Union
  <2>2. IsFiniteSet(DOMAIN lines) /\ \A n \in DOMAIN lines : lines[n] \in TransferLine
    BY <1>1, <1>2
  <2> HIDE DEF ends
  <2>3. IsFiniteSet((DOMAIN lines) \X ends)
    BY <2>1, <2>2, FS_Product
  <2>4. ASSUME NEW n \in DOMAIN lines
        PROVE  /\ lines[n].from \in BalanceKeys /\ lines[n].to \in BalanceKeys
               /\ lines[n].quantity \in Int
    BY <2>2 DEF TransferLine
  <2>5. DOMAIN entries = (DOMAIN lines) \X ends
    BY DEF TransferEntries, ends
  <2>6. ASSUME NEW e \in (DOMAIN lines) \X ends PROVE entries[e] \in Entry
    <3>1. e[1] \in DOMAIN lines
      OBVIOUS
    <3>2. /\ [key |-> lines[e[1]].from, delta |-> -lines[e[1]].quantity] \in Entry
          /\ [key |-> lines[e[1]].to, delta |-> lines[e[1]].quantity] \in Entry
      BY <2>4, <3>1 DEF Entry
    <3>3. QED
      BY <3>2 DEF TransferEntries, ends
  <2> HIDE DEF entries
  <2>7. QED
    BY <2>3, <2>5, <2>6 DEF Effective, entries
<1>3. ASSUME NEW lines \in Seq(AdjustmentLine) PROVE Effective(lines)
  <2>1. AdjustmentLine \subseteq Entry
    BY OperationsAssumption DEF AdjustmentLine, Entry
  <2>2. QED
    BY <1>1, <1>3, <2>1 DEF Effective
<1>4. ASSUME NEW entries, Effective(entries) PROVE Effective(Opposite(entries))
  <2>1. ASSUME NEW e \in DOMAIN entries PROVE [entries[e] EXCEPT !.delta = -@] \in Entry
    BY <1>4 DEF Effective, Entry
  <2>2. QED
    BY <1>4, <2>1 DEF Effective, Opposite
<1>5. QED
  BY <1>2, <1>3, <1>4

\* The ledger keeps its type.
LEMMA OperationLedger ==
  ASSUME StockTypeOK, NEW entries, Effective(entries),
         WriteTransferMovements(entries) \/ WriteAdjustmentMovements(entries)
  PROVE  movement' \in [BalanceKeys -> MovementSums]
<1>1. ASSUME NEW b \in BalanceKeys
      PROVE  /\ TotalIn(entries, b) \in Nat /\ TotalOut(entries, b) \in Nat
             /\ NetOf(entries, b) \in Int
             /\ movement[b].quantityIn + TotalIn(entries, b) \in Nat
             /\ movement[b].quantityOut + TotalOut(entries, b) \in Nat
             /\ movement[b].adjustmentQty + NetOf(entries, b) \in Int
             /\ movement[b] \in MovementSums
  <2>1. TotalIn(entries, b) \in Nat /\ TotalOut(entries, b) \in Nat
    BY EntryTotals
  <2>2. /\ movement[b] \in MovementSums
        /\ movement[b].quantityIn \in Nat /\ movement[b].quantityOut \in Nat
        /\ movement[b].adjustmentQty \in Int
    BY DEF StockTypeOK, MovementSums
  <2>3. QED
    BY <2>1, <2>2 DEF NetOf
<1>2. CASE WriteTransferMovements(entries)
  <2>1. ASSUME NEW b \in BalanceKeys
        PROVE  [movement[b] EXCEPT !.quantityIn = @ + TotalIn(entries, b),
                                   !.quantityOut = @ + TotalOut(entries, b)] \in MovementSums
    BY <1>1 DEF MovementSums
  <2>2. QED
    BY <1>2, <2>1 DEF WriteTransferMovements
<1>3. CASE WriteAdjustmentMovements(entries)
  <2>1. ASSUME NEW b \in BalanceKeys
        PROVE  [movement[b] EXCEPT !.quantityIn = @ + TotalIn(entries, b),
                                   !.quantityOut = @ + TotalOut(entries, b),
                                   !.adjustmentQty = @ + NetOf(entries, b)] \in MovementSums
    BY <1>1 DEF MovementSums
  <2>2. QED
    BY <1>3, <2>1 DEF WriteAdjustmentMovements
<1>4. QED
  BY <1>2, <1>3

\* A document that leaves what is reserved on every balance it touches.
LEMMA OperationMoves ==
  ASSUME StockSound, NEW entries, Effective(entries),
         \A b \in Touched(entries) : balance[b].onHand + NetOf(entries, b) >= balance[b].reserved,
         WriteOperationBalances(entries),
         WriteTransferMovements(entries) \/ WriteAdjustmentMovements(entries)
  PROVE  PromisesStand
<1>1. ASSUME NEW b \in BalanceKeys
      PROVE  /\ balance[b] \in BalanceRow
             /\ balance[b].onHand \in Int /\ balance[b].reserved \in Int /\ balance[b].version \in Nat
             /\ Reconciles(b) /\ balance[b].reserved <= balance[b].onHand
             /\ NetOf(entries, b) \in Int
  <2>1. NetOf(entries, b) \in Int
    BY EntryTotals DEF NetOf
  <2>2. QED
    BY <2>1 DEF StockSound, StockTypeOK, BalanceRow, StockNeverOversold
<1>2. ASSUME NEW b \in BalanceKeys
      PROVE  /\ balance'[b] \in BalanceRow
             /\ Reconciles(b)'
             /\ balance'[b].reserved = balance[b].reserved
             /\ balance'[b].reserved <= balance'[b].onHand
             /\ balance'[b] = balance[b] \/ balance[b].version < balance'[b].version
  <2>1. CASE b \notin Touched(entries)
    <3>1. balance'[b] = balance[b]
      BY <2>1 DEF WriteOperationBalances
    <3>2. QED
      BY <1>1, <3>1 DEF Reconciles
  <2>2. CASE b \in Touched(entries)
    <3> DEFINE after == balance[b].onHand + NetOf(entries, b)
    <3>1. balance'[b] = [onHand |-> after, reserved |-> balance[b].reserved,
                         available |-> after - balance[b].reserved,
                         version |-> balance[b].version + 1]
      BY <2>2 DEF WriteOperationBalances
    <3>2. after \in Int /\ after >= balance[b].reserved
      BY <1>1, <2>2
    <3> HIDE DEF after
    <3>3. QED
      BY <1>1, <3>1, <3>2 DEF BalanceRow, Reconciles
  <2>3. QED
    BY <2>1, <2>2
<1>3. balance' \in [BalanceKeys -> BalanceRow]
  <2>1. balance' = [b \in BalanceKeys |-> balance'[b]]
    BY DEF WriteOperationBalances
  <2>2. QED
    BY <1>2, <2>1
<1>4. movement' \in [BalanceKeys -> MovementSums]
  BY OperationLedger DEF StockSound
<1>5. QED
  BY <1>2, <1>3, <1>4 DEF PromisesStand, StockTypeOK, VersionsRise

(***************************************************************************)
(* A count leaves what was counted on each of its balances: the variance   *)
(* was taken from the row the balance still is.                            *)
(***************************************************************************)
LEMMA CountLeaves ==
  ASSUME StockSound, OperationsInv, NEW c \in Counts, PostCount(c)
  PROVE  /\ Effective(CountEntries(c))
         /\ Touched(CountEntries(c)) = DOMAIN count[c].recorded
         /\ \A b \in DOMAIN count[c].recorded :
              /\ count[c].counted[b] \in Nat
              /\ balance[b].onHand + NetOf(CountEntries(c), b) = count[c].counted[b]
              /\ count[c].counted[b] >= balance[b].reserved
<1> DEFINE keys == DOMAIN count[c].recorded
           entries == CountEntries(c)
<1>1. keys \subseteq BalanceKeys /\ IsFiniteSet(keys)
  BY StockAssumption, FS_Subset DEF OperationsInv, OperationsTypeOK
<1>2. ASSUME NEW b \in keys
      PROVE  /\ count[c].counted[b] \in Nat /\ count[c].counted[b] >= balance[b].reserved
             /\ balance[b] = count[c].recorded[b]
             /\ balance[b].onHand \in Int
  <2>1. count[c].counted[b] \in 0..MaxCounted \cup {None}
    BY DEF OperationsInv, OperationsTypeOK
  <2>2. count[c].counted[b] # None /\ count[c].counted[b] >= balance[b].reserved
    BY DEF PostCount
  <2>3. balance[b] = count[c].recorded[b]
    BY DEF PostCount, SnapshotHolds
  <2>4. balance[b].onHand \in Int
    BY <1>1 DEF StockSound, StockTypeOK, BalanceRow
  <2>5. QED
    BY <2>1, <2>2, <2>3, <2>4, OperationsAssumption
<1>3. /\ DOMAIN entries = keys
      /\ \A b \in keys : entries[b] = [key |-> b, delta |-> count[c].counted[b] - balance[b].onHand]
  BY <1>2 DEF CountEntries
<1> HIDE DEF keys, entries
<1>4. \A b \in keys : entries[b] \in Entry
  BY <1>1, <1>2, <1>3 DEF Entry
<1>5. Effective(entries)
  BY <1>1, <1>3, <1>4 DEF Effective
<1>6. Touched(entries) = keys
  BY <1>3 DEF Touched
<1>7. ASSUME NEW b \in keys
      PROVE  NetOf(entries, b) = count[c].counted[b] - balance[b].onHand
  <2> DEFINE variance == count[c].counted[b] - balance[b].onHand
             in == [e \in keys |->
               IF entries[e].key = b /\ entries[e].delta > 0 THEN entries[e].delta ELSE 0]
             out == [e \in keys |->
               IF entries[e].key = b /\ entries[e].delta < 0 THEN -entries[e].delta ELSE 0]
  <2>1. variance \in Int /\ entries[b].key = b /\ entries[b].delta = variance
    BY <1>2, <1>3
  <2>2. \A e \in keys : entries[e].delta \in Int /\ (entries[e].key = b => e = b)
    BY <1>2, <1>3
  <2> HIDE DEF variance
  <2>3. /\ in \in [keys -> Nat] /\ out \in [keys -> Nat]
        /\ in[b] = IF variance > 0 THEN variance ELSE 0
        /\ out[b] = IF variance < 0 THEN -variance ELSE 0
        /\ \A e \in keys \ {b} : in[e] = 0 /\ out[e] = 0
    BY <2>1, <2>2
  <2>4. TotalIn(entries, b) = Total(in) /\ TotalOut(entries, b) = Total(out)
    BY <1>3 DEF TotalIn, TotalOut
  <2> HIDE DEF in, out
  <2>5. Total(in) = in[b] /\ Total(out) = out[b]
    BY <1>1, <2>3, TotalSingle
  <2>6. NetOf(entries, b) = variance
    BY <2>1, <2>3, <2>4, <2>5 DEF NetOf
  <2>7. QED
    BY <2>6 DEF variance
<1>8. \A b \in keys : balance[b].onHand + NetOf(entries, b) = count[c].counted[b]
  BY <1>2, <1>7
<1>9. QED
  BY <1>2, <1>5, <1>6, <1>8 DEF keys, entries

(***************************************************************************)
(* A count records the balances as they are when it is taken, and keeps    *)
(* what it has recorded.                                                   *)
(***************************************************************************)
CountsKeep ==
  \A c \in Counts :
    IF count[c].workflowStatus = "none"
    THEN \A b \in DOMAIN count'[c].recorded : count'[c].recorded[b] = balance'[b]
    ELSE count'[c].workflowStatus # "none" /\ count'[c].recorded = count[c].recorded

OperationsKept == OperationsInv' /\ CountsKeep

\* A command that writes one count.
WritesCount(c, row) ==
  /\ row \in CountRow
  /\ row.workflowStatus # "none"
  /\ DOMAIN row.counted = DOMAIN row.recorded
  /\ IF count[c].workflowStatus = "none"
     THEN \A b \in DOMAIN row.recorded : row.recorded[b] = balance'[b]
     ELSE row.recorded = count[c].recorded
  /\ count' = [count EXCEPT ![c] = row]
  /\ UNCHANGED <<transfer, adjustment>>

LEMMA CountWritten ==
  ASSUME OperationsInv, StockTypeOK', NEW c \in Counts, NEW row, WritesCount(c, row)
  PROVE  OperationsKept
<1>1. /\ count \in [Counts -> CountRow]
      /\ count'[c] = row
      /\ \A z \in Counts : z # c => count'[z] = count[z]
      /\ count' \in [Counts -> CountRow]
  BY DEF OperationsInv, WritesCount
<1>2. \A z \in Counts : /\ count'[z].workflowStatus \in CountStates
                        /\ DOMAIN count'[z].recorded \subseteq BalanceKeys
                        /\ count'[z].counted \in [DOMAIN count'[z].recorded -> 0..MaxCounted \cup {None}]
  <2>1. /\ row.workflowStatus \in CountStates
        /\ DOMAIN row.recorded \subseteq BalanceKeys
        /\ row.counted \in [DOMAIN row.recorded -> 0..MaxCounted \cup {None}]
    <3>1. PICK bs \in SUBSET BalanceKeys : row.recorded \in [bs -> BalanceRow]
      BY DEF WritesCount, CountRow
    <3>2. PICK cs \in SUBSET BalanceKeys : row.counted \in [cs -> 0..MaxCounted \cup {None}]
      BY DEF WritesCount, CountRow
    <3>3. QED
      BY <3>1, <3>2 DEF WritesCount, CountRow
  <2>2. \A z \in Counts : /\ count[z].workflowStatus \in CountStates
                          /\ DOMAIN count[z].recorded \subseteq BalanceKeys
                          /\ count[z].counted \in [DOMAIN count[z].recorded -> 0..MaxCounted \cup {None}]
    BY DEF OperationsInv, OperationsTypeOK
  <2>3. QED
    BY <1>1, <2>1, <2>2
<1>3. OperationsTypeOK'
  BY <1>2 DEF OperationsInv, OperationsTypeOK, WritesCount
<1>4. \A z \in Counts : count'[z].workflowStatus = "none" => DOMAIN count'[z].recorded = {}
  BY <1>1 DEF OperationsInv, WritesCount
<1>5. CountsKeep
  BY <1>1 DEF CountsKeep, WritesCount, OperationsInv
<1>6. QED
  BY <1>1, <1>3, <1>4, <1>5 DEF OperationsKept, OperationsInv

\* A command that leaves the counts alone.
LEMMA CountsStay ==
  ASSUME OperationsInv, UNCHANGED count, OperationsTypeOK'
  PROVE  OperationsKept
<1>1. OperationsInv'
  BY DEF OperationsInv
<1>2. CountsKeep
  BY DEF CountsKeep, OperationsInv
<1>3. QED
  BY <1>1, <1>2 DEF OperationsKept

\* Each command about a transfer or an adjustment writes one row of its type.
LEMMA DocumentsKept ==
  ASSUME OperationsInv, StockTypeOK', UNCHANGED count,
         \/ UNCHANGED adjustment /\ \E t \in Transfers :
              \/ \E lines \in LinesOfLength(TransferLine) :
                   \/ transfer' = [transfer EXCEPT ![t] =
                        [lines |-> lines, workflowStatus |-> "draft", postingStatus |-> "unposted"]]
                   \/ transfer' = [transfer EXCEPT ![t].lines = lines]
              \/ \E status \in {"ready", "cancelled"} :
                   transfer' = [transfer EXCEPT ![t].workflowStatus = status]
              \/ \E status \in {"posted", "reversed"} :
                   transfer' = [transfer EXCEPT ![t].postingStatus = status]
         \/ UNCHANGED transfer /\ \E a \in Adjustments :
              \/ \E lines \in LinesOfLength(AdjustmentLine) :
                   \/ adjustment' = [adjustment EXCEPT ![a] =
                        [lines |-> lines, workflowStatus |-> "draft", postingStatus |-> "unposted"]]
                   \/ adjustment' = [adjustment EXCEPT ![a].lines = lines]
              \/ \E status \in {"ready", "cancelled"} :
                   adjustment' = [adjustment EXCEPT ![a].workflowStatus = status]
              \/ \E status \in {"posted", "reversed"} :
                   adjustment' = [adjustment EXCEPT ![a].postingStatus = status]
  PROVE  OperationsKept
<1>1. ASSUME NEW S, NEW lines \in LinesOfLength(S) PROVE lines \in Seq(S)
  <2>1. PICK n \in 1..MaxOperationLines : lines \in [1..n -> S]
    BY <1>1 DEF LinesOfLength
  <2>2. n \in Nat
    BY OperationsAssumption
  <2>3. QED
    BY <2>1, <2>2
<1> DEFINE Row(S) == [lines : Seq(S), workflowStatus : WorkflowStates, postingStatus : PostingStates]
<1>2. transfer \in [Transfers -> Row(TransferLine)] /\ adjustment \in [Adjustments -> Row(AdjustmentLine)]
  BY DEF OperationsInv, OperationsTypeOK
<1>3. ASSUME NEW D, NEW S, NEW before \in [D -> Row(S)], NEW after, NEW d \in D,
             \/ \E lines \in LinesOfLength(S) :
                  \/ after = [before EXCEPT ![d] =
                       [lines |-> lines, workflowStatus |-> "draft", postingStatus |-> "unposted"]]
                  \/ after = [before EXCEPT ![d].lines = lines]
             \/ \E status \in {"ready", "cancelled"} :
                  after = [before EXCEPT ![d].workflowStatus = status]
             \/ \E status \in {"posted", "reversed"} :
                  after = [before EXCEPT ![d].postingStatus = status]
      PROVE  after \in [D -> Row(S)]
  <2>1. ASSUME NEW row \in Row(S), after = [before EXCEPT ![d] = row]
        PROVE  after \in [D -> Row(S)]
    <3> HIDE DEF Row
    <3> QED BY <2>1
  <2>2. before[d] \in Row(S)
    OBVIOUS
  <2>3. CASE \E lines \in LinesOfLength(S) :
               \/ after = [before EXCEPT ![d] =
                    [lines |-> lines, workflowStatus |-> "draft", postingStatus |-> "unposted"]]
               \/ after = [before EXCEPT ![d].lines = lines]
    <3>1. PICK lines \in LinesOfLength(S) :
            \/ after = [before EXCEPT ![d] =
                 [lines |-> lines, workflowStatus |-> "draft", postingStatus |-> "unposted"]]
            \/ after = [before EXCEPT ![d] = [before[d] EXCEPT !.lines = lines]]
      BY <2>3
    <3>2. lines \in Seq(S)
      BY <1>1
    <3>3. /\ [lines |-> lines, workflowStatus |-> "draft", postingStatus |-> "unposted"] \in Row(S)
          /\ [before[d] EXCEPT !.lines = lines] \in Row(S)
      BY <2>2, <3>2 DEF WorkflowStates, PostingStates
    <3> HIDE DEF Row
    <3>4. QED
      BY <2>1, <3>1, <3>3
  <2>4. CASE \/ \E status \in {"ready", "cancelled"} :
                  after = [before EXCEPT ![d].workflowStatus = status]
             \/ \E status \in {"posted", "reversed"} :
                  after = [before EXCEPT ![d].postingStatus = status]
    <3>1. \/ \E status \in {"ready", "cancelled"} :
               after = [before EXCEPT ![d] = [before[d] EXCEPT !.workflowStatus = status]]
          \/ \E status \in {"posted", "reversed"} :
               after = [before EXCEPT ![d] = [before[d] EXCEPT !.postingStatus = status]]
      BY <2>4
    <3>2. /\ \A status \in {"ready", "cancelled"} : [before[d] EXCEPT !.workflowStatus = status] \in Row(S)
          /\ \A status \in {"posted", "reversed"} : [before[d] EXCEPT !.postingStatus = status] \in Row(S)
      BY <2>2 DEF WorkflowStates, PostingStates
    <3> HIDE DEF Row
    <3>3. QED
      BY <2>1, <3>1, <3>2
  <2>5. QED
    BY <1>3, <2>3, <2>4
<1>4. transfer' \in [Transfers -> Row(TransferLine)] /\ adjustment' \in [Adjustments -> Row(AdjustmentLine)]
  <2> HIDE DEF Row
  <2> QED BY <1>2, <1>3
<1>5. OperationsTypeOK'
  BY <1>4 DEF OperationsInv, OperationsTypeOK
<1>6. QED
  BY <1>5, CountsStay

\* Every command of operations respects the promises and keeps the types.
LEMMA OperationsStand ==
  ASSUME StockSound, OperationsInv, OperationsNext
  PROVE  PromisesStand /\ OperationsKept
<1> DEFINE Good == PromisesStand /\ OperationsKept
<1>1. ASSUME PromisesStand PROVE StockTypeOK'
  BY <1>1 DEF PromisesStand
<1>2. /\ \A t \in Transfers : transfer[t].lines \in Seq(TransferLine)
      /\ \A a \in Adjustments : adjustment[a].lines \in Seq(AdjustmentLine)
      /\ count \in [Counts -> CountRow]
  BY DEF OperationsInv, OperationsTypeOK
<1>3. ASSUME NEW entries, Effective(entries), ImpactsAllow(entries),
             WriteOperationBalances(entries),
             WriteTransferMovements(entries) \/ WriteAdjustmentMovements(entries)
      PROVE  PromisesStand
  BY <1>3, OperationMoves DEF ImpactsAllow
<1>4. ASSUME NEW t \in Transfers, NEW lines \in LinesOfLength(TransferLine),
             CreateTransfer(t, lines) \/ ReviseTransfer(t, lines)
      PROVE  Good
  <2>1. UNCHANGED stockVars /\ UNCHANGED <<adjustment, count>>
    BY <1>4 DEF CreateTransfer, ReviseTransfer
  <2>2. PromisesStand
    BY <2>1, StockUntouched
  <2>3. OperationsKept
    BY <1>1, <1>4, <2>1, <2>2, DocumentsKept DEF CreateTransfer, ReviseTransfer
  <2>4. QED
    BY <2>2, <2>3
<1>5. ASSUME NEW t \in Transfers, ReadyTransfer(t) \/ CancelTransfer(t)
      PROVE  Good
  <2>1. UNCHANGED stockVars /\ UNCHANGED <<adjustment, count>>
    BY <1>5 DEF ReadyTransfer, CancelTransfer
  <2>2. PromisesStand
    BY <2>1, StockUntouched
  <2>3. OperationsKept
    BY <1>1, <1>5, <2>1, <2>2, DocumentsKept DEF ReadyTransfer, CancelTransfer
  <2>4. QED
    BY <2>2, <2>3
<1>6. ASSUME NEW t \in Transfers, PostTransfer(t) \/ ReverseTransfer(t)
      PROVE  Good
  <2>1. ASSUME NEW entries, NEW status \in {"posted", "reversed"},
               Effective(entries), MoveTransfer(t, entries, status)
        PROVE  Good
    <3>1. PromisesStand
      BY <1>3, <2>1 DEF MoveTransfer
    <3>2. OperationsKept
      BY <1>1, <2>1, <3>1, DocumentsKept DEF MoveTransfer
    <3>3. QED
      BY <3>1, <3>2
  <2>2. /\ Effective(TransferEntries(transfer[t].lines))
        /\ Effective(Opposite(TransferEntries(transfer[t].lines)))
    BY <1>2, LinesAreEffective
  <2> HIDE DEF Good
  <2>3. CASE PostTransfer(t)
    BY <2>1, <2>2, <2>3 DEF PostTransfer
  <2>4. CASE ReverseTransfer(t)
    BY <2>1, <2>2, <2>4 DEF ReverseTransfer
  <2>5. QED
    BY <1>6, <2>3, <2>4
<1>7. ASSUME NEW a \in Adjustments, NEW lines \in LinesOfLength(AdjustmentLine),
             CreateAdjustment(a, lines) \/ ReviseAdjustment(a, lines)
      PROVE  Good
  <2>1. UNCHANGED stockVars /\ UNCHANGED <<transfer, count>>
    BY <1>7 DEF CreateAdjustment, ReviseAdjustment
  <2>2. PromisesStand
    BY <2>1, StockUntouched
  <2>3. OperationsKept
    BY <1>1, <1>7, <2>1, <2>2, DocumentsKept DEF CreateAdjustment, ReviseAdjustment
  <2>4. QED
    BY <2>2, <2>3
<1>8. ASSUME NEW a \in Adjustments, ReadyAdjustment(a) \/ CancelAdjustment(a)
      PROVE  Good
  <2>1. UNCHANGED stockVars /\ UNCHANGED <<transfer, count>>
    BY <1>8 DEF ReadyAdjustment, CancelAdjustment
  <2>2. PromisesStand
    BY <2>1, StockUntouched
  <2>3. OperationsKept
    BY <1>1, <1>8, <2>1, <2>2, DocumentsKept DEF ReadyAdjustment, CancelAdjustment
  <2>4. QED
    BY <2>2, <2>3
<1>9. ASSUME NEW a \in Adjustments, PostAdjustment(a) \/ ReverseAdjustment(a)
      PROVE  Good
  <2>1. ASSUME NEW entries, NEW status \in {"posted", "reversed"},
               Effective(entries), Adjust(a, entries, status)
        PROVE  Good
    <3>1. PromisesStand
      BY <1>3, <2>1 DEF Adjust
    <3>2. OperationsKept
      BY <1>1, <2>1, <3>1, DocumentsKept DEF Adjust
    <3>3. QED
      BY <3>1, <3>2
  <2>2. Effective(adjustment[a].lines) /\ Effective(Opposite(adjustment[a].lines))
    BY <1>2, LinesAreEffective
  <2> HIDE DEF Good
  <2>3. CASE PostAdjustment(a)
    BY <2>1, <2>2, <2>3 DEF PostAdjustment
  <2>4. CASE ReverseAdjustment(a)
    BY <2>1, <2>2, <2>4 DEF ReverseAdjustment
  <2>5. QED
    BY <1>9, <2>3, <2>4
<1>10. ASSUME NEW c \in Counts, NEW bs \in CountableSets, CreateCount(c, bs)
       PROVE  Good
  <2> DEFINE row == [recorded |-> [b \in bs |-> balance[b]], counted |-> [b \in bs |-> None],
                     workflowStatus |-> "draft"]
  <2>1. PromisesStand /\ UNCHANGED balance
    BY <1>10, StockUntouched DEF CreateCount, stockVars
  <2>2. bs \in SUBSET BalanceKeys
    BY DEF CountableSets
  <2>3. [b \in bs |-> balance[b]] \in [bs -> BalanceRow]
    BY <2>2 DEF StockSound, StockTypeOK
  <2>4. [b \in bs |-> None] \in [bs -> 0..MaxCounted \cup {None}]
    OBVIOUS
  <2>5. row \in CountRow
    BY <2>2, <2>3, <2>4 DEF CountRow, CountStates
  <2>6. WritesCount(c, row)
    BY <1>10, <2>1, <2>5 DEF WritesCount, CreateCount
  <2>7. QED
    BY <1>1, <2>1, <2>6, CountWritten
<1>11. ASSUME NEW c \in Counts, NEW bs \in SUBSET DOMAIN count[c].recorded,
              NEW quantities \in [bs -> 0..MaxCounted], ReviseCount(c, quantities)
       PROVE  Good
  <2> DEFINE counted == [b \in DOMAIN count[c].counted |->
               IF b \in DOMAIN quantities THEN quantities[b] ELSE count[c].counted[b]]
             revised == [count[c] EXCEPT !.counted = counted]
             row == [revised EXCEPT !.workflowStatus = "in_progress"]
  <2>1. PromisesStand
    BY <1>11, StockUntouched DEF ReviseCount
  <2>2. /\ count[c].counted \in [DOMAIN count[c].recorded -> 0..MaxCounted \cup {None}]
        /\ DOMAIN count[c].recorded \in SUBSET BalanceKeys
        /\ count[c] \in CountRow /\ count[c].workflowStatus # "none"
    BY <1>11 DEF OperationsInv, OperationsTypeOK, ReviseCount, CountOpen
  <2>3. counted \in [DOMAIN count[c].recorded -> 0..MaxCounted \cup {None}]
    BY <2>2
  <2>4. count' = [count EXCEPT ![c].counted = counted, ![c].workflowStatus = "in_progress"]
    BY <1>11 DEF ReviseCount
  <2> HIDE DEF counted
  <2>5. row = [recorded |-> count[c].recorded, counted |-> counted, workflowStatus |-> "in_progress"]
    <3>1. revised = [recorded |-> count[c].recorded, counted |-> counted,
                     workflowStatus |-> count[c].workflowStatus]
      BY <2>2 DEF CountRow
    <3> HIDE DEF revised
    <3>2. QED
      BY <3>1
  <2>6. row \in CountRow /\ DOMAIN row.counted = DOMAIN row.recorded
    BY <2>2, <2>3, <2>5 DEF CountRow, CountStates
  <2>7. count' = [count EXCEPT ![c] = row]
    BY <1>2, <2>4
  <2> HIDE DEF row
  <2>8. WritesCount(c, row)
    BY <1>11, <2>2, <2>5, <2>6, <2>7 DEF WritesCount, ReviseCount
  <2>9. QED
    BY <1>1, <2>1, <2>8, CountWritten
<1>12. ASSUME NEW c \in Counts, NEW status \in CountStates \ {"none"}, PromisesStand,
              count[c].workflowStatus # "none",
              count' = [count EXCEPT ![c].workflowStatus = status],
              UNCHANGED <<transfer, adjustment>>
       PROVE  Good
  <2> DEFINE row == [count[c] EXCEPT !.workflowStatus = status]
  <2>1. /\ DOMAIN count[c].counted = DOMAIN count[c].recorded
        /\ count[c] \in CountRow
    BY DEF OperationsInv, OperationsTypeOK
  <2>2. row \in CountRow
    BY <2>1 DEF CountRow
  <2>3. /\ row.workflowStatus = status /\ row.recorded = count[c].recorded
        /\ row.counted = count[c].counted
    BY <2>1 DEF CountRow
  <2>4. count' = [count EXCEPT ![c] = row]
    BY <1>2, <1>12
  <2> HIDE DEF row
  <2>5. WritesCount(c, row)
    BY <1>12, <2>1, <2>2, <2>3, <2>4 DEF WritesCount
  <2>6. QED
    BY <1>1, <1>12, <2>5, CountWritten
<1>13. ASSUME NEW c \in Counts, SubmitCount(c) \/ ReviewCount(c) \/ CancelCount(c)
       PROVE  Good
  <2>1. PromisesStand
    BY <1>13, StockUntouched DEF SubmitCount, ReviewCount, CancelCount
  <2>2. QED
    BY <1>12, <1>13, <2>1 DEF SubmitCount, ReviewCount, CancelCount, CountOpen, CountStates
<1>14. ASSUME NEW c \in Counts, PostCount(c) PROVE Good
  <2> DEFINE entries == CountEntries(c)
  <2>1. /\ Effective(entries)
        /\ \A b \in Touched(entries) : balance[b].onHand + NetOf(entries, b) >= balance[b].reserved
    BY <1>14, CountLeaves
  <2>2. WriteOperationBalances(entries) /\ WriteAdjustmentMovements(entries)
    BY <1>14 DEF PostCount
  <2> HIDE DEF entries
  <2>3. PromisesStand
    BY <2>1, <2>2, OperationMoves
  <2>4. QED
    BY <1>12, <1>14, <2>3 DEF PostCount, CountStates
<1>15. QED
  BY <1>4, <1>5, <1>6, <1>7, <1>8, <1>9, <1>10, <1>11, <1>13, <1>14 DEF OperationsNext

-----------------------------------------------------------------------------
\* Returns

\* The routes by which each kind of posting moves goods.
RoutesOf(kind) ==
  CASE kind = "customer_return_receipt" -> {"receive_to_quarantine"}
    [] kind = "quarantine_release" -> {"release_quarantine_to_available"}
    [] OTHER -> {"return_from_available", "return_from_quarantine"}

(***************************************************************************)
(* An authorization has one kind: all its lines go by routes of that kind. *)
(***************************************************************************)
RoutesFollowKind ==
  \A a \in ReturnAuthorizations : \A l \in LinesIn(authorization[a].quantity) :
    authorization[a].route[l] \in RoutesOf(Kind(a))

\* What names a row of a posting: an authorization that was given, with its lines.
Authorized(row) ==
  /\ row.authorization \in ReturnAuthorizations
  /\ authorization[row.authorization].status # "none"
  /\ LinesIn(row.quantity) \subseteq LinesIn(authorization[row.authorization].quantity)

PostingsAreNamed ==
  \A p \in ReturnPostings : posting[p].postingStatus # "none" => Authorized(posting[p])

ReturnsInv ==
  /\ authorization \in [ReturnAuthorizations -> AuthorizationRow]
  /\ posting \in [ReturnPostings -> PostingRow]
  /\ RoutesFollowKind
  /\ PostingsAreNamed
  /\ PostedWithinAuthorized

\* What the posting rows execute of line l under authorization a.
ExecutedUnder(rows, a, l) ==
  [p \in ReturnPostings |->
     IF rows[p].postingStatus = "posted" /\ rows[p].authorization = a THEN rows[p].quantity[l] ELSE 0]
ExecutedBy(rows, a, l) ==
  Total([p \in {q \in ReturnPostings : rows[q].authorization = a} |->
           IF rows[p].postingStatus = "posted" THEN rows[p].quantity[l] ELSE 0])

LEMMA ExecutedSums ==
  ASSUME NEW rows \in [ReturnPostings -> PostingRow], NEW a, NEW l \in SourceLines
  PROVE  /\ ExecutedUnder(rows, a, l) \in [ReturnPostings -> Nat]
         /\ ExecutedBy(rows, a, l) = Total(ExecutedUnder(rows, a, l))
         /\ ExecutedBy(rows, a, l) \in Nat
<1> DEFINE mine == {q \in ReturnPostings : rows[q].authorization = a}
           q == [p \in mine |-> IF rows[p].postingStatus = "posted" THEN rows[p].quantity[l] ELSE 0]
<1>1. \A p \in ReturnPostings : rows[p].quantity[l] \in Nat
  BY DEF PostingRow, Quantity
<1>2. /\ q \in [mine -> Nat] /\ ExecutedUnder(rows, a, l) \in [ReturnPostings -> Nat]
      /\ mine \in SUBSET ReturnPostings
      /\ \A p \in mine : ExecutedUnder(rows, a, l)[p] = q[p]
      /\ \A p \in ReturnPostings \ mine : ExecutedUnder(rows, a, l)[p] = 0
  BY <1>1 DEF ExecutedUnder
<1>3. ExecutedBy(rows, a, l) = Total(q)
  BY DEF ExecutedBy
<1> HIDE DEF mine, q
<1>4. Total(ExecutedUnder(rows, a, l)) = Total(q)
  BY <1>2, TotalExtend
<1>5. Total(ExecutedUnder(rows, a, l)) \in Nat
  BY <1>2, TotalNat, ReturnAssumption
<1>6. QED
  BY <1>2, <1>3, <1>4, <1>5

\* What is left of an authorization is within it.
LEMMA DraftWithin ==
  ASSUME ReturnsInv, NEW a \in ReturnAuthorizations, NEW quantity \in Quantity, NEW key,
         DraftPlanAllows(a, quantity, key)
  PROVE  /\ authorization[a].status # "none"
         /\ LinesIn(quantity) \subseteq LinesIn(authorization[a].quantity)
         /\ \A l \in SourceLines : ExecutedBy(posting, a, l) + quantity[l] <= authorization[a].quantity[l]
<1>1. \A l \in SourceLines : /\ ExecutedBy(posting, a, l) = PostedOn(PostingsOf(a), l)
                             /\ ExecutedBy(posting, a, l) \in Nat
                             /\ ExecutedBy(posting, a, l) <= authorization[a].quantity[l]
  <2>1. \A l \in SourceLines : ExecutedBy(posting, a, l) = PostedOn(PostingsOf(a), l)
    BY DEF ExecutedBy, PostedOn, PostingsOf, Posted
  <2>2. \A l \in SourceLines : ExecutedBy(posting, a, l) \in Nat
    BY ExecutedSums DEF ReturnsInv
  <2>3. QED
    BY <2>1, <2>2 DEF ReturnsInv, PostedWithinAuthorized
<1>2. \A l \in SourceLines : quantity[l] \in Nat /\ authorization[a].quantity[l] \in Nat
  BY DEF ReturnsInv, AuthorizationRow, Quantity
<1>3. \A l \in LinesIn(quantity) : quantity[l] <= authorization[a].quantity[l] - ExecutedBy(posting, a, l)
  BY <1>1 DEF DraftPlanAllows, Remaining, LinesIn
<1>4. ASSUME NEW l \in SourceLines
      PROVE  /\ quantity[l] > 0 => authorization[a].quantity[l] > 0
             /\ ExecutedBy(posting, a, l) + quantity[l] <= authorization[a].quantity[l]
  <2>1. CASE quantity[l] > 0
    <3>1. quantity[l] <= authorization[a].quantity[l] - ExecutedBy(posting, a, l)
      BY <1>3, <2>1 DEF LinesIn
    <3>2. QED
      BY <1>1, <1>2, <2>1, <3>1
  <2>2. CASE ~(quantity[l] > 0)
    <3>1. quantity[l] = 0
      BY <1>2, <2>2
    <3>2. QED
      BY <1>1, <1>2, <3>1
  <2>3. QED
    BY <2>1, <2>2
<1>5. authorization[a].status # "none"
  BY DEF DraftPlanAllows, InForce, InForceStatuses
<1>6. QED
  BY <1>4, <1>5 DEF LinesIn

-----------------------------------------------------------------------------
\* Rows of authorizations and postings

\* What an authorization allows stands while only its status or deadline changes.
AuthorizationsStand ==
  /\ authorization' \in [ReturnAuthorizations -> AuthorizationRow]
  /\ \A a \in ReturnAuthorizations :
       /\ authorization'[a].quantity = authorization[a].quantity
       /\ authorization'[a].route = authorization[a].route
       /\ authorization[a].status # "none" => authorization'[a].status # "none"

LEMMA RoutesStand ==
  ASSUME ReturnsInv, AuthorizationsStand
  PROVE  RoutesFollowKind'
<1>1. \A a \in ReturnAuthorizations : Kind(a)' = Kind(a)
  BY DEF Kind, IsRelease, LinesIn, AuthorizationsStand
<1>2. QED
  BY <1>1 DEF ReturnsInv, RoutesFollowKind, LinesIn, AuthorizationsStand

\* A command that writes one posting, with what it then executes.
WritesPosting(p, row) ==
  /\ row \in PostingRow
  /\ row.postingStatus # "none"
  /\ Authorized(row)
  /\ row.postingStatus = "posted" =>
       /\ posting[p].postingStatus # "posted"
       /\ \A l \in SourceLines :
            ExecutedBy(posting, row.authorization, l) + row.quantity[l]
              <= authorization[row.authorization].quantity[l]
  /\ posting' = [posting EXCEPT ![p] = row]

LEMMA PostingWritten ==
  ASSUME ReturnsInv, AuthorizationsStand, NEW p \in ReturnPostings, NEW row, WritesPosting(p, row)
  PROVE  ReturnsInv'
<1>1. /\ posting \in [ReturnPostings -> PostingRow]
      /\ posting' \in [ReturnPostings -> PostingRow]
      /\ posting'[p] = row
      /\ \A q \in ReturnPostings : q # p => posting'[q] = posting[q]
  BY DEF ReturnsInv, WritesPosting
<1>2. PostingsAreNamed'
  <2>1. ASSUME NEW q \in ReturnPostings, NEW w, posting'[q] = w, Authorized(w)
        PROVE  Authorized(posting[q])'
    BY <2>1 DEF Authorized, AuthorizationsStand, LinesIn
  <2>2. \A q \in ReturnPostings : posting'[q].postingStatus # "none" => Authorized(posting[q])'
    BY <1>1, <2>1 DEF ReturnsInv, PostingsAreNamed, WritesPosting
  <2>3. QED
    BY <2>2 DEF PostingsAreNamed
<1>3. ASSUME NEW a \in ReturnAuthorizations, NEW l \in SourceLines
      PROVE  ExecutedBy(posting', a, l) <= authorization[a].quantity[l]
  <2> DEFINE before == ExecutedUnder(posting, a, l)
             after == ExecutedUnder(posting', a, l)
  <2>1. /\ before \in [ReturnPostings -> Nat] /\ after \in [ReturnPostings -> Nat]
        /\ ExecutedBy(posting, a, l) = Total(before)
        /\ ExecutedBy(posting', a, l) = Total(after)
        /\ Total(before) \in Nat
    BY <1>1, ExecutedSums
  <2>2. Total(before) <= authorization[a].quantity[l]
    <3>1. ExecutedBy(posting, a, l) = PostedOn(PostingsOf(a), l)
      BY DEF ExecutedBy, PostedOn, PostingsOf, Posted
    <3>2. QED
      BY <2>1, <3>1 DEF ReturnsInv, PostedWithinAuthorized
  <2>3. \A q \in ReturnPostings \ {p} : after[q] = before[q]
    BY <1>1 DEF ExecutedUnder
  <2>4. /\ after[p] # 0 => row.postingStatus = "posted" /\ row.authorization = a /\ after[p] = row.quantity[l]
        /\ row.postingStatus = "posted" => before[p] = 0
    BY <1>1 DEF ExecutedUnder, WritesPosting
  <2> HIDE DEF before, after
  <2>5. Total(after) = Total(before) - before[p] + after[p]
    BY <2>1, <2>3, TotalChange, ReturnAssumption
  <2>6. before[p] \in Nat /\ after[p] \in Nat /\ authorization[a].quantity[l] \in Nat
    BY <2>1 DEF ReturnsInv, AuthorizationRow, Quantity
  <2>7. CASE after[p] = 0
    BY <2>1, <2>2, <2>5, <2>6, <2>7
  <2>8. CASE after[p] # 0
    <3>1. before[p] = 0 /\ Total(before) + after[p] <= authorization[a].quantity[l]
      BY <2>1, <2>4, <2>8 DEF WritesPosting
    <3>2. QED
      BY <2>1, <2>5, <2>6, <3>1
  <2>9. QED
    BY <2>7, <2>8
<1>4. PostedWithinAuthorized'
  <2>1. \A a, l : PostedOn(PostingsOf(a), l)' = ExecutedBy(posting', a, l)
    BY DEF ExecutedBy, PostedOn, PostingsOf, Posted
  <2>2. QED
    BY <1>3, <2>1 DEF PostedWithinAuthorized, AuthorizationsStand
<1>5. QED
  BY <1>1, <1>2, <1>4, RoutesStand DEF ReturnsInv, AuthorizationsStand

\* A command that writes no posting.
LEMMA AuthorizationWritten ==
  ASSUME ReturnsInv, AuthorizationsStand, UNCHANGED posting
  PROVE  ReturnsInv'
<1>1. \A p \in ReturnPostings : Authorized(posting[p]) => Authorized(posting[p])'
  BY DEF Authorized, AuthorizationsStand, LinesIn
<1>2. \A a, l : PostedOn(PostingsOf(a), l)' = PostedOn(PostingsOf(a), l)
  BY DEF PostedOn, PostingsOf, Posted
<1>3. PostingsAreNamed' /\ PostedWithinAuthorized'
  BY <1>1, <1>2 DEF ReturnsInv, PostingsAreNamed, PostedWithinAuthorized, AuthorizationsStand
<1>4. QED
  BY <1>3, RoutesStand DEF ReturnsInv, AuthorizationsStand

\* One authorization changes its status, its deadline or its request.
LEMMA AuthorizationRestated ==
  ASSUME ReturnsInv, NEW a \in ReturnAuthorizations, NEW row \in AuthorizationRow,
         row.quantity = authorization[a].quantity, row.route = authorization[a].route,
         row.status = "none" => authorization[a].status = "none",
         authorization' = [authorization EXCEPT ![a] = row]
  PROVE  AuthorizationsStand
<1>1. /\ authorization'[a] = row
      /\ \A z \in ReturnAuthorizations : z # a => authorization'[z] = authorization[z]
      /\ authorization' \in [ReturnAuthorizations -> AuthorizationRow]
  BY DEF ReturnsInv
<1>2. QED
  BY <1>1 DEF AuthorizationsStand

(***************************************************************************)
(* A request that is authorized gets lines of one kind: suppliers get      *)
(* theirs back from where they are, customer goods are received or, as a   *)
(* whole, released.  Nothing was posted under the authorization before.    *)
(***************************************************************************)
LEMMA AuthorizeStep ==
  ASSUME ReturnsInv, NEW r \in ReturnRequests, NEW a \in ReturnAuthorizations,
         NEW asked \in RequestQuantities, NEW deadline \in {"none", "pending"},
         NEW route \in [LinesIn(asked) -> Routes], AuthorizeRequest(r, a, asked, route, deadline)
  PROVE  ReturnsInv'
<1> DEFINE row == [request |-> r, quantity |-> asked, route |-> route,
                   status |-> "approved", deadline |-> deadline]
<1>1. /\ row \in AuthorizationRow
      /\ asked \in Quantity
  <2>1. asked \in Quantity
    BY ReturnAssumption DEF RequestQuantities, Quantity
  <2>2. LinesIn(asked) \in SUBSET SourceLines
    BY DEF LinesIn
  <2>3. route \in UNION {[lines -> Routes] : lines \in SUBSET SourceLines}
    BY <2>2
  <2>4. QED
    BY <2>1, <2>3 DEF AuthorizationRow, AuthorizationStatuses, InForceStatuses
<1>2. /\ authorization[a].status = "none"
      /\ authorization' = [authorization EXCEPT ![a] = row]
      /\ UNCHANGED posting
  BY DEF AuthorizeRequest
<1>3. /\ row.quantity = asked /\ row.route = route /\ row.status = "approved"
  OBVIOUS
<1> HIDE DEF row
<1>4. /\ authorization'[a] = row
      /\ \A z \in ReturnAuthorizations : z # a => authorization'[z] = authorization[z]
      /\ authorization' \in [ReturnAuthorizations -> AuthorizationRow]
  BY <1>1, <1>2 DEF ReturnsInv
<1>5. ASSUME NEW l \in LinesIn(asked) PROVE route[l] \in RoutesOf(Kind(a))'
  <2> DEFINE lines == LinesIn(asked)
             release == \A k \in lines : route[k] = "release_quarantine_to_available"
             customer == \A k \in lines : ReturnType[k] = "customer_return"
  <2>1. Kind(a)' = IF \E k \in lines : ReturnType[k] = "supplier_return" THEN "supplier_return_dispatch"
                   ELSE IF release THEN "quarantine_release" ELSE "customer_return_receipt"
    BY <1>3, <1>4 DEF Kind, IsRelease
  <2>2. customer <=> ~ \E k \in lines : ReturnType[k] = "supplier_return"
    BY ReturnAssumption DEF LinesIn
  <2>3. /\ ~customer => route[l] \in {"return_from_available", "return_from_quarantine"}
        /\ customer /\ release => route[l] \in {"release_quarantine_to_available"}
        /\ customer /\ ~release => route[l] \in {"receive_to_quarantine"}
    BY DEF AuthorizeRequest, AuthorizationPlanAllows
  <2> HIDE DEF lines, release, customer
  <2>4. QED
    BY <2>1, <2>2, <2>3 DEF RoutesOf
<1>6. RoutesFollowKind'
  <2>1. \A z \in ReturnAuthorizations : z # a => Kind(z)' = Kind(z)
    BY <1>4 DEF Kind, IsRelease
  <2>2. QED
    BY <1>3, <1>4, <1>5, <2>1 DEF RoutesFollowKind, ReturnsInv
<1>7. \A p \in ReturnPostings : posting[p].postingStatus # "none" =>
        /\ posting[p].authorization \in ReturnAuthorizations \ {a}
        /\ Authorized(posting[p])
  BY <1>2 DEF ReturnsInv, PostingsAreNamed, Authorized
<1>8. PostingsAreNamed'
  BY <1>2, <1>4, <1>7 DEF PostingsAreNamed, Authorized
<1>9. PostedWithinAuthorized'
  <2>1. \A z, l : PostedOn(PostingsOf(z), l)' = ExecutedBy(posting, z, l)
    BY <1>2 DEF ExecutedBy, PostedOn, PostingsOf, Posted
  <2>2. ASSUME NEW l \in SourceLines PROVE ExecutedBy(posting, a, l) <= row.quantity[l]
    <3>1. /\ ExecutedUnder(posting, a, l) \in [ReturnPostings -> Nat]
          /\ ExecutedBy(posting, a, l) = Total(ExecutedUnder(posting, a, l))
      BY ExecutedSums DEF ReturnsInv
    <3>2. \A p \in ReturnPostings : ExecutedUnder(posting, a, l)[p] = 0
      BY <1>7 DEF ExecutedUnder
    <3>3. Total(ExecutedUnder(posting, a, l)) = 0
      BY <3>1, <3>2, TotalZero
    <3>4. row.quantity[l] \in Nat
      BY <1>1, <1>3 DEF Quantity
    <3>5. QED
      BY <3>1, <3>3, <3>4
  <2>3. \A z \in ReturnAuthorizations, l \in SourceLines :
          ExecutedBy(posting, z, l) <= authorization[z].quantity[l]
    BY DEF ReturnsInv, PostedWithinAuthorized, ExecutedBy, PostedOn, PostingsOf, Posted
  <2>4. QED
    BY <1>4, <2>1, <2>2, <2>3 DEF PostedWithinAuthorized
<1>10. QED
  BY <1>2, <1>4, <1>6, <1>8, <1>9 DEF ReturnsInv

\* The commands about requests and authorizations.
LEMMA GovernanceStep ==
  ASSUME ReturnsInv, GovernanceNext
  PROVE  ReturnsInv' /\ UNCHANGED stockVars
<1>1. ASSUME UNCHANGED <<authorization, posting>> PROVE ReturnsInv'
  <2>1. AuthorizationsStand
    BY <1>1 DEF AuthorizationsStand, ReturnsInv
  <2>2. QED
    BY <1>1, <2>1, AuthorizationWritten
<1>2. ASSUME NEW a \in ReturnAuthorizations, UNCHANGED posting, NEW w \in AuthorizationRow,
             w.quantity = authorization[a].quantity, w.route = authorization[a].route,
             w.status = "none" => authorization[a].status = "none",
             authorization' = [authorization EXCEPT ![a] = w]
      PROVE  ReturnsInv'
  BY <1>2, AuthorizationRestated, AuthorizationWritten
<1>3. \A a \in ReturnAuthorizations : authorization[a] \in AuthorizationRow
  BY DEF ReturnsInv
<1>4. ASSUME NEW r, NEW asked, CreateRequest(r, asked) \/ ReviseRequest(r, asked)
      PROVE  ReturnsInv' /\ UNCHANGED stockVars
  BY <1>1, <1>4 DEF CreateRequest, ReviseRequest
<1>5. ASSUME NEW r, SubmitRequest(r) \/ CancelRequest(r)
      PROVE  ReturnsInv' /\ UNCHANGED stockVars
  BY <1>1, <1>5 DEF SubmitRequest, CancelRequest
<1>6. ASSUME NEW r \in ReturnRequests, NEW a \in ReturnAuthorizations,
             NEW asked \in RequestQuantities, NEW deadline \in {"none", "pending"},
             NEW route \in [LinesIn(asked) -> Routes], AuthorizeRequest(r, a, asked, route, deadline)
      PROVE  ReturnsInv' /\ UNCHANGED stockVars
  BY <1>6, AuthorizeStep DEF AuthorizeRequest
<1>7. ASSUME NEW r \in ReturnRequests, NEW a \in ReturnAuthorizations, RejectRequest(r, a)
      PROVE  ReturnsInv' /\ UNCHANGED stockVars
  <2> DEFINE asked == [authorization[a] EXCEPT !.request = r]
             w == [asked EXCEPT !.status = "rejected"]
  <2>1. /\ asked \in AuthorizationRow
        /\ asked.quantity = authorization[a].quantity /\ asked.route = authorization[a].route
    BY <1>3 DEF AuthorizationRow
  <2>2. authorization' = [authorization EXCEPT ![a] = w]
    BY <1>7 DEF RejectRequest, ReturnsInv
  <2> HIDE DEF asked
  <2>3. /\ w \in AuthorizationRow /\ w.status = "rejected"
        /\ w.quantity = asked.quantity /\ w.route = asked.route
    BY <2>1 DEF AuthorizationRow, AuthorizationStatuses
  <2> HIDE DEF w
  <2>4. UNCHANGED posting /\ UNCHANGED stockVars
    BY <1>7 DEF RejectRequest
  <2>5. w.quantity = authorization[a].quantity /\ w.route = authorization[a].route
    BY <2>1, <2>3
  <2>6. w.status = "none" => authorization[a].status = "none"
    BY <2>3
  <2>7. QED
    BY <1>2, <2>2, <2>3, <2>4, <2>5, <2>6
<1>8. ASSUME NEW a \in ReturnAuthorizations, CancelAuthorization(a) \/ ExpireAuthorization(a)
      PROVE  ReturnsInv' /\ UNCHANGED stockVars
  <2>1. PICK status \in {"cancelled", "expired"} : CloseAuthorization(a, status)
    BY <1>8 DEF CancelAuthorization, ExpireAuthorization
  <2> DEFINE w == [authorization[a] EXCEPT !.status = status]
  <2>2. /\ w \in AuthorizationRow /\ w.status = status
        /\ w.quantity = authorization[a].quantity /\ w.route = authorization[a].route
    BY <1>3 DEF AuthorizationRow, AuthorizationStatuses
  <2>3. authorization' = [authorization EXCEPT ![a] = w]
    BY <2>1 DEF CloseAuthorization
  <2> HIDE DEF w
  <2>4. QED
    BY <1>2, <2>1, <2>2, <2>3 DEF CloseAuthorization
<1>9. ASSUME NEW a \in ReturnAuthorizations, PassDeadline(a)
      PROVE  ReturnsInv' /\ UNCHANGED stockVars
  <2> DEFINE w == [authorization[a] EXCEPT !.deadline = "past"]
  <2>1. /\ w \in AuthorizationRow /\ w.status = authorization[a].status
        /\ w.quantity = authorization[a].quantity /\ w.route = authorization[a].route
    BY <1>3 DEF AuthorizationRow
  <2>2. authorization' = [authorization EXCEPT ![a] = w]
    BY <1>9 DEF PassDeadline
  <2> HIDE DEF w
  <2>3. QED
    BY <1>2, <1>9, <2>1, <2>2 DEF PassDeadline
<1>10. ASSUME NEW document, ReverseSource(document) PROVE ReturnsInv' /\ UNCHANGED stockVars
  BY <1>1, <1>10 DEF ReverseSource
<1>11. QED
  BY <1>4, <1>5, <1>6, <1>7, <1>8, <1>9, <1>10 DEF GovernanceNext

-----------------------------------------------------------------------------
\* Drafts of postings

\* The rows a draft may have.
LEMMA DraftRows ==
  ASSUME ReturnsInv, NEW p \in ReturnPostings
  PROVE  /\ posting[p] \in PostingRow
         /\ \A asked \in RequestQuantities : \A key \in [LinesIn(asked) -> BalanceKeys] :
              /\ asked \in Quantity
              /\ key \in UNION {[lines -> BalanceKeys] : lines \in SUBSET SourceLines}
<1>1. posting[p] \in PostingRow
  BY DEF ReturnsInv
<1>2. RequestQuantities \subseteq Quantity
  BY ReturnAssumption DEF RequestQuantities, Quantity
<1>3. \A asked : LinesIn(asked) \in SUBSET SourceLines
  BY DEF LinesIn
<1>4. QED
  BY <1>1, <1>2, <1>3

\* A draft is written within what is left of its authorization.
LEMMA DraftReturnStep ==
  ASSUME ReturnsInv, NEW p \in ReturnPostings, NEW a, NEW asked \in RequestQuantities,
         NEW key \in [LinesIn(asked) -> BalanceKeys], NEW kind,
         \/ a \in ReturnAuthorizations /\ CreateReturnDraft(kind, p, a, asked, key)
         \/ a = posting[p].authorization /\ ReviseReturnDraft(kind, p, asked, key)
  PROVE  ReturnsInv' /\ UNCHANGED stockVars
<1>1. /\ posting[p] \in PostingRow
      /\ asked \in Quantity
      /\ key \in UNION {[lines -> BalanceKeys] : lines \in SUBSET SourceLines}
  BY DraftRows
<1>2. /\ a \in ReturnAuthorizations
      /\ DraftPlanAllows(a, asked, key)
      /\ UNCHANGED <<governanceVars, stockVars>>
  BY DEF CreateReturnDraft, ReviseReturnDraft, OpenReturn, ReturnsInv, PostingsAreNamed, Authorized
<1>3. /\ authorization[a].status # "none"
      /\ LinesIn(asked) \subseteq LinesIn(authorization[a].quantity)
  BY <1>1, <1>2, DraftWithin
<1>4. AuthorizationsStand
  BY <1>2 DEF AuthorizationsStand, ReturnsInv, governanceVars
<1>5. ASSUME NEW row, row \in PostingRow, row.postingStatus = "unposted", row.authorization = a,
             row.quantity = asked, posting' = [posting EXCEPT ![p] = row]
      PROVE  ReturnsInv' /\ UNCHANGED stockVars
  <2>1. WritesPosting(p, row)
    BY <1>2, <1>3, <1>5 DEF WritesPosting, Authorized
  <2>2. QED
    BY <1>2, <1>4, <2>1, PostingWritten
<1>6. CASE CreateReturnDraft(kind, p, a, asked, key)
  <2> DEFINE empty == [l \in {} |-> None]
             nowhere == [b \in BalanceKeys |-> None]
             given == [NoPosting EXCEPT !.authorization = a]
             filled == [given EXCEPT !.quantity = asked]
             placed == [filled EXCEPT !.key = key]
             draft == [placed EXCEPT !.workflowStatus = "draft"]
             row == [draft EXCEPT !.postingStatus = "unposted"]
  <2>1. row = [authorization |-> a, quantity |-> asked, key |-> key,
               workflowStatus |-> "draft", postingStatus |-> "unposted", occurredAt |-> 0,
               destinationAfter |-> nowhere]
    <3>1. NoPosting = [authorization |-> None, quantity |-> Nothing, key |-> empty,
                       workflowStatus |-> "none", postingStatus |-> "none", occurredAt |-> 0,
                       destinationAfter |-> nowhere]
      BY DEF NoPosting
    <3> HIDE DEF empty, nowhere
    <3>2. given = [authorization |-> a, quantity |-> Nothing, key |-> empty,
                   workflowStatus |-> "none", postingStatus |-> "none", occurredAt |-> 0,
                   destinationAfter |-> nowhere]
      BY <3>1
    <3> HIDE DEF given
    <3>3. filled = [authorization |-> a, quantity |-> asked, key |-> empty,
                    workflowStatus |-> "none", postingStatus |-> "none", occurredAt |-> 0,
                    destinationAfter |-> nowhere]
      BY <3>2
    <3> HIDE DEF filled
    <3>4. placed = [authorization |-> a, quantity |-> asked, key |-> key,
                    workflowStatus |-> "none", postingStatus |-> "none", occurredAt |-> 0,
                    destinationAfter |-> nowhere]
      BY <3>3
    <3> HIDE DEF placed
    <3>5. draft = [authorization |-> a, quantity |-> asked, key |-> key,
                   workflowStatus |-> "draft", postingStatus |-> "none", occurredAt |-> 0,
                   destinationAfter |-> nowhere]
      BY <3>4
    <3> HIDE DEF draft
    <3>6. QED
      BY <3>5
  <2>2. posting' = [posting EXCEPT ![p] = row]
    BY <1>6 DEF CreateReturnDraft
  <2> HIDE DEF row
  <2>3. row \in PostingRow
    BY <1>1, <1>2, <2>1 DEF PostingRow
  <2>4. QED
    BY <1>5, <2>1, <2>2, <2>3
<1>7. CASE a = posting[p].authorization /\ ReviseReturnDraft(kind, p, asked, key)
  <2> DEFINE moved == [posting[p] EXCEPT !.quantity = asked]
             row == [moved EXCEPT !.key = key]
  <2>1. /\ moved \in PostingRow /\ moved.quantity = asked
        /\ moved.postingStatus = posting[p].postingStatus
        /\ moved.authorization = posting[p].authorization
    BY <1>1 DEF PostingRow
  <2>2. posting' = [posting EXCEPT ![p] = row] /\ posting[p].postingStatus = "unposted"
    BY <1>7 DEF ReviseReturnDraft, OpenReturn, ReturnsInv
  <2> HIDE DEF moved
  <2>3. /\ row \in PostingRow /\ row.quantity = moved.quantity
        /\ row.postingStatus = moved.postingStatus
        /\ row.authorization = moved.authorization
    BY <1>1, <2>1 DEF PostingRow
  <2> HIDE DEF row
  <2>4. QED
    BY <1>5, <1>7, <2>1, <2>2, <2>3
<1>8. QED
  BY <1>6, <1>7

\* A draft is made ready or cancelled.
LEMMA DraftStatusStep ==
  ASSUME ReturnsInv, NEW p \in ReturnPostings, NEW kind,
         ReadyReturn(kind, p) \/ CancelReturn(kind, p)
  PROVE  ReturnsInv' /\ UNCHANGED stockVars
<1>1. PICK status \in {"ready", "cancelled"} : posting' = [posting EXCEPT ![p].workflowStatus = status]
  BY DEF ReadyReturn, CancelReturn
<1>2. /\ posting[p].postingStatus = "unposted"
      /\ UNCHANGED <<governanceVars, stockVars>>
      /\ posting[p] \in PostingRow
      /\ Authorized(posting[p])
  BY DraftRows DEF ReadyReturn, CancelReturn, OpenReturn, ReturnsInv, PostingsAreNamed
<1>3. AuthorizationsStand
  BY <1>2 DEF AuthorizationsStand, ReturnsInv, governanceVars
<1> DEFINE row == [posting[p] EXCEPT !.workflowStatus = status]
<1>4. /\ row \in PostingRow /\ row.postingStatus = "unposted"
      /\ row.authorization = posting[p].authorization /\ row.quantity = posting[p].quantity
  BY <1>2 DEF PostingRow
<1>5. posting' = [posting EXCEPT ![p] = row]
  BY <1>1
<1> HIDE DEF row
<1>6. WritesPosting(p, row)
  BY <1>2, <1>4, <1>5 DEF WritesPosting, Authorized
<1>7. QED
  BY <1>2, <1>3, <1>6, PostingWritten

-----------------------------------------------------------------------------
\* Posting and reversing a return

\* What a posting moves somewhere is a natural number, and goes by a line of it.
LEMMA MovedLines ==
  ASSUME ReturnsInv, NEW p \in ReturnPostings, NEW b, NEW routes
  PROVE  /\ MovedBy(p, b, routes) \in Nat
         /\ MovedBy(p, b, routes) # 0 => \E l \in LinesIn(posting[p].quantity) :
              authorization[posting[p].authorization].route[l] \in routes
<1> DEFINE lines == LinesIn(posting[p].quantity)
           q == [l \in lines |->
             IF posting[p].key[l] = b /\ authorization[posting[p].authorization].route[l] \in routes
             THEN posting[p].quantity[l] ELSE 0]
<1>1. /\ lines \in SUBSET SourceLines
      /\ \A l \in SourceLines : posting[p].quantity[l] \in Nat
  BY DEF ReturnsInv, PostingRow, Quantity, LinesIn
<1>2. IsFiniteSet(lines)
  <2> HIDE DEF lines
  <2> QED BY <1>1, FS_Subset, ReturnAssumption
<1>3. q \in [lines -> Nat]
  BY <1>1
<1>4. MovedBy(p, b, routes) = Total(q)
  BY DEF MovedBy
<1>5. \A l \in lines : q[l] > 0 => authorization[posting[p].authorization].route[l] \in routes
  BY <1>1
<1> HIDE DEF q, lines
<1>6. Total(q) \in Nat /\ (Total(q) # 0 => \E l \in lines : q[l] > 0)
  BY <1>2, <1>3, TotalNat, TotalPositive
<1>7. QED
  BY <1>4, <1>5, <1>6 DEF lines

\* Only a release brings goods from quarantine to stock.
LEMMA ReleasesBringStock ==
  ASSUME ReturnsInv, NEW p \in ReturnPostings, posting[p].postingStatus # "none",
         NEW b, StockIn(p, b) # 0
  PROVE  Kind(posting[p].authorization) = "quarantine_release"
<1> DEFINE a == posting[p].authorization
<1>1. PICK l \in LinesIn(posting[p].quantity) :
        authorization[a].route[l] \in {"release_quarantine_to_available"}
  BY MovedLines DEF StockIn
<1>2. a \in ReturnAuthorizations /\ l \in LinesIn(authorization[a].quantity)
  BY DEF ReturnsInv, PostingsAreNamed, Authorized
<1>3. authorization[a].route[l] \in RoutesOf(Kind(a))
  BY <1>2 DEF ReturnsInv, RoutesFollowKind
<1>4. QED
  BY <1>1, <1>3 DEF RoutesOf

\* Goods that move, where what is left covers what is reserved.
LEMMA GoodsMove ==
  ASSUME StockSound, ReturnsInv, NEW p \in ReturnPostings, NEW sign \in {1, -1}, MoveGoods(p, sign),
         \A b \in BalanceKeys :
           balance[b].onHand + sign * (StockIn(p, b) - StockOut(p, b)) >= balance[b].reserved
  PROVE  PromisesStand
<1> DEFINE move(b) == sign * (StockIn(p, b) - StockOut(p, b))
<1>1. ASSUME NEW b \in BalanceKeys
      PROVE  /\ balance[b] \in BalanceRow
             /\ balance[b].onHand \in Int /\ balance[b].reserved \in Int
             /\ balance[b].available \in Int /\ balance[b].version \in Nat
             /\ balance[b].available = balance[b].onHand - balance[b].reserved
             /\ balance[b].reserved <= balance[b].onHand
  BY DEF StockSound, StockTypeOK, BalanceRow, StockNeverOversold, Reconciles
<1>2. ASSUME NEW b
      PROVE  /\ StockIn(p, b) \in Nat /\ StockOut(p, b) \in Nat
             /\ LedgerIn(p, b) \in Nat /\ LedgerOut(p, b) \in Nat
  <2>1. \A routes : MovedBy(p, b, routes) \in Nat
    BY MovedLines
  <2>2. QED
    BY <2>1 DEF StockIn, StockOut, LedgerIn, LedgerOut, QuarantineIn, QuarantineOut
<1>3. \A b : move(b) \in Int
  BY <1>2
<1>4. ASSUME NEW b \in BalanceKeys
      PROVE  /\ balance'[b] \in BalanceRow
             /\ Reconciles(b)'
             /\ balance'[b].reserved = balance[b].reserved
             /\ balance'[b].reserved <= balance'[b].onHand
             /\ balance'[b] = balance[b] \/ balance[b].version < balance'[b].version
  <2>1. CASE StockIn(p, b) + StockOut(p, b) = 0
    <3>1. balance'[b] = balance[b]
      BY <2>1 DEF MoveGoods
    <3>2. QED
      BY <1>1, <3>1 DEF Reconciles
  <2>2. CASE StockIn(p, b) + StockOut(p, b) # 0
    <3>1. balance'[b] = [balance[b] EXCEPT !.onHand = @ + move(b), !.available = @ + move(b),
                                           !.version = @ + 1]
      BY <2>2 DEF MoveGoods
    <3>2. balance[b].onHand + move(b) >= balance[b].reserved /\ move(b) \in Int
      BY <1>3
    <3> HIDE DEF move
    <3>3. /\ balance'[b].onHand = balance[b].onHand + move(b)
          /\ balance'[b].available = balance[b].available + move(b)
          /\ balance'[b].version = balance[b].version + 1
          /\ balance'[b].reserved = balance[b].reserved
      BY <1>1, <3>1 DEF BalanceRow
    <3>4. /\ balance[b].onHand + move(b) \in Int /\ balance[b].available + move(b) \in Int
          /\ balance[b].version + 1 \in Nat
      BY <1>1, <3>2
    <3>5. balance'[b] \in BalanceRow
      BY <1>1, <3>1, <3>4 DEF BalanceRow
    <3>6. QED
      BY <1>1, <3>2, <3>3, <3>5 DEF Reconciles
  <2>3. QED
    BY <2>1, <2>2
<1> HIDE DEF move
<1>5. balance' \in [BalanceKeys -> BalanceRow]
  <2>1. balance' = [b \in BalanceKeys |-> balance'[b]]
    BY DEF MoveGoods
  <2>2. QED
    BY <1>4, <2>1
<1>6. movement' \in [BalanceKeys -> MovementSums]
  <2>1. ASSUME NEW b \in BalanceKeys, NEW x \in Nat, NEW y \in Nat
        PROVE  [movement[b] EXCEPT !.quantityIn = @ + x, !.quantityOut = @ + y] \in MovementSums
    <3>1. /\ movement[b] \in MovementSums
          /\ movement[b].quantityIn + x \in Nat /\ movement[b].quantityOut + y \in Nat
      BY DEF StockSound, StockTypeOK, MovementSums
    <3>2. QED
      BY <3>1 DEF MovementSums
  <2>2. \A b \in BalanceKeys : movement'[b] \in MovementSums
    BY <1>2, <2>1 DEF MoveGoods
  <2>3. movement' = [b \in BalanceKeys |-> movement'[b]]
    BY DEF MoveGoods
  <2>4. QED
    BY <2>2, <2>3
<1>7. QED
  BY <1>4, <1>5, <1>6 DEF PromisesStand, StockTypeOK, VersionsRise

\* The statuses written with a posting or a reversal are of an authorization in use.
LEMMA StatusesWritten ==
  ASSUME ReturnsInv, NEW a \in ReturnAuthorizations, NEW executed, WriteStatuses(a, executed)
  PROVE  AuthorizationsStand
<1> DEFINE row == [authorization[a] EXCEPT !.status = AuthorizationStatus(a, executed)]
<1>1. AuthorizationStatus(a, executed) \in AuthorizationStatuses \ {"none"}
  BY DEF AuthorizationStatus, AuthorizationStatuses, InForceStatuses
<1>2. authorization[a] \in AuthorizationRow
  BY DEF ReturnsInv
<1>3. /\ row \in AuthorizationRow /\ row.status # "none"
      /\ row.quantity = authorization[a].quantity /\ row.route = authorization[a].route
  BY <1>1, <1>2 DEF AuthorizationRow
<1>4. authorization' = [authorization EXCEPT ![a] = row]
  BY DEF WriteStatuses
<1> HIDE DEF row
<1>5. QED
  BY <1>3, <1>4, AuthorizationRestated

(***************************************************************************)
(* A posting takes from stock only what is there and not reserved, and     *)
(* executes no more than is left of its authorization.                     *)
(***************************************************************************)
LEMMA PostReturnStep ==
  ASSUME StockSound, ReturnsInv, NEW p \in ReturnPostings, NEW kind, PostReturn(kind, p)
  PROVE  ReturnsInv' /\ PromisesStand
<1> DEFINE a == posting[p].authorization
<1>1. /\ posting[p] \in PostingRow
      /\ posting[p].postingStatus = "unposted"
      /\ Authorized(posting[p])
      /\ a \in ReturnAuthorizations
  BY DEF PostReturn, OpenReturn, ReturnsInv, PostingsAreNamed, Authorized
<1>2. AuthorizationsStand
  <2>1. PICK executed : WriteStatuses(a, executed)
    BY DEF PostReturn
  <2> HIDE DEF a
  <2>2. QED
    BY <1>1, <2>1, StatusesWritten
<1>3. PromisesStand
  <2>1. MoveGoods(p, 1)
    BY DEF PostReturn
  <2>2. ASSUME NEW b \in BalanceKeys
        PROVE  balance[b].onHand + 1 * (StockIn(p, b) - StockOut(p, b)) >= balance[b].reserved
    <3>1. StockIn(p, b) \in Nat /\ StockOut(p, b) \in Nat
      BY MovedLines DEF StockIn, StockOut
    <3>2. balance[b].onHand \in Int /\ balance[b].reserved \in Int /\ balance[b].reserved <= balance[b].onHand
      BY DEF StockSound, StockTypeOK, BalanceRow, StockNeverOversold
    <3>3. StockOut(p, b) > 0 => balance[b].onHand - StockOut(p, b) >= balance[b].reserved
      BY DEF PostReturn, ReturnPlanAllows, StockCovers
    <3>4. QED
      BY <3>1, <3>2, <3>3
  <2>3. QED
    BY <2>1, <2>2, GoodsMove
<1>4. /\ DraftPlanAllows(a, posting[p].quantity, posting[p].key)
      /\ posting[p].quantity \in Quantity
  BY <1>1 DEF PostReturn, ReturnPlanAllows, PostingRow
<1>5. \A l \in SourceLines :
        ExecutedBy(posting, a, l) + posting[p].quantity[l] <= authorization[a].quantity[l]
  <2> HIDE DEF a
  <2> QED BY <1>1, <1>4, DraftWithin
<1> DEFINE occurred == IF kind = "customer_return_receipt" THEN NextOccurrence ELSE 0
           after == [b \in BalanceKeys |-> IF StockIn(p, b) > 0 THEN balance'[b] ELSE None]
           posted == [posting[p] EXCEPT !.postingStatus = "posted"]
           dated == [posted EXCEPT !.occurredAt = occurred]
           row == [dated EXCEPT !.destinationAfter = after]
<1>6. posting' = [posting EXCEPT ![p] = row]
  BY DEF PostReturn, ReturnsInv
<1>7. occurred \in Nat
  <2>1. IsFiniteSet({q \in ReturnPostings : posting[q].occurredAt > 0})
    BY FS_Subset, ReturnAssumption
  <2>2. Cardinality({q \in ReturnPostings : posting[q].occurredAt > 0}) \in Nat
    BY <2>1, FS_CardinalityType
  <2>3. QED
    BY <2>2 DEF NextOccurrence
<1>8. after \in [BalanceKeys -> BalanceRow \cup {None}]
  BY <1>3 DEF PromisesStand, StockTypeOK
<1> HIDE DEF occurred, after
<1>9. /\ posted \in PostingRow /\ posted.postingStatus = "posted"
      /\ posted.authorization = a /\ posted.quantity = posting[p].quantity
  BY <1>1 DEF PostingRow
<1> HIDE DEF posted
<1>10. /\ dated \in PostingRow /\ dated.postingStatus = "posted"
       /\ dated.authorization = a /\ dated.quantity = posting[p].quantity
  BY <1>7, <1>9 DEF PostingRow
<1> HIDE DEF dated
<1>11. /\ row \in PostingRow /\ row.postingStatus = "posted"
       /\ row.authorization = a /\ row.quantity = posting[p].quantity
  BY <1>8, <1>10 DEF PostingRow
<1> HIDE DEF row
<1>12. WritesPosting(p, row)
  BY <1>1, <1>5, <1>6, <1>11 DEF WritesPosting, Authorized
<1>13. QED
  BY <1>2, <1>3, <1>12, PostingWritten

(***************************************************************************)
(* The reversal of a release takes back what it brought from the stock it  *)
(* left; no other reversal takes stock.                                    *)
(***************************************************************************)
LEMMA ReverseReturnStep ==
  ASSUME StockSound, ReturnsInv, NEW p \in ReturnPostings, NEW kind, ReverseReturn(kind, p)
  PROVE  ReturnsInv' /\ PromisesStand
<1> DEFINE a == posting[p].authorization
<1>1. /\ posting[p] \in PostingRow
      /\ posting[p].postingStatus = "posted"
      /\ Authorized(posting[p])
      /\ a \in ReturnAuthorizations
      /\ Kind(a) = kind
  BY DEF ReverseReturn, Posted, ReturnsInv, PostingsAreNamed, Authorized
<1>2. AuthorizationsStand
  <2>1. PICK executed : WriteStatuses(a, executed)
    BY DEF ReverseReturn
  <2> HIDE DEF a
  <2>2. QED
    BY <1>1, <2>1, StatusesWritten
<1>3. PromisesStand
  <2>1. MoveGoods(p, -1)
    BY DEF ReverseReturn
  <2>2. ASSUME NEW b \in BalanceKeys
        PROVE  balance[b].onHand + (-1) * (StockIn(p, b) - StockOut(p, b)) >= balance[b].reserved
    <3>1. StockIn(p, b) \in Nat /\ StockOut(p, b) \in Nat
      BY MovedLines DEF StockIn, StockOut
    <3>2. balance[b].onHand \in Int /\ balance[b].reserved \in Int /\ balance[b].reserved <= balance[b].onHand
      BY DEF StockSound, StockTypeOK, BalanceRow, StockNeverOversold
    <3>3. StockIn(p, b) > 0 => balance[b].onHand - StockIn(p, b) >= balance[b].reserved
      <4>1. SUFFICES ASSUME StockIn(p, b) > 0
                     PROVE  balance[b].onHand - StockIn(p, b) >= balance[b].reserved
        OBVIOUS
      <4>2. kind = "quarantine_release"
        BY <1>1, <3>1, <4>1, ReleasesBringStock
      <4>3. DestinationUntouched(p)
        BY <4>2 DEF ReverseReturn
      <4>4. QED
        BY <4>1, <4>3 DEF DestinationUntouched
    <3>4. QED
      BY <3>1, <3>2, <3>3
  <2>3. QED
    BY <2>1, <2>2, GoodsMove
<1> DEFINE row == [posting[p] EXCEPT !.postingStatus = "reversed"]
<1>4. /\ row \in PostingRow /\ row.postingStatus = "reversed"
      /\ row.authorization = a /\ row.quantity = posting[p].quantity
  BY <1>1 DEF PostingRow
<1>5. posting' = [posting EXCEPT ![p] = row]
  BY DEF ReverseReturn
<1> HIDE DEF row
<1>6. WritesPosting(p, row)
  BY <1>1, <1>4, <1>5 DEF WritesPosting, Authorized
<1>7. QED
  BY <1>2, <1>3, <1>6, PostingWritten

\* Every command of returns respects the promises and keeps its invariant.
LEMMA ReturnsStand ==
  ASSUME StockSound, ReturnsInv, ReturnsNext
  PROVE  ReturnsInv' /\ PromisesStand
<1>1. CASE GovernanceNext
  BY <1>1, GovernanceStep, StockUntouched
<1>2. ASSUME NEW p \in ReturnPostings, NEW asked \in RequestQuantities,
             NEW key \in [LinesIn(asked) -> BalanceKeys], DraftNext(p, asked, key)
      PROVE  ReturnsInv' /\ PromisesStand
  <2>1. ASSUME NEW kind, NEW a \in ReturnAuthorizations, CreateReturnDraft(kind, p, a, asked, key)
        PROVE  ReturnsInv' /\ UNCHANGED stockVars
    BY <2>1, DraftReturnStep
  <2>2. ASSUME NEW kind, ReviseReturnDraft(kind, p, asked, key)
        PROVE  ReturnsInv' /\ UNCHANGED stockVars
    BY <2>2, DraftReturnStep
  <2>3. ReturnsInv' /\ UNCHANGED stockVars
    BY <1>2, <2>1, <2>2
       DEF DraftNext, CreateCustomerReturnDraft, CreateReleaseDraft, CreateSupplierReturnDraft,
           ReviseCustomerReturnDraft, ReviseReleaseDraft, ReviseSupplierReturnDraft
  <2>4. QED
    BY <2>3, StockUntouched
<1>3. ASSUME NEW p \in ReturnPostings, NEW kind, ReadyReturn(kind, p) \/ CancelReturn(kind, p)
      PROVE  ReturnsInv' /\ PromisesStand
  BY <1>3, DraftStatusStep, StockUntouched
<1>4. ASSUME NEW p \in ReturnPostings, NEW kind, PostReturn(kind, p) \/ ReverseReturn(kind, p)
      PROVE  ReturnsInv' /\ PromisesStand
  BY <1>4, PostReturnStep, ReverseReturnStep
<1>5. ASSUME NEW p \in ReturnPostings, PostingNext(p)
      PROVE  ReturnsInv' /\ PromisesStand
  BY <1>2, <1>3, <1>4, <1>5
     DEF PostingNext, ReadyCustomerReturn, CancelCustomerReturn, PostCustomerReturn,
         ReverseCustomerReturn, ReadyRelease, CancelRelease, PostRelease, ReverseRelease,
         ReadySupplierReturn, CancelSupplierReturn, PostSupplierReturn, ReverseSupplierReturn
<1>6. QED
  BY <1>1, <1>5 DEF ReturnsNext


\* Who leaves the rows of returns alone, keeps what is said of them.
LEMMA ReturnsFrame ==
  ASSUME ReturnsInv, UNCHANGED <<governanceVars, posting>>
  PROVE  ReturnsInv'
<1>1. \A a, l : PostedOn(PostingsOf(a), l)' = PostedOn(PostingsOf(a), l)
  BY DEF PostedOn, PostingsOf, Posted
<1>2. PostedWithinAuthorized'
  BY <1>1 DEF ReturnsInv, PostedWithinAuthorized, governanceVars
<1>3. \A a : Kind(a)' = Kind(a)
  BY DEF Kind, IsRelease, LinesIn, governanceVars
<1>4. RoutesFollowKind' /\ PostingsAreNamed'
  BY <1>3 DEF ReturnsInv, RoutesFollowKind, PostingsAreNamed, Authorized, LinesIn, governanceVars
<1>5. QED
  BY <1>2, <1>4 DEF ReturnsInv, governanceVars

\* The documents of operations, where nobody writes them.
LEMMA OperationsFrame ==
  ASSUME OperationsInv, UNCHANGED operationVars, StockTypeOK'
  PROVE  OperationsKept
<1>1. UNCHANGED <<transfer, adjustment, count>>
  BY DEF operationVars
<1>2. OperationsTypeOK'
  BY <1>1 DEF OperationsInv, OperationsTypeOK
<1>3. QED
  BY <1>1, <1>2, CountsStay

\* Before anything is drafted.
LEMMA OperationsBegin == OperationsInit => OperationsInv /\ StockSound
<1> SUFFICES ASSUME OperationsInit PROVE OperationsInv /\ StockSound
  OBVIOUS
<1>1. StockSound
  BY StockAssumption
     DEF OperationsInit, StockInit, StockSound, StockTypeOK, BalanceRow, MovementSums,
         StockNeverOversold, Reconciles
<1>2. DOMAIN << >> = {} /\ << >> \in [{} -> BalanceRow] /\ << >> \in [{} -> 0..MaxCounted \cup {None}]
  OBVIOUS
<1>3. NoCount \in CountRow
  BY <1>2 DEF NoCount, CountRow, CountStates
<1>4. count \in [Counts -> CountRow]
  BY <1>3 DEF OperationsInit
<1>5. OperationsTypeOK
  <2>1. << >> \in Seq(TransferLine) /\ << >> \in Seq(AdjustmentLine)
    OBVIOUS
  <2>2. /\ NoOperation \in [lines : Seq(TransferLine),
             workflowStatus : WorkflowStates, postingStatus : PostingStates]
        /\ NoOperation \in [lines : Seq(AdjustmentLine),
             workflowStatus : WorkflowStates, postingStatus : PostingStates]
    BY <2>1 DEF NoOperation, WorkflowStates, PostingStates
  <2>3. /\ transfer \in [Transfers -> [lines : Seq(TransferLine),
             workflowStatus : WorkflowStates, postingStatus : PostingStates]]
        /\ adjustment \in [Adjustments -> [lines : Seq(AdjustmentLine),
             workflowStatus : WorkflowStates, postingStatus : PostingStates]]
    BY <2>2 DEF OperationsInit
  <2>4. \A c \in Counts : /\ count[c].workflowStatus = "none"
                          /\ count[c].recorded = << >> /\ count[c].counted = << >>
    BY DEF OperationsInit, NoCount
  <2>5. \A c \in Counts :
          /\ count[c].workflowStatus \in CountStates
          /\ DOMAIN count[c].recorded \subseteq BalanceKeys
          /\ count[c].counted \in [DOMAIN count[c].recorded -> 0..MaxCounted \cup {None}]
    BY <1>2, <2>4 DEF CountStates
  <2>6. QED
    BY <1>1, <2>3, <2>5 DEF OperationsTypeOK, StockSound
<1>6. QED
  BY <1>1, <1>2, <1>4, <1>5 DEF OperationsInit, OperationsInv, NoCount

\* Before anything is returned.
LEMMA ReturnsBegin == ReturnsInit => ReturnsInv /\ StockSound
<1> SUFFICES ASSUME ReturnsInit PROVE ReturnsInv /\ StockSound
  OBVIOUS
<1>1. StockSound
  BY StockAssumption
     DEF ReturnsInit, StockInit, StockSound, StockTypeOK, BalanceRow, MovementSums,
         StockNeverOversold, Reconciles
<1>2. [l \in {} |-> None] \in [{} -> Routes] /\ [l \in {} |-> None] \in [{} -> BalanceKeys]
  OBVIOUS
<1>3. Nothing \in Quantity /\ LinesIn(Nothing) = {}
  BY DEF Nothing, Quantity, LinesIn
<1>4. authorization \in [ReturnAuthorizations -> AuthorizationRow]
  BY <1>2, <1>3 DEF ReturnsInit, GovernanceInit, NoAuthorization, AuthorizationRow, AuthorizationStatuses
<1>5. posting \in [ReturnPostings -> PostingRow]
  BY <1>2, <1>3 DEF ReturnsInit, NoPosting, PostingRow
<1>6. RoutesFollowKind /\ PostingsAreNamed
  BY <1>3 DEF ReturnsInit, GovernanceInit, RoutesFollowKind, PostingsAreNamed, NoAuthorization, NoPosting
<1>7. PostedWithinAuthorized
  <2> SUFFICES ASSUME NEW a \in ReturnAuthorizations, NEW l \in SourceLines
               PROVE  PostedOn(PostingsOf(a), l) <= authorization[a].quantity[l]
    BY DEF PostedWithinAuthorized
  <2>1. PostingsOf(a) = {}
    BY ReturnAssumption DEF PostingsOf, ReturnsInit, NoPosting
  <2> DEFINE q == [p \in PostingsOf(a) |-> IF Posted(p) THEN posting[p].quantity[l] ELSE 0]
  <2>2. DOMAIN q = {}
    BY <2>1
  <2>3. PostedOn(PostingsOf(a), l) = Total(q)
    BY DEF PostedOn
  <2> HIDE DEF q
  <2>4. Total(q) = 0
    BY <2>2, FS_EmptySet DEF Total, Units
  <2>5. authorization[a].quantity[l] = 0
    BY DEF ReturnsInit, GovernanceInit, NoAuthorization, Nothing
  <2>6. QED
    BY <2>3, <2>4, <2>5
<1>8. QED
  BY <1>1, <1>4, <1>5, <1>6, <1>7 DEF ReturnsInv


-----------------------------------------------------------------------------
\* What a count remembers

(***************************************************************************)
(* A balance that was not written since a count recorded it is what the    *)
(* count recorded; one that was has a later version.                       *)
(***************************************************************************)
CountsRemember ==
  \A c \in Counts : \A b \in DOMAIN count[c].recorded :
    IF b \in writtenSince[c] THEN count[c].recorded[b].version < balance[b].version
    ELSE balance[b] = count[c].recorded[b]

\* Versions only rise, and a count starts with the rows there are.
LEMMA WritesRemembered ==
  ASSUME OperationsInv, CountsRemember, StockTypeOK, StockTypeOK', VersionsRise,
         CountsKeep, RememberWrites
  PROVE  CountsRemember'
<1> SUFFICES ASSUME NEW c \in Counts, NEW b \in DOMAIN count'[c].recorded
             PROVE  IF b \in writtenSince'[c] THEN count'[c].recorded[b].version < balance'[b].version
                    ELSE balance'[b] = count'[c].recorded[b]
  BY DEF CountsRemember
<1>1. StockTypeOK' /\ VersionsRise
  OBVIOUS
<1>2. CASE count[c].workflowStatus = "none"
  <2>1. writtenSince'[c] = {}
    BY <1>2 DEF RememberWrites
  <2>2. count'[c].recorded[b] = balance'[b]
    BY <1>2 DEF CountsKeep
  <2>3. QED
    BY <2>1, <2>2
<1>3. CASE count[c].workflowStatus # "none"
  <2>1. count'[c].recorded = count[c].recorded
    BY <1>3 DEF CountsKeep
  <2>2. b \in DOMAIN count[c].recorded /\ b \in BalanceKeys
    BY <2>1 DEF OperationsInv, OperationsTypeOK
  <2>3. balance[b].version \in Nat /\ balance'[b].version \in Nat
    BY <1>1, <2>2 DEF StockTypeOK, BalanceRow
  <2>4. count[c].recorded[b].version \in Nat
    <3>1. count[c] \in CountRow
      BY DEF OperationsInv
    <3>2. PICK bs \in SUBSET BalanceKeys : count[c].recorded \in [bs -> BalanceRow]
      BY <3>1 DEF CountRow
    <3>3. QED
      BY <2>2, <3>2 DEF BalanceRow
  <2>5. writtenSince'[c] = writtenSince[c] \cup {k \in DOMAIN count[c].recorded : balance'[k] # balance[k]}
    BY <1>3 DEF RememberWrites
  <2>6. balance'[b] = balance[b] \/ balance[b].version < balance'[b].version
    BY <1>1, <2>2 DEF VersionsRise
  <2>7. CASE b \in writtenSince[c]
    <3>1. count[c].recorded[b].version < balance[b].version
      BY <2>2, <2>7 DEF CountsRemember
    <3>2. count[c].recorded[b].version < balance'[b].version
      BY <2>3, <2>4, <2>6, <3>1
    <3>3. QED
      BY <2>1, <2>5, <2>7, <3>2
  <2>8. CASE b \notin writtenSince[c]
    <3>1. balance[b] = count[c].recorded[b]
      BY <2>2, <2>8 DEF CountsRemember
    <3>2. CASE balance'[b] = balance[b]
      <4>1. b \notin writtenSince'[c]
        BY <2>5, <2>8, <3>2
      <4>2. QED
        BY <2>1, <3>1, <3>2, <4>1
    <3>3. CASE balance'[b] # balance[b]
      <4>1. b \in writtenSince'[c]
        BY <2>2, <2>5, <3>3
      <4>2. QED
        BY <2>1, <2>6, <3>1, <3>3, <4>1
    <3>4. QED
      BY <3>2, <3>3
  <2>9. QED
    BY <2>7, <2>8
<1>4. QED
  BY <1>2, <1>3

-----------------------------------------------------------------------------
\* Everyone together

FlowInv ==
  /\ SalesInv
  /\ OrdersInv
  /\ OperationsInv
  /\ ReturnsInv
  /\ CountsRemember

LEMMA FlowBegin == FlowInit => FlowInv
<1> SUFFICES ASSUME FlowInit PROVE FlowInv
  OBVIOUS
<1>1. SalesInv
  BY SalesInit DEF FlowInit
<1>2. OrdersInv
  BY InitInv DEF FlowInit, ReceivingInv
<1>3. OperationsInv /\ ReturnsInv
  BY OperationsBegin, ReturnsBegin DEF FlowInit
<1>4. CountsRemember
  BY DEF CountsRemember, FlowInit, OperationsInit, NoCount
<1>5. QED
  BY <1>1, <1>2, <1>3, <1>4 DEF FlowInv

\* What a step of the whole does, whoever takes it.
FlowKept == FlowInv' /\ Contract!ContractNext

\* A step of everyone but sales.
LEMMA PromisesKept ==
  ASSUME FlowInv, UNCHANGED outboundVars, PromisesStand,
         OrdersInv', OperationsKept, ReturnsInv', RememberWrites
  PROVE  FlowKept
<1>1. SalesInv' /\ Contract!ContractNext
  BY PromisesStandStep DEF FlowInv
<1>2. CountsRemember'
  <2>1. StockTypeOK /\ StockTypeOK' /\ VersionsRise
    BY DEF FlowInv, SalesInv, OutboundTypeOK, PromisesStand
  <2>2. QED
    BY <2>1, WritesRemembered DEF FlowInv, OperationsKept
<1>3. QED
  BY <1>1, <1>2 DEF FlowKept, FlowInv, OperationsKept

LEMMA FlowStep == FlowInv /\ FlowNext => FlowKept
<1> SUFFICES ASSUME FlowInv, FlowNext PROVE FlowKept
  OBVIOUS
<1>1. /\ SalesInv /\ OrdersInv /\ OperationsInv /\ ReturnsInv /\ CountsRemember
      /\ StockSound /\ StockTypeOK
  BY DEF FlowInv, SalesInv, OutboundTypeOK, StockSound
<1>2. RememberWrites
  BY DEF FlowNext
<1>3. ASSUME PromisesStand PROVE StockTypeOK'
  BY <1>3 DEF PromisesStand
<1>4. ASSUME PromisesStand, UNCHANGED receivingVars PROVE OrdersInv'
  BY <1>1, <1>3, <1>4, OrdersFrame
<1>5. ASSUME PromisesStand, UNCHANGED operationVars PROVE OperationsKept
  BY <1>1, <1>3, <1>5, OperationsFrame
<1>6. ASSUME UNCHANGED quarantineSide PROVE ReturnsInv'
  BY <1>1, <1>6, ReturnsFrame DEF quarantineSide
<1>7. CASE ReceivingStep
  <2>1. ReceivingNext /\ UNCHANGED <<outboundVars, operationVars, quarantineSide>>
    BY <1>7 DEF ReceivingStep, ReceivingNext
  <2>2. PromisesStand
    BY <1>1, <2>1, ReceivingStands
  <2>3. OrdersInv'
    BY <1>1, <2>1, ReceivingKeeps DEF ReceivingKept
  <2>4. QED
    BY <1>2, <1>5, <1>6, <2>1, <2>2, <2>3, PromisesKept
<1>8. CASE OutboundStep
  <2>1. OutboundNext /\ UNCHANGED <<receivingVars, operationVars, quarantineSide>>
    BY <1>8 DEF OutboundStep, OutboundNext
  <2>2. SalesInv'
    BY <1>1, <2>1, SalesNext
  <2>3. Contract!ContractNext /\ VersionsRise
    BY <1>1, <2>1, SalesMoves
  <2>4. StockTypeOK'
    BY <2>2 DEF SalesInv, OutboundTypeOK
  <2>5. OrdersInv' /\ OperationsKept
    BY <1>1, <2>1, <2>4, OrdersFrame, OperationsFrame
  <2>6. CountsRemember'
    BY <1>1, <1>2, <2>3, <2>4, <2>5, WritesRemembered DEF OperationsKept
  <2>7. QED
    BY <1>6, <2>1, <2>2, <2>3, <2>5, <2>6 DEF FlowKept, FlowInv, OperationsKept
<1>9. CASE OperationsStep
  <2>1. OperationsNext /\ UNCHANGED <<receivingVars, outboundVars, quarantineSide>>
    BY <1>9 DEF OperationsStep
  <2>2. PromisesStand /\ OperationsKept
    BY <1>1, <2>1, OperationsStand
  <2>3. QED
    BY <1>2, <1>4, <1>6, <2>1, <2>2, PromisesKept
<1>10. CASE ReturnsStep
  <2>1. ReturnsNext /\ UNCHANGED <<receivingVars, outboundVars, operationVars>>
    BY <1>10 DEF ReturnsStep
  <2>2. PromisesStand /\ ReturnsInv'
    BY <1>1, <2>1, ReturnsStand
  <2>3. QED
    BY <1>2, <1>4, <1>5, <2>1, <2>2, PromisesKept
<1>11. QED
  BY <1>7, <1>8, <1>9, <1>10 DEF FlowNext

LEMMA FlowStays == FlowInv /\ UNCHANGED flowVars => FlowInv'
<1> SUFFICES ASSUME FlowInv, UNCHANGED flowVars PROVE FlowInv'
  OBVIOUS
<1>1. UNCHANGED <<stockVars, receivingVars, outboundVars, operationVars, quarantineSide>> /\ UNCHANGED writtenSince
  BY DEF flowVars
<1>2. SalesInv /\ StockSound
  BY DEF FlowInv, SalesInv, OutboundTypeOK, StockSound
<1>3. PromisesStand /\ StockTypeOK'
  BY <1>1, <1>2, StockUntouched DEF PromisesStand
<1>4. SalesInv'
  BY <1>1, <1>2, <1>3, PromisesStandStep
<1>5. OrdersInv' /\ OperationsInv' /\ ReturnsInv'
  BY <1>1, <1>3, OrdersFrame, OperationsFrame, ReturnsFrame DEF FlowInv, OperationsKept, quarantineSide
<1>6. CountsRemember'
  BY <1>1 DEF FlowInv, CountsRemember, stockVars, operationVars
<1>7. QED
  BY <1>4, <1>5, <1>6 DEF FlowInv


LEMMA FlowNextInv == FlowInv /\ [FlowNext]_flowVars => FlowInv'
BY FlowStep, FlowStays DEF FlowKept

(***************************************************************************)
(* The invariants of sales, of receiving, of operations and of returns     *)
(* hold side by side on the stock they share, in whatever order their      *)
(* commands commit.                                                        *)
(***************************************************************************)
THEOREM FlowInvariant == FlowSpec => []FlowInv
BY FlowBegin, FlowNextInv, PTL DEF FlowSpec

(***************************************************************************)
(* No receipt or its reversal, transfer, adjustment, count, dispatch or    *)
(* reversal of a release takes stock from those it is promised to.         *)
(***************************************************************************)
THEOREM PromisesStandForAll == FlowSpec => []PromisesSurvive
<1>1. FlowInv => PromisesSurvive
  BY PromisesHold DEF FlowInv
<1>2. QED
  BY FlowInvariant, <1>1, PTL

\* Nothing is promised twice, whoever writes the stock.
THEOREM SharedStockIsCovered == FlowSpec => []StockNeverOversold
<1>1. FlowInv => StockNeverOversold
  BY DEF FlowInv, SalesInv
<1>2. QED
  BY FlowInvariant, <1>1, PTL

\* The quantities of an order line are received once, and no more than ordered.
THEOREM SharedReceiptsAreExact == FlowSpec => [](ReceivedMatchesDocuments /\ NeverOverReceived)
<1>1. FlowInv => ReceivedMatchesDocuments /\ NeverOverReceived
  BY DEF FlowInv, OrdersInv
<1>2. QED
  BY FlowInvariant, <1>1, PTL

(***************************************************************************)
(* All the subsystems together implement the contract of stock: each       *)
(* commit restocks, promises, releases, ships or takes back, and leaves    *)
(* every place covering its promises.                                      *)
(***************************************************************************)
THEOREM StockContractHolds == FlowSpec => FlowKeepsContract
<1>1. FlowInit => Contract!ContractInit
  BY StockAssumption DEF FlowInit, OutboundInit, StockInit, Contract!ContractInit
<1>2. FlowInv /\ [FlowNext]_flowVars => [Contract!ContractNext]_Contract!contractVars
  <2> SUFFICES ASSUME FlowInv, [FlowNext]_flowVars
               PROVE  [Contract!ContractNext]_Contract!contractVars
    OBVIOUS
  <2>1. CASE FlowNext
    BY <2>1, FlowStep DEF FlowKept
  <2>2. CASE UNCHANGED flowVars
    BY <2>2 DEF flowVars, stockVars, Contract!contractVars
  <2>3. QED
    BY <2>1, <2>2
<1>3. QED
  BY <1>1, <1>2, FlowInvariant, PTL DEF FlowSpec, FlowKeepsContract, Contract!ContractSpec

\* A count that finds the recorded version of a balance finds what it recorded.
THEOREM VersionsNameContents == FlowSpec => []VersionNamesContent
<1>1. FlowInv => VersionNamesContent
  <2> SUFFICES ASSUME FlowInv, NEW c \in Counts, NEW b \in DOMAIN count[c].recorded,
                      balance[b].version = count[c].recorded[b].version
               PROVE  balance[b] = count[c].recorded[b]
    BY DEF VersionNamesContent
  <2>1. b \in BalanceKeys /\ balance[b].version \in Nat
    BY DEF FlowInv, OperationsInv, OperationsTypeOK, StockTypeOK, BalanceRow
  <2>2. QED
    BY <2>1 DEF FlowInv, CountsRemember
<1>2. QED
  BY FlowInvariant, <1>1, PTL

\* Only its posting makes a count posted.
LEMMA CountPosts ==
  ASSUME FlowInv, FlowNext, NEW c \in Counts,
         count[c].workflowStatus # "posted", count'[c].workflowStatus = "posted"
  PROVE  PostCount(c)
<1>1. OperationsNext
  <2>1. count' # count
    OBVIOUS
  <2>2. QED
    BY <2>1 DEF FlowNext, ReceivingStep, OutboundStep, OperationsStep, ReturnsStep, operationVars
<1>2. count \in [Counts -> CountRow]
  BY DEF FlowInv, OperationsInv
<1>3. ASSUME NEW t \in Transfers, NEW lines \in LinesOfLength(TransferLine),
             CreateTransfer(t, lines) \/ ReviseTransfer(t, lines)
      PROVE  FALSE
  BY <1>3 DEF CreateTransfer, ReviseTransfer
<1>4. ASSUME NEW t \in Transfers,
             \/ ReadyTransfer(t) \/ CancelTransfer(t) \/ PostTransfer(t) \/ ReverseTransfer(t)
      PROVE  FALSE
  BY <1>4 DEF ReadyTransfer, CancelTransfer, PostTransfer, ReverseTransfer, MoveTransfer
<1>5. ASSUME NEW a \in Adjustments, NEW lines \in LinesOfLength(AdjustmentLine),
             CreateAdjustment(a, lines) \/ ReviseAdjustment(a, lines)
      PROVE  FALSE
  BY <1>5 DEF CreateAdjustment, ReviseAdjustment
<1>6. ASSUME NEW a \in Adjustments,
             \/ ReadyAdjustment(a) \/ CancelAdjustment(a) \/ PostAdjustment(a) \/ ReverseAdjustment(a)
      PROVE  FALSE
  BY <1>6 DEF ReadyAdjustment, CancelAdjustment, PostAdjustment, ReverseAdjustment, Adjust
<1>7. ASSUME NEW z \in Counts,
             \/ \E bs \in CountableSets : CreateCount(z, bs)
             \/ \E bs \in SUBSET DOMAIN count[z].recorded :
                  \E quantities \in [bs -> 0..MaxCounted] : ReviseCount(z, quantities)
             \/ SubmitCount(z) \/ ReviewCount(z) \/ CancelCount(z)
      PROVE  FALSE
  <2>1. count[z] \in CountRow
    BY <1>2
  <2>2. count'[c] = count[c] \/ (z = c /\ count'[c].workflowStatus # "posted")
    BY <1>2, <1>7, <2>1
       DEF CreateCount, ReviseCount, SubmitCount, ReviewCount, CancelCount, CountRow
  <2>3. QED
    BY <2>2
<1>8. ASSUME NEW z \in Counts, PostCount(z) PROVE z = c
  BY <1>2, <1>8 DEF PostCount
<1>9. QED
  BY <1>1, <1>3, <1>4, <1>5, <1>6, <1>7, <1>8 DEF OperationsNext

(***************************************************************************)
(* CountsPostUnderTheirPromises: the snapshot a count posts against is     *)
(* that of its taking, not one restored by writes that undid each other.   *)
(***************************************************************************)
THEOREM CountsPostUntouched == FlowSpec => CountsPostUnderTheirPromises
<1> DEFINE Untouched(c) ==
      \A b \in DOMAIN count[c].recorded :
        /\ b \notin writtenSince[c]
        /\ balance'[b].reserved = count[c].recorded[b].reserved
        /\ AtKey(Promised, b)' <= count[c].counted[b]
           Posts(c) == count[c].workflowStatus # "posted" /\ count'[c].workflowStatus = "posted"
<1>1. ASSUME FlowInv, FlowInv', FlowNext, NEW c \in Counts, Posts(c)
      PROVE  Untouched(c)
  <2>1. PostCount(c)
    BY <1>1, CountPosts
  <2>2. StockSound /\ OperationsInv /\ CountsRemember
    BY <1>1 DEF FlowInv, SalesInv, OutboundTypeOK, StockSound
  <2> SUFFICES ASSUME NEW b \in DOMAIN count[c].recorded
               PROVE  /\ b \notin writtenSince[c]
                      /\ balance'[b].reserved = count[c].recorded[b].reserved
                      /\ AtKey(Promised, b)' <= count[c].counted[b]
    OBVIOUS
  <2>3. b \in BalanceKeys /\ balance[b].version \in Nat
    BY <2>2 DEF OperationsInv, OperationsTypeOK, StockTypeOK, BalanceRow
  <2>4. balance[b] = count[c].recorded[b]
    BY <2>1 DEF PostCount, SnapshotHolds
  <2>5. b \notin writtenSince[c]
    BY <2>2, <2>3, <2>4 DEF CountsRemember
  <2>6. balance'[b].reserved = balance[b].reserved
    BY <2>1, <2>3 DEF PostCount, WriteOperationBalances
  <2>7. count[c].counted[b] >= balance[b].reserved
    BY <2>1, <2>2, CountLeaves
  <2>8. AtKey(Promised, b)' = balance'[b].reserved
    BY <1>1, <2>3 DEF FlowInv, SalesInv, ReservedIsPromised
  <2>9. QED
    BY <2>4, <2>5, <2>6, <2>7, <2>8
<1>2. FlowInv /\ FlowInv' /\ [FlowNext]_flowVars =>
        [\A c \in Counts : Posts(c) => Untouched(c)]_flowVars
  BY <1>1
<1>3. QED
  BY FlowInvariant, <1>2, PTL DEF FlowSpec, CountsPostUnderTheirPromises

-----------------------------------------------------------------------------
\* Operations and returns by themselves

\* The stock of a warehouse where only operations happen.
THEOREM OperationsInvariant == OperationsSpec => [](StockSound /\ OperationsInv)
<1> DEFINE Inv == StockSound /\ OperationsInv
<1>1. OperationsInit => Inv
  BY OperationsBegin
<1>2. Inv /\ [OperationsNext]_<<stockVars, operationVars>> => Inv'
  <2> SUFFICES ASSUME Inv, [OperationsNext]_<<stockVars, operationVars>> PROVE Inv'
    OBVIOUS
  <2>1. PromisesStand /\ OperationsKept
    <3>1. CASE OperationsNext
      BY <3>1, OperationsStand
    <3>2. CASE UNCHANGED <<stockVars, operationVars>>
      BY <3>2, StockUntouched, OperationsFrame DEF PromisesStand
    <3>3. QED
      BY <3>1, <3>2
  <2>2. QED
    BY <2>1, StockStaysSound DEF OperationsKept
<1>3. QED
  BY <1>1, <1>2, PTL DEF OperationsSpec

\* The conjunction on which the induction of returns rests.
THEOREM ReturnsInvariant == ReturnsSpec => [](StockSound /\ ReturnsInv)
<1> DEFINE Inv == StockSound /\ ReturnsInv
<1>1. ReturnsInit => Inv
  BY ReturnsBegin
<1>2. Inv /\ [ReturnsNext]_returnsVars => Inv'
  <2> SUFFICES ASSUME Inv, [ReturnsNext]_returnsVars PROVE Inv'
    OBVIOUS
  <2>1. PromisesStand /\ ReturnsInv'
    <3>1. CASE ReturnsNext
      BY <3>1, ReturnsStand
    <3>2. CASE UNCHANGED returnsVars
      BY <3>2, StockUntouched, ReturnsFrame DEF returnsVars
    <3>3. QED
      BY <3>1, <3>2
  <2>2. QED
    BY <2>1, StockStaysSound
<1>3. QED
  BY <1>1, <1>2, PTL DEF ReturnsSpec

(***************************************************************************)
(* Postings drafted side by side never execute more of a line than its     *)
(* authorization allows, however the draft was authorized, revised and     *)
(* reversed.                                                               *)
(***************************************************************************)
THEOREM ReturnsStayAuthorized == ReturnsSpec => []PostedWithinAuthorized
<1>1. ReturnsInv => PostedWithinAuthorized
  BY DEF ReturnsInv
<1>2. QED
  BY ReturnsInvariant, <1>1, PTL

-----------------------------------------------------------------------------
\* Every unit on hand has a document: side by side

\* A command of receiving brings to stock what it adds to the posted receipts.
LEMMA ReceiptsExplain ==
  ASSUME StockTypeOK, OrdersInv, ReceivingNext
  PROVE  \A b \in BalanceKeys : balance'[b].onHand - Total(PostedInto(b))' =
                                  balance[b].onHand - Total(PostedInto(b))
<1> DEFINE Explained == \A b \in BalanceKeys : balance'[b].onHand - Total(PostedInto(b))' =
                                               balance[b].onHand - Total(PostedInto(b))
<1>1. receivingDocument \in [ReceivingDocuments -> DocumentRow] /\ ReceivingTypeOK
  BY DEF OrdersInv, ReceivingTypeOK
<1>2. \A b \in BalanceKeys : balance[b].onHand \in Int
  BY DEF StockTypeOK, BalanceRow
<1>3. \A b : Total(PostedInto(b)) \in Nat
  <2>1. \A b : PostedInto(b) \in [ReceivingDocuments -> Nat]
    BY <1>1, PostedNat
  <2>2. QED
    BY <2>1, TotalNat, ReceivingAssumption
<1>4. ASSUME NEW d \in ReceivingDocuments, PostReceiving(d) \/ ReverseReceiving(d) PROVE Explained
  <2> DEFINE lines == receivingDocument[d].lines
             into(b) == AcceptedInto(lines, b)
  <2>1. lines \in Seq(DraftLine)
    BY <1>1 DEF DocumentRow
  <2>2. \A b : into(b) \in Nat
    BY <2>1, AcceptedNat
  <2>3. CASE PostReceiving(d)
    <3>1. receivingDocument' = [receivingDocument EXCEPT ![d].postingStatus = "posted"]
          /\ receivingDocument[d].postingStatus # "posted" /\ ReceiveIntoStock(lines)
      BY <2>3 DEF PostReceiving, PostingPlanAllows
    <3>2. \A b \in BalanceKeys : balance'[b].onHand = balance[b].onHand + into(b)
      BY <2>1, <3>1, ReceiveStockEffect
    <3>3. \A b : Total(PostedInto(b)') = Total(PostedInto(b)) - 0 + into(b)
      BY <1>1, <3>1, PostedChange
    <3> HIDE DEF into
    <3>4. QED
      BY <1>2, <1>3, <2>2, <3>2, <3>3
  <2>4. CASE ReverseReceiving(d)
    <3>1. receivingDocument' = [receivingDocument EXCEPT ![d].postingStatus = "reversed"]
          /\ receivingDocument[d].postingStatus = "posted" /\ TakeFromStock(lines)
      BY <2>4 DEF ReverseReceiving, ReversalPlanAllows
    <3>2. \A b \in BalanceKeys : balance'[b].onHand = balance[b].onHand - into(b)
      BY <2>1, <3>1, TakeStockEffect
    <3>3. \A b : Total(PostedInto(b)') = Total(PostedInto(b)) - into(b) + 0
      BY <1>1, <3>1, PostedChange
    <3> HIDE DEF into
    <3>4. QED
      BY <1>2, <1>3, <2>2, <3>2, <3>3
  <2>5. QED
    BY <1>4, <2>3, <2>4
<1>5. ASSUME ReceivingPaperwork PROVE Explained
  <2>1. UNCHANGED balance
    BY <1>5 DEF ReceivingPaperwork, ApprovePurchaseOrder, RejectPurchaseOrder, ReturnPurchaseOrder,
                DecidePurchaseOrder, CreateReceivingDraft, ReviseReceivingDraft, SubmitReceivingDraft, stockVars
  <2>2. ASSUME NEW d \in ReceivingDocuments
        PROVE  /\ receivingDocument'[d].postingStatus = "posted" <=> receivingDocument[d].postingStatus = "posted"
               /\ receivingDocument[d].postingStatus = "posted" => receivingDocument'[d] = receivingDocument[d]
    <3>1. CASE UNCHANGED receivingDocument
      BY <3>1
    <3>2. ASSUME NEW e \in ReceivingDocuments, NEW p, NEW lines,
                 CreateReceivingDraft(e, p, lines) \/ ReviseReceivingDraft(e, lines) \/ SubmitReceivingDraft(e)
          PROVE  /\ receivingDocument'[d].postingStatus = "posted" <=> receivingDocument[d].postingStatus = "posted"
                 /\ receivingDocument[d].postingStatus = "posted" => receivingDocument'[d] = receivingDocument[d]
      BY <1>1, <3>2 DEF CreateReceivingDraft, ReviseReceivingDraft, SubmitReceivingDraft, IsDraft, DocumentRow
    <3>3. QED
      BY <1>5, <3>1, <3>2 DEF ReceivingPaperwork, ApprovePurchaseOrder, RejectPurchaseOrder,
                              ReturnPurchaseOrder, DecidePurchaseOrder
  <2>3. \A b : PostedInto(b)' = PostedInto(b)
    BY <2>2 DEF PostedInto
  <2>4. QED
    BY <2>1, <2>3
<1>6. QED
  BY <1>4, <1>5 DEF ReceivingNext

\* A command of sales takes from stock what it adds to the shipped quantities.
LEMMA ShipmentsExplain ==
  ASSUME SalesInv, OutboundNext
  PROVE  \A b \in BalanceKeys : balance'[b].onHand + AtKey(Consumed, b)' =
                                  balance[b].onHand + AtKey(Consumed, b)
<1> DEFINE Explained == \A b \in BalanceKeys : balance'[b].onHand + AtKey(Consumed, b)' =
                                               balance[b].onHand + AtKey(Consumed, b)
<1>1. /\ StockTypeOK /\ reservation \in [Reservations -> ReservationRow]
      /\ Consumed \in [Reservations -> Nat] /\ IsFiniteSet(Reservations)
  BY HoldsNat, OutboundAssumption DEF SalesInv, OutboundTypeOK
<1>2. Consumed' \in [Reservations -> Nat]
  BY SalesNext, HoldsNat DEF SalesInv, OutboundTypeOK, Consumed, ReservationRow
<1>3. \A b \in BalanceKeys : balance[b].onHand \in Int
  BY <1>1 DEF StockTypeOK, BalanceRow
<1>4. \A b : /\ AtKey(Consumed, b) = Total(Share(KeyOf, b, Consumed))
             /\ AtKey(Consumed, b)' = Total(Share(KeyOf', b, Consumed'))
  <2>1. ASSUME NEW b
        PROVE  [r \in Reservations |-> IF reservation'[r].key = b THEN Consumed'[r] ELSE 0]
                 = Share(KeyOf', b, Consumed')
    BY <1>2 DEF Share, KeyOf
  <2>2. QED
    BY <1>1, <2>1, SumsAreShares DEF AtKey
<1>5. ASSUME NEW b PROVE AtKey(Consumed, b) \in Nat /\ AtKey(Consumed, b)' \in Nat
  BY <1>1, <1>2, <1>4, ShareNat
\* What was shipped of a reservation stays at its key.
<1>6. ASSUME NEW q \in [Reservations -> Nat],
             \A r \in Reservations : /\ Consumed'[r] = Consumed[r] + q[r]
                                     /\ Consumed[r] # 0 => KeyOf'[r] = KeyOf[r]
                                     /\ q[r] # 0 => KeyOf'[r] = KeyOf[r]
      PROVE  \A b : AtKey(Consumed, b)' = AtKey(Consumed, b) + AtKey(q, b)
  <2>1. \A b : Total(Share(KeyOf', b, Consumed')) = Total(Share(KeyOf, b, Consumed)) + Total(Share(KeyOf, b, q))
    BY <1>1, <1>2, <1>6, ShareAdd
  <2>2. QED
    BY <1>4, <2>1, SumsAreShares
<1>7. ASSUME NEW q \in [Reservations -> Nat],
             \A r \in Reservations : /\ Consumed[r] = Consumed'[r] + q[r]
                                     /\ KeyOf'[r] = KeyOf[r]
      PROVE  \A b : AtKey(Consumed, b) = AtKey(Consumed, b)' + AtKey(q, b)
  <2>1. \A b : Total(Share(KeyOf, b, Consumed)) = Total(Share(KeyOf', b, Consumed')) + Total(Share(KeyOf, b, q))
    BY <1>1, <1>2, <1>7, ShareAdd
  <2>2. QED
    BY <1>4, <2>1, SumsAreShares
<1>8. ASSUME NEW s \in Shipments, PostShipment(s) \/ ReverseShipment(s) PROVE Explained
  <2> DEFINE q == shipment[s].quantity
             back == [b \in BalanceKeys |-> AtKey(q, b)]
             out == [b \in BalanceKeys |-> -AtKey(q, b)]
  <2>1. q \in [Reservations -> Nat]
    BY DEF SalesInv, OutboundTypeOK, ShipmentRow
  <2>2. \A b : AtKey(q, b) \in Nat
    BY <2>1, SumsNat, OutboundAssumption
  <2>3. back \in [BalanceKeys -> Int] /\ out \in [BalanceKeys -> Int]
    BY <2>2
  <2>4. CASE PostShipment(s)
    <3>1. WriteBalances(out, out)
      BY <2>4 DEF PostShipment
    <3>2. \A b \in BalanceKeys : balance'[b].onHand = balance[b].onHand - AtKey(q, b)
      <4>1. \A b \in BalanceKeys : balance'[b].onHand = balance[b].onHand + out[b]
        BY <1>1, <2>3, <3>1, BalancesWritten
      <4>2. QED
        BY <1>3, <2>2, <4>1
    <3>3. reservation' = [r \in Reservations |-> IF q[r] = 0 THEN reservation[r]
            ELSE Restated([reservation[r] EXCEPT !.allocated = @ - q[r], !.consumed = @ + q[r]])]
      BY <2>4 DEF PostShipment
    <3> HIDE DEF q
    <3>4. ASSUME NEW r \in Reservations
          PROVE  Consumed'[r] = Consumed[r] + q[r] /\ KeyOf'[r] = KeyOf[r]
      <4>1. reservation[r] \in ReservationRow /\ q[r] \in Nat /\ reservation[r].consumed \in Nat
        BY <1>1, <2>1 DEF ReservationRow
      <4>2. CASE q[r] = 0
        <5>1. reservation'[r] = reservation[r]
          BY <3>3, <4>2
        <5>2. QED
          BY <4>1, <4>2, <5>1 DEF Consumed, KeyOf
      <4>3. CASE q[r] # 0
        <5>1. reservation'[r] = Restated([reservation[r] EXCEPT !.allocated = @ - q[r], !.consumed = @ + q[r]])
          BY <3>3, <4>3
        <5>2. /\ reservation'[r].consumed = reservation[r].consumed + q[r]
              /\ reservation'[r].key = reservation[r].key
          BY <4>1, <5>1 DEF Restated, ReservationRow
        <5>3. QED
          BY <4>1, <5>2 DEF Consumed, KeyOf
      <4>4. QED
        BY <4>2, <4>3
    <3>5. \A b : AtKey(Consumed, b)' = AtKey(Consumed, b) + AtKey(q, b)
      BY <1>6, <2>1, <3>4
    <3>6. QED
      BY <1>3, <1>5, <2>2, <3>2, <3>5
  <2>5. CASE ReverseShipment(s)
    <3>1. WriteBalances(back, back)
      BY <2>5 DEF ReverseShipment
    <3>2. \A b \in BalanceKeys : balance'[b].onHand = balance[b].onHand + AtKey(q, b)
      <4>1. \A b \in BalanceKeys : balance'[b].onHand = balance[b].onHand + back[b]
        BY <1>1, <2>3, <3>1, BalancesWritten
      <4>2. QED
        BY <1>3, <2>2, <4>1
    <3>3. reservation' = [r \in Reservations |-> IF q[r] = 0 THEN reservation[r]
            ELSE Restated([reservation[r] EXCEPT !.consumed = @ - q[r]])]
      BY <2>5 DEF ReverseShipment
    <3> HIDE DEF q
    <3>4. ASSUME NEW r \in Reservations
          PROVE  Consumed[r] = Consumed'[r] + q[r] /\ KeyOf'[r] = KeyOf[r]
      <4>1. reservation[r] \in ReservationRow /\ q[r] \in Nat /\ reservation[r].consumed \in Nat
        BY <1>1, <2>1 DEF ReservationRow
      <4>2. CASE q[r] = 0
        <5>1. reservation'[r] = reservation[r]
          BY <3>3, <4>2
        <5>2. QED
          BY <4>1, <4>2, <5>1 DEF Consumed, KeyOf
      <4>3. CASE q[r] # 0
        <5>1. reservation'[r] = Restated([reservation[r] EXCEPT !.consumed = @ - q[r]])
          BY <3>3, <4>3
        <5>2. /\ reservation'[r].consumed = reservation[r].consumed - q[r]
              /\ reservation'[r].key = reservation[r].key
          BY <4>1, <5>1 DEF Restated, ReservationRow
        <5>3. QED
          BY <4>1, <5>2 DEF Consumed, KeyOf
      <4>4. QED
        BY <4>2, <4>3
    <3>5. \A b : AtKey(Consumed, b) = AtKey(Consumed, b)' + AtKey(q, b)
      BY <1>7, <2>1, <3>4
    <3>6. QED
      BY <1>3, <1>5, <2>2, <3>2, <3>5
  <2>6. QED
    BY <1>8, <2>4, <2>5
\* A command that ships nothing.
<1>9. ASSUME \A b \in BalanceKeys : balance'[b].onHand = balance[b].onHand,
             \A r \in Reservations : /\ reservation'[r].consumed = reservation[r].consumed
                                     /\ reservation[r].consumed # 0 => reservation'[r].key = reservation[r].key
      PROVE  Explained
  <2> DEFINE z == [r \in Reservations |-> 0]
  <2>1. z \in [Reservations -> Nat] /\ \A r \in Reservations : z[r] = 0
    OBVIOUS
  <2>2. \A b : AtKey(z, b) = 0
    BY <2>1, SumsZero
  <2> HIDE DEF z
  <2>3. ASSUME NEW r \in Reservations
        PROVE  /\ Consumed'[r] = Consumed[r] + z[r]
               /\ Consumed[r] # 0 => KeyOf'[r] = KeyOf[r]
    BY <1>1, <1>9, <2>1 DEF Consumed, KeyOf, ReservationRow
  <2>4. \A b : AtKey(Consumed, b)' = AtKey(Consumed, b) + AtKey(z, b)
    BY <1>6, <2>1, <2>3
  <2>5. QED
    BY <1>3, <1>5, <1>9, <2>2, <2>4
<1>10. ASSUME NEW o \in SalesOrders, NEW ask \in ReserveRequests(o), ReserveInventory(o, ask)
       PROVE  Explained
  <2>1. \A b \in BalanceKeys : balance'[b].onHand = balance[b].onHand
    BY <1>10, <1>3 DEF ReserveInventory, WriteBalances, Nowhere
  <2>2. /\ \A r \in DOMAIN ask : reservation[r] = NoReservation
    BY RequestIsNew DEF SalesInv
  <2>3. QED
    BY <1>9, <1>10, <2>1, <2>2 DEF ReserveInventory, NoReservation
<1>11. ASSUME NEW o \in SalesOrders, NEW q \in AllocatableQuantities(o), ReleaseReservation(o, q)
       PROVE  Explained
  <2>1. \A b \in BalanceKeys : balance'[b].onHand = balance[b].onHand
    BY <1>11, <1>3 DEF ReleaseReservation, WriteBalances, Nowhere
  <2>2. \A r \in Reservations : /\ reservation'[r].consumed = reservation[r].consumed
                                /\ reservation'[r].key = reservation[r].key
    BY <1>1, <1>11 DEF ReleaseReservation, Restated, ReservationRow
  <2>3. QED
    BY <1>9, <2>1, <2>2
<1>12. ASSUME NEW o \in SalesOrders, NEW s \in Shipments, NEW q, CreateShipmentDraft(o, s, q)
       PROVE  Explained
  <2>1. UNCHANGED stockVars
    BY <1>12 DEF CreateShipmentDraft
  <2>2. \A r \in Reservations : /\ reservation'[r].consumed = reservation[r].consumed
                                /\ reservation'[r].key = reservation[r].key
    BY <1>1, <1>12 DEF CreateShipmentDraft, Restated, ReservationRow
  <2>3. QED
    BY <1>9, <2>1, <2>2 DEF stockVars
<1>13. ASSUME NEW o \in SalesOrders, NEW q,
              CreateOrder(o, q) \/ ReviseOrder(o, q) \/ ConfirmOrder(o) \/ HoldOrder(o) \/ ResumeOrder(o)
       PROVE  Explained
  <2>1. UNCHANGED stockVars /\ UNCHANGED reservation
    BY <1>13 DEF CreateOrder, ReviseOrder, ConfirmOrder, HoldOrder, ResumeOrder, TransitionOrder
  <2>2. QED
    BY <1>9, <2>1 DEF stockVars
<1>14. ASSUME NEW s \in Shipments, CancelShipmentDraft(s) PROVE Explained
  <2>1. UNCHANGED stockVars
    BY <1>14 DEF CancelShipmentDraft
  <2>2. \A r \in Reservations : /\ reservation'[r].consumed = reservation[r].consumed
                                /\ reservation'[r].key = reservation[r].key
    BY <1>1, <1>14 DEF CancelShipmentDraft, Restated, ReservationRow
  <2>3. QED
    BY <1>9, <2>1, <2>2 DEF stockVars
<1>15. QED
  BY <1>8, <1>10, <1>11, <1>12, <1>13, <1>14 DEF OutboundNext, OutboundPaperwork

-----------------------------------------------------------------------------
\* What the posted documents of a kind bring and take

\* Of the documents D, those in P have posted; in and out tell what each moves.
Moving(D, P, q) == [d \in D |-> IF d \in P THEN q[d] ELSE 0]
NetOver(D, P, in, out) == Total(Moving(D, P, in)) - Total(Moving(D, P, out))

\* What the documents P move is a natural number, the same by q as by r.
Agree(P, q, r) == \A d \in P : r[d] = q[d] /\ r[d] \in Nat

\* By q the documents P move, by r another one as well.
OneMore(D, P, d, q, r) ==
  /\ IsFiniteSet(D) /\ P \subseteq D /\ d \in D \ P
  /\ Agree(P, q, r)
  /\ r[d] \in Nat

\* While the posted documents move what they moved, so do all of them together.
LEMMA NetSame ==
  ASSUME NEW D, NEW P \in SUBSET D, NEW in, NEW out, NEW in2, NEW out2,
         Agree(P, in, in2), Agree(P, out, out2)
  PROVE  NetOver(D, P, in2, out2) = NetOver(D, P, in, out)
<1>1. Moving(D, P, in2) = Moving(D, P, in) /\ Moving(D, P, out2) = Moving(D, P, out)
  BY DEF Moving, Agree
<1>2. QED
  BY <1>1 DEF NetOver

\* One more counts for what it moves.
LEMMA MovingOneMore ==
  ASSUME NEW D, NEW P, NEW d, NEW q, NEW r, OneMore(D, P, d, q, r)
  PROVE  /\ Total(Moving(D, P, q)) \in Nat
         /\ Total(Moving(D, P \cup {d}, r)) = Total(Moving(D, P, q)) + r[d]
<1> DEFINE before == Moving(D, P, q)
           after == Moving(D, P \cup {d}, r)
<1>1. /\ before \in [D -> Nat] /\ after \in [D -> Nat]
      /\ before[d] = 0 /\ after[d] = r[d]
      /\ \A e \in D \ {d} : after[e] = before[e]
  BY DEF Moving, Agree, OneMore
<1>2. IsFiniteSet(D) /\ d \in D
  BY DEF OneMore
<1> HIDE DEF before, after
<1>3. /\ Total(before) \in Nat /\ Total(after) \in Nat
      /\ Total(after) = Total(before) - before[d] + after[d]
  BY <1>1, <1>2, TotalNat, TotalChange
<1>4. before[d] \in Nat /\ after[d] \in Nat
  BY <1>1, <1>2
<1>5. Total(after) = Total(before) + r[d]
  BY <1>1, <1>3, <1>4
<1>6. QED
  BY <1>3, <1>5 DEF before, after

\* One that is posted now and was not before adds what it moves.
LEMMA NetJoins ==
  ASSUME NEW D, NEW P, NEW d, NEW in, NEW out, NEW in2, NEW out2,
         OneMore(D, P, d, in, in2), OneMore(D, P, d, out, out2)
  PROVE  /\ NetOver(D, P, in, out) \in Int
         /\ NetOver(D, P \cup {d}, in2, out2) = NetOver(D, P, in, out) + in2[d] - out2[d]
<1>1. /\ Total(Moving(D, P, in)) \in Nat
      /\ Total(Moving(D, P \cup {d}, in2)) = Total(Moving(D, P, in)) + in2[d]
  BY MovingOneMore
<1>2. /\ Total(Moving(D, P, out)) \in Nat
      /\ Total(Moving(D, P \cup {d}, out2)) = Total(Moving(D, P, out)) + out2[d]
  BY MovingOneMore
<1>3. in2[d] \in Nat /\ out2[d] \in Nat
  BY DEF OneMore
<1>4. QED
  BY <1>1, <1>2, <1>3 DEF NetOver

\* One that is reversed takes back what it moved.
LEMMA NetLeaves ==
  ASSUME NEW D, NEW P, NEW d \in P, NEW in, NEW out, NEW in2, NEW out2,
         OneMore(D, P \ {d}, d, in2, in), OneMore(D, P \ {d}, d, out2, out)
  PROVE  /\ NetOver(D, P, in, out) \in Int
         /\ NetOver(D, P \ {d}, in2, out2) = NetOver(D, P, in, out) - in[d] + out[d]
<1> DEFINE R == P \ {d}
           whole == NetOver(D, P, in, out)
           rest == NetOver(D, R, in2, out2)
<1>1. R \cup {d} = P
  OBVIOUS
<1>2. OneMore(D, R, d, in2, in) /\ OneMore(D, R, d, out2, out)
  OBVIOUS
<1>3. in[d] \in Nat /\ out[d] \in Nat
  BY DEF OneMore
<1> HIDE DEF R
<1>4. rest \in Int /\ NetOver(D, R \cup {d}, in, out) = rest + in[d] - out[d]
  BY <1>2, NetJoins
<1>5. whole = rest + in[d] - out[d]
  BY <1>1, <1>4
<1> HIDE DEF whole, rest
<1>6. whole \in Int /\ rest = whole - in[d] + out[d]
  BY <1>3, <1>4, <1>5
<1>7. QED
  BY <1>6 DEF whole, rest, R

-----------------------------------------------------------------------------
\* Every unit on hand has a document: operations

TransfersPosted == {t \in Transfers : transfer[t].postingStatus = "posted"}
TransfersIn(b) == [t \in Transfers |-> TotalIn(TransferEntries(transfer[t].lines), b)]
TransfersOut(b) == [t \in Transfers |-> TotalOut(TransferEntries(transfer[t].lines), b)]
TransfersNet(b) == NetOver(Transfers, TransfersPosted, TransfersIn(b), TransfersOut(b))

AdjustmentsPosted == {a \in Adjustments : adjustment[a].postingStatus = "posted"}
AdjustmentsIn(b) == [a \in Adjustments |-> TotalIn(adjustment[a].lines, b)]
AdjustmentsOut(b) == [a \in Adjustments |-> TotalOut(adjustment[a].lines, b)]
AdjustmentsNet(b) == NetOver(Adjustments, AdjustmentsPosted, AdjustmentsIn(b), AdjustmentsOut(b))

CountsPosted == {c \in Counts : count[c].workflowStatus = "posted"}
CountsIn(b) == [c \in Counts |-> TotalIn(CountEntries(c), b)]
CountsOut(b) == [c \in Counts |-> TotalOut(CountEntries(c), b)]
CountsNet(b) == NetOver(Counts, CountsPosted, CountsIn(b), CountsOut(b))

(***************************************************************************)
(* A transfer or adjustment that stands posted is no longer revised, and a *)
(* count that has posted has all its quantities.                           *)
(***************************************************************************)
TransfersReady ==
  \A t \in Transfers : transfer[t].postingStatus = "posted" => transfer[t].workflowStatus = "ready"
AdjustmentsReady ==
  \A a \in Adjustments : adjustment[a].postingStatus = "posted" => adjustment[a].workflowStatus = "ready"
CountsReady ==
  \A c \in Counts : count[c].workflowStatus = "posted" =>
    \A b \in DOMAIN count[c].recorded : count[c].counted[b] # None
PostedAreReady == TransfersReady /\ AdjustmentsReady /\ CountsReady

\* What a reversal brings is what the posting took, and the other way round.
LEMMA OppositeTotals ==
  ASSUME NEW entries, Effective(entries), NEW b
  PROVE  /\ TotalIn(Opposite(entries), b) = TotalOut(entries, b)
         /\ TotalOut(Opposite(entries), b) = TotalIn(entries, b)
<1> DEFINE back == Opposite(entries)
<1>1. \A e \in DOMAIN entries : /\ back[e].key = entries[e].key
                                /\ back[e].delta = -entries[e].delta
                                /\ entries[e].delta \in Int
  BY DEF Opposite, Effective, Entry
<1>2. DOMAIN back = DOMAIN entries
  BY DEF Opposite
<1> HIDE DEF back
<1>3. \A e \in DOMAIN entries :
        /\ (back[e].delta > 0) <=> (entries[e].delta < 0)
        /\ (back[e].delta < 0) <=> (entries[e].delta > 0)
        /\ -back[e].delta = entries[e].delta
  BY <1>1
<1>4. TotalIn(back, b) = TotalOut(entries, b)
  BY <1>1, <1>2, <1>3 DEF TotalIn, TotalOut
<1>5. TotalOut(back, b) = TotalIn(entries, b)
  BY <1>1, <1>2, <1>3 DEF TotalIn, TotalOut
<1>6. QED
  BY <1>4, <1>5 DEF back

\* What is written on hand is what the entries bring and take.
LEMMA EntriesWritten ==
  ASSUME StockTypeOK, NEW entries, Effective(entries), WriteOperationBalances(entries),
         NEW b \in BalanceKeys
  PROVE  balance'[b].onHand = balance[b].onHand + TotalIn(entries, b) - TotalOut(entries, b)
<1>1. TotalIn(entries, b) \in Nat /\ TotalOut(entries, b) \in Nat /\ balance[b].onHand \in Int
  BY EntryTotals DEF StockTypeOK, BalanceRow
<1>2. CASE b \in Touched(entries)
  <2>1. balance'[b].onHand = balance[b].onHand + NetOf(entries, b)
    BY <1>2 DEF WriteOperationBalances
  <2>2. QED
    BY <1>1, <2>1 DEF NetOf
<1>3. CASE b \notin Touched(entries)
  <2> DEFINE in == [e \in DOMAIN entries |->
               IF entries[e].key = b /\ entries[e].delta > 0 THEN entries[e].delta ELSE 0]
             out == [e \in DOMAIN entries |->
               IF entries[e].key = b /\ entries[e].delta < 0 THEN -entries[e].delta ELSE 0]
  <2>1. \A e \in DOMAIN entries : entries[e].key # b
    BY <1>3 DEF Touched
  <2>2. /\ in \in [DOMAIN entries -> Nat] /\ \A e \in DOMAIN entries : in[e] = 0
        /\ out \in [DOMAIN entries -> Nat] /\ \A e \in DOMAIN entries : out[e] = 0
    BY <2>1
  <2>3. TotalIn(entries, b) = Total(in) /\ TotalOut(entries, b) = Total(out)
    BY DEF TotalIn, TotalOut
  <2> HIDE DEF in, out
  <2>4. TotalIn(entries, b) = 0 /\ TotalOut(entries, b) = 0
    BY <2>2, <2>3, TotalZero
  <2>5. balance'[b] = balance[b]
    BY <1>3 DEF WriteOperationBalances
  <2>6. QED
    BY <1>1, <2>4, <2>5
<1>4. QED
  BY <1>2, <1>3

\* A command about one transfer moves what it adds to the posted transfers.
LEMMA TransferExplains ==
  ASSUME StockTypeOK, OperationsInv, TransfersReady, NEW t \in Transfers,
         \/ \E lines \in LinesOfLength(TransferLine) : CreateTransfer(t, lines) \/ ReviseTransfer(t, lines)
         \/ ReadyTransfer(t) \/ CancelTransfer(t) \/ PostTransfer(t) \/ ReverseTransfer(t)
  PROVE  /\ TransfersReady'
         /\ \A b \in BalanceKeys : balance'[b].onHand - TransfersNet(b)' =
                                     balance[b].onHand - TransfersNet(b)
<1> DEFINE entries == TransferEntries(transfer[t].lines)
           Explained == \A b \in BalanceKeys : balance'[b].onHand - TransfersNet(b)' =
                                               balance[b].onHand - TransfersNet(b)
<1>1. /\ transfer \in [Transfers -> [lines : Seq(TransferLine), workflowStatus : WorkflowStates,
                                     postingStatus : PostingStates]]
      /\ \A b \in BalanceKeys : balance[b].onHand \in Int
      /\ IsFiniteSet(Transfers)
  BY OperationsAssumption DEF OperationsInv, OperationsTypeOK, StockTypeOK, BalanceRow
<1>2. \A z \in Transfers : Effective(TransferEntries(transfer[z].lines))
  BY <1>1, LinesAreEffective
<1>3. \A b : \A z \in Transfers : TransfersIn(b)[z] \in Nat /\ TransfersOut(b)[z] \in Nat
  BY <1>2, EntryTotals DEF TransfersIn, TransfersOut
<1>4. ASSUME NEW S, \A z \in S : z \in Transfers /\ transfer'[z].lines = transfer[z].lines, NEW b
      PROVE  /\ Agree(S, TransfersIn(b), TransfersIn(b)') /\ Agree(S, TransfersIn(b)', TransfersIn(b))
             /\ Agree(S, TransfersOut(b), TransfersOut(b)') /\ Agree(S, TransfersOut(b)', TransfersOut(b))
  <2>1. \A z \in S : /\ TransfersIn(b)'[z] = TransfersIn(b)[z] /\ TransfersIn(b)[z] \in Nat
                     /\ TransfersOut(b)'[z] = TransfersOut(b)[z] /\ TransfersOut(b)[z] \in Nat
    <3>1. ASSUME NEW z \in S
          PROVE  TransfersIn(b)'[z] = TransfersIn(b)[z] /\ TransfersOut(b)'[z] = TransfersOut(b)[z]
      BY <1>4 DEF TransfersIn, TransfersOut
    <3>2. QED
      BY <1>3, <1>4, <3>1
  <2>2. QED
    BY <2>1 DEF Agree
<1>5. ASSUME NEW b
      PROVE  TransfersNet(b)' = NetOver(Transfers, TransfersPosted', TransfersIn(b)', TransfersOut(b)')
  BY DEF TransfersNet
<1>6. CASE \/ \E lines \in LinesOfLength(TransferLine) : CreateTransfer(t, lines) \/ ReviseTransfer(t, lines)
           \/ ReadyTransfer(t) \/ CancelTransfer(t)
  <2>1. UNCHANGED balance
    BY <1>6 DEF CreateTransfer, ReviseTransfer, ReadyTransfer, CancelTransfer, stockVars
  <2>2. /\ transfer[t].postingStatus # "posted"
        /\ transfer'[t].postingStatus # "posted"
        /\ \A z \in Transfers : z # t => transfer'[z] = transfer[z]
    BY <1>1, <1>6 DEF CreateTransfer, ReviseTransfer, ReadyTransfer, CancelTransfer, OpenIn, TransfersReady
  <2>3. /\ TransfersPosted' = TransfersPosted /\ TransfersPosted \in SUBSET Transfers
        /\ \A z \in TransfersPosted : z \in Transfers /\ transfer'[z].lines = transfer[z].lines
    BY <2>2 DEF TransfersPosted
  <2>4. ASSUME NEW b PROVE TransfersNet(b)' = TransfersNet(b)
    <3>1. /\ Agree(TransfersPosted, TransfersIn(b), TransfersIn(b)')
          /\ Agree(TransfersPosted, TransfersOut(b), TransfersOut(b)')
      BY <1>4, <2>3
    <3>2. NetOver(Transfers, TransfersPosted, TransfersIn(b)', TransfersOut(b)') =
            NetOver(Transfers, TransfersPosted, TransfersIn(b), TransfersOut(b))
      BY <2>3, <3>1, NetSame
    <3>3. QED
      BY <1>5, <2>3, <3>2 DEF TransfersNet
  <2>5. TransfersReady'
    BY <2>2 DEF TransfersReady
  <2>6. QED
    BY <2>1, <2>4, <2>5
<1>7. CASE PostTransfer(t)
  <2>1. /\ transfer[t].postingStatus # "posted" /\ transfer[t].workflowStatus = "ready"
        /\ transfer' = [transfer EXCEPT ![t].postingStatus = "posted"]
        /\ WriteOperationBalances(entries)
    BY <1>7 DEF PostTransfer, MoveTransfer, OpenIn
  <2>2. \A z \in Transfers : /\ transfer'[z].lines = transfer[z].lines
                             /\ transfer'[z].workflowStatus = transfer[z].workflowStatus
                             /\ transfer'[z].postingStatus = IF z = t THEN "posted" ELSE transfer[z].postingStatus
    BY <1>1, <2>1
  <2>3. /\ TransfersPosted' = TransfersPosted \cup {t}
        /\ TransfersPosted \subseteq Transfers /\ t \in Transfers \ TransfersPosted
    BY <2>1, <2>2 DEF TransfersPosted
  <2>4. \A b : TransfersIn(b)'[t] = TotalIn(entries, b) /\ TransfersOut(b)'[t] = TotalOut(entries, b)
    BY <2>2 DEF TransfersIn, TransfersOut
  <2>5. \A b : TotalIn(entries, b) \in Nat /\ TotalOut(entries, b) \in Nat
    BY <1>2, EntryTotals
  <2>6. \A b \in BalanceKeys : balance'[b].onHand = balance[b].onHand + TotalIn(entries, b) - TotalOut(entries, b)
    BY <1>2, <2>1, EntriesWritten
  <2> HIDE DEF entries
  <2>7. ASSUME NEW b
        PROVE  /\ TransfersNet(b) \in Int
               /\ TransfersNet(b)' = TransfersNet(b) + TotalIn(entries, b) - TotalOut(entries, b)
    <3>1. /\ OneMore(Transfers, TransfersPosted, t, TransfersIn(b), TransfersIn(b)')
          /\ OneMore(Transfers, TransfersPosted, t, TransfersOut(b), TransfersOut(b)')
      <4>1. /\ Agree(TransfersPosted, TransfersIn(b), TransfersIn(b)')
            /\ Agree(TransfersPosted, TransfersOut(b), TransfersOut(b)')
        BY <1>4, <2>2, <2>3
      <4>2. QED
        BY <1>1, <2>3, <2>4, <2>5, <4>1 DEF OneMore
    <3>2. QED
      BY <1>5, <2>3, <2>4, <3>1, NetJoins DEF TransfersNet
  <2>8. TransfersReady'
    BY <2>1, <2>2 DEF TransfersReady
  <2>9. QED
    BY <1>1, <2>5, <2>6, <2>7, <2>8
<1>8. CASE ReverseTransfer(t)
  <2>1. /\ transfer[t].postingStatus = "posted"
        /\ transfer' = [transfer EXCEPT ![t].postingStatus = "reversed"]
        /\ WriteOperationBalances(Opposite(entries))
    BY <1>8 DEF ReverseTransfer, MoveTransfer
  <2>2. \A z \in Transfers : /\ transfer'[z].lines = transfer[z].lines
                             /\ transfer'[z].workflowStatus = transfer[z].workflowStatus
                             /\ transfer'[z].postingStatus = IF z = t THEN "reversed" ELSE transfer[z].postingStatus
    BY <1>1, <2>1
  <2>3. /\ TransfersPosted' = TransfersPosted \ {t}
        /\ TransfersPosted \subseteq Transfers /\ t \in TransfersPosted
        /\ TransfersPosted \ {t} \subseteq Transfers /\ t \in Transfers \ (TransfersPosted \ {t})
    BY <2>1, <2>2 DEF TransfersPosted
  <2>4. \A b : TransfersIn(b)[t] = TotalIn(entries, b) /\ TransfersOut(b)[t] = TotalOut(entries, b)
    BY DEF TransfersIn, TransfersOut
  <2>5. \A b : TotalIn(entries, b) \in Nat /\ TotalOut(entries, b) \in Nat
    BY <1>2, EntryTotals
  <2>6. \A b \in BalanceKeys : balance'[b].onHand = balance[b].onHand + TotalOut(entries, b) - TotalIn(entries, b)
    <3>1. Effective(entries) /\ Effective(Opposite(entries))
      BY <1>2, LinesAreEffective
    <3> HIDE DEF entries
    <3>2. QED
      BY <2>1, <3>1, EntriesWritten, OppositeTotals
  <2> HIDE DEF entries
  <2>7. ASSUME NEW b
        PROVE  /\ TransfersNet(b) \in Int
               /\ TransfersNet(b)' = TransfersNet(b) - TotalIn(entries, b) + TotalOut(entries, b)
    <3>1. /\ OneMore(Transfers, TransfersPosted \ {t}, t, TransfersIn(b)', TransfersIn(b))
          /\ OneMore(Transfers, TransfersPosted \ {t}, t, TransfersOut(b)', TransfersOut(b))
      <4>1. /\ Agree(TransfersPosted \ {t}, TransfersIn(b)', TransfersIn(b))
            /\ Agree(TransfersPosted \ {t}, TransfersOut(b)', TransfersOut(b))
        BY <1>4, <2>2, <2>3
      <4>2. QED
        BY <1>1, <2>3, <2>4, <2>5, <4>1 DEF OneMore
    <3>2. /\ TransfersNet(b) \in Int
          /\ NetOver(Transfers, TransfersPosted \ {t}, TransfersIn(b)', TransfersOut(b)') =
               TransfersNet(b) - TransfersIn(b)[t] + TransfersOut(b)[t]
      BY <2>3, <3>1, NetLeaves DEF TransfersNet
    <3>3. QED
      BY <1>5, <2>3, <2>4, <3>2
  <2>8. TransfersReady'
    BY <2>2 DEF TransfersReady
  <2>9. QED
    BY <1>1, <2>5, <2>6, <2>7, <2>8
<1>9. QED
  BY <1>6, <1>7, <1>8

\* A command about one adjustment moves what it adds to the posted adjustments.
LEMMA AdjustmentExplains ==
  ASSUME StockTypeOK, OperationsInv, AdjustmentsReady, NEW a \in Adjustments,
         \/ \E lines \in LinesOfLength(AdjustmentLine) : CreateAdjustment(a, lines) \/ ReviseAdjustment(a, lines)
         \/ ReadyAdjustment(a) \/ CancelAdjustment(a) \/ PostAdjustment(a) \/ ReverseAdjustment(a)
  PROVE  /\ AdjustmentsReady'
         /\ \A b \in BalanceKeys : balance'[b].onHand - AdjustmentsNet(b)' =
                                     balance[b].onHand - AdjustmentsNet(b)
<1> DEFINE entries == adjustment[a].lines
           Explained == \A b \in BalanceKeys : balance'[b].onHand - AdjustmentsNet(b)' =
                                               balance[b].onHand - AdjustmentsNet(b)
<1>1. /\ adjustment \in [Adjustments -> [lines : Seq(AdjustmentLine), workflowStatus : WorkflowStates,
                                     postingStatus : PostingStates]]
      /\ \A b \in BalanceKeys : balance[b].onHand \in Int
      /\ IsFiniteSet(Adjustments)
  BY OperationsAssumption DEF OperationsInv, OperationsTypeOK, StockTypeOK, BalanceRow
<1>2. \A z \in Adjustments : Effective(adjustment[z].lines)
  BY <1>1, LinesAreEffective
<1>3. \A b : \A z \in Adjustments : AdjustmentsIn(b)[z] \in Nat /\ AdjustmentsOut(b)[z] \in Nat
  BY <1>2, EntryTotals DEF AdjustmentsIn, AdjustmentsOut
<1>4. ASSUME NEW S, \A z \in S : z \in Adjustments /\ adjustment'[z].lines = adjustment[z].lines, NEW b
      PROVE  /\ Agree(S, AdjustmentsIn(b), AdjustmentsIn(b)') /\ Agree(S, AdjustmentsIn(b)', AdjustmentsIn(b))
             /\ Agree(S, AdjustmentsOut(b), AdjustmentsOut(b)') /\ Agree(S, AdjustmentsOut(b)', AdjustmentsOut(b))
  <2>1. \A z \in S : /\ AdjustmentsIn(b)'[z] = AdjustmentsIn(b)[z] /\ AdjustmentsIn(b)[z] \in Nat
                     /\ AdjustmentsOut(b)'[z] = AdjustmentsOut(b)[z] /\ AdjustmentsOut(b)[z] \in Nat
    <3>1. ASSUME NEW z \in S
          PROVE  AdjustmentsIn(b)'[z] = AdjustmentsIn(b)[z] /\ AdjustmentsOut(b)'[z] = AdjustmentsOut(b)[z]
      BY <1>4 DEF AdjustmentsIn, AdjustmentsOut
    <3>2. QED
      BY <1>3, <1>4, <3>1
  <2>2. QED
    BY <2>1 DEF Agree
<1>5. ASSUME NEW b
      PROVE  AdjustmentsNet(b)' = NetOver(Adjustments, AdjustmentsPosted', AdjustmentsIn(b)', AdjustmentsOut(b)')
  BY DEF AdjustmentsNet
<1>6. CASE \/ \E lines \in LinesOfLength(AdjustmentLine) : CreateAdjustment(a, lines) \/ ReviseAdjustment(a, lines)
           \/ ReadyAdjustment(a) \/ CancelAdjustment(a)
  <2>1. UNCHANGED balance
    BY <1>6 DEF CreateAdjustment, ReviseAdjustment, ReadyAdjustment, CancelAdjustment, stockVars
  <2>2. /\ adjustment[a].postingStatus # "posted"
        /\ adjustment'[a].postingStatus # "posted"
        /\ \A z \in Adjustments : z # a => adjustment'[z] = adjustment[z]
    BY <1>1, <1>6 DEF CreateAdjustment, ReviseAdjustment, ReadyAdjustment, CancelAdjustment, OpenIn, AdjustmentsReady
  <2>3. /\ AdjustmentsPosted' = AdjustmentsPosted /\ AdjustmentsPosted \in SUBSET Adjustments
        /\ \A z \in AdjustmentsPosted : z \in Adjustments /\ adjustment'[z].lines = adjustment[z].lines
    BY <2>2 DEF AdjustmentsPosted
  <2>4. ASSUME NEW b PROVE AdjustmentsNet(b)' = AdjustmentsNet(b)
    <3>1. /\ Agree(AdjustmentsPosted, AdjustmentsIn(b), AdjustmentsIn(b)')
          /\ Agree(AdjustmentsPosted, AdjustmentsOut(b), AdjustmentsOut(b)')
      BY <1>4, <2>3
    <3>2. NetOver(Adjustments, AdjustmentsPosted, AdjustmentsIn(b)', AdjustmentsOut(b)') =
            NetOver(Adjustments, AdjustmentsPosted, AdjustmentsIn(b), AdjustmentsOut(b))
      BY <2>3, <3>1, NetSame
    <3>3. QED
      BY <1>5, <2>3, <3>2 DEF AdjustmentsNet
  <2>5. AdjustmentsReady'
    BY <2>2 DEF AdjustmentsReady
  <2>6. QED
    BY <2>1, <2>4, <2>5
<1>7. CASE PostAdjustment(a)
  <2>1. /\ adjustment[a].postingStatus # "posted" /\ adjustment[a].workflowStatus = "ready"
        /\ adjustment' = [adjustment EXCEPT ![a].postingStatus = "posted"]
        /\ WriteOperationBalances(entries)
    BY <1>7 DEF PostAdjustment, Adjust, OpenIn
  <2>2. \A z \in Adjustments : /\ adjustment'[z].lines = adjustment[z].lines
                             /\ adjustment'[z].workflowStatus = adjustment[z].workflowStatus
                             /\ adjustment'[z].postingStatus = IF z = a THEN "posted" ELSE adjustment[z].postingStatus
    BY <1>1, <2>1
  <2>3. /\ AdjustmentsPosted' = AdjustmentsPosted \cup {a}
        /\ AdjustmentsPosted \subseteq Adjustments /\ a \in Adjustments \ AdjustmentsPosted
    BY <2>1, <2>2 DEF AdjustmentsPosted
  <2>4. \A b : AdjustmentsIn(b)'[a] = TotalIn(entries, b) /\ AdjustmentsOut(b)'[a] = TotalOut(entries, b)
    BY <2>2 DEF AdjustmentsIn, AdjustmentsOut
  <2>5. \A b : TotalIn(entries, b) \in Nat /\ TotalOut(entries, b) \in Nat
    BY <1>2, EntryTotals
  <2>6. \A b \in BalanceKeys : balance'[b].onHand = balance[b].onHand + TotalIn(entries, b) - TotalOut(entries, b)
    BY <1>2, <2>1, EntriesWritten
  <2> HIDE DEF entries
  <2>7. ASSUME NEW b
        PROVE  /\ AdjustmentsNet(b) \in Int
               /\ AdjustmentsNet(b)' = AdjustmentsNet(b) + TotalIn(entries, b) - TotalOut(entries, b)
    <3>1. /\ OneMore(Adjustments, AdjustmentsPosted, a, AdjustmentsIn(b), AdjustmentsIn(b)')
          /\ OneMore(Adjustments, AdjustmentsPosted, a, AdjustmentsOut(b), AdjustmentsOut(b)')
      <4>1. /\ Agree(AdjustmentsPosted, AdjustmentsIn(b), AdjustmentsIn(b)')
            /\ Agree(AdjustmentsPosted, AdjustmentsOut(b), AdjustmentsOut(b)')
        BY <1>4, <2>2, <2>3
      <4>2. QED
        BY <1>1, <2>3, <2>4, <2>5, <4>1 DEF OneMore
    <3>2. QED
      BY <1>5, <2>3, <2>4, <3>1, NetJoins DEF AdjustmentsNet
  <2>8. AdjustmentsReady'
    BY <2>1, <2>2 DEF AdjustmentsReady
  <2>9. QED
    BY <1>1, <2>5, <2>6, <2>7, <2>8
<1>8. CASE ReverseAdjustment(a)
  <2>1. /\ adjustment[a].postingStatus = "posted"
        /\ adjustment' = [adjustment EXCEPT ![a].postingStatus = "reversed"]
        /\ WriteOperationBalances(Opposite(entries))
    BY <1>8 DEF ReverseAdjustment, Adjust
  <2>2. \A z \in Adjustments : /\ adjustment'[z].lines = adjustment[z].lines
                             /\ adjustment'[z].workflowStatus = adjustment[z].workflowStatus
                             /\ adjustment'[z].postingStatus = IF z = a THEN "reversed" ELSE adjustment[z].postingStatus
    BY <1>1, <2>1
  <2>3. /\ AdjustmentsPosted' = AdjustmentsPosted \ {a}
        /\ AdjustmentsPosted \subseteq Adjustments /\ a \in AdjustmentsPosted
        /\ AdjustmentsPosted \ {a} \subseteq Adjustments /\ a \in Adjustments \ (AdjustmentsPosted \ {a})
    BY <2>1, <2>2 DEF AdjustmentsPosted
  <2>4. \A b : AdjustmentsIn(b)[a] = TotalIn(entries, b) /\ AdjustmentsOut(b)[a] = TotalOut(entries, b)
    BY DEF AdjustmentsIn, AdjustmentsOut
  <2>5. \A b : TotalIn(entries, b) \in Nat /\ TotalOut(entries, b) \in Nat
    BY <1>2, EntryTotals
  <2>6. \A b \in BalanceKeys : balance'[b].onHand = balance[b].onHand + TotalOut(entries, b) - TotalIn(entries, b)
    <3>1. Effective(entries) /\ Effective(Opposite(entries))
      BY <1>2, LinesAreEffective
    <3> HIDE DEF entries
    <3>2. QED
      BY <2>1, <3>1, EntriesWritten, OppositeTotals
  <2> HIDE DEF entries
  <2>7. ASSUME NEW b
        PROVE  /\ AdjustmentsNet(b) \in Int
               /\ AdjustmentsNet(b)' = AdjustmentsNet(b) - TotalIn(entries, b) + TotalOut(entries, b)
    <3>1. /\ OneMore(Adjustments, AdjustmentsPosted \ {a}, a, AdjustmentsIn(b)', AdjustmentsIn(b))
          /\ OneMore(Adjustments, AdjustmentsPosted \ {a}, a, AdjustmentsOut(b)', AdjustmentsOut(b))
      <4>1. /\ Agree(AdjustmentsPosted \ {a}, AdjustmentsIn(b)', AdjustmentsIn(b))
            /\ Agree(AdjustmentsPosted \ {a}, AdjustmentsOut(b)', AdjustmentsOut(b))
        BY <1>4, <2>2, <2>3
      <4>2. QED
        BY <1>1, <2>3, <2>4, <2>5, <4>1 DEF OneMore
    <3>2. /\ AdjustmentsNet(b) \in Int
          /\ NetOver(Adjustments, AdjustmentsPosted \ {a}, AdjustmentsIn(b)', AdjustmentsOut(b)') =
               AdjustmentsNet(b) - AdjustmentsIn(b)[a] + AdjustmentsOut(b)[a]
      BY <2>3, <3>1, NetLeaves DEF AdjustmentsNet
    <3>3. QED
      BY <1>5, <2>3, <2>4, <3>2
  <2>8. AdjustmentsReady'
    BY <2>2 DEF AdjustmentsReady
  <2>9. QED
    BY <1>1, <2>5, <2>6, <2>7, <2>8
<1>9. QED
  BY <1>6, <1>7, <1>8


\* The variances of a count that has all its quantities.
LEMMA VariancesAreEffective ==
  ASSUME OperationsInv, NEW c \in Counts, \A b \in DOMAIN count[c].recorded : count[c].counted[b] # None
  PROVE  Effective(CountEntries(c))
<1> DEFINE bs == DOMAIN count[c].recorded
<1>1. /\ bs \subseteq BalanceKeys
      /\ count[c].counted \in [bs -> 0..MaxCounted \cup {None}]
      /\ count[c] \in CountRow
  BY DEF OperationsInv, OperationsTypeOK
<1>2. IsFiniteSet(bs)
  BY <1>1, StockAssumption, FS_Subset
<1>3. PICK rs \in SUBSET BalanceKeys : count[c].recorded \in [rs -> BalanceRow]
  BY <1>1 DEF CountRow
<1>4. ASSUME NEW b \in bs PROVE [key |-> b, delta |-> count[c].counted[b] - count[c].recorded[b].onHand] \in Entry
  <2>1. count[c].counted[b] \in Int
    BY <1>1, OperationsAssumption
  <2>2. count[c].recorded[b].onHand \in Int
    BY <1>3 DEF BalanceRow
  <2>3. QED
    BY <1>1, <2>1, <2>2 DEF Entry
<1>5. QED
  BY <1>2, <1>4 DEF Effective, CountEntries

\* A command about one count moves what it adds to the posted counts.
LEMMA CountExplains ==
  ASSUME StockTypeOK, OperationsInv, CountsReady, NEW c \in Counts,
         \/ \E bs \in CountableSets : CreateCount(c, bs)
         \/ \E bs \in SUBSET DOMAIN count[c].recorded :
              \E quantities \in [bs -> 0..MaxCounted] : ReviseCount(c, quantities)
         \/ SubmitCount(c) \/ ReviewCount(c) \/ CancelCount(c) \/ PostCount(c)
  PROVE  /\ CountsReady'
         /\ \A b \in BalanceKeys : balance'[b].onHand - CountsNet(b)' =
                                     balance[b].onHand - CountsNet(b)
<1>1. /\ count \in [Counts -> CountRow]
      /\ \A b \in BalanceKeys : balance[b].onHand \in Int
      /\ IsFiniteSet(Counts)
  BY OperationsAssumption DEF OperationsInv, StockTypeOK, BalanceRow
<1>2. CountsPosted \subseteq Counts /\ \A z \in CountsPosted : Effective(CountEntries(z))
  BY VariancesAreEffective DEF CountsPosted, CountsReady
<1>3. ASSUME \A z \in CountsPosted : count'[z].recorded = count[z].recorded /\ count'[z].counted = count[z].counted,
             NEW b
      PROVE  Agree(CountsPosted, CountsIn(b), CountsIn(b)') /\ Agree(CountsPosted, CountsOut(b), CountsOut(b)')
  <2>1. ASSUME NEW z \in CountsPosted
        PROVE  /\ CountsIn(b)'[z] = TotalIn(CountEntries(z), b) /\ CountsIn(b)[z] = TotalIn(CountEntries(z), b)
               /\ CountsOut(b)'[z] = TotalOut(CountEntries(z), b) /\ CountsOut(b)[z] = TotalOut(CountEntries(z), b)
    <3>1. z \in Counts /\ count'[z].recorded = count[z].recorded /\ count'[z].counted = count[z].counted
      BY <1>2, <1>3
    <3>2. CountEntries(z)' = CountEntries(z)
      BY <3>1 DEF CountEntries
    <3>3. /\ CountsIn(b)'[z] = TotalIn(CountEntries(z)', b) /\ CountsOut(b)'[z] = TotalOut(CountEntries(z)', b)
          /\ CountsIn(b)[z] = TotalIn(CountEntries(z), b) /\ CountsOut(b)[z] = TotalOut(CountEntries(z), b)
      BY <3>1 DEF CountsIn, CountsOut
    <3>4. QED
      BY <3>2, <3>3
  <2>2. \A z \in CountsPosted : TotalIn(CountEntries(z), b) \in Nat /\ TotalOut(CountEntries(z), b) \in Nat
    BY <1>2, EntryTotals
  <2>3. QED
    BY <2>1, <2>2 DEF Agree
<1>4. ASSUME NEW b PROVE CountsNet(b)' = NetOver(Counts, CountsPosted', CountsIn(b)', CountsOut(b)')
  BY DEF CountsNet
<1>5. CASE \/ \E bs \in CountableSets : CreateCount(c, bs)
           \/ \E bs \in SUBSET DOMAIN count[c].recorded :
                \E quantities \in [bs -> 0..MaxCounted] : ReviseCount(c, quantities)
           \/ SubmitCount(c) \/ ReviewCount(c) \/ CancelCount(c)
  <2>1. UNCHANGED balance
    BY <1>5 DEF CreateCount, ReviseCount, SubmitCount, ReviewCount, CancelCount, stockVars
  <2>2. count[c] \in CountRow
    BY <1>1
  <2>3. /\ count[c].workflowStatus # "posted" /\ count'[c].workflowStatus # "posted"
        /\ \A z \in Counts : z # c => count'[z] = count[z]
    BY <1>1, <1>5, <2>2
       DEF CreateCount, ReviseCount, SubmitCount, ReviewCount, CancelCount, CountOpen, CountRow
  <2>4. /\ CountsPosted' = CountsPosted
        /\ \A z \in CountsPosted : count'[z].recorded = count[z].recorded /\ count'[z].counted = count[z].counted
    BY <2>3 DEF CountsPosted
  <2>5. ASSUME NEW b PROVE CountsNet(b)' = CountsNet(b)
    <3>1. Agree(CountsPosted, CountsIn(b), CountsIn(b)') /\ Agree(CountsPosted, CountsOut(b), CountsOut(b)')
      BY <1>3, <2>4
    <3>2. NetOver(Counts, CountsPosted, CountsIn(b)', CountsOut(b)') =
            NetOver(Counts, CountsPosted, CountsIn(b), CountsOut(b))
      BY <1>2, <3>1, NetSame
    <3>3. QED
      BY <1>4, <2>4, <3>2 DEF CountsNet
  <2>6. CountsReady'
    BY <2>3 DEF CountsReady
  <2>7. QED
    BY <2>1, <2>5, <2>6
<1>6. CASE PostCount(c)
  <2> DEFINE entries == CountEntries(c)
  <2>1. /\ count[c].workflowStatus # "posted"
        /\ count' = [count EXCEPT ![c].workflowStatus = "posted"]
        /\ \A b \in DOMAIN count[c].recorded : count[c].counted[b] # None
        /\ WriteOperationBalances(entries)
    BY <1>6 DEF PostCount
  <2>2. \A z \in Counts : /\ count'[z].recorded = count[z].recorded
                          /\ count'[z].counted = count[z].counted
                          /\ count'[z].workflowStatus = IF z = c THEN "posted" ELSE count[z].workflowStatus
    BY <1>1, <2>1 DEF CountRow
  <2>3. /\ CountsPosted' = CountsPosted \cup {c} /\ c \in Counts \ CountsPosted
    BY <2>1, <2>2 DEF CountsPosted
  <2>4. \A b : CountsIn(b)'[c] = TotalIn(entries, b) /\ CountsOut(b)'[c] = TotalOut(entries, b)
    <3>1. CountEntries(c)' = entries
      BY <2>2 DEF CountEntries
    <3>2. \A b : /\ CountsIn(b)'[c] = TotalIn(CountEntries(c)', b)
                 /\ CountsOut(b)'[c] = TotalOut(CountEntries(c)', b)
      BY DEF CountsIn, CountsOut
    <3> HIDE DEF entries
    <3>3. QED
      BY <3>1, <3>2
  <2>5. Effective(entries)
    BY <2>1, VariancesAreEffective
  <2> HIDE DEF entries
  <2>6. \A b : TotalIn(entries, b) \in Nat /\ TotalOut(entries, b) \in Nat
    BY <2>5, EntryTotals
  <2>7. \A b \in BalanceKeys : balance'[b].onHand = balance[b].onHand + TotalIn(entries, b) - TotalOut(entries, b)
    BY <2>1, <2>5, EntriesWritten
  <2>8. ASSUME NEW b
        PROVE  /\ CountsNet(b) \in Int
               /\ CountsNet(b)' = CountsNet(b) + TotalIn(entries, b) - TotalOut(entries, b)
    <3>1. Agree(CountsPosted, CountsIn(b), CountsIn(b)') /\ Agree(CountsPosted, CountsOut(b), CountsOut(b)')
      BY <1>2, <1>3, <2>2
    <3>2. /\ OneMore(Counts, CountsPosted, c, CountsIn(b), CountsIn(b)')
          /\ OneMore(Counts, CountsPosted, c, CountsOut(b), CountsOut(b)')
      BY <1>1, <1>2, <2>3, <2>4, <2>6, <3>1 DEF OneMore
    <3>3. QED
      BY <1>4, <2>3, <2>4, <3>2, NetJoins DEF CountsNet
  <2>9. CountsReady'
    BY <1>2, <2>1, <2>2 DEF CountsReady
  <2>10. QED
    BY <1>1, <2>6, <2>7, <2>8, <2>9
<1>7. QED
  BY <1>5, <1>6

\* The three kinds of documents are the effect of operations.
LEMMA OperationsNets ==
  ASSUME OperationsInv, PostedAreReady, NEW b
  PROVE  /\ TransfersNet(b) \in Int /\ AdjustmentsNet(b) \in Int /\ CountsNet(b) \in Int
         /\ OperationsNet(b) = TransfersNet(b) + AdjustmentsNet(b) + CountsNet(b)
<1>1. ASSUME NEW D, IsFiniteSet(D), NEW P \in SUBSET D, NEW in, NEW out,
             \A d \in P : in[d] \in Nat /\ out[d] \in Nat
      PROVE  Total(Moving(D, P, in)) \in Nat /\ Total(Moving(D, P, out)) \in Nat
  <2>1. Moving(D, P, in) \in [D -> Nat] /\ Moving(D, P, out) \in [D -> Nat]
    BY <1>1 DEF Moving
  <2>2. QED
    BY <1>1, <2>1, TotalNat
<1> DEFINE tin == Total(Moving(Transfers, TransfersPosted, TransfersIn(b)))
           tout == Total(Moving(Transfers, TransfersPosted, TransfersOut(b)))
           ain == Total(Moving(Adjustments, AdjustmentsPosted, AdjustmentsIn(b)))
           aout == Total(Moving(Adjustments, AdjustmentsPosted, AdjustmentsOut(b)))
           cin == Total(Moving(Counts, CountsPosted, CountsIn(b)))
           cout == Total(Moving(Counts, CountsPosted, CountsOut(b)))
<1>2. tin \in Nat /\ tout \in Nat
  <2>1. \A t \in TransfersPosted : TransfersIn(b)[t] \in Nat /\ TransfersOut(b)[t] \in Nat
    BY LinesAreEffective, EntryTotals
       DEF TransfersIn, TransfersOut, TransfersPosted, OperationsInv, OperationsTypeOK
  <2>2. QED
    BY <1>1, <2>1, OperationsAssumption DEF TransfersPosted
<1>3. ain \in Nat /\ aout \in Nat
  <2>1. \A a \in AdjustmentsPosted : AdjustmentsIn(b)[a] \in Nat /\ AdjustmentsOut(b)[a] \in Nat
    BY LinesAreEffective, EntryTotals
       DEF AdjustmentsIn, AdjustmentsOut, AdjustmentsPosted, OperationsInv, OperationsTypeOK
  <2>2. QED
    BY <1>1, <2>1, OperationsAssumption DEF AdjustmentsPosted
<1>4. cin \in Nat /\ cout \in Nat
  <2>1. \A c \in CountsPosted : CountsIn(b)[c] \in Nat /\ CountsOut(b)[c] \in Nat
    BY VariancesAreEffective, EntryTotals
       DEF CountsIn, CountsOut, CountsPosted, PostedAreReady, CountsReady
  <2>2. QED
    BY <1>1, <2>1, OperationsAssumption DEF CountsPosted
<1>5. NetPosted(transfer, TransferEntries, b) = tin - tout
  <2>1. DOMAIN transfer = Transfers
    BY DEF OperationsInv, OperationsTypeOK
  <2>2. PostedIn(transfer, TransferEntries, b) = tin
    BY <2>1 DEF PostedIn, Moving, TransfersPosted, TransfersIn
  <2>3. PostedOut(transfer, TransferEntries, b) = tout
    BY <2>1 DEF PostedOut, Moving, TransfersPosted, TransfersOut
  <2>4. QED
    BY <2>2, <2>3 DEF NetPosted
<1>6. NetPosted(adjustment, AsEntries, b) = ain - aout
  <2>1. DOMAIN adjustment = Adjustments
    BY DEF OperationsInv, OperationsTypeOK
  <2>2. PostedIn(adjustment, AsEntries, b) = ain
    BY <2>1 DEF PostedIn, Moving, AdjustmentsPosted, AdjustmentsIn, AsEntries
  <2>3. PostedOut(adjustment, AsEntries, b) = aout
    BY <2>1 DEF PostedOut, Moving, AdjustmentsPosted, AdjustmentsOut, AsEntries
  <2>4. QED
    BY <2>2, <2>3 DEF NetPosted
<1>7. CountedIn(b) = cin /\ CountedOut(b) = cout
  BY DEF CountedIn, CountedOut, Moving, CountsPosted, CountsIn, CountsOut
<1>8. TransfersNet(b) = tin - tout /\ AdjustmentsNet(b) = ain - aout /\ CountsNet(b) = cin - cout
  BY DEF TransfersNet, AdjustmentsNet, CountsNet, NetOver
<1>9. OperationsNet(b) = (tin - tout) + (ain - aout) + cin - cout
  BY <1>5, <1>6, <1>7 DEF OperationsNet
<1> HIDE DEF tin, tout, ain, aout, cin, cout
<1>10. QED
  BY <1>2, <1>3, <1>4, <1>8, <1>9


NetsAddUp ==
  \A b \in BalanceKeys :
    /\ TransfersNet(b) \in Int /\ AdjustmentsNet(b) \in Int /\ CountsNet(b) \in Int
    /\ OperationsNet(b) = TransfersNet(b) + AdjustmentsNet(b) + CountsNet(b)

\* Each net is an integer, and that of operations is the sum of the three.
LEMMA NetsSum == OperationsInv /\ PostedAreReady => NetsAddUp
BY OperationsNets DEF NetsAddUp

\* The same of the next state.
LEMMA NetsSumNext == OperationsInv' /\ PostedAreReady' => NetsAddUp'
BY NetsSum, PTL

\* The rows of operations that a step does not write.
LEMMA NetsStay ==
  /\ UNCHANGED transfer => (TransfersReady' <=> TransfersReady) /\ \A b : TransfersNet(b)' = TransfersNet(b)
  /\ UNCHANGED adjustment =>
       (AdjustmentsReady' <=> AdjustmentsReady) /\ \A b : AdjustmentsNet(b)' = AdjustmentsNet(b)
  /\ UNCHANGED count => (CountsReady' <=> CountsReady) /\ \A b : CountsNet(b)' = CountsNet(b)
<1>1. ASSUME UNCHANGED transfer
      PROVE  (TransfersReady' <=> TransfersReady) /\ \A b : TransfersNet(b)' = TransfersNet(b)
  BY <1>1 DEF TransfersReady, TransfersNet, TransfersPosted, TransfersIn, TransfersOut
<1>2. ASSUME UNCHANGED adjustment
      PROVE  (AdjustmentsReady' <=> AdjustmentsReady) /\ \A b : AdjustmentsNet(b)' = AdjustmentsNet(b)
  BY <1>2 DEF AdjustmentsReady, AdjustmentsNet, AdjustmentsPosted, AdjustmentsIn, AdjustmentsOut
<1>3. ASSUME UNCHANGED count
      PROVE  (CountsReady' <=> CountsReady) /\ \A b : CountsNet(b)' = CountsNet(b)
  BY <1>3 DEF CountsReady, CountsNet, CountsPosted, CountsIn, CountsOut, CountEntries
<1>4. QED
  BY <1>1, <1>2, <1>3

\* A command of operations moves what it adds to the posted documents.
LEMMA OperationsExplain ==
  ASSUME StockTypeOK, OperationsInv, OperationsInv', PostedAreReady, OperationsNext
  PROVE  /\ PostedAreReady'
         /\ \A b \in BalanceKeys : balance'[b].onHand - OperationsNet(b)' =
                                     balance[b].onHand - OperationsNet(b)
<1>1. NetsAddUp /\ TransfersReady /\ AdjustmentsReady /\ CountsReady
  BY NetsSum DEF PostedAreReady
<1>2. \/ /\ UNCHANGED <<adjustment, count>> /\ TransfersReady'
         /\ \A b \in BalanceKeys : balance'[b].onHand - TransfersNet(b)' = balance[b].onHand - TransfersNet(b)
      \/ /\ UNCHANGED <<transfer, count>> /\ AdjustmentsReady'
         /\ \A b \in BalanceKeys : balance'[b].onHand - AdjustmentsNet(b)' = balance[b].onHand - AdjustmentsNet(b)
      \/ /\ UNCHANGED <<transfer, adjustment>> /\ CountsReady'
         /\ \A b \in BalanceKeys : balance'[b].onHand - CountsNet(b)' = balance[b].onHand - CountsNet(b)
  <2>1. ASSUME NEW t \in Transfers,
               \/ \E lines \in LinesOfLength(TransferLine) : CreateTransfer(t, lines) \/ ReviseTransfer(t, lines)
               \/ ReadyTransfer(t) \/ CancelTransfer(t) \/ PostTransfer(t) \/ ReverseTransfer(t)
        PROVE  /\ UNCHANGED <<adjustment, count>> /\ TransfersReady'
               /\ \A b \in BalanceKeys : balance'[b].onHand - TransfersNet(b)' = balance[b].onHand - TransfersNet(b)
    <3>1. UNCHANGED <<adjustment, count>>
      BY <2>1 DEF CreateTransfer, ReviseTransfer, ReadyTransfer, CancelTransfer, PostTransfer,
                  ReverseTransfer, MoveTransfer
    <3>2. QED
      BY <1>1, <2>1, <3>1, TransferExplains
  <2>2. ASSUME NEW a \in Adjustments,
               \/ \E lines \in LinesOfLength(AdjustmentLine) :
                    CreateAdjustment(a, lines) \/ ReviseAdjustment(a, lines)
               \/ ReadyAdjustment(a) \/ CancelAdjustment(a) \/ PostAdjustment(a) \/ ReverseAdjustment(a)
        PROVE  /\ UNCHANGED <<transfer, count>> /\ AdjustmentsReady'
               /\ \A b \in BalanceKeys : balance'[b].onHand - AdjustmentsNet(b)' = balance[b].onHand - AdjustmentsNet(b)
    <3>1. UNCHANGED <<transfer, count>>
      BY <2>2 DEF CreateAdjustment, ReviseAdjustment, ReadyAdjustment, CancelAdjustment, PostAdjustment,
                  ReverseAdjustment, Adjust
    <3>2. QED
      BY <1>1, <2>2, <3>1, AdjustmentExplains
  <2>3. ASSUME NEW c \in Counts,
               \/ \E bs \in CountableSets : CreateCount(c, bs)
               \/ \E bs \in SUBSET DOMAIN count[c].recorded :
                    \E quantities \in [bs -> 0..MaxCounted] : ReviseCount(c, quantities)
               \/ SubmitCount(c) \/ ReviewCount(c) \/ CancelCount(c) \/ PostCount(c)
        PROVE  /\ UNCHANGED <<transfer, adjustment>> /\ CountsReady'
               /\ \A b \in BalanceKeys : balance'[b].onHand - CountsNet(b)' = balance[b].onHand - CountsNet(b)
    <3>1. UNCHANGED <<transfer, adjustment>>
      BY <2>3 DEF CreateCount, ReviseCount, SubmitCount, ReviewCount, CancelCount, PostCount
    <3>2. QED
      BY <1>1, <2>3, <3>1, CountExplains
  <2>4. QED
    BY <2>1, <2>2, <2>3 DEF OperationsNext
<1>3. PostedAreReady'
  BY <1>1, <1>2, NetsStay DEF PostedAreReady
<1>4. NetsAddUp'
  BY <1>3, NetsSumNext
<1>5. \A b \in BalanceKeys : balance[b].onHand \in Int
  BY DEF StockTypeOK, BalanceRow
<1>6. ASSUME NEW b \in BalanceKeys
      PROVE  balance'[b].onHand - OperationsNet(b)' = balance[b].onHand - OperationsNet(b)
  <2>1. /\ TransfersNet(b) \in Int /\ AdjustmentsNet(b) \in Int /\ CountsNet(b) \in Int
        /\ TransfersNet(b)' \in Int /\ AdjustmentsNet(b)' \in Int /\ CountsNet(b)' \in Int
        /\ OperationsNet(b) = TransfersNet(b) + AdjustmentsNet(b) + CountsNet(b)
        /\ OperationsNet(b)' = TransfersNet(b)' + AdjustmentsNet(b)' + CountsNet(b)'
    BY <1>1, <1>4 DEF NetsAddUp
  <2>2. \/ /\ AdjustmentsNet(b)' = AdjustmentsNet(b) /\ CountsNet(b)' = CountsNet(b)
           /\ balance'[b].onHand - TransfersNet(b)' = balance[b].onHand - TransfersNet(b)
        \/ /\ TransfersNet(b)' = TransfersNet(b) /\ CountsNet(b)' = CountsNet(b)
           /\ balance'[b].onHand - AdjustmentsNet(b)' = balance[b].onHand - AdjustmentsNet(b)
        \/ /\ TransfersNet(b)' = TransfersNet(b) /\ AdjustmentsNet(b)' = AdjustmentsNet(b)
           /\ balance'[b].onHand - CountsNet(b)' = balance[b].onHand - CountsNet(b)
    BY <1>2, NetsStay
  <2>3. balance'[b].onHand \in Int
    BY DEF OperationsInv, OperationsTypeOK, StockTypeOK, BalanceRow
  <2> DEFINE x == balance[b].onHand
             y == balance'[b].onHand
  <2>4. x \in Int /\ y \in Int
    BY <1>5, <2>3
  <2>5. QED
    BY <2>1, <2>2, <2>4
<1>7. QED
  BY <1>3, <1>6

-----------------------------------------------------------------------------
\* Every unit on hand has a document: returns

PostedReturns == {p \in ReturnPostings : Posted(p)}

\* What a posting moves is what its row and its authorization say, and they stand.
Stands(p) ==
  LET a == posting[p].authorization
  IN  /\ posting'[p].authorization = a
      /\ posting'[p].quantity = posting[p].quantity
      /\ posting'[p].key = posting[p].key
      /\ authorization'[a].quantity = authorization[a].quantity
      /\ authorization'[a].route = authorization[a].route

\* A posting that stands moves the same units of the same rows as before.
LEMMA MovedStands ==
  ASSUME NEW p, Stands(p)
  PROVE  /\ \A b, routes : MovedBy(p, b, routes)' = MovedBy(p, b, routes)
         /\ Kind(posting[p].authorization)' = Kind(posting[p].authorization)
<1>1. \A b, routes : MovedBy(p, b, routes)' = MovedBy(p, b, routes)
  BY DEF Stands, MovedBy, LinesIn
<1>2. Kind(posting[p].authorization)' = Kind(posting[p].authorization)
  BY DEF Stands, Kind, IsRelease, LinesIn
<1>3. QED
  BY <1>1, <1>2

\* A command that neither posts nor reverses a return.
NothingReturned ==
  /\ UNCHANGED <<stockVars, quarantineVars>>
  /\ PostedReturns' = PostedReturns
  /\ \A p \in PostedReturns : Stands(p) /\ posting'[p] = posting[p]

\* The commands about authorizations write none of a posted return.
LEMMA GovernanceStands ==
  ASSUME ReturnsInv, GovernanceNext, UNCHANGED quarantineVars
  PROVE  NothingReturned
<1>1. /\ UNCHANGED stockVars /\ UNCHANGED posting
  <2>1. UNCHANGED posting
    BY DEF GovernanceNext, CreateRequest, ReviseRequest, SubmitRequest, CancelRequest, AuthorizeRequest,
           RejectRequest, CancelAuthorization, ExpireAuthorization, CloseAuthorization, PassDeadline, ReverseSource
  <2>2. QED
    BY <2>1, GovernanceStep
<1>2. \A p \in PostedReturns : LET a == posting[p].authorization
                               IN  a \in ReturnAuthorizations /\ authorization[a].status # "none"
  BY DEF PostedReturns, Posted, ReturnsInv, PostingsAreNamed, Authorized
<1>3. ASSUME NEW a \in ReturnAuthorizations, authorization[a].status # "none"
      PROVE  /\ authorization'[a].quantity = authorization[a].quantity
             /\ authorization'[a].route = authorization[a].route
  <2>1. \A z \in ReturnAuthorizations : authorization[z] \in AuthorizationRow
    BY DEF ReturnsInv
  <2>2. authorization \in [ReturnAuthorizations -> AuthorizationRow]
    BY DEF ReturnsInv
  <2>3. CASE UNCHANGED authorization
    BY <2>3
  <2>4. ASSUME NEW r, NEW z \in ReturnAuthorizations,
               \/ \E asked, deadline, route : AuthorizeRequest(r, z, asked, route, deadline)
               \/ RejectRequest(r, z)
        PROVE  /\ authorization'[a].quantity = authorization[a].quantity
               /\ authorization'[a].route = authorization[a].route
    <3>1. authorization[z].status = "none" /\ z # a
      BY <1>3, <2>4 DEF AuthorizeRequest, RejectRequest
    <3>2. authorization'[a] = authorization[a]
      BY <2>2, <2>4, <3>1 DEF AuthorizeRequest, RejectRequest
    <3>3. QED
      BY <3>2
  <2>5. ASSUME NEW z \in ReturnAuthorizations,
               CancelAuthorization(z) \/ ExpireAuthorization(z) \/ PassDeadline(z)
        PROVE  /\ authorization'[a].quantity = authorization[a].quantity
               /\ authorization'[a].route = authorization[a].route
    BY <2>1, <2>2, <2>5
       DEF CancelAuthorization, ExpireAuthorization, CloseAuthorization, PassDeadline, AuthorizationRow
  <2>6. QED
    BY <2>3, <2>4, <2>5
       DEF GovernanceNext, CreateRequest, ReviseRequest, SubmitRequest, CancelRequest, ReverseSource
<1>4. QED
  BY <1>1, <1>2, <1>3 DEF NothingReturned, Stands, PostedReturns, Posted

\* The commands about a draft write none of a posted return.
LEMMA DraftsStand ==
  ASSUME ReturnsInv, NEW p \in ReturnPostings, NEW kind,
         \/ \E a, asked, key : CreateReturnDraft(kind, p, a, asked, key)
         \/ \E asked, key : ReviseReturnDraft(kind, p, asked, key)
         \/ ReadyReturn(kind, p) \/ CancelReturn(kind, p)
  PROVE  NothingReturned
<1>1. /\ UNCHANGED <<governanceVars, stockVars, quarantineVars>>
      /\ posting[p].postingStatus # "posted"
  BY DEF CreateReturnDraft, ReviseReturnDraft, ReadyReturn, CancelReturn, OpenReturn
<1>2. /\ posting \in [ReturnPostings -> PostingRow]
      /\ posting[p] \in PostingRow
  BY DEF ReturnsInv
<1>3. /\ posting'[p].postingStatus # "posted"
      /\ \A q \in ReturnPostings : q # p => posting'[q] = posting[q]
  <2>1. ASSUME NEW a, NEW asked, NEW key, CreateReturnDraft(kind, p, a, asked, key)
        PROVE  posting'[p].postingStatus # "posted" /\ \A q \in ReturnPostings : q # p => posting'[q] = posting[q]
    BY <1>2, <2>1 DEF CreateReturnDraft, NoPosting
  <2>2. ASSUME NEW asked, NEW key, ReviseReturnDraft(kind, p, asked, key)
        PROVE  posting'[p].postingStatus # "posted" /\ \A q \in ReturnPostings : q # p => posting'[q] = posting[q]
    BY <1>1, <1>2, <2>2 DEF ReviseReturnDraft, PostingRow
  <2>3. ASSUME ReadyReturn(kind, p) \/ CancelReturn(kind, p)
        PROVE  posting'[p].postingStatus # "posted" /\ \A q \in ReturnPostings : q # p => posting'[q] = posting[q]
    BY <1>1, <1>2, <2>3 DEF ReadyReturn, CancelReturn, PostingRow
  <2>4. QED
    BY <2>1, <2>2, <2>3
<1>4. PostedReturns' = PostedReturns /\ \A q \in PostedReturns : q \in ReturnPostings /\ posting'[q] = posting[q]
  BY <1>1, <1>3 DEF PostedReturns, Posted
<1>5. QED
  BY <1>1, <1>4 DEF NothingReturned, Stands, governanceVars

\* Whatever else returns do, posts one return or reverses it.
LEMMA ReturnsCommands ==
  ASSUME ReturnsInv, ReturnsNext
  PROVE  \/ NothingReturned
         \/ \E p \in ReturnPostings : \E kind \in {CustomerReturn, Release, SupplierReturn} :
              PostReturn(kind, p) \/ ReverseReturn(kind, p)
<1>1. CASE GovernanceNext /\ UNCHANGED quarantineVars
  BY <1>1, GovernanceStands
<1>2. ASSUME NEW p \in ReturnPostings, NEW asked, NEW key, DraftNext(p, asked, key)
      PROVE  NothingReturned
  <2>1. \E kind : \/ \E a : CreateReturnDraft(kind, p, a, asked, key)
                  \/ ReviseReturnDraft(kind, p, asked, key)
    BY <1>2 DEF DraftNext, CreateCustomerReturnDraft, CreateReleaseDraft, CreateSupplierReturnDraft,
                ReviseCustomerReturnDraft, ReviseReleaseDraft, ReviseSupplierReturnDraft
  <2>2. QED
    BY <2>1, DraftsStand
<1>3. ASSUME NEW p \in ReturnPostings, NEW kind, ReadyReturn(kind, p) \/ CancelReturn(kind, p)
      PROVE  NothingReturned
  BY <1>3, DraftsStand
<1>4. QED
  BY <1>1, <1>2, <1>3
     DEF ReturnsNext, PostingNext, ReadyCustomerReturn, CancelCustomerReturn, PostCustomerReturn,
         ReverseCustomerReturn, ReadyRelease, CancelRelease, PostRelease, ReverseRelease,
         ReadySupplierReturn, CancelSupplierReturn, PostSupplierReturn, ReverseSupplierReturn

\* A posting or a reversal writes one return and leaves what all of them say.
LEMMA ReturnWritten ==
  ASSUME ReturnsInv, NEW p \in ReturnPostings, NEW kind, PostReturn(kind, p) \/ ReverseReturn(kind, p)
  PROVE  /\ \A q \in ReturnPostings : posting[q].postingStatus # "none" => Stands(q)
         /\ \A q \in ReturnPostings \ {p} : posting'[q] = posting[q]
         /\ posting[p].postingStatus # "none"
         /\ PostReturn(kind, p) => p \notin PostedReturns /\ PostedReturns' = PostedReturns \cup {p}
         /\ ReverseReturn(kind, p) => p \in PostedReturns /\ PostedReturns' = PostedReturns \ {p}
<1> DEFINE a == posting[p].authorization
<1>1. posting \in [ReturnPostings -> PostingRow] /\ posting[p] \in PostingRow
  BY DEF ReturnsInv
<1>2. /\ PostReturn(kind, p) => posting[p].postingStatus = "unposted"
      /\ ReverseReturn(kind, p) => posting[p].postingStatus = "posted"
  BY DEF PostReturn, OpenReturn, ReverseReturn, Posted
<1>3. a \in ReturnAuthorizations
  BY <1>2 DEF ReturnsInv, PostingsAreNamed, Authorized
<1>4. AuthorizationsStand
  <2>1. PICK executed : WriteStatuses(a, executed)
    BY DEF PostReturn, ReverseReturn
  <2> HIDE DEF a
  <2>2. QED
    BY <1>3, <2>1, StatusesWritten
<1>5. /\ \A q \in ReturnPostings \ {p} : posting'[q] = posting[q]
      /\ posting'[p].authorization = a
      /\ posting'[p].quantity = posting[p].quantity
      /\ posting'[p].key = posting[p].key
      /\ PostReturn(kind, p) => posting'[p].postingStatus = "posted"
      /\ ReverseReturn(kind, p) => posting'[p].postingStatus = "reversed"
  <2>1. CASE PostReturn(kind, p)
    <3> DEFINE occurred == IF kind = "customer_return_receipt" THEN NextOccurrence ELSE 0
               after == [b \in BalanceKeys |-> IF StockIn(p, b) > 0 THEN balance'[b] ELSE None]
               posted == [posting[p] EXCEPT !.postingStatus = "posted"]
               dated == [posted EXCEPT !.occurredAt = occurred]
               row == [dated EXCEPT !.destinationAfter = after]
    <3>1. posting' = [posting EXCEPT ![p] = row]
      BY <1>1, <2>1 DEF PostReturn
    <3> HIDE DEF occurred, after
    <3>2. /\ row.authorization = a /\ row.quantity = posting[p].quantity
          /\ row.key = posting[p].key /\ row.postingStatus = "posted"
      BY <1>1 DEF PostingRow
    <3> HIDE DEF row
    <3>3. QED
      BY <1>1, <1>2, <2>1, <3>1, <3>2
  <2>2. CASE ReverseReturn(kind, p)
    <3>1. posting' = [posting EXCEPT ![p].postingStatus = "reversed"]
      BY <2>2 DEF ReverseReturn
    <3>2. QED
      BY <1>1, <1>2, <2>2, <3>1 DEF PostingRow
  <2>3. QED
    BY <2>1, <2>2
<1>6. ASSUME NEW q \in ReturnPostings, posting[q].postingStatus # "none" PROVE Stands(q)
  <2>1. posting[q].authorization \in ReturnAuthorizations
    BY <1>6 DEF ReturnsInv, PostingsAreNamed, Authorized
  <2>2. QED
    BY <1>4, <1>5, <2>1 DEF Stands, AuthorizationsStand
<1>7. PostReturn(kind, p) => p \notin PostedReturns /\ PostedReturns' = PostedReturns \cup {p}
  BY <1>2, <1>5 DEF PostedReturns, Posted
<1>8. ReverseReturn(kind, p) => p \in PostedReturns /\ PostedReturns' = PostedReturns \ {p}
  BY <1>2, <1>5 DEF PostedReturns, Posted
<1>9. QED
  BY <1>2, <1>5, <1>6, <1>7, <1>8


ReturnsIn(b) == [p \in ReturnPostings |-> StockIn(p, b)]
ReturnsOut(b) == [p \in ReturnPostings |-> StockOut(p, b)]
ReturnsNet(b) == NetOver(ReturnPostings, PostedReturns, ReturnsIn(b), ReturnsOut(b))

\* What is written on hand is what the posting brings and takes.
LEMMA GoodsWritten ==
  ASSUME StockTypeOK, ReturnsInv, NEW p \in ReturnPostings, NEW sign \in {1, -1}, MoveGoods(p, sign),
         NEW b \in BalanceKeys
  PROVE  /\ StockIn(p, b) \in Nat /\ StockOut(p, b) \in Nat /\ balance[b].onHand \in Int
         /\ balance'[b].onHand = balance[b].onHand + sign * (StockIn(p, b) - StockOut(p, b))
<1>1. StockIn(p, b) \in Nat /\ StockOut(p, b) \in Nat /\ balance[b].onHand \in Int /\ balance[b] \in BalanceRow
  BY MovedLines DEF StockIn, StockOut, StockTypeOK, BalanceRow
<1> DEFINE move == sign * (StockIn(p, b) - StockOut(p, b))
<1>2. CASE StockIn(p, b) + StockOut(p, b) = 0
  <2>1. balance'[b] = balance[b]
    BY <1>2 DEF MoveGoods
  <2>2. move = 0
    BY <1>1, <1>2
  <2> HIDE DEF move
  <2>3. balance'[b].onHand = balance[b].onHand + move
    BY <1>1, <2>1, <2>2
  <2>4. QED
    BY <1>1, <2>3 DEF move
<1>3. CASE StockIn(p, b) + StockOut(p, b) # 0
  <2>1. balance'[b] = [balance[b] EXCEPT !.onHand = @ + move, !.available = @ + move, !.version = @ + 1]
    BY <1>3 DEF MoveGoods
  <2> HIDE DEF move
  <2>2. balance'[b].onHand = balance[b].onHand + move
    BY <1>1, <2>1 DEF BalanceRow
  <2>3. QED
    BY <1>1, <2>2 DEF move
<1>4. QED
  BY <1>2, <1>3

\* What postings that stand move, before and after.
LEMMA ReturnsAgree ==
  ASSUME ReturnsInv, NEW S \in SUBSET ReturnPostings, \A q \in S : Stands(q), NEW b
  PROVE  /\ Agree(S, ReturnsIn(b), ReturnsIn(b)') /\ Agree(S, ReturnsOut(b), ReturnsOut(b)')
         /\ Agree(S, ReturnsIn(b)', ReturnsIn(b)) /\ Agree(S, ReturnsOut(b)', ReturnsOut(b))
<1>1. ASSUME NEW q \in S
      PROVE  /\ ReturnsIn(b)[q] \in Nat /\ ReturnsOut(b)[q] \in Nat
             /\ ReturnsIn(b)'[q] = ReturnsIn(b)[q] /\ ReturnsOut(b)'[q] = ReturnsOut(b)[q]
  <2>1. \A routes : MovedBy(q, b, routes)' = MovedBy(q, b, routes) /\ MovedBy(q, b, routes) \in Nat
    BY MovedStands, MovedLines
  <2>2. /\ StockIn(q, b)' = StockIn(q, b) /\ StockIn(q, b) \in Nat
        /\ StockOut(q, b)' = StockOut(q, b) /\ StockOut(q, b) \in Nat
    BY <2>1 DEF StockIn, StockOut
  <2>3. /\ ReturnsIn(b)[q] = StockIn(q, b) /\ ReturnsOut(b)[q] = StockOut(q, b)
        /\ ReturnsIn(b)'[q] = StockIn(q, b)' /\ ReturnsOut(b)'[q] = StockOut(q, b)'
    BY DEF ReturnsIn, ReturnsOut
  <2>4. QED
    BY <2>2, <2>3
<1>2. QED
  BY <1>1 DEF Agree

\* A command of returns moves what it adds to the posted returns.
LEMMA ReturnsExplain ==
  ASSUME StockTypeOK, ReturnsInv, ReturnsNext
  PROVE  \A b \in BalanceKeys : balance'[b].onHand - ReturnsNet(b)' = balance[b].onHand - ReturnsNet(b)
<1> DEFINE Explained == \A b \in BalanceKeys : balance'[b].onHand - ReturnsNet(b)' =
                                               balance[b].onHand - ReturnsNet(b)
<1>1. ASSUME NEW b PROVE ReturnsNet(b)' = NetOver(ReturnPostings, PostedReturns', ReturnsIn(b)', ReturnsOut(b)')
  BY DEF ReturnsNet
<1>2. PostedReturns \in SUBSET ReturnPostings /\ PostedReturns \subseteq ReturnPostings
      /\ \A q \in PostedReturns : q \in ReturnPostings /\ posting[q].postingStatus # "none"
  BY DEF PostedReturns, Posted
<1>3. IsFiniteSet(ReturnPostings)
  BY ReturnAssumption
<1>4. ASSUME NothingReturned PROVE Explained
  <2>1. UNCHANGED balance /\ PostedReturns' = PostedReturns
    BY <1>4 DEF NothingReturned, stockVars
  <2>2. ASSUME NEW b PROVE ReturnsNet(b)' = ReturnsNet(b)
    <3>1. /\ Agree(PostedReturns, ReturnsIn(b), ReturnsIn(b)')
          /\ Agree(PostedReturns, ReturnsOut(b), ReturnsOut(b)')
      BY <1>2, <1>4, ReturnsAgree DEF NothingReturned
    <3>2. NetOver(ReturnPostings, PostedReturns, ReturnsIn(b)', ReturnsOut(b)') = ReturnsNet(b)
      BY <1>2, <3>1, NetSame DEF ReturnsNet
    <3>3. QED
      BY <1>1, <2>1, <3>2
  <2>3. QED
    BY <2>1, <2>2
<1>5. ASSUME NEW p \in ReturnPostings, NEW kind, PostReturn(kind, p) PROVE Explained
  <2>1. /\ \A q \in PostedReturns \cup {p} : q \in ReturnPostings /\ Stands(q)
        /\ p \notin PostedReturns /\ PostedReturns' = PostedReturns \cup {p}
    BY <1>2, <1>5, ReturnWritten
  <2>2. MoveGoods(p, 1)
    BY <1>5 DEF PostReturn
  <2>3. ASSUME NEW b \in BalanceKeys
        PROVE  balance'[b].onHand - ReturnsNet(b)' = balance[b].onHand - ReturnsNet(b)
    <3>1. /\ StockIn(p, b) \in Nat /\ StockOut(p, b) \in Nat /\ balance[b].onHand \in Int
          /\ balance'[b].onHand = balance[b].onHand + 1 * (StockIn(p, b) - StockOut(p, b))
      BY <2>2, GoodsWritten
    <3>2. ReturnsIn(b)[p] = StockIn(p, b) /\ ReturnsOut(b)[p] = StockOut(p, b)
      BY DEF ReturnsIn, ReturnsOut
    <3> DEFINE S == PostedReturns \cup {p}
    <3>3. S \in SUBSET ReturnPostings /\ \A q \in S : Stands(q)
      BY <2>1
    <3> HIDE DEF S
    <3>4. Agree(S, ReturnsIn(b), ReturnsIn(b)') /\ Agree(S, ReturnsOut(b), ReturnsOut(b)')
      BY <3>3, ReturnsAgree
    <3>5. ReturnsIn(b)'[p] = StockIn(p, b) /\ ReturnsOut(b)'[p] = StockOut(p, b)
      BY <3>2, <3>4 DEF Agree, S
    <3>6. /\ OneMore(ReturnPostings, PostedReturns, p, ReturnsIn(b), ReturnsIn(b)')
          /\ OneMore(ReturnPostings, PostedReturns, p, ReturnsOut(b), ReturnsOut(b)')
      BY <1>2, <1>3, <2>1, <3>1, <3>4, <3>5 DEF OneMore, Agree, S
    <3>7. /\ ReturnsNet(b) \in Int
          /\ NetOver(ReturnPostings, PostedReturns \cup {p}, ReturnsIn(b)', ReturnsOut(b)') =
               ReturnsNet(b) + ReturnsIn(b)'[p] - ReturnsOut(b)'[p]
      BY <3>6, NetJoins DEF ReturnsNet
    <3>8. ReturnsNet(b)' = ReturnsNet(b) + StockIn(p, b) - StockOut(p, b)
      BY <1>1, <2>1, <3>5, <3>7
    <3>9. QED
      BY <3>1, <3>7, <3>8
  <2>4. QED
    BY <2>3
<1>6. ASSUME NEW p \in ReturnPostings, NEW kind, ReverseReturn(kind, p) PROVE Explained
  <2>1. /\ \A q \in PostedReturns : Stands(q)
        /\ p \in PostedReturns /\ PostedReturns' = PostedReturns \ {p}
    BY <1>2, <1>6, ReturnWritten
  <2>2. MoveGoods(p, -1)
    BY <1>6 DEF ReverseReturn
  <2>3. ASSUME NEW b \in BalanceKeys
        PROVE  balance'[b].onHand - ReturnsNet(b)' = balance[b].onHand - ReturnsNet(b)
    <3>1. /\ StockIn(p, b) \in Nat /\ StockOut(p, b) \in Nat /\ balance[b].onHand \in Int
          /\ balance'[b].onHand = balance[b].onHand + (-1) * (StockIn(p, b) - StockOut(p, b))
      BY <2>2, GoodsWritten
    <3>2. ReturnsIn(b)[p] = StockIn(p, b) /\ ReturnsOut(b)[p] = StockOut(p, b)
      BY DEF ReturnsIn, ReturnsOut
    <3>3. Agree(PostedReturns, ReturnsIn(b)', ReturnsIn(b)) /\ Agree(PostedReturns, ReturnsOut(b)', ReturnsOut(b))
      BY <1>2, <2>1, ReturnsAgree
    <3>4. /\ OneMore(ReturnPostings, PostedReturns \ {p}, p, ReturnsIn(b)', ReturnsIn(b))
          /\ OneMore(ReturnPostings, PostedReturns \ {p}, p, ReturnsOut(b)', ReturnsOut(b))
      BY <1>2, <1>3, <2>1, <3>1, <3>2, <3>3 DEF OneMore, Agree
    <3>5. /\ ReturnsNet(b) \in Int
          /\ NetOver(ReturnPostings, PostedReturns \ {p}, ReturnsIn(b)', ReturnsOut(b)') =
               ReturnsNet(b) - ReturnsIn(b)[p] + ReturnsOut(b)[p]
      BY <2>1, <3>4, NetLeaves DEF ReturnsNet
    <3>6. ReturnsNet(b)' = ReturnsNet(b) - StockIn(p, b) + StockOut(p, b)
      BY <1>1, <2>1, <3>2, <3>5
    <3>7. QED
      BY <3>1, <3>5, <3>6
  <2>4. QED
    BY <2>3
<1>7. QED
  BY <1>4, <1>5, <1>6, ReturnsCommands

-----------------------------------------------------------------------------
\* Every unit on hand has a document: everyone together

(***************************************************************************)
(* What FlowInv lacks for StockIsExplained: documents that stand posted    *)
(* keep their lines.                                                       *)
(***************************************************************************)
StockExplained ==
  \A b \in BalanceKeys :
    balance[b].onHand =
      OpeningStock[b] + Total(PostedInto(b)) + OperationsNet(b) + ReturnsNet(b) - AtKey(Consumed, b)

\* The sums are numbers.
SumsAreNumbers ==
  \A b \in BalanceKeys :
    /\ Total(PostedInto(b)) \in Nat /\ AtKey(Consumed, b) \in Nat
    /\ OperationsNet(b) \in Int
    /\ Total(Moving(ReturnPostings, PostedReturns, ReturnsIn(b))) \in Nat
    /\ Total(Moving(ReturnPostings, PostedReturns, ReturnsOut(b))) \in Nat
    /\ balance[b].onHand \in Int /\ OpeningStock[b] \in Nat

\* The invariant makes every sum of the equation a number.
LEMMA FlowSums == FlowInv /\ PostedAreReady => SumsAreNumbers
<1> SUFFICES ASSUME FlowInv, PostedAreReady, NEW b \in BalanceKeys
             PROVE  /\ Total(PostedInto(b)) \in Nat /\ AtKey(Consumed, b) \in Nat
                    /\ OperationsNet(b) \in Int
                    /\ Total(Moving(ReturnPostings, PostedReturns, ReturnsIn(b))) \in Nat
                    /\ Total(Moving(ReturnPostings, PostedReturns, ReturnsOut(b))) \in Nat
                    /\ balance[b].onHand \in Int /\ OpeningStock[b] \in Nat
  BY DEF SumsAreNumbers
<1>1. /\ SalesInv /\ OrdersInv /\ OperationsInv /\ ReturnsInv /\ ReceivingTypeOK
      /\ reservation \in [Reservations -> ReservationRow] /\ StockTypeOK
  BY DEF FlowInv, SalesInv, OutboundTypeOK, OrdersInv
<1>2. Total(PostedInto(b)) \in Nat
  BY <1>1, PostedNat
<1>3. AtKey(Consumed, b) \in Nat
  <2>1. Consumed \in [Reservations -> Nat]
    BY <1>1, HoldsNat DEF SalesInv
  <2>2. QED
    BY <2>1, SumsNat, OutboundAssumption
<1>4. OperationsNet(b) \in Int
  <2>1. NetsAddUp
    BY <1>1, NetsSum
  <2>2. QED
    BY <2>1 DEF NetsAddUp
<1>5. /\ Total(Moving(ReturnPostings, PostedReturns, ReturnsIn(b))) \in Nat
      /\ Total(Moving(ReturnPostings, PostedReturns, ReturnsOut(b))) \in Nat
  <2>1. \A p \in ReturnPostings : ReturnsIn(b)[p] \in Nat /\ ReturnsOut(b)[p] \in Nat
    BY <1>1, MovedLines DEF ReturnsIn, ReturnsOut, StockIn, StockOut
  <2>2. /\ Moving(ReturnPostings, PostedReturns, ReturnsIn(b)) \in [ReturnPostings -> Nat]
        /\ Moving(ReturnPostings, PostedReturns, ReturnsOut(b)) \in [ReturnPostings -> Nat]
    BY <2>1 DEF Moving
  <2>3. QED
    BY <2>2, TotalNat, ReturnAssumption
<1>6. balance[b].onHand \in Int /\ OpeningStock[b] \in Nat
  BY <1>1, StockAssumption DEF StockTypeOK, BalanceRow
<1>7. QED
  BY <1>2, <1>3, <1>4, <1>5, <1>6

\* The same of the next state.
LEMMA FlowSumsNext == FlowInv' /\ PostedAreReady' => SumsAreNumbers'
BY FlowSums, PTL

\* It is what StockIsExplained says.
LEMMA ExplainedRestated == SumsAreNumbers => (StockIsExplained <=> StockExplained)
<1> SUFFICES ASSUME SumsAreNumbers PROVE StockIsExplained <=> StockExplained
  OBVIOUS
<1>1. ASSUME NEW b \in BalanceKeys
      PROVE  OpeningStock[b] + Total(PostedInto(b)) + OperationsNet(b)
               + PostedTotal(LAMBDA p : StockIn(p, b)) - PostedTotal(LAMBDA p : StockOut(p, b))
               - AtKey(Consumed, b)
             = OpeningStock[b] + Total(PostedInto(b)) + OperationsNet(b) + ReturnsNet(b) - AtKey(Consumed, b)
  <2> DEFINE in == Total(Moving(ReturnPostings, PostedReturns, ReturnsIn(b)))
             out == Total(Moving(ReturnPostings, PostedReturns, ReturnsOut(b)))
  <2>1. PostedTotal(LAMBDA p : StockIn(p, b)) = in
    BY DEF PostedTotal, Moving, PostedReturns, ReturnsIn
  <2>2. PostedTotal(LAMBDA p : StockOut(p, b)) = out
    BY DEF PostedTotal, Moving, PostedReturns, ReturnsOut
  <2>3. ReturnsNet(b) = in - out
    BY DEF ReturnsNet, NetOver
  <2>4. /\ in \in Nat /\ out \in Nat
        /\ Total(PostedInto(b)) \in Nat /\ AtKey(Consumed, b) \in Nat
        /\ OperationsNet(b) \in Int /\ OpeningStock[b] \in Nat
    BY DEF SumsAreNumbers
  <2> HIDE DEF in, out
  <2>5. QED
    BY <2>1, <2>2, <2>3, <2>4
<1>2. QED
  BY <1>1 DEF StockIsExplained, StockExplained

\* Documents nobody writes count for what they did.
LEMMA SumsStay ==
  /\ UNCHANGED receivingVars => \A b : Total(PostedInto(b))' = Total(PostedInto(b))
  /\ UNCHANGED outboundVars => \A b : AtKey(Consumed, b)' = AtKey(Consumed, b)
  /\ UNCHANGED operationVars =>
       (PostedAreReady => PostedAreReady') /\ \A b : OperationsNet(b)' = OperationsNet(b)
  /\ UNCHANGED quarantineSide => \A b : ReturnsNet(b)' = ReturnsNet(b)
<1>1. ASSUME UNCHANGED receivingVars PROVE \A b : Total(PostedInto(b))' = Total(PostedInto(b))
  BY <1>1 DEF receivingVars, PostedInto
<1>2. ASSUME UNCHANGED outboundVars PROVE \A b : AtKey(Consumed, b)' = AtKey(Consumed, b)
  BY <1>2 DEF outboundVars, AtKey, Consumed
<1>3. ASSUME UNCHANGED operationVars
      PROVE  (PostedAreReady => PostedAreReady') /\ \A b : OperationsNet(b)' = OperationsNet(b)
  <2>1. UNCHANGED <<transfer, adjustment, count>>
    BY <1>3 DEF operationVars
  <2>2. \A c : CountEntries(c)' = CountEntries(c)
    BY <2>1 DEF CountEntries
  <2>3. \A b : OperationsNet(b)' = OperationsNet(b)
    BY <2>1, <2>2 DEF OperationsNet, NetPosted, PostedIn, PostedOut, CountedIn, CountedOut
  <2>4. QED
    BY <2>1, <2>3, NetsStay DEF PostedAreReady
<1>4. ASSUME UNCHANGED quarantineSide PROVE \A b : ReturnsNet(b)' = ReturnsNet(b)
  <2>1. UNCHANGED <<source, request, authorization, posting>>
    BY <1>4 DEF quarantineSide, governanceVars
  <2>2. \A p, b, routes : MovedBy(p, b, routes)' = MovedBy(p, b, routes)
    BY <2>1 DEF MovedBy, LinesIn
  <2>3. \A p, b : StockIn(p, b)' = StockIn(p, b) /\ StockOut(p, b)' = StockOut(p, b)
    BY <2>2 DEF StockIn, StockOut
  <2>4. \A b : ReturnsIn(b)' = ReturnsIn(b) /\ ReturnsOut(b)' = ReturnsOut(b)
    BY <2>3 DEF ReturnsIn, ReturnsOut
  <2>5. PostedReturns' = PostedReturns
    BY <2>1 DEF PostedReturns, Posted
  <2>6. QED
    BY <2>4, <2>5 DEF ReturnsNet, NetOver
<1>5. QED
  BY <1>1, <1>2, <1>3, <1>4

\* Whoever takes the step, what it brings and takes is what it adds to its documents.
LEMMA ExplainedStep ==
  ASSUME FlowInv, FlowInv', PostedAreReady, StockExplained, [FlowNext]_flowVars
  PROVE  PostedAreReady' /\ StockExplained'
<1>1. /\ SalesInv /\ OrdersInv /\ OperationsInv /\ OperationsInv' /\ ReturnsInv /\ StockTypeOK
  BY DEF FlowInv, SalesInv, OutboundTypeOK
<1> DEFINE receipts == \A b \in BalanceKeys : Total(PostedInto(b))' = Total(PostedInto(b))
           shipments == \A b \in BalanceKeys : AtKey(Consumed, b)' = AtKey(Consumed, b)
           operations == \A b \in BalanceKeys : OperationsNet(b)' = OperationsNet(b)
           returns == \A b \in BalanceKeys : ReturnsNet(b)' = ReturnsNet(b)
<1>2. PostedAreReady' /\
      \/ /\ receipts /\ shipments /\ operations /\ returns
         /\ UNCHANGED balance
      \/ /\ shipments /\ operations /\ returns
         /\ \A b \in BalanceKeys : balance'[b].onHand - Total(PostedInto(b))' =
                                   balance[b].onHand - Total(PostedInto(b))
      \/ /\ receipts /\ operations /\ returns
         /\ \A b \in BalanceKeys : balance'[b].onHand + AtKey(Consumed, b)' =
                                   balance[b].onHand + AtKey(Consumed, b)
      \/ /\ receipts /\ shipments /\ returns
         /\ \A b \in BalanceKeys : balance'[b].onHand - OperationsNet(b)' =
                                   balance[b].onHand - OperationsNet(b)
      \/ /\ receipts /\ shipments /\ operations
         /\ \A b \in BalanceKeys : balance'[b].onHand - ReturnsNet(b)' = balance[b].onHand - ReturnsNet(b)
  <2>1. CASE UNCHANGED flowVars
    <3>1. UNCHANGED <<balance, receivingVars, outboundVars, operationVars, quarantineSide>>
      BY <2>1 DEF flowVars, stockVars
    <3>2. QED
      BY <3>1, SumsStay
  <2>2. CASE ReceivingStep
    <3>1. ReceivingNext /\ UNCHANGED <<outboundVars, operationVars, quarantineSide>>
      BY <2>2 DEF ReceivingStep, ReceivingNext
    <3>2. QED
      BY <1>1, <3>1, ReceiptsExplain, SumsStay
  <2>3. CASE OutboundStep
    <3>1. OutboundNext /\ UNCHANGED <<receivingVars, operationVars, quarantineSide>>
      BY <2>3 DEF OutboundStep, OutboundNext
    <3>2. QED
      BY <1>1, <3>1, ShipmentsExplain, SumsStay
  <2>4. CASE OperationsStep
    <3>1. OperationsNext /\ UNCHANGED <<receivingVars, outboundVars, quarantineSide>>
      BY <2>4 DEF OperationsStep
    <3>2. QED
      BY <1>1, <3>1, OperationsExplain, SumsStay
  <2>5. CASE ReturnsStep
    <3>1. ReturnsNext /\ UNCHANGED <<receivingVars, outboundVars, operationVars>>
      BY <2>5 DEF ReturnsStep
    <3>2. QED
      BY <1>1, <3>1, ReturnsExplain, SumsStay
  <2>6. QED
    BY <2>1, <2>2, <2>3, <2>4, <2>5 DEF FlowNext
<1>3. SumsAreNumbers /\ SumsAreNumbers'
  BY <1>2, FlowSums, FlowSumsNext
<1>4. ASSUME NEW b \in BalanceKeys
      PROVE  balance'[b].onHand = OpeningStock[b] + Total(PostedInto(b))' + OperationsNet(b)'
                                    + ReturnsNet(b)' - AtKey(Consumed, b)'
  <2> DEFINE x == balance[b].onHand
             x2 == balance'[b].onHand
             r == Total(PostedInto(b))
             r2 == Total(PostedInto(b))'
             c == AtKey(Consumed, b)
             c2 == AtKey(Consumed, b)'
  <2>1. /\ x \in Int /\ x2 \in Int /\ r \in Nat /\ r2 \in Nat /\ c \in Nat /\ c2 \in Nat
        /\ OperationsNet(b) \in Int /\ OperationsNet(b)' \in Int /\ OpeningStock[b] \in Nat
    BY <1>3 DEF SumsAreNumbers
  <2>2. ReturnsNet(b) \in Int /\ ReturnsNet(b)' \in Int
    BY <1>3 DEF SumsAreNumbers, ReturnsNet, NetOver
  <2>3. x = OpeningStock[b] + r + OperationsNet(b) + ReturnsNet(b) - c
    BY DEF StockExplained
  <2>4. \/ /\ r2 = r /\ c2 = c /\ OperationsNet(b)' = OperationsNet(b) /\ ReturnsNet(b)' = ReturnsNet(b)
           /\ x2 = x
        \/ /\ c2 = c /\ OperationsNet(b)' = OperationsNet(b) /\ ReturnsNet(b)' = ReturnsNet(b)
           /\ x2 - r2 = x - r
        \/ /\ r2 = r /\ OperationsNet(b)' = OperationsNet(b) /\ ReturnsNet(b)' = ReturnsNet(b)
           /\ x2 + c2 = x + c
        \/ /\ r2 = r /\ c2 = c /\ ReturnsNet(b)' = ReturnsNet(b)
           /\ x2 - OperationsNet(b)' = x - OperationsNet(b)
        \/ /\ r2 = r /\ c2 = c /\ OperationsNet(b)' = OperationsNet(b)
           /\ x2 - ReturnsNet(b)' = x - ReturnsNet(b)
    BY <1>2
  <2> HIDE DEF x, x2, r, r2, c, c2
  <2>5. x2 = OpeningStock[b] + r2 + OperationsNet(b)' + ReturnsNet(b)' - c2
    BY <2>1, <2>2, <2>3, <2>4
  <2>6. QED
    BY <2>5 DEF x2, r2, c2
<1>5. StockExplained'
  BY <1>4 DEF StockExplained
<1>6. QED
  BY <1>2, <1>5

\* At first there is the opening stock and nothing has posted.
LEMMA ExplainedBegin == FlowInit => PostedAreReady /\ StockExplained
<1> SUFFICES ASSUME FlowInit PROVE PostedAreReady /\ StockExplained
  OBVIOUS
<1>1. /\ ReceivingInit /\ OutboundInit /\ OperationsInit /\ ReturnsInit
  BY DEF FlowInit
<1>2. /\ TransfersPosted = {} /\ AdjustmentsPosted = {} /\ CountsPosted = {} /\ PostedReturns = {}
      /\ PostedAreReady
  <2>1. TransfersPosted = {} /\ AdjustmentsPosted = {}
    BY <1>1 DEF OperationsInit, NoOperation, TransfersPosted, AdjustmentsPosted
  <2>2. CountsPosted = {}
    BY <1>1 DEF OperationsInit, NoCount, CountsPosted
  <2>3. PostedReturns = {}
    BY <1>1 DEF ReturnsInit, NoPosting, PostedReturns, Posted
  <2>4. PostedAreReady
    BY <2>1, <2>2 DEF PostedAreReady, TransfersReady, AdjustmentsReady, CountsReady,
                      TransfersPosted, AdjustmentsPosted, CountsPosted
  <2>5. QED
    BY <2>1, <2>2, <2>3, <2>4
<1>3. \A D, in, out : NetOver(D, {}, in, out) = 0
  <2>1. ASSUME NEW D, NEW q PROVE Total(Moving(D, {}, q)) = 0
    <3>1. Moving(D, {}, q) \in [D -> Nat] /\ \A d \in D : Moving(D, {}, q)[d] = 0
      BY DEF Moving
    <3>2. QED
      BY <3>1, TotalZero
  <2>2. QED
    BY <2>1 DEF NetOver
<1>4. ASSUME NEW b \in BalanceKeys
      PROVE  balance[b].onHand = OpeningStock[b] + Total(PostedInto(b)) + OperationsNet(b)
                                   + ReturnsNet(b) - AtKey(Consumed, b)
  <2>1. balance[b].onHand = OpeningStock[b] /\ OpeningStock[b] \in Nat
    BY <1>1, StockAssumption DEF ReceivingInit, StockInit
  <2>2. Total(PostedInto(b)) = 0
    <3>1. PostedInto(b) \in [ReceivingDocuments -> Nat] /\ \A d \in ReceivingDocuments : PostedInto(b)[d] = 0
      BY <1>1 DEF ReceivingInit, NoDocument, PostedInto
    <3>2. QED
      BY <3>1, TotalZero
  <2>3. AtKey(Consumed, b) = 0
    <3>1. Consumed \in [Reservations -> Nat] /\ \A r \in Reservations : Consumed[r] = 0
      BY <1>1 DEF OutboundInit, NoReservation, Consumed
    <3>2. QED
      BY <3>1, SumsZero
  <2>4. OperationsNet(b) = 0
    <3>1. OperationsInv
      BY <1>1, OperationsBegin
    <3>2. OperationsNet(b) = TransfersNet(b) + AdjustmentsNet(b) + CountsNet(b)
      BY <1>2, <3>1, OperationsNets
    <3>3. TransfersNet(b) = 0 /\ AdjustmentsNet(b) = 0 /\ CountsNet(b) = 0
      BY <1>2, <1>3 DEF TransfersNet, AdjustmentsNet, CountsNet
    <3>4. QED
      BY <3>2, <3>3
  <2>5. ReturnsNet(b) = 0
    BY <1>2, <1>3 DEF ReturnsNet
  <2>6. QED
    BY <2>1, <2>2, <2>3, <2>4, <2>5
<1>5. QED
  BY <1>2, <1>4 DEF StockExplained

(***************************************************************************)
(* StockIsExplained: in whatever order receipts, shipments, transfers,     *)
(* adjustments, counts and returns are posted and reversed, the stock of a *)
(* key is its opening stock and what the documents that stand brought.     *)
(***************************************************************************)
THEOREM StockHasDocuments == FlowSpec => []StockIsExplained
<1> DEFINE Inv == FlowInv /\ PostedAreReady /\ StockExplained
<1>1. FlowInit => Inv
  BY FlowBegin, ExplainedBegin
<1>2. Inv /\ [FlowNext]_flowVars => Inv'
  BY FlowNextInv, ExplainedStep
<1>3. Inv => StockIsExplained
  BY FlowSums, ExplainedRestated
<1>4. QED
  BY <1>1, <1>2, <1>3, PTL DEF FlowSpec
=============================================================================
