------------------------------ MODULE Receiving ------------------------------
(***************************************************************************)
(* Purchase orders and the receiving documents posted against them: the    *)
(* approval of an order, the mobile receiving drafts, the posting of a     *)
(* document to stock and its reversal.                                     *)
(*                                                                         *)
(* Each action is the commit of one serializable transaction; a command    *)
(* that fails changes nothing and is no step.  The versions of orders,     *)
(* lines and documents are left out: inside one transaction they compare   *)
(* what the same transaction read, and a caller holding an old version is  *)
(* refused (CommandExecution has the stale and concurrent callers).        *)
(***************************************************************************)
EXTENDS StockBalance, Sequences

CONSTANTS
  PurchaseOrders, PoLines,
  PoOf,             \* the purchase order of a line
  PoLineItem,       \* the item a line orders
  Ordered,          \* orderedQuantity of a line
  Imported,         \* receivedQuantity a line was imported with
  ReceivingDocuments,
  MaxReceivingLines  \* bound on the lines of one receiving document

ASSUME ReceivingAssumption ==
  /\ IsFiniteSet(PoLines)
  /\ IsFiniteSet(ReceivingDocuments)
  /\ PoOf \in [PoLines -> PurchaseOrders]
  /\ Ordered \in [PoLines -> Nat \ {0}]
  /\ Imported \in [PoLines -> Nat]
  /\ \A l \in PoLines : Imported[l] <= Ordered[l]
  /\ MaxReceivingLines \in Nat
  /\ None \notin PurchaseOrders

VARIABLES
  purchaseOrder,     \* status and receivingBaseStatus of each order
  received,          \* receivedQuantity of each order line
  receivingDocument  \* each document with its lines

receivingVars == <<purchaseOrder, received, receivingDocument>>

ReceivablePoStatuses == {"approved", "issued", "ready_for_receiving", "partially_received"}
ReceivableWorkflowStatuses == {"approved", "ready_for_receiving", "partially_received"}
PoStatuses == ReceivablePoStatuses \cup {"pending_approval", "rejected", "draft", "fully_received"}
BaseStatuses == ReceivablePoStatuses \cup {"none"}

DraftLine == [poLine : PoLines, key : BalanceKeys, accepted : Nat \ {0}]
DocumentRow == [po : PurchaseOrders \cup {None}, lines : Seq(DraftLine),
                workflowStatus : {"none", "draft", "ready_for_receiving"},
                postingStatus : {"none", "unposted", "posted", "reversed"}]
NoDocument == [po |-> None, lines |-> << >>, workflowStatus |-> "none", postingStatus |-> "none"]

ReceivingTypeOK ==
  /\ StockTypeOK
  /\ purchaseOrder \in [PurchaseOrders -> [status : PoStatuses, base : BaseStatuses]]
  /\ received \in [PoLines -> Nat]
  /\ receivingDocument \in [ReceivingDocuments -> DocumentRow]

LinesOf(p) == {l \in PoLines : PoOf[l] = p}

(***************************************************************************)
(* Orders that await approval come with nothing received; an imported      *)
(* order is open and may be received in part or in full.                   *)
(***************************************************************************)
ReceivingInit ==
  /\ StockInit
  /\ received = Imported
  /\ purchaseOrder \in [PurchaseOrders ->
       [status : ReceivablePoStatuses \cup {"pending_approval"}, base : {"none"}]]
  /\ \A l \in PoLines : Imported[l] > 0 => purchaseOrder[PoOf[l]].status # "pending_approval"
  /\ receivingDocument = [d \in ReceivingDocuments |-> NoDocument]

-----------------------------------------------------------------------------
\* The approval of a purchase order

DecidePurchaseOrder(p, status, base) ==
  /\ purchaseOrder[p].status = "pending_approval"
  /\ purchaseOrder' = [purchaseOrder EXCEPT ![p] = [status |-> status, base |-> base]]
  /\ UNCHANGED <<received, receivingDocument, stockVars>>

ApprovePurchaseOrder(p) == DecidePurchaseOrder(p, "approved", "approved")
RejectPurchaseOrder(p) == DecidePurchaseOrder(p, "rejected", purchaseOrder[p].base)
ReturnPurchaseOrder(p) == DecidePurchaseOrder(p, "draft", purchaseOrder[p].base)

-----------------------------------------------------------------------------
\* The quantities of a document

\* What the lines accept for order line l, and into balance key b.
AcceptedOnLine(lines, l) ==
  Total([n \in DOMAIN lines |-> IF lines[n].poLine = l THEN lines[n].accepted ELSE 0])
AcceptedInto(lines, b) ==
  Total([n \in DOMAIN lines |-> IF lines[n].key = b THEN lines[n].accepted ELSE 0])

\* How many lines go into balance key b: each writes the row once.
LinesInto(lines, b) == Cardinality({n \in DOMAIN lines : lines[n].key = b})

(***************************************************************************)
(* A draft line names a line of the order, a place for the same item, and  *)
(* a quantity that line can still take.  The draft checks each of its      *)
(* lines alone: two lines may share an order line and exceed it together.  *)
(***************************************************************************)
DraftLinesFor(p) ==
  UNION {[poLine : {l}, key : {b \in BalanceKeys : KeyItem[b] = PoLineItem[l]},
          accepted : 1..(Ordered[l] - received[l])] : l \in LinesOf(p)}

DraftsFor(p) == UNION {[1..n -> DraftLinesFor(p)] : n \in 1..MaxReceivingLines}

\* The mobile receiving drafts

\* A draft may be raised for any order, whatever its status.
CreateReceivingDraft(d, p, lines) ==
  /\ receivingDocument[d].postingStatus = "none"
  /\ lines \in DraftsFor(p)
  /\ receivingDocument' = [receivingDocument EXCEPT ![d] =
       [po |-> p, lines |-> lines, workflowStatus |-> "draft", postingStatus |-> "unposted"]]
  /\ UNCHANGED <<purchaseOrder, received, stockVars>>

\* Variant: the workflow alone tells whether a document may still be revised.
IsDraftByWorkflow(d) == receivingDocument[d].workflowStatus \in {"draft", "ready_for_receiving"}

IsDraft(d) ==
  /\ receivingDocument[d].workflowStatus = "draft"
  /\ receivingDocument[d].postingStatus = "unposted"

ReviseReceivingDraft(d, lines) ==
  /\ IsDraft(d)
  /\ lines \in DraftsFor(receivingDocument[d].po)
  /\ receivingDocument' = [receivingDocument EXCEPT ![d].lines = lines]
  /\ UNCHANGED <<purchaseOrder, received, stockVars>>

SubmitReceivingDraft(d) ==
  /\ IsDraft(d)
  /\ receivingDocument' = [receivingDocument EXCEPT ![d].workflowStatus = "ready_for_receiving"]
  /\ UNCHANGED <<purchaseOrder, received, stockVars>>

-----------------------------------------------------------------------------
\* Posting and reversal

\* Variant: an order whose receipts are all reversed keeps the status they gave it.
PoStatusWithoutBase(p, q) ==
  IF \A l \in LinesOf(p) : q[l] >= Ordered[l] THEN "fully_received"
  ELSE IF \E l \in LinesOf(p) : q[l] > 0 THEN "partially_received"
  ELSE purchaseOrder[p].status

(***************************************************************************)
(* The status of order p when its lines have received quantities q: how    *)
(* much has arrived, or the status it had before anything arrived.         *)
(***************************************************************************)
PoStatus(p, q) ==
  LET po   == purchaseOrder[p]
      all  == LinesOf(p) # {} /\ \A l \in LinesOf(p) : q[l] >= Ordered[l]
      some == \E l \in LinesOf(p) : q[l] > 0
  IN  CASE all -> "fully_received"
        [] ~all /\ some -> "partially_received"
        [] ~all /\ ~some /\ po.base # "none" -> po.base
        [] OTHER -> IF po.status \in {"partially_received", "fully_received"}
                    THEN "approved" ELSE po.status

(***************************************************************************)
(* One movement and one write of the balance row for each line, on hand    *)
(* and available alike, into stock or out of it.                           *)
(***************************************************************************)
ReceiveIntoStock(lines) ==
  /\ balance' = [b \in BalanceKeys |-> [balance[b] EXCEPT
       !.onHand = @ + AcceptedInto(lines, b),
       !.available = @ + AcceptedInto(lines, b),
       !.version = @ + LinesInto(lines, b)]]
  /\ movement' = [b \in BalanceKeys |-> [movement[b] EXCEPT
       !.quantityIn = @ + AcceptedInto(lines, b)]]

TakeFromStock(lines) ==
  /\ balance' = [b \in BalanceKeys |-> [balance[b] EXCEPT
       !.onHand = @ - AcceptedInto(lines, b),
       !.available = @ - AcceptedInto(lines, b),
       !.version = @ + LinesInto(lines, b)]]
  /\ movement' = [b \in BalanceKeys |-> [movement[b] EXCEPT
       !.quantityOut = @ + AcceptedInto(lines, b)]]

\* Variants of the plan: a check less, or one line at a time.
PostingPlanAllowsAgain(d) ==
  LET doc == receivingDocument[d] IN
  /\ doc.lines # << >>
  /\ doc.workflowStatus \in ReceivableWorkflowStatuses
  /\ purchaseOrder[doc.po].status \in ReceivablePoStatuses
  /\ \A n \in DOMAIN doc.lines :
       LET l == doc.lines[n].poLine
       IN  received[l] + AcceptedOnLine(doc.lines, l) <= Ordered[l]

PostingPlanAllowsEachLine(d) ==
  LET doc == receivingDocument[d] IN
  /\ doc.postingStatus = "unposted"
  /\ doc.workflowStatus \in ReceivableWorkflowStatuses
  /\ purchaseOrder[doc.po].status \in ReceivablePoStatuses
  /\ \A n \in DOMAIN doc.lines :
       received[doc.lines[n].poLine] + doc.lines[n].accepted <= Ordered[doc.lines[n].poLine]

(***************************************************************************)
(* The posting plan: the quantities were checked against the order when    *)
(* the draft was written, and are checked again, line by line and added up *)
(* over the document, against what has been received since.                *)
(***************************************************************************)
PostingPlanAllows(d) ==
  LET doc == receivingDocument[d] IN
  /\ doc.postingStatus = "unposted"
  /\ doc.lines # << >>
  /\ doc.workflowStatus \in ReceivableWorkflowStatuses
  /\ purchaseOrder[doc.po].status \in ReceivablePoStatuses
  /\ \A n \in DOMAIN doc.lines :
       LET l == doc.lines[n].poLine
       IN  received[l] + AcceptedOnLine(doc.lines, l) <= Ordered[l]

PostReceiving(d) ==
  LET doc == receivingDocument[d]
      p   == doc.po
      got == [l \in PoLines |-> received[l] + AcceptedOnLine(doc.lines, l)]
  IN
  /\ PostingPlanAllows(d)
  /\ received' = got
  /\ purchaseOrder' = [purchaseOrder EXCEPT ![p] =
       [status |-> PoStatus(p, got), base |-> IF @.base = "none" THEN @.status ELSE @.base]]
  /\ receivingDocument' = [receivingDocument EXCEPT ![d].postingStatus = "posted"]
  /\ ReceiveIntoStock(doc.lines)

\* Variant: stock that is there may be taken back, promised or not.
ReversalPlanIgnoresPromises(d) ==
  LET doc == receivingDocument[d] IN
  /\ doc.postingStatus = "posted"
  /\ \A n \in DOMAIN doc.lines :
       /\ AcceptedInto(doc.lines, doc.lines[n].key) <= balance[doc.lines[n].key].onHand
       /\ AcceptedOnLine(doc.lines, doc.lines[n].poLine) <= received[doc.lines[n].poLine]

(***************************************************************************)
(* The reversal plan: the received goods must still be there and not be    *)
(* promised to anyone.  The reversal needs no status of the order.         *)
(***************************************************************************)
ReversalPlanAllows(d) ==
  LET doc == receivingDocument[d] IN
  /\ doc.postingStatus = "posted"
  /\ \A n \in DOMAIN doc.lines :
       LET b == doc.lines[n].key
           l == doc.lines[n].poLine
       IN  /\ AcceptedInto(doc.lines, b) <= balance[b].onHand
           /\ AcceptedInto(doc.lines, b) <= balance[b].available
           /\ AcceptedOnLine(doc.lines, l) <= received[l]

ReverseReceiving(d) ==
  LET doc  == receivingDocument[d]
      p    == doc.po
      left == [l \in PoLines |-> received[l] - AcceptedOnLine(doc.lines, l)]
  IN
  /\ ReversalPlanAllows(d)
  /\ received' = left
  /\ purchaseOrder' = [purchaseOrder EXCEPT ![p].status = PoStatus(p, left)]
  /\ receivingDocument' = [receivingDocument EXCEPT ![d].postingStatus = "reversed"]
  /\ TakeFromStock(doc.lines)

-----------------------------------------------------------------------------
\* The commands that leave the stock alone.
ReceivingPaperwork ==
  \/ \E p \in PurchaseOrders :
       \/ ApprovePurchaseOrder(p)
       \/ RejectPurchaseOrder(p)
       \/ ReturnPurchaseOrder(p)
       \/ \E d \in ReceivingDocuments : \E lines \in DraftsFor(p) :
            CreateReceivingDraft(d, p, lines)
  \/ \E d \in ReceivingDocuments :
       \/ \E lines \in DraftsFor(receivingDocument[d].po) : ReviseReceivingDraft(d, lines)
       \/ SubmitReceivingDraft(d)

ReceivingNext ==
  \/ ReceivingPaperwork
  \/ \E d \in ReceivingDocuments : PostReceiving(d) \/ ReverseReceiving(d)

ReceivingSpec == ReceivingInit /\ [][ReceivingNext]_<<stockVars, receivingVars>>

-----------------------------------------------------------------------------
\* Properties

PostedOnLine(l) == [d \in ReceivingDocuments |->
  IF receivingDocument[d].postingStatus = "posted"
  THEN AcceptedOnLine(receivingDocument[d].lines, l) ELSE 0]

PostedInto(b) == [d \in ReceivingDocuments |->
  IF receivingDocument[d].postingStatus = "posted"
  THEN AcceptedInto(receivingDocument[d].lines, b) ELSE 0]

(***************************************************************************)
(* What an order line shows as received is what it was imported with and   *)
(* what the documents that stand posted accepted for it: no posting is     *)
(* counted twice, and a reversal takes back what its document brought.     *)
(***************************************************************************)
ReceivedMatchesDocuments ==
  \A l \in PoLines : received[l] = Imported[l] + Total(PostedOnLine(l))

(***************************************************************************)
(* No order line receives more than was ordered, however many drafts were  *)
(* written against the same remaining quantity.                            *)
(***************************************************************************)
NeverOverReceived == \A l \in PoLines : received[l] <= Ordered[l]

(***************************************************************************)
(* Once a document of an order has been posted or the order was approved   *)
(* here, the order's status tells how much of it has arrived, and is back  *)
(* at the status it had before when every receipt has been reversed.       *)
(***************************************************************************)
OrderStatusMatchesReceipts ==
  \A p \in PurchaseOrders :
    LET all  == LinesOf(p) # {} /\ \A l \in LinesOf(p) : received[l] = Ordered[l]
        some == \E l \in LinesOf(p) : received[l] > 0
        po   == purchaseOrder[p]
    IN  po.base # "none" =>
          /\ all => po.status = "fully_received"
          /\ some /\ ~all => po.status = "partially_received"
          /\ ~some => po.status = po.base

(***************************************************************************)
(* Goods are only ever received against an order that was approved or      *)
(* imported open: a draft may be raised, submitted and revised before, but *)
(* an order awaiting approval, rejected or returned has nothing posted.    *)
(***************************************************************************)
NothingReceivedUnapproved ==
  \A d \in ReceivingDocuments :
    receivingDocument[d].postingStatus \in {"posted", "reversed"} =>
      /\ purchaseOrder[receivingDocument[d].po].status
           \notin {"pending_approval", "rejected", "draft"}
      /\ purchaseOrder[receivingDocument[d].po].base \in ReceivablePoStatuses

(***************************************************************************)
(* The stock of a key is its opening stock and what the posted documents   *)
(* put there.                                                              *)
(***************************************************************************)
StockMatchesReceipts ==
  \A b \in BalanceKeys : balance[b].onHand = OpeningStock[b] + Total(PostedInto(b))

(***************************************************************************)
(* A posted document is a fact: its lines never change again, and the only *)
(* thing that can still happen to it is its reversal, once.                *)
(***************************************************************************)
PostedDocumentsAreFacts ==
  [][\A d \in ReceivingDocuments :
       receivingDocument[d].postingStatus \in {"posted", "reversed"} =>
         /\ receivingDocument'[d].lines = receivingDocument[d].lines
         /\ receivingDocument'[d].po = receivingDocument[d].po
         /\ receivingDocument[d].postingStatus = "reversed" =>
              receivingDocument'[d].postingStatus = "reversed"
         /\ receivingDocument'[d].postingStatus \in {"posted", "reversed"}]_receivingVars
=============================================================================
