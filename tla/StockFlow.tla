------------------------------ MODULE StockFlow ------------------------------
(***************************************************************************)
(* Everyone who writes stock, on the same stock: goods are received,       *)
(* reserved and shipped, moved, counted and adjusted, returned by          *)
(* customers and to suppliers, and each of these may be reversed, in any   *)
(* order.  The subsystems share the balance rows and the ledger and know   *)
(* nothing of each other's documents; what keeps them apart is the         *)
(* reserved quantity of a balance and its version.                         *)
(*                                                                         *)
(* The composition adds what the reversal of a receipt asks of the whole   *)
(* ledger: whether a downstream movement of the same item in the same      *)
(* warehouse has been posted since the receipt.  The shipments and         *)
(* receipts that are returned here are earlier ones.  For the properties   *)
(* it remembers which balances were written since a count looked at them.  *)
(***************************************************************************)
EXTENDS Receiving, Outbound, InventoryOperations, Returns

ASSUME StockFlowAssumption == SalesOrders \cap PurchaseOrders = {}

VARIABLES
  movedSince,    \* the types of the movements posted on the shelves of each
                 \* posted receipt after its own
  writtenSince   \* the balances written since the snapshot of each count; no
                 \* guard reads it

quarantineSide == <<governanceVars, posting, quarantineVars>>
flowVars == <<stockVars, receivingVars, outboundVars, operationVars, quarantineSide, movedSince, writtenSince>>

\* The movement types after which a receipt may no longer be reversed.
DownstreamMovementTypes ==
  {"outbound_posting", "sales_outbound", "transfer_out", "reservation_consumption",
   "sales_allocation_consumption"}

\* Receipts and later movements meet where they share item and warehouse.
Shelf(b) == <<KeyItem[b], KeyWarehouse[b]>>
ShelvesOf(d) ==
  {Shelf(receivingDocument[d].lines[n].key) : n \in DOMAIN receivingDocument[d].lines}

\* The shelves a command posts movements on.
MovedShelves == {Shelf(b) : b \in {k \in BalanceKeys : movement'[k] # movement[k]}}

Moved(type) ==
  movedSince' = [d \in ReceivingDocuments |->
    IF receivingDocument[d].postingStatus = "posted" /\ ShelvesOf(d) \cap MovedShelves # {}
    THEN movedSince[d] \cup {type} ELSE movedSince[d]]

FlowInit ==
  /\ ReceivingInit
  /\ OutboundInit
  /\ OperationsInit
  /\ ReturnsInit
  /\ movedSince = [d \in ReceivingDocuments |-> {}]
  /\ writtenSince = [c \in Counts |-> {}]

-----------------------------------------------------------------------------
\* A command of one side leaves the rows of the other sides alone.

NothingMovedDownstream(d) == movedSince[d] \cap DownstreamMovementTypes = {}

ReceivingStep ==
  /\ \/ ReceivingPaperwork /\ UNCHANGED movedSince
     \/ \E d \in ReceivingDocuments :
          \/ PostReceiving(d) /\ Moved("receipt_posting")
          \/ NothingMovedDownstream(d) /\ ReverseReceiving(d) /\ Moved("receipt_reversal")
  /\ UNCHANGED <<outboundVars, operationVars, quarantineSide>>

OutboundStep ==
  /\ \/ OutboundPaperwork /\ UNCHANGED movedSince
     \/ \E s \in Shipments :
          \/ PostShipment(s) /\ Moved("shipment_posting")
          \/ ReverseShipment(s) /\ Moved("shipment_reversal")
  /\ UNCHANGED <<receivingVars, operationVars, quarantineSide>>

\* The movements of operations and returns have types of their own, none of
\* which the reversal of a receipt looks for.
OperationsStep ==
  /\ OperationsNext /\ Moved("operation")
  /\ UNCHANGED <<receivingVars, outboundVars, quarantineSide>>

ReturnsStep ==
  /\ ReturnsNext /\ Moved("return")
  /\ UNCHANGED <<receivingVars, outboundVars, operationVars>>

\* A count starts with nothing written since.
RememberWrites ==
  writtenSince' = [c \in Counts |->
    IF count[c].workflowStatus = "none" THEN {}
    ELSE writtenSince[c] \cup {b \in DOMAIN count[c].recorded : balance'[b] # balance[b]}]

FlowNext ==
  /\ ReceivingStep \/ OutboundStep \/ OperationsStep \/ ReturnsStep
  /\ RememberWrites

FlowSpec == FlowInit /\ [][FlowNext]_flowVars

-----------------------------------------------------------------------------
\* Properties

(***************************************************************************)
(* Every unit on hand has a document behind it: the stock of a key is its  *)
(* opening stock and what the posted receipts brought there, the net       *)
(* effect of the posted transfers, adjustments, counts and returns, less   *)
(* what the posted shipments took from it, in whatever order they were     *)
(* posted and reversed.                                                    *)
(***************************************************************************)
StockIsExplained ==
  \A b \in BalanceKeys :
    balance[b].onHand =
      OpeningStock[b] + Total(PostedInto(b)) + OperationsNet(b)
        + PostedTotal(LAMBDA p : StockIn(p, b)) - PostedTotal(LAMBDA p : StockOut(p, b))
        - AtKey(Consumed, b)

(***************************************************************************)
(* No receipt or its reversal, transfer, adjustment, count, dispatch or    *)
(* reversal of a release takes stock from those it is promised to: a ready *)
(* shipment stays postable as far as quantities go, although the goods it  *)
(* ships came with a receipt that was reversed after it was drafted, and a *)
(* posted one stays reversible.                                            *)
(***************************************************************************)
PromisesSurvive == ReadyShipmentsCanPost /\ PostedShipmentsCanReverse

(***************************************************************************)
(* A count posts against the promises it was taken under: none was made,   *)
(* released or shipped on its balances between its snapshot and its        *)
(* posting, nor taken back since, and what it leaves covers them all.      *)
(***************************************************************************)
CountsPostUnderTheirPromises ==
  [][\A c \in Counts :
       count[c].workflowStatus # "posted" /\ count'[c].workflowStatus = "posted" =>
         \A b \in DOMAIN count[c].recorded :
           /\ b \notin writtenSince[c]
           /\ balance'[b].reserved = count[c].recorded[b].reserved
           /\ AtKey(Promised, b)' <= count[c].counted[b]]_flowVars

(***************************************************************************)
(* Seen from the stock alone all the subsystems keep one contract: what is *)
(* free comes and goes, promises are made and released, and goods leave to *)
(* those they were promised to; each commit does exactly one of these, and *)
(* every place always holds what is promised of it.                        *)
(***************************************************************************)
Contract == INSTANCE StockContract WITH
  Keys <- BalanceKeys,
  Opening <- OpeningStock,
  onHand <- [b \in BalanceKeys |-> balance[b].onHand],
  promised <- [b \in BalanceKeys |-> balance[b].reserved]

FlowKeepsContract == Contract!ContractSpec

(***************************************************************************)
(* A receipt is not reversed once goods of its item have been shipped from *)
(* its warehouse, as the documentation of the receiving workbench has it.  *)
(* The code does not promise this: no command of the server posts a        *)
(* movement of the types the reversal plan looks for.                      *)
(***************************************************************************)
DownstreamConsumptionBlocksReversal ==
  \A d \in ReceivingDocuments :
    receivingDocument[d].postingStatus = "reversed" => "shipment_posting" \notin movedSince[d]
=============================================================================
