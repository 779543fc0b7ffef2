------------------------------- MODULE Outbound -------------------------------
(***************************************************************************)
(* Sales orders, the stock reserved for them, and the shipments that       *)
(* consume the reservations.                                               *)
(*                                                                         *)
(* Each action is the commit of one serializable transaction; a command    *)
(* that fails changes nothing and is no step.  Left out: the versions of   *)
(* the rows (see Receiving), the master data (items and warehouses are     *)
(* active), the names, prices and dates of an order, and the posted        *)
(* quantity of a shipment line, which is the sum of its allocations while  *)
(* the shipment is posted and zero otherwise.                              *)
(***************************************************************************)
EXTENDS StockBalance

CONSTANTS
  SalesOrders, SalesLines,
  SalesOrderOf,     \* the order of a line
  SalesLineItem,    \* the item a line sells
  Reservations, Shipments,   \* the identifiers a run may hand out
  MaxOrdered        \* bound on the quantity of one order line

ASSUME OutboundAssumption ==
  /\ IsFiniteSet(SalesLines) /\ IsFiniteSet(Reservations) /\ IsFiniteSet(Shipments)
  /\ SalesOrderOf \in [SalesLines -> SalesOrders]
  /\ MaxOrdered \in Nat
  /\ None \notin SalesLines \cup BalanceKeys \cup SalesOrders

VARIABLES
  salesOrder,    \* the three statuses of each order
  salesLine,     \* the quantities of each order line; an absent line orders 0
  reservation,   \* each reservation with its quantities
  shipment       \* each shipment with the quantity it allocates of each reservation

outboundVars == <<salesOrder, salesLine, reservation, shipment>>

ReservationStates == {"active", "partially_allocated", "allocated", "partially_consumed",
                      "consumed", "released"}
SalesOrderRow == [workflowStatus : {"none", "draft", "confirmed", "on_hold"},
                  reservationStatus : {"not_reserved", "partially_reserved", "fully_reserved"},
                  fulfillmentStatus : {"not_fulfilled", "partially_fulfilled", "fully_fulfilled"}]
SalesLineRow == [ordered : Nat, reserved : Nat, fulfilled : Nat]
ReservationRow == [line : SalesLines \cup {None}, key : BalanceKeys \cup {None},
                   reserved : Nat, allocated : Nat, consumed : Nat, released : Nat,
                   status : ReservationStates \cup {"none"}]
ShipmentRow == [order : SalesOrders \cup {None}, quantity : [Reservations -> Nat],
                workflowStatus : {"none", "ready", "cancelled"},
                postingStatus : {"none", "unposted", "posted", "reversed"},
                allocationStatus : {"none", "allocated", "deallocated", "consumed", "reversed"}]

NoReservation == [line |-> None, key |-> None, reserved |-> 0, allocated |-> 0,
                  consumed |-> 0, released |-> 0, status |-> "none"]
NoShipment == [order |-> None, quantity |-> [r \in Reservations |-> 0],
               workflowStatus |-> "none", postingStatus |-> "none", allocationStatus |-> "none"]

OutboundTypeOK ==
  /\ StockTypeOK
  /\ salesOrder \in [SalesOrders -> SalesOrderRow]
  /\ salesLine \in [SalesLines -> SalesLineRow]
  /\ reservation \in [Reservations -> ReservationRow]
  /\ shipment \in [Shipments -> ShipmentRow]

SalesLinesOf(o) == {l \in SalesLines : SalesOrderOf[l] = o}

OutboundInit ==
  /\ StockInit
  /\ salesOrder = [o \in SalesOrders |-> [workflowStatus |-> "none",
       reservationStatus |-> "not_reserved", fulfillmentStatus |-> "not_fulfilled"]]
  /\ salesLine = [l \in SalesLines |-> [ordered |-> 0, reserved |-> 0, fulfilled |-> 0]]
  /\ reservation = [r \in Reservations |-> NoReservation]
  /\ shipment = [s \in Shipments |-> NoShipment]

-----------------------------------------------------------------------------
\* Statuses computed from quantities

Active(row) == row.reserved - row.consumed - row.released

\* What a reservation can still be allocated or released.
Allocatable(row) == row.reserved - row.consumed - row.released - row.allocated

ReservationStatus(row) ==
  CASE Active(row) = 0 /\ row.consumed = row.reserved -> "consumed"
    [] Active(row) = 0 /\ row.consumed # row.reserved -> "released"
    [] Active(row) # 0 /\ row.consumed > 0 -> "partially_consumed"
    [] Active(row) # 0 /\ row.consumed = 0 /\ row.allocated = Active(row) -> "allocated"
    [] OTHER -> IF row.allocated > 0 THEN "partially_allocated" ELSE "active"

\* The row with its status brought up to date.
Restated(row) == [row EXCEPT !.status = ReservationStatus(row)]

SalesReservationStatus(o, lines) ==
  IF \A l \in SalesLinesOf(o) : lines[l].reserved = 0 THEN "not_reserved"
  ELSE IF \A l \in SalesLinesOf(o) : lines[l].reserved + lines[l].fulfilled >= lines[l].ordered
  THEN "fully_reserved" ELSE "partially_reserved"

SalesFulfillmentStatus(o, lines) ==
  IF \A l \in SalesLinesOf(o) : lines[l].fulfilled = 0 THEN "not_fulfilled"
  ELSE IF \A l \in SalesLinesOf(o) : lines[l].fulfilled >= lines[l].ordered
  THEN "fully_fulfilled" ELSE "partially_fulfilled"

-----------------------------------------------------------------------------
\* The sales order workbench

\* The quantities an order may ask for: at least one line of it.
OrderQuantities(o) ==
  {q \in [SalesLinesOf(o) -> 0..MaxOrdered] : \E l \in SalesLinesOf(o) : q[l] > 0}

WriteOrderLines(o, q) ==
  salesLine' = [l \in SalesLines |->
    IF l \in SalesLinesOf(o) THEN [ordered |-> q[l], reserved |-> 0, fulfilled |-> 0]
    ELSE salesLine[l]]

CreateOrder(o, q) ==
  /\ salesOrder[o].workflowStatus = "none"
  /\ salesOrder' = [salesOrder EXCEPT ![o].workflowStatus = "draft"]
  /\ WriteOrderLines(o, q)
  /\ UNCHANGED <<reservation, shipment, stockVars>>

\* A revision replaces the lines of a draft that nothing refers to.
ReviseOrder(o, q) ==
  /\ salesOrder[o].workflowStatus = "draft"
  /\ \A r \in Reservations : reservation[r].line \notin SalesLinesOf(o)
  /\ \A s \in Shipments : shipment[s].order # o
  /\ WriteOrderLines(o, q)
  /\ UNCHANGED <<salesOrder, reservation, shipment, stockVars>>

TransitionOrder(o, from, to) ==
  /\ salesOrder[o].workflowStatus = from
  /\ salesOrder' = [salesOrder EXCEPT ![o].workflowStatus = to]
  /\ UNCHANGED <<salesLine, reservation, shipment, stockVars>>

ConfirmOrder(o) == TransitionOrder(o, "draft", "confirmed")
HoldOrder(o) == TransitionOrder(o, "confirmed", "on_hold")
ResumeOrder(o) == TransitionOrder(o, "on_hold", "confirmed")

\* Variant: an order on hold counts as confirmed.
OrderOpen(o) == salesOrder[o].workflowStatus \in {"confirmed", "on_hold"}

\* Stock is reserved, shipments are drafted and posted for confirmed orders only.
OrderConfirmed(o) == salesOrder[o].workflowStatus = "confirmed"

-----------------------------------------------------------------------------
\* Sums over reservations, and what a command writes for them

\* Of the quantities q of reservations, those of line l, and those at key b.
OnLine(q, l) == Total([r \in Reservations |-> IF reservation[r].line = l THEN q[r] ELSE 0])
AtKey(q, b) == Total([r \in Reservations |-> IF reservation[r].key = b THEN q[r] ELSE 0])

\* Quantities of reservations of order o that are neither allocated nor used up.
AllocatableQuantities(o) ==
  {q \in [Reservations -> 0..MaxOrdered] :
     /\ \E r \in Reservations : q[r] > 0
     /\ \A r \in Reservations : q[r] > 0 =>
          /\ reservation[r].line \in SalesLinesOf(o)
          /\ q[r] <= Allocatable(reservation[r])}

\* Variants: goods move without the version or what is on hand following.
WriteBalancesKeepVersion(h, k) ==
  balance' = [b \in BalanceKeys |-> [balance[b] EXCEPT
    !.onHand = @ + h[b], !.reserved = @ + k[b], !.available = @ + h[b] - k[b]]]
WriteBalancesKeepOnHand(h, k) ==
  balance' = [b \in BalanceKeys |-> [balance[b] EXCEPT
    !.reserved = @ + k[b], !.available = @ - k[b]]]

(***************************************************************************)
(* The balance rows a command writes, once each: what is on hand changes   *)
(* by h, what is reserved by k, and what is available by the difference.   *)
(* Every outbound command changes the reserved quantity of its rows.       *)
(***************************************************************************)
WriteBalances(h, k) ==
  balance' = [b \in BalanceKeys |->
    [onHand    |-> balance[b].onHand + h[b],
     reserved  |-> balance[b].reserved + k[b],
     available |-> balance[b].available + h[b] - k[b],
     version   |-> balance[b].version + (IF k[b] = 0 THEN 0 ELSE 1)]]

\* The order lines a command writes, and the statuses of the order it writes with
\* them: a reservation or a release writes the first, a shipment writes both.
WriteReservedLines(o, lines) ==
  /\ salesLine' = lines
  /\ salesOrder' = [salesOrder EXCEPT ![o].reservationStatus = SalesReservationStatus(o, lines)]

WriteShippedLines(o, lines) ==
  /\ salesLine' = lines
  /\ salesOrder' = [salesOrder EXCEPT
       ![o].reservationStatus = SalesReservationStatus(o, lines),
       ![o].fulfillmentStatus = SalesFulfillmentStatus(o, lines)]

Nowhere == [b \in BalanceKeys |-> 0]

-----------------------------------------------------------------------------
\* Reserving stock and releasing it

\* The allocations one reserve command may ask for, each a new reservation.
ReserveRequests(o) ==
  LET new == {r \in Reservations : reservation[r].status = "none"}
      allocations == {a \in [line : SalesLinesOf(o), key : BalanceKeys, quantity : 1..MaxOrdered] :
                        KeyItem[a.key] = SalesLineItem[a.line]}
  IN  UNION {[rs -> allocations] : rs \in SUBSET new \ {{}}}

RequestedAt(request, b) ==
  Total([r \in DOMAIN request |-> IF request[r].key = b THEN request[r].quantity ELSE 0])
RequestedOnLine(request, l) ==
  Total([r \in DOMAIN request |-> IF request[r].line = l THEN request[r].quantity ELSE 0])

\* Variant: each allocation is checked alone.
EachRequestFits(o, request) ==
  \A r \in DOMAIN request :
    LET a == request[r] IN
    /\ a.quantity <= balance[a.key].available
    /\ salesLine[a.line].reserved + salesLine[a.line].fulfilled + a.quantity
         <= salesLine[a.line].ordered

(***************************************************************************)
(* The allocations of one command are checked added up: those at a key     *)
(* against what it has available, those on a line against what was ordered *)
(* and is neither reserved nor fulfilled.                                  *)
(***************************************************************************)
RequestFits(o, request) ==
  /\ \A b \in BalanceKeys : RequestedAt(request, b) > 0 =>
       Reconciles(b) /\ RequestedAt(request, b) <= balance[b].available
  /\ \A l \in SalesLinesOf(o) : RequestedOnLine(request, l) > 0 =>
       salesLine[l].reserved + salesLine[l].fulfilled + RequestedOnLine(request, l)
         <= salesLine[l].ordered

ReserveInventory(o, request) ==
  /\ OrderConfirmed(o)
  /\ RequestFits(o, request)
  /\ reservation' = [r \in Reservations |-> IF r \in DOMAIN request
       THEN [line |-> request[r].line, key |-> request[r].key, reserved |-> request[r].quantity,
             allocated |-> 0, consumed |-> 0, released |-> 0, status |-> "active"]
       ELSE reservation[r]]
  /\ WriteReservedLines(o, [l \in SalesLines |-> [salesLine[l] EXCEPT !.reserved = @ + RequestedOnLine(request, l)]])
  /\ WriteBalances(Nowhere, [b \in BalanceKeys |-> RequestedAt(request, b)])
  /\ UNCHANGED <<shipment, movement>>

\* A release needs no status of the order: an order on hold may give stock back.
ReleaseReservation(o, q) ==
  /\ \A b \in BalanceKeys : AtKey(q, b) > 0 => Reconciles(b) /\ AtKey(q, b) <= balance[b].reserved
  /\ \A l \in SalesLinesOf(o) : OnLine(q, l) <= salesLine[l].reserved
  /\ reservation' = [r \in Reservations |-> IF q[r] = 0 THEN reservation[r]
       ELSE Restated([reservation[r] EXCEPT !.released = @ + q[r]])]
  /\ WriteReservedLines(o, [l \in SalesLines |-> [salesLine[l] EXCEPT !.reserved = @ - OnLine(q, l)]])
  /\ WriteBalances(Nowhere, [b \in BalanceKeys |-> -AtKey(q, b)])
  /\ UNCHANGED <<shipment, movement>>

-----------------------------------------------------------------------------
\* Shipments

CreateShipmentDraft(o, s, q) ==
  /\ OrderConfirmed(o)
  /\ shipment[s].workflowStatus = "none"
  /\ reservation' = [r \in Reservations |-> IF q[r] = 0 THEN reservation[r]
       ELSE Restated([reservation[r] EXCEPT !.allocated = @ + q[r]])]
  /\ shipment' = [shipment EXCEPT ![s] = [order |-> o, quantity |-> q, workflowStatus |-> "ready",
       postingStatus |-> "unposted", allocationStatus |-> "allocated"]]
  /\ UNCHANGED <<salesOrder, salesLine, stockVars>>

\* Variant: the workflow alone tells whether a shipment is still a draft.
ReadyByWorkflow(s) == shipment[s].workflowStatus = "ready"

ReadyToShip(s) == shipment[s].workflowStatus = "ready" /\ shipment[s].postingStatus = "unposted"

CancelShipmentDraft(s) ==
  LET q == shipment[s].quantity IN
  /\ ReadyToShip(s)
  /\ \A r \in Reservations : q[r] <= reservation[r].allocated
  /\ reservation' = [r \in Reservations |-> IF q[r] = 0 THEN reservation[r]
       ELSE Restated([reservation[r] EXCEPT !.allocated = @ - q[r]])]
  /\ shipment' = [shipment EXCEPT ![s].workflowStatus = "cancelled",
                                  ![s].allocationStatus = "deallocated"]
  /\ UNCHANGED <<salesOrder, salesLine, stockVars>>

\* The quantities of the posting plan: of reservations, balances and order lines.
PostingQuantitiesAllow(s) ==
  LET q == shipment[s].quantity IN
  /\ \A r \in Reservations : q[r] > 0 =>
       q[r] <= reservation[r].allocated /\ q[r] <= Active(reservation[r])
  /\ \A b \in BalanceKeys : AtKey(q, b) > 0 =>
       /\ Reconciles(b)
       /\ AtKey(q, b) <= balance[b].onHand
       /\ AtKey(q, b) <= balance[b].reserved
  /\ \A l \in SalesLines : OnLine(q, l) > 0 =>
       /\ OnLine(q, l) <= salesLine[l].reserved
       /\ salesLine[l].fulfilled + OnLine(q, l) <= salesLine[l].ordered

PostShipment(s) ==
  LET q == shipment[s].quantity
      o == shipment[s].order
  IN
  /\ ReadyToShip(s)
  /\ OrderConfirmed(o)
  /\ shipment[s].allocationStatus = "allocated"
  /\ PostingQuantitiesAllow(s)
  /\ reservation' = [r \in Reservations |-> IF q[r] = 0 THEN reservation[r]
       ELSE Restated([reservation[r] EXCEPT !.allocated = @ - q[r], !.consumed = @ + q[r]])]
  /\ WriteShippedLines(o, [l \in SalesLines |-> [salesLine[l] EXCEPT
       !.reserved = @ - OnLine(q, l), !.fulfilled = @ + OnLine(q, l)]])
  /\ shipment' = [shipment EXCEPT ![s].postingStatus = "posted", ![s].allocationStatus = "consumed"]
  /\ LET out == [b \in BalanceKeys |-> -AtKey(q, b)] IN WriteBalances(out, out)
  /\ movement' = [b \in BalanceKeys |-> [movement[b] EXCEPT !.quantityOut = @ + AtKey(q, b)]]

\* The quantities of the reversal plan.
ReversalQuantitiesAllow(s) ==
  LET q == shipment[s].quantity IN
  /\ \A r \in Reservations : q[r] <= reservation[r].consumed
  /\ \A b \in BalanceKeys : AtKey(q, b) > 0 => Reconciles(b)
  /\ \A l \in SalesLines : OnLine(q, l) <= salesLine[l].fulfilled

\* A reversal restores the reservation; the allocation is not restored.
ReverseShipment(s) ==
  LET q == shipment[s].quantity
      o == shipment[s].order
  IN
  /\ shipment[s].postingStatus = "posted"
  /\ shipment[s].allocationStatus = "consumed"
  /\ ReversalQuantitiesAllow(s)
  /\ reservation' = [r \in Reservations |-> IF q[r] = 0 THEN reservation[r]
       ELSE Restated([reservation[r] EXCEPT !.consumed = @ - q[r]])]
  /\ WriteShippedLines(o, [l \in SalesLines |-> [salesLine[l] EXCEPT
       !.reserved = @ + OnLine(q, l), !.fulfilled = @ - OnLine(q, l)]])
  /\ shipment' = [shipment EXCEPT ![s].postingStatus = "reversed", ![s].allocationStatus = "reversed"]
  /\ LET back == [b \in BalanceKeys |-> AtKey(q, b)] IN WriteBalances(back, back)
  /\ movement' = [b \in BalanceKeys |-> [movement[b] EXCEPT !.quantityIn = @ + AtKey(q, b)]]

-----------------------------------------------------------------------------
\* The commands that move no goods.
OutboundPaperwork ==
  \/ \E o \in SalesOrders :
       \/ \E q \in OrderQuantities(o) : CreateOrder(o, q) \/ ReviseOrder(o, q)
       \/ ConfirmOrder(o) \/ HoldOrder(o) \/ ResumeOrder(o)
       \/ \E request \in ReserveRequests(o) : ReserveInventory(o, request)
       \/ \E q \in AllocatableQuantities(o) :
            \/ ReleaseReservation(o, q)
            \/ \E s \in Shipments : CreateShipmentDraft(o, s, q)
  \/ \E s \in Shipments : CancelShipmentDraft(s)

OutboundNext ==
  \/ OutboundPaperwork
  \/ \E s \in Shipments : PostShipment(s) \/ ReverseShipment(s)

OutboundSpec == OutboundInit /\ [][OutboundNext]_<<stockVars, outboundVars>>

-----------------------------------------------------------------------------
\* Properties

Promised == [r \in Reservations |-> Active(reservation[r])]
Consumed == [r \in Reservations |-> reservation[r].consumed]

\* What the shipments in a state allocate of reservation r.
ShippedOf(r, state) == Total([s \in Shipments |->
  IF shipment[s].allocationStatus = state THEN shipment[s].quantity[r] ELSE 0])

(***************************************************************************)
(* An order line shows as reserved and fulfilled what its reservations     *)
(* hold and have shipped, together never more than was ordered.            *)
(***************************************************************************)
LinesMatchReservations ==
  \A l \in SalesLines :
    /\ salesLine[l].reserved = OnLine(Promised, l)
    /\ salesLine[l].fulfilled = OnLine(Consumed, l)
    /\ salesLine[l].reserved + salesLine[l].fulfilled <= salesLine[l].ordered

(***************************************************************************)
(* A reservation is allocated to the ready shipments that name it and used *)
(* up by the posted ones, and all of that, with what was released, fits in *)
(* what was reserved: no two shipments ship the same units.                *)
(***************************************************************************)
ReservationsMatchShipments ==
  \A r \in Reservations :
    /\ reservation[r].allocated = ShippedOf(r, "allocated")
    /\ reservation[r].consumed = ShippedOf(r, "consumed")
    /\ Allocatable(reservation[r]) >= 0

(***************************************************************************)
(* The statuses stored with an order and a reservation are those their     *)
(* quantities call for, although commands write them one column at a time. *)
(***************************************************************************)
StatusesMatchQuantities ==
  /\ \A o \in SalesOrders :
       /\ salesOrder[o].reservationStatus = SalesReservationStatus(o, salesLine)
       /\ salesOrder[o].fulfillmentStatus = SalesFulfillmentStatus(o, salesLine)
  /\ \A r \in Reservations :
       reservation[r].status # "none" => reservation[r].status = ReservationStatus(reservation[r])

(***************************************************************************)
(* A ready shipment can always be posted as far as quantities go, whatever *)
(* was released, reserved, shipped or reversed since it was drafted: the   *)
(* plan's quantity checks never leave a shipment stuck.                    *)
(***************************************************************************)
ReadyShipmentsCanPost == \A s \in Shipments : ReadyToShip(s) => PostingQuantitiesAllow(s)

\* A posted shipment can always be reversed.
PostedShipmentsCanReverse ==
  \A s \in Shipments : shipment[s].postingStatus = "posted" => ReversalQuantitiesAllow(s)

(***************************************************************************)
(* Nothing is sold while its order is on hold: no more stock is promised   *)
(* and nothing leaves the warehouse.                                       *)
(***************************************************************************)
HeldOrdersDoNotMove ==
  [][\A o \in SalesOrders : salesOrder[o].workflowStatus = "on_hold" =>
       \A l \in SalesLinesOf(o) :
         /\ salesLine'[l].ordered = salesLine[l].ordered
         /\ salesLine'[l].fulfilled <= salesLine[l].fulfilled
         /\ salesLine'[l].reserved + salesLine'[l].fulfilled
              <= salesLine[l].reserved + salesLine[l].fulfilled]_outboundVars
=============================================================================
