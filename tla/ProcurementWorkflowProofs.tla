---------------------- MODULE ProcurementWorkflowProofs ----------------------
(***************************************************************************)
(* Theorems about ProcurementWorkflow, for any requests, quotations,       *)
(* orders and calls.                                                       *)
(***************************************************************************)
EXTENDS ProcurementWorkflow, FiniteSetTheorems, TLAPS

RequestStatuses ==
  {"none", "draft", "submitted", "approved", "rejected", "cancelled", "converted"}
RequestRow ==
  [status : RequestStatuses, version : Nat, lines : Nat, approved : Nat]
RfqStatuses == {"none", "draft", "open", "collecting_quotes", "closed", "cancelled"}
RfqRow ==
  [status : RfqStatuses,
   source : PurchaseRequests \cup {None}, version : Nat, lines : Nat]
OrderStatuses ==
  {"none", "draft", "pending_approval", "approved", "rejected", "issued", "cancelled"}
OrderRow ==
  [status : OrderStatuses,
   source : PurchaseRequests \cup {None}, version : Nat, lines : Nat]

RowTypes ==
  /\ request \in [PurchaseRequests -> RequestRow]
  /\ rfq \in [Rfqs -> RfqRow]
  /\ order \in [PurchaseOrders -> OrderRow]

\* A call in its transaction works for a request.
CallsAreNamed ==
  /\ DOMAIN call = Calls
  /\ \A c \in Calls : call[c].at = "transaction" => call[c].request \in PurchaseRequests

OrdersOf(p) == {o \in PurchaseOrders : order[o].source = p}

(***************************************************************************)
(* Orders belong to converted requests, whose lines are the approved ones  *)
(* for ever.                                                               *)
(***************************************************************************)
RequestInv(p) ==
  /\ request[p].status \in {"approved", "converted"} => request[p].lines = request[p].approved
  /\ request[p].status # "converted" => OrdersOf(p) = {}
  /\ request[p].status = "converted" => Cardinality(OrdersOf(p)) = Groups[p]
  /\ \A o \in OrdersOf(p) : order[o].lines = request[p].approved

WorkflowInv ==
  /\ RowTypes /\ CallsAreNamed /\ OneSourceAtATime
  /\ \A p \in PurchaseRequests : RequestInv(p)

-----------------------------------------------------------------------------
\* Steps

\* What the table of requests allows.
LEMMA Allowed ==
  ASSUME NEW s \in RequestStatuses, NEW next \in PR_TRANSITIONS[s] \ {"converted"}
  PROVE  next \in RequestStatuses \ {"converted"} /\ s # "converted"
BY DEF RequestStatuses, PR_TRANSITIONS

\* A row of a request, updated field by field.
LEMMA RowUpdates ==
  ASSUME NEW r \in RequestRow, NEW s \in RequestStatuses, NEW v \in Nat, NEW l \in Nat, NEW a \in Nat
  PROVE  /\ [r EXCEPT !.version = v] \in RequestRow
         /\ [[r EXCEPT !.lines = l] EXCEPT !.version = v] \in RequestRow
         /\ [[r EXCEPT !.status = s] EXCEPT !.version = v] \in RequestRow
         /\ [[[r EXCEPT !.status = s] EXCEPT !.version = v] EXCEPT !.approved = a] \in RequestRow
BY DEF RequestRow

\* The request p changes its status or its lines, and is not converted by that.
LEMMA RequestStep ==
  ASSUME WorkflowInv, NEW p \in PurchaseRequests,
         RowTypes', CallsAreNamed', OneSourceAtATime', UNCHANGED order,
         \A o \in PurchaseRequests \ {p} : request'[o] = request[o],
         \/ request[p].status # "converted" /\ request'[p].status # "converted"
         \/ /\ request'[p].status = request[p].status
            /\ request'[p].approved = request[p].approved,
         request'[p].status \in {"approved", "converted"} => request'[p].lines = request'[p].approved
  PROVE  WorkflowInv'
<1>1. ASSUME NEW o \in PurchaseRequests PROVE RequestInv(o)'
  <2>1. OrdersOf(o)' = OrdersOf(o) /\ RequestInv(o)
    BY DEF OrdersOf, WorkflowInv
  <2>2. CASE o = p
    BY <2>1, <2>2 DEF RequestInv
  <2>3. CASE o # p
    BY <2>1, <2>3 DEF RequestInv
  <2>4. QED
    BY <2>2, <2>3
<1>2. QED
  BY <1>1 DEF WorkflowInv

\* As before, with neither orders nor quotations changed.
LEMMA PaperStep ==
  ASSUME WorkflowInv, NEW p \in PurchaseRequests,
         UNCHANGED <<rfq, order, call>>,
         request' \in [PurchaseRequests -> RequestRow],
         \A o \in PurchaseRequests \ {p} : request'[o] = request[o],
         \/ request[p].status # "converted" /\ request'[p].status # "converted"
         \/ /\ request'[p].status = request[p].status
            /\ request'[p].approved = request[p].approved,
         request'[p].status \in {"approved", "converted"} => request'[p].lines = request'[p].approved
  PROVE  WorkflowInv'
<1>1. RowTypes' /\ CallsAreNamed' /\ OneSourceAtATime'
  BY DEF WorkflowInv, RowTypes, CallsAreNamed, OneSourceAtATime, ActiveRfqs, LiveOrders
<1>2. QED
  BY <1>1, RequestStep

\* As before, with the new row of the request.
LEMMA PaperRow ==
  ASSUME WorkflowInv, NEW p \in PurchaseRequests, NEW row \in RequestRow,
         UNCHANGED <<rfq, order, call>>,
         request' = [request EXCEPT ![p] = row],
         \/ request[p].status # "converted" /\ row.status # "converted"
         \/ row.status = request[p].status /\ row.approved = request[p].approved,
         row.status \in {"approved", "converted"} => row.lines = row.approved
  PROVE  WorkflowInv'
<1>1. request \in [PurchaseRequests -> RequestRow]
  BY DEF WorkflowInv, RowTypes
<1>2. /\ request' \in [PurchaseRequests -> RequestRow]
      /\ \A o \in PurchaseRequests \ {p} : request'[o] = request[o]
      /\ request'[p] = row
  BY <1>1
<1>3. QED
  BY <1>2, PaperStep

\* The commands of a request by itself.
LEMMA RequestSteps ==
  ASSUME WorkflowInv, NEW p \in PurchaseRequests,
         \/ CreatePurchaseRequest(p) \/ UpdatePurchaseRequestDraft(p) \/ RecordPathDecision(p)
         \/ \E next \in DOMAIN PR_TRANSITIONS : TransitionPurchaseRequest(p, next)
  PROVE  WorkflowInv'
<1>1. request[p] \in RequestRow /\ request \in [PurchaseRequests -> RequestRow]
  BY DEF WorkflowInv, RowTypes
<1>2. RequestInv(p) /\ request[p].status \in RequestStatuses
  BY <1>1 DEF WorkflowInv, RequestRow
<1>3. CASE CreatePurchaseRequest(p)
  <2> DEFINE row == [status |-> "draft", version |-> 1, lines |-> 1, approved |-> 0]
  <2>1. row \in RequestRow /\ row.status = "draft"
    BY DEF RequestRow, RequestStatuses
  <2>2. request[p].status = "none"
    BY <1>3 DEF CreatePurchaseRequest, NoRequest
  <2>3. request' = [request EXCEPT ![p] = row]
    BY <1>3 DEF CreatePurchaseRequest
  <2>4. UNCHANGED <<rfq, order, call>>
    BY <1>3 DEF CreatePurchaseRequest
  <2> HIDE DEF row
  <2>5. QED
    BY <2>1, <2>2, <2>3, <2>4, PaperRow
<1>4. CASE UpdatePurchaseRequestDraft(p)
  <2> DEFINE row == [[request[p] EXCEPT !.lines = request[p].lines + 1]
                     EXCEPT !.version = request[p].version + 1]
  <2>1. row \in RequestRow
    <3>1. /\ request[p].lines + 1 \in Nat
          /\ request[p].version + 1 \in Nat
          /\ request[p].approved \in Nat
      BY <1>1 DEF RequestRow
    <3>2. QED
      BY <1>1, <1>2, <3>1, RowUpdates
  <2>2. request[p].status = "draft" /\ row.status = "draft"
    BY <1>1, <1>4 DEF UpdatePurchaseRequestDraft, Editable, RequestRow
  <2>3. request' = [request EXCEPT ![p] = row]
    BY <1>1, <1>4 DEF UpdatePurchaseRequestDraft, RequestRow
  <2>4. UNCHANGED <<rfq, order, call>>
    BY <1>4 DEF UpdatePurchaseRequestDraft
  <2> HIDE DEF row
  <2>5. QED
    BY <2>1, <2>2, <2>3, <2>4, PaperRow
<1>5. CASE RecordPathDecision(p)
  <2> DEFINE row == [request[p] EXCEPT !.version = request[p].version + 1]
  <2>1. row \in RequestRow
    <3>1. /\ request[p].version + 1 \in Nat
          /\ request[p].lines \in Nat
          /\ request[p].approved \in Nat
      BY <1>1 DEF RequestRow
    <3>2. QED
      BY <1>1, <1>2, <3>1, RowUpdates
  <2>2. /\ row.status = request[p].status
        /\ row.lines = request[p].lines
        /\ row.approved = request[p].approved
    BY <1>1 DEF RequestRow
  <2>3. request' = [request EXCEPT ![p] = row]
    BY <1>1, <1>5 DEF RecordPathDecision
  <2>4. UNCHANGED <<rfq, order, call>>
    BY <1>5 DEF RecordPathDecision
  <2>5. row.status \in {"approved", "converted"} => row.lines = row.approved
    BY <1>2, <2>2 DEF RequestInv
  <2> HIDE DEF row
  <2>6. QED
    BY <2>1, <2>2, <2>3, <2>4, <2>5, PaperRow
<1>6. ASSUME NEW next \in DOMAIN PR_TRANSITIONS, TransitionPurchaseRequest(p, next)
      PROVE  WorkflowInv'
  <2> DEFINE row == Transitioned(p, next)
  <2>1. next \in RequestStatuses \ {"converted"} /\ request[p].status # "converted"
    BY <1>2, <1>6, Allowed DEF TransitionPurchaseRequest
  <2>2. /\ row \in RequestRow
        /\ row.status = next
        /\ row.lines = request[p].lines
        /\ next = "approved" => row.approved = request[p].lines
    <3> DEFINE approved == IF next = "approved" THEN request[p].lines ELSE request[p].approved
    <3>1. approved \in Nat /\ request[p].version + 1 \in Nat /\ request[p].lines \in Nat
      BY <1>1 DEF RequestRow
    <3>2. row = [[[request[p] EXCEPT !.status = next] EXCEPT !.version = request[p].version + 1]
                 EXCEPT !.approved = approved]
      BY <1>1 DEF Transitioned, RequestRow
    <3>3. next = "approved" => approved = request[p].lines
      OBVIOUS
    <3> HIDE DEF approved, row
    <3>4. row \in RequestRow
      BY <1>1, <2>1, <3>1, <3>2, RowUpdates
    <3>5. row.status = next /\ row.lines = request[p].lines /\ row.approved = approved
      BY <1>1, <3>2 DEF RequestRow
    <3>6. QED
      BY <3>3, <3>4, <3>5
  <2>3. request' = [request EXCEPT ![p] = row]
    BY <1>6 DEF TransitionPurchaseRequest
  <2>4. UNCHANGED <<rfq, order, call>>
    BY <1>6 DEF TransitionPurchaseRequest
  <2> HIDE DEF row
  <2>5. QED
    BY <2>1, <2>2, <2>3, <2>4, PaperRow
<1>7. QED
  BY <1>3, <1>4, <1>5, <1>6

\* Calls come and go: what they look up and what they leave alone.
LEMMA CallSteps ==
  ASSUME WorkflowInv, NEW c \in Calls,
         \/ LeaveAsItIs(c)
         \/ \E command \in Commands, p \in PurchaseRequests : LookUp(c, command, p)
  PROVE  WorkflowInv'
<1>1. UNCHANGED <<request, rfq, order>>
  BY DEF LeaveAsItIs, LookUp
<1>2. CallsAreNamed'
  <2>1. CASE LeaveAsItIs(c)
    BY <2>1 DEF WorkflowInv, CallsAreNamed, LeaveAsItIs, NoCall
  <2>2. ASSUME NEW command \in Commands, NEW p \in PurchaseRequests, LookUp(c, command, p)
        PROVE  CallsAreNamed'
    <3>1. PICK seen : call' = [call EXCEPT ![c] =
                        [at |-> "transaction", command |-> command, request |-> p, seen |-> seen]]
      BY <2>2 DEF LookUp
    <3>2. QED
      BY <3>1 DEF WorkflowInv, CallsAreNamed
  <2>3. QED
    BY <2>1, <2>2
<1>3. RowTypes' /\ OneSourceAtATime'
  BY <1>1 DEF WorkflowInv, RowTypes, OneSourceAtATime, ActiveRfqs, LiveOrders
<1>4. ASSUME NEW p \in PurchaseRequests PROVE RequestInv(p)'
  BY <1>1 DEF WorkflowInv, RequestInv, OrdersOf
<1>5. QED
  BY <1>2, <1>3, <1>4 DEF WorkflowInv

\* A call that is over names no request.
LEMMA CallEnds ==
  ASSUME CallsAreNamed, NEW c \in Calls, call' = [call EXCEPT ![c] = NoCall]
  PROVE  CallsAreNamed'
BY DEF CallsAreNamed, NoCall

\* A quotation is started for a request without one and without orders.
LEMMA CreateRfqStep ==
  ASSUME WorkflowInv, NEW c \in Calls, NEW q \in Rfqs, CreateRfqFromPurchaseRequest(c, q)
  PROVE  WorkflowInv'
<1>1. PICK p \in PurchaseRequests : p = call[c].request
  BY DEF WorkflowInv, CallsAreNamed, CreateRfqFromPurchaseRequest, CanCreateRfq
<1>2. /\ request[p].status = "approved"
      /\ LiveOrders(p) = {} /\ ActiveRfqs(p) = {}
      /\ rfq[q].source = None
  BY <1>1 DEF CreateRfqFromPurchaseRequest, CanCreateRfq, NoRfq
<1>3. /\ request[p] \in RequestRow /\ request \in [PurchaseRequests -> RequestRow]
      /\ rfq \in [Rfqs -> RfqRow] /\ order \in [PurchaseOrders -> OrderRow]
  BY DEF WorkflowInv, RowTypes
<1>4. CallsAreNamed' /\ UNCHANGED order
  BY CallEnds DEF WorkflowInv, CreateRfqFromPurchaseRequest
<1>5. PICK r \in RequestRow :
        /\ request' = [request EXCEPT ![p] = r]
        /\ r.status = request[p].status
        /\ r.lines = request[p].lines
        /\ r.approved = request[p].approved
  <2> DEFINE row == [request[p] EXCEPT !.version = request[p].version + 1]
  <2>1. /\ request[p].version + 1 \in Nat /\ request[p].lines \in Nat
        /\ request[p].approved \in Nat /\ request[p].status \in RequestStatuses
    BY <1>3 DEF RequestRow
  <2>2. row \in RequestRow
    BY <1>3, <2>1, RowUpdates
  <2>3. row.status = request[p].status /\ row.lines = request[p].lines /\ row.approved = request[p].approved
    BY <1>3 DEF RequestRow
  <2>4. request' = [request EXCEPT ![p] = row]
    BY <1>1, <1>3 DEF CreateRfqFromPurchaseRequest
  <2> HIDE DEF row
  <2>5. QED
    BY <2>2, <2>3, <2>4
<1>6. PICK new \in RfqRow : /\ rfq' = [rfq EXCEPT ![q] = new] /\ new.source = p
  <2> DEFINE row == [status |-> "draft", source |-> p, version |-> 1, lines |-> request[p].lines]
  <2>1. row \in RfqRow /\ row.source = p
    BY <1>3 DEF RfqRow, RfqStatuses, RequestRow
  <2>2. rfq' = [rfq EXCEPT ![q] = row]
    BY <1>1 DEF CreateRfqFromPurchaseRequest
  <2> HIDE DEF row
  <2>3. QED
    BY <2>1, <2>2
<1>7. RowTypes'
  BY <1>3, <1>4, <1>5, <1>6 DEF RowTypes
<1>8. ASSUME NEW o \in PurchaseRequests
      PROVE  /\ \A a, b \in ActiveRfqs(o)' : a = b
             /\ ActiveRfqs(o)' # {} => LiveOrders(o)' = {}
  <2>1. LiveOrders(o)' = LiveOrders(o)
    BY <1>4 DEF LiveOrders
  <2>2. ASSUME o = p PROVE ActiveRfqs(o)' \subseteq {q}
    BY <1>2, <1>3, <1>6, <2>2 DEF ActiveRfqs
  <2>3. ASSUME o # p PROVE ActiveRfqs(o)' \subseteq ActiveRfqs(o)
    BY <1>3, <1>6, <2>3 DEF ActiveRfqs
  <2>4. QED
    BY <1>2, <2>1, <2>2, <2>3 DEF WorkflowInv, OneSourceAtATime
<1>9. RequestInv(p)
  BY DEF WorkflowInv
<1>10. /\ request'[p].status = request[p].status
       /\ request'[p].lines = request[p].lines
       /\ request'[p].approved = request[p].approved
       /\ \A o \in PurchaseRequests \ {p} : request'[o] = request[o]
  BY <1>3, <1>5
<1>11. OneSourceAtATime'
  BY <1>8 DEF OneSourceAtATime
<1>12. request'[p].status \in {"approved", "converted"} => request'[p].lines = request'[p].approved
  BY <1>9, <1>10 DEF RequestInv
<1>13. QED
  BY <1>4, <1>7, <1>10, <1>11, <1>12, RequestStep

\* The orders of a request are made, at once and all of them.
LEMMA CreateDirectPoStep ==
  ASSUME WorkflowInv, NEW c \in Calls, NEW created \in SUBSET PurchaseOrders,
         CreateDirectPoFromPurchaseRequest(c, created)
  PROVE  WorkflowInv'
<1>1. PICK p \in PurchaseRequests : p = call[c].request
  BY DEF WorkflowInv, CallsAreNamed, CreateDirectPoFromPurchaseRequest, CanCreateDirectPo
<1>2. /\ request[p].status = "approved"
      /\ ActiveRfqs(p) = {}
      /\ Cardinality(created) = Groups[p]
      /\ \A o \in created : order[o].source = None
      /\ None # p
  BY <1>1, WorkflowAssumption
     DEF CreateDirectPoFromPurchaseRequest, CanCreateDirectPo, NoRfqInTheWay, NoOrder, NoRfq
<1>3. /\ request[p] \in RequestRow /\ request \in [PurchaseRequests -> RequestRow]
      /\ rfq \in [Rfqs -> RfqRow] /\ order \in [PurchaseOrders -> OrderRow]
  BY DEF WorkflowInv, RowTypes
<1>4. CallsAreNamed' /\ UNCHANGED rfq
  BY CallEnds DEF WorkflowInv, CreateDirectPoFromPurchaseRequest
<1>5. PICK r \in RequestRow :
        /\ request' = [request EXCEPT ![p] = r]
        /\ r.status = "converted"
        /\ r.lines = request[p].lines
        /\ r.approved = request[p].approved
  <2> DEFINE row == [[request[p] EXCEPT !.status = "converted"] EXCEPT !.version = request[p].version + 1]
  <2>1. /\ request[p].version + 1 \in Nat /\ request[p].lines \in Nat
        /\ request[p].approved \in Nat /\ "converted" \in RequestStatuses
    BY <1>3 DEF RequestRow, RequestStatuses
  <2>2. row \in RequestRow
    BY <1>3, <2>1, RowUpdates
  <2>3. row.status = "converted" /\ row.lines = request[p].lines /\ row.approved = request[p].approved
    BY <1>3 DEF RequestRow
  <2>4. request' = [request EXCEPT ![p] = row]
    BY <1>1, <1>3 DEF CreateDirectPoFromPurchaseRequest, Converted
  <2> HIDE DEF row
  <2>5. QED
    BY <2>2, <2>3, <2>4
<1>6. PICK new \in OrderRow :
        /\ order' = [o \in PurchaseOrders |-> IF o \in created THEN new ELSE order[o]]
        /\ new.source = p /\ new.lines = request[p].lines
  <2> DEFINE row == [status |-> "draft", source |-> p, version |-> 1, lines |-> request[p].lines]
  <2>1. row \in OrderRow /\ row.source = p /\ row.lines = request[p].lines
    BY <1>3 DEF OrderRow, OrderStatuses, RequestRow
  <2>2. order' = [o \in PurchaseOrders |-> IF o \in created THEN row ELSE order[o]]
    BY <1>1 DEF CreateDirectPoFromPurchaseRequest
  <2> HIDE DEF row
  <2>3. QED
    BY <2>1, <2>2
<1>7. RowTypes'
  BY <1>3, <1>4, <1>5, <1>6 DEF RowTypes
<1>8. ASSUME NEW x \in PurchaseRequests, x # p
      PROVE  /\ OrdersOf(x)' = OrdersOf(x) /\ LiveOrders(x)' = LiveOrders(x)
             /\ \A o \in OrdersOf(x) : order'[o] = order[o]
             /\ request'[x] = request[x]
  <2>1. x # None
    BY WorkflowAssumption
  <2>2. \A o \in PurchaseOrders : order'[o] = order[o] \/ (order[o].source # x /\ order'[o].source # x)
    BY <1>2, <1>6, <1>8, <2>1
  <2>3. OrdersOf(x)' = OrdersOf(x)
    BY <2>2 DEF OrdersOf
  <2>4. LiveOrders(x)' = LiveOrders(x)
    BY <2>2 DEF LiveOrders
  <2>5. \A o \in OrdersOf(x) : order'[o] = order[o]
    BY <2>2 DEF OrdersOf
  <2>6. QED
    BY <1>3, <1>5, <1>8, <2>3, <2>4, <2>5
<1>9. /\ OrdersOf(p)' = created
      /\ request[p].lines = request[p].approved
  <2>1. OrdersOf(p) = {} /\ request[p].lines = request[p].approved
    BY <1>2 DEF WorkflowInv, RequestInv
  <2>2. \A o \in PurchaseOrders : order'[o].source = p <=> o \in created
    BY <1>6, <2>1 DEF OrdersOf
  <2>3. QED
    BY <2>1, <2>2 DEF OrdersOf
<1>10. RequestInv(p)'
  <2>1. /\ request'[p].status = "converted"
        /\ request'[p].lines = request[p].lines
        /\ request'[p].approved = request[p].approved
    BY <1>3, <1>5
  <2>2. \A o \in created : order'[o].lines = request[p].lines
    BY <1>6
  <2>3. QED
    BY <1>2, <1>9, <2>1, <2>2 DEF RequestInv
<1>11. ASSUME NEW x \in PurchaseRequests PROVE RequestInv(x)'
  <2>1. ASSUME x # p PROVE RequestInv(x)'
    BY <1>8, <2>1 DEF WorkflowInv, RequestInv
  <2>2. QED
    BY <1>10, <2>1
<1>12. OneSourceAtATime'
  <2>1. \A x \in PurchaseRequests : ActiveRfqs(x)' = ActiveRfqs(x)
    BY <1>4 DEF ActiveRfqs
  <2>2. QED
    BY <1>2, <1>8, <2>1 DEF WorkflowInv, OneSourceAtATime
<1>13. QED
  BY <1>4, <1>7, <1>11, <1>12 DEF WorkflowInv

\* The table of orders: what is cancelled stays so.
LEMMA OrderTable ==
  ASSUME NEW s \in OrderStatuses, NEW next \in PO_TRANSITIONS[s]
  PROVE  next \in OrderStatuses /\ s # "cancelled"
BY DEF OrderStatuses, PO_TRANSITIONS

\* The table of quotations: what is closed or cancelled stays so.
LEMMA RfqTable ==
  ASSUME NEW s \in RfqStatuses, NEW next \in RFQ_TRANSITIONS[s]
  PROVE  next \in RfqStatuses /\ s \notin {"closed", "cancelled"}
BY DEF RfqStatuses, RFQ_TRANSITIONS

\* An order changes its status; it keeps its request and its lines.
LEMMA OrderStep ==
  ASSUME WorkflowInv, NEW o \in PurchaseOrders, NEW next, TransitionPurchaseOrder(o, next)
  PROVE  WorkflowInv'
<1>1. /\ order \in [PurchaseOrders -> OrderRow] /\ order[o] \in OrderRow
      /\ order[o].status \in OrderStatuses /\ order[o].version + 1 \in Nat
      /\ UNCHANGED <<request, rfq, call>>
  BY DEF WorkflowInv, RowTypes, TransitionPurchaseOrder, OrderRow
<1>2. next \in OrderStatuses /\ order[o].status # "cancelled"
  BY <1>1, OrderTable DEF TransitionPurchaseOrder
<1>3. PICK r \in OrderRow :
        /\ order' = [order EXCEPT ![o] = r]
        /\ r.source = order[o].source /\ r.lines = order[o].lines
  <2> DEFINE row == [[order[o] EXCEPT !.status = next] EXCEPT !.version = order[o].version + 1]
  <2>1. row \in OrderRow
    BY <1>1, <1>2 DEF OrderRow
  <2>2. row.source = order[o].source /\ row.lines = order[o].lines
    BY <1>1 DEF OrderRow
  <2>3. order' = [order EXCEPT ![o] = row]
    BY <1>1 DEF TransitionPurchaseOrder
  <2> HIDE DEF row
  <2>4. QED
    BY <2>1, <2>2, <2>3
<1>4. \A x \in PurchaseOrders :
        /\ order'[x].source = order[x].source /\ order'[x].lines = order[x].lines
        /\ order[x].status = "cancelled" => order'[x] = order[x]
  BY <1>1, <1>2, <1>3
<1>5. ASSUME NEW p \in PurchaseRequests PROVE RequestInv(p)'
  <2>1. OrdersOf(p)' = OrdersOf(p)
    BY <1>4 DEF OrdersOf
  <2>2. \A x \in OrdersOf(p) : order'[x].lines = order[x].lines
    BY <1>4 DEF OrdersOf
  <2>3. QED
    BY <1>1, <2>1, <2>2 DEF WorkflowInv, RequestInv
<1>6. ASSUME NEW p \in PurchaseRequests
      PROVE  ActiveRfqs(p)' = ActiveRfqs(p) /\ LiveOrders(p)' \subseteq LiveOrders(p)
  BY <1>1, <1>4 DEF ActiveRfqs, LiveOrders
<1>7. OneSourceAtATime'
  BY <1>6 DEF WorkflowInv, OneSourceAtATime
<1>8. RowTypes' /\ CallsAreNamed'
  BY <1>1, <1>3 DEF WorkflowInv, RowTypes, CallsAreNamed
<1>9. QED
  BY <1>5, <1>7, <1>8 DEF WorkflowInv

\* A quotation changes its status; it keeps its request.
LEMMA RfqStep ==
  ASSUME WorkflowInv, NEW q \in Rfqs, NEW next, TransitionRfq(q, next)
  PROVE  WorkflowInv'
<1>1. /\ rfq \in [Rfqs -> RfqRow] /\ rfq[q] \in RfqRow
      /\ rfq[q].status \in RfqStatuses /\ rfq[q].version + 1 \in Nat
      /\ UNCHANGED <<request, order, call>>
  BY DEF WorkflowInv, RowTypes, TransitionRfq, RfqRow
<1>2. next \in RfqStatuses /\ rfq[q].status \notin {"closed", "cancelled"}
  BY <1>1, RfqTable DEF TransitionRfq
<1>3. PICK r \in RfqRow : /\ rfq' = [rfq EXCEPT ![q] = r] /\ r.source = rfq[q].source
  <2> DEFINE row == [[rfq[q] EXCEPT !.status = next] EXCEPT !.version = rfq[q].version + 1]
  <2>1. row \in RfqRow
    BY <1>1, <1>2 DEF RfqRow
  <2>2. row.source = rfq[q].source
    BY <1>1 DEF RfqRow
  <2>3. rfq' = [rfq EXCEPT ![q] = row]
    BY <1>1 DEF TransitionRfq
  <2> HIDE DEF row
  <2>4. QED
    BY <2>1, <2>2, <2>3
<1>4. \A x \in Rfqs :
        /\ rfq'[x].source = rfq[x].source
        /\ rfq[x].status \in {"closed", "cancelled"} => rfq'[x] = rfq[x]
  BY <1>1, <1>2, <1>3
<1>5. ASSUME NEW p \in PurchaseRequests PROVE RequestInv(p)'
  BY <1>1 DEF WorkflowInv, RequestInv, OrdersOf
<1>6. ASSUME NEW p \in PurchaseRequests
      PROVE  ActiveRfqs(p)' \subseteq ActiveRfqs(p) /\ LiveOrders(p)' = LiveOrders(p)
  BY <1>1, <1>4 DEF ActiveRfqs, LiveOrders
<1>7. OneSourceAtATime'
  BY <1>6 DEF WorkflowInv, OneSourceAtATime
<1>8. RowTypes' /\ CallsAreNamed'
  BY <1>1, <1>3 DEF WorkflowInv, RowTypes, CallsAreNamed
<1>9. QED
  BY <1>5, <1>7, <1>8 DEF WorkflowInv

-----------------------------------------------------------------------------
\* Theorems

\* The invariant holds of the empty document.
LEMMA WorkflowStarts == WorkflowInit => WorkflowInv
<1> SUFFICES ASSUME WorkflowInit PROVE WorkflowInv
  OBVIOUS
<1>1. RowTypes
  <2>1. NoRequest \in RequestRow /\ NoRfq \in RfqRow /\ NoOrder \in OrderRow
    BY DEF NoRequest, NoRfq, NoOrder, RequestRow, RfqRow, OrderRow,
           RequestStatuses, RfqStatuses, OrderStatuses
  <2>2. QED
    BY <2>1 DEF WorkflowInit, RowTypes
<1>2. CallsAreNamed
  BY DEF WorkflowInit, CallsAreNamed, NoCall
<1>3. ASSUME NEW p \in PurchaseRequests
      PROVE  ActiveRfqs(p) = {} /\ OrdersOf(p) = {} /\ request[p].status = "none"
  BY WorkflowAssumption DEF WorkflowInit, ActiveRfqs, OrdersOf, NoRfq, NoOrder, NoRequest
<1>4. OneSourceAtATime
  BY <1>3 DEF OneSourceAtATime
<1>5. \A p \in PurchaseRequests : RequestInv(p)
  BY <1>3 DEF RequestInv
<1>6. QED
  BY <1>1, <1>2, <1>4, <1>5 DEF WorkflowInv

\* Every command keeps the invariant.
LEMMA WorkflowStep == WorkflowInv /\ [WorkflowNext]_workflowVars => WorkflowInv'
<1> SUFFICES ASSUME WorkflowInv, [WorkflowNext]_workflowVars PROVE WorkflowInv'
  OBVIOUS
<1>1. CASE UNCHANGED workflowVars
  <2>1. RowTypes' /\ CallsAreNamed' /\ OneSourceAtATime'
    BY <1>1 DEF workflowVars, WorkflowInv, RowTypes, CallsAreNamed, OneSourceAtATime,
                ActiveRfqs, LiveOrders
  <2>2. ASSUME NEW p \in PurchaseRequests PROVE RequestInv(p)'
    BY <1>1 DEF workflowVars, WorkflowInv, RequestInv, OrdersOf
  <2>3. QED
    BY <2>1, <2>2 DEF WorkflowInv
<1>2. CASE WorkflowNext
  BY <1>2, RequestSteps, CallSteps, CreateRfqStep, CreateDirectPoStep, OrderStep, RfqStep
     DEF WorkflowNext
<1>3. QED
  BY <1>1, <1>2

(***************************************************************************)
(* The document has the types, orders and quotations above in every state. *)
(***************************************************************************)
THEOREM WorkflowInvariant == WorkflowSpec => []WorkflowInv
BY WorkflowStarts, WorkflowStep, PTL DEF WorkflowSpec

(***************************************************************************)
(* A request has one quotation at most that is not closed, and none while  *)
(* it is on order: what CreateRfqFromPurchaseRequest and                   *)
(* CreateDirectPoFromPurchaseRequest look for in the transaction suffices. *)
(***************************************************************************)
THEOREM RequestsHaveOneSource == WorkflowSpec => []OneSourceAtATime
<1>1. WorkflowInv => OneSourceAtATime
  BY DEF WorkflowInv
<1>2. QED
  BY <1>1, WorkflowInvariant, PTL

(***************************************************************************)
(* A request is ordered once and completely.                               *)
(***************************************************************************)
THEOREM RequestsAreOrderedOnce == WorkflowSpec => []OrderedOnce
<1>1. WorkflowInv => OrderedOnce
  <2> SUFFICES ASSUME WorkflowInv, NEW p \in PurchaseRequests
               PROVE  Cardinality(OrdersOf(p)) =
                        IF request[p].status = "converted" THEN Groups[p] ELSE 0
    BY DEF OrderedOnce, OrdersOf
  <2>1. RequestInv(p)
    BY DEF WorkflowInv
  <2>2. Cardinality({}) = 0
    BY FS_EmptySet
  <2>3. QED
    BY <2>1, <2>2 DEF RequestInv
<1>2. QED
  BY <1>1, WorkflowInvariant, PTL

(***************************************************************************)
(* Orders carry the lines that were approved, whatever was withdrawn and   *)
(* edited in between.                                                      *)
(***************************************************************************)
THEOREM OrdersAreAsApproved == WorkflowSpec => []OrdersCarryApprovedLines
<1>1. WorkflowInv => OrdersCarryApprovedLines
  <2> SUFFICES ASSUME WorkflowInv, NEW o \in PurchaseOrders, order[o].source # None
               PROVE  order[o].lines = request[order[o].source].approved
    BY DEF OrdersCarryApprovedLines
  <2>1. order[o].source \in PurchaseRequests
    BY DEF WorkflowInv, RowTypes, OrderRow
  <2>2. PICK p \in PurchaseRequests : p = order[o].source
    BY <2>1
  <2>3. RequestInv(p) /\ o \in OrdersOf(p)
    BY <2>2 DEF WorkflowInv, OrdersOf
  <2>4. QED
    BY <2>2, <2>3 DEF RequestInv
<1>2. QED
  BY <1>1, WorkflowInvariant, PTL
=============================================================================
