------------------------ MODULE ProcurementWorkflow ------------------------
(***************************************************************************)
(* The procurement workflow of the JSON runtime: purchase requests are     *)
(* submitted, approved and sourced, by a request for quotation or directly *)
(* by purchase orders, one for each supplier, currency and warehouse among *)
(* their lines.                                                            *)
(*                                                                         *)
(* A change is one write of the document (FileRuntime shows these to be    *)
(* atomic).  The two sourcing commands look up their idempotency record    *)
(* first, in a read of its own, so that a call is two steps; a caller      *)
(* names the version it has seen, which is stale when others were faster.  *)
(***************************************************************************)
EXTENDS Naturals, FiniteSets

CONSTANTS
  PurchaseRequests,
  Rfqs,
  PurchaseOrders,
  Groups,       \* the number of orders the lines of a request make
  Calls,        \* calls of the sourcing commands being served
  MaxVersion,   \* bound on the versions of a document
  None

ASSUME WorkflowAssumption ==
  /\ Groups \in [PurchaseRequests -> Nat \ {0}]
  /\ MaxVersion \in Nat
  /\ None \notin PurchaseRequests

VARIABLES
  request, rfq, order,   \* the documents
  record,                \* the idempotency records, by request and command
  call

workflowVars == <<request, rfq, order, record, call>>

\* lines: a number for each content the lines of a request have had;
\* approved: the one that was approved last.
NoRequest == [status |-> "none", version |-> 0, lines |-> 0, approved |-> 0]
NoRfq == [status |-> "none", source |-> None, version |-> 0, lines |-> 0]
NoOrder == NoRfq
NoCall == [at |-> "idle", command |-> "none", request |-> None, seen |-> 0]

Commands == {"create-rfq", "create-direct-po"}

WorkflowTypeOK ==
  /\ request \in [PurchaseRequests ->
       [status : {"none", "draft", "submitted", "approved", "rejected", "cancelled", "converted"},
        version : 0..MaxVersion, lines : 0..MaxVersion, approved : 0..MaxVersion]]
  /\ rfq \in [Rfqs ->
       [status : {"none", "draft", "open", "collecting_quotes", "closed", "cancelled"},
        source : PurchaseRequests \cup {None}, version : 0..MaxVersion, lines : 0..MaxVersion]]
  /\ order \in [PurchaseOrders ->
       [status : {"none", "draft", "pending_approval", "approved", "rejected", "issued", "cancelled"},
        source : PurchaseRequests \cup {None}, version : 0..MaxVersion, lines : 0..MaxVersion]]
  /\ record \in [PurchaseRequests \X Commands -> BOOLEAN]
  /\ call \in [Calls -> [at : {"idle", "transaction"}, command : Commands \cup {"none"},
                         request : PurchaseRequests \cup {None}, seen : 0..MaxVersion]]

WorkflowInit ==
  /\ request = [p \in PurchaseRequests |-> NoRequest]
  /\ rfq = [q \in Rfqs |-> NoRfq]
  /\ order = [o \in PurchaseOrders |-> NoOrder]
  /\ record = [c \in PurchaseRequests \X Commands |-> FALSE]
  /\ call = [c \in Calls |-> NoCall]

-----------------------------------------------------------------------------
\* Purchase requests

PR_TRANSITIONS == [
  none |-> {}, draft |-> {"submitted", "cancelled"},
  submitted |-> {"approved", "rejected", "draft", "cancelled"},
  approved |-> {"draft", "cancelled", "converted"},
  rejected |-> {}, cancelled |-> {}, converted |-> {}]

CreatePurchaseRequest(p) ==
  /\ request[p] = NoRequest
  /\ request' = [request EXCEPT ![p] = [status |-> "draft", version |-> 1, lines |-> 1, approved |-> 0]]
  /\ UNCHANGED <<rfq, order, record, call>>

\* Variant: what is not yet ordered can be edited.
EditableUntilConverted(p) == request[p].status \in {"draft", "submitted", "approved"}

Editable(p) == request[p].status = "draft"

UpdatePurchaseRequestDraft(p) ==
  /\ Editable(p)
  /\ request[p].version < MaxVersion
  /\ request' = [request EXCEPT ![p].lines = @ + 1, ![p].version = @ + 1]
  /\ UNCHANGED <<rfq, order, record, call>>

Transitioned(p, next) ==
  [request[p] EXCEPT !.status = next, !.version = @ + 1,
                     !.approved = IF next = "approved" THEN request[p].lines ELSE @]

\* The routes submit, approve, reject, withdraw and cancel; only the command that
\* creates orders converts.
TransitionPurchaseRequest(p, next) ==
  /\ next \in PR_TRANSITIONS[request[p].status] \ {"converted"}
  /\ request[p].version < MaxVersion
  /\ request' = [request EXCEPT ![p] = Transitioned(p, next)]
  /\ UNCHANGED <<rfq, order, record, call>>

-----------------------------------------------------------------------------
\* Sourcing

ActiveRfqs(p) == {q \in Rfqs : rfq[q].source = p /\ rfq[q].status \notin {"cancelled", "closed"}}
LiveOrders(p) == {o \in PurchaseOrders : order[o].source = p /\ order[o].status # "cancelled"}

(***************************************************************************)
(* A decision on the path is recorded on a request.  That it has no        *)
(* downstream documents is looked up in the copy of the repository, which  *)
(* may be from before they were created: no state refuses it for certain.  *)
(***************************************************************************)
RecordPathDecision(p) ==
  /\ request[p].status # "none"
  /\ request[p].version < MaxVersion
  /\ request' = [request EXCEPT ![p].version = @ + 1]
  /\ UNCHANGED <<rfq, order, record, call>>

\* The lookup: what the record holds is the answer, whatever became of it since.
LookUp(c, command, p) ==
  /\ call[c].at = "idle"
  /\ request[p].status # "none"
  /\ ~record[<<p, command>>]
  /\ \E seen \in 1..request[p].version :
       call' = [call EXCEPT ![c] = [at |-> "transaction", command |-> command, request |-> p,
                                    seen |-> seen]]
  /\ UNCHANGED <<request, rfq, order, record>>

\* assertVersion, in the transaction.
Seen(c) == call[c].seen = request[call[c].request].version

\* Variant: only a quotation that is being answered stands in the way.
NoRfqCollecting(p) == \A q \in ActiveRfqs(p) : rfq[q].status # "collecting_quotes"

NoRfqInTheWay(p) == ActiveRfqs(p) = {}

CanCreateRfq(c) ==
  LET p == call[c].request IN
  /\ call[c].at = "transaction" /\ call[c].command = "create-rfq"
  /\ Seen(c)
  /\ request[p].status = "approved"
  /\ LiveOrders(p) = {}
  /\ ActiveRfqs(p) = {}
  /\ request[p].version < MaxVersion

CreateRfqFromPurchaseRequest(c, q) ==
  LET p == call[c].request IN
  /\ CanCreateRfq(c)
  /\ rfq[q] = NoRfq
  /\ rfq' = [rfq EXCEPT ![q] = [status |-> "draft", source |-> p, version |-> 1,
                                lines |-> request[p].lines]]
  /\ request' = [request EXCEPT ![p].version = @ + 1]
  /\ record' = [record EXCEPT ![<<p, "create-rfq">>] = TRUE]
  /\ call' = [call EXCEPT ![c] = NoCall]
  /\ UNCHANGED order

\* Variant: a request stays approved until its orders are issued.
ConvertedLater(p) == [request[p] EXCEPT !.version = @ + 1]

Converted(p) == [request[p] EXCEPT !.status = "converted", !.version = @ + 1]

CanCreateDirectPo(c) ==
  LET p == call[c].request IN
  /\ call[c].at = "transaction" /\ call[c].command = "create-direct-po"
  /\ Seen(c)
  /\ LiveOrders(p) = {}
  /\ NoRfqInTheWay(p)
  /\ request[p].status = "approved"
  /\ request[p].version < MaxVersion

\* One order for each group of lines, all of them in the one write.
CreateDirectPoFromPurchaseRequest(c, created) ==
  LET p == call[c].request IN
  /\ CanCreateDirectPo(c)
  /\ Cardinality(created) = Groups[p]
  /\ \A o \in created : order[o] = NoOrder
  /\ order' = [o \in PurchaseOrders |->
       IF o \in created THEN [status |-> "draft", source |-> p, version |-> 1,
                              lines |-> request[p].lines]
       ELSE order[o]]
  /\ request' = [request EXCEPT ![p] = Converted(p)]
  /\ record' = [record EXCEPT ![<<p, "create-direct-po">>] = TRUE]
  /\ call' = [call EXCEPT ![c] = NoCall]
  /\ UNCHANGED rfq

\* The transaction refuses, or answers with the documents that exist already.
LeaveAsItIs(c) ==
  /\ call[c].at = "transaction"
  /\ ~CanCreateRfq(c) /\ ~CanCreateDirectPo(c)
  /\ call' = [call EXCEPT ![c] = NoCall]
  /\ UNCHANGED <<request, rfq, order, record>>

-----------------------------------------------------------------------------
\* The documents made

PO_TRANSITIONS == [
  none |-> {}, draft |-> {"pending_approval", "cancelled"},
  pending_approval |-> {"approved", "rejected", "draft", "cancelled"},
  approved |-> {"issued", "cancelled"}, rejected |-> {"draft"}, issued |-> {}, cancelled |-> {}]

TransitionPurchaseOrder(o, next) ==
  /\ next \in PO_TRANSITIONS[order[o].status]
  /\ order[o].version < MaxVersion
  /\ order' = [order EXCEPT ![o].status = next, ![o].version = @ + 1]
  /\ UNCHANGED <<request, rfq, record, call>>

RFQ_TRANSITIONS == [
  none |-> {}, draft |-> {"open", "cancelled"}, open |-> {"collecting_quotes", "cancelled"},
  collecting_quotes |-> {"closed", "cancelled"}, closed |-> {}, cancelled |-> {}]

TransitionRfq(q, next) ==
  /\ next \in RFQ_TRANSITIONS[rfq[q].status]
  /\ rfq[q].version < MaxVersion
  /\ rfq' = [rfq EXCEPT ![q].status = next, ![q].version = @ + 1]
  /\ UNCHANGED <<request, order, record, call>>

WorkflowNext ==
  \/ \E p \in PurchaseRequests :
       \/ CreatePurchaseRequest(p) \/ UpdatePurchaseRequestDraft(p) \/ RecordPathDecision(p)
       \/ \E next \in DOMAIN PR_TRANSITIONS : TransitionPurchaseRequest(p, next)
       \/ \E c \in Calls, command \in Commands : LookUp(c, command, p)
  \/ \E c \in Calls :
       \/ \E q \in Rfqs : CreateRfqFromPurchaseRequest(c, q)
       \/ \E created \in SUBSET PurchaseOrders : CreateDirectPoFromPurchaseRequest(c, created)
       \/ LeaveAsItIs(c)
  \/ \E o \in PurchaseOrders, next \in DOMAIN PO_TRANSITIONS : TransitionPurchaseOrder(o, next)
  \/ \E q \in Rfqs, next \in DOMAIN RFQ_TRANSITIONS : TransitionRfq(q, next)

WorkflowSpec == WorkflowInit /\ [][WorkflowNext]_workflowVars

-----------------------------------------------------------------------------
\* Properties

(***************************************************************************)
(* A request is sourced in one way at a time: quotations are not collected *)
(* for what is on order, and no two quotations run for one request,        *)
(* however the calls that create them race each other and cancellations.   *)
(***************************************************************************)
OneSourceAtATime ==
  \A p \in PurchaseRequests :
    /\ \A q, r \in ActiveRfqs(p) : q = r
    /\ ActiveRfqs(p) # {} => LiveOrders(p) = {}

(***************************************************************************)
(* A request is ordered once: the orders ever made from it are those of    *)
(* one command, one for each group of its lines, and exist exactly when    *)
(* the request is converted; cancelling orders does not let a late call    *)
(* order again.                                                            *)
(***************************************************************************)
OrderedOnce ==
  \A p \in PurchaseRequests :
    Cardinality({o \in PurchaseOrders : order[o].source = p})
      = IF request[p].status = "converted" THEN Groups[p] ELSE 0

(***************************************************************************)
(* What is ordered is what was approved: the lines of an order are those   *)
(* the request had when it was approved last, although requests are        *)
(* withdrawn, edited and approved again while calls are on their way.      *)
(***************************************************************************)
OrdersCarryApprovedLines ==
  \A o \in PurchaseOrders : order[o].source # None =>
    order[o].lines = request[order[o].source].approved
=============================================================================
