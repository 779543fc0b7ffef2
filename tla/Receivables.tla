----------------------------- MODULE Receivables -----------------------------
(***************************************************************************)
(* Order to cash: customer invoices for shipped goods, the receivable the  *)
(* issue of one makes, its disputes, and credit notes for goods customers  *)
(* have returned.                                                          *)
(*                                                                         *)
(* An action is the commit of one command.  Lines are quantities by        *)
(* shipment line; their prices are those of the sales order.  Shipments    *)
(* and returns are Outbound and Returns: here they are posted until they   *)
(* are reversed.                                                           *)
(***************************************************************************)
EXTENDS Obligations

CONSTANTS
  ShipmentLines,
  ShipmentOf,         \* the shipment of a line
  ShippedQty,         \* the quantity a line posted
  SalesPrice,         \* the price of its sales order line
  CustomerDrafts,     \* the lines customer invoices may have
  CustomerReturns,    \* posted customer returns, of one line each
  CustomerReturnLine, CustomerReturnQty,
  CreditNotes,
  NotePrices,         \* prices a manager may review instead of the original one
  NoOne

ASSUME ReceivablesAssumption ==
  /\ IsFiniteSet(ShipmentLines)
  /\ NotePrices \subseteq Nat
  /\ ShippedQty \in [ShipmentLines -> Nat]
  /\ SalesPrice \in [ShipmentLines -> Nat]
  /\ CustomerDrafts \subseteq [ShipmentLines -> Nat]
  /\ CustomerReturnLine \in [CustomerReturns -> ShipmentLines]
  /\ CustomerReturnQty \in [CustomerReturns -> Nat]

VARIABLES
  customerInvoice,
  note,
  pastDue,         \* the due date of an invoice has passed
  referenced,      \* an external reference was recorded for its receivable
  shipped,         \* shipments: posted or reversed
  receivedBack     \* customer returns: posted or reversed

documentVars == <<shipped, receivedBack>>
receivablesVars ==
  <<obligation, customerInvoice, note, pastDue, referenced, documentVars>>

Shipments == {ShipmentOf[l] : l \in ShipmentLines}

Nought == [l \in ShipmentLines |-> 0]
NoCustomerInvoice == [status |-> "none", quantity |-> Nought]
NoNote == [status |-> "none", invoice |-> NoOne, return |-> NoOne, quantity |-> 0, price |-> 0]

ReceivablesTypeOK ==
  /\ ObligationsTypeOK
  /\ customerInvoice \in [CustomerInvoices ->
       [status : {"none", "draft", "submitted", "approved", "issued"},
        quantity : CustomerDrafts \cup {Nought}]]
  /\ note \in [CreditNotes ->
       [status : {"none", "draft", "approved"}, invoice : CustomerInvoices \cup {NoOne},
        return : CustomerReturns \cup {NoOne}, quantity : Nat, price : Nat]]
  /\ pastDue \in [CustomerInvoices -> BOOLEAN]
  /\ referenced \in [CustomerInvoices -> BOOLEAN]
  /\ shipped \in [Shipments -> {"posted", "reversed"}]
  /\ receivedBack \in [CustomerReturns -> {"posted", "reversed"}]

ReceivablesRest ==
  /\ customerInvoice = [i \in CustomerInvoices |-> NoCustomerInvoice]
  /\ note = [n \in CreditNotes |-> NoNote]
  /\ pastDue = [i \in CustomerInvoices |-> FALSE]
  /\ referenced = [i \in CustomerInvoices |-> FALSE]
  /\ shipped = [s \in Shipments |-> "posted"]
  /\ receivedBack = [r \in CustomerReturns |-> "posted"]

-----------------------------------------------------------------------------
\* Invoices

ShipmentLinesOf(q) == {l \in ShipmentLines : q[l] > 0}
CustomerAmount(q) == Total([l \in ShipmentLines |-> q[l] * SalesPrice[l]])

Billed == {"submitted", "approved", "issued"}

\* Variant: an invoice counts once it is approved.
PreviouslyApproved(l, i) ==
  Total([j \in CustomerInvoices \ {i} |->
    IF customerInvoice[j].status \in {"approved", "issued"}
      THEN customerInvoice[j].quantity[l] ELSE 0])

\* What other invoices have billed of a line.
PreviouslyBilled(l, i) ==
  Total([j \in CustomerInvoices \ {i} |->
    IF customerInvoice[j].status \in Billed THEN customerInvoice[j].quantity[l] ELSE 0])

\* buildCustomerInvoicePlan: only a submission consumes what was shipped.
CustomerPlanAllowed(q, i, consume) ==
  /\ Cardinality({ShipmentOf[l] : l \in ShipmentLinesOf(q)}) = 1
  /\ \A l \in ShipmentLinesOf(q) :
       /\ shipped[ShipmentOf[l]] = "posted"
       /\ q[l] + (IF consume THEN PreviouslyBilled(l, i) ELSE 0) <= ShippedQty[l]

CreateCustomerInvoice(i, q) ==
  /\ customerInvoice[i].status = "none"
  /\ CustomerPlanAllowed(q, i, FALSE)
  /\ customerInvoice' = [customerInvoice EXCEPT ![i] = [status |-> "draft", quantity |-> q]]
  /\ UNCHANGED <<obligation, note, pastDue, referenced, documentVars>>

SubmitCustomerInvoice(i) ==
  /\ customerInvoice[i].status = "draft"
  /\ CustomerPlanAllowed(customerInvoice[i].quantity, i, TRUE)
  /\ customerInvoice' = [customerInvoice EXCEPT ![i].status = "submitted"]
  /\ UNCHANGED <<obligation, note, pastDue, referenced, documentVars>>

ApproveCustomerInvoice(i) ==
  /\ customerInvoice[i].status = "submitted"
  /\ customerInvoice' = [customerInvoice EXCEPT ![i].status = "approved"]
  /\ UNCHANGED <<obligation, note, pastDue, referenced, documentVars>>

Issuable(i) == customerInvoice[i].status = "approved"

IssueCustomerInvoice(i) ==
  /\ Issuable(i)
  /\ customerInvoice' = [customerInvoice EXCEPT ![i].status = "issued"]
  /\ obligation' = [obligation EXCEPT ![i] =
       Owed(CustomerAmount(customerInvoice[i].quantity), "open")]
  /\ UNCHANGED <<note, pastDue, referenced, documentVars>>

DueDatePasses(i) ==
  /\ ~pastDue[i]
  /\ customerInvoice[i].status # "none"
  /\ pastDue' = [pastDue EXCEPT ![i] = TRUE]
  /\ UNCHANGED <<obligation, customerInvoice, note, referenced, documentVars>>

-----------------------------------------------------------------------------
\* Receivables

Disputable(i) == obligation[i].status \in {"open", "overdue"}

DisputeReceivable(i) ==
  /\ Disputable(i)
  /\ obligation' = [obligation EXCEPT ![i].status = "disputed", ![i].dispute = "open"]
  /\ UNCHANGED <<customerInvoice, note, pastDue, referenced, documentVars>>

\* Variant: the resolution leaves the status for the aging report to decide.
AfterDisputeUnlessDue(i) == IF pastDue[i] THEN "disputed" ELSE "open"

AfterDispute(i) == IF pastDue[i] THEN "overdue" ELSE "open"

ResolveReceivableDispute(i) ==
  /\ obligation[i].dispute = "open"
  /\ obligation' = [obligation EXCEPT ![i].status = AfterDispute(i), ![i].dispute = "resolved"]
  /\ UNCHANGED <<customerInvoice, note, pastDue, referenced, documentVars>>

RecordExternalSettlementReference(i) ==
  /\ Exists(i)
  /\ referenced' = [referenced EXCEPT ![i] = TRUE]
  /\ UNCHANGED <<obligation, customerInvoice, note, pastDue, documentVars>>

-----------------------------------------------------------------------------
\* Credit notes

NoteAmount(n) == note[n].quantity * note[n].price

\* What notes have credited of an invoice line for a return.
NotedPair(i, r) ==
  Total([n \in CreditNotes |->
    IF note[n].status # "none" /\ note[n].invoice = i /\ note[n].return = r
      THEN note[n].quantity ELSE 0])

\* buildCustomerCreditNotePlan: the limits hold for the pair of an invoice
\* line and a return line.
NotePlanAllowed(i, r, quantity) ==
  /\ customerInvoice[i].status \in {"approved", "issued"}
  /\ receivedBack[r] = "posted"
  /\ CustomerReturnLine[r] \in ShipmentLinesOf(customerInvoice[i].quantity)
  /\ quantity + NotedPair(i, r) <= CustomerReturnQty[r]
  /\ quantity + NotedPair(i, r) <= customerInvoice[i].quantity[CustomerReturnLine[r]]

CreateCustomerCreditNote(n, i, r, quantity, price) ==
  /\ note[n].status = "none"
  /\ NotePlanAllowed(i, r, quantity)
  /\ note' = [note EXCEPT ![n] = [status |-> "draft", invoice |-> i, return |-> r,
                                  quantity |-> quantity, price |-> price]]
  /\ UNCHANGED <<obligation, customerInvoice, pastDue, referenced, documentVars>>

\* Without a receivable the note is approved, and nothing else happens.
ApproveCustomerCreditNote(n) ==
  /\ note[n].status = "draft"
  /\ Creditable(note[n].invoice, NoteAmount(n))
  /\ obligation' = Credited(note[n].invoice, NoteAmount(n))
  /\ note' = [note EXCEPT ![n].status = "approved"]
  /\ UNCHANGED <<customerInvoice, pastDue, referenced, documentVars>>

-----------------------------------------------------------------------------
\* Reversals of the documents, which look at stock and at later returns, never at
\* finance: here they may happen at any time.

ReverseShipment(s) ==
  /\ shipped[s] = "posted"
  /\ shipped' = [shipped EXCEPT ![s] = "reversed"]
  /\ UNCHANGED <<obligation, customerInvoice, note, pastDue, referenced, receivedBack>>

ReverseCustomerReturn(r) ==
  /\ receivedBack[r] = "posted"
  /\ receivedBack' = [receivedBack EXCEPT ![r] = "reversed"]
  /\ UNCHANGED <<obligation, customerInvoice, note, pastDue, referenced, shipped>>

-----------------------------------------------------------------------------
CustomerInvoiceNext(i) ==
  \/ \E q \in CustomerDrafts : CreateCustomerInvoice(i, q)
  \/ SubmitCustomerInvoice(i)
  \/ ApproveCustomerInvoice(i)
  \/ IssueCustomerInvoice(i)
  \/ DueDatePasses(i)
  \/ DisputeReceivable(i)
  \/ ResolveReceivableDispute(i)
  \/ RecordExternalSettlementReference(i)

NoteNext(n) ==
  \/ \E i \in CustomerInvoices, r \in CustomerReturns :
       \E quantity \in 1..CustomerReturnQty[r],
          price \in NotePrices \cup {SalesPrice[CustomerReturnLine[r]]} :
         CreateCustomerCreditNote(n, i, r, quantity, price)
  \/ ApproveCustomerCreditNote(n)

DocumentNext ==
  \/ \E s \in Shipments : ReverseShipment(s)
  \/ \E r \in CustomerReturns : ReverseCustomerReturn(r)

ReceivablesNext ==
  \/ \E i \in CustomerInvoices : CustomerInvoiceNext(i)
  \/ \E n \in CreditNotes : NoteNext(n)
  \/ DocumentNext

-----------------------------------------------------------------------------
\* Properties

(***************************************************************************)
(* Nothing is billed twice: the invoices that were submitted for a         *)
(* shipment line never add up to more than it shipped, though drafts may,  *)
(* and though submissions race.                                            *)
(***************************************************************************)
BilledWithinShipped ==
  \A l \in ShipmentLines :
    Total([i \in CustomerInvoices |->
      IF customerInvoice[i].status \in {"none", "draft"} THEN 0
      ELSE customerInvoice[i].quantity[l]]) <= ShippedQty[l]

(***************************************************************************)
(* The status and the state of the dispute say the same: a receivable is   *)
(* disputed exactly while its dispute is open, whether or not it falls due *)
(* meanwhile.                                                              *)
(***************************************************************************)
DisputesAgree ==
  \A i \in CustomerInvoices :
    obligation[i].status = "disputed" <=> obligation[i].dispute = "open"
=============================================================================
