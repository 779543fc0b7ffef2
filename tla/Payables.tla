------------------------------ MODULE Payables ------------------------------
(***************************************************************************)
(* Procure to pay: supplier invoices against receiving lines, the three    *)
(* way match with its exceptions, the payable an approval makes, and the   *)
(* credit memos for goods sent back.                                       *)
(*                                                                         *)
(* An action is the commit of one command.  Lines are quantities and unit  *)
(* prices by receiving line, which fixes the purchase order line as well;  *)
(* taxes are left out of the amounts.  The goods themselves are Receiving  *)
(* and Returns: here a receiving document is posted until it is reversed,  *)
(* and so is a return.                                                     *)
(***************************************************************************)
EXTENDS Obligations

CONSTANTS
  ReceivingLines,
  ReceivingOf,       \* the receiving document of a line
  AcceptedQty,       \* the quantity a line accepted
  PoPrice,           \* the price its purchase order line agreed
  InvoiceDrafts,     \* the contents supplier invoices may have
  PricePercentageTolerance,   \* in whole percent of the price of an order line
  PriceAbsoluteTolerance, AmountTolerance, QuantityTolerance,
  SupplierReturns,   \* posted returns to suppliers, of one line each
  ReturnedLine, ReturnedQty,
  CreditMemos,
  MemoPrices,        \* prices a manager may review instead of the original one
  None

ASSUME PayablesAssumption ==
  /\ IsFiniteSet(ReceivingLines)
  /\ MemoPrices \subseteq Nat
  /\ AcceptedQty \in [ReceivingLines -> Nat]
  /\ PoPrice \in [ReceivingLines -> Nat]
  /\ PricePercentageTolerance \in Nat /\ PriceAbsoluteTolerance \in Nat
  /\ \A d \in InvoiceDrafts : d.quantity \in [ReceivingLines -> Nat]
                              /\ d.price \in [ReceivingLines -> Nat]
  /\ ReturnedLine \in [SupplierReturns -> ReceivingLines]
  /\ ReturnedQty \in [SupplierReturns -> Nat]

VARIABLES
  invoice,          \* supplier invoices
  exception,        \* the match exception of a line and a kind
  memo,
  received,         \* receiving documents: posted or reversed
  returned          \* supplier returns: posted or reversed

payablesVars == <<obligation, invoice, exception, memo, received, returned>>

Receivings == {ReceivingOf[l] : l \in ReceivingLines}
ExceptionKinds == {"quantity", "price", "amount"}

NoLines == [quantity |-> [l \in ReceivingLines |-> 0], price |-> [l \in ReceivingLines |-> 0]]
NoInvoice == [status |-> "none", lines |-> NoLines]
NoMemo == [status |-> "none", invoice |-> None, return |-> None, quantity |-> 0, price |-> 0]
NoExceptions == [k \in ReceivingLines \X ExceptionKinds |-> "none"]

PayablesTypeOK ==
  /\ ObligationsTypeOK
  /\ invoice \in [SupplierInvoices ->
       [status : {"none", "draft", "submitted", "exception", "matched", "approved", "held"},
        lines : InvoiceDrafts \cup {NoLines}]]
  /\ exception \in [SupplierInvoices ->
       [ReceivingLines \X ExceptionKinds -> {"none", "open", "approved", "rejected"}]]
  /\ memo \in [CreditMemos ->
       [status : {"none", "draft", "approved"}, invoice : SupplierInvoices \cup {None},
        return : SupplierReturns \cup {None}, quantity : Nat, price : Nat]]
  /\ received \in [Receivings -> {"posted", "reversed"}]
  /\ returned \in [SupplierReturns -> {"posted", "reversed"}]

PayablesRest ==
  /\ invoice = [i \in SupplierInvoices |-> NoInvoice]
  /\ exception = [i \in SupplierInvoices |-> NoExceptions]
  /\ memo = [m \in CreditMemos |-> NoMemo]
  /\ received = [r \in Receivings |-> "posted"]
  /\ returned = [r \in SupplierReturns |-> "posted"]

-----------------------------------------------------------------------------
\* Invoices

LinesOf(d) == {l \in ReceivingLines : d.quantity[l] > 0}
Amount(d) == Total([l \in ReceivingLines |-> d.quantity[l] * d.price[l]])

\* What other invoices in one of the statuses have taken of a line.
Invoiced(l, i, statuses) ==
  Total([j \in SupplierInvoices \ {i} |->
    IF invoice[j].status \in statuses THEN invoice[j].lines.quantity[l] ELSE 0])

Matching == {"matching", "exception", "matched", "approved", "held"}

\* Variant: submission looks at the invoices that matching looks at.
ConsumingOnceMatched == Matching

Consuming == {"submitted"} \cup Matching

SourcesValid(d) ==
  \A l \in LinesOf(d) : received[ReceivingOf[l]] = "posted"

\* buildSupplierInvoicePlan: drafts of others count at submission only.
InvoicePlanAllowed(d, i, statuses) ==
  /\ LinesOf(d) # {}
  /\ Cardinality({ReceivingOf[l] : l \in LinesOf(d)}) = 1
  /\ SourcesValid(d)
  /\ \A l \in LinesOf(d) : d.quantity[l] + Invoiced(l, i, statuses) <= AcceptedQty[l]

CreateSupplierInvoice(i, d) ==
  /\ invoice[i].status = "none"
  /\ InvoicePlanAllowed(d, i, {})
  /\ invoice' = [invoice EXCEPT ![i] = [status |-> "draft", lines |-> d]]
  /\ UNCHANGED <<obligation, exception, memo, received, returned>>

Revisable(i) == invoice[i].status = "draft"

ReviseSupplierInvoice(i, d) ==
  /\ Revisable(i)
  /\ InvoicePlanAllowed(d, i, {})
  /\ invoice' = [invoice EXCEPT ![i].lines = d]
  /\ UNCHANGED <<obligation, exception, memo, received, returned>>

SubmitSupplierInvoice(i) ==
  /\ invoice[i].status = "draft"
  /\ InvoicePlanAllowed(invoice[i].lines, i, Consuming)
  /\ invoice' = [invoice EXCEPT ![i].status = "submitted"]
  /\ UNCHANGED <<obligation, exception, memo, received, returned>>

Distance(a, b) == IF a > b THEN a - b ELSE b - a

\* Variant: the prices of an invoice are compared in total.
OutOfToleranceInTotal(i, l, kind) ==
  LET d == invoice[i].lines
  IN kind # "quantity" /\ l \in LinesOf(d)
     /\ Distance(Amount(d), Total([k \in ReceivingLines |-> d.quantity[k] * PoPrice[k]]))
          > AmountTolerance

\* The larger of the two tolerances: a percentage of the price of the line, and an amount.
PriceThreshold(l) ==
  LET percentage == (PoPrice[l] * PricePercentageTolerance) \div 100
  IN  IF percentage > PriceAbsoluteTolerance THEN percentage ELSE PriceAbsoluteTolerance

\* The variances of one line of an invoice, each against its own tolerance.
OutOfTolerance(i, l, kind) ==
  LET d == invoice[i].lines
  IN /\ l \in LinesOf(d)
     /\ CASE kind = "quantity" ->
               d.quantity[l] > AcceptedQty[l] - Invoiced(l, i, Matching) + QuantityTolerance
          [] kind = "price" -> Distance(d.price[l], PoPrice[l]) > PriceThreshold(l)
          [] kind = "amount" ->
               Distance(d.quantity[l] * d.price[l], d.quantity[l] * PoPrice[l]) > AmountTolerance

MatchSupplierInvoice(i) ==
  /\ invoice[i].status = "submitted"
  /\ SourcesValid(invoice[i].lines)
  /\ exception' = [exception EXCEPT ![i] = [k \in ReceivingLines \X ExceptionKinds |->
       IF OutOfTolerance(i, k[1], k[2]) THEN "open" ELSE "none"]]
  /\ invoice' = [invoice EXCEPT ![i].status =
       IF exception'[i] = NoExceptions THEN "matched" ELSE "exception"]
  /\ UNCHANGED <<obligation, memo, received, returned>>

ReviewMatchException(i, k, decision) ==
  /\ exception[i][k] = "open"
  /\ exception' = [exception EXCEPT ![i][k] = decision]
  /\ UNCHANGED <<obligation, invoice, memo, received, returned>>

Reviewed(i) == \A k \in DOMAIN exception[i] : exception[i][k] \notin {"open", "rejected"}

ApproveSupplierInvoice(i) ==
  /\ invoice[i].status \in {"matched", "exception"}
  /\ Reviewed(i)
  /\ invoice' = [invoice EXCEPT ![i].status = "approved"]
  /\ obligation' = [obligation EXCEPT ![i] = Owed(Amount(invoice[i].lines), "approved")]
  /\ UNCHANGED <<exception, memo, received, returned>>

-----------------------------------------------------------------------------
\* Payables

\* The status of a payable decides; the invoice follows it.
ChangePayableStatus(i, from, to) ==
  /\ obligation[i].status \in from
  /\ obligation' = [obligation EXCEPT ![i].status = to]
  /\ invoice' = [invoice EXCEPT ![i].status = IF to = "held" THEN "held" ELSE "approved"]
  /\ UNCHANGED <<exception, memo, received, returned>>

\* Variant: anything unsettled can be held.
HoldPartlySettled(i) ==
  ChangePayableStatus(i, {"approved", "export_ready", "partially_settled"}, "held")

Hold(i) == ChangePayableStatus(i, {"approved", "export_ready"}, "held")
Release(i) == ChangePayableStatus(i, {"held"}, "approved")
MarkExportReady(i) == ChangePayableStatus(i, {"approved"}, "export_ready")

-----------------------------------------------------------------------------
\* Credit memos

MemoAmount(m) == memo[m].quantity * memo[m].price

\* What memos have credited of an invoice line for a return.
CreditedPair(i, r) ==
  Total([m \in CreditMemos |->
    IF memo[m].status # "none" /\ memo[m].invoice = i /\ memo[m].return = r
      THEN memo[m].quantity ELSE 0])

\* buildSupplierCreditMemoPlan: the limits hold for the pair of an invoice
\* line and a return line; the invoice may have any status.
MemoPlanAllowed(i, r, quantity) ==
  /\ returned[r] = "posted"
  /\ ReturnedLine[r] \in LinesOf(invoice[i].lines)
  /\ quantity + CreditedPair(i, r) <= ReturnedQty[r]
  /\ quantity + CreditedPair(i, r) <= invoice[i].lines.quantity[ReturnedLine[r]]

CreateSupplierCreditMemo(m, i, r, quantity, price) ==
  /\ memo[m].status = "none"
  /\ invoice[i].status # "none"
  /\ MemoPlanAllowed(i, r, quantity)
  /\ price \in MemoPrices \cup {invoice[i].lines.price[ReturnedLine[r]]}
  /\ memo' = [memo EXCEPT ![m] = [status |-> "draft", invoice |-> i, return |-> r,
                                  quantity |-> quantity, price |-> price]]
  /\ UNCHANGED <<obligation, invoice, exception, received, returned>>

\* The return is not looked at again.
ApproveSupplierCreditMemo(m) ==
  /\ memo[m].status = "draft"
  /\ Creditable(memo[m].invoice, MemoAmount(m))
  /\ obligation' = Credited(memo[m].invoice, MemoAmount(m))
  /\ memo' = [memo EXCEPT ![m].status = "approved"]
  /\ UNCHANGED <<invoice, exception, received, returned>>

-----------------------------------------------------------------------------
\* The documents invoices and memos refer to.  Their reversals look at stock and
\* at later returns, never at finance: here they may happen at any time.

ReverseReceiving(r) ==
  /\ received[r] = "posted"
  /\ received' = [received EXCEPT ![r] = "reversed"]
  /\ UNCHANGED <<obligation, invoice, exception, memo, returned>>

ReverseSupplierReturn(r) ==
  /\ returned[r] = "posted"
  /\ returned' = [returned EXCEPT ![r] = "reversed"]
  /\ UNCHANGED <<obligation, invoice, exception, memo, received>>

-----------------------------------------------------------------------------
InvoiceNext(i) ==
  \/ \E d \in InvoiceDrafts : CreateSupplierInvoice(i, d) \/ ReviseSupplierInvoice(i, d)
  \/ SubmitSupplierInvoice(i)
  \/ MatchSupplierInvoice(i)
  \/ \E k \in ReceivingLines \X ExceptionKinds, decision \in {"approved", "rejected"} :
       ReviewMatchException(i, k, decision)
  \/ ApproveSupplierInvoice(i)
  \/ Hold(i)
  \/ Release(i)
  \/ MarkExportReady(i)

MemoNext(m) ==
  \/ \E i \in SupplierInvoices, r \in SupplierReturns :
       \E quantity \in 1..ReturnedQty[r],
          price \in MemoPrices \cup {invoice[i].lines.price[ReturnedLine[r]]} :
         CreateSupplierCreditMemo(m, i, r, quantity, price)
  \/ ApproveSupplierCreditMemo(m)

PayablesNext ==
  \/ \E i \in SupplierInvoices : InvoiceNext(i)
  \/ \E m \in CreditMemos : MemoNext(m)
  \/ \E r \in Receivings : ReverseReceiving(r)
  \/ \E r \in SupplierReturns : ReverseSupplierReturn(r)

-----------------------------------------------------------------------------
\* Properties

(***************************************************************************)
(* Suppliers are not paid for goods that never came: the invoices that     *)
(* were submitted, whatever has become of them, never add up to more of a  *)
(* receiving line than it accepted.  Drafts overlap freely; submissions    *)
(* of two of them race for the line.                                       *)
(***************************************************************************)
InvoicedWithinReceived ==
  \A l \in ReceivingLines :
    Total([i \in SupplierInvoices |->
      IF invoice[i].status \in {"none", "draft"} THEN 0 ELSE invoice[i].lines.quantity[l]])
        <= AcceptedQty[l]

(***************************************************************************)
(* A price a supplier charges is within one of the two tolerances of the   *)
(* price its order line agreed, or somebody has accepted it: nothing       *)
(* becomes payable while a line deviates by more than the amount and by    *)
(* more than the percentage and its review is open or was refused, even    *)
(* when the deviations of two lines cancel out in the total.               *)
(***************************************************************************)
NothingPayableUnreviewed ==
  \A i \in SupplierInvoices : Exists(i) =>
    \A l \in LinesOf(invoice[i].lines) :
      LET deviation == Distance(invoice[i].lines.price[l], PoPrice[l])
      IN  /\ deviation > PriceAbsoluteTolerance
          /\ deviation * 100 > PoPrice[l] * PricePercentageTolerance
          => exception[i][<<l, "price">>] = "approved"
=============================================================================
