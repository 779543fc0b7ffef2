---------------------------- MODULE FinanceProofs ----------------------------
(***************************************************************************)
(* Theorems about FinanceFlow: invoices, credits, disputes and holds       *)
(* together with the cashbook, for every set of invoices, drafts, credits, *)
(* settlements, applications, accounts and people, and every policy.       *)
(***************************************************************************)
EXTENDS FinanceFlow, QuantityLemmas

-----------------------------------------------------------------------------
\* The inductive invariant

\* An obligation is made by the approval or the issue of its invoice.
PayablesAreInvoiced ==
  \A i \in SupplierInvoices :
    invoice[i].status \notin {"approved", "held"} => obligation[i] = NoObligation
ReceivablesAreInvoiced ==
  \A i \in CustomerInvoices :
    customerInvoice[i].status # "issued" => obligation[i] = NoObligation

ObligationsInv ==
  /\ PayablesAreInvoiced /\ ReceivablesAreInvoiced /\ DisputesAgree
  /\ OutstandingIsExplained /\ StatusTellsWhatIsPaid

(***************************************************************************)
(* A match leaves a mark on each line whose price deviates, and what is    *)
(* approved has no mark that is open or refused.                           *)
(***************************************************************************)
Deviates(i, l) ==
  LET deviation == Distance(invoice[i].lines.price[l], PoPrice[l])
  IN  /\ deviation > PriceAbsoluteTolerance
      /\ deviation * 100 > PoPrice[l] * PricePercentageTolerance
Marked(i) ==
  /\ invoice[i].status \in {"exception", "matched", "approved", "held"} =>
       \A l \in LinesOf(invoice[i].lines) : Deviates(i, l) => exception[i][<<l, "price">>] # "none"
  /\ invoice[i].status \in {"approved", "held"} => Reviewed(i)
DeviationsAreMarked == \A i \in SupplierInvoices : Marked(i)

\* A draft of a memo or a note names the invoice it credits.
MemosAreNamed == \A m \in CreditMemos : memo[m].status = "draft" => memo[m].invoice \in SupplierInvoices
NotesAreNamed == \A n \in CreditNotes : note[n].status = "draft" => note[n].invoice \in CustomerInvoices

PayablesInv == PayablesTypeOK /\ MemosAreNamed /\ DeviationsAreMarked /\ InvoicedWithinReceived
ReceivablesInv == ReceivablesTypeOK /\ NotesAreNamed /\ BilledWithinShipped

\* The two states of a document agree.
Consistent(d) ==
  /\ d.workflow = "posted" <=> d.posting = "posted"
  /\ d.workflow = "reversed" <=> d.posting = "reversed"

(***************************************************************************)
(* A settlement that exists has one of the instructions, and an advance    *)
(* only if it has been posted; the advance can be used while it stands.    *)
(***************************************************************************)
SettlementsAreNamed ==
  \A s \in Settlements :
    /\ Consistent(settlement[s].document)
    /\ settlement[s].document.workflow # "none" => settlement[s].instruction \in Instructions
    /\ settlement[s].document.posting = "unposted" => advance[s] = NoAdvance
    /\ advance[s].status \notin {"none", "reversed"} => settlement[s].document.posting = "posted"

\* An application that exists takes something from an advance for an obligation.
ApplicationsAreNamed ==
  \A x \in Applications :
    /\ Consistent(application[x].document)
    /\ application[x].document.workflow # "none" =>
         /\ application[x].advance \in Settlements /\ application[x].invoice \in Invoices
         /\ application[x].amount > 0

\* A transfer that exists has an order.
TransfersAreNamed ==
  \A t \in Transfers :
    /\ Consistent(transfer[t].document)
    /\ transfer[t].document.workflow # "none" => transfer[t].order \in TransferOrders

CashbookInv ==
  /\ SettlementTypeOK /\ SettlementsAreNamed /\ ApplicationsAreNamed /\ TransfersAreNamed
  /\ AdvancesAreConserved

FinanceInv == ObligationsInv /\ PayablesInv /\ ReceivablesInv /\ CashbookInv

-----------------------------------------------------------------------------
\* Each side keeps its part while another side takes a step.

LEMMA PayablesFrame ==
  ASSUME PayablesInv, UNCHANGED payablesRest, ObligationsTypeOK'
  PROVE  PayablesInv'
<1>1. PayablesTypeOK'
  BY DEF PayablesInv, payablesRest, PayablesTypeOK
<1>2. MemosAreNamed'
  BY DEF PayablesInv, payablesRest, MemosAreNamed
<1>3. DeviationsAreMarked'
  BY DEF PayablesInv, payablesRest, DeviationsAreMarked, Marked, Deviates, Reviewed
<1>4. InvoicedWithinReceived'
  BY DEF PayablesInv, payablesRest, InvoicedWithinReceived
<1>5. QED
  BY <1>1, <1>2, <1>3, <1>4 DEF PayablesInv

LEMMA ReceivablesFrame ==
  ASSUME ReceivablesInv, UNCHANGED receivablesRest, ObligationsTypeOK'
  PROVE  ReceivablesInv'
BY DEF ReceivablesInv, receivablesRest, documentVars, ReceivablesTypeOK, NotesAreNamed, BilledWithinShipped

LEMMA CashbookFrame ==
  ASSUME CashbookInv, UNCHANGED settlementRest, ObligationsTypeOK'
  PROVE  CashbookInv'
BY DEF CashbookInv, settlementRest, cashVars, SettlementTypeOK, SettlementsAreNamed,
       ApplicationsAreNamed, TransfersAreNamed, AdvancesAreConserved

PaidStatus == {"partially_settled", "settled"}

\* Nothing is paid or taken back of obligation i.
PaymentStays(i) ==
  /\ Maximum(i)' - obligation'[i].outstanding = Maximum(i) - obligation[i].outstanding
  /\ obligation'[i].status \in PaidStatus <=> obligation[i].status \in PaidStatus

\* What settlements and advances have paid is a natural number.
LEMMA PaidNat ==
  ASSUME SettlementTypeOK, NEW i \in Invoices
  PROVE  PaidBySettlements(i) \in Nat /\ PaidByAdvances(i) \in Nat
<1> DEFINE q == [s \in Settlements |->
      IF settlement[s].document.posting = "posted"
        THEN settlement[s].instruction.cash[i] + settlement[s].instruction.discount[i] ELSE 0]
           r == [x \in Applications |->
      IF application[x].document.posting = "posted" /\ application[x].invoice = i
        THEN application[x].amount ELSE 0]
<1>1. ASSUME NEW n \in Instructions \cup {NoInstruction}
      PROVE  n.cash[i] \in Nat /\ n.discount[i] \in Nat
  BY SettlementAssumption DEF NoInstruction
<1>2. \A s \in Settlements : settlement[s].instruction \in Instructions \cup {NoInstruction}
  BY DEF SettlementTypeOK
<1>3. q \in [Settlements -> Nat]
  BY <1>1, <1>2
<1>4. r \in [Applications -> Nat]
  BY DEF SettlementTypeOK
<1> HIDE DEF q, r
<1>5. Total(q) \in Nat /\ Total(r) \in Nat
  BY <1>3, <1>4, TotalNat, SettlementAssumption
<1>6. QED
  BY <1>5 DEF PaidBySettlements, PaidByAdvances, q, r

\* Obligations that change without a payment stay explained.
LEMMA PaymentsStay ==
  ASSUME SettlementTypeOK, ObligationsTypeOK', OutstandingIsExplained, StatusTellsWhatIsPaid,
         UNCHANGED settlementRest, \A i \in Invoices : PaymentStays(i)
  PROVE  OutstandingIsExplained' /\ StatusTellsWhatIsPaid'
<1> USE DEF PaidStatus
<1>1. ASSUME NEW i \in Invoices
      PROVE  /\ PaidBySettlements(i)' = PaidBySettlements(i)
             /\ PaidByAdvances(i)' = PaidByAdvances(i)
  BY DEF PaidBySettlements, PaidByAdvances, settlementRest
<1>2. ASSUME NEW i \in Invoices
      PROVE  /\ obligation[i].outstanding \in Nat /\ obligation[i].original \in Nat
             /\ obligation[i].credit \in Nat
             /\ obligation'[i].outstanding \in Nat /\ obligation'[i].original \in Nat
             /\ obligation'[i].credit \in Nat
  BY DEF ObligationsTypeOK, SettlementTypeOK, ObligationRow, Invoices
<1>3. OutstandingIsExplained'
  <2> SUFFICES ASSUME NEW i \in Invoices
               PROVE  obligation'[i].outstanding + PaidBySettlements(i)' + PaidByAdvances(i)' = Maximum(i)'
    BY DEF OutstandingIsExplained
  <2>1. obligation[i].outstanding + PaidBySettlements(i) + PaidByAdvances(i) = Maximum(i)
    BY DEF OutstandingIsExplained
  <2>2. Maximum(i)' - obligation'[i].outstanding = Maximum(i) - obligation[i].outstanding
    BY DEF PaymentStays
  <2>3. Maximum(i) \in Int /\ Maximum(i)' \in Int
    BY <1>2 DEF Maximum
  <2>4. PaidBySettlements(i) \in Nat /\ PaidByAdvances(i) \in Nat
    BY PaidNat
  <2>5. QED
    BY <1>1, <1>2, <2>1, <2>2, <2>3, <2>4
<1>4. StatusTellsWhatIsPaid'
  BY <1>1 DEF StatusTellsWhatIsPaid, PaymentStays
<1>5. QED
  BY <1>3, <1>4


-----------------------------------------------------------------------------
\* Payables

InvoiceRow ==
  [status : {"none", "draft", "submitted", "exception", "matched", "approved", "held"},
   lines : InvoiceDrafts \cup {NoLines}]

LEMMA InvoiceRows ==
  PayablesTypeOK => invoice \in [SupplierInvoices -> InvoiceRow] /\ \A i \in SupplierInvoices : invoice[i] \in InvoiceRow
BY DEF PayablesTypeOK, InvoiceRow

ExceptionRow == [ReceivingLines \X ExceptionKinds -> {"none", "open", "approved", "rejected"}]

\* What a command makes of the status of invoice i.
StatusWritten(i, status) ==
  /\ invoice'[i].status = status /\ invoice'[i].lines = invoice[i].lines
  /\ \A j \in SupplierInvoices \ {i} : invoice'[j] = invoice[j]

LEMMA InvoiceStatus ==
  ASSUME PayablesTypeOK, ObligationsTypeOK', NEW i \in SupplierInvoices,
         NEW status \in {"submitted", "exception", "matched", "approved", "held"},
         invoice' = [invoice EXCEPT ![i].status = status],
         exception' \in [SupplierInvoices -> ExceptionRow],
         UNCHANGED <<memo, received, returned>>
  PROVE  PayablesTypeOK' /\ StatusWritten(i, status)
<1>1. invoice \in [SupplierInvoices -> InvoiceRow] /\ invoice[i] \in InvoiceRow
  BY InvoiceRows
<1>2. invoice' \in [SupplierInvoices -> InvoiceRow] /\ StatusWritten(i, status)
  BY <1>1 DEF InvoiceRow, StatusWritten
<1>3. QED
  BY <1>2 DEF PayablesTypeOK, InvoiceRow, ExceptionRow

\* An invoice keeps its marks while it is not touched.
LEMMA MarkKept ==
  ASSUME NEW i \in SupplierInvoices, Marked(i),
         invoice'[i] = invoice[i], exception'[i] = exception[i]
  PROVE  Marked(i)'
BY DEF Marked, Deviates, Reviewed

InvoicedFamily(l) == [i \in SupplierInvoices |->
  IF invoice[i].status \in {"none", "draft"} THEN 0 ELSE invoice[i].lines.quantity[l]]

LEMMA InvoicedNat ==
  ASSUME PayablesTypeOK, NEW l \in ReceivingLines
  PROVE  InvoicedFamily(l) \in [SupplierInvoices -> Nat]
<1>1. ASSUME NEW d \in InvoiceDrafts \cup {NoLines} PROVE d.quantity[l] \in Nat
  BY PayablesAssumption DEF NoLines
<1>2. \A i \in SupplierInvoices : invoice[i].lines \in InvoiceDrafts \cup {NoLines}
  BY DEF PayablesTypeOK
<1>3. QED
  BY <1>1, <1>2 DEF InvoicedFamily

LEMMA InvoicedNatNext ==
  ASSUME PayablesTypeOK', NEW l \in ReceivingLines
  PROVE  InvoicedFamily(l)' \in [SupplierInvoices -> Nat]
<1>1. ASSUME NEW d \in InvoiceDrafts \cup {NoLines} PROVE d.quantity[l] \in Nat
  BY PayablesAssumption DEF NoLines
<1>2. \A i \in SupplierInvoices : invoice'[i].lines \in InvoiceDrafts \cup {NoLines}
  BY DEF PayablesTypeOK
<1>3. QED
  BY <1>1, <1>2 DEF InvoicedFamily

\* Only a submission takes more of a receiving line than was taken before.
LEMMA InvoicedKept ==
  ASSUME PayablesTypeOK, PayablesTypeOK', InvoicedWithinReceived,
         \A i \in SupplierInvoices :
           \/ invoice'[i].status \in {"none", "draft"}
           \/ invoice[i].status \notin {"none", "draft"} /\ invoice'[i].lines = invoice[i].lines
  PROVE  InvoicedWithinReceived'
<1> SUFFICES ASSUME NEW l \in ReceivingLines PROVE Total(InvoicedFamily(l)') <= AcceptedQty[l]
  BY DEF InvoicedWithinReceived, InvoicedFamily
<1>1. InvoicedFamily(l) \in [SupplierInvoices -> Nat]
  BY InvoicedNat
<1>2. InvoicedFamily(l)' \in [SupplierInvoices -> Nat]
  BY InvoicedNatNext
<1>3. \A i \in SupplierInvoices : InvoicedFamily(l)'[i] <= InvoicedFamily(l)[i]
  <2> SUFFICES ASSUME NEW i \in SupplierInvoices PROVE InvoicedFamily(l)'[i] <= InvoicedFamily(l)[i]
    OBVIOUS
  <2>1. InvoicedFamily(l)'[i] \in Nat /\ InvoicedFamily(l)[i] \in Nat
    BY <1>1, <1>2
  <2>2. InvoicedFamily(l)'[i] = 0 \/ InvoicedFamily(l)'[i] = InvoicedFamily(l)[i]
    BY DEF InvoicedFamily
  <2>3. QED
    BY <2>1, <2>2
<1>4. Total(InvoicedFamily(l)') <= Total(InvoicedFamily(l))
  BY <1>1, <1>2, <1>3, TotalMonotone, ObligationsAssumption
<1>5. Total(InvoicedFamily(l)) <= AcceptedQty[l]
  BY DEF InvoicedWithinReceived, InvoicedFamily
<1>6. Total(InvoicedFamily(l)) \in Nat /\ Total(InvoicedFamily(l)') \in Nat /\ AcceptedQty[l] \in Nat
  BY <1>1, <1>2, TotalNat, ObligationsAssumption, PayablesAssumption
<1>7. QED
  BY <1>4, <1>5, <1>6

\* The amount of an invoice is a natural number.
LEMMA AmountNat ==
  ASSUME NEW d \in InvoiceDrafts \cup {NoLines}
  PROVE  Amount(d) \in Nat
<1>1. [l \in ReceivingLines |-> d.quantity[l] * d.price[l]] \in [ReceivingLines -> Nat]
  <2>1. \A l \in ReceivingLines : d.quantity[l] \in Nat /\ d.price[l] \in Nat
    BY PayablesAssumption DEF NoLines
  <2>2. \A m, n \in Nat : m * n \in Nat
    OBVIOUS
  <2>3. QED
    BY <2>1, <2>2
<1>2. QED
  BY <1>1, TotalNat, PayablesAssumption DEF Amount

\* What a step of payables has to keep, so that the other sides keep theirs.
LEMMA PayablesKept ==
  ASSUME FinanceInv, UNCHANGED <<receivablesRest, settlementRest>>,
         ObligationsTypeOK', PayablesInv', PayablesAreInvoiced',
         \A i \in Invoices : PaymentStays(i),
         \A i \in CustomerInvoices : obligation'[i] = obligation[i]
  PROVE  FinanceInv'
<1>1. ReceivablesInv' /\ CashbookInv'
  BY ReceivablesFrame, CashbookFrame DEF FinanceInv
<1>2. OutstandingIsExplained' /\ StatusTellsWhatIsPaid'
  BY PaymentsStay DEF FinanceInv, ObligationsInv, CashbookInv
<1>3. ReceivablesAreInvoiced' /\ DisputesAgree'
  BY DEF FinanceInv, ObligationsInv, ReceivablesAreInvoiced, DisputesAgree, receivablesRest
<1>4. QED
  BY <1>1, <1>2, <1>3 DEF FinanceInv, ObligationsInv

\* Most of them leave the obligations alone.
LEMMA PayablesPaper ==
  ASSUME FinanceInv, UNCHANGED <<obligation, receivablesRest, settlementRest>>,
         PayablesInv', PayablesAreInvoiced'
  PROVE  FinanceInv'
<1>1. ObligationsTypeOK'
  BY DEF PayablesInv, PayablesTypeOK
<1>2. \A i \in Invoices : PaymentStays(i)
  BY DEF PaymentStays, Maximum
<1>3. QED
  BY <1>1, <1>2, PayablesKept

\* A draft is new, or has other lines.
LEMMA DraftInvoiceStep ==
  ASSUME FinanceInv, UNCHANGED <<receivablesRest, settlementRest>>,
         NEW i \in SupplierInvoices, NEW d \in InvoiceDrafts,
         CreateSupplierInvoice(i, d) \/ ReviseSupplierInvoice(i, d)
  PROVE  FinanceInv'
<1>1. /\ invoice' = [invoice EXCEPT ![i] = [status |-> "draft", lines |-> d]]
      /\ invoice[i].status \in {"none", "draft"}
      /\ UNCHANGED <<obligation, exception, memo, received, returned>>
  <2>1. CASE CreateSupplierInvoice(i, d)
    BY <2>1 DEF CreateSupplierInvoice
  <2>2. CASE ReviseSupplierInvoice(i, d)
    <3>1. invoice[i] \in InvoiceRow
      BY InvoiceRows DEF FinanceInv, PayablesInv
    <3>2. invoice[i].status = "draft"
      BY <2>2 DEF ReviseSupplierInvoice, Revisable
    <3>3. [invoice[i] EXCEPT !.lines = d] = [status |-> "draft", lines |-> d]
      BY <3>1, <3>2 DEF InvoiceRow
    <3>4. QED
      BY <2>2, <3>2, <3>3 DEF ReviseSupplierInvoice
  <2>3. QED
    BY <2>1, <2>2
<1>2. PayablesTypeOK'
  BY <1>1 DEF FinanceInv, PayablesInv, PayablesTypeOK, ObligationsTypeOK
<1>3. InvoicedWithinReceived'
  BY <1>1, <1>2, InvoicedKept DEF FinanceInv, PayablesInv, PayablesTypeOK
<1>4. ASSUME NEW j \in SupplierInvoices PROVE Marked(j)'
  <2>1. CASE j = i
    BY <1>1, <2>1 DEF FinanceInv, PayablesInv, PayablesTypeOK, Marked
  <2>2. CASE j # i
    BY <1>1, <2>2, MarkKept DEF FinanceInv, PayablesInv, DeviationsAreMarked
  <2>3. QED
    BY <2>1, <2>2
<1>5. PayablesAreInvoiced' /\ MemosAreNamed'
  BY <1>1 DEF FinanceInv, ObligationsInv, PayablesInv, PayablesTypeOK, PayablesAreInvoiced, MemosAreNamed
<1>6. QED
  BY <1>1, <1>2, <1>3, <1>4, <1>5, PayablesPaper DEF PayablesInv, DeviationsAreMarked


\* A submission takes no more of a line than what is left of it.
LEMMA SubmitInvoiceStep ==
  ASSUME FinanceInv, UNCHANGED <<receivablesRest, settlementRest>>,
         NEW i \in SupplierInvoices, SubmitSupplierInvoice(i)
  PROVE  FinanceInv'
<1>1. /\ invoice' = [invoice EXCEPT ![i].status = "submitted"]
      /\ invoice[i].status = "draft"
      /\ UNCHANGED <<obligation, exception, memo, received, returned>>
      /\ InvoicePlanAllowed(invoice[i].lines, i, Consuming)
  BY DEF SubmitSupplierInvoice
<1>2. PayablesTypeOK' /\ PayablesTypeOK /\ StatusWritten(i, "submitted")
  <2>1. PayablesTypeOK /\ ObligationsTypeOK' /\ exception' \in [SupplierInvoices -> ExceptionRow]
    BY <1>1 DEF FinanceInv, PayablesInv, PayablesTypeOK, ObligationsTypeOK, ExceptionRow
  <2>2. QED
    BY <1>1, <2>1, InvoiceStatus
<1>3. invoice'[i].status = "submitted" /\ invoice'[i].lines = invoice[i].lines
  BY <1>2 DEF StatusWritten
<1>4. \A j \in SupplierInvoices \ {i} : invoice'[j] = invoice[j]
  BY <1>2 DEF StatusWritten
<1>5. InvoicedWithinReceived'
  <2> SUFFICES ASSUME NEW l \in ReceivingLines PROVE Total(InvoicedFamily(l)') <= AcceptedQty[l]
    BY DEF InvoicedWithinReceived, InvoicedFamily
  <2> DEFINE q == InvoicedFamily(l)
             r == InvoicedFamily(l)'
             others == [j \in SupplierInvoices \ {i} |->
                         IF invoice[j].status \in Consuming THEN invoice[j].lines.quantity[l] ELSE 0]
  <2>1. q \in [SupplierInvoices -> Nat] /\ r \in [SupplierInvoices -> Nat]
    BY <1>2, InvoicedNat, InvoicedNatNext
  <2>2. \A j \in SupplierInvoices \ {i} : others[j] = q[j] /\ r[j] = q[j]
    <3>1. \A j \in SupplierInvoices :
            invoice[j].status \in {"none", "draft"} \/ invoice[j].status \in Consuming
      BY <1>2, InvoiceRows DEF InvoiceRow, Consuming, Matching
    <3>2. {"none", "draft"} \cap Consuming = {}
      BY DEF Consuming, Matching
    <3>3. QED
      BY <1>4, <3>1, <3>2 DEF InvoicedFamily
  <2>3. q[i] = 0 /\ r[i] = invoice[i].lines.quantity[l]
    BY <1>1, <1>3 DEF InvoicedFamily
  <2>4. others \in [SupplierInvoices \ {i} -> Nat]
    BY <2>1, <2>2
  <2>5. Invoiced(l, i, Consuming) = Total(others)
    BY DEF Invoiced
  <2> HIDE DEF q, r, others
  <2>6. Total(q) = Total(others)
    BY <2>1, <2>2, <2>3, <2>4, TotalExtend
  <2>7. Total(r) = Total(q) - q[i] + r[i]
    BY <2>1, <2>2, TotalChange, ObligationsAssumption
  <2>8. Total(q) \in Nat /\ Total(r) \in Nat /\ AcceptedQty[l] \in Nat /\ r[i] \in Nat
    BY <2>1, TotalNat, ObligationsAssumption, PayablesAssumption
  <2>9. CASE l \in LinesOf(invoice[i].lines)
    <3>1. r[i] + Total(q) <= AcceptedQty[l]
      BY <1>1, <2>3, <2>5, <2>6, <2>9 DEF InvoicePlanAllowed
    <3>2. QED
      BY <2>3, <2>7, <2>8, <3>1 DEF r
  <2>10. CASE l \notin LinesOf(invoice[i].lines)
    <3>1. r[i] = 0
      BY <2>3, <2>8, <2>10 DEF LinesOf
    <3>2. Total(q) <= AcceptedQty[l]
      BY DEF FinanceInv, PayablesInv, InvoicedWithinReceived, q, InvoicedFamily
    <3>3. QED
      BY <2>3, <2>7, <2>8, <3>1, <3>2 DEF r
  <2>11. QED
    BY <2>9, <2>10
<1>6. ASSUME NEW j \in SupplierInvoices PROVE Marked(j)'
  <2>1. CASE j = i
    BY <1>3, <2>1 DEF Marked
  <2>2. CASE j # i
    BY <1>1, <1>4, <2>2, MarkKept DEF FinanceInv, PayablesInv, DeviationsAreMarked
  <2>3. QED
    BY <2>1, <2>2
<1>7. PayablesAreInvoiced' /\ MemosAreNamed'
  BY <1>1, <1>3, <1>4 DEF FinanceInv, ObligationsInv, PayablesInv, PayablesAreInvoiced, MemosAreNamed
<1>8. QED
  BY <1>1, <1>2, <1>5, <1>6, <1>7, PayablesPaper DEF PayablesInv, DeviationsAreMarked


\* The threshold of a line is exceeded when both tolerances are.
LEMMA ThresholdIsTheLarger ==
  ASSUME NEW l \in ReceivingLines, NEW deviation \in Nat,
         deviation > PriceAbsoluteTolerance, deviation * 100 > PoPrice[l] * PricePercentageTolerance
  PROVE  deviation > PriceThreshold(l)
<1> DEFINE share == PoPrice[l] * PricePercentageTolerance
<1>1. share \in Nat /\ PriceAbsoluteTolerance \in Nat
  BY PayablesAssumption
<1>2. deviation * 100 > share
  OBVIOUS
<1> HIDE DEF share
<1>3. deviation > share \div 100
  BY <1>1, <1>2
<1>4. QED
  BY <1>3 DEF PriceThreshold, share

\* A match marks every line whose price deviates.
LEMMA MatchInvoiceStep ==
  ASSUME FinanceInv, UNCHANGED <<receivablesRest, settlementRest>>,
         NEW i \in SupplierInvoices, MatchSupplierInvoice(i)
  PROVE  FinanceInv'
<1> DEFINE found == IF exception'[i] = NoExceptions THEN "matched" ELSE "exception"
           marks == [k \in ReceivingLines \X ExceptionKinds |->
                      IF OutOfTolerance(i, k[1], k[2]) THEN "open" ELSE "none"]
<1>1. /\ invoice' = [invoice EXCEPT ![i].status = found]
      /\ invoice[i].status = "submitted"
      /\ exception' = [exception EXCEPT ![i] = marks]
      /\ UNCHANGED <<obligation, memo, received, returned>>
  BY DEF MatchSupplierInvoice
<1>2. PayablesTypeOK /\ ObligationsTypeOK' /\ exception \in [SupplierInvoices -> ExceptionRow]
  BY <1>1 DEF FinanceInv, PayablesInv, PayablesTypeOK, ObligationsTypeOK, ExceptionRow
<1>3. /\ exception' \in [SupplierInvoices -> ExceptionRow]
      /\ exception'[i] = marks /\ \A j \in SupplierInvoices \ {i} : exception'[j] = exception[j]
  BY <1>1, <1>2 DEF ExceptionRow
<1>4. PayablesTypeOK' /\ StatusWritten(i, found)
  BY <1>1, <1>2, <1>3, InvoiceStatus
<1>5. /\ invoice'[i].status = found /\ invoice'[i].lines = invoice[i].lines
      /\ \A j \in SupplierInvoices \ {i} : invoice'[j] = invoice[j]
  BY <1>4 DEF StatusWritten
<1>6. InvoicedWithinReceived'
  BY <1>1, <1>2, <1>4, <1>5, InvoicedKept DEF FinanceInv, PayablesInv
<1>7. ASSUME NEW j \in SupplierInvoices PROVE Marked(j)'
  <2>1. CASE j = i
    <3>1. ASSUME NEW l \in LinesOf(invoice[i].lines), Deviates(i, l) PROVE exception'[i][<<l, "price">>] = "open"
      <4>1. l \in ReceivingLines /\ <<l, "price">> \in ReceivingLines \X ExceptionKinds
        BY DEF LinesOf, ExceptionKinds
      <4>2. OutOfTolerance(i, l, "price")
        <5> DEFINE deviation == Distance(invoice[i].lines.price[l], PoPrice[l])
        <5>1. deviation \in Nat
          <6>1. invoice[i].lines \in InvoiceDrafts \cup {NoLines}
            BY <1>2, InvoiceRows DEF InvoiceRow
          <6>2. invoice[i].lines.price[l] \in Nat
            BY <4>1, <6>1, PayablesAssumption DEF NoLines
          <6>3. PoPrice[l] \in Nat
            BY <4>1, PayablesAssumption
          <6>4. QED
            BY <6>2, <6>3 DEF Distance
        <5>2. deviation > PriceThreshold(l)
          BY <3>1, <4>1, <5>1, ThresholdIsTheLarger DEF Deviates
        <5>3. QED
          BY <3>1, <5>2 DEF OutOfTolerance
      <4>3. QED
        BY <1>3, <4>1, <4>2
    <3>2. QED
      BY <1>5, <2>1, <3>1 DEF Marked, Deviates
  <2>2. CASE j # i
    BY <1>3, <1>5, <2>2, MarkKept DEF FinanceInv, PayablesInv, DeviationsAreMarked
  <2>3. QED
    BY <2>1, <2>2
<1>8. PayablesAreInvoiced' /\ MemosAreNamed'
  BY <1>1, <1>5 DEF FinanceInv, ObligationsInv, PayablesInv, PayablesAreInvoiced, MemosAreNamed
<1>9. QED
  BY <1>1, <1>4, <1>6, <1>7, <1>8, PayablesPaper DEF PayablesInv, DeviationsAreMarked

\* A review decides what is open, which no approved invoice has.
LEMMA ReviewStep ==
  ASSUME FinanceInv, UNCHANGED <<receivablesRest, settlementRest>>,
         NEW i \in SupplierInvoices, NEW k \in ReceivingLines \X ExceptionKinds,
         NEW decision \in {"approved", "rejected"}, ReviewMatchException(i, k, decision)
  PROVE  FinanceInv'
<1>1. /\ exception[i][k] = "open"
      /\ exception' = [exception EXCEPT ![i][k] = decision]
      /\ UNCHANGED <<obligation, invoice, memo, received, returned>>
  BY DEF ReviewMatchException
<1>2. exception \in [SupplierInvoices -> ExceptionRow] /\ PayablesTypeOK
  BY DEF FinanceInv, PayablesInv, PayablesTypeOK, ExceptionRow
<1>3. /\ exception' \in [SupplierInvoices -> ExceptionRow]
      /\ \A j \in SupplierInvoices \ {i} : exception'[j] = exception[j]
      /\ \A x \in ReceivingLines \X ExceptionKinds : exception'[i][x] = exception[i][x] \/ exception'[i][x] = decision
  BY <1>1, <1>2 DEF ExceptionRow
<1>4. PayablesTypeOK'
  BY <1>1, <1>2, <1>3 DEF PayablesTypeOK, ObligationsTypeOK, ExceptionRow
<1>5. InvoicedWithinReceived'
  BY <1>1 DEF FinanceInv, PayablesInv, InvoicedWithinReceived
<1>6. ASSUME NEW j \in SupplierInvoices PROVE Marked(j)'
  <2>1. CASE j = i
    <3>1. invoice[i].status \notin {"approved", "held"}
      BY <1>1, <1>2 DEF FinanceInv, PayablesInv, DeviationsAreMarked, Marked, Reviewed, ExceptionRow
    <3>2. ASSUME NEW l \in LinesOf(invoice[i].lines), exception[i][<<l, "price">>] # "none"
          PROVE  exception'[i][<<l, "price">>] # "none"
      <4>1. <<l, "price">> \in ReceivingLines \X ExceptionKinds
        BY DEF LinesOf, ExceptionKinds
      <4>2. QED
        BY <1>3, <3>2, <4>1
    <3>3. QED
      BY <1>1, <2>1, <3>1, <3>2 DEF FinanceInv, PayablesInv, DeviationsAreMarked, Marked, Deviates
  <2>2. CASE j # i
    BY <1>1, <1>3, <2>2, MarkKept DEF FinanceInv, PayablesInv, DeviationsAreMarked
  <2>3. QED
    BY <2>1, <2>2
<1>7. PayablesAreInvoiced' /\ MemosAreNamed'
  BY <1>1 DEF FinanceInv, ObligationsInv, PayablesInv, PayablesAreInvoiced, MemosAreNamed
<1>8. QED
  BY <1>1, <1>4, <1>5, <1>6, <1>7, PayablesPaper DEF PayablesInv, DeviationsAreMarked

\* A memo is drafted for an invoice, and the documents are reversed without
\* looking at any.
LEMMA MemoDraftStep ==
  ASSUME FinanceInv, UNCHANGED <<receivablesRest, settlementRest>>,
         UNCHANGED <<obligation, invoice, exception>>, PayablesTypeOK', MemosAreNamed'
  PROVE  FinanceInv'
<1>1. InvoicedWithinReceived' /\ DeviationsAreMarked'
  BY DEF FinanceInv, PayablesInv, InvoicedWithinReceived, DeviationsAreMarked, Marked, Deviates, Reviewed
<1>2. PayablesAreInvoiced'
  BY DEF FinanceInv, ObligationsInv, PayablesAreInvoiced
<1>3. QED
  BY <1>1, <1>2, PayablesPaper DEF PayablesInv


\* A memo is drafted for an existing invoice.
LEMMA CreateMemoStep ==
  ASSUME FinanceInv, UNCHANGED <<receivablesRest, settlementRest>>,
         NEW m \in CreditMemos, NEW i \in SupplierInvoices, NEW r \in SupplierReturns,
         NEW quantity \in 1..ReturnedQty[r],
         NEW price \in MemoPrices \cup {invoice[i].lines.price[ReturnedLine[r]]},
         CreateSupplierCreditMemo(m, i, r, quantity, price)
  PROVE  FinanceInv'
<1> DEFINE draft == [status |-> "draft", invoice |-> i, return |-> r,
                     quantity |-> quantity, price |-> price]
<1>1. memo' = [memo EXCEPT ![m] = draft] /\ UNCHANGED <<obligation, invoice, exception, received, returned>>
  BY DEF CreateSupplierCreditMemo
<1>2. PayablesTypeOK
  BY DEF FinanceInv, PayablesInv
<1>3. quantity \in Nat /\ price \in Nat
  <2>1. ReturnedQty[r] \in Nat /\ ReturnedLine[r] \in ReceivingLines
    BY PayablesAssumption
  <2>2. \A d \in InvoiceDrafts \cup {NoLines} : d.price[ReturnedLine[r]] \in Nat
    BY <2>1, PayablesAssumption DEF NoLines
  <2>3. invoice[i].lines.price[ReturnedLine[r]] \in Nat
    BY <1>2, <2>2 DEF PayablesTypeOK
  <2>4. quantity \in Nat
    BY <2>1
  <2>5. QED
    BY <2>3, <2>4, PayablesAssumption
<1>4. PayablesTypeOK'
  BY <1>1, <1>2, <1>3 DEF PayablesTypeOK, ObligationsTypeOK
<1>5. MemosAreNamed'
  BY <1>1, <1>2 DEF FinanceInv, PayablesInv, PayablesTypeOK, MemosAreNamed
<1>6. QED
  BY <1>1, <1>4, <1>5, MemoDraftStep

LEMMA PurchaseReversalStep ==
  ASSUME FinanceInv, UNCHANGED <<receivablesRest, settlementRest>>,
         \/ \E r \in Receivings : ReverseReceiving(r)
         \/ \E r \in SupplierReturns : ReverseSupplierReturn(r)
  PROVE  FinanceInv'
<1>1. UNCHANGED <<obligation, invoice, exception, memo>>
  BY DEF ReverseReceiving, ReverseSupplierReturn
<1>2. PayablesTypeOK' /\ MemosAreNamed'
  <2>1. /\ received' \in [Receivings -> {"posted", "reversed"}]
        /\ returned' \in [SupplierReturns -> {"posted", "reversed"}]
    BY DEF ReverseReceiving, ReverseSupplierReturn, FinanceInv, PayablesInv, PayablesTypeOK
  <2>2. QED
    BY <1>1, <2>1 DEF FinanceInv, PayablesInv, PayablesTypeOK, ObligationsTypeOK, MemosAreNamed
<1>3. QED
  BY <1>1, <1>2, MemoDraftStep

-----------------------------------------------------------------------------
\* Obligations that change without a payment

\* A row is written.
LEMMA RowWritten ==
  ASSUME ObligationsTypeOK, NEW i \in Invoices, NEW row,
         i \in SupplierInvoices => row \in ObligationRow(PayableStatus, {"none"}),
         i \in CustomerInvoices => row \in ObligationRow(ReceivableStatus, {"none", "open", "resolved"}),
         obligation' = [obligation EXCEPT ![i] = row]
  PROVE  /\ ObligationsTypeOK'
         /\ obligation'[i] = row /\ \A j \in Invoices \ {i} : obligation'[j] = obligation[j]
BY ObligationsAssumption DEF ObligationsTypeOK, Invoices

\* Numbers of a row.
LEMMA RowNumbers ==
  ASSUME ObligationsTypeOK, NEW i \in Invoices
  PROVE  /\ obligation[i].original \in Nat /\ obligation[i].outstanding \in Nat
         /\ obligation[i].credit \in Nat /\ Maximum(i) \in Int
<1>1. \/ obligation[i] \in ObligationRow(PayableStatus, {"none"})
      \/ obligation[i] \in ObligationRow(ReceivableStatus, {"none", "open", "resolved"})
  BY DEF ObligationsTypeOK, Invoices
<1>2. QED
  BY <1>1 DEF ObligationRow, Maximum

\* What a command makes of the fields of a row.
AnyRow == ObligationRow(PayableStatus \cup ReceivableStatus, {"none", "open", "resolved"})

LEMMA AnyRows ==
  ASSUME ObligationsTypeOK, NEW i \in Invoices
  PROVE  obligation[i] \in AnyRow
<1>1. \/ obligation[i] \in ObligationRow(PayableStatus, {"none"})
      \/ obligation[i] \in ObligationRow(ReceivableStatus, {"none", "open", "resolved"})
  BY DEF ObligationsTypeOK, Invoices
<1>2. QED
  BY <1>1 DEF ObligationRow, AnyRow

LEMMA CreditWritten ==
  ASSUME NEW row \in AnyRow, NEW out \in Nat, NEW credit \in Nat
  PROVE  [row EXCEPT !.outstanding = out, !.credit = credit]
              = [original |-> row.original, outstanding |-> out, credit |-> credit,
                 status |-> row.status, dispute |-> row.dispute]
<1> DEFINE r == [original |-> row.original, outstanding |-> out, credit |-> row.credit,
                 status |-> row.status, dispute |-> row.dispute]
<1>1. [row EXCEPT !.outstanding = out] = r
  BY DEF AnyRow, ObligationRow
<1>2. [r EXCEPT !.credit = credit]
        = [original |-> row.original, outstanding |-> out, credit |-> credit,
           status |-> row.status, dispute |-> row.dispute]
  OBVIOUS
<1> HIDE DEF r
<1>3. QED
  BY <1>1, <1>2

LEMMA PaymentWritten ==
  ASSUME NEW row \in AnyRow, NEW out \in Nat, NEW status
  PROVE  [row EXCEPT !.outstanding = out, !.status = status]
              = [original |-> row.original, outstanding |-> out, credit |-> row.credit,
                 status |-> status, dispute |-> row.dispute]
<1> DEFINE r == [original |-> row.original, outstanding |-> out, credit |-> row.credit,
                 status |-> row.status, dispute |-> row.dispute]
<1>1. [row EXCEPT !.outstanding = out] = r
  BY DEF AnyRow, ObligationRow
<1>2. [r EXCEPT !.status = status]
        = [original |-> row.original, outstanding |-> out, credit |-> row.credit,
           status |-> status, dispute |-> row.dispute]
  OBVIOUS
<1> HIDE DEF r
<1>3. QED
  BY <1>1, <1>2

LEMMA StatusesWritten ==
  ASSUME NEW row \in AnyRow, NEW status, NEW dispute
  PROVE  [row EXCEPT !.status = status, !.dispute = dispute]
              = [original |-> row.original, outstanding |-> row.outstanding, credit |-> row.credit,
                 status |-> status, dispute |-> dispute]
<1> DEFINE r == [original |-> row.original, outstanding |-> row.outstanding, credit |-> row.credit,
                 status |-> status, dispute |-> row.dispute]
<1>1. [row EXCEPT !.status = status] = r
  BY DEF AnyRow, ObligationRow
<1>2. [r EXCEPT !.dispute = dispute]
        = [original |-> row.original, outstanding |-> row.outstanding, credit |-> row.credit,
           status |-> status, dispute |-> dispute]
  OBVIOUS
<1> HIDE DEF r
<1>3. QED
  BY <1>1, <1>2

\* A credit lowers what is owed and what can be owed.
LEMMA CreditStep ==
  ASSUME ObligationsTypeOK, NEW i \in Invoices, NEW amount \in Nat, Creditable(i, amount),
         obligation' = Credited(i, amount)
  PROVE  /\ ObligationsTypeOK'
         /\ \A j \in Invoices : /\ PaymentStays(j)
                                /\ obligation'[j].status = obligation[j].status
                                /\ obligation'[j].dispute = obligation[j].dispute
                                /\ j # i \/ ~Exists(i) => obligation'[j] = obligation[j]
<1> DEFINE out == obligation[i].outstanding - amount
           credit == obligation[i].credit + amount
           row == [original |-> obligation[i].original, outstanding |-> out, credit |-> credit,
                   status |-> obligation[i].status, dispute |-> obligation[i].dispute]
<1>1. CASE ~Exists(i)
  <2>1. obligation' = obligation
    BY <1>1 DEF Credited
  <2>2. QED
    BY <2>1 DEF PaymentStays, Maximum, ObligationsTypeOK
<1>2. CASE Exists(i)
  <2>1. /\ obligation[i].original \in Nat /\ obligation[i].outstanding \in Nat
        /\ obligation[i].credit \in Nat /\ amount <= obligation[i].outstanding
    BY <1>2, RowNumbers DEF Creditable
  <2>2. out \in Nat /\ credit \in Nat
    BY <2>1
  <2>3. obligation' = [obligation EXCEPT ![i] = row]
    <3>1. obligation' = [obligation EXCEPT ![i] = [obligation[i] EXCEPT !.outstanding = out, !.credit = credit]]
      BY <1>2 DEF Credited, ObligationsTypeOK
    <3> HIDE DEF out, credit
    <3>2. [obligation[i] EXCEPT !.outstanding = out, !.credit = credit] = row
      BY <2>2, AnyRows, CreditWritten
    <3>3. QED
      BY <3>1, <3>2
  <2>4. /\ i \in SupplierInvoices => row \in ObligationRow(PayableStatus, {"none"})
        /\ i \in CustomerInvoices => row \in ObligationRow(ReceivableStatus, {"none", "open", "resolved"})
    <3> HIDE DEF out, credit
    <3> QED BY <2>1, <2>2 DEF ObligationsTypeOK, ObligationRow
  <2>5. /\ ObligationsTypeOK' /\ obligation'[i] = row
        /\ \A j \in Invoices \ {i} : obligation'[j] = obligation[j]
    <3> HIDE DEF row
    <3> QED BY <2>3, <2>4, RowWritten
  <2>6. PaymentStays(i)
    BY <2>1, <2>5 DEF PaymentStays, Maximum
  <2>7. QED
    BY <1>2, <2>5, <2>6 DEF PaymentStays, Maximum
<1>3. QED
  BY <1>1, <1>2


MemoRow ==
  [status : {"none", "draft", "approved"}, invoice : SupplierInvoices \cup {None},
   return : SupplierReturns \cup {None}, quantity : Nat, price : Nat]

\* A memo credits its invoice.
LEMMA ApproveMemoStep ==
  ASSUME FinanceInv, UNCHANGED <<receivablesRest, settlementRest>>,
         NEW m \in CreditMemos, ApproveSupplierCreditMemo(m)
  PROVE  FinanceInv'
<1> DEFINE i == memo[m].invoice
<1>1. /\ memo[m].status = "draft" /\ Creditable(i, MemoAmount(m))
      /\ obligation' = Credited(i, MemoAmount(m))
      /\ memo' = [memo EXCEPT ![m].status = "approved"]
      /\ UNCHANGED <<invoice, exception, received, returned>>
  BY DEF ApproveSupplierCreditMemo
<1>2. PayablesTypeOK /\ ObligationsTypeOK /\ i \in SupplierInvoices /\ i \in Invoices
  BY <1>1 DEF FinanceInv, PayablesInv, PayablesTypeOK, MemosAreNamed, Invoices
<1>3. MemoAmount(m) \in Nat
  <2>1. memo[m].quantity \in Nat /\ memo[m].price \in Nat
    BY <1>2 DEF PayablesTypeOK
  <2>2. \A x, y \in Nat : x * y \in Nat
    OBVIOUS
  <2>3. QED
    BY <2>1, <2>2 DEF MemoAmount
<1> HIDE DEF i
<1>4. /\ ObligationsTypeOK'
      /\ \A j \in Invoices : /\ PaymentStays(j)
                             /\ j # i \/ ~Exists(i) => obligation'[j] = obligation[j]
  BY <1>1, <1>2, <1>3, CreditStep
<1>5. PayablesInv'
  <2>1. /\ \A x \in CreditMemos \ {m} : memo'[x] = memo[x]
        /\ memo'[m].status = "approved"
    BY <1>1, <1>2 DEF PayablesTypeOK
  <2>2. MemosAreNamed'
    BY <2>1 DEF FinanceInv, PayablesInv, MemosAreNamed
  <2>3. PayablesTypeOK'
    <3>1. memo \in [CreditMemos -> MemoRow]
      BY <1>2 DEF PayablesTypeOK, MemoRow
    <3>2. memo' \in [CreditMemos -> MemoRow]
      BY <1>1, <3>1 DEF MemoRow
    <3>3. QED
      BY <1>1, <1>2, <1>4, <3>2 DEF PayablesTypeOK, MemoRow
  <2>4. DeviationsAreMarked' /\ InvoicedWithinReceived'
    BY <1>1 DEF FinanceInv, PayablesInv, InvoicedWithinReceived, DeviationsAreMarked, Marked, Deviates, Reviewed
  <2>5. QED
    BY <2>2, <2>3, <2>4 DEF PayablesInv
<1>6. PayablesAreInvoiced'
  <2> SUFFICES ASSUME NEW j \in SupplierInvoices, invoice[j].status \notin {"approved", "held"}
               PROVE  obligation'[j] = NoObligation
    BY <1>1 DEF PayablesAreInvoiced
  <2>1. obligation[j] = NoObligation /\ j \in Invoices
    BY DEF FinanceInv, ObligationsInv, PayablesAreInvoiced, Invoices
  <2>2. QED
    BY <1>4, <2>1 DEF Exists, NoObligation
<1>7. \A j \in CustomerInvoices : obligation'[j] = obligation[j]
  BY <1>2, <1>4, ObligationsAssumption DEF Invoices
<1>8. QED
  BY <1>4, <1>5, <1>6, <1>7, PayablesKept

\* Row i with another status and another state of its dispute.
Restated(i, status, dispute) ==
  [original |-> obligation[i].original, outstanding |-> obligation[i].outstanding,
   credit |-> obligation[i].credit, status |-> status, dispute |-> dispute]

LEMMA StatusRestated ==
  ASSUME ObligationsTypeOK, NEW i \in Invoices, NEW status
  PROVE  [obligation EXCEPT ![i].status = status]
           = [obligation EXCEPT ![i] = Restated(i, status, obligation[i].dispute)]
<1>1. [obligation[i] EXCEPT !.status = status] = Restated(i, status, obligation[i].dispute)
  BY AnyRows DEF AnyRow, ObligationRow, Restated
<1>2. QED
  BY <1>1

DisputeWritten(i, status, dispute) ==
  [obligation EXCEPT ![i].status = status, ![i].dispute = dispute]

LEMMA DisputeRestated ==
  ASSUME ObligationsTypeOK, NEW i \in Invoices, NEW status, NEW dispute
  PROVE  DisputeWritten(i, status, dispute) = [obligation EXCEPT ![i] = Restated(i, status, dispute)]
<1>1. [obligation[i] EXCEPT !.status = status, !.dispute = dispute] = Restated(i, status, dispute)
  BY AnyRows, StatusesWritten DEF Restated
<1>2. [obligation EXCEPT ![i].status = status, ![i].dispute = dispute]
        = [obligation EXCEPT ![i] = [obligation[i] EXCEPT !.status = status, !.dispute = dispute]]
  BY DEF ObligationsTypeOK
<1>3. QED
  BY <1>1, <1>2 DEF DisputeWritten

\* The status of an obligation of which nothing is paid changes to another such.
LEMMA StatusChanged ==
  ASSUME ObligationsTypeOK, NEW i \in Invoices, NEW status, NEW dispute,
         obligation[i].status \notin PaidStatus, status \notin PaidStatus,
         i \in SupplierInvoices => status \in PayableStatus /\ dispute = "none",
         i \in CustomerInvoices => status \in ReceivableStatus /\ dispute \in {"none", "open", "resolved"},
         obligation' = [obligation EXCEPT ![i] = Restated(i, status, dispute)]
  PROVE  /\ ObligationsTypeOK'
         /\ \A j \in Invoices : PaymentStays(j)
         /\ \A j \in Invoices \ {i} : obligation'[j] = obligation[j]
         /\ obligation'[i].status = status /\ obligation'[i].dispute = dispute
<1>1. /\ i \in SupplierInvoices => Restated(i, status, dispute) \in ObligationRow(PayableStatus, {"none"})
      /\ i \in CustomerInvoices =>
           Restated(i, status, dispute) \in ObligationRow(ReceivableStatus, {"none", "open", "resolved"})
  BY RowNumbers DEF ObligationRow, Restated
<1>2. /\ ObligationsTypeOK' /\ obligation'[i] = Restated(i, status, dispute)
      /\ \A j \in Invoices \ {i} : obligation'[j] = obligation[j]
  BY <1>1, RowWritten
<1>3. QED
  BY <1>2 DEF PaymentStays, Maximum, Restated

LEMMA OwedRow ==
  ASSUME NEW amount \in Nat, NEW status
  PROVE  Owed(amount, status) = [original |-> amount, outstanding |-> amount, credit |-> 0,
                                 status |-> status, dispute |-> "none"]
<1> DEFINE r == [original |-> amount, outstanding |-> 0, credit |-> 0, status |-> "none", dispute |-> "none"]
           s == [original |-> amount, outstanding |-> amount, credit |-> 0, status |-> "none",
                 dispute |-> "none"]
<1>1. [NoObligation EXCEPT !.original = amount] = r
  BY DEF NoObligation
<1>2. [r EXCEPT !.outstanding = amount] = s
  OBVIOUS
<1>3. [s EXCEPT !.status = status]
        = [original |-> amount, outstanding |-> amount, credit |-> 0, status |-> status, dispute |-> "none"]
  OBVIOUS
<1> HIDE DEF r, s
<1>4. QED
  BY <1>1, <1>2, <1>3 DEF Owed

\* A new obligation, of which nothing is paid.
LEMMA ObligationMade ==
  ASSUME ObligationsTypeOK, NEW i \in Invoices, NEW amount \in Nat, NEW status \in {"approved", "open"},
         i \in SupplierInvoices => status = "approved",
         i \in CustomerInvoices => status = "open",
         obligation[i] = NoObligation,
         obligation' = [obligation EXCEPT ![i] = Owed(amount, status)]
  PROVE  /\ ObligationsTypeOK'
         /\ \A j \in Invoices : PaymentStays(j)
         /\ \A j \in Invoices \ {i} : obligation'[j] = obligation[j]
         /\ obligation'[i].dispute = "none" /\ obligation'[i].status = status
<1>1. Owed(amount, status) = [original |-> amount, outstanding |-> amount, credit |-> 0,
                              status |-> status, dispute |-> "none"]
  BY OwedRow
<1>2. /\ i \in SupplierInvoices => Owed(amount, status) \in ObligationRow(PayableStatus, {"none"})
      /\ i \in CustomerInvoices =>
           Owed(amount, status) \in ObligationRow(ReceivableStatus, {"none", "open", "resolved"})
  BY <1>1 DEF ObligationRow, PayableStatus, ReceivableStatus
<1>3. /\ ObligationsTypeOK' /\ obligation'[i] = Owed(amount, status)
      /\ \A j \in Invoices \ {i} : obligation'[j] = obligation[j]
  BY <1>2, RowWritten
<1>4. PaymentStays(i)
  BY <1>1, <1>3 DEF PaymentStays, Maximum, NoObligation, PaidStatus
<1>5. QED
  BY <1>1, <1>3, <1>4 DEF PaymentStays, Maximum

\* An approval makes what is reviewed payable.
LEMMA ApproveInvoiceStep ==
  ASSUME FinanceInv, UNCHANGED <<receivablesRest, settlementRest>>,
         NEW i \in SupplierInvoices, ApproveSupplierInvoice(i)
  PROVE  FinanceInv'
<1>1. /\ invoice[i].status \in {"matched", "exception"} /\ Reviewed(i)
      /\ invoice' = [invoice EXCEPT ![i].status = "approved"]
      /\ obligation' = [obligation EXCEPT ![i] = Owed(Amount(invoice[i].lines), "approved")]
      /\ UNCHANGED <<exception, memo, received, returned>>
  BY DEF ApproveSupplierInvoice
<1>2. /\ PayablesTypeOK /\ ObligationsTypeOK /\ i \in Invoices
      /\ exception' \in [SupplierInvoices -> ExceptionRow]
  BY <1>1 DEF FinanceInv, PayablesInv, PayablesTypeOK, Invoices, ExceptionRow
<1>3. Amount(invoice[i].lines) \in Nat
  BY <1>2, AmountNat DEF PayablesTypeOK
<1>4. obligation[i] = NoObligation
  BY <1>1 DEF FinanceInv, ObligationsInv, PayablesAreInvoiced
<1>5. i \notin CustomerInvoices
  BY ObligationsAssumption
<1>6. /\ ObligationsTypeOK' /\ \A j \in Invoices : PaymentStays(j)
      /\ \A j \in Invoices \ {i} : obligation'[j] = obligation[j]
  BY <1>1, <1>2, <1>3, <1>4, <1>5, ObligationMade
<1>7. PayablesTypeOK' /\ StatusWritten(i, "approved")
  BY <1>1, <1>2, <1>6, InvoiceStatus
<1>8. /\ invoice'[i].status = "approved" /\ invoice'[i].lines = invoice[i].lines
      /\ \A j \in SupplierInvoices \ {i} : invoice'[j] = invoice[j]
  BY <1>7 DEF StatusWritten
<1>9. InvoicedWithinReceived'
  BY <1>1, <1>2, <1>7, <1>8, InvoicedKept DEF FinanceInv, PayablesInv
<1>10. ASSUME NEW j \in SupplierInvoices PROVE Marked(j)'
  <2>1. CASE j = i
    BY <1>1, <1>8, <2>1 DEF FinanceInv, PayablesInv, DeviationsAreMarked, Marked, Deviates, Reviewed
  <2>2. CASE j # i
    BY <1>1, <1>8, <2>2, MarkKept DEF FinanceInv, PayablesInv, DeviationsAreMarked
  <2>3. QED
    BY <2>1, <2>2
<1>11. PayablesAreInvoiced' /\ MemosAreNamed'
  BY <1>1, <1>6, <1>8 DEF FinanceInv, ObligationsInv, PayablesInv, PayablesAreInvoiced, MemosAreNamed, Invoices
<1>12. \A j \in CustomerInvoices : obligation'[j] = obligation[j]
  BY <1>5, <1>6 DEF Invoices
<1>13. QED
  BY <1>6, <1>7, <1>9, <1>10, <1>11, <1>12, PayablesKept DEF PayablesInv, DeviationsAreMarked

\* Holds, releases and exports.
LEMMA PayableStatusStep ==
  ASSUME FinanceInv, UNCHANGED <<receivablesRest, settlementRest>>,
         NEW i \in SupplierInvoices, Hold(i) \/ Release(i) \/ MarkExportReady(i)
  PROVE  FinanceInv'
<1>1. PICK to \in {"held", "approved", "export_ready"} :
        ChangePayableStatus(i, {"approved", "export_ready", "held"}, to)
  BY DEF Hold, Release, MarkExportReady, ChangePayableStatus
<1> DEFINE status == IF to = "held" THEN "held" ELSE "approved"
<1>2. /\ obligation[i].status \in {"approved", "export_ready", "held"}
      /\ obligation' = [obligation EXCEPT ![i].status = to]
      /\ invoice' = [invoice EXCEPT ![i].status = status]
      /\ UNCHANGED <<exception, memo, received, returned>>
  BY <1>1 DEF ChangePayableStatus
<1>3. /\ PayablesTypeOK /\ ObligationsTypeOK /\ i \in Invoices /\ i \notin CustomerInvoices
      /\ exception' \in [SupplierInvoices -> ExceptionRow]
  BY <1>2, ObligationsAssumption DEF FinanceInv, PayablesInv, PayablesTypeOK, Invoices, ExceptionRow
<1>4. obligation[i].dispute = "none"
  BY <1>3 DEF ObligationsTypeOK, ObligationRow
<1>5. obligation' = [obligation EXCEPT ![i] = Restated(i, to, "none")]
  BY <1>2, <1>3, <1>4, StatusRestated
<1>6. /\ ObligationsTypeOK' /\ \A j \in Invoices : PaymentStays(j)
      /\ \A j \in Invoices \ {i} : obligation'[j] = obligation[j]
  <2>1. /\ obligation[i].status \notin PaidStatus /\ to \notin PaidStatus
        /\ to \in PayableStatus
    BY <1>2 DEF PaidStatus, PayableStatus
  <2>2. QED
    BY <1>3, <1>5, <2>1, StatusChanged
<1>7. invoice[i].status \in {"approved", "held"}
  BY <1>2 DEF FinanceInv, ObligationsInv, PayablesAreInvoiced, NoObligation
<1>8. PayablesTypeOK' /\ StatusWritten(i, status)
  <2>1. status \in {"submitted", "exception", "matched", "approved", "held"}
    OBVIOUS
  <2> HIDE DEF status
  <2>2. QED
    BY <1>2, <1>3, <1>6, <2>1, InvoiceStatus
<1>9. /\ invoice'[i].status \in {"approved", "held"} /\ invoice'[i].lines = invoice[i].lines
      /\ \A j \in SupplierInvoices \ {i} : invoice'[j] = invoice[j]
  BY <1>8 DEF StatusWritten
<1>10. InvoicedWithinReceived'
  BY <1>3, <1>7, <1>8, <1>9, InvoicedKept DEF FinanceInv, PayablesInv
<1>11. ASSUME NEW j \in SupplierInvoices PROVE Marked(j)'
  <2>1. CASE j = i
    BY <1>2, <1>7, <1>9, <2>1 DEF FinanceInv, PayablesInv, DeviationsAreMarked, Marked, Deviates, Reviewed
  <2>2. CASE j # i
    BY <1>2, <1>9, <2>2, MarkKept DEF FinanceInv, PayablesInv, DeviationsAreMarked
  <2>3. QED
    BY <2>1, <2>2
<1>12. PayablesAreInvoiced' /\ MemosAreNamed'
  BY <1>2, <1>6, <1>9 DEF FinanceInv, ObligationsInv, PayablesInv, PayablesAreInvoiced, MemosAreNamed, Invoices
<1>13. \A j \in CustomerInvoices : obligation'[j] = obligation[j]
  BY <1>3, <1>6 DEF Invoices
<1>14. QED
  BY <1>6, <1>8, <1>10, <1>11, <1>12, <1>13, PayablesKept DEF PayablesInv, DeviationsAreMarked

LEMMA PayablesStepKeeps ==
  ASSUME FinanceInv, PayablesStep
  PROVE  FinanceInv'
<1>1. UNCHANGED <<receivablesRest, settlementRest>>
  BY DEF PayablesStep
<1>2. ASSUME NEW i \in SupplierInvoices, InvoiceNext(i) PROVE FinanceInv'
  BY <1>1, <1>2, DraftInvoiceStep, SubmitInvoiceStep, MatchInvoiceStep, ReviewStep,
     ApproveInvoiceStep, PayableStatusStep DEF InvoiceNext
<1>3. ASSUME NEW m \in CreditMemos, MemoNext(m) PROVE FinanceInv'
  BY <1>1, <1>3, CreateMemoStep, ApproveMemoStep DEF MemoNext
<1>4. QED
  BY <1>1, <1>2, <1>3, PurchaseReversalStep DEF PayablesStep, PayablesNext


-----------------------------------------------------------------------------
\* Receivables

CustomerRow ==
  [status : {"none", "draft", "submitted", "approved", "issued"},
   quantity : CustomerDrafts \cup {Nought}]

BilledFamily(l) == [i \in CustomerInvoices |->
  IF customerInvoice[i].status \in {"none", "draft"} THEN 0 ELSE customerInvoice[i].quantity[l]]

LEMMA QuantityNat ==
  ASSUME NEW q \in CustomerDrafts \cup {Nought}
  PROVE  q \in [ShipmentLines -> Nat] /\ CustomerAmount(q) \in Nat
<1>1. q \in [ShipmentLines -> Nat]
  BY ReceivablesAssumption DEF Nought
<1>2. [l \in ShipmentLines |-> q[l] * SalesPrice[l]] \in [ShipmentLines -> Nat]
  <2>1. \A l \in ShipmentLines : q[l] \in Nat /\ SalesPrice[l] \in Nat
    BY <1>1, ReceivablesAssumption
  <2>2. \A m, n \in Nat : m * n \in Nat
    OBVIOUS
  <2>3. QED
    BY <2>1, <2>2
<1>3. QED
  BY <1>1, <1>2, TotalNat, ReceivablesAssumption DEF CustomerAmount

LEMMA BilledNat ==
  ASSUME ReceivablesTypeOK, NEW l \in ShipmentLines
  PROVE  BilledFamily(l) \in [CustomerInvoices -> Nat]
<1>1. \A i \in CustomerInvoices : customerInvoice[i].quantity \in CustomerDrafts \cup {Nought}
  BY DEF ReceivablesTypeOK
<1>2. QED
  BY <1>1, QuantityNat DEF BilledFamily

LEMMA BilledNatNext ==
  ASSUME ReceivablesTypeOK', NEW l \in ShipmentLines
  PROVE  BilledFamily(l)' \in [CustomerInvoices -> Nat]
<1>1. \A i \in CustomerInvoices : customerInvoice'[i].quantity \in CustomerDrafts \cup {Nought}
  BY DEF ReceivablesTypeOK
<1>2. QED
  BY <1>1, QuantityNat DEF BilledFamily

\* Only a submission bills more of a shipment line than was billed before.
LEMMA BilledKept ==
  ASSUME ReceivablesTypeOK, ReceivablesTypeOK', BilledWithinShipped,
         \A i \in CustomerInvoices :
           \/ customerInvoice'[i].status \in {"none", "draft"}
           \/ /\ customerInvoice[i].status \notin {"none", "draft"}
              /\ customerInvoice'[i].quantity = customerInvoice[i].quantity
  PROVE  BilledWithinShipped'
<1> SUFFICES ASSUME NEW l \in ShipmentLines PROVE Total(BilledFamily(l)') <= ShippedQty[l]
  BY DEF BilledWithinShipped, BilledFamily
<1>1. BilledFamily(l) \in [CustomerInvoices -> Nat] /\ BilledFamily(l)' \in [CustomerInvoices -> Nat]
  BY BilledNat, BilledNatNext
<1>2. ASSUME NEW i \in CustomerInvoices PROVE BilledFamily(l)'[i] <= BilledFamily(l)[i]
  <2>1. BilledFamily(l)'[i] \in Nat /\ BilledFamily(l)[i] \in Nat
    BY <1>1
  <2>2. BilledFamily(l)'[i] = 0 \/ BilledFamily(l)'[i] = BilledFamily(l)[i]
    BY DEF BilledFamily
  <2>3. QED
    BY <2>1, <2>2
<1>3. Total(BilledFamily(l)') <= Total(BilledFamily(l))
  BY <1>1, <1>2, TotalMonotone, ObligationsAssumption
<1>4. Total(BilledFamily(l)) <= ShippedQty[l]
  BY DEF BilledWithinShipped, BilledFamily
<1>5. Total(BilledFamily(l)) \in Nat /\ Total(BilledFamily(l)') \in Nat /\ ShippedQty[l] \in Nat
  BY <1>1, TotalNat, ObligationsAssumption, ReceivablesAssumption
<1>6. QED
  BY <1>3, <1>4, <1>5

\* What a step of receivables has to keep, so that the other sides keep theirs.
LEMMA ReceivablesKept ==
  ASSUME FinanceInv, UNCHANGED <<payablesRest, settlementRest>>,
         ObligationsTypeOK', ReceivablesInv', ReceivablesAreInvoiced', DisputesAgree',
         \A i \in Invoices : PaymentStays(i),
         \A i \in SupplierInvoices : obligation'[i] = obligation[i]
  PROVE  FinanceInv'
<1>1. PayablesInv' /\ CashbookInv'
  BY PayablesFrame, CashbookFrame DEF FinanceInv
<1>2. OutstandingIsExplained' /\ StatusTellsWhatIsPaid'
  BY PaymentsStay DEF FinanceInv, ObligationsInv, CashbookInv
<1>3. PayablesAreInvoiced'
  BY DEF FinanceInv, ObligationsInv, PayablesAreInvoiced, payablesRest
<1>4. QED
  BY <1>1, <1>2, <1>3 DEF FinanceInv, ObligationsInv

LEMMA ReceivablesPaper ==
  ASSUME FinanceInv, UNCHANGED <<obligation, payablesRest, settlementRest>>,
         ReceivablesInv', ReceivablesAreInvoiced'
  PROVE  FinanceInv'
<1>1. ObligationsTypeOK' /\ DisputesAgree'
  BY DEF ReceivablesInv, ReceivablesTypeOK, FinanceInv, ObligationsInv, DisputesAgree
<1>2. \A i \in Invoices : PaymentStays(i)
  BY DEF PaymentStays, Maximum
<1>3. QED
  BY <1>1, <1>2, ReceivablesKept

\* What a command makes of customer invoice i.
CustomerWritten(i, status, q) ==
  /\ customerInvoice'[i].status = status /\ customerInvoice'[i].quantity = q
  /\ \A j \in CustomerInvoices \ {i} : customerInvoice'[j] = customerInvoice[j]

LEMMA CustomerStatus ==
  ASSUME ReceivablesTypeOK, ObligationsTypeOK', NEW i \in CustomerInvoices,
         NEW status \in {"submitted", "approved", "issued"},
         customerInvoice' = [customerInvoice EXCEPT ![i].status = status],
         UNCHANGED <<note, pastDue, referenced, documentVars>>
  PROVE  ReceivablesTypeOK' /\ CustomerWritten(i, status, customerInvoice[i].quantity)
<1>1. customerInvoice \in [CustomerInvoices -> CustomerRow] /\ customerInvoice[i] \in CustomerRow
  BY DEF ReceivablesTypeOK, CustomerRow
<1>2. /\ customerInvoice' \in [CustomerInvoices -> CustomerRow]
      /\ CustomerWritten(i, status, customerInvoice[i].quantity)
  BY <1>1 DEF CustomerRow, CustomerWritten
<1>3. QED
  BY <1>2 DEF ReceivablesTypeOK, CustomerRow, documentVars

LEMMA CreateCustomerInvoiceStep ==
  ASSUME FinanceInv, UNCHANGED <<payablesRest, settlementRest>>,
         NEW i \in CustomerInvoices, NEW q \in CustomerDrafts, CreateCustomerInvoice(i, q)
  PROVE  FinanceInv'
<1>1. /\ customerInvoice' = [customerInvoice EXCEPT ![i] = [status |-> "draft", quantity |-> q]]
      /\ customerInvoice[i].status = "none"
      /\ UNCHANGED <<obligation, note, pastDue, referenced, documentVars>>
  BY DEF CreateCustomerInvoice
<1>2. ReceivablesTypeOK
  BY DEF FinanceInv, ReceivablesInv
<1>3. /\ customerInvoice'[i] = [status |-> "draft", quantity |-> q]
      /\ \A j \in CustomerInvoices \ {i} : customerInvoice'[j] = customerInvoice[j]
  BY <1>1, <1>2 DEF ReceivablesTypeOK
<1>4. ReceivablesTypeOK'
  BY <1>1, <1>2 DEF ReceivablesTypeOK, ObligationsTypeOK, documentVars
<1>5. BilledWithinShipped'
  BY <1>2, <1>3, <1>4, BilledKept DEF FinanceInv, ReceivablesInv
<1>6. ReceivablesAreInvoiced' /\ NotesAreNamed'
  BY <1>1, <1>3 DEF FinanceInv, ObligationsInv, ReceivablesInv, ReceivablesAreInvoiced, NotesAreNamed
<1>7. QED
  BY <1>1, <1>4, <1>5, <1>6, ReceivablesPaper DEF ReceivablesInv

\* A submission bills no more of a line than what is left of it.
LEMMA SubmitCustomerInvoiceStep ==
  ASSUME FinanceInv, UNCHANGED <<payablesRest, settlementRest>>,
         NEW i \in CustomerInvoices, SubmitCustomerInvoice(i)
  PROVE  FinanceInv'
<1>1. /\ customerInvoice' = [customerInvoice EXCEPT ![i].status = "submitted"]
      /\ customerInvoice[i].status = "draft"
      /\ UNCHANGED <<obligation, note, pastDue, referenced, documentVars>>
      /\ CustomerPlanAllowed(customerInvoice[i].quantity, i, TRUE)
  BY DEF SubmitCustomerInvoice
<1>2. ReceivablesTypeOK /\ ObligationsTypeOK'
  BY <1>1 DEF FinanceInv, ReceivablesInv, ReceivablesTypeOK, ObligationsTypeOK
<1>3. ReceivablesTypeOK' /\ CustomerWritten(i, "submitted", customerInvoice[i].quantity)
  BY <1>1, <1>2, CustomerStatus
<1>4. /\ customerInvoice'[i].status = "submitted" /\ customerInvoice'[i].quantity = customerInvoice[i].quantity
      /\ \A j \in CustomerInvoices \ {i} : customerInvoice'[j] = customerInvoice[j]
  BY <1>3 DEF CustomerWritten
<1>5. BilledWithinShipped'
  <2> SUFFICES ASSUME NEW l \in ShipmentLines PROVE Total(BilledFamily(l)') <= ShippedQty[l]
    BY DEF BilledWithinShipped, BilledFamily
  <2> DEFINE q == BilledFamily(l)
             r == BilledFamily(l)'
             others == [j \in CustomerInvoices \ {i} |->
                         IF customerInvoice[j].status \in Billed THEN customerInvoice[j].quantity[l] ELSE 0]
  <2>1. q \in [CustomerInvoices -> Nat] /\ r \in [CustomerInvoices -> Nat]
    BY <1>2, <1>3, BilledNat, BilledNatNext
  <2>2. \A j \in CustomerInvoices \ {i} : others[j] = q[j] /\ r[j] = q[j]
    <3>1. \A j \in CustomerInvoices : customerInvoice[j].status \in {"none", "draft"} <=> customerInvoice[j].status \notin Billed
      BY <1>2 DEF ReceivablesTypeOK, Billed
    <3>2. QED
      BY <1>4, <3>1 DEF BilledFamily
  <2>3. q[i] = 0 /\ r[i] = customerInvoice[i].quantity[l]
    BY <1>1, <1>4 DEF BilledFamily
  <2>4. others \in [CustomerInvoices \ {i} -> Nat]
    BY <2>1, <2>2
  <2>5. PreviouslyBilled(l, i) = Total(others)
    BY DEF PreviouslyBilled
  <2> HIDE DEF q, r, others
  <2>6. Total(q) = Total(others)
    BY <2>1, <2>2, <2>3, <2>4, TotalExtend
  <2>7. Total(r) = Total(q) - q[i] + r[i]
    BY <2>1, <2>2, TotalChange, ObligationsAssumption
  <2>8. Total(q) \in Nat /\ Total(r) \in Nat /\ ShippedQty[l] \in Nat /\ r[i] \in Nat
    BY <2>1, TotalNat, ObligationsAssumption, ReceivablesAssumption
  <2>9. CASE l \in ShipmentLinesOf(customerInvoice[i].quantity)
    <3>1. r[i] + Total(q) <= ShippedQty[l]
      BY <1>1, <2>3, <2>5, <2>6, <2>9 DEF CustomerPlanAllowed
    <3>2. QED
      BY <2>3, <2>7, <2>8, <3>1 DEF r
  <2>10. CASE l \notin ShipmentLinesOf(customerInvoice[i].quantity)
    <3>1. r[i] = 0
      BY <2>3, <2>8, <2>10 DEF ShipmentLinesOf
    <3>2. Total(q) <= ShippedQty[l]
      BY DEF FinanceInv, ReceivablesInv, BilledWithinShipped, q, BilledFamily
    <3>3. QED
      BY <2>3, <2>7, <2>8, <3>1, <3>2 DEF r
  <2>11. QED
    BY <2>9, <2>10
<1>6. ReceivablesAreInvoiced' /\ NotesAreNamed'
  BY <1>1, <1>4 DEF FinanceInv, ObligationsInv, ReceivablesInv, ReceivablesAreInvoiced, NotesAreNamed
<1>7. QED
  BY <1>1, <1>3, <1>5, <1>6, ReceivablesPaper DEF ReceivablesInv

LEMMA ApproveCustomerInvoiceStep ==
  ASSUME FinanceInv, UNCHANGED <<payablesRest, settlementRest>>,
         NEW i \in CustomerInvoices, ApproveCustomerInvoice(i)
  PROVE  FinanceInv'
<1>1. /\ customerInvoice' = [customerInvoice EXCEPT ![i].status = "approved"]
      /\ customerInvoice[i].status = "submitted"
      /\ UNCHANGED <<obligation, note, pastDue, referenced, documentVars>>
  BY DEF ApproveCustomerInvoice
<1>2. ReceivablesTypeOK /\ ObligationsTypeOK'
  BY <1>1 DEF FinanceInv, ReceivablesInv, ReceivablesTypeOK, ObligationsTypeOK
<1>3. ReceivablesTypeOK' /\ CustomerWritten(i, "approved", customerInvoice[i].quantity)
  BY <1>1, <1>2, CustomerStatus
<1>4. /\ customerInvoice'[i].status = "approved" /\ customerInvoice'[i].quantity = customerInvoice[i].quantity
      /\ \A j \in CustomerInvoices \ {i} : customerInvoice'[j] = customerInvoice[j]
  BY <1>3 DEF CustomerWritten
<1>5. BilledWithinShipped'
  <2>1. \A j \in CustomerInvoices :
          \/ customerInvoice'[j].status \in {"none", "draft"}
          \/ /\ customerInvoice[j].status \notin {"none", "draft"}
             /\ customerInvoice'[j].quantity = customerInvoice[j].quantity
    BY <1>1, <1>4
  <2>2. QED
    BY <1>2, <1>3, <2>1, BilledKept DEF FinanceInv, ReceivablesInv
<1>6. ReceivablesAreInvoiced' /\ NotesAreNamed'
  BY <1>1, <1>4 DEF FinanceInv, ObligationsInv, ReceivablesInv, ReceivablesAreInvoiced, NotesAreNamed
<1>7. QED
  BY <1>1, <1>3, <1>5, <1>6, ReceivablesPaper DEF ReceivablesInv

\* The issue of an invoice makes it a receivable.
LEMMA IssueCustomerInvoiceStep ==
  ASSUME FinanceInv, UNCHANGED <<payablesRest, settlementRest>>,
         NEW i \in CustomerInvoices, IssueCustomerInvoice(i)
  PROVE  FinanceInv'
<1>1. /\ customerInvoice' = [customerInvoice EXCEPT ![i].status = "issued"]
      /\ customerInvoice[i].status = "approved"
      /\ obligation' = [obligation EXCEPT ![i] = Owed(CustomerAmount(customerInvoice[i].quantity), "open")]
      /\ UNCHANGED <<note, pastDue, referenced, documentVars>>
  BY DEF IssueCustomerInvoice, Issuable
<1>2. ReceivablesTypeOK /\ ObligationsTypeOK /\ i \in Invoices /\ i \notin SupplierInvoices
  BY ObligationsAssumption DEF FinanceInv, ReceivablesInv, ReceivablesTypeOK, Invoices
<1>3. CustomerAmount(customerInvoice[i].quantity) \in Nat
  BY <1>2, QuantityNat DEF ReceivablesTypeOK
<1>4. obligation[i] = NoObligation
  BY <1>1 DEF FinanceInv, ObligationsInv, ReceivablesAreInvoiced
<1>5. /\ ObligationsTypeOK' /\ \A j \in Invoices : PaymentStays(j)
      /\ \A j \in Invoices \ {i} : obligation'[j] = obligation[j]
      /\ obligation'[i].dispute = "none" /\ obligation'[i].status = "open"
  BY <1>1, <1>2, <1>3, <1>4, ObligationMade
<1>6. ReceivablesTypeOK' /\ CustomerWritten(i, "issued", customerInvoice[i].quantity)
  BY <1>1, <1>2, <1>5, CustomerStatus
<1>7. /\ customerInvoice'[i].status = "issued" /\ customerInvoice'[i].quantity = customerInvoice[i].quantity
      /\ \A j \in CustomerInvoices \ {i} : customerInvoice'[j] = customerInvoice[j]
  BY <1>6 DEF CustomerWritten
<1>8. BilledWithinShipped'
  <2>1. \A j \in CustomerInvoices :
          \/ customerInvoice'[j].status \in {"none", "draft"}
          \/ /\ customerInvoice[j].status \notin {"none", "draft"}
             /\ customerInvoice'[j].quantity = customerInvoice[j].quantity
    BY <1>1, <1>7
  <2>2. QED
    BY <1>2, <1>6, <2>1, BilledKept DEF FinanceInv, ReceivablesInv
<1>9. ReceivablesAreInvoiced' /\ NotesAreNamed'
  BY <1>1, <1>5, <1>7 DEF FinanceInv, ObligationsInv, ReceivablesInv, ReceivablesAreInvoiced, NotesAreNamed, Invoices
<1>10. DisputesAgree'
  BY <1>5 DEF FinanceInv, ObligationsInv, DisputesAgree, Invoices
<1>11. \A j \in SupplierInvoices : obligation'[j] = obligation[j]
  BY <1>2, <1>5 DEF Invoices
<1>12. QED
  BY <1>5, <1>6, <1>8, <1>9, <1>10, <1>11, ReceivablesKept DEF ReceivablesInv

\* Due dates, references, note drafts and reversals of the goods.
LEMMA SalePaperStep ==
  ASSUME FinanceInv, UNCHANGED <<payablesRest, settlementRest>>,
         UNCHANGED <<obligation, customerInvoice>>, ReceivablesTypeOK', NotesAreNamed'
  PROVE  FinanceInv'
<1>1. BilledWithinShipped' /\ ReceivablesAreInvoiced'
  BY DEF FinanceInv, ObligationsInv, ReceivablesInv, BilledWithinShipped, ReceivablesAreInvoiced
<1>2. QED
  BY <1>1, ReceivablesPaper DEF ReceivablesInv


LEMMA CalendarStep ==
  ASSUME FinanceInv, UNCHANGED <<payablesRest, settlementRest>>,
         NEW i \in CustomerInvoices, DueDatePasses(i) \/ RecordExternalSettlementReference(i)
  PROVE  FinanceInv'
<1>1. UNCHANGED <<obligation, customerInvoice, note, documentVars>>
  BY DEF DueDatePasses, RecordExternalSettlementReference
<1>2. ReceivablesTypeOK
  BY DEF FinanceInv, ReceivablesInv
<1>3. pastDue' \in [CustomerInvoices -> BOOLEAN] /\ referenced' \in [CustomerInvoices -> BOOLEAN]
  BY <1>2 DEF DueDatePasses, RecordExternalSettlementReference, ReceivablesTypeOK
<1>4. ReceivablesTypeOK' /\ NotesAreNamed'
  BY <1>1, <1>2, <1>3 DEF FinanceInv, ReceivablesInv, ReceivablesTypeOK, ObligationsTypeOK, documentVars,
                           NotesAreNamed
<1>5. QED
  BY <1>1, <1>4, SalePaperStep

LEMMA SaleReversalStep ==
  ASSUME FinanceInv, UNCHANGED <<payablesRest, settlementRest>>, DocumentNext
  PROVE  FinanceInv'
<1>1. UNCHANGED <<obligation, customerInvoice, note, pastDue, referenced>>
  BY DEF DocumentNext, ReverseShipment, ReverseCustomerReturn
<1>2. ReceivablesTypeOK
  BY DEF FinanceInv, ReceivablesInv
<1>3. /\ shipped' \in [Shipments -> {"posted", "reversed"}]
      /\ receivedBack' \in [CustomerReturns -> {"posted", "reversed"}]
  BY <1>2 DEF DocumentNext, ReverseShipment, ReverseCustomerReturn, ReceivablesTypeOK
<1>4. ReceivablesTypeOK' /\ NotesAreNamed'
  BY <1>1, <1>2, <1>3 DEF FinanceInv, ReceivablesInv, ReceivablesTypeOK, ObligationsTypeOK, NotesAreNamed
<1>5. QED
  BY <1>1, <1>4, SalePaperStep

NoteRow ==
  [status : {"none", "draft", "approved"}, invoice : CustomerInvoices \cup {NoOne},
   return : CustomerReturns \cup {NoOne}, quantity : Nat, price : Nat]

LEMMA CreateNoteStep ==
  ASSUME FinanceInv, UNCHANGED <<payablesRest, settlementRest>>,
         NEW n \in CreditNotes, NEW i \in CustomerInvoices, NEW r \in CustomerReturns,
         NEW quantity \in 1..CustomerReturnQty[r],
         NEW price \in NotePrices \cup {SalesPrice[CustomerReturnLine[r]]},
         CreateCustomerCreditNote(n, i, r, quantity, price)
  PROVE  FinanceInv'
<1> DEFINE draft == [status |-> "draft", invoice |-> i, return |-> r,
                     quantity |-> quantity, price |-> price]
<1>1. /\ note' = [note EXCEPT ![n] = draft]
      /\ UNCHANGED <<obligation, customerInvoice, pastDue, referenced, documentVars>>
  BY DEF CreateCustomerCreditNote
<1>2. ReceivablesTypeOK /\ note \in [CreditNotes -> NoteRow]
  BY DEF FinanceInv, ReceivablesInv, ReceivablesTypeOK, NoteRow
<1>3. quantity \in Nat /\ price \in Nat
  <2>1. CustomerReturnQty[r] \in Nat
    BY ReceivablesAssumption
  <2>2. SalesPrice[CustomerReturnLine[r]] \in Nat
    BY ReceivablesAssumption
  <2>3. quantity \in Nat
    BY <2>1
  <2>4. QED
    BY <2>2, <2>3, ReceivablesAssumption
<1>4. draft \in NoteRow
  BY <1>3 DEF NoteRow
<1>5. /\ note' \in [CreditNotes -> NoteRow] /\ note'[n].invoice = i
      /\ \A x \in CreditNotes \ {n} : note'[x] = note[x]
  BY <1>1, <1>2, <1>4
<1>6. ReceivablesTypeOK' /\ NotesAreNamed'
  BY <1>1, <1>2, <1>5 DEF FinanceInv, ReceivablesInv, ReceivablesTypeOK, ObligationsTypeOK, documentVars,
                           NoteRow, NotesAreNamed
<1>7. QED
  BY <1>1, <1>6, SalePaperStep

\* A note credits its invoice.
LEMMA ApproveNoteStep ==
  ASSUME FinanceInv, UNCHANGED <<payablesRest, settlementRest>>,
         NEW n \in CreditNotes, ApproveCustomerCreditNote(n)
  PROVE  FinanceInv'
<1> DEFINE i == note[n].invoice
<1>1. /\ note[n].status = "draft" /\ Creditable(i, NoteAmount(n))
      /\ obligation' = Credited(i, NoteAmount(n))
      /\ note' = [note EXCEPT ![n].status = "approved"]
      /\ UNCHANGED <<customerInvoice, pastDue, referenced, documentVars>>
  BY DEF ApproveCustomerCreditNote
<1>2. /\ ReceivablesTypeOK /\ ObligationsTypeOK /\ i \in CustomerInvoices /\ i \in Invoices
      /\ note \in [CreditNotes -> NoteRow]
  BY <1>1 DEF FinanceInv, ReceivablesInv, ReceivablesTypeOK, NotesAreNamed, Invoices, NoteRow
<1>3. NoteAmount(n) \in Nat
  <2>1. note[n].quantity \in Nat /\ note[n].price \in Nat
    BY <1>2 DEF NoteRow
  <2>2. \A x, y \in Nat : x * y \in Nat
    OBVIOUS
  <2>3. QED
    BY <2>1, <2>2 DEF NoteAmount
<1> HIDE DEF i
<1>4. /\ ObligationsTypeOK'
      /\ \A j \in Invoices : /\ PaymentStays(j)
                             /\ obligation'[j].status = obligation[j].status
                             /\ obligation'[j].dispute = obligation[j].dispute
                             /\ j # i \/ ~Exists(i) => obligation'[j] = obligation[j]
  BY <1>1, <1>2, <1>3, CreditStep
<1>5. /\ note' \in [CreditNotes -> NoteRow] /\ note'[n].status = "approved"
      /\ \A x \in CreditNotes \ {n} : note'[x] = note[x]
  BY <1>1, <1>2 DEF NoteRow
<1>6. ReceivablesInv'
  <2>1. ReceivablesTypeOK'
    BY <1>1, <1>2, <1>4, <1>5 DEF ReceivablesTypeOK, documentVars, NoteRow
  <2>2. NotesAreNamed' /\ BilledWithinShipped'
    BY <1>1, <1>5 DEF FinanceInv, ReceivablesInv, NotesAreNamed, BilledWithinShipped
  <2>3. QED
    BY <2>1, <2>2 DEF ReceivablesInv
<1>7. ReceivablesAreInvoiced'
  <2> SUFFICES ASSUME NEW j \in CustomerInvoices, customerInvoice[j].status # "issued"
               PROVE  obligation'[j] = NoObligation
    BY <1>1 DEF ReceivablesAreInvoiced
  <2>1. obligation[j] = NoObligation /\ j \in Invoices
    BY DEF FinanceInv, ObligationsInv, ReceivablesAreInvoiced, Invoices
  <2>2. QED
    BY <1>4, <2>1 DEF Exists, NoObligation
<1>8. DisputesAgree'
  BY <1>4 DEF FinanceInv, ObligationsInv, DisputesAgree, Invoices
<1>9. \A j \in SupplierInvoices : obligation'[j] = obligation[j]
  BY <1>2, <1>4, ObligationsAssumption DEF Invoices
<1>10. QED
  BY <1>4, <1>6, <1>7, <1>8, <1>9, ReceivablesKept

\* A dispute is opened and resolved before anything is paid.
LEMMA DisputeStep ==
  ASSUME FinanceInv, UNCHANGED <<payablesRest, settlementRest>>,
         NEW i \in CustomerInvoices, DisputeReceivable(i) \/ ResolveReceivableDispute(i)
  PROVE  FinanceInv'
<1>1. PICK status \in {"disputed", "open", "overdue"}, dispute \in {"open", "resolved"} :
        /\ obligation' = DisputeWritten(i, status, dispute)
        /\ status = "disputed" <=> dispute = "open"
  BY DEF DisputeReceivable, ResolveReceivableDispute, AfterDispute, DisputeWritten
<1>2. UNCHANGED <<customerInvoice, note, pastDue, referenced, documentVars>>
  BY DEF DisputeReceivable, ResolveReceivableDispute
<1>3. obligation[i].status \in {"open", "overdue", "disputed"}
  BY DEF DisputeReceivable, Disputable, ResolveReceivableDispute, FinanceInv, ObligationsInv, DisputesAgree
<1>4. ReceivablesTypeOK /\ ObligationsTypeOK /\ i \in Invoices /\ i \notin SupplierInvoices
  BY ObligationsAssumption DEF FinanceInv, ReceivablesInv, ReceivablesTypeOK, Invoices
<1>5. obligation' = [obligation EXCEPT ![i] = Restated(i, status, dispute)]
  BY <1>1, <1>4, DisputeRestated
<1>6. /\ ObligationsTypeOK' /\ \A j \in Invoices : PaymentStays(j)
      /\ \A j \in Invoices \ {i} : obligation'[j] = obligation[j]
      /\ obligation'[i].status = status /\ obligation'[i].dispute = dispute
  <2>1. /\ obligation[i].status \notin PaidStatus /\ status \notin PaidStatus
        /\ status \in ReceivableStatus
    BY <1>3 DEF PaidStatus, ReceivableStatus
  <2>2. QED
    BY <1>4, <1>5, <2>1, StatusChanged
<1>7. ReceivablesInv'
  <2>1. ReceivablesTypeOK'
    BY <1>2, <1>4, <1>6 DEF ReceivablesTypeOK, documentVars
  <2>2. NotesAreNamed' /\ BilledWithinShipped'
    BY <1>2 DEF FinanceInv, ReceivablesInv, NotesAreNamed, BilledWithinShipped
  <2>3. QED
    BY <2>1, <2>2 DEF ReceivablesInv
<1>8. ReceivablesAreInvoiced'
  <2>1. customerInvoice[i].status = "issued"
    BY <1>3 DEF FinanceInv, ObligationsInv, ReceivablesAreInvoiced, NoObligation
  <2>2. QED
    BY <1>2, <1>6, <2>1 DEF FinanceInv, ObligationsInv, ReceivablesAreInvoiced, Invoices
<1>9. DisputesAgree'
  BY <1>1, <1>6 DEF FinanceInv, ObligationsInv, DisputesAgree, Invoices
<1>10. \A j \in SupplierInvoices : obligation'[j] = obligation[j]
  BY <1>4, <1>6 DEF Invoices
<1>11. QED
  BY <1>6, <1>7, <1>8, <1>9, <1>10, ReceivablesKept

LEMMA ReceivablesStepKeeps ==
  ASSUME FinanceInv, ReceivablesStep
  PROVE  FinanceInv'
<1>1. UNCHANGED <<payablesRest, settlementRest>>
  BY DEF ReceivablesStep
<1>2. ASSUME NEW i \in CustomerInvoices, CustomerInvoiceNext(i) PROVE FinanceInv'
  BY <1>1, <1>2, CreateCustomerInvoiceStep, SubmitCustomerInvoiceStep, ApproveCustomerInvoiceStep,
     IssueCustomerInvoiceStep, CalendarStep, DisputeStep DEF CustomerInvoiceNext
<1>3. ASSUME NEW n \in CreditNotes, NoteNext(n) PROVE FinanceInv'
  BY <1>1, <1>3, CreateNoteStep, ApproveNoteStep DEF NoteNext
<1>4. QED
  BY <1>1, <1>2, <1>3, SaleReversalStep DEF ReceivablesStep, ReceivablesNext


-----------------------------------------------------------------------------
\* The cashbook

SettlementRow == [document : Document, instruction : Instructions \cup {NoInstruction}]
AdvanceRow ==
  [original : Nat, remaining : Nat, applied : Nat,
   status : {"none", "open", "partially_applied", "fully_applied", "reversed"}]
ApplicationRow ==
  [document : Document, advance : Settlements \cup {Nobody},
   invoice : Invoices \cup {Nobody}, amount : Nat]
TransferRow == [document : Document, order : TransferOrders \cup {NoOrder}]

\* The amounts that PaidBySettlements, PaidByAdvances and AdvancesAreConserved add up.
SettledFamily(i) == [s \in Settlements |->
  IF settlement[s].document.posting = "posted"
    THEN settlement[s].instruction.cash[i] + settlement[s].instruction.discount[i] ELSE 0]
AppliedToFamily(i) == [x \in Applications |->
  IF application[x].document.posting = "posted" /\ application[x].invoice = i
    THEN application[x].amount ELSE 0]
AppliedFromFamily(s) == [x \in Applications |->
  IF application[x].document.posting = "posted" /\ application[x].advance = s
    THEN application[x].amount ELSE 0]

LEMMA CashbookTypes ==
  SettlementTypeOK <=>
    /\ ObligationsTypeOK
    /\ cash \in [Accounts -> Nat]
    /\ entry \in [Accounts -> Seq(CashEntry)]
    /\ settlement \in [Settlements -> SettlementRow]
    /\ advance \in [Settlements -> AdvanceRow]
    /\ application \in [Applications -> ApplicationRow]
    /\ transfer \in [Transfers -> TransferRow]
BY DEF SettlementTypeOK, SettlementRow, AdvanceRow, ApplicationRow, TransferRow

LEMMA CashbookTypesNext ==
  SettlementTypeOK' <=>
    /\ ObligationsTypeOK'
    /\ cash' \in [Accounts -> Nat]
    /\ entry' \in [Accounts -> Seq(CashEntry)]
    /\ settlement' \in [Settlements -> SettlementRow]
    /\ advance' \in [Settlements -> AdvanceRow]
    /\ application' \in [Applications -> ApplicationRow]
    /\ transfer' \in [Transfers -> TransferRow]
BY DEF SettlementTypeOK, SettlementRow, AdvanceRow, ApplicationRow, TransferRow

LEMMA InvoicesFinite == IsFiniteSet(Invoices)
BY ObligationsAssumption, FS_Union DEF Invoices

\* The amounts of an instruction are natural numbers.
LEMMA InstructionNat ==
  ASSUME NEW n \in Instructions \cup {NoInstruction}
  PROVE  /\ n.amount \in Nat /\ Total(n.cash) \in Nat
         /\ \A i \in Invoices : /\ n.cash[i] \in Nat /\ n.discount[i] \in Nat
                                /\ Allocation(n, i) \in Nat
                                /\ i \notin Allocated(n) => Allocation(n, i) = 0
<1>1. n.amount \in Nat /\ n.cash \in [Invoices -> Nat] /\ n.discount \in [Invoices -> Nat]
  BY SettlementAssumption DEF NoInstruction
<1>2. Total(n.cash) \in Nat
  BY <1>1, InvoicesFinite, TotalNat
<1>3. \A i \in Invoices : n.cash[i] \in Nat /\ n.discount[i] \in Nat /\ Allocation(n, i) \in Nat
  BY <1>1 DEF Allocation
<1>4. \A i \in Invoices : i \notin Allocated(n) => Allocation(n, i) = 0
  BY <1>3 DEF Allocated
<1>5. QED
  BY <1>1, <1>2, <1>3, <1>4

LEMMA FamiliesNat ==
  ASSUME SettlementTypeOK
  PROVE  /\ \A i \in Invoices : /\ SettledFamily(i) \in [Settlements -> Nat]
                                /\ AppliedToFamily(i) \in [Applications -> Nat]
         /\ \A s \in Settlements : AppliedFromFamily(s) \in [Applications -> Nat]
<1>1. \A s \in Settlements : settlement[s].instruction \in Instructions \cup {NoInstruction}
  BY DEF SettlementTypeOK
<1>2. \A x \in Applications : application[x].amount \in Nat
  BY DEF SettlementTypeOK
<1>3. ASSUME NEW i \in Invoices PROVE SettledFamily(i) \in [Settlements -> Nat]
  BY <1>1, InstructionNat DEF SettledFamily
<1>4. QED
  BY <1>2, <1>3 DEF AppliedToFamily, AppliedFromFamily

LEMMA FamiliesNatNext ==
  ASSUME SettlementTypeOK'
  PROVE  /\ \A i \in Invoices : /\ SettledFamily(i)' \in [Settlements -> Nat]
                                /\ AppliedToFamily(i)' \in [Applications -> Nat]
         /\ \A s \in Settlements : AppliedFromFamily(s)' \in [Applications -> Nat]
<1>1. \A s \in Settlements : settlement'[s].instruction \in Instructions \cup {NoInstruction}
  BY DEF SettlementTypeOK
<1>2. \A x \in Applications : application'[x].amount \in Nat
  BY DEF SettlementTypeOK
<1>3. ASSUME NEW i \in Invoices PROVE SettledFamily(i)' \in [Settlements -> Nat]
  BY <1>1, InstructionNat DEF SettledFamily
<1>4. QED
  BY <1>2, <1>3 DEF AppliedToFamily, AppliedFromFamily

\* What a step of the cashbook has to keep, so that the other sides keep theirs.
LEMMA CashbookKept ==
  ASSUME FinanceInv, UNCHANGED <<payablesRest, receivablesRest>>,
         CashbookInv', OutstandingIsExplained', StatusTellsWhatIsPaid',
         \A i \in Invoices : /\ obligation[i] = NoObligation => obligation'[i] = NoObligation
                             /\ obligation'[i].dispute = obligation[i].dispute
                             /\ obligation'[i].status = "disputed" <=> obligation[i].status = "disputed"
  PROVE  FinanceInv'
<1>1. ObligationsTypeOK'
  BY DEF CashbookInv, SettlementTypeOK
<1>2. PayablesInv' /\ ReceivablesInv'
  BY <1>1, PayablesFrame, ReceivablesFrame DEF FinanceInv
<1>3. PayablesAreInvoiced'
  BY DEF FinanceInv, ObligationsInv, PayablesAreInvoiced, payablesRest, Invoices
<1>4. ReceivablesAreInvoiced'
  BY DEF FinanceInv, ObligationsInv, ReceivablesAreInvoiced, receivablesRest, Invoices
<1>5. DisputesAgree'
  BY DEF FinanceInv, ObligationsInv, DisputesAgree, Invoices
<1>6. QED
  BY <1>2, <1>3, <1>4, <1>5 DEF FinanceInv, ObligationsInv

\* Steps that pay nothing.
LEMMA CashbookPaper ==
  ASSUME FinanceInv, UNCHANGED <<obligation, payablesRest, receivablesRest>>, CashbookInv',
         \A i \in Invoices : SettledFamily(i)' = SettledFamily(i) /\ AppliedToFamily(i)' = AppliedToFamily(i)
  PROVE  FinanceInv'
<1>1. \A i \in Invoices : /\ PaidBySettlements(i)' = PaidBySettlements(i)
                          /\ PaidByAdvances(i)' = PaidByAdvances(i)
                          /\ Maximum(i)' = Maximum(i)
  BY DEF PaidBySettlements, PaidByAdvances, SettledFamily, AppliedToFamily, Maximum
<1>2. OutstandingIsExplained' /\ StatusTellsWhatIsPaid'
  BY <1>1 DEF FinanceInv, ObligationsInv, OutstandingIsExplained, StatusTellsWhatIsPaid
<1>3. QED
  BY <1>2, CashbookKept

\* Before it is posted a document only moves on.
LEMMA WorkflowStepped ==
  ASSUME NEW d \in Document, Consistent(d), NEW allowed, NEW e \in WorkflowSteps(d, allowed)
  PROVE  /\ e \in Document /\ Consistent(e) /\ d.posting = "unposted" /\ e.posting = "unposted"
         /\ d.workflow \in {"draft", "submitted"}
         /\ e.workflow \in {"submitted", "cancelled", "rejected", "approved"}
<1>1. d.workflow \in {"draft", "submitted"}
  BY DEF WorkflowSteps
<1>2. d.posting = "unposted"
  BY <1>1 DEF Consistent, Document
<1>3. \/ e = [d EXCEPT !.workflow = "submitted"]
      \/ e = [d EXCEPT !.workflow = "cancelled"]
      \/ e = [d EXCEPT !.workflow = "rejected"]
      \/ \E p \in People : e = [d EXCEPT !.workflow = "approved", !.approver = p]
  BY DEF WorkflowSteps, Submitted, Cancelled, Rejected, Approved
<1>4. e \in Document /\ e.posting = "unposted"
      /\ e.workflow \in {"submitted", "cancelled", "rejected", "approved"}
  <2>1. ASSUME NEW p \in People, e = [d EXCEPT !.workflow = "approved", !.approver = p]
        PROVE  e \in Document /\ e.posting = d.posting /\ e.workflow = "approved"
    BY <2>1 DEF Document
  <2>2. ASSUME NEW w \in {"submitted", "cancelled", "rejected"}, e = [d EXCEPT !.workflow = w]
        PROVE  e \in Document /\ e.posting = d.posting /\ e.workflow = w
    BY <2>2 DEF Document
  <2>3. QED
    BY <1>2, <1>3, <2>1, <2>2
<1>5. QED
  BY <1>1, <1>2, <1>4 DEF Consistent

\* A posting and a reversal of a document.
LEMMA DocumentMoves ==
  ASSUME NEW d \in Document
  PROVE  /\ Posted(d) \in Document /\ Posted(d).workflow = "posted" /\ Posted(d).posting = "posted"
         /\ Reversed(d) \in Document /\ Reversed(d).workflow = "reversed" /\ Reversed(d).posting = "reversed"
         /\ Consistent(Posted(d)) /\ Consistent(Reversed(d))
BY DEF Document, Posted, Reversed, Consistent

LEMMA DraftedDocument ==
  ASSUME NEW p \in People
  PROVE  /\ Drafted(p) \in Document /\ Consistent(Drafted(p))
         /\ Drafted(p).workflow = "draft" /\ Drafted(p).posting = "unposted"
BY DEF Document, Drafted, Consistent


\* A settlement that has not been posted is written, and still is not posted.
LEMMA SettlementPaper ==
  ASSUME FinanceInv, UNCHANGED <<payablesRest, receivablesRest>>,
         UNCHANGED <<obligation, cashVars, advance, application, transfer>>,
         NEW s \in Settlements, NEW row \in SettlementRow,
         settlement' = [settlement EXCEPT ![s] = row],
         settlement[s].document.posting = "unposted",
         row.document.posting = "unposted", Consistent(row.document), row.instruction \in Instructions
  PROVE  FinanceInv'
<1>1. SettlementTypeOK /\ settlement \in [Settlements -> SettlementRow]
  BY CashbookTypes DEF FinanceInv, CashbookInv
<1>2. /\ settlement' \in [Settlements -> SettlementRow] /\ settlement'[s] = row
      /\ \A t \in Settlements \ {s} : settlement'[t] = settlement[t]
  BY <1>1
<1>3. SettlementTypeOK'
  BY <1>1, <1>2, CashbookTypes, CashbookTypesNext DEF cashVars, ObligationsTypeOK
<1>4. SettlementsAreNamed'
  <2> SUFFICES ASSUME NEW t \in Settlements
               PROVE  /\ Consistent(settlement'[t].document)
                      /\ settlement'[t].document.workflow # "none" => settlement'[t].instruction \in Instructions
                      /\ settlement'[t].document.posting = "unposted" => advance[t] = NoAdvance
                      /\ advance[t].status \notin {"none", "reversed"} => settlement'[t].document.posting = "posted"
    BY DEF SettlementsAreNamed
  <2>1. /\ Consistent(settlement[t].document)
        /\ settlement[t].document.workflow # "none" => settlement[t].instruction \in Instructions
        /\ settlement[t].document.posting = "unposted" => advance[t] = NoAdvance
        /\ advance[t].status \notin {"none", "reversed"} => settlement[t].document.posting = "posted"
    BY DEF FinanceInv, CashbookInv, SettlementsAreNamed
  <2>2. CASE t = s
    BY <1>2, <2>1, <2>2 DEF NoAdvance
  <2>3. CASE t # s
    BY <1>2, <2>1, <2>3
  <2>4. QED
    BY <2>2, <2>3
<1>5. ApplicationsAreNamed' /\ TransfersAreNamed'
  BY DEF FinanceInv, CashbookInv, ApplicationsAreNamed, TransfersAreNamed
<1>6. AdvancesAreConserved'
  <2>1. \A t \in Settlements : settlement[t].document.posting = "posted" => settlement'[t].document.posting = "posted"
    BY <1>2
  <2>2. QED
    BY <2>1 DEF FinanceInv, CashbookInv, AdvancesAreConserved
<1>7. \A i \in Invoices : SettledFamily(i)' = SettledFamily(i) /\ AppliedToFamily(i)' = AppliedToFamily(i)
  <2>1. \A t \in Settlements : \/ settlement'[t] = settlement[t]
                               \/ /\ settlement[t].document.posting # "posted"
                                  /\ settlement'[t].document.posting # "posted"
    BY <1>2
  <2>2. QED
    BY <2>1 DEF SettledFamily, AppliedToFamily
<1>8. QED
  BY <1>3, <1>4, <1>5, <1>6, <1>7, CashbookPaper DEF CashbookInv

LEMMA SettlementPaperStep ==
  ASSUME FinanceInv, UNCHANGED <<payablesRest, receivablesRest>>, NEW s \in Settlements,
         \/ \E p \in People, n \in Instructions : CreateSettlement(s, p, n) \/ ReviseSettlement(s, p, n)
         \/ SettlementWorkflow(s)
  PROVE  FinanceInv'
<1>1. /\ settlement \in [Settlements -> SettlementRow] /\ settlement[s] \in SettlementRow
      /\ settlement[s].document \in Document /\ Consistent(settlement[s].document)
      /\ settlement[s].document.workflow # "none" => settlement[s].instruction \in Instructions
  BY CashbookTypes DEF FinanceInv, CashbookInv, SettlementsAreNamed, SettlementRow
<1>2. UNCHANGED <<obligation, cashVars, advance, application, transfer>>
  BY DEF CreateSettlement, ReviseSettlement, SettlementWorkflow
<1>3. CASE \E p \in People, n \in Instructions : CreateSettlement(s, p, n)
  <2>1. PICK p \in People, n \in Instructions : CreateSettlement(s, p, n)
    BY <1>3
  <2> DEFINE row == [document |-> Drafted(p), instruction |-> n]
  <2>2. row \in SettlementRow
    BY DraftedDocument DEF SettlementRow
  <2>3. settlement' = [settlement EXCEPT ![s] = row] /\ settlement[s].document.workflow = "none"
    BY <2>1 DEF CreateSettlement
  <2>4. settlement[s].document.posting = "unposted"
    BY <1>1, <2>3 DEF Consistent, Document
  <2>5. /\ row.document.posting = "unposted" /\ Consistent(row.document)
        /\ row.instruction \in Instructions
    BY DraftedDocument
  <2> HIDE DEF row
  <2>6. QED
    BY <1>2, <2>2, <2>3, <2>4, <2>5, SettlementPaper
<1>4. CASE \E p \in People, n \in Instructions : ReviseSettlement(s, p, n)
  <2>1. PICK p \in People, n \in Instructions : ReviseSettlement(s, p, n)
    BY <1>4
  <2> DEFINE d == [settlement[s].document EXCEPT !.workflow = "draft"]
             row == [document |-> d, instruction |-> n]
  <2>2. settlement[s].document.posting = "unposted"
    BY <1>1, <2>1 DEF ReviseSettlement, Editable, Consistent, Document
  <2>3. d \in Document /\ d.workflow = "draft" /\ d.posting = "unposted" /\ Consistent(d)
    BY <1>1, <2>2 DEF Document, Consistent
  <2>4. settlement' = [settlement EXCEPT ![s] = row]
    <3>1. settlement' = [settlement EXCEPT ![s].instruction = n, ![s].document.workflow = "draft"]
      BY <2>1 DEF ReviseSettlement
    <3>2. settlement' = [settlement EXCEPT ![s] = [[settlement[s] EXCEPT !.instruction = n] EXCEPT !.document.workflow = "draft"]]
      BY <1>1, <3>1
    <3>3. [settlement[s] EXCEPT !.instruction = n] = [document |-> settlement[s].document, instruction |-> n]
      BY <1>1 DEF SettlementRow
    <3>4. [[document |-> settlement[s].document, instruction |-> n] EXCEPT !.document.workflow = "draft"] = row
      OBVIOUS
    <3>5. QED
      BY <3>2, <3>3, <3>4
  <2>5. row \in SettlementRow
    BY <2>3 DEF SettlementRow
  <2>6. row.document.posting = "unposted" /\ Consistent(row.document) /\ row.instruction \in Instructions
    BY <2>3
  <2> HIDE DEF row
  <2>7. QED
    BY <1>2, <2>2, <2>4, <2>5, <2>6, SettlementPaper
<1>5. CASE SettlementWorkflow(s)
  <2>1. PICK e \in WorkflowSteps(settlement[s].document, SelfApprovalAllowed) :
          settlement' = [settlement EXCEPT ![s].document = e]
    BY <1>5 DEF SettlementWorkflow
  <2> DEFINE row == [document |-> e, instruction |-> settlement[s].instruction]
  <2>2. /\ e \in Document /\ Consistent(e) /\ settlement[s].document.posting = "unposted"
        /\ e.posting = "unposted" /\ settlement[s].document.workflow \in {"draft", "submitted"}
    BY <1>1, <2>1, WorkflowStepped
  <2>3. settlement' = [settlement EXCEPT ![s] = row]
    <3>1. [settlement[s] EXCEPT !.document = e] = row
      BY <1>1 DEF SettlementRow
    <3>2. QED
      BY <2>1, <3>1
  <2>4. row \in SettlementRow
    BY <1>1, <2>2 DEF SettlementRow
  <2>5. row.document.posting = "unposted" /\ Consistent(row.document) /\ row.instruction \in Instructions
    BY <1>1, <2>2
  <2> HIDE DEF row
  <2>6. QED
    BY <1>2, <2>2, <2>3, <2>4, <2>5, SettlementPaper
<1>6. QED
  BY <1>3, <1>4, <1>5


\* An application that has not been posted is written, and still is not posted.
LEMMA ApplicationPaper ==
  ASSUME FinanceInv, UNCHANGED <<payablesRest, receivablesRest>>,
         UNCHANGED <<obligation, cashVars, settlement, advance, transfer>>,
         NEW x \in Applications, NEW row \in ApplicationRow,
         application' = [application EXCEPT ![x] = row],
         application[x].document.posting = "unposted",
         row.document.posting = "unposted", Consistent(row.document),
         row.advance \in Settlements, row.invoice \in Invoices, row.amount > 0
  PROVE  FinanceInv'
<1>1. SettlementTypeOK /\ application \in [Applications -> ApplicationRow]
  BY CashbookTypes DEF FinanceInv, CashbookInv
<1>2. /\ application' \in [Applications -> ApplicationRow] /\ application'[x] = row
      /\ \A y \in Applications \ {x} : application'[y] = application[y]
  BY <1>1
<1>3. SettlementTypeOK'
  BY <1>1, <1>2, CashbookTypes, CashbookTypesNext DEF cashVars, ObligationsTypeOK
<1>4. ApplicationsAreNamed'
  BY <1>2 DEF FinanceInv, CashbookInv, ApplicationsAreNamed
<1>5. SettlementsAreNamed' /\ TransfersAreNamed'
  BY DEF FinanceInv, CashbookInv, SettlementsAreNamed, TransfersAreNamed
<1>6. \A y \in Applications : \/ application'[y] = application[y]
                              \/ /\ application[y].document.posting # "posted"
                                 /\ application'[y].document.posting # "posted"
  BY <1>2
<1>7. \A s \in Settlements : AppliedFromFamily(s)' = AppliedFromFamily(s)
  BY <1>6 DEF AppliedFromFamily
<1>8. AdvancesAreConserved'
  BY <1>7 DEF FinanceInv, CashbookInv, AdvancesAreConserved, AppliedFromFamily
<1>9. \A i \in Invoices : SettledFamily(i)' = SettledFamily(i) /\ AppliedToFamily(i)' = AppliedToFamily(i)
  BY <1>6 DEF SettledFamily, AppliedToFamily
<1>10. QED
  BY <1>3, <1>4, <1>5, <1>8, <1>9, CashbookPaper DEF CashbookInv

LEMMA ApplicationPaperStep ==
  ASSUME FinanceInv, UNCHANGED <<payablesRest, receivablesRest>>, NEW x \in Applications,
         \/ \E p \in People, s \in Settlements, i \in Invoices, amount \in AppliedAmounts :
              CreateAdvanceApplication(x, p, s, i, amount)
         \/ ApplicationWorkflow(x)
  PROVE  FinanceInv'
<1>1. /\ application \in [Applications -> ApplicationRow] /\ application[x] \in ApplicationRow
      /\ application[x].document \in Document /\ Consistent(application[x].document)
      /\ application[x].document.workflow # "none" =>
           /\ application[x].advance \in Settlements /\ application[x].invoice \in Invoices
           /\ application[x].amount > 0
  BY CashbookTypes DEF FinanceInv, CashbookInv, ApplicationsAreNamed, ApplicationRow
<1>2. UNCHANGED <<obligation, cashVars, settlement, advance, transfer>>
  BY DEF CreateAdvanceApplication, ApplicationWorkflow
<1>3. CASE \E p \in People, s \in Settlements, i \in Invoices, amount \in AppliedAmounts :
             CreateAdvanceApplication(x, p, s, i, amount)
  <2>1. PICK p \in People, s \in Settlements, i \in Invoices, amount \in AppliedAmounts :
          CreateAdvanceApplication(x, p, s, i, amount)
    BY <1>3
  <2> DEFINE row == [document |-> Drafted(p), advance |-> s, invoice |-> i, amount |-> amount]
  <2>2. row \in ApplicationRow
    BY DraftedDocument, SettlementAssumption DEF ApplicationRow
  <2>3. application' = [application EXCEPT ![x] = row] /\ application[x].document.workflow = "none"
    BY <2>1 DEF CreateAdvanceApplication
  <2>4. application[x].document.posting = "unposted"
    BY <1>1, <2>3 DEF Consistent, Document
  <2>5. /\ row.document.posting = "unposted" /\ Consistent(row.document)
        /\ row.advance \in Settlements /\ row.invoice \in Invoices /\ row.amount > 0
    BY <2>1, DraftedDocument DEF CreateAdvanceApplication, FactsAllow
  <2> HIDE DEF row
  <2>6. QED
    BY <1>2, <2>2, <2>3, <2>4, <2>5, ApplicationPaper
<1>4. CASE ApplicationWorkflow(x)
  <2>1. PICK e \in ApplicationSteps(application[x].document) :
          application' = [application EXCEPT ![x].document = e]
    BY <1>4 DEF ApplicationWorkflow
  <2> DEFINE row == [document |-> e, advance |-> application[x].advance,
                     invoice |-> application[x].invoice, amount |-> application[x].amount]
  <2>2. e \in WorkflowSteps(application[x].document, FALSE)
    BY <2>1 DEF ApplicationSteps
  <2>3. /\ e \in Document /\ Consistent(e) /\ application[x].document.posting = "unposted"
        /\ e.posting = "unposted" /\ application[x].document.workflow \in {"draft", "submitted"}
    BY <1>1, <2>2, WorkflowStepped
  <2>4. application' = [application EXCEPT ![x] = row]
    <3>1. [application[x] EXCEPT !.document = e] = row
      BY <1>1 DEF ApplicationRow
    <3>2. QED
      BY <2>1, <3>1
  <2>5. row \in ApplicationRow
    BY <1>1, <2>3 DEF ApplicationRow
  <2>6. /\ row.document.posting = "unposted" /\ Consistent(row.document)
        /\ row.advance \in Settlements /\ row.invoice \in Invoices /\ row.amount > 0
    BY <1>1, <2>3
  <2> HIDE DEF row
  <2>7. QED
    BY <1>2, <2>3, <2>4, <2>5, <2>6, ApplicationPaper
<1>5. QED
  BY <1>3, <1>4

\* Transfers between accounts touch nothing but the cashbook.
LEMMA TransferKept ==
  ASSUME FinanceInv, UNCHANGED <<payablesRest, receivablesRest>>,
         UNCHANGED <<obligation, settlement, advance, application>>,
         NEW t \in Transfers, NEW row \in TransferRow,
         transfer' = [transfer EXCEPT ![t] = row],
         Consistent(row.document), row.order \in TransferOrders,
         cash' \in [Accounts -> Nat], entry' \in [Accounts -> Seq(CashEntry)]
  PROVE  FinanceInv'
<1>1. SettlementTypeOK /\ transfer \in [Transfers -> TransferRow]
  BY CashbookTypes DEF FinanceInv, CashbookInv
<1>2. /\ transfer' \in [Transfers -> TransferRow] /\ transfer'[t] = row
      /\ \A u \in Transfers \ {t} : transfer'[u] = transfer[u]
  BY <1>1
<1>3. SettlementTypeOK'
  BY <1>1, <1>2, CashbookTypes, CashbookTypesNext DEF ObligationsTypeOK
<1>4. TransfersAreNamed'
  BY <1>2 DEF FinanceInv, CashbookInv, TransfersAreNamed
<1>5. SettlementsAreNamed' /\ ApplicationsAreNamed' /\ AdvancesAreConserved'
  BY DEF FinanceInv, CashbookInv, SettlementsAreNamed, ApplicationsAreNamed, AdvancesAreConserved
<1>6. \A i \in Invoices : SettledFamily(i)' = SettledFamily(i) /\ AppliedToFamily(i)' = AppliedToFamily(i)
  BY DEF SettledFamily, AppliedToFamily
<1>7. QED
  BY <1>3, <1>4, <1>5, <1>6, CashbookPaper DEF CashbookInv

\* An account that an entry is written for.
LEMMA Booked ==
  ASSUME NEW book \in [Accounts -> Seq(CashEntry)], cash \in [Accounts -> Nat],
         NEW a \in Accounts, NEW x \in Settlements \cup Transfers,
         NEW type \in {"posting", "reversal"}, NEW after \in Nat
  PROVE  Book(book, a, x, type, after) \in [Accounts -> Seq(CashEntry)]
<1>1. [document |-> x, type |-> type, before |-> cash[a], after |-> after] \in CashEntry
  BY DEF CashEntry
<1>2. Append(book[a], [document |-> x, type |-> type, before |-> cash[a], after |-> after]) \in Seq(CashEntry)
  BY <1>1
<1>3. QED
  BY <1>2 DEF Book

LEMMA MoveTypes ==
  ASSUME SettlementTypeOK, NEW t \in Transfers, NEW from \in Accounts, NEW to \in Accounts,
         NEW amount \in Nat, NEW type \in {"posting", "reversal"}, Move(t, from, to, amount, type)
  PROVE  cash' \in [Accounts -> Nat] /\ entry' \in [Accounts -> Seq(CashEntry)]
<1>1. cash \in [Accounts -> Nat] /\ entry \in [Accounts -> Seq(CashEntry)] /\ cash[from] >= amount
  BY DEF SettlementTypeOK, Move
<1>2. cash[from] - amount \in Nat /\ cash[to] + amount \in Nat /\ \A a \in Accounts : cash[a] + amount \in Nat
  BY <1>1
<1>3. cash' \in [Accounts -> Nat]
  BY <1>1, <1>2 DEF Move, Moved
<1>4. Book(entry, from, t, type, cash[from] - amount) \in [Accounts -> Seq(CashEntry)]
  BY <1>1, <1>2, Booked
<1>5. Book(Book(entry, from, t, type, cash[from] - amount), to, t, type, cash[to] + amount)
        \in [Accounts -> Seq(CashEntry)]
  BY <1>1, <1>2, <1>4, Booked
<1>6. QED
  BY <1>3, <1>5 DEF Move

LEMMA TransferStep ==
  ASSUME FinanceInv, UNCHANGED <<payablesRest, receivablesRest>>, NEW t \in Transfers, TransferNext(t)
  PROVE  FinanceInv'
<1> DEFINE d == transfer[t].document
           o == transfer[t].order
<1>1. /\ SettlementTypeOK /\ transfer \in [Transfers -> TransferRow] /\ transfer[t] \in TransferRow
      /\ d \in Document /\ Consistent(d)
      /\ d.workflow # "none" => o \in TransferOrders
      /\ cash \in [Accounts -> Nat] /\ entry \in [Accounts -> Seq(CashEntry)]
  BY CashbookTypes DEF FinanceInv, CashbookInv, TransfersAreNamed, TransferRow
<1>2. UNCHANGED <<obligation, settlement, advance, application>>
  BY DEF TransferNext, CreateInternalTransfer, ReviseInternalTransfer, TransferWorkflow,
         PostInternalTransfer, ReverseInternalTransfer, Move
<1>3. ASSUME NEW e \in Document, Consistent(e), NEW p \in TransferOrders,
             transfer' = [transfer EXCEPT ![t] = [document |-> e, order |-> p]],
             cash' \in [Accounts -> Nat], entry' \in [Accounts -> Seq(CashEntry)]
      PROVE  FinanceInv'
  <2>1. [document |-> e, order |-> p] \in TransferRow
    BY DEF TransferRow
  <2> DEFINE row == [document |-> e, order |-> p]
  <2>2. row \in TransferRow /\ transfer' = [transfer EXCEPT ![t] = row]
        /\ Consistent(row.document) /\ row.order \in TransferOrders
    BY <1>3, <2>1
  <2> HIDE DEF row
  <2>3. QED
    BY <1>2, <1>3, <2>2, TransferKept
<1>4. ASSUME NEW e PROVE [transfer[t] EXCEPT !.document = e] = [document |-> e, order |-> o]
  BY <1>1 DEF TransferRow
<1>5. ASSUME NEW p \in People, NEW q \in TransferOrders, CreateInternalTransfer(t, p, q) PROVE FinanceInv'
  BY <1>1, <1>3, <1>5, DraftedDocument DEF CreateInternalTransfer, cashVars
<1>6. ASSUME NEW q \in TransferOrders, ReviseInternalTransfer(t, q) PROVE FinanceInv'
  <2> DEFINE e == [d EXCEPT !.workflow = "draft"]
  <2>1. d.posting = "unposted"
    BY <1>1, <1>6 DEF ReviseInternalTransfer, Editable, Consistent, Document
  <2>2. e \in Document /\ Consistent(e)
    BY <1>1, <2>1 DEF Document, Consistent
  <2>3. transfer' = [transfer EXCEPT ![t] = [document |-> e, order |-> q]]
    <3>1. transfer' = [transfer EXCEPT ![t] = [[transfer[t] EXCEPT !.order = q] EXCEPT !.document.workflow = "draft"]]
      BY <1>1, <1>6 DEF ReviseInternalTransfer
    <3>2. [transfer[t] EXCEPT !.order = q] = [document |-> d, order |-> q]
      BY <1>1 DEF TransferRow
    <3>3. [[document |-> d, order |-> q] EXCEPT !.document.workflow = "draft"] = [document |-> e, order |-> q]
      OBVIOUS
    <3>4. QED
      BY <3>1, <3>2, <3>3
  <2>4. cash' \in [Accounts -> Nat] /\ entry' \in [Accounts -> Seq(CashEntry)]
    BY <1>1, <1>6 DEF ReviseInternalTransfer, cashVars
  <2> HIDE DEF e
  <2>5. QED
    BY <1>3, <2>2, <2>3, <2>4
<1>7. ASSUME TransferWorkflow(t) PROVE FinanceInv'
  <2>1. PICK e \in WorkflowSteps(d, FALSE) : transfer' = [transfer EXCEPT ![t].document = e]
    BY <1>7 DEF TransferWorkflow
  <2>2. e \in Document /\ Consistent(e) /\ d.workflow \in {"draft", "submitted"}
    BY <1>1, <2>1, WorkflowStepped
  <2>3. transfer' = [transfer EXCEPT ![t] = [document |-> e, order |-> o]]
    BY <1>4, <2>1
  <2>4. cash' \in [Accounts -> Nat] /\ entry' \in [Accounts -> Seq(CashEntry)] /\ o \in TransferOrders
    BY <1>1, <1>7, <2>2 DEF TransferWorkflow, cashVars
  <2>5. QED
    BY <1>3, <2>2, <2>3, <2>4
<1>8. ASSUME d.workflow # "none" PROVE o \in TransferOrders /\ o.from \in Accounts /\ o.to \in Accounts /\ o.amount \in Nat
  BY <1>1, <1>8, SettlementAssumption
<1>9. ASSUME PostInternalTransfer(t) PROVE FinanceInv'
  <2>1. /\ d.workflow = "approved" /\ Move(t, o.from, o.to, o.amount, "posting")
        /\ transfer' = [transfer EXCEPT ![t].document = Posted(d)]
    BY <1>9 DEF PostInternalTransfer
  <2>2. /\ o \in TransferOrders /\ cash' \in [Accounts -> Nat] /\ entry' \in [Accounts -> Seq(CashEntry)]
    BY <1>1, <1>8, <2>1, MoveTypes
  <2>3. transfer' = [transfer EXCEPT ![t] = [document |-> Posted(d), order |-> o]]
    BY <1>4, <2>1
  <2>4. QED
    BY <1>1, <1>3, <2>2, <2>3, DocumentMoves
<1>10. ASSUME ReverseInternalTransfer(t) PROVE FinanceInv'
  <2>1. /\ d.posting = "posted" /\ Move(t, o.to, o.from, o.amount, "reversal")
        /\ transfer' = [transfer EXCEPT ![t].document = Reversed(d)]
    BY <1>10 DEF ReverseInternalTransfer
  <2>2. d.workflow # "none"
    BY <1>1, <2>1 DEF Consistent
  <2>3. /\ o \in TransferOrders /\ cash' \in [Accounts -> Nat] /\ entry' \in [Accounts -> Seq(CashEntry)]
    BY <1>1, <1>8, <2>1, <2>2, MoveTypes
  <2>4. transfer' = [transfer EXCEPT ![t] = [document |-> Reversed(d), order |-> o]]
    BY <1>4, <2>1
  <2>5. QED
    BY <1>1, <1>3, <2>3, <2>4, DocumentMoves
<1>11. QED
  BY <1>5, <1>6, <1>7, <1>9, <1>10 DEF TransferNext


-----------------------------------------------------------------------------
\* Payments

Paid(i) == PaidBySettlements(i) + PaidByAdvances(i)
AppliedFrom(s) == Total(AppliedFromFamily(s))

\* What a settlement counts for invoice i, and an application for invoice i or advance s.
Counted(row, i) == IF row.document.posting = "posted" THEN Allocation(row.instruction, i) ELSE 0
CountedTo(row, i) == IF row.document.posting = "posted" /\ row.invoice = i THEN row.amount ELSE 0
CountedFrom(row, s) == IF row.document.posting = "posted" /\ row.advance = s THEN row.amount ELSE 0

LEMMA PaidIsNat ==
  ASSUME SettlementTypeOK, NEW i \in Invoices
  PROVE  Paid(i) \in Nat /\ PaidBySettlements(i) \in Nat /\ PaidByAdvances(i) \in Nat
BY PaidNat DEF Paid

LEMMA PaidIsNatNext ==
  ASSUME SettlementTypeOK', NEW i \in Invoices
  PROVE  Paid(i)' \in Nat
<1>1. SettledFamily(i)' \in [Settlements -> Nat] /\ AppliedToFamily(i)' \in [Applications -> Nat]
  BY FamiliesNatNext
<1>2. Total(SettledFamily(i)') \in Nat /\ Total(AppliedToFamily(i)') \in Nat
  BY <1>1, TotalNat, SettlementAssumption
<1>3. QED
  BY <1>2 DEF Paid, PaidBySettlements, PaidByAdvances, SettledFamily, AppliedToFamily

\* A settlement moves what is paid by what it counts.
LEMMA SettlementMoved ==
  ASSUME SettlementTypeOK, NEW s \in Settlements, NEW row \in SettlementRow,
         settlement' = [settlement EXCEPT ![s] = row], NEW i \in Invoices
  PROVE  /\ PaidBySettlements(i)' = PaidBySettlements(i) - Counted(settlement[s], i) + Counted(row, i)
         /\ Counted(settlement[s], i) \in Nat /\ Counted(row, i) \in Nat
<1> DEFINE q == [t \in Settlements |-> Counted(settlement[t], i)]
           r == [t \in Settlements |-> Counted(settlement'[t], i)]
<1>1. /\ settlement \in [Settlements -> SettlementRow]
      /\ settlement' \in [Settlements -> SettlementRow] /\ settlement'[s] = row
      /\ \A t \in Settlements \ {s} : settlement'[t] = settlement[t]
  BY CashbookTypes
<1>2. ASSUME NEW c \in SettlementRow PROVE Counted(c, i) \in Nat
  BY InstructionNat DEF SettlementRow, Counted
<1>3. /\ q \in [Settlements -> Nat] /\ r \in [Settlements -> Nat]
      /\ q[s] = Counted(settlement[s], i) /\ r[s] = Counted(row, i)
      /\ \A t \in Settlements \ {s} : r[t] = q[t]
  BY <1>1, <1>2
<1>4. PaidBySettlements(i) = Total(q) /\ PaidBySettlements(i)' = Total(r)
  BY DEF PaidBySettlements, Counted, Allocation
<1> HIDE DEF q, r
<1>5. Total(r) = Total(q) - q[s] + r[s]
  BY <1>3, TotalChange, SettlementAssumption
<1>6. QED
  BY <1>2, <1>1, <1>3, <1>4, <1>5

\* So does an application, for its invoice and from its advance.
LEMMA ApplicationMoved ==
  ASSUME SettlementTypeOK, NEW x \in Applications, NEW row \in ApplicationRow,
         application' = [application EXCEPT ![x] = row]
  PROVE  /\ \A i \in Invoices :
              PaidByAdvances(i)' = PaidByAdvances(i) - CountedTo(application[x], i) + CountedTo(row, i)
         /\ \A s \in Settlements :
              AppliedFrom(s)' = AppliedFrom(s) - CountedFrom(application[x], s) + CountedFrom(row, s)
<1>1. /\ application \in [Applications -> ApplicationRow]
      /\ application' \in [Applications -> ApplicationRow] /\ application'[x] = row
      /\ \A y \in Applications \ {x} : application'[y] = application[y]
  BY CashbookTypes
<1>2. ASSUME NEW i \in Invoices
      PROVE  PaidByAdvances(i)' = PaidByAdvances(i) - CountedTo(application[x], i) + CountedTo(row, i)
  <2> DEFINE q == [y \in Applications |-> CountedTo(application[y], i)]
             r == [y \in Applications |-> CountedTo(application'[y], i)]
  <2>1. ASSUME NEW c \in ApplicationRow PROVE CountedTo(c, i) \in Nat
    BY DEF ApplicationRow, CountedTo
  <2>2. /\ q \in [Applications -> Nat] /\ r \in [Applications -> Nat]
        /\ q[x] = CountedTo(application[x], i) /\ r[x] = CountedTo(row, i)
        /\ \A y \in Applications \ {x} : r[y] = q[y]
    BY <1>1, <2>1
  <2>3. PaidByAdvances(i) = Total(q) /\ PaidByAdvances(i)' = Total(r)
    BY DEF PaidByAdvances, CountedTo
  <2> HIDE DEF q, r
  <2>4. Total(r) = Total(q) - q[x] + r[x]
    BY <2>2, TotalChange, SettlementAssumption
  <2>5. QED
    BY <2>2, <2>3, <2>4
<1>3. ASSUME NEW s \in Settlements
      PROVE  AppliedFrom(s)' = AppliedFrom(s) - CountedFrom(application[x], s) + CountedFrom(row, s)
  <2> DEFINE q == [y \in Applications |-> CountedFrom(application[y], s)]
             r == [y \in Applications |-> CountedFrom(application'[y], s)]
  <2>1. ASSUME NEW c \in ApplicationRow PROVE CountedFrom(c, s) \in Nat
    BY DEF ApplicationRow, CountedFrom
  <2>2. /\ q \in [Applications -> Nat] /\ r \in [Applications -> Nat]
        /\ q[x] = CountedFrom(application[x], s) /\ r[x] = CountedFrom(row, s)
        /\ \A y \in Applications \ {x} : r[y] = q[y]
    BY <1>1, <2>1
  <2>3. AppliedFrom(s) = Total(q) /\ AppliedFrom(s)' = Total(r)
    BY DEF AppliedFrom, AppliedFromFamily, CountedFrom
  <2> HIDE DEF q, r
  <2>4. Total(r) = Total(q) - q[x] + r[x]
    BY <2>2, TotalChange, SettlementAssumption
  <2>5. QED
    BY <2>2, <2>3, <2>4
<1>4. QED
  BY <1>2, <1>3

\* Row i with another outstanding amount and status.
RepaidRow(i, out, status) ==
  [original |-> obligation[i].original, outstanding |-> out, credit |-> obligation[i].credit,
   status |-> status, dispute |-> obligation[i].dispute]
RepaidStatus(i) == PaidStatus \cup {IF i \in SupplierInvoices THEN "approved" ELSE "open"}

\* A payment or its reversal leaves obligation i explained by what is paid of it.
Repaid(i) ==
  \/ obligation'[i] = obligation[i] /\ Paid(i)' = Paid(i)
  \/ \E out \in Nat, status \in RepaidStatus(i) :
       /\ obligation'[i] = RepaidRow(i, out, status)
       /\ out + Paid(i)' = Maximum(i)
       /\ status \in PaidStatus <=> out # Maximum(i)
       /\ obligation[i].status \notin {"none", "disputed"}

LEMMA RepaidTypes ==
  ASSUME ObligationsTypeOK, DOMAIN obligation' = Invoices, \A i \in Invoices : Repaid(i)
  PROVE  ObligationsTypeOK'
<1>1. ASSUME NEW i \in Invoices, NEW out \in Nat, NEW status \in RepaidStatus(i),
             obligation'[i] = RepaidRow(i, out, status)
      PROVE  /\ i \in SupplierInvoices => obligation'[i] \in ObligationRow(PayableStatus, {"none"})
             /\ i \in CustomerInvoices =>
                  obligation'[i] \in ObligationRow(ReceivableStatus, {"none", "open", "resolved"})
  <2>1. /\ i \in SupplierInvoices => status \in PayableStatus
        /\ i \in CustomerInvoices => status \in ReceivableStatus
    BY ObligationsAssumption DEF RepaidStatus, PaidStatus, PayableStatus, ReceivableStatus
  <2>2. obligation[i].original \in Nat /\ obligation[i].credit \in Nat
    BY RowNumbers
  <2>3. /\ i \in SupplierInvoices => obligation[i].dispute \in {"none"}
        /\ i \in CustomerInvoices => obligation[i].dispute \in {"none", "open", "resolved"}
    BY DEF ObligationsTypeOK, ObligationRow
  <2>4. QED
    BY <1>1, <2>1, <2>2, <2>3 DEF RepaidRow, ObligationRow
<1>2. \A i \in Invoices : /\ i \in SupplierInvoices => obligation'[i] \in ObligationRow(PayableStatus, {"none"})
                          /\ i \in CustomerInvoices =>
                               obligation'[i] \in ObligationRow(ReceivableStatus, {"none", "open", "resolved"})
  BY <1>1 DEF Repaid, ObligationsTypeOK
<1>3. QED
  BY <1>2 DEF ObligationsTypeOK, Invoices

LEMMA RepaidKeeps ==
  ASSUME FinanceInv, UNCHANGED <<payablesRest, receivablesRest>>, CashbookInv',
         \A i \in Invoices : Repaid(i)
  PROVE  FinanceInv'
<1>1. SettlementTypeOK /\ SettlementTypeOK' /\ ObligationsTypeOK
  BY DEF FinanceInv, CashbookInv, SettlementTypeOK
<1>2. ASSUME NEW i \in Invoices
      PROVE  /\ obligation'[i].outstanding + Paid(i)' = Maximum(i)'
             /\ obligation'[i].status \in PaidStatus <=> Paid(i)' > 0
             /\ obligation[i] = NoObligation => obligation'[i] = NoObligation
             /\ obligation'[i].dispute = obligation[i].dispute
             /\ obligation'[i].status = "disputed" <=> obligation[i].status = "disputed"
  <2>1. Maximum(i) \in Int /\ Paid(i)' \in Nat /\ PaidBySettlements(i) \in Nat /\ PaidByAdvances(i) \in Nat
        /\ obligation[i].outstanding \in Nat
    BY <1>1, RowNumbers, PaidIsNat, PaidIsNatNext
  <2>2. /\ obligation[i].outstanding + Paid(i) = Maximum(i)
        /\ obligation[i].status \in PaidStatus <=> Paid(i) > 0
    <3>1. obligation[i].outstanding + PaidBySettlements(i) + PaidByAdvances(i) = Maximum(i)
      BY DEF FinanceInv, ObligationsInv, OutstandingIsExplained
    <3>2. obligation[i].status \in PaidStatus <=> PaidBySettlements(i) + PaidByAdvances(i) > 0
      BY DEF FinanceInv, ObligationsInv, StatusTellsWhatIsPaid, PaidStatus
    <3>3. QED
      BY <2>1, <3>1, <3>2 DEF Paid
  <2>3. CASE obligation'[i] = obligation[i] /\ Paid(i)' = Paid(i)
    BY <2>2, <2>3 DEF Maximum
  <2>4. CASE ~(obligation'[i] = obligation[i] /\ Paid(i)' = Paid(i))
    <3>1. PICK out \in Nat, status \in RepaidStatus(i) :
            /\ obligation'[i] = RepaidRow(i, out, status)
            /\ out + Paid(i)' = Maximum(i)
            /\ status \in PaidStatus <=> out # Maximum(i)
            /\ obligation[i].status \notin {"none", "disputed"}
      BY <2>4 DEF Repaid
    <3>2. /\ obligation'[i].outstanding = out /\ obligation'[i].status = status
          /\ obligation'[i].dispute = obligation[i].dispute /\ Maximum(i)' = Maximum(i)
      BY <3>1 DEF RepaidRow, Maximum
    <3>3. status # "disputed" /\ obligation[i] # NoObligation
      BY <3>1 DEF RepaidStatus, PaidStatus, NoObligation
    <3>4. out # Maximum(i) <=> Paid(i)' > 0
      BY <2>1, <3>1
    <3>5. QED
      BY <3>1, <3>2, <3>3, <3>4
  <2>5. QED
    BY <2>3, <2>4
<1>3. OutstandingIsExplained'
  <2> SUFFICES ASSUME NEW i \in Invoices
               PROVE  obligation'[i].outstanding + PaidBySettlements(i)' + PaidByAdvances(i)' = Maximum(i)'
    BY DEF OutstandingIsExplained
  <2>1. obligation'[i].outstanding \in Nat /\ PaidBySettlements(i)' \in Nat /\ PaidByAdvances(i)' \in Nat
    <3>1. SettledFamily(i)' \in [Settlements -> Nat] /\ AppliedToFamily(i)' \in [Applications -> Nat]
      BY <1>1, FamiliesNatNext
    <3>2. Total(SettledFamily(i)') \in Nat /\ Total(AppliedToFamily(i)') \in Nat
      BY <3>1, TotalNat, SettlementAssumption
    <3>3. obligation'[i].outstanding \in Nat
      BY <1>1 DEF SettlementTypeOK, ObligationsTypeOK, ObligationRow, Invoices
    <3>4. QED
      BY <3>2, <3>3 DEF PaidBySettlements, PaidByAdvances, SettledFamily, AppliedToFamily
  <2>2. obligation'[i].outstanding + (PaidBySettlements(i)' + PaidByAdvances(i)') = Maximum(i)'
    BY <1>2 DEF Paid
  <2>3. QED
    BY <2>1, <2>2
<1>4. StatusTellsWhatIsPaid'
  BY <1>2 DEF StatusTellsWhatIsPaid, Paid, PaidStatus
<1>5. QED
  BY <1>2, <1>3, <1>4, CashbookKept


-----------------------------------------------------------------------------
\* Settlements that are posted and taken back

\* An advance that holds what its applications have left of it.
Conserved(v, applied, posted) ==
  /\ v.remaining + v.applied = v.original
  /\ v.applied = applied
  /\ v.applied > 0 => posted

LEMMA ConservedRows ==
  /\ AdvancesAreConserved <=>
       \A s \in Settlements :
         Conserved(advance[s], AppliedFrom(s), settlement[s].document.posting = "posted")
  /\ AdvancesAreConserved' <=>
       \A s \in Settlements :
         Conserved(advance'[s], AppliedFrom(s)', settlement'[s].document.posting = "posted")
BY DEF AdvancesAreConserved, Conserved, AppliedFrom, AppliedFromFamily

\* Row s is another document, of the same instruction.
LEMMA SettlementDocumentWritten ==
  ASSUME SettlementTypeOK, NEW s \in Settlements, NEW d \in Document,
         settlement' = [settlement EXCEPT ![s].document = d]
  PROVE  /\ [document |-> d, instruction |-> settlement[s].instruction] \in SettlementRow
         /\ settlement' = [settlement EXCEPT ![s] =
              [document |-> d, instruction |-> settlement[s].instruction]]
         /\ settlement' \in [Settlements -> SettlementRow]
         /\ settlement'[s].document = d /\ settlement'[s].instruction = settlement[s].instruction
         /\ \A t \in Settlements \ {s} : settlement'[t] = settlement[t]
<1>1. settlement \in [Settlements -> SettlementRow] /\ settlement[s] \in SettlementRow
  BY CashbookTypes
<1>2. [settlement[s] EXCEPT !.document = d] = [document |-> d, instruction |-> settlement[s].instruction]
  BY <1>1 DEF SettlementRow
<1>3. [document |-> d, instruction |-> settlement[s].instruction] \in SettlementRow
  BY <1>1 DEF SettlementRow
<1>4. QED
  BY <1>1, <1>2, <1>3

\* The cashbook of an account that a settlement moves.
LEMMA SettlementBooked ==
  ASSUME SettlementTypeOK, NEW s \in Settlements, NEW n \in Instructions,
         NEW direction \in {"receipt", "disbursement"}, NEW type \in {"posting", "reversal"},
         Balance(n, direction) >= 0,
         cash' = [cash EXCEPT ![n.account] = Balance(n, direction)],
         entry' = Book(entry, n.account, s, type, Balance(n, direction))
  PROVE  cash' \in [Accounts -> Nat] /\ entry' \in [Accounts -> Seq(CashEntry)]
<1>1. /\ cash \in [Accounts -> Nat] /\ entry \in [Accounts -> Seq(CashEntry)]
      /\ n.account \in Accounts /\ n.amount \in Nat
  BY SettlementAssumption DEF SettlementTypeOK
<1>2. Balance(n, direction) \in Nat
  BY <1>1 DEF Balance
<1>3. QED
  BY <1>1, <1>2, Booked

LEMMA PostSettlementStep ==
  ASSUME FinanceInv, UNCHANGED <<payablesRest, receivablesRest>>,
         NEW s \in Settlements, NEW p \in People, PostSettlement(s, p)
  PROVE  FinanceInv'
<1> DEFINE d == settlement[s].document
           n == settlement[s].instruction
           v == [original |-> AdvanceAmount(n), remaining |-> AdvanceAmount(n),
                 applied |-> 0, status |-> "open"]
<1>1. /\ SettlementTypeOK /\ ObligationsTypeOK /\ settlement[s] \in SettlementRow
      /\ settlement \in [Settlements -> SettlementRow] /\ advance \in [Settlements -> AdvanceRow]
      /\ application \in [Applications -> ApplicationRow] /\ transfer \in [Transfers -> TransferRow]
      /\ d \in Document /\ Consistent(d)
      /\ d.workflow # "none" => n \in Instructions
      /\ d.posting = "unposted" => advance[s] = NoAdvance
  BY CashbookTypes DEF FinanceInv, CashbookInv, SettlementsAreNamed, SettlementRow
<1>2. /\ Postable(s) /\ PlanAllowed(n) /\ Balance(n, n.direction) >= 0
      /\ obligation' = Settled(n)
      /\ advance' = IF AdvanceAmount(n) = 0 THEN advance ELSE [advance EXCEPT ![s] = v]
      /\ cash' = [cash EXCEPT ![n.account] = Balance(n, n.direction)]
      /\ entry' = Book(entry, n.account, s, "posting", Balance(n, n.direction))
      /\ settlement' = [settlement EXCEPT ![s].document = Posted(d)]
      /\ UNCHANGED <<application, transfer>>
  BY DEF PostSettlement, StillAllowed
<1>3. d.workflow \in {"approved", "draft"} /\ d.posting = "unposted" /\ n \in Instructions /\ advance[s] = NoAdvance
  <2>1. d.workflow \in {"approved", "draft"}
    BY <1>2 DEF Postable
  <2>2. d.posting = "unposted"
    BY <1>1, <2>1 DEF Consistent, Document
  <2>3. QED
    BY <1>1, <2>1, <2>2
<1>4. /\ Posted(d) \in Document /\ Posted(d).workflow = "posted" /\ Posted(d).posting = "posted"
      /\ Consistent(Posted(d))
  BY <1>1, DocumentMoves
<1> DEFINE row == [document |-> Posted(d), instruction |-> n]
<1>5. /\ row \in SettlementRow /\ settlement' = [settlement EXCEPT ![s] = row]
      /\ settlement' \in [Settlements -> SettlementRow]
      /\ settlement'[s].document = Posted(d) /\ settlement'[s].instruction = n
      /\ \A t \in Settlements \ {s} : settlement'[t] = settlement[t]
  BY <1>1, <1>2, <1>4, SettlementDocumentWritten
<1>6. ASSUME NEW i \in Invoices
      PROVE  Paid(i)' = Paid(i) + Allocation(n, i) /\ Paid(i) \in Nat /\ Allocation(n, i) \in Nat
  <2>1. Counted(settlement[s], i) = 0 /\ Counted(row, i) = Allocation(n, i)
    BY <1>3, <1>4 DEF Counted
  <2>2. row \in SettlementRow /\ settlement' = [settlement EXCEPT ![s] = row]
    BY <1>5
  <2> HIDE DEF row, n
  <2>3. /\ PaidBySettlements(i)' = PaidBySettlements(i) - Counted(settlement[s], i) + Counted(row, i)
        /\ Counted(row, i) \in Nat
    BY <1>1, <2>2, SettlementMoved
  <2>4. PaidByAdvances(i)' = PaidByAdvances(i)
    BY <1>2 DEF PaidByAdvances
  <2>5. PaidBySettlements(i) \in Nat /\ PaidByAdvances(i) \in Nat
    BY <1>1, PaidIsNat
  <2>6. QED
    BY <2>1, <2>3, <2>4, <2>5 DEF Paid
<1>7. ASSUME NEW i \in Invoices PROVE Repaid(i)
  <2> DEFINE rest == obligation[i].outstanding - Allocation(n, i)
             status == IF rest = 0 THEN "settled" ELSE "partially_settled"
  <2>1. CASE i \notin Allocated(n)
    <3>1. obligation'[i] = obligation[i]
      BY <1>2, <2>1 DEF Settled
    <3>2. Allocation(n, i) = 0
      BY <1>3, <2>1, InstructionNat
    <3>3. QED
      BY <1>6, <3>1, <3>2 DEF Repaid
  <2>2. CASE i \in Allocated(n)
    <3>1. /\ Allocation(n, i) > 0 /\ Allocation(n, i) <= obligation[i].outstanding
          /\ Settleable(i)
      BY <1>2, <2>2 DEF PlanAllowed, Allocated
    <3>2. obligation[i].outstanding \in Nat /\ Maximum(i) \in Int
      BY <1>1, RowNumbers
    <3>3. rest \in Nat /\ rest + (Paid(i) + Allocation(n, i)) = Maximum(i) /\ rest # Maximum(i)
      <4>1. obligation[i].outstanding + PaidBySettlements(i) + PaidByAdvances(i) = Maximum(i)
        BY DEF FinanceInv, ObligationsInv, OutstandingIsExplained
      <4>2. PaidBySettlements(i) \in Nat /\ PaidByAdvances(i) \in Nat
        BY <1>1, PaidIsNat
      <4> HIDE DEF n
      <4>3. QED
        BY <1>6, <3>1, <3>2, <4>1, <4>2 DEF Paid
    <3>4. obligation'[i] = [obligation[i] EXCEPT !.outstanding = rest, !.status = status]
      <4> HIDE DEF n
      <4>1. obligation' = Settled(n)
        BY <1>2
      <4>2. QED
        BY <2>2, <4>1 DEF Settled
    <3> HIDE DEF rest
    <3>5. obligation'[i] = RepaidRow(i, rest, status)
      BY <1>1, <3>3, <3>4, AnyRows, PaymentWritten DEF RepaidRow
    <3>6. status \in RepaidStatus(i) /\ status \in PaidStatus
      BY DEF RepaidStatus, PaidStatus
    <3>7. obligation[i].status \notin {"none", "disputed"}
      BY <3>1 DEF Settleable
    <3> HIDE DEF status
    <3>8. rest + Paid(i)' = Maximum(i)
      BY <1>6, <3>3
    <3>9. QED
      BY <3>3, <3>5, <3>6, <3>7, <3>8 DEF Repaid
  <2>3. QED
    BY <2>1, <2>2
<1>8. ObligationsTypeOK'
  <2>1. DOMAIN obligation' = Invoices
    BY <1>2 DEF Settled
  <2>2. QED
    BY <1>1, <1>7, <2>1, RepaidTypes
<1>9. n.direction \in {"receipt", "disbursement"} /\ AdvanceAmount(n) \in Nat
  <2>1. n.direction \in {"receipt", "disbursement"}
    BY <1>3, SettlementAssumption
  <2>2. n.amount \in Nat /\ Total(n.cash) \in Nat /\ Total(n.cash) <= n.amount
    BY <1>2, <1>3, InstructionNat DEF PlanAllowed
  <2>3. QED
    BY <2>1, <2>2 DEF AdvanceAmount
<1>10. cash' \in [Accounts -> Nat] /\ entry' \in [Accounts -> Seq(CashEntry)]
  <2> HIDE DEF n
  <2> QED BY <1>1, <1>2, <1>3, <1>9, SettlementBooked
<1>11. /\ advance' \in [Settlements -> AdvanceRow]
       /\ \A t \in Settlements \ {s} : advance'[t] = advance[t]
       /\ advance'[s] = v \/ advance'[s] = NoAdvance
  <2>1. v \in AdvanceRow
    BY <1>9 DEF AdvanceRow
  <2> HIDE DEF v
  <2>2. QED
    BY <1>1, <1>2, <1>3, <2>1
<1>12. SettlementTypeOK'
  BY <1>1, <1>2, <1>5, <1>8, <1>10, <1>11, CashbookTypesNext
<1>13. SettlementsAreNamed'
  <2> SUFFICES ASSUME NEW t \in Settlements
               PROVE  /\ Consistent(settlement'[t].document)
                      /\ settlement'[t].document.workflow # "none" => settlement'[t].instruction \in Instructions
                      /\ settlement'[t].document.posting = "unposted" => advance'[t] = NoAdvance
                      /\ advance'[t].status \notin {"none", "reversed"} => settlement'[t].document.posting = "posted"
    BY DEF SettlementsAreNamed
  <2>1. CASE t = s
    <3> HIDE DEF n
    <3> QED BY <1>3, <1>4, <1>5, <2>1
  <2>2. CASE t # s
    BY <1>5, <1>11, <2>2 DEF FinanceInv, CashbookInv, SettlementsAreNamed
  <2>3. QED
    BY <2>1, <2>2
<1>14. ApplicationsAreNamed' /\ TransfersAreNamed'
  BY <1>2 DEF FinanceInv, CashbookInv, ApplicationsAreNamed, TransfersAreNamed
<1>15. AdvancesAreConserved'
  <2> SUFFICES ASSUME NEW t \in Settlements
               PROVE  Conserved(advance'[t], AppliedFrom(t)', settlement'[t].document.posting = "posted")
    BY ConservedRows
  <2>1. Conserved(advance[t], AppliedFrom(t), settlement[t].document.posting = "posted")
    BY ConservedRows DEF FinanceInv, CashbookInv
  <2>2. AppliedFrom(t)' = AppliedFrom(t)
    BY <1>2 DEF AppliedFrom, AppliedFromFamily
  <2>3. CASE t = s
    <3>1. AppliedFrom(s) = 0
      BY <1>3, <2>1, <2>3 DEF Conserved, NoAdvance
    <3>2. /\ Conserved(v, 0, settlement'[t].document.posting = "posted")
          /\ Conserved(NoAdvance, 0, settlement'[t].document.posting = "posted")
      BY <1>9 DEF Conserved, NoAdvance
    <3> HIDE DEF v
    <3>3. QED
      BY <1>11, <2>2, <2>3, <3>1, <3>2
  <2>4. CASE t # s
    BY <1>5, <1>11, <2>1, <2>2, <2>4
  <2>5. QED
    BY <2>3, <2>4
<1>16. QED
  BY <1>7, <1>12, <1>13, <1>14, <1>15, RepaidKeeps DEF CashbookInv


\* What is posted is among what is paid.
LEMMA SettlementCounts ==
  ASSUME SettlementTypeOK, NEW s \in Settlements, settlement[s].document.posting = "posted",
         NEW i \in Invoices
  PROVE  Allocation(settlement[s].instruction, i) <= PaidBySettlements(i)
<1>1. SettledFamily(i) \in [Settlements -> Nat]
  BY FamiliesNat
<1>2. SettledFamily(i)[s] <= Total(SettledFamily(i))
  BY <1>1, TotalBound, SettlementAssumption
<1>3. SettledFamily(i)[s] = Allocation(settlement[s].instruction, i)
  BY DEF SettledFamily, Allocation
<1>4. QED
  BY <1>2, <1>3 DEF PaidBySettlements, SettledFamily

LEMMA ApplicationCounts ==
  ASSUME SettlementTypeOK, NEW x \in Applications, application[x].document.posting = "posted"
  PROVE  /\ application[x].invoice \in Invoices =>
              application[x].amount <= PaidByAdvances(application[x].invoice)
         /\ application[x].advance \in Settlements =>
              application[x].amount <= AppliedFrom(application[x].advance)
<1>1. ASSUME application[x].invoice \in Invoices
      PROVE  application[x].amount <= PaidByAdvances(application[x].invoice)
  <2> DEFINE i == application[x].invoice
             q == AppliedToFamily(i)
  <2>1. q \in [Applications -> Nat]
    BY <1>1, FamiliesNat
  <2>2. q[x] = application[x].amount
    BY DEF AppliedToFamily
  <2>3. Total(q) = PaidByAdvances(i)
    BY DEF AppliedToFamily, PaidByAdvances
  <2> HIDE DEF i, q
  <2>4. q[x] <= Total(q)
    BY <2>1, TotalBound, SettlementAssumption
  <2>5. QED
    BY <2>2, <2>3, <2>4 DEF i
<1>2. ASSUME application[x].advance \in Settlements
      PROVE  application[x].amount <= AppliedFrom(application[x].advance)
  <2> DEFINE s == application[x].advance
             q == AppliedFromFamily(s)
  <2>1. q \in [Applications -> Nat]
    BY <1>2, FamiliesNat
  <2>2. q[x] = application[x].amount
    BY DEF AppliedFromFamily
  <2>3. Total(q) = AppliedFrom(s)
    BY DEF AppliedFrom
  <2> HIDE DEF s, q
  <2>4. q[x] <= Total(q)
    BY <2>1, TotalBound, SettlementAssumption
  <2>5. QED
    BY <2>2, <2>3, <2>4 DEF s
<1>3. QED
  BY <1>1, <1>2

\* The status derived from an amount that is not that of an empty obligation.
LEMMA DeriveTells ==
  ASSUME NEW i \in Invoices, NEW out \in Nat, out # 0 \/ out # Maximum(i)
  PROVE  /\ DeriveStatus(i, out) \in RepaidStatus(i)
         /\ DeriveStatus(i, out) \in PaidStatus <=> out # Maximum(i)
BY DEF DeriveStatus, RepaidStatus, PaidStatus

\* An obligation of which something is paid has the status of one.
LEMMA PaidHasStatus ==
  ASSUME FinanceInv, NEW i \in Invoices, Paid(i) > 0
  PROVE  obligation[i].status \notin {"none", "disputed"}
BY DEF FinanceInv, ObligationsInv, StatusTellsWhatIsPaid, Paid

LEMMA Explained ==
  ASSUME FinanceInv, NEW i \in Invoices
  PROVE  obligation[i].outstanding + Paid(i) = Maximum(i) /\ obligation[i].outstanding \in Nat /\ Paid(i) \in Nat
<1>1. SettlementTypeOK /\ ObligationsTypeOK
  BY DEF FinanceInv, CashbookInv, SettlementTypeOK
<1>2. PaidBySettlements(i) \in Nat /\ PaidByAdvances(i) \in Nat /\ obligation[i].outstanding \in Nat
      /\ Paid(i) \in Nat
  BY <1>1, PaidIsNat, RowNumbers
<1>3. obligation[i].outstanding + PaidBySettlements(i) + PaidByAdvances(i) = Maximum(i)
  BY DEF FinanceInv, ObligationsInv, OutstandingIsExplained
<1>4. QED
  BY <1>2, <1>3 DEF Paid

LEMMA ReverseSettlementStep ==
  ASSUME FinanceInv, UNCHANGED <<payablesRest, receivablesRest>>,
         NEW s \in Settlements, ReverseSettlement(s)
  PROVE  FinanceInv'
<1> DEFINE d == settlement[s].document
           n == settlement[s].instruction
           v == [original |-> advance[s].original, remaining |-> advance[s].remaining,
                 applied |-> advance[s].applied, status |-> "reversed"]
<1>1. /\ SettlementTypeOK /\ ObligationsTypeOK /\ settlement[s] \in SettlementRow
      /\ settlement \in [Settlements -> SettlementRow] /\ advance \in [Settlements -> AdvanceRow]
      /\ application \in [Applications -> ApplicationRow] /\ transfer \in [Transfers -> TransferRow]
      /\ d \in Document /\ Consistent(d) /\ advance[s] \in AdvanceRow
      /\ d.workflow # "none" => n \in Instructions
  BY CashbookTypes DEF FinanceInv, CashbookInv, SettlementsAreNamed, SettlementRow
<1>2. /\ d.posting = "posted" /\ AdvanceUnused(s) /\ Balance(n, Opposite(n)) >= 0
      /\ obligation' = [i \in Invoices |->
          IF i \notin Allocated(n) THEN obligation[i]
          ELSE [obligation[i] EXCEPT !.outstanding = Restored(i, Allocation(n, i)),
                                     !.status = StatusRestored(i, Allocation(n, i))]]
      /\ advance' = IF advance[s].status = "none" THEN advance
                    ELSE [advance EXCEPT ![s].status = "reversed"]
      /\ cash' = [cash EXCEPT ![n.account] = Balance(n, Opposite(n))]
      /\ entry' = Book(entry, n.account, s, "reversal", Balance(n, Opposite(n)))
      /\ settlement' = [settlement EXCEPT ![s].document = Reversed(d)]
      /\ UNCHANGED <<application, transfer>>
  BY DEF ReverseSettlement
<1>3. n \in Instructions
  BY <1>1, <1>2 DEF Consistent
<1>4. /\ Reversed(d) \in Document /\ Reversed(d).workflow = "reversed" /\ Reversed(d).posting = "reversed"
      /\ Consistent(Reversed(d))
  BY <1>1, DocumentMoves
<1> DEFINE row == [document |-> Reversed(d), instruction |-> n]
<1>5. /\ row \in SettlementRow /\ settlement' = [settlement EXCEPT ![s] = row]
      /\ settlement' \in [Settlements -> SettlementRow]
      /\ settlement'[s].document = Reversed(d) /\ settlement'[s].instruction = n
      /\ \A t \in Settlements \ {s} : settlement'[t] = settlement[t]
  BY <1>1, <1>2, <1>4, SettlementDocumentWritten
<1>6. ASSUME NEW i \in Invoices
      PROVE  /\ Paid(i)' = Paid(i) - Allocation(n, i) /\ Allocation(n, i) \in Nat
             /\ Allocation(n, i) <= Paid(i)
  <2>1. Counted(settlement[s], i) = Allocation(n, i) /\ Counted(row, i) = 0
    BY <1>2, <1>4 DEF Counted
  <2>2. row \in SettlementRow /\ settlement' = [settlement EXCEPT ![s] = row]
    BY <1>5
  <2>3. Allocation(n, i) <= PaidBySettlements(i)
    BY <1>1, <1>2, SettlementCounts
  <2> HIDE DEF row, n
  <2>4. /\ PaidBySettlements(i)' = PaidBySettlements(i) - Counted(settlement[s], i) + Counted(row, i)
        /\ Counted(settlement[s], i) \in Nat
    BY <1>1, <2>2, SettlementMoved
  <2>5. PaidByAdvances(i)' = PaidByAdvances(i)
    BY <1>2 DEF PaidByAdvances
  <2>6. PaidBySettlements(i) \in Nat /\ PaidByAdvances(i) \in Nat
    BY <1>1, PaidIsNat
  <2>7. QED
    BY <2>1, <2>3, <2>4, <2>5, <2>6 DEF Paid
<1>7. ASSUME NEW i \in Invoices PROVE Repaid(i)
  <2> DEFINE back == Restored(i, Allocation(n, i))
             status == DeriveStatus(i, back)
  <2>1. CASE i \notin Allocated(n)
    <3>1. obligation'[i] = obligation[i]
      BY <1>2, <2>1
    <3>2. Allocation(n, i) = 0 /\ Paid(i) \in Nat
      BY <1>3, <2>1, InstructionNat, Explained
    <3> HIDE DEF n
    <3>3. QED
      BY <1>6, <3>1, <3>2 DEF Repaid
  <2>2. CASE i \in Allocated(n)
    <3>1. Allocation(n, i) > 0
      BY <2>2 DEF Allocated
    <3>2. obligation[i].outstanding + Paid(i) = Maximum(i) /\ obligation[i].outstanding \in Nat /\ Paid(i) \in Nat
      BY Explained
    <3>3. back \in Nat /\ back # 0 /\ back + (Paid(i) - Allocation(n, i)) = Maximum(i) /\ Paid(i) > 0
      <4> HIDE DEF n
      <4> QED BY <1>6, <3>1, <3>2 DEF Restored
    <3>4. obligation'[i] = [obligation[i] EXCEPT !.outstanding = back, !.status = status]
      BY <1>2, <2>2 DEF StatusRestored
    <3> HIDE DEF back, n
    <3>5. obligation'[i] = RepaidRow(i, back, status)
      BY <1>1, <3>3, <3>4, AnyRows, PaymentWritten DEF RepaidRow
    <3>6. status \in RepaidStatus(i) /\ (status \in PaidStatus <=> back # Maximum(i))
      BY <3>3, DeriveTells
    <3>7. obligation[i].status \notin {"none", "disputed"}
      BY <3>3, PaidHasStatus
    <3> HIDE DEF status
    <3>8. back + Paid(i)' = Maximum(i)
      BY <1>6, <3>3
    <3>9. QED
      BY <3>3, <3>5, <3>6, <3>7, <3>8 DEF Repaid
  <2>3. QED
    BY <2>1, <2>2
<1>8. ObligationsTypeOK'
  <2>1. DOMAIN obligation' = Invoices
    BY <1>2
  <2>2. QED
    BY <1>1, <1>7, <2>1, RepaidTypes
<1>9. cash' \in [Accounts -> Nat] /\ entry' \in [Accounts -> Seq(CashEntry)]
  <2>1. Opposite(n) \in {"receipt", "disbursement"}
    BY DEF Opposite
  <2> HIDE DEF n
  <2>2. QED
    BY <1>1, <1>2, <1>3, <2>1, SettlementBooked
<1>10. /\ advance' \in [Settlements -> AdvanceRow]
       /\ \A t \in Settlements \ {s} : advance'[t] = advance[t]
       /\ \/ advance'[s] = v
          \/ advance'[s] = advance[s] /\ advance[s].status = "none"
  <2>1. v \in AdvanceRow
    BY <1>1 DEF AdvanceRow
  <2>2. [advance[s] EXCEPT !.status = "reversed"] = v
    BY <1>1 DEF AdvanceRow
  <2> HIDE DEF v
  <2>3. QED
    BY <1>1, <1>2, <2>1, <2>2
<1>11. SettlementTypeOK'
  BY <1>1, <1>2, <1>5, <1>8, <1>9, <1>10, CashbookTypesNext
<1>12. SettlementsAreNamed'
  <2> SUFFICES ASSUME NEW t \in Settlements
               PROVE  /\ Consistent(settlement'[t].document)
                      /\ settlement'[t].document.workflow # "none" => settlement'[t].instruction \in Instructions
                      /\ settlement'[t].document.posting = "unposted" => advance'[t] = NoAdvance
                      /\ advance'[t].status \notin {"none", "reversed"} => settlement'[t].document.posting = "posted"
    BY DEF SettlementsAreNamed
  <2>1. CASE t = s
    <3>1. advance'[s].status \in {"none", "reversed"}
      BY <1>10
    <3> HIDE DEF n
    <3>2. QED
      BY <1>3, <1>4, <1>5, <2>1, <3>1
  <2>2. CASE t # s
    BY <1>5, <1>10, <2>2 DEF FinanceInv, CashbookInv, SettlementsAreNamed
  <2>3. QED
    BY <2>1, <2>2
<1>13. ApplicationsAreNamed' /\ TransfersAreNamed'
  BY <1>2 DEF FinanceInv, CashbookInv, ApplicationsAreNamed, TransfersAreNamed
<1>14. AdvancesAreConserved'
  <2> SUFFICES ASSUME NEW t \in Settlements
               PROVE  Conserved(advance'[t], AppliedFrom(t)', settlement'[t].document.posting = "posted")
    BY ConservedRows
  <2>1. Conserved(advance[t], AppliedFrom(t), settlement[t].document.posting = "posted")
    BY ConservedRows DEF FinanceInv, CashbookInv
  <2>2. AppliedFrom(t)' = AppliedFrom(t)
    BY <1>2 DEF AppliedFrom, AppliedFromFamily
  <2>3. CASE t = s
    <3>1. /\ advance[s].remaining + advance[s].applied = advance[s].original
          /\ advance[s].applied = AppliedFrom(s) /\ advance[s].applied = 0
      BY <1>2, <2>1, <2>3 DEF Conserved, AdvanceUnused
    <3>2. /\ advance'[s].remaining = advance[s].remaining /\ advance'[s].applied = advance[s].applied
          /\ advance'[s].original = advance[s].original
      BY <1>10
    <3>3. QED
      BY <2>2, <2>3, <3>1, <3>2 DEF Conserved
  <2>4. CASE t # s
    BY <1>5, <1>10, <2>1, <2>2, <2>4
  <2>5. QED
    BY <2>3, <2>4
<1>15. QED
  BY <1>7, <1>11, <1>12, <1>13, <1>14, RepaidKeeps DEF CashbookInv


-----------------------------------------------------------------------------
\* Applications that are posted and taken back

\* An advance after an application, as the code writes it.
AdvanceMoved(row, remaining, applied, status) ==
  [row EXCEPT !.remaining = remaining, !.applied = applied, !.status = status]

LEMMA AdvanceWritten ==
  ASSUME NEW row \in AdvanceRow, NEW remaining \in Nat, NEW applied \in Nat, NEW status
  PROVE  AdvanceMoved(row, remaining, applied, status)
           = [original |-> row.original, remaining |-> remaining, applied |-> applied, status |-> status]
<1> DEFINE r == [original |-> row.original, remaining |-> remaining, applied |-> row.applied,
                 status |-> row.status]
           t == [original |-> row.original, remaining |-> remaining, applied |-> applied,
                 status |-> row.status]
<1>1. [row EXCEPT !.remaining = remaining] = r
  BY DEF AdvanceRow
<1>2. [r EXCEPT !.applied = applied] = t
  OBVIOUS
<1>3. [t EXCEPT !.status = status]
        = [original |-> row.original, remaining |-> remaining, applied |-> applied, status |-> status]
  OBVIOUS
<1> HIDE DEF r, t
<1>4. QED
  BY <1>1, <1>2, <1>3 DEF AdvanceMoved

\* The obligations after an application, as the code writes them.
Paying(i, out, status) == [obligation EXCEPT ![i].outstanding = out, ![i].status = status]

LEMMA PayingWritten ==
  ASSUME ObligationsTypeOK, NEW i \in Invoices, NEW out \in Nat, NEW status
  PROVE  /\ DOMAIN Paying(i, out, status) = Invoices
         /\ Paying(i, out, status)[i] = RepaidRow(i, out, status)
         /\ \A j \in Invoices \ {i} : Paying(i, out, status)[j] = obligation[j]
<1>1. Paying(i, out, status)
        = [obligation EXCEPT ![i] = [obligation[i] EXCEPT !.outstanding = out, !.status = status]]
  BY DEF Paying, ObligationsTypeOK
<1>2. [obligation[i] EXCEPT !.outstanding = out, !.status = status] = RepaidRow(i, out, status)
  BY AnyRows, PaymentWritten DEF RepaidRow
<1>3. QED
  BY <1>1, <1>2 DEF ObligationsTypeOK

(***************************************************************************)
(* An application moves its amount between an advance that stands and an   *)
(* obligation, in either direction.                                        *)
(***************************************************************************)
LEMMA ApplicationMakes ==
  ASSUME FinanceInv, UNCHANGED <<payablesRest, receivablesRest>>,
         UNCHANGED <<cashVars, settlement, transfer>>,
         NEW x \in Applications, NEW row \in ApplicationRow, NEW s \in Settlements, NEW i \in Invoices,
         application' = [application EXCEPT ![x] = row],
         Consistent(row.document), row.advance = s, row.invoice = i, row.amount > 0,
         application[x].advance = s, application[x].invoice = i,
         NEW w \in AdvanceRow, advance' = [advance EXCEPT ![s] = w],
         settlement[s].document.posting = "posted",
         w.remaining + w.applied = w.original,
         w.applied = advance[s].applied - CountedFrom(application[x], s) + CountedFrom(row, s),
         NEW out \in Nat, obligation' = Paying(i, out, DeriveStatus(i, out)),
         out = obligation[i].outstanding + CountedTo(application[x], i) - CountedTo(row, i),
         out # 0 \/ out # Maximum(i),
         obligation[i].status \notin {"none", "disputed"}
  PROVE  FinanceInv'
<1>1. /\ SettlementTypeOK /\ ObligationsTypeOK
      /\ settlement \in [Settlements -> SettlementRow] /\ advance \in [Settlements -> AdvanceRow]
      /\ application \in [Applications -> ApplicationRow] /\ transfer \in [Transfers -> TransferRow]
      /\ cash \in [Accounts -> Nat] /\ entry \in [Accounts -> Seq(CashEntry)]
      /\ cash' = cash /\ entry' = entry
  BY CashbookTypes DEF FinanceInv, CashbookInv, cashVars
<1>2. /\ application' \in [Applications -> ApplicationRow] /\ application'[x] = row
      /\ \A y \in Applications \ {x} : application'[y] = application[y]
      /\ advance' \in [Settlements -> AdvanceRow] /\ advance'[s] = w
      /\ \A t \in Settlements \ {s} : advance'[t] = advance[t]
  BY <1>1
<1>3. /\ \A j \in Invoices :
           PaidByAdvances(j)' = PaidByAdvances(j) - CountedTo(application[x], j) + CountedTo(row, j)
      /\ \A t \in Settlements :
           AppliedFrom(t)' = AppliedFrom(t) - CountedFrom(application[x], t) + CountedFrom(row, t)
  BY <1>1, ApplicationMoved
<1>4. ASSUME NEW j \in Invoices
      PROVE  /\ Paid(j)' = Paid(j) - CountedTo(application[x], j) + CountedTo(row, j)
             /\ CountedTo(application[x], j) \in Nat /\ CountedTo(row, j) \in Nat
  <2>1. PaidBySettlements(j)' = PaidBySettlements(j)
    BY DEF PaidBySettlements
  <2>2. CountedTo(application[x], j) \in Nat /\ CountedTo(row, j) \in Nat
    BY <1>1 DEF CountedTo, ApplicationRow
  <2>3. PaidBySettlements(j) \in Nat /\ PaidByAdvances(j) \in Nat
    BY <1>1, PaidIsNat
  <2>4. QED
    BY <1>3, <2>1, <2>2, <2>3 DEF Paid
<1> DEFINE status == DeriveStatus(i, out)
<1>5. /\ DOMAIN obligation' = Invoices /\ obligation'[i] = RepaidRow(i, out, status)
      /\ \A j \in Invoices \ {i} : obligation'[j] = obligation[j]
  BY <1>1, PayingWritten
<1>6. status \in RepaidStatus(i) /\ (status \in PaidStatus <=> out # Maximum(i))
  BY DeriveTells
<1> HIDE DEF status
<1>7. ASSUME NEW j \in Invoices PROVE Repaid(j)
  <2>1. CASE j = i
    <3>1. obligation[i].outstanding + Paid(i) = Maximum(i) /\ obligation[i].outstanding \in Nat /\ Paid(i) \in Nat
      BY Explained
    <3>2. out + Paid(i)' = Maximum(i)
      BY <1>4, <3>1
    <3>3. QED
      BY <1>5, <1>6, <2>1, <3>2 DEF Repaid
  <2>2. CASE j # i
    <3>1. CountedTo(application[x], j) = 0 /\ CountedTo(row, j) = 0
      BY <2>2 DEF CountedTo
    <3>2. Paid(j) \in Nat
      BY Explained
    <3>3. QED
      BY <1>4, <1>5, <2>2, <3>1, <3>2 DEF Repaid
  <2>3. QED
    BY <2>1, <2>2
<1>8. SettlementTypeOK'
  <2>1. ObligationsTypeOK'
    BY <1>1, <1>5, <1>7, RepaidTypes
  <2>2. QED
    BY <1>1, <1>2, <2>1, CashbookTypesNext
<1>9. SettlementsAreNamed'
  <2> SUFFICES ASSUME NEW t \in Settlements
               PROVE  /\ Consistent(settlement[t].document)
                      /\ settlement[t].document.workflow # "none" => settlement[t].instruction \in Instructions
                      /\ settlement[t].document.posting = "unposted" => advance'[t] = NoAdvance
                      /\ advance'[t].status \notin {"none", "reversed"} => settlement[t].document.posting = "posted"
    BY DEF SettlementsAreNamed
  <2>1. CASE t = s
    BY <2>1 DEF FinanceInv, CashbookInv, SettlementsAreNamed
  <2>2. CASE t # s
    BY <1>2, <2>2 DEF FinanceInv, CashbookInv, SettlementsAreNamed
  <2>3. QED
    BY <2>1, <2>2
<1>10. ApplicationsAreNamed'
  BY <1>2 DEF FinanceInv, CashbookInv, ApplicationsAreNamed
<1>11. TransfersAreNamed'
  BY DEF FinanceInv, CashbookInv, TransfersAreNamed
<1>12. AdvancesAreConserved'
  <2> SUFFICES ASSUME NEW t \in Settlements
               PROVE  Conserved(advance'[t], AppliedFrom(t)', settlement'[t].document.posting = "posted")
    BY ConservedRows
  <2>1. Conserved(advance[t], AppliedFrom(t), settlement[t].document.posting = "posted")
    BY ConservedRows DEF FinanceInv, CashbookInv
  <2>2. AppliedFrom(t)' = AppliedFrom(t) - CountedFrom(application[x], t) + CountedFrom(row, t)
    BY <1>3
  <2>3. CASE t = s
    <3>1. w.applied = AppliedFrom(s)'
      BY <2>1, <2>2, <2>3 DEF Conserved
    <3>2. QED
      BY <1>2, <2>3, <3>1 DEF Conserved
  <2>4. CASE t # s
    <3>1. CountedFrom(application[x], t) = 0 /\ CountedFrom(row, t) = 0
      BY <2>4 DEF CountedFrom
    <3>2. AppliedFrom(t) \in Nat
      BY <1>1, <1>2, <2>1, <2>4 DEF Conserved, AdvanceRow
    <3>3. AppliedFrom(t)' = AppliedFrom(t)
      BY <2>2, <3>1, <3>2
    <3>4. QED
      BY <1>2, <2>1, <2>4, <3>3
  <2>5. QED
    BY <2>3, <2>4
<1>13. QED
  BY <1>7, <1>8, <1>9, <1>10, <1>11, <1>12, RepaidKeeps DEF CashbookInv

\* Row x is another document, of the same facts.
LEMMA ApplicationDocumentWritten ==
  ASSUME SettlementTypeOK, NEW x \in Applications, NEW d \in Document,
         application' = [application EXCEPT ![x].document = d]
  PROVE  /\ [application[x] EXCEPT !.document = d] \in ApplicationRow
         /\ application' = [application EXCEPT ![x] = [application[x] EXCEPT !.document = d]]
         /\ [application[x] EXCEPT !.document = d].document = d
         /\ [application[x] EXCEPT !.document = d].advance = application[x].advance
         /\ [application[x] EXCEPT !.document = d].invoice = application[x].invoice
         /\ [application[x] EXCEPT !.document = d].amount = application[x].amount
<1>1. application \in [Applications -> ApplicationRow] /\ application[x] \in ApplicationRow
  BY CashbookTypes
<1>2. QED
  BY <1>1 DEF ApplicationRow

LEMMA PostApplicationStep ==
  ASSUME FinanceInv, UNCHANGED <<payablesRest, receivablesRest>>,
         NEW x \in Applications, PostAdvanceApplication(x)
  PROVE  FinanceInv'
<1> DEFINE old == application[x]
           s == old.advance
           i == old.invoice
           v == advance[s]
           out == obligation[i].outstanding - old.amount
           remaining == v.remaining - old.amount
           applied == v.applied + old.amount
           status == IF v.remaining = old.amount THEN "fully_applied" ELSE "partially_applied"
           w == [original |-> v.original, remaining |-> remaining, applied |-> applied, status |-> status]
           row == [old EXCEPT !.document = Posted(old.document)]
<1>1. /\ SettlementTypeOK /\ ObligationsTypeOK /\ old \in ApplicationRow
      /\ advance \in [Settlements -> AdvanceRow]
      /\ old.document \in Document /\ Consistent(old.document)
      /\ old.document.workflow # "none" => s \in Settlements /\ i \in Invoices /\ old.amount > 0
  BY CashbookTypes DEF FinanceInv, CashbookInv, ApplicationsAreNamed, ApplicationRow
<1>2. /\ old.document.workflow = "approved" /\ old.document.posting = "unposted"
      /\ FactsAllow(s, i, old.amount)
      /\ obligation' = Paying(i, out, DeriveStatus(i, out))
      /\ application' = [application EXCEPT ![x].document = Posted(old.document)]
      /\ advance' = [advance EXCEPT ![s] = AdvanceMoved(v, remaining, applied, status)]
      /\ UNCHANGED <<cashVars, settlement, transfer>>
  BY DEF PostAdvanceApplication, FactsStillAllow, Paying, AdvanceMoved
<1>3. /\ s \in Settlements /\ i \in Invoices /\ old.amount > 0 /\ old.amount \in Nat
      /\ v \in AdvanceRow
  BY <1>1, <1>2 DEF ApplicationRow
<1>4. /\ v.status \notin {"none", "reversed"} /\ Eligible(i)
      /\ old.amount <= v.remaining /\ old.amount <= obligation[i].outstanding
  BY <1>2 DEF FactsAllow
<1>5. settlement[s].document.posting = "posted"
  BY <1>3, <1>4 DEF FinanceInv, CashbookInv, SettlementsAreNamed
<1>6. v.remaining \in Nat /\ v.applied \in Nat /\ v.original \in Nat
      /\ v.remaining + v.applied = v.original
  BY <1>1, <1>3 DEF AdvanceRow, FinanceInv, CashbookInv, AdvancesAreConserved
<1>7. remaining \in Nat /\ applied \in Nat /\ remaining + applied = v.original
  <2> HIDE DEF old, v
  <2> QED BY <1>3, <1>4, <1>6
<1>8. /\ Posted(old.document) \in Document /\ Posted(old.document).posting = "posted"
      /\ Consistent(Posted(old.document))
  BY <1>1, DocumentMoves
<1>9. /\ row \in ApplicationRow /\ application' = [application EXCEPT ![x] = row]
      /\ row.document = Posted(old.document) /\ row.advance = s /\ row.invoice = i /\ row.amount = old.amount
  BY <1>1, <1>2, <1>8, ApplicationDocumentWritten
<1>10. /\ CountedFrom(application[x], s) = 0 /\ CountedTo(application[x], i) = 0
       /\ CountedFrom(row, s) = old.amount /\ CountedTo(row, i) = old.amount
  BY <1>2, <1>8, <1>9 DEF CountedFrom, CountedTo
<1>11. out \in Nat /\ out # Maximum(i)
  <2>1. obligation[i].outstanding + Paid(i) = Maximum(i) /\ obligation[i].outstanding \in Nat /\ Paid(i) \in Nat
    BY <1>3, Explained
  <2> HIDE DEF old
  <2>2. QED
    BY <1>3, <1>4, <2>1
<1>12. obligation[i].status \notin {"none", "disputed"}
  BY <1>4 DEF Eligible
<1>13. w \in AdvanceRow /\ advance' = [advance EXCEPT ![s] = w]
  <2> HIDE DEF remaining, applied, status, v
  <2>1. w \in AdvanceRow
    BY <1>3, <1>7 DEF AdvanceRow, status
  <2>2. AdvanceMoved(v, remaining, applied, status) = w
    BY <1>3, <1>7, AdvanceWritten
  <2>3. QED
    BY <1>2, <2>1, <2>2
<1>14. w.remaining + w.applied = w.original
  BY <1>7
<1>15. w.applied = advance[s].applied - CountedFrom(application[x], s) + CountedFrom(row, s)
  BY <1>3, <1>6, <1>10
<1>16. out = obligation[i].outstanding + CountedTo(application[x], i) - CountedTo(row, i)
  <2>1. obligation[i].outstanding \in Nat
    BY <1>1, <1>3, RowNumbers
  <2>2. QED
    BY <1>3, <1>10, <2>1
<1>17. application[x].advance = s /\ application[x].invoice = i /\ row.amount > 0 /\ Consistent(row.document)
  BY <1>3, <1>8, <1>9
<1> HIDE DEF row, w, out
<1>18. /\ s \in Settlements /\ i \in Invoices /\ row \in ApplicationRow /\ w \in AdvanceRow /\ out \in Nat
       /\ UNCHANGED <<cashVars, settlement, transfer>>
       /\ application' = [application EXCEPT ![x] = row]
       /\ advance' = [advance EXCEPT ![s] = w]
       /\ obligation' = Paying(i, out, DeriveStatus(i, out))
  BY <1>2, <1>3, <1>9, <1>11, <1>13
<1>19. /\ Consistent(row.document) /\ row.advance = s /\ row.invoice = i /\ row.amount > 0
       /\ application[x].advance = s /\ application[x].invoice = i
       /\ settlement[s].document.posting = "posted"
       /\ out # 0 \/ out # Maximum(i)
  BY <1>5, <1>9, <1>11, <1>17
<1> HIDE DEF old, s, i, v
<1>20. QED
  BY <1>12, <1>14, <1>15, <1>16, <1>18, <1>19, ApplicationMakes

LEMMA ReverseApplicationStep ==
  ASSUME FinanceInv, UNCHANGED <<payablesRest, receivablesRest>>,
         NEW x \in Applications, ReverseAdvanceApplication(x)
  PROVE  FinanceInv'
<1> DEFINE old == application[x]
           s == old.advance
           i == old.invoice
           v == advance[s]
           out == obligation[i].outstanding + old.amount
           remaining == v.remaining + old.amount
           applied == v.applied - old.amount
           status == IF v.remaining + old.amount = v.original THEN "open" ELSE "partially_applied"
           w == [original |-> v.original, remaining |-> remaining, applied |-> applied, status |-> status]
           row == [old EXCEPT !.document = Reversed(old.document)]
<1>1. /\ SettlementTypeOK /\ ObligationsTypeOK /\ old \in ApplicationRow
      /\ advance \in [Settlements -> AdvanceRow]
      /\ old.document \in Document /\ Consistent(old.document)
      /\ old.document.workflow # "none" => s \in Settlements /\ i \in Invoices /\ old.amount > 0
  BY CashbookTypes DEF FinanceInv, CashbookInv, ApplicationsAreNamed, ApplicationRow
<1>2. /\ old.document.posting = "posted"
      /\ obligation' = Paying(i, out, DeriveStatus(i, out))
      /\ application' = [application EXCEPT ![x].document = Reversed(old.document)]
      /\ advance' = [advance EXCEPT ![s] = AdvanceMoved(v, remaining, applied, status)]
      /\ UNCHANGED <<cashVars, settlement, transfer>>
  BY DEF ReverseAdvanceApplication, GiveBack, Paying, Restored, AdvanceMoved
<1>3. /\ s \in Settlements /\ i \in Invoices /\ old.amount > 0 /\ old.amount \in Nat
      /\ v \in AdvanceRow
  BY <1>1, <1>2 DEF ApplicationRow, Consistent
<1>4. old.amount <= PaidByAdvances(i) /\ old.amount <= AppliedFrom(s)
  BY <1>1, <1>2, <1>3, ApplicationCounts
<1>5. Conserved(v, AppliedFrom(s), settlement[s].document.posting = "posted")
  BY <1>3, ConservedRows DEF FinanceInv, CashbookInv
<1>6. v.remaining \in Nat /\ v.applied \in Nat /\ v.original \in Nat
      /\ v.remaining + v.applied = v.original /\ old.amount <= v.applied
  BY <1>3, <1>4, <1>5 DEF AdvanceRow, Conserved
<1>7. settlement[s].document.posting = "posted"
  <2>1. v.applied > 0
    <3> HIDE DEF old, v
    <3> QED BY <1>3, <1>6
  <2>2. QED
    BY <1>5, <2>1 DEF Conserved
<1>8. remaining \in Nat /\ applied \in Nat /\ remaining + applied = v.original
  <2> HIDE DEF old, v
  <2> QED BY <1>3, <1>6
<1>9. /\ Reversed(old.document) \in Document /\ Reversed(old.document).posting = "reversed"
      /\ Consistent(Reversed(old.document))
  BY <1>1, DocumentMoves
<1>10. /\ row \in ApplicationRow /\ application' = [application EXCEPT ![x] = row]
       /\ row.document = Reversed(old.document) /\ row.advance = s /\ row.invoice = i /\ row.amount = old.amount
  BY <1>1, <1>2, <1>9, ApplicationDocumentWritten
<1>11. /\ CountedFrom(application[x], s) = old.amount /\ CountedTo(application[x], i) = old.amount
       /\ CountedFrom(row, s) = 0 /\ CountedTo(row, i) = 0
  BY <1>2, <1>9, <1>10 DEF CountedFrom, CountedTo
<1>12. obligation[i].outstanding \in Nat /\ Paid(i) \in Nat /\ Paid(i) > 0
  <2>1. obligation[i].outstanding \in Nat /\ Paid(i) \in Nat
    BY <1>3, Explained
  <2>2. PaidBySettlements(i) \in Nat /\ PaidByAdvances(i) \in Nat
    BY <1>1, <1>3, PaidIsNat
  <2> HIDE DEF old, i
  <2>3. QED
    BY <1>3, <1>4, <2>1, <2>2 DEF Paid
<1>13. out \in Nat /\ out # 0
  <2> HIDE DEF old
  <2> QED BY <1>3, <1>12
<1>14. obligation[i].status \notin {"none", "disputed"}
  BY <1>3, <1>12, PaidHasStatus
<1>15. w \in AdvanceRow /\ advance' = [advance EXCEPT ![s] = w]
  <2> HIDE DEF remaining, applied, status, v
  <2>1. w \in AdvanceRow
    BY <1>3, <1>8 DEF AdvanceRow, status
  <2>2. AdvanceMoved(v, remaining, applied, status) = w
    BY <1>3, <1>8, AdvanceWritten
  <2>3. QED
    BY <1>2, <2>1, <2>2
<1>16. w.remaining + w.applied = w.original
  BY <1>8
<1>17. w.applied = advance[s].applied - CountedFrom(application[x], s) + CountedFrom(row, s)
  BY <1>3, <1>6, <1>11
<1>18. out = obligation[i].outstanding + CountedTo(application[x], i) - CountedTo(row, i)
  BY <1>3, <1>11, <1>12
<1>19. application[x].advance = s /\ application[x].invoice = i /\ row.amount > 0 /\ Consistent(row.document)
  BY <1>3, <1>9, <1>10
<1> HIDE DEF row, w, out
<1>20. /\ s \in Settlements /\ i \in Invoices /\ row \in ApplicationRow /\ w \in AdvanceRow /\ out \in Nat
       /\ UNCHANGED <<cashVars, settlement, transfer>>
       /\ application' = [application EXCEPT ![x] = row]
       /\ advance' = [advance EXCEPT ![s] = w]
       /\ obligation' = Paying(i, out, DeriveStatus(i, out))
  BY <1>2, <1>3, <1>10, <1>13, <1>15
<1>21. /\ Consistent(row.document) /\ row.advance = s /\ row.invoice = i /\ row.amount > 0
       /\ application[x].advance = s /\ application[x].invoice = i
       /\ settlement[s].document.posting = "posted"
       /\ out # 0 \/ out # Maximum(i)
  BY <1>7, <1>10, <1>13, <1>19
<1> HIDE DEF old, s, i, v
<1>22. QED
  BY <1>14, <1>16, <1>17, <1>18, <1>20, <1>21, ApplicationMakes

LEMMA SettlementStepKeeps ==
  ASSUME FinanceInv, SettlementStep
  PROVE  FinanceInv'
<1>1. UNCHANGED <<payablesRest, receivablesRest>>
  BY DEF SettlementStep
<1>2. ASSUME NEW s \in Settlements, SettlementDocumentNext(s) PROVE FinanceInv'
  BY <1>1, <1>2, SettlementPaperStep, PostSettlementStep, ReverseSettlementStep DEF SettlementDocumentNext
<1>3. ASSUME NEW x \in Applications, ApplicationNext(x) PROVE FinanceInv'
  BY <1>1, <1>3, ApplicationPaperStep, PostApplicationStep, ReverseApplicationStep DEF ApplicationNext
<1>4. QED
  BY <1>1, <1>2, <1>3, TransferStep DEF SettlementStep, SettlementNext


-----------------------------------------------------------------------------
\* The invariant is inductive

LEMMA NothingPaid ==
  ASSUME FlowInit
  PROVE  /\ \A i \in Invoices : PaidBySettlements(i) = 0 /\ PaidByAdvances(i) = 0
         /\ \A s \in Settlements : AppliedFrom(s) = 0
<1>1. /\ \A s \in Settlements : settlement[s].document.posting = "unposted"
      /\ \A x \in Applications : application[x].document.posting = "unposted"
  BY DEF FlowInit, SettlementRest, NoSettlement, NoApplication, NoDocument, Drafted
<1>2. ASSUME NEW i \in Invoices PROVE PaidBySettlements(i) = 0
  <2> DEFINE q == SettledFamily(i)
  <2>1. q \in [Settlements -> Nat] /\ \A s \in Settlements : q[s] = 0
    BY <1>1 DEF SettledFamily
  <2>2. PaidBySettlements(i) = Total(q)
    BY DEF PaidBySettlements, SettledFamily
  <2> HIDE DEF q
  <2>3. QED
    BY <2>1, <2>2, TotalZero
<1>3. ASSUME NEW i \in Invoices PROVE PaidByAdvances(i) = 0
  <2> DEFINE q == AppliedToFamily(i)
  <2>1. q \in [Applications -> Nat] /\ \A x \in Applications : q[x] = 0
    BY <1>1 DEF AppliedToFamily
  <2>2. PaidByAdvances(i) = Total(q)
    BY DEF PaidByAdvances, AppliedToFamily
  <2> HIDE DEF q
  <2>3. QED
    BY <2>1, <2>2, TotalZero
<1>4. ASSUME NEW s \in Settlements PROVE AppliedFrom(s) = 0
  <2> DEFINE q == AppliedFromFamily(s)
  <2>1. q \in [Applications -> Nat] /\ \A x \in Applications : q[x] = 0
    BY <1>1 DEF AppliedFromFamily
  <2>2. AppliedFrom(s) = Total(q)
    BY DEF AppliedFrom
  <2> HIDE DEF q
  <2>3. QED
    BY <2>1, <2>2, TotalZero
<1>5. QED
  BY <1>2, <1>3, <1>4

LEMMA FinanceInit ==
  ASSUME FlowInit
  PROVE  FinanceInv
<1>1. /\ DOMAIN obligation = Invoices
      /\ \A i \in Invoices : obligation[i] = NoObligation
      /\ PayablesRest /\ ReceivablesRest /\ SettlementRest
  BY DEF FlowInit
<1>2. ObligationsTypeOK
  <2>1. /\ NoObligation \in ObligationRow(PayableStatus, {"none"})
        /\ NoObligation \in ObligationRow(ReceivableStatus, {"none", "open", "resolved"})
    BY DEF NoObligation, ObligationRow, PayableStatus, ReceivableStatus
  <2>2. QED
    BY <1>1, <2>1 DEF ObligationsTypeOK, Invoices
<1>3. ObligationsInv
  <2>1. /\ \A i \in Invoices : /\ obligation[i].outstanding = 0 /\ Maximum(i) = 0
                               /\ obligation[i].status = "none" /\ obligation[i].dispute = "none"
    BY <1>1 DEF NoObligation, Maximum
  <2>2. OutstandingIsExplained /\ StatusTellsWhatIsPaid
    BY <2>1, NothingPaid DEF OutstandingIsExplained, StatusTellsWhatIsPaid
  <2>3. PayablesAreInvoiced /\ ReceivablesAreInvoiced
    BY <1>1 DEF PayablesAreInvoiced, ReceivablesAreInvoiced, Invoices
  <2>4. DisputesAgree
    BY <2>1 DEF DisputesAgree, Invoices
  <2>5. QED
    BY <2>2, <2>3, <2>4 DEF ObligationsInv
<1>4. PayablesInv
  <2>1. PayablesTypeOK
    BY <1>1, <1>2 DEF PayablesTypeOK, PayablesRest, NoInvoice, NoMemo, NoExceptions
  <2>2. \A i \in SupplierInvoices : invoice[i].status = "none"
    BY <1>1 DEF PayablesRest, NoInvoice
  <2>3. MemosAreNamed /\ DeviationsAreMarked
    BY <1>1, <2>2 DEF MemosAreNamed, DeviationsAreMarked, Marked, PayablesRest, NoMemo
  <2>4. InvoicedWithinReceived
    <3> SUFFICES ASSUME NEW l \in ReceivingLines PROVE Total(InvoicedFamily(l)) <= AcceptedQty[l]
      BY DEF InvoicedWithinReceived, InvoicedFamily
    <3>1. InvoicedFamily(l) \in [SupplierInvoices -> Nat] /\ \A i \in SupplierInvoices : InvoicedFamily(l)[i] = 0
      BY <2>2 DEF InvoicedFamily
    <3>2. Total(InvoicedFamily(l)) = 0
      BY <3>1, TotalZero
    <3>3. QED
      BY <3>2, PayablesAssumption
  <2>5. QED
    BY <2>1, <2>3, <2>4 DEF PayablesInv
<1>5. ReceivablesInv
  <2>1. ReceivablesTypeOK
    BY <1>1, <1>2 DEF ReceivablesTypeOK, ReceivablesRest, NoCustomerInvoice, NoNote, Nought
  <2>2. \A i \in CustomerInvoices : customerInvoice[i].status = "none"
    BY <1>1 DEF ReceivablesRest, NoCustomerInvoice
  <2>3. NotesAreNamed
    BY <1>1 DEF NotesAreNamed, ReceivablesRest, NoNote
  <2>4. BilledWithinShipped
    <3> SUFFICES ASSUME NEW l \in ShipmentLines PROVE Total(BilledFamily(l)) <= ShippedQty[l]
      BY DEF BilledWithinShipped, BilledFamily
    <3>1. BilledFamily(l) \in [CustomerInvoices -> Nat] /\ \A i \in CustomerInvoices : BilledFamily(l)[i] = 0
      BY <2>2 DEF BilledFamily
    <3>2. Total(BilledFamily(l)) = 0
      BY <3>1, TotalZero
    <3>3. QED
      BY <3>2, ReceivablesAssumption
  <2>5. QED
    BY <2>1, <2>3, <2>4 DEF ReceivablesInv
<1>6. CashbookInv
  <2>1. NoDocument = [workflow |-> "none", posting |-> "unposted", creator |-> Nobody, approver |-> Nobody]
    BY DEF NoDocument, Drafted
  <2>2. NoDocument \in Document /\ Consistent(NoDocument)
    BY <2>1 DEF Document, Consistent
  <2>3. /\ NoSettlement \in SettlementRow /\ NoAdvance \in AdvanceRow
        /\ NoApplication \in ApplicationRow /\ NoTransfer \in TransferRow
    BY <2>2 DEF NoSettlement, SettlementRow, NoAdvance, AdvanceRow, NoApplication, ApplicationRow,
                NoTransfer, TransferRow
  <2>4. SettlementTypeOK
    <3>1. cash \in [Accounts -> Nat] /\ entry \in [Accounts -> Seq(CashEntry)]
      BY <1>1, SettlementAssumption DEF SettlementRest
    <3>2. QED
      BY <1>1, <1>2, <2>3, <3>1, CashbookTypes DEF SettlementRest
  <2>5. SettlementsAreNamed
    BY <1>1, <2>1, <2>2 DEF SettlementsAreNamed, SettlementRest, NoSettlement, NoAdvance
  <2>6. ApplicationsAreNamed /\ TransfersAreNamed
    BY <1>1, <2>1, <2>2 DEF ApplicationsAreNamed, TransfersAreNamed, SettlementRest, NoApplication, NoTransfer
  <2>7. AdvancesAreConserved
    <3> SUFFICES ASSUME NEW s \in Settlements
                 PROVE  Conserved(advance[s], AppliedFrom(s), settlement[s].document.posting = "posted")
      BY ConservedRows
    <3>1. AppliedFrom(s) = 0 /\ advance[s] = NoAdvance
      BY <1>1, NothingPaid DEF SettlementRest
    <3>2. QED
      BY <3>1 DEF Conserved, NoAdvance
  <2>8. QED
    BY <2>4, <2>5, <2>6, <2>7 DEF CashbookInv
<1>7. QED
  BY <1>3, <1>4, <1>5, <1>6 DEF FinanceInv

\* Nothing changes in a step of something else.
LEMMA FinanceStutter ==
  ASSUME FinanceInv, UNCHANGED flowVars
  PROVE  FinanceInv'
<1>1. UNCHANGED <<obligation, payablesRest, receivablesRest, settlementRest>>
  BY DEF flowVars
<1>2. ObligationsTypeOK'
  BY <1>1 DEF FinanceInv, PayablesInv, PayablesTypeOK, ObligationsTypeOK
<1>3. PayablesInv' /\ ReceivablesInv' /\ CashbookInv'
  BY <1>1, <1>2, PayablesFrame, ReceivablesFrame, CashbookFrame DEF FinanceInv
<1>4. PayablesAreInvoiced'
  BY <1>1 DEF FinanceInv, ObligationsInv, PayablesAreInvoiced, payablesRest
<1>5. QED
  BY <1>1, <1>3, <1>4, PayablesPaper

(***************************************************************************)
(* The invariant holds in every reachable state.                           *)
(***************************************************************************)
THEOREM FinanceInvariant == FlowSpec => []FinanceInv
<1>1. FlowInit => FinanceInv
  BY FinanceInit
<1>2. FinanceInv /\ [FlowNext]_flowVars => FinanceInv'
  BY PayablesStepKeeps, ReceivablesStepKeeps, SettlementStepKeeps, FinanceStutter DEF FlowNext
<1>3. QED
  BY <1>1, <1>2, PTL DEF FlowSpec


-----------------------------------------------------------------------------
\* What the invariant says

(***************************************************************************)
(* Every row of the payables, the receivables and the cashbook keeps its   *)
(* type: statuses stay among those the services write, and no balance,     *)
(* outstanding amount, credit or advance ever becomes negative.            *)
(***************************************************************************)
THEOREM FinanceTypeCorrect == FlowSpec => [](PayablesTypeOK /\ ReceivablesTypeOK /\ SettlementTypeOK)
<1>1. FinanceInv => PayablesTypeOK /\ ReceivablesTypeOK /\ SettlementTypeOK
  BY DEF FinanceInv, PayablesInv, ReceivablesInv, CashbookInv
<1>2. QED
  BY <1>1, FinanceInvariant, PTL

(***************************************************************************)
(* OutstandingIsExplained for every set of rows: credits, settlements,     *)
(* applications and their reversals, whose services know nothing of each   *)
(* other, account for every amount that is no longer outstanding.          *)
(***************************************************************************)
THEOREM EveryAmountIsExplained == FlowSpec => []OutstandingIsExplained
<1>1. FinanceInv => OutstandingIsExplained
  BY DEF FinanceInv, ObligationsInv
<1>2. QED
  BY <1>1, FinanceInvariant, PTL

(***************************************************************************)
(* StatusTellsWhatIsPaid: the status a posting writes and the one a        *)
(* reversal derives always tell whether something of the obligation is     *)
(* paid, so that holds, disputes and exports, which look at the status     *)
(* only, are right to.                                                     *)
(***************************************************************************)
THEOREM StatusesTellPayments == FlowSpec => []StatusTellsWhatIsPaid
<1>1. FinanceInv => StatusTellsWhatIsPaid
  BY DEF FinanceInv, ObligationsInv
<1>2. QED
  BY <1>1, FinanceInvariant, PTL

(***************************************************************************)
(* AdvancesAreConserved: what a settlement overpaid is remaining or        *)
(* applied, and no settlement is reversed under an application.            *)
(***************************************************************************)
THEOREM AdvancesStayWhole == FlowSpec => []AdvancesAreConserved
<1>1. FinanceInv => AdvancesAreConserved
  BY DEF FinanceInv, CashbookInv
<1>2. QED
  BY <1>1, FinanceInvariant, PTL

(***************************************************************************)
(* DisputesAgree: the calendar, the settlements, the credits and the       *)
(* disputes themselves all keep a receivable disputed exactly while its    *)
(* dispute is open.                                                        *)
(***************************************************************************)
THEOREM DisputesStayOpen == FlowSpec => []DisputesAgree
<1>1. FinanceInv => DisputesAgree
  BY DEF FinanceInv, ObligationsInv
<1>2. QED
  BY <1>1, FinanceInvariant, PTL

(***************************************************************************)
(* InvoicedWithinReceived: suppliers never invoice more of a line than was *)
(* accepted and kept, however many of their invoices share the line.       *)
(***************************************************************************)
THEOREM InvoicedIsReceived == FlowSpec => []InvoicedWithinReceived
<1>1. FinanceInv => InvoicedWithinReceived
  BY DEF FinanceInv, PayablesInv
<1>2. QED
  BY <1>1, FinanceInvariant, PTL

(***************************************************************************)
(* BilledWithinShipped: customers are never billed for more of an order    *)
(* line than was shipped, however many of their invoices share the line.   *)
(***************************************************************************)
THEOREM BilledIsShipped == FlowSpec => []BilledWithinShipped
<1>1. FinanceInv => BilledWithinShipped
  BY DEF FinanceInv, ReceivablesInv
<1>2. QED
  BY <1>1, FinanceInvariant, PTL

(***************************************************************************)
(* NothingPayableUnreviewed: the match marks every line whose price        *)
(* deviates, the mark is never taken back, and the approval wants every    *)
(* mark accepted.                                                          *)
(***************************************************************************)
THEOREM PayablesAreReviewed == FlowSpec => []NothingPayableUnreviewed
<1>1. FinanceInv => NothingPayableUnreviewed
  <2> SUFFICES ASSUME FinanceInv, NEW i \in SupplierInvoices, Exists(i),
                      NEW l \in LinesOf(invoice[i].lines), Deviates(i, l)
               PROVE  exception[i][<<l, "price">>] = "approved"
    BY DEF NothingPayableUnreviewed, Deviates
  <2>1. invoice[i].status \in {"approved", "held"}
    BY DEF FinanceInv, ObligationsInv, PayablesAreInvoiced, Exists, NoObligation
  <2>2. exception[i][<<l, "price">>] # "none" /\ Reviewed(i)
    BY <2>1 DEF FinanceInv, PayablesInv, DeviationsAreMarked, Marked
  <2>3. exception[i] \in [ReceivingLines \X ExceptionKinds -> {"none", "open", "approved", "rejected"}]
    BY DEF FinanceInv, PayablesInv, PayablesTypeOK
  <2>4. <<l, "price">> \in ReceivingLines \X ExceptionKinds
    BY DEF LinesOf, ExceptionKinds
  <2>5. exception[i][<<l, "price">>] \notin {"open", "rejected"}
    BY <2>2, <2>3, <2>4 DEF Reviewed
  <2>6. QED
    BY <2>2, <2>3, <2>4, <2>5
<1>2. QED
  BY <1>1, FinanceInvariant, PTL

(***************************************************************************)
(* PaymentsCanBeTakenBack: what a posting took is among what is paid of    *)
(* the obligation and applied from the advance, so that putting it back    *)
(* exceeds neither.                                                        *)
(***************************************************************************)
THEOREM PaymentsAreReversible == FlowSpec => []PaymentsCanBeTakenBack
<1>1. FinanceInv => PaymentsCanBeTakenBack
  <2> SUFFICES ASSUME FinanceInv PROVE PaymentsCanBeTakenBack
    OBVIOUS
  <2>1. SettlementTypeOK
    BY DEF FinanceInv, CashbookInv
  <2>2. ASSUME NEW s \in Settlements, settlement[s].document.posting = "posted", NEW i \in Invoices
        PROVE  obligation[i].outstanding + settlement[s].instruction.cash[i]
                 + settlement[s].instruction.discount[i] <= obligation[i].original - obligation[i].credit
    <3> DEFINE n == settlement[s].instruction
    <3>1. n \in Instructions \cup {NoInstruction}
      BY <2>1 DEF SettlementTypeOK
    <3>2. Allocation(n, i) <= PaidBySettlements(i)
      BY <2>1, <2>2, SettlementCounts
    <3>3. /\ PaidBySettlements(i) \in Nat /\ PaidByAdvances(i) \in Nat
          /\ obligation[i].outstanding + PaidBySettlements(i) + PaidByAdvances(i) = Maximum(i)
      BY <2>1, PaidIsNat DEF FinanceInv, ObligationsInv, OutstandingIsExplained
    <3>4. obligation[i].outstanding \in Nat /\ Maximum(i) \in Int
      BY <2>1, RowNumbers DEF SettlementTypeOK
    <3> HIDE DEF n
    <3>5. n.cash[i] \in Nat /\ n.discount[i] \in Nat
      BY <3>1, InstructionNat
    <3>6. obligation[i].outstanding + n.cash[i] + n.discount[i] <= Maximum(i)
      BY <3>2, <3>3, <3>4, <3>5 DEF Allocation
    <3>7. QED
      BY <3>6 DEF n, Maximum
  <2>3. ASSUME NEW x \in Applications, application[x].document.posting = "posted"
        PROVE  advance[application[x].advance].remaining + application[x].amount
                 <= advance[application[x].advance].original
    <3> DEFINE s == application[x].advance
               v == advance[s]
               amount == application[x].amount
    <3>1. s \in Settlements
      <4>1. application[x].document.workflow # "none"
        BY <2>3 DEF FinanceInv, CashbookInv, ApplicationsAreNamed, Consistent
      <4>2. QED
        BY <4>1 DEF FinanceInv, CashbookInv, ApplicationsAreNamed
    <3>2. amount <= AppliedFrom(s)
      BY <2>1, <2>3, <3>1, ApplicationCounts
    <3>3. v.remaining + v.applied = v.original /\ v.applied = AppliedFrom(s)
      BY <3>1, ConservedRows DEF FinanceInv, CashbookInv, Conserved
    <3>4. v.remaining \in Nat /\ v.applied \in Nat /\ v.original \in Nat /\ amount \in Nat
      BY <2>1, <3>1 DEF SettlementTypeOK
    <3> HIDE DEF v, s, amount
    <3>5. v.remaining + amount <= v.original
      BY <3>2, <3>3, <3>4
    <3>6. QED
      BY <3>5 DEF v, s, amount
  <2>4. QED
    BY <2>2, <2>3 DEF PaymentsCanBeTakenBack
<1>2. QED
  BY <1>1, FinanceInvariant, PTL

\* A step of the cashbook leaves held and disputed obligations alone.
LEMMA BlockedIsLeft ==
  ASSUME FinanceInv, SettlementStep, NEW i \in Invoices, obligation[i].status \in {"held", "disputed"}
  PROVE  obligation'[i] = obligation[i]
<1>1. /\ SettlementTypeOK /\ ObligationsTypeOK
      /\ application \in [Applications -> ApplicationRow]
  BY CashbookTypes DEF FinanceInv, CashbookInv
<1>2. Paid(i) = 0 /\ PaidBySettlements(i) = 0 /\ PaidByAdvances(i) = 0
  <2>1. ~(PaidBySettlements(i) + PaidByAdvances(i) > 0)
    BY DEF FinanceInv, ObligationsInv, StatusTellsWhatIsPaid
  <2>2. PaidBySettlements(i) \in Nat /\ PaidByAdvances(i) \in Nat
    BY <1>1, PaidIsNat
  <2>3. QED
    BY <2>1, <2>2 DEF Paid
<1>3. ~Settleable(i) /\ ~Eligible(i)
  <2>1. /\ i \in SupplierInvoices => obligation[i].status \in PayableStatus
        /\ i \in CustomerInvoices => obligation[i].status \in ReceivableStatus
    BY <1>1 DEF ObligationsTypeOK, ObligationRow
  <2>2. QED
    BY <2>1 DEF Settleable, Eligible
<1>4. ASSUME NEW s \in Settlements, SettlementDocumentNext(s) PROVE obligation'[i] = obligation[i]
  <2>1. ASSUME NEW p \in People, PostSettlement(s, p) PROVE obligation'[i] = obligation[i]
    BY <1>3, <2>1 DEF PostSettlement, StillAllowed, PlanAllowed, Settled
  <2>2. ASSUME ReverseSettlement(s) PROVE obligation'[i] = obligation[i]
    <3>1. settlement[s].document.posting = "posted"
      BY <2>2 DEF ReverseSettlement
    <3>2. Allocation(settlement[s].instruction, i) <= 0
      BY <1>1, <1>2, <3>1, SettlementCounts
    <3>3. settlement[s].instruction \in Instructions \cup {NoInstruction}
      BY <1>1 DEF SettlementTypeOK
    <3>4. Allocation(settlement[s].instruction, i) \in Nat
      BY <3>3, InstructionNat
    <3>5. i \notin Allocated(settlement[s].instruction)
      BY <3>2, <3>4 DEF Allocated
    <3>6. QED
      BY <2>2, <3>5 DEF ReverseSettlement
  <2>3. QED
    BY <1>4, <2>1, <2>2 DEF SettlementDocumentNext, CreateSettlement, ReviseSettlement, SettlementWorkflow
<1>5. ASSUME NEW x \in Applications, ApplicationNext(x) PROVE obligation'[i] = obligation[i]
  <2>1. ASSUME PostAdvanceApplication(x) PROVE obligation'[i] = obligation[i]
    <3>1. application[x].invoice # i
      BY <1>3, <2>1 DEF PostAdvanceApplication, FactsStillAllow, FactsAllow
    <3>2. QED
      BY <1>1, <2>1, <3>1 DEF PostAdvanceApplication, ObligationsTypeOK
  <2>2. ASSUME ReverseAdvanceApplication(x) PROVE obligation'[i] = obligation[i]
    <3>1. application[x].document.posting = "posted"
      BY <2>2 DEF ReverseAdvanceApplication
    <3>2. application[x].amount > 0 /\ application[x].amount \in Nat
      <4>1. application[x].document.workflow # "none"
        BY <3>1 DEF FinanceInv, CashbookInv, ApplicationsAreNamed, Consistent
      <4>2. QED
        BY <1>1, <4>1 DEF FinanceInv, CashbookInv, ApplicationsAreNamed, ApplicationRow
    <3>3. application[x].invoice # i
      BY <1>1, <1>2, <3>1, <3>2, ApplicationCounts
    <3>4. QED
      BY <1>1, <2>2, <3>3 DEF ReverseAdvanceApplication, ObligationsTypeOK
  <2>3. QED
    BY <1>5, <2>1, <2>2 DEF ApplicationNext, CreateAdvanceApplication, ApplicationWorkflow
<1>6. ASSUME NEW t \in Transfers, TransferNext(t) PROVE obligation'[i] = obligation[i]
  BY <1>6 DEF TransferNext, CreateInternalTransfer, ReviseInternalTransfer, TransferWorkflow,
              PostInternalTransfer, ReverseInternalTransfer, Move
<1>7. QED
  BY <1>4, <1>5, <1>6 DEF SettlementStep, SettlementNext

(***************************************************************************)
(* BlockedObligationsAreNotPaid: a hold or a dispute finds an obligation   *)
(* of which nothing is paid, and stops every settlement and advance, those *)
(* included that were approved before it.                                  *)
(***************************************************************************)
THEOREM BlockedStayUnpaid == FlowSpec => BlockedObligationsAreNotPaid
<1>1. ASSUME FinanceInv, FinanceInv', [FlowNext]_flowVars,
             NEW i \in Invoices, obligation[i].status \in {"held", "disputed"}
      PROVE  /\ PaidBySettlements(i) + PaidByAdvances(i) = 0
             /\ PaidBySettlements(i)' + PaidByAdvances(i)' = 0
  <2>1. PaidBySettlements(i) + PaidByAdvances(i) = 0
    <3>1. PaidBySettlements(i) \in Nat /\ PaidByAdvances(i) \in Nat
      BY <1>1, PaidIsNat DEF FinanceInv, CashbookInv
    <3>2. ~(PaidBySettlements(i) + PaidByAdvances(i) > 0)
      BY <1>1 DEF FinanceInv, ObligationsInv, StatusTellsWhatIsPaid
    <3>3. QED
      BY <3>1, <3>2
  <2>2. CASE SettlementStep
    <3>1. obligation'[i] = obligation[i]
      BY <1>1, <2>2, BlockedIsLeft
    <3>2. ~(Paid(i)' > 0)
      BY <1>1, <3>1 DEF FinanceInv, ObligationsInv, StatusTellsWhatIsPaid, Paid
    <3>3. Paid(i)' \in Nat
      BY <1>1, PaidIsNatNext DEF FinanceInv, CashbookInv
    <3>4. QED
      BY <2>1, <3>2, <3>3 DEF Paid
  <2>3. CASE UNCHANGED settlementRest
    BY <2>1, <2>3 DEF PaidBySettlements, PaidByAdvances, settlementRest
  <2>4. QED
    BY <1>1, <2>2, <2>3 DEF FlowNext, PayablesStep, ReceivablesStep, flowVars
<1>2. FinanceInv /\ FinanceInv' /\ [FlowNext]_flowVars =>
        [\A i \in Invoices :
           obligation[i].status \in {"held", "disputed"} =>
             /\ PaidBySettlements(i) + PaidByAdvances(i) = 0
             /\ PaidBySettlements(i)' + PaidByAdvances(i)' = 0]_flowVars
  BY <1>1
<1>3. QED
  BY <1>2, FinanceInvariant, PTL DEF FlowSpec, BlockedObligationsAreNotPaid
=============================================================================
