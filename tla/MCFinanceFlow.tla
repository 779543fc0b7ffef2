--------------------------- MODULE MCFinanceFlow ---------------------------
(***************************************************************************)
(* Five scenarios: two supplier invoices compete for receiving lines; two  *)
(* customer invoices for a shipment line; settlements, an application and  *)
(* a transfer share an account; and a supplier invoice with a memo, or a   *)
(* customer invoice with a note, meets the settlements of its obligation.  *)
(***************************************************************************)
EXTENDS FinanceFlow, TLC

CONSTANTS l1, l2, g1, r1, m1, m2, a1, a2, k1, h1, b1, n1, n2, s1, s2, c1, c2,
          d1, d2, x1, t1, u1, u2, supplier, customer

Draft(q1, p1, q2, p2) ==
  [quantity |-> l1 :> q1 @@ l2 :> q2, price |-> l1 :> p1 @@ l2 :> p2]

MCReceivingOf == l1 :> g1 @@ l2 :> g1
MCAcceptedQty == l1 :> 2 @@ l2 :> 1

\* A deviation of 2 is half of the price of the first line and within the
\* percentage; of the second it is twice the price and above both tolerances.
\* The third draft has both, and the total that was agreed.
MCPoPrice == l1 :> 4 @@ l2 :> 1
MCInvoiceDrafts ==
  {Draft(1, 2, 0, 0), Draft(2, 2, 0, 0), Draft(1, 1, 1, 3)}
MCReturnedLine == r1 :> l1
MCReturnedQty == r1 :> 2

MCShipmentOf == k1 :> h1
MCShippedQty == k1 :> 3
MCSalesPrice == k1 :> 2
MCCustomerDrafts == {k1 :> 1, k1 :> 2}
MCCustomerReturnLine == b1 :> k1
MCCustomerReturnQty == b1 :> 2

MCOpeningBalance == a1 :> 2 @@ a2 :> 0
MCPartner == [i \in Invoices |-> IF i \in SupplierInvoices THEN supplier ELSE customer]

Instruct(direction, partner, amount, i, paid, off) ==
  [direction |-> direction, account |-> a1, partner |-> partner, amount |-> amount,
   cash |-> [j \in Invoices |-> IF j = i THEN paid ELSE 0],
   discount |-> [j \in Invoices |-> IF j = i THEN off ELSE 0]]

\* Payments and receipts in part, in full with a discount, and in advance.
MCInstructions ==
  {Instruct("disbursement", supplier, 1, s1, 1, 0), Instruct("disbursement", supplier, 2, s1, 1, 0),
   Instruct("receipt", customer, 1, c1, 1, 1), Instruct("receipt", customer, 2, c1, 1, 0)}
MCTransferOrders == {[from |-> a1, to |-> a2, amount |-> 1], [from |-> a2, to |-> a1, amount |-> 1]}

-----------------------------------------------------------------------------
VARIABLE scenario

PaysSupplier == scenario \in {"purchase", "supplier"}
BillsCustomer == scenario \in {"sale", "customer"}
MovesCash == scenario \in {"cash", "supplier", "customer"}

MCInit ==
  /\ PayablesRest /\ ReceivablesRest /\ SettlementRest
  /\ \/ /\ scenario = "cash"
        /\ obligation = [i \in Invoices |->
             IF i = s1 THEN Owed(2, "approved") ELSE IF i = c1 THEN Owed(2, "open") ELSE NoObligation]
     \/ /\ scenario \in {"purchase", "sale", "supplier", "customer"}
        /\ obligation = [i \in Invoices |-> NoObligation]

MCNext ==
  /\ \/ PaysSupplier /\ PayablesStep
     \/ BillsCustomer /\ ReceivablesStep
     \/ MovesCash /\ SettlementStep
  /\ UNCHANGED scenario

MCSpec == MCInit /\ [][MCNext]_<<flowVars, scenario>>

-----------------------------------------------------------------------------
\* Documents of a kind are interchangeable, and so are people: the first is
\* used first.
InOrder ==
  /\ invoice[s1] = NoInvoice => invoice[s2] = NoInvoice
  /\ customerInvoice[c1] = NoCustomerInvoice => customerInvoice[c2] = NoCustomerInvoice
  /\ memo[m1] = NoMemo => memo[m2] = NoMemo
  /\ note[n1] = NoNote => note[n2] = NoNote
  /\ settlement[d1] = NoSettlement => settlement[d2] = NoSettlement
  /\ settlement[d1].document.creator # u2

\* Where settlements meet invoices one invoice and one credit is enough, and
\* a settlement that is given up meets nothing.
OneInvoice ==
  /\ invoice[s2] = NoInvoice /\ memo[m2] = NoMemo
  /\ invoice[s1].lines \in {NoLines, Draft(1, 2, 0, 0)}
  /\ customerInvoice[c2] = NoCustomerInvoice /\ note[n2] = NoNote
  /\ customerInvoice[c1].quantity \in {Nought, k1 :> 1}
  /\ \A d \in Settlements :
       /\ settlement[d].document.workflow \notin {"rejected", "cancelled"}
       /\ settlement[d].document.creator # u2
  /\ \A t \in Transfers : transfer[t] = NoTransfer

\* Credits meet one invoice; two invoices meet over the goods.
CreditsOfOneInvoice ==
  /\ memo[m1] = NoMemo \/ invoice[s2] = NoInvoice
  /\ note[n1] = NoNote \/ customerInvoice[c2] = NoCustomerInvoice

\* A transfer meets one settlement, or two settlements meet each other.
OneSettlement == \A t \in Transfers : transfer[t] = NoTransfer \/ settlement[d2] = NoSettlement

InBounds ==
  /\ InOrder
  /\ OneSettlement
  /\ CreditsOfOneInvoice
  /\ scenario \notin {"supplier", "customer"} \/ OneInvoice
=============================================================================
