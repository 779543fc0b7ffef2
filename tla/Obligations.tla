---------------------------- MODULE Obligations ----------------------------
(***************************************************************************)
(* What the workspace owes and is owed.  An approved supplier invoice      *)
(* makes a payable obligation, an issued customer invoice a receivable     *)
(* one; an obligation is keyed here by its invoice, which is unique in     *)
(* its table.  Credits, settlements and applied advances all lower the     *)
(* same outstanding amount, in transactions of different services, so      *)
(* that their modules extend this one.                                     *)
(*                                                                         *)
(* All amounts are of one currency: no command converts, and every one     *)
(* refuses rows of another currency.  A command that names a version the   *)
(* row no longer has is refused without effect and takes no step.          *)
(***************************************************************************)
EXTENDS Quantities

CONSTANTS SupplierInvoices, CustomerInvoices

\* Their identifiers are those of rows of two tables.
ASSUME ObligationsAssumption ==
  /\ IsFiniteSet(SupplierInvoices) /\ IsFiniteSet(CustomerInvoices)
  /\ SupplierInvoices \cap CustomerInvoices = {}

VARIABLE obligation

Invoices == SupplierInvoices \cup CustomerInvoices

NoObligation ==
  [original |-> 0, outstanding |-> 0, credit |-> 0, status |-> "none", dispute |-> "none"]

PayableStatus ==
  {"none", "approved", "held", "export_ready", "partially_settled", "settled"}
ReceivableStatus ==
  {"none", "open", "overdue", "disputed", "partially_settled", "settled"}

ObligationRow(statuses, disputes) ==
  [original : Nat, outstanding : Nat, credit : Nat, status : statuses, dispute : disputes]

ObligationsTypeOK ==
  /\ DOMAIN obligation = Invoices
  /\ \A i \in SupplierInvoices : obligation[i] \in ObligationRow(PayableStatus, {"none"})
  /\ \A i \in CustomerInvoices :
       obligation[i] \in ObligationRow(ReceivableStatus, {"none", "open", "resolved"})

Exists(i) == obligation[i].status # "none"

\* The row an approved or issued invoice of that amount creates.
Owed(amount, status) ==
  [NoObligation EXCEPT !.original = amount, !.outstanding = amount, !.status = status]

\* The most that can be outstanding: what the credits have left.
Maximum(i) == obligation[i].original - obligation[i].credit

\* The status an outstanding amount stands for once something was settled.
DeriveStatus(i, outstanding) ==
  IF outstanding = 0 THEN "settled"
  ELSE IF outstanding # Maximum(i) THEN "partially_settled"
  ELSE IF i \in SupplierInvoices THEN "approved" ELSE "open"

\* An approved credit lowers the obligation of its invoice, and no further
\* than to nothing; the status stays.
Creditable(i, amount) == Exists(i) => amount <= obligation[i].outstanding

\* Variant: a credit is recorded without lowering the debt.
CreditedOnPaper(i, amount) ==
  IF Exists(i) THEN [obligation EXCEPT ![i].credit = @ + amount] ELSE obligation

Credited(i, amount) ==
  IF Exists(i)
    THEN [obligation EXCEPT ![i].outstanding = @ - amount, ![i].credit = @ + amount]
    ELSE obligation
=============================================================================
