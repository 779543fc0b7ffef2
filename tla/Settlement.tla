----------------------------- MODULE Settlement -----------------------------
(***************************************************************************)
(* The internal cashbook: settlements that pay payables and collect        *)
(* receivables, in part, with discounts, or ahead of them, as advances;    *)
(* applications of advances to obligations; and transfers between          *)
(* accounts.  All three are drafted, submitted, approved, posted and       *)
(* reversed; posting writes immutable cashbook entries.                    *)
(*                                                                         *)
(* An action is the commit of one command.  Accounts and obligations share *)
(* one currency; accounts stay active.                                     *)
(***************************************************************************)
EXTENDS Obligations, Sequences

CONSTANTS
  Accounts, OpeningBalance,
  Partner,            \* the supplier or customer of an invoice
  Settlements,
  Instructions,       \* the contents settlements may have
  Applications, AppliedAmounts,
  Transfers, TransferOrders,
  People,
  DiscountAppliers,   \* people with finance.settlement_discount.apply
  WorkflowEnabled, ApprovalRequired, ApprovalThreshold,
  SelfApprovalAllowed, SelfPostingAllowed, DiscountThreshold,
  Nobody

ASSUME SettlementAssumption ==
  /\ IsFiniteSet(Settlements) /\ IsFiniteSet(Applications)
  /\ AppliedAmounts \subseteq Nat
  /\ OpeningBalance \in [Accounts -> Nat]
  /\ DiscountAppliers \subseteq People /\ Nobody \notin People
  /\ \A n \in Instructions :
       /\ n.direction \in {"receipt", "disbursement"} /\ n.account \in Accounts
       /\ n.amount \in Nat /\ n.cash \in [Invoices -> Nat] /\ n.discount \in [Invoices -> Nat]
  /\ \A o \in TransferOrders :
       o.from \in Accounts /\ o.to \in Accounts /\ o.from # o.to /\ o.amount \in Nat \ {0}

VARIABLES
  cash,          \* currentBalance of an account
  entry,         \* cashbook entries of an account, oldest first
  settlement,
  advance,       \* the partner advance a settlement created
  application,
  transfer

cashVars == <<cash, entry>>
settlementVars == <<obligation, cashVars, settlement, advance, application, transfer>>

NoInstruction ==
  [direction |-> "none", account |-> Nobody, partner |-> Nobody, amount |-> 0,
   cash |-> [i \in Invoices |-> 0], discount |-> [i \in Invoices |-> 0]]
NoOrder == [from |-> Nobody, to |-> Nobody, amount |-> 0]

Drafted(creator) ==
  [workflow |-> "draft", posting |-> "unposted", creator |-> creator, approver |-> Nobody]
NoDocument == [Drafted(Nobody) EXCEPT !.workflow = "none"]

NoSettlement == [document |-> NoDocument, instruction |-> NoInstruction]
NoAdvance == [original |-> 0, remaining |-> 0, applied |-> 0, status |-> "none"]
NoApplication == [document |-> NoDocument, advance |-> Nobody, invoice |-> Nobody, amount |-> 0]
NoTransfer == [document |-> NoDocument, order |-> NoOrder]

Document ==
  [workflow : {"none", "draft", "submitted", "approved", "rejected", "cancelled",
               "posted", "reversed"},
   posting : {"unposted", "posted", "reversed"},
   creator : People \cup {Nobody}, approver : People \cup {Nobody}]
CashEntry ==
  [document : Settlements \cup Transfers, type : {"posting", "reversal"},
   before : Nat, after : Nat]

SettlementTypeOK ==
  /\ ObligationsTypeOK
  /\ cash \in [Accounts -> Nat]
  /\ entry \in [Accounts -> Seq(CashEntry)]
  /\ settlement \in [Settlements ->
       [document : Document, instruction : Instructions \cup {NoInstruction}]]
  /\ advance \in [Settlements ->
       [original : Nat, remaining : Nat, applied : Nat,
        status : {"none", "open", "partially_applied", "fully_applied", "reversed"}]]
  /\ application \in [Applications ->
       [document : Document, advance : Settlements \cup {Nobody},
        invoice : Invoices \cup {Nobody}, amount : Nat]]
  /\ transfer \in [Transfers -> [document : Document, order : TransferOrders \cup {NoOrder}]]

SettlementRest ==
  /\ cash = OpeningBalance
  /\ entry = [a \in Accounts |-> <<>>]
  /\ settlement = [s \in Settlements |-> NoSettlement]
  /\ advance = [s \in Settlements |-> NoAdvance]
  /\ application = [x \in Applications |-> NoApplication]
  /\ transfer = [t \in Transfers |-> NoTransfer]

-----------------------------------------------------------------------------
\* The steps of a document before it is posted

Submitted(d) == [d EXCEPT !.workflow = "submitted"]
Approved(d, p) == [d EXCEPT !.workflow = "approved", !.approver = p]
Rejected(d) == [d EXCEPT !.workflow = "rejected"]
Cancelled(d) == [d EXCEPT !.workflow = "cancelled"]
Posted(d) == [d EXCEPT !.workflow = "posted", !.posting = "posted"]
Reversed(d) == [d EXCEPT !.workflow = "reversed", !.posting = "reversed"]

Editable(d) == d.workflow \in {"draft", "rejected"}

\* What submit, approve, reject and cancel make of a document; approvals of
\* one's own are allowed as the policy of the workspace says.
WorkflowSteps(d, selfApproval) ==
  (IF d.workflow = "draft" THEN {Submitted(d), Cancelled(d)} ELSE {})
  \cup (IF d.workflow = "submitted"
          THEN {Rejected(d), Cancelled(d)}
               \cup {Approved(d, p) : p \in {q \in People : selfApproval \/ q # d.creator}}
          ELSE {})

\* Applications have no rejection and no cancellation.
ApplicationSteps(d) ==
  {e \in WorkflowSteps(d, FALSE) : e.workflow \in {"submitted", "approved"}}

-----------------------------------------------------------------------------
\* The cashbook

\* Document x moves account a to the balance after.
Book(book, a, x, type, after) ==
  [book EXCEPT ![a] = Append(@, [document |-> x, type |-> type,
                                 before |-> cash[a], after |-> after])]

-----------------------------------------------------------------------------
\* Settlements

Allocation(n, i) == n.cash[i] + n.discount[i]
Allocated(n) == {i \in Invoices : Allocation(n, i) > 0}
AdvanceAmount(n) == n.amount - Total(n.cash)

Settleable(i) ==
  IF i \in SupplierInvoices
    THEN obligation[i].status \in {"approved", "export_ready", "partially_settled"}
    ELSE /\ obligation[i].dispute = "none"
         /\ obligation[i].status \in {"open", "overdue", "partially_settled"}

\* settlementPlan
PlanAllowed(n) ==
  /\ n.amount > 0 /\ Allocated(n) # {} /\ Total(n.cash) <= n.amount
  /\ Allocated(n) \subseteq
       IF n.direction = "disbursement" THEN SupplierInvoices ELSE CustomerInvoices
  /\ \A i \in Allocated(n) :
       /\ Settleable(i)
       /\ Partner[i] = n.partner
       /\ Allocation(n, i) <= obligation[i].outstanding

MayDiscount(p, n) == Total(n.discount) > DiscountThreshold => p \in DiscountAppliers

CreateSettlement(s, p, n) ==
  /\ settlement[s].document.workflow = "none"
  /\ PlanAllowed(n)
  /\ MayDiscount(p, n)
  /\ settlement' = [settlement EXCEPT ![s] = [document |-> Drafted(p), instruction |-> n]]
  /\ UNCHANGED <<obligation, cashVars, advance, application, transfer>>

\* The creator of the document stays the one who drafted it first.
ReviseSettlement(s, p, n) ==
  /\ Editable(settlement[s].document)
  /\ PlanAllowed(n)
  /\ MayDiscount(p, n)
  /\ settlement' = [settlement EXCEPT ![s].instruction = n, ![s].document.workflow = "draft"]
  /\ UNCHANGED <<obligation, cashVars, advance, application, transfer>>

SettlementWorkflow(s) ==
  /\ \E d \in WorkflowSteps(settlement[s].document, SelfApprovalAllowed) :
       settlement' = [settlement EXCEPT ![s].document = d]
  /\ UNCHANGED <<obligation, cashVars, advance, application, transfer>>

ApprovalNeeded(n) ==
  WorkflowEnabled /\ (ApprovalRequired \/ Total(n.cash) + Total(n.discount) > ApprovalThreshold)

Postable(s) ==
  \/ settlement[s].document.workflow = "approved"
  \/ settlement[s].document.workflow = "draft" /\ ~ApprovalNeeded(settlement[s].instruction)

StillAllowed(n) == PlanAllowed(n)

\* The balance of its account after a settlement, in the direction given.
Balance(n, direction) ==
  IF direction = "receipt" THEN cash[n.account] + n.amount ELSE cash[n.account] - n.amount

Opposite(n) == IF n.direction = "receipt" THEN "disbursement" ELSE "receipt"

\* Variant: a discount is not taken off what is owed.
SettledByCash(n) ==
  [i \in Invoices |->
    LET rest == obligation[i].outstanding - n.cash[i]
    IN IF i \notin Allocated(n) THEN obligation[i]
       ELSE [obligation[i] EXCEPT !.outstanding = rest,
               !.status = IF rest = 0 THEN "settled" ELSE "partially_settled"]]

Settled(n) ==
  [i \in Invoices |->
    LET rest == obligation[i].outstanding - Allocation(n, i)
    IN IF i \notin Allocated(n) THEN obligation[i]
       ELSE [obligation[i] EXCEPT !.outstanding = rest,
               !.status = IF rest = 0 THEN "settled" ELSE "partially_settled"]]

PostSettlement(s, p) ==
  LET d == settlement[s].document
      n == settlement[s].instruction
  IN /\ Postable(s)
     /\ p # d.creator \/ SelfPostingAllowed
     /\ StillAllowed(n)
     /\ Balance(n, n.direction) >= 0
     /\ obligation' = Settled(n)
     /\ advance' = IF AdvanceAmount(n) = 0 THEN advance
                   ELSE [advance EXCEPT ![s] =
                          [original |-> AdvanceAmount(n), remaining |-> AdvanceAmount(n),
                           applied |-> 0, status |-> "open"]]
     /\ cash' = [cash EXCEPT ![n.account] = Balance(n, n.direction)]
     /\ entry' = Book(entry, n.account, s, "posting", Balance(n, n.direction))
     /\ settlement' = [settlement EXCEPT ![s].document = Posted(d)]
     /\ UNCHANGED <<application, transfer>>

Restored(i, amount) == obligation[i].outstanding + amount

AdvanceUnused(s) == advance[s].applied = 0

\* Variant: a reversal of a settlement reopens what it paid.
StatusReopened(i, amount) == IF i \in SupplierInvoices THEN "approved" ELSE "open"

StatusRestored(i, amount) == DeriveStatus(i, Restored(i, amount))

\* The reversal derives the status anew, comparing with the maximum first.
ReverseSettlement(s) ==
  LET d == settlement[s].document
      n == settlement[s].instruction
  IN /\ d.posting = "posted"
     /\ AdvanceUnused(s)
     /\ Balance(n, Opposite(n)) >= 0
     /\ \A i \in Allocated(n) : Restored(i, Allocation(n, i)) <= Maximum(i)
     /\ obligation' = [i \in Invoices |->
          IF i \notin Allocated(n) THEN obligation[i]
          ELSE [obligation[i] EXCEPT !.outstanding = Restored(i, Allocation(n, i)),
                                     !.status = StatusRestored(i, Allocation(n, i))]]
     /\ advance' = IF advance[s].status = "none" THEN advance
                   ELSE [advance EXCEPT ![s].status = "reversed"]
     /\ cash' = [cash EXCEPT ![n.account] = Balance(n, Opposite(n))]
     /\ entry' = Book(entry, n.account, s, "reversal", Balance(n, Opposite(n)))
     /\ settlement' = [settlement EXCEPT ![s].document = Reversed(d)]
     /\ UNCHANGED <<application, transfer>>

-----------------------------------------------------------------------------
\* Advance applications

\* assertAdvanceApplicationEligibility
Eligible(i) ==
  /\ obligation[i].outstanding > 0
  /\ IF i \in SupplierInvoices
       THEN obligation[i].status \in {"approved", "partially_settled"}
       ELSE /\ obligation[i].status \in {"open", "partially_settled"}
            /\ obligation[i].dispute \in {"none", "resolved"}

\* resolveFacts
FactsAllow(s, i, amount) ==
  LET n == settlement[s].instruction
  IN /\ advance[s].status \notin {"none", "reversed"}
     /\ Eligible(i)
     /\ (i \in SupplierInvoices) <=> (n.direction = "disbursement")
     /\ Partner[i] = n.partner
     /\ amount > 0
     /\ amount <= advance[s].remaining
     /\ amount <= obligation[i].outstanding

CreateAdvanceApplication(x, p, s, i, amount) ==
  /\ application[x].document.workflow = "none"
  /\ FactsAllow(s, i, amount)
  /\ application' = [application EXCEPT ![x] =
       [document |-> Drafted(p), advance |-> s, invoice |-> i, amount |-> amount]]
  /\ UNCHANGED <<obligation, cashVars, settlement, advance, transfer>>

\* Every step checks the facts again.
ApplicationWorkflow(x) ==
  LET row == application[x]
  IN /\ row.document.workflow \in {"draft", "submitted"}
     /\ FactsAllow(row.advance, row.invoice, row.amount)
     /\ \E d \in ApplicationSteps(row.document) :
          application' = [application EXCEPT ![x].document = d]
     /\ UNCHANGED <<obligation, cashVars, settlement, advance, transfer>>

FactsStillAllow(row) == FactsAllow(row.advance, row.invoice, row.amount)

PostAdvanceApplication(x) ==
  LET row == application[x]
      v == advance[row.advance]
      rest == obligation[row.invoice].outstanding - row.amount
  IN /\ row.document.workflow = "approved" /\ row.document.posting = "unposted"
     /\ FactsStillAllow(row)
     /\ advance' = [advance EXCEPT ![row.advance] =
          [v EXCEPT !.remaining = @ - row.amount, !.applied = @ + row.amount,
                    !.status = IF v.remaining = row.amount THEN "fully_applied"
                               ELSE "partially_applied"]]
     /\ obligation' = [obligation EXCEPT ![row.invoice].outstanding = rest,
                                         ![row.invoice].status = DeriveStatus(row.invoice, rest)]
     /\ application' = [application EXCEPT ![x].document = Posted(row.document)]
     /\ UNCHANGED <<cashVars, settlement, transfer>>

\* Variant: the reversal forgets the advance.
GiveBackNothing(v, amount) == v

GiveBack(v, amount) ==
  [v EXCEPT !.remaining = @ + amount, !.applied = @ - amount,
            !.status = IF v.remaining + amount = v.original THEN "open" ELSE "partially_applied"]

ReverseAdvanceApplication(x) ==
  LET row == application[x]
      v == advance[row.advance]
      back == Restored(row.invoice, row.amount)
  IN /\ row.document.posting = "posted"
     /\ v.remaining + row.amount <= v.original
     /\ back <= Maximum(row.invoice)
     /\ advance' = [advance EXCEPT ![row.advance] = GiveBack(v, row.amount)]
     /\ obligation' = [obligation EXCEPT ![row.invoice].outstanding = back,
                                         ![row.invoice].status = DeriveStatus(row.invoice, back)]
     /\ application' = [application EXCEPT ![x].document = Reversed(row.document)]
     /\ UNCHANGED <<cashVars, settlement, transfer>>

-----------------------------------------------------------------------------
\* Internal transfers

CreateInternalTransfer(t, p, o) ==
  /\ transfer[t].document.workflow = "none"
  /\ transfer' = [transfer EXCEPT ![t] = [document |-> Drafted(p), order |-> o]]
  /\ UNCHANGED <<obligation, cashVars, settlement, advance, application>>

ReviseInternalTransfer(t, o) ==
  /\ Editable(transfer[t].document)
  /\ transfer' = [transfer EXCEPT ![t].order = o, ![t].document.workflow = "draft"]
  /\ UNCHANGED <<obligation, cashVars, settlement, advance, application>>

TransferWorkflow(t) ==
  /\ \E d \in WorkflowSteps(transfer[t].document, FALSE) :
       transfer' = [transfer EXCEPT ![t].document = d]
  /\ UNCHANGED <<obligation, cashVars, settlement, advance, application>>

Moved(from, to, amount) ==
  [a \in Accounts |-> IF a = from THEN cash[a] - amount
                      ELSE IF a = to THEN cash[a] + amount ELSE cash[a]]

\* Both accounts and both entries, in one transaction.
Move(t, from, to, amount, type) ==
  /\ cash[from] >= amount
  /\ cash' = Moved(from, to, amount)
  /\ entry' = Book(Book(entry, from, t, type, cash[from] - amount),
                   to, t, type, cash[to] + amount)
  /\ UNCHANGED <<obligation, settlement, advance, application>>

PostInternalTransfer(t) ==
  LET o == transfer[t].order
  IN /\ transfer[t].document.workflow = "approved"
     /\ transfer[t].document.posting = "unposted"
     /\ Move(t, o.from, o.to, o.amount, "posting")
     /\ transfer' = [transfer EXCEPT ![t].document = Posted(@)]

ReverseInternalTransfer(t) ==
  LET o == transfer[t].order
  IN /\ transfer[t].document.posting = "posted"
     /\ Move(t, o.to, o.from, o.amount, "reversal")
     /\ transfer' = [transfer EXCEPT ![t].document = Reversed(@)]

-----------------------------------------------------------------------------
SettlementDocumentNext(s) ==
  \/ \E p \in People, n \in Instructions : CreateSettlement(s, p, n) \/ ReviseSettlement(s, p, n)
  \/ SettlementWorkflow(s)
  \/ \E p \in People : PostSettlement(s, p)
  \/ ReverseSettlement(s)

ApplicationNext(x) ==
  \/ \E p \in People, s \in Settlements, i \in Invoices, amount \in AppliedAmounts :
       CreateAdvanceApplication(x, p, s, i, amount)
  \/ ApplicationWorkflow(x)
  \/ PostAdvanceApplication(x)
  \/ ReverseAdvanceApplication(x)

TransferNext(t) ==
  \/ \E p \in People, o \in TransferOrders : CreateInternalTransfer(t, p, o)
  \/ \E o \in TransferOrders : ReviseInternalTransfer(t, o)
  \/ TransferWorkflow(t)
  \/ PostInternalTransfer(t)
  \/ ReverseInternalTransfer(t)

SettlementNext ==
  \/ \E s \in Settlements : SettlementDocumentNext(s)
  \/ \E x \in Applications : ApplicationNext(x)
  \/ \E t \in Transfers : TransferNext(t)

-----------------------------------------------------------------------------
\* Properties

\* What has been taken off invoice i by postings that stand.
PaidBySettlements(i) ==
  Total([s \in Settlements |->
    IF settlement[s].document.posting = "posted"
      THEN settlement[s].instruction.cash[i] + settlement[s].instruction.discount[i] ELSE 0])
PaidByAdvances(i) ==
  Total([x \in Applications |->
    IF application[x].document.posting = "posted" /\ application[x].invoice = i
      THEN application[x].amount ELSE 0])

(***************************************************************************)
(* Every amount that is no longer outstanding is accounted for: by         *)
(* credits, by settlements that are posted and not reversed, discounts     *)
(* included, and by applied advances.  Drafts over-allocate freely; what   *)
(* is posted never does.                                                   *)
(***************************************************************************)
OutstandingIsExplained ==
  \A i \in Invoices :
    obligation[i].outstanding + PaidBySettlements(i) + PaidByAdvances(i) = Maximum(i)

(***************************************************************************)
(* The status tells whether something has been paid: a reversal, partial   *)
(* or the last, leaves neither an untouched obligation that looks paid nor *)
(* one in payment that could be put on hold, disputed or exported.         *)
(***************************************************************************)
StatusTellsWhatIsPaid ==
  \A i \in Invoices :
    obligation[i].status \in {"partially_settled", "settled"}
      <=> PaidBySettlements(i) + PaidByAdvances(i) > 0

(***************************************************************************)
(* An advance is money paid ahead: what remains and what is applied are    *)
(* what the settlement overpaid, applications that stand add up to what is *)
(* applied, and no settlement is reversed under an application.            *)
(***************************************************************************)
AdvancesAreConserved ==
  \A s \in Settlements :
    LET v == advance[s]
    IN /\ v.remaining + v.applied = v.original
       /\ v.applied = Total([x \in Applications |->
            IF application[x].document.posting = "posted" /\ application[x].advance = s
              THEN application[x].amount ELSE 0])
       /\ v.applied > 0 => settlement[s].document.posting = "posted"
=============================================================================
