---------------------------- MODULE FinanceFlow ----------------------------
(***************************************************************************)
(* Invoices, credits, disputes and holds together with the cashbook.  They *)
(* are separate services that meet in the obligation rows: a payable can   *)
(* be held, exported or credited while a settlement of it is being         *)
(* approved, a receivable disputed between the draft of a receipt and its  *)
(* posting, and a credit approved between a payment and its reversal.      *)
(***************************************************************************)
EXTENDS Payables, Receivables, Settlement

payablesRest == <<invoice, exception, memo, received, returned>>
receivablesRest == <<customerInvoice, note, pastDue, referenced, documentVars>>
settlementRest == <<cashVars, settlement, advance, application, transfer>>
flowVars == <<obligation, payablesRest, receivablesRest, settlementRest>>

FlowInit ==
  /\ obligation = [i \in Invoices |-> NoObligation]
  /\ PayablesRest /\ ReceivablesRest /\ SettlementRest

PayablesStep == PayablesNext /\ UNCHANGED <<receivablesRest, settlementRest>>
ReceivablesStep == ReceivablesNext /\ UNCHANGED <<payablesRest, settlementRest>>
SettlementStep == SettlementNext /\ UNCHANGED <<payablesRest, receivablesRest>>

FlowNext == PayablesStep \/ ReceivablesStep \/ SettlementStep

FlowSpec == FlowInit /\ [][FlowNext]_flowVars

-----------------------------------------------------------------------------
\* Properties

(***************************************************************************)
(* "Held payables and disputed receivables cannot be settled": a hold or a *)
(* dispute stops settlements and advances that were approved before it,    *)
(* and it finds an obligation of which nothing has been paid.              *)
(***************************************************************************)
BlockedObligationsAreNotPaid ==
  [][\A i \in Invoices :
       obligation[i].status \in {"held", "disputed"} =>
         /\ PaidBySettlements(i) + PaidByAdvances(i) = 0
         /\ PaidBySettlements(i)' + PaidByAdvances(i)' = 0]_flowVars

(***************************************************************************)
(* What was paid can be taken back: whatever credits, holds and disputes   *)
(* come after a posting, restoring its amount exceeds neither the          *)
(* obligation nor the advance, so that only a lack of cash, or an advance  *)
(* in use, ever stops a reversal.                                          *)
(***************************************************************************)
PaymentsCanBeTakenBack ==
  /\ \A s \in Settlements : settlement[s].document.posting = "posted" =>
       \A i \in Invoices :
         obligation[i].outstanding + settlement[s].instruction.cash[i]
           + settlement[s].instruction.discount[i] <= obligation[i].original - obligation[i].credit
  /\ \A x \in Applications : application[x].document.posting = "posted" =>
       advance[application[x].advance].remaining + application[x].amount
         <= advance[application[x].advance].original
=============================================================================
