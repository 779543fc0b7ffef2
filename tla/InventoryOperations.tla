------------------------- MODULE InventoryOperations -------------------------
(***************************************************************************)
(* Transfers between places, cycle counts and adjustments of stock.        *)
(*                                                                         *)
(* Each action is the commit of one serializable transaction; a command    *)
(* that fails changes nothing and is no step.  Left out, as in Outbound:   *)
(* document versions, master data, reasons and notes.  The movements a     *)
(* reversal looks for are those of the posting it reverses; they exist     *)
(* exactly while the document is posted.                                   *)
(***************************************************************************)
EXTENDS StockBalance, Sequences

CONSTANTS
  Transfers, Adjustments, Counts,   \* the identifiers a run may hand out
  MaxOperationLines,                \* bound on the lines of a transfer or adjustment
  MaxMoved,                         \* bound on the quantity of a line
  MaxCounted                        \* bound on a counted quantity

ASSUME OperationsAssumption ==
  /\ IsFiniteSet(Transfers) /\ IsFiniteSet(Adjustments) /\ IsFiniteSet(Counts)
  /\ MaxOperationLines \in Nat /\ MaxMoved \in Nat /\ MaxCounted \in Nat
  /\ None \notin Nat

VARIABLES transfer, adjustment, count

operationVars == <<transfer, adjustment, count>>

TransferLine == {l \in [from : BalanceKeys, to : BalanceKeys, quantity : 1..MaxMoved] :
                   l.from # l.to /\ KeyItem[l.from] = KeyItem[l.to]}
AdjustmentLine == [key : BalanceKeys, delta : (-MaxMoved..MaxMoved) \ {0}]
LinesOfLength(S) == UNION {[1..n -> S] : n \in 1..MaxOperationLines}

WorkflowStates == {"none", "draft", "ready", "cancelled"}
PostingStates == {"none", "unposted", "posted", "reversed"}
CountStates == {"none", "draft", "in_progress", "submitted", "reviewed", "posted", "cancelled"}

NoOperation == [lines |-> << >>, workflowStatus |-> "none", postingStatus |-> "none"]
NoCount == [recorded |-> << >>, counted |-> << >>, workflowStatus |-> "none"]

OperationsTypeOK ==
  /\ StockTypeOK
  /\ transfer \in [Transfers -> [lines : Seq(TransferLine),
       workflowStatus : WorkflowStates, postingStatus : PostingStates]]
  /\ adjustment \in [Adjustments -> [lines : Seq(AdjustmentLine),
       workflowStatus : WorkflowStates, postingStatus : PostingStates]]
  /\ \A c \in Counts :
       /\ count[c].workflowStatus \in CountStates
       /\ DOMAIN count[c].recorded \subseteq BalanceKeys
       /\ count[c].counted \in [DOMAIN count[c].recorded -> 0..MaxCounted \cup {None}]

OperationsInit ==
  /\ StockInit
  /\ transfer = [t \in Transfers |-> NoOperation]
  /\ adjustment = [a \in Adjustments |-> NoOperation]
  /\ count = [c \in Counts |-> NoCount]

-----------------------------------------------------------------------------
\* The effect of a document on balances, entry by entry

\* What the entries bring to key b, and what they take from it.
TotalIn(entries, b) == Total([e \in DOMAIN entries |->
  IF entries[e].key = b /\ entries[e].delta > 0 THEN entries[e].delta ELSE 0])
TotalOut(entries, b) == Total([e \in DOMAIN entries |->
  IF entries[e].key = b /\ entries[e].delta < 0 THEN -entries[e].delta ELSE 0])

NetOf(entries, b) == TotalIn(entries, b) - TotalOut(entries, b)
Touched(entries) == {entries[e].key : e \in DOMAIN entries}
Opposite(entries) == [e \in DOMAIN entries |-> [entries[e] EXCEPT !.delta = -@]]

\* A transfer line is an entry at each end.
TransferEntries(lines) ==
  [e \in (DOMAIN lines) \X {"source", "destination"} |->
     IF e[2] = "source" THEN [key |-> lines[e[1]].from, delta |-> -lines[e[1]].quantity]
     ELSE [key |-> lines[e[1]].to, delta |-> lines[e[1]].quantity]]

(***************************************************************************)
(* All that is taken from a balance must be on hand and available, however *)
(* much the same document brings there; what is left covers the reserved.  *)
(***************************************************************************)
ImpactsAllow(entries) ==
  \A b \in Touched(entries) :
    /\ TotalOut(entries, b) > 0 =>
         TotalOut(entries, b) <= balance[b].onHand /\ TotalOut(entries, b) <= balance[b].available
    /\ balance[b].onHand + NetOf(entries, b) >= balance[b].reserved

WriteOperationBalances(entries) ==
  balance' = [b \in BalanceKeys |->
    IF b \notin Touched(entries) THEN balance[b]
    ELSE LET after == balance[b].onHand + NetOf(entries, b)
         IN  [onHand |-> after, reserved |-> balance[b].reserved,
              available |-> after - balance[b].reserved, version |-> balance[b].version + 1]]

\* The movements of a transfer.
WriteTransferMovements(entries) ==
  movement' = [b \in BalanceKeys |-> [movement[b] EXCEPT
    !.quantityIn = @ + TotalIn(entries, b), !.quantityOut = @ + TotalOut(entries, b)]]

(***************************************************************************)
(* The movements of an adjustment or a count variance carry the quantity   *)
(* twice: as a quantity in or out, and as an adjustment quantity.          *)
(***************************************************************************)
WriteAdjustmentMovements(entries) ==
  movement' = [b \in BalanceKeys |-> [movement[b] EXCEPT
    !.quantityIn = @ + TotalIn(entries, b), !.quantityOut = @ + TotalOut(entries, b),
    !.adjustmentQty = @ + NetOf(entries, b)]]

-----------------------------------------------------------------------------
\* Stock transfers

\* A transfer or adjustment that is in one of these states and not posted.
OpenIn(document, states) ==
  document.workflowStatus \in states /\ document.postingStatus = "unposted"

CreateTransfer(t, lines) ==
  /\ transfer[t].workflowStatus = "none"
  /\ transfer' = [transfer EXCEPT ![t] =
       [lines |-> lines, workflowStatus |-> "draft", postingStatus |-> "unposted"]]
  /\ UNCHANGED <<adjustment, count, stockVars>>

ReviseTransfer(t, lines) ==
  /\ OpenIn(transfer[t], {"draft"})
  /\ transfer' = [transfer EXCEPT ![t].lines = lines]
  /\ UNCHANGED <<adjustment, count, stockVars>>

ReadyTransfer(t) ==
  /\ transfer[t].workflowStatus = "draft"
  /\ transfer' = [transfer EXCEPT ![t].workflowStatus = "ready"]
  /\ UNCHANGED <<adjustment, count, stockVars>>

CancelTransfer(t) ==
  /\ OpenIn(transfer[t], {"draft", "ready"})
  /\ transfer' = [transfer EXCEPT ![t].workflowStatus = "cancelled"]
  /\ UNCHANGED <<adjustment, count, stockVars>>

MoveTransfer(t, entries, status) ==
  /\ ImpactsAllow(entries)
  /\ transfer' = [transfer EXCEPT ![t].postingStatus = status]
  /\ WriteOperationBalances(entries)
  /\ WriteTransferMovements(entries)
  /\ UNCHANGED <<adjustment, count>>

PostTransfer(t) ==
  /\ OpenIn(transfer[t], {"ready"})
  /\ MoveTransfer(t, TransferEntries(transfer[t].lines), "posted")

ReverseTransfer(t) ==
  /\ transfer[t].postingStatus = "posted"
  /\ MoveTransfer(t, Opposite(TransferEntries(transfer[t].lines)), "reversed")

-----------------------------------------------------------------------------
\* Inventory adjustments

CreateAdjustment(a, lines) ==
  /\ adjustment[a].workflowStatus = "none"
  /\ adjustment' = [adjustment EXCEPT ![a] =
       [lines |-> lines, workflowStatus |-> "draft", postingStatus |-> "unposted"]]
  /\ UNCHANGED <<transfer, count, stockVars>>

ReviseAdjustment(a, lines) ==
  /\ adjustment[a].workflowStatus = "draft"
  /\ adjustment' = [adjustment EXCEPT ![a].lines = lines]
  /\ UNCHANGED <<transfer, count, stockVars>>

ReadyAdjustment(a) ==
  /\ adjustment[a].workflowStatus = "draft"
  /\ adjustment' = [adjustment EXCEPT ![a].workflowStatus = "ready"]
  /\ UNCHANGED <<transfer, count, stockVars>>

CancelAdjustment(a) ==
  /\ OpenIn(adjustment[a], {"draft", "ready"})
  /\ adjustment' = [adjustment EXCEPT ![a].workflowStatus = "cancelled"]
  /\ UNCHANGED <<transfer, count, stockVars>>

\* Lines on one balance that cancel out are refused.
Adjust(a, entries, status) ==
  /\ \A b \in Touched(entries) : NetOf(entries, b) # 0
  /\ ImpactsAllow(entries)
  /\ adjustment' = [adjustment EXCEPT ![a].postingStatus = status]
  /\ WriteOperationBalances(entries)
  /\ WriteAdjustmentMovements(entries)
  /\ UNCHANGED <<transfer, count>>

PostAdjustment(a) ==
  /\ OpenIn(adjustment[a], {"ready"})
  /\ Adjust(a, adjustment[a].lines, "posted")

ReverseAdjustment(a) ==
  /\ adjustment[a].postingStatus = "posted"
  /\ Adjust(a, Opposite(adjustment[a].lines), "reversed")

-----------------------------------------------------------------------------
\* Cycle counts

\* A count may take any balances of one warehouse.
CountableSets ==
  {bs \in (SUBSET BalanceKeys) \ {{}} : \A a, b \in bs : KeyWarehouse[a] = KeyWarehouse[b]}

\* The snapshot of the balances.
CreateCount(c, bs) ==
  /\ count[c].workflowStatus = "none"
  /\ count' = [count EXCEPT ![c] =
       [recorded |-> [b \in bs |-> balance[b]], counted |-> [b \in bs |-> None],
        workflowStatus |-> "draft"]]
  /\ UNCHANGED <<transfer, adjustment, stockVars>>

CountOpen(c) == count[c].workflowStatus \in {"draft", "in_progress"}

\* The quantities counted for some of the lines are written.
ReviseCount(c, quantities) ==
  /\ CountOpen(c)
  /\ count' = [count EXCEPT ![c].counted = [b \in DOMAIN @ |->
                 IF b \in DOMAIN quantities THEN quantities[b] ELSE @[b]],
               ![c].workflowStatus = "in_progress"]
  /\ UNCHANGED <<transfer, adjustment, stockVars>>

SubmitCount(c) ==
  /\ CountOpen(c)
  /\ \A b \in DOMAIN count[c].counted : count[c].counted[b] # None
  /\ count' = [count EXCEPT ![c].workflowStatus = "submitted"]
  /\ UNCHANGED <<transfer, adjustment, stockVars>>

ReviewCount(c) ==
  /\ count[c].workflowStatus = "submitted"
  /\ count' = [count EXCEPT ![c].workflowStatus = "reviewed"]
  /\ UNCHANGED <<transfer, adjustment, stockVars>>

CancelCount(c) ==
  /\ CountOpen(c) \/ count[c].workflowStatus \in {"submitted", "reviewed"}
  /\ count' = [count EXCEPT ![c].workflowStatus = "cancelled"]
  /\ UNCHANGED <<transfer, adjustment, stockVars>>

\* What posting a count moves: the variance of each of its balances.
CountEntries(c) == [b \in DOMAIN count[c].recorded |->
  [key |-> b, delta |-> count[c].counted[b] - count[c].recorded[b].onHand]]

\* Variant: only the quantities are compared.
SnapshotQuantitiesHold(c) ==
  \A b \in DOMAIN count[c].recorded :
    balance[b].onHand = count[c].recorded[b].onHand /\ balance[b].reserved = count[c].recorded[b].reserved

\* Nothing has happened to the counted balances since the snapshot.
SnapshotHolds(c) == \A b \in DOMAIN count[c].recorded : balance[b] = count[c].recorded[b]

PostCount(c) ==
  /\ count[c].workflowStatus = "reviewed"
  /\ SnapshotHolds(c)
  /\ \A b \in DOMAIN count[c].recorded :
       count[c].counted[b] # None /\ count[c].counted[b] >= balance[b].reserved
  /\ count' = [count EXCEPT ![c].workflowStatus = "posted"]
  /\ WriteOperationBalances(CountEntries(c))
  /\ WriteAdjustmentMovements(CountEntries(c))
  /\ UNCHANGED <<transfer, adjustment>>

-----------------------------------------------------------------------------
OperationsNext ==
  \/ \E t \in Transfers :
       \/ \E lines \in LinesOfLength(TransferLine) : CreateTransfer(t, lines) \/ ReviseTransfer(t, lines)
       \/ ReadyTransfer(t) \/ CancelTransfer(t) \/ PostTransfer(t) \/ ReverseTransfer(t)
  \/ \E a \in Adjustments :
       \/ \E lines \in LinesOfLength(AdjustmentLine) :
            CreateAdjustment(a, lines) \/ ReviseAdjustment(a, lines)
       \/ ReadyAdjustment(a) \/ CancelAdjustment(a) \/ PostAdjustment(a) \/ ReverseAdjustment(a)
  \/ \E c \in Counts :
       \/ \E bs \in CountableSets : CreateCount(c, bs)
       \/ \E bs \in SUBSET DOMAIN count[c].recorded :
            \E quantities \in [bs -> 0..MaxCounted] : ReviseCount(c, quantities)
       \/ SubmitCount(c) \/ ReviewCount(c) \/ CancelCount(c) \/ PostCount(c)

OperationsSpec == OperationsInit /\ [][OperationsNext]_<<stockVars, operationVars>>

-----------------------------------------------------------------------------
\* Properties

\* What the posted documents of one kind bring to key b, and what they take from it.
PostedIn(documents, entriesOf(_), b) == Total([d \in DOMAIN documents |->
  IF documents[d].postingStatus = "posted" THEN TotalIn(entriesOf(documents[d].lines), b) ELSE 0])
PostedOut(documents, entriesOf(_), b) == Total([d \in DOMAIN documents |->
  IF documents[d].postingStatus = "posted" THEN TotalOut(entriesOf(documents[d].lines), b) ELSE 0])
AsEntries(lines) == lines
NetPosted(documents, entriesOf(_), b) ==
  PostedIn(documents, entriesOf, b) - PostedOut(documents, entriesOf, b)

CountedIn(b) == Total([c \in Counts |->
  IF count[c].workflowStatus = "posted" THEN TotalIn(CountEntries(c), b) ELSE 0])
CountedOut(b) == Total([c \in Counts |->
  IF count[c].workflowStatus = "posted" THEN TotalOut(CountEntries(c), b) ELSE 0])

\* The effect of all that stands posted on key b.
OperationsNet(b) ==
  NetPosted(transfer, TransferEntries, b) + NetPosted(adjustment, AsEntries, b)
    + CountedIn(b) - CountedOut(b)

(***************************************************************************)
(* The version of a balance names one content of it: a count whose balance *)
(* still has the recorded version has recorded what is there.              *)
(***************************************************************************)
VersionNamesContent ==
  \A c \in Counts : \A b \in DOMAIN count[c].recorded :
    balance[b].version = count[c].recorded[b].version => balance[b] = count[c].recorded[b]
=============================================================================
