------------------------------- MODULE Returns -------------------------------
(***************************************************************************)
(* The postings that execute return authorizations: customer goods into    *)
(* quarantine, their release to stock, and goods sent back to suppliers    *)
(* from stock or from quarantine.  Each has drafts, a posting and a        *)
(* compensating reversal.                                                  *)
(*                                                                         *)
(* A quarantine balance stands beside the stock balance of the same key.   *)
(* Its lineage tells which customer receipts the goods taken from it came  *)
(* with: goods that were there before lineage was recorded go first, then  *)
(* the receipts in the order they were posted.  Lines of one posting into  *)
(* one key are kept as one layer; they are only ever reversed together.    *)
(***************************************************************************)
EXTENDS ReturnGovernance

CONSTANT OpeningQuarantine   \* goods in quarantine from before lineage was recorded

ASSUME QuarantineAssumption == OpeningQuarantine \in [BalanceKeys -> Nat]

VARIABLES
  quarantine,   \* onHandQuantity of the quarantine balance of each key
  allocation    \* active allocations: of a consumer, to a receipt and a key

quarantineVars == <<quarantine, allocation>>
returnsVars == <<stockVars, governanceVars, posting, quarantineVars>>

PostingRow ==
  [authorization : ReturnAuthorizations \cup {None}, quantity : Quantity,
   key : UNION {[lines -> BalanceKeys] : lines \in SUBSET SourceLines},
   workflowStatus : {"none", "draft", "ready", "cancelled"},
   postingStatus : {"none", "unposted", "posted", "reversed"},
   occurredAt : Nat,  \* counted for customer receipts, whose order matters
   destinationAfter : [BalanceKeys -> BalanceRow \cup {None}]]

NoPosting ==
  [authorization |-> None, quantity |-> Nothing, key |-> [l \in {} |-> None],
   workflowStatus |-> "none", postingStatus |-> "none", occurredAt |-> 0,
   destinationAfter |-> [b \in BalanceKeys |-> None]]

ReturnsTypeOK ==
  /\ StockTypeOK
  /\ source \in [SourceLines -> [quantity : Nat, posted : BOOLEAN]]
  /\ request \in [ReturnRequests -> RequestRow]
  /\ authorization \in [ReturnAuthorizations -> AuthorizationRow]
  /\ posting \in [ReturnPostings -> PostingRow]
  /\ quarantine \in [BalanceKeys -> Nat]
  /\ allocation \in [ReturnPostings -> [ReturnPostings \X BalanceKeys -> Nat]]

ReturnsInit ==
  /\ StockInit
  /\ GovernanceInit
  /\ posting = [p \in ReturnPostings |-> NoPosting]
  /\ quarantine = OpeningQuarantine
  /\ allocation = [c \in ReturnPostings |-> [q \in ReturnPostings \X BalanceKeys |-> 0]]

-----------------------------------------------------------------------------
\* What a posting moves

Kind(a) ==
  IF \E l \in LinesIn(authorization[a].quantity) : ReturnType[l] = "supplier_return"
    THEN "supplier_return_dispatch"
  ELSE IF IsRelease(a) THEN "quarantine_release" ELSE "customer_return_receipt"

\* The quantity posting p moves at key b by a route of the set.
MovedBy(p, b, routes) ==
  Total([l \in LinesIn(posting[p].quantity) |->
    IF posting[p].key[l] = b /\ authorization[posting[p].authorization].route[l] \in routes
      THEN posting[p].quantity[l] ELSE 0])

QuarantineIn(p, b) == MovedBy(p, b, {"receive_to_quarantine"})
QuarantineOut(p, b) == MovedBy(p, b, {"release_quarantine_to_available", "return_from_quarantine"})
StockIn(p, b) == MovedBy(p, b, {"release_quarantine_to_available"})

\* Variant: goods sent back leave the stock, wherever they were.
StockOutAnyRoute(p, b) == MovedBy(p, b, {"return_from_available", "return_from_quarantine"})

StockOut(p, b) == MovedBy(p, b, {"return_from_available"})

\* A release writes a movement for either side of it, on the same key.
LedgerIn(p, b) == QuarantineIn(p, b) + StockIn(p, b)
LedgerOut(p, b) == QuarantineOut(p, b) + StockOut(p, b)

-----------------------------------------------------------------------------
\* Lineage

Allocated(q, b) == Total([c \in ReturnPostings |-> allocation[c][q, b]])
LayerLeft(q, b) == IF Posted(q) THEN QuarantineIn(q, b) - Allocated(q, b) ELSE 0
Tracked(b) == Total([q \in ReturnPostings |-> LayerLeft(q, b)])

Older(q) == {p \in ReturnPostings : posting[p].occurredAt < posting[q].occurredAt}

Untracked(b) == quarantine[b] - Tracked(b)

(***************************************************************************)
(* How much of what is taken at key b is allocated to receipt q: untracked *)
(* goods cover it first, then the receipts older than q, each up to what   *)
(* is left of it.                                                          *)
(***************************************************************************)
Allocate(q, b, taken) ==
  LET due == taken - Untracked(b) - Total([p \in Older(q) |-> LayerLeft(p, b)])
  IN IF due <= 0 THEN 0 ELSE IF due < LayerLeft(q, b) THEN due ELSE LayerLeft(q, b)

\* Variant: a release is not a consumer of the lineage.
AllocationsOfDispatches(p) ==
  [layer \in ReturnPostings \X BalanceKeys |->
     Allocate(layer[1], layer[2], MovedBy(p, layer[2], {"return_from_quarantine"}))]

AllocationsOf(p) ==
  [layer \in ReturnPostings \X BalanceKeys |->
     Allocate(layer[1], layer[2], QuarantineOut(p, layer[2]))]

-----------------------------------------------------------------------------
\* Drafts

\* Variant: each draft is held against the whole authorization.
RemainingWhole(a, l) == authorization[a].quantity[l]

Remaining(a, l) == authorization[a].quantity[l] - PostedOn(PostingsOf(a), l)

(***************************************************************************)
(* The authorization must be in force, and each line within what is left   *)
(* of it, on a balance of the same item, all in one warehouse.             *)
(***************************************************************************)
DraftPlanAllows(a, quantity, key) ==
  /\ InForce(a) /\ authorization[a].deadline # "past"
  /\ LinesIn(quantity) # {}
  /\ \A l \in LinesIn(quantity) :
       quantity[l] <= Remaining(a, l) /\ KeyItem[key[l]] = SourceItem[l]
  /\ \A l, k \in LinesIn(quantity) : KeyWarehouse[key[l]] = KeyWarehouse[key[k]]

CreateReturnDraft(kind, p, a, quantity, key) ==
  /\ posting[p].postingStatus = "none"
  /\ Kind(a) = kind
  /\ DraftPlanAllows(a, quantity, key)
  /\ posting' = [posting EXCEPT ![p] =
       [NoPosting EXCEPT !.authorization = a, !.quantity = quantity, !.key = key,
                         !.workflowStatus = "draft", !.postingStatus = "unposted"]]
  /\ UNCHANGED <<governanceVars, stockVars, quarantineVars>>

OpenReturn(p, kind, statuses) ==
  /\ posting[p].postingStatus = "unposted"
  /\ posting[p].workflowStatus \in statuses
  /\ Kind(posting[p].authorization) = kind

ReviseReturnDraft(kind, p, quantity, key) ==
  /\ OpenReturn(p, kind, {"draft"})
  /\ DraftPlanAllows(posting[p].authorization, quantity, key)
  /\ posting' = [posting EXCEPT ![p].quantity = quantity, ![p].key = key]
  /\ UNCHANGED <<governanceVars, stockVars, quarantineVars>>

\* A dispatch takes only available stock, of a row that adds up.
StockCovers(p, b) ==
  StockOut(p, b) > 0 =>
    /\ Reconciles(b)
    /\ balance[b].available >= StockOut(p, b)
    /\ balance[b].onHand - StockOut(p, b) >= balance[b].reserved

ReturnPlanAllows(p) ==
  /\ DraftPlanAllows(posting[p].authorization, posting[p].quantity, posting[p].key)
  /\ \A b \in BalanceKeys : quarantine[b] >= QuarantineOut(p, b) /\ StockCovers(p, b)

ReadyReturn(kind, p) ==
  /\ OpenReturn(p, kind, {"draft"})
  /\ ReturnPlanAllows(p)
  /\ posting' = [posting EXCEPT ![p].workflowStatus = "ready"]
  /\ UNCHANGED <<governanceVars, stockVars, quarantineVars>>

CancelReturn(kind, p) ==
  /\ OpenReturn(p, kind, {"draft", "ready"})
  /\ posting' = [posting EXCEPT ![p].workflowStatus = "cancelled"]
  /\ UNCHANGED <<governanceVars, stockVars, quarantineVars>>

-----------------------------------------------------------------------------
\* Posting and reversal

\* What a posting writes (sign 1), or its reversal (sign -1).
MoveGoods(p, sign) ==
  /\ quarantine' = [b \in BalanceKeys |->
       quarantine[b] + sign * (QuarantineIn(p, b) - QuarantineOut(p, b))]
  /\ balance' = [b \in BalanceKeys |->
       IF StockIn(p, b) + StockOut(p, b) = 0 THEN balance[b]
       ELSE [balance[b] EXCEPT !.onHand = @ + sign * (StockIn(p, b) - StockOut(p, b)),
                               !.available = @ + sign * (StockIn(p, b) - StockOut(p, b)),
                               !.version = @ + 1]]
  /\ movement' = [b \in BalanceKeys |->
       LET in == IF sign = 1 THEN LedgerIn(p, b) ELSE LedgerOut(p, b)
           out == IF sign = 1 THEN LedgerOut(p, b) ELSE LedgerIn(p, b)
       IN [movement[b] EXCEPT !.quantityIn = @ + in, !.quantityOut = @ + out]]

AuthorizationStatus(a, executed) ==
  IF executed = 0 THEN "approved"
  ELSE IF executed >= Total(authorization[a].quantity) THEN "executed" ELSE "partially_executed"

RequestStatus(status) == IF status = "approved" THEN "authorized" ELSE status

\* The authorization and its request take the status of what is executed.
WriteStatuses(a, executed) ==
  LET status == AuthorizationStatus(a, executed)
  IN /\ authorization' = [authorization EXCEPT ![a].status = status]
     /\ request' = [request EXCEPT ![authorization[a].request].status = RequestStatus(status)]
     /\ UNCHANGED source

ExecutedOf(postings) == Total([l \in SourceLines |-> PostedOn(postings, l)])
NextOccurrence == 1 + Cardinality({q \in ReturnPostings : posting[q].occurredAt > 0})

PostReturn(kind, p) ==
  LET a == posting[p].authorization
  IN /\ OpenReturn(p, kind, {"ready"})
     /\ ReturnPlanAllows(p)
     /\ MoveGoods(p, 1)
     /\ allocation' = [allocation EXCEPT ![p] = AllocationsOf(p)]
     /\ posting' = [posting EXCEPT
          ![p].postingStatus = "posted",
          ![p].occurredAt = IF kind = "customer_return_receipt" THEN NextOccurrence ELSE 0,
          ![p].destinationAfter = [b \in BalanceKeys |-> IF StockIn(p, b) > 0 THEN balance'[b] ELSE None]]
     /\ WriteStatuses(a, ExecutedOf(PostingsOf(a)) + Total(posting[p].quantity))

\* Nothing taken from quarantine came with receipt p, and its goods are there.
ReceiptUntouched(p) ==
  \A b \in BalanceKeys :
    /\ quarantine[b] >= QuarantineIn(p, b)
    /\ \A c \in ReturnPostings : allocation[c][p, b] = 0

\* Variant: the goods of a release are taken back from whatever stock there is.
DestinationHolds(p) ==
  \A b \in BalanceKeys : balance[b].onHand >= StockIn(p, b)

\* The stock a release went to is exactly as the release left it.
DestinationUntouched(p) ==
  \A b \in {k \in BalanceKeys : StockIn(p, k) > 0} :
    /\ balance[b] = posting[p].destinationAfter[b]
    /\ balance[b].available >= StockIn(p, b)
    /\ balance[b].onHand - StockIn(p, b) >= balance[b].reserved

\* The unique index lets a request have one active authorization.
Alone(a) == \A other \in AuthorizationsOf(authorization[a].request) \ {a} : ~InForce(other)

ReverseReturn(kind, p) ==
  LET a == posting[p].authorization
  IN /\ Posted(p) /\ Kind(a) = kind
     /\ kind = "customer_return_receipt" => ReceiptUntouched(p)
     /\ kind = "quarantine_release" => DestinationUntouched(p)
     /\ \A b \in BalanceKeys : StockOut(p, b) > 0 => Reconciles(b)
     /\ Alone(a)
     /\ MoveGoods(p, -1)
     /\ allocation' = [allocation EXCEPT ![p] = [layer \in ReturnPostings \X BalanceKeys |-> 0]]
     /\ posting' = [posting EXCEPT ![p].postingStatus = "reversed"]
     /\ WriteStatuses(a, ExecutedOf(PostingsOf(a) \ {p}))

-----------------------------------------------------------------------------
\* The commands of the three services

CustomerReturn == "customer_return_receipt"
Release == "quarantine_release"
SupplierReturn == "supplier_return_dispatch"

CreateCustomerReturnDraft(p, a, quantity, key) == CreateReturnDraft(CustomerReturn, p, a, quantity, key)
ReviseCustomerReturnDraft(p, quantity, key) == ReviseReturnDraft(CustomerReturn, p, quantity, key)
ReadyCustomerReturn(p) == ReadyReturn(CustomerReturn, p)
CancelCustomerReturn(p) == CancelReturn(CustomerReturn, p)
PostCustomerReturn(p) == PostReturn(CustomerReturn, p)
ReverseCustomerReturn(p) == ReverseReturn(CustomerReturn, p)

CreateReleaseDraft(p, a, quantity, key) == CreateReturnDraft(Release, p, a, quantity, key)
ReviseReleaseDraft(p, quantity, key) == ReviseReturnDraft(Release, p, quantity, key)
ReadyRelease(p) == ReadyReturn(Release, p)
CancelRelease(p) == CancelReturn(Release, p)
PostRelease(p) == PostReturn(Release, p)
ReverseRelease(p) == ReverseReturn(Release, p)

CreateSupplierReturnDraft(p, a, quantity, key) == CreateReturnDraft(SupplierReturn, p, a, quantity, key)
ReviseSupplierReturnDraft(p, quantity, key) == ReviseReturnDraft(SupplierReturn, p, quantity, key)
ReadySupplierReturn(p) == ReadyReturn(SupplierReturn, p)
CancelSupplierReturn(p) == CancelReturn(SupplierReturn, p)
PostSupplierReturn(p) == PostReturn(SupplierReturn, p)
ReverseSupplierReturn(p) == ReverseReturn(SupplierReturn, p)

DraftNext(p, quantity, key) ==
  \/ \E a \in ReturnAuthorizations :
       \/ CreateCustomerReturnDraft(p, a, quantity, key)
       \/ CreateReleaseDraft(p, a, quantity, key)
       \/ CreateSupplierReturnDraft(p, a, quantity, key)
  \/ ReviseCustomerReturnDraft(p, quantity, key)
  \/ ReviseReleaseDraft(p, quantity, key)
  \/ ReviseSupplierReturnDraft(p, quantity, key)

PostingNext(p) ==
  \/ \E quantity \in RequestQuantities : \E key \in [LinesIn(quantity) -> BalanceKeys] :
       DraftNext(p, quantity, key)
  \/ ReadyCustomerReturn(p) \/ CancelCustomerReturn(p)
  \/ PostCustomerReturn(p) \/ ReverseCustomerReturn(p)
  \/ ReadyRelease(p) \/ CancelRelease(p) \/ PostRelease(p) \/ ReverseRelease(p)
  \/ ReadySupplierReturn(p) \/ CancelSupplierReturn(p)
  \/ PostSupplierReturn(p) \/ ReverseSupplierReturn(p)

ReturnsNext ==
  \/ GovernanceNext /\ UNCHANGED quarantineVars
  \/ \E p \in ReturnPostings : PostingNext(p)

ReturnsSpec == ReturnsInit /\ [][ReturnsNext]_returnsVars

-----------------------------------------------------------------------------
\* Properties

\* The sum of a quantity over the postings that stand.
PostedTotal(quantity(_)) == Total([p \in ReturnPostings |-> IF Posted(p) THEN quantity(p) ELSE 0])

(***************************************************************************)
(* Goods are neither made nor lost: what is in stock and in quarantine     *)
(* together is what there was, what customers sent, less what suppliers    *)
(* got; a release changes nothing in sum.                                  *)
(***************************************************************************)
PostedOfKind(kind) ==
  PostedTotal(LAMBDA p :
    IF Kind(posting[p].authorization) = kind THEN Total(posting[p].quantity) ELSE 0)

GoodsAreConserved ==
  Total([b \in BalanceKeys |-> balance[b].onHand]) + Total(quarantine) =
    Total(OpeningStock) + Total(OpeningQuarantine)
      + PostedOfKind("customer_return_receipt") - PostedOfKind("supplier_return_dispatch")

(***************************************************************************)
(* The lineage never claims more than there is: no receipt is allocated    *)
(* beyond its quantity, and the goods left of all receipts are in          *)
(* quarantine, so the integrity errors of the allocation are never raised. *)
(***************************************************************************)
LineageFits ==
  \A b \in BalanceKeys :
    /\ \A q \in ReturnPostings : LayerLeft(q, b) >= 0
    /\ Tracked(b) <= quarantine[b]

(***************************************************************************)
(* Postings drafted side by side never execute more of a line than its     *)
(* authorization allows.                                                   *)
(***************************************************************************)
PostedWithinAuthorized ==
  \A a \in ReturnAuthorizations, l \in SourceLines :
    PostedOn(PostingsOf(a), l) <= authorization[a].quantity[l]

(***************************************************************************)
(* Goods go back to a supplier only once: of every line of a receipt no    *)
(* more is dispatched than it brought, over all requests ever made.        *)
(***************************************************************************)
SentBackWithinReceipt ==
  \A l \in SourceLines :
    ReturnType[l] = "supplier_return" => Executed(l) <= source[l].quantity
=============================================================================
