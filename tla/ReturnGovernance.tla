--------------------------- MODULE ReturnGovernance ---------------------------
(***************************************************************************)
(* The governance of returns: requests to return goods of a posted         *)
(* shipment or receipt, and the authorizations that let postings execute   *)
(* them.  The postings themselves, which move stock, are in Returns; their *)
(* table is declared here because requests are checked against it.         *)
(*                                                                         *)
(* Each action is the commit of one serializable transaction.  Row         *)
(* versions are left out as in Receiving.                                  *)
(***************************************************************************)
EXTENDS StockBalance

CONSTANTS
  SourceLines,       \* lines of shipments (customers) and receipts (suppliers)
  SourceDocument,    \* the document a source line belongs to
  ReturnType,        \* of a source line: "customer_return" or "supplier_return"
  SourceItem,        \* the item of a source line
  ReturnRequests, ReturnAuthorizations, ReturnPostings,
  MaxReturned        \* bound on the quantity of a line of a request

ASSUME ReturnAssumption ==
  /\ IsFiniteSet(SourceLines)
  /\ IsFiniteSet(ReturnRequests)
  /\ IsFiniteSet(ReturnAuthorizations)
  /\ IsFiniteSet(ReturnPostings)
  /\ ReturnType \in [SourceLines -> {"customer_return", "supplier_return"}]
  /\ \A l, k \in SourceLines :
       SourceDocument[l] = SourceDocument[k] => ReturnType[l] = ReturnType[k]
  /\ MaxReturned \in Nat
  /\ None \notin ReturnRequests \cup ReturnAuthorizations

VARIABLES
  source,         \* the posted quantity of each source line, and whether it stands
  request,        \* each return request
  authorization,  \* each return authorization
  posting         \* each return posting

governanceVars == <<source, request, authorization>>

Quantity == [SourceLines -> Nat]
Nothing == [l \in SourceLines |-> 0]
LinesIn(quantity) == {l \in SourceLines : quantity[l] > 0}

Routes == {"receive_to_quarantine", "release_quarantine_to_available",
           "return_from_available", "return_from_quarantine"}
OccupyingStatuses == {"draft", "submitted", "authorized", "partially_executed"}
RequestStatuses == OccupyingStatuses \cup {"none", "executed", "cancelled", "rejected"}
InForceStatuses == {"approved", "partially_executed"}
AuthorizationStatuses == InForceStatuses \cup {"none", "executed", "cancelled", "expired", "rejected"}

RequestRow == [quantity : Quantity, status : RequestStatuses]
AuthorizationRow ==
  [request : ReturnRequests \cup {None}, quantity : Quantity,
   route : UNION {[lines -> Routes] : lines \in SUBSET SourceLines}, status : AuthorizationStatuses,
   deadline : {"none", "pending", "past"}]

NoRequest == [quantity |-> Nothing, status |-> "none"]
NoAuthorization ==
  [request |-> None, quantity |-> Nothing, route |-> [l \in {} |-> None],
   status |-> "none", deadline |-> "none"]

\* The source documents stand and nothing has been returned of them.
GovernanceInit ==
  /\ source \in [SourceLines -> [quantity : 1..MaxReturned, posted : {TRUE}]]
  /\ request = [r \in ReturnRequests |-> NoRequest]
  /\ authorization = [a \in ReturnAuthorizations |-> NoAuthorization]

-----------------------------------------------------------------------------
\* What is asked for, allowed and done

Posted(p) == posting[p].postingStatus = "posted"
PostingsOf(a) == {p \in ReturnPostings : posting[p].authorization = a}
AuthorizationsOf(r) == {a \in ReturnAuthorizations : authorization[a].request = r}
InForce(a) == authorization[a].status \in InForceStatuses

IsRelease(a) ==
  \A l \in LinesIn(authorization[a].quantity) :
    authorization[a].route[l] = "release_quarantine_to_available"
IsReceipt(a) ==
  \A l \in LinesIn(authorization[a].quantity) :
    authorization[a].route[l] = "receive_to_quarantine"

\* What postings of a set have done on a source line.
PostedOn(postings, l) ==
  Total([p \in postings |-> IF Posted(p) THEN posting[p].quantity[l] ELSE 0])

\* Of request r on line l: received into quarantine, and released from it.
ReceivedFor(r, l) == PostedOn(UNION {PostingsOf(a) : a \in {b \in AuthorizationsOf(r) : IsReceipt(b)}}, l)
ReleasedFor(r, l) == PostedOn(UNION {PostingsOf(a) : a \in {b \in AuthorizationsOf(r) : IsRelease(b)}}, l)

(***************************************************************************)
(* What other open requests occupy of a source line, and what postings     *)
(* have executed on it.  A release counts as an execution although the     *)
(* goods it moves were counted when they were received.                    *)
(***************************************************************************)
Pending(r, l) ==
  Total([q \in ReturnRequests \ {r} |->
           IF request[q].status \in OccupyingStatuses THEN request[q].quantity[l] ELSE 0])
Executed(l) == PostedOn(ReturnPostings, l)

\* Variant: what others have asked for and not yet sent is free.
ReturnableOfUnsent(r, l) == source[l].quantity - Executed(l)

Returnable(r, l) == source[l].quantity - Pending(r, l) - Executed(l)

\* A request names lines of one posted document, within what is returnable.
RequestPlanAllows(r, quantity) ==
  /\ LinesIn(quantity) # {}
  /\ \A l, k \in LinesIn(quantity) : SourceDocument[l] = SourceDocument[k]
  /\ \A l \in LinesIn(quantity) : source[l].posted /\ quantity[l] <= Returnable(r, l)

-----------------------------------------------------------------------------
\* Requests

CreateRequest(r, quantity) ==
  /\ request[r].status = "none"
  /\ RequestPlanAllows(r, quantity)
  /\ request' = [request EXCEPT ![r] = [quantity |-> quantity, status |-> "draft"]]
  /\ UNCHANGED <<source, authorization, posting, stockVars>>

ReviseRequest(r, quantity) ==
  /\ request[r].status = "draft"
  /\ RequestPlanAllows(r, quantity)
  /\ request' = [request EXCEPT ![r].quantity = quantity]
  /\ UNCHANGED <<source, authorization, posting, stockVars>>

SubmitRequest(r) ==
  /\ request[r].status = "draft"
  /\ RequestPlanAllows(r, request[r].quantity)
  /\ request' = [request EXCEPT ![r].status = "submitted"]
  /\ UNCHANGED <<source, authorization, posting, stockVars>>

NothingInForce(r) == \A a \in AuthorizationsOf(r) : ~InForce(a)

CancelRequest(r) ==
  /\ request[r].status \in {"draft", "submitted"}
  /\ NothingInForce(r)
  /\ request' = [request EXCEPT ![r].status = "cancelled"]
  /\ UNCHANGED <<source, authorization, posting, stockVars>>

-----------------------------------------------------------------------------
\* Authorizations

Releasable(r, l) == ReceivedFor(r, l) - ReleasedFor(r, l)

(***************************************************************************)
(* An authorization allows up to the requested quantity of each line, by   *)
(* the routes of its return type.  Customer goods are released only as a   *)
(* whole authorization, and no more of them than were received and not yet *)
(* released.  What was received before is not deducted otherwise.          *)
(***************************************************************************)
AuthorizationPlanAllows(r, quantity, route) ==
  LET lines == LinesIn(quantity)
      release == \A l \in lines : route[l] = "release_quarantine_to_available"
      customer == \A l \in lines : ReturnType[l] = "customer_return"
      routes == IF ~customer THEN {"return_from_available", "return_from_quarantine"}
                ELSE IF release THEN {"release_quarantine_to_available"}
                ELSE {"receive_to_quarantine"}
  IN /\ lines # {}
     /\ NothingInForce(r)
     /\ request[r].status = "submitted" \/ (customer /\ request[r].status = "executed" /\ release)
     /\ \A l \in lines :
          /\ quantity[l] <= request[r].quantity[l]
          /\ route[l] \in routes
          /\ release => quantity[l] <= Releasable(r, l)

AuthorizeRequest(r, a, quantity, route, deadline) ==
  /\ authorization[a].status = "none"
  /\ AuthorizationPlanAllows(r, quantity, route)
  /\ authorization' = [authorization EXCEPT ![a] =
       [request |-> r, quantity |-> quantity, route |-> route,
        status |-> "approved", deadline |-> deadline]]
  /\ request' = [request EXCEPT ![r].status = "authorized"]
  /\ UNCHANGED <<source, posting, stockVars>>

RejectRequest(r, a) ==
  /\ request[r].status = "submitted"
  /\ authorization[a].status = "none"
  /\ authorization' = [authorization EXCEPT ![a].request = r, ![a].status = "rejected"]
  /\ request' = [request EXCEPT ![r].status = "rejected"]
  /\ UNCHANGED <<source, posting, stockVars>>

\* No posting was ever drafted under it, not even one cancelled since.
Unused(a) == authorization[a].status = "approved" /\ PostingsOf(a) = {}

CloseAuthorization(a, status) ==
  /\ Unused(a)
  /\ authorization' = [authorization EXCEPT ![a].status = status]
  /\ request' = [request EXCEPT ![authorization[a].request].status = "submitted"]
  /\ UNCHANGED <<source, posting, stockVars>>

CancelAuthorization(a) == CloseAuthorization(a, "cancelled")
ExpireAuthorization(a) == authorization[a].deadline = "past" /\ CloseAuthorization(a, "expired")

\* Its time runs out; nothing is written.
PassDeadline(a) ==
  /\ authorization[a].deadline = "pending"
  /\ authorization' = [authorization EXCEPT ![a].deadline = "past"]
  /\ UNCHANGED <<source, request, posting, stockVars>>

\* The shipment or receipt behind a return is reversed by its own service.
ReverseSource(document) ==
  /\ \E l \in SourceLines : SourceDocument[l] = document /\ source[l].posted
  /\ source' = [l \in SourceLines |->
       IF SourceDocument[l] = document THEN [source[l] EXCEPT !.posted = FALSE] ELSE source[l]]
  /\ UNCHANGED <<request, authorization, posting, stockVars>>

RequestQuantities == [SourceLines -> 0..MaxReturned]

GovernanceNext ==
  \/ \E r \in ReturnRequests :
       \/ \E quantity \in RequestQuantities : CreateRequest(r, quantity) \/ ReviseRequest(r, quantity)
       \/ SubmitRequest(r)
       \/ CancelRequest(r)
       \/ \E a \in ReturnAuthorizations :
            \/ \E quantity \in RequestQuantities, deadline \in {"none", "pending"} :
                 \E route \in [LinesIn(quantity) -> Routes] :
                 AuthorizeRequest(r, a, quantity, route, deadline)
            \/ RejectRequest(r, a)
  \/ \E a \in ReturnAuthorizations :
       CancelAuthorization(a) \/ ExpireAuthorization(a) \/ PassDeadline(a)
  \/ \E l \in SourceLines : ReverseSource(SourceDocument[l])
=============================================================================
