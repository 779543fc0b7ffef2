---------------------------- MODULE ReturnsProofs ----------------------------
(***************************************************************************)
(* Theorems about Returns that rest on what StockFlowProofs shows of them: *)
(* for every set of source lines, requests, authorizations, postings and   *)
(* balance keys, whatever was in stock and in quarantine before.           *)
(***************************************************************************)
EXTENDS StockFlowProofs, WellFoundedInduction

-----------------------------------------------------------------------------
\* Goods are conserved

\* A posting has a key for each of its lines.
KeysGiven ==
  \A p \in ReturnPostings : posting[p].postingStatus # "none" =>
    posting[p].key \in [LinesIn(posting[p].quantity) -> BalanceKeys]

\* The units of a posting, if it is of the kind.
AmountOf(kind) ==
  [p \in ReturnPostings |-> IF Kind(posting[p].authorization) = kind THEN Total(posting[p].quantity) ELSE 0]

GoodsNet == NetOver(ReturnPostings, PostedReturns, AmountOf(CustomerReturn), AmountOf(SupplierReturn))

\* What is in stock and in quarantine at a key.
GoodsAt == [b \in BalanceKeys |-> balance[b].onHand + quarantine[b]]

\* What a posting moves by any route, over all keys, is what its lines hold.
LEMMA MovedByKeys ==
  ASSUME ReturnsInv, KeysGiven, NEW p \in ReturnPostings, posting[p].postingStatus # "none", NEW routes,
         \A l \in LinesIn(posting[p].quantity) : authorization[posting[p].authorization].route[l] \in routes
  PROVE  Total([b \in BalanceKeys |-> MovedBy(p, b, routes)]) = Total(posting[p].quantity)
<1> DEFINE lines == LinesIn(posting[p].quantity)
           q == [l \in lines |-> posting[p].quantity[l]]
           key == posting[p].key
<1>1. /\ lines \in SUBSET SourceLines
      /\ posting[p].quantity \in [SourceLines -> Nat]
      /\ \A l \in SourceLines \ lines : posting[p].quantity[l] = 0
  BY DEF ReturnsInv, PostingRow, Quantity, LinesIn
<1>2. q \in [lines -> Nat] /\ \A l \in lines : posting[p].quantity[l] = q[l]
  BY <1>1
<1>3. \A l \in lines : key[l] \in BalanceKeys
  BY DEF KeysGiven
<1>4. \A b : MovedBy(p, b, routes) = Total(Share(key, b, q))
  <2>1. ASSUME NEW b
        PROVE  [l \in lines |->
                  IF posting[p].key[l] = b /\ authorization[posting[p].authorization].route[l] \in routes
                  THEN posting[p].quantity[l] ELSE 0] = Share(key, b, q)
    BY DEF Share
  <2>2. QED
    BY <2>1 DEF MovedBy
<1> HIDE DEF lines, q, key
<1>5. IsFiniteSet(lines) /\ IsFiniteSet(BalanceKeys)
  BY <1>1, FS_Subset, ReturnAssumption, StockAssumption
<1>6. Total([b \in BalanceKeys |-> Total(Share(key, b, q))]) = Total(q)
  BY <1>2, <1>3, <1>5, TotalByShares
<1>7. Total(posting[p].quantity) = Total(q)
  BY <1>1, <1>2, TotalExtend
<1>8. [b \in BalanceKeys |-> MovedBy(p, b, routes)] = [b \in BalanceKeys |-> Total(Share(key, b, q))]
  BY <1>4
<1>9. QED
  BY <1>6, <1>7, <1>8

\* What a posting moves by two disjoint sets of routes.
LEMMA MovedByEither ==
  ASSUME ReturnsInv, NEW p \in ReturnPostings, NEW b, NEW some, NEW others, some \cap others = {}
  PROVE  MovedBy(p, b, some \cup others) = MovedBy(p, b, some) + MovedBy(p, b, others)
<1> DEFINE lines == LinesIn(posting[p].quantity)
           q(routes) == [l \in lines |->
             IF posting[p].key[l] = b /\ authorization[posting[p].authorization].route[l] \in routes
             THEN posting[p].quantity[l] ELSE 0]
<1>1. lines \in SUBSET SourceLines /\ \A l \in lines : posting[p].quantity[l] \in Nat
  BY DEF ReturnsInv, PostingRow, Quantity, LinesIn
<1>2. /\ q(some \cup others) \in [lines -> Nat] /\ q(some) \in [lines -> Nat] /\ q(others) \in [lines -> Nat]
      /\ \A l \in lines : q(some \cup others)[l] = q(some)[l] + q(others)[l]
  BY <1>1
<1>3. \A routes : MovedBy(p, b, routes) = Total(q(routes))
  BY DEF MovedBy
<1> HIDE DEF lines, q
<1>4. IsFiniteSet(lines)
  BY <1>1, FS_Subset, ReturnAssumption
<1>5. Total(q(some \cup others)) = Total(q(some)) + Total(q(others))
  BY <1>2, <1>4, TotalAdd
<1>6. QED
  BY <1>3, <1>5

\* By each kind, goods come to a key, change sides there, or go.
LEMMA GoodsOfKind ==
  ASSUME ReturnsInv, NEW p \in ReturnPostings, posting[p].postingStatus # "none"
  PROVE  LET kind == Kind(posting[p].authorization)
             moved(b) == MovedBy(p, b, RoutesOf(kind))
         IN  /\ \A l \in LinesIn(posting[p].quantity) :
                  authorization[posting[p].authorization].route[l] \in RoutesOf(kind)
             /\ kind \in {CustomerReturn, Release, SupplierReturn}
             /\ kind = CustomerReturn => \A b : /\ QuarantineIn(p, b) = moved(b) /\ QuarantineOut(p, b) = 0
                                                /\ StockIn(p, b) = 0 /\ StockOut(p, b) = 0
             /\ kind = Release => \A b : /\ QuarantineIn(p, b) = 0 /\ StockOut(p, b) = 0
                                         /\ QuarantineOut(p, b) = StockIn(p, b)
             /\ kind = SupplierReturn => \A b : /\ QuarantineIn(p, b) = 0 /\ StockIn(p, b) = 0
                                                /\ QuarantineOut(p, b) + StockOut(p, b) = moved(b)
<1> DEFINE a == posting[p].authorization
           kind == Kind(a)
<1>1. a \in ReturnAuthorizations /\ LinesIn(posting[p].quantity) \subseteq LinesIn(authorization[a].quantity)
  BY DEF ReturnsInv, PostingsAreNamed, Authorized
<1>2. \A l \in LinesIn(posting[p].quantity) : authorization[a].route[l] \in RoutesOf(kind)
  BY <1>1 DEF ReturnsInv, RoutesFollowKind
<1>3. kind \in {CustomerReturn, Release, SupplierReturn}
  BY DEF Kind, CustomerReturn, Release, SupplierReturn
<1>4. \A b, routes : MovedBy(p, b, routes) \in Nat
  BY MovedLines
<1>5. ASSUME NEW b, NEW routes, routes \cap RoutesOf(kind) = {} PROVE MovedBy(p, b, routes) = 0
  BY <1>2, <1>5, MovedLines
<1>6. ASSUME NEW b, NEW some, NEW others, some \cap others = {}, others \cap RoutesOf(kind) = {}
      PROVE  MovedBy(p, b, some \cup others) = MovedBy(p, b, some)
  <2>1. MovedBy(p, b, some \cup others) = MovedBy(p, b, some) + MovedBy(p, b, others)
    BY <1>6, MovedByEither
  <2>2. MovedBy(p, b, others) = 0
    BY <1>5, <1>6
  <2>3. QED
    BY <1>4, <2>1, <2>2
<1> HIDE DEF kind
<1>7. ASSUME kind = CustomerReturn, NEW b
      PROVE  /\ QuarantineIn(p, b) = MovedBy(p, b, RoutesOf(kind)) /\ QuarantineOut(p, b) = 0
             /\ StockIn(p, b) = 0 /\ StockOut(p, b) = 0
  <2>1. RoutesOf(kind) = {"receive_to_quarantine"}
    BY <1>7 DEF RoutesOf, CustomerReturn
  <2>2. QED
    BY <1>5, <2>1 DEF QuarantineIn, QuarantineOut, StockIn, StockOut
<1>8. ASSUME kind = Release, NEW b
      PROVE  /\ QuarantineIn(p, b) = 0 /\ StockOut(p, b) = 0 /\ QuarantineOut(p, b) = StockIn(p, b)
  <2>1. RoutesOf(kind) = {"release_quarantine_to_available"}
    BY <1>8 DEF RoutesOf, Release
  <2>2. {"release_quarantine_to_available", "return_from_quarantine"} =
          {"release_quarantine_to_available"} \cup {"return_from_quarantine"}
    OBVIOUS
  <2>3. MovedBy(p, b, {"release_quarantine_to_available"} \cup {"return_from_quarantine"}) =
          MovedBy(p, b, {"release_quarantine_to_available"})
    BY <1>6, <2>1
  <2>4. QED
    BY <1>5, <2>1, <2>2, <2>3 DEF QuarantineIn, QuarantineOut, StockIn, StockOut
<1>9. ASSUME kind = SupplierReturn, NEW b
      PROVE  /\ QuarantineIn(p, b) = 0 /\ StockIn(p, b) = 0
             /\ QuarantineOut(p, b) + StockOut(p, b) = MovedBy(p, b, RoutesOf(kind))
  <2>1. RoutesOf(kind) = {"return_from_quarantine"} \cup {"return_from_available"}
    BY <1>9 DEF RoutesOf, SupplierReturn
  <2>2. {"release_quarantine_to_available", "return_from_quarantine"} =
          {"return_from_quarantine"} \cup {"release_quarantine_to_available"}
    OBVIOUS
  <2>3. MovedBy(p, b, {"return_from_quarantine"} \cup {"release_quarantine_to_available"}) =
          MovedBy(p, b, {"return_from_quarantine"})
    BY <1>6, <2>1
  <2>4. MovedBy(p, b, RoutesOf(kind)) =
          MovedBy(p, b, {"return_from_quarantine"}) + MovedBy(p, b, {"return_from_available"})
    BY <2>1, MovedByEither
  <2>5. QED
    BY <1>5, <2>1, <2>2, <2>3, <2>4 DEF QuarantineIn, QuarantineOut, StockIn, StockOut
<1>10. QED
  BY <1>2, <1>3, <1>7, <1>8, <1>9 DEF kind


\* What is written, in stock and in quarantine together.
LEMMA GoodsAtWritten ==
  ASSUME StockTypeOK, ReturnsInv, quarantine \in [BalanceKeys -> Nat],
         NEW p \in ReturnPostings, posting[p].postingStatus # "none",
         NEW sign \in {1, -1}, MoveGoods(p, sign), NEW b \in BalanceKeys
  PROVE  LET kind == Kind(posting[p].authorization)
             moved == MovedBy(p, b, RoutesOf(kind))
         IN  /\ moved \in Nat
             /\ kind = CustomerReturn => balance'[b].onHand + quarantine'[b] =
                                           (balance[b].onHand + quarantine[b]) + sign * moved
             /\ kind = Release => balance'[b].onHand + quarantine'[b] = balance[b].onHand + quarantine[b]
             /\ kind = SupplierReturn => balance'[b].onHand + quarantine'[b] =
                                           (balance[b].onHand + quarantine[b]) - sign * moved
<1> DEFINE kind == Kind(posting[p].authorization)
           moved == MovedBy(p, b, RoutesOf(kind))
<1>1. /\ moved \in Nat /\ QuarantineIn(p, b) \in Nat /\ QuarantineOut(p, b) \in Nat
      /\ StockIn(p, b) \in Nat /\ StockOut(p, b) \in Nat
  BY MovedLines DEF QuarantineIn, QuarantineOut, StockIn, StockOut
<1>2. /\ balance[b].onHand \in Int
      /\ balance'[b].onHand = balance[b].onHand + sign * (StockIn(p, b) - StockOut(p, b))
  BY GoodsWritten
<1>3. /\ quarantine'[b] = quarantine[b] + sign * (QuarantineIn(p, b) - QuarantineOut(p, b))
      /\ quarantine[b] \in Nat
  BY DEF MoveGoods
<1>4. /\ kind = CustomerReturn => /\ QuarantineIn(p, b) = moved /\ QuarantineOut(p, b) = 0
                                  /\ StockIn(p, b) = 0 /\ StockOut(p, b) = 0
      /\ kind = Release => /\ QuarantineIn(p, b) = 0 /\ StockOut(p, b) = 0
                           /\ QuarantineOut(p, b) = StockIn(p, b)
      /\ kind = SupplierReturn => /\ QuarantineIn(p, b) = 0 /\ StockIn(p, b) = 0
                                  /\ QuarantineOut(p, b) + StockOut(p, b) = moved
  BY GoodsOfKind
<1> DEFINE there == balance[b].onHand + quarantine[b]
           next == balance'[b].onHand + quarantine'[b]
           Written == /\ kind = CustomerReturn => next = there + sign * moved
                      /\ kind = Release => next = there
                      /\ kind = SupplierReturn => next = there - sign * moved
<1> HIDE DEF kind, moved
<1>5. /\ kind = CustomerReturn => next = there + sign * moved
      /\ sign \in {1, -1} /\ there \in Int
  <2>1. there \in Int
    BY <1>2, <1>3
  <2>2. ASSUME kind = CustomerReturn PROVE next = there + sign * moved
    <3>1. /\ StockIn(p, b) - StockOut(p, b) = 0
          /\ QuarantineIn(p, b) - QuarantineOut(p, b) = moved
      BY <1>1, <1>4, <2>2
    <3>2. /\ balance'[b].onHand = balance[b].onHand + sign * 0
          /\ quarantine'[b] = quarantine[b] + sign * moved
      BY <1>2, <1>3, <3>1
    <3>3. sign * 0 = 0 /\ sign * moved \in Int
      BY <1>1
    <3>4. QED
      BY <1>2, <1>3, <3>2, <3>3
  <2>3. QED
    BY <2>1, <2>2
<1>6. /\ kind = Release => next = there
      /\ kind = SupplierReturn => next = there - sign * moved
  <2> DEFINE shift == sign * (StockIn(p, b) - StockOut(p, b))
             other == sign * (QuarantineIn(p, b) - QuarantineOut(p, b))
  <2>1. /\ shift \in Int /\ other \in Int /\ sign * moved \in Int
        /\ kind = Release => shift + other = 0
        /\ kind = SupplierReturn => shift + other = 0 - sign * moved
    <3>1. CASE sign = 1
      BY <1>1, <1>4, <3>1
    <3>2. CASE sign = -1
      BY <1>1, <1>4, <3>2
    <3>3. QED
      BY <3>1, <3>2
  <2>2. balance'[b].onHand = balance[b].onHand + shift /\ quarantine'[b] = quarantine[b] + other
    BY <1>2, <1>3
  <2> HIDE DEF shift, other
  <2>3. next = there + (shift + other)
    BY <1>2, <1>3, <2>1, <2>2
  <2>4. QED
    BY <1>1, <1>5, <2>1, <2>3
<1>7. Written
  BY <1>5, <1>6
<1>8. QED
  BY <1>1, <1>7 DEF kind, moved

(***************************************************************************)
(* A posting brings to the goods of all keys what its lines hold, or takes *)
(* it, and its reversal undoes that.                                       *)
(***************************************************************************)
LEMMA GoodsTotalWritten ==
  ASSUME StockTypeOK, ReturnsInv, KeysGiven, quarantine \in [BalanceKeys -> Nat],
         NEW p \in ReturnPostings, posting[p].postingStatus # "none",
         NEW sign \in {1, -1}, MoveGoods(p, sign),
         GoodsAt \in [BalanceKeys -> Nat], GoodsAt' \in [BalanceKeys -> Nat]
  PROVE  /\ AmountOf(CustomerReturn)[p] \in Nat /\ AmountOf(SupplierReturn)[p] \in Nat
         /\ Total(GoodsAt)' = Total(GoodsAt) + sign * (AmountOf(CustomerReturn)[p] - AmountOf(SupplierReturn)[p])
         /\ Total(GoodsAt) \in Nat
<1> DEFINE kind == Kind(posting[p].authorization)
           move == [b \in BalanceKeys |-> MovedBy(p, b, RoutesOf(kind))]
           units == Total(posting[p].quantity)
<1>1. move \in [BalanceKeys -> Nat]
  BY MovedLines
<1>2. /\ kind \in {CustomerReturn, Release, SupplierReturn}
      /\ \A l \in LinesIn(posting[p].quantity) :
           authorization[posting[p].authorization].route[l] \in RoutesOf(kind)
  BY GoodsOfKind
<1>3. Total(move) = units
  BY <1>2, MovedByKeys
<1>4. IsFiniteSet(BalanceKeys)
  BY StockAssumption
<1>5. Total(GoodsAt) \in Nat /\ Total(GoodsAt') \in Nat /\ Total(move) \in Nat
  <2> HIDE DEF move
  <2>1. Total(GoodsAt) \in Nat
    BY <1>4, TotalNat
  <2>2. Total(GoodsAt') \in Nat
    BY <1>4, TotalNat
  <2>3. Total(move) \in Nat
    BY <1>1, <1>4, TotalNat
  <2>4. QED
    BY <2>1, <2>2, <2>3
<1>6. ASSUME NEW b \in BalanceKeys
      PROVE  /\ kind = CustomerReturn => GoodsAt'[b] = GoodsAt[b] + sign * move[b]
             /\ kind = Release => GoodsAt'[b] = GoodsAt[b]
             /\ kind = SupplierReturn => GoodsAt'[b] = GoodsAt[b] - sign * move[b]
  <2>1. /\ GoodsAt'[b] = balance'[b].onHand + quarantine'[b]
        /\ GoodsAt[b] = balance[b].onHand + quarantine[b]
    BY DEF GoodsAt
  <2>2. move[b] = MovedBy(p, b, RoutesOf(kind))
    OBVIOUS
  <2> HIDE DEF move
  <2>3. /\ kind = CustomerReturn => balance'[b].onHand + quarantine'[b] =
                                      (balance[b].onHand + quarantine[b]) + sign * MovedBy(p, b, RoutesOf(kind))
        /\ kind = Release => balance'[b].onHand + quarantine'[b] = balance[b].onHand + quarantine[b]
        /\ kind = SupplierReturn => balance'[b].onHand + quarantine'[b] =
                                      (balance[b].onHand + quarantine[b]) - sign * MovedBy(p, b, RoutesOf(kind))
    BY GoodsAtWritten
  <2> HIDE DEF kind
  <2>4. QED
    BY <2>1, <2>2, <2>3
<1>7. AmountOf(CustomerReturn)[p] = IF kind = CustomerReturn THEN units ELSE 0
  BY DEF AmountOf
<1>8. AmountOf(SupplierReturn)[p] = IF kind = SupplierReturn THEN units ELSE 0
  BY DEF AmountOf
<1>9. CustomerReturn # SupplierReturn /\ CustomerReturn # Release /\ Release # SupplierReturn
  BY DEF CustomerReturn, SupplierReturn, Release
<1> HIDE DEF move, kind, units
<1>10. ASSUME \A b \in BalanceKeys : GoodsAt'[b] = GoodsAt[b] + move[b]
       PROVE  Total(GoodsAt') = Total(GoodsAt) + Total(move)
  BY <1>1, <1>4, <1>10, TotalAdd
<1>11. ASSUME \A b \in BalanceKeys : GoodsAt[b] = GoodsAt'[b] + move[b]
       PROVE  Total(GoodsAt) = Total(GoodsAt') + Total(move)
  BY <1>1, <1>4, <1>11, TotalAdd
<1>12. ASSUME \A b \in BalanceKeys : GoodsAt'[b] = GoodsAt[b]
       PROVE  Total(GoodsAt') = Total(GoodsAt)
  <2>1. GoodsAt' = GoodsAt
    BY <1>12
  <2>2. QED
    BY <2>1
<1>13. \A b \in BalanceKeys : GoodsAt'[b] \in Nat /\ GoodsAt[b] \in Nat /\ move[b] \in Nat
  BY <1>1
<1>14. CASE kind = Release
  BY <1>3, <1>5, <1>6, <1>7, <1>8, <1>9, <1>12, <1>14
<1>15. CASE \/ kind = CustomerReturn /\ sign = 1
            \/ kind = SupplierReturn /\ sign = -1
  <2>1. \A b \in BalanceKeys : GoodsAt'[b] = GoodsAt[b] + move[b]
    BY <1>6, <1>13, <1>15
  <2>2. Total(GoodsAt') = Total(GoodsAt) + units
    BY <1>3, <1>10, <2>1
  <2>3. QED
    BY <1>3, <1>5, <1>7, <1>8, <1>9, <1>15, <2>2
<1>16. CASE \/ kind = CustomerReturn /\ sign = -1
            \/ kind = SupplierReturn /\ sign = 1
  <2>1. \A b \in BalanceKeys : GoodsAt[b] = GoodsAt'[b] + move[b]
    BY <1>6, <1>13, <1>16
  <2>2. Total(GoodsAt) = Total(GoodsAt') + units
    BY <1>3, <1>11, <2>1
  <2>3. QED
    BY <1>3, <1>5, <1>7, <1>8, <1>9, <1>16, <2>2
<1>17. QED
  BY <1>2, <1>14, <1>15, <1>16


\* What a posting that stands holds is the same before and after.
LEMMA AmountsAgree ==
  ASSUME ReturnsInv, NEW S \in SUBSET ReturnPostings, \A q \in S : Stands(q), NEW kind
  PROVE  Agree(S, AmountOf(kind), AmountOf(kind)') /\ Agree(S, AmountOf(kind)', AmountOf(kind))
<1>1. ASSUME NEW q \in S
      PROVE  AmountOf(kind)'[q] = AmountOf(kind)[q] /\ AmountOf(kind)[q] \in Nat
  <2>1. /\ Kind(posting[q].authorization)' = Kind(posting[q].authorization)
        /\ posting'[q].quantity = posting[q].quantity
    <3>1. Stands(q)
      OBVIOUS
    <3>2. Kind(posting[q].authorization)' = Kind(posting[q].authorization)
      BY <3>1, MovedStands
    <3>3. QED
      BY <3>1, <3>2 DEF Stands
  <2>2. Total(posting[q].quantity) \in Nat
    <3>1. posting[q].quantity \in [SourceLines -> Nat]
      BY DEF ReturnsInv, PostingRow, Quantity
    <3>2. QED
      BY <3>1, TotalNat, ReturnAssumption
  <2>3. AmountOf(kind)[q] = IF Kind(posting[q].authorization) = kind THEN Total(posting[q].quantity) ELSE 0
    BY DEF AmountOf
  <2>4. AmountOf(kind)'[q] = IF Kind(posting[q].authorization)' = kind THEN Total(posting'[q].quantity) ELSE 0
    BY DEF AmountOf
  <2>5. QED
    BY <2>1, <2>2, <2>3, <2>4
<1>2. QED
  BY <1>1 DEF Agree

\* Every posting that is begun keeps a key for each of its lines.
LEMMA KeysStay ==
  ASSUME ReturnsInv, KeysGiven, ReturnsNext
  PROVE  KeysGiven'
<1>1. posting \in [ReturnPostings -> PostingRow]
  BY DEF ReturnsInv
<1>2. ASSUME UNCHANGED posting PROVE KeysGiven'
  BY <1>2 DEF KeysGiven, LinesIn
<1>3. ASSUME NEW p \in ReturnPostings,
             \A q \in ReturnPostings \ {p} : posting'[q] = posting[q],
             posting'[p].key \in [LinesIn(posting'[p].quantity) -> BalanceKeys]
      PROVE  KeysGiven'
  BY <1>3 DEF KeysGiven, LinesIn
<1>4. CASE GovernanceNext /\ UNCHANGED quarantineVars
  <2>1. UNCHANGED posting
    BY <1>4 DEF GovernanceNext, CreateRequest, ReviseRequest, SubmitRequest, CancelRequest, AuthorizeRequest,
           RejectRequest, CancelAuthorization, ExpireAuthorization, CloseAuthorization, PassDeadline, ReverseSource
  <2>2. QED
    BY <1>2, <2>1
<1>5. ASSUME NEW p \in ReturnPostings, NEW asked, NEW key \in [LinesIn(asked) -> BalanceKeys],
             DraftNext(p, asked, key)
      PROVE  KeysGiven'
  <2>1. \E kind : \/ \E a : CreateReturnDraft(kind, p, a, asked, key)
                  \/ ReviseReturnDraft(kind, p, asked, key)
    BY <1>5 DEF DraftNext, CreateCustomerReturnDraft, CreateReleaseDraft, CreateSupplierReturnDraft,
                ReviseCustomerReturnDraft, ReviseReleaseDraft, ReviseSupplierReturnDraft
  <2>2. /\ \A q \in ReturnPostings \ {p} : posting'[q] = posting[q]
        /\ posting'[p].key = key /\ posting'[p].quantity = asked
    <3>1. ASSUME NEW kind, NEW a, CreateReturnDraft(kind, p, a, asked, key)
          PROVE  /\ \A q \in ReturnPostings \ {p} : posting'[q] = posting[q]
                 /\ posting'[p].key = key /\ posting'[p].quantity = asked
      BY <1>1, <3>1 DEF CreateReturnDraft, NoPosting
    <3>2. ASSUME NEW kind, ReviseReturnDraft(kind, p, asked, key)
          PROVE  /\ \A q \in ReturnPostings \ {p} : posting'[q] = posting[q]
                 /\ posting'[p].key = key /\ posting'[p].quantity = asked
      BY <1>1, <3>2 DEF ReviseReturnDraft, PostingRow
    <3>3. QED
      BY <2>1, <3>1, <3>2
  <2>3. QED
    BY <1>3, <1>5, <2>2
<1>6. ASSUME NEW p \in ReturnPostings, NEW kind, ReadyReturn(kind, p) \/ CancelReturn(kind, p)
      PROVE  KeysGiven'
  <2>1. /\ \A q \in ReturnPostings \ {p} : posting'[q] = posting[q]
        /\ posting'[p].key = posting[p].key /\ posting'[p].quantity = posting[p].quantity
        /\ posting[p].postingStatus # "none"
    BY <1>1, <1>6 DEF ReadyReturn, CancelReturn, OpenReturn, PostingRow
  <2>2. QED
    BY <1>3, <2>1 DEF KeysGiven
<1>7. ASSUME NEW p \in ReturnPostings, NEW kind, PostReturn(kind, p) \/ ReverseReturn(kind, p)
      PROVE  KeysGiven'
  <2>1. /\ \A q \in ReturnPostings \ {p} : posting'[q] = posting[q]
        /\ posting[p].postingStatus # "none" /\ Stands(p)
    BY <1>7, ReturnWritten
  <2>2. QED
    BY <1>3, <2>1 DEF KeysGiven, Stands
<1>8. QED
  BY <1>4, <1>5, <1>6, <1>7
     DEF ReturnsNext, PostingNext, ReadyCustomerReturn, CancelCustomerReturn, PostCustomerReturn,
         ReverseCustomerReturn, ReadyRelease, CancelRelease, PostRelease, ReverseRelease,
         ReadySupplierReturn, CancelSupplierReturn, PostSupplierReturn, ReverseSupplierReturn

\* Nothing is taken from quarantine that is not there.
LEMMA QuarantineStays ==
  ASSUME ReturnsInv, quarantine \in [BalanceKeys -> Nat], ReturnsNext
  PROVE  quarantine' \in [BalanceKeys -> Nat]
<1>1. ASSUME NothingReturned PROVE quarantine' \in [BalanceKeys -> Nat]
  BY <1>1 DEF NothingReturned, quarantineVars
<1>2. ASSUME NEW p \in ReturnPostings, NEW b
      PROVE  QuarantineIn(p, b) \in Nat /\ QuarantineOut(p, b) \in Nat
  BY MovedLines DEF QuarantineIn, QuarantineOut
<1>3. ASSUME NEW p \in ReturnPostings, NEW kind, PostReturn(kind, p)
      PROVE  quarantine' \in [BalanceKeys -> Nat]
  <2>1. \A b \in BalanceKeys : quarantine[b] >= QuarantineOut(p, b)
    BY <1>3 DEF PostReturn, ReturnPlanAllows
  <2>2. \A b \in BalanceKeys : quarantine[b] + 1 * (QuarantineIn(p, b) - QuarantineOut(p, b)) \in Nat
    BY <1>2, <2>1
  <2>3. QED
    BY <1>3, <2>2 DEF PostReturn, MoveGoods
<1>4. ASSUME NEW p \in ReturnPostings, NEW kind \in {CustomerReturn, Release, SupplierReturn},
             ReverseReturn(kind, p)
      PROVE  quarantine' \in [BalanceKeys -> Nat]
  <2>1. posting[p].postingStatus # "none" /\ Kind(posting[p].authorization) = kind
    BY <1>4 DEF ReverseReturn, Posted
  <2>2. ASSUME NEW b \in BalanceKeys PROVE quarantine[b] + QuarantineOut(p, b) >= QuarantineIn(p, b)
    <3>1. CASE kind = CustomerReturn
      <4>1. quarantine[b] >= QuarantineIn(p, b)
        BY <1>4, <3>1 DEF ReverseReturn, ReceiptUntouched, CustomerReturn
      <4>2. QED
        BY <1>2, <4>1
    <3>2. CASE kind # CustomerReturn
      <4>1. QuarantineIn(p, b) = 0
        BY <2>1, <3>2, GoodsOfKind
      <4>2. QED
        BY <1>2, <4>1
    <3>3. QED
      BY <3>1, <3>2
  <2>3. \A b \in BalanceKeys : quarantine[b] + (-1) * (QuarantineIn(p, b) - QuarantineOut(p, b)) \in Nat
    BY <1>2, <2>2
  <2>4. QED
    BY <1>4, <2>3 DEF ReverseReturn, MoveGoods
<1>5. QED
  BY <1>1, <1>3, <1>4, ReturnsCommands

GoodsInv == quarantine \in [BalanceKeys -> Nat] /\ KeysGiven

GoodsAreNatural == GoodsAt \in [BalanceKeys -> Nat]

\* Goods at a key are a natural number.
LEMMA GoodsAreNumbers == StockSound /\ GoodsInv => GoodsAreNatural
<1> SUFFICES ASSUME StockSound, GoodsInv, NEW b \in BalanceKeys PROVE balance[b].onHand + quarantine[b] \in Nat
  BY DEF GoodsAreNatural, GoodsAt
<1>1. balance[b].onHand \in Int /\ balance[b].reserved \in Int
  BY DEF StockSound, StockTypeOK, BalanceRow
<1>2. 0 <= balance[b].reserved /\ balance[b].reserved <= balance[b].onHand
  BY DEF StockSound, StockNeverOversold
<1>3. QED
  BY <1>1, <1>2 DEF GoodsInv

\* The same of the next state.
LEMMA GoodsAreNumbersNext == StockSound' /\ GoodsInv' => GoodsAreNatural'
BY GoodsAreNumbers, PTL


\* A command of returns changes the goods by what it adds to the posted ones.
LEMMA GoodsStep ==
  ASSUME StockSound, ReturnsInv, GoodsInv, StockSound', GoodsInv', ReturnsNext
  PROVE  Total(GoodsAt)' - GoodsNet' = Total(GoodsAt) - GoodsNet
<1> DEFINE in == AmountOf(CustomerReturn)
           out == AmountOf(SupplierReturn)
           Conserved == Total(GoodsAt)' - GoodsNet' = Total(GoodsAt) - GoodsNet
<1>1. GoodsNet' = NetOver(ReturnPostings, PostedReturns', in', out')
  BY DEF GoodsNet, CustomerReturn, SupplierReturn
<1>2. /\ PostedReturns \in SUBSET ReturnPostings /\ PostedReturns \subseteq ReturnPostings
      /\ \A q \in PostedReturns : q \in ReturnPostings /\ posting[q].postingStatus # "none"
  BY DEF PostedReturns, Posted
<1>3. IsFiniteSet(ReturnPostings) /\ StockTypeOK
  BY ReturnAssumption DEF StockSound
<1>4. GoodsAt \in [BalanceKeys -> Nat] /\ GoodsAt' \in [BalanceKeys -> Nat]
  BY GoodsAreNumbers, GoodsAreNumbersNext DEF GoodsAreNatural
<1>5. ASSUME NEW S \in SUBSET ReturnPostings, \A q \in S : Stands(q)
      PROVE  Agree(S, in, in') /\ Agree(S, in', in) /\ Agree(S, out, out') /\ Agree(S, out', out)
  <2>1. /\ Agree(S, AmountOf(CustomerReturn), AmountOf(CustomerReturn)')
        /\ Agree(S, AmountOf(CustomerReturn)', AmountOf(CustomerReturn))
    BY <1>5, AmountsAgree
  <2>2. /\ Agree(S, AmountOf(SupplierReturn), AmountOf(SupplierReturn)')
        /\ Agree(S, AmountOf(SupplierReturn)', AmountOf(SupplierReturn))
    BY <1>5, AmountsAgree
  <2>3. QED
    BY <2>1, <2>2
<1>6. GoodsNet = NetOver(ReturnPostings, PostedReturns, in, out)
  BY DEF GoodsNet
<1>7. ASSUME NEW p \in ReturnPostings, NEW sign \in {1, -1}, posting[p].postingStatus # "none", MoveGoods(p, sign)
      PROVE  /\ in[p] \in Nat /\ out[p] \in Nat /\ Total(GoodsAt) \in Nat
             /\ Total(GoodsAt)' = Total(GoodsAt) + sign * (in[p] - out[p])
  BY <1>3, <1>4, <1>7, GoodsTotalWritten DEF GoodsInv
<1> HIDE DEF in, out
<1>8. ASSUME NothingReturned PROVE Conserved
  <2>1. UNCHANGED <<balance, quarantine>> /\ PostedReturns' = PostedReturns
    BY <1>8 DEF NothingReturned, stockVars, quarantineVars
  <2>2. Total(GoodsAt)' = Total(GoodsAt)
    BY <2>1 DEF GoodsAt
  <2>3. Agree(PostedReturns, in, in') /\ Agree(PostedReturns, out, out')
    BY <1>2, <1>5, <1>8 DEF NothingReturned
  <2>4. NetOver(ReturnPostings, PostedReturns, in', out') = NetOver(ReturnPostings, PostedReturns, in, out)
    BY <1>2, <2>3, NetSame
  <2>5. QED
    BY <1>1, <1>6, <2>1, <2>2, <2>4
<1>9. ASSUME NEW p \in ReturnPostings, NEW kind, PostReturn(kind, p) PROVE Conserved
  <2> DEFINE S == PostedReturns \cup {p}
  <2>1. /\ \A q \in S : q \in ReturnPostings /\ Stands(q)
        /\ p \notin PostedReturns /\ PostedReturns' = S
        /\ posting[p].postingStatus # "none"
    BY <1>2, <1>9, ReturnWritten
  <2>2. /\ in[p] \in Nat /\ out[p] \in Nat /\ Total(GoodsAt) \in Nat
        /\ Total(GoodsAt)' = Total(GoodsAt) + 1 * (in[p] - out[p])
    BY <1>7, <1>9, <2>1 DEF PostReturn
  <2>3. S \in SUBSET ReturnPostings /\ \A q \in S : Stands(q)
    BY <2>1
  <2> HIDE DEF S
  <2>4. Agree(S, in, in') /\ Agree(S, out, out')
    BY <1>5, <2>3
  <2>5. in'[p] = in[p] /\ out'[p] = out[p]
    BY <2>4 DEF Agree, S
  <2>6. /\ OneMore(ReturnPostings, PostedReturns, p, in, in')
        /\ OneMore(ReturnPostings, PostedReturns, p, out, out')
    BY <1>2, <1>3, <2>1, <2>2, <2>4, <2>5 DEF OneMore, Agree, S
  <2>7. /\ NetOver(ReturnPostings, PostedReturns, in, out) \in Int
        /\ NetOver(ReturnPostings, PostedReturns \cup {p}, in', out') =
             NetOver(ReturnPostings, PostedReturns, in, out) + in'[p] - out'[p]
    BY <2>6, NetJoins
  <2>8. GoodsNet \in Int /\ GoodsNet' = GoodsNet + in[p] - out[p]
    BY <1>1, <1>6, <2>1, <2>5, <2>7 DEF S
  <2>9. QED
    BY <2>2, <2>8
<1>10. ASSUME NEW p \in ReturnPostings, NEW kind, ReverseReturn(kind, p) PROVE Conserved
  <2>1. /\ \A q \in PostedReturns : Stands(q)
        /\ p \in PostedReturns /\ PostedReturns' = PostedReturns \ {p}
        /\ posting[p].postingStatus # "none"
    BY <1>2, <1>10, ReturnWritten
  <2>2. /\ in[p] \in Nat /\ out[p] \in Nat /\ Total(GoodsAt) \in Nat
        /\ Total(GoodsAt)' = Total(GoodsAt) + (-1) * (in[p] - out[p])
    BY <1>7, <1>10, <2>1 DEF ReverseReturn
  <2>3. Agree(PostedReturns, in', in) /\ Agree(PostedReturns, out', out)
    BY <1>2, <1>5, <2>1
  <2>4. /\ OneMore(ReturnPostings, PostedReturns \ {p}, p, in', in)
        /\ OneMore(ReturnPostings, PostedReturns \ {p}, p, out', out)
    BY <1>2, <1>3, <2>1, <2>2, <2>3 DEF OneMore, Agree
  <2>5. /\ NetOver(ReturnPostings, PostedReturns, in, out) \in Int
        /\ NetOver(ReturnPostings, PostedReturns \ {p}, in', out') =
             NetOver(ReturnPostings, PostedReturns, in, out) - in[p] + out[p]
    BY <2>1, <2>4, NetLeaves
  <2>6. GoodsNet \in Int /\ GoodsNet' = GoodsNet - in[p] + out[p]
    BY <1>1, <1>6, <2>1, <2>5
  <2>7. QED
    BY <2>2, <2>6
<1>11. QED
  BY <1>8, <1>9, <1>10, ReturnsCommands


\* What the posted returns of a kind hold is a natural number.
LEMMA PostedAmounts ==
  ASSUME ReturnsInv, NEW kind
  PROVE  /\ PostedOfKind(kind) = Total(Moving(ReturnPostings, PostedReturns, AmountOf(kind)))
         /\ PostedOfKind(kind) \in Nat
<1> DEFINE moving == Moving(ReturnPostings, PostedReturns, AmountOf(kind))
<1>1. moving = [p \in ReturnPostings |->
                  IF Posted(p) THEN IF Kind(posting[p].authorization) = kind
                                    THEN Total(posting[p].quantity) ELSE 0 ELSE 0]
  BY DEF Moving, PostedReturns, AmountOf
<1>2. PostedOfKind(kind) = Total(moving)
  BY <1>1 DEF PostedOfKind, PostedTotal
<1>3. \A p \in ReturnPostings : Total(posting[p].quantity) \in Nat
  <2>1. \A p \in ReturnPostings : posting[p].quantity \in [SourceLines -> Nat]
    BY DEF ReturnsInv, PostingRow, Quantity
  <2>2. QED
    BY <2>1, TotalNat, ReturnAssumption
<1>4. moving \in [ReturnPostings -> Nat]
  BY <1>1, <1>3
<1> HIDE DEF moving
<1>5. Total(moving) \in Nat
  BY <1>4, TotalNat, ReturnAssumption
<1>6. QED
  BY <1>2, <1>5 DEF moving

\* The net of what is posted is a number.
NetIsNumber == GoodsNet \in Int

\* The invariant makes it one.
LEMMA GoodsNetIsNumber == ReturnsInv => NetIsNumber
<1> SUFFICES ASSUME ReturnsInv PROVE NetIsNumber
  OBVIOUS
<1>1. \A kind : Total(Moving(ReturnPostings, PostedReturns, AmountOf(kind))) \in Nat
  BY PostedAmounts
<1>2. QED
  BY <1>1 DEF NetIsNumber, GoodsNet, NetOver

\* The same of the next state.
LEMMA GoodsNetIsNumberNext == ReturnsInv' => NetIsNumber'
BY GoodsNetIsNumber, PTL

\* The goods of all keys are those of the opening and what was posted since.
GoodsExplained == Total(GoodsAt) = Total(OpeningStock) + Total(OpeningQuarantine) + GoodsNet

\* The equation of the property, and the sums it is made of.
LEMMA GoodsRestated == StockSound /\ ReturnsInv /\ GoodsInv /\ GoodsExplained => GoodsAreConserved
<1> SUFFICES ASSUME StockSound, ReturnsInv, GoodsInv, GoodsExplained PROVE GoodsAreConserved
  OBVIOUS
<1> DEFINE stock == [b \in BalanceKeys |-> balance[b].onHand]
<1>1. IsFiniteSet(BalanceKeys) /\ OpeningStock \in [BalanceKeys -> Nat] /\ OpeningQuarantine \in [BalanceKeys -> Nat]
  BY StockAssumption, QuarantineAssumption
<1>2. ASSUME NEW b \in BalanceKeys PROVE balance[b].onHand \in Nat
  <2>1. balance[b].onHand \in Int /\ balance[b].reserved \in Int
    BY DEF StockSound, StockTypeOK, BalanceRow
  <2>2. 0 <= balance[b].reserved /\ balance[b].reserved <= balance[b].onHand
    BY DEF StockSound, StockNeverOversold
  <2>3. QED
    BY <2>1, <2>2
<1>3. /\ stock \in [BalanceKeys -> Nat] /\ quarantine \in [BalanceKeys -> Nat]
      /\ GoodsAt \in [BalanceKeys -> Nat]
      /\ \A b \in BalanceKeys : GoodsAt[b] = stock[b] + quarantine[b]
  BY <1>2 DEF GoodsInv, GoodsAt
<1> HIDE DEF stock
<1>4. Total(GoodsAt) = Total(stock) + Total(quarantine)
  BY <1>1, <1>3, TotalAdd
<1>5. \A kind : /\ PostedOfKind(kind) = Total(Moving(ReturnPostings, PostedReturns, AmountOf(kind)))
                 /\ PostedOfKind(kind) \in Nat
  BY PostedAmounts
<1>6. GoodsNet = PostedOfKind("customer_return_receipt") - PostedOfKind("supplier_return_dispatch")
  BY <1>5 DEF GoodsNet, NetOver, CustomerReturn, SupplierReturn
<1>7. Total(OpeningStock) \in Nat /\ Total(OpeningQuarantine) \in Nat
  BY <1>1, TotalNat
<1>8. PostedOfKind("customer_return_receipt") \in Nat /\ PostedOfKind("supplier_return_dispatch") \in Nat
  BY <1>5
<1>9. QED
  BY <1>4, <1>6, <1>7, <1>8 DEF GoodsExplained, GoodsAreConserved, stock

\* At the opening nothing has been posted.
LEMMA GoodsBegin ==
  ASSUME ReturnsInit
  PROVE  GoodsInv /\ GoodsExplained
<1>1. \A p \in ReturnPostings : posting[p].postingStatus = "none"
  BY DEF ReturnsInit, NoPosting
<1>2. GoodsInv
  BY <1>1, QuarantineAssumption DEF GoodsInv, KeysGiven, ReturnsInit
<1>3. GoodsNet = 0
  <2>1. PostedReturns = {}
    BY <1>1 DEF PostedReturns, Posted
  <2>2. ASSUME NEW q PROVE Total(Moving(ReturnPostings, {}, q)) = 0
    <3>1. /\ Moving(ReturnPostings, {}, q) \in [ReturnPostings -> Nat]
          /\ \A p \in ReturnPostings : Moving(ReturnPostings, {}, q)[p] = 0
      BY DEF Moving
    <3>2. QED
      BY <3>1, TotalZero
  <2>3. QED
    BY <2>1, <2>2 DEF GoodsNet, NetOver
<1>4. IsFiniteSet(BalanceKeys) /\ OpeningStock \in [BalanceKeys -> Nat] /\ OpeningQuarantine \in [BalanceKeys -> Nat]
  BY StockAssumption, QuarantineAssumption
<1>5. /\ GoodsAt \in [BalanceKeys -> Nat]
      /\ \A b \in BalanceKeys : GoodsAt[b] = OpeningStock[b] + OpeningQuarantine[b]
  BY <1>4 DEF GoodsAt, ReturnsInit, StockInit
<1>6. Total(GoodsAt) = Total(OpeningStock) + Total(OpeningQuarantine)
  BY <1>4, <1>5, TotalAdd
<1>7. Total(OpeningStock) \in Nat /\ Total(OpeningQuarantine) \in Nat
  BY <1>4, TotalNat
<1>8. QED
  BY <1>2, <1>3, <1>6, <1>7 DEF GoodsExplained

\* The equation survives every step.
LEMMA GoodsKept ==
  ASSUME StockSound, ReturnsInv, GoodsInv, GoodsExplained, StockSound', ReturnsInv', [ReturnsNext]_returnsVars
  PROVE  GoodsInv' /\ GoodsExplained'
<1>1. CASE ReturnsNext
  <2>1. GoodsInv'
    BY <1>1, KeysStay, QuarantineStays DEF GoodsInv
  <2>2. Total(GoodsAt)' - GoodsNet' = Total(GoodsAt) - GoodsNet
    BY <1>1, <2>1, GoodsStep
  <2>3. GoodsNet \in Int /\ GoodsNet' \in Int
    BY GoodsNetIsNumber, GoodsNetIsNumberNext DEF NetIsNumber
  <2>4. Total(GoodsAt) \in Nat /\ Total(GoodsAt') \in Nat
    BY <2>1, GoodsAreNumbers, GoodsAreNumbersNext, TotalNat, StockAssumption DEF GoodsAreNatural
  <2>5. Total(OpeningStock) \in Nat /\ Total(OpeningQuarantine) \in Nat
    BY StockAssumption, QuarantineAssumption, TotalNat
  <2>6. QED
    BY <2>1, <2>2, <2>3, <2>4, <2>5 DEF GoodsExplained
<1>2. CASE UNCHANGED returnsVars
  <2>1. UNCHANGED <<balance, quarantine, posting, authorization>>
    BY <1>2 DEF returnsVars, stockVars, governanceVars, quarantineVars
  <2>2. GoodsInv'
    BY <2>1 DEF GoodsInv, KeysGiven, LinesIn
  <2>3. GoodsAt' = GoodsAt /\ PostedReturns' = PostedReturns
    BY <2>1 DEF GoodsAt, PostedReturns, Posted
  <2>4. ASSUME NEW kind PROVE AmountOf(kind)' = AmountOf(kind)
    BY <2>1 DEF AmountOf, Kind, IsRelease, LinesIn
  <2>5. AmountOf(CustomerReturn)' = AmountOf(CustomerReturn) /\ AmountOf(SupplierReturn)' = AmountOf(SupplierReturn)
    BY <2>4 DEF CustomerReturn, SupplierReturn
  <2>6. GoodsNet' = GoodsNet
    BY <2>3, <2>5 DEF GoodsNet
  <2>7. QED
    BY <2>2, <2>3, <2>6 DEF GoodsExplained
<1>3. QED
  BY <1>1, <1>2

(***************************************************************************)
(* GoodsAreConserved: however returns are received, released, dispatched   *)
(* and reversed, what is in stock and in quarantine together is what there *)
(* was, what customers sent, less what suppliers got.                      *)
(***************************************************************************)
THEOREM GoodsStayWhole == ReturnsSpec => []GoodsAreConserved
<1>1. ReturnsInit => GoodsInv /\ GoodsExplained
  BY GoodsBegin
<1>2. /\ StockSound /\ ReturnsInv /\ StockSound' /\ ReturnsInv'
      /\ GoodsInv /\ GoodsExplained /\ [ReturnsNext]_returnsVars
      => GoodsInv' /\ GoodsExplained'
  BY GoodsKept
<1>3. StockSound /\ ReturnsInv /\ GoodsInv /\ GoodsExplained => GoodsAreConserved
  BY GoodsRestated
<1>4. QED
  BY ReturnsInvariant, <1>1, <1>2, <1>3, PTL DEF ReturnsSpec

-----------------------------------------------------------------------------
\* Goods go back to a supplier only once

\* Authorizations that postings are or were executed under.
Live(a) == authorization[a].status \in InForceStatuses \cup {"executed"}
Drafted(a) == \E p \in ReturnPostings : posting[p].authorization = a /\ posting[p].postingStatus # "none"
DraftedFor(r) == {a \in AuthorizationsOf(r) : Drafted(a)}

\* A request to send goods back to a supplier.
Supplies(r) == \E l \in LinesIn(request[r].quantity) : ReturnType[l] = "supplier_return"

OneDocument ==
  \A r \in ReturnRequests : \A l, k \in LinesIn(request[r].quantity) : SourceDocument[l] = SourceDocument[k]

LiveWithinRequest ==
  \A a \in ReturnAuthorizations : Live(a) =>
    LET r == authorization[a].request
    IN  /\ r \in ReturnRequests
        /\ request[r].status \notin {"none", "draft"}
        /\ \A l \in SourceLines : authorization[a].quantity[l] <= request[r].quantity[l]

\* A request to send goods back has one live authorization, and its status.
SuppliersAgree ==
  \A a \in ReturnAuthorizations : Live(a) /\ Supplies(authorization[a].request) =>
    LET r == authorization[a].request
    IN  /\ request[r].status = RequestStatus(authorization[a].status)
        /\ \A b \in AuthorizationsOf(r) : Live(b) => b = a

DraftedAreLive == \A a \in ReturnAuthorizations : Drafted(a) => Live(a)

ExecutedWhole ==
  \A a \in ReturnAuthorizations : authorization[a].status = "executed" =>
    \A l \in SourceLines : ExecutedBy(posting, a, l) = authorization[a].quantity[l]

SupplyShape ==
  /\ source \in [SourceLines -> [quantity : Nat, posted : BOOLEAN]]
  /\ request \in [ReturnRequests -> RequestRow]
  /\ OneDocument
  /\ LiveWithinRequest
  /\ SuppliersAgree
  /\ DraftedAreLive
  /\ ExecutedWhole

(***************************************************************************)
(* What a request may have sent in the end: what its authorization allows  *)
(* once a posting was drafted under it, and all it asks for before.        *)
(***************************************************************************)
Chosen(S) == CHOOSE a \in S : TRUE
Asking == {"submitted", "authorized", "partially_executed"}
Claim(r, l) ==
  IF DraftedFor(r) # {} THEN authorization[Chosen(DraftedFor(r))].quantity[l]
  ELSE IF request[r].status \in Asking THEN request[r].quantity[l] ELSE 0
Claims(l) == [r \in ReturnRequests |-> Claim(r, l)]

SupplierLine(l) == l \in SourceLines /\ ReturnType[l] = "supplier_return"

ClaimsFit == \A l : SupplierLine(l) => Total(Claims(l)) <= source[l].quantity

\* What is known of a claim without the choice in its definition.
ClaimKnown ==
  \A r \in ReturnRequests : \A l : SupplierLine(l) =>
    /\ Claim(r, l) \in Nat /\ request[r].quantity[l] \in Nat
    /\ Claim(r, l) <= request[r].quantity[l]
    /\ \A a \in DraftedFor(r) : Claim(r, l) = authorization[a].quantity[l]
    /\ DraftedFor(r) = {} => Claim(r, l) = IF request[r].status \in Asking THEN request[r].quantity[l] ELSE 0

\* The invariant makes the choice unique where it matters.
LEMMA ClaimFacts == ReturnsInv /\ SupplyShape => ClaimKnown
<1> SUFFICES ASSUME ReturnsInv, SupplyShape, NEW r \in ReturnRequests, NEW l, SupplierLine(l)
             PROVE  /\ Claim(r, l) \in Nat /\ request[r].quantity[l] \in Nat
                    /\ Claim(r, l) <= request[r].quantity[l]
                    /\ \A a \in DraftedFor(r) : Claim(r, l) = authorization[a].quantity[l]
                    /\ DraftedFor(r) = {} => Claim(r, l) = IF request[r].status \in Asking
                                                           THEN request[r].quantity[l] ELSE 0
  BY DEF ClaimKnown
<1>1. l \in SourceLines /\ request[r].quantity[l] \in Nat
  BY DEF SupplierLine, SupplyShape, RequestRow, Quantity
<1>2. ASSUME NEW a \in DraftedFor(r)
      PROVE  /\ a \in ReturnAuthorizations /\ authorization[a].request = r /\ Live(a)
             /\ authorization[a].quantity[l] \in Nat
             /\ authorization[a].quantity[l] <= request[r].quantity[l]
  <2>1. a \in ReturnAuthorizations /\ authorization[a].request = r /\ Live(a)
    BY DEF DraftedFor, AuthorizationsOf, SupplyShape, DraftedAreLive
  <2>2. authorization[a].quantity[l] \in Nat
    BY <1>1, <2>1 DEF ReturnsInv, AuthorizationRow, Quantity
  <2>3. authorization[a].quantity[l] <= request[r].quantity[l]
    BY <1>1, <2>1 DEF SupplyShape, LiveWithinRequest
  <2>4. QED
    BY <2>1, <2>2, <2>3
<1>3. ASSUME NEW a \in DraftedFor(r), NEW b \in DraftedFor(r)
      PROVE  authorization[a].quantity[l] = authorization[b].quantity[l]
  <2>1. CASE request[r].quantity[l] = 0
    BY <1>2, <2>1
  <2>2. CASE request[r].quantity[l] # 0
    <3>1. Supplies(r)
      BY <1>1, <2>2 DEF Supplies, LinesIn, SupplierLine
    <3>2. b \in AuthorizationsOf(r)
      BY DEF DraftedFor
    <3>3. a = b
      BY <1>2, <3>1, <3>2 DEF SupplyShape, SuppliersAgree
    <3>4. QED
      BY <3>3
  <2>3. QED
    BY <2>1, <2>2
<1>4. CASE DraftedFor(r) = {}
  BY <1>1, <1>4 DEF Claim
<1>5. CASE DraftedFor(r) # {}
  <2> DEFINE a == Chosen(DraftedFor(r))
  <2>1. a \in DraftedFor(r) /\ Claim(r, l) = authorization[a].quantity[l]
    BY <1>5 DEF Claim, Chosen
  <2> HIDE DEF a
  <2>2. QED
    BY <1>1, <1>2, <1>3, <1>5, <2>1
<1>6. QED
  BY <1>4, <1>5

\* The same of the next state.
LEMMA ClaimFactsNext == ReturnsInv' /\ SupplyShape' => ClaimKnown'
BY ClaimFacts, PTL

(***************************************************************************)
(* Claims that do not grow fit as before.                                  *)
(***************************************************************************)
LEMMA ClaimsShrink ==
  ASSUME ClaimKnown, ClaimKnown', ClaimsFit, \A l : SupplierLine(l) => source'[l].quantity = source[l].quantity,
         \A l : SupplierLine(l) => source[l].quantity \in Nat,
         \A r \in ReturnRequests : \A l : SupplierLine(l) => Claim(r, l)' <= Claim(r, l)
  PROVE  ClaimsFit'
<1>1. ASSUME NEW l, SupplierLine(l) PROVE Total(Claims(l)') <= source'[l].quantity
  <2>1. /\ Claims(l) \in [ReturnRequests -> Nat] /\ Claims(l)' \in [ReturnRequests -> Nat]
        /\ \A r \in ReturnRequests : Claims(l)'[r] <= Claims(l)[r]
    BY <1>1 DEF ClaimKnown, Claims, SupplierLine
  <2>2. /\ Total(Claims(l)') <= Total(Claims(l))
        /\ Total(Claims(l)') \in Nat /\ Total(Claims(l)) \in Nat
    BY <2>1, TotalMonotone, TotalNat, ReturnAssumption
  <2>3. QED
    BY <1>1, <2>2 DEF ClaimsFit
<1>2. QED
  BY <1>1 DEF ClaimsFit, SupplierLine

SupplyInv == SupplyShape /\ ClaimsFit

\* The quantity of a source line is a number.
LEMMA SourceQuantities ==
  ASSUME SupplyShape
  PROVE  \A l : SupplierLine(l) => source[l].quantity \in Nat
BY DEF SupplyShape, SupplierLine

(***************************************************************************)
(* One request is rewritten before anything is allowed, or one that sends  *)
(* nothing back changes its status.                                        *)
(***************************************************************************)
LEMMA RequestRewritten ==
  ASSUME ReturnsInv, SupplyShape, NEW r \in ReturnRequests, NEW row \in RequestRow,
         request' = [request EXCEPT ![r] = row], UNCHANGED <<source, authorization, posting>>,
         \A l, k \in LinesIn(row.quantity) : SourceDocument[l] = SourceDocument[k],
         \/ \A a \in AuthorizationsOf(r) : ~Live(a)
         \/ ~Supplies(r) /\ row.quantity = request[r].quantity /\ row.status \notin {"none", "draft"}
  PROVE  /\ SupplyShape'
         /\ \A q \in ReturnRequests \ {r} : \A l : Claim(q, l)' = Claim(q, l)
         /\ \A q : DraftedFor(q)' = DraftedFor(q)
<1>1. /\ request' \in [ReturnRequests -> RequestRow] /\ request'[r] = row
      /\ \A q \in ReturnRequests \ {r} : request'[q] = request[q]
  BY DEF SupplyShape
<1>2. \A a : (Live(a)' <=> Live(a)) /\ (Drafted(a)' <=> Drafted(a))
  BY DEF Live, Drafted
<1>3. \A q : AuthorizationsOf(q)' = AuthorizationsOf(q) /\ DraftedFor(q)' = DraftedFor(q)
  BY <1>2 DEF AuthorizationsOf, DraftedFor
<1>4. \A q \in ReturnRequests \ {r} : Supplies(q)' <=> Supplies(q)
  BY <1>1 DEF Supplies, LinesIn
<1>5. OneDocument'
  BY <1>1 DEF SupplyShape, OneDocument, LinesIn
<1>6. LiveWithinRequest'
  <2> SUFFICES ASSUME NEW a \in ReturnAuthorizations, Live(a)
               PROVE  /\ authorization[a].request \in ReturnRequests
                      /\ request'[authorization[a].request].status \notin {"none", "draft"}
                      /\ \A l \in SourceLines : authorization[a].quantity[l]
                                                  <= request'[authorization[a].request].quantity[l]
    BY <1>2 DEF LiveWithinRequest
  <2>1. /\ authorization[a].request \in ReturnRequests
        /\ request[authorization[a].request].status \notin {"none", "draft"}
        /\ \A l \in SourceLines : authorization[a].quantity[l] <= request[authorization[a].request].quantity[l]
    BY DEF SupplyShape, LiveWithinRequest
  <2>2. CASE authorization[a].request = r
    <3>1. a \in AuthorizationsOf(r)
      BY <2>2 DEF AuthorizationsOf
    <3>2. QED
      BY <1>1, <2>1, <2>2, <3>1
  <2>3. CASE authorization[a].request # r
    BY <1>1, <2>1, <2>3
  <2>4. QED
    BY <2>2, <2>3
<1>7. SuppliersAgree'
  <2> SUFFICES ASSUME NEW a \in ReturnAuthorizations, Live(a), NEW q, q = authorization[a].request, Supplies(q)'
               PROVE  /\ request'[q].status = RequestStatus(authorization[a].status)
                      /\ \A b \in AuthorizationsOf(q) : Live(b) => b = a
    BY <1>2, <1>3 DEF SuppliersAgree
  <2>1. q \in ReturnRequests /\ a \in AuthorizationsOf(q)
    BY DEF SupplyShape, LiveWithinRequest, AuthorizationsOf
  <2>2. q # r
    <3> SUFFICES ASSUME q = r PROVE FALSE
      OBVIOUS
    <3>1. ~Supplies(r) /\ row.quantity = request[r].quantity
      BY <2>1
    <3>2. Supplies(r)' <=> Supplies(r)
      BY <1>1, <3>1 DEF Supplies, LinesIn
    <3>3. QED
      BY <3>1, <3>2
  <2>3. QED
    BY <1>1, <1>4, <2>1, <2>2 DEF SupplyShape, SuppliersAgree
<1>8. DraftedAreLive' /\ ExecutedWhole'
  BY <1>2 DEF SupplyShape, DraftedAreLive, ExecutedWhole
<1>9. ASSUME NEW q \in ReturnRequests \ {r}, NEW l PROVE Claim(q, l)' = Claim(q, l)
  <2>1. DraftedFor(q)' = DraftedFor(q) /\ request'[q] = request[q]
    BY <1>1, <1>3
  <2>2. QED
    BY <2>1 DEF Claim
<1>10. QED
  BY <1>1, <1>3, <1>5, <1>6, <1>7, <1>8, <1>9 DEF SupplyShape

\* A request that is created, revised or cancelled claims nothing.
LEMMA RequestStep ==
  ASSUME ReturnsInv, ReturnsInv', SupplyInv, NEW r \in ReturnRequests,
         \/ \E asked \in RequestQuantities : CreateRequest(r, asked) \/ ReviseRequest(r, asked)
         \/ CancelRequest(r)
  PROVE  SupplyInv'
<1>1. request \in [ReturnRequests -> RequestRow] /\ request[r] \in RequestRow
  BY DEF SupplyInv, SupplyShape
<1>2. ASSUME request[r].status \in {"none", "draft"} PROVE \A a \in AuthorizationsOf(r) : ~Live(a)
  BY <1>2 DEF SupplyInv, SupplyShape, LiveWithinRequest, AuthorizationsOf
<1>3. ASSUME Supplies(r), request[r].status = "submitted" PROVE \A a \in AuthorizationsOf(r) : ~Live(a)
  <2> SUFFICES ASSUME NEW a \in AuthorizationsOf(r), Live(a) PROVE FALSE
    OBVIOUS
  <2>1. request[r].status = RequestStatus(authorization[a].status)
    BY <1>3 DEF SupplyInv, SupplyShape, SuppliersAgree, AuthorizationsOf
  <2>2. QED
    BY <1>3, <2>1 DEF RequestStatus, Live, InForceStatuses
<1>4. ASSUME NEW row \in RequestRow, row.status \notin Asking,
             request' = [request EXCEPT ![r] = row], UNCHANGED <<source, authorization, posting>>,
             \A l, k \in LinesIn(row.quantity) : SourceDocument[l] = SourceDocument[k],
             \/ \A a \in AuthorizationsOf(r) : ~Live(a)
             \/ ~Supplies(r) /\ row.quantity = request[r].quantity /\ row.status \notin {"none", "draft"}
      PROVE  SupplyInv'
  <2>1. /\ SupplyShape'
        /\ \A q \in ReturnRequests \ {r} : \A l : Claim(q, l)' = Claim(q, l)
        /\ \A q : DraftedFor(q)' = DraftedFor(q)
    BY <1>4, RequestRewritten DEF SupplyInv
  <2>2. ClaimKnown /\ ClaimKnown'
    BY <2>1, ClaimFacts, ClaimFactsNext DEF SupplyInv
  <2>3. request'[r] = row
    BY <1>1, <1>4
  <2>4. ASSUME NEW l, SupplierLine(l) PROVE Claim(r, l)' <= Claim(r, l)
    <3>1. /\ Claim(r, l) \in Nat /\ Claim(r, l)' \in Nat
          /\ Claim(r, l)' <= row.quantity[l]
          /\ DraftedFor(r) = {} => Claim(r, l)' = 0
      BY <1>4, <2>1, <2>2, <2>3, <2>4 DEF ClaimKnown, SupplierLine
    <3>2. CASE \A a \in AuthorizationsOf(r) : ~Live(a)
      <4>1. DraftedFor(r) = {}
        BY <3>2 DEF DraftedFor, SupplyInv, SupplyShape, DraftedAreLive, AuthorizationsOf
      <4>2. QED
        BY <3>1, <4>1
    <3>3. CASE ~Supplies(r) /\ row.quantity = request[r].quantity
      <4>1. row.quantity[l] \in Nat
        BY <2>4, <3>3, <1>1 DEF RequestRow, Quantity, SupplierLine
      <4>2. row.quantity[l] = 0
        BY <2>4, <3>3, <4>1 DEF Supplies, LinesIn, SupplierLine
      <4>3. QED
        BY <3>1, <4>2
    <3>4. QED
      BY <1>4, <3>2, <3>3
  <2>5. \A q \in ReturnRequests : \A l : SupplierLine(l) => Claim(q, l)' <= Claim(q, l)
    <3>1. \A q \in ReturnRequests : \A l : SupplierLine(l) => Claim(q, l) \in Nat
      BY <2>2 DEF ClaimKnown
    <3>2. QED
      BY <2>1, <2>4, <3>1
  <2>6. ClaimsFit'
    BY <1>4, <2>2, <2>5, ClaimsShrink, SourceQuantities DEF SupplyInv
  <2>7. QED
    BY <2>1, <2>6 DEF SupplyInv
<1>5. ASSUME NEW asked \in RequestQuantities, CreateRequest(r, asked) \/ ReviseRequest(r, asked)
      PROVE  SupplyInv'
  <2> DEFINE row == [quantity |-> asked, status |-> "draft"]
  <2>1. asked \in Quantity
    BY ReturnAssumption DEF RequestQuantities, Quantity
  <2>2. row \in RequestRow /\ row.status = "draft" /\ row.quantity = asked
    BY <2>1 DEF RequestRow, RequestStatuses, OccupyingStatuses
  <2>3. request[r].status \in {"none", "draft"} /\ UNCHANGED <<source, authorization, posting>>
        /\ \A l, k \in LinesIn(asked) : SourceDocument[l] = SourceDocument[k]
    BY <1>5 DEF CreateRequest, ReviseRequest, RequestPlanAllows
  <2>4. request' = [request EXCEPT ![r] = row]
    <3>1. CASE CreateRequest(r, asked)
      BY <3>1 DEF CreateRequest
    <3>2. CASE ReviseRequest(r, asked)
      <4>1. request[r].status = "draft" /\ request' = [request EXCEPT ![r].quantity = asked]
        BY <3>2 DEF ReviseRequest
      <4>2. [request[r] EXCEPT !.quantity = asked] = row
        BY <1>1, <4>1 DEF RequestRow
      <4>3. QED
        BY <1>1, <4>1, <4>2
    <3>3. QED
      BY <1>5, <3>1, <3>2
  <2> HIDE DEF row
  <2>5. QED
    BY <1>2, <1>4, <2>2, <2>3, <2>4 DEF Asking
<1>6. CASE CancelRequest(r)
  <2> DEFINE row == [request[r] EXCEPT !.status = "cancelled"]
  <2>1. row \in RequestRow /\ row.status = "cancelled" /\ row.quantity = request[r].quantity
    BY <1>1 DEF RequestRow, RequestStatuses
  <2>2. /\ request' = [request EXCEPT ![r] = row] /\ UNCHANGED <<source, authorization, posting>>
        /\ request[r].status \in {"draft", "submitted"}
    BY <1>6 DEF CancelRequest
  <2> HIDE DEF row
  <2>3. \A l, k \in LinesIn(row.quantity) : SourceDocument[l] = SourceDocument[k]
    BY <2>1 DEF SupplyInv, SupplyShape, OneDocument
  <2>4. QED
    BY <1>2, <1>3, <1>4, <2>1, <2>2, <2>3 DEF Asking
<1>7. QED
  BY <1>5, <1>6

(***************************************************************************)
(* The commands about an authorization of a request, which write the       *)
(* status of both.                                                         *)
(***************************************************************************)
Governed(r, a, s) ==
  /\ r \in ReturnRequests /\ a \in ReturnAuthorizations
  /\ request' = [request EXCEPT ![r].status = s]
  /\ s \in RequestStatuses \ {"none", "draft"}
  /\ authorization' \in [ReturnAuthorizations -> AuthorizationRow]
  /\ \A b \in ReturnAuthorizations \ {a} : authorization'[b] = authorization[b]
  /\ authorization'[a].request = r
  /\ UNCHANGED source
  /\ \A b : Drafted(b)' <=> Drafted(b)
  /\ Live(a)' => \A l \in SourceLines : authorization'[a].quantity[l] <= request[r].quantity[l]
  /\ Drafted(a) => /\ Live(a)' /\ authorization[a].request = r
                   /\ authorization'[a].quantity = authorization[a].quantity
  /\ Supplies(r) => \A b \in AuthorizationsOf(r) : Live(b) => b = a
  /\ Supplies(r) /\ Live(a)' => s = RequestStatus(authorization'[a].status)
  /\ Supplies(r) /\ ~Drafted(a) /\ s \in Asking => request[r].status \in Asking

\* They keep the shape, and change only the status of that request.
LEMMA GovernedShape ==
  ASSUME ReturnsInv, SupplyShape, NEW r, NEW a, NEW s, Governed(r, a, s), ExecutedWhole'
  PROVE  /\ SupplyShape'
         /\ \A q \in ReturnRequests \ {r} : request'[q] = request[q]
         /\ request'[r].quantity = request[r].quantity /\ request'[r].status = s
         /\ \A q : DraftedFor(q)' = DraftedFor(q)
<1>1. r \in ReturnRequests /\ a \in ReturnAuthorizations
  BY DEF Governed
<1>2. /\ request' \in [ReturnRequests -> RequestRow]
      /\ request'[r].quantity = request[r].quantity /\ request'[r].status = s
      /\ \A q \in ReturnRequests \ {r} : request'[q] = request[q]
  <2>1. request[r] \in RequestRow /\ request \in [ReturnRequests -> RequestRow]
    BY <1>1 DEF SupplyShape
  <2>2. request' = [request EXCEPT ![r].status = s] /\ s \in RequestStatuses
    BY DEF Governed
  <2> DEFINE row == [request[r] EXCEPT !.status = s]
  <2>3. row \in RequestRow /\ row.quantity = request[r].quantity /\ row.status = s
    BY <2>1, <2>2 DEF RequestRow
  <2>4. request' = [request EXCEPT ![r] = row]
    BY <2>2
  <2> HIDE DEF row
  <2>5. QED
    BY <1>1, <2>1, <2>3, <2>4
<1>3. \A q \in ReturnRequests : request'[q].quantity = request[q].quantity /\ (Supplies(q)' <=> Supplies(q))
  BY <1>2 DEF Supplies, LinesIn
<1>4. \A q : DraftedFor(q)' = DraftedFor(q)
  <2>1. \A b \in ReturnAuthorizations : Drafted(b) => authorization'[b].request = authorization[b].request
    BY DEF Governed
  <2>2. QED
    BY <2>1 DEF DraftedFor, AuthorizationsOf, Governed
<1>5. \A b \in ReturnAuthorizations \ {a} : authorization'[b] = authorization[b] /\ (Live(b)' <=> Live(b))
  BY DEF Governed, Live
<1>6. OneDocument'
  BY <1>3 DEF SupplyShape, OneDocument, LinesIn
<1>7. LiveWithinRequest'
  <2> SUFFICES ASSUME NEW b \in ReturnAuthorizations, Live(b)'
               PROVE  /\ authorization'[b].request \in ReturnRequests
                      /\ request'[authorization'[b].request].status \notin {"none", "draft"}
                      /\ \A l \in SourceLines : authorization'[b].quantity[l]
                                                  <= request'[authorization'[b].request].quantity[l]
    BY DEF LiveWithinRequest
  <2>1. CASE b = a
    BY <1>1, <1>2, <2>1 DEF Governed
  <2>2. CASE b # a
    <3> DEFINE q == authorization[b].request
    <3>1. authorization'[b] = authorization[b] /\ Live(b)
      BY <1>5, <2>2
    <3>2. /\ q \in ReturnRequests /\ request[q].status \notin {"none", "draft"}
          /\ \A l \in SourceLines : authorization[b].quantity[l] <= request[q].quantity[l]
      BY <3>1 DEF SupplyShape, LiveWithinRequest
    <3>3. request'[q].status \notin {"none", "draft"} /\ request'[q].quantity = request[q].quantity
      BY <1>2, <3>2 DEF Governed
    <3>4. QED
      BY <3>1, <3>2, <3>3
  <2>3. QED
    BY <2>1, <2>2
<1>8. SuppliersAgree'
  <2> SUFFICES ASSUME NEW b \in ReturnAuthorizations, Live(b)', NEW q, q = authorization'[b].request, Supplies(q)'
               PROVE  /\ request'[q].status = RequestStatus(authorization'[b].status)
                      /\ \A c \in AuthorizationsOf(q)' : Live(c)' => c = b
    BY DEF SuppliersAgree
  <2>1. CASE q = r
    <3>1. \A c \in AuthorizationsOf(r)' : Live(c)' => c = a
      <4> SUFFICES ASSUME NEW c \in AuthorizationsOf(r)', Live(c)', c # a PROVE FALSE
        OBVIOUS
      <4>1. c \in AuthorizationsOf(r) /\ Live(c)
        BY <1>5 DEF AuthorizationsOf
      <4>2. QED
        BY <1>1, <1>3, <2>1, <4>1 DEF Governed
    <3>2. b = a
      BY <2>1, <3>1 DEF AuthorizationsOf
    <3>3. QED
      BY <1>1, <1>2, <1>3, <2>1, <3>1, <3>2 DEF Governed
  <2>2. CASE q # r
    <3>1. b # a /\ authorization[b].request = q /\ Live(b) /\ authorization'[b] = authorization[b]
      BY <1>5, <2>2 DEF Governed
    <3>2. q \in ReturnRequests
      BY <3>1 DEF SupplyShape, LiveWithinRequest
    <3>3. request'[q] = request[q] /\ Supplies(q)
      BY <1>2, <1>3, <2>2, <3>2
    <3>4. \A c \in AuthorizationsOf(q)' : Live(c)' => c \in AuthorizationsOf(q) /\ Live(c)
      <4> SUFFICES ASSUME NEW c \in AuthorizationsOf(q)', Live(c)' PROVE c \in AuthorizationsOf(q) /\ Live(c)
        OBVIOUS
      <4>1. c # a
        BY <2>2 DEF AuthorizationsOf, Governed
      <4>2. QED
        BY <1>5, <4>1 DEF AuthorizationsOf
    <3>5. QED
      BY <3>1, <3>3, <3>4 DEF SupplyShape, SuppliersAgree
  <2>3. QED
    BY <2>1, <2>2
<1>9. DraftedAreLive'
  <2> SUFFICES ASSUME NEW b \in ReturnAuthorizations, Drafted(b)' PROVE Live(b)'
    BY DEF DraftedAreLive
  <2>1. Drafted(b)
    BY DEF Governed
  <2>2. CASE b = a
    BY <2>1, <2>2 DEF Governed
  <2>3. CASE b # a
    BY <1>5, <2>1, <2>3 DEF SupplyShape, DraftedAreLive
  <2>4. QED
    BY <2>2, <2>3
<1>10. source' \in [SourceLines -> [quantity : Nat, posted : BOOLEAN]]
  BY DEF SupplyShape, Governed
<1>11. QED
  BY <1>2, <1>4, <1>6, <1>7, <1>8, <1>9, <1>10 DEF SupplyShape

\* They let no claim grow.
LEMMA GovernedStep ==
  ASSUME ReturnsInv, ReturnsInv', SupplyInv, NEW r, NEW a, NEW s, Governed(r, a, s), ExecutedWhole'
  PROVE  SupplyInv'
<1>1. SupplyShape
  BY DEF SupplyInv
<1>2. /\ SupplyShape'
      /\ \A q \in ReturnRequests \ {r} : request'[q] = request[q]
      /\ request'[r].quantity = request[r].quantity /\ request'[r].status = s
      /\ \A q : DraftedFor(q)' = DraftedFor(q)
  BY <1>1, GovernedShape
<1>3. ClaimKnown /\ ClaimKnown'
  BY <1>1, <1>2, ClaimFacts, ClaimFactsNext
<1>4. ASSUME NEW q \in ReturnRequests, NEW l, SupplierLine(l) PROVE Claim(q, l)' <= Claim(q, l)
  <2>1. /\ Claim(q, l) \in Nat /\ Claim(q, l)' \in Nat /\ Claim(q, l)' <= request[q].quantity[l]
        /\ \A b \in DraftedFor(q) : /\ Claim(q, l) = authorization[b].quantity[l]
                                    /\ Claim(q, l)' = authorization'[b].quantity[l]
    BY <1>2, <1>3, <1>4 DEF ClaimKnown, SupplierLine
  <2>2. DraftedFor(q) = {} =>
          /\ Claim(q, l) = IF request[q].status \in Asking THEN request[q].quantity[l] ELSE 0
          /\ Claim(q, l)' = IF request'[q].status \in Asking THEN request[q].quantity[l] ELSE 0
    BY <1>2, <1>3, <1>4 DEF ClaimKnown, SupplierLine
  <2>3. CASE DraftedFor(q) # {}
    <3>1. PICK b \in DraftedFor(q) : TRUE
      BY <2>3
    <3>2. authorization'[b].quantity = authorization[b].quantity
      BY <3>1 DEF DraftedFor, AuthorizationsOf, Governed
    <3>3. QED
      BY <2>1, <3>1, <3>2
  <2>4. CASE DraftedFor(q) = {} /\ q # r
    BY <1>2, <2>1, <2>2, <2>4
  <2>5. CASE DraftedFor(q) = {} /\ q = r
    <3>1. CASE Supplies(r)
      <4>1. ~Drafted(a) => (s \in Asking => request[r].status \in Asking)
        BY <3>1 DEF Governed
      <4>2. ~Drafted(a)
        BY <2>5 DEF DraftedFor, AuthorizationsOf, Governed
      <4>3. QED
        BY <1>2, <2>1, <2>2, <2>5, <4>1, <4>2
    <3>2. CASE ~Supplies(r)
      <4>1. request[r].quantity[l] \in Nat
        BY <1>3, <1>4, <2>5 DEF ClaimKnown
      <4>2. request[r].quantity[l] = 0
        BY <1>4, <3>2, <4>1 DEF Supplies, LinesIn, SupplierLine
      <4>3. QED
        BY <2>1, <2>5, <4>2
    <3>3. QED
      BY <3>1, <3>2
  <2>6. QED
    BY <2>3, <2>4, <2>5
<1>5. UNCHANGED source
  BY DEF Governed
<1>6. ClaimsFit'
  BY <1>1, <1>3, <1>4, <1>5, ClaimsShrink, SourceQuantities DEF SupplyInv
<1>7. QED
  BY <1>2, <1>6 DEF SupplyInv

\* Nothing becomes executed and nothing more is executed.
LEMMA WholeStays ==
  ASSUME ExecutedWhole,
         \A b \in ReturnAuthorizations : \A l \in SourceLines : ExecutedBy(posting', b, l) = ExecutedBy(posting, b, l),
         \A b \in ReturnAuthorizations : authorization'[b].status = "executed" =>
           authorization[b].status = "executed" /\ authorization'[b].quantity = authorization[b].quantity
  PROVE  ExecutedWhole'
BY DEF ExecutedWhole

\* A request to a supplier that is submitted has nothing live.
LEMMA SubmittedIsFree ==
  ASSUME SupplyShape, NEW r \in ReturnRequests, Supplies(r), request[r].status = "submitted"
  PROVE  \A b \in AuthorizationsOf(r) : ~Live(b)
<1> SUFFICES ASSUME NEW b \in AuthorizationsOf(r), Live(b) PROVE FALSE
  OBVIOUS
<1>1. request[r].status = RequestStatus(authorization[b].status)
  BY DEF SupplyShape, SuppliersAgree, AuthorizationsOf
<1>2. QED
  BY <1>1 DEF RequestStatus, Live, InForceStatuses

\* Such are authorizing, ...
LEMMA AuthorizeGoverns ==
  ASSUME ReturnsInv, ReturnsInv', SupplyShape, NEW r \in ReturnRequests, NEW a \in ReturnAuthorizations,
         NEW asked \in RequestQuantities, NEW deadline, NEW route, AuthorizeRequest(r, a, asked, route, deadline)
  PROVE  Governed(r, a, "authorized") /\ ExecutedWhole'
<1> DEFINE row == [request |-> r, quantity |-> asked, route |-> route,
                   status |-> "approved", deadline |-> deadline]
<1>1. /\ authorization[a].status = "none"
      /\ authorization' = [authorization EXCEPT ![a] = row]
      /\ request' = [request EXCEPT ![r].status = "authorized"]
      /\ UNCHANGED <<source, posting>>
      /\ AuthorizationPlanAllows(r, asked, route)
  BY DEF AuthorizeRequest
<1>2. row.request = r /\ row.quantity = asked /\ row.status = "approved"
  OBVIOUS
<1> HIDE DEF row
<1>3. /\ authorization'[a] = row
      /\ \A b \in ReturnAuthorizations \ {a} : authorization'[b] = authorization[b]
      /\ authorization' \in [ReturnAuthorizations -> AuthorizationRow]
  BY <1>1 DEF ReturnsInv
<1>4. asked \in Quantity /\ request[r].quantity \in Quantity
  BY ReturnAssumption DEF RequestQuantities, Quantity, SupplyShape, RequestRow
<1>5. /\ \A l \in LinesIn(asked) : asked[l] <= request[r].quantity[l]
      /\ LinesIn(asked) # {}
      /\ request[r].status # "submitted" =>
           /\ \A l \in LinesIn(asked) : ReturnType[l] = "customer_return"
           /\ request[r].status = "executed"
  BY <1>1 DEF AuthorizationPlanAllows
<1>6. ASSUME NEW l \in SourceLines PROVE asked[l] <= request[r].quantity[l]
  <2>1. asked[l] \in Nat /\ request[r].quantity[l] \in Nat
    BY <1>4 DEF Quantity
  <2>2. CASE asked[l] = 0
    BY <2>1, <2>2
  <2>3. CASE asked[l] # 0
    BY <1>5, <2>1, <2>3 DEF LinesIn
  <2>4. QED
    BY <2>2, <2>3
<1>7. ASSUME Supplies(r) PROVE request[r].status = "submitted"
  <2>1. PICK k \in LinesIn(request[r].quantity) : ReturnType[k] = "supplier_return"
    BY <1>7 DEF Supplies
  <2>2. PICK l \in LinesIn(asked) : TRUE
    BY <1>5
  <2>3. l \in SourceLines /\ k \in SourceLines /\ asked[l] > 0 /\ request[r].quantity[l] \in Nat /\ asked[l] \in Nat
    BY <1>4, <2>1, <2>2 DEF LinesIn, Quantity
  <2>4. l \in LinesIn(request[r].quantity)
    BY <1>6, <2>3 DEF LinesIn
  <2>5. SourceDocument[l] = SourceDocument[k]
    BY <2>1, <2>4 DEF SupplyShape, OneDocument
  <2>6. ReturnType[l] = "supplier_return"
    BY <2>1, <2>3, <2>5, ReturnAssumption
  <2>7. QED
    BY <1>5, <2>2, <2>6
<1>8. ~Live(a) /\ ~Drafted(a)
  BY <1>1 DEF Live, InForceStatuses, SupplyShape, DraftedAreLive
<1>9. \A b : Drafted(b)' <=> Drafted(b)
  BY <1>1 DEF Drafted
<1>10. Supplies(r) => \A b \in AuthorizationsOf(r) : ~Live(b)
  BY <1>7, SubmittedIsFree
<1>11. "authorized" \in RequestStatuses \ {"none", "draft"} /\ "submitted" \in Asking
       /\ RequestStatus("approved") = "authorized"
  BY DEF RequestStatuses, OccupyingStatuses, Asking, RequestStatus
<1>12. Governed(r, a, "authorized")
  BY <1>1, <1>2, <1>3, <1>6, <1>7, <1>8, <1>9, <1>10, <1>11 DEF Governed
<1>13. ExecutedWhole'
  <2>1. \A b \in ReturnAuthorizations : authorization'[b].status = "executed" =>
          authorization[b].status = "executed" /\ authorization'[b].quantity = authorization[b].quantity
    BY <1>2, <1>3
  <2>2. QED
    BY <1>1, <2>1, WholeStays DEF SupplyShape
<1>14. QED
  BY <1>12, <1>13

\* ... rejecting ...
LEMMA RejectGoverns ==
  ASSUME ReturnsInv, ReturnsInv', SupplyShape, NEW r \in ReturnRequests, NEW a \in ReturnAuthorizations,
         RejectRequest(r, a)
  PROVE  Governed(r, a, "rejected") /\ ExecutedWhole'
<1>1. /\ request[r].status = "submitted"
      /\ authorization[a].status = "none"
      /\ authorization' = [authorization EXCEPT ![a].request = r, ![a].status = "rejected"]
      /\ request' = [request EXCEPT ![r].status = "rejected"]
      /\ UNCHANGED <<source, posting>>
  BY DEF RejectRequest
<1>2. /\ authorization'[a].request = r /\ authorization'[a].status = "rejected"
      /\ \A b \in ReturnAuthorizations \ {a} : authorization'[b] = authorization[b]
      /\ authorization' \in [ReturnAuthorizations -> AuthorizationRow]
  <2>1. authorization[a] \in AuthorizationRow /\ authorization \in [ReturnAuthorizations -> AuthorizationRow]
    BY DEF ReturnsInv
  <2>2. authorization' \in [ReturnAuthorizations -> AuthorizationRow]
    BY DEF ReturnsInv
  <2> DEFINE asked == [authorization[a] EXCEPT !.request = r]
             row == [asked EXCEPT !.status = "rejected"]
  <2>3. row.request = r /\ row.status = "rejected"
    BY <2>1 DEF AuthorizationRow
  <2>4. authorization' = [authorization EXCEPT ![a] = row]
    BY <1>1, <2>1
  <2> HIDE DEF row
  <2>5. QED
    BY <2>1, <2>2, <2>3, <2>4
<1>3. ~Live(a) /\ ~Drafted(a) /\ ~Live(a)'
  BY <1>1, <1>2 DEF Live, InForceStatuses, SupplyShape, DraftedAreLive
<1>4. \A b : Drafted(b)' <=> Drafted(b)
  BY <1>1 DEF Drafted
<1>5. Supplies(r) => \A b \in AuthorizationsOf(r) : ~Live(b)
  BY <1>1, SubmittedIsFree
<1>6. "rejected" \in RequestStatuses \ {"none", "draft"} /\ "rejected" \notin Asking
  BY DEF RequestStatuses, OccupyingStatuses, Asking
<1>7. Governed(r, a, "rejected")
  BY <1>1, <1>2, <1>3, <1>4, <1>5, <1>6 DEF Governed
<1>8. ExecutedWhole'
  <2>1. \A b \in ReturnAuthorizations : authorization'[b].status = "executed" =>
          authorization[b].status = "executed" /\ authorization'[b].quantity = authorization[b].quantity
    BY <1>2
  <2>2. QED
    BY <1>1, <2>1, WholeStays DEF SupplyShape
<1>9. QED
  BY <1>7, <1>8

\* ... and cancelling or expiring an authorization, ...
LEMMA CloseGoverns ==
  ASSUME ReturnsInv, ReturnsInv', SupplyShape, NEW a \in ReturnAuthorizations,
         NEW status \in {"cancelled", "expired"}, CloseAuthorization(a, status)
  PROVE  Governed(authorization[a].request, a, "submitted") /\ ExecutedWhole'
<1> DEFINE r == authorization[a].request
<1>1. /\ authorization[a].status = "approved" /\ PostingsOf(a) = {}
      /\ authorization' = [authorization EXCEPT ![a].status = status]
      /\ request' = [request EXCEPT ![r].status = "submitted"]
      /\ UNCHANGED <<source, posting>>
  BY DEF CloseAuthorization, Unused
<1>2. /\ authorization'[a].request = r /\ authorization'[a].status = status
      /\ \A b \in ReturnAuthorizations \ {a} : authorization'[b] = authorization[b]
      /\ authorization' \in [ReturnAuthorizations -> AuthorizationRow]
  <2>1. authorization[a] \in AuthorizationRow /\ authorization \in [ReturnAuthorizations -> AuthorizationRow]
        /\ authorization' \in [ReturnAuthorizations -> AuthorizationRow]
    BY DEF ReturnsInv
  <2> DEFINE row == [authorization[a] EXCEPT !.status = status]
  <2>2. row.request = r /\ row.status = status
    BY <2>1 DEF AuthorizationRow
  <2>3. authorization' = [authorization EXCEPT ![a] = row]
    BY <1>1
  <2> HIDE DEF row, r
  <2>4. QED
    BY <2>1, <2>2, <2>3
<1>3. Live(a) /\ ~Drafted(a) /\ ~Live(a)'
  BY <1>1, <1>2 DEF Live, InForceStatuses, Drafted, PostingsOf
<1>4. \A b : Drafted(b)' <=> Drafted(b)
  BY <1>1 DEF Drafted
<1>5. r \in ReturnRequests
  BY <1>3 DEF SupplyShape, LiveWithinRequest
<1>6. ASSUME Supplies(r)
      PROVE  request[r].status \in Asking /\ \A b \in AuthorizationsOf(r) : Live(b) => b = a
  BY <1>1, <1>3, <1>6 DEF SupplyShape, SuppliersAgree, RequestStatus, Asking
<1>7. "submitted" \in RequestStatuses \ {"none", "draft"}
  BY DEF RequestStatuses, OccupyingStatuses
<1> HIDE DEF r
<1>8. Governed(r, a, "submitted")
  BY <1>1, <1>2, <1>3, <1>4, <1>5, <1>6, <1>7 DEF Governed
<1>9. ExecutedWhole'
  <2>1. \A b \in ReturnAuthorizations : authorization'[b].status = "executed" =>
          authorization[b].status = "executed" /\ authorization'[b].quantity = authorization[b].quantity
    BY <1>2
  <2>2. QED
    BY <1>1, <2>1, WholeStays DEF SupplyShape
<1>10. QED
  BY <1>8, <1>9 DEF r

-----------------------------------------------------------------------------
\* What is executed when a posting is posted or reversed

\* The units executed under an authorization, by line.
Done(rows, a) == [l \in SourceLines |-> ExecutedBy(rows, a, l)]

\* What a command that posts or reverses does to the row of the posting.
LEMMA PostingMarked ==
  ASSUME ReturnsInv, NEW p \in ReturnPostings, NEW kind, PostReturn(kind, p) \/ ReverseReturn(kind, p)
  PROVE  /\ posting[p].authorization \in ReturnAuthorizations
         /\ posting'[p].authorization = posting[p].authorization
         /\ posting'[p].quantity = posting[p].quantity
         /\ \A q \in ReturnPostings \ {p} : posting'[q] = posting[q]
         /\ PostReturn(kind, p) => posting[p].postingStatus = "unposted" /\ posting'[p].postingStatus = "posted"
         /\ ReverseReturn(kind, p) => posting[p].postingStatus = "posted" /\ posting'[p].postingStatus = "reversed"
<1>1. /\ posting[p].postingStatus # "none" /\ Stands(p)
      /\ \A q \in ReturnPostings \ {p} : posting'[q] = posting[q]
  BY ReturnWritten
<1>2. PostReturn(kind, p) => posting[p].postingStatus = "unposted" /\ posting'[p].postingStatus = "posted"
  <2>1. SUFFICES ASSUME PostReturn(kind, p) PROVE posting[p].postingStatus = "unposted" /\ p \in PostedReturns'
    BY DEF PostedReturns, Posted
  <2>2. QED
    BY <2>1, ReturnWritten DEF PostReturn, OpenReturn
<1>3. ReverseReturn(kind, p) => posting[p].postingStatus = "posted" /\ posting'[p].postingStatus = "reversed"
  BY DEF ReverseReturn, Posted, ReturnsInv, PostingRow
<1>4. posting[p].authorization \in ReturnAuthorizations
  BY <1>1 DEF ReturnsInv, PostingsAreNamed, Authorized
<1>5. QED
  BY <1>1, <1>2, <1>3, <1>4 DEF Stands

\* Only its own authorization executes it.
LEMMA OthersExecuteTheSame ==
  ASSUME ReturnsInv, NEW p \in ReturnPostings, NEW kind, PostReturn(kind, p) \/ ReverseReturn(kind, p),
         ReturnsInv', NEW b, b # posting[p].authorization, NEW l \in SourceLines
  PROVE  ExecutedBy(posting', b, l) = ExecutedBy(posting, b, l)
<1>1. /\ posting'[p].authorization = posting[p].authorization
      /\ \A q \in ReturnPostings \ {p} : posting'[q] = posting[q]
  BY PostingMarked
<1>2. ExecutedUnder(posting', b, l) = ExecutedUnder(posting, b, l)
  BY <1>1 DEF ExecutedUnder
<1>3. posting \in [ReturnPostings -> PostingRow] /\ posting' \in [ReturnPostings -> PostingRow]
  BY DEF ReturnsInv
<1>4. QED
  BY <1>2, <1>3, ExecutedSums

\* A posting adds its units of a line to what its authorization executed.
LEMMA PostingAdds ==
  ASSUME ReturnsInv, ReturnsInv', NEW p \in ReturnPostings, NEW kind, PostReturn(kind, p), NEW l \in SourceLines
  PROVE  LET a == posting[p].authorization
         IN  /\ ExecutedBy(posting', a, l) = ExecutedBy(posting, a, l) + posting[p].quantity[l]
             /\ ExecutedBy(posting, a, l) \in Nat /\ ExecutedBy(posting', a, l) \in Nat
             /\ posting[p].quantity[l] \in Nat
<1> DEFINE a == posting[p].authorization
           before == ExecutedUnder(posting, a, l)
           after == ExecutedUnder(posting', a, l)
<1>1. /\ posting'[p].authorization = a /\ posting'[p].quantity = posting[p].quantity
      /\ \A q \in ReturnPostings \ {p} : posting'[q] = posting[q]
      /\ posting[p].postingStatus = "unposted" /\ posting'[p].postingStatus = "posted"
  BY PostingMarked
<1>2. posting \in [ReturnPostings -> PostingRow] /\ posting' \in [ReturnPostings -> PostingRow]
  BY DEF ReturnsInv
<1>3. posting[p].quantity[l] \in Nat
  BY <1>2 DEF PostingRow, Quantity
<1>4. before[p] = 0 /\ after[p] = posting[p].quantity[l] /\ \A q \in ReturnPostings \ {p} : after[q] = before[q]
  BY <1>1 DEF ExecutedUnder
<1>5. /\ before \in [ReturnPostings -> Nat] /\ after \in [ReturnPostings -> Nat]
      /\ ExecutedBy(posting, a, l) = Total(before) /\ ExecutedBy(posting, a, l) \in Nat
      /\ ExecutedBy(posting', a, l) = Total(after) /\ ExecutedBy(posting', a, l) \in Nat
  BY <1>2, ExecutedSums
<1> HIDE DEF a, before, after
<1>6. Total(after) = Total(before) - before[p] + after[p]
  BY <1>4, <1>5, TotalChange, ReturnAssumption
<1>7. /\ ExecutedBy(posting', a, l) = ExecutedBy(posting, a, l) + posting[p].quantity[l]
      /\ ExecutedBy(posting, a, l) \in Nat /\ ExecutedBy(posting', a, l) \in Nat
  BY <1>3, <1>4, <1>5, <1>6
<1>8. QED
  BY <1>3, <1>7 DEF a

\* The number a posting writes the statuses by is what is executed then.
LEMMA PostingCounts ==
  ASSUME ReturnsInv, ReturnsInv', NEW p \in ReturnPostings, NEW kind, PostReturn(kind, p)
  PROVE  WriteStatuses(posting[p].authorization, Total(Done(posting', posting[p].authorization)))
<1> DEFINE a == posting[p].authorization
<1>1. WriteStatuses(a, ExecutedOf(PostingsOf(a)) + Total(posting[p].quantity))
  BY DEF PostReturn
<1>2. \A l \in SourceLines :
        /\ ExecutedBy(posting', a, l) = ExecutedBy(posting, a, l) + posting[p].quantity[l]
        /\ ExecutedBy(posting, a, l) \in Nat /\ ExecutedBy(posting', a, l) \in Nat
        /\ posting[p].quantity[l] \in Nat
  BY PostingAdds
<1>3. posting[p].quantity \in [SourceLines -> Nat]
  BY DEF ReturnsInv, PostingRow, Quantity
<1>4. ExecutedOf(PostingsOf(a)) = Total(Done(posting, a))
  <2>1. \A l : PostedOn(PostingsOf(a), l) = ExecutedBy(posting, a, l)
    BY DEF ExecutedBy, PostedOn, PostingsOf, Posted
  <2> HIDE DEF a
  <2>2. [l \in SourceLines |-> PostedOn(PostingsOf(a), l)] = Done(posting, a)
    BY <2>1 DEF Done
  <2>3. QED
    BY <2>2 DEF ExecutedOf
<1> HIDE DEF a
<1>5. /\ Done(posting, a) \in [SourceLines -> Nat] /\ Done(posting', a) \in [SourceLines -> Nat]
      /\ \A l \in SourceLines : Done(posting', a)[l] = Done(posting, a)[l] + posting[p].quantity[l]
  BY <1>2 DEF Done
<1>6. Total(Done(posting', a)) = Total(Done(posting, a)) + Total(posting[p].quantity)
  BY <1>3, <1>5, TotalAdd, ReturnAssumption
<1>7. QED
  BY <1>1, <1>4, <1>6 DEF a

\* So is the number a reversal writes them by.
LEMMA ReversalCounts ==
  ASSUME ReturnsInv, ReturnsInv', NEW p \in ReturnPostings, NEW kind, ReverseReturn(kind, p)
  PROVE  WriteStatuses(posting[p].authorization, Total(Done(posting', posting[p].authorization)))
<1> DEFINE a == posting[p].authorization
           others == PostingsOf(a) \ {p}
<1>1. WriteStatuses(a, ExecutedOf(others))
  BY DEF ReverseReturn
<1>2. /\ posting'[p].authorization = a
      /\ \A q \in ReturnPostings \ {p} : posting'[q] = posting[q]
      /\ posting'[p].postingStatus = "reversed"
  BY PostingMarked
<1>3. posting \in [ReturnPostings -> PostingRow] /\ posting' \in [ReturnPostings -> PostingRow]
  BY DEF ReturnsInv
<1>4. ASSUME NEW l \in SourceLines PROVE PostedOn(others, l) = ExecutedBy(posting', a, l)
  <2> DEFINE part == [q \in others |-> IF Posted(q) THEN posting[q].quantity[l] ELSE 0]
             after == ExecutedUnder(posting', a, l)
  <2>1. \A q \in ReturnPostings : posting[q].quantity[l] \in Nat
    BY <1>3 DEF PostingRow, Quantity
  <2>2. others \in SUBSET ReturnPostings /\ part \in [others -> Nat]
    BY <2>1 DEF PostingsOf
  <2>3. \A q \in others : after[q] = part[q]
    BY <1>2 DEF ExecutedUnder, PostingsOf, Posted
  <2>4. \A q \in ReturnPostings \ others : after[q] = 0
    BY <1>2 DEF ExecutedUnder, PostingsOf
  <2>5. after \in [ReturnPostings -> Nat] /\ ExecutedBy(posting', a, l) = Total(after)
    BY <1>3, ExecutedSums
  <2>6. PostedOn(others, l) = Total(part)
    BY DEF PostedOn
  <2> HIDE DEF part, after, others, a
  <2>7. Total(after) = Total(part)
    BY <2>2, <2>3, <2>4, <2>5, TotalExtend
  <2>8. QED
    BY <2>5, <2>6, <2>7
<1> HIDE DEF others, a
<1>5. [l \in SourceLines |-> PostedOn(others, l)] = Done(posting', a)
  BY <1>4 DEF Done
<1>6. QED
  BY <1>1, <1>5 DEF ExecutedOf, a

(***************************************************************************)
(* An authorization is executed only when every line of it is.             *)
(***************************************************************************)
LEMMA ReturnExecutesWhole ==
  ASSUME ReturnsInv, ReturnsInv', SupplyShape, NEW p \in ReturnPostings, NEW kind,
         PostReturn(kind, p) \/ ReverseReturn(kind, p)
  PROVE  ExecutedWhole'
<1> DEFINE a == posting[p].authorization
           done == Done(posting', a)
           asked == authorization[a].quantity
<1>1. a \in ReturnAuthorizations
  BY PostingMarked
<1>2. WriteStatuses(a, Total(done))
  BY PostingCounts, ReversalCounts
<1> DEFINE row == [authorization[a] EXCEPT !.status = AuthorizationStatus(a, Total(done))]
<1>3. /\ row.status = AuthorizationStatus(a, Total(done))
      /\ row.quantity = asked
      /\ authorization' = [authorization EXCEPT ![a] = row]
      /\ asked \in [SourceLines -> Nat]
  BY <1>1, <1>2 DEF WriteStatuses, ReturnsInv, AuthorizationRow, Quantity
<1> HIDE DEF row
<1>4. /\ authorization'[a] = row
      /\ \A b \in ReturnAuthorizations \ {a} : authorization'[b] = authorization[b]
  BY <1>1, <1>3 DEF ReturnsInv
<1>5. ASSUME NEW b \in ReturnAuthorizations, authorization'[b].status = "executed", NEW l \in SourceLines
      PROVE  ExecutedBy(posting', b, l) = authorization'[b].quantity[l]
  <2>1. CASE b # a
    <3>1. ExecutedBy(posting', b, l) = ExecutedBy(posting, b, l)
      BY <2>1, OthersExecuteTheSame
    <3>2. QED
      BY <1>4, <1>5, <2>1, <3>1 DEF SupplyShape, ExecutedWhole
  <2>2. CASE b = a
    <3>1. Total(done) >= Total(asked)
      BY <1>3, <1>4, <1>5, <2>2 DEF AuthorizationStatus
    <3>2. \A k \in SourceLines : /\ done[k] = ExecutedBy(posting', a, k)
                                 /\ done[k] \in Nat /\ done[k] <= asked[k]
      <4> SUFFICES ASSUME NEW k \in SourceLines
                   PROVE  ExecutedBy(posting', a, k) \in Nat /\ ExecutedBy(posting', a, k) <= asked[k]
        BY DEF Done
      <4>1. ExecutedBy(posting', a, k) \in Nat
        BY ExecutedSums DEF ReturnsInv
      <4>2. authorization'[a].quantity = asked
        BY <1>3, <1>4
      <4>3. \A z, j : PostedOn(PostingsOf(z), j)' = ExecutedBy(posting', z, j)
        BY DEF ExecutedBy, PostedOn, PostingsOf, Posted
      <4>4. \A z \in ReturnAuthorizations, j \in SourceLines :
              ExecutedBy(posting', z, j) <= authorization'[z].quantity[j]
        BY <4>3 DEF ReturnsInv, PostedWithinAuthorized
      <4> HIDE DEF a
      <4>5. QED
        BY <1>1, <4>1, <4>2, <4>4
    <3>3. done \in [SourceLines -> Nat]
      BY <3>2 DEF Done
    <3> HIDE DEF done, asked
    <3>4. done[l] = asked[l]
      BY <1>3, <3>1, <3>2, <3>3, TotalEqual, ReturnAssumption
    <3>5. QED
      BY <1>3, <1>4, <2>2, <3>2, <3>4
  <2>3. QED
    BY <2>1, <2>2
<1>6. QED
  BY <1>5 DEF ExecutedWhole

\* ... and posting or reversing under one.
LEMMA ReturnGoverns ==
  ASSUME ReturnsInv, ReturnsInv', SupplyShape, NEW p \in ReturnPostings, NEW kind,
         PostReturn(kind, p) \/ ReverseReturn(kind, p)
  PROVE  \E r, a, s : Governed(r, a, s)
<1>0. PICK a, r : a = posting[p].authorization /\ r = authorization[a].request
  OBVIOUS
<1> DEFINE done == Done(posting', a)
           status == AuthorizationStatus(a, Total(done))
           s == RequestStatus(status)
<1>1. /\ a \in ReturnAuthorizations
      /\ posting'[p].authorization = a
      /\ posting[p].postingStatus # "none" /\ posting'[p].postingStatus # "none"
      /\ \A q \in ReturnPostings \ {p} : posting'[q] = posting[q]
  BY <1>0, PostingMarked
<1>2. WriteStatuses(a, Total(done))
  BY <1>0, PostingCounts, ReversalCounts
<1> DEFINE row == [authorization[a] EXCEPT !.status = status]
<1>3. row.status = status /\ row.quantity = authorization[a].quantity /\ row.request = r
  BY <1>0, <1>1 DEF ReturnsInv, AuthorizationRow
<1>4. /\ authorization' = [authorization EXCEPT ![a] = row]
      /\ request' = [request EXCEPT ![r].status = s]
      /\ UNCHANGED source
  BY <1>0, <1>2 DEF WriteStatuses
<1>5. status \in InForceStatuses \cup {"executed"}
  BY DEF AuthorizationStatus, InForceStatuses
<1>6. s \in RequestStatuses \ {"none", "draft"}
  BY <1>5 DEF RequestStatus, InForceStatuses, RequestStatuses, OccupyingStatuses
<1> HIDE DEF row, status
<1>7. /\ authorization'[a] = row
      /\ \A b \in ReturnAuthorizations \ {a} : authorization'[b] = authorization[b]
      /\ authorization' \in [ReturnAuthorizations -> AuthorizationRow]
  BY <1>1, <1>4 DEF ReturnsInv
<1>8. Drafted(a) /\ Live(a) /\ Live(a)'
  <2>1. Drafted(a)
    BY <1>0, <1>1 DEF Drafted
  <2>2. Live(a)
    BY <1>1, <2>1 DEF SupplyShape, DraftedAreLive
  <2>3. Live(a)'
    BY <1>3, <1>5, <1>7 DEF Live
  <2>4. QED
    BY <2>1, <2>2, <2>3
<1>9. \A b : Drafted(b)' <=> Drafted(b)
  <2>1. \A q \in ReturnPostings : /\ posting'[q].authorization = posting[q].authorization
                                  /\ posting'[q].postingStatus # "none" <=> posting[q].postingStatus # "none"
    BY <1>0, <1>1
  <2>2. QED
    BY <2>1 DEF Drafted
<1>10. /\ r \in ReturnRequests
       /\ \A l \in SourceLines : authorization[a].quantity[l] <= request[r].quantity[l]
  BY <1>0, <1>1, <1>8 DEF SupplyShape, LiveWithinRequest
<1>11. Supplies(r) => \A b \in AuthorizationsOf(r) : Live(b) => b = a
  BY <1>0, <1>1, <1>8 DEF SupplyShape, SuppliersAgree
<1>12. s = RequestStatus(authorization'[a].status)
  BY <1>3, <1>7
<1> HIDE DEF s
<1>13. authorization[a].request = r /\ authorization'[a].request = r
       /\ authorization'[a].quantity = authorization[a].quantity
  BY <1>0, <1>3, <1>7
<1>14. Governed(r, a, s)
  BY <1>1, <1>4, <1>6, <1>7, <1>8, <1>9, <1>10, <1>11, <1>12, <1>13 DEF Governed
<1>15. QED
  BY <1>14

-----------------------------------------------------------------------------
\* Commands that write no request and no status

(***************************************************************************)
(* Requests, quantities, statuses and what is executed are as before; only *)
(* authorizations in force get drafts.                                     *)
(***************************************************************************)
Framed ==
  /\ request' = request
  /\ source' \in [SourceLines -> [quantity : Nat, posted : BOOLEAN]]
  /\ \A l \in SourceLines : source'[l].quantity = source[l].quantity
  /\ \A a \in ReturnAuthorizations :
       /\ authorization'[a].request = authorization[a].request
       /\ authorization'[a].quantity = authorization[a].quantity
       /\ authorization'[a].status = authorization[a].status
       /\ Drafted(a) => Drafted(a)'
       /\ Drafted(a)' => Drafted(a) \/ InForce(a)
       /\ \A l \in SourceLines : ExecutedBy(posting', a, l) = ExecutedBy(posting, a, l)

\* No claim grows: the first draft under an authorization is no more than was asked for.
LEMMA FramedStep ==
  ASSUME ReturnsInv, ReturnsInv', SupplyInv, Framed
  PROVE  SupplyInv'
<1>1. SupplyShape
  BY DEF SupplyInv
<1>2. \A a \in ReturnAuthorizations : Live(a)' <=> Live(a)
  BY DEF Framed, Live
<1>3. \A r : AuthorizationsOf(r)' = AuthorizationsOf(r) /\ (Supplies(r)' <=> Supplies(r))
  BY DEF Framed, AuthorizationsOf, Supplies, LinesIn
<1>4. \A r : DraftedFor(r) \subseteq DraftedFor(r)'
  BY <1>3 DEF Framed, DraftedFor, AuthorizationsOf
<1>5. SupplyShape'
  <2>1. OneDocument'
    BY <1>1 DEF SupplyShape, OneDocument, Framed, LinesIn
  <2>2. LiveWithinRequest'
    BY <1>1, <1>2 DEF SupplyShape, LiveWithinRequest, Framed
  <2>3. SuppliersAgree'
    <3> SUFFICES ASSUME NEW a \in ReturnAuthorizations, Live(a), NEW r, r = authorization[a].request, Supplies(r)
                 PROVE  /\ request[r].status = RequestStatus(authorization[a].status)
                        /\ \A b \in AuthorizationsOf(r) : Live(b)' => b = a
      BY <1>2, <1>3 DEF SuppliersAgree, Framed
    <3>1. /\ request[r].status = RequestStatus(authorization[a].status)
          /\ \A b \in AuthorizationsOf(r) : Live(b) => b = a
      BY <1>1 DEF SupplyShape, SuppliersAgree
    <3>2. QED
      BY <1>2, <3>1 DEF AuthorizationsOf
  <2>4. DraftedAreLive'
    BY <1>1, <1>2 DEF SupplyShape, DraftedAreLive, Framed, InForce, Live
  <2>5. ExecutedWhole'
    BY <1>1, WholeStays DEF SupplyShape, Framed
  <2>6. QED
    BY <1>1, <2>1, <2>2, <2>3, <2>4, <2>5 DEF SupplyShape, Framed
<1>6. ClaimKnown /\ ClaimKnown'
  BY <1>1, <1>5, ClaimFacts, ClaimFactsNext
<1>7. ASSUME NEW r \in ReturnRequests, NEW l, SupplierLine(l) PROVE Claim(r, l)' <= Claim(r, l)
  <2>1. /\ Claim(r, l) \in Nat /\ Claim(r, l)' \in Nat /\ Claim(r, l)' <= request[r].quantity[l]
        /\ request[r].quantity[l] \in Nat
        /\ \A b \in DraftedFor(r) : Claim(r, l) = authorization[b].quantity[l]
        /\ \A b \in DraftedFor(r)' : Claim(r, l)' = authorization'[b].quantity[l]
    BY <1>6, <1>7 DEF ClaimKnown, SupplierLine, Framed
  <2>2. /\ DraftedFor(r) = {} =>
             Claim(r, l) = IF request[r].status \in Asking THEN request[r].quantity[l] ELSE 0
        /\ DraftedFor(r)' = {} =>
             Claim(r, l)' = IF request[r].status \in Asking THEN request[r].quantity[l] ELSE 0
    BY <1>6, <1>7 DEF ClaimKnown, SupplierLine, Framed
  <2>3. CASE DraftedFor(r) # {}
    <3>1. PICK b \in DraftedFor(r) : TRUE
      BY <2>3
    <3>2. b \in DraftedFor(r)' /\ authorization'[b].quantity = authorization[b].quantity
      BY <1>4, <3>1 DEF DraftedFor, AuthorizationsOf, Framed
    <3>3. QED
      BY <2>1, <3>1, <3>2
  <2>4. CASE DraftedFor(r)' = {}
    <3>1. DraftedFor(r) = {}
      BY <1>4, <2>4
    <3>2. QED
      BY <2>1, <2>2, <2>4, <3>1
  <2>5. CASE DraftedFor(r) = {} /\ DraftedFor(r)' # {}
    <3>1. PICK b \in DraftedFor(r)' : TRUE
      BY <2>5
    <3>2. b \in AuthorizationsOf(r) /\ InForce(b)
      <4>1. b \in AuthorizationsOf(r) /\ b \in ReturnAuthorizations /\ Drafted(b)'
        BY <1>3, <3>1 DEF DraftedFor, AuthorizationsOf
      <4>2. ~Drafted(b)
        BY <2>5, <4>1 DEF DraftedFor
      <4>3. QED
        BY <4>1, <4>2 DEF Framed
    <3>3. CASE Supplies(r)
      <4>1. request[r].status = RequestStatus(authorization[b].status)
        BY <1>1, <3>2, <3>3 DEF SupplyShape, SuppliersAgree, AuthorizationsOf, InForce, Live
      <4>2. request[r].status \in Asking
        BY <3>2, <4>1 DEF InForce, InForceStatuses, RequestStatus, Asking
      <4>3. QED
        BY <2>1, <2>2, <2>5, <4>2
    <3>4. CASE ~Supplies(r)
      <4>1. request[r].quantity[l] = 0
        BY <1>7, <2>1, <3>4 DEF Supplies, LinesIn, SupplierLine
      <4>2. QED
        BY <2>1, <4>1
    <3>5. QED
      BY <3>3, <3>4
  <2>6. QED
    BY <2>3, <2>4, <2>5
<1>8. \A l : SupplierLine(l) => source'[l].quantity = source[l].quantity
  BY DEF Framed, SupplierLine
<1>9. ClaimsFit'
  BY <1>1, <1>6, <1>7, <1>8, ClaimsShrink, SourceQuantities DEF SupplyInv
<1>10. QED
  BY <1>5, <1>9 DEF SupplyInv

\* The commands about drafts are such commands.
LEMMA DraftsFramed ==
  ASSUME ReturnsInv, ReturnsInv', SupplyShape, NEW p \in ReturnPostings, NEW kind,
         \/ \E a \in ReturnAuthorizations : \E asked, key : CreateReturnDraft(kind, p, a, asked, key)
         \/ \E asked, key : ReviseReturnDraft(kind, p, asked, key)
         \/ ReadyReturn(kind, p) \/ CancelReturn(kind, p)
  PROVE  Framed
<1>1. UNCHANGED governanceVars /\ NothingReturned
  BY DraftsStand DEF CreateReturnDraft, ReviseReturnDraft, ReadyReturn, CancelReturn
<1>2. posting \in [ReturnPostings -> PostingRow] /\ posting[p] \in PostingRow
  BY DEF ReturnsInv
<1>3. PICK a \in ReturnAuthorizations :
        /\ \A q \in ReturnPostings : q # p => posting'[q] = posting[q]
        /\ posting'[p].authorization = a /\ posting'[p].postingStatus # "none"
        /\ posting[p].postingStatus = "none" => InForce(a)
        /\ posting[p].postingStatus # "none" => posting[p].authorization = a
  <2> DEFINE Written(a) == /\ \A q \in ReturnPostings : q # p => posting'[q] = posting[q]
                           /\ posting'[p].authorization = a /\ posting'[p].postingStatus # "none"
                           /\ posting[p].postingStatus = "none" => InForce(a)
                           /\ posting[p].postingStatus # "none" => posting[p].authorization = a
  <2>1. ASSUME NEW a \in ReturnAuthorizations, NEW asked, NEW key, CreateReturnDraft(kind, p, a, asked, key)
        PROVE  Written(a)
    BY <1>2, <2>1 DEF CreateReturnDraft, NoPosting, DraftPlanAllows
  <2>2. ASSUME posting[p].postingStatus = "unposted" PROVE posting[p].authorization \in ReturnAuthorizations
    BY <2>2 DEF ReturnsInv, PostingsAreNamed, Authorized
  <2>3. ASSUME NEW asked, NEW key, ReviseReturnDraft(kind, p, asked, key)
        PROVE  posting[p].authorization \in ReturnAuthorizations /\ Written(posting[p].authorization)
    BY <1>2, <2>2, <2>3 DEF ReviseReturnDraft, OpenReturn, PostingRow
  <2>4. ASSUME ReadyReturn(kind, p) \/ CancelReturn(kind, p)
        PROVE  posting[p].authorization \in ReturnAuthorizations /\ Written(posting[p].authorization)
    BY <1>2, <2>2, <2>4 DEF ReadyReturn, CancelReturn, OpenReturn, PostingRow
  <2>5. \E a \in ReturnAuthorizations : Written(a)
    BY <2>1, <2>3, <2>4
  <2>6. QED
    BY <2>5
<1>4. \A b \in ReturnAuthorizations : /\ Drafted(b) => Drafted(b)'
                                      /\ Drafted(b)' => Drafted(b) \/ InForce(b)
  BY <1>3 DEF Drafted
<1>5. ASSUME NEW b \in ReturnAuthorizations, NEW l \in SourceLines
      PROVE  ExecutedBy(posting', b, l) = ExecutedBy(posting, b, l)
  <2>1. \A q \in ReturnPostings : /\ posting'[q].postingStatus = "posted" <=> posting[q].postingStatus = "posted"
                                  /\ posting[q].postingStatus = "posted" =>
                                       /\ posting'[q].authorization = posting[q].authorization
                                       /\ posting'[q].quantity = posting[q].quantity
    BY <1>1 DEF NothingReturned, PostedReturns, Posted, Stands
  <2>2. ExecutedUnder(posting', b, l) = ExecutedUnder(posting, b, l)
    BY <2>1 DEF ExecutedUnder
  <2>3. posting' \in [ReturnPostings -> PostingRow]
    BY DEF ReturnsInv
  <2>4. QED
    BY <1>2, <2>2, <2>3, ExecutedSums
<1>6. QED
  BY <1>1, <1>4, <1>5 DEF Framed, governanceVars, SupplyShape

-----------------------------------------------------------------------------
\* What was sent back, by request

PostedUnits(l) == [p \in ReturnPostings |-> IF Posted(p) THEN posting[p].quantity[l] ELSE 0]
RequestBehind == [p \in ReturnPostings |-> authorization[posting[p].authorization].request]
Sent(r, l) == Total(Share(RequestBehind, r, PostedUnits(l)))

\* Who posts units of a line to a supplier does so for a request about it.
LEMMA SentFor ==
  ASSUME ReturnsInv, SupplyShape, NEW l, SupplierLine(l), NEW p \in ReturnPostings, PostedUnits(l)[p] # 0
  PROVE  LET a == posting[p].authorization
             r == authorization[a].request
         IN  r \in ReturnRequests /\ a \in DraftedFor(r) /\ Supplies(r)
<1> DEFINE a == posting[p].authorization
           r == authorization[a].request
<1>1. Posted(p) /\ posting[p].quantity[l] # 0 /\ l \in SourceLines
  BY DEF PostedUnits, SupplierLine
<1>2. a \in ReturnAuthorizations /\ LinesIn(posting[p].quantity) \subseteq LinesIn(authorization[a].quantity)
  BY <1>1 DEF ReturnsInv, PostingsAreNamed, Authorized, Posted
<1>3. Drafted(a)
  BY <1>1 DEF Drafted, Posted
<1>4. r \in ReturnRequests /\ authorization[a].quantity[l] <= request[r].quantity[l]
  BY <1>1, <1>2, <1>3 DEF SupplyShape, DraftedAreLive, LiveWithinRequest
<1>5. /\ posting[p].quantity[l] \in Nat /\ request[r].quantity[l] \in Nat
      /\ authorization[a].quantity[l] \in Nat
  BY <1>1, <1>2, <1>4 DEF ReturnsInv, PostingRow, AuthorizationRow, Quantity, SupplyShape, RequestRow
<1>6. authorization[a].quantity[l] > 0
  BY <1>1, <1>2, <1>5 DEF LinesIn
<1>7. Supplies(r)
  <2>1. request[r].quantity[l] > 0
    BY <1>4, <1>5, <1>6
  <2> HIDE DEF r
  <2>2. QED
    BY <1>1, <2>1 DEF Supplies, LinesIn, SupplierLine
<1>8. QED
  BY <1>2, <1>3, <1>4, <1>7 DEF DraftedFor, AuthorizationsOf

\* Posted units are natural numbers.
LEMMA PostedUnitsNat ==
  ASSUME ReturnsInv, NEW l, SupplierLine(l)
  PROVE  PostedUnits(l) \in [ReturnPostings -> Nat]
BY DEF PostedUnits, SupplierLine, ReturnsInv, PostingRow, Quantity

\* What was executed of a line is the sum of what the requests sent.
LEMMA SentSums ==
  ASSUME ReturnsInv, SupplyShape, NEW l, SupplierLine(l)
  PROVE  /\ Executed(l) \in Nat
         /\ [r \in ReturnRequests |-> Sent(r, l)] \in [ReturnRequests -> Nat]
         /\ Executed(l) = Total([r \in ReturnRequests |-> Sent(r, l)])
<1>1. PostedUnits(l) \in [ReturnPostings -> Nat]
  BY PostedUnitsNat
<1>2. \A p \in ReturnPostings : PostedUnits(l)[p] # 0 => RequestBehind[p] \in ReturnRequests
  BY SentFor DEF RequestBehind
<1>3. Executed(l) = Total(PostedUnits(l))
  BY DEF Executed, PostedOn, PostedUnits
<1>4. Total([r \in ReturnRequests |-> Total(Share(RequestBehind, r, PostedUnits(l)))]) = Total(PostedUnits(l))
  BY <1>1, <1>2, TotalByShares, ReturnAssumption
<1>5. Total(PostedUnits(l)) \in Nat
  BY <1>1, TotalNat, ReturnAssumption
<1>6. \A r : Sent(r, l) \in Nat
  BY <1>1, ShareNat, ReturnAssumption DEF Sent
<1>7. QED
  BY <1>3, <1>4, <1>5, <1>6 DEF Sent

\* All that a request to a supplier sent went by its one live authorization.
LEMMA SentByAuthorization ==
  ASSUME ReturnsInv, SupplyShape, NEW l, SupplierLine(l), NEW r \in ReturnRequests,
         Supplies(r), NEW a \in DraftedFor(r)
  PROVE  Sent(r, l) = ExecutedBy(posting, a, l)
<1>1. a \in ReturnAuthorizations /\ authorization[a].request = r /\ Live(a) /\ l \in SourceLines
  BY DEF DraftedFor, AuthorizationsOf, SupplyShape, DraftedAreLive, SupplierLine
<1>2. PostedUnits(l) \in [ReturnPostings -> Nat]
  BY PostedUnitsNat
<1>3. ASSUME NEW p \in ReturnPostings
      PROVE  (IF RequestBehind[p] = r THEN PostedUnits(l)[p] ELSE 0) = ExecutedUnder(posting, a, l)[p]
  <2>1. ExecutedUnder(posting, a, l)[p] = IF posting[p].authorization = a THEN PostedUnits(l)[p] ELSE 0
    BY DEF ExecutedUnder, PostedUnits, Posted
  <2>2. posting[p].authorization = a => RequestBehind[p] = r
    BY <1>1 DEF RequestBehind
  <2>3. ASSUME RequestBehind[p] = r, PostedUnits(l)[p] # 0 PROVE posting[p].authorization = a
    <3>1. posting[p].authorization \in DraftedFor(r)
      BY <2>3, SentFor DEF RequestBehind
    <3>2. posting[p].authorization \in AuthorizationsOf(r) /\ Live(posting[p].authorization)
      BY <3>1 DEF DraftedFor, AuthorizationsOf, SupplyShape, DraftedAreLive
    <3>3. QED
      BY <1>1, <3>2 DEF SupplyShape, SuppliersAgree
  <2>4. QED
    BY <1>2, <2>1, <2>2, <2>3
<1>4. Share(RequestBehind, r, PostedUnits(l)) = ExecutedUnder(posting, a, l)
  BY <1>2, <1>3 DEF Share, ExecutedUnder
<1>5. ExecutedBy(posting, a, l) = Total(ExecutedUnder(posting, a, l))
  BY <1>1, ExecutedSums DEF ReturnsInv
<1>6. QED
  BY <1>4, <1>5 DEF Sent

\* A request that sends nothing back, or has no draft, sent nothing.
LEMMA NothingSent ==
  ASSUME ReturnsInv, SupplyShape, NEW l, SupplierLine(l), NEW r \in ReturnRequests,
         ~Supplies(r) \/ DraftedFor(r) = {}
  PROVE  Sent(r, l) = 0
<1>1. PostedUnits(l) \in [ReturnPostings -> Nat]
  BY PostedUnitsNat
<1>2. \A p \in ReturnPostings : PostedUnits(l)[p] # 0 => RequestBehind[p] # r
  BY SentFor DEF RequestBehind
<1>3. QED
  BY <1>1, <1>2, ShareZero DEF Sent

\* No request sends more than it claims.
LEMMA SentWithinClaim ==
  ASSUME ReturnsInv, SupplyShape, ClaimKnown, NEW l, SupplierLine(l), NEW r \in ReturnRequests
  PROVE  Sent(r, l) <= Claim(r, l)
<1>1. Claim(r, l) \in Nat
  BY DEF ClaimKnown
<1>2. CASE ~Supplies(r) \/ DraftedFor(r) = {}
  <2>1. Sent(r, l) = 0
    BY <1>2, NothingSent
  <2>2. QED
    BY <1>1, <2>1
<1>3. CASE Supplies(r) /\ DraftedFor(r) # {}
  <2>1. PICK a \in DraftedFor(r) : TRUE
    BY <1>3
  <2>2. Sent(r, l) = ExecutedBy(posting, a, l)
    BY <1>3, <2>1, SentByAuthorization
  <2>3. Claim(r, l) = authorization[a].quantity[l]
    BY <2>1 DEF ClaimKnown
  <2>4. ExecutedBy(posting, a, l) = PostedOn(PostingsOf(a), l)
    BY DEF ExecutedBy, PostedOn, PostingsOf, Posted
  <2>5. PostedOn(PostingsOf(a), l) <= authorization[a].quantity[l]
    BY <2>1 DEF ReturnsInv, PostedWithinAuthorized, DraftedFor, AuthorizationsOf, SupplierLine
  <2>6. QED
    BY <2>2, <2>3, <2>4, <2>5
<1>4. QED
  BY <1>2, <1>3

(***************************************************************************)
(* What a request claims it still occupies, or has sent: this is why what  *)
(* is occupied and executed is enough to check a new request against.      *)
(***************************************************************************)
Occupied(r, l) == IF request[r].status \in OccupyingStatuses THEN request[r].quantity[l] ELSE 0

LEMMA ClaimCovered ==
  ASSUME ReturnsInv, SupplyShape, ClaimKnown, NEW l, SupplierLine(l), NEW r \in ReturnRequests
  PROVE  /\ Claim(r, l) <= Occupied(r, l) + Sent(r, l)
         /\ Occupied(r, l) \in Nat /\ Sent(r, l) \in Nat
<1>1. /\ Claim(r, l) \in Nat /\ request[r].quantity[l] \in Nat /\ Claim(r, l) <= request[r].quantity[l]
      /\ \A a \in DraftedFor(r) : Claim(r, l) = authorization[a].quantity[l]
      /\ DraftedFor(r) = {} => Claim(r, l) = IF request[r].status \in Asking THEN request[r].quantity[l] ELSE 0
  BY DEF ClaimKnown
<1>2. Occupied(r, l) \in Nat /\ Sent(r, l) \in Nat
  <2>1. Sent(r, l) \in Nat
    BY PostedUnitsNat, ShareNat, ReturnAssumption DEF Sent
  <2>2. QED
    BY <1>1, <2>1 DEF Occupied
<1>3. CASE DraftedFor(r) = {}
  BY <1>1, <1>2, <1>3 DEF Occupied, Asking, OccupyingStatuses
<1>4. CASE ~Supplies(r)
  <2>1. request[r].quantity[l] = 0
    BY <1>1, <1>4 DEF Supplies, LinesIn, SupplierLine
  <2>2. QED
    BY <1>1, <1>2, <2>1
<1>5. CASE Supplies(r) /\ DraftedFor(r) # {}
  <2>1. PICK a \in DraftedFor(r) : TRUE
    BY <1>5
  <2>2. a \in ReturnAuthorizations /\ authorization[a].request = r /\ Live(a)
    BY <2>1 DEF DraftedFor, AuthorizationsOf, SupplyShape, DraftedAreLive
  <2>3. request[r].status = RequestStatus(authorization[a].status)
    BY <1>5, <2>2 DEF SupplyShape, SuppliersAgree
  <2>4. CASE authorization[a].status = "executed"
    <3>1. ExecutedBy(posting, a, l) = authorization[a].quantity[l]
      BY <2>2, <2>4 DEF SupplyShape, ExecutedWhole, SupplierLine
    <3>2. Sent(r, l) = ExecutedBy(posting, a, l)
      BY <1>5, <2>1, SentByAuthorization
    <3>3. QED
      BY <1>1, <1>2, <2>1, <3>1, <3>2
  <2>5. CASE authorization[a].status \in InForceStatuses
    <3>1. Occupied(r, l) = request[r].quantity[l]
      BY <2>3, <2>5 DEF RequestStatus, InForceStatuses, OccupyingStatuses, Occupied
    <3>2. QED
      BY <1>1, <1>2, <3>1
  <2>6. QED
    BY <2>2, <2>4, <2>5 DEF Live
<1>6. QED
  BY <1>2, <1>3, <1>4, <1>5

(***************************************************************************)
(* A request is submitted when what it asks for still fits beside what     *)
(* others occupy and what was executed.                                    *)
(***************************************************************************)
LEMMA SubmittedFits ==
  ASSUME ReturnsInv, SupplyInv, ClaimKnown, NEW r \in ReturnRequests, NEW l, SupplierLine(l),
         NEW asked \in Nat, asked # 0 => asked <= Returnable(r, l),
         NEW after \in [ReturnRequests -> Nat], after[r] = asked, DraftedFor(r) = {}, request[r].status = "draft",
         \A q \in ReturnRequests \ {r} : after[q] = Claim(q, l)
  PROVE  Total(after) <= source[l].quantity
<1> DEFINE others == [q \in ReturnRequests |-> IF q = r THEN 0 ELSE Claim(q, l)]
           occupied == [q \in ReturnRequests |-> IF q = r THEN 0 ELSE Occupied(q, l)]
           sent == [q \in ReturnRequests |-> Sent(q, l)]
           cover == [q \in ReturnRequests |-> occupied[q] + sent[q]]
           there == [q \in ReturnRequests \ {r} |-> Occupied(q, l)]
<1>1. SupplyShape /\ source[l].quantity \in Nat
  BY SourceQuantities DEF SupplyInv
<1>2. \A q \in ReturnRequests :
        /\ Claim(q, l) \in Nat /\ Occupied(q, l) \in Nat /\ Sent(q, l) \in Nat
        /\ Claim(q, l) <= Occupied(q, l) + Sent(q, l)
  BY <1>1, ClaimCovered DEF ClaimKnown
<1>3. Executed(l) \in Nat /\ sent \in [ReturnRequests -> Nat] /\ Executed(l) = Total(sent)
  BY <1>1, SentSums
<1>4. /\ others \in [ReturnRequests -> Nat] /\ occupied \in [ReturnRequests -> Nat]
      /\ cover \in [ReturnRequests -> Nat]
      /\ \A q \in ReturnRequests : others[q] <= cover[q] /\ cover[q] = occupied[q] + sent[q]
      /\ others[r] = 0 /\ \A q \in ReturnRequests \ {r} : after[q] = others[q]
      /\ there \in [ReturnRequests \ {r} -> Nat]
      /\ \A q \in ReturnRequests \ {r} : occupied[q] = there[q]
      /\ occupied[r] = 0
  BY <1>2
<1>5. Pending(r, l) = Total(there)
  BY DEF Pending, Occupied
<1>6. Claim(r, l) = 0 /\ Claims(l) \in [ReturnRequests -> Nat] /\ Claims(l) = others
  <2>1. Claim(r, l) = 0
    BY DEF ClaimKnown, Asking
  <2>2. QED
    BY <1>2, <2>1 DEF Claims
<1> HIDE DEF others, occupied, sent, cover, there
<1>7. Total(occupied) = Total(there)
  <2> DEFINE rest == ReturnRequests \ {r}
  <2>1. /\ rest \in SUBSET ReturnRequests /\ there \in [rest -> Nat]
        /\ \A q \in rest : occupied[q] = there[q]
        /\ \A q \in ReturnRequests \ rest : occupied[q] = 0
    BY <1>4
  <2> HIDE DEF rest
  <2>2. QED
    BY <1>4, <2>1, TotalExtend
<1>8. Total(cover) = Total(occupied) + Total(sent)
  <2>1. \A q \in ReturnRequests : cover[q] = occupied[q] + sent[q]
    BY <1>4
  <2>2. cover \in [ReturnRequests -> Nat] /\ occupied \in [ReturnRequests -> Nat]
    BY <1>4
  <2>3. QED
    BY <1>3, <2>1, <2>2, TotalAdd, ReturnAssumption
<1>9. Total(others) <= Total(cover)
  BY <1>4, TotalMonotone, ReturnAssumption
<1>10. Total(after) = Total(others) - others[r] + after[r]
  BY <1>4, TotalChange, ReturnAssumption
<1>11. /\ Total(others) \in Nat /\ Total(after) \in Nat /\ Total(cover) \in Nat
       /\ Total(there) \in Nat /\ Total(sent) \in Nat
  <2>1. Total(others) \in Nat /\ Total(after) \in Nat /\ Total(cover) \in Nat /\ Total(occupied) \in Nat
    BY <1>4, TotalNat, ReturnAssumption
  <2>2. QED
    BY <1>3, <1>7, <2>1
<1>12. Total(others) <= source[l].quantity
  BY <1>6 DEF SupplyInv, ClaimsFit
<1>13. CASE asked = 0
  BY <1>4, <1>10, <1>11, <1>12, <1>13
<1>14. CASE asked # 0
  <2>1. asked <= source[l].quantity - Total(there) - Executed(l)
    BY <1>5, <1>14 DEF Returnable
  <2>2. QED
    BY <1>1, <1>3, <1>4, <1>7, <1>8, <1>9, <1>10, <1>11, <2>1
<1>15. QED
  BY <1>13, <1>14

\* Submitting makes a claim that fits.
LEMMA SubmitStep ==
  ASSUME ReturnsInv, ReturnsInv', SupplyInv, NEW r \in ReturnRequests, SubmitRequest(r)
  PROVE  SupplyInv'
<1>1. /\ request[r].status = "draft" /\ request' = [request EXCEPT ![r].status = "submitted"]
      /\ UNCHANGED <<source, authorization, posting>>
      /\ \A l \in LinesIn(request[r].quantity) : request[r].quantity[l] <= Returnable(r, l)
  BY DEF SubmitRequest, RequestPlanAllows
<1>2. SupplyShape /\ request[r] \in RequestRow
  BY DEF SupplyInv, SupplyShape
<1> DEFINE row == [request[r] EXCEPT !.status = "submitted"]
<1>3. row \in RequestRow /\ row.status = "submitted" /\ row.quantity = request[r].quantity
  BY <1>2 DEF RequestRow, RequestStatuses, OccupyingStatuses
<1>4. request' = [request EXCEPT ![r] = row]
  BY <1>1
<1> HIDE DEF row
<1>5. \A a \in AuthorizationsOf(r) : ~Live(a)
  BY <1>1, <1>2 DEF SupplyShape, LiveWithinRequest, AuthorizationsOf
<1>6. DraftedFor(r) = {}
  BY <1>2, <1>5 DEF DraftedFor, SupplyShape, DraftedAreLive, AuthorizationsOf
<1>7. \A l, k \in LinesIn(row.quantity) : SourceDocument[l] = SourceDocument[k]
  BY <1>2, <1>3 DEF SupplyShape, OneDocument
<1>8. /\ SupplyShape'
      /\ \A q \in ReturnRequests \ {r} : \A l : Claim(q, l)' = Claim(q, l)
      /\ \A q : DraftedFor(q)' = DraftedFor(q)
  BY <1>1, <1>2, <1>3, <1>4, <1>5, <1>7, RequestRewritten
<1>9. ClaimKnown /\ ClaimKnown'
  BY <1>2, <1>8, ClaimFacts, ClaimFactsNext
<1>10. request'[r] = row
  BY <1>4 DEF SupplyInv, SupplyShape
<1>11. ASSUME NEW l, SupplierLine(l) PROVE Total(Claims(l)') <= source[l].quantity
  <2>1. /\ Claim(r, l)' = request[r].quantity[l] /\ request[r].quantity[l] \in Nat
        /\ \A q \in ReturnRequests : Claim(q, l)' \in Nat
    BY <1>3, <1>6, <1>8, <1>9, <1>10, <1>11 DEF ClaimKnown, SupplierLine, Asking
  <2>2. /\ Claims(l)' \in [ReturnRequests -> Nat] /\ Claims(l)'[r] = request[r].quantity[l]
        /\ \A q \in ReturnRequests \ {r} : Claims(l)'[q] = Claim(q, l)
    BY <1>8, <2>1 DEF Claims
  <2>3. request[r].quantity[l] # 0 => request[r].quantity[l] <= Returnable(r, l)
    BY <1>1, <1>11, <2>1 DEF LinesIn, SupplierLine
  <2>4. QED
    BY <1>1, <1>6, <1>9, <1>11, <2>1, <2>2, <2>3, SubmittedFits
<1>12. ClaimsFit'
  BY <1>1, <1>11 DEF ClaimsFit, SupplierLine
<1>13. QED
  BY <1>8, <1>12 DEF SupplyInv

-----------------------------------------------------------------------------
\* The invariant of what is sent back, over all steps

\* At first nothing is asked for.
LEMMA SupplyBegins == ReturnsInit => SupplyInv
<1> SUFFICES ASSUME ReturnsInit PROVE SupplyInv
  OBVIOUS
<1>1. /\ \A a \in ReturnAuthorizations : ~Live(a) /\ ~Drafted(a) /\ authorization[a].status = "none"
      /\ \A r \in ReturnRequests : request[r].status = "none" /\ \A l \in SourceLines : request[r].quantity[l] = 0
  BY DEF ReturnsInit, GovernanceInit, NoAuthorization, NoRequest, NoPosting, Nothing, Live, Drafted, InForceStatuses
<1>2. source \in [SourceLines -> [quantity : Nat, posted : BOOLEAN]]
  <2>1. 1..MaxReturned \subseteq Nat
    BY ReturnAssumption
  <2>2. QED
    BY <2>1 DEF ReturnsInit, GovernanceInit
<1>3. request \in [ReturnRequests -> RequestRow]
  BY DEF ReturnsInit, GovernanceInit, NoRequest, Nothing, RequestRow, Quantity, RequestStatuses
<1>4. SupplyShape
  BY <1>1, <1>2, <1>3
     DEF SupplyShape, OneDocument, LiveWithinRequest, SuppliersAgree, DraftedAreLive, ExecutedWhole, LinesIn
<1>5. ASSUME NEW l, SupplierLine(l) PROVE Total(Claims(l)) <= source[l].quantity
  <2>1. ASSUME NEW r \in ReturnRequests PROVE Claim(r, l) = 0
    <3>1. DraftedFor(r) = {}
      BY <1>1 DEF DraftedFor, AuthorizationsOf
    <3>2. QED
      BY <1>1, <3>1 DEF Claim, Asking
  <2>2. Claims(l) \in [ReturnRequests -> Nat] /\ \A r \in ReturnRequests : Claims(l)[r] = 0
    BY <2>1 DEF Claims
  <2>3. Total(Claims(l)) = 0
    BY <2>2, TotalZero
  <2>4. QED
    BY <1>4, <1>5, <2>3, SourceQuantities
<1>6. QED
  BY <1>4, <1>5 DEF SupplyInv, ClaimsFit

\* The commands about requests and authorizations, each by its lemma.
LEMMA SupplyGovernance ==
  ASSUME ReturnsInv, ReturnsInv', SupplyInv, GovernanceNext
  PROVE  SupplyInv'
<1>1. SupplyShape
  BY DEF SupplyInv
<1>2. ASSUME \E r, a, s : Governed(r, a, s), ExecutedWhole' PROVE SupplyInv'
  BY <1>2, GovernedStep
<1>3. ASSUME NEW r \in ReturnRequests, NEW asked \in RequestQuantities,
             CreateRequest(r, asked) \/ ReviseRequest(r, asked)
      PROVE  SupplyInv'
  BY <1>3, RequestStep
<1>4. ASSUME NEW r \in ReturnRequests, SubmitRequest(r) \/ CancelRequest(r)
      PROVE  SupplyInv'
  BY <1>4, SubmitStep, RequestStep
<1>5. ASSUME NEW r \in ReturnRequests, NEW a \in ReturnAuthorizations, NEW asked \in RequestQuantities,
             NEW deadline \in {"none", "pending"}, NEW route \in [LinesIn(asked) -> Routes],
             AuthorizeRequest(r, a, asked, route, deadline)
      PROVE  SupplyInv'
  <2>1. Governed(r, a, "authorized") /\ ExecutedWhole'
    BY <1>1, <1>5, AuthorizeGoverns
  <2>2. QED
    BY <1>2, <2>1
<1>6. ASSUME NEW r \in ReturnRequests, NEW a \in ReturnAuthorizations, RejectRequest(r, a)
      PROVE  SupplyInv'
  <2>1. Governed(r, a, "rejected") /\ ExecutedWhole'
    BY <1>1, <1>6, RejectGoverns
  <2>2. QED
    BY <1>2, <2>1
<1>7. ASSUME NEW a \in ReturnAuthorizations, NEW status \in {"cancelled", "expired"}, CloseAuthorization(a, status)
      PROVE  SupplyInv'
  <2>1. Governed(authorization[a].request, a, "submitted") /\ ExecutedWhole'
    BY <1>1, <1>7, CloseGoverns
  <2>2. QED
    BY <1>2, <2>1
<1>8. ASSUME NEW a \in ReturnAuthorizations, PassDeadline(a) PROVE SupplyInv'
  <2>1. /\ authorization' = [authorization EXCEPT ![a].deadline = "past"]
        /\ UNCHANGED <<source, request, posting>>
    BY <1>8 DEF PassDeadline
  <2>2. \A b \in ReturnAuthorizations : /\ authorization'[b].request = authorization[b].request
                                        /\ authorization'[b].quantity = authorization[b].quantity
                                        /\ authorization'[b].status = authorization[b].status
    BY <2>1 DEF ReturnsInv, AuthorizationRow
  <2>3. Framed
    BY <1>1, <2>1, <2>2 DEF Framed, Drafted, SupplyShape
  <2>4. QED
    BY <2>3, FramedStep
<1>9. ASSUME NEW document, ReverseSource(document) PROVE SupplyInv'
  <2>1. /\ source' = [l \in SourceLines |->
             IF SourceDocument[l] = document THEN [source[l] EXCEPT !.posted = FALSE] ELSE source[l]]
        /\ UNCHANGED <<request, authorization, posting>>
    BY <1>9 DEF ReverseSource
  <2>2. /\ source' \in [SourceLines -> [quantity : Nat, posted : BOOLEAN]]
        /\ \A l \in SourceLines : source'[l].quantity = source[l].quantity
    BY <1>1, <2>1 DEF SupplyShape
  <2>3. Framed
    BY <2>1, <2>2 DEF Framed, Drafted
  <2>4. QED
    BY <2>3, FramedStep
<1>10. QED
  BY <1>3, <1>4, <1>5, <1>6, <1>7, <1>8, <1>9 DEF GovernanceNext, CancelAuthorization, ExpireAuthorization

\* The commands about one posting, by what they do to it.
LEMMA SupplyPostings ==
  ASSUME ReturnsInv, ReturnsInv', SupplyInv, NEW p \in ReturnPostings, PostingNext(p)
  PROVE  SupplyInv'
<1>1. SupplyShape
  BY DEF SupplyInv
<1>2. ASSUME NEW kind,
             \/ \E a \in ReturnAuthorizations : \E asked, key : CreateReturnDraft(kind, p, a, asked, key)
             \/ \E asked, key : ReviseReturnDraft(kind, p, asked, key)
             \/ ReadyReturn(kind, p) \/ CancelReturn(kind, p)
      PROVE  SupplyInv'
  BY <1>1, <1>2, DraftsFramed, FramedStep
<1>3. ASSUME NEW kind, PostReturn(kind, p) \/ ReverseReturn(kind, p) PROVE SupplyInv'
  <2>1. ExecutedWhole' /\ \E r, a, s : Governed(r, a, s)
    BY <1>1, <1>3, ReturnExecutesWhole, ReturnGoverns
  <2>2. QED
    BY <2>1, GovernedStep
<1>4. ASSUME NEW asked, NEW key, DraftNext(p, asked, key) PROVE SupplyInv'
  <2>1. \E kind : \/ \E a \in ReturnAuthorizations : CreateReturnDraft(kind, p, a, asked, key)
                  \/ ReviseReturnDraft(kind, p, asked, key)
    BY <1>4 DEF DraftNext, CreateCustomerReturnDraft, CreateReleaseDraft, CreateSupplierReturnDraft,
                ReviseCustomerReturnDraft, ReviseReleaseDraft, ReviseSupplierReturnDraft
  <2>2. QED
    BY <1>2, <2>1
<1>5. QED
  BY <1>2, <1>3, <1>4
     DEF PostingNext, ReadyCustomerReturn, CancelCustomerReturn, PostCustomerReturn,
         ReverseCustomerReturn, ReadyRelease, CancelRelease, PostRelease, ReverseRelease,
         ReadySupplierReturn, CancelSupplierReturn, PostSupplierReturn, ReverseSupplierReturn

\* Every step of returns keeps the invariant, and so does one of anybody else.
LEMMA SupplyKept ==
  ASSUME ReturnsInv, ReturnsInv', SupplyInv, ReturnsNext \/ UNCHANGED quarantineSide
  PROVE  SupplyInv'
<1>1. CASE ReturnsNext
  BY <1>1, SupplyGovernance, SupplyPostings DEF ReturnsNext
<1>2. CASE UNCHANGED quarantineSide
  <2>1. UNCHANGED <<source, request, authorization, posting>>
    BY <1>2 DEF quarantineSide, governanceVars
  <2>2. Framed
    BY <2>1 DEF Framed, Drafted, SupplyInv, SupplyShape
  <2>3. QED
    BY <2>2, FramedStep
<1>3. QED
  BY <1>1, <1>2

\* What is sent is within the claims, and they are within the receipt.
LEMMA SentFits == ReturnsInv /\ SupplyInv => SentBackWithinReceipt
<1> SUFFICES ASSUME ReturnsInv, SupplyInv, NEW l \in SourceLines, ReturnType[l] = "supplier_return"
             PROVE  Executed(l) <= source[l].quantity
  BY DEF SentBackWithinReceipt
<1> DEFINE sent == [r \in ReturnRequests |-> Sent(r, l)]
<1>1. SupplierLine(l) /\ SupplyShape
  BY DEF SupplierLine, SupplyInv
<1>2. ClaimKnown
  BY <1>1, ClaimFacts
<1>3. sent \in [ReturnRequests -> Nat] /\ Executed(l) = Total(sent) /\ Executed(l) \in Nat
  BY <1>1, SentSums
<1>4. Claims(l) \in [ReturnRequests -> Nat] /\ \A r \in ReturnRequests : sent[r] <= Claims(l)[r]
  BY <1>1, <1>2, SentWithinClaim DEF Claims, ClaimKnown
<1> HIDE DEF sent
<1>5. Total(sent) <= Total(Claims(l)) /\ Total(Claims(l)) \in Nat
  BY <1>3, <1>4, TotalMonotone, TotalNat, ReturnAssumption
<1>6. Total(Claims(l)) <= source[l].quantity /\ source[l].quantity \in Nat
  BY <1>1, SourceQuantities DEF SupplyInv, ClaimsFit
<1>7. QED
  BY <1>3, <1>5, <1>6

(***************************************************************************)
(* SentBackWithinReceipt: over all requests ever made, and however their   *)
(* authorizations are cancelled, expire or are reversed, no more of a line *)
(* of a receipt goes back to the supplier than it brought.                 *)
(***************************************************************************)
THEOREM SentBackOnce == ReturnsSpec => []SentBackWithinReceipt
<1>1. ReturnsInit => SupplyInv
  BY SupplyBegins
<1>2. ReturnsInv /\ ReturnsInv' /\ SupplyInv /\ [ReturnsNext]_returnsVars => SupplyInv'
  BY SupplyKept DEF returnsVars, quarantineSide
<1>3. ReturnsInv /\ SupplyInv => SentBackWithinReceipt
  BY SentFits
<1>4. QED
  BY ReturnsInvariant, <1>1, <1>2, <1>3, PTL DEF ReturnsSpec

-----------------------------------------------------------------------------
\* Taking in order

\* A set of natural numbers that is not empty has a least one.
LEMMA LeastNatural ==
  ASSUME NEW T, T \subseteq Nat, T # {}
  PROVE  \E x \in T : \A y \in T : x <= y
<1>1. PICK x \in T : \A y \in T : ~ (<<y, x>> \in OpToRel(<, Nat))
  BY NatLessThanWellFounded, WFMin
<1>2. ASSUME NEW y \in T PROVE x <= y
  <2>1. x \in Nat /\ y \in Nat
    OBVIOUS
  <2>2. ~ (y < x)
    BY <1>1, <2>1 DEF OpToRel
  <2>3. QED
    BY <2>1, <2>2
<1>3. QED
  BY <1>2

\* Some members of a finite family have the greatest number, if there are any.
LEMMA GreatestMember ==
  ASSUME NEW D, IsFiniteSet(D), NEW at \in [D -> Nat], NEW R, R \subseteq D, R # {}
  PROVE  \E m \in R : \A x \in R : at[x] <= at[m]
<1> DEFINE bounds == {k \in Nat : \A x \in R : at[x] <= k}
<1>1. Total(at) \in bounds
  BY TotalNat, TotalBound
<1>2. bounds \subseteq Nat /\ bounds # {}
  BY <1>1
<1>3. PICK k \in bounds : \A j \in bounds : k <= j
  <2> HIDE DEF bounds
  <2> QED BY <1>2, LeastNatural
<1>4. k \in Nat /\ \A x \in R : at[x] <= k /\ at[x] \in Nat
  BY <1>2
<1>5. CASE k = 0
  BY <1>4, <1>5
<1>6. CASE k # 0
  <2>1. k - 1 \in Nat /\ ~ (k <= k - 1)
    BY <1>4, <1>6
  <2>2. k - 1 \notin bounds
    BY <1>3, <2>1
  <2>3. PICK m \in R : ~ (at[m] <= k - 1)
    BY <2>1, <2>2
  <2>4. at[m] = k
    BY <1>4, <2>1, <2>3
  <2>5. QED
    BY <1>4, <2>4
<1>7. QED
  BY <1>5, <1>6

(***************************************************************************)
(* What is due is taken in order: before a member gives anything, all      *)
(* that come before it have given everything.                              *)
(***************************************************************************)
Before(at, left, x) == [y \in DOMAIN left |-> IF at[y] < at[x] THEN left[y] ELSE 0]
TakenInOrder(D, at, left, due, take) ==
  /\ IsFiniteSet(D)
  /\ at \in [D -> Nat] /\ left \in [D -> Nat] /\ take \in [D -> Nat]
  /\ due \in Int
  /\ \A x, y \in D : left[x] > 0 /\ left[y] > 0 /\ at[x] = at[y] => x = y
  /\ \A x \in D : take[x] = LET rest == due - Total(Before(at, left, x))
                            IN IF rest <= 0 THEN 0 ELSE IF rest < left[x] THEN rest ELSE left[x]

\* What comes before a member is within what comes before a later one.
LEMMA BeforeGrows ==
  ASSUME NEW D, NEW at, NEW left, NEW due, NEW take, TakenInOrder(D, at, left, due, take),
         NEW x \in D, NEW y \in D, at[x] < at[y]
  PROVE  Total(Before(at, left, x)) + left[x] <= Total(Before(at, left, y))
<1> DEFINE b == Before(at, left, x)
           c == Before(at, left, y)
           both == [z \in D |-> IF z = x THEN left[x] ELSE b[z]]
<1>1. /\ b \in [D -> Nat] /\ c \in [D -> Nat] /\ both \in [D -> Nat]
      /\ b[x] = 0 /\ both[x] = left[x] /\ left[x] \in Nat
      /\ \A z \in D \ {x} : both[z] = b[z]
      /\ \A z \in D : both[z] <= c[z]
      /\ IsFiniteSet(D)
  BY DEF TakenInOrder, Before
<1> HIDE DEF b, c, both
<1>2. Total(both) = Total(b) - b[x] + both[x]
  BY <1>1, TotalChange
<1>3. Total(both) <= Total(c)
  BY <1>1, TotalMonotone
<1>4. Total(b) \in Nat /\ Total(c) \in Nat /\ Total(both) \in Nat
  BY <1>1, TotalNat
<1>5. QED
  BY <1>1, <1>2, <1>3, <1>4 DEF b, c

LEMMA BeforeNat ==
  ASSUME NEW D, NEW at, NEW left, NEW due, NEW take, TakenInOrder(D, at, left, due, take), NEW x \in D
  PROVE  /\ Before(at, left, x) \in [D -> Nat]
         /\ Total(Before(at, left, x)) \in Nat
<1>1. Before(at, left, x) \in [D -> Nat] /\ IsFiniteSet(D)
  BY DEF TakenInOrder, Before
<1>2. QED
  BY <1>1, TotalNat

\* What a member gives.
LEMMA TakenOfMember ==
  ASSUME NEW D, NEW at, NEW left, NEW due, NEW take, TakenInOrder(D, at, left, due, take), NEW x \in D
  PROVE  /\ take[x] <= left[x] /\ left[x] \in Nat /\ take[x] \in Nat
         /\ due <= Total(Before(at, left, x)) => take[x] = 0
         /\ left[x] = 0 => take[x] = 0
         /\ Total(Before(at, left, x)) + left[x] <= due => take[x] = left[x]
         /\ Total(Before(at, left, x)) < due /\ due <= Total(Before(at, left, x)) + left[x] =>
              Total(Before(at, left, x)) + take[x] = due
<1> DEFINE before == Total(Before(at, left, x))
<1>1. before \in Nat
  BY BeforeNat
<1>2. /\ take[x] = IF due - before <= 0 THEN 0 ELSE IF due - before < left[x] THEN due - before ELSE left[x]
      /\ left[x] \in Nat /\ take[x] \in Nat /\ due \in Int
  BY DEF TakenInOrder
<1> HIDE DEF before
<1>3. /\ take[x] <= left[x]
      /\ due <= before => take[x] = 0
      /\ left[x] = 0 => take[x] = 0
      /\ before + left[x] <= due => take[x] = left[x]
      /\ before < due /\ due <= before + left[x] => before + take[x] = due
  BY <1>1, <1>2
<1>4. QED
  BY <1>2, <1>3 DEF before


\* There is a last member that is reached, and it covers what is due.
LEMMA LastReached ==
  ASSUME NEW D, NEW at, NEW left, NEW due, NEW take, TakenInOrder(D, at, left, due, take),
         due > 0, due <= Total(left)
  PROVE  \E m \in D : /\ Total(Before(at, left, m)) < due
                      /\ due <= Total(Before(at, left, m)) + left[m]
                      /\ \A x \in D : at[x] > at[m] /\ left[x] > 0 => due <= Total(Before(at, left, x))
<1> DEFINE before(x) == Total(Before(at, left, x))
           full == {x \in D : left[x] > 0}
           reached == {x \in full : before(x) < due}
<1>1. /\ IsFiniteSet(D) /\ at \in [D -> Nat] /\ left \in [D -> Nat] /\ due \in Int
      /\ \A x, y \in D : left[x] > 0 /\ left[y] > 0 /\ at[x] = at[y] => x = y
  BY DEF TakenInOrder
<1>2. \A x \in D : before(x) \in Nat /\ left[x] \in Nat /\ at[x] \in Nat /\ Before(at, left, x) \in [D -> Nat]
  BY <1>1, BeforeNat
<1>3. Total(left) \in Nat
  BY <1>1, TotalNat
\* The first of some members with goods.
<1>4. ASSUME NEW some, some \subseteq full, some # {} PROVE \E n \in some : \A x \in some : at[n] <= at[x]
  <2> DEFINE numbers == {at[x] : x \in some}
  <2>1. numbers \subseteq Nat /\ numbers # {}
    BY <1>2, <1>4
  <2>2. PICK k \in numbers : \A j \in numbers : k <= j
    <3> HIDE DEF numbers
    <3> QED BY <2>1, LeastNatural
  <2>3. QED
    BY <2>2
<1>5. reached # {}
  <2>1. full # {}
    BY <1>1, <1>3, TotalPositive
  <2>2. PICK n \in full : \A x \in full : at[n] <= at[x]
    BY <1>4, <2>1
  <2>3. \A y \in D : Before(at, left, n)[y] = 0
    <3> SUFFICES ASSUME NEW y \in D, at[y] < at[n] PROVE left[y] = 0
      BY <1>1 DEF Before
    <3>1. y \notin full
      BY <1>2, <2>2
    <3>2. QED
      BY <1>2, <3>1
  <2>4. before(n) = 0
    BY <1>2, <2>2, <2>3, TotalZero
  <2>5. QED
    BY <1>1, <2>2, <2>4
<1>6. PICK m \in reached : \A x \in reached : at[x] <= at[m]
  <2>1. reached \subseteq D
    OBVIOUS
  <2> HIDE DEF reached
  <2>2. QED
    BY <1>1, <1>5, <2>1, GreatestMember
<1>7. m \in D /\ left[m] > 0 /\ before(m) < due
  OBVIOUS
<1>8. ASSUME NEW x \in D, at[x] > at[m], left[x] > 0 PROVE due <= before(x)
  <2>1. x \notin reached
    BY <1>2, <1>6, <1>7, <1>8
  <2>2. QED
    BY <1>1, <1>2, <1>8, <2>1
<1>9. due <= before(m) + left[m]
  <2> SUFFICES ASSUME before(m) + left[m] < due PROVE FALSE
    BY <1>1, <1>2, <1>7
  <2> DEFINE upto == [y \in D |-> IF y = m THEN left[m] ELSE Before(at, left, m)[y]]
             after == {y \in full : at[y] > at[m]}
  <2>1. /\ upto \in [D -> Nat] /\ upto[m] = left[m] /\ Before(at, left, m)[m] = 0
        /\ \A y \in D \ {m} : upto[y] = Before(at, left, m)[y]
    BY <1>1, <1>2, <1>7 DEF Before
  <2>2. Total(upto) = before(m) + left[m] /\ Total(upto) \in Nat
    <3> HIDE DEF upto
    <3>1. Total(upto) = before(m) - Before(at, left, m)[m] + upto[m]
      BY <1>1, <1>2, <1>7, <2>1, TotalChange
    <3>2. QED
      BY <1>2, <1>7, <2>1, <3>1
  <2>3. \A y \in D : left[y] > 0 /\ y \notin after => upto[y] = left[y]
    <3> SUFFICES ASSUME NEW y \in D, left[y] > 0, y \notin after PROVE upto[y] = left[y]
      OBVIOUS
    <3>1. at[y] \in Nat /\ at[m] \in Nat /\ ~ (at[y] > at[m])
      BY <1>1, <1>7
    <3>2. CASE y = m
      BY <2>1, <3>2
    <3>3. CASE y # m
      <4>1. at[y] # at[m]
        BY <1>1, <1>7, <3>3
      <4>2. at[y] < at[m]
        BY <3>1, <4>1
      <4>3. Before(at, left, m)[y] = left[y]
        BY <1>1, <4>2 DEF Before
      <4>4. QED
        BY <2>1, <3>3, <4>3
    <3>4. QED
      BY <3>2, <3>3
  <2>4. after # {}
    <3> SUFFICES ASSUME after = {} PROVE FALSE
      OBVIOUS
    <3>1. \A y \in D : left[y] <= upto[y]
      BY <1>2, <2>1, <2>3
    <3> HIDE DEF upto
    <3>2. Total(left) <= Total(upto)
      BY <1>1, <2>1, <3>1, TotalMonotone
    <3>3. QED
      BY <1>1, <1>2, <1>3, <1>7, <2>2, <3>2
  <2>5. PICK n \in after : \A x \in after : at[n] <= at[x]
    BY <1>4, <2>4
  <2>6. \A y \in D : Before(at, left, n)[y] <= upto[y]
    <3> SUFFICES ASSUME NEW y \in D PROVE Before(at, left, n)[y] <= upto[y]
      OBVIOUS
    <3>1. Before(at, left, n)[y] = (IF at[y] < at[n] THEN left[y] ELSE 0) /\ upto[y] \in Nat
      BY <1>1, <2>1 DEF Before
    <3>2. at[y] < at[n] => y \notin after
      BY <1>2, <2>5
    <3> HIDE DEF upto, after
    <3>3. QED
      BY <1>2, <2>3, <3>1, <3>2
  <2>7. Total(Before(at, left, n)) <= Total(upto)
    <3> HIDE DEF upto
    <3> QED BY <1>1, <1>2, <2>1, <2>5, <2>6, TotalMonotone
  <2>8. n \in reached /\ at[n] > at[m]
    BY <1>1, <1>2, <1>7, <2>2, <2>5, <2>7
  <2>9. QED
    BY <1>2, <1>6, <1>7, <2>8
<1>10. QED
  BY <1>7, <1>8, <1>9

\* In all, what is due is taken.
LEMMA TakenIsDue ==
  ASSUME NEW D, NEW at, NEW left, NEW due, NEW take, TakenInOrder(D, at, left, due, take), due <= Total(left)
  PROVE  /\ \A x \in D : take[x] <= left[x]
         /\ Total(take) = IF due <= 0 THEN 0 ELSE due
<1>1. /\ IsFiniteSet(D) /\ at \in [D -> Nat] /\ left \in [D -> Nat] /\ take \in [D -> Nat] /\ due \in Int
      /\ \A x, y \in D : left[x] > 0 /\ left[y] > 0 /\ at[x] = at[y] => x = y
  BY DEF TakenInOrder
<1>2. \A x \in D : Total(Before(at, left, x)) \in Nat /\ Before(at, left, x) \in [D -> Nat]
  BY BeforeNat
<1>3. \A x \in D : take[x] <= left[x] /\ left[x] \in Nat /\ take[x] \in Nat
  BY TakenOfMember
<1>4. CASE due <= 0
  <2>1. \A x \in D : take[x] = 0
    <3> SUFFICES ASSUME NEW x \in D PROVE take[x] = 0
      OBVIOUS
    <3>1. due <= Total(Before(at, left, x))
      BY <1>1, <1>2, <1>4
    <3>2. QED
      BY <3>1, TakenOfMember
  <2>2. Total(take) = 0
    BY <1>1, <2>1, TotalZero
  <2>3. QED
    BY <1>3, <1>4, <2>2
<1>5. CASE due > 0
  <2>1. PICK m \in D : /\ Total(Before(at, left, m)) < due
                       /\ due <= Total(Before(at, left, m)) + left[m]
                       /\ \A x \in D : at[x] > at[m] /\ left[x] > 0 => due <= Total(Before(at, left, x))
    BY <1>5, LastReached
  <2> DEFINE before == Before(at, left, m)
  <2>2. left[m] > 0
    BY <1>1, <1>2, <1>3, <2>1
  <2>3. ASSUME NEW x \in D, x # m PROVE take[x] = before[x]
    <3>1. CASE at[x] < at[m]
      <4>1. Total(Before(at, left, x)) + left[x] <= Total(Before(at, left, m))
        BY <3>1, BeforeGrows
      <4>2. Total(Before(at, left, x)) + left[x] <= due
        BY <1>1, <1>2, <1>3, <2>1, <4>1
      <4>3. take[x] = left[x]
        BY <4>2, TakenOfMember
      <4>4. QED
        BY <1>1, <3>1, <4>3 DEF Before
    <3>2. CASE ~ (at[x] < at[m])
      <4>1. before[x] = 0
        BY <1>1, <3>2 DEF Before
      <4>2. CASE left[x] = 0
        BY <4>1, <4>2, TakenOfMember
      <4>3. CASE left[x] # 0
        <5>1. left[x] > 0 /\ at[x] \in Nat /\ at[m] \in Nat
          BY <1>1, <1>3, <4>3
        <5>2. at[x] # at[m]
          BY <1>1, <2>2, <2>3, <5>1
        <5>3. due <= Total(Before(at, left, x))
          BY <2>1, <3>2, <5>1, <5>2
        <5>4. QED
          BY <4>1, <5>3, TakenOfMember
      <4>4. QED
        BY <4>2, <4>3
    <3>3. QED
      BY <3>1, <3>2
  <2>4. before[m] = 0 /\ before \in [D -> Nat]
    BY <1>1, <1>2 DEF Before
  <2>5. Total(before) + take[m] = due /\ Total(before) \in Nat
    BY <1>2, <2>1, TakenOfMember
  <2> HIDE DEF before
  <2>6. \A x \in D \ {m} : take[x] = before[x]
    BY <2>3
  <2>7. Total(take) = Total(before) - before[m] + take[m]
    BY <1>1, <2>4, <2>6, TotalChange
  <2>8. Total(take) = due
    BY <1>1, <1>3, <2>4, <2>5, <2>7
  <2>9. QED
    BY <1>1, <1>3, <1>5, <2>8
<1>6. QED
  BY <1>1, <1>4, <1>5

-----------------------------------------------------------------------------
\* The lineage never claims more than there is

\* The postings that have a place in the order of the receipts.
DatedReturns == {p \in ReturnPostings : posting[p].occurredAt > 0}

(***************************************************************************)
(* The places are given once, to what is posted, in the order of posting.  *)
(***************************************************************************)
DatesInOrder ==
  /\ \A p \in ReturnPostings :
       /\ posting[p].postingStatus \in {"none", "unposted"} => posting[p].occurredAt = 0
       /\ posting[p].occurredAt <= Cardinality(DatedReturns)
  /\ \A p, q \in DatedReturns : posting[p].occurredAt = posting[q].occurredAt => p = q

ReceiptsAreDated ==
  \A p \in PostedReturns : Kind(posting[p].authorization) = CustomerReturn => posting[p].occurredAt > 0

\* What consumer c is allocated of every receipt at a key.
TakenBy(c, b) == [q \in ReturnPostings |-> allocation[c][q, b]]

AllocationsStand ==
  /\ allocation \in [ReturnPostings -> [ReturnPostings \X BalanceKeys -> Nat]]
  /\ \A c, q \in ReturnPostings : \A b \in BalanceKeys :
       c \notin PostedReturns \/ q \notin PostedReturns => allocation[c][q, b] = 0

\* No receipt gives more than it brought; nobody is allocated more than they took.
AllocationsFit ==
  \A p \in PostedReturns : \A b \in BalanceKeys :
    /\ Allocated(p, b) <= QuarantineIn(p, b)
    /\ Total(TakenBy(p, b)) <= QuarantineOut(p, b)

TrackedIsThere == \A b \in BalanceKeys : Tracked(b) <= quarantine[b]

LineageInv == DatesInOrder /\ ReceiptsAreDated /\ AllocationsStand /\ AllocationsFit /\ TrackedIsThere

\* The numbers of the lineage.
Layers(b) == [q \in ReturnPostings |-> LayerLeft(q, b)]
LineageKnown ==
  \A b \in BalanceKeys :
    /\ Layers(b) \in [ReturnPostings -> Nat]
    /\ Tracked(b) = Total(Layers(b)) /\ Tracked(b) \in Nat
    /\ \A q \in ReturnPostings :
         /\ Allocated(q, b) \in Nat /\ Total(TakenBy(q, b)) \in Nat
         /\ QuarantineIn(q, b) \in Nat /\ QuarantineOut(q, b) \in Nat
         /\ q \in PostedReturns => LayerLeft(q, b) = QuarantineIn(q, b) - Allocated(q, b)
         /\ q \notin PostedReturns => LayerLeft(q, b) = 0 /\ Allocated(q, b) = 0

\* What is allocated of a receipt, by consumer.
GivenOf(q, b) == [c \in ReturnPostings |-> allocation[c][q, b]]

LEMMA AllocationSums ==
  ASSUME AllocationsStand, NEW q \in ReturnPostings, NEW b \in BalanceKeys
  PROVE  /\ GivenOf(q, b) \in [ReturnPostings -> Nat] /\ TakenBy(q, b) \in [ReturnPostings -> Nat]
         /\ Allocated(q, b) = Total(GivenOf(q, b))
         /\ Allocated(q, b) \in Nat /\ Total(TakenBy(q, b)) \in Nat
         /\ q \notin PostedReturns => Allocated(q, b) = 0
<1>1. /\ GivenOf(q, b) \in [ReturnPostings -> Nat] /\ TakenBy(q, b) \in [ReturnPostings -> Nat]
      /\ q \notin PostedReturns => \A c \in ReturnPostings : GivenOf(q, b)[c] = 0
  BY DEF AllocationsStand, GivenOf, TakenBy
<1>2. Allocated(q, b) = Total(GivenOf(q, b))
  BY DEF Allocated, GivenOf
<1>3. Total(GivenOf(q, b)) \in Nat /\ Total(TakenBy(q, b)) \in Nat
  <2>1. Total(GivenOf(q, b)) \in Nat
    BY <1>1, TotalNat, ReturnAssumption
  <2>2. Total(TakenBy(q, b)) \in Nat
    BY <1>1, TotalNat, ReturnAssumption
  <2>3. QED
    BY <2>1, <2>2
<1>4. q \notin PostedReturns => Total(GivenOf(q, b)) = 0
  BY <1>1, TotalZero
<1>5. QED
  BY <1>1, <1>2, <1>3, <1>4

LEMMA LineageNumbers == ReturnsInv /\ AllocationsStand /\ AllocationsFit => LineageKnown
<1> SUFFICES ASSUME ReturnsInv, AllocationsStand, AllocationsFit, NEW b \in BalanceKeys
             PROVE  /\ Layers(b) \in [ReturnPostings -> Nat]
                    /\ Tracked(b) = Total(Layers(b)) /\ Tracked(b) \in Nat
                    /\ \A q \in ReturnPostings :
                         /\ Allocated(q, b) \in Nat /\ Total(TakenBy(q, b)) \in Nat
                         /\ QuarantineIn(q, b) \in Nat /\ QuarantineOut(q, b) \in Nat
                         /\ q \in PostedReturns => LayerLeft(q, b) = QuarantineIn(q, b) - Allocated(q, b)
                         /\ q \notin PostedReturns => LayerLeft(q, b) = 0 /\ Allocated(q, b) = 0
  BY DEF LineageKnown
<1>1. ASSUME NEW q \in ReturnPostings
      PROVE  /\ Allocated(q, b) \in Nat /\ Total(TakenBy(q, b)) \in Nat
             /\ QuarantineIn(q, b) \in Nat /\ QuarantineOut(q, b) \in Nat
             /\ q \in PostedReturns => LayerLeft(q, b) = QuarantineIn(q, b) - Allocated(q, b)
             /\ q \notin PostedReturns => LayerLeft(q, b) = 0 /\ Allocated(q, b) = 0
  <2>1. QuarantineIn(q, b) \in Nat /\ QuarantineOut(q, b) \in Nat
    BY MovedLines DEF QuarantineIn, QuarantineOut
  <2>2. Posted(q) <=> q \in PostedReturns
    BY DEF PostedReturns
  <2>3. /\ Allocated(q, b) \in Nat /\ Total(TakenBy(q, b)) \in Nat
        /\ q \notin PostedReturns => Allocated(q, b) = 0
    BY AllocationSums
  <2>4. QED
    BY <2>1, <2>2, <2>3 DEF LayerLeft
<1>2. Layers(b) \in [ReturnPostings -> Nat]
  <2>1. ASSUME NEW q \in ReturnPostings PROVE LayerLeft(q, b) \in Nat
    <3>1. CASE q \in PostedReturns
      <4>1. Allocated(q, b) <= QuarantineIn(q, b)
        BY <3>1 DEF AllocationsFit
      <4>2. QED
        BY <1>1, <3>1, <4>1
    <3>2. CASE q \notin PostedReturns
      BY <1>1, <3>2
    <3>3. QED
      BY <3>1, <3>2
  <2>2. QED
    BY <2>1 DEF Layers
<1>3. Tracked(b) = Total(Layers(b)) /\ Tracked(b) \in Nat
  <2>1. Tracked(b) = Total(Layers(b))
    BY DEF Tracked, Layers
  <2>2. QED
    BY <1>2, <2>1, TotalNat, ReturnAssumption
<1>4. QED
  BY <1>1, <1>2, <1>3

\* The invariant says what the property says.
LEMMA LineageHolds == ReturnsInv /\ LineageInv => LineageFits
<1> SUFFICES ASSUME ReturnsInv, LineageInv, NEW b \in BalanceKeys
             PROVE  /\ \A q \in ReturnPostings : LayerLeft(q, b) >= 0
                    /\ Tracked(b) <= quarantine[b]
  BY DEF LineageFits
<1>1. LineageKnown
  BY LineageNumbers DEF LineageInv
<1>2. \A q \in ReturnPostings : LayerLeft(q, b) \in Nat
  BY <1>1 DEF LineageKnown, Layers
<1>3. QED
  BY <1>2 DEF LineageInv, TrackedIsThere

\* A posting that brings goods to quarantine has its place.
LEMMA LayersAreDated ==
  ASSUME ReturnsInv, LineageInv, NEW b \in BalanceKeys, NEW q \in ReturnPostings, LayerLeft(q, b) > 0
  PROVE  q \in DatedReturns
<1>1. LineageKnown
  BY LineageNumbers DEF LineageInv
<1>2. /\ q \in PostedReturns /\ QuarantineIn(q, b) # 0
  BY <1>1 DEF LineageKnown
<1>3. posting[q].postingStatus # "none"
  BY <1>2 DEF PostedReturns, Posted
<1>4. Kind(posting[q].authorization) = CustomerReturn
  BY <1>2, <1>3, GoodsOfKind
<1>5. QED
  BY <1>2, <1>4 DEF LineageInv, ReceiptsAreDated, DatedReturns


(***************************************************************************)
(* What a posting takes is allocated to the receipts in their order, all   *)
(* of it but what is untracked.                                            *)
(***************************************************************************)
LEMMA AllocationsTaken ==
  ASSUME ReturnsInv, LineageInv, quarantine \in [BalanceKeys -> Nat],
         NEW b \in BalanceKeys, NEW taken \in Nat, taken <= quarantine[b]
  PROVE  LET take == [q \in ReturnPostings |-> Allocate(q, b, taken)]
         IN  /\ take \in [ReturnPostings -> Nat]
             /\ \A q \in ReturnPostings : take[q] <= LayerLeft(q, b)
             /\ Total(take) \in Nat /\ Total(take) <= taken
             /\ Tracked(b) - Total(take) <= quarantine[b] - taken
<1> DEFINE at == [q \in ReturnPostings |-> posting[q].occurredAt]
           left == Layers(b)
           due == taken - Untracked(b)
           take == [q \in ReturnPostings |-> Allocate(q, b, taken)]
<1>1. LineageKnown
  BY LineageNumbers DEF LineageInv
<1>2. /\ left \in [ReturnPostings -> Nat] /\ Tracked(b) = Total(left) /\ Tracked(b) \in Nat
      /\ quarantine[b] \in Nat /\ Tracked(b) <= quarantine[b]
  BY <1>1 DEF LineageKnown, LineageInv, TrackedIsThere
<1>3. at \in [ReturnPostings -> Nat]
  BY DEF ReturnsInv, PostingRow
<1>4. /\ due \in Int /\ due <= Total(left) /\ due <= taken
      /\ due = taken - (quarantine[b] - Tracked(b))
  BY <1>2 DEF Untracked
<1>5. IsFiniteSet(ReturnPostings)
  BY ReturnAssumption
<1>6. \A x \in ReturnPostings : left[x] = LayerLeft(x, b) /\ left[x] \in Nat
  BY <1>2 DEF Layers
<1>7. \A x, y \in ReturnPostings : left[x] > 0 /\ left[y] > 0 /\ at[x] = at[y] => x = y
  <2> SUFFICES ASSUME NEW x \in ReturnPostings, NEW y \in ReturnPostings,
                      left[x] > 0, left[y] > 0, at[x] = at[y]
               PROVE  x = y
    OBVIOUS
  <2>1. x \in DatedReturns /\ y \in DatedReturns
    BY <1>6, LayersAreDated
  <2>2. QED
    BY <2>1 DEF LineageInv, DatesInOrder
<1>8. ASSUME NEW x \in ReturnPostings
      PROVE  /\ Before(at, left, x) \in [ReturnPostings -> Nat]
             /\ Total(Before(at, left, x)) = Total([p \in Older(x) |-> LayerLeft(p, b)])
             /\ Total(Before(at, left, x)) \in Nat
  <2> DEFINE older == [p \in Older(x) |-> LayerLeft(p, b)]
  <2>1. Older(x) \in SUBSET ReturnPostings /\ \A p \in ReturnPostings : p \in Older(x) <=> at[p] < at[x]
    BY DEF Older
  <2>2. older \in [Older(x) -> Nat] /\ \A p \in Older(x) : older[p] = left[p]
    BY <1>6, <2>1
  <2>3. /\ Before(at, left, x) \in [ReturnPostings -> Nat]
        /\ \A p \in ReturnPostings : Before(at, left, x)[p] = IF at[p] < at[x] THEN left[p] ELSE 0
    BY <1>2 DEF Before
  <2> HIDE DEF older, at, left
  <2>4. Total(Before(at, left, x)) = Total(older)
    BY <2>1, <2>2, <2>3, TotalExtend
  <2>5. Total(Before(at, left, x)) \in Nat
    BY <1>5, <2>3, TotalNat
  <2>6. QED
    BY <2>3, <2>4, <2>5 DEF older
<1>9. ASSUME NEW x \in ReturnPostings
      PROVE  /\ take[x] = LET rest == due - Total(Before(at, left, x))
                          IN IF rest <= 0 THEN 0 ELSE IF rest < left[x] THEN rest ELSE left[x]
             /\ take[x] \in Nat
  <2> DEFINE rest == due - Total(Before(at, left, x))
  <2>1. rest \in Int
    <3>1. due \in Int /\ Total(Before(at, left, x)) \in Nat
      BY <1>4, <1>8
    <3> HIDE DEF due, at, left
    <3>2. QED
      BY <3>1
  <2>2. rest = taken - Untracked(b) - Total([p \in Older(x) |-> LayerLeft(p, b)])
    BY <1>8
  <2>3. take[x] = IF rest <= 0 THEN 0 ELSE IF rest < left[x] THEN rest ELSE left[x]
    BY <1>6, <2>2 DEF Allocate
  <2> HIDE DEF rest, take
  <2>4. take[x] \in Nat
    BY <1>6, <2>1, <2>3
  <2>5. QED
    BY <2>3, <2>4 DEF rest
<1>10. take \in [ReturnPostings -> Nat]
  BY <1>9
<1> HIDE DEF at, left, due, take
<1>11. TakenInOrder(ReturnPostings, at, left, due, take)
  BY <1>2, <1>3, <1>4, <1>5, <1>7, <1>9, <1>10 DEF TakenInOrder
<1>12. /\ \A x \in ReturnPostings : take[x] <= left[x]
       /\ Total(take) = IF due <= 0 THEN 0 ELSE due
  BY <1>4, <1>11, TakenIsDue
<1>13. /\ Total(take) \in Nat /\ Total(take) <= taken
       /\ Tracked(b) - Total(take) <= quarantine[b] - taken
  BY <1>2, <1>4, <1>12
<1>14. QED
  BY <1>6, <1>10, <1>12, <1>13 DEF take

\* Layers of which some is taken, while one comes.
LEMMA LayersChange ==
  ASSUME NEW D, IsFiniteSet(D), NEW l \in [D -> Nat], NEW m \in [D -> Nat], NEW t \in [D -> Nat],
         NEW p \in D, l[p] = 0, t[p] = 0, \A q \in D \ {p} : l[q] = m[q] + t[q]
  PROVE  /\ Total(m) = (Total(l) - Total(t)) + m[p]
         /\ Total(l) \in Nat /\ Total(m) \in Nat /\ Total(t) \in Nat
<1> DEFINE rest == [q \in D |-> IF q = p THEN 0 ELSE m[q]]
<1>1. /\ rest \in [D -> Nat] /\ rest[p] = 0 /\ m[p] \in Nat
      /\ \A q \in D \ {p} : rest[q] = m[q]
      /\ \A q \in D : l[q] = rest[q] + t[q]
  OBVIOUS
<1> HIDE DEF rest
<1>2. Total(l) = Total(rest) + Total(t)
  BY <1>1, TotalAdd
<1>3. Total(rest) = Total(m) - m[p] + rest[p]
  BY <1>1, TotalChange
<1>4. Total(l) \in Nat /\ Total(m) \in Nat
  <2>1. Total(l) \in Nat
    BY TotalNat
  <2>2. Total(m) \in Nat
    BY TotalNat
  <2>3. QED
    BY <2>1, <2>2
<1>5. Total(t) \in Nat
  BY TotalNat
<1>6. QED
  BY <1>1, <1>2, <1>3, <1>4, <1>5


\* What a posting that stands moves, and its kind.
LEMMA StandsMoves ==
  ASSUME NEW p, Stands(p)
  PROVE  /\ \A b : QuarantineIn(p, b)' = QuarantineIn(p, b) /\ QuarantineOut(p, b)' = QuarantineOut(p, b)
         /\ Kind(posting[p].authorization)' = Kind(posting[p].authorization)
<1>1. \A b, routes : MovedBy(p, b, routes)' = MovedBy(p, b, routes)
  BY MovedStands
<1>2. Kind(posting[p].authorization)' = Kind(posting[p].authorization)
  BY MovedStands
<1>3. QED
  BY <1>1, <1>2 DEF QuarantineIn, QuarantineOut

\* No return is posted or reversed, and the rows of the posted ones stand.
ReturnsRest ==
  /\ UNCHANGED quarantineVars
  /\ PostedReturns' = PostedReturns
  /\ \A p \in PostedReturns : Stands(p) /\ posting'[p] = posting[p]

\* A command that neither posts nor reverses leaves the lineage alone.
LEMMA LineageRests ==
  ASSUME LineageInv, ReturnsRest
  PROVE  ReceiptsAreDated' /\ AllocationsStand' /\ AllocationsFit' /\ TrackedIsThere'
<1>1. /\ UNCHANGED <<quarantine, allocation>> /\ PostedReturns' = PostedReturns
      /\ \A p \in PostedReturns : Stands(p) /\ posting'[p] = posting[p]
  BY DEF ReturnsRest, quarantineVars
<1>2. ASSUME NEW p \in PostedReturns
      PROVE  /\ \A b : QuarantineIn(p, b)' = QuarantineIn(p, b) /\ QuarantineOut(p, b)' = QuarantineOut(p, b)
             /\ Kind(posting[p].authorization)' = Kind(posting[p].authorization)
  BY <1>1, StandsMoves
<1>3. \A q, b : Allocated(q, b)' = Allocated(q, b) /\ TakenBy(q, b)' = TakenBy(q, b)
  BY <1>1 DEF Allocated, TakenBy
<1>4. ReceiptsAreDated'
  BY <1>1, <1>2 DEF LineageInv, ReceiptsAreDated, CustomerReturn
<1>5. AllocationsStand'
  BY <1>1 DEF LineageInv, AllocationsStand
<1>6. AllocationsFit'
  BY <1>1, <1>2, <1>3 DEF LineageInv, AllocationsFit
<1>7. ASSUME NEW q \in ReturnPostings, NEW b PROVE LayerLeft(q, b)' = LayerLeft(q, b)
  <2>1. /\ Posted(q) <=> q \in PostedReturns
        /\ Posted(q)' <=> q \in PostedReturns
    BY <1>1 DEF PostedReturns
  <2>2. CASE q \in PostedReturns
    BY <1>2, <1>3, <2>1, <2>2 DEF LayerLeft
  <2>3. CASE q \notin PostedReturns
    BY <2>1, <2>3 DEF LayerLeft
  <2>4. QED
    BY <2>2, <2>3
<1>8. \A b : Tracked(b)' = Tracked(b)
  BY <1>7 DEF Tracked
<1>9. TrackedIsThere'
  BY <1>1, <1>8 DEF LineageInv, TrackedIsThere
<1>10. QED
  BY <1>4, <1>5, <1>6, <1>9

\* One row of the allocations is rewritten.
RowWritten(p, row) ==
  /\ allocation' \in [ReturnPostings -> [ReturnPostings \X BalanceKeys -> Nat]]
  /\ allocation'[p] = row /\ \A c \in ReturnPostings \ {p} : allocation'[c] = allocation[c]
  /\ \A b : TakenBy(p, b)' = [q \in ReturnPostings |-> row[q, b]]
  /\ \A c \in ReturnPostings \ {p} : \A b : TakenBy(c, b)' = TakenBy(c, b)
  /\ \A q \in ReturnPostings : \A b \in BalanceKeys :
       Allocated(q, b)' = (Allocated(q, b) - allocation[p][q, b]) + row[q, b]

LEMMA AllocationWritten ==
  ASSUME AllocationsStand, NEW p \in ReturnPostings, NEW row \in [ReturnPostings \X BalanceKeys -> Nat],
         allocation' = [allocation EXCEPT ![p] = row]
  PROVE  RowWritten(p, row)
<1>1. allocation \in [ReturnPostings -> [ReturnPostings \X BalanceKeys -> Nat]]
  BY DEF AllocationsStand
<1>2. /\ allocation' \in [ReturnPostings -> [ReturnPostings \X BalanceKeys -> Nat]]
      /\ allocation'[p] = row /\ \A c \in ReturnPostings \ {p} : allocation'[c] = allocation[c]
  BY <1>1
<1>3. /\ \A b : TakenBy(p, b)' = [q \in ReturnPostings |-> row[q, b]]
      /\ \A c \in ReturnPostings \ {p} : \A b : TakenBy(c, b)' = TakenBy(c, b)
  BY <1>2 DEF TakenBy
<1>4. ASSUME NEW q \in ReturnPostings, NEW b \in BalanceKeys
      PROVE  Allocated(q, b)' = (Allocated(q, b) - allocation[p][q, b]) + row[q, b]
  <2> DEFINE g == GivenOf(q, b)
             h == [c \in ReturnPostings |-> allocation'[c][q, b]]
             old == allocation[p][q, b]
             new == row[q, b]
  <2>1. /\ g \in [ReturnPostings -> Nat] /\ h \in [ReturnPostings -> Nat]
        /\ \A c \in ReturnPostings \ {p} : h[c] = g[c]
    BY <1>1, <1>2 DEF GivenOf
  <2>2. g[p] = old /\ h[p] = new
    BY <1>2 DEF GivenOf
  <2>3. Allocated(q, b) = Total(g) /\ Allocated(q, b)' = Total(h)
    BY DEF Allocated, GivenOf
  <2>4. IsFiniteSet(ReturnPostings)
    BY ReturnAssumption
  <2> HIDE DEF g, h, old, new
  <2>5. Total(h) = Total(g) - g[p] + h[p]
    BY <2>1, <2>4, TotalChange
  <2>6. Allocated(q, b)' = (Allocated(q, b) - old) + new
    BY <2>2, <2>3, <2>5
  <2>7. QED
    BY <2>6 DEF old, new
<1>5. QED
  BY <1>2, <1>3, <1>4 DEF RowWritten


\* A posting takes its share of the layers, and may bring one of its own.
LEMMA LineagePosted ==
  ASSUME ReturnsInv, GoodsInv, LineageInv, NEW p \in ReturnPostings, NEW kind, PostReturn(kind, p)
  PROVE  AllocationsStand' /\ AllocationsFit' /\ TrackedIsThere'
<1> DEFINE row == AllocationsOf(p)
           take(b) == [q \in ReturnPostings |-> Allocate(q, b, QuarantineOut(p, b))]
<1>1. LineageKnown /\ AllocationsStand
  BY LineageNumbers DEF LineageInv
<1>2. /\ \A q \in PostedReturns \cup {p} : q \in ReturnPostings /\ Stands(q)
      /\ p \notin PostedReturns /\ PostedReturns' = PostedReturns \cup {p}
  BY ReturnWritten DEF PostedReturns, Posted
<1>3. ASSUME NEW q \in PostedReturns \cup {p}
      PROVE  \A b : QuarantineIn(q, b)' = QuarantineIn(q, b) /\ QuarantineOut(q, b)' = QuarantineOut(q, b)
  BY <1>2, StandsMoves
<1>4. /\ allocation' = [allocation EXCEPT ![p] = row]
      /\ \A b \in BalanceKeys : /\ quarantine[b] >= QuarantineOut(p, b)
                                /\ quarantine'[b] = quarantine[b] + 1 * (QuarantineIn(p, b) - QuarantineOut(p, b))
  BY DEF PostReturn, ReturnPlanAllows, MoveGoods
<1>5. ASSUME NEW b \in BalanceKeys
      PROVE  /\ take(b) \in [ReturnPostings -> Nat]
             /\ \A q \in ReturnPostings : take(b)[q] <= LayerLeft(q, b)
             /\ Total(take(b)) \in Nat /\ Total(take(b)) <= QuarantineOut(p, b)
             /\ Tracked(b) - Total(take(b)) <= quarantine[b] - QuarantineOut(p, b)
  <2>1. /\ QuarantineOut(p, b) \in Nat /\ QuarantineOut(p, b) <= quarantine[b]
        /\ quarantine \in [BalanceKeys -> Nat]
    BY <1>1, <1>4 DEF LineageKnown, GoodsInv
  <2>2. QED
    BY <2>1, AllocationsTaken
<1>6. /\ row \in [ReturnPostings \X BalanceKeys -> Nat]
      /\ \A q \in ReturnPostings : \A b \in BalanceKeys : row[q, b] = take(b)[q]
  <2>1. \A q \in ReturnPostings : \A b \in BalanceKeys :
          take(b)[q] = Allocate(q, b, QuarantineOut(p, b)) /\ take(b)[q] \in Nat
    BY <1>5
  <2>2. \A layer \in ReturnPostings \X BalanceKeys :
          Allocate(layer[1], layer[2], QuarantineOut(p, layer[2])) \in Nat
    BY <2>1
  <2>3. QED
    BY <2>1, <2>2 DEF AllocationsOf
<1> HIDE DEF row, take
<1>7. RowWritten(p, row)
  BY <1>1, <1>4, <1>6, AllocationWritten
<1>8. ASSUME NEW q \in ReturnPostings, NEW b \in BalanceKeys
      PROVE  /\ Allocated(q, b)' = Allocated(q, b) + take(b)[q]
             /\ take(b)[q] \in Nat /\ Allocated(q, b) \in Nat /\ QuarantineIn(q, b) \in Nat
             /\ q \in PostedReturns => /\ Allocated(q, b)' <= QuarantineIn(q, b)
                                       /\ LayerLeft(q, b) = LayerLeft(q, b)' + take(b)[q]
             /\ q \notin PostedReturns => take(b)[q] = 0 /\ Allocated(q, b)' = 0 /\ LayerLeft(q, b) = 0
             /\ q \notin PostedReturns /\ q # p => LayerLeft(q, b)' = 0
             /\ q = p => LayerLeft(q, b)' = QuarantineIn(p, b)
             /\ LayerLeft(q, b)' \in Nat
  <2>1. /\ Posted(q)' <=> q \in PostedReturns \cup {p}
        /\ LayerLeft(q, b)' = IF Posted(q)' THEN QuarantineIn(q, b)' - Allocated(q, b)' ELSE 0
    BY <1>2 DEF PostedReturns, LayerLeft
  <2>2. allocation[p][q, b] = 0
    BY <1>1, <1>2 DEF AllocationsStand
  <2>3. /\ take(b)[q] \in Nat /\ take(b)[q] <= LayerLeft(q, b)
    BY <1>5
  <2>4. /\ Allocated(q, b) \in Nat /\ QuarantineIn(q, b) \in Nat
        /\ q \in PostedReturns => LayerLeft(q, b) = QuarantineIn(q, b) - Allocated(q, b)
        /\ q \notin PostedReturns => LayerLeft(q, b) = 0 /\ Allocated(q, b) = 0
    BY <1>1 DEF LineageKnown
  <2>5. Allocated(q, b)' = Allocated(q, b) + take(b)[q]
    <3> DEFINE old == allocation[p][q, b]
               new == row[q, b]
               taken == take(b)[q]
    <3>1. Allocated(q, b)' = (Allocated(q, b) - old) + new
      BY <1>7 DEF RowWritten
    <3>2. old = 0 /\ new = taken /\ taken \in Nat /\ Allocated(q, b) \in Nat
      BY <1>6, <2>2, <2>3, <2>4
    <3> HIDE DEF old, new, taken
    <3>3. Allocated(q, b)' = Allocated(q, b) + taken
      BY <3>1, <3>2
    <3>4. QED
      BY <3>3 DEF taken
  <2>6. q \in PostedReturns \cup {p} => LayerLeft(q, b)' = QuarantineIn(q, b) - Allocated(q, b)'
    <3> SUFFICES ASSUME q \in PostedReturns \cup {p}
                 PROVE  LayerLeft(q, b)' = QuarantineIn(q, b) - Allocated(q, b)'
      OBVIOUS
    <3>1. QuarantineIn(q, b)' = QuarantineIn(q, b)
      BY <1>3
    <3>2. QED
      BY <2>1, <3>1
  <2>7. CASE q \in PostedReturns
    BY <1>2, <2>3, <2>4, <2>5, <2>6, <2>7
  <2>8. CASE q \notin PostedReturns
    <3>1. /\ LayerLeft(q, b) = 0 /\ Allocated(q, b) = 0 /\ take(b)[q] = 0 /\ Allocated(q, b)' = 0
      BY <2>3, <2>4, <2>5, <2>8
    <3>2. CASE q = p
      BY <2>3, <2>4, <2>5, <2>6, <2>8, <3>1, <3>2
    <3>3. CASE q # p
      BY <2>1, <2>3, <2>4, <2>5, <2>8, <3>1, <3>3
    <3>4. QED
      BY <3>2, <3>3
  <2>9. QED
    BY <2>7, <2>8
<1>9. AllocationsStand'
  <2> SUFFICES ASSUME NEW c \in ReturnPostings, NEW q \in ReturnPostings, NEW b \in BalanceKeys,
                      c \notin PostedReturns' \/ q \notin PostedReturns'
               PROVE  allocation'[c][q, b] = 0
    BY <1>7 DEF AllocationsStand, RowWritten
  <2>1. CASE c = p
    <3>1. q \notin PostedReturns
      BY <1>2, <2>1
    <3>2. take(b)[q] = 0 /\ row[q, b] = take(b)[q]
      BY <1>6, <1>8, <3>1
    <3>3. QED
      BY <1>7, <2>1, <3>2 DEF RowWritten
  <2>2. CASE c # p
    BY <1>1, <1>2, <1>7, <2>2 DEF AllocationsStand, RowWritten
  <2>3. QED
    BY <2>1, <2>2
<1>10. AllocationsFit'
  <2> SUFFICES ASSUME NEW q \in PostedReturns \cup {p}, NEW b \in BalanceKeys
               PROVE  /\ Allocated(q, b)' <= QuarantineIn(q, b)'
                      /\ Total(TakenBy(q, b))' <= QuarantineOut(q, b)'
    BY <1>2 DEF AllocationsFit
  <2>1. q \in ReturnPostings /\ QuarantineIn(q, b)' = QuarantineIn(q, b) /\ QuarantineOut(q, b)' = QuarantineOut(q, b)
    BY <1>2, <1>3
  <2>2. Allocated(q, b)' <= QuarantineIn(q, b)
    BY <1>8, <2>1
  <2>3. Total(TakenBy(q, b)') <= QuarantineOut(q, b)
    <3>1. CASE q = p
      <4>1. TakenBy(p, b)' = take(b)
        <5>1. take(b) \in [ReturnPostings -> Nat]
          BY <1>5
        <5>2. \A c \in ReturnPostings : row[c, b] = take(b)[c]
          BY <1>6
        <5>3. TakenBy(p, b)' = [c \in ReturnPostings |-> row[c, b]]
          BY <1>7 DEF RowWritten
        <5>4. QED
          BY <5>1, <5>2, <5>3
      <4>2. QED
        BY <1>5, <3>1, <4>1
    <3>2. CASE q # p
      BY <1>7, <2>1, <3>2 DEF LineageInv, AllocationsFit, RowWritten
    <3>3. QED
      BY <3>1, <3>2
  <2>4. QED
    BY <2>1, <2>2, <2>3
<1>11. ASSUME NEW b \in BalanceKeys PROVE Tracked(b)' <= quarantine'[b]
  <2> DEFINE l == Layers(b)
             m == [q \in ReturnPostings |-> LayerLeft(q, b)']
             t == take(b)
  <2>1. /\ l \in [ReturnPostings -> Nat] /\ m \in [ReturnPostings -> Nat] /\ t \in [ReturnPostings -> Nat]
        /\ l[p] = 0 /\ t[p] = 0 /\ m[p] = QuarantineIn(p, b)
        /\ \A q \in ReturnPostings \ {p} : l[q] = m[q] + t[q]
    BY <1>1, <1>2, <1>5, <1>8 DEF LineageKnown, Layers
  <2>2. Tracked(b)' = Total(m) /\ Tracked(b) = Total(l)
    BY <1>1 DEF Tracked, LineageKnown
  <2> HIDE DEF l, m
  <2>3. /\ Total(m) = (Total(l) - Total(t)) + m[p]
        /\ Total(l) \in Nat /\ Total(m) \in Nat /\ Total(t) \in Nat
    BY <2>1, LayersChange, ReturnAssumption
  <2>4. /\ Total(l) - Total(t) <= quarantine[b] - QuarantineOut(p, b)
        /\ quarantine[b] \in Nat /\ QuarantineOut(p, b) \in Nat /\ QuarantineIn(p, b) \in Nat
    BY <1>1, <1>5, <2>2 DEF GoodsInv, LineageKnown
  <2>5. quarantine'[b] = quarantine[b] + 1 * (QuarantineIn(p, b) - QuarantineOut(p, b))
    BY <1>4
  <2>6. QED
    BY <2>1, <2>2, <2>3, <2>4, <2>5
<1>12. QED
  BY <1>9, <1>10, <1>11 DEF TrackedIsThere


\* What a return that is reversed brought is untouched, and it has taken none of it.
LEMMA ReversedUntouched ==
  ASSUME ReturnsInv, LineageInv, NEW p \in ReturnPostings,
         NEW kind \in {CustomerReturn, Release, SupplierReturn}, ReverseReturn(kind, p),
         NEW b \in BalanceKeys
  PROVE  /\ Allocated(p, b) = 0 /\ LayerLeft(p, b) = QuarantineIn(p, b)
         /\ \A c \in ReturnPostings : allocation[c][p, b] = 0
<1>1. LineageKnown /\ AllocationsStand
  BY LineageNumbers DEF LineageInv
<1>2. /\ p \in PostedReturns /\ Kind(posting[p].authorization) = kind
      /\ posting[p].postingStatus # "none"
  BY DEF ReverseReturn, PostedReturns, Posted
<1>3. /\ Allocated(p, b) \in Nat /\ QuarantineIn(p, b) \in Nat
      /\ LayerLeft(p, b) = QuarantineIn(p, b) - Allocated(p, b)
  BY <1>1, <1>2 DEF LineageKnown
<1>4. /\ GivenOf(p, b) \in [ReturnPostings -> Nat] /\ Allocated(p, b) = Total(GivenOf(p, b))
  BY <1>1, AllocationSums
<1>5. Allocated(p, b) = 0
  <2>1. CASE kind = CustomerReturn
    <3>1. \A c \in ReturnPostings : allocation[c][p, b] = 0
      BY <2>1 DEF ReverseReturn, ReceiptUntouched, CustomerReturn
    <3>2. \A c \in ReturnPostings : GivenOf(p, b)[c] = 0
      BY <3>1 DEF GivenOf
    <3>3. QED
      BY <1>4, <3>2, TotalZero
  <2>2. CASE kind # CustomerReturn
    <3>1. QuarantineIn(p, b) = 0
      BY <1>2, <2>2, GoodsOfKind
    <3>2. Allocated(p, b) <= QuarantineIn(p, b)
      BY <1>2 DEF LineageInv, AllocationsFit
    <3>3. QED
      BY <1>3, <3>1, <3>2
  <2>3. QED
    BY <2>1, <2>2
<1>6. \A c \in ReturnPostings : allocation[c][p, b] = 0
  <2> SUFFICES ASSUME NEW c \in ReturnPostings PROVE GivenOf(p, b)[c] = 0
    BY DEF GivenOf
  <2>1. GivenOf(p, b)[c] <= Total(GivenOf(p, b))
    BY <1>4, TotalBound, ReturnAssumption
  <2>2. GivenOf(p, b)[c] \in Nat
    BY <1>4
  <2>3. QED
    BY <1>4, <1>5, <2>1, <2>2
<1>7. LayerLeft(p, b) = QuarantineIn(p, b)
  BY <1>3, <1>5
<1>8. QED
  BY <1>5, <1>6, <1>7

\* A reversal gives back what was taken of the layers, and takes away its own.
LEMMA LineageReversed ==
  ASSUME ReturnsInv, GoodsInv, LineageInv, NEW p \in ReturnPostings,
         NEW kind \in {CustomerReturn, Release, SupplierReturn}, ReverseReturn(kind, p)
  PROVE  AllocationsStand' /\ AllocationsFit' /\ TrackedIsThere'
<1> DEFINE row == [layer \in ReturnPostings \X BalanceKeys |-> 0]
<1>1. LineageKnown /\ AllocationsStand
  BY LineageNumbers DEF LineageInv
<1>2. /\ \A q \in PostedReturns : q \in ReturnPostings /\ Stands(q)
      /\ p \in PostedReturns /\ PostedReturns' = PostedReturns \ {p}
  BY ReturnWritten DEF PostedReturns, Posted
<1>3. ASSUME NEW q \in PostedReturns
      PROVE  \A b : QuarantineIn(q, b)' = QuarantineIn(q, b) /\ QuarantineOut(q, b)' = QuarantineOut(q, b)
  BY <1>2, StandsMoves
<1>4. /\ allocation' = [allocation EXCEPT ![p] = row]
      /\ \A b \in BalanceKeys :
           quarantine'[b] = quarantine[b] + (-1) * (QuarantineIn(p, b) - QuarantineOut(p, b))
  BY DEF ReverseReturn, MoveGoods
<1>5. /\ row \in [ReturnPostings \X BalanceKeys -> Nat]
      /\ \A q \in ReturnPostings : \A b \in BalanceKeys : row[q, b] = 0
  OBVIOUS
<1> HIDE DEF row
<1>6. RowWritten(p, row)
  BY <1>1, <1>4, <1>5, AllocationWritten
<1>7. ASSUME NEW q \in ReturnPostings, NEW b \in BalanceKeys
      PROVE  /\ TakenBy(p, b)[q] \in Nat
             /\ Allocated(q, b)' = Allocated(q, b) - TakenBy(p, b)[q]
             /\ q \in PostedReturns \ {p} => LayerLeft(q, b)' = LayerLeft(q, b) + TakenBy(p, b)[q]
             /\ q \notin PostedReturns \ {p} => LayerLeft(q, b)' = 0
             /\ q \notin PostedReturns => LayerLeft(q, b) = 0 /\ TakenBy(p, b)[q] = 0
  <2> DEFINE old == allocation[p][q, b]
             new == row[q, b]
  <2>1. /\ Posted(q)' <=> q \in PostedReturns \ {p}
        /\ LayerLeft(q, b)' = IF Posted(q)' THEN QuarantineIn(q, b)' - Allocated(q, b)' ELSE 0
    BY <1>2 DEF PostedReturns, LayerLeft
  <2>2. /\ Allocated(q, b) \in Nat /\ QuarantineIn(q, b) \in Nat
        /\ q \in PostedReturns => LayerLeft(q, b) = QuarantineIn(q, b) - Allocated(q, b)
        /\ q \notin PostedReturns => LayerLeft(q, b) = 0
    BY <1>1 DEF LineageKnown
  <2>3. Allocated(q, b)' = (Allocated(q, b) - old) + new
    BY <1>6 DEF RowWritten
  <2>4. new = 0 /\ TakenBy(p, b)[q] = old
    BY <1>5 DEF TakenBy
  <2>5. TakenBy(p, b)[q] \in Nat /\ (q \notin PostedReturns => TakenBy(p, b)[q] = 0)
    BY <1>1 DEF AllocationsStand, TakenBy
  <2> HIDE DEF old, new
  <2>6. Allocated(q, b)' = Allocated(q, b) - TakenBy(p, b)[q]
    BY <2>2, <2>3, <2>4, <2>5
  <2>7. q \in PostedReturns => QuarantineIn(q, b)' = QuarantineIn(q, b)
    BY <1>3
  <2>8. CASE q \in PostedReturns \ {p}
    BY <2>1, <2>2, <2>5, <2>6, <2>7, <2>8
  <2>9. CASE q \notin PostedReturns \ {p}
    BY <2>1, <2>2, <2>5, <2>6, <2>9
  <2>10. QED
    BY <2>8, <2>9
<1>8. AllocationsStand'
  <2> SUFFICES ASSUME NEW c \in ReturnPostings, NEW q \in ReturnPostings, NEW b \in BalanceKeys,
                      c \notin PostedReturns' \/ q \notin PostedReturns'
               PROVE  allocation'[c][q, b] = 0
    BY <1>6 DEF AllocationsStand, RowWritten
  <2>1. CASE c = p
    BY <1>5, <1>6, <2>1 DEF RowWritten
  <2>2. CASE c # p
    <3>1. allocation'[c] = allocation[c]
      BY <1>6, <2>2 DEF RowWritten
    <3>2. CASE q = p
      BY <3>1, <3>2, ReversedUntouched
    <3>3. CASE q # p
      BY <1>1, <1>2, <2>2, <3>1, <3>3 DEF AllocationsStand
    <3>4. QED
      BY <3>2, <3>3
  <2>3. QED
    BY <2>1, <2>2
<1>9. AllocationsFit'
  <2> SUFFICES ASSUME NEW q \in PostedReturns \ {p}, NEW b \in BalanceKeys
               PROVE  /\ Allocated(q, b)' <= QuarantineIn(q, b)'
                      /\ Total(TakenBy(q, b))' <= QuarantineOut(q, b)'
    BY <1>2 DEF AllocationsFit
  <2>1. q \in ReturnPostings /\ QuarantineIn(q, b)' = QuarantineIn(q, b) /\ QuarantineOut(q, b)' = QuarantineOut(q, b)
    BY <1>2, <1>3
  <2>2. Allocated(q, b) <= QuarantineIn(q, b) /\ Total(TakenBy(q, b)) <= QuarantineOut(q, b)
    BY DEF LineageInv, AllocationsFit
  <2>3. Allocated(q, b) \in Nat /\ QuarantineIn(q, b) \in Nat
    BY <1>1, <2>1 DEF LineageKnown
  <2>4. Allocated(q, b)' <= QuarantineIn(q, b)
    <3>1. TakenBy(p, b)[q] \in Nat /\ Allocated(q, b)' = Allocated(q, b) - TakenBy(p, b)[q]
      BY <1>7, <2>1
    <3>2. QED
      BY <2>2, <2>3, <3>1
  <2>5. TakenBy(q, b)' = TakenBy(q, b)
    BY <1>6, <2>1 DEF RowWritten
  <2>6. QED
    BY <2>1, <2>2, <2>4, <2>5
<1>10. ASSUME NEW b \in BalanceKeys PROVE Tracked(b)' <= quarantine'[b]
  <2> DEFINE l == [q \in ReturnPostings |-> LayerLeft(q, b)']
             m == Layers(b)
             t == TakenBy(p, b)
  <2>1. /\ LayerLeft(p, b) = QuarantineIn(p, b) /\ allocation[p][p, b] = 0
    BY ReversedUntouched
  <2>2. m \in [ReturnPostings -> Nat] /\ \A q \in ReturnPostings : m[q] = LayerLeft(q, b) /\ m[q] \in Nat
    BY <1>1 DEF LineageKnown, Layers
  <2>3. t \in [ReturnPostings -> Nat] /\ t[p] = 0
    BY <1>1, <2>1 DEF AllocationsStand, TakenBy
  <2>4. ASSUME NEW q \in ReturnPostings
        PROVE  /\ LayerLeft(q, b)' \in Nat
               /\ q = p => LayerLeft(q, b)' = 0
               /\ q # p => LayerLeft(q, b)' = m[q] + t[q]
    <3> HIDE DEF t, m
    <3>1. /\ m[q] = LayerLeft(q, b) /\ m[q] \in Nat /\ t[q] \in Nat
      BY <2>2, <2>3
    <3>2. /\ q \in PostedReturns \ {p} => LayerLeft(q, b)' = m[q] + t[q]
          /\ q \notin PostedReturns \ {p} => LayerLeft(q, b)' = 0
          /\ q \notin PostedReturns => m[q] = 0 /\ t[q] = 0
      BY <1>7, <3>1 DEF t
    <3>3. QED
      BY <3>1, <3>2
  <2>5. /\ l \in [ReturnPostings -> Nat] /\ l[p] = 0
        /\ \A q \in ReturnPostings \ {p} : l[q] = m[q] + t[q]
    <3> HIDE DEF t, m
    <3> QED BY <2>4
  <2>6. Tracked(b)' = Total(l) /\ Tracked(b) = Total(m)
    BY <1>1 DEF Tracked, LineageKnown
  <2>7. m[p] = QuarantineIn(p, b)
    BY <2>1, <2>2
  <2>8. Total(t) <= QuarantineOut(p, b)
    BY <1>2 DEF LineageInv, AllocationsFit
  <2> HIDE DEF l, m, t
  <2>9. /\ Total(m) = (Total(l) - Total(t)) + m[p]
        /\ Total(l) \in Nat /\ Total(m) \in Nat /\ Total(t) \in Nat
    BY <2>2, <2>3, <2>5, LayersChange, ReturnAssumption
  <2>10. /\ Total(m) <= quarantine[b]
         /\ quarantine[b] \in Nat /\ QuarantineOut(p, b) \in Nat /\ QuarantineIn(p, b) \in Nat
    BY <1>1, <2>6 DEF GoodsInv, LineageKnown, LineageInv, TrackedIsThere
  <2>11. quarantine'[b] = quarantine[b] + (-1) * (QuarantineIn(p, b) - QuarantineOut(p, b))
    BY <1>4
  <2>12. QED
    BY <2>6, <2>7, <2>8, <2>9, <2>10, <2>11
<1>11. QED
  BY <1>8, <1>9, <1>10 DEF TrackedIsThere


\* Places that are given stay, and nothing without one is begun again.
PlacesStay ==
  \A p \in ReturnPostings :
    /\ posting'[p].occurredAt = posting[p].occurredAt
    /\ posting'[p].postingStatus \in {"none", "unposted"} => posting[p].postingStatus \in {"none", "unposted"}

LEMMA DatesStay ==
  ASSUME DatesInOrder, PlacesStay
  PROVE  DatesInOrder'
<1>1. DatedReturns' = DatedReturns
  BY DEF DatedReturns, PlacesStay
<1>2. Cardinality(DatedReturns)' = Cardinality(DatedReturns)
  BY <1>1
<1>3. \A p \in DatedReturns : p \in ReturnPostings
  BY DEF DatedReturns
<1>4. QED
  BY <1>1, <1>2, <1>3 DEF DatesInOrder, PlacesStay

\* Only postings give places.
LEMMA PlacesRest ==
  ASSUME ReturnsInv, DatesInOrder, ReturnsNext
  PROVE  \/ PlacesStay
         \/ \E p \in ReturnPostings : \E kind \in {CustomerReturn, Release, SupplierReturn} :
              PostReturn(kind, p) \/ ReverseReturn(kind, p)
<1>1. posting \in [ReturnPostings -> PostingRow]
  BY DEF ReturnsInv
<1>2. CASE GovernanceNext /\ UNCHANGED quarantineVars
  <2>1. UNCHANGED posting
    BY <1>2 DEF GovernanceNext, CreateRequest, ReviseRequest, SubmitRequest, CancelRequest, AuthorizeRequest,
           RejectRequest, CancelAuthorization, ExpireAuthorization, CloseAuthorization, PassDeadline, ReverseSource
  <2>2. QED
    BY <2>1 DEF PlacesStay
<1>3. ASSUME NEW p \in ReturnPostings, NEW asked, NEW key, DraftNext(p, asked, key)
      PROVE  PlacesStay
  <2>1. \E kind : \/ \E a : CreateReturnDraft(kind, p, a, asked, key)
                  \/ ReviseReturnDraft(kind, p, asked, key)
    BY <1>3 DEF DraftNext, CreateCustomerReturnDraft, CreateReleaseDraft, CreateSupplierReturnDraft,
                ReviseCustomerReturnDraft, ReviseReleaseDraft, ReviseSupplierReturnDraft
  <2>2. ASSUME NEW kind, NEW a, CreateReturnDraft(kind, p, a, asked, key) PROVE PlacesStay
    <3>1. posting[p].postingStatus = "none" /\ posting[p].occurredAt = 0
      BY <2>2 DEF CreateReturnDraft, DatesInOrder
    <3>2. /\ posting'[p].occurredAt = 0
          /\ \A q \in ReturnPostings : q # p => posting'[q] = posting[q]
      BY <1>1, <2>2 DEF CreateReturnDraft, NoPosting
    <3>3. QED
      BY <3>1, <3>2 DEF PlacesStay
  <2>3. ASSUME NEW kind, ReviseReturnDraft(kind, p, asked, key) PROVE PlacesStay
    <3>1. /\ posting'[p].occurredAt = posting[p].occurredAt
          /\ posting'[p].postingStatus = posting[p].postingStatus
          /\ \A q \in ReturnPostings : q # p => posting'[q] = posting[q]
      BY <1>1, <2>3 DEF ReviseReturnDraft, PostingRow
    <3>2. QED
      BY <3>1 DEF PlacesStay
  <2>4. QED
    BY <2>1, <2>2, <2>3
<1>4. ASSUME NEW p \in ReturnPostings, NEW kind, ReadyReturn(kind, p) \/ CancelReturn(kind, p)
      PROVE  PlacesStay
  <2>1. /\ posting'[p].occurredAt = posting[p].occurredAt
        /\ posting'[p].postingStatus = posting[p].postingStatus
        /\ \A q \in ReturnPostings : q # p => posting'[q] = posting[q]
    BY <1>1, <1>4 DEF ReadyReturn, CancelReturn, PostingRow
  <2>2. QED
    BY <2>1 DEF PlacesStay
<1>5. QED
  BY <1>2, <1>3, <1>4
     DEF ReturnsNext, PostingNext, ReadyCustomerReturn, CancelCustomerReturn, PostCustomerReturn,
         ReverseCustomerReturn, ReadyRelease, CancelRelease, PostRelease, ReverseRelease,
         ReadySupplierReturn, CancelSupplierReturn, PostSupplierReturn, ReverseSupplierReturn

\* A customer return that is posted gets the next place.
LEMMA PlaceGiven ==
  ASSUME ReturnsInv, DatesInOrder, ReceiptsAreDated, NEW p \in ReturnPostings, NEW kind, PostReturn(kind, p)
  PROVE  DatesInOrder' /\ ReceiptsAreDated'
<1> DEFINE occurred == IF kind = CustomerReturn THEN NextOccurrence ELSE 0
           after == [b \in BalanceKeys |-> IF StockIn(p, b) > 0 THEN balance'[b] ELSE None]
           posted == [posting[p] EXCEPT !.postingStatus = "posted"]
           dated == [posted EXCEPT !.occurredAt = occurred]
           row == [dated EXCEPT !.destinationAfter = after]
<1>1. posting \in [ReturnPostings -> PostingRow] /\ posting[p] \in PostingRow
  BY DEF ReturnsInv
<1>2. posting' = [posting EXCEPT ![p] = row]
  BY <1>1 DEF PostReturn, CustomerReturn
<1>3. /\ posting[p].postingStatus = "unposted" /\ Kind(posting[p].authorization) = kind
      /\ posting[p].occurredAt = 0
  BY DEF PostReturn, OpenReturn, DatesInOrder
<1>4. /\ Cardinality(DatedReturns) \in Nat /\ IsFiniteSet(DatedReturns)
      /\ NextOccurrence = 1 + Cardinality(DatedReturns)
  <2>1. IsFiniteSet(DatedReturns)
    BY FS_Subset, ReturnAssumption DEF DatedReturns
  <2>2. QED
    BY <2>1, FS_CardinalityType DEF NextOccurrence, DatedReturns
<1>5. occurred = IF kind = CustomerReturn THEN 1 + Cardinality(DatedReturns) ELSE 0
  BY <1>4
<1> HIDE DEF occurred, after
<1>6. row.occurredAt = occurred /\ row.postingStatus = "posted"
  BY <1>1 DEF PostingRow
<1> HIDE DEF row
<1>7. /\ posting'[p].occurredAt = occurred /\ posting'[p].postingStatus = "posted"
      /\ \A q \in ReturnPostings \ {p} : posting'[q] = posting[q]
  BY <1>1, <1>2, <1>6
<1>8. \A q \in DatedReturns : q \in ReturnPostings /\ q # p
  BY <1>3 DEF DatedReturns
<1>9. DatesInOrder'
  <2>1. CASE kind = CustomerReturn
    <3> DEFINE card == Cardinality(DatedReturns)
    <3>1. DatedReturns' = DatedReturns \cup {p}
      BY <1>4, <1>5, <1>7, <2>1 DEF DatedReturns
    <3>2. Cardinality(DatedReturns)' = card + 1
      BY <1>4, <1>8, <3>1, FS_AddElement
    <3>3. ASSUME NEW q \in ReturnPostings
          PROVE  /\ posting'[q].postingStatus \in {"none", "unposted"} => posting'[q].occurredAt = 0
                 /\ posting'[q].occurredAt <= card + 1
      <4>1. CASE q = p
        BY <1>4, <1>5, <1>7, <2>1, <4>1
      <4>2. CASE q # p
        <5>1. posting[q].occurredAt \in Nat /\ posting[q].occurredAt <= card
          BY <1>1 DEF PostingRow, DatesInOrder
        <5>2. QED
          BY <1>4, <1>7, <4>2, <5>1 DEF DatesInOrder
      <4>3. QED
        BY <4>1, <4>2
    <3>4. ASSUME NEW q \in DatedReturns PROVE posting'[q].occurredAt # posting'[p].occurredAt
      <4>1. posting[q].occurredAt \in Nat /\ posting[q].occurredAt <= card
        BY <1>1, <1>8 DEF PostingRow, DatesInOrder
      <4>2. QED
        BY <1>4, <1>5, <1>7, <1>8, <2>1, <4>1
    <3>5. \A q, r \in DatedReturns \cup {p} : posting'[q].occurredAt = posting'[r].occurredAt => q = r
      BY <1>7, <1>8, <3>4 DEF DatesInOrder
    <3>6. QED
      BY <3>1, <3>2, <3>3, <3>5 DEF DatesInOrder
  <2>2. CASE kind # CustomerReturn
    <3>1. DatedReturns' = DatedReturns
      BY <1>3, <1>5, <1>7, <2>2 DEF DatedReturns
    <3>2. Cardinality(DatedReturns)' = Cardinality(DatedReturns)
      BY <3>1
    <3>3. ASSUME NEW q \in ReturnPostings
          PROVE  /\ posting'[q].postingStatus \in {"none", "unposted"} => posting'[q].occurredAt = 0
                 /\ posting'[q].occurredAt <= Cardinality(DatedReturns)
      <4>1. CASE q = p
        BY <1>4, <1>5, <1>7, <2>2, <4>1
      <4>2. CASE q # p
        BY <1>7, <4>2 DEF DatesInOrder
      <4>3. QED
        BY <4>1, <4>2
    <3>4. QED
      BY <1>7, <1>8, <3>1, <3>2, <3>3 DEF DatesInOrder
  <2>3. QED
    BY <2>1, <2>2
<1>10. ReceiptsAreDated'
  <2>1. /\ PostedReturns' = PostedReturns \cup {p}
        /\ \A q \in PostedReturns \cup {p} : q \in ReturnPostings /\ Stands(q)
        /\ p \notin PostedReturns
    BY ReturnWritten DEF PostedReturns, Posted
  <2> SUFFICES ASSUME NEW q \in PostedReturns \cup {p}, Kind(posting[q].authorization)' = CustomerReturn
               PROVE  posting'[q].occurredAt > 0
    BY <2>1 DEF ReceiptsAreDated, CustomerReturn
  <2>2. Kind(posting[q].authorization) = CustomerReturn
    BY <2>1, StandsMoves
  <2>3. CASE q = p
    BY <1>3, <1>4, <1>5, <1>7, <2>2, <2>3
  <2>4. CASE q # p
    BY <1>7, <2>1, <2>2, <2>4 DEF ReceiptsAreDated
  <2>5. QED
    BY <2>3, <2>4
<1>11. QED
  BY <1>9, <1>10

\* A reversal leaves the places, its own too.
LEMMA PlaceKept ==
  ASSUME ReturnsInv, DatesInOrder, ReceiptsAreDated, NEW p \in ReturnPostings, NEW kind, ReverseReturn(kind, p)
  PROVE  DatesInOrder' /\ ReceiptsAreDated'
<1>1. /\ posting \in [ReturnPostings -> PostingRow]
      /\ posting' = [posting EXCEPT ![p].postingStatus = "reversed"]
  BY DEF ReturnsInv, ReverseReturn
<1>2. PlacesStay
  BY <1>1 DEF PlacesStay, PostingRow
<1>3. DatesInOrder'
  BY <1>2, DatesStay
<1>4. ReceiptsAreDated'
  <2>1. /\ PostedReturns' = PostedReturns \ {p}
        /\ \A q \in PostedReturns : q \in ReturnPostings /\ Stands(q)
    BY ReturnWritten DEF PostedReturns, Posted
  <2> SUFFICES ASSUME NEW q \in PostedReturns, Kind(posting[q].authorization)' = CustomerReturn
               PROVE  posting'[q].occurredAt > 0
    BY <2>1 DEF ReceiptsAreDated, CustomerReturn
  <2>2. Kind(posting[q].authorization) = CustomerReturn
    BY <2>1, StandsMoves
  <2>3. QED
    BY <1>2, <2>1, <2>2 DEF ReceiptsAreDated, PlacesStay
<1>5. QED
  BY <1>3, <1>4

\* At the opening there is no lineage.
LEMMA LineageBegins ==
  ASSUME ReturnsInit
  PROVE  LineageInv
<1>1. /\ \A p \in ReturnPostings : posting[p].postingStatus = "none" /\ posting[p].occurredAt = 0
      /\ allocation = [c \in ReturnPostings |-> [q \in ReturnPostings \X BalanceKeys |-> 0]]
      /\ quarantine = OpeningQuarantine
  BY DEF ReturnsInit, NoPosting
<1>2. PostedReturns = {} /\ DatedReturns = {}
  BY <1>1 DEF PostedReturns, DatedReturns, Posted
<1>3. Cardinality(DatedReturns) = 0
  BY <1>2, FS_EmptySet
<1>4. DatesInOrder /\ ReceiptsAreDated
  BY <1>1, <1>2, <1>3 DEF DatesInOrder, ReceiptsAreDated
<1>5. AllocationsStand /\ AllocationsFit
  BY <1>1, <1>2 DEF AllocationsStand, AllocationsFit
<1>6. ASSUME NEW b \in BalanceKeys PROVE Tracked(b) <= quarantine[b]
  <2> DEFINE l == [q \in ReturnPostings |-> LayerLeft(q, b)]
  <2>1. l \in [ReturnPostings -> Nat] /\ \A q \in ReturnPostings : l[q] = 0
    BY <1>1 DEF LayerLeft, Posted
  <2>2. Tracked(b) = Total(l)
    BY DEF Tracked
  <2> HIDE DEF l
  <2>3. Total(l) = 0
    BY <2>1, TotalZero
  <2>4. quarantine[b] \in Nat
    BY <1>1, QuarantineAssumption
  <2>5. QED
    BY <2>2, <2>3, <2>4
<1>7. QED
  BY <1>4, <1>5, <1>6 DEF LineageInv, TrackedIsThere

\* Every step of returns keeps the lineage, and so does one of anybody else.
LEMMA LineageKept ==
  ASSUME ReturnsInv, GoodsInv, LineageInv, ReturnsNext \/ UNCHANGED quarantineSide
  PROVE  LineageInv'
<1>1. DatesInOrder /\ ReceiptsAreDated
  BY DEF LineageInv
<1>2. ASSUME NEW p \in ReturnPostings, NEW kind \in {CustomerReturn, Release, SupplierReturn},
             PostReturn(kind, p)
      PROVE  LineageInv'
  <2>1. AllocationsStand' /\ AllocationsFit' /\ TrackedIsThere'
    BY <1>2, LineagePosted
  <2>2. DatesInOrder' /\ ReceiptsAreDated'
    BY <1>1, <1>2, PlaceGiven
  <2>3. QED
    BY <2>1, <2>2 DEF LineageInv
<1>3. ASSUME NEW p \in ReturnPostings, NEW kind \in {CustomerReturn, Release, SupplierReturn},
             ReverseReturn(kind, p)
      PROVE  LineageInv'
  <2>1. AllocationsStand' /\ AllocationsFit' /\ TrackedIsThere'
    BY <1>3, LineageReversed
  <2>2. DatesInOrder' /\ ReceiptsAreDated'
    BY <1>1, <1>3, PlaceKept
  <2>3. QED
    BY <2>1, <2>2 DEF LineageInv
<1>4. ASSUME ReturnsRest, PlacesStay PROVE LineageInv'
  <2>1. DatesInOrder'
    BY <1>1, <1>4, DatesStay
  <2>2. ReceiptsAreDated' /\ AllocationsStand' /\ AllocationsFit' /\ TrackedIsThere'
    BY <1>4, LineageRests
  <2>3. QED
    BY <2>1, <2>2 DEF LineageInv
<1>5. CASE ReturnsNext
  <2>1. \/ PlacesStay
        \/ \E p \in ReturnPostings : \E kind \in {CustomerReturn, Release, SupplierReturn} :
             PostReturn(kind, p) \/ ReverseReturn(kind, p)
    BY <1>1, <1>5, PlacesRest
  <2>2. \/ ReturnsRest
        \/ \E p \in ReturnPostings : \E kind \in {CustomerReturn, Release, SupplierReturn} :
             PostReturn(kind, p) \/ ReverseReturn(kind, p)
    BY <1>5, ReturnsCommands DEF NothingReturned, ReturnsRest
  <2>3. QED
    BY <1>2, <1>3, <1>4, <2>1, <2>2
<1>6. CASE UNCHANGED quarantineSide
  <2>1. UNCHANGED <<authorization, posting, quarantineVars>>
    BY <1>6 DEF quarantineSide, governanceVars
  <2>2. PlacesStay /\ PostedReturns' = PostedReturns
    BY <2>1 DEF PlacesStay, PostedReturns, Posted
  <2>3. ReturnsRest
    BY <2>1, <2>2 DEF ReturnsRest, Stands
  <2>4. QED
    BY <1>4, <2>2, <2>3
<1>7. QED
  BY <1>5, <1>6

\* Quarantine stays a number of goods, whatever is posted.
LEMMA GoodsInvKept ==
  ASSUME ReturnsInv, GoodsInv, ReturnsNext \/ UNCHANGED quarantineSide
  PROVE  GoodsInv'
<1>1. CASE ReturnsNext
  BY <1>1, KeysStay, QuarantineStays DEF GoodsInv
<1>2. CASE UNCHANGED quarantineSide
  <2>1. UNCHANGED <<quarantine, posting>>
    BY <1>2 DEF quarantineSide, quarantineVars
  <2>2. QED
    BY <2>1 DEF GoodsInv, KeysGiven, LinesIn
<1>3. QED
  BY <1>1, <1>2

\* The conjunction on which the induction of what returns keep rests.
ReturnedInv == GoodsInv /\ LineageInv /\ SupplyInv

LEMMA ReturnedBegins == ReturnsInit => ReturnedInv
BY GoodsBegin, LineageBegins, SupplyBegins DEF ReturnedInv

LEMMA ReturnedKept ==
  ASSUME ReturnsInv, ReturnsInv', ReturnedInv, ReturnsNext \/ UNCHANGED quarantineSide
  PROVE  ReturnedInv'
BY GoodsInvKept, LineageKept, SupplyKept DEF ReturnedInv


(***************************************************************************)
(* LineageFits: however customer returns, releases and dispatches are      *)
(* posted and reversed, no receipt is allocated beyond what it brought and *)
(* what is left of all receipts is in quarantine, so the allocation never  *)
(* meets the integrity errors it checks for.                               *)
(***************************************************************************)
THEOREM LineageStays == ReturnsSpec => []LineageFits
<1>1. ReturnsInv /\ ReturnsInv' /\ ReturnedInv /\ [ReturnsNext]_returnsVars => ReturnedInv'
  BY ReturnedKept DEF returnsVars, quarantineSide
<1>2. ReturnsInv /\ ReturnedInv => LineageFits
  BY LineageHolds DEF ReturnedInv
<1>3. QED
  BY ReturnsInvariant, ReturnedBegins, <1>1, <1>2, PTL DEF ReturnsSpec

(***************************************************************************)
(* ReturnsTypeOK: what the two sides of returns write stays within the     *)
(* types of their tables.                                                  *)
(***************************************************************************)
THEOREM ReturnsTypes == ReturnsSpec => []ReturnsTypeOK
<1>1. ReturnsInv /\ ReturnsInv' /\ ReturnedInv /\ [ReturnsNext]_returnsVars => ReturnedInv'
  BY ReturnedKept DEF returnsVars, quarantineSide
<1>2. StockSound /\ ReturnsInv /\ ReturnedInv => ReturnsTypeOK
  BY DEF StockSound, ReturnsInv, ReturnedInv, GoodsInv, LineageInv, AllocationsStand, SupplyInv, SupplyShape,
         ReturnsTypeOK
<1>3. QED
  BY ReturnsInvariant, ReturnedBegins, <1>1, <1>2, PTL DEF ReturnsSpec

(***************************************************************************)
(* LineageFits and SentBackWithinReceipt, in the whole of StockFlow: while *)
(* others receive, ship, move, count and adjust the stock that returns are *)
(* released to and dispatched from, the lineage fits the quarantine and    *)
(* goods go back to their supplier once.                                   *)
(***************************************************************************)
THEOREM SharedReturnsAreExact == FlowSpec => [](LineageFits /\ SentBackWithinReceipt)
<1>1. FlowInit => ReturnedInv
  BY ReturnedBegins DEF FlowInit
<1>2. FlowInv /\ FlowInv' /\ ReturnedInv /\ [FlowNext]_flowVars => ReturnedInv'
  <2> SUFFICES ASSUME FlowInv, FlowInv', ReturnedInv, [FlowNext]_flowVars PROVE ReturnedInv'
    OBVIOUS
  <2>1. ReturnsInv /\ ReturnsInv'
    BY DEF FlowInv
  <2>2. ReturnsNext \/ UNCHANGED quarantineSide
    BY DEF FlowNext, ReceivingStep, OutboundStep, OperationsStep, ReturnsStep, flowVars
  <2>3. QED
    BY <2>1, <2>2, ReturnedKept
<1>3. FlowInv /\ ReturnedInv => LineageFits /\ SentBackWithinReceipt
  BY LineageHolds, SentFits DEF FlowInv, ReturnedInv
<1>4. QED
  BY FlowInvariant, <1>1, <1>2, <1>3, PTL DEF FlowSpec
=============================================================================
