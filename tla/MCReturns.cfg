\* A line of a shipment and one of a receipt, two requests, three postings.
CONSTANTS
  sold = sold  bought = bought
  r1 = r1  r2 = r2
  a1 = a1  a2 = a2
  p1 = p1  p2 = p2  p3 = p3
  widget = widget  main = main  w1 = w1
  None = None
  SourceLines = {sold, bought}
  SourceDocument <- MCSourceDocument
  ReturnType <- MCReturnType
  SourceItem <- MCSourceItem
  ReturnRequests = {r1, r2}
  ReturnAuthorizations = {a1, a2}
  ReturnPostings = {p1, p2, p3}
  MaxReturned = 2
  BalanceKeys = {w1}
  KeyItem <- MCKeyItem
  KeyWarehouse <- MCKeyWarehouse
  OpeningStock <- MCOpening
  OpeningQuarantine <- MCOpening
CONSTRAINT InBounds
SPECIFICATION ReturnsSpec
INVARIANTS
  GoodsAreConserved
  LineageFits
  PostedWithinAuthorized
  SentBackWithinReceipt
CHECK_DEADLOCK FALSE
