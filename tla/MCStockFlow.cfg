\* Sales, with receiving, with operations or with returns.
CONSTANTS
  p1 = p1  l1 = l1  d1 = d1  d2 = d2
  o1 = o1  x1 = x1  r1 = r1  s1 = s1
  t1 = t1  a1 = a1  c1 = c1
  sold = sold  bought = bought
  q1 = q1  g1 = g1  g2 = g2  h1 = h1  h2 = h2
  widget = widget  w1 = w1  w2 = w2  main = main
  None = None
  BalanceKeys = {w1, w2}
  KeyItem <- MCKeyItem
  KeyWarehouse <- MCKeyWarehouse
  OpeningStock <- MCOpeningStock
  PurchaseOrders = {p1}
  PoLines = {l1}
  PoOf <- MCPoOf
  PoLineItem <- MCPoLineItem
  Ordered <- MCOrdered
  Imported <- MCImported
  ReceivingDocuments = {d1, d2}
  MaxReceivingLines = 1
  SalesOrders = {o1}
  SalesLines = {x1}
  SalesOrderOf <- MCSalesOrderOf
  SalesLineItem <- MCSalesLineItem
  Reservations = {r1}
  Shipments = {s1}
  MaxOrdered = 2
  Transfers = {t1}
  Adjustments = {a1}
  Counts = {c1}
  MaxOperationLines = 1
  MaxMoved = 1
  MaxCounted = 1
  SourceLines = {sold, bought}
  SourceDocument <- MCSourceDocument
  ReturnType <- MCReturnType
  SourceItem <- MCSourceItem
  ReturnRequests = {q1}
  ReturnAuthorizations = {g1, g2}
  ReturnPostings = {h1, h2}
  MaxReturned = 1
  OpeningQuarantine <- MCOpeningQuarantine
CONSTRAINT InBounds
SPECIFICATION MCSpec
INVARIANTS
  StockIsExplained
  PromisesSurvive
  VersionNamesContent
PROPERTIES
  CountsPostUnderTheirPromises
  FlowKeepsContract
CHECK_DEADLOCK FALSE
