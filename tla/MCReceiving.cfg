\* One order of two lines and an imported one, two documents of up to two lines.
CONSTANTS
  p1 = p1  p2 = p2
  l1 = l1  l2 = l2  l3 = l3
  widget = widget  gadget = gadget
  w1 = w1  w2 = w2  g1 = g1  main = main
  d1 = d1  d2 = d2
  None = None
  PurchaseOrders = {p1, p2}
  PoLines = {l1, l2, l3}
  PoOf <- MCPoOf
  PoLineItem <- MCPoLineItem
  Ordered <- MCOrdered
  Imported <- MCImported
  BalanceKeys = {w1, w2, g1}
  KeyItem <- MCKeyItem
  KeyWarehouse <- MCKeyWarehouse
  OpeningStock <- MCOpeningStock
  ReceivingDocuments = {d1, d2}
  MaxReceivingLines = 2
SYMMETRY MCSymmetry
SPECIFICATION ReceivingSpec
INVARIANTS
  ReceivedMatchesDocuments
  OrderStatusMatchesReceipts
  NeverOverReceived
PROPERTIES
  PostedDocumentsAreFacts
CHECK_DEADLOCK FALSE
