\* Two orders, two reservations, two shipments, up to two units on a line.
CONSTANTS
  o1 = o1  o2 = o2
  x1 = x1  x2 = x2  y1 = y1
  widget = widget
  w1 = w1  w2 = w2  main = main
  r1 = r1  r2 = r2
  s1 = s1  s2 = s2
  None = None
  SalesOrders = {o1, o2}
  SalesLines = {x1, x2, y1}
  SalesOrderOf <- MCSalesOrderOf
  SalesLineItem <- MCSalesLineItem
  BalanceKeys = {w1, w2}
  KeyItem <- MCKeyItem
  KeyWarehouse <- MCKeyWarehouse
  OpeningStock <- MCOpeningStock
  Reservations = {r1, r2}
  Shipments = {s1, s2}
  MaxOrdered = 2
SYMMETRY MCSymmetry
SPECIFICATION OutboundSpec
INVARIANTS
  StockNeverOversold
  LinesMatchReservations
  ReservationsMatchShipments
  StatusesMatchQuantities
PROPERTIES
  HeldOrdersDoNotMove
CHECK_DEADLOCK FALSE
