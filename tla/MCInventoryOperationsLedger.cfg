\* One document of each kind, up to two lines of one unit each; the rebuild of a balance.
CONSTANTS
  t1 = t1  a1 = a1  c1 = c1
  widget = widget  main = main
  w1 = w1  w2 = w2
  None = None
  Transfers = {t1}
  Adjustments = {a1}
  Counts = {c1}
  BalanceKeys = {w1, w2}
  KeyItem <- MCKeyItem
  KeyWarehouse <- MCKeyWarehouse
  OpeningStock <- MCOpeningStock
  MaxOperationLines = 2
  MaxMoved = 1
  MaxCounted = 2
SPECIFICATION OperationsSpec
INVARIANT OnHandMatchesMovements
CHECK_DEADLOCK FALSE
