\* Two item files or openings, two calls under two keys.
CONSTANTS
  f1 = f1  f2 = f2  o1 = o1  o2 = o2
  bolt = bolt  nut = nut  screw = screw  here = here  there = there  main = main
  None = None
  BalanceKeys = {here, there}
  KeyItem <- MCKeyItem
  KeyWarehouse <- MCKeyWarehouse
  OpeningStock <- MCOpeningStock
  Batches = {f1, f2, o1, o2}
  TypeOf <- MCTypeOf
  RowsOf <- MCRowsOf
  MasterKeys = {bolt, nut, screw}
  ImportKeys = {k1, k2}
  Attempts = {a1, a2}
SYMMETRY MCSymmetry
CONSTRAINT TwoFiles
SPECIFICATION ImportSpec
INVARIANTS
  ImportsAreAtomic
  StockIsOpenedOnce
  KeyNamesOneImport
PROPERTIES
  DeadBatchesStayDead
