\* Invoices, credits, disputes, holds, settlements, advances and transfers.
CONSTANTS
  l1 = l1  l2 = l2  g1 = g1  r1 = r1  m1 = m1  m2 = m2
  k1 = k1  h1 = h1  b1 = b1  n1 = n1  n2 = n2
  s1 = s1  s2 = s2  c1 = c1  c2 = c2
  a1 = a1  a2 = a2  d1 = d1  d2 = d2  x1 = x1  t1 = t1  u1 = u1  u2 = u2
  supplier = supplier  customer = customer
  None = None  NoOne = NoOne  Nobody = Nobody
  SupplierInvoices = {s1, s2}
  CustomerInvoices = {c1, c2}
  ReceivingLines = {l1, l2}
  ReceivingOf <- MCReceivingOf
  AcceptedQty <- MCAcceptedQty
  PoPrice <- MCPoPrice
  InvoiceDrafts <- MCInvoiceDrafts
  PricePercentageTolerance = 50
  PriceAbsoluteTolerance = 1
  AmountTolerance = 2
  QuantityTolerance = 0
  SupplierReturns = {r1}
  ReturnedLine <- MCReturnedLine
  ReturnedQty <- MCReturnedQty
  CreditMemos = {m1, m2}
  MemoPrices = {3}
  ShipmentLines = {k1}
  ShipmentOf <- MCShipmentOf
  ShippedQty <- MCShippedQty
  SalesPrice <- MCSalesPrice
  CustomerDrafts <- MCCustomerDrafts
  CustomerReturns = {b1}
  CustomerReturnLine <- MCCustomerReturnLine
  CustomerReturnQty <- MCCustomerReturnQty
  CreditNotes = {n1, n2}
  NotePrices = {3}
  Accounts = {a1, a2}
  OpeningBalance <- MCOpeningBalance
  Partner <- MCPartner
  Settlements = {d1, d2}
  Instructions <- MCInstructions
  Applications = {x1}
  AppliedAmounts = {1}
  Transfers = {t1}
  TransferOrders <- MCTransferOrders
  People = {u1, u2}
  DiscountAppliers = {u1, u2}
  WorkflowEnabled = TRUE
  ApprovalRequired = FALSE
  ApprovalThreshold = 1
  SelfApprovalAllowed = FALSE
  SelfPostingAllowed = TRUE
  DiscountThreshold = 0
CONSTRAINT InBounds
SPECIFICATION MCSpec
INVARIANTS
  InvoicedWithinReceived
  NothingPayableUnreviewed
  BilledWithinShipped
  DisputesAgree
  OutstandingIsExplained
  StatusTellsWhatIsPaid
  AdvancesAreConserved
  PaymentsCanBeTakenBack
PROPERTIES
  BlockedObligationsAreNotPaid
CHECK_DEADLOCK FALSE
