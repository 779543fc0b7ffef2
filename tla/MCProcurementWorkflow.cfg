\* One request, two calls, documents for two rounds of sourcing.
CONSTANTS
  p1 = p1
  None = None
  PurchaseRequests = {p1}
  Rfqs = {q1, q2}
  PurchaseOrders = {o1, o2, o3, o4}
  Groups <- MCGroups
  Calls = {c1, c2}
  MaxVersion = 6
SYMMETRY MCSymmetry
SPECIFICATION WorkflowSpec
INVARIANTS
  OneSourceAtATime
  OrderedOnce
  OrdersCarryApprovedLines
CHECK_DEADLOCK FALSE
