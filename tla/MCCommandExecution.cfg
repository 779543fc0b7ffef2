\* Three requests under two keys, four concurrent deliveries, two troubles.
CONSTANTS
  q1 = q1  q2 = q2  q3 = q3
  k1 = k1  k2 = k2
  a1 = a1  b1 = b1  a2 = a2  a3 = a3
  Requests = {q1, q2, q3}
  Keys = {k1, k2}
  KeyOf <- MCKeyOf
  HashOf <- MCHashOf
  Expected <- MCExpected
  LooksInside = {q2, q3}
  Attempts = {a1, b1, a2, a3}
  RequestOf <- MCRequestOf
  MaxTrouble = 2
SPECIFICATION CommandSpec
INVARIANTS
  EveryEffectIsRecorded
PROPERTIES
  KeepsContract
  EveryDeliveryIsAnswered
CHECK_DEADLOCK FALSE
