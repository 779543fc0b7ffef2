\* Two records, two transactions, no lost response.
CONSTANTS
  EntityCount = 2
  Sessions = {s1}
  Writers = {w1, w2}
  PageLimit = 1
  MaxSequence = 3
  MaxAuthorization = 2
  MaxLost = 0
SPECIFICATION SyncSpec
INVARIANT ConcurrentWritesAreReplayed
CHECK_DEADLOCK FALSE
