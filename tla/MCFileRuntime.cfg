\* Three writes through two repositories, one crash.
CONSTANTS
  w1 = w1  w2 = w2  w3 = w3
  r1 = r1  r2 = r2
  None = None
  Writes = {w1, w2, w3}
  Repositories = {r1, r2}
  RepositoryOf <- MCRepositoryOf
  MaxCrashes = 1
SPECIFICATION RuntimeSpec
INVARIANTS
  CopiesWereTheDocument
PROPERTIES
  WritesAreAtomic
  EveryWriteLeavesTheQueue
CHECK_DEADLOCK FALSE
