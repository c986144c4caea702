\* Keys: one of two keys carried by two prefixes, commit times 0..3.  String sets: two
\* threads, two keys, one value, commit times 0..2.  Integer sets: two
\* threads that mutate, clean up and look up one value of one key under commit times 1..2.
CONSTANTS
  t1 = t1  t2 = t2  k1 = k1  k2 = k2  p1 = p1  p2 = p2  v1 = v1  v2 = v2
  Keys = {k1, k2}
  Values = {v1}
  Prefixes = {p1, p2}
  Times <- Times3
  Routes <- SharedRoutes
  Null = Null
  Missing = Missing
  Threads = {t1, t2}
  SetKeys = {k1, k2}
  SetValues = {v1}
  SetPrefixes = {p1}
  SetTimes = {0, 1, 2}
  SetRoutes <- OneRoute
  NoEntry = NoEntry
  NoMeta = NoMeta
  UIntThreads = {t1, t2}
  UIntKeys = {k1}
  UIntPrefixes = {p1}
  DefaultPrefix = p1
  UIntKeySets = {{k1}}
  UIntValues = {v1}
  UIntTimes = {1, 2}
  Absent = Absent
  NoMetadata = NoMetadata
SPECIFICATION MCSpec
INVARIANTS
  NewestMutationWins
  NewestSetMutationWins
  ResultsStayValid
  DeletedValuesAreListed
  NewestUIntMutationWins
  DeletedSetsAreListed
PROPERTIES
  CleanUpIsInvisible
  OperationsFinish
\* A stuck state violates OperationsFinish.
CHECK_DEADLOCK FALSE
