\* Two threads, two keys, lookups of any of them.
CONSTANTS
  UIntThreads = {t1, t2}
  UIntKeys = {k1, k2}
  UIntValues = {a}
  UIntPrefixes = {none}
  DefaultPrefix = none
  UIntTimes = {1}
  UIntKeySets = {{}, {k1}, {k2}, {k1, k2}}
  NoMetadata = NoMetadata
  Absent = Absent
SPECIFICATION FairUIntSpec
PROPERTY UIntOperationsFinish
\* A stuck state violates UIntOperationsFinish.
CHECK_DEADLOCK FALSE
