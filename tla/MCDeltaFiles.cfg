\* An allowlisted prefix with three files, the second with a malformed name,
\* and another with one.  In the simulation a queue of one request, chunks of one record
\* and files of one chunk, and one fault.
CONSTANTS
  root = root  dir = dir
  Prefixes = {root, dir}
  Allowed = {root, dir}
  MaxFile <- ThreeOfRoot
  Malformed = {2}
  Unreadable <- Nothing
  Shards = {1, 2}
  Capacity = 1
  FillQps = 1
  ChunkSize = 1
  Limit = 1
  Workers = {w1, w2}
  Publishers = {p1, p2}
  MaxFaults = 1
  MaxBatches = 1
SPECIFICATION MCSpec
INVARIANTS
  NoDeltaSkipped
  QueueIsFresh
  EverythingIsAccounted
PROPERTIES
  EveryReadableDeltaIsLoaded
  StopReturns
\* The destructor, and Stop, end everything.
CHECK_DEADLOCK FALSE
