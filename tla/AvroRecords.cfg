\* The constants of MCComponents.cfg.
CONSTANTS
  MaxSize = 4
  BufferSizes = {0, 2, 3}
  Offsets <- MCOffsets
  PageSize = 2
  MaxDeletes = 1
  Copies <- MCCopies
  StreamSize = 9
  num_worker_threads = 3
  min_shard_size_bytes = 2
  k1 = k1  k2 = k2  k3 = k3  v1 = v1  r1 = r1  r2 = r2
  Root = Root  NullValue = NullValue  NotFound = NotFound  InvalidValue = InvalidValue
  Parameters <- MCParameters
  StoredValues = {"1", "EMPTY_STRING"}
  MaxConfigFaults = 2
  PubSubMessages = {1, 2, 3}
  OtherShard = {2}
  NumThreads = 2
  MaxPubSubFaults = 2
  Files = {"f", "g"}
  MaxWait = 2
  MaxFileChanges = 4
  MaxDeltaRecords = 2
  MaxAvroRecords = 5
  AvroThreads = 3
  AvroMinRange = 2
  MaxUInt8 = 1
  MaxUInt16 = 3
  MaxUInt32 = 7
  NumDigits = 3
  MaxTime = 3
  MaxGroups = 2
  NumShards = 2
  BatchSize = 1
  NoFile = 0
  MaxFiles = 2
  MaxCommands = 2
SPECIFICATION MCSpec
INVARIANTS
  EachRecordIsReadOnce
CHECK_DEADLOCK FALSE
