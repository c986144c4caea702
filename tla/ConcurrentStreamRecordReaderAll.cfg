\* Streams of up to nine bytes with records at any positions, three threads.
CONSTANTS
  MaxSize = 9
  num_worker_threads = 3
  min_shard_size_bytes = 2
SPECIFICATION Spec
INVARIANT AllRecordsAreRead
\* ReadStreamRecords returns.
CHECK_DEADLOCK FALSE
