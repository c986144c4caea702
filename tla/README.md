# TLA+ verification of the Protected Auction key/value server

These modules model the key/value server and the tools around it: how files and
realtime updates reach the in-memory cache, what readers of the cache can see,
how requests run user-defined functions over the data of several shards, and how
a fleet starts and stops. TLC checks the models on small instances. TLAPS proves
the main safety properties of six parts for every value of the constants.
`PROJECT.json` maps every definition to the source lines it models and lists
runs, mutants, findings, hazards and theorems. Paths below are relative to the
source root.

## The system

A server process (one replica of one shard) works as follows.

1. `Server::Init` reads its configuration from the platform and starts the parts
   below in a fixed order. The gRPC server answers from the middle of it on, and
   the shards of a fleet wait for one another.
2. `DataOrchestrator::TryCreate` loads the newest snapshot, which may be a group
   of files, and the delta files after it for every allowlisted prefix. The server
   retries it until it succeeds.
3. `Start` hands the last file names to the `DeltaFileNotifier`. Its thread turns
   change notifications and backup polls into new file names, and another thread
   loads these files one by one.
4. A file is read through a `SeekingInputStreambuf` by the
   `ConcurrentStreamRecordReader`: several tasks, one per byte range, apply records
   to the cache in no particular order. After the file the cache forgets what was
   deleted up to the file's largest commit time.
5. Realtime notifiers (SQS or Pub/Sub) apply records to the same cache from
   threads of their own.
6. Requests run user-defined functions in a sandbox. The functions look keys and
   sets up in the cache of this shard or, through the sharded lookup, of others.

Because of 4 and 5 the cache sees mutations in any order of commit time. It must
behave as if they had come in order: that is the central property of the project.

## Modules

| Module | Models | State and actions |
|---|---|---|
| `KeyValueCache` | string map of `components/data_server/cache/key_value_cache.cc` | `map_`, the deleted nodes and the cutoff of each prefix; one action per operation, atomic under `mutex_` |
| `KeyValueSetCache` | string-set map of the same file, `get_key_value_set_result_impl.cc` | the map mutex and a mutex for each key; a step of a thread for each acquisition and release; a result keeps its keys locked while it lives |
| `UIntValueSet` | `uint_value_set.h` | `Add`, `Remove`, `Cleanup`, `GetValues` as operators on a bitset, metadata and a removal list |
| `UIntValueSetCache` | `uint_value_set_cache.h`, `thread_safe_hash_map.h` | threads that test the cutoff, get or put a set, wait for its lock, change it and list it, each in a step of its own |
| `DeltaFileNotifier`, `DataOrchestrator` | `delta_file_notifier.cc`, `data_orchestrator.cc` | which files are found, queued and loaded, and when; file names are numbers in upload order |
| `DataLoading` | `LoadCacheWithDataFromFile` | reader threads over `KeyValueCache` (an instance of it); `max_timestamp`, which has no lock, is read and written in two steps |
| `BlobStorage` | S3, GCP and local clients, `components/data/file_group/`, `blob_storage_util.cc` | paged listings while blobs come and go, names, groups, the search for a snapshot |
| `BlobStream`, `SeekingInputStreambuf` | `seeking_input_streambuf.cc` | the plain stream that is promised, and the buffer that implements it; a range comes in one chunk, in several or not at all |
| `ConcurrentStreamRecordReader` | `riegeli_stream_io.h` | `BuildShards`, one task per byte range, the collection of results |
| `RecordFormat`, `RecordFiles` | `public/data_loading/` records, `record_utils.cc`, `avro_stream_io.cc` | packing, validation and unpacking of every kind of record; files written and read by the Avro and Riegeli readers |
| `Configuration` | `parameter_fetcher.cc`, instance and parameter clients | tags, ids and typed parameters on AWS, GCP and locally, with their retries |
| `MessageQueue`, `Notifications` | `msg_svc_aws.cc`, `change_notifier_aws.cc`, realtime and parameter notifiers, queue cleanup | set-up, receipt, reset and deletion of a queue that several threads share |
| `PubSubNotifier`, `LocalNotifier` | `realtime_notifier_gcp.cc`, `change_notifier_local.cc` | subscription, delivery, acknowledgement, stop; the listing loop |
| `ClusterMappings`, `ShardedLookup` | `components/sharding/`, `components/internal_server/`, the lookup hooks, `components/query/` | replica sets that are replaced, one future per shard, padding, the merge; set queries on a stack |
| `UdfClient`, `GetValuesHandlers` | `udf_client.cc`, `components/data_server/request_handler/` | code updates, executions with timeouts and late callbacks; the entry points of both API versions |
| `CborConverter`, `ShardingValidator`, `Compression` | CBOR converters, the sharding validator, compression groups | encodings by what they keep and refuse; the validator against a server that errs |
| `ServerLifecycle` | `components/data_server/server/`, `lifecycle_heartbeat.cc` | `Init` in the order of its calls, health, the launch hook, shutdown and destruction, for a fleet |
| `SnapshotGeneration` | `tools/data_cli`, `record_aggregator.cc`, CSV | the snapshot command beside a bucket that changes, with the table whose rows mix types and merge sets; CSV and back |
| `RequestSimulation` | `tools/request_simulation` | every thread from Start to the end of Stop |

Cloud services, the sandbox and the Pub/Sub and SQS libraries are external: they
are modelled by the answers, failures, delays and repetitions the code can meet.
History variables (`newest`, `newest_in_set`, `uint_newest`, `applied`,
`times_read`, ...) record what happened; no action reads them for its control.

The `MC*` modules give constants their values. `MCCaches`, `MCComponents` and
`MCDeltaFiles` hold several components: a variable `which`, chosen at the start,
says which of them a behaviour is about, so their states are a union and not a
product. `*Proofs` modules hold theorems.

## Runs

| Run | States | What it shows |
|---|---|---|
| `caches` | 77,601 | Readers see the newest mutation that passed its cutoff test, in the string map (`NewestMutationWins`) and the string sets (`NewestSetMutationWins`), for keys that one prefix carries, and in an integer set (`NewestUIntMutationWins`), but for the values that a cleanup has misled it about (see Divergences). A cleanup changes no answer (`CleanUpIsInvisible`). What a result refers to does not change while it lives (`ResultsStayValid`). What is deleted is listed for a cleanup (`DeletedValuesAreListed`, `DeletedSetsAreListed`). Every operation ends (`OperationsFinish`). |
| `components` | 912,432 | Storage: the buffered stream implements the plain one (`IsAStream`), a paged listing loses nothing that was there throughout (`ListingIsFaithful`), the newest complete group is found (`NewestCompleteGroupIsFound`) and loaded whole (`SnapshotsAreWhole`), every Riegeli record is read once (`ReadExactlyOnce`), and with files in commit-time order readers get the newest data, despite failed attempts, lost updates of `max_timestamp` and realtime copies (`NewestDataIsServed`). |
| | | Tools: a server that starts from a snapshot answers as one that loaded the delta files, as far as the aggregator keeps their mutations (`SnapshotsReplaceTheirDeltas`); CSV and back keeps the records of a shard (`FormattedRecordsAreKept`); the validator counts right (`ValidationIsExact`). |
| | | Interfaces: a server runs with values that were stored (`ConfiguredValuesWereStored`), what Pub/Sub has forgotten is applied (`AcknowledgedUpdatesAreApplied`), local files are reported once (`NewFilesAreReportedOnce`), records come back from their bytes (`RecordsComeBack`), a loaded file lacks no records but those of Avro blocks at the end of a byte range (`OnlyBoundaryBlocksAreMissed`), CBOR is canonical (`EncodingIsCanonicalAndExact`), extracted groups are those added (`ExtractedGroupsWereAdded`). |
| `delta_files` | 206,947 | Server: delta files are loaded in order, without gaps and once, across the handover from `TryCreate` (`NoDeltaSkipped`, `QueueIsFresh`), and when every file can be read each is loaded in the end (`EveryReadableDeltaIsLoaded`). Simulation: requests, messages and records are counted once and lost only where the code gives them up (`EverythingIsAccounted`), and Stop returns (`StopReturns`). |
| `lookup` | 150,108 | The entry of a key is what the server that was asked for it answers, or says that it failed (`AnswersAreExactOrExplained`), requests to all shards have one size (`RequestsLookAlike`), a set query gives what it means over the sets that were collected or fails (`QueriesAreExactOrFail`), the replica sets catch up with the fleet (`MappingsCatchUp`). |
| `serving` | 225,932 | A result belongs to the input and the code version of its execution (`AnswersAreOwn`), a reply has the outputs of its own partitions and the status its API masks to (`RepliesAreExact`), every request is answered (`RequestsAreAnswered`). |
| `lifecycle` | 463,435 | What a server has when it reports that it serves (`ServingIsComplete`); shards that wait for one another all become ready (`FleetBecomesReady`). |
| `notifications` | 364,630 | A message that a queue in use accepted is applied in the end (`AcceptedMessagesAreApplied`), and the configured verbosity comes into force (`VerbosityConverges`). |

Five runs show where the code does not do what a comment or a document says.

| Run | Disagreement |
|---|---|
| `uint_cache_stuck` | A lookup of two integer sets and a `PutIfAbsent` that lost its race wait for each other for ever (`UIntOperationsFinish`). |
| `reader_all` | A stream whose size is a multiple of (shard size + 1) is refused: the inclusive ranges miss its last byte (`AllRecordsAreRead`). |
| `avro_records` | An Avro block whose marker begins where a byte range ends is read by no task (`EachRecordIsReadOnce`). |
| `unreadable_file` | A delta file that cannot be read is never skipped and keeps out those after it (`UnreadableFilesAreSkipped`). |
| `sharded_sets` | An integer set of another shard is not found, and a query over it is answered as if it were empty (`ShardingIsInvisible`). |

### Bounds

Each `.cfg` names its bounds. Why they are enough:

- Caches: two keys and two prefixes, one of the keys carried by both, are what it
  takes for a cleanup of one prefix to meet a key of the other. Four commit times
  give before, equal and after a cutoff on both sides of a mutation. Two threads and
  two keys are what a lock order needs. In the integer sets commit times begin
  at 1, since a value at time 0 cannot be told from one that was never added, and in
  `caches` a lookup asks for one key: with two keys the operations may not end,
  which is the run `uint_cache_stuck`.
- Delta files: two prefixes, one with three files, so that a malformed name lies
  between two good ones and a file can arrive in every phase of the handover.
- Streams: blobs of four bytes through buffers of one to three, so that reads and
  seeks start, cross and end on every edge; streams of nine bytes with records at any
  positions, three tasks and shards of at least two bytes; Avro files of up to five
  records in blocks, with ranges of at least two bytes, so that a marker can lie
  before, on and after the end of a range.
- Storage: pages of two over five blobs, so that a listing has a page of each kind
  (first, middle, last, exactly full), and one removal between pages.
- Loading: two files of up to two records with one realtime copy, and a mixed feed
  with a file and a key of another shard and a record that does not apply.
- Lookup: three shards, so that an answer has a local, a good and a failed part at
  once; five instances, of which one reuses an address and one is out of range.
- Serving: two updaters and two sandbox slots, so that a late callback can meet a
  newer execution and a load a newer load; requests with none, one and two
  partitions, with equal ids too.
- Lifecycle: three instances over two shards, so that one shard has a spare; two faults.
- Snapshots: two delta files, two commands and batches of one row, so that a snapshot
  of a snapshot is made while a file arrives; keys with one type of value and a key
  with two.
- Simulation: chunks of one record and files of one chunk, so that the second record
  of a shard waits in a chunk and the third finds the file full; two workers and two
  publishers for two shards; a queue of one request.
- Queues, configuration, simulation: two faults (one in the simulation), which are
  a failure during the recovery from another.

### Fairness

- Cache: strong fairness of each thread's next step. `absl::Mutex` queues its
  waiters, so a thread that can get a lock again and again does get it. The runs have two
  threads: with three, two could pass a lock between them so that it is never free
  when the third looks, which the model allows and the queue does not.
- Delta files: weak fairness of the retry of `TryCreate`, of the two threads, of the
  clock that ends a poll and of joining. No notification need arrive: the backup poll
  is enough. Nothing is assumed of failures, but a retry does not fail for ever.
- Serving: weak fairness of updates, executions, the collection of results and the
  end of a call. Callbacks of the sandbox may never come: the timeout ends the wait.
- Notifications: weak fairness of each watcher thread and of the visibility timeout.
- Lookup: weak fairness of the mapping thread, of launches, answers and returns.
- Lifecycle: weak fairness of each server's steps and of the instance group, which
  replaces what has ended.
- Simulation: weak fairness of each thread; strong fairness of `Acquire` and
  `RefillPermits`, which compete for the permits' mutex.

Deadlock checking is off where the system may stop: it is shut down, or a tool ends.

## Proofs

All theorems are about the modules TLC checks. They hold for any keys, values,
prefixes, threads, files, servers and updaters that satisfy the named assumptions.

| Module | Theorem | States |
|---|---|---|
| `ServerProofs` | `TypeCorrectness`, `TombstonesAreAlwaysListed` | string map: types; every tombstone is listed for the cleanup of some prefix |
| | `NewestMutationAlwaysWins` | `NewestMutationWins` |
| | `CleanUpIsAlwaysInvisible` | the action property `CleanUpIsInvisible` |
| | `LifecycleTypesHold`, `ServingIsAlwaysComplete` | life cycle: types, `ServingIsComplete` |
| | `InServiceAlwaysHasData`, `CallbacksAlwaysHaveTheirOwner` | an instance in service has loaded its data, unless its `Init` failed and it is about to abort; no thread that calls back into the orchestrator runs once that is destroyed |
| `UIntValueSetCacheProofs` | `DeletedSetsAreAlwaysListed` | `DeletedSetsAreListed`, for any number of threads |
| | `NewestUIntMutationAlwaysWins`, `ValueSetViewsAgree` | `NewestUIntMutationWins`; a live value of an integer set is in its bitset, a removed one in its removal list |
| `KeyValueSetProofs` | `SetTypesHold`, `ResultsAlwaysStayValid` | types; `ResultsStayValid` |
| `KeyValueSetHistoryProofs` | `NewestSetMutationAlwaysWins`, `DeletedValuesAreAlwaysListed` | `NewestSetMutationWins`, `DeletedValuesAreListed` |
| `DataOrchestratorStartProofs`, `DataOrchestratorProofs` | `OrchestratorTypesHold`, `DeltasAreNeverSkipped`, `QueueIsAlwaysFresh` | types, `NoDeltaSkipped`, `QueueIsFresh` |
| `PlatformProofs` | `StreambufIsAStream` | `SeekingInputStreambuf` implements `BlobStream` until the storage fails or a second chunk is stored over the first |
| | `AcknowledgedUpdatesAreAlwaysApplied`, `SessionsNeverOutliveTheirNotifier` | `AcknowledgedUpdatesAreApplied`; no session is active once its notifier is destroyed |
| | `NewFilesAreAlwaysReportedOnce`, `ConfiguredValuesAlwaysWereStored` | `NewFilesAreReportedOnce`, `ConfiguredValuesWereStored` |
| `ServingProofs` | `ServingTypesHold`, `AnswersAreAlwaysOwn` | types, `AnswersAreOwn` |
| | `ServingCodeIsAlwaysLoaded`, `CommitTimesAlwaysGrow` | requests are built for a version the sandbox has loaded; the action property that the commit time of the code object never falls |

### The inductive invariants

- String map (`NewestInv`, `NodesFollowRoutes`): the entry of a key that one prefix
  carries is the newest mutation that passed its test, and a key without an entry
  has no such mutation or a delete at or below the cutoff. The property alone says
  only what readers see, and not which older mutations can still come. Listed nodes
  follow the routes by which mutations come, so that no other prefix's cleanup
  erases the key. Keys of two prefixes are left out because each prefix has
  a cutoff of its own: a cleanup of one erases what the other still needs.
- String sets (`BasicInv`, `NewestInv`, `ListedInv`): `LockInv` says who holds which
  mutex at which step, and `OperationInv` what an operation under way has read and
  may still write. These give the atomicity that the string map has by definition.
  A mutation that passed the cutoff test may meet a cleanup before it takes the
  key's lock, so `NewestInv` also bounds a missing entry by the mutations
  that have already passed.
- Integer sets (`UIntCacheInv`, `HistoryInv`): a set that a thread waits for is in the
  map, no cleanup under way is ahead of the cutoff, and a removal is listed or in the
  hands of a thread. For each value the set knows of no mutation newer than the newest,
  and unless it was misled about the value, its metadata are those of the newest
  mutation, or missing after a removal at or below the cutoff. The exception is carried
  along because a mutation tests the cutoff, gets the set and writes in three steps.
- Orchestrator (`LoadingInv`): the names in the queue and the one being loaded
  continue, without gap and in order, what is loaded of each prefix; the notifier's
  last key is the end of that chain (`QueueInv`, `StartedInv`); during
  `TryCreate` the last names are those of the files it loaded (`CreateInv`).
- Streambuf (`StreamInv`): until the storage fails or a chunk is overwritten, the get
  area is the buffer and holds the bytes of the blob that end at `src_limit_position_`,
  or, while a range is being read, what is missing of it is counted. The distance of
  `gptr` from the end of the get area, less the bytes already read of the range, then
  gives the stream's offset, which is the refinement mapping.
- Lifecycle (`LifecycleInv`): what `Init` has created is what its position in the
  sequence of calls says (`InitInv`); notifier threads have ended before members are
  destroyed (`ShutdownInv`).
- Serving (`ServingInv`): an execution that waits owns its shared state, every
  invocation and every notified result with that state is about its input, version
  and handler, and a state is notified only while its execution waits (`InvokeInv`).
  One updater at a time holds the mutex, and its commit time is above that of the
  code object (`UpdateInv`).

### The assumptions

They are named in the modules that declare the constants, and TLC evaluates them in
the runs: commit times are integers with 0 among them (`ConstantsAssumption`,
`SetConstantsAssumption`), in integer sets positive (`UIntCacheAssumption`);
model values for "nothing" are no data; allowlisted prefixes are prefixes, and file names are numbers (`NotifierAssumption`,
`UnreadableAssumption`); a parameter has at most one default (`ConfigAssumption`);
messages are numbers in the order of their commit times (`PubSubAssumption`);
sizes and offsets are integers (`StreambufAssumption`); each shard of a fleet
has an instance (`LifecycleAssumption`); code has a positive version and a commit
time (`CodesAssumption`).

### Only model-checked

- Liveness (`OperationsFinish`, `EveryReadableDeltaIsLoaded`, `MappingsCatchUp`,
  `RequestsAreAnswered`, `FleetBecomesReady`, `AcceptedMessagesAreApplied`,
  `VerbosityConverges`, `StopReturns`): the prover has no rules for fairness.
- `ShardedLookup` and `SnapshotGeneration`: they use recursive operators (queries,
  merges), which the prover cannot have in reach.
- `RepliesAreExact`, `ValidationIsExact`, `EncodingIsCanonicalAndExact`,
  `RecordsComeBack`, `OnlyBoundaryBlocksAreMissed`, `ExtractedGroupsWereAdded`,
  `ReadExactlyOnce` and `EverythingIsAccounted`: they say what a computation over a
  sequence gives, which needs induction over data.
- `NewestDataIsServed`, `ListingIsFaithful`, `NewestCompleteGroupIsFound` and
  `SnapshotsAreWhole` have no proof yet.

## Findings and divergences

The five findings are the runs that end in a violation. While modelling, these
disagreements between the code and its documentation were met as well; the passing
properties are stated around them.

- `uint_value_set.h:154`: `Cleanup` erases the metadata of every value listed up to
  its time, also of one that was added again later (compare the comment at line 59).
  A late removal of that value is then applied. And `UpdateSetValues` and
  `DeleteSetValues` release the lock of the cutoff before they get the set
  (`uint_value_set_cache.h:101`), while `CleanUpUIntSetMaps` cleans up the default
  prefix whatever prefix it is given (`key_value_cache.cc:509`): a mutation may be
  written after the cleanup of its time. `NewestUIntMutationWins` excepts both until
  the value's next newer mutation.
- `seeking_input_streambuf.cc:137` stores every chunk of a range at the start of the
  buffer. A reader that returns fewer bytes than asked, as GCP's may, makes the next
  chunk overwrite it; `IsAStream` holds up to then.
- `public/udf/constants.h:36`: the default UDF passes over the lookups that failed and
  the reply is OK, also before the hooks are initialised or when a shard fails.
  `RepliesAreExact` demands of such arguments that nothing wrong is returned for them.
- `ast.cc:98` asserts that a leaf of a query has one key, which a literal has not. The
  default build (`--compilation_mode=opt`) drops the assert; a debug build stops there.
- `realtime_message_batcher.h:31` says that all records of a shard are batched in one
  message at the limit. The record that does not fit and the others of its chunk go
  nowhere, with OK (`delta_record_limiting_file_writer.h:55` warns of it).
- `docs/data_loading/data_format_specification.md:38` lets files come in any order of
  commit times; the cutoff that follows a file drops older mutations of later files.
  `NewestDataIsServed` assumes that order.
- `lifecycle_heartbeat.cc:43` and `server.cc:520`: when `Init` fails the heartbeat's
  destructor completes the launch hook all the same, and the instance comes into
  service before it aborts.
- `change_notifier_aws.cc:161` resets whatever queue the shared service has by then.
  A thread whose request failed on a deleted queue also drops the one another thread
  has set up since, with its messages (the comment at line 158 expects the new queue
  to resolve the issue). `AcceptedMessagesAreApplied` is about queues in use.
- `record_aggregator.cc:270` keeps one row for a key, whatever the types of its values,
  merges the values of string sets whatever the mutation types, and replaces sets of
  numbers. After a deletion of one value, a second update of a set of numbers or a
  mutation of another type a snapshot lacks values, and the values of a deletion come
  back with the update after it; `data_format_specification.md:54` says that it holds
  all records. The merge reads views of strings that are gone (line 285), so a
  value may also come out as something else. Shard mappings are not kept at all.
  `SnapshotsReplaceTheirDeltas` demands equality where the row keeps the key whole
  (`KeptWhole`), and elsewhere the newest update and nothing overwritten or deleted
  but for what the merge adds (`Strays`).
- `generate_snapshot_command.cc:257` lists from a view of a destroyed string, so the
  listing may start anywhere. The property is about snapshots made from all the files
  between their base and their ending file (`MadeFromAll`).
- `blob_storage_util.cc:79` passes the name of a copy as the prefix of its location:
  the blob is stored as `name/`, where neither `ls` nor the server finds it
  (compare line 62).

The hazards in `PROJECT.json` that no property covers name further lines of this kind.

## Not modelled

Telemetry, logging, status conversion and deployment files keep no state that is
read back. The sharding hash, Brotli, HPKE, FlatBuffers and the CBOR library are
external: a parameter or an abstract conversion stands for each. The scanner and the
grammar of set queries are generated. The query driver beyond evaluation, `cat` in
the blob tool, and `RemoveIf` and the iterators of the hash map, which the cache
does not call, are left out. So are several insertion threads of the request simulation
(`--data_loading_num_threads` above 1), for which its batcher is not thread safe, and
what the batcher flushes when it is destroyed, and the Avro formats of `format_data`.
Sets and UDF configurations in data files take the path that `DataLoading` models for
strings and are not repeated there.
