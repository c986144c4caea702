----------------------------- MODULE MCComponents -----------------------------
(***************************************************************************)
(* For TLC, the components that share no state, one at a time: a behaviour *)
(* is one of                                                               *)
(*   SeekingInputStreambuf         a stream over one blob                  *)
(*   BlobStorage                   listings and file groups of a bucket    *)
(*   ConcurrentStreamRecordReader  the tasks of one call on a stream       *)
(*   DataLoading                   records applied to the cache            *)
(*   RecordFiles                   the files that records come in          *)
(*   SnapshotGeneration            the tools that make files of files      *)
(*   Configuration                 how the server is configured            *)
(*   PubSubNotifier, LocalNotifier how it is told of new data              *)
(*   ShardingValidator             the validator that reads responses      *)
(*   Compression                   the compression of responses            *)
(* `which` tells and never changes, so that the states are the union of    *)
(* theirs.  The variables of the others have values in which nothing they  *)
(* do is enabled.                                                          *)
(***************************************************************************)
EXTENDS SeekingInputStreambuf, Configuration, PubSubNotifier, LocalNotifier, FiniteSets, TLC

CONSTANTS
  PageSize, MaxDeletes, Copies,
  StreamSize, num_worker_threads, min_shard_size_bytes,
  k1, k2, k3, v1, Root, NullValue, NotFound, InvalidValue, r1, r2,
  MaxDeltaRecords, MaxAvroRecords, AvroThreads, AvroMinRange,
  NumShards, BatchSize, NoFile, MaxFiles, MaxCommands,
  MaxUInt8, MaxUInt16, MaxUInt32, NumDigits, MaxTime, MaxGroups

VARIABLES
  which,
  blobs, client, bucket, deletes, bucketCall, request, listed, token, skipped, loaded,
  seen, steady,
  stream_size, records, shards, task, caller, collected, status, times_read,
  map_, deleted_nodes_map_, max_cleanup_logical_commit_time_map_, newest,
  feed, dataFile, load, unread, max_timestamp, reader, delivered,
  format, phase, file, blocks, tasks, reads,
  deltas, snapshots, cmd, csv, copy, commands,
  flags, pc, keys, answer, reply, made, clock, batch_end, failures, mismatches,
  missing, wrong, other,
  compression, partitions_, compressed, intact, pos, results, reading, decoder

-----------------------------------------------------------------------------
(* Blobs, buckets, streams of records and what the server loads. *)
MCCopies == {<<3, 3>>}

MCOffsets == {-2, -1, 0, 1, 3}

Location(prefix, key) == [prefix |-> prefix, key |-> key]

\* A prefix, as a path component.
P == <<<<9>>>>

Request(prefix, type, start_after) == [prefix |-> prefix, type |-> type, start_after |-> start_after]

InBucket(prefix, names, others, r) ==
  [blobs |-> {Location(prefix, k) : k \in names} \cup others, request |-> r]

\* Two snapshots of two files each; a snapshot that is one file and a group, with a
\* stray file of another group size; deltas; a file with an index that is too large.
MCBuckets ==
  {InBucket(<<>>, {<<3, 1, 0, 2>>, <<3, 1, 1, 2>>, <<3, 2, 0, 2>>, <<3, 2, 1, 2>>}, {}, Request(<<>>, 3, <<>>)),
   InBucket(<<>>, {<<3, 1, 0, 2>>, <<3, 1, 1, 2>>, <<3, 1, 1, 3>>, <<3, 1>>}, {}, Request(<<>>, 3, <<>>)),
   InBucket(<<>>, {<<1, t>> : t \in 1..4}, {Location(P, <<1, 3>>)}, Request(<<>>, 1, <<1, 1>>)),
   InBucket(P, {<<3, 1>>, <<3, 2, 2, 2>>, <<2, 1>>}, {Location(<<>>, <<3, 2>>)}, Request(P, 3, <<>>))}

B == INSTANCE BlobStorage WITH
       Clients <- {"s3", "gcp", "local"}, Setups <- MCBuckets, setup <- blobs,
       call <- bucketCall, keys <- listed

R == INSTANCE ConcurrentStreamRecordReader WITH MaxSize <- StreamSize

(* The files and the realtime updates that the server loads. *)
Record(k, v, t) == [key |-> k, value |-> v, logical_commit_time |-> t]

(* k1 is updated and deleted, k2 is updated; k3 belongs to another shard. *)
Records ==
  {Record(k1, v, t) : v \in {v1, NullValue}, t \in 1..3} \cup {Record(k2, v1, t) : t \in 1..3}

Contents == {c \in SUBSET Records : Cardinality(c) \in 1..2}

RootFile(content) == [prefix |-> Root, other_shard |-> FALSE, records |-> content]

AnyTwoFiles ==
  {<<RootFile(a), RootFile(b)>> : a \in Contents, b \in Contents}

(* Every record of a file is newer than those of the files before it. *)
InOrder(files) ==
  \A i, j \in DOMAIN files : i < j =>
    \A r \in files[i].records, s \in files[j].records :
      r.logical_commit_time < s.logical_commit_time

Published(files) == UNION {files[i].records : i \in DOMAIN files}

(* Files in commit-time order; one of the records is also a realtime update. *)
OrderedFeeds ==
  UNION {{[files |-> f, realtime |-> {r}] : r \in Published(f)} :
           f \in {g \in AnyTwoFiles : InOrder(g)}}

(* A file for another shard, a foreign key and a record that does not apply. *)
MixedFeeds ==
  {[files |-> <<[RootFile({Record(k1, v1, 3)}) EXCEPT !.other_shard = TRUE],
                RootFile({Record(k1, v1, 1), Record(k1, NullValue, 2), Record(k2, InvalidValue, 3), Record(k3, v1, 3)}),
                RootFile({Record(k2, v1, 3)})>>,
    realtime |-> {Record(k1, v1, 1), Record(k2, v1, 3)}]}

PublishedInOrder == OrderedFeeds \cup MixedFeeds

L == INSTANCE DataLoading WITH
       Keys <- {k1, k2, k3}, Values <- {v1}, Prefixes <- {Root}, Times <- 0..3,
       ShardKeys <- {k1, k2}, Readers <- {r1, r2}, Feeds <- PublishedInOrder,
       Null <- NullValue, Invalid <- InvalidValue, Missing <- NotFound, file <- dataFile

-----------------------------------------------------------------------------
(* The records of data files: what tools write, and buffers of other writers. *)
Format == INSTANCE RecordFormat

Strings == {<<>>, <<"x">>}

KeyValueRecords ==
  {Format!DataRecordT("KeyValueMutationRecord", Format!Ref(Format!KeyValueMutationRecordT(t, k, v))) :
     t \in {"Update", "Delete"}, k \in Strings,
     v \in {Format!NoValue} \cup {Format!SetValue(s, e) : s \in Format!ValueTypes, e \in Strings}}

Configs ==
  {Format!DataRecordT("UserDefinedFunctionsConfig", Format!Ref(Format!UserDefinedFunctionsConfigT(c, h, 1))) :
     c \in Strings, h \in Strings}

Good ==
  Format!DataRecordT("KeyValueMutationRecord",
    Format!Ref(Format!KeyValueMutationRecordT("Update", <<"k">>, Format!SetValue("StringValue", <<"x">>))))

MCNatives(f) ==
  IF f = "avro" THEN {Good}
  ELSE KeyValueRecords \cup Configs \cup
       {Format!DataRecordT("ShardMappingRecord", Format!Ref(Format!ShardMappingRecordT(0, 1)))}

Buffer(of, record) == [whole |-> TRUE, root |-> [record_type |-> of, record |-> record]]

KeyValueBuffer(of, value) ==
  Buffer("KeyValueMutationRecord",
         {[mutation_type |-> "Update", key |-> {<<"k">>}, value_type |-> of, value |-> value]})

\* Buffers of a newer or of another writer: an empty string or set that is there, a
\* field that is not, a type this version does not know, a file that was cut off or damaged.
ForeignBuffers ==
  {KeyValueBuffer(t, {[value |-> {<<>>}]}) : t \in Format!ValueTypes}
  \cup {KeyValueBuffer(t, {}) : t \in Format!ValueTypes}
  \cup {KeyValueBuffer(t, {[value |-> {}]}) : t \in Format!ValueTypes}
  \cup {KeyValueBuffer(t, {[value |-> {Format!Wild}]}) : t \in Format!ValueTypes \cup {"FloatSet"}}
  \cup {KeyValueBuffer("FloatSet", {[value |-> {<<"x">>}]}),
        Buffer("NewRecord", {[key |-> {<<"k">>}]}), Buffer("KeyValueMutationRecord", {}),
        [Format!Serialize(Good) EXCEPT !.whole = FALSE]}

MCForeign(f) ==
  IF f = "avro" THEN {[Format!Serialize(Good) EXCEPT !.whole = FALSE]} ELSE ForeignBuffers

MCMaxRecords(f) == IF f = "avro" THEN MaxAvroRecords ELSE MaxDeltaRecords
F == INSTANCE RecordFiles WITH
       Natives <- MCNatives, Foreign <- MCForeign, MaxRecords <- MCMaxRecords,
       NumWorkerThreads <- AvroThreads, MinByteRangeSize <- AvroMinRange

-----------------------------------------------------------------------------
(* A key with a string and a string set, one with a set of numbers, a udf    *)
(* config and a shard mapping, two shards, and batches of one row, so that a *)
(* batch can be full.                                                        *)
Mutation(k, t, d, v) == [key |-> k, type |-> t, del |-> d, value |-> v]

A == <<"1">>

\* A string with the value separator in it.
AB == <<"1", "2">>

MCGarbage == <<"?">>

Assign == Mutation("s", "string", FALSE, AB)
Delete == Mutation("s", "string", TRUE, <<"">>)
AddA == Mutation("s", "string_set", FALSE, <<A>>)
AddAB == Mutation("s", "string_set", FALSE, <<AB>>)
RemoveA == Mutation("s", "string_set", TRUE, <<A>>)
AddNumbers == Mutation("u", "uint_set", FALSE, <<A, <<"2">>>>)
Udf == Mutation("f", "udf", FALSE, A)
Mapping == Mutation("m", "mapping", FALSE, A)

MCContents ==
  {<<m>> : m \in {Assign, Delete, AddA, AddNumbers, Udf, Mapping}}
    \cup {<<Assign, Delete>>, <<Assign, AddNumbers>>, <<AddA, AddAB>>, <<AddA, RemoveA>>,
          <<Assign, AddA>>, <<AddA, Assign>>, <<Udf, Udf>>}

MCHash == [k \in {"s", "u", "f", "m"} |-> CASE k = "s" -> 2 [] k = "u" -> 1 [] OTHER -> 3]

MCShardOf == [k \in {"s", "u", "f", "m"} |-> IF k = "s" THEN 1 ELSE 0]

D == INSTANCE SnapshotGeneration WITH
       Contents <- MCContents, Garbage <- MCGarbage, Hash <- MCHash, ShardOf <- MCShardOf,
       Shards <- {-1, 1}

-----------------------------------------------------------------------------
(* The configuration: one parameter of each kind, the string with a default. *)
MCParameters ==
  << [kind |-> "bool", default |-> <<>>],
     [kind |-> "string", default |-> <<"d">>],
     [kind |-> "int32", default |-> <<>>] >>

-----------------------------------------------------------------------------
(* Runs of the validator, and the responses that other clients get. *)
Run(upper, batch, qps, requests, coordinator) ==
  [inclusive_upper_bound |-> upper, batch_size |-> batch, qps |-> qps,
   requests |-> requests, use_coordinator |-> coordinator]

MCFlags == {Run(4, 2, 1, 2, FALSE), Run(5, 2, 2, 3, TRUE), Run(4, 4, 1, 2, TRUE), Run(1, 2, 1, 1, FALSE)}

\* Keys are written with the digits 0..2: foo0, foo1, foo2, foo10, foo11, ...
MCLexOf == [k \in 0..9 |-> IF k < 3 THEN 10 * k ELSE 10 * (k \div 3) + (k % 3) + 1]

MCIds == {-1, 0, 1, 2, 4}

MCOtherKeys == (SUBSET (1..4)) \X {{}, {0, 3}}

V == INSTANCE ShardingValidator WITH
       Flags <- MCFlags, LexOf <- MCLexOf, Ids <- MCIds, OtherKeys <- MCOtherKeys

C == INSTANCE Compression WITH
       Groups <- {<<>>, <<1>>, <<1, 2>>, <<2, 1, 1>>}, type <- compression, pc <- reading, blob <- compressed

-----------------------------------------------------------------------------
bucketVars == <<blobs, client, bucket, deletes, bucketCall, request, listed, token, skipped,
                loaded, seen, steady>>

readerVars == <<stream_size, records, shards, task, caller, collected, status, times_read>>

loadingVars == <<map_, deleted_nodes_map_, max_cleanup_logical_commit_time_map_, newest,
                 feed, dataFile, load, unread, max_timestamp, reader, delivered>>

storageVars == <<vars, bucketVars, readerVars, loadingVars>>

fileVars == <<format, phase, file, blocks, tasks, reads>>

toolVars == <<deltas, snapshots, cmd, csv, copy, commands>>

validatorVars == <<flags, pc, keys, answer, reply, made, clock, batch_end, failures,
                   mismatches, missing, wrong, other>>

compressionVars == <<compression, partitions_, compressed, intact, pos, results, reading, decoder>>

responseVars == <<validatorVars, compressionVars>>

platformVars == <<configVars, pubSubVars, localVars>>

allVars == <<which, storageVars, fileVars, toolVars, platformVars, responseVars>>

NoStream ==
  /\ blob = <<>> /\ buffer_size = 0 /\ buffer_ = <<>> /\ gptr = 0 /\ egptr = 0
  /\ src_limit_position_ = 0 /\ src_cached_size_ = -1 /\ bad = FALSE /\ out = Nothing
  /\ total_bytes_to_read = 0 /\ total_bytes_read = 0 /\ failed = FALSE /\ overwritten = FALSE

NoBucket ==
  /\ blobs = <<>> /\ client = "none" /\ bucket = {} /\ deletes = 0 /\ bucketCall = "none"
  /\ request = <<>> /\ listed = <<>> /\ token = <<>> /\ skipped = FALSE /\ loaded = {}
  /\ seen = {} /\ steady = {}

NoReader ==
  /\ stream_size = 0 /\ records = {} /\ shards = <<>> /\ task = <<>>
  /\ caller = "none" /\ collected = 0 /\ status = "none" /\ times_read = <<>>

NoLoading ==
  /\ map_ = <<>> /\ deleted_nodes_map_ = <<>> /\ max_cleanup_logical_commit_time_map_ = <<>>
  /\ newest = <<>> /\ feed = [files |-> <<>>, realtime |-> {}] /\ dataFile = 0
  /\ load = "none" /\ unread = {} /\ max_timestamp = 0 /\ reader = <<>> /\ delivered = {}

NoStorage == NoStream /\ NoBucket /\ NoReader /\ NoLoading

NoFiles ==
  /\ format = "none" /\ phase = "none" /\ file = <<>> /\ blocks = <<>>
  /\ tasks = <<>> /\ reads = <<>>

NoTools ==
  /\ deltas = <<>> /\ snapshots = <<>> /\ cmd = "none" /\ csv = "none" /\ copy = "none" /\ commands = 0

NoConfiguration ==
  /\ provider = "none" /\ labels = [environment |-> "env", shard |-> "1"]
  /\ store = [p \in Indices |-> "1"] /\ ever = [p \in Indices |-> {"1"}]
  /\ step = "ready" /\ identity = [id |-> "", environment |-> "", shard |-> ""] /\ environment_ = "env" /\ config = <<>>
  /\ configFaults = 0

NoPubSub ==
  /\ pool = "none" /\ sharded = FALSE /\ undecodable = {} /\ sub_id_ = FALSE
  /\ is_set_up_ = FALSE /\ session_ = "invalid" /\ watcher = "none" /\ sleep_for_ = FALSE
  /\ backlog = {} /\ handling = [received |-> {}, called |-> {}] /\ acked = {}
  /\ rejected = {} /\ applied_time = 0 /\ crashed = TRUE /\ pubSubFaults = 0

NoDirectory ==
  /\ directory = {} /\ files_in_directory_ = {} /\ call = "crashed" /\ max_wait = 0
  /\ should_stop = TRUE /\ initial = {} /\ reported = [f \in Files |-> 0]
  /\ fileChanges = 0

NoPlatform == NoConfiguration /\ NoPubSub /\ NoDirectory

NoCompression ==
  /\ compression = "none" /\ partitions_ = <<>> /\ compressed = <<>> /\ intact = TRUE /\ pos = 0
  /\ results = <<>> /\ reading = "none" /\ decoder = C!NoDecoder

NoValidation ==
  /\ flags = Run(1, 1, 1, 1, TRUE) /\ pc = "none" /\ keys = {} /\ answer = V!NoAnswer
  /\ reply = V!NoReply /\ made = 0 /\ clock = 0 /\ batch_end = 1 /\ failures = 0
  /\ mismatches = 0 /\ missing = 0 /\ wrong = 0 /\ other = V!NoOther

NoResponses == NoValidation /\ NoCompression

StorageInit ==
  \/ which = "blob" /\ Init /\ NoBucket /\ NoReader /\ NoLoading
  \/ which = "bucket" /\ NoStream /\ B!Init /\ NoReader /\ NoLoading
  \/ which = "stream" /\ NoStream /\ NoBucket /\ R!Init /\ NoLoading
  \/ which = "loading" /\ NoStream /\ NoBucket /\ NoReader /\ L!Init

PlatformInit ==
  \/ which = "config" /\ ConfigInit /\ NoPubSub /\ NoDirectory
  \/ which = "gcp" /\ NoConfiguration /\ PubSubInit /\ NoDirectory
  \/ which = "local" /\ NoConfiguration /\ NoPubSub /\ LocalInit

ResponseInit ==
  \/ which = "validator" /\ V!Init /\ NoCompression
  \/ which = "compression" /\ NoValidation /\ C!Init

MCInit ==
  \/ StorageInit /\ NoFiles /\ NoTools /\ NoPlatform /\ NoResponses
  \/ which = "files" /\ NoStorage /\ F!Init /\ NoTools /\ NoPlatform /\ NoResponses
  \/ which = "tools" /\ NoStorage /\ NoFiles /\ D!Init /\ NoPlatform /\ NoResponses
  \/ PlatformInit /\ NoStorage /\ NoFiles /\ NoTools /\ NoResponses
  \/ ResponseInit /\ NoStorage /\ NoFiles /\ NoTools /\ NoPlatform

BlobNext == which = "blob" /\ Next /\ UNCHANGED <<bucketVars, readerVars, loadingVars>>

BucketNext == which = "bucket" /\ B!Next /\ UNCHANGED <<vars, readerVars, loadingVars>>

StreamNext == which = "stream" /\ R!Next /\ UNCHANGED <<vars, bucketVars, loadingVars>>

LoadingNext == which = "loading" /\ L!Next /\ UNCHANGED <<vars, bucketVars, readerVars>>

StorageNext ==
  /\ BlobNext \/ BucketNext \/ StreamNext \/ LoadingNext
  /\ UNCHANGED <<which, fileVars, toolVars, platformVars, responseVars>>

FilesNext ==
  which = "files" /\ F!Next /\ UNCHANGED <<which, storageVars, toolVars, platformVars, responseVars>>

ToolsNext ==
  which = "tools" /\ D!Next /\ UNCHANGED <<which, storageVars, fileVars, platformVars, responseVars>>

StartNext == which = "config" /\ ConfigNext /\ UNCHANGED <<pubSubVars, localVars>>

GcpNext == which = "gcp" /\ PubSubNext /\ UNCHANGED <<configVars, localVars>>

DirectoryNext == which = "local" /\ LocalNext /\ UNCHANGED <<configVars, pubSubVars>>

PlatformNext ==
  /\ StartNext \/ GcpNext \/ DirectoryNext
  /\ UNCHANGED <<which, storageVars, fileVars, toolVars, responseVars>>

ValidatorNext == which = "validator" /\ V!Next /\ UNCHANGED compressionVars

CompressionNext == which = "compression" /\ C!Next /\ UNCHANGED validatorVars

ResponseNext ==
  /\ ValidatorNext \/ CompressionNext
  /\ UNCHANGED <<which, storageVars, fileVars, toolVars, platformVars>>

MCSpec ==
  MCInit /\ [][StorageNext \/ FilesNext \/ ToolsNext \/ PlatformNext \/ ResponseNext]_allVars

\* The type invariant of whichever of the modules runs.
MCTypeOK ==
  CASE which = "blob" -> TypeOK
    [] which = "bucket" -> B!TypeOK
    [] which = "stream" -> R!TypeOK
    [] which = "loading" -> L!TypeOK
    [] which = "files" -> F!TypeOK
    [] which = "tools" -> D!TypeOK
    [] which = "config" -> ConfigTypeOK
    [] which = "gcp" -> PubSubTypeOK
    [] which = "local" -> LocalTypeOK
    [] which = "validator" -> V!TypeOK
    [] which = "compression" -> C!TypeOK

\* BlobStorage!ListingIsFaithful: pages, puts and removals lose no steady file and
\* invent none.
ListingIsFaithful == which = "bucket" => B!ListingIsFaithful

\* BlobStorage!NewestCompleteGroupIsFound: an upload in progress hides no complete group.
NewestCompleteGroupIsFound == which = "bucket" => B!NewestCompleteGroupIsFound

\* BlobStorage!SnapshotsAreWhole: complete groups have every index, and a snapshot is
\* loaded with all its files.
SnapshotsAreWhole == which = "bucket" => B!SnapshotsAreWhole

\* ConcurrentStreamRecordReader!ReadExactlyOnce: a call that succeeds has given every
\* record to the callback once, whatever shard it lies in (riegeli_stream_io.h:113).
ReadExactlyOnce == which = "stream" => R!ReadExactlyOnce

\* DataLoading!NewestDataIsServed: with retries, concurrent readers and realtime updates
\* in any order, readers get the newest of the data loaded.
NewestDataIsServed == which = "loading" => L!NewestDataIsServed

\* SnapshotGeneration!SnapshotsReplaceTheirDeltas: a server that starts from a snapshot
\* answers as one that loaded the delta files it was made of.
SnapshotsReplaceTheirDeltas == which = "tools" => D!SnapshotsReplaceTheirDeltas

\* SnapshotGeneration!FormattedRecordsAreKept: format_data to CSV and back keeps the
\* records.
FormattedRecordsAreKept == which = "tools" => D!FormattedRecordsAreKept

\* RecordFiles!RecordsComeBack: packed records are accepted and come back, accepted ones
\* can be read, and repacking keeps them.
RecordsComeBack == which = "files" => F!RecordsComeBack

\* RecordFiles!OnlyBoundaryBlocksAreMissed: in a loaded file no record was read twice,
\* and only Avro blocks whose marker ends a byte range were not read.
OnlyBoundaryBlocksAreMissed == which = "files" => F!OnlyBoundaryBlocksAreMissed

\* RecordFiles!EachRecordIsReadOnce: what avro_stream_io.h:64 says of the records of a
\* file.
EachRecordIsReadOnce == which = "files" => F!EachRecordIsReadOnce

\* ShardingValidator!ValidationIsExact: the mismatches, missing keys and wrong values that
\* validator.cc counts are those of the responses.
ValidationIsExact == which = "validator" => V!ValidationIsExact

\* ShardingValidator!EncodingIsCanonicalAndExact: what the CBOR encoder writes is
\* canonical, and partition outputs with ids that fit come back from the decoder.
EncodingIsCanonicalAndExact == which = "validator" => V!EncodingIsCanonicalAndExact

\* Compression!ExtractedGroupsWereAdded: an extraction returns the group that was
\* added at its place or an error.
ExtractedGroupsWereAdded == which = "compression" => C!ExtractedGroupsWereAdded
=============================================================================
