----------------------------- MODULE DataLoading -----------------------------
(***************************************************************************)
(* What loading files does to the cache (LoadCacheWithDataFromFile and      *)
(* LoadCacheWithData in components/data_server/data_loading/                *)
(* data_orchestrator.cc).  The files are loaded one after the other.  The   *)
(* records of a file are read and applied by several threads, in any order; *)
(* they share max_timestamp, which no lock protects.  A load that fails has *)
(* applied some of its records and is repeated; one that succeeds ends with *)
(* the cleanup of the file's prefix up to max_timestamp.  Realtime updates  *)
(* arrive meanwhile, in any order and more than once, without a cleanup.    *)
(* The cache is KeyValueCache.                                              *)
(***************************************************************************)
EXTENDS Integers, Sequences

CONSTANTS
  Keys, Values, Prefixes, Times, Null, Missing,   \* as in KeyValueCache
  ShardKeys,       \* the keys that belong to this server's shard
  Invalid,         \* a record value of a type that cannot be applied
  Readers,         \* threads of the concurrent record reader
  Root,            \* the prefix of realtime updates, ""
  Feeds            \* what may be published: see FeedOK

KeyValueMutationRecord ==
  [key : Keys, value : Values \cup {Null, Invalid}, logical_commit_time : Times]

(* A feed has the files in the order in which they are loaded and the        *)
(* records that are also sent as realtime updates.                           *)
FeedOK(f) ==
  /\ \A i \in DOMAIN f.files :
       /\ f.files[i].prefix \in Prefixes
       /\ f.files[i].other_shard \in BOOLEAN
       /\ f.files[i].records \subseteq KeyValueMutationRecord
  /\ f.realtime \subseteq KeyValueMutationRecord

VARIABLES
  map_, deleted_nodes_map_, max_cleanup_logical_commit_time_map_, newest,
  feed,
  file,            \* number of the file being loaded, or to be loaded next
  load,            \* "idle", "reading", or "failed": before a new attempt
  unread,          \* its records that no thread has taken in this attempt
  max_timestamp,
  reader,          \* what each thread is doing
  delivered        \* history: realtime updates applied so far

cacheVars == <<map_, deleted_nodes_map_, max_cleanup_logical_commit_time_map_, newest>>
loadVars == <<feed, file, load, unread, max_timestamp, reader, delivered>>
vars == <<cacheVars, loadVars>>

Cache == INSTANCE KeyValueCache WITH Routes <- Keys \X Prefixes

Idle == [pc |-> "idle"]

Init ==
  /\ Cache!Init
  /\ feed \in Feeds
  /\ file = 1
  /\ load = "idle"
  /\ unread = {}
  /\ max_timestamp = 0
  /\ reader = [r \in Readers |-> Idle]
  /\ delivered = {}

File == feed.files[file]

-----------------------------------------------------------------------------
ShouldProcessRecord(record) == record.key \in ShardKeys

ApplyUpdateMutation(prefix, record) ==
  /\ record.value \in Values
  /\ Cache!UpdateKeyValue(record.key, record.value, record.logical_commit_time, prefix)

ApplyDeleteMutation(prefix, record) ==
  /\ record.value = Null
  /\ Cache!DeleteKey(record.key, record.logical_commit_time, prefix)

ApplyKeyValueMutationToCache(prefix, record) ==
  ApplyUpdateMutation(prefix, record) \/ ApplyDeleteMutation(prefix, record)

Applies(record) == ShouldProcessRecord(record) /\ record.value # Invalid

-----------------------------------------------------------------------------
(* LoadCacheWithDataFromFile; a file of another shard is skipped. *)
SkipFile ==
  /\ load = "idle"
  /\ file \in DOMAIN feed.files
  /\ File.other_shard
  /\ file' = file + 1
  /\ UNCHANGED <<cacheVars, feed, load, unread, max_timestamp, reader, delivered>>

StartLoad ==
  /\ load \in {"idle", "failed"}
  /\ file \in DOMAIN feed.files
  /\ ~File.other_shard
  /\ load' = "reading"
  /\ unread' = File.records
  /\ max_timestamp' = 0
  /\ UNCHANGED <<cacheVars, feed, file, reader, delivered>>

(* A thread takes a record and applies it. *)
ApplyRecord(r) ==
  /\ reader[r] = Idle
  /\ \E record \in unread :
       /\ Applies(record)
       /\ ApplyKeyValueMutationToCache(File.prefix, record)
       /\ unread' = unread \ {record}
       /\ reader' = [reader EXCEPT ![r] = [pc |-> "read", time |-> record.logical_commit_time]]
  /\ UNCHANGED <<feed, file, load, max_timestamp, delivered>>

(* Records of other shards are dropped; the errors of the others are logged. *)
DropRecord(r) ==
  /\ reader[r] = Idle
  /\ \E record \in unread :
       /\ ~Applies(record)
       /\ unread' = unread \ {record}
  /\ UNCHANGED <<cacheVars, feed, file, load, max_timestamp, reader, delivered>>

(* max_timestamp = max(max_timestamp, time), unsynchronised. *)
ReadMaxTimestamp(r) ==
  /\ reader[r].pc = "read"
  /\ reader' = [reader EXCEPT ![r] = [pc |-> "write", time |-> @.time, seen |-> max_timestamp]]
  /\ UNCHANGED <<cacheVars, feed, file, load, unread, max_timestamp, delivered>>

WriteMaxTimestamp(r) ==
  /\ reader[r].pc = "write"
  /\ max_timestamp' = IF reader[r].time > reader[r].seen THEN reader[r].time ELSE reader[r].seen
  /\ reader' = [reader EXCEPT ![r] = Idle]
  /\ UNCHANGED <<cacheVars, feed, file, load, unread, delivered>>

AllIdle == \A r \in Readers : reader[r] = Idle

FailLoad_CleansUp ==
  /\ load = "reading"
  /\ AllIdle
  /\ Cache!CleanUpKeyValueMap(max_timestamp, File.prefix)
  /\ load' = "failed"
  /\ unread' = {}
  /\ UNCHANGED <<feed, file, max_timestamp, reader, delivered>>

(* ReadStreamRecords returns an error, after all of its threads have ended.  *)
FailLoad ==
  /\ load = "reading"
  /\ AllIdle
  /\ load' = "failed"
  /\ unread' = {}
  /\ UNCHANGED <<cacheVars, feed, file, max_timestamp, reader, delivered>>

FinishLoad ==
  /\ load = "reading"
  /\ unread = {}
  /\ AllIdle
  /\ Cache!CleanUpKeyValueMap(max_timestamp, File.prefix)
  /\ load' = "idle"
  /\ file' = file + 1
  /\ UNCHANGED <<feed, unread, max_timestamp, reader, delivered>>

(* LoadCacheWithHighPriorityUpdates, for one record of a message. *)
ApplyRealtime(record) ==
  /\ Applies(record)
  /\ ApplyKeyValueMutationToCache(Root, record)
  /\ delivered' = delivered \cup {record}
  /\ UNCHANGED <<feed, file, load, unread, max_timestamp, reader>>

LoadFile ==
  \/ SkipFile
  \/ StartLoad
  \/ FailLoad
  \/ FinishLoad

Next ==
  \/ LoadFile
  \/ \E r \in Readers :
       ApplyRecord(r) \/ DropRecord(r) \/ ReadMaxTimestamp(r) \/ WriteMaxTimestamp(r)
  \/ \E record \in feed.realtime : ApplyRealtime(record)

Spec == Init /\ [][Next]_vars

-----------------------------------------------------------------------------
(* Type invariant; no thread of a load outlives it. *)
TypeOK ==
  /\ Cache!TypeOK
  /\ FeedOK(feed)
  /\ file \in 1..(Len(feed.files) + 1)
  /\ load \in {"idle", "reading", "failed"}
  /\ unread \subseteq KeyValueMutationRecord
  /\ max_timestamp \in Times
  /\ delivered \subseteq feed.realtime
  /\ load # "reading" => AllIdle

(* The records of file i that this server is to serve. *)
Served(i) ==
  IF feed.files[i].other_shard THEN {}
  ELSE {record \in feed.files[i].records : Applies(record)}

LoadedRecords == (UNION {Served(i) : i \in 1..(file - 1)}) \cup delivered

(* Those that may have been applied by an attempt that has not succeeded. *)
PartlyLoaded == IF load = "idle" THEN {} ELSE Served(file)

(* Readers are served the newest data: what they get for a key comes from a  *)
(* loaded record (or one of the file being loaded) such that no loaded       *)
(* record of the key is newer.  This holds for records in any order within a *)
(* file, lost updates of max_timestamp, attempts that fail half way and are  *)
(* repeated, and realtime updates before, during and after the load of the   *)
(* file that carries the same records.                                       *)
NewestDataIsServed ==
  \A k \in Keys :
    LET loaded == {record \in LoadedRecords : record.key = k}
        partly == {record \in PartlyLoaded : record.key = k}
        value  == Cache!GetKeyValue(k)
    IN  \/ loaded = {} /\ value = Null
        \/ \E record \in loaded \cup partly :
             /\ value = record.value
             /\ \A other \in loaded :
                  other.logical_commit_time <= record.logical_commit_time
=============================================================================
