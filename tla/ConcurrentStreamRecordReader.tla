--------------------- MODULE ConcurrentStreamRecordReader ---------------------
(***************************************************************************)
(* ReadStreamRecords of ConcurrentStreamRecordReader                        *)
(* (public/data_loading/readers/riegeli_stream_io.h): the stream is split   *)
(* into shards by byte position, one task per shard seeks to its start and  *)
(* passes every record that begins inside to the callback, the caller       *)
(* collects the results in shard order.  Records are byte positions.        *)
(***************************************************************************)
EXTENDS Integers, Sequences, FiniteSetsExt

CONSTANTS
  MaxSize,               \* bound on the size of the stream
  num_worker_threads,
  min_shard_size_bytes

VARIABLES
  stream_size,
  records,      \* positions at which a record begins
  shards,
  task,         \* shard -> what its reading task is doing, or has returned
  caller,       \* "build", "collect", "leave" (an error, tasks still running), "return"
  collected,    \* number of results taken
  status,       \* of ReadStreamRecords
  times_read    \* history: record -> calls of the callback with it

stream == <<stream_size, records>>
vars == <<stream, shards, task, caller, collected, status, times_read>>

Init ==
  /\ stream_size \in 0..MaxSize
  /\ records \in SUBSET (0..stream_size - 1)
  /\ shards = <<>>
  /\ task = <<>>
  /\ caller = "build"
  /\ collected = 0
  /\ status = "none"
  /\ times_read = [r \in records |-> 0]

-----------------------------------------------------------------------------
ShardSize ==
  LET share == (stream_size + num_worker_threads - 1) \div num_worker_threads IN
  Min({stream_size, Max({share, min_shard_size_bytes})})

ShardCount == (stream_size + ShardSize) \div (ShardSize + 1)

BuildShards_Overlap ==
  [i \in 1..ShardCount |->
     [start_pos |-> (i - 1) * ShardSize,
      end_pos |-> IF i = ShardCount THEN stream_size ELSE i * ShardSize]]

(* The loop: a shard starts one after the (inclusive) end of the one before. *)
BuildShards ==
  [i \in 1..ShardCount |->
     LET start == (i - 1) * (ShardSize + 1) IN
     [start_pos |-> start, end_pos |-> Min({start + ShardSize, stream_size})]]

StartTasks ==
  /\ caller = "build"
  /\ LET built == BuildShards IN
     IF built = <<>> \/ built[Len(built)].end_pos # stream_size
       THEN /\ caller' = "return"
            /\ status' = "Failed to generate shards."
            /\ UNCHANGED <<shards, task>>
       ELSE /\ caller' = "collect"
            /\ shards' = built
            /\ task' = [i \in DOMAIN built |-> [pc |-> "seek"]]
            /\ UNCHANGED status
  /\ UNCHANGED <<stream, collected, times_read>>

-----------------------------------------------------------------------------
(* Where the stream's reader is after moving to p: the next record, or the   *)
(* end of the stream.                                                        *)
NextRecordPos(p) ==
  LET after == {r \in records : r >= p} IN
  IF after = {} THEN stream_size ELSE Min(after)

Seek(i) ==
  /\ task[i].pc = "seek"
  /\ LET p == NextRecordPos(shards[i].start_pos) IN
     task' = [task EXCEPT ![i] = [pc |-> "read", pos |-> p, first_record_pos |-> p]]
  /\ UNCHANGED <<stream, shards, caller, collected, status, times_read>>

HasRecord(i) == task[i].pos <= shards[i].end_pos /\ task[i].pos \in records

ReadRecord(i) ==
  /\ task[i].pc = "read"
  /\ HasRecord(i)
  /\ times_read' = [times_read EXCEPT ![task[i].pos] = @ + 1]
  /\ task' = [task EXCEPT ![i].pos = NextRecordPos(@ + 1)]
  /\ UNCHANGED <<stream, shards, caller, collected, status>>

EndShard(i) ==
  /\ task[i].pc = "read"
  /\ ~HasRecord(i)
  /\ task' = [task EXCEPT ![i].pc = "ok"]
  /\ UNCHANGED <<stream, shards, caller, collected, status, times_read>>

(* The reader of a shard runs into an error of the blob storage. *)
FailShard(i) ==
  /\ task[i].pc \in {"seek", "read"}
  /\ task' = [task EXCEPT ![i] = [pc |-> "error"]]
  /\ UNCHANGED <<stream, shards, caller, collected, status, times_read>>

ReadShardRecords(i) == Seek(i) \/ ReadRecord(i) \/ EndShard(i) \/ FailShard(i)

-----------------------------------------------------------------------------
Ended(i) == task[i].pc \in {"ok", "error"}

SkippedRecords(i) == i > 1 /\ task[i - 1].pos < task[i].first_record_pos

(* The caller waits for the next result; any error ends the loop. *)
Collect ==
  /\ caller = "collect"
  /\ collected < Len(shards)
  /\ LET i == collected + 1 IN
     /\ Ended(i)
     /\ IF task[i].pc = "error"
          THEN caller' = "leave" /\ status' = "error" /\ UNCHANGED collected
        ELSE IF SkippedRecords(i)
          THEN caller' = "leave" /\ status' = "Skipped some records" /\ UNCHANGED collected
        ELSE collected' = i /\ UNCHANGED <<caller, status>>
  /\ UNCHANGED <<stream, shards, task, times_read>>

Return ==
  /\ caller = "collect"
  /\ collected = Len(shards)
  /\ caller' = "return"
  /\ status' = "ok"
  /\ UNCHANGED <<stream, shards, task, collected, times_read>>

(* The futures of std::async wait for their tasks when they are destroyed.   *)
ReturnError ==
  /\ caller = "leave"
  /\ \A i \in DOMAIN task : Ended(i)
  /\ caller' = "return"
  /\ UNCHANGED <<stream, shards, task, collected, status, times_read>>

ReadStreamRecords == StartTasks \/ Collect \/ Return \/ ReturnError

Next == ReadStreamRecords \/ \E i \in DOMAIN task : ReadShardRecords(i)

Spec == Init /\ [][Next]_vars

-----------------------------------------------------------------------------
(* Type invariant; the shards lie within the stream, each has its own task. *)
TypeOK ==
  /\ records \subseteq 0..stream_size - 1
  /\ shards \in Seq([start_pos : 0..stream_size, end_pos : 0..stream_size])
  /\ DOMAIN task = DOMAIN shards
  /\ \A i \in DOMAIN task : task[i].pc \in {"seek", "read", "ok", "error"}
  /\ caller \in {"build", "collect", "leave", "return"}
  /\ collected \in 0..Len(shards)
  /\ times_read \in [records -> Nat]

(* "Each record in the underlying data stream is guaranteed to be read       *)
(* exactly once": no record is passed to the callback twice, by two tasks or *)
(* one, and when ReadStreamRecords succeeds every record was passed to it,   *)
(* wherever the shard boundaries fall between or on records.  That is final  *)
(* once it has returned, also with the error of one task: no task still      *)
(* calls the callback, which refers to variables of the caller.              *)
ReadExactlyOnce ==
  /\ \A r \in records : times_read[r] <= 1 /\ (status = "ok" => times_read[r] = 1)
  /\ caller = "return" => \A i \in DOMAIN task : Ended(i)

(* "This function blocks until all records in the underlying record stream   *)
(* are read": unless the storage fails, it returns with all records read.    *)
AllRecordsAreRead ==
  caller = "return" /\ stream_size > 0 /\ (\A i \in DOMAIN task : task[i].pc # "error")
    => \A r \in records : times_read[r] = 1
=============================================================================
