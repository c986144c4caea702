------------------------------- MODULE RecordFiles -------------------------------
(***************************************************************************)
(* A data file from the tool that writes it to the server that reads it:   *)
(* records are packed and written (DeltaRecordStreamWriter,                *)
(* AvroDeltaRecordStreamWriter), and the server reads the file again and   *)
(* again until a read succeeds, through RiegeliStreamReader or the         *)
(* concurrent byte ranges of AvroConcurrentStreamRecordReader.             *)
(*                                                                         *)
(* Offsets of an Avro file are in records: a block is a sync marker of     *)
(* size one and its records.                                               *)
(***************************************************************************)
EXTENDS RecordFormat, Integers, SequencesExt, FiniteSetsExt

CONSTANTS
  Natives(_),        \* the native records a tool writes, for each format
  Foreign(_),        \* buffers made by other writers
  MaxRecords(_),     \* bound on the records of a file
  NumWorkerThreads, MinByteRangeSize

VARIABLES
  format,            \* "delta" or "avro"
  phase,
  file,              \* the records written: their bytes, and the native object if there is one
  blocks,            \* the blocks of an Avro file: where their sync marker begins, their records
  tasks,             \* the byte ranges of an Avro file, and how far their readers are
  reads              \* how often each record was given to the callback in this attempt

vars == <<format, phase, file, blocks, tasks, reads>>

Init ==
  /\ format \in {"delta", "avro"}
  /\ phase = "writing"
  /\ file = <<>> /\ blocks = <<>> /\ tasks = <<>> /\ reads = <<>>

(***************************************************************************)
(* Writing                                                                 *)
(***************************************************************************)

\* WriteRecord of either writer: Serialize and append.
WriteRecord(native) ==
  /\ phase = "writing" /\ Len(file) < MaxRecords(format)
  /\ file' = Append(file, [bytes |-> Serialize(native), native |-> Ref(native)])
  /\ UNCHANGED <<format, phase, blocks, tasks, reads>>

\* A buffer that another writer put into the file.
ForeignRecord(bytes) ==
  /\ phase = "writing" /\ Len(file) < MaxRecords(format)
  /\ file' = Append(file, [bytes |-> bytes, native |-> Null])
  /\ UNCHANGED <<format, phase, blocks, tasks, reads>>

\* Close. Avro cuts the records into blocks as its buffer fills up, or at a Flush.
Close ==
  /\ phase = "writing" /\ file # <<>>
  /\ phase' = "start"
  /\ IF format = "avro"
     THEN \E cuts \in SUBSET (1..(Len(file) - 1)) :
            LET ends == <<0>> \o SetToSortSeq(cuts \cup {Len(file)}, <)
            IN blocks' = [i \in 1..(Len(ends) - 1) |->
                            [marker |-> ends[i] + i - 1, records |-> (ends[i] + 1)..ends[i + 1]]]
     ELSE blocks' = <<>>
  /\ UNCHANGED <<format, file, tasks, reads>>

(***************************************************************************)
(* RiegeliStreamReader: the records one after the other                    *)
(***************************************************************************)

NoReads == [i \in DOMAIN file |-> 0]

\* ReadStreamRecords of the Riegeli reader. What the callback returns is logged:
\* the read fails only when the stream does.
ReadStreamRecords ==
  /\ phase = "start" /\ format = "delta"
  /\ reads' = [i \in DOMAIN file |-> 1]
  /\ phase' = "loaded"
  /\ UNCHANGED <<format, file, blocks, tasks>>

(***************************************************************************)
(* AvroConcurrentStreamRecordReader                                        *)
(***************************************************************************)

\* The records, a marker before every block and one after the last.
RecordStreamSize == Len(file) + Len(blocks) + 1

CeilDiv(a, b) == (a + b - 1) \div b

ByteRangeSize ==
  Min({RecordStreamSize, Max({CeilDiv(RecordStreamSize, NumWorkerThreads), MinByteRangeSize})})

\* The loop of BuildByteRanges: a range begins one after the end of the last one.
BuildByteRanges ==
  LET Begin(i) == (i - 1) * (ByteRangeSize + 1)
      count == CeilDiv(RecordStreamSize, ByteRangeSize + 1)
  IN [i \in 1..count |->
        [begin_offset |-> Begin(i),
         end_offset |-> Min({Begin(i) + ByteRangeSize, RecordStreamSize})]]

\* "Failed to generate byte_ranges": the last range does not end with the stream.
RangesAreComplete == Last(BuildByteRanges).end_offset = RecordStreamSize

\* One task for each range; without ranges ReadStreamRecords returns the error.
StartTasks ==
  /\ phase = "start" /\ format = "avro"
  /\ reads' = NoReads
  /\ IF RangesAreComplete
     THEN /\ tasks' = [i \in DOMAIN BuildByteRanges |->
                         [range |-> BuildByteRanges[i], pc |-> "sync", block |-> 0, ok |-> TRUE]]
          /\ phase' = "reading"
     ELSE phase' = "retry" /\ UNCHANGED tasks
  /\ UNCHANGED <<format, file, blocks>>

\* DataFileReader::sync: the block after the first marker at or after a position.
Sync(position) ==
  Min({i \in DOMAIN blocks : blocks[i].marker >= position} \cup {Len(blocks) + 1})

\* DataFileReader::pastSync: the block begins a marker or more after the position.
PastSync(block, position) == block > Len(blocks) \/ blocks[block].marker >= position

SyncToBlock_SkipOne(t) ==
  /\ phase = "reading" /\ tasks[t].pc = "sync"
  /\ tasks' = [tasks EXCEPT ![t].pc = "read", ![t].block = Sync(tasks[t].range.begin_offset) + 1]
  /\ UNCHANGED <<format, phase, file, blocks, reads>>

SyncToBlock(t) ==
  /\ phase = "reading" /\ tasks[t].pc = "sync"
  /\ tasks' = [tasks EXCEPT ![t].pc = "read", ![t].block = Sync(tasks[t].range.begin_offset)]
  /\ UNCHANGED <<format, phase, file, blocks, reads>>

\* The loop of ReadByteRange, a block at a time: every record goes to the callback,
\* and overall_status keeps the first error.
ReadByteRange(t) ==
  /\ phase = "reading" /\ tasks[t].pc = "read"
  /\ LET block == tasks[t].block
     IN IF PastSync(block, tasks[t].range.end_offset)
        THEN tasks' = [tasks EXCEPT ![t].pc = "done"] /\ UNCHANGED reads
        ELSE LET records == blocks[block].records
             IN /\ tasks' = [tasks EXCEPT
                               ![t].block = block + 1,
                               ![t].ok = @ /\ \A r \in records : Deserializes(file[r].bytes)]
                /\ reads' = [r \in DOMAIN file |-> reads[r] + (IF r \in records THEN 1 ELSE 0)]
  /\ UNCHANGED <<format, phase, file, blocks>>

\* ReadStreamRecords returns when every task has ended: the error of one of them, or
\* OK. RetryUntilOk of the orchestrator reads the file again after an error.
Return ==
  /\ phase = "reading" /\ \A t \in DOMAIN tasks : tasks[t].pc = "done"
  /\ phase' = IF \A t \in DOMAIN tasks : tasks[t].ok THEN "loaded" ELSE "retry"
  /\ tasks' = <<>>
  /\ UNCHANGED <<format, file, blocks, reads>>

Retry ==
  /\ phase = "retry" /\ phase' = "start"
  /\ reads' = <<>>
  /\ UNCHANGED <<format, file, blocks, tasks>>

Read ==
  \/ ReadStreamRecords \/ StartTasks \/ Return \/ Retry
  \/ \E t \in DOMAIN tasks : SyncToBlock(t) \/ ReadByteRange(t)

Next ==
  \/ \E native \in Natives(format) : WriteRecord(native)
  \/ \E bytes \in Foreign(format) : ForeignRecord(bytes)
  \/ Close \/ Read

\* The threads of the tasks and the loader run; the tool may stop writing.
Spec == Init /\ [][Next]_vars

(***************************************************************************)
(* Properties                                                              *)
(***************************************************************************)

\* A record is given to the callback at most once in an attempt, by one task.
TypeOK ==
  /\ phase \in {"writing", "start", "reading", "retry", "loaded"}
  /\ Len(file) <= MaxRecords(format)
  /\ phase # "writing" /\ format = "avro" => UNION {b.records : b \in Range(blocks)} = DOMAIN file
  /\ \A r \in DOMAIN reads : reads[r] \in 0..1

\* Whether a required part of a native record is empty; a Delete of a string needs none.
HasEmptyPart(native) ==
  LET o == Deref(native.record)
  IN CASE native.type = "KeyValueMutationRecord" ->
            \/ o.key = <<>> \/ o.value.type = "NONE"
            \/ o.value.type \in ValueTypes /\ Deref(o.value.value) = <<>>
               /\ ~(o.mutation_type = "Delete" /\ o.value.type = "StringValue")
       [] native.type = "UserDefinedFunctionsConfig" -> o.code_snippet = <<>> \/ o.handler_name = <<>>
       [] OTHER -> FALSE

\* Whether a buffer points to an empty string or an empty set.
StoresEmpty(data) ==
  \E t \in data.record :
    \/ data.record_type = "KeyValueMutationRecord"
       /\ (t.key = Ref(<<>>) \/ \E v \in t.value : v.value = Ref(<<>>))
    \/ data.record_type = "UserDefinedFunctionsConfig"
       /\ Ref(<<>>) \in {t.code_snippet, t.handler_name}

\* Whether a buffer has a record or a value of a type this version does not know.
StoresUnknownType(data) ==
  \/ data.record_type \notin RecordTypes
  \/ data.record_type = "KeyValueMutationRecord"
     /\ \E kv \in data.record : kv.value_type \notin ValueTypes

\* Records keep what they say in every form.  A record without an empty part that a tool
\* packs is accepted by DeserializeRecord and unpacks to what it was.  What
\* DeserializeRecord accepts can be used without another check: the copy of a union, Pack
\* and the getters of the cache loader follow no pointer that is null or leads out of the
\* buffer.  Reading and writing it again changes only a record with an empty part or an
\* unknown type (record_utils.cc, data_loading.h).
RecordsComeBack ==
  \A i \in DOMAIN file :
    LET data == file[i].bytes.root IN
    /\ \A native \in file[i].native :
         /\ Deserializes(file[i].bytes) <=> ~HasEmptyPart(native)
         /\ UnPackDataRecord(data) = native
    /\ (Deserializes(file[i].bytes) /\ data.record_type = "KeyValueMutationRecord") =>
         LET kv == Deref(data.record)
         IN /\ Readable(kv) /\ kv.key \notin {Null, Ref(Wild)}
            /\ kv.value_type \in ValueTypes =>
                 MaybeGetRecordValue(kv.value_type, kv) \notin {{}, {Wild}}
    /\ (Deserializes(file[i].bytes) /\ ~StoresEmpty(data) /\ ~StoresUnknownType(data)) =>
         /\ Serialize(UnPackDataRecord(data)) = file[i].bytes
         /\ Serialize(CopyRecordUnion(UnPackDataRecord(data))) = file[i].bytes

\* The blocks no byte range of an Avro file reads: their marker begins exactly where a
\* range ends, and the next range begins one later.
BoundaryRecords ==
  UNION {b.records : b \in {x \in Range(blocks) :
           \E range \in Range(BuildByteRanges) : x.marker = range.end_offset}}

\* When a file is loaded no record was read twice, and the only ones that were not read
\* are those of Avro blocks at the end of a byte range: the Riegeli reader gives every
\* record, and the ranges of the Avro reader overlap nowhere and leave no other gap.
OnlyBoundaryBlocksAreMissed ==
  phase = "loaded" =>
    \A r \in DOMAIN file :
      \/ reads[r] = 1
      \/ reads[r] = 0 /\ format = "avro" /\ r \in BoundaryRecords

\* "Each record in the underlying data stream is guaranteed to be read exactly once"
\* (avro_stream_io.h:63).
EachRecordIsReadOnce ==
  phase = "loaded" => \A r \in DOMAIN file : reads[r] = 1
=============================================================================
