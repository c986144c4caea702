--------------------------- MODULE SnapshotGeneration ---------------------------
(***************************************************************************)
(* The data_cli tool beside a bucket of data files.                        *)
(*                                                                         *)
(* generate_snapshot compacts a base snapshot and the delta files after it *)
(* into one snapshot: every record goes through the RecordAggregator, a    *)
(* table with one row per key hash, and SnapshotStreamWriter::Finalize     *)
(* writes the rows back in batches without the deleted ones.  format_data  *)
(* converts a delta file to CSV and back.  Each command may keep the       *)
(* records of one shard only.  Delta files go on arriving while a command  *)
(* runs.                                                                   *)
(*                                                                         *)
(* A delta file is a sequence of records; its name is its position, which  *)
(* is how the names of the files compare.  A mutation is a record without  *)
(* its logical_commit_time; the times grow from file to file.  Records are *)
(* of three kinds: key-value mutations, udf configs and shard mappings.    *)
(***************************************************************************)
EXTENDS Integers, Sequences, SequencesExt, FiniteSets, FiniteSetsExt, Folds

CONSTANTS
  Contents,       \* what a delta file may say: sequences of [key, type, del, value]
  Garbage,        \* a value of a string set nobody wrote
  Hash,           \* absl::HashOf, a function of the keys
  ShardOf,        \* ShardingFunction::GetShardNumForKey, a function of the keys
  NumShards,      \* --number_of_shards
  Shards,         \* the values of --shard_number, AllShards for none
  BatchSize,      \* kRecordsQueryBatchSize
  NoFile,         \* no base snapshot
  MaxFiles,       \* bound on the delta files
  MaxCommands     \* bound on the commands that are run

VARIABLES
  deltas,         \* the delta files of the bucket
  snapshots,      \* the snapshot files of the bucket, in the order of their names
  cmd,            \* the generate_snapshot command that is running
  csv,            \* the output of format_data to CSV
  copy,           \* the output of format_data back to a delta file
  commands        \* commands started so far

vars == <<deltas, snapshots, cmd, csv, copy, commands>>

-----------------------------------------------------------------------------
(* What format_data does to the value of a record: the CSV writer joins the  *)
(* values of a set with the value separator, the CSV reader splits the       *)
(* column at every separator.  A string is the sequence of its parts between *)
(* separators.  A column is such a string too, or the sequence of base64     *)
(* encoded values: these hold no separator, and each decodes to the value it *)
(* was made from.                                                            *)

\* One part, the empty one.
EmptyString == <<"">>

IsNumber(part) == part \in {"1", "2"}

\* MaybeEncode and StrJoin of the values of a set, in the order of the sequence;
\* joining nothing gives the empty string.
JoinPlaintext(values) ==
  IF values = <<>> THEN EmptyString ELSE FlattenSeq(values)

JoinBase64(values) == IF values = <<>> THEN <<EmptyString>> ELSE values

\* GetRecordValue: a string value is copied or encoded, a set is joined.
GetRecordValue(type, value, encoding) ==
  IF type = "string" THEN IF encoding = "base64" THEN <<value>> ELSE value
  ELSE IF encoding = "base64" THEN JoinBase64(value) ELSE JoinPlaintext(value)

\* GetSetValue: the column split at each separator, and decoded.
GetSetValue(column, encoding) ==
  IF encoding = "base64" THEN column
  ELSE [i \in DOMAIN column |-> <<column[i]>>]

\* BuildSetValue: the values of a set of numbers must be numbers.
Converts(type, values) ==
  type = "uint_set" => \A i \in DOMAIN values : Len(values[i]) = 1 /\ IsNumber(values[i][1])

\* A mutant: a string is split like a set.
SetRecordValueSplits(type, column, encoding) ==
  IF type = "string"
  THEN [ok |-> TRUE, value |-> IF encoding = "base64" THEN column[1] ELSE <<column[1]>>]
  ELSE LET values == GetSetValue(column, encoding)
       IN [ok |-> Converts(type, values), value |-> values]

\* SetRecordValue: the value read from a column; "error" when it cannot be.
SetRecordValue(type, column, encoding) ==
  IF type = "string"
  THEN [ok |-> TRUE, value |-> IF encoding = "base64" THEN column[1] ELSE column]
  ELSE LET values == GetSetValue(column, encoding)
       IN [ok |-> Converts(type, values), value |-> values]

\* --record_type: which of the three kinds of record a type belongs to.
Kind(type) == IF type \in {"udf", "mapping"} THEN type ELSE "kv"

\* MakeCsvRecord: a record of another kind than the command's is refused.  The
\* key, the times and the mutation type have columns of their own, and so have the
\* fields of a udf config and of a shard mapping, which are not encoded.
MakeCsvRecord(record, kind, encoding) ==
  [ok |-> Kind(record.type) = kind,
   row |-> IF kind # "kv" THEN record
           ELSE [record EXCEPT !.value = GetRecordValue(record.type, record.value, encoding)]]

\* MakeDeltaFileRecordStruct: a row back as a record.
MakeDeltaFileRecordStruct(row, encoding) ==
  LET read == IF Kind(row.type) # "kv" THEN [ok |-> TRUE, value |-> row.value]
              ELSE SetRecordValue(row.type, row.value, encoding)
  IN [ok |-> read.ok, record |-> [row EXCEPT !.value = read.value]]

\* ReadRecords: a row that does not convert is skipped, the rest is read, and the
\* status is an error.
ReadRecords(rows, encoding) ==
  LET read == [i \in DOMAIN rows |-> MakeDeltaFileRecordStruct(rows[i], encoding)]
      good == SelectSeq(read, LAMBDA r : r.ok)
  IN [ok |-> Len(good) = Len(rows), records |-> [i \in DOMAIN good |-> good[i].record]]

-----------------------------------------------------------------------------
\* --shard_number is not given.
AllShards == -1

\* std::numeric_limits<int64_t>::min(), before which no row is read.
MinHash == 0

Mutations == UNION {ToSet(c) : c \in Contents}

NumRecords == Len(FlattenSeq(deltas))

EmptyTable == [h \in {} |-> NoFile]

\* SnapshotStreamWriter::Create: an empty table, no udf config, nothing written.
NewWriter == [table |-> EmptyTable, udf |-> {}, last |-> MinHash, out |-> {}]

Idle == [pc |-> "idle", base |-> NoFile, ending |-> 0, shard |-> AllShards, after |-> 0,
         files |-> <<>>] @@ NewWriter

NoCsv == [of |-> 0, encoding |-> "plaintext", shard |-> AllShards, rows |-> <<>>]

NoCopy == [shard |-> AllShards, ok |-> FALSE, records |-> <<>>]

Init ==
  /\ deltas = <<>>
  /\ snapshots = <<>>
  /\ cmd = Idle
  /\ csv = NoCsv
  /\ copy = NoCopy
  /\ commands = 0

\* The data publisher uploads a delta file whose records are newer than all before.
PublishDelta(mutations) ==
  /\ Len(deltas) < MaxFiles
  /\ deltas' = Append(deltas, [i \in DOMAIN mutations |-> mutations[i] @@ [time |-> NumRecords + i]])
  /\ UNCHANGED <<snapshots, cmd, csv, copy, commands>>

(***************************************************************************)
(* RecordAggregator                                                        *)
(***************************************************************************)

\* The row of a key, if there is one.
ReadRecord(table, h) == {table[g] : g \in DOMAIN table \cap {h}}

\* The values of the new record, and a view of each other value of the existing one.
\* The views are of strings that are gone when the list is made of them: each may
\* still read as the value it was, or as something else.
MergeSetValueIfRecordExists(table, h, record) ==
  LET values == ToSet(record.value)
      existing == UNION {ToSet(r.value) : r \in {q \in ReadRecord(table, h) : q.type = "string_set"}}
      views == existing \ values
  IN {values \cup kept \cup (IF kept = views THEN {} ELSE {Garbage}) : kept \in SUBSET views}

\* kInsertRecordSql: the row is replaced unless it is newer.
Upsert(table, h, record) ==
  IF \E r \in ReadRecord(table, h) : r.time > record.time THEN table
  ELSE [g \in DOMAIN table \cup {h} |-> IF g = h THEN record ELSE table[g]]

\* The record with each list of values the merge may give.
Merged(table, h, record) ==
  {[record EXCEPT !.value = SetToSeq(values)] :
     values \in MergeSetValueIfRecordExists(table, h, record)}

\* The tables that may result; one row per key, whatever the types of its values.
InsertOrUpdateRow(table, h, record) ==
  {Upsert(table, h, r) : r \in IF record.type = "string_set" THEN Merged(table, h, record)
                               ELSE {record}}

\* The rows of the next batch: the first BatchSize ones after key last.
Batch(table, last) ==
  {h \in DOMAIN table : h > last /\ Cardinality({g \in DOMAIN table : last < g /\ g < h}) < BatchSize}

(***************************************************************************)
(* SnapshotStreamWriter and generate_snapshot                              *)
(***************************************************************************)

\* The newest udf config seen, as a set of at most one record.
NewestUdf(udf, record) ==
  IF \A u \in udf : u.time < record.time THEN {record} ELSE udf

\* InsertOrUpdateRecord: one record of a file; the commands that may result.  Shard
\* mappings are not kept.
InsertOrUpdateRecord(c, record) ==
  CASE record.type = "udf" -> {[c EXCEPT !.udf = NewestUdf(@, record)]}
    [] record.type = "mapping" -> {c}
    [] OTHER -> {[c EXCEPT !.table = t] : t \in InsertOrUpdateRow(c.table, Hash[record.key], record)}

\* The shard filter of both commands; only key-value mutations have a shard.
InShard(record, shard) ==
  shard = AllShards \/ Kind(record.type) # "kv" \/ ShardOf[record.key] = shard

\* The records of a file go to the writer, those of other shards are skipped; the
\* commands that may result.
WriteRecordsToSnapshotStream(c, records) ==
  LET Insert(cs, record) == UNION {InsertOrUpdateRecord(d, record) : d \in cs}
  IN FoldLeft(Insert, {c}, SelectSeq(records, LAMBDA r : InShard(r, c.shard)))

\* The same for the files of a sequence of names, in turn.
WriteFiles(c, files) ==
  LET Write(cs, f) == UNION {WriteRecordsToSnapshotStream(d, deltas[f]) : d \in cs}
  IN FoldLeft(Write, {c}, files)

\* The shard is one of the shards; the names are those of files.
ValidateRequiredParams(shard) == shard >= 0 => shard < NumShards

\* The starting file is a snapshot or a delta file, the ending file a delta file.
ValidateRequiredSnapshotMetadata(base, start, ending) ==
  (base = NoFile => start > 0) /\ ending > 0

\* Execute up to the creation of the writer.
StartSnapshot(base, start, ending, shard) ==
  /\ cmd.pc = "idle"
  /\ ValidateRequiredParams(shard)
  /\ ValidateRequiredSnapshotMetadata(base, start, ending)
  /\ commands < MaxCommands
  /\ commands' = commands + 1
  /\ cmd' = [Idle EXCEPT !.pc = IF base = NoFile THEN "list" ELSE "base",
                         !.base = base, !.ending = ending, !.shard = shard, !.after = start]
  /\ UNCHANGED <<deltas, snapshots, csv, copy>>

\* The records of the base snapshot.  The name of its last delta file is a view
\* of a string that is gone when the listing uses it: any name may be read.
WriteBaseSnapshotData ==
  /\ cmd.pc = "base"
  /\ \E after \in 0..Len(deltas), c \in WriteRecordsToSnapshotStream(cmd, snapshots[cmd.base].records) :
       cmd' = [c EXCEPT !.pc = "list", !.after = after]
  /\ UNCHANGED <<deltas, snapshots, csv, copy, commands>>

\* FileBlobStorageClient::ListBlobs: the names after start_after, sorted.
BlobsAfter(start) == [i \in 1..(Len(deltas) - start) |-> start + i]

\* The delta files after start_after, with the starting delta file put in front.
ListBlobs ==
  /\ cmd.pc = "list"
  /\ cmd' = [cmd EXCEPT !.pc = "deltas",
                        !.files = IF cmd.base = NoFile THEN <<cmd.after>> \o BlobsAfter(cmd.after)
                                  ELSE BlobsAfter(cmd.after)]
  /\ UNCHANGED <<deltas, snapshots, csv, copy, commands>>

\* A mutant: the ending delta file is left out.
WriteDeltaFilesBeforeEnding ==
  /\ cmd.pc = "deltas"
  /\ \E c \in WriteFiles(cmd, SelectSeq(cmd.files, LAMBDA f : f < cmd.ending)) :
       cmd' = [c EXCEPT !.pc = "finalize", !.files = <<>>]
  /\ UNCHANGED <<deltas, snapshots, csv, copy, commands>>

\* The loop over the listed files; it ends at the first one after
\* ending_delta_file.  The files of a bucket do not change, so that reading them
\* all is one step.
WriteDeltaFilesToSnapshot ==
  /\ cmd.pc = "deltas"
  /\ \E c \in WriteFiles(cmd, SelectSeq(cmd.files, LAMBDA f : f <= cmd.ending)) :
       cmd' = [c EXCEPT !.pc = "finalize", !.files = <<>>]
  /\ UNCHANGED <<deltas, snapshots, csv, copy, commands>>

\* Finalize: one batch of RecordAggregator::ReadRecords, without the deleted
\* rows; after a batch that is not full comes the udf config.
Finalize ==
  /\ cmd.pc = "finalize"
  /\ LET batch == Batch(cmd.table, cmd.last)
         rows == {cmd.table[h] : h \in batch}
         written == cmd.out \cup {r \in rows : ~r.del}
     IN cmd' = IF Cardinality(batch) < BatchSize
               THEN [cmd EXCEPT !.pc = "put", !.out = written \cup cmd.udf]
               ELSE [cmd EXCEPT !.last = Max(batch), !.out = written]
  /\ UNCHANGED <<deltas, snapshots, csv, copy, commands>>

\* The snapshot with its metadata; "after" is what the listing started from.
PutBlob ==
  /\ cmd.pc = "put"
  /\ snapshots' = Append(snapshots, [records |-> SetToSeq(cmd.out), base |-> cmd.base,
                                     after |-> cmd.after, ending |-> cmd.ending, shard |-> cmd.shard])
  /\ cmd' = Idle
  /\ UNCHANGED <<deltas, csv, copy, commands>>

\* Execute returns an error and the temporary files go.
ExecuteFails ==
  /\ cmd' = Idle
  /\ UNCHANGED <<deltas, snapshots, csv, copy, commands>>

\* A statement of the aggregator cannot be prepared, bound, run or reset.
StatementFails == cmd.pc \in {"base", "deltas", "finalize"} /\ ExecuteFails

\* A listing, a read of a file or the upload fails.
BlobStorageFails == cmd.pc \in {"base", "list", "deltas", "put"} /\ ExecuteFails

(***************************************************************************)
(* format_data                                                             *)
(***************************************************************************)

\* Execute, from a delta file to CSV: the records of the shard are written, and one
\* that the writer refuses makes the status of the command an error.
FormatToCsv(i, kind, encoding, shard) ==
  /\ commands < MaxCommands
  /\ commands' = commands + 1
  /\ LET chosen == SelectSeq(deltas[i], LAMBDA r : InShard(r, shard))
         made == [j \in DOMAIN chosen |-> MakeCsvRecord(chosen[j], kind, encoding)]
     IN csv' = IF \A j \in DOMAIN made : made[j].ok
               THEN [of |-> i, encoding |-> encoding, shard |-> shard,
                     rows |-> [j \in DOMAIN made |-> made[j].row]]
               ELSE NoCsv
  /\ UNCHANGED <<deltas, snapshots, cmd, copy>>

\* Execute, from CSV to a delta file, with the record type the CSV file was written
\* with: the reader requires its header.
FormatToDelta(shard) ==
  /\ csv.of # 0
  /\ commands < MaxCommands
  /\ commands' = commands + 1
  /\ LET read == ReadRecords(csv.rows, csv.encoding)
     IN copy' = [shard |-> shard, ok |-> read.ok,
                 records |-> SelectSeq(read.records, LAMBDA r : InShard(r, shard))]
  /\ UNCHANGED <<deltas, snapshots, cmd, csv>>

\* The two commands share nothing but the delta files, which neither changes: a
\* behaviour runs one of them.
OnlySnapshots == csv = NoCsv /\ copy = NoCopy

OnlyFormats == cmd = Idle /\ snapshots = <<>>

Starts == {<<NoFile, i>> : i \in DOMAIN deltas} \cup {<<s, 0>> : s \in DOMAIN snapshots}

Next ==
  \/ \E c \in Contents : PublishDelta(c)
  \/ OnlySnapshots /\ \E from \in Starts, e \in DOMAIN deltas, sh \in Shards :
                        StartSnapshot(from[1], from[2], e, sh)
  \/ WriteBaseSnapshotData
  \/ ListBlobs
  \/ WriteDeltaFilesToSnapshot
  \/ Finalize
  \/ PutBlob
  \/ StatementFails
  \/ BlobStorageFails
  \/ OnlyFormats /\ \E i \in DOMAIN deltas, kind \in {"kv", "udf", "mapping"},
                       enc \in {"plaintext", "base64"}, sh \in Shards : FormatToCsv(i, kind, enc, sh)
  \/ \E sh \in Shards : FormatToDelta(sh)

Spec == Init /\ [][Next]_vars

(***************************************************************************)
(* Properties                                                              *)
(***************************************************************************)

TypeOK ==
  /\ \A i \in DOMAIN deltas : Len(deltas[i]) > 0
  /\ cmd.pc \in {"idle", "base", "list", "deltas", "finalize", "put"}
  /\ cmd.ending \in 0..Len(deltas) /\ cmd.after \in 0..Len(deltas)
  /\ cmd.shard \in Shards
  /\ DOMAIN cmd.table \subseteq Range(Hash)
  /\ Cardinality(cmd.udf) <= 1
  /\ commands \in 0..MaxCommands

Newest(records) == {r \in records : \A q \in records : q.time <= r.time}

\* What a server that applied these records answers for a key: the newest record
\* decides for a string and for the udf, and for each value of a set.
Served(records, type, key) ==
  LET mine == {r \in records : r.type = type /\ r.key = key}
      Holding(v) == {r \in mine : v \in ToSet(r.value)}
  IN IF type \in {"string", "udf"}
     THEN {r.value : r \in {q \in Newest(mine) : ~q.del}}
     ELSE {v \in UNION {ToSet(r.value) : r \in mine} : \A r \in Newest(Holding(v)) : ~r.del}

FileRecords(files) == UNION {ToSet(deltas[i]) : i \in files}

\* The snapshot was made from the first delta file on, or from such a snapshot of
\* its shard, and the listing did not start after the end of that one.
RECURSIVE MadeFromAll(_)
MadeFromAll(s) ==
  IF s.base = NoFile THEN s.after = 1
  ELSE LET b == snapshots[s.base]
       IN b.shard \in {AllShards, s.shard} /\ s.after <= b.ending /\ MadeFromAll(b)

\* A server that starts from the snapshot and loads the delta files after it.
FromSnapshot(s) == ToSet(s.records) \cup FileRecords(s.ending + 1 .. Len(deltas))

\* The last delta file that is in the snapshot, through its bases if not by itself.
RECURSIVE LastFile(_)
LastFile(s) ==
  IF s.base = NoFile THEN s.ending ELSE Max({s.ending, LastFile(snapshots[s.base])})

\* What is compacted of a key into the snapshot.
Compacted(s, key) == {r \in FileRecords(1..LastFile(s)) : r.key = key}

\* A key has one row, and a row one commit time and one mutation type for a whole
\* set; sets of numbers are not merged, and merged values may turn out garbage.  So
\* a string is kept whole unless the key has a newer value of another type, and a
\* set when it is all the key has.
KeptWhole(s, m) ==
  LET compacted == Compacted(s, m.key)
  IN IF m.type \in {"string", "udf"} THEN \A r \in Newest(compacted) : r.type = m.type
     ELSE Cardinality(compacted) <= 1

\* What the newest mutation of the key says, if it is an update of this type.
NewestValues(s, m) ==
  UNION {ToSet(r.value) : r \in {q \in Newest(Compacted(s, m.key)) : q.type = m.type /\ ~q.del}}

\* What the merge may put in a string set that is not in it: garbage, and the values
\* of a deletion, which an update after it takes for values of the set.
Strays(s, m) ==
  IF m.type # "string_set" THEN {}
  ELSE {Garbage} \cup UNION {ToSet(r.value) : r \in {q \in Compacted(s, m.key) : q.type = m.type /\ q.del}}

\* "compacting a base snapshot file together with a set of delta files": a server
\* that starts from a snapshot of its shard, and loads the delta files after it,
\* answers as one that loaded all delta files, for every key that the aggregator
\* keeps whole.  Of any other set it has at least the values of the newest update,
\* and but for the strays of the merge it never answers with a value that was
\* overwritten or deleted: no update is lost between the base, the listing and the
\* batches of Finalize, and no deleted key comes back, however many snapshots were
\* made of snapshots and whatever was published meanwhile.
SnapshotsReplaceTheirDeltas ==
  \A i \in DOMAIN snapshots : MadeFromAll(snapshots[i]) =>
    \A m \in Mutations : InShard(m, snapshots[i].shard) /\ m.type # "mapping" =>
      LET s == snapshots[i]
          answer == Served(FromSnapshot(s), m.type, m.key)
          expected == Served(FileRecords(DOMAIN deltas), m.type, m.key)
      IN /\ answer \subseteq expected \cup Strays(s, m)
         /\ KeptWhole(s, m) => answer = expected
         /\ m.type \in {"string_set", "uint_set"} => expected \cap NewestValues(s, m) \subseteq answer

\* A value that CSV can carry: in plaintext the separator must not be part of a
\* value of a set, and a set must have a value.
Carried(r, encoding) ==
  r.type \in {"string_set", "uint_set"} =>
    /\ r.value # <<>>
    /\ encoding = "plaintext" => \A i \in DOMAIN r.value : Len(r.value[i]) = 1

\* format_data to CSV and back, without an error, keeps exactly the records of the
\* shards chosen on the way there and back, in their order, with their values; in
\* particular a string may hold the separator of sets.
FormattedRecordsAreKept ==
  LET file == deltas[csv.of]
  IN copy.ok /\ (\A j \in DOMAIN file : Carried(file[j], csv.encoding)) =>
       copy.records = SelectSeq(file, LAMBDA r : InShard(r, csv.shard) /\ InShard(r, copy.shard))

=============================================================================
