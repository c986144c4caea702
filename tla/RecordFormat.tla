------------------------------ MODULE RecordFormat ------------------------------
(***************************************************************************)
(* The records of data files: native objects (the ...T structs), the flat  *)
(* buffers they are packed into, and DeserializeRecord, which verifies and *)
(* validates a buffer before anything uses it.                             *)
(*                                                                         *)
(* A pointer field of a buffer is the set of what it points to: {} when it *)
(* is null. Strings are sequences of at most one character, and the        *)
(* numbers of a set are written as strings. Times and other numbers, which *)
(* are copied as they are, are left out where no property needs them.      *)
(***************************************************************************)
EXTENDS Sequences

Null == {}

Ref(x) == {x}

Deref(p) == CHOOSE x \in p : TRUE

SetTypes == {"StringSet", "UInt32Set", "UInt64Set"}

ValueTypes == {"StringValue"} \cup SetTypes

RecordTypes == {"KeyValueMutationRecord", "UserDefinedFunctionsConfig", "ShardMappingRecord"}

(***************************************************************************)
(* Native objects                                                          *)
(***************************************************************************)

\* ValueUnion: a type and an object, none for NONE.
ValueUnion(type, value) == [type |-> type, value |-> value]

NoValue == ValueUnion("NONE", Null)

\* ValueUnion::Set.
SetValue(type, elements) == ValueUnion(type, Ref(elements))

KeyValueMutationRecordT(mutation_type, key, value) ==
  [mutation_type |-> mutation_type, key |-> key, value |-> value]

UserDefinedFunctionsConfigT(code_snippet, handler_name, version) ==
  [code_snippet |-> code_snippet, handler_name |-> handler_name, version |-> version]

ShardMappingRecordT(logical_shard, physical_shard) ==
  [logical_shard |-> logical_shard, physical_shard |-> physical_shard]

\* RecordUnion, the content of a DataRecordT.
DataRecordT(type, record) == [type |-> type, record |-> record]

(***************************************************************************)
(* Pack                                                                    *)
(***************************************************************************)

\* CreateString and CreateVector are called for what is not empty: an empty string
\* or an empty vector is a null pointer of the buffer.
CreateNonEmpty(elements) == IF elements = <<>> THEN Null ELSE Ref(elements)

\* The tables of a buffer: what the accessors of their fields return.
StringValue(value) == [value |-> value]

StringSet(value) == [value |-> value]

UInt32Set(value) == [value |-> value]

UInt64Set(value) == [value |-> value]

KeyValueMutationRecord(mutation_type, key, value_type, value) ==
  [mutation_type |-> mutation_type, key |-> key, value_type |-> value_type, value |-> value]

UserDefinedFunctionsConfig(code_snippet, handler_name, version) ==
  [code_snippet |-> code_snippet, handler_name |-> handler_name, version |-> version]

ShardMappingRecord(logical_shard, physical_shard) ==
  [logical_shard |-> logical_shard, physical_shard |-> physical_shard]

DataRecord(record_type, record) == [record_type |-> record_type, record |-> record]

CreateStringValue(o) == StringValue(CreateNonEmpty(o))

CreateStringSet(o) == StringSet(CreateNonEmpty(o))

CreateUInt32Set(o) == UInt32Set(CreateNonEmpty(o))

CreateUInt64Set(o) == UInt64Set(CreateNonEmpty(o))

\* ValueUnion::Pack: by type; nothing for NONE and for a type it does not know.
PackValueUnion(union) ==
  CASE union.type = "StringValue" -> Ref(CreateStringValue(Deref(union.value)))
    [] union.type = "StringSet" -> Ref(CreateStringSet(Deref(union.value)))
    [] union.type = "UInt32Set" -> Ref(CreateUInt32Set(Deref(union.value)))
    [] union.type = "UInt64Set" -> Ref(CreateUInt64Set(Deref(union.value)))
    [] OTHER -> Null

CreateKeyValueMutationRecord(o) ==
  KeyValueMutationRecord(o.mutation_type, CreateNonEmpty(o.key), o.value.type, PackValueUnion(o.value))

CreateUserDefinedFunctionsConfig(o) ==
  UserDefinedFunctionsConfig(CreateNonEmpty(o.code_snippet), CreateNonEmpty(o.handler_name), o.version)

CreateShardMappingRecord(o) == ShardMappingRecord(o.logical_shard, o.physical_shard)

\* RecordUnion::Pack.
PackRecordUnion(type, record) ==
  CASE type = "KeyValueMutationRecord" -> Ref(CreateKeyValueMutationRecord(Deref(record)))
    [] type = "UserDefinedFunctionsConfig" -> Ref(CreateUserDefinedFunctionsConfig(Deref(record)))
    [] type = "ShardMappingRecord" -> Ref(CreateShardMappingRecord(Deref(record)))
    [] OTHER -> Null

CreateDataRecord(o) == DataRecord(o.type, PackRecordUnion(o.type, o.record))

\* Serialize: the root table of a finished buffer lies within it.
Serialize(o) == [whole |-> TRUE, root |-> CreateDataRecord(o)]

(***************************************************************************)
(* Verify and validate                                                     *)
(***************************************************************************)

\* Accessors of a union: the pointer when the type is the one asked for.
ValueAs(type, kv) == IF kv.value_type = type THEN kv.value ELSE Null

RecordAs(type, data) == IF data.record_type = type THEN data.record ELSE Null

\* What a pointer leads to when it does not lie within the buffer.
Wild == <<"wild">>

\* VerifyString, VerifyVector and VerifyVectorOfStrings: a null pointer is fine.
VerifyElements(p) == Wild \notin p

VerifyStringValue(table) == VerifyElements(table.value)

VerifyStringSet(table) == VerifyElements(table.value)

VerifyUInt32Set(table) == VerifyElements(table.value)

VerifyUInt64Set(table) == VerifyElements(table.value)

\* VerifyValue: a null table is fine, and what a type it does not know points to.
VerifyValue(type, p) ==
  \A table \in p :
    /\ type = "StringValue" => VerifyStringValue(table)
    /\ type = "StringSet" => VerifyStringSet(table)
    /\ type = "UInt32Set" => VerifyUInt32Set(table)
    /\ type = "UInt64Set" => VerifyUInt64Set(table)

VerifyKeyValueMutationRecord(kv) == VerifyElements(kv.key) /\ VerifyValue(kv.value_type, kv.value)

VerifyUserDefinedFunctionsConfig(udf) ==
  VerifyElements(udf.code_snippet) /\ VerifyElements(udf.handler_name)

\* VerifyRecord and DataRecord::Verify; the fields of a ShardMappingRecord are numbers.
VerifyRecord(type, p) ==
  \A table \in p :
    /\ type = "KeyValueMutationRecord" => VerifyKeyValueMutationRecord(table)
    /\ type = "UserDefinedFunctionsConfig" => VerifyUserDefinedFunctionsConfig(table)

VerifyDataRecord(data) == VerifyRecord(data.record_type, data.record)

\* DeserializeAndVerifyRecord.
Verify(bytes) == bytes.whole /\ VerifyDataRecord(bytes.root)

\* A value of a known type whose own pointer is null.
Unset(type, kv) ==
  kv.value_type = type /\ (ValueAs(type, kv) = Null \/ Deref(ValueAs(type, kv)).value = Null)

ValidateValue_AnyDelete(kv) ==
  /\ kv.value # Null
  /\ kv.mutation_type = "Delete" \/ \A type \in ValueTypes : ~Unset(type, kv)

\* ValidateValue: OK or not. A Delete of a string needs no string.
ValidateValue(kv) ==
  /\ kv.value # Null
  /\ \/ kv.mutation_type = "Delete" /\ kv.value_type = "StringValue"
     \/ \A type \in ValueTypes : ~Unset(type, kv)

ValidateKeyValueMutationRecord(kv) == kv.key # Null /\ ValidateValue(kv)

ValidateUserDefinedFunctionsConfig(udf) == udf.code_snippet # Null /\ udf.handler_name # Null

\* ValidateData: a type it does not know is accepted.
ValidateData(data) ==
  /\ data.record # Null
  /\ data.record_type = "KeyValueMutationRecord" =>
       ValidateKeyValueMutationRecord(Deref(RecordAs("KeyValueMutationRecord", data)))
  /\ data.record_type = "UserDefinedFunctionsConfig" =>
       ValidateUserDefinedFunctionsConfig(Deref(RecordAs("UserDefinedFunctionsConfig", data)))

\* DeserializeAndVerifyRecord and ValidateData, as DeserializeRecord calls them.
Deserializes(bytes) == Verify(bytes) /\ ValidateData(bytes.root)

(***************************************************************************)
(* UnPack                                                                  *)
(***************************************************************************)

UnPackElements(p) == IF p = Null THEN <<>> ELSE Deref(p)

UnPackStringValue(table) == UnPackElements(table.value)

UnPackStringSet(table) == UnPackElements(table.value)

UnPackUInt32Set(table) == UnPackElements(table.value)

UnPackUInt64Set(table) == UnPackElements(table.value)

\* ValueUnion::UnPack.
UnPackValue(type, table) ==
  CASE type = "StringValue" -> Ref(UnPackStringValue(table))
    [] type = "StringSet" -> Ref(UnPackStringSet(table))
    [] type = "UInt32Set" -> Ref(UnPackUInt32Set(table))
    [] type = "UInt64Set" -> Ref(UnPackUInt64Set(table))
    [] OTHER -> Null

UnPackKeyValueMutationRecord(kv) ==
  KeyValueMutationRecordT(
    kv.mutation_type, UnPackElements(kv.key),
    ValueUnion(kv.value_type,
               IF kv.value = Null THEN Null ELSE UnPackValue(kv.value_type, Deref(kv.value))))

UnPackUserDefinedFunctionsConfig(udf) ==
  UserDefinedFunctionsConfigT(UnPackElements(udf.code_snippet), UnPackElements(udf.handler_name),
                              udf.version)

UnPackShardMappingRecord(map) == ShardMappingRecordT(map.logical_shard, map.physical_shard)

\* RecordUnion::UnPack.
UnPackRecord(type, table) ==
  CASE type = "KeyValueMutationRecord" -> Ref(UnPackKeyValueMutationRecord(table))
    [] type = "UserDefinedFunctionsConfig" -> Ref(UnPackUserDefinedFunctionsConfig(table))
    [] type = "ShardMappingRecord" -> Ref(UnPackShardMappingRecord(table))
    [] OTHER -> Null

UnPackDataRecord(data) ==
  DataRecordT(data.record_type,
              IF data.record = Null THEN Null ELSE UnPackRecord(data.record_type, Deref(data.record)))

\* The copy constructors of ValueUnion and RecordUnion, which read the object of a known
\* type without asking whether there is one.
CopyValueUnion(union) ==
  ValueUnion(union.type, IF union.type \in ValueTypes THEN Ref(Deref(union.value)) ELSE Null)

CopyKeyValueMutationRecord(o) == [o EXCEPT !.value = CopyValueUnion(@)]

CopyRecordUnion(o) ==
  DataRecordT(o.type,
    CASE o.type = "KeyValueMutationRecord" -> Ref(CopyKeyValueMutationRecord(Deref(o.record)))
      [] o.type \in RecordTypes -> Ref(Deref(o.record))
      [] OTHER -> Null)

\* MaybeGetRecordValue: the elements of a value of the type asked for, {} when the
\* record has a value of another type. GetStringView reads a null string as the empty one.
MaybeGetRecordValue(type, kv) ==
  IF ValueAs(type, kv) = Null THEN {}
  ELSE LET p == Deref(ValueAs(type, kv)).value
       IN {IF type = "StringValue" THEN UnPackElements(p) ELSE Deref(p)}

\* The copy constructor and Pack of ValueUnion read the object of a value of a known
\* type without asking whether there is one; the set getters read the vector.
Readable(kv) ==
  kv.value_type \in ValueTypes =>
    /\ kv.value # Null
    /\ kv.value_type \in SetTypes => Deref(kv.value).value # Null
=============================================================================
