----------------------------- MODULE CborConverter -----------------------------
(***************************************************************************)
(* The CBOR form of the outputs of partitions and of a response            *)
(* (components/data/converters/cbor_converter.cc, cbor_converter_utils.cc) *)
(* and the way the validator tool reads it back.                           *)
(*                                                                         *)
(* An encoded map is the sequence of its pairs, an array the sequence of   *)
(* its items.  A key of data is [size, lex]: its length and its place in   *)
(* the lexicographic order.                                                *)
(***************************************************************************)
EXTENDS Integers, Sequences, FiniteSets, SequencesExt

CONSTANTS MaxUInt8, MaxUInt16, MaxUInt32   \* the largest numbers of each width

Literal(name, size) == [name |-> name, size |-> size]

kTtlMs == Literal("ttlMs", 5)
kContent == Literal("content", 7)
kCompressionGroupId == Literal("compressionGroupId", 18)
kPartitionId == Literal("id", 2)
kKeyGroupOutputs == Literal("keyGroupOutputs", 15)
kTags == Literal("tags", 4)
kKeyValues == Literal("keyValues", 9)

(* The narrowest width that holds the number; an int32 argument becomes a    *)
(* uint32 first.                                                             *)
OfWidth(max, value) == [max |-> max, value |-> value % (max + 1)]

BuildUIntOffByOne(input) ==
  LET value == input % (MaxUInt32 + 1) IN
  OfWidth(IF value <= MaxUInt8 + 1 THEN MaxUInt8 ELSE IF value <= MaxUInt16 THEN MaxUInt16 ELSE MaxUInt32,
          value)

cbor_build_uint(input) ==
  LET value == input % (MaxUInt32 + 1) IN
  OfWidth(IF value <= MaxUInt8 THEN MaxUInt8 ELSE IF value <= MaxUInt16 THEN MaxUInt16 ELSE MaxUInt32,
          value)

CborSerializeUInt(key, value) == << <<key, cbor_build_uint(value)>> >>

CborSerializeByteString(key, value) == << <<key, value>> >>

EncodeCompressionGroup(group) ==
  (IF group.ttl_ms = {} THEN <<>>
     ELSE CborSerializeUInt(kTtlMs, CHOOSE t \in group.ttl_ms : TRUE))
    \o CborSerializeByteString(kContent, group.content)
    \o CborSerializeUInt(kCompressionGroupId, group.id)

EncodeCompressionGroups(groups) ==
  [i \in DOMAIN groups |-> EncodeCompressionGroup(groups[i])]

(* std::tie(size, str), the order of RFC 7049 section 3.9. *)
KeyLess(left, right) ==
  left.size < right.size \/ (left.size = right.size /\ left.lex < right.lex)

SortKeysByLengthThenLexicographicOrder(keys) ==
  [i \in 1..Cardinality(keys) |->
     CHOOSE k \in keys : Cardinality({j \in keys : KeyLess(j, k)}) = i - 1]

EncodeKeyGroupOutput(output) ==
  LET keys == SortKeysByLengthThenLexicographicOrder(DOMAIN output.key_values)
  IN << <<kTags, output.tags>>,
        <<kKeyValues, [i \in DOMAIN keys |-> <<keys[i], output.key_values[keys[i]]>>]>> >>

(* Groups without values are left out. *)
EncodePartitionOutput(output) ==
  LET groups == SelectSeq(output.key_group_outputs, LAMBDA g : DOMAIN g.key_values # {})
  IN CborSerializeUInt(kPartitionId, output.id)
       \o << <<kKeyGroupOutputs, [i \in DOMAIN groups |-> EncodeKeyGroupOutput(groups[i])]>> >>

PartitionOutputsCborEncode(outputs) ==
  [i \in DOMAIN outputs |-> EncodePartitionOutput(outputs[i])]

V2GetValuesResponseCborEncode(groups) == EncodeCompressionGroups(groups)

-----------------------------------------------------------------------------
(* Reading an encoded map by the name of a field. *)
Field(map, key) == (CHOOSE pair \in ToSet(map) : pair[1] = key)[2]

DecodeKeyGroupOutput(map) ==
  [tags |-> Field(map, kTags),
   key_values |-> [k \in {pair[1] : pair \in ToSet(Field(map, kKeyValues))} |->
                     (CHOOSE pair \in ToSet(Field(map, kKeyValues)) : pair[1] = k)[2]]]

PartitionOutputFromCbor(map) ==
  LET groups == Field(map, kKeyGroupOutputs)
  IN [id |-> Field(map, kPartitionId).value,
      key_group_outputs |-> [i \in DOMAIN groups |-> DecodeKeyGroupOutput(groups[i])]]

GetPartitionOutputsInJson(content) ==
  [i \in DOMAIN content |-> PartitionOutputFromCbor(content[i])]

CborDecodeToGetValuesResponseProto(groups) ==
  [i \in DOMAIN groups |->
     [id |-> Field(groups[i], kCompressionGroupId).value,
      content |-> GetPartitionOutputsInJson(Field(groups[i], kContent))]]

-----------------------------------------------------------------------------
(* Keys in the canonical order, and numbers in their shortest form. *)
CanonicalKeys(map) ==
  \A i, j \in DOMAIN map :
    i < j => \/ map[i][1].size < map[j][1].size
             \/ map[i][1].size = map[j][1].size /\ map[i][1].lex < map[j][1].lex

ShortestUInt(item) ==
  /\ item.value <= item.max
  /\ \A max \in {MaxUInt8, MaxUInt16} : item.value <= max => item.max <= max

CanonicalKeyGroup(map) == CanonicalKeys(map) /\ CanonicalKeys(Field(map, kKeyValues))

CanonicalPartition(map) ==
  /\ CanonicalKeys(map)
  /\ ShortestUInt(Field(map, kPartitionId))
  /\ \A group \in ToSet(Field(map, kKeyGroupOutputs)) : CanonicalKeyGroup(group)

CanonicalGroup(map) ==
  /\ CanonicalKeys(map)
  /\ ShortestUInt(Field(map, kCompressionGroupId))
  /\ \A partition \in ToSet(Field(map, kContent)) : CanonicalPartition(partition)
=============================================================================
