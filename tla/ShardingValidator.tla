--------------------------- MODULE ShardingValidator ---------------------------
(***************************************************************************)
(* The sharding correctness validator                                      *)
(* (components/tools/sharding_correctness_validator/validator.cc) against  *)
(* a server: it asks for batches of the keys 0..inclusive_upper_bound, in  *)
(* plain requests or encrypted ones answered in CBOR, compares every value *)
(* with the one its key determines, and limits its rate.                   *)
(*                                                                         *)
(* The server may fail a request, leave keys out, return a wrong value or  *)
(* stay silent.                                                            *)
(***************************************************************************)
EXTENDS CborConverter, FiniteSetsExt

CONSTANTS
  Flags,        \* [inclusive_upper_bound, batch_size, qps, requests, use_coordinator]
  NumDigits,    \* the last characters a key may have
  LexOf,        \* the place of each key in the lexicographic order
  Ids,          \* ids of partitions and groups in requests of other clients
  OtherKeys,    \* the keys found for their two arguments
  MaxTime       \* bound on the clock, in seconds

VARIABLES
  flags,        \* the command line
  pc,           \* where the tool is
  keys,         \* the keys of the request
  answer,       \* what the server returned for it: key -> value, Error when it failed
  reply,        \* the response as it travels
  made,         \* total_requests_made
  clock,        \* seconds since Validate began
  batch_end,
  failures, mismatches,   \* total_failures, total_mismatches
  missing, wrong,         \* history: values the server left out, and got wrong
  other                   \* the response to another client: what was meant, and its CBOR form

vars == <<flags, pc, keys, answer, reply, made, clock, batch_end,
          failures, mismatches, missing, wrong, other>>

Keys == 0..Max({f.inclusive_upper_bound + f.batch_size : f \in Flags})

(* expected_value: value_size copies of the last character of the key. *)
ExpectedValue(key) == key % NumDigits

(* Key foo12 is longer than foo9 and comes before it. *)
CborKey(key) == [size |-> IF key < NumDigits THEN 1 ELSE 2, lex |-> LexOf[key], key |-> key]

NoAnswer == [k \in {} |-> 0]
Error == [k \in {-1} |-> 0]
NoReply == <<>>
NoOther == [id |-> 0, group |-> 0, outputs |-> <<>>, cbor |-> <<>>]

Init ==
  /\ flags \in Flags
  /\ pc = IF flags.use_coordinator THEN "key" ELSE "loop"
  /\ keys = {} /\ answer = NoAnswer /\ reply = NoReply
  /\ made = 0 /\ clock = 0 /\ batch_end = 1
  /\ failures = 0 /\ mismatches = 0 /\ missing = 0 /\ wrong = 0
  /\ other = NoOther

counts == <<failures, mismatches, missing, wrong>>
times == <<clock, batch_end>>

(* Time passes during a request. *)
Tick ==
  /\ pc \in {"sent", "received"}
  /\ clock < MaxTime
  /\ clock' = clock + 1
  /\ UNCHANGED <<flags, pc, keys, answer, reply, made, batch_end, counts, other>>

(* GetPublicKey gives a key, or main returns 1. *)
GetPublicKey ==
  /\ pc = "key"
  /\ pc' \in {"loop", "no key"}
  /\ UNCHANGED <<flags, keys, answer, reply, made, times, counts, other>>

GetInclusive(upper_bound) == 0..upper_bound

(* absl::Uniform over an empty range returns its lower end. *)
Get(upper_bound) == IF upper_bound = 0 THEN {0} ELSE 0..(upper_bound - 1)

GetKeys(start_index, batch_size) == start_index..(start_index + batch_size - 1)

GetRequest ==
  /\ pc = "loop"
  /\ made < flags.requests
  /\ \E index \in Get(flags.inclusive_upper_bound \div flags.batch_size) :
       keys' = GetKeys(index * flags.batch_size, flags.batch_size)
  /\ pc' = "sent"
  /\ UNCHANGED <<flags, answer, reply, made, times, counts, other>>

(* The one key group of the one partition, as the default function returns it. *)
Outputs(found) ==
  <<[id |-> 0,
     key_group_outputs |-> <<[tags |-> <<"keys", "custom">>,
                              key_values |-> [c \in {CborKey(k) : k \in DOMAIN found} |-> found[c.key]]]>>]>>

Encoded(outputs) ==
  V2GetValuesResponseCborEncode(<<[ttl_ms |-> {}, id |-> 0,
                                   content |-> PartitionOutputsCborEncode(outputs)]>>)

PlainReply(outputs) == <<[id |-> 0, content |-> outputs]>>

(* Answers of the server: some of the keys it holds, at most one value wrong. *)
Answers(requested) ==
  LET held == {k \in requested : k <= flags.inclusive_upper_bound}
      right(found) == [k \in found |-> ExpectedValue(k)]
  IN UNION {{right(found)} \cup {[right(found) EXCEPT ![k] = NumDigits] : k \in found} :
              found \in SUBSET held}

Serve ==
  /\ pc = "sent"
  /\ answer' \in Answers(keys)
  /\ reply' = IF flags.use_coordinator THEN Encoded(Outputs(answer')) ELSE PlainReply(Outputs(answer'))
  /\ missing' = missing + Cardinality({k \in keys : k \notin DOMAIN answer' /\ k <= flags.inclusive_upper_bound})
  /\ wrong' = wrong + Cardinality({k \in DOMAIN answer' : answer'[k] # ExpectedValue(k)})
  /\ pc' = "received"
  /\ UNCHANGED <<flags, keys, made, times, failures, mismatches, other>>

(* The request or its answer fails; a plain request has a deadline. *)
RequestFails ==
  /\ pc = "sent"
  /\ answer' = Error
  /\ reply' = NoReply
  /\ missing' = missing + Cardinality(keys)
  /\ pc' = "received"
  /\ UNCHANGED <<flags, keys, made, times, failures, mismatches, wrong, other>>

(* GetValuesWithCoordinators, or GrpcClient::GetValues. *)
Response == IF flags.use_coordinator THEN CborDecodeToGetValuesResponseProto(reply) ELSE reply

(* The value of the key, none on an error. *)
GetValueFromResponse(response, key) ==
  IF response = <<>> THEN {}
  ELSE LET outputs == response[1].content[1].key_group_outputs
       IN IF Len(outputs) # 1 THEN {}
          ELSE {outputs[1].key_values[c] : c \in {d \in DOMAIN outputs[1].key_values : d.key = key}}

ValidateResponse(response) ==
  /\ failures' = failures + Cardinality({k \in keys : GetValueFromResponse(response, k) = {}})
  /\ mismatches' = mismatches +
       Cardinality({k \in keys : \E v \in GetValueFromResponse(response, k) : v # ExpectedValue(k)})

(* After every qps requests: until the end of the current second, if it has  *)
(* not passed.                                                               *)
LimitRate ==
  IF (made + 1) % flags.qps = 0
    THEN /\ clock' = IF batch_end > clock THEN batch_end ELSE clock
         /\ batch_end' = batch_end + 1
    ELSE UNCHANGED times

Validate ==
  /\ pc = "received"
  /\ \E response \in {Response} : ValidateResponse(response)
  /\ LimitRate
  /\ made' = made + 1
  /\ keys' = {} /\ answer' = NoAnswer /\ reply' = NoReply
  /\ pc' = "loop"
  /\ UNCHANGED <<flags, missing, wrong, other>>

Exit ==
  /\ pc = "loop"
  /\ made = flags.requests
  /\ pc' = IF failures > 0 \/ mismatches > 0 THEN "failed" ELSE "succeeded"
  /\ UNCHANGED <<flags, keys, answer, reply, made, times, counts, other>>

(* The server answers another client, whose request has these ids and asks   *)
(* for these keys in two groups; behaviours with the tool leave this out.    *)
EncodeOther(id, group, found) ==
  /\ pc = "key"
  /\ LET output(argument) == [tags |-> <<>>, key_values |-> [c \in {CborKey(k) : k \in argument} |-> c.key]]
         outputs == <<[id |-> id, key_group_outputs |-> <<output(found[1]), output(found[2])>>]>>
     IN other' = [id |-> id, group |-> group, outputs |-> outputs,
                  cbor |-> V2GetValuesResponseCborEncode(
                             <<[ttl_ms |-> {}, id |-> group,
                                content |-> PartitionOutputsCborEncode(outputs)]>>)]
  /\ pc' = "other"
  /\ UNCHANGED <<flags, keys, answer, reply, made, times, counts>>

Next ==
  \/ Tick
  \/ GetPublicKey
  \/ GetRequest
  \/ Serve
  \/ RequestFails
  \/ Validate
  \/ Exit
  \/ \E id \in Ids, group \in Ids, found \in OtherKeys : EncodeOther(id, group, found)

Spec == Init /\ [][Next]_vars

-----------------------------------------------------------------------------
TypeOK ==
  /\ flags \in Flags
  /\ pc \in {"key", "no key", "loop", "sent", "received", "failed", "succeeded", "other"}
  /\ keys \subseteq Keys
  /\ made \in 0..flags.requests
  /\ clock \in 0..(MaxTime + flags.requests)
  /\ failures \in Nat /\ mismatches \in Nat

(* Every value that was left out or wrong is counted, and nothing else is,   *)
(* whether the answer came as a proto or through CBOR and encryption: a      *)
(* correct server is never reported and a wrong one always (ValidateResponse,*)
(* GetValueFromResponse); the key space must hold one batch, because Get of  *)
(* an empty range is its lower end.                                          *)
ValidationIsExact ==
  (pc \notin {"sent", "received"} /\ flags.inclusive_upper_bound >= flags.batch_size) =>
    failures = missing /\ mismatches = wrong

(* "a requirement by Chrome to follow": in every response all maps have      *)
(* their keys by length and then lexicographically, and all numbers have     *)
(* their shortest form (cbor_converter.cc:131).  And what is decoded is what *)
(* was encoded, groups without values excepted, when the ids are not         *)
(* negative (they are written as uint32).                                    *)
EncodingIsCanonicalAndExact ==
  /\ flags.use_coordinator => \A i \in DOMAIN reply : CanonicalGroup(reply[i])
  /\ \A i \in DOMAIN other.cbor : CanonicalGroup(other.cbor[i])
  /\ (pc = "other" /\ other.id >= 0 /\ other.group >= 0) =>
       LET group == CborDecodeToGetValuesResponseProto(other.cbor)[1] IN
       /\ group.id = other.group
       /\ group.content[1].id = other.id
       /\ group.content[1].key_group_outputs =
            SelectSeq(other.outputs[1].key_group_outputs, LAMBDA g : DOMAIN g.key_values # {})

=============================================================================
