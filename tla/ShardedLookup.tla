---------------------------- MODULE ShardedLookup ----------------------------
(***************************************************************************)
(* Reading data in a deployment with shards.  A hook that the UDF calls     *)
(* (components/udf/hooks/{get_values_hook.cc,run_query_hook.h}) calls the   *)
(* ShardedLookup, which splits the keys by shard, asks the local cache and, *)
(* through the clients of the ShardManager, the LookupService of one        *)
(* replica of every other shard, and combines the answers                   *)
(* (components/internal_server/{sharded_lookup,local_lookup,                *)
(* lookup_server_impl,remote_lookup_client_impl,string_padder}.cc).  Set    *)
(* queries are evaluated over the sets found (components/query/).           *)
(***************************************************************************)
EXTENDS ClusterMappings, SequencesExt

CONSTANTS
  Keys,
  ShardOf,          \* key -> the shard that the KeySharder computes
  Data,             \* kind of result -> key -> the elements stored for it
  CurrentShard,     \* current_shard_num_
  KeySets,          \* the sets of keys that are looked up
  Queries,          \* the queries run: a syntax tree and the kind of its sets
  Width             \* elements of a 32-bit query set are taken modulo 2^Width

ASSUME LookupAssumption ==
  /\ ShardOf \in [Keys -> Shards]
  /\ CurrentShard \in Shards

SetKinds == {"kKeysetValues", "kUint32SetValues", "kUint64SetValues"}

VARIABLES
  sharded,      \* whether num_shards is more than 1
  lookup_,      \* whether the hooks have their lookup
  add_chaff_,   \* whether shards without keys are asked too
  call,         \* the call of a hook in progress
  futures       \* shard -> its asynchronous lookup

setupVars == <<sharded, add_chaff_>>
lookupVars == <<setupVars, lookup_, call, futures>>
vars == <<fleetVars, mappingVars, lookupVars>>

NotFound == [code |-> "kNotFound"]
Internal == [code |-> "kInternal"]
Values(kind, values) == [code |-> "kOk", kind |-> kind, values |-> values]

Idle == [pc |-> "idle"]
NoFutures == [s \in Shards |-> [pc |-> "none"]]

Init ==
  /\ InitFleet
  /\ InitMappings
  /\ sharded \in BOOLEAN
  /\ lookup_ = FALSE
  /\ add_chaff_ \in BOOLEAN
  /\ call = Idle
  /\ futures = NoFutures

-----------------------------------------------------------------------------
(* Set queries: the syntax tree that the parser builds and its evaluation    *)
(* with an explicit stack in post order (ast.{h,cc}, sets.{h,cc}, driver.h). *)

ValueNode(key) == [op |-> "value", key |-> key]
NumberSetNode(values) == [op |-> "numbers", values |-> values]
StringViewSetNode(values) == [op |-> "strings", values |-> values]
OpNode(op, left, right) == [op |-> op, left |-> left, right |-> right]

SetOps == {"union", "intersection", "difference"}

Apply(op, left, right) ==
  CASE op = "union" -> left \cup right
    [] op = "intersection" -> left \cap right
    [] op = "difference" -> left \ right

SwappedChildren(node) == IF node.op \in SetOps THEN <<node.right, node.left>> ELSE <<>>

Children(node) == IF node.op \in SetOps THEN <<node.left, node.right>> ELSE <<>>

RECURSIVE PostfixLoop(_, _)
PostfixLoop(stack, result) ==
  IF stack = <<>> THEN Reverse(result)
  ELSE PostfixLoop(Front(stack) \o Children(Last(stack)), Append(result, Last(stack)))

ComputePostfixOrder(root) == PostfixLoop(<<root>>, <<>>)

(* The keys a query needs: those of its value nodes. *)
QueryKeys(root) == {n.key : n \in {m \in ToSet(ComputePostfixOrder(root)) : m.op = "value"}}

(* The literal sets of a query have the element type of the query, or the    *)
(* visitor fails; a number goes into a 32-bit set modulo 2^32.               *)
Literal(node, kind) ==
  CASE node.op = "numbers" /\ kind = "kUint32SetValues" -> {{v % 2^Width : v \in node.values}}
    [] node.op = "numbers" /\ kind = "kUint64SetValues" -> {node.values}
    [] node.op = "strings" /\ kind = "kKeysetValues" -> {node.values}
    [] OTHER -> {}

(* ASTPostOrderEvalVisitor::Visit: an operator takes its right operand from  *)
(* the top of stack_; the first error ends the visit.                        *)
VisitNode(visitor, node, lookup_fn, kind) ==
  LET stack == visitor.stack
      n == Len(stack)
      Push(value) == [visitor EXCEPT !.stack = Append(@, value)]
  IN CASE ~visitor.ok -> visitor
       [] node.op = "value" -> Push(lookup_fn[node.key])
       [] node.op \in SetOps ->
            [visitor EXCEPT !.stack = Append(SubSeq(@, 1, n - 2),
                                             Apply(node.op, @[n - 1], @[n]))]
       [] Literal(node, kind) = {} -> [visitor EXCEPT !.ok = FALSE]
       [] OTHER -> Push(UNION Literal(node, kind))

ConductVisit(nodes, lookup_fn, kind) ==
  FoldLeft(LAMBDA visitor, node : VisitNode(visitor, node, lookup_fn, kind),
           [ok |-> TRUE, stack |-> <<>>], nodes)

(* {the value} or {} when the visitor failed. *)
EvaluateQuery(root, lookup_fn, kind) ==
  LET visitor == ConductVisit(ComputePostfixOrder(root), lookup_fn, kind)
  IN IF visitor.ok THEN {Last(visitor.stack)} ELSE {}

(* What a query means, by its structure. *)
RECURSIVE WellTyped(_, _)
WellTyped(node, kind) ==
  CASE node.op = "value" -> TRUE
    [] node.op \in SetOps -> WellTyped(node.left, kind) /\ WellTyped(node.right, kind)
    [] OTHER -> Literal(node, kind) # {}

RECURSIVE Meaning(_, _, _)
Meaning(node, sets, kind) ==
  CASE node.op = "value" -> sets[node.key]
    [] node.op \in SetOps -> Apply(node.op, Meaning(node.left, sets, kind),
                                           Meaning(node.right, sets, kind))
    [] OTHER -> UNION Literal(node, kind)

-----------------------------------------------------------------------------
(* KeySharder: a hash of the key, or of the part of it that a pattern picks. *)
GetShardNumForKey(k) == ShardOf[k]

(* LocalLookup over a cache that holds the data of some keys. *)
LocalProcessKeys(held, keys) ==
  [k \in keys |-> IF k \in held /\ Data["kValue"][k] # {} THEN Values("kValue", Data["kValue"][k])
                                                         ELSE NotFound]

LocalGetValueSets(held, kind, keys) ==
  [k \in keys |-> IF k \in held /\ Data[kind][k] # {} THEN Values(kind, Data[kind][k])
                                                     ELSE NotFound]

LocalLookup(held, kind, keys) ==
  IF kind = "kValue" THEN LocalProcessKeys(held, keys) ELSE LocalGetValueSets(held, kind, keys)

(* A server loads the keys of its shard. *)
KeysOf(shard) == {k \in Keys : GetShardNumForKey(k) = shard}

(* LookupServiceImpl::GetPayload: a lookup of sets reads the string sets.    *)
GetPayload(held, lookup_sets, keys) ==
  IF lookup_sets THEN LocalGetValueSets(held, "kKeysetValues", keys)
                 ELSE LocalProcessKeys(held, keys)

(* The length of a serialized request, and what Pad makes of it. *)
SerializedSize(keys) == Cardinality(keys)
NoPadding(buckets) == [s \in Shards |-> 0]

ComputePadding(buckets) ==
  LET max_length == Max({SerializedSize(buckets[s]) : s \in Shards})
  IN [s \in Shards |-> max_length - SerializedSize(buckets[s])]
BytesOfSize == 4
Pad(keys, padding) == BytesOfSize + SerializedSize(keys) + padding

BucketKeys(keys) == [s \in Shards |-> {k \in keys : GetShardNumForKey(k) = s}]

(* CollectKeySets: an answer counts when it is a set of the kind asked for.  *)
CollectKeySets(kv_pairs, k, kind) ==
  IF k \in DOMAIN kv_pairs /\ kv_pairs[k].code = "kOk" /\ kv_pairs[k].kind = kind
    THEN kv_pairs[k] ELSE NotFound

Elements(entry) == IF entry.code = "kOk" THEN entry.values ELSE {}

(* The value of a query over the sets found; a key without a set counts as   *)
(* empty.                                                                    *)
QueryValue(kv_pairs, kind, query) ==
  LET value == EvaluateQuery(CHOOSE q \in query : TRUE,
                             [k \in DOMAIN kv_pairs |-> Elements(kv_pairs[k])], kind)
  IN IF value = {} THEN [code |-> "kInvalidArgument"]
                   ELSE [code |-> "kOk", elements |-> UNION value]

NoQuery == {}

-----------------------------------------------------------------------------
(* InitializeUdfHooks: a sharded server has its manager first. *)
FinishInit ==
  /\ sharded => Created
  /\ ~lookup_
  /\ lookup_' = TRUE
  /\ UNCHANGED <<fleetVars, mappingVars, setupVars, call, futures>>

(* The hook answers by itself: no lookup yet, or an argument of the wrong    *)
(* type or a query that does not parse.                                      *)
AnswerDirectly ==
  /\ call = Idle
  /\ call' = [pc |-> "error", code |-> IF lookup_ THEN "kInvalidArgument" ELSE "kInternal"]
  /\ UNCHANGED <<fleetVars, mappingVars, setupVars, lookup_, futures>>

BeginCall(kind, keys, query) ==
  /\ call = Idle
  /\ lookup_
  /\ keys # {} \/ query # NoQuery
  /\ call' = [pc |-> IF sharded THEN "launch" ELSE "answer", shard |-> 0,
              kind |-> kind, query |-> query, keys |-> keys,
              buckets |-> BucketKeys(keys), padding |-> ComputePadding(BucketKeys(keys))]
  /\ UNCHANGED <<fleetVars, mappingVars, setupVars, lookup_, futures>>

GetKeyValues(keys) == BeginCall("kValue", keys, NoQuery)
GetValueSets(kind, keys) == BeginCall(kind, keys, NoQuery)
RunSetQuery(kind, query) == BeginCall(kind, QueryKeys(query), {query})

-----------------------------------------------------------------------------
(* GetLookupFutures starts one asynchronous lookup per shard, in order. *)

Launch(future) ==
  /\ futures' = [futures EXCEPT ![call.shard] = future]
  /\ call' = IF call.shard = NumShards - 1 THEN [call EXCEPT !.pc = "collect", !.shard = 0]
                                           ELSE [call EXCEPT !.shard = @ + 1]
  /\ UNCHANGED <<fleetVars, mappingVars, setupVars, lookup_>>

LaunchLocal ==
  /\ call.pc = "launch"
  /\ call.shard = CurrentShard
  /\ Launch([pc |-> "local"])

(* RemoteLookupClient::GetValues sends the request and waits, without a      *)
(* deadline.                                                                 *)
GetValues(client, keys, padding) ==
  [pc |-> "sent", client |-> client, bytes |-> Pad(keys, padding)]

LaunchRemote ==
  /\ call.pc = "launch"
  /\ call.shard # CurrentShard
  /\ \E client \in Get(call.shard) :
       LET keys == call.buckets[call.shard] IN
       Launch(IF ~add_chaff_ /\ keys = {}
                THEN [pc |-> "done", ok |-> TRUE, kv_pairs |-> <<>>, held |-> {}]
                ELSE GetValues(client, keys, call.padding[call.shard]))

(* No client: the error is returned when the lookups already started, whose  *)
(* futures the return destroys, are done.                                    *)
LaunchFails ==
  /\ call.pc = "launch"
  /\ call.shard # CurrentShard
  /\ Get(call.shard) = {}
  /\ call' = [call EXCEPT !.pc = "fail"]
  /\ UNCHANGED <<fleetVars, mappingVars, setupVars, lookup_, futures>>

(* held records, for the properties, the keys of the server that answered. *)
Complete(s, ok, kv_pairs, held) ==
  /\ futures' = [futures EXCEPT ![s] = [pc |-> "done", ok |-> ok, kv_pairs |-> kv_pairs,
                                        held |-> held]]
  /\ UNCHANGED <<fleetVars, mappingVars, setupVars, lookup_, call>>

GetLocalLookupResponse(s) ==
  /\ futures[s].pc = "local"
  /\ Complete(s, TRUE, LocalLookup(KeysOf(s), call.kind, call.buckets[s]), KeysOf(s))

(* Whichever instance now has the address of the client answers; one that is *)
(* still starting may not have loaded its data.                              *)
SecureLookup(s) ==
  /\ futures[s].pc = "sent"
  /\ \E i \in Instances :
       /\ Running(i)
       /\ InstanceIp[i] = futures[s].client
       /\ \E held \in {KeysOf(InstanceShard[i])} \cup (IF fleet[i] = "starting" THEN {{}} ELSE {}) :
            Complete(s, TRUE, GetPayload(held, call.kind # "kValue", call.buckets[s]), held)

(* The call cannot be made, is cancelled, or a message cannot be decrypted. *)
LookupFails(s) ==
  /\ futures[s].pc = "sent"
  /\ Complete(s, FALSE, <<>>, {})

-----------------------------------------------------------------------------
AllDone == \A s \in Shards : futures[s].pc \in {"none", "done"}

ReturnFailure ==
  /\ call.pc = "fail"
  /\ AllDone
  /\ call' = [pc |-> "error", code |-> "kInternal"]
  /\ UNCHANGED <<fleetVars, mappingVars, setupVars, lookup_, futures>>

DropFailedKeys ==
  LET answered == {k \in call.keys : futures[ShardOf[k]].ok} IN
  [k \in answered |-> LET kv_pairs == futures[ShardOf[k]].kv_pairs IN
                      IF k \in DOMAIN kv_pairs THEN kv_pairs[k] ELSE NotFound]

(* The keys that an answer leaves out are not found. *)
UpdateResponse(kv_pairs, k) == IF k \in DOMAIN kv_pairs THEN kv_pairs[k] ELSE NotFound

(* The keys of a shard that failed are marked one by one. *)
SetRequestFailed == Internal

ProcessShardedKeys ==
  [k \in call.keys |-> LET future == futures[GetShardNumForKey(k)] IN
                       IF future.ok THEN UpdateResponse(future.kv_pairs, k) ELSE SetRequestFailed]

(* GetShardedKeyValueSet: the first answer that is an error is the result.   *)
GetShardedKeyValueSet ==
  [k \in call.keys |-> CollectKeySets(futures[GetShardNumForKey(k)].kv_pairs, k, call.kind)]

LookupValueSets ==
  IF \E s \in Shards : ~futures[s].ok THEN Internal
  ELSE IF call.query = NoQuery THEN GetShardedKeyValueSet
  ELSE QueryValue(GetShardedKeyValueSet, call.kind, call.query)

(* The lookup of a server without shards. *)
LocalProcessQuery ==
  LET kv_pairs == LocalLookup(Keys, call.kind, call.keys) IN
  IF call.query = NoQuery THEN kv_pairs ELSE QueryValue(kv_pairs, call.kind, call.query)

(* The answers are taken in the order of the shards; an early return waits   *)
(* for the rest too, in the destructors of their futures.                    *)
ProcessResponses ==
  /\ call.pc = "collect"
  /\ AllDone
  /\ call' = [call EXCEPT !.pc = "answer"]
  /\ UNCHANGED <<fleetVars, mappingVars, setupVars, lookup_, futures>>

(* The result of the lookup, once it has its answers. *)
LookupResult ==
  CASE ~sharded -> LocalProcessQuery
    [] call.kind = "kValue" -> ProcessShardedKeys
    [] OTHER -> LookupValueSets

(* The hook writes the result for the UDF. *)
SetOutput ==
  /\ call.pc \in {"answer", "error"}
  /\ call' = Idle
  /\ futures' = NoFutures
  /\ UNCHANGED <<fleetVars, mappingVars, setupVars, lookup_>>

-----------------------------------------------------------------------------
Next ==
  \/ \E i \in Autoscaled : sharded /\ ChangeFleet(i) /\ UNCHANGED lookupVars
  \/ sharded /\ MappingStep /\ UNCHANGED lookupVars
  \/ FinishInit
  \/ AnswerDirectly
  \/ \E keys \in KeySets : GetKeyValues(keys)
  \/ \E keys \in KeySets, kind \in SetKinds : GetValueSets(kind, keys)
  \/ \E query \in Queries : RunSetQuery(query.kind, query.tree)
  \/ LaunchLocal
  \/ LaunchRemote
  \/ LaunchFails
  \/ \E s \in Shards : GetLocalLookupResponse(s) \/ SecureLookup(s) \/ LookupFails(s)
  \/ ReturnFailure
  \/ ProcessResponses
  \/ SetOutput

Fairness ==
  /\ WF_vars(MappingStep /\ sharded /\ UNCHANGED lookupVars)
  /\ WF_vars(FinishInit)
  /\ WF_vars(LaunchLocal \/ LaunchRemote \/ LaunchFails)
  /\ \A s \in Shards : WF_vars(GetLocalLookupResponse(s) \/ SecureLookup(s) \/ LookupFails(s))
  /\ WF_vars(ReturnFailure \/ ProcessResponses \/ SetOutput)

Spec == Init /\ [][Next]_vars /\ Fairness

-----------------------------------------------------------------------------
TypeOK ==
  /\ cloud \in {"aws", "gcp"}
  /\ fleet \in [Instances -> {"absent", "starting", "inService", "leaving", "gone"}]
  /\ watch.pc \in {"list", "describe", "insert"}
  /\ Created => cluster_mappings_ \in [Shards -> SUBSET Ips]
  /\ remote_lookup_clients_ \subseteq Ips
  /\ {sharded, lookup_, add_chaff_} \subseteq BOOLEAN
  /\ call.pc \in {"idle", "launch", "collect", "fail", "answer", "error"}
  /\ \A s \in Shards : futures[s].pc \in {"none", "local", "sent", "done"}

(* The integer sets of other shards: LookupServiceImpl::GetPayload reads     *)
(* string sets only (lookup_server_impl.cc:136), so none of them is found.   *)
OutOfReach(k) == ShardOf[k] # CurrentShard /\ call.kind \in {"kUint32SetValues", "kUint64SetValues"}

(* What the server that answered for the key has stored for it; one that has *)
(* all the keys of its shard has what a server without shards has.           *)
StoredAt(k) ==
  IF sharded /\ OutOfReach(k) THEN NotFound
  ELSE LocalLookup(IF sharded THEN futures[ShardOf[k]].held ELSE Keys, call.kind, {k})[k]

(* GetKeyValues and the lookups of sets (ProcessShardedKeys,                 *)
(* GetShardedKeyValueSet): every key asked for has an entry.  The entry of a *)
(* key is what the server that was asked for it has stored, and a value of a *)
(* shard that failed is Internal, never kNotFound: no answer is taken from   *)
(* another shard's server, left out or given to another key.  Sets of a      *)
(* failed shard are no answer at all.                                        *)
AnswersAreExactOrExplained ==
  call.pc = "answer" /\ call.query = NoQuery /\ LookupResult # Internal =>
    LET result == LookupResult IN
    /\ DOMAIN result = call.keys
    /\ \A k \in call.keys :
         IF sharded /\ ~futures[ShardOf[k]].ok
           THEN result[k] = Internal /\ call.kind = "kValue"
           ELSE result[k] = StoredAt(k)

(* With chaff every other shard is sent a request and all requests of a      *)
(* lookup have the same length, whatever the keys (sharded_lookup.cc         *)
(* 357-367, 648-649); shown when the last one has been started.              *)
RequestsLookAlike ==
  \A s, t \in Shards \ {CurrentShard} :
    call.pc = "collect" /\ add_chaff_ =>
      /\ futures[s].pc # "none"
      /\ futures[s].pc = "sent" /\ futures[t].pc = "sent" => futures[s].bytes = futures[t].bytes

(* RunSetQuery: the postfix evaluation (ast.h 187-251) gives what the query  *)
(* means over the sets that the servers asked have stored, and fails exactly *)
(* for a literal of another type; a shard that failed never makes a partial  *)
(* result.                                                                   *)
QueriesAreExactOrFail ==
  call.pc = "answer" /\ call.query # NoQuery =>
    LET query == CHOOSE q \in call.query : TRUE
        sets == [k \in call.keys |-> Elements(StoredAt(k))]
    IN LookupResult =
         IF sharded /\ \E s \in Shards : ~futures[s].ok THEN Internal
         ELSE IF WellTyped(query, call.kind)
           THEN [code |-> "kOk", elements |-> Meaning(query, sets, call.kind)]
         ELSE [code |-> "kInvalidArgument"]

(* docs/sharding/sharding.md:140: "Key lookup and running queries work the   *)
(* same from the point of view of the client, in the sharded and non-sharded *)
(* set up": when every server that was asked has answered, and has the data  *)
(* of its shard, the result is that of a server without shards.              *)
ShardingIsInvisible ==
  call.pc = "answer" /\ sharded
    /\ (\A s \in Shards : futures[s].ok /\ BucketKeys(call.keys)[s] \subseteq futures[s].held) =>
         LookupResult = LocalProcessQuery

(* The fleet changes finitely often here.  If from some time on every zone   *)
(* can be listed, the mappings of a server that has its manager become those *)
(* of the instances in service and stay so (cluster_mappings_manager.cc      *)
(* 53-58).                                                                   *)
MappingsCatchUp ==
  <>[][~MissesZone]_vars /\ <>Created => <>[](Created => cluster_mappings_ = InServiceMappings)
=============================================================================
