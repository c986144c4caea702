-------------------------- MODULE GetValuesHandlers --------------------------
(***************************************************************************)
(* The request handlers of both versions of the API: validation, one UDF    *)
(* execution per partition, compression groups, content types, and the      *)
(* adapter through which version 1 requests use version 2                    *)
(* (components/data_server/request_handler/*.cc,                             *)
(* components/data_server/server/key_value_service*_impl.cc).                *)
(***************************************************************************)
EXTENDS UdfClient

CONSTANTS
  Requests,      \* version 2 requests [is_pas, partitions], a partition having
                 \* an id, a compression_group_id and arguments
  V1Requests,    \* version 1 requests: namespace -> query arguments, each a set of keys
  Cached,        \* key -> its value [text], [json] or none
  CustomShapes,  \* what other code may return: "keyGroups", "object" or "other" text
  Headers,       \* the content types requests ask for, "none" for the default
  Setups,        \* [use_v2_, add_missing_keys_v1_, propagate_v2_error_status]
  MaxExecutions  \* bound on the executions of functions

Namespaces == {"keys", "interestGroupNames", "renderUrls", "adComponentRenderUrls", "kvInternal"}

ContentTypes == {"kCbor", "kJson", "kProto"}

VARIABLES
  setup,   \* how the server was started
  call     \* the request being served

NoCall(n) == [pc |-> "idle", served |-> n]
handlerVars == <<setup, call>>

-----------------------------------------------------------------------------
(* Version 1, answered from the cache. *)

GetKeys(query_args) == UNION query_args

(* A value that is JSON becomes that JSON, any other a string. *)
JsonOrString(value) == IF "json" \in DOMAIN value THEN value ELSE [string |-> value.text]

ProcessKeys(query_args) ==
  LET found == {k \in GetKeys(query_args) : Cached[k] # {}}
      shown == IF setup.add_missing_keys_v1_ THEN GetKeys(query_args) ELSE found
  IN [k \in shown |-> IF k \in found THEN JsonOrString(CHOOSE v \in Cached[k] : TRUE)
                                     ELSE [status |-> "kNotFound"]]

GetValuesFromCache(v1_request) ==
  [status |-> "OK",
   namespaces |-> [ns \in Namespaces |-> ProcessKeys(v1_request[ns])]]

-----------------------------------------------------------------------------
(* The functions.  The default code calls getValues for the keys of every    *)
(* argument and returns the groups of the values found.  The call may fail   *)
(* (before the hooks have their lookup, or when it has no answer), and the   *)
(* argument has no group then; or single keys fail with their shard, and are *)
(* left out like the keys that are not found.  For PAS it returns the lookup *)
(* of its one argument, which is not a list of groups, and throws if that    *)
(* fails.  Other code may return anything.  missed records, for the          *)
(* properties, the keys whose lookup failed.                                 *)
Found(argument) == {k \in argument.keys : Cached[k] # {}}

(* The outcomes of getValues for an argument. *)
GetValuesResults(argument) ==
  {[ok |-> FALSE, failed |-> argument.keys]} \cup [ok : {TRUE}, failed : SUBSET Found(argument)]

DefaultUdf(input) ==
  LET Lookups == {f \in [input.arguments -> UNION {GetValuesResults(a) : a \in input.arguments}] :
                    \A a \in input.arguments : f[a] \in GetValuesResults(a)}
      Groups(f) == {[tags |-> a.tags, key_values |-> Found(a) \ f[a].failed] :
                      a \in {b \in input.arguments : f[b].ok}}
      Throws(f) == input.is_pas /\ (Cardinality(input.arguments) # 1 \/ \E a \in DOMAIN f : ~f[a].ok)
  IN {[of |-> input.slot, shape |-> IF input.is_pas THEN "object" ELSE "keyGroups", groups |-> Groups(f),
       missed |-> UNION {{a.tags} \X f[a].failed : a \in input.arguments}] :
        f \in {g \in Lookups : ~Throws(g)}}

CustomUdf(input) == [of : {input.slot}, shape : CustomShapes, groups : {{}}, missed : {{}}]

RunUdf(invocation) ==
  /\ \/ \E code \in CodeOf(invocation) :
          \E output \in (IF code = DefaultCode THEN DefaultUdf(invocation.input)
                                               ELSE CustomUdf(invocation.input)) :
            Callback(invocation, [ok |-> TRUE, output |-> output, by |-> code, for |-> invocation.input])
     \/ Callback(invocation, Failed)
  /\ UNCHANGED handlerVars

-----------------------------------------------------------------------------
(* The content types. *)

GetContentType(header, default_content_type) ==
  IF header = "none" THEN default_content_type ELSE header

(* A body decodes when it is written in the content type expected. *)
JsonDecodes(body) == body = "kJson"
ProtoDecodes(body) == body = "kProto"
CborDecodes(body) == body = "kCbor"

DecodeToV2GetValuesRequestProto(content_type, body) ==
  CASE content_type = "kJson" -> JsonDecodes(body)
    [] content_type = "kProto" -> ProtoDecodes(body)
    [] content_type = "kCbor" -> CborDecodes(body)

(* PartitionOutputFromJson and nlohmann::json::parse, by what they accept. *)
PartitionOutputFromJson(output) == output.shape = "keyGroups"
ParsesAsObject(output) == output.shape # "other"

(* A partition's output in CBOR leaves out the groups without values. *)
EncodePartitionOutput(output) ==
  [output EXCEPT !.groups = {group \in @ : group.key_values # {}}]

CborEncodePartitionOutputs(outputs) ==
  {[id |-> o.id, output |-> EncodePartitionOutput(o.output)] :
     o \in {p \in outputs : PartitionOutputFromJson(p.output)}}

JsonEncodePartitionOutputs(outputs) == {o \in outputs : ParsesAsObject(o.output)}

ProtoEncodePartitionOutputs(outputs) == {o \in outputs : ParsesAsObject(o.output)}

(* The content of a group; with none of the outputs it is an error. *)
EncodePartitionOutputs(content_type, outputs) ==
  CASE content_type = "kCbor" -> CborEncodePartitionOutputs(outputs)
    [] content_type = "kJson" -> JsonEncodePartitionOutputs(outputs)
    [] content_type = "kProto" -> ProtoEncodePartitionOutputs(outputs)

(* V2GetValuesResponseCborEncode has no form for a single partition. *)
EncodeV2GetValuesResponse(content_type, response) ==
  IF content_type = "kCbor" /\ "single_partition" \in DOMAIN response
    THEN [status |-> "kInvalidArgument"] ELSE response

-----------------------------------------------------------------------------
(* GetValuesV2Handler. *)

HasDuplicatePartitionAndCompressionGroupIds(request) ==
  \E i, j \in DOMAIN request.partitions :
    /\ i # j
    /\ request.partitions[i].id = request.partitions[j].id
    /\ request.partitions[i].compression_group_id = request.partitions[j].compression_group_id

Validation(request) ==
  CASE request.partitions = <<>> -> "INTERNAL"
    [] request.is_pas /\ Len(request.partitions) > 1 -> "UNIMPLEMENTED"
    [] ~request.is_pas /\ HasDuplicatePartitionAndCompressionGroupIds(request) -> "INVALID_ARGUMENT"
    [] OTHER -> "OK"

(* In production the status of the functions is masked. *)
GetExternalStatusForV2(status) == IF setup.propagate_v2_error_status THEN status ELSE "OK"

(* The input of a slot's execution; served, the number of executions before  *)
(* it, tells the inputs of different requests apart.                         *)
Input(request, s) ==
  [served |-> call.served, is_pas |-> request.is_pas, slot |-> s,
   arguments |-> request.partitions[s].arguments]

Begin(entry, request, content_type, single) ==
  LET status == Validation([request EXCEPT !.is_pas = single]) IN
  /\ call.served + Len(request.partitions) <= MaxExecutions
  /\ call' = [pc |-> IF status = "OK" THEN "run" ELSE "reply", served |-> call.served,
              entry |-> entry, request |-> request, content_type |-> content_type,
              single |-> single, status |-> status]
  /\ task' = [s \in Slots |-> IF status = "OK" /\ s \in DOMAIN request.partitions
                                THEN [pc |-> "start", input |-> Input(request, s)] ELSE NoTask]

Idle == call.pc = "idle"

GetValues(request, header) ==
  /\ Idle
  /\ Begin("GetValues", request, GetContentType(header, "kProto"), request.is_pas)
  /\ UNCHANGED <<setup, updateVars, queue, cell>>

Reject(status) ==
  /\ call' = [pc |-> "reply", served |-> call.served, entry |-> "Http", status |-> status]
  /\ UNCHANGED task

GetValuesBody(request, body, content_type) ==
  /\ Idle
  /\ IF DecodeToV2GetValuesRequestProto(content_type, body)
       THEN Begin("Http", request, content_type, request.is_pas)
       ELSE Reject("INVALID_ARGUMENT")
  /\ UNCHANGED <<setup, updateVars, queue, cell>>

GetValuesHttp(request, body, header) == GetValuesBody(request, body, GetContentType(header, "kJson"))

ObliviousGetValues(request, body, header) == GetValuesBody(request, body, GetContentType(header, "kCbor"))

(* The key of the request is not known, or it does not decrypt. *)
DecryptRequestFails ==
  /\ Idle
  /\ Reject("INTERNAL")
  /\ UNCHANGED <<setup, updateVars, queue, cell>>

(* The outputs of the partitions of one compression group. *)
GroupOutputsById(request, outputs, group) ==
  {[id |-> request.partitions[s].id, output |-> outputs[s]] :
     s \in {t \in DOMAIN outputs : \E r \in DOMAIN request.partitions :
               /\ request.partitions[r].id = request.partitions[t].id
               /\ request.partitions[r].compression_group_id = group}}

BuildCompressionGroup(request, outputs, group) ==
  {[id |-> request.partitions[s].id, output |-> outputs[s]] :
     s \in {t \in DOMAIN outputs : request.partitions[t].compression_group_id = group}}

ProcessMultiplePartitions ==
  LET request == call.request
      content == [group \in {request.partitions[s].compression_group_id : s \in DOMAIN request.partitions} |->
                    EncodePartitionOutputs(call.content_type,
                      BuildCompressionGroup(request, BatchExecuteCode, group))]
      encoded == {group \in DOMAIN content : content[group] # {}}
  IN [status |-> GetExternalStatusForV2(IF encoded = {} THEN "INVALID_ARGUMENT" ELSE "OK"),
      compression_groups |-> [group \in encoded |-> content[group]]]

ProcessOnePartition ==
  LET result == task[1].result IN
  [status |-> GetExternalStatusForV2(IF result.ok THEN "OK" ELSE "UDF error"),
   single_partition |-> IF result.ok THEN [id |-> call.request.partitions[1].id, output |-> result.output]
                                     ELSE [id |-> call.request.partitions[1].id, status |-> "UDF error"]]

V2Response ==
  IF call.status # "OK" THEN [status |-> call.status]
  ELSE LET response == IF call.single THEN ProcessOnePartition ELSE ProcessMultiplePartitions IN
       IF response.status = "OK" /\ call.entry = "Http"
         THEN EncodeV2GetValuesResponse(call.content_type, response) ELSE response

-----------------------------------------------------------------------------
(* GetValuesAdapter. *)

BuildArgument(query_args, namespace_tag) ==
  [tags |-> {"custom", namespace_tag}, keys |-> UNION query_args]

BuildV2Request(v1_request) ==
  [is_pas |-> FALSE,
   partitions |-> <<[id |-> 0, compression_group_id |-> 0,
                     arguments |-> {BuildArgument(v1_request[ns], ns) :
                                      ns \in {n \in Namespaces : v1_request[n] # {}}}]>>]

FindNamespace(tags) ==
  IF Cardinality(tags) = 2 /\ "custom" \in tags THEN tags \ {"custom"} ELSE {}

ProcessKeyValues(groups) ==
  [k \in UNION {group.key_values : group \in groups} |-> JsonOrString(CHOOSE v \in Cached[k] : TRUE)]

ProcessKeyGroupOutput(output, ns) ==
  ProcessKeyValues({group \in output.groups : ns \in FindNamespace(group.tags)})

ConvertToV1Response(v2_response) ==
  LET partition == v2_response.single_partition IN
  CASE "status" \in DOMAIN partition -> [status |-> partition.status]
    [] "status" \notin DOMAIN partition /\ ~PartitionOutputFromJson(partition.output) ->
         [status |-> "INVALID_ARGUMENT"]
    [] OTHER ->
         [status |-> "OK",
          namespaces |-> [ns \in Namespaces |-> ProcessKeyGroupOutput(partition.output, ns)]]

V1Response ==
  IF V2Response.status # "OK" THEN V2Response ELSE ConvertToV1Response(V2Response)

CallV2Handler(v1_request) ==
  /\ Idle
  /\ setup.use_v2_
  /\ Begin("V1", BuildV2Request(v1_request), "kJson", TRUE)
  /\ UNCHANGED <<setup, updateVars, queue, cell>>

(* KeyValueServiceImpl::GetValues without the adapter answers at once. *)
GetValuesV1(v1_request) ==
  /\ Idle
  /\ ~setup.use_v2_
  /\ call' = [pc |-> "reply", served |-> call.served, entry |-> "V1 cache",
              response |-> GetValuesFromCache(v1_request)]
  /\ UNCHANGED <<setup, updateVars, invokeVars>>

-----------------------------------------------------------------------------
(* The futures of all executions are collected. *)
Collect ==
  /\ call.pc = "run"
  /\ \A s \in Slots : task[s].pc \in {"none", "done"}
  /\ call' = [call EXCEPT !.pc = "reply"]
  /\ UNCHANGED <<setup, updateVars, invokeVars>>

FinishCall ==
  /\ call.pc = "reply"
  /\ call' = NoCall(call.served + Cardinality({s \in Slots : task[s] # NoTask}))
  /\ task' = [s \in Slots |-> NoTask]
  /\ UNCHANGED <<setup, updateVars, queue, cell>>

Init ==
  /\ InitClient
  /\ setup \in Setups
  /\ call = NoCall(0)

Next ==
  \/ /\ \/ \E u \in Updaters : SetCodeObject(u) \/ RunLoad(u) \/ UpdateStep(u)
        \/ \E s \in Slots : ExecuteCode(s)
     /\ UNCHANGED handlerVars
  \/ \E invocation \in queue : RunUdf(invocation)
  \/ \E request \in Requests, header \in Headers :
       \/ GetValues(request, header)
       \/ \E body \in ContentTypes : \/ GetValuesHttp(request, body, header)
                                     \/ ObliviousGetValues(request, body, header)
  \/ DecryptRequestFails
  \/ \E v1_request \in V1Requests : CallV2Handler(v1_request) \/ GetValuesV1(v1_request)
  \/ Collect
  \/ FinishCall

vars == <<updateVars, invokeVars, handlerVars>>

(* Threads run and timeouts expire; the sandbox promises nothing. *)
Fairness ==
  /\ \A u \in Updaters : WF_vars(UpdateStep(u) /\ UNCHANGED handlerVars)
  /\ \A s \in Slots : WF_vars(ExecuteCode(s) /\ UNCHANGED handlerVars)
  /\ WF_vars(Collect)
  /\ WF_vars(FinishCall)

Spec == Init /\ [][Next]_vars /\ Fairness

-----------------------------------------------------------------------------
(* The mutex is held by calls that wait for the sandbox and by no other. *)
TypeOK ==
  /\ code_object_metadata_ \in Codes
  /\ \A u \in Updaters : update[u] \in {"loading", "loaded", "failed"} <=> u \in mutex_
  /\ \A v \in Versions : loaded[v] \subseteq {code \in Codes : code.version = v}
  /\ \A invocation \in queue : invocation.state \in Invocations
  /\ call.pc \in {"idle", "run", "reply"}

(* Whatever updates overlap, time out or fail, the code object in use is     *)
(* never replaced by one with a smaller logical commit time (SetCodeObject). *)
CommitTimesGrow ==
  [][code_object_metadata_'.logical_commit_time >= code_object_metadata_.logical_commit_time]_vars

(* Requests are built for a version that the sandbox has loaded, and for the *)
(* code object itself when no other one has the same version (the metadata   *)
(* changes only after the sandbox has reported the load).                    *)
ServingCodeIsLoaded ==
  LET current == code_object_metadata_ IN
  /\ loaded[current.version] # {}
  /\ (\A code \in Codes : code.version = current.version => code = current)
        => loaded[current.version] = {current}

(* The output of an execution was computed for its own input, by code of the *)
(* version it had read: a late answer to an execution that timed out never   *)
(* becomes the answer of another one (ExecuteCode shares the state of each   *)
(* invocation with its callback only).                                       *)
AnswersAreOwn ==
  \A s \in {t \in Slots : task[t].pc = "done" /\ task[t].result.ok} :
    /\ task[s].result.for = task[s].input
    /\ task[s].result.by.version = task[s].code.version
    /\ task[s].result.by.handler_name = task[s].code.handler_name

(* The part of RepliesAreExact about requests with several partitions.       *)
PartitionsAreExact ==
  (call.pc = "reply" /\ "single" \in DOMAIN call /\ call.status = "OK" /\ ~call.single) =>
    LET partitions == call.request.partitions
        groups == V2Response.compression_groups
        Present(s, group) == /\ group \in DOMAIN groups
                             /\ \E entry \in groups[group] :
                                  entry.id = partitions[s].id /\ entry.output.of = s
        Carried(output) == IF call.content_type = "kCbor" THEN output.shape = "keyGroups"
                                                          ELSE output.shape # "other"
    IN \A s \in DOMAIN partitions, group \in {partitions[t].compression_group_id : t \in DOMAIN partitions} :
         Present(s, group) <=> /\ group = partitions[s].compression_group_id
                               /\ task[s].result.ok
                               /\ Carried(task[s].result.output)

(* The part of RepliesAreExact about version 1 requests.                     *)
AdapterAgreesWithCache ==
  (call.pc = "reply" /\ call.entry = "V1") =>
    /\ ~task[1].result.ok => V1Response.status # "OK"
    /\ (task[1].result.ok /\ task[1].result.by = DefaultCode) =>
         \E v1_request \in V1Requests :
           LET Answered(ns) == {k \in UNION v1_request[ns] :
                 Cached[k] # {} /\ <<{"custom", ns}, k>> \notin task[1].result.output.missed}
           IN /\ BuildV2Request(v1_request) = call.request
              /\ V1Response = [status |-> "OK",
                               namespaces |-> [ns \in Namespaces |-> [k \in Answered(ns) |->
                                 GetValuesFromCache(v1_request).namespaces[ns][k]]]]

(* Every request is answered, although the sandbox may stay silent and       *)
(* requests wait for updates that wait for the sandbox.                      *)
RequestsAreAnswered == (call.pc # "idle") ~> (call.pc = "idle")

(* What a client gets is what the executions of its own request gave.  In    *)
(* the answer to a request with several partitions every output is in the    *)
(* compression group of its partition and under its id, and a partition is   *)
(* missing only when its function failed or returned what the content type   *)
(* cannot carry (ProcessMultiplePartitions).  A version 1 request through    *)
(* the adapter fails when its function fails, although version 2 masks that  *)
(* status; with the default code it finds the values it would find in the    *)
(* cache directly (ConvertToV1Response), in the namespaces they were asked   *)
(* for, and misses only those whose lookup failed: the default code passes   *)
(* over a failure (public/udf/constants.h:36), and the status stays OK.      *)
RepliesAreExact == PartitionsAreExact /\ AdapterAgreesWithCache
=============================================================================
