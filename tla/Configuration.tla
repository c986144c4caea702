----------------------------- MODULE Configuration -----------------------------
(***************************************************************************)
(* How a server learns who it is and reads its parameters when it starts:  *)
(* the instance and parameter clients of AWS, GCP and local servers        *)
(* (components/cloud_config), the ParameterFetcher that retries them, and  *)
(* the order of server.cc.                                                 *)
(*                                                                         *)
(* A parameter's value is a string: "1" converts to an integer and to a    *)
(* Boolean, "true" to a Boolean only.  The clients of GCP call back with   *)
(* the result of a request and return a status of their own: a request may *)
(* fail in both, or in the callback alone.                                 *)
(***************************************************************************)
EXTENDS Naturals, Sequences, FiniteSets

CONSTANTS
  Parameters,     \* sequence of [kind, default]: in the order they are read
  StoredValues,   \* values the parameter store may hold
  MaxConfigFaults \* failed requests

ASSUME ConfigAssumption ==
  /\ Parameters \in Seq([kind : {"string", "int32", "bool"}, default : Seq(STRING)])
  /\ Parameters # <<>>
  /\ \A p \in 1..Len(Parameters) : Len(Parameters[p].default) <= 1

VARIABLES
  provider,  \* aws, gcp or local
  labels,    \* of the instance: its environment and its shard number
  store,     \* the parameter store
  ever,      \* history: values each parameter has had
  step,      \* what the server does next
  identity,  \* what the instance client remembers; "" is unknown
  environment_, \* of the Server
  config,    \* the values read so far
  configFaults

configVars == <<provider, labels, store, ever, step, identity, environment_, config,
                configFaults>>

Indices == 1..Len(Parameters)
Missing == "missing"

ConfigInit ==
  /\ provider \in {"aws", "gcp", "local"}
  /\ labels \in [environment : {"env", Missing}, shard : {"1", "text", Missing}]
  /\ provider = "local" => labels.environment # Missing /\ labels.shard # Missing
  /\ store \in [Indices -> {"1", Missing}]
  /\ provider = "local" => \A p \in Indices : store[p] # Missing
  /\ ever = [p \in Indices |-> {store[p]} \ {Missing}]
  /\ step = "environment"
  /\ identity = [id |-> "", environment |-> "", shard |-> ""]
  /\ environment_ = "" /\ config = <<>>
  /\ configFaults = 0

----------------------------------------------------------------------------
(* The instance clients.  An answer is a value, an error or the end of the *)
(* process, with what the client remembers and the requests that failed.   *)

Answer(is, value, remembers, failures) ==
  [is |-> is, value |-> value, remembers |-> remembers, failures |-> failures]

Value(value, remembers) == Answer("value", value, remembers, 0)
Error(remembers, failures) == Answer("error", "", remembers, failures)

\* A token, then the id.
GetInstanceIdInternal == {Value("i", [identity EXCEPT !.id = "i"]), Error(identity, 1)}

AwsGetInstanceId ==
  IF identity.id # "" THEN {Value(identity.id, identity)} ELSE GetInstanceIdInternal

\* The tag itself is not remembered.
AwsGetTag(tag) ==
  LET known == [identity EXCEPT !.id = "i"] IN
    {Error(identity, 1), Error(known, 1),
     IF labels[tag] = Missing THEN Error(known, 0) ELSE Value(labels[tag], known)}

\* A name that the callback has left empty is an error too.
GetResourceName == {Error(identity, 1), Value("name", identity)}

\* A status that is not OK; OK from a request whose callback failed, or whose
\* callback has set the members.  labels().at ends the process when there is no
\* such label.
GetInstanceDetails ==
  UNION {IF name.is = "error" THEN {name}
         ELSE {Error(identity, 1), Answer("value", "", identity, 1),
               IF Missing \in {labels.environment, labels.shard}
               THEN Answer("crash", "", identity, 0)
               ELSE Value("", [id |-> "i", environment |-> labels.environment,
                               shard |-> labels.shard])} : name \in GetResourceName}

GcpGet(field) ==
  IF identity[field] # "" THEN {Value(identity[field], identity)}
  ELSE {IF a.is # "value" THEN a
        ELSE IF a.remembers[field] = "" THEN Error(a.remembers, a.failures)
        ELSE [a EXCEPT !.value = a.remembers[field]] : a \in GetInstanceDetails}

LocalGet(field) == {Value(IF field = "id" THEN "i" ELSE labels[field], identity)}

Get(field) ==
  CASE provider = "aws" -> IF field = "id" THEN AwsGetInstanceId ELSE AwsGetTag(field)
    [] provider = "gcp" -> GcpGet(field)
    [] provider = "local" -> LocalGet(field)

----------------------------------------------------------------------------
(* The parameter clients. *)

OrDefault(p) ==
  IF Parameters[p].default = <<>> THEN Error(identity, 1)
  ELSE Answer("value", Parameters[p].default[1], identity, 1)

\* A parameter that is missing counts as a request that failed.
Unread(p, a) == IF store[p] = Missing THEN [a EXCEPT !.failures = 0] ELSE a

AwsGetParameter(p) ==
  {Unread(p, OrDefault(p))} \cup
  (IF store[p] = Missing THEN {} ELSE {Value(store[p], identity)})

\* With an OK status, a failure in the callback leaves the value empty.
GcpGetParameter(p) ==
  {Unread(p, OrDefault(p)), Unread(p, Answer("value", "", identity, 1))} \cup
  (IF store[p] = Missing THEN {}
   ELSE {Value(IF store[p] = "EMPTY_STRING" THEN "" ELSE store[p], identity)})

\* The default is not looked at.
LocalGetParameter(p) ==
  {IF store[p] = Missing THEN Error(identity, 0) ELSE Value(store[p], identity)}

Converts(kind, value) ==
  CASE kind = "string" -> TRUE
    [] kind = "int32" -> value = "1"
    [] kind = "bool" -> value \in {"1", "true"}

Checked(p, answers) ==
  {IF a.is = "value" /\ ~Converts(Parameters[p].kind, a.value)
   THEN Error(identity, a.failures) ELSE a : a \in answers}

AwsGetTypedParameter(p) == Checked(p, AwsGetParameter(p))

\* Mutant: what does not convert is taken for a number.
GcpGetTypedParameterUnchecked(p) == GcpGetParameter(p)

GcpGetTypedParameter(p) == Checked(p, GcpGetParameter(p))

\* The flags have their types.
LocalGetTypedParameter(p) == LocalGetParameter(p)

GetTypedParameter(p) ==
  CASE provider = "aws" -> AwsGetTypedParameter(p)
    [] provider = "gcp" -> GcpGetTypedParameter(p)
    [] provider = "local" -> LocalGetTypedParameter(p)

----------------------------------------------------------------------------
(* The server. *)

Receive(a) ==
  /\ configFaults + a.failures <= MaxConfigFaults
  /\ configFaults' = configFaults + a.failures
  /\ identity' = a.remembers

NextStep(a, again, then) ==
  step' = CASE a.is = "value" -> then [] a.is = "error" -> again [] a.is = "crash" -> "crashed"

GetEnvironment ==
  /\ step = "environment"
  /\ \E a \in Get("environment") :
       /\ Receive(a)
       /\ NextStep(a, "environment", "shard")
       /\ environment_' = a.value
  /\ UNCHANGED <<provider, labels, store, ever, config>>

\* Neither an error nor a shard number that does not convert is retried.
GetShardNum ==
  /\ step = "shard"
  /\ \E a \in Get("shard") :
       /\ Receive(a)
       /\ NextStep(a, "failed", IF Converts("int32", a.value) THEN "id" ELSE "failed")
  /\ UNCHANGED <<provider, labels, store, ever, environment_, config>>

GetInstanceId ==
  /\ step = "id"
  /\ \E a \in Get("id") : Receive(a) /\ NextStep(a, "id", "parameters")
  /\ UNCHANGED <<provider, labels, store, ever, environment_, config>>

\* ParameterFetcher: every error is retried.
FetchParameter ==
  /\ step = "parameters"
  /\ \E a \in GetTypedParameter(Len(config) + 1) :
       /\ Receive(a)
       /\ config' = IF a.is = "value" THEN Append(config, a.value) ELSE config
       /\ NextStep(a, "parameters", IF Len(config) + 1 = Len(Parameters) THEN "ready" ELSE "parameters")
  /\ UNCHANGED <<provider, labels, store, ever, environment_>>

\* An operator adds or changes a parameter; local ones are flags.
ChangeParameter(p, value) ==
  /\ provider # "local" /\ step \notin {"ready", "failed", "crashed"}
  /\ value \notin ever[p]
  /\ store' = [store EXCEPT ![p] = value]
  /\ ever' = [ever EXCEPT ![p] = @ \cup {value}]
  /\ UNCHANGED <<provider, labels, step, identity, environment_, config, configFaults>>

Startup == GetEnvironment \/ GetShardNum \/ GetInstanceId \/ FetchParameter

ConfigNext ==
  \/ Startup
  \/ \E p \in Indices, value \in StoredValues : ChangeParameter(p, value)

ConfigSpec == ConfigInit /\ [][ConfigNext]_configVars

----------------------------------------------------------------------------

ConfigTypeOK ==
  /\ provider \in {"aws", "gcp", "local"}
  /\ store \in [Indices -> StoredValues \cup {Missing}]
  /\ step \in {"environment", "shard", "id", "parameters", "ready", "failed", "crashed"}
  /\ identity.id \in {"", "i"} /\ identity.environment \in {"", "env"}
  /\ environment_ \in {"", "env"}
  /\ Len(config) <= Len(Parameters)

\* A read that failed or does not convert is never taken for a parameter's value:
\* each value was stored at some time, or is the default, and has the parameter's
\* type.  The exception is a string on GCP, which a failed callback leaves empty
\* (parameter_client_gcp.cc:80).
ConfiguredValuesWereStored ==
  \A p \in DOMAIN config :
    /\ Converts(Parameters[p].kind, config[p])
    /\ \/ config[p] \in ever[p] \/ <<config[p]>> = Parameters[p].default
       \/ provider = "gcp" /\ Parameters[p].kind = "string" /\ config[p] = ""

=============================================================================
