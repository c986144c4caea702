--------------------------- MODULE PlatformProofs ---------------------------
(* Proofs about what the server takes from its platform: PubSubNotifier,      *)
(* LocalNotifier and Configuration, for all sets of messages, shards, files   *)
(* and parameters and any number of threads and faults, and the blobs read    *)
(* through SeekingInputStreambuf, which implements BlobStream for every size  *)
(* of the blob, every buffer size and all offsets of seeks.                   *)
EXTENDS Configuration, PubSubNotifier, LocalNotifier, SeekingInputStreambuf, TLAPS

(* The commit time that a realtime update leaves behind. *)
LEMMA MaxOfTwo ==
  ASSUME NEW a \in Nat, NEW b \in Nat
  PROVE  Max({a, b}) \in Nat /\ a <= Max({a, b}) /\ b <= Max({a, b})
<1>1. \E x \in {a, b} : \A y \in {a, b} : x >= y
  <2>1. CASE a >= b
    BY <2>1
  <2>2. CASE ~(a >= b)
    BY <2>2
  <2> QED BY <2>1, <2>2
<1>2. Max({a, b}) \in {a, b} /\ \A y \in {a, b} : Max({a, b}) >= y
  BY <1>1 DEF Max
<1> QED BY <1>2

(***************************************************************************)
(* What the library may acknowledge next is already applied: the invariant *)
(* speaks of the messages after their callback as well as of those that    *)
(* are acknowledged, for Ack moves one to the other without a look at it.  *)
(* A callback that ended the process is the exception; nothing follows it. *)
(***************************************************************************)
Settled(m) == m \in undecodable \/ m \in rejected \/ m <= applied_time

DeliveryInv ==
  /\ acked \subseteq PubSubMessages
  /\ handling \in [received : SUBSET PubSubMessages, called : SUBSET PubSubMessages]
  /\ backlog \subseteq PubSubMessages
  /\ applied_time \in Nat
  /\ \A m \in acked : Settled(m)
  /\ ~crashed => \A m \in handling.called : Settled(m)

(* Every step of the delivery keeps its invariant. *)
LEMMA DeliveryStep ==
  ASSUME DeliveryInv, [PubSubNext]_pubSubVars
  PROVE  DeliveryInv'
<1> USE DEF DeliveryInv, Settled
<1>1. ASSUME NEW m \in PubSubMessages, Deliver(m)
      PROVE  DeliveryInv'
  BY <1>1 DEF Deliver, setup
<1>2. ASSUME NEW m \in PubSubMessages, OnMessageReceived(m), ~crashed
      PROVE  DeliveryInv'
  <2>1. /\ m \in handling.received /\ acked' = acked /\ backlog' = backlog
        /\ undecodable' = undecodable
        /\ handling' = [received |-> handling.received \ {m}, called |-> handling.called \cup {m}]
    BY <1>2 DEF OnMessageReceived, setup
  <2>2. m \in Nat
    BY PubSubAssumption
  <2>3. CASE m \in undecodable
    BY <1>2, <2>1, <2>3 DEF OnMessageReceived
  <2>4. CASE /\ applied_time' = Max({applied_time, m})
             /\ UNCHANGED <<rejected, crashed, pubSubFaults>>
    <3>1. applied_time' \in Nat /\ applied_time <= applied_time' /\ m <= applied_time'
      BY <2>2, <2>4, MaxOfTwo
    <3>2. \A n \in PubSubMessages : n <= applied_time => n <= applied_time'
      BY <3>1, PubSubAssumption
    <3> QED BY <1>2, <2>1, <2>4, <3>1, <3>2
  <2>5. CASE RequestFails /\ rejected' = rejected \cup {m} /\ UNCHANGED <<applied_time, crashed>>
    BY <1>2, <2>1, <2>5
  <2>6. CASE /\ watcher = "returned" /\ crashed' = TRUE
             /\ UNCHANGED <<rejected, applied_time, pubSubFaults>>
    BY <1>2, <2>1, <2>6
  <2> QED BY Zenon, <1>2, <2>3, <2>4, <2>5, <2>6 DEF OnMessageReceived, Decoded
<1>3. ASSUME NEW m \in PubSubMessages, Ack(m), ~crashed
      PROVE  DeliveryInv'
  BY <1>3 DEF Ack, setup
<1>4. ASSUME NEW m \in PubSubMessages, PublishMessage(m) \/ Redeliver(m)
      PROVE  DeliveryInv'
  BY <1>4 DEF PublishMessage, Redeliver, setup
<1>5. CASE CreateNotifier \/ StartNotifier \/ Subscribe \/ WatchReturns \/ SessionFinishes
           \/ StopNotifier \/ JoinWatcher \/ DestroyNotifier \/ UNCHANGED pubSubVars
  <2>1. UNCHANGED <<backlog, handling, acked, rejected, applied_time, crashed, undecodable>>
    BY <1>5 DEF CreateNotifier, StartNotifier, Subscribe, WatchReturns, SessionFinishes, StopNotifier,
                JoinWatcher, DestroyNotifier, pubSubVars, delivery, setup
  <2> QED BY SMTT(30), <2>1
<1> QED BY <1>1, <1>2, <1>3, <1>4, <1>5 DEF PubSubNext, Library, Shutdown

(* No update is lost on its way through the GCP notifier: a message that is  *)
(* acknowledged, and so never comes again, is in the cache, unless it could  *)
(* not be decoded or the callback refused it (realtime_notifier_gcp.cc:142). *)
THEOREM AcknowledgedUpdatesAreAlwaysApplied ==
  PubSubSpec => []AcknowledgedUpdatesAreApplied
<1>1. PubSubInit => DeliveryInv
  BY DEF PubSubInit, DeliveryInv, Settled
<1>2. DeliveryInv /\ [PubSubNext]_pubSubVars => DeliveryInv'
  BY DeliveryStep
<1>3. DeliveryInv => AcknowledgedUpdatesAreApplied
  BY DEF DeliveryInv, Settled, AcknowledgedUpdatesAreApplied
<1> QED BY <1>1, <1>2, <1>3, PTL DEF PubSubSpec

-----------------------------------------------------------------------------
(* The watcher subscribes only between StartNotifier and the join, so that   *)
(* the second Stop, in the destructor, finds every session there will be.    *)
SessionInv ==
  /\ pool \in {"none", "created"} => watcher = "none" /\ session_ = "invalid"
  /\ pool = "stopped" => watcher = "returned"
  /\ pool = "destroyed" => watcher \in {"none", "returned"} /\ session_ # "active"

(* A Stop that finds no session yet does no harm: when the notifier is       *)
(* destroyed no session is active (realtime_notifier_gcp.cc:69, the          *)
(* destructor calls Stop again).                                             *)
THEOREM SessionsNeverOutliveTheirNotifier == PubSubSpec => []NoSessionOutlivesItsNotifier
<1>1. PubSubInit => SessionInv
  BY DEF PubSubInit, SessionInv
<1>2. SessionInv /\ [PubSubNext]_pubSubVars => SessionInv'
  <2> SUFFICES ASSUME SessionInv, [PubSubNext]_pubSubVars PROVE SessionInv'
    OBVIOUS
  <2> USE DEF SessionInv
  <2>1. CASE CreateNotifier
    BY <2>1 DEF CreateNotifier
  <2>2. CASE StartNotifier
    BY <2>2 DEF StartNotifier
  <2>3. CASE Subscribe
    BY <2>3 DEF Subscribe
  <2>4. CASE WatchReturns
    BY <2>4 DEF WatchReturns
  <2>5. CASE SessionFinishes
    BY <2>5 DEF SessionFinishes
  <2>6. CASE StopNotifier
    BY <2>6 DEF StopNotifier
  <2>7. CASE JoinWatcher
    BY <2>7 DEF JoinWatcher
  <2>8. CASE DestroyNotifier
    BY <2>8 DEF DestroyNotifier, CancelSession
  <2>9. CASE UNCHANGED <<pool, watcher, session_>>
    BY <2>9
  <2>10. ASSUME NEW m \in PubSubMessages,
                PublishMessage(m) \/ Redeliver(m) \/ Deliver(m) \/ OnMessageReceived(m) \/ Ack(m)
         PROVE  UNCHANGED <<pool, watcher, session_>>
    BY <2>10 DEF PublishMessage, Redeliver, Deliver, OnMessageReceived, Ack
  <2> QED BY <2>1, <2>2, <2>3, <2>4, <2>5, <2>6, <2>7, <2>8, <2>9, <2>10
          DEF PubSubNext, Library, Shutdown, pubSubVars
<1>3. SessionInv => NoSessionOutlivesItsNotifier
  BY DEF SessionInv, NoSessionOutlivesItsNotifier
<1> QED BY <1>1, <1>2, <1>3, PTL DEF PubSubSpec

-----------------------------------------------------------------------------
(* Names that were there at the start stay known, and the counts are         *)
(* numbers: FoundNewFiles counts exactly the names it adds.                   *)
LocalInv ==
  /\ initial \subseteq files_in_directory_
  /\ DOMAIN reported = Files
  /\ NewFilesAreReportedOnce

(* LocalChangeNotifier returns the name of a file once, and never that of a  *)
(* file of the first listing, however files come and go, listings fail and   *)
(* calls time out (change_notifier_local.cc:86).                             *)
THEOREM NewFilesAreAlwaysReportedOnce == LocalSpec => []NewFilesAreReportedOnce
<1>1. LocalInit => LocalInv
  BY DEF LocalInit, LocalInv, NewFilesAreReportedOnce
<1>2. LocalInv /\ [LocalNext]_localVars => LocalInv'
  <2> SUFFICES ASSUME LocalInv, [LocalNext]_localVars PROVE LocalInv'
    OBVIOUS
  <2> USE DEF LocalInv, NewFilesAreReportedOnce
  <2>1. CASE FoundNewFiles
    BY <2>1 DEF FoundNewFiles, FindNewFiles, Return
  <2>2. CASE UNCHANGED <<files_in_directory_, initial, reported>>
    BY <2>2
  <2>3. CASE GetLocalNotifications
    BY <2>1, <2>2, <2>3 DEF GetLocalNotifications, NoNewFiles, Return
  <2>4. CASE CallGetNotifications \/ StopWatching \/ UNCHANGED localVars
    BY <2>2, <2>4 DEF CallGetNotifications, StopWatching, localVars
  <2>5. ASSUME NEW f \in Files, AddFile(f) \/ RemoveFile(f)
        PROVE  LocalInv'
    BY <2>2, <2>5 DEF AddFile, RemoveFile
  <2> QED BY <2>3, <2>4, <2>5 DEF LocalNext
<1>3. LocalInv => NewFilesAreReportedOnce
  BY DEF LocalInv
<1> QED BY <1>1, <1>2, <1>3, PTL DEF LocalSpec

-----------------------------------------------------------------------------
(* The values that a parameter client can return. *)
ConfigValues == StoredValues \cup {"", "1", Missing} \cup {Parameters[p].default[1] : p \in Indices}

(* Parameters are read in order and never past the last; the store holds     *)
(* only what the history has seen; a local server's flags have their types.  *)
ConfigInv ==
  /\ config \in Seq(ConfigValues)
  /\ Len(config) <= Len(Parameters)
  /\ step \in {"environment", "shard", "id"} => config = <<>>
  /\ step = "parameters" => Len(config) < Len(Parameters)
  /\ store \in [Indices -> ConfigValues]
  /\ DOMAIN ever = Indices
  /\ \A p \in Indices : store[p] = Missing \/ store[p] \in ever[p]
  /\ provider \in {"aws", "gcp", "local"}
  /\ provider = "local" => \A p \in Indices : store[p] = "1"
  /\ ConfiguredValuesWereStored

(* What may be taken for the value of parameter p. *)
Stored(p, value) ==
  /\ value \in ConfigValues
  /\ Converts(Parameters[p].kind, value)
  /\ \/ value \in ever[p] \/ <<value>> = Parameters[p].default
     \/ provider = "gcp" /\ Parameters[p].kind = "string" /\ value = ""

(* The parameters have their types. *)
LEMMA ParameterTypes ==
  ASSUME NEW p \in Indices
  PROVE  Parameters[p].kind \in {"string", "int32", "bool"} /\ Parameters[p].default \in Seq(STRING)
<1> DEFINE Parameter == [kind : {"string", "int32", "bool"}, default : Seq(STRING)]
<1>1. Parameters \in Seq(Parameter)
  BY ConfigAssumption
<1>2. Parameters[p] \in Parameter
  <2> HIDE DEF Parameter
  <2> QED BY <1>1 DEF Indices
<1> QED BY <1>2

(* A default that is not empty is one value. *)
LEMMA DefaultIsOneValue ==
  ASSUME NEW p \in Indices, Parameters[p].default # <<>>
  PROVE  /\ <<Parameters[p].default[1]>> = Parameters[p].default
         /\ Parameters[p].default[1] \in ConfigValues
<1> DEFINE d == Parameters[p].default
<1>1. d \in Seq(STRING) /\ Len(d) <= 1 /\ d # <<>>
  BY ConfigAssumption, ParameterTypes DEF Indices
<1>2. <<d[1]>> = d
  <2> HIDE DEF d
  <2>1. Len(d) \in Nat /\ Len(d) # 0
    BY <1>1
  <2>2. Len(d) = 1
    BY <1>1, <2>1
  <2> QED BY <1>1, <2>2
<1>3. d[1] \in ConfigValues
  BY Zenon DEF ConfigValues
<1> QED BY <1>2, <1>3

(* Answers that do not have the type of their parameter become errors. *)
LEMMA CheckedAnswers ==
  ASSUME NEW p, NEW answers, NEW a \in Checked(p, answers), a.is = "value"
  PROVE  a \in answers /\ Converts(Parameters[p].kind, a.value)
<1>1. PICK b \in answers :
        a = IF b.is = "value" /\ ~Converts(Parameters[p].kind, b.value)
              THEN Error(identity, b.failures) ELSE b
  BY DEF Checked
<1>2. Error(identity, b.failures).is # "value"
  BY DEF Error, Answer
<1> QED BY <1>1, <1>2

(* Whatever the platform, an answer that is a value is one that was stored,  *)
(* or the default, and has the type of its parameter.                        *)
LEMMA AnswersWereStored ==
  ASSUME ConfigInv, NEW p \in Indices, NEW a \in GetTypedParameter(p), a.is = "value"
  PROVE  Stored(p, a.value)
<1>1. Parameters[p].kind \in {"string", "int32", "bool"}
  BY ParameterTypes
<1>2. store[p] \in ConfigValues
  BY DEF ConfigInv
<1>3. ASSUME NEW x, x \in {Unread(p, OrDefault(p))}, x.is = "value"
      PROVE  x.value \in ConfigValues /\ <<x.value>> = Parameters[p].default
  <2>1. x.is = OrDefault(p).is /\ x.value = OrDefault(p).value
    BY Zenon, <1>3 DEF Unread, OrDefault, Error, Answer
  <2>2. Parameters[p].default # <<>> /\ x.value = Parameters[p].default[1]
    BY Zenon, <1>3, <2>1 DEF OrDefault, Error, Answer
  <2> QED BY <2>2, DefaultIsOneValue
<1>4. CASE provider = "aws"
  <2>1. a \in Checked(p, AwsGetParameter(p))
    BY <1>4 DEF GetTypedParameter, AwsGetTypedParameter
  <2>2. a \in AwsGetParameter(p) /\ Converts(Parameters[p].kind, a.value)
    BY <2>1, CheckedAnswers
  <2>3. CASE a \in {Unread(p, OrDefault(p))}
    BY Zenon, <1>3, <2>2, <2>3 DEF Stored
  <2>4. CASE store[p] # Missing /\ a = Value(store[p], identity)
    BY Zenon, <1>2, <2>2, <2>4 DEF Stored, Value, Answer, ConfigInv
  <2> QED BY <2>2, <2>3, <2>4 DEF AwsGetParameter
<1>5. CASE provider = "gcp"
  <2>1. a \in Checked(p, GcpGetParameter(p))
    BY <1>5 DEF GetTypedParameter, GcpGetTypedParameter
  <2>2. a \in GcpGetParameter(p) /\ Converts(Parameters[p].kind, a.value)
    BY <2>1, CheckedAnswers
  <2>3. CASE a \in {Unread(p, OrDefault(p))}
    BY Zenon, <1>3, <2>2, <2>3 DEF Stored
  <2>4. CASE a.value = ""
    BY Zenon, <1>1, <1>5, <2>2, <2>4 DEF Stored, Converts, ConfigValues
  <2>5. CASE store[p] # Missing /\ a = Value(store[p], identity)
    BY Zenon, <1>2, <2>2, <2>5 DEF Stored, Value, Answer, ConfigInv
  <2>6. Unread(p, Answer("value", "", identity, 1)).value = ""
    BY DEF Unread, Answer
  <2>7. Value("", identity).value = ""
    BY DEF Value, Answer
  <2> QED BY Zenon, <2>2, <2>3, <2>4, <2>5, <2>6, <2>7 DEF GcpGetParameter
<1>6. CASE provider = "local"
  <2>1. a \in LocalGetParameter(p)
    BY <1>6 DEF GetTypedParameter, LocalGetTypedParameter
  <2>2. store[p] = "1" /\ store[p] # Missing
    BY <1>6 DEF ConfigInv, Missing
  <2>3. a.value = "1"
    BY <2>1, <2>2 DEF LocalGetParameter, Value, Answer
  <2>4. store[p] \in ever[p]
    BY <2>2 DEF ConfigInv
  <2>5. Converts(Parameters[p].kind, "1")
    BY Zenon, <1>1 DEF Converts
  <2> QED BY <1>2, <2>2, <2>3, <2>4, <2>5 DEF Stored
<1> QED BY <1>4, <1>5, <1>6 DEF ConfigInv

(* A parameter client answers with a value or with an error. *)
LEMMA AnswerKinds ==
  ASSUME ConfigInv, NEW p, NEW a \in GetTypedParameter(p)
  PROVE  a.is \in {"value", "error"}
<1>1. OrDefault(p).is \in {"value", "error"}
  BY DEF OrDefault, Error, Answer
<1>2. Unread(p, OrDefault(p)).is \in {"value", "error"}
  BY <1>1 DEF Unread, OrDefault, Error, Answer
<1>3. \A b \in AwsGetParameter(p) : b.is \in {"value", "error"}
  BY <1>2 DEF AwsGetParameter, Value, Answer
<1>4. Unread(p, Answer("value", "", identity, 1)).is = "value"
  BY DEF Unread, Answer
<1>5. \A v, r, n : Value(v, r).is = "value" /\ Error(r, n).is = "error"
  BY DEF Value, Error, Answer
<1>6. \A b \in GcpGetParameter(p) : b.is \in {"value", "error"}
  BY Zenon, <1>2, <1>4, <1>5 DEF GcpGetParameter
<1>7. \A b \in LocalGetParameter(p) : b.is \in {"value", "error"}
  BY <1>5 DEF LocalGetParameter
<1>8. ASSUME NEW answers, \A b \in answers : b.is \in {"value", "error"}, a \in Checked(p, answers)
      PROVE  a.is \in {"value", "error"}
  BY <1>8, <1>5 DEF Checked
<1> QED BY <1>3, <1>6, <1>7, <1>8 DEF GetTypedParameter, AwsGetTypedParameter,
        GcpGetTypedParameter, LocalGetTypedParameter, ConfigInv

(* FetchParameter appends a value only when the client gave one. *)
LEMMA FetchStep ==
  ASSUME ConfigInv, FetchParameter
  PROVE  ConfigInv'
<1> DEFINE n == Len(config) + 1
<1>1. /\ step = "parameters" /\ n \in Indices
      /\ UNCHANGED <<provider, store, ever>>
  BY ConfigAssumption DEF FetchParameter, ConfigInv, Indices
<1>2. PICK a \in GetTypedParameter(n) :
        /\ config' = IF a.is = "value" THEN Append(config, a.value) ELSE config
        /\ NextStep(a, "parameters", IF n = Len(Parameters) THEN "ready" ELSE "parameters")
  BY DEF FetchParameter
<1>3. CASE a.is = "value"
  <2>1. Stored(n, a.value)
    BY <1>1, <1>3, AnswersWereStored
  <2>2. config' = Append(config, a.value)
    BY <1>2, <1>3
  <2>3. config' \in Seq(ConfigValues) /\ Len(config') = n
    <3>1. config \in Seq(ConfigValues) /\ a.value \in ConfigValues
      BY Zenon, <2>1 DEF Stored, ConfigInv
    <3> QED BY <2>2, <3>1
  <2>4. step' = IF n = Len(Parameters) THEN "ready" ELSE "parameters"
    BY <1>2, <1>3 DEF NextStep
  <2>5. Len(config') <= Len(Parameters) /\ (step' = "parameters" => Len(config') < Len(Parameters))
    BY <1>1, <2>3, <2>4, ConfigAssumption DEF Indices
  <2>6. ConfiguredValuesWereStored'
    <3> SUFFICES ASSUME NEW p \in DOMAIN config'
                 PROVE  /\ Converts(Parameters[p].kind, config'[p])
                        /\ \/ config'[p] \in ever[p] \/ <<config'[p]>> = Parameters[p].default
                           \/ provider = "gcp" /\ Parameters[p].kind = "string" /\ config'[p] = ""
      BY Zenon, <1>1 DEF ConfiguredValuesWereStored, Converts
    <3>1. CASE p = n
      <4>1. config \in Seq(ConfigValues)
        BY DEF ConfigInv
      <4>2. config'[n] = a.value
        BY <2>2, <4>1
      <4> QED BY Zenon, <2>1, <3>1, <4>2 DEF Stored
    <3>2. CASE p # n
      <4>1. p \in DOMAIN config /\ config'[p] = config[p]
        BY <2>2, <2>3, <3>2 DEF ConfigInv
      <4> QED BY Zenon, <4>1 DEF ConfigInv, ConfiguredValuesWereStored
    <3> QED BY Zenon, <3>1, <3>2
  <2>7. step' \notin {"environment", "shard", "id"}
    BY <2>4
  <2> QED BY <1>1, <2>3, <2>5, <2>6, <2>7 DEF ConfigInv
<1>4. CASE a.is # "value"
  <2>1. config' = config
    BY <1>2, <1>4
  <2>2. step' \in {"parameters", "crashed"}
    BY <1>2, <1>4, <1>1, AnswerKinds DEF NextStep
  <2> QED BY Zenon, <1>1, <2>1, <2>2 DEF ConfigInv, ConfiguredValuesWereStored, Converts
<1> QED BY <1>3, <1>4

(* A parameter the server runs with was stored at some time, or is the       *)
(* default, and has the parameter's type, whatever requests fail while it    *)
(* starts (parameter_fetcher.cc and the clients under cloud_config).         *)
THEOREM ConfiguredValuesAlwaysWereStored == ConfigSpec => []ConfiguredValuesWereStored
<1>1. ConfigInit => ConfigInv
  <2> SUFFICES ASSUME ConfigInit PROVE ConfigInv
    OBVIOUS
  <2>1. store \in [Indices -> ConfigValues] /\ DOMAIN ever = Indices
    BY Zenon DEF ConfigInit, ConfigValues
  <2>2. \A p \in Indices : store[p] \in {"1", Missing} /\ (store[p] = Missing \/ store[p] \in ever[p])
    BY Zenon DEF ConfigInit
  <2>3. config = <<>> /\ step = "environment"
    BY Zenon DEF ConfigInit
  <2>4. Len(config) <= Len(Parameters) /\ config \in Seq(ConfigValues)
    BY <2>3, ConfigAssumption
  <2>5. ConfiguredValuesWereStored
    <3>1. DOMAIN config = {}
      BY <2>3
    <3> QED BY Zenon, <3>1 DEF ConfiguredValuesWereStored
  <2>6. provider \in {"aws", "gcp", "local"} /\ (provider = "local" => \A p \in Indices : store[p] = "1")
    BY Zenon, <2>2 DEF ConfigInit
  <2> QED BY <2>1, <2>2, <2>3, <2>4, <2>5, <2>6 DEF ConfigInv
<1>2. ConfigInv /\ [ConfigNext]_configVars => ConfigInv'
  <2> SUFFICES ASSUME ConfigInv, [ConfigNext]_configVars PROVE ConfigInv'
    OBVIOUS
  <2>1. CASE GetEnvironment \/ GetShardNum \/ GetInstanceId
    <3>1. UNCHANGED <<provider, store, ever, config>> /\ config = <<>>
      BY <2>1 DEF GetEnvironment, GetShardNum, GetInstanceId, ConfigInv
    <3>2. Len(config) = 0 /\ 0 < Len(Parameters)
      BY <3>1, ConfigAssumption
    <3> QED BY <3>1, <3>2 DEF ConfigInv, ConfiguredValuesWereStored, Converts
  <2>2. CASE FetchParameter
    BY <2>2, FetchStep
  <2>3. ASSUME NEW p \in Indices, NEW value \in StoredValues, ChangeParameter(p, value)
        PROVE  ConfigInv'
    <3>1. /\ provider # "local" /\ UNCHANGED <<provider, step, config>>
          /\ store' = [store EXCEPT ![p] = value]
          /\ ever' = [ever EXCEPT ![p] = @ \cup {value}]
      BY <2>3 DEF ChangeParameter
    <3>2. store' \in [Indices -> ConfigValues] /\ DOMAIN ever' = Indices
      BY Zenon, <3>1 DEF ConfigInv, ConfigValues
    <3>3. \A q \in Indices : ever[q] \subseteq ever'[q] /\ (store'[q] = Missing \/ store'[q] \in ever'[q])
      BY <3>1 DEF ConfigInv
    <3>4. DOMAIN config \subseteq Indices
      BY ConfigAssumption DEF ConfigInv, Indices
    <3>5. ConfiguredValuesWereStored'
      BY Zenon, <3>1, <3>3, <3>4 DEF ConfigInv, ConfiguredValuesWereStored, Converts
    <3> QED BY <3>1, <3>2, <3>3, <3>5 DEF ConfigInv
  <2>4. CASE UNCHANGED configVars
    BY Zenon, <2>4 DEF configVars, ConfigInv, ConfiguredValuesWereStored, Converts
  <2> QED BY <2>1, <2>2, <2>3, <2>4 DEF ConfigNext, Startup
<1>3. ConfigInv => ConfiguredValuesWereStored
  BY DEF ConfigInv
<1> QED BY <1>1, <1>2, <1>3, PTL DEF ConfigSpec

-----------------------------------------------------------------------------
(* What min and max of the source give, for integers. *)
LEMMA MinMax ==
  ASSUME NEW a \in Int, NEW b \in Int
  PROVE  /\ min(a, b) \in {a, b} /\ min(a, b) <= a /\ min(a, b) <= b
         /\ max(a, b) \in {a, b} /\ a <= max(a, b) /\ b <= max(a, b)
BY DEF min, max

(***************************************************************************)
(* The inductive invariant.  Until the storage fails or a chunk is stored  *)
(* over another one, the get area is the whole buffer, it ends at          *)
(* src_limit_position_, and every byte of it is the byte of some version   *)
(* of the blob at the place its index says.  The last part is what a read  *)
(* needs: the cursor is only a number, and the abstract stream promises    *)
(* the byte at that number.  While underflow runs the get area is empty,   *)
(* and the buffer has room for the range that is asked for.                *)
(***************************************************************************)
PositionsAreInRange ==
  /\ gptr \in Nat /\ egptr \in Nat /\ gptr <= egptr
  /\ src_limit_position_ \in 0..MaxSize
  /\ total_bytes_read \in Nat /\ total_bytes_to_read \in Nat
  /\ egptr <= src_limit_position_ - total_bytes_read

BytesAreInPlace ==
  \A i \in 1..egptr : \E v \in Versions : buffer_[i] = <<v, BufferStartPosition + i - 1>>

BufferIsFilled ==
  ~Underflowing => Len(buffer_) = egptr /\ total_bytes_read = 0 /\ BytesAreInPlace

RangeIsMissing ==
  Underflowing =>
    /\ gptr = egptr /\ Len(buffer_) = total_bytes_to_read
    /\ total_bytes_read < total_bytes_to_read
    /\ src_limit_position_ - total_bytes_read + total_bytes_to_read <= MaxSize

Whole == PositionsAreInRange /\ BufferIsFilled /\ RangeIsMissing

Broken == failed \/ overwritten

StreamTypes ==
  /\ blob \in [version : Versions, size : 0..MaxSize]
  /\ buffer_size \in Int
  /\ src_cached_size_ \in -1..MaxSize

StreamInv == StreamTypes /\ (~Broken => Whole)

(* The fresh stream buffer satisfies the invariant. *)
LEMMA InitStreamInv == Init => StreamInv
<1> SUFFICES ASSUME Init PROVE StreamInv
  OBVIOUS
<1>1. blob \in [version : Versions, size : 0..MaxSize]
  BY DEF Init, Versions
<1>2. Whole
  BY StreambufAssumption DEF Init, Whole, PositionsAreInRange, BufferIsFilled, RangeIsMissing,
                             BytesAreInPlace, Underflowing
<1>3. StreamTypes
  BY <1>1, StreambufAssumption DEF Init, StreamTypes
<1> QED BY <1>2, <1>3 DEF StreamInv

(* The size that seekoff and underflow work with is one a blob can have. *)
LEMMA SizeType == StreamInv => Size \in 0..MaxSize
BY StreambufAssumption DEF StreamInv, StreamTypes, Size

(* A step that leaves the get area and underflow alone keeps the invariant   *)
(* and the position.                                                         *)
LEMMA AreaKept ==
  ASSUME StreamInv, StreamTypes', Broken' = Broken, UNCHANGED <<area, filling>>
  PROVE  /\ StreamInv'
         /\ (BufferCursorPosition - total_bytes_read)' = BufferCursorPosition - total_bytes_read
<1>1. Whole' = Whole
  BY DEF area, filling, Whole, PositionsAreInRange, BufferIsFilled, RangeIsMissing,
         BytesAreInPlace, Underflowing, BufferStartPosition
<1> QED BY <1>1 DEF StreamInv, area, filling, BufferCursorPosition, BufferAvailableChars

(* A seek of a stream that is not broken: the invariant is kept, and the     *)
(* position is the one that seekoff computed.                                *)
LEMMA MoveToLemma ==
  ASSUME StreamInv, ~Broken, ~Underflowing, UNCHANGED filling,
         NEW p \in 0..MaxSize, MoveTo(p)
  PROVE  /\ Whole'
         /\ (BufferCursorPosition - total_bytes_read)' = p
<1> USE StreambufAssumption
<1>1. /\ PositionsAreInRange /\ Len(buffer_) = egptr /\ total_bytes_read = 0 /\ BytesAreInPlace
  BY DEF StreamInv, Whole, BufferIsFilled
<1>2. total_bytes_read' = 0 /\ total_bytes_to_read' \in Nat /\ ~Underflowing' /\ RangeIsMissing'
  BY <1>1 DEF PositionsAreInRange, filling, Underflowing, RangeIsMissing
<1>3. CASE p < BufferStartPosition \/ p >= src_limit_position_
  <2>1. buffer_' = <<>> /\ gptr' = 0 /\ egptr' = 0 /\ src_limit_position_' = p
    BY <1>3 DEF MoveTo
  <2>2. PositionsAreInRange' /\ BufferIsFilled'
    BY <1>2, <2>1 DEF PositionsAreInRange, BufferIsFilled, BytesAreInPlace
  <2> QED
    BY <1>2, <2>1, <2>2 DEF Whole, BufferCursorPosition, BufferAvailableChars
<1>4. CASE ~(p < BufferStartPosition \/ p >= src_limit_position_)
  <2>1. /\ gptr' = p - BufferStartPosition /\ egptr' = egptr
        /\ buffer_' = buffer_ /\ src_limit_position_' = src_limit_position_
    BY <1>1, <1>4 DEF MoveTo
  <2>2. BufferStartPosition' = BufferStartPosition
    BY <2>1 DEF BufferStartPosition
  <2>3. PositionsAreInRange'
    BY <1>1, <1>2, <1>4, <2>1 DEF PositionsAreInRange, BufferStartPosition
  <2>4. BufferCursorPosition' = p
    BY <1>1, <2>1 DEF PositionsAreInRange, BufferStartPosition, BufferCursorPosition,
                      BufferAvailableChars
  <2>5. BytesAreInPlace'
    BY <1>1, <2>1, <2>2 DEF BytesAreInPlace
  <2>6. BufferIsFilled'
    BY <1>1, <1>2, <2>1, <2>5 DEF BufferIsFilled
  <2>7. (BufferCursorPosition - total_bytes_read)' = p
    BY <1>2, <2>4
  <2> QED BY <1>2, <2>3, <2>6, <2>7 DEF Whole
<1> QED BY <1>3, <1>4

(***************************************************************************)
(* Every step keeps the invariant and is, until the stream is broken, a    *)
(* step of the abstract stream or one that does not change what it shows.  *)
(***************************************************************************)
LEMMA SeekStep ==
  ASSUME StreamInv, NEW off \in Int, NEW dir \in {"beg", "cur", "end"}, seekoff(off, dir)
  PROVE  StreamInv' /\ [Stream!Next]_Stream!vars
<1> USE StreambufAssumption
<1>1. Size \in 0..MaxSize /\ src_cached_size_' \in -1..MaxSize
  BY SizeType DEF seekoff
<1>2. /\ UNCHANGED filling /\ failed' = failed /\ overwritten' = overwritten /\ ~Underflowing
      /\ blob' = blob /\ buffer_size' = buffer_size
  BY DEF seekoff
<1>3. StreamTypes' /\ Broken' = Broken
  BY <1>1, <1>2 DEF StreamInv, StreamTypes, Broken
<1>4. CASE Broken
  BY <1>3, <1>4 DEF StreamInv, Broken, Stream!Next, Stream!Break
<1>5. CASE ~Broken /\ Refused(off, dir)
  <2>1. out' = Nothing /\ UNCHANGED area
    BY <1>5 DEF seekoff
  <2>2. /\ StreamInv'
        /\ (BufferCursorPosition - total_bytes_read)' = BufferCursorPosition - total_bytes_read
    BY <1>2, <1>3, <2>1, AreaKept
  <2>3. Stream!GetNothing
    BY <1>2, <2>1, <2>2 DEF Stream!GetNothing, Stream!Nothing, Nothing
  <2> QED BY <2>2, <2>3 DEF Stream!Next
<1>6. CASE ~Broken /\ ~Refused(off, dir)
  <2> DEFINE p == min(Size, max(0, Target(off, dir)))
  <2>1. MoveTo(p) /\ out' = [op |-> "seek", position |-> p]
    BY <1>6 DEF seekoff
  <2>2. Target(off, dir) \in Int
    <3>1. BufferCursorPosition \in Int
      BY <1>6 DEF StreamInv, Whole, PositionsAreInRange, BufferCursorPosition, BufferAvailableChars
    <3>2. CASE dir = "beg"
      BY <3>2 DEF Target
    <3>3. CASE dir = "cur"
      BY <3>1, <3>3 DEF Target
    <3>4. CASE dir = "end"
      BY <1>1, <3>4 DEF Target
    <3> QED BY <3>2, <3>3, <3>4
  <2>3. p \in 0..MaxSize
    BY <1>1, <2>2 DEF min, max
  <2> HIDE DEF p
  <2>4. Whole' /\ (BufferCursorPosition - total_bytes_read)' = p
    BY <1>2, <1>6, <2>1, <2>3, MoveToLemma
  <2>5. StreamInv'
    BY <1>3, <2>4 DEF StreamInv
  <2>6. Stream!Seek
    BY <1>2, <2>1, <2>3, <2>4 DEF Stream!Seek
  <2> QED BY <2>5, <2>6 DEF Stream!Next
<1> QED BY <1>4, <1>5, <1>6

(* The range that underflow asks for is not empty and lies in the blob as    *)
(* its cached size says.                                                     *)
LEMMA RangeLemma ==
  ASSUME StreamInv, src_limit_position_ \in 0..MaxSize, src_limit_position_ < Size
  PROVE  BytesToRead \in Nat \ {0} /\ src_limit_position_ + BytesToRead <= MaxSize
<1>1. Size \in 0..MaxSize /\ buffer_size \in Int /\ MaxSize \in Nat
  BY SizeType, StreambufAssumption DEF StreamInv, StreamTypes
<1> QED BY <1>1 DEF BytesToRead, min, max

(* underflow begins without moving the position. *)
LEMMA BeginUnderflowStep ==
  ASSUME StreamInv, BeginUnderflow
  PROVE  StreamInv' /\ [Stream!Next]_Stream!vars
<1> USE StreambufAssumption
<1>1. /\ Size \in 0..MaxSize /\ src_cached_size_' \in -1..MaxSize
      /\ blob' = blob /\ buffer_size' = buffer_size /\ Broken' = Broken
      /\ total_bytes_read' = total_bytes_read /\ ~Underflowing /\ gptr >= egptr
      /\ UNCHANGED <<gptr, egptr, src_limit_position_>>
  BY SizeType DEF BeginUnderflow, Broken
<1>2. CASE src_limit_position_ >= Size
  <2>1. out' = Nothing /\ UNCHANGED <<area, filling>>
    BY <1>2 DEF BeginUnderflow, area, filling
  <2>2. StreamTypes'
    BY <1>1 DEF StreamInv, StreamTypes
  <2>3. /\ StreamInv'
        /\ (BufferCursorPosition - total_bytes_read)' = BufferCursorPosition - total_bytes_read
    BY <1>1, <2>1, <2>2, AreaKept
  <2>4. Stream!GetNothing
    BY <1>1, <2>1, <2>3 DEF Broken, Stream!GetNothing, Stream!Nothing, Nothing
  <2> QED BY <2>3, <2>4 DEF Stream!Next
<1>3. CASE ~(src_limit_position_ >= Size)
  <2>1. /\ total_bytes_to_read' = BytesToRead /\ out' = out
        /\ buffer_' = Resized(BytesToRead)
    BY <1>3 DEF BeginUnderflow
  <2>2. StreamTypes'
    BY <1>1 DEF StreamInv, StreamTypes
  <2>3. CASE Broken
    BY <1>1, <2>2, <2>3 DEF StreamInv, Broken, Stream!Next, Stream!Break
  <2>4. CASE ~Broken
    <3>1. PositionsAreInRange /\ gptr = egptr /\ total_bytes_read = 0
      BY <1>1, <2>4 DEF StreamInv, Whole, BufferIsFilled, PositionsAreInRange
    <3>2. BytesToRead \in Nat \ {0} /\ src_limit_position_ + BytesToRead <= MaxSize
      BY <1>1, <1>3, <3>1, RangeLemma DEF PositionsAreInRange
    <3>3. Len(Resized(BytesToRead)) = BytesToRead
      BY <3>2 DEF Resized
    <3>4. PositionsAreInRange' /\ Underflowing'
      BY <1>1, <2>1, <3>1, <3>2 DEF PositionsAreInRange, Underflowing
    <3>5. RangeIsMissing'
      BY <1>1, <2>1, <3>1, <3>2, <3>3 DEF RangeIsMissing, PositionsAreInRange
    <3>6. Whole'
      BY <3>4, <3>5 DEF Whole, BufferIsFilled
    <3>7. UNCHANGED Stream!vars
      BY <1>1, <2>1 DEF Broken, Stream!vars, BufferCursorPosition, BufferAvailableChars
    <3> QED BY <2>2, <3>6, <3>7 DEF StreamInv
  <2> QED BY <2>3, <2>4
<1> QED BY <1>2, <1>3

(* A chunk.  The last one of a range that came in one piece gives the byte   *)
(* at the position; a chunk that follows another one breaks the stream.      *)
LEMMA ReadChunkStep ==
  ASSUME StreamInv, NEW n \in 0..MaxSize, ReadChunk(n)
  PROVE  StreamInv' /\ [Stream!Next]_Stream!vars
<1> USE StreambufAssumption
<1>1. /\ blob' = blob /\ failed' = failed /\ StreamTypes'
      /\ overwritten' = (overwritten \/ (n > 0 /\ total_bytes_read > 0))
      /\ buffer_' = WithChunk(n) /\ src_limit_position_' = src_limit_position_ + n
      /\ n <= total_bytes_to_read - total_bytes_read
      /\ n <= max(0, blob.size - src_limit_position_) /\ Underflowing
  BY DEF ReadChunk, StreamInv, StreamTypes
<1>2. CASE Broken \/ (n > 0 /\ total_bytes_read > 0)
  <2>1. Broken'
    BY <1>1, <1>2 DEF Broken
  <2> QED BY <1>1, <2>1 DEF StreamInv, Broken, Stream!Next, Stream!Break
<1>3. CASE ~Broken /\ n = 0
  <2>1. /\ PositionsAreInRange /\ gptr = egptr /\ Len(buffer_) = total_bytes_to_read
        /\ total_bytes_read < total_bytes_to_read
        /\ src_limit_position_ - total_bytes_read + total_bytes_to_read <= MaxSize
    BY <1>1, <1>3 DEF StreamInv, Whole, RangeIsMissing
  <2>2. /\ total_bytes_read' = total_bytes_read /\ src_limit_position_' = src_limit_position_
        /\ UNCHANGED <<gptr, egptr, out, total_bytes_to_read>>
    BY <1>1, <1>3, <2>1 DEF ReadChunk, PositionsAreInRange
  <2>3. Len(buffer_') = total_bytes_to_read
    BY <1>1, <2>1 DEF WithChunk, PositionsAreInRange
  <2>4. PositionsAreInRange' /\ Underflowing' /\ RangeIsMissing'
    BY <1>1, <2>1, <2>2, <2>3 DEF PositionsAreInRange, Underflowing, RangeIsMissing
  <2>5. StreamInv'
    BY <1>1, <2>4 DEF StreamInv, Whole, BufferIsFilled
  <2>6. UNCHANGED Stream!vars
    <3>1. ~overwritten /\ ~failed /\ ~(n > 0)
      BY <1>3 DEF Broken
    <3>2. ~overwritten' /\ ~failed'
      BY Zenon, <1>1, <3>1
    <3>3. (failed \/ overwritten)' = (failed \/ overwritten)
      BY <3>1, <3>2
    <3> QED BY <2>2, <3>3 DEF Stream!vars, BufferCursorPosition, BufferAvailableChars
  <2> QED BY <2>5, <2>6
<1>4. CASE ~Broken /\ n > 0 /\ ~(total_bytes_read > 0)
  <2>1. /\ PositionsAreInRange /\ total_bytes_read = 0
    BY <1>4 DEF StreamInv, Whole, PositionsAreInRange
  <2>2. /\ gptr = egptr /\ Len(buffer_) = total_bytes_to_read
        /\ src_limit_position_ + total_bytes_to_read <= MaxSize
    BY <1>1, <1>4, <2>1 DEF StreamInv, Whole, RangeIsMissing, PositionsAreInRange
  <2>3. (failed \/ overwritten)' = (failed \/ overwritten) /\ ~Broken'
    BY <1>1, <1>4, <2>1 DEF Broken
  <2>4. src_limit_position_ + n \in 0..MaxSize /\ blob.version \in Versions
    BY <1>1, <1>4, <2>1 DEF StreamInv, StreamTypes, PositionsAreInRange, max
  <2>5. Len(WithChunk(n)) = total_bytes_to_read
    BY <2>1, <2>2 DEF WithChunk, PositionsAreInRange
  <2>6. CASE total_bytes_read + n < total_bytes_to_read
    <3>1. /\ total_bytes_read' = n /\ UNCHANGED <<gptr, egptr, out, total_bytes_to_read>>
      BY <2>1, <2>6 DEF ReadChunk
    <3>2. PositionsAreInRange' /\ Underflowing'
      BY <1>1, <2>1, <2>4, <3>1 DEF PositionsAreInRange, Underflowing
    <3>3. RangeIsMissing'
      BY <1>1, <2>1, <2>2, <2>4, <2>5, <2>6, <3>1 DEF RangeIsMissing, PositionsAreInRange
    <3>4. StreamInv'
      BY <1>1, <3>2, <3>3 DEF StreamInv, Whole, BufferIsFilled
    <3>5. UNCHANGED Stream!vars
      BY <1>1, <2>1, <2>3, <3>1 DEF Stream!vars, BufferCursorPosition, BufferAvailableChars,
                                    PositionsAreInRange
    <3> QED BY <3>4, <3>5
  <2>7. CASE ~(total_bytes_read + n < total_bytes_to_read)
    <3>1. /\ n = total_bytes_to_read
      BY <1>1, <2>1, <2>7 DEF PositionsAreInRange
    <3>2. /\ gptr' = 1 /\ egptr' = n /\ out' = [op |-> "read", byte |-> WithChunk(n)[1]]
          /\ total_bytes_to_read' = 0 /\ total_bytes_read' = 0
      BY <2>7, <3>1 DEF ReadChunk
    <3>3. \A i \in 1..n : WithChunk(n)[i] = <<blob.version, src_limit_position_ + i - 1>>
      BY <2>2, <3>1 DEF WithChunk
    <3>4. BufferStartPosition' = src_limit_position_
      BY <1>1, <2>1, <3>2 DEF BufferStartPosition, PositionsAreInRange
    <3>5. BytesAreInPlace'
      BY <1>1, <2>4, <3>2, <3>3, <3>4 DEF BytesAreInPlace
    <3>6. PositionsAreInRange' /\ ~Underflowing'
      BY <1>1, <1>4, <2>1, <2>4, <3>2 DEF PositionsAreInRange, Underflowing
    <3>7. BufferIsFilled'
      BY <1>1, <2>5, <3>1, <3>2, <3>5 DEF BufferIsFilled
    <3>8. StreamInv'
      BY <1>1, <3>6, <3>7 DEF StreamInv, Whole, RangeIsMissing
    <3>9. /\ BufferCursorPosition - total_bytes_read = src_limit_position_
          /\ (BufferCursorPosition - total_bytes_read)' = src_limit_position_ + 1
      BY <1>1, <2>1, <2>2, <3>2 DEF BufferCursorPosition, BufferAvailableChars,
                                    PositionsAreInRange
    <3>10. WithChunk(n)[1] = <<blob.version, src_limit_position_>>
      BY <1>4, <2>1, <3>3 DEF PositionsAreInRange
    <3>11. Stream!Read
      BY <2>3, <2>4, <3>2, <3>9, <3>10 DEF Stream!Read
    <3> QED BY <3>8, <3>11 DEF Stream!Next
  <2> QED BY <2>6, <2>7
<1> QED BY <1>2, <1>3, <1>4

(* Reading a character from the get area. *)
LEMMA BumpStep ==
  ASSUME StreamInv, Bump
  PROVE  StreamInv' /\ [Stream!Next]_Stream!vars
<1> USE StreambufAssumption
<1>1. /\ out' = [op |-> "read", byte |-> buffer_[gptr + 1]] /\ gptr' = gptr + 1 /\ gptr < egptr
      /\ UNCHANGED <<buffer_, egptr, src_limit_position_, filling>> /\ ~Underflowing
      /\ (failed \/ overwritten)' = (failed \/ overwritten)
      /\ StreamTypes'
  BY DEF Bump, StreamInv, StreamTypes
<1>2. CASE Broken
  BY <1>1, <1>2 DEF StreamInv, Broken, Stream!Next, Stream!Break
<1>3. CASE ~Broken
  <2>1. PositionsAreInRange /\ Len(buffer_) = egptr /\ total_bytes_read = 0 /\ BytesAreInPlace
    BY <1>1, <1>3 DEF StreamInv, Whole, BufferIsFilled
  <2>2. PositionsAreInRange' /\ ~Underflowing'
    BY <1>1, <2>1 DEF PositionsAreInRange, filling, Underflowing
  <2>3. BytesAreInPlace'
    BY <1>1, <2>1 DEF BytesAreInPlace, BufferStartPosition
  <2>4. BufferIsFilled'
    BY <1>1, <2>1, <2>3 DEF BufferIsFilled, filling
  <2>5. StreamInv'
    BY <1>1, <2>2, <2>4 DEF StreamInv, Whole, RangeIsMissing
  <2>6. gptr + 1 \in 1..egptr
    BY <1>1, <2>1 DEF PositionsAreInRange
  <2>7. PICK v \in Versions : buffer_[gptr + 1] = <<v, BufferStartPosition + (gptr + 1) - 1>>
    BY <2>1, <2>6 DEF BytesAreInPlace
  <2>8. /\ BufferStartPosition + (gptr + 1) - 1 = BufferCursorPosition - total_bytes_read
        /\ (BufferCursorPosition - total_bytes_read)' = BufferCursorPosition - total_bytes_read + 1
    BY <1>1, <2>1 DEF PositionsAreInRange, BufferStartPosition, BufferCursorPosition,
                      BufferAvailableChars, filling
  <2>9. Stream!Read
    BY <1>1, <2>7, <2>8 DEF Stream!Read
  <2> QED BY <2>5, <2>9 DEF Stream!Next
<1> QED BY <1>2, <1>3

(* Every step of the stream buffer keeps the invariant. *)
LEMMA StreamStep ==
  ASSUME StreamInv, [Next]_vars
  PROVE  StreamInv' /\ [Stream!Next]_Stream!vars
<1> USE StreambufAssumption
<1>1. CASE Replace
  <2>1. blob' \in [version : Versions, size : 0..MaxSize]
    BY <1>1 DEF Replace, Versions
  <2>2. UNCHANGED <<buffer_size, area, src_cached_size_, out, filling, failed, overwritten>>
    BY <1>1 DEF Replace
  <2>3. StreamTypes' /\ Broken' = Broken
    BY <2>1, <2>2 DEF StreamInv, StreamTypes, Broken
  <2>4. /\ StreamInv'
        /\ (BufferCursorPosition - total_bytes_read)' = BufferCursorPosition - total_bytes_read
    BY <2>2, <2>3, AreaKept
  <2>5. UNCHANGED Stream!vars
    BY <2>2, <2>4 DEF Stream!vars
  <2> QED BY <2>4, <2>5
<1>2. CASE SizeFails \/ ReadChunkFails
  <2>1. failed' = TRUE /\ UNCHANGED <<blob, buffer_size, src_cached_size_>>
    BY <1>2 DEF SizeFails, ReadChunkFails, MaybeReportError
  <2>2. StreamInv'
    BY <2>1 DEF StreamInv, StreamTypes, Broken
  <2> QED BY <2>1, <2>2 DEF Stream!Next, Stream!Break
<1>3. CASE BeginUnderflow
  BY <1>3, BeginUnderflowStep
<1>4. ASSUME NEW n \in 0..MaxSize, ReadChunk(n)
      PROVE  StreamInv' /\ [Stream!Next]_Stream!vars
  BY <1>4, ReadChunkStep
<1>5. CASE Bump
  BY <1>5, BumpStep
<1>6. CASE Reset
  BY <1>6, SeekStep DEF Reset
<1>7. ASSUME NEW off \in Offsets, NEW dir \in {"beg", "cur", "end"}, seekg(off, dir)
      PROVE  StreamInv' /\ [Stream!Next]_Stream!vars
  BY <1>7, SeekStep DEF seekg
<1>8. CASE UNCHANGED vars
  <2>1. UNCHANGED <<blob, buffer_size, area, src_cached_size_, out, filling, failed, overwritten>>
    BY <1>8 DEF vars
  <2>2. StreamTypes' /\ Broken' = Broken
    BY <2>1 DEF StreamInv, StreamTypes, Broken
  <2>3. /\ StreamInv'
        /\ (BufferCursorPosition - total_bytes_read)' = BufferCursorPosition - total_bytes_read
    BY <2>1, <2>2, AreaKept
  <2>4. UNCHANGED Stream!vars
    BY <2>1, <2>3 DEF Stream!vars
  <2> QED BY <2>3, <2>4
<1> QED BY <1>1, <1>2, <1>3, <1>4, <1>5, <1>6, <1>7, <1>8 DEF Next

(* SeekingInputStreambuf implements BlobStream: whatever the buffer size,    *)
(* the seeks, the replacement of the blob and the lengths of the chunks, a   *)
(* read gives the byte at the position of the stream and a seek says where   *)
(* the next read will be, until a call of the storage fails or a second      *)
(* chunk of one range is stored over the first, which the loop of underflow  *)
(* does whenever a chunk comes short (seeking_input_streambuf.cc:134-147).   *)
THEOREM StreambufIsAStream == Spec => IsAStream
<1>1. Init => Stream!Init
  BY DEF Init, Stream!Init, Stream!Nothing, Nothing, BufferCursorPosition, BufferAvailableChars
<1>2. StreamInv /\ [Next]_vars => StreamInv' /\ [Stream!Next]_Stream!vars
  BY StreamStep
<1> QED BY <1>1, <1>2, InitStreamInv, PTL DEF Spec, IsAStream, Stream!Spec
=============================================================================
