----------------------------- MODULE Notifications -----------------------------
(***************************************************************************)
(* The two clients of a message queue.  In the mode "realtime" every       *)
(* thread is a RealtimeNotifier of the realtime thread pool                *)
(* (realtime_notifier_aws.cc): it parses what it receives and applies it   *)
(* to the cache, and has nothing to fall back on.  In the mode             *)
(* "parameter" one thread is the ParameterNotifier of the logging          *)
(* verbosity (parameter_notifier.h): a message only tells it to read the   *)
(* parameter, which it also does when none has come for some time.         *)
(*                                                                         *)
(* A realtime message is one update of one key; its number is the update's *)
(* logical commit time.                                                    *)
(***************************************************************************)
EXTENDS MessageQueue, Integers

CONSTANTS
  Modes,        \* modes to consider
  MaxVerbosity

\* Values of the verbosity parameter; negative ones are refused.
Verbosities == -1..MaxVerbosity

VARIABLES
  mode,
  watching,    \* the threads in use: the thread pool has one or more
  malformed,   \* the messages that cannot be parsed
  cache,       \* commit time of the key's value
  applied,     \* history: messages applied
  parameter,   \* the verbosity in the parameter store
  verbosity,   \* the verbosity in force
  flag_set     \* whether the notifier's expiring flag is still set

client == <<mode, watching, malformed, cache, applied, parameter, verbosity, flag_set>>
vars == <<queueVars, client>>

Init ==
  /\ QueueInit
  /\ mode \in Modes
  /\ watching = Threads \/ watching = {CHOOSE t \in Threads : TRUE}
  /\ mode = "parameter" => Cardinality(watching) = 1
  /\ malformed \in IF mode = "realtime" THEN {{}, {1}} ELSE {{}}
  /\ cache = 0 /\ applied = {}
  /\ parameter = 0 /\ verbosity = 0
  /\ flag_set = FALSE

config == <<mode, watching, malformed>>

----------------------------------------------------------------------------
(* RealtimeNotifierImpl::Watch: DeadlineExceeded and errors both lead to the *)
(* next poll.                                                              *)

WatchRealtime(t) ==
  /\ mode = "realtime"
  /\ pc[t] \in {"watch", "deadline"}
  /\ GetNotifications(t)
  /\ UNCHANGED client

\* Mutant: the callback runs for the first message of a batch only.
ApplyRealtimeFirst(t) ==
  /\ mode = "realtime"
  /\ Goes(t, "parse", "watch")
  /\ \E m \in batch[t] :
       IF m \in malformed THEN UNCHANGED <<cache, applied>>
       ELSE cache' = Max({cache, m}) /\ applied' = applied \cup {m}
  /\ batch' = [batch EXCEPT ![t] = {}]
  /\ UNCHANGED <<service, cloud, faults, url, config, parameter, verbosity, flag_set>>

\* The callback, message by message and in any order: what cannot be parsed is
\* skipped, and the cache keeps the newest update.
ApplyRealtime(t) ==
  /\ mode = "realtime" /\ pc[t] = "parse"
  /\ IF batch[t] = {}
     THEN pc' = [pc EXCEPT ![t] = "watch"] /\ UNCHANGED <<batch, cache, applied>>
     ELSE \E m \in batch[t] :
            /\ batch' = [batch EXCEPT ![t] = @ \ {m}]
            /\ IF m \in malformed THEN UNCHANGED <<cache, applied>>
               ELSE cache' = Max({cache, m}) /\ applied' = applied \cup {m}
            /\ UNCHANGED pc
  /\ UNCHANGED <<service, cloud, faults, url, config, parameter, verbosity, flag_set>>

----------------------------------------------------------------------------
(* ParameterNotifier. *)

\* Mutant: no backup poll.
ShouldGetParameterOnMessage(t) ==
  /\ mode = "parameter"
  /\ \/ pc[t] \in {"watch", "deadline"} /\ GetNotifications(t)
     \/ /\ Goes(t, "parse", "get")
        /\ batch' = [batch EXCEPT ![t] = {}]
        /\ UNCHANGED <<service, cloud, faults, url>>
  /\ UNCHANGED client

\* The parameter is read when the flag has expired, when the wait for a message
\* times out and when there is one.
ShouldGetParameter(t) ==
  /\ mode = "parameter"
  /\ \/ pc[t] = "watch" /\ flag_set /\ GetNotifications(t)
     \/ /\ \/ Goes(t, "watch", "get") /\ ~flag_set
           \/ Goes(t, "deadline", "get")
           \/ Goes(t, "parse", "get")
        /\ batch' = [batch EXCEPT ![t] = {}]
        /\ UNCHANGED <<service, cloud, faults, url>>
  /\ UNCHANGED client

UpdateLoggingVerbosity(value) ==
  verbosity' = IF value >= 0 THEN value ELSE verbosity

GetParameter(t) ==
  /\ mode = "parameter"
  /\ Goes(t, "get", "watch")
  /\ flag_set' = TRUE
  /\ \/ UpdateLoggingVerbosity(parameter) /\ UNCHANGED faults
     \/ Fault /\ UNCHANGED verbosity
  /\ UNCHANGED <<service, cloud, url, batch, config, cache, applied, parameter>>

FlagExpires ==
  /\ flag_set
  /\ flag_set' = FALSE
  /\ UNCHANGED <<queueVars, config, cache, applied, parameter, verbosity>>

\* An operator changes the parameter (external); a message says so.
SetParameter(m) ==
  /\ mode = "parameter"
  /\ Publish(m)
  /\ parameter' \in Verbosities
  /\ UNCHANGED <<config, cache, applied, verbosity, flag_set>>

----------------------------------------------------------------------------

Watch(t) ==
  \/ WatchRealtime(t) \/ ApplyRealtime(t) \/ ShouldGetParameter(t) \/ GetParameter(t)
  \/ QueueSteps(t) /\ UNCHANGED client

Next ==
  \/ \E t \in watching : Watch(t)
  \/ CloudSteps /\ UNCHANGED client
  \/ \E m \in Messages : mode = "realtime" /\ Publish(m) /\ UNCHANGED client
  \/ \E m \in Messages : SetParameter(m)
  \/ FlagExpires

\* Threads keep running, and SQS keeps its visibility timeout.
Fairness ==
  /\ \A t \in Threads : WF_vars(t \in watching /\ Watch(t))
  /\ \A q \in Queues : WF_vars(VisibilityTimeout(q) /\ UNCHANGED client)

Spec == Init /\ [][Next]_vars /\ Fairness

----------------------------------------------------------------------------

TypeOK ==
  /\ QueueTypeOK
  /\ pc \in [Threads -> {"watch", "setup", "poll", "receive", "reset",
                         "deadline", "delete", "parse", "get"}]
  /\ mode \in Modes /\ watching \subseteq Threads /\ malformed \subseteq Messages
  /\ flag_set \in BOOLEAN
  /\ cache \in Messages \cup {0} /\ applied \subseteq Messages
  /\ parameter \in Verbosities /\ verbosity \in Verbosities \cap Nat

\* A message that a queue in use has accepted is applied in the end, so that the cache
\* has it or a newer one, unless the queue is deleted or given up, or the message cannot
\* be parsed.
AcceptedMessagesAreApplied ==
  \A m \in Messages :
    (mode = "realtime" /\ m \in published \ malformed)
      ~> (m \in lost \/ (m \in applied /\ cache >= m))

\* Lost messages and failed reads only delay a change of the verbosity: the value
\* in force becomes the configured one, unless that is negative.
VerbosityConverges ==
  <>[](mode = "parameter" => parameter < 0 \/ verbosity = parameter)
=============================================================================
