---------------------------- MODULE PubSubNotifier ----------------------------
(***************************************************************************)
(* The realtime notifier on GCP (realtime_notifier_gcp.cc) with its        *)
(* message service (msg_svc_gcp.cc) and its thread pool manager.  One      *)
(* thread subscribes and then sleeps until it is stopped; the threads of   *)
(* the Pub/Sub library (external) deliver the messages.                    *)
(*                                                                         *)
(* A message is one update of one key; its number is the update's logical  *)
(* commit time.  The lambda given to the library refers to the parameter   *)
(* of Watch and to the notifier: a delivery after those are gone is        *)
(* undefined, and either works or ends the process.                        *)
(***************************************************************************)
EXTENDS Naturals, FiniteSets, FiniteSetsExt

CONSTANTS
  PubSubMessages, \* commit times of the updates that may be published
  OtherShard,     \* those whose attribute names another shard
  NumThreads,     \* MaxConcurrencyOption
  MaxPubSubFaults \* failed requests and callbacks, and second deliveries

ASSUME PubSubAssumption == PubSubMessages \subseteq Nat

VARIABLES
  pool,        \* the thread pool manager and, with it, its notifier
  sharded,     \* num_shards > 1
  undecodable, \* messages that are not base64
  sub_id_, is_set_up_,
  session_,    \* of the library: invalid, active, cancelling or finished
  watcher,     \* the thread of thread_manager_
  sleep_for_,  \* whether Duration returns at once
  backlog,     \* of the subscription
  handling,    \* messages in OnMessageReceived: before the callback, after it
  acked, rejected, \* history: acknowledged; the callback failed
  applied_time,    \* commit time of the key's value
  crashed,
  pubSubFaults

setup == <<sharded, undecodable, sub_id_, is_set_up_>>
delivery == <<backlog, handling, acked, rejected, applied_time, crashed>>
pubSubVars == <<pool, setup, session_, watcher, sleep_for_, delivery, pubSubFaults>>

PubSubInit ==
  /\ pool = "none"
  /\ sharded \in BOOLEAN /\ undecodable \in {{}, {Min(PubSubMessages)}}
  /\ sub_id_ = FALSE /\ is_set_up_ = FALSE
  /\ session_ = "invalid" /\ watcher = "none" /\ sleep_for_ = FALSE
  /\ backlog = {} /\ handling = [received |-> {}, called |-> {}]
  /\ acked = {} /\ rejected = {} /\ applied_time = 0
  /\ crashed = FALSE /\ pubSubFaults = 0

RequestFails == pubSubFaults < MaxPubSubFaults /\ pubSubFaults' = pubSubFaults + 1

InHandler == handling.received \cup handling.called

----------------------------------------------------------------------------
(* Creation and start. *)

\* The filter of the subscription.
Accepts(m) == sharded => m \notin OtherShard

SetupQueue ==
  /\ sub_id_' = TRUE
  /\ is_set_up_' = TRUE

\* A failed request leaves no notifier; the caller may try again.
CreateNotifier ==
  /\ pool = "none"
  /\ \/ SetupQueue /\ pool' = "created" /\ UNCHANGED pubSubFaults
     \/ RequestFails /\ UNCHANGED <<pool, sub_id_, is_set_up_>>
  /\ UNCHANGED <<sharded, undecodable, session_, watcher, sleep_for_, delivery>>

StartNotifier ==
  /\ pool = "created"
  /\ pool' = "running" /\ watcher' = "starting"
  /\ UNCHANGED <<setup, session_, sleep_for_, delivery, pubSubFaults>>

\* Under mutex_.
Subscribe ==
  /\ watcher = "starting"
  /\ session_' = "active" /\ watcher' = "sleeping"
  /\ UNCHANGED <<pool, setup, sleep_for_, delivery, pubSubFaults>>

WatchReturns ==
  /\ watcher = "sleeping" /\ sleep_for_
  /\ watcher' = "returned"
  /\ UNCHANGED <<pool, setup, session_, sleep_for_, delivery, pubSubFaults>>

----------------------------------------------------------------------------
(* Messages. *)

PublishMessage(m) ==
  /\ m \notin backlog \cup InHandler \cup acked
  /\ sub_id_ /\ Accepts(m)
  /\ backlog' = backlog \cup {m}
  /\ UNCHANGED <<pool, setup, session_, watcher, sleep_for_, handling, acked,
                 rejected, applied_time, crashed, pubSubFaults>>

\* A message that was acknowledged may come again.
Redeliver(m) ==
  /\ m \in acked \ (backlog \cup InHandler)
  /\ RequestFails
  /\ backlog' = backlog \cup {m}
  /\ UNCHANGED <<pool, setup, session_, watcher, sleep_for_, handling, acked,
                 rejected, applied_time, crashed>>

Deliver(m) ==
  /\ session_ \in {"active", "cancelling"} /\ m \in backlog
  /\ Cardinality(InHandler) < NumThreads
  /\ backlog' = backlog \ {m}
  /\ handling' = [handling EXCEPT !.received = @ \cup {m}]
  /\ UNCHANGED <<pool, setup, session_, watcher, sleep_for_, acked, rejected,
                 applied_time, crashed, pubSubFaults>>

Decoded(m) ==
  \/ /\ applied_time' = Max({applied_time, m})
     /\ UNCHANGED <<rejected, crashed, pubSubFaults>>
  \/ /\ RequestFails /\ rejected' = rejected \cup {m}
     /\ UNCHANGED <<applied_time, crashed>>
  \/ /\ watcher = "returned" /\ crashed' = TRUE
     /\ UNCHANGED <<rejected, applied_time, pubSubFaults>>

\* Mutant: the message is acknowledged first.
OnMessageReceivedAckFirst(m) ==
  /\ m \in handling.received
  /\ acked' = acked \cup {m}
  /\ IF m \in undecodable
     THEN UNCHANGED <<rejected, applied_time, crashed, pubSubFaults>>
     ELSE Decoded(m)
  /\ handling' = [received |-> handling.received \ {m}, called |-> handling.called \cup {m}]
  /\ UNCHANGED <<pool, setup, session_, watcher, sleep_for_, backlog>>

\* Up to the end of the callback.
OnMessageReceived(m) ==
  /\ m \in handling.received
  /\ IF m \in undecodable
     THEN UNCHANGED <<rejected, applied_time, crashed, pubSubFaults>>
     ELSE Decoded(m)
  /\ handling' = [received |-> handling.received \ {m}, called |-> handling.called \cup {m}]
  /\ UNCHANGED <<pool, setup, session_, watcher, sleep_for_, backlog, acked>>

Ack(m) ==
  /\ m \in handling.called
  /\ acked' = acked \cup {m}
  /\ handling' = [handling EXCEPT !.called = @ \ {m}]
  /\ UNCHANGED <<pool, setup, session_, watcher, sleep_for_, backlog, rejected,
                 applied_time, crashed, pubSubFaults>>

SessionFinishes ==
  /\ session_ = "cancelling" /\ InHandler = {}
  /\ session_' = "finished"
  /\ UNCHANGED <<pool, setup, watcher, sleep_for_, delivery, pubSubFaults>>

----------------------------------------------------------------------------
(* Stop and destruction. *)

CancelSession == session_' = IF session_ = "active" THEN "cancelling" ELSE session_

\* The part under mutex_, perhaps before the watcher has subscribed.
StopNotifier ==
  /\ pool = "running"
  /\ pool' = "joining"
  /\ CancelSession /\ sleep_for_' = TRUE
  /\ UNCHANGED <<setup, watcher, delivery, pubSubFaults>>

JoinWatcher ==
  /\ pool = "joining" /\ watcher = "returned"
  /\ pool' = "stopped"
  /\ UNCHANGED <<setup, session_, watcher, sleep_for_, delivery, pubSubFaults>>

\* The destructor of the notifier calls Stop once more; there is no thread to join.
DestroyNotifier ==
  /\ pool \in {"created", "stopped"}
  /\ pool' = "destroyed"
  /\ CancelSession /\ sleep_for_' = TRUE
  /\ UNCHANGED <<setup, watcher, delivery, pubSubFaults>>

----------------------------------------------------------------------------

Shutdown == JoinWatcher \/ DestroyNotifier

Library ==
  \/ \E m \in PubSubMessages : Deliver(m) \/ OnMessageReceived(m) \/ Ack(m)
  \/ SessionFinishes

PubSubNext ==
  /\ ~crashed
  /\ \/ CreateNotifier \/ StartNotifier \/ Subscribe \/ WatchReturns
     \/ \E m \in PubSubMessages : PublishMessage(m) \/ Redeliver(m)
     \/ Library
     \/ StopNotifier \/ Shutdown

PubSubSpec == PubSubInit /\ [][PubSubNext]_pubSubVars

----------------------------------------------------------------------------

PubSubTypeOK ==
  /\ pool \in {"none", "created", "running", "joining", "stopped", "destroyed"}
  /\ sharded \in BOOLEAN /\ undecodable \subseteq PubSubMessages
  /\ sub_id_ \in BOOLEAN /\ is_set_up_ \in BOOLEAN
  /\ session_ \in {"invalid", "active", "cancelling", "finished"}
  /\ watcher \in {"none", "starting", "sleeping", "returned"} /\ sleep_for_ \in BOOLEAN
  /\ backlog \subseteq PubSubMessages
  /\ handling \in [received : SUBSET PubSubMessages, called : SUBSET PubSubMessages]
  /\ acked \subseteq PubSubMessages /\ rejected \subseteq PubSubMessages
  /\ applied_time \in PubSubMessages \cup {0} /\ crashed \in BOOLEAN
  /\ Cardinality(InHandler) <= NumThreads

\* A message is acknowledged after the callback (realtime_notifier_gcp.cc:142), so
\* that it comes again if the process ends: what was acknowledged is in the cache,
\* unless it could not be decoded or the callback failed.
AcknowledgedUpdatesAreApplied ==
  \A m \in acked \ (undecodable \cup rejected) : m <= applied_time

\* Stop may run before the watcher has subscribed and then finds no session to
\* cancel (realtime_notifier_gcp.cc:69): no session is still active once the
\* notifier has been destroyed all the same.
NoSessionOutlivesItsNotifier == pool = "destroyed" => session_ # "active"

=============================================================================
