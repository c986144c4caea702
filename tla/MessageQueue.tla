------------------------------ MODULE MessageQueue ------------------------------
(***************************************************************************)
(* The queue through which a server hears of changes on AWS.  The threads  *)
(* of a notifier share one AwsMessageService (msg_svc_aws.cc), which       *)
(* creates an SQS queue and subscribes it to the topic, and each has an    *)
(* AwsChangeNotifier (change_notifier_aws.cc), which polls the queue,      *)
(* deletes what it has received and has the queue made anew when it is     *)
(* gone.  SQS, SNS and the failures of calls to them are external; the     *)
(* cleanup lambda (sqs_cleanup_manager.py) is not.                         *)
(*                                                                         *)
(* What the threads do with the messages is in Notifications.              *)
(***************************************************************************)
EXTENDS Naturals, FiniteSets, FiniteSetsExt

CONSTANTS
  Threads,        \* the threads that share the message service
  Messages,       \* the messages published on the topic, numbered from 1
  MaxQueues,      \* queues the service may create
  MaxFaults       \* failed calls and deleted queues in a behaviour

ASSUME MessageQueueAssumption ==
  /\ Messages \subseteq Nat \ {0}
  /\ MaxQueues \in Nat /\ MaxFaults \in Nat

VARIABLES
  is_set_up, sqs_url, sqs_arn, are_attributes_set,  \* AwsMessageService
  queue,      \* the state of each queue
  inbox,      \* the messages that can be received from it
  in_flight,  \* the messages received from it and not deleted
  published,  \* messages published so far
  lost,       \* history: published to no queue of ours, or deleted unread
  faults,
  pc, url, batch  \* each thread: where it is, the queue it uses, what it got

service == <<is_set_up, sqs_url, sqs_arn, are_attributes_set>>
cloud == <<queue, inbox, in_flight, published, lost>>
queueVars == <<service, cloud, faults, pc, url, batch>>

Queues == 1..MaxQueues
NoUrl == 0

QueueInit ==
  /\ is_set_up = FALSE /\ sqs_url = NoUrl
  /\ sqs_arn = FALSE /\ are_attributes_set = FALSE
  /\ queue = [q \in Queues |-> "unused"]
  /\ inbox = [q \in Queues |-> {}]
  /\ in_flight = [q \in Queues |-> {}]
  /\ published = {} /\ lost = {} /\ faults = 0
  /\ pc = [t \in Threads |-> "watch"]
  /\ url = [t \in Threads |-> NoUrl]
  /\ batch = [t \in Threads |-> {}]

Fault == faults < MaxFaults /\ faults' = faults + 1

Goes(t, from, to) == pc[t] = from /\ pc' = [pc EXCEPT ![t] = to]

\* The name of a queue is random; here queues are used in order.
IsFresh(q) == queue[q] = "unused" /\ \A p \in 1..(q - 1) : queue[p] # "unused"

Exists(q) == q # NoUrl /\ queue[q] \notin {"unused", "deleted"}

\* What happens to a queue that nobody will read again is left out.
IsInUse(q) == q = sqs_url \/ \E t \in Threads : url[t] = q

----------------------------------------------------------------------------
(* AwsMessageService. *)

\* One call of SetupQueue under mutex_.  `reached` counts the requests that
\* have been dealt with when it returns: 0 nothing, 1 CreateQueue, 2 GetQueueArn,
\* 3 SetQueueAttributes, 4 TagQueue, 5 SubscribeQueue.  A request about a queue
\* that was deleted meanwhile cannot succeed.
SetupQueue(t) ==
  /\ pc[t] = "setup"
  /\ \E q \in Queues, reached \in 0..5 :
       LET gone == sqs_url # NoUrl /\ queue[q] = "deleted"
           stopsAt == IF ~sqs_arn THEN 1 ELSE IF ~are_attributes_set THEN 2 ELSE 3
           known == (IF sqs_url # NoUrl THEN 1 ELSE 0)
       IN
       /\ IF sqs_url = NoUrl THEN IsFresh(q) ELSE q = sqs_url
       /\ reached >= known /\ (gone => reached = stopsAt)
       /\ IF reached = 5 \/ gone THEN UNCHANGED faults ELSE Fault
       /\ sqs_url' = IF reached >= 1 THEN q ELSE NoUrl
       /\ sqs_arn' = (sqs_arn \/ reached >= 2)
       /\ are_attributes_set' = (are_attributes_set \/ reached >= 3)
       /\ is_set_up' = (is_set_up \/ reached = 5)
       /\ queue' = [queue EXCEPT ![q] =
                      IF gone \/ reached = 0 THEN @
                      ELSE IF reached = 5 THEN "subscribed"
                      ELSE IF @ = "unused" THEN "created" ELSE @]
       /\ pc' = [pc EXCEPT ![t] = IF reached = 5 THEN "poll" ELSE "watch"]
  /\ UNCHANGED <<inbox, in_flight, published, lost, url, batch>>

\* What the current queue still holds is not read any more, but by a request that
\* another thread has made.
Reset(t) ==
  /\ Goes(t, "reset", "watch")
  /\ is_set_up' = FALSE /\ sqs_url' = NoUrl
  /\ sqs_arn' = FALSE /\ are_attributes_set' = FALSE
  /\ lost' = IF sqs_url = NoUrl THEN lost
             ELSE lost \cup inbox[sqs_url] \cup in_flight[sqs_url]
  /\ inbox' = [q \in Queues |-> IF \E u \in Threads : url[u] = q THEN inbox[q] ELSE {}]
  /\ in_flight' = [q \in Queues |-> IF \E u \in Threads : url[u] = q THEN in_flight[q] ELSE {}]
  /\ UNCHANGED <<queue, published, faults, url, batch>>

----------------------------------------------------------------------------
(* AwsChangeNotifier. *)

\* GetNotifications begins: is the queue set up?
GetNotifications(t) ==
  /\ pc' = [pc EXCEPT ![t] = IF is_set_up THEN "poll" ELSE "setup"]
  /\ UNCHANGED <<service, cloud, faults, url, batch>>

\* The URL is read before the request is made; another thread may have reset it.
GetSqsUrl(t) ==
  /\ Goes(t, "poll", "receive")
  /\ url' = [url EXCEPT ![t] = sqs_url]
  /\ UNCHANGED <<service, cloud, faults, batch>>

\* The request is over.
Forget(t) == url' = [url EXCEPT ![t] = NoUrl]

\* ReceiveMessage finds no message within the wait: DeadlineExceeded.
NoMessagesFound(t) ==
  /\ Goes(t, "receive", "deadline")
  /\ Exists(url[t]) /\ inbox[url[t]] = {}
  /\ Forget(t)
  /\ UNCHANGED <<service, cloud, faults, batch>>

\* It fails: in a way that a retry may cure, or in one that it cannot, and then the
\* service is reset. The queue may be gone (or the URL empty); an error of another
\* kind that is not to be retried gives up a queue that exists and is subscribed.
ReceiveFails(t) ==
  /\ \/ Goes(t, "receive", "watch") /\ Exists(url[t])
     \/ Goes(t, "receive", "reset")
  /\ IF Exists(url[t]) THEN Fault ELSE UNCHANGED faults
  /\ Forget(t)
  /\ UNCHANGED <<service, cloud, batch>>

ReceiveMessages(t) ==
  /\ Goes(t, "receive", "delete")
  /\ Exists(url[t])
  /\ \E received \in SUBSET inbox[url[t]] :
       /\ received # {}
       /\ batch' = [batch EXCEPT ![t] = received]
       /\ inbox' = [inbox EXCEPT ![url[t]] = @ \ received]
       /\ in_flight' = [in_flight EXCEPT ![url[t]] = @ \cup received]
  /\ UNCHANGED <<service, queue, published, lost, faults, url>>

\* The messages are deleted from the queue whose URL the service has now, before
\* anyone has looked at them; a failure is logged.
DeleteMessages(t) ==
  /\ Goes(t, "delete", "parse")
  /\ \/ /\ sqs_url = url[t]
        /\ in_flight' = [in_flight EXCEPT ![url[t]] = @ \ batch[t]]
        /\ UNCHANGED faults
     \/ IF sqs_url = url[t] /\ Exists(sqs_url)
        THEN Fault /\ UNCHANGED in_flight
        ELSE UNCHANGED <<in_flight, faults>>
  /\ Forget(t)
  /\ UNCHANGED <<service, queue, inbox, published, lost, batch>>

----------------------------------------------------------------------------
(* SNS and SQS (external). *)

Subscribed == {q \in Queues : queue[q] = "subscribed"}

Publish(m) ==
  /\ m \notin published
  /\ published' = published \cup {m}
  /\ inbox' = [q \in Queues |-> IF q \in Subscribed /\ IsInUse(q) THEN inbox[q] \cup {m} ELSE inbox[q]]
  /\ lost' = IF sqs_url \in Subscribed THEN lost ELSE lost \cup {m}
  /\ UNCHANGED <<service, queue, in_flight, faults, pc, url, batch>>

\* A message that was received and not deleted becomes visible again.
VisibilityTimeout(q) ==
  LET pending == {t \in Threads : pc[t] = "delete" /\ url[t] = q}
      back == in_flight[q] \ UNION {batch[t] : t \in pending}
  IN
  /\ back # {} /\ IsInUse(q)
  /\ inbox' = [inbox EXCEPT ![q] = @ \cup back]
  /\ in_flight' = [in_flight EXCEPT ![q] = @ \ back]
  /\ UNCHANGED <<service, queue, published, lost, faults, pc, url, batch>>

----------------------------------------------------------------------------
(* The cleanup lambda. *)

\* A queue is expired when its last_updated tag (or, without one, its creation) is
\* too old or cannot be read.  Without clocks, any subscribed queue may look so.
LooksExpired(q) == queue[q] = "subscribed" /\ IsInUse(q) /\ Fault

\* It is deleted together with its subscription.
Cleanup(q) ==
  /\ LooksExpired(q)
  /\ queue' = [queue EXCEPT ![q] = "deleted"]
  /\ inbox' = [inbox EXCEPT ![q] = {}]
  /\ in_flight' = [in_flight EXCEPT ![q] = {}]
  /\ lost' = IF q = sqs_url THEN lost \cup inbox[q] \cup in_flight[q] ELSE lost
  /\ UNCHANGED <<service, published, pc, url, batch>>

\* _does_queue_exist takes every exception for "no": when get_queue_url fails for
\* another reason the subscription of an existing queue is deleted, and the
\* server, whose polls still succeed, never subscribes it again.
DeleteDanglingSubscription(q) ==
  /\ queue[q] = "subscribed" /\ IsInUse(q)
  /\ Fault
  /\ queue' = [queue EXCEPT ![q] = "unsubscribed"]
  /\ UNCHANGED <<service, inbox, in_flight, published, lost, pc, url, batch>>

----------------------------------------------------------------------------

QueueSteps(t) ==
  \/ SetupQueue(t) \/ Reset(t) \/ GetSqsUrl(t)
  \/ NoMessagesFound(t) \/ ReceiveFails(t) \/ ReceiveMessages(t) \/ DeleteMessages(t)

CloudSteps ==
  \E q \in Queues : VisibilityTimeout(q) \/ Cleanup(q) \/ DeleteDanglingSubscription(q)

QueueTypeOK ==
  /\ is_set_up \in BOOLEAN /\ sqs_arn \in BOOLEAN /\ are_attributes_set \in BOOLEAN
  /\ sqs_url \in Queues \cup {NoUrl}
  /\ queue \in [Queues -> {"unused", "created", "subscribed", "unsubscribed", "deleted"}]
  /\ inbox \in [Queues -> SUBSET Messages]
  /\ in_flight \in [Queues -> SUBSET Messages]
  /\ published \subseteq Messages /\ lost \subseteq published
  /\ faults \in 0..MaxFaults
  /\ url \in [Threads -> Queues \cup {NoUrl}]
  /\ batch \in [Threads -> SUBSET Messages]
=============================================================================
