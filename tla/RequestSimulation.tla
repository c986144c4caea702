--------------------------- MODULE RequestSimulation ---------------------------
(***************************************************************************)
(* The request simulation system (tools/request_simulation): generators    *)
(* put requests into a bounded MessageQueue, client workers send them at   *)
(* the rate of a RateLimiter, a collector reports what was answered; and a *)
(* publisher turns the records of delta files into realtime messages that  *)
(* the threads of a ConcurrentPublishingEngine send.                       *)
(*                                                                         *)
(* Every thread belongs to a ThreadManager, or to the engine, and the main *)
(* thread stops them one after the other in RequestSimulationSystem::Stop. *)
(***************************************************************************)
EXTENDS Integers, Sequences, FiniteSets, SequencesExt, FiniteSetsExt

CONSTANTS
  ShardOf,          \* KeySharder::GetShardNumForKey
  Shards,
  Capacity,         \* --message_queue_max_capacity
  FillQps,          \* messages in one batch of the synthetic generator
  ChunkSize,        \* records of a chunk of the record writer
  Limit,            \* records that fit into a file of --realtime_message_size_kb
  Workers, Publishers,
  Setups,           \* the delta files, as sequences of keys, and who reads them; --synthetic_requests_fill_qps above
                    \* zero; --concurrency and --insertion_num_threads
  MaxFaults,        \* bound on reads and writes of files and on services that fail
  MaxBatches        \* bound on the batches of synthetic requests

VARIABLES
  setup,            \* how the system is run: a member of Setups
  main,             \* where the main thread is
  gen, pub,         \* DeltaBasedRequestGenerator, DeltaBasedRealtimeUpdatesPublisher
  syn,              \* SyntheticRequestGenerator
  queue,            \* MessageQueue
  limiter,          \* the RateLimiter of the workers
  worker,           \* ClientWorker
  collector,        \* MetricsCollector
  total,            \* what became of the requests, and of the updates
  writer,           \* the RealtimeMessageBatcher: the file writer of each shard
  messages,         \* realtime_messages_, by their place in total.pushed
  engine,           \* ConcurrentPublishingEngine
  faults

vars == <<setup, main, gen, pub, syn, queue, limiter, worker, collector, total, writer, messages,
          engine, faults>>

requests == <<syn, queue, limiter, worker, collector>>

updates == <<writer, messages, engine>>

Nobody == "nobody"

\* Nothing pushed, and nothing inserted.  For the properties: the keys of the records
\* in the order they were inserted, a record being its place in it; the messages in
\* the order they were made; and those that were published or given up.
NoTotals ==
  [made |-> 0, dropped |-> 0, sent |-> 0, ok |-> 0, failed |-> 0, reported |-> 0,
   inserted |-> <<>>, pushed |-> <<>>, published |-> {}, given_up |-> {}]

\* DeltaRecordLimitingFileWriter::Create: a file of complete chunks, and the chunk the
\* record writer fills in memory.
NewWriter == [file |-> <<>>, chunk |-> <<>>, state |-> "open"]

\* A thread that reads delta files: its queue of names, the stop_ flag, and the
\* place it is at in the file it reads.
Loader == [names |-> <<>>, stop |-> FALSE, pc |-> "off", file |-> 0, pos |-> 0]

Init ==
  /\ setup \in Setups
  /\ main = "initialized"
  /\ gen = Loader /\ pub = Loader
  /\ syn = [pc |-> "off", stop |-> FALSE, batches |-> 0]
  /\ queue = <<>>
  /\ limiter = [permits |-> 0, owner |-> Nobody]
  /\ worker = [w \in Workers |-> [pc |-> "off", stop |-> FALSE]]
  /\ collector = [pc |-> "off", stop |-> FALSE, ok |-> 0, read |-> 0]
  /\ total = NoTotals
  /\ writer = [s \in Shards |-> NewWriter]
  /\ messages = <<>>
  /\ engine = [stop |-> FALSE, pc |-> "off", spawned |-> {}, joined |-> {}, done |-> {},
               holds |-> [p \in Publishers |-> {}]]
  /\ faults = 0

(***************************************************************************)
(* MessageQueue and the generators                                         *)
(***************************************************************************)

\* MessageQueue::Push, for one message or for several: those beyond the capacity
\* are dropped.
Push(n) ==
  LET taken == Min({n, Capacity - Len(queue)})
  IN /\ queue' = queue \o [i \in 1..taken |-> "request"]
     /\ total' = [total EXCEPT !.made = @ + n, !.dropped = @ + (n - taken)]

\* The DeltaFileNotifier of a loader calls back with the name of a file, until the
\* Stop of that loader.
EnqueueNewFilesToProcess(loader, i) ==
  [loader EXCEPT !.names = Append(@, i)]

NotifyNewFile(i) ==
  /\ main # "initialized"
  /\ IF setup.feeds = "gen"
     THEN /\ i = Len(gen.names) + gen.file + 1 /\ ~gen.stop
          /\ gen' = EnqueueNewFilesToProcess(gen, i) /\ UNCHANGED pub
     ELSE /\ i = Len(pub.names) + pub.file + 1 /\ ~pub.stop
          /\ pub' = EnqueueNewFilesToProcess(pub, i) /\ UNCHANGED gen
  /\ UNCHANGED <<setup, main, requests, total, updates, faults>>

\* The head of the loop of ProcessNewFiles: wait for a name or for stop_.
NextFile(loader) ==
  IF loader.stop THEN [loader EXCEPT !.pc = "off"]
  ELSE [loader EXCEPT !.pc = "reading", !.file = Head(loader.names), !.names = Tail(@), !.pos = 1]

HasNewEventToProcess(loader) == loader.pc = "waiting" /\ (loader.stop \/ loader.names # <<>>)

\* After the last record ReadStreamRecords returns OK and the loop goes on.
AfterRecord(loader) ==
  IF loader.pos = Len(setup.files[loader.file]) THEN [loader EXCEPT !.pc = "waiting", !.pos = 0]
  ELSE [loader EXCEPT !.pos = @ + 1]

ProcessNewFilesGen ==
  /\ HasNewEventToProcess(gen)
  /\ gen' = NextFile(gen)
  /\ UNCHANGED <<setup, main, pub, requests, total, updates, faults>>

ProcessNewFilesPub ==
  /\ HasNewEventToProcess(pub)
  /\ pub' = NextFile(pub)
  /\ UNCHANGED <<setup, main, gen, requests, total, updates, faults>>

\* One record of CreateRequestsAndAddToMessageQueue: a request for its key.
CreateRequestsAndAddToMessageQueue ==
  /\ gen.pc = "reading"
  /\ gen' = AfterRecord(gen)
  /\ Push(1)
  /\ UNCHANGED <<setup, main, pub, syn, limiter, worker, collector, updates, faults>>

\* The read fails and RetryUntilOk begins the file again.
ReadFails ==
  /\ faults < MaxFaults
  /\ faults' = faults + 1
  /\ \/ gen.pc = "reading" /\ gen' = [gen EXCEPT !.pos = 1] /\ UNCHANGED pub
     \/ pub.pc = "reading" /\ pub' = [pub EXCEPT !.pos = 1] /\ UNCHANGED gen
  /\ UNCHANGED <<setup, main, requests, total, updates>>

\* One turn of SyntheticRequestGenerator::GenerateRequests; when its own rate
\* limiter times out it does nothing.
GenerateRequests ==
  /\ syn.pc = "loop"
  /\ \/ syn.stop /\ syn' = [syn EXCEPT !.pc = "off"] /\ UNCHANGED <<queue, total>>
     \/ /\ ~syn.stop /\ syn.batches < MaxBatches
        /\ syn' = [syn EXCEPT !.batches = @ + 1]
        /\ Push(FillQps)
  /\ UNCHANGED <<setup, main, gen, pub, limiter, worker, collector, updates, faults>>

(***************************************************************************)
(* RateLimiter, ClientWorker and MetricsCollector                          *)
(***************************************************************************)

\* SendRequests asks ShouldStop at the head of its loop.
SendRequests(w) == IF worker[w].stop THEN "off" ELSE "acquire"

\* RateLimiter::Acquire(1) once the mutex is free; a thread that has to sleep for
\* a permit keeps the mutex.
Acquire(w) ==
  /\ worker[w].pc = "acquire" /\ limiter.owner = Nobody
  /\ IF limiter.permits >= 1
     THEN /\ worker' = [worker EXCEPT ![w].pc = "pop"]
          /\ limiter' = [limiter EXCEPT !.permits = @ - 1]
     ELSE /\ worker' = [worker EXCEPT ![w].pc = "sleeping"]
          /\ limiter' = [limiter EXCEPT !.owner = w]
  /\ UNCHANGED <<setup, main, gen, pub, syn, queue, collector, total, updates, faults>>

\* After the sleep, RefillPermits adds the permits of the elapsed time, rounded
\* down; the deadline is checked before the permits are.
RefillPermits(w, filled, deadline) ==
  LET permits == limiter.permits + filled
  IN /\ worker[w].pc = "sleeping"
     /\ CASE deadline ->
               /\ worker' = [worker EXCEPT ![w].pc = SendRequests(w)]
               /\ limiter' = [permits |-> permits, owner |-> Nobody]
          [] ~deadline /\ permits >= 1 ->
               /\ worker' = [worker EXCEPT ![w].pc = "pop"]
               /\ limiter' = [permits |-> permits - 1, owner |-> Nobody]
          [] OTHER -> UNCHANGED <<worker, limiter>>
     /\ UNCHANGED <<setup, main, gen, pub, syn, queue, collector, total, updates, faults>>

\* MessageQueue::Pop, IncrementRequestSentPerInterval and the call to the server.
Pop(w) ==
  /\ worker[w].pc = "pop"
  /\ IF queue = <<>>
     THEN worker' = [worker EXCEPT ![w].pc = SendRequests(w)] /\ UNCHANGED <<queue, total>>
     ELSE /\ worker' = [worker EXCEPT ![w].pc = "send"]
          /\ queue' = Tail(queue)
          /\ total' = [total EXCEPT !.sent = @ + 1]
  /\ UNCHANGED <<setup, main, gen, pub, syn, limiter, collector, updates, faults>>

\* SendMessage returns: the answer, an error, or the timeout.
SendMessage(w) ==
  /\ worker[w].pc = "send"
  /\ worker' = [worker EXCEPT ![w].pc = SendRequests(w)]
  /\ \/ /\ total' = [total EXCEPT !.ok = @ + 1]
        /\ collector' = [collector EXCEPT !.ok = @ + 1]
     \/ total' = [total EXCEPT !.failed = @ + 1] /\ UNCHANGED collector
  /\ UNCHANGED <<setup, main, gen, pub, syn, queue, limiter, updates, faults>>

\* PublishMetrics: after the sleep the counters are loaded, ...
LoadMetrics ==
  /\ collector.pc = "loop"
  /\ collector' = IF collector.stop THEN [collector EXCEPT !.pc = "off"]
                  ELSE [collector EXCEPT !.pc = "reset", !.read = collector.ok]
  /\ UNCHANGED <<setup, main, gen, pub, syn, queue, limiter, worker, total, updates, faults>>

\* ... reported and set to zero, with whatever was counted in between.
ResetRequestsPerInterval ==
  /\ collector.pc = "reset"
  /\ total' = [total EXCEPT !.reported = @ + collector.read]
  /\ collector' = [collector EXCEPT !.pc = "loop", !.ok = 0, !.read = 0]
  /\ UNCHANGED <<setup, main, gen, pub, syn, queue, limiter, worker, updates, faults>>

(***************************************************************************)
(* RealtimeMessageBatcher and ConcurrentPublishingEngine                   *)
(***************************************************************************)

Fault == faults < MaxFaults /\ faults' = faults + 1

\* A mutant: the border before the last chunk that was written.
ProcessWritingFailureTooFar(w) ==
  [w EXCEPT !.file = SubSeq(@, 1, Len(@) - ChunkSize), !.chunk = <<>>, !.state = "full"]

\* ProcessWritingFailure: the file is cut back to the chunk border before the write;
\* the chunk that did not fit is gone.
ProcessWritingFailure(w) == [w EXCEPT !.chunk = <<>>, !.state = "full"]

\* WriteRecord: the record joins the chunk, and a complete chunk is written before it.
\* A writer that has failed fails again.
WriteRecord(w, record) ==
  IF w.state # "open" THEN w
  ELSE IF Len(w.chunk) < ChunkSize THEN [w EXCEPT !.chunk = Append(@, record)]
  ELSE IF Len(w.file) + ChunkSize <= Limit
    THEN [w EXCEPT !.file = @ \o w.chunk, !.chunk = <<record>>]
  ELSE ProcessWritingFailure(w)

\* GetMessage: the content of the file of a shard, tagged with the shard.  cut is, for
\* the properties, the record at which the file was full.
GetMessage(shard, w, record) == [shard |-> shard, records |-> w.file, cut |-> record]

\* Insert one record of CreateRealtimeMessagesAndAddToQueue, whose errors are logged.
\* When the file of the shard is full its content becomes a message and a new file is
\* begun; the record that did not fit goes into neither.  When no file can be made the
\* old writer stays.  Any other error of the writer is returned.
Insert ==
  LET key == setup.files[pub.file][pub.pos]
      shard == ShardOf[key]
      record == Len(total.inserted) + 1
      written == WriteRecord(writer[shard], record)
  IN /\ pub.pc = "reading"
     /\ pub' = AfterRecord(pub)
     /\ \/ /\ written.state # "full"
           /\ writer' = [writer EXCEPT ![shard] = written]
           /\ total' = [total EXCEPT !.inserted = Append(@, key)]
           /\ UNCHANGED <<messages, faults>>
        \/ /\ Fault
           /\ writer[shard].state = "open" /\ Len(writer[shard].chunk) = ChunkSize
           /\ writer' = [writer EXCEPT ![shard].state = "failed"]
           /\ total' = [total EXCEPT !.inserted = Append(@, key)]
           /\ UNCHANGED messages
        \/ /\ written.state = "full"
           /\ total' = [total EXCEPT !.inserted = Append(@, key),
                                     !.pushed = Append(@, GetMessage(shard, written, record))]
           /\ messages' = Append(messages, Len(total.pushed) + 1)
           /\ \/ writer' = [writer EXCEPT ![shard] = NewWriter] /\ UNCHANGED faults
              \/ writer' = [writer EXCEPT ![shard] = written] /\ Fault
     /\ UNCHANGED <<setup, main, gen, requests, engine>>

\* ConcurrentPublishingEngine::Start, in the thread of rt_publisher_thread_manager_:
\* one thread after the other, then it returns.  A thread whose PublisherService
\* cannot be created ends at once.
EngineStart(p) ==
  /\ engine.pc = "starting" /\ p \in setup.publishers \ engine.spawned
  /\ \E ended \in SUBSET {p} :
       /\ IF ended = {} THEN UNCHANGED faults ELSE Fault
       /\ engine' = [engine EXCEPT !.spawned = @ \cup {p}, !.done = @ \cup ended,
                                   !.pc = IF engine.spawned \cup {p} = setup.publishers THEN "off" ELSE @]
  /\ UNCHANGED <<setup, main, gen, pub, requests, total, writer, messages>>

HasMessage == messages # <<>>

HasNewMessageToProcess == messages # <<>> \/ engine.stop

\* ShouldStop and Pop: the oldest message, or the end of the thread.
PopMessage(p) ==
  /\ p \in engine.spawned \ engine.done /\ engine.holds[p] = {}
  /\ HasNewMessageToProcess
  /\ IF engine.stop
     THEN engine' = [engine EXCEPT !.done = @ \cup {p}] /\ UNCHANGED messages
     ELSE /\ engine' = [engine EXCEPT !.holds[p] = {Head(messages)}]
          /\ messages' = Tail(messages)
  /\ UNCHANGED <<setup, main, gen, pub, requests, total, writer, faults>>

\* Publish; a message whose publication fails is logged and given up.
ConsumeAndPublish(p) ==
  /\ engine.holds[p] # {}
  /\ engine' = [engine EXCEPT !.holds[p] = {}]
  /\ \/ total' = [total EXCEPT !.published = @ \cup engine.holds[p]]
     \/ total' = [total EXCEPT !.given_up = @ \cup engine.holds[p]]
  /\ UNCHANGED <<setup, main, gen, pub, requests, writer, messages, faults>>

(***************************************************************************)
(* RequestSimulationSystem: Start and Stop                                 *)
(***************************************************************************)

\* Each part starts its threads; the synthetic generator only for a rate above zero.
Start ==
  /\ main = "initialized" /\ main' = "running"
  /\ gen' = [gen EXCEPT !.pc = "waiting"]
  /\ pub' = [pub EXCEPT !.pc = "waiting"]
  /\ engine' = [engine EXCEPT !.pc = IF setup.publishers = {} THEN "off" ELSE "starting"]
  /\ syn' = IF setup.synthetic THEN [syn EXCEPT !.pc = "loop"] ELSE syn
  /\ worker' = [w \in Workers |-> [worker[w] EXCEPT !.pc = IF w \in setup.workers THEN "acquire" ELSE @]]
  /\ collector' = [collector EXCEPT !.pc = "loop"]
  /\ UNCHANGED <<setup, queue, limiter, total, writer, messages, faults>>

\* DeltaBasedRealtimeUpdatesPublisher::Stop: stop_ and the notifier, ...
StopPublisher ==
  /\ main = "running" /\ main' = "stop_engine"
  /\ pub' = [pub EXCEPT !.stop = TRUE]
  /\ UNCHANGED <<setup, gen, requests, total, updates, faults>>

\* ... ConcurrentPublishingEngine::Stop, which joins the threads it finds in
\* publishers_, ...
StopEngine ==
  /\ main = "stop_engine" /\ main' = "join_publishers"
  /\ engine' = [engine EXCEPT !.stop = TRUE]
  /\ UNCHANGED <<setup, gen, pub, requests, total, writer, messages, faults>>

JoinPublishers ==
  /\ main = "join_publishers" /\ main' = "join_engine"
  /\ engine.spawned \subseteq engine.done
  /\ engine' = [engine EXCEPT !.joined = engine.spawned]
  /\ UNCHANGED <<setup, gen, pub, requests, total, writer, messages, faults>>

\* ... and the two threads of the publisher; then DeltaBasedRequestGenerator::Stop.
StopGenerator ==
  /\ main = "join_engine" /\ main' = "join_gen"
  /\ engine.pc = "off" /\ pub.pc = "off"
  /\ gen' = [gen EXCEPT !.stop = TRUE]
  /\ UNCHANGED <<setup, pub, requests, total, updates, faults>>

\* SyntheticRequestGenerator::Stop: ThreadManager::Stop is an error for a thread
\* that was not started, and RequestSimulationSystem::Stop returns it.
StopSynthetic ==
  /\ main = "join_gen" /\ gen.pc = "off"
  /\ IF syn.pc = "off"
     THEN main' = "failed" /\ UNCHANGED syn
     ELSE main' = "join_syn" /\ syn' = [syn EXCEPT !.stop = TRUE]
  /\ UNCHANGED <<setup, gen, pub, queue, limiter, worker, collector, total, updates, faults>>

StopCollector ==
  /\ main = "join_syn" /\ main' = "join_collector"
  /\ syn.pc = "off"
  /\ collector' = [collector EXCEPT !.stop = TRUE]
  /\ UNCHANGED <<setup, gen, pub, syn, queue, limiter, worker, total, updates, faults>>

\* The workers are stopped and joined one after the other.
StopWorker(w) ==
  /\ main \in {"join_collector", "stop_workers"} /\ main' = "stop_workers"
  /\ w \in setup.workers
  /\ collector.pc = "off" /\ ~worker[w].stop
  /\ \A v \in Workers : worker[v].stop => worker[v].pc = "off"
  /\ worker' = [worker EXCEPT ![w].stop = TRUE]
  /\ UNCHANGED <<setup, gen, pub, syn, queue, limiter, collector, total, updates, faults>>

Stopped ==
  /\ main \in {"join_collector", "stop_workers"} /\ main' = "stopped"
  /\ collector.pc = "off"
  /\ \A w \in setup.workers : worker[w].stop /\ worker[w].pc = "off"
  /\ UNCHANGED <<setup, gen, pub, requests, total, updates, faults>>

Stop ==
  \/ StopEngine \/ JoinPublishers \/ StopGenerator \/ StopSynthetic \/ StopCollector
  \/ (\E w \in Workers : StopWorker(w)) \/ Stopped

Next ==
  \/ Start \/ StopPublisher \/ Stop
  \/ \E i \in DOMAIN setup.files : NotifyNewFile(i)
  \/ ProcessNewFilesGen \/ ProcessNewFilesPub
  \/ CreateRequestsAndAddToMessageQueue \/ ReadFails \/ GenerateRequests
  \/ \E w \in Workers :
       \/ Acquire(w) \/ Pop(w) \/ SendMessage(w)
       \/ \E filled \in 0..1, deadline \in BOOLEAN : RefillPermits(w, filled, deadline)
  \/ LoadMetrics \/ ResetRequestsPerInterval
  \/ Insert
  \/ \E p \in Publishers : EngineStart(p) \/ PopMessage(p) \/ ConsumeAndPublish(p)

\* Every thread that can run runs. The mutex of the limiter is handed on in turn,
\* and a thread that sleeps for a permit finds the clock advanced, so that
\* RefillPermits fills one sooner or later. A read that fails may never succeed:
\* the bound on faults stands for a file that is readable in the end.
Fairness ==
  /\ WF_vars(Stop)
  /\ WF_vars(ProcessNewFilesGen) /\ WF_vars(ProcessNewFilesPub)
  /\ WF_vars(CreateRequestsAndAddToMessageQueue) /\ WF_vars(Insert)
  /\ WF_vars(GenerateRequests) /\ WF_vars(LoadMetrics) /\ WF_vars(ResetRequestsPerInterval)
  /\ \A w \in Workers :
       /\ SF_vars(Acquire(w)) /\ WF_vars(Pop(w)) /\ WF_vars(SendMessage(w))
       /\ SF_vars(\E deadline \in BOOLEAN : RefillPermits(w, 1, deadline))
  /\ \A p \in Publishers :
       WF_vars(EngineStart(p)) /\ WF_vars(PopMessage(p)) /\ WF_vars(ConsumeAndPublish(p))

Spec == Init /\ [][Next]_vars /\ Fairness

(***************************************************************************)
(* Properties                                                              *)
(***************************************************************************)

\* The queue never holds more than its capacity (MessageQueue::Push), a file of the
\* batcher never more than its limit, and no thread takes a permit that is not there.
TypeOK ==
  /\ main \in {"initialized", "running", "stop_engine", "join_publishers", "join_engine",
               "join_gen", "join_syn", "join_collector", "stop_workers", "stopped", "failed"}
  /\ gen.pc \in {"off", "waiting", "reading"} /\ pub.pc \in {"off", "waiting", "reading"}
  /\ Len(queue) \in 0..Capacity
  /\ limiter.permits \in 0..1 /\ limiter.owner \in Workers \cup {Nobody}
  /\ \A w \in Workers : worker[w].pc \in {"off", "acquire", "sleeping", "pop", "send"}
  /\ \A s \in Shards : Len(writer[s].file) \in 0..Limit /\ Len(writer[s].chunk) \in 0..ChunkSize
  /\ engine.joined \subseteq engine.done /\ engine.done \subseteq engine.spawned

InFlight == {w \in Workers : worker[w].pc = "send"}

\* Each request that a generator pushed was dropped at the capacity of the queue, is
\* queued, or was popped by exactly one worker, which has it in flight or got one answer.
RequestsAreAccounted ==
  /\ total.made = total.dropped + Len(queue) + total.sent
  /\ total.sent = Cardinality(InFlight) + total.ok + total.failed

\* Each message that the batcher made is queued, is with one publisher thread, or was
\* published or given up, once.
MessagesAreAccounted ==
  LET held == UNION {engine.holds[p] : p \in Publishers}
      places == <<ToSet(messages), held, total.published, total.given_up>>
  IN /\ DOMAIN total.pushed = UNION ToSet(places)
     /\ \A i, j \in DOMAIN places : i # j => places[i] \cap places[j] = {}
     /\ \A p, q \in Publishers : p # q => engine.holds[p] \cap engine.holds[q] = {}

RecordsOf(s) == {r \in DOMAIN total.inserted : ShardOf[total.inserted[r]] = s}

\* The messages and the file of a shard, in their order.
BatchesOf(s) ==
  LET mine == SelectSeq(total.pushed, LAMBDA m : m.shard = s)
      open == IF writer[s].state = "full" THEN <<>> ELSE writer[s].file \o writer[s].chunk
  IN [i \in DOMAIN mine |-> mine[i].records] \o <<open>>

\* The place of a record among those of its shard.
Place(s, r) == Cardinality({q \in RecordsOf(s) : q <= r})

\* The batches of a shard hold records of that shard, in the order they were inserted
\* and each in one batch only, unless a batch was made again because no file could be
\* made.  A record is in no batch only if it was lost with the chunk at which a file
\* was full, or came to a writer that had failed.
RecordsAreBatched ==
  \A s \in Shards :
    LET batches == BatchesOf(s)
        Missing == RecordsOf(s) \ UNION {ToSet(batches[i]) : i \in DOMAIN batches}
    IN /\ \A i \in DOMAIN batches :
            /\ ToSet(batches[i]) \subseteq RecordsOf(s)
            /\ \A k, n \in DOMAIN batches[i] : k < n => batches[i][k] < batches[i][n]
            /\ \A j \in DOMAIN batches : i < j =>
                 \/ batches[i] = batches[j]
                 \/ \A r \in ToSet(batches[i]), q \in ToSet(batches[j]) : r < q
       /\ \A r \in Missing :
            \/ writer[s].state = "failed" /\ \A q \in ToSet(writer[s].file) : q < r
            \/ \E m \in ToSet(total.pushed) :
                 m.shard = s /\ Place(s, r) \in Place(s, m.cut) - ChunkSize .. Place(s, m.cut)

\* Between the threads nothing is doubled or counted twice, and nothing is lost but what
\* the code gives up: a request at the capacity of the queue, a message whose
\* publication fails, the records of the last chunk of a file that is full, and those
\* that come to a file that failed.
EverythingIsAccounted == RequestsAreAccounted /\ MessagesAreAccounted /\ RecordsAreBatched

\* Stop returns: no join waits for ever, whatever the other threads do.
StopReturns == main = "stop_engine" ~> main \in {"stopped", "failed"}

=============================================================================
