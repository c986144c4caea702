---------------------------- MODULE ServerLifecycle ----------------------------
(***************************************************************************)
(* The life of the servers of one environment: Server::Init of server.cc   *)
(* with the objects it creates in the order in which it creates them, the  *)
(* lifecycle heartbeat that holds an instance out of service until it is   *)
(* told to let go, the UDF hooks of a sharded server, which cannot be      *)
(* initialised before every shard has an instance in service, and the      *)
(* shutdown and destruction of a server.                                   *)
(*                                                                         *)
(* A call retried until it succeeds (RetryUntilOk, TraceRetryUntilOk, every *)
(* ParameterFetcher getter) is a step that may be delayed; a call whose    *)
(* error Init returns is a step that may also fail.  The autoscaling group *)
(* is external: it puts an instance in service when the launch hook is     *)
(* completed, abandons one whose heartbeats do not arrive, and replaces    *)
(* what has terminated.  Failures, crashes and requested shutdowns share   *)
(* the bound MaxFaults.                                                    *)
(***************************************************************************)
EXTENDS Naturals, FiniteSets

CONSTANTS
  Servers,          \* the instances of the environment
  ShardTag,         \* [Servers -> Nat], the instance's shard-num tag
  NumShardsChoices, \* values of the num-shards parameter to consider
  MaxFaults         \* failures, crashes and shutdowns in a behaviour

ASSUME LifecycleAssumption ==
  /\ ShardTag \in [Servers -> Nat]
  /\ NumShardsChoices \subseteq Nat \ {0}
  /\ MaxFaults \in Nat
  /\ \A n \in NumShardsChoices : n > 1 =>
       \A i \in 0..n - 1 : \E s \in Servers : ShardTag[s] = i

VARIABLES
  num_shards,  \* Server::num_shards_, the same parameter for the fleet
  stage,       \* how far main() has got on each instance
  is_running,  \* LifecycleHeartbeatImpl::is_running_
  service,     \* the group's view: before, in, or after service
  done,        \* what the current process has initialised
  threads,     \* the background threads of the current process
  health,      \* serving status of the load balancer's health check
  faults       \* faults so far

lifecycleVars == <<num_shards, stage, is_running, service, done, threads, health, faults>>

Stages == {"boot", "created", "beating", "default_udf", "listening", "notified",
           "loaded", "started", "healthy", "hooked", "ready", "waiting",
           "failed", "aborted", "graceful", "forced", "destroying",
           "udf_destroyed", "orchestrator_destroyed", "exited"}

Gone == {"exited", "aborted"}

LifecycleInit ==
  /\ num_shards \in NumShardsChoices
  /\ stage = [s \in Servers |-> "boot"]
  /\ is_running = [s \in Servers |-> FALSE]
  /\ service = [s \in Servers |-> "pre"]
  /\ done = [s \in Servers |-> {}]
  /\ threads = [s \in Servers |-> {}]
  /\ health = [s \in Servers |-> "down"]
  /\ faults = 0

At(s, from, to) == stage[s] = from /\ stage' = [stage EXCEPT ![s] = to]

Fault == faults < MaxFaults /\ faults' = faults + 1

Does(s, what) == done' = [done EXCEPT ![s] = @ \cup what]

Runs(s, names) == threads' = [threads EXCEPT ![s] = @ \cup names]

----------------------------------------------------------------------------
(* The lifecycle heartbeat. *)

\* InstanceClient::CompleteLifecycle, retried until it succeeds.  AWS answers
\* InvalidArgument when the hook is no longer open, and the client takes that
\* for success also when the hook still is.
CompleteLifecycle(s) ==
  \/ /\ service' = [service EXCEPT ![s] = IF @ = "pre" THEN "in" ELSE @]
     /\ UNCHANGED faults
  \/ Fault /\ UNCHANGED service

Finish(s) ==
  IF is_running[s]
  THEN is_running' = [is_running EXCEPT ![s] = FALSE] /\ CompleteLifecycle(s)
  ELSE UNCHANGED <<is_running, service, faults>>

----------------------------------------------------------------------------
(* Server::Init, one action per group of calls between two points where    *)
(* another instance, the group or the load balancer can notice a change.   *)

\* Init returns an error: the objects local to it are destroyed next.
InitFails(s, from) ==
  /\ At(s, from, "failed")
  /\ Fault
  /\ UNCHANGED <<num_shards, is_running, service, done, threads, health>>

\* Starts the verbosity notifier; an error of its message service or of the
\* notifier itself is logged and the server goes on without it.
InitLogger(s) == \E started \in {{}, {"verbosity"}} : Runs(s, started)

\* The environment tag is retried; the shard number tag and UdfClient::Create
\* are not.  No heartbeat exists yet, so a failure ends the process at once.
CreateDefaultInstances(s) ==
  \/ /\ At(s, "boot", "created")
     /\ InitLogger(s)
     /\ UNCHANGED <<num_shards, is_running, service, done, health, faults>>
  \/ /\ At(s, "boot", "exited")
     /\ Fault
     /\ UNCHANGED <<num_shards, is_running, service, done, threads, health>>

StartHeartbeat(s) ==
  \/ /\ At(s, "created", "beating")
     /\ is_running' = [is_running EXCEPT ![s] = TRUE]
     /\ UNCHANGED <<num_shards, service, done, threads, health, faults>>
  \/ InitFails(s, "created")

SetDefaultUdfCodeObject(s) ==
  \/ /\ At(s, "beating", "default_udf")
     /\ Does(s, {"udf"})
     /\ UNCHANGED <<num_shards, is_running, service, threads, health, faults>>
  \/ InitFails(s, "beating")

\* Mutant: the load balancer's check is set like the autoscaler's.
CreateAndStartGrpcServerServing(s) ==
  health' = [health EXCEPT ![s] = "serving"]

\* Parameters, blob client, reader factory, key fetcher, blob message service;
\* then the gRPC server, which a load balancer must not use yet, and the
\* remote lookup server of a sharded deployment.
CreateAndStartGrpcServer(s) ==
  health' = [health EXCEPT ![s] = "not_serving"]

CreateAndStartRemoteLookupServer(s) ==
  Does(s, IF num_shards = 1 THEN {} ELSE {"remote"})

StartServers(s) ==
  \/ /\ At(s, "default_udf", "listening")
     /\ CreateAndStartGrpcServer(s)
     /\ CreateAndStartRemoteLookupServer(s)
     /\ UNCHANGED <<num_shards, is_running, service, threads, faults>>
  \/ InitFails(s, "default_udf")

\* The blob change notifier, the realtime message service and the realtime
\* thread pool: an error of any of them is returned.
CreateNotifiers(s) ==
  \/ /\ At(s, "listening", "notified")
     /\ UNCHANGED <<num_shards, is_running, service, done, threads, health, faults>>
  \/ InitFails(s, "listening")

\* DataOrchestrator::TryCreate loads every file of the bucket.
CreateDataOrchestrator(s) ==
  /\ At(s, "notified", "loaded")
  /\ Does(s, {"data"})
  /\ UNCHANGED <<num_shards, is_running, service, threads, health, faults>>

StartDataOrchestrator(s) ==
  /\ At(s, "loaded", "started")
  /\ Runs(s, {"notifier", "loader", "realtime"})
  /\ UNCHANGED <<num_shards, is_running, service, done, health, faults>>

\* Mutant: the heartbeat is left to its destructor on a sharded server too.
MarkHealthyNever(s) ==
  /\ At(s, "started", "healthy")
  /\ UNCHANGED <<num_shards, is_running, service, done, threads, health, faults>>

MarkHealthy(s) ==
  /\ At(s, "started", "healthy")
  /\ IF num_shards > 1 THEN Finish(s) ELSE UNCHANGED <<is_running, service, faults>>
  /\ UNCHANGED <<num_shards, done, threads, health>>

----------------------------------------------------------------------------
(* ServerInitializer::InitializeUdfHooks. *)

\* ShardManager::Create is retried until every shard has a replica in service.
EveryShardHasReplica ==
  \A i \in 0..num_shards - 1 :
    \E t \in Servers : ShardTag[t] = i /\ service[t] = "in"

CreateShardManager(s) ==
  /\ EveryShardHasReplica
  /\ Runs(s, {"mappings"})

\* The error of ClusterMappingsManager::Start is returned.
InitializeUdfHooks(s) ==
  \/ /\ At(s, "healthy", "hooked")
     /\ IF num_shards > 1 THEN CreateShardManager(s) ELSE UNCHANGED threads
     /\ Does(s, {"hooks"})
     /\ UNCHANGED <<num_shards, is_running, service, health, faults>>
  \/ num_shards > 1 /\ EveryShardHasReplica /\ InitFails(s, "healthy")

SetServing(s) ==
  /\ At(s, "hooked", "ready")
  /\ health' = [health EXCEPT ![s] = "serving"]
  /\ UNCHANGED <<num_shards, is_running, service, done, threads, faults>>

\* ~LifecycleHeartbeatImpl, when Init returns OK and when it returns an error;
\* after an error main() aborts the process.
DestroyHeartbeat(s) ==
  \/ /\ At(s, "ready", "waiting")
     /\ Finish(s)
     /\ UNCHANGED <<num_shards, done, threads, health>>
  \/ /\ At(s, "failed", "aborted")
     /\ Finish(s)
     /\ threads' = [threads EXCEPT ![s] = {}]
     /\ health' = [health EXCEPT ![s] = "down"]
     /\ UNCHANGED <<num_shards, done>>
----------------------------------------------------------------------------
(* Shutdown. *)

\* Server::Wait returns once some other thread has shut the gRPC server down.
Wait(s) ==
  /\ At(s, "waiting", "graceful")
  /\ Fault
  /\ health' = [health EXCEPT ![s] = "down"]
  /\ UNCHANGED <<num_shards, is_running, service, done, threads>>

MaybeShutdownNotifiers(running) == running \ {"notifier", "realtime", "verbosity"}

GracefulShutdown(s) ==
  /\ At(s, "graceful", "forced")
  /\ done' = [done EXCEPT ![s] = @ \ {"remote"}]
  /\ threads' = [threads EXCEPT ![s] = MaybeShutdownNotifiers(@ \ {"mappings"})]
  /\ UNCHANGED <<num_shards, is_running, service, health, faults>>

ForceShutdown(s) ==
  /\ At(s, "forced", "destroying")
  /\ done' = [done EXCEPT ![s] = @ \ {"remote"}]
  /\ threads' = [threads EXCEPT ![s] = MaybeShutdownNotifiers(@) \ {"mappings"}]
  /\ UNCHANGED <<num_shards, is_running, service, health, faults>>

\* Members are destroyed in the reverse of the order that server.h declares
\* them in: the UDF client, then the orchestrator (whose destructor stops the
\* notifier and joins the loader thread), then the realtime pool.
DestroyUdfClient(s) ==
  /\ At(s, "destroying", "udf_destroyed")
  /\ UNCHANGED <<num_shards, is_running, service, done, threads, health, faults>>

DestroyDataOrchestrator(s) ==
  /\ At(s, "udf_destroyed", "orchestrator_destroyed")
  /\ threads' = [threads EXCEPT ![s] = @ \ {"notifier", "loader"}]
  /\ UNCHANGED <<num_shards, is_running, service, done, health, faults>>

DestroyRest(s) ==
  /\ At(s, "orchestrator_destroyed", "exited")
  /\ threads' = [threads EXCEPT ![s] = {}]
  /\ UNCHANGED <<num_shards, is_running, service, done, health, faults>>

----------------------------------------------------------------------------
(* The autoscaling group and the machines (external). *)

Dies(s) ==
  /\ stage' = [stage EXCEPT ![s] = "exited"]
  /\ threads' = [threads EXCEPT ![s] = {}]
  /\ health' = [health EXCEPT ![s] = "down"]

Crash(s) ==
  /\ stage[s] \notin Gone
  /\ Fault
  /\ Dies(s)
  /\ UNCHANGED <<num_shards, is_running, service, done>>

\* The server takes the hook for completed while it is open.
HookIsForgotten(s) == ~is_running[s] /\ stage[s] \notin {"boot", "created"}

\* The launch hook's timeout passes without a recorded heartbeat: by a fault,
\* or because the server has given up the hook.
HookExpires(s) ==
  /\ service[s] = "pre" /\ stage[s] \notin Gone
  /\ IF HookIsForgotten(s) THEN UNCHANGED faults ELSE Fault
  /\ service' = [service EXCEPT ![s] = "post"]
  /\ Dies(s)
  /\ UNCHANGED <<num_shards, is_running, done>>

\* The health check finds no process.
Terminate(s) ==
  /\ stage[s] \in Gone /\ service[s] # "post"
  /\ service' = [service EXCEPT ![s] = "post"]
  /\ UNCHANGED <<num_shards, stage, is_running, done, threads, health, faults>>

Launch(s) ==
  /\ stage[s] \in Gone /\ service[s] = "post"
  /\ stage' = [stage EXCEPT ![s] = "boot"]
  /\ service' = [service EXCEPT ![s] = "pre"]
  /\ is_running' = [is_running EXCEPT ![s] = FALSE]
  /\ done' = [done EXCEPT ![s] = {}]
  /\ UNCHANGED <<num_shards, threads, health, faults>>

----------------------------------------------------------------------------

Steps(s) ==
  \/ CreateDefaultInstances(s) \/ StartHeartbeat(s) \/ SetDefaultUdfCodeObject(s)
  \/ StartServers(s) \/ CreateNotifiers(s) \/ CreateDataOrchestrator(s)
  \/ StartDataOrchestrator(s) \/ MarkHealthy(s) \/ InitializeUdfHooks(s)
  \/ SetServing(s) \/ DestroyHeartbeat(s)
  \/ GracefulShutdown(s) \/ ForceShutdown(s) \/ DestroyUdfClient(s)
  \/ DestroyDataOrchestrator(s) \/ DestroyRest(s)

LifecycleNext ==
  \E s \in Servers :
    \/ Steps(s) \/ Wait(s) \/ Crash(s) \/ HookExpires(s) \/ Terminate(s) \/ Launch(s)

\* main() keeps running and the group keeps watching: what is retried succeeds
\* in the end, and a hook that nobody completes expires.  No fault is forced.
LifecycleFairness ==
  \A s \in Servers :
    /\ WF_lifecycleVars(Steps(s))
    /\ WF_lifecycleVars(Terminate(s) \/ Launch(s))
    /\ WF_lifecycleVars(HookIsForgotten(s) /\ HookExpires(s))

LifecycleSpec == LifecycleInit /\ [][LifecycleNext]_lifecycleVars /\ LifecycleFairness

----------------------------------------------------------------------------

LifecycleTypeOK ==
  /\ num_shards \in NumShardsChoices
  /\ stage \in [Servers -> Stages]
  /\ is_running \in [Servers -> BOOLEAN]
  /\ service \in [Servers -> {"pre", "in", "post"}]
  /\ done \in [Servers -> SUBSET {"udf", "remote", "data", "hooks"}]
  /\ threads \in [Servers -> SUBSET {"verbosity", "notifier", "loader",
                                     "realtime", "mappings"}]
  /\ health \in [Servers -> {"down", "not_serving", "serving"}]
  /\ faults \in 0..MaxFaults

\* A server that tells the load balancer to send it requests (server.cc:537)
\* has its default UDF, has loaded its data, answers UDF callbacks, and runs
\* every thread that keeps its data and its shard map fresh.
ServingIsComplete ==
  \A s \in Servers : health[s] = "serving" =>
    /\ {"udf", "data", "hooks"} \subseteq done[s]
    /\ {"notifier", "loader", "realtime"} \subseteq threads[s]
    /\ num_shards > 1 => "remote" \in done[s] /\ "mappings" \in threads[s]

\* An instance in service is one that other shards send lookups to
\* (server.cc:520-523): unless its initialisation failed, it has loaded its
\* data, and no earlier instance of it can have left it in service.
InServiceHasData ==
  \A s \in Servers :
    service[s] = "in" /\ stage[s] # "aborted" => "data" \in done[s]

\* The notifier, the loader and the realtime threads call back into the data
\* orchestrator: none of them runs once it is destroyed (server.h:136).
CallbacksHaveTheirOwner ==
  \A s \in Servers :
    stage[s] = "orchestrator_destroyed" =>
      threads[s] \cap {"notifier", "loader", "realtime"} = {}

\* The shards wait for one another in InitializeUdfHooks (server_initializer.cc
\* :160) and are released by marking themselves healthy first: after the last
\* fault the whole fleet gets to serve requests and stays there.
FleetBecomesReady ==
  <>[](\A s \in Servers : stage[s] = "waiting" /\ health[s] = "serving")

=============================================================================
