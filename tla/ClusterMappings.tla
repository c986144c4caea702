--------------------------- MODULE ClusterMappings ---------------------------
(***************************************************************************)
(* How a sharded server knows the other shards: the ClusterMappingsManager  *)
(* asks the InstanceClient for the instances of the environment, groups     *)
(* their addresses by shard and hands the result to the ShardManager        *)
(* (components/sharding/cluster_mappings_manager*.cc, shard_manager.cc,     *)
(* components/cloud_config/instance_client_{aws,gcp}.cc).  The fleet itself *)
(* belongs to the cloud.                                                    *)
(***************************************************************************)
EXTENDS Integers, FiniteSets, Sequences

CONSTANTS
  NumShards,       \* num_shards_
  Instances,       \* the machines that may run a server
  InstanceShard,   \* instance -> the shard number its group or label carries
  InstanceIp,      \* instance -> private address, which a later one may reuse
  InstanceZone,    \* instance -> the zone whose listing shows it
  Initially,       \* the instances in service at the start
  Autoscaled,      \* the instances that come and go
  NoShard          \* a group name or label without a shard number

ASSUME ShardsAssumption ==
  /\ NumShards \in Nat \ {0, 1}
  /\ InstanceShard \in [Instances -> Nat \cup {NoShard}]
  /\ DOMAIN InstanceIp = Instances
  /\ DOMAIN InstanceZone = Instances
  /\ Initially \cup Autoscaled \subseteq Instances

Shards == 0..NumShards - 1
Zones == {InstanceZone[i] : i \in Instances}
Ips == {InstanceIp[i] : i \in Instances}

VARIABLES
  cloud,                   \* "aws" or "gcp": which clients the server was built with
  fleet,                   \* instance -> "absent", "starting", "inService", "leaving", "gone"
  watch,                   \* what the thread that updates the mappings is doing
  cluster_mappings_,       \* shard -> addresses, <<>> until the manager is created
  remote_lookup_clients_   \* addresses that have a client

fleetVars == <<cloud, fleet>>
mappingVars == <<watch, cluster_mappings_, remote_lookup_clients_>>

-----------------------------------------------------------------------------
(* The fleet, as autoscaling changes it. *)

InitFleet ==
  /\ cloud \in {"aws", "gcp"}
  /\ fleet = [i \in Instances |-> IF i \in Initially THEN "inService" ELSE "absent"]

Running(i) == fleet[i] \in {"starting", "inService", "leaving"}

StartInstance(i) ==
  /\ fleet[i] = "absent"
  /\ \A j \in Instances : InstanceIp[j] = InstanceIp[i] => ~Running(j)
  /\ fleet' = [fleet EXCEPT ![i] = "starting"]

(* The next state of an instance that has started, one way only. *)
Later == [starting |-> "inService", inService |-> "leaving", leaving |-> "gone"]

AdvanceInstance(i) ==
  /\ Running(i)
  /\ fleet' = [fleet EXCEPT ![i] = Later[@]]

ChangeFleet(i) ==
  /\ StartInstance(i) \/ AdvanceInstance(i)
  /\ UNCHANGED <<cloud, mappingVars>>

-----------------------------------------------------------------------------
(* The InstanceClient.  On AWS an instance is usable when it is in service,  *)
(* which it is once its server has completed the lifecycle hook; on GCP it   *)
(* runs from the start and its server sets the label "initialized".          *)
AwsServiceStatus(i) ==
  CASE fleet[i] = "starting" -> "kPreService"
    [] fleet[i] = "inService" -> "kInService"
    [] OTHER -> "kPostService"

GcpServiceStatus(i) ==
  CASE fleet[i] \in {"starting", "inService"} -> "kInService"
    [] OTHER -> "kPostService"

InitializedLabel(i) == fleet[i] # "starting"

(* An AWS answer has every page or is an error; a GCP answer leaves out the  *)
(* zones that cannot be listed and is OK all the same.                       *)
AwsInstances == {i \in Instances : Running(i)}

GcpInstances ==
  {{i \in Instances : Running(i) /\ InstanceZone[i] \in zones} : zones \in SUBSET Zones}

(* The address that DescribeInstances gives, none once the machine is gone. *)
PrivateIpAddress(i) == IF Running(i) THEN {InstanceIp[i]} ELSE {}

ShardNumberOffAsgName(i) == InstanceShard[i]
ShardNumberOffLabels(i) == InstanceShard[i]

GroupAwsInstances(inService) ==
  [s \in Shards |-> UNION {PrivateIpAddress(i) :
                            i \in {j \in inService : ShardNumberOffAsgName(j) = s}}]

GroupGcpInstances(instances) ==
  [s \in Shards |-> {InstanceIp[i] : i \in {j \in instances :
                       /\ GcpServiceStatus(j) = "kInService"
                       /\ InitializedLabel(j)
                       /\ ShardNumberOffLabels(j) = s}}]

-----------------------------------------------------------------------------
(* ShardManagerImpl. *)

ValidateMapping(mappings) == \A s \in Shards : mappings[s] # {}

InsertBatch(mappings) ==
  /\ cluster_mappings_' = mappings
  /\ remote_lookup_clients_' = remote_lookup_clients_ \cup UNION {mappings[s] : s \in Shards}

Created == cluster_mappings_ # <<>>

(* The clients Get may return, one replica being drawn at random; none when  *)
(* the shard has no replica.                                                 *)
Get(s) == IF Created THEN cluster_mappings_[s] \cap remote_lookup_clients_ ELSE {}

-----------------------------------------------------------------------------
(* GetClusterMappings, in CreateShardManager first and then in Watch: the    *)
(* group is listed, on AWS the addresses are asked for in a second call.     *)
(* Each call is repeated until it is OK.                                     *)
InitMappings ==
  /\ watch = [pc |-> "list"]
  /\ cluster_mappings_ = <<>>
  /\ remote_lookup_clients_ = {}

AwsListInstances ==
  /\ cloud = "aws"
  /\ watch.pc = "list"
  /\ watch' = [pc |-> "describe",
               inService |-> {i \in AwsInstances : AwsServiceStatus(i) = "kInService"}]
  /\ UNCHANGED <<fleetVars, cluster_mappings_, remote_lookup_clients_>>

AwsDescribeInstances ==
  /\ watch.pc = "describe"
  /\ watch' = [pc |-> "insert", mappings |-> GroupAwsInstances(watch.inService)]
  /\ UNCHANGED <<fleetVars, cluster_mappings_, remote_lookup_clients_>>

GcpListInstances ==
  /\ cloud = "gcp"
  /\ watch.pc = "list"
  /\ \E instances \in GcpInstances :
       watch' = [pc |-> "insert", mappings |-> GroupGcpInstances(instances)]
  /\ UNCHANGED <<fleetVars, cluster_mappings_, remote_lookup_clients_>>

(* ShardManager::Create, repeated with new mappings until they are valid. *)
CreateShardManager ==
  /\ watch.pc = "insert"
  /\ ~Created
  /\ IF ValidateMapping(watch.mappings)
       THEN InsertBatch(watch.mappings)
       ELSE UNCHANGED <<cluster_mappings_, remote_lookup_clients_>>
  /\ watch' = [pc |-> "list"]
  /\ UNCHANGED fleetVars

WatchIfValid ==
  /\ watch.pc = "insert"
  /\ Created
  /\ IF ValidateMapping(watch.mappings)
       THEN InsertBatch(watch.mappings)
       ELSE UNCHANGED <<cluster_mappings_, remote_lookup_clients_>>
  /\ watch' = [pc |-> "list"]
  /\ UNCHANGED fleetVars

(* One turn of Watch, which does not validate. *)
Watch ==
  /\ watch.pc = "insert"
  /\ Created
  /\ InsertBatch(watch.mappings)
  /\ watch' = [pc |-> "list"]
  /\ UNCHANGED fleetVars

MappingStep ==
  \/ AwsListInstances
  \/ AwsDescribeInstances
  \/ GcpListInstances
  \/ CreateShardManager
  \/ Watch

InServiceMappings ==
  [s \in Shards |-> {InstanceIp[i] : i \in {j \in Instances : fleet[j] = "inService" /\ InstanceShard[j] = s}}]

(* A listing that misses an instance that is in service. *)
MissesZone == GcpListInstances /\ watch'.mappings # InServiceMappings
=============================================================================
