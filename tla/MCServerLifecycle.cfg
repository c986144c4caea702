SPECIFICATION LifecycleSpec
CONSTANTS
  s1 = s1
  s2 = s2
  s3 = s3
  Servers <- MCServers
  ShardTag <- MCShardTag
  NumShardsChoices <- MCNumShardsChoices
  MaxFaults = 2
INVARIANTS
  ServingIsComplete
PROPERTIES
  FleetBecomesReady
CHECK_DEADLOCK FALSE
