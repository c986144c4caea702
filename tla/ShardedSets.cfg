SPECIFICATION Spec
CONSTANTS
  NumShards = 3
  k0 = k0
  k1 = k1
  k2 = k2
  i0 = i0
  i1 = i1
  i2 = i2
  i3 = i3
  i4 = i4
  ip0 = ip0
  ip4 = ip4
  ip1 = ip1
  ip2 = ip2
  NoShard = NoShard
  Keys = {k0, k1, k2}
  Instances = {i0, i1, i2, i3, i4}
  Initially = {i0, i1, i2, i4}
  Autoscaled = {i2, i3}
  InstanceShard <- Groups
  InstanceZone <- ZonePerShard
  InstanceIp <- Addresses
  ShardOf <- ThreeShards
  Data <- Stores
  CurrentShard = 0
  KeySets <- FirstTwo
  Queries <- SomeQueries
  Width = 2
INVARIANTS
  ShardingIsInvisible
