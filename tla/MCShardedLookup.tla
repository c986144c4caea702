--------------------------- MODULE MCShardedLookup ---------------------------
(* Instances of ShardedLookup for TLC: three shards, the server under test in *)
(* shard 0; an instance of shard 1 may take over the address of one of 2, and one group has a shard number  *)
(* out of range.                                                              *)
EXTENDS ShardedLookup

CONSTANTS k0, k1, k2, i0, i1, i2, i3, i4, ip0, ip1, ip2, ip4

ThreeShards == (k0 :> 0) @@ (k1 :> 1) @@ (k2 :> 2)

Groups == (i0 :> 0) @@ (i1 :> 1) @@ (i2 :> 2) @@ (i3 :> 1) @@ (i4 :> 7)
Addresses == (i0 :> ip0) @@ (i1 :> ip1) @@ (i2 :> ip2) @@ (i3 :> ip2) @@ (i4 :> ip4)

Stores ==
  [kValue |-> (k0 :> {"v"}) @@ (k1 :> {"w"}) @@ (k2 :> {}),
   kKeysetValues |-> (k0 :> {"a", "b"}) @@ (k1 :> {"b"}) @@ (k2 :> {"a", "c"}),
   kUint32SetValues |-> (k0 :> {0, 1}) @@ (k1 :> {1}) @@ (k2 :> {}),
   kUint64SetValues |-> (k0 :> {9}) @@ (k1 :> {}) @@ (k2 :> {9})]

ZonePerShard == (i0 :> 0) @@ (i1 :> 0) @@ (i2 :> 2) @@ (i3 :> 2) @@ (i4 :> 0)

FirstTwo == {{k0, k1}}

SomeQueries ==
  LET three == OpNode("difference", OpNode("union", ValueNode(k0), ValueNode(k2)),
                                    OpNode("union", ValueNode(k1), StringViewSetNode({"c"})))
      numbers == OpNode("union", ValueNode(k0), NumberSetNode({5, 2}))
  IN {[kind |-> "kKeysetValues", tree |-> three],
      [kind |-> "kKeysetValues", tree |-> numbers],
      [kind |-> "kUint32SetValues", tree |-> numbers]}
=============================================================================
