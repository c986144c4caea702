-------------------------- MODULE MCServerLifecycle --------------------------
(* A fleet of three instances over two shards, or unsharded. *)
EXTENDS ServerLifecycle, TLC

CONSTANTS s1, s2, s3

MCServers == {s1, s2, s3}
MCShardTag == s1 :> 0 @@ s2 :> 1 @@ s3 :> 1
MCNumShardsChoices == {1, 2}
=============================================================================
