----------------------------- MODULE MCServing -----------------------------
(***************************************************************************)
(* Requests, each with at most two partitions, against two updaters.        *)
(* The partitions of the last request share an id.                          *)
(***************************************************************************)
EXTENDS GetValuesHandlers, TLC

Code(v, h, t) == [version |-> v, handler_name |-> h, logical_commit_time |-> t]
MCDefaultCode == Code(1, "HandleRequest", 0)
CONSTANTS u1, u2
\* A record with newer code, and one that is no newer than the default.
MCConfig == u1 :> Code(2, "f", 1) @@ u2 :> Code(3, "HandleRequest", 0)

Arguments(keys) == {[tags |-> {"custom", "keys"}, keys |-> keys]}
Partition(id, group, keys) ==
  [id |-> id, compression_group_id |-> group, arguments |-> Arguments(keys)]

MCRequests ==
  {[is_pas |-> FALSE, partitions |-> <<>>],
   [is_pas |-> TRUE, partitions |-> <<Partition(0, 0, {"k1"})>>],
   [is_pas |-> TRUE, partitions |-> <<Partition(0, 0, {"k1"}), Partition(1, 0, {"k1"})>>],
   [is_pas |-> FALSE, partitions |-> <<Partition(0, 0, {"k1"}), Partition(0, 0, {"k2"})>>],
   [is_pas |-> FALSE, partitions |-> <<Partition(0, 0, {"k1"}), Partition(0, 1, {"k3"})>>]}

MCV1Requests ==
  {[ns \in Namespaces |-> CASE ns = "keys" -> {{"k1", "k3"}, {"k2"}}
                            [] ns = "renderUrls" -> {{"k2"}}
                            [] OTHER -> {}]}

MCCached == [k1 |-> {[text |-> "v"]}, k2 |-> {[json |-> "[1]"]}, k3 |-> {}]
MCSetups ==
  {[use_v2_ |-> TRUE, add_missing_keys_v1_ |-> TRUE, propagate_v2_error_status |-> FALSE],
   [use_v2_ |-> FALSE, add_missing_keys_v1_ |-> FALSE, propagate_v2_error_status |-> TRUE]}
=============================================================================
