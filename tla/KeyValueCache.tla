---------------------------- MODULE KeyValueCache ----------------------------
(***************************************************************************)
(* The string key-value map of the in-memory cache                         *)
(* (components/data_server/cache/key_value_cache.cc).  Mutations carry a    *)
(* logical commit time and may arrive in any order; a deleted key leaves a  *)
(* tombstone (a null value that keeps its time) so that a late update with  *)
(* a smaller time loses.  Tombstones are recorded per prefix (the directory *)
(* of the file the mutation came from) and reclaimed by the cleanup that    *)
(* follows the load of a file, which also raises that prefix's cutoff:      *)
(* mutations at or below the cutoff are dropped from then on.               *)
(*                                                                         *)
(* Every operation runs under mutex_, so each is one action.                *)
(***************************************************************************)
EXTENDS Integers

CONSTANTS
  Keys, Values, Prefixes,
  Times,    \* logical_commit_time of the mutations (int64_t in the code)
  Routes,   \* the <<key, prefix>> pairs under which mutations arrive
  Null,     \* a null CacheValue::value, and what a reader gets on a miss
  Missing   \* a key that has no entry in map_

CacheValue ==
  [value : Values \cup {Null}, last_logical_commit_time : Times]

ASSUME ConstantsAssumption ==
  /\ Times \subseteq Int
  /\ 0 \in Times
  /\ Routes \subseteq Keys \X Prefixes
  /\ Null \notin Values
  /\ Missing \notin CacheValue

VARIABLES
  map_,                 \* key -> CacheValue, or Missing
  deleted_nodes_map_,   \* prefix -> multimap of <<time, key>> (entry -> count)
  max_cleanup_logical_commit_time_map_,   \* prefix -> cutoff
  newest                \* history: the newest mutation of each key that was
                        \* above its prefix's cutoff when it arrived

vars == <<map_, deleted_nodes_map_, max_cleanup_logical_commit_time_map_, newest>>

Cutoff(prefix) == max_cleanup_logical_commit_time_map_[prefix]

Init ==
  /\ map_ = [k \in Keys |-> Missing]
  /\ deleted_nodes_map_ = [p \in Prefixes |-> [e \in Times \X Keys |-> 0]]
  /\ max_cleanup_logical_commit_time_map_ = [p \in Prefixes |-> 0]
  /\ newest = [k \in Keys |-> [value |-> Null, last_logical_commit_time |-> 0]]

(* What GetKeyValuePairs returns for one key; a tombstone is a miss. *)
GetKeyValue(key) == IF map_[key] = Missing THEN Null ELSE map_[key].value

IsTombstone(key) == map_[key] # Missing /\ map_[key].value = Null

(* History: the last-writer-wins register that the cache should behave as. *)
Observe(key, value, t, prefix) ==
  newest' =
    IF t > Cutoff(prefix) /\ t > newest[key].last_logical_commit_time
      THEN [newest EXCEPT ![key] = [value |-> value, last_logical_commit_time |-> t]]
      ELSE newest

-----------------------------------------------------------------------------
SkipsMutation_NoCutoff(key, t, prefix) ==
  map_[key] # Missing /\ map_[key].last_logical_commit_time >= t

(* The early returns: not newer than the cutoff, or than the current entry. *)
SkipsMutation(key, t, prefix) ==
  \/ t <= Cutoff(prefix)
  \/ map_[key] # Missing /\ map_[key].last_logical_commit_time >= t

(* multimap::find(time) may return any entry with that time; it is erased    *)
(* only when it is the entry of this key.                                    *)
EraseDeletedNode(key, prefix) ==
  LET time == map_[key].last_logical_commit_time
      found == {k \in Keys : deleted_nodes_map_[prefix][<<time, k>>] > 0}
  IN  \/ /\ key \in found
         /\ deleted_nodes_map_' =
              [deleted_nodes_map_ EXCEPT ![prefix][<<time, key>>] = @ - 1]
      \/ /\ found # {key}
         /\ UNCHANGED deleted_nodes_map_

UpdateKeyValue(key, value, t, prefix) ==
  /\ Observe(key, value, t, prefix)
  /\ UNCHANGED max_cleanup_logical_commit_time_map_
  /\ \/ /\ SkipsMutation(key, t, prefix)
        /\ UNCHANGED <<map_, deleted_nodes_map_>>
     \/ /\ ~SkipsMutation(key, t, prefix)
        /\ IF IsTombstone(key)
             THEN EraseDeletedNode(key, prefix)
             ELSE UNCHANGED deleted_nodes_map_
        /\ map_' = [map_ EXCEPT ![key] =
                      [value |-> value, last_logical_commit_time |-> t]]

EmplaceDeletedNode_Existing(key, t, prefix) ==
  deleted_nodes_map_' =
    IF map_[key] = Missing THEN deleted_nodes_map_
    ELSE [deleted_nodes_map_ EXCEPT ![prefix][<<t, key>>] = @ + 1]

EmplaceDeletedNode(key, t, prefix) ==
  deleted_nodes_map_' = [deleted_nodes_map_ EXCEPT ![prefix][<<t, key>>] = @ + 1]

DeleteKey(key, t, prefix) ==
  /\ Observe(key, Null, t, prefix)
  /\ UNCHANGED max_cleanup_logical_commit_time_map_
  /\ \/ /\ SkipsMutation(key, t, prefix)
        /\ UNCHANGED <<map_, deleted_nodes_map_>>
     \/ /\ ~SkipsMutation(key, t, prefix)
        /\ map_' = [map_ EXCEPT ![key] =
                      [value |-> Null, last_logical_commit_time |-> t]]
        /\ EmplaceDeletedNode(key, t, prefix)

Reclaimed_AnyValue(key, t) ==
  map_[key] # Missing /\ map_[key].last_logical_commit_time <= t

Reclaimed(key, t) ==
  IsTombstone(key) /\ map_[key].last_logical_commit_time <= t

CleanUpKeyValueMap(t, prefix) ==
  LET due == {k \in Keys : \E s \in Times :
                s <= t /\ deleted_nodes_map_[prefix][<<s, k>>] > 0}
  IN  /\ max_cleanup_logical_commit_time_map_' =
           [max_cleanup_logical_commit_time_map_ EXCEPT
              ![prefix] = IF @ < t THEN t ELSE @]
      /\ map_' = [k \in Keys |->
                    IF k \in due /\ Reclaimed(k, t) THEN Missing ELSE map_[k]]
      /\ deleted_nodes_map_' =
           [deleted_nodes_map_ EXCEPT ![prefix] =
              [e \in Times \X Keys |-> IF e[1] <= t THEN 0 ELSE @[e]]]
      /\ UNCHANGED newest

Next ==
  \/ \E r \in Routes, v \in Values, t \in Times : UpdateKeyValue(r[1], v, t, r[2])
  \/ \E r \in Routes, t \in Times : DeleteKey(r[1], t, r[2])
  \/ \E p \in Prefixes, t \in Times : CleanUpKeyValueMap(t, p)

Spec == Init /\ [][Next]_vars

-----------------------------------------------------------------------------
(* Type invariant; in particular no multimap entry is erased that is absent. *)
TypeOK ==
  /\ map_ \in [Keys -> CacheValue \cup {Missing}]
  /\ deleted_nodes_map_ \in [Prefixes -> [Times \X Keys -> Nat]]
  /\ max_cleanup_logical_commit_time_map_ \in [Prefixes -> Times]
  /\ newest \in [Keys -> CacheValue]

(* All mutations of the key come from one prefix: not, for instance, from    *)
(* the files of a directory and from realtime updates (prefix "").           *)
OnePrefix(key) ==
  \A r1, r2 \in Routes : r1[1] = key /\ r2[1] = key => r1[2] = r2[2]

(* A reader sees the newest mutation of a key that was above the cutoff when *)
(* it arrived, whatever the order of arrival, and also after the cleanup has *)
(* forgotten the tombstone of a deleted key: UpdateKeyValue and DeleteKey    *)
(* never let a late, older mutation win.  A key that arrives through two     *)
(* prefixes is excepted: one prefix's cleanup may remove the tombstone that  *)
(* the other, with a lower cutoff, still needs.                              *)
NewestMutationWins ==
  \A k \in Keys : OnePrefix(k) => GetKeyValue(k) = newest[k].value

(* Every tombstone in map_ is listed, at its own time, in deleted_nodes_map_ *)
(* of some prefix: a cleanup of that prefix will reclaim it, nothing leaks.  *)
TombstonesAreListed ==
  \A k \in Keys : IsTombstone(k) =>
    \E p \in Prefixes :
      deleted_nodes_map_[p][<<map_[k].last_logical_commit_time, k>>] > 0

(* CleanUpKeyValueMap never changes what a reader of any key sees, although  *)
(* the lists it works from also hold entries of keys updated since.          *)
CleanUpIsInvisible ==
  [][ (\E p \in Prefixes, t \in Times : CleanUpKeyValueMap(t, p))
        => \A k \in Keys : GetKeyValue(k)' = GetKeyValue(k) ]_vars
=============================================================================
