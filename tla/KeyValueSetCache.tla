--------------------------- MODULE KeyValueSetCache ---------------------------
(***************************************************************************)
(* The string-set map of the cache, at the grain of its locks              *)
(* (components/data_server/cache/key_value_cache.cc).  A thread takes       *)
(* set_map_mutex_, then the mutex of one key while it still holds the map;  *)
(* it releases the map before it works on the key.  A lookup returns a      *)
(* result that keeps the keys it read locked.  DeleteValuesInSet marks      *)
(* values under the key's lock and takes the map again, later, to list them *)
(* for the cleanup.                                                         *)
(***************************************************************************)
EXTENDS Integers, FiniteSets

CONSTANTS
  Threads, SetKeys, SetValues, SetPrefixes,
  SetTimes,    \* logical_commit_time of the mutations, a set of integers
  SetRoutes,   \* the <<key, prefix>> pairs under which mutations arrive
  NoEntry,     \* a key without an entry in key_to_value_set_map_
  NoMeta       \* a value without an entry in a key's inner map

SetValueMeta == [last_logical_commit_time : SetTimes, is_deleted : BOOLEAN]

ASSUME SetConstantsAssumption ==
  /\ SetTimes \subseteq Int
  /\ 0 \in SetTimes
  /\ SetRoutes \subseteq SetKeys \X SetPrefixes
  /\ NoMeta \notin SetValueMeta
  /\ NoEntry \notin [SetValues -> SetValueMeta \cup {NoMeta}]

VARIABLES
  key_to_value_set_map_,      \* key -> (value -> SetValueMeta or NoMeta), or NoEntry
  deleted_set_nodes_map_,     \* prefix -> set of <<time, key, value>>
  set_cache_max_cleanup_logical_commit_time_,   \* prefix -> cutoff
  thread,                     \* what each thread is doing; its locks follow from it
  newest_in_set               \* history: newest mutation of each key and value
                              \* that passed the cutoff test

setData == <<key_to_value_set_map_, deleted_set_nodes_map_,
          set_cache_max_cleanup_logical_commit_time_, newest_in_set>>
setVars == <<setData, thread>>

Idle == [pc |-> "idle"]

SetInit ==
  /\ key_to_value_set_map_ = [k \in SetKeys |-> NoEntry]
  /\ deleted_set_nodes_map_ = [p \in SetPrefixes |-> {}]
  /\ set_cache_max_cleanup_logical_commit_time_ = [p \in SetPrefixes |-> 0]
  /\ thread = [th \in Threads |-> Idle]
  /\ newest_in_set = [k \in SetKeys |-> [v \in SetValues |->
                [last_logical_commit_time |-> 0, is_deleted |-> TRUE]]]

SetCutoff(prefix) == set_cache_max_cleanup_logical_commit_time_[prefix]

(* The values a lookup of the key returns. *)
ValueSet(key) ==
  IF key_to_value_set_map_[key] = NoEntry THEN {}
  ELSE {v \in SetValues : /\ key_to_value_set_map_[key][v] # NoMeta
                       /\ ~key_to_value_set_map_[key][v].is_deleted}

-----------------------------------------------------------------------------
(* Locks.  set_map_mutex_ is held exclusively by a mutation waiting for its  *)
(* key and by a cleanup, shared by a lookup that is collecting keys.         *)
HoldsMap(th) == thread[th].pc \in {"lock_key", "clean"}
ReadsMap(th) == thread[th].pc = "collect"
MapIsFree == \A th \in Threads : ~HoldsMap(th) /\ ~ReadsMap(th)
MapIsReadable == \A th \in Threads : ~HoldsMap(th)

HoldsKey_WhileListing(th, key) ==
  thread[th].pc \in {"apply", "list"} /\ thread[th].key = key

HoldsKey(th, key) == thread[th].pc = "apply" /\ thread[th].key = key
ReadsKey_WhileCollecting(th, key) ==
  thread[th].pc = "collect" /\ thread[th].locked[key] # NoEntry

ReadsKey(th, key) ==
  thread[th].pc \in {"collect", "result"} /\ thread[th].locked[key] # NoEntry
KeyIsFree(key) == \A th \in Threads : ~HoldsKey(th, key) /\ ~ReadsKey(th, key)
KeyIsReadable(key) == \A th \in Threads : ~HoldsKey(th, key)

-----------------------------------------------------------------------------
(* UpdateKeyValueSet and DeleteValuesInSet: op.is_deleted tells them apart.  *)

(* operator[] of the inner map: a missing value gets a default SetValueMeta. *)
Touched(meta, v) ==
  IF meta[v] = NoMeta THEN [last_logical_commit_time |-> 0, is_deleted |-> FALSE]
  ELSE meta[v]

(* The inner map after a mutation: each value keeps the newer time. *)
Merged(meta, op) ==
  [v \in SetValues |->
     IF v \notin op.values THEN meta[v]
     ELSE IF Touched(meta, v).last_logical_commit_time >= op.time
       THEN Touched(meta, v)
       ELSE [last_logical_commit_time |-> op.time, is_deleted |-> op.is_deleted]]

NoValues == [v \in SetValues |-> NoMeta]

ObserveSet(op) == newest_in_set' = [newest_in_set EXCEPT ![op.key] = Merged(@, op)]

Nodes(op, values) == {<<op.time, op.key, v>> : v \in values}

(* The early returns of both operations. *)
TooOld(op) == op.time <= SetCutoff(op.prefix) \/ op.values = {}

(* Takes the map: returns early, inserts a new key, or goes on to its lock. *)
StartMutation(th, op) ==
  /\ thread[th] = Idle
  /\ MapIsFree
  /\ UNCHANGED set_cache_max_cleanup_logical_commit_time_
  /\ \/ /\ TooOld(op)
        /\ UNCHANGED <<key_to_value_set_map_, deleted_set_nodes_map_, newest_in_set, thread>>
     \/ /\ ~TooOld(op)
        /\ key_to_value_set_map_[op.key] = NoEntry
        /\ key_to_value_set_map_' =
             [key_to_value_set_map_ EXCEPT ![op.key] = Merged(NoValues, op)]
        /\ deleted_set_nodes_map_' =
             [deleted_set_nodes_map_ EXCEPT ![op.prefix] =
                IF op.is_deleted THEN @ \cup Nodes(op, op.values) ELSE @]
        /\ ObserveSet(op)
        /\ UNCHANGED thread
     \/ /\ ~TooOld(op)
        /\ key_to_value_set_map_[op.key] # NoEntry
        /\ thread' = [thread EXCEPT ![th] = op]
        /\ UNCHANGED <<key_to_value_set_map_, deleted_set_nodes_map_, newest_in_set>>

(* Gets the key's mutex, then lets go of the map. *)
LockKey(th) ==
  /\ thread[th].pc = "lock_key"
  /\ KeyIsFree(thread[th].key)
  /\ thread' = [thread EXCEPT ![th].pc = "apply"]
  /\ UNCHANGED setData

(* Merges the values under the key's mutex and releases it; a deletion that  *)
(* marked values still has to list them.                                     *)
ApplyMutation(th) ==
  LET op == thread[th]
      old == key_to_value_set_map_[op.key]
      new == Merged(old, op)
      marked == {v \in op.values :
                   Touched(old, v).last_logical_commit_time < op.time}
  IN  /\ op.pc = "apply"
      /\ key_to_value_set_map_' = [key_to_value_set_map_ EXCEPT ![op.key] = new]
      /\ ObserveSet(op)
      /\ thread' = [thread EXCEPT ![th] =
                      IF op.is_deleted /\ marked # {}
                        THEN [op EXCEPT !.pc = "list", !.values = marked]
                        ELSE Idle]
      /\ UNCHANGED <<deleted_set_nodes_map_, set_cache_max_cleanup_logical_commit_time_>>

ListDeletedValues_Fresh(th) ==
  LET op == thread[th] IN
  /\ op.pc = "list"
  /\ MapIsFree
  /\ deleted_set_nodes_map_' =
       IF op.time <= SetCutoff(op.prefix) THEN deleted_set_nodes_map_
       ELSE [deleted_set_nodes_map_ EXCEPT ![op.prefix] = @ \cup Nodes(op, op.values)]
  /\ thread' = [thread EXCEPT ![th] = Idle]
  /\ UNCHANGED <<key_to_value_set_map_, set_cache_max_cleanup_logical_commit_time_, newest_in_set>>

(* Takes the map again to list the values it marked. *)
ListDeletedValues(th) ==
  LET op == thread[th] IN
  /\ op.pc = "list"
  /\ MapIsFree
  /\ deleted_set_nodes_map_' =
       [deleted_set_nodes_map_ EXCEPT ![op.prefix] = @ \cup Nodes(op, op.values)]
  /\ thread' = [thread EXCEPT ![th] = Idle]
  /\ UNCHANGED <<key_to_value_set_map_, set_cache_max_cleanup_logical_commit_time_, newest_in_set>>

-----------------------------------------------------------------------------
(* CleanUpKeyValueSetMap holds the map throughout and takes the mutex of one *)
(* listed key at a time, in the order of the deletion times.                 *)
StartCleanUp(th, time, prefix) ==
  /\ thread[th] = Idle
  /\ MapIsFree
  /\ set_cache_max_cleanup_logical_commit_time_' =
       [set_cache_max_cleanup_logical_commit_time_ EXCEPT ![prefix] =
          IF @ < time THEN time ELSE @]
  /\ thread' = [thread EXCEPT ![th] =
       [pc |-> "clean", prefix |-> prefix, time |-> time,
        due |-> {n \in deleted_set_nodes_map_[prefix] : n[1] <= time}]]
  /\ UNCHANGED <<key_to_value_set_map_, deleted_set_nodes_map_, newest_in_set>>

(* The key's mutex is needed only when the key is still in the map. *)
CanCleanKey(key) == key_to_value_set_map_[key] = NoEntry \/ KeyIsFree(key)

ReclaimedValues_Any(meta, values, time) ==
  [v \in SetValues |->
     IF v \in values /\ meta[v] # NoMeta /\ meta[v].last_logical_commit_time <= time
       THEN NoMeta ELSE meta[v]]

(* The inner map without the listed values that are still deleted. *)
ReclaimedValues(meta, values, time) ==
  [v \in SetValues |->
     IF /\ v \in values
        /\ meta[v] # NoMeta
        /\ meta[v].is_deleted
        /\ meta[v].last_logical_commit_time <= time
       THEN NoMeta ELSE meta[v]]

(* A key none of whose values is left is erased. *)
EntryLeft(left) == IF left = NoValues THEN NoEntry ELSE left

CleanUpKey(th) ==
  LET op == thread[th] IN
  /\ op.pc = "clean"
  /\ \E first \in op.due :
       LET key == first[2]
           group == {n \in op.due : n[1] = first[1] /\ n[2] = key}
           left == ReclaimedValues(key_to_value_set_map_[key], {n[3] : n \in group}, op.time)
       IN  /\ \A n \in op.due : first[1] <= n[1]
           /\ CanCleanKey(key)
           /\ key_to_value_set_map_' =
                IF key_to_value_set_map_[key] = NoEntry THEN key_to_value_set_map_
                ELSE [key_to_value_set_map_ EXCEPT ![key] = EntryLeft(left)]
           /\ thread' = [thread EXCEPT ![th].due = @ \ group]
  /\ UNCHANGED <<deleted_set_nodes_map_, set_cache_max_cleanup_logical_commit_time_, newest_in_set>>

FinishCleanUp(th) ==
  LET op == thread[th] IN
  /\ op.pc = "clean"
  /\ op.due = {}
  /\ deleted_set_nodes_map_' =
       [deleted_set_nodes_map_ EXCEPT ![op.prefix] = {n \in @ : n[1] > op.time}]
  /\ thread' = [thread EXCEPT ![th] = Idle]
  /\ UNCHANGED <<key_to_value_set_map_, set_cache_max_cleanup_logical_commit_time_, newest_in_set>>

-----------------------------------------------------------------------------
(* GetKeyValueSet collects the keys under the shared map lock.  The result   *)
(* keeps each key it found locked, for it refers to the strings in place.    *)
StartLookup(th, key_set) ==
  /\ thread[th] = Idle
  /\ MapIsReadable
  /\ thread' = [thread EXCEPT ![th] =
                  [pc |-> "collect", todo |-> key_set, locked |-> [k \in SetKeys |-> NoEntry]]]
  /\ UNCHANGED setData

CollectKey(th) ==
  LET op == thread[th] IN
  /\ op.pc = "collect"
  /\ \E key \in op.todo :
       /\ key_to_value_set_map_[key] # NoEntry => KeyIsReadable(key)
       /\ thread' = [thread EXCEPT ![th] =
            [op EXCEPT !.todo = @ \ {key},
                       !.locked[key] = key_to_value_set_map_[key]]]
  /\ UNCHANGED setData

ReturnResult(th) ==
  /\ thread[th].pc = "collect"
  /\ thread[th].todo = {}
  /\ thread' = [thread EXCEPT ![th] = [pc |-> "result", locked |-> @.locked]]
  /\ UNCHANGED setData

(* The caller destroys the result. *)
ReleaseResult(th) ==
  /\ thread[th].pc = "result"
  /\ thread' = [thread EXCEPT ![th] = Idle]
  /\ UNCHANGED setData

-----------------------------------------------------------------------------
Mutation(th) ==
  \E r \in SetRoutes, vs \in SUBSET SetValues, t \in SetTimes, d \in BOOLEAN :
    StartMutation(th, [pc |-> "lock_key", key |-> r[1], prefix |-> r[2],
                       values |-> vs, time |-> t, is_deleted |-> d])

CleanUp(th) == \E t \in SetTimes, p \in SetPrefixes : StartCleanUp(th, t, p)

Lookup(th) == \E ks \in SUBSET SetKeys : StartLookup(th, ks)

(* A step of a thread inside an operation. *)
Continue(th) ==
  \/ LockKey(th)
  \/ ApplyMutation(th)
  \/ ListDeletedValues(th)
  \/ CleanUpKey(th)
  \/ FinishCleanUp(th)
  \/ CollectKey(th)
  \/ ReturnResult(th)
  \/ ReleaseResult(th)

SetNext ==
  \E th \in Threads : Mutation(th) \/ CleanUp(th) \/ Lookup(th) \/ Continue(th)

SetSpec == SetInit /\ [][SetNext]_setVars

(* Threads inside an operation run on; absl::Mutex queues its waiters, so a  *)
(* waiter is not overtaken for ever.                                         *)
SetFairness == \A th \in Threads : SF_setVars(Continue(th))

FairSetSpec == SetSpec /\ SetFairness

-----------------------------------------------------------------------------
(* The metadata of the values of one key. *)
InnerMap == [SetValues -> SetValueMeta \cup {NoMeta}]

MutationState ==
  [pc : {"lock_key", "apply", "list"}, key : SetKeys, prefix : SetPrefixes,
   values : SUBSET SetValues, time : SetTimes, is_deleted : BOOLEAN]

CleanUpState ==
  [pc : {"clean"}, prefix : SetPrefixes, time : SetTimes,
   due : SUBSET (SetTimes \X SetKeys \X SetValues)]

LookupState ==
  [pc : {"collect"}, todo : SUBSET SetKeys, locked : [SetKeys -> {NoEntry} \cup InnerMap]]

ResultState == [pc : {"result"}, locked : [SetKeys -> {NoEntry} \cup InnerMap]]

ThreadState == {Idle} \cup MutationState \cup CleanUpState \cup LookupState \cup ResultState

(* Type invariant.  An entry of the map is never an empty set of values:     *)
(* CleanUpKeyValueSetMap erases the key with its last value.                 *)
SetTypeOK ==
  /\ key_to_value_set_map_ \in [SetKeys -> {NoEntry} \cup (InnerMap \ {NoValues})]
  /\ deleted_set_nodes_map_ \in [SetPrefixes -> SUBSET (SetTimes \X SetKeys \X SetValues)]
  /\ set_cache_max_cleanup_logical_commit_time_ \in [SetPrefixes -> SetTimes]
  /\ thread \in [Threads -> ThreadState]
  /\ newest_in_set \in [SetKeys -> [SetValues -> SetValueMeta]]

(* All mutations of the key come from one prefix.                            *)
FromOnePrefix(key) ==
  \A r1, r2 \in SetRoutes : r1[1] = key /\ r2[1] = key => r1[2] = r2[2]

(* Last writer wins in every set, in every interleaving of mutations,        *)
(* lookups and cleanups: a lookup at any moment returns exactly the values   *)
(* whose newest mutation, among those that passed the cutoff test, added     *)
(* them.  In particular a cleanup that overtakes a mutation between its      *)
(* cutoff test and its work on the key does no harm.  As in KeyValueCache, a *)
(* key that arrives through two prefixes with their own cutoffs is excepted. *)
NewestSetMutationWins ==
  \A k \in SetKeys : FromOnePrefix(k) =>
    ValueSet(k) = {v \in SetValues : ~newest_in_set[k][v].is_deleted}

(* A lookup's result refers to strings inside the map (GetKeyValueSet):      *)
(* while the result lives, the inner maps of its keys do not change at all.  *)
ResultsStayValid ==
  \A th \in Threads :
    thread[th].pc \in {"collect", "result"} =>
      \A k \in SetKeys :
        thread[th].locked[k] # NoEntry => key_to_value_set_map_[k] = thread[th].locked[k]

(* Every deleted value is listed for a later cleanup under its deletion      *)
(* time, or DeleteValuesInSet is about to list it: none leaks, also when a   *)
(* cleanup runs between the marking and the listing.                         *)
DeletedValuesAreListed ==
  \A k \in SetKeys, v \in SetValues :
    (/\ key_to_value_set_map_[k] # NoEntry
     /\ key_to_value_set_map_[k][v] # NoMeta
     /\ key_to_value_set_map_[k][v].is_deleted) =>
       LET time == key_to_value_set_map_[k][v].last_logical_commit_time IN
       \/ \E p \in SetPrefixes : <<time, k, v>> \in deleted_set_nodes_map_[p]
       \/ \E th \in Threads : /\ thread[th].pc = "list"
                              /\ <<time, k, v>> \in Nodes(thread[th], thread[th].values)

(* Every operation ends: the order map before key, with the map released     *)
(* before the work on the key, lets no threads wait for each other for ever. *)
SetOperationsFinish ==
  \A th \in Threads : thread[th] # Idle ~> thread[th] = Idle
=============================================================================
