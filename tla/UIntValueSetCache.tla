-------------------------- MODULE UIntValueSetCache --------------------------
(***************************************************************************)
(* UIntValueSetCache on three ThreadSafeHashMaps, as KeyValueCache calls it *)
(* (uint_value_set_cache.h, container/thread_safe_hash_map.h,               *)
(* key_value_cache.cc).  Unlike the string sets there is no lock around a   *)
(* whole operation: the cutoff is read first, the set is found, or put,     *)
(* and changed next, and a deletion is listed last.  A thread that waits    *)
(* for a key keeps nodes_map_mutex_ of sets_map_, shared when it comes from *)
(* Get and exclusively when it comes from PutIfAbsent.  Work done under a   *)
(* key's own exclusive lock is one step with getting that lock: until it    *)
(* is released nobody else can see the set.                                 *)
(***************************************************************************)
EXTENDS UIntValueSet

CONSTANTS
  UIntThreads, UIntKeys, UIntPrefixes,
  DefaultPrefix,   \* the default argument of CleanUpValueSets
  UIntKeySets,     \* the sets of keys that lookups ask for
  Absent           \* a key or a prefix without an entry

ASSUME UIntCacheAssumption ==
  /\ DefaultPrefix \in UIntPrefixes
  /\ UIntTimes \subseteq Nat \ {0}
  /\ UIntKeySets \subseteq SUBSET UIntKeys
  /\ Absent \notin UIntSet /\ Absent \notin UIntTimes
  /\ NoMetadata \notin ValueMetadata

VARIABLES
  sets_map_,                           \* key -> UIntSet or Absent
  sets_max_cleanup_commit_time_map_,   \* prefix -> cutoff or Absent
  deleted_sets_map_,                   \* prefix -> set of <<time, key>>
  uint_thread,                         \* what each thread is doing
  uint_newest,                         \* history: newest mutation of each key and value
  misled                               \* history: <<key, value>> that an early cleanup or
                                       \* a late mutation left wrong

maps == <<sets_map_, sets_max_cleanup_commit_time_map_, deleted_sets_map_>>
uintHistory == <<uint_newest, misled>>
uintCacheVars == <<maps, uint_thread, uintHistory>>

UIntIdle == [pc |-> "idle"]

UIntCacheInit ==
  /\ sets_map_ = [k \in UIntKeys |-> Absent]
  /\ sets_max_cleanup_commit_time_map_ = [p \in UIntPrefixes |-> Absent]
  /\ deleted_sets_map_ = [p \in UIntPrefixes |-> {}]
  /\ uint_thread = [th \in UIntThreads |-> UIntIdle]
  /\ uint_newest = [k \in UIntKeys |-> [v \in UIntValues |->
                      [logical_commit_time |-> 0, is_deleted |-> TRUE]]]
  /\ misled = {}

-----------------------------------------------------------------------------
(* Locks of sets_map_. *)
NodesMapIsReadable == \A th \in UIntThreads : uint_thread[th].pc # "put_wait"
NodesMapIsFree ==
  /\ NodesMapIsReadable
  /\ \A th \in UIntThreads : uint_thread[th].pc \notin {"get_wait", "clean_wait"}

ReadsNode(th, key) ==
  uint_thread[th].pc \in {"collect", "result"} /\ uint_thread[th].locked[key] # Absent

NodeIsFree(key) == \A th \in UIntThreads : ~ReadsNode(th, key)

-----------------------------------------------------------------------------
(* UpdateSetValues and DeleteSetValues. *)
UIntTooOld(op) ==
  /\ sets_max_cleanup_commit_time_map_[op.prefix] # Absent
  /\ op.time <= sets_max_cleanup_commit_time_map_[op.prefix]

(* Returns early, or goes on with the cutoff it has just read. *)
StartUIntMutation(th, op) ==
  /\ uint_thread[th] = UIntIdle
  /\ op.values # {}
  /\ ~UIntTooOld(op)
  /\ uint_thread' = [uint_thread EXCEPT ![th] = op]
  /\ UNCHANGED <<maps, uintHistory>>

(* ThreadSafeHashMap::Get. *)
GetSet(th) ==
  LET op == uint_thread[th] IN
  /\ op.pc = "get"
  /\ NodesMapIsReadable
  /\ uint_thread' = [uint_thread EXCEPT ![th].pc =
                  IF sets_map_[op.key] = Absent THEN "put" ELSE "get_wait"]
  /\ UNCHANGED <<maps, uintHistory>>

(* A deletion still has to be listed. *)
AfterMutation(th) ==
  uint_thread' = [uint_thread EXCEPT ![th] =
               IF @.is_deleted THEN [@ EXCEPT !.pc = "list"] ELSE UIntIdle]

Mutated(set, op) ==
  IF op.is_deleted THEN Remove(set, op.values, op.time) ELSE Add(set, op.values, op.time)

(* A key without a node has the empty set. *)
SetOf(key) == IF sets_map_[key] = Absent THEN EmptySet ELSE sets_map_[key]

UIntCutoff ==
  IF sets_max_cleanup_commit_time_map_[DefaultPrefix] = Absent
    THEN 0 ELSE sets_max_cleanup_commit_time_map_[DefaultPrefix]

(* History.  The mutation is late for a value whose metadata is gone when    *)
(* the cutoff reached its time after it was compared, or under the default   *)
(* prefix instead of its own.                                                *)
ObserveUInt(op) ==
  LET newer == {v \in op.values : uint_newest[op.key][v].logical_commit_time < op.time}
      late == {v \in op.values : /\ SetOf(op.key).values_metadata_[v] = NoMetadata
                                 /\ op.time <= UIntCutoff}
  IN
  /\ uint_newest' = [uint_newest EXCEPT ![op.key] = [v \in UIntValues |->
       IF v \in newer THEN [logical_commit_time |-> op.time, is_deleted |-> op.is_deleted]
                      ELSE @[v]]]
  /\ misled' = (misled \ ({op.key} \X newer)) \cup ({op.key} \X (late \ newer))

(* PutIfAbsent: inserts an empty set and changes it, or meets a set that     *)
(* another thread has put since, and waits for its lock holding the map.     *)
PutSetIfAbsent(th) ==
  LET op == uint_thread[th] IN
  /\ op.pc = "put"
  /\ NodesMapIsFree
  /\ \/ /\ sets_map_[op.key] = Absent
        /\ sets_map_' = [sets_map_ EXCEPT ![op.key] = Mutated(EmptySet, op)]
        /\ AfterMutation(th)
        /\ ObserveUInt(op)
     \/ /\ sets_map_[op.key] # Absent
        /\ uint_thread' = [uint_thread EXCEPT ![th].pc = "put_wait"]
        /\ UNCHANGED <<sets_map_, uintHistory>>
  /\ UNCHANGED <<sets_max_cleanup_commit_time_map_, deleted_sets_map_>>

(* Gets the key's lock, lets go of the map and changes the set. *)
MutateSet(th) ==
  LET op == uint_thread[th] IN
  /\ op.pc \in {"get_wait", "put_wait"}
  /\ NodeIsFree(op.key)
  /\ sets_map_' = [sets_map_ EXCEPT ![op.key] = Mutated(@, op)]
  /\ AfterMutation(th)
  /\ ObserveUInt(op)
  /\ UNCHANGED <<sets_max_cleanup_commit_time_map_, deleted_sets_map_>>

ListDeletedSet(th) ==
  LET op == uint_thread[th] IN
  /\ op.pc = "list"
  /\ deleted_sets_map_' = [deleted_sets_map_ EXCEPT ![op.prefix] = @ \cup {<<op.time, op.key>>}]
  /\ uint_thread' = [uint_thread EXCEPT ![th] = UIntIdle]
  /\ UNCHANGED <<sets_map_, sets_max_cleanup_commit_time_map_, uintHistory>>

-----------------------------------------------------------------------------
(* CleanUpValueSets for the default prefix: CleanUpUIntSetMaps does not pass *)
(* on the prefix that RemoveDeletedKeys was called with.                     *)
StartUIntCleanUp(th, time) ==
  LET max == sets_max_cleanup_commit_time_map_[DefaultPrefix]
      superseded == max # Absent /\ time < max
  IN
  /\ uint_thread[th] = UIntIdle
  /\ \/ /\ superseded
        /\ UNCHANGED <<sets_max_cleanup_commit_time_map_, uint_thread>>
     \/ /\ ~superseded
        /\ sets_max_cleanup_commit_time_map_' =
             [sets_max_cleanup_commit_time_map_ EXCEPT ![DefaultPrefix] = time]
        /\ uint_thread' = [uint_thread EXCEPT ![th] = [pc |-> "take", time |-> time]]
  /\ UNCHANGED <<sets_map_, deleted_sets_map_, uintHistory>>

TakeDeletedSets_All(th) ==
  LET op == uint_thread[th]
      due == deleted_sets_map_[DefaultPrefix]
  IN  /\ op.pc = "take"
      /\ deleted_sets_map_' = [deleted_sets_map_ EXCEPT ![DefaultPrefix] = {}]
      /\ uint_thread' = [uint_thread EXCEPT ![th] =
                      [pc |-> "clean", time |-> op.time, todo |-> {d[2] : d \in due}]]
      /\ UNCHANGED <<sets_map_, sets_max_cleanup_commit_time_map_, uintHistory>>

(* Takes the keys listed up to the time off the list. *)
TakeDeletedSets(th) ==
  LET op == uint_thread[th]
      due == {d \in deleted_sets_map_[DefaultPrefix] : d[1] <= op.time}
  IN  /\ op.pc = "take"
      /\ deleted_sets_map_' = [deleted_sets_map_ EXCEPT ![DefaultPrefix] = @ \ due]
      /\ uint_thread' = [uint_thread EXCEPT ![th] =
                      [pc |-> "clean", time |-> op.time, todo |-> {d[2] : d \in due}]]
      /\ UNCHANGED <<sets_map_, sets_max_cleanup_commit_time_map_, uintHistory>>

GetSetToClean(th) ==
  LET op == uint_thread[th] IN
  /\ op.pc = "clean"
  /\ \E key \in op.todo :
       /\ NodesMapIsReadable
       /\ uint_thread' = [uint_thread EXCEPT ![th] =
            IF sets_map_[key] = Absent THEN [op EXCEPT !.todo = @ \ {key}]
            ELSE [pc |-> "clean_wait", key |-> key, time |-> op.time, todo |-> op.todo]]
  /\ UNCHANGED <<maps, uintHistory>>

(* History.  Cleanup erases the metadata of a value that was added again, or  *)
(* removed again after the cutoff.                                           *)
ErasedTooEarly(set, time) ==
  {v \in UIntValues : /\ Cleanup(set, time).values_metadata_[v] # set.values_metadata_[v]
                      /\ \/ ~set.values_metadata_[v].is_deleted
                         \/ set.values_metadata_[v].logical_commit_time > time}

CleanUpSet(th) ==
  LET op == uint_thread[th] IN
  /\ op.pc = "clean_wait"
  /\ NodeIsFree(op.key)
  /\ sets_map_' = [sets_map_ EXCEPT ![op.key] = Cleanup(@, op.time)]
  /\ misled' = misled \cup ({op.key} \X ErasedTooEarly(sets_map_[op.key], op.time))
  /\ uint_thread' = [uint_thread EXCEPT ![th] =
                  [pc |-> "clean", time |-> op.time, todo |-> op.todo \ {op.key}]]
  /\ UNCHANGED <<sets_max_cleanup_commit_time_map_, deleted_sets_map_, uint_newest>>

FinishUIntCleanUp(th) ==
  /\ uint_thread[th].pc = "clean"
  /\ uint_thread[th].todo = {}
  /\ uint_thread' = [uint_thread EXCEPT ![th] = UIntIdle]
  /\ UNCHANGED <<maps, uintHistory>>

-----------------------------------------------------------------------------
(* GetValueSet locks the keys one CGet after the other; the result keeps     *)
(* every key it found locked.                                                *)
StartUIntLookup(th, key_set) ==
  /\ uint_thread[th] = UIntIdle
  /\ uint_thread' = [uint_thread EXCEPT ![th] = 
                  [pc |-> "collect", todo |-> key_set, locked |-> [k \in UIntKeys |-> Absent]]]
  /\ UNCHANGED <<maps, uintHistory>>

CollectNode(th) ==
  LET op == uint_thread[th] IN
  /\ op.pc = "collect"
  /\ NodesMapIsReadable
  /\ \E key \in op.todo :
       uint_thread' = [uint_thread EXCEPT ![th] =
         [op EXCEPT !.todo = @ \ {key},
                    !.locked[key] = sets_map_[key]]]
  /\ UNCHANGED <<maps, uintHistory>>

ReturnUIntResult(th) ==
  /\ uint_thread[th].pc = "collect"
  /\ uint_thread[th].todo = {}
  /\ uint_thread' = [uint_thread EXCEPT ![th] = [pc |-> "result", locked |-> @.locked]]
  /\ UNCHANGED <<maps, uintHistory>>

ReleaseUIntResult(th) ==
  /\ uint_thread[th].pc = "result"
  /\ uint_thread' = [uint_thread EXCEPT ![th] = UIntIdle]
  /\ UNCHANGED <<maps, uintHistory>>

-----------------------------------------------------------------------------
UIntMutation(th) ==
  \E k \in UIntKeys, p \in UIntPrefixes, vs \in SUBSET UIntValues, t \in UIntTimes, d \in BOOLEAN :
    StartUIntMutation(th, [pc |-> "get", key |-> k, prefix |-> p, values |-> vs,
                       time |-> t, is_deleted |-> d])

CleanUpUIntSetMaps(th) == \E t \in UIntTimes : StartUIntCleanUp(th, t)

UIntLookup(th) == \E ks \in UIntKeySets : StartUIntLookup(th, ks)

UIntContinue(th) ==
  \/ GetSet(th)
  \/ PutSetIfAbsent(th)
  \/ MutateSet(th)
  \/ ListDeletedSet(th)
  \/ TakeDeletedSets(th)
  \/ GetSetToClean(th)
  \/ CleanUpSet(th)
  \/ FinishUIntCleanUp(th)
  \/ CollectNode(th)
  \/ ReturnUIntResult(th)
  \/ ReleaseUIntResult(th)

UIntCacheNext ==
  \E th \in UIntThreads :
    UIntMutation(th) \/ CleanUpUIntSetMaps(th) \/ UIntLookup(th) \/ UIntContinue(th)

UIntCacheSpec == UIntCacheInit /\ [][UIntCacheNext]_uintCacheVars

(* Threads inside an operation run on, and absl::Mutex queues its waiters.   *)
UIntFairness == \A th \in UIntThreads : SF_uintCacheVars(UIntContinue(th))

FairUIntSpec == UIntCacheSpec /\ UIntFairness

-----------------------------------------------------------------------------
(* Type invariant.  A set that a cleanup, or a mutation that comes from Get, *)
(* waits for is in the map: keys are never taken out of sets_map_.           *)
UIntCacheTypeOK ==
  /\ \A k \in UIntKeys : sets_map_[k] # Absent => sets_map_[k] \in UIntSet
  /\ sets_max_cleanup_commit_time_map_ \in [UIntPrefixes -> UIntTimes \cup {Absent}]
  /\ deleted_sets_map_ \in [UIntPrefixes -> SUBSET (UIntTimes \X UIntKeys)]
  /\ \A th \in UIntThreads :
       uint_thread[th].pc \in {"get_wait", "put_wait", "clean_wait"} =>
         sets_map_[uint_thread[th].key] # Absent

(* Out of order mutations by several threads: both views of a set, GetValues *)
(* and GetValuesBitSet, hold a value exactly when its newest mutation added  *)
(* it.  Two things mislead the set about a value until its next newer        *)
(* mutation: Cleanup erased metadata that still counted, or a mutation wrote *)
(* after the cleanup of its time, for UpdateSetValues and DeleteSetValues    *)
(* compare with the cutoff of their own prefix, and before they get the set. *)
NewestUIntMutationWins ==
  \A k \in UIntKeys, v \in UIntValues :
    <<k, v>> \notin misled =>
      /\ v \in SetOf(k).values_bitset_ <=> ~uint_newest[k][v].is_deleted
      /\ v \in GetValues(SetOf(k)) <=> ~uint_newest[k][v].is_deleted

(* GetValues never returns a value that the bitset queries would miss.       *)
ValuesAreInBitset ==
  \A k \in UIntKeys : GetValues(SetOf(k)) \subseteq SetOf(k).values_bitset_

(* Every value whose metadata says removed is among the removed values under *)
(* its removal time, so that a later Cleanup reclaims it.                    *)
RemovedValuesAreListed ==
  \A k \in UIntKeys, v \in UIntValues :
    LET md == SetOf(k).values_metadata_[v] IN
    md # NoMetadata /\ md.is_deleted =>
      <<md.logical_commit_time, v>> \in SetOf(k).deleted_values_

(* Every removal recorded in a set is listed in deleted_sets_map_, or is     *)
(* about to be listed, or belongs to a cleanup that has yet to visit the     *)
(* set: no removed value is forgotten when DeleteSetValues and               *)
(* CleanUpValueSets overlap.                                                 *)
DeletedSetsAreListed ==
  \A k \in UIntKeys :
    sets_map_[k] # Absent =>
      \A d \in sets_map_[k].deleted_values_ :
        \/ \E p \in UIntPrefixes : <<d[1], k>> \in deleted_sets_map_[p]
        \/ \E th \in UIntThreads :
             \/ /\ uint_thread[th].pc = "list"
                /\ uint_thread[th].key = k
                /\ uint_thread[th].time = d[1]
             \/ /\ uint_thread[th].pc \in {"clean", "clean_wait"}
                /\ k \in uint_thread[th].todo
                /\ d[1] <= uint_thread[th].time

(* Every operation ends. *)
UIntOperationsFinish ==
  \A th \in UIntThreads : uint_thread[th] # UIntIdle ~> uint_thread[th] = UIntIdle
=============================================================================
