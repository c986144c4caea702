----------------------- MODULE UIntValueSetCacheProofs -----------------------
(* Proofs about UIntValueSetCache, for all threads, keys, values, prefixes   *)
(* and commit times.                                                         *)
EXTENDS UIntValueSetCache, TLAPS

(***************************************************************************)
(* The integer sets.  Where a thread can be, that the set a thread waits   *)
(* for is in the map, and that the cutoff is never behind a cleanup.       *)
(***************************************************************************)
UIntThreadStates ==
  [pc : {"idle"}]
    \cup [pc : {"get", "get_wait", "put", "put_wait", "list"}, key : UIntKeys,
          prefix : UIntPrefixes, values : SUBSET UIntValues, time : UIntTimes,
          is_deleted : BOOLEAN]
    \cup [pc : {"take"}, time : UIntTimes]
    \cup [pc : {"clean"}, time : UIntTimes, todo : SUBSET UIntKeys]
    \cup [pc : {"clean_wait"}, key : UIntKeys, time : UIntTimes, todo : SUBSET UIntKeys]
    \cup [pc : {"collect"}, todo : SUBSET UIntKeys,
          locked : [UIntKeys -> UIntSet \cup {Absent}]]
    \cup [pc : {"result"}, locked : [UIntKeys -> UIntSet \cup {Absent}]]

Cleaning(s) == s.pc \in {"take", "clean", "clean_wait"}

UIntCacheTypes ==
  /\ sets_map_ \in [UIntKeys -> UIntSet \cup {Absent}]
  /\ deleted_sets_map_ \in [UIntPrefixes -> SUBSET (UIntTimes \X UIntKeys)]
  /\ sets_max_cleanup_commit_time_map_ \in [UIntPrefixes -> UIntTimes \cup {Absent}]
  /\ uint_thread \in [UIntThreads -> UIntThreadStates]
  /\ \A th \in UIntThreads :
       /\ uint_thread[th].pc \in {"get_wait", "put_wait", "clean_wait"} =>
            sets_map_[uint_thread[th].key] # Absent
       /\ Cleaning(uint_thread[th]) => uint_thread[th].time <= UIntCutoff

UIntCacheInv == UIntCacheTypes /\ DeletedSetsAreListed

(* The removal d of key k is listed; a thread in state s has it in hand.     *)
ListedSet(k, d) == \E p \in UIntPrefixes : <<d[1], k>> \in deleted_sets_map_[p]

InHand(s, k, d) ==
  \/ s.pc = "list" /\ s.key = k /\ s.time = d[1]
  \/ s.pc \in {"clean", "clean_wait"} /\ k \in s.todo /\ d[1] <= s.time

(* Commit times are positive integers, and so is the cutoff once it is set.  *)
LEMMA UIntTimesAreInts ==
  /\ UIntTimes \subseteq Int
  /\ UIntTimes \cup {0} \subseteq Int
  /\ \A t \in UIntTimes : 0 < t
  /\ \A t \in UIntTimes \cup {0} : 0 < t => t \in UIntTimes /\ t \in Int
BY UIntCacheAssumption

(* The cutoff is an integer.                                                *)
LEMMA CutoffIsInt ==
  ASSUME sets_max_cleanup_commit_time_map_ \in [UIntPrefixes -> UIntTimes \cup {Absent}]
  PROVE  UIntCutoff \in Int
BY UIntCacheAssumption, UIntTimesAreInts DEF UIntCutoff

(* A mutation gives a set whose removals are old ones or carry its time.     *)
LEMMA MutatedSet ==
  ASSUME NEW set \in UIntSet, NEW values \in SUBSET UIntValues, NEW time \in UIntTimes,
         NEW op, op.values = values, op.time = time, op.is_deleted \in BOOLEAN
  PROVE  /\ Mutated(set, op) \in UIntSet
         /\ \A d \in Mutated(set, op).deleted_values_ :
              d \in set.deleted_values_ \/ (op.is_deleted /\ d[1] = time)
<1>1. ASSUME NEW deleted \in BOOLEAN
      PROVE  /\ AddOrRemove(set, values, time, deleted) \in UIntSet
             /\ \A d \in AddOrRemove(set, values, time, deleted).deleted_values_ :
                  d \in set.deleted_values_ \/ (deleted /\ d[1] = time)
  <2> DEFINE changed == {v \in values : Newer(set, v, time)}
             metadata == [v \in UIntValues |->
                            IF v \in changed
                              THEN [logical_commit_time |-> time, is_deleted |-> deleted]
                            ELSE IF v \in values THEN Metadata(set, v)
                            ELSE set.values_metadata_[v]]
  <2>1. changed \in SUBSET UIntValues
    OBVIOUS
  <2>2. set.values_metadata_ \in [UIntValues -> ValueMetadata \cup {NoMetadata}]
    BY DEF UIntSet
  <2>3. \A v \in UIntValues : Metadata(set, v) \in ValueMetadata
    BY <2>2 DEF Metadata, ValueMetadata
  <2>4. [logical_commit_time |-> time, is_deleted |-> deleted] \in ValueMetadata
    BY DEF ValueMetadata
  <2>5. metadata \in [UIntValues -> ValueMetadata \cup {NoMetadata}]
    BY <2>2, <2>3, <2>4
  <2>6. AddOrRemove(set, values, time, deleted) =
          [values_bitset_ |-> BitsetAfter(set, changed, deleted),
           values_metadata_ |-> metadata,
           deleted_values_ |-> DeletedAfter(set, changed, time, deleted)]
    BY DEF AddOrRemove
  <2> HIDE DEF changed, metadata
  <2>7. BitsetAfter(set, changed, deleted) \in SUBSET UIntValues
    BY <2>1 DEF BitsetAfter, UIntSet
  <2>8. DeletedAfter(set, changed, time, deleted) \in SUBSET (UIntTimes \X UIntValues)
    BY <2>1 DEF DeletedAfter, UIntSet
  <2>9. \A d \in DeletedAfter(set, changed, time, deleted) :
          d \in set.deleted_values_ \/ (deleted /\ d[1] = time)
    BY DEF DeletedAfter
  <2> QED BY <2>5, <2>6, <2>7, <2>8, <2>9 DEF UIntSet
<1> QED BY Zenon, <1>1 DEF Mutated, Add, Remove

(* Cleanup drops the removals up to its cutoff and keeps the others.         *)
LEMMA CleanedSet ==
  ASSUME NEW set \in UIntSet, NEW time \in UIntTimes
  PROVE  /\ Cleanup(set, time) \in UIntSet
         /\ \A d \in Cleanup(set, time).deleted_values_ :
              d \in set.deleted_values_ /\ ~(d[1] <= time)
<1> DEFINE due == {d \in set.deleted_values_ : d[1] <= time}
           metadata == [v \in UIntValues |-> IF \E d \in due : d[2] = v THEN NoMetadata
                                             ELSE set.values_metadata_[v]]
<1>1. Cleanup(set, time) = [values_bitset_ |-> set.values_bitset_,
                            values_metadata_ |-> metadata,
                            deleted_values_ |-> set.deleted_values_ \ due]
  BY DEF Cleanup
<1>2. metadata \in [UIntValues -> ValueMetadata \cup {NoMetadata}]
  BY DEF UIntSet
<1> HIDE DEF metadata
<1> QED BY <1>1, <1>2 DEF UIntSet

(* A set that a mutation creates has no removed values.                      *)
LEMMA NewSet == EmptySet \in UIntSet /\ EmptySet.deleted_values_ = {}
BY DEF EmptySet, UIntSet

(* A thread moves on and leaves every removal listed or in some hand.        *)
LEMMA ThreadMoves ==
  ASSUME UIntCacheInv, NEW th \in UIntThreads, NEW s \in UIntThreadStates,
         uint_thread' = [uint_thread EXCEPT ![th] = s],
         s.pc \in {"get_wait", "put_wait", "clean_wait"} => sets_map_'[s.key] # Absent,
         Cleaning(s) => s.time <= UIntCutoff',
         sets_max_cleanup_commit_time_map_' \in [UIntPrefixes -> UIntTimes \cup {Absent}],
         UIntCutoff <= UIntCutoff',
         sets_map_' \in [UIntKeys -> UIntSet \cup {Absent}],
         deleted_sets_map_' \in [UIntPrefixes -> SUBSET (UIntTimes \X UIntKeys)],
         \A k \in UIntKeys : sets_map_[k] # Absent => sets_map_'[k] # Absent,
         \A k \in UIntKeys : sets_map_'[k] # Absent =>
           \A d \in sets_map_'[k].deleted_values_ :
             \/ ListedSet(k, d)' \/ InHand(s, k, d)
             \/ /\ sets_map_[k] # Absent /\ d \in sets_map_[k].deleted_values_
                /\ ~ListedSet(k, d) /\ ~InHand(uint_thread[th], k, d)
  PROVE  UIntCacheInv'
<1>1. UIntCacheTypes /\ DeletedSetsAreListed
  BY DEF UIntCacheInv
<1>2. uint_thread'[th] = s /\ \A o \in UIntThreads : o # th => uint_thread'[o] = uint_thread[o]
  BY <1>1 DEF UIntCacheTypes
<1>3. \A o \in UIntThreads : uint_thread[o].pc \in {"get_wait", "put_wait", "clean_wait"} =>
        uint_thread[o].key \in UIntKeys /\ sets_map_[uint_thread[o].key] # Absent
  <2>1. \A o \in UIntThreads : uint_thread[o] \in UIntThreadStates
    BY <1>1 DEF UIntCacheTypes
  <2> QED BY <1>1, <2>1 DEF UIntCacheTypes, UIntThreadStates
<1>4. UIntCacheTypes'
  <2>1. UIntCutoff \in Int /\ UIntCutoff' \in Int
    BY <1>1, UIntTimesAreInts, UIntCacheAssumption DEF UIntCacheTypes, UIntCutoff
  <2>2. ASSUME NEW o \in UIntThreads, o # th, Cleaning(uint_thread[o])
        PROVE  uint_thread[o].time <= UIntCutoff'
    <3>1. uint_thread[o].time \in Int /\ uint_thread[o].time <= UIntCutoff
      <4>1. uint_thread[o] \in UIntThreadStates
        BY <1>1 DEF UIntCacheTypes
      <4>2. uint_thread[o].time \in UIntTimes
        BY <2>2, <4>1 DEF UIntThreadStates, Cleaning
      <4> QED BY <1>1, <2>2, <4>2, UIntTimesAreInts DEF UIntCacheTypes
    <3> QED BY <2>1, <3>1
  <2> HIDE DEF Cleaning, UIntCutoff
  <2> QED BY <1>1, <1>2, <1>3, <2>2 DEF UIntCacheTypes
<1>5. ASSUME NEW k \in UIntKeys, sets_map_'[k] # Absent,
             NEW d \in sets_map_'[k].deleted_values_
      PROVE  ListedSet(k, d)' \/ \E o \in UIntThreads : InHand(uint_thread'[o], k, d)
  <2>1. CASE ListedSet(k, d)' \/ InHand(s, k, d)
    BY <1>2, <2>1
  <2>2. CASE /\ sets_map_[k] # Absent /\ d \in sets_map_[k].deleted_values_
             /\ ~ListedSet(k, d) /\ ~InHand(uint_thread[th], k, d)
    <3>1. PICK o \in UIntThreads : InHand(uint_thread[o], k, d)
      BY <1>1, <2>2 DEF DeletedSetsAreListed, ListedSet, InHand
    <3> QED BY <1>2, <2>2, <3>1
  <2> QED BY <1>5, <2>1, <2>2
<1>6. DeletedSetsAreListed'
  BY <1>5 DEF DeletedSetsAreListed, ListedSet, InHand
<1> QED BY <1>4, <1>6 DEF UIntCacheInv

(* The cutoff stays as it is.                                                *)
SameCutoff ==
  /\ sets_max_cleanup_commit_time_map_' \in [UIntPrefixes -> UIntTimes \cup {Absent}]
  /\ UIntCutoff' = UIntCutoff /\ UIntCutoff <= UIntCutoff'

(* A step that leaves the map of cutoffs alone leaves the cutoff alone.      *)
LEMMA SameCutoffHolds ==
  ASSUME UIntCacheTypes, UNCHANGED sets_max_cleanup_commit_time_map_ PROVE SameCutoff
<1>1. UIntCutoff' = UIntCutoff
  BY DEF UIntCutoff
<1>2. sets_max_cleanup_commit_time_map_' \in [UIntPrefixes -> UIntTimes \cup {Absent}]
  BY DEF UIntCacheTypes
<1>3. UIntCutoff \in Int
  BY CutoffIsInt DEF UIntCacheTypes
<1> QED BY <1>1, <1>2, <1>3 DEF SameCutoff

(* A step of a thread that touches none of the maps.                         *)
LEMMA ThreadOnlyMoves ==
  ASSUME UIntCacheInv, NEW th \in UIntThreads, NEW s \in UIntThreadStates,
         uint_thread' = [uint_thread EXCEPT ![th] = s], UNCHANGED maps,
         s.pc \in {"get_wait", "put_wait", "clean_wait"} => sets_map_[s.key] # Absent,
         Cleaning(s) => s.time <= UIntCutoff,
         \A k \in UIntKeys : \A d :
           InHand(uint_thread[th], k, d) => InHand(s, k, d) \/ sets_map_[k] = Absent
  PROVE  UIntCacheInv'
<1>1. UNCHANGED <<sets_map_, deleted_sets_map_, sets_max_cleanup_commit_time_map_>>
  BY DEF maps
<1>2. UIntCacheTypes
  BY DEF UIntCacheInv
<1>3. /\ sets_map_' \in [UIntKeys -> UIntSet \cup {Absent}]
      /\ deleted_sets_map_' \in [UIntPrefixes -> SUBSET (UIntTimes \X UIntKeys)]
  BY <1>1, <1>2 DEF UIntCacheTypes
<1>4. \A k, d : ListedSet(k, d)' <=> ListedSet(k, d)
  BY <1>1 DEF ListedSet
<1>5. \A k \in UIntKeys : sets_map_'[k] # Absent =>
        \A d \in sets_map_'[k].deleted_values_ :
          \/ ListedSet(k, d)' \/ InHand(s, k, d)
          \/ /\ sets_map_[k] # Absent /\ d \in sets_map_[k].deleted_values_
             /\ ~ListedSet(k, d) /\ ~InHand(uint_thread[th], k, d)
  BY <1>1, <1>4
<1>6. s.pc \in {"get_wait", "put_wait", "clean_wait"} => sets_map_'[s.key] # Absent
  BY <1>1
<1>7. \A k \in UIntKeys : sets_map_[k] # Absent => sets_map_'[k] # Absent
  BY <1>1
<1>8. SameCutoff
  BY <1>1, <1>2, SameCutoffHolds
<1>9. Cleaning(s) => s.time <= UIntCutoff'
  BY <1>8 DEF SameCutoff
<1> HIDE DEF InHand, ListedSet, Cleaning, UIntCutoff
<1> QED BY Zenon, <1>3, <1>5, <1>6, <1>7, <1>8, <1>9, ThreadMoves DEF SameCutoff

(* Operations start, a set is looked up, and lookups go on.                  *)
LEMMA QuietStep ==
  ASSUME UIntCacheInv, NEW th \in UIntThreads,
         \/ UIntMutation(th) \/ UIntLookup(th) \/ GetSet(th) \/ GetSetToClean(th)
         \/ FinishUIntCleanUp(th) \/ CollectNode(th) \/ ReturnUIntResult(th)
         \/ ReleaseUIntResult(th)
  PROVE  UIntCacheInv'
<1>1. UIntCacheTypes
  BY DEF UIntCacheInv
<1>2. uint_thread[th] \in UIntThreadStates /\ sets_map_ \in [UIntKeys -> UIntSet \cup {Absent}]
  BY <1>1 DEF UIntCacheTypes
<1>3. /\ UIntIdle \in UIntThreadStates /\ \A k, d : ~InHand(UIntIdle, k, d)
      /\ UIntIdle.pc = "idle"
  BY DEF UIntIdle, UIntThreadStates, InHand
<1>4. CASE UIntMutation(th)
  <2>1. PICK k \in UIntKeys, p \in UIntPrefixes, vs \in SUBSET UIntValues, t \in UIntTimes,
             d \in BOOLEAN :
          StartUIntMutation(th, [pc |-> "get", key |-> k, prefix |-> p, values |-> vs,
                                 time |-> t, is_deleted |-> d])
    BY <1>4 DEF UIntMutation
  <2> DEFINE op == [pc |-> "get", key |-> k, prefix |-> p, values |-> vs,
                    time |-> t, is_deleted |-> d]
  <2>2. op \in UIntThreadStates /\ op.pc = "get"
    BY UIntCacheAssumption DEF UIntThreadStates
  <2>3. /\ uint_thread[th] = UIntIdle
        /\ uint_thread' = [uint_thread EXCEPT ![th] = op] /\ UNCHANGED maps
    BY <2>1 DEF StartUIntMutation
  <2> HIDE DEF op
  <2> QED BY Zenon, <1>3, <2>2, <2>3, ThreadOnlyMoves DEF Cleaning
<1>5. CASE UIntLookup(th)
  <2>1. PICK ks \in UIntKeySets : StartUIntLookup(th, ks)
    BY <1>5 DEF UIntLookup
  <2> DEFINE op == [pc |-> "collect", todo |-> ks, locked |-> [k \in UIntKeys |-> Absent]]
  <2>2. op \in UIntThreadStates /\ op.pc = "collect"
    <3>1. [k \in UIntKeys |-> Absent] \in [UIntKeys -> UIntSet \cup {Absent}]
      OBVIOUS
    <3> QED BY <3>1, UIntCacheAssumption DEF UIntThreadStates
  <2>3. /\ uint_thread[th] = UIntIdle
        /\ uint_thread' = [uint_thread EXCEPT ![th] = op] /\ UNCHANGED maps
    BY <2>1 DEF StartUIntLookup
  <2> HIDE DEF op
  <2> QED BY Zenon, <1>3, <2>2, <2>3, ThreadOnlyMoves DEF Cleaning
<1>6. CASE GetSet(th)
  <2> DEFINE op == [uint_thread[th] EXCEPT !.pc =
                      IF sets_map_[uint_thread[th].key] = Absent THEN "put" ELSE "get_wait"]
  <2>1. /\ uint_thread[th].pc = "get" /\ UNCHANGED maps
        /\ uint_thread' = [uint_thread EXCEPT ![th] = op]
    BY <1>6 DEF GetSet
  <2>2. /\ op \in UIntThreadStates
        /\ op.pc = IF sets_map_[uint_thread[th].key] = Absent THEN "put" ELSE "get_wait"
        /\ op.key = uint_thread[th].key
    BY <1>2, <2>1 DEF UIntThreadStates
  <2> HIDE DEF op
  <2>3. \A k, d : ~InHand(uint_thread[th], k, d)
    BY <2>1 DEF InHand
  <2> QED BY Zenon, <2>1, <2>2, <2>3, ThreadOnlyMoves DEF Cleaning
<1>7. CASE GetSetToClean(th)
  <2> DEFINE op == uint_thread[th]
  <2>1. PICK key \in op.todo :
          uint_thread' = [uint_thread EXCEPT ![th] =
            IF sets_map_[key] = Absent THEN [op EXCEPT !.todo = @ \ {key}]
            ELSE [pc |-> "clean_wait", key |-> key, time |-> op.time, todo |-> op.todo]]
    BY Zenon, <1>7 DEF GetSetToClean
  <2>2. op.pc = "clean" /\ UNCHANGED maps
    BY <1>7 DEF GetSetToClean
  <2>3. /\ op \in [pc : {"clean"}, time : UIntTimes, todo : SUBSET UIntKeys]
        /\ op.time <= UIntCutoff
    BY <1>1, <1>2, <2>2 DEF UIntThreadStates, UIntCacheTypes, Cleaning
  <2>4. CASE sets_map_[key] = Absent
    <3> DEFINE s == [op EXCEPT !.todo = @ \ {key}]
    <3>1. /\ s \in [pc : {"clean"}, time : UIntTimes, todo : SUBSET UIntKeys]
          /\ s.todo = op.todo \ {key} /\ s.pc = "clean" /\ s.time = op.time
      BY <2>3
    <3>2. uint_thread' = [uint_thread EXCEPT ![th] = s]
      BY <2>1, <2>4
    <3> HIDE DEF s
    <3>3. \A k \in UIntKeys : \A d : InHand(op, k, d) => InHand(s, k, d) \/ sets_map_[k] = Absent
      BY <2>2, <2>4, <3>1 DEF InHand
    <3>4. Cleaning(s) => s.time <= UIntCutoff
      BY <2>3, <3>1
    <3> QED BY Zenon, <2>2, <3>1, <3>2, <3>3, <3>4, ThreadOnlyMoves DEF UIntThreadStates
  <2>5. CASE sets_map_[key] # Absent
    <3> DEFINE s == [pc |-> "clean_wait", key |-> key, time |-> op.time, todo |-> op.todo]
    <3>1. /\ s \in [pc : {"clean_wait"}, key : UIntKeys, time : UIntTimes, todo : SUBSET UIntKeys]
          /\ s.todo = op.todo /\ s.pc = "clean_wait" /\ s.time = op.time /\ s.key = key
      BY <2>3
    <3>2. uint_thread' = [uint_thread EXCEPT ![th] = s]
      BY <2>1, <2>5
    <3> HIDE DEF s
    <3>3. \A k \in UIntKeys : \A d : InHand(op, k, d) => InHand(s, k, d)
      BY <2>2, <3>1 DEF InHand
    <3>4. Cleaning(s) => s.time <= UIntCutoff
      BY <2>3, <3>1
    <3> QED BY Zenon, <2>2, <2>5, <3>1, <3>2, <3>3, <3>4, ThreadOnlyMoves DEF UIntThreadStates
  <2> QED BY <2>4, <2>5
<1>8. CASE FinishUIntCleanUp(th)
  <2>1. /\ uint_thread[th].pc = "clean" /\ uint_thread[th].todo = {} /\ UNCHANGED maps
        /\ uint_thread' = [uint_thread EXCEPT ![th] = UIntIdle]
    BY <1>8 DEF FinishUIntCleanUp
  <2>2. \A k, d : ~InHand(uint_thread[th], k, d)
    BY <2>1 DEF InHand
  <2> QED BY Zenon, <1>3, <2>1, <2>2, ThreadOnlyMoves DEF Cleaning
<1>9. CASE CollectNode(th)
  <2>1. PICK key \in uint_thread[th].todo :
          uint_thread' = [uint_thread EXCEPT ![th] =
            [uint_thread[th] EXCEPT !.todo = @ \ {key}, !.locked[key] = sets_map_[key]]]
    BY Zenon, <1>9 DEF CollectNode
  <2> DEFINE op == [uint_thread[th] EXCEPT !.todo = @ \ {key}, !.locked[key] = sets_map_[key]]
  <2>2. uint_thread[th].pc = "collect" /\ UNCHANGED maps
    BY Zenon, <1>9 DEF CollectNode
  <2>3. uint_thread[th] \in [pc : {"collect"}, todo : SUBSET UIntKeys,
                             locked : [UIntKeys -> UIntSet \cup {Absent}]]
    BY <1>2, <2>2 DEF UIntThreadStates
  <2>4. op \in UIntThreadStates /\ op.pc = "collect"
    BY Zenon, <1>2, <2>3 DEF UIntThreadStates
  <2> HIDE DEF op
  <2>5. \A k, d : ~InHand(uint_thread[th], k, d)
    BY <2>2 DEF InHand
  <2> QED BY ZenonT(30), <2>1, <2>2, <2>4, <2>5, ThreadOnlyMoves DEF op, Cleaning
<1>10. CASE ReturnUIntResult(th)
  <2> DEFINE op == [pc |-> "result", locked |-> uint_thread[th].locked]
  <2>1. /\ uint_thread[th].pc = "collect" /\ UNCHANGED maps
        /\ uint_thread' = [uint_thread EXCEPT ![th] = op]
    BY <1>10 DEF ReturnUIntResult
  <2>2. op \in UIntThreadStates /\ op.pc = "result"
    BY <1>2, <2>1 DEF UIntThreadStates
  <2> HIDE DEF op
  <2>3. \A k, d : ~InHand(uint_thread[th], k, d)
    BY <2>1 DEF InHand
  <2> QED BY Zenon, <2>1, <2>2, <2>3, ThreadOnlyMoves DEF Cleaning
<1>11. CASE ReleaseUIntResult(th)
  <2>1. /\ uint_thread[th].pc = "result" /\ UNCHANGED maps
        /\ uint_thread' = [uint_thread EXCEPT ![th] = UIntIdle]
    BY <1>11 DEF ReleaseUIntResult
  <2>2. \A k, d : ~InHand(uint_thread[th], k, d)
    BY <2>1 DEF InHand
  <2> QED BY Zenon, <1>3, <2>1, <2>2, ThreadOnlyMoves DEF Cleaning
<1> QED BY <1>4, <1>5, <1>6, <1>7, <1>8, <1>9, <1>10, <1>11

(* A set is changed; a removal stays in the hand of the thread, to be listed. *)
LEMMA MutationStep ==
  ASSUME UIntCacheInv, NEW th \in UIntThreads, PutSetIfAbsent(th) \/ MutateSet(th)
  PROVE  UIntCacheInv'
<1> DEFINE op == uint_thread[th]
<1>1. UIntCacheTypes
  BY DEF UIntCacheInv
<1>2. /\ op \in UIntThreadStates /\ sets_map_ \in [UIntKeys -> UIntSet \cup {Absent}]
      /\ deleted_sets_map_ \in [UIntPrefixes -> SUBSET (UIntTimes \X UIntKeys)]
      /\ op.pc \in {"get_wait", "put_wait"} => sets_map_[op.key] # Absent
  BY <1>1 DEF UIntCacheTypes
<1>3. op.pc \in {"put", "get_wait", "put_wait"} /\ UNCHANGED deleted_sets_map_
  BY DEF PutSetIfAbsent, MutateSet
<1>4. /\ op.key \in UIntKeys /\ op.values \in SUBSET UIntValues
      /\ op.time \in UIntTimes /\ op.is_deleted \in BOOLEAN
  BY <1>2, <1>3 DEF UIntThreadStates
<1>5. \A k, d : ~InHand(op, k, d)
  BY <1>3 DEF InHand
<1>6. \A k, d : ListedSet(k, d)' <=> ListedSet(k, d)
  BY <1>3 DEF ListedSet
<1>11. SameCutoff
  BY <1>1, SameCutoffHolds DEF PutSetIfAbsent, MutateSet
<1> HIDE DEF InHand, ListedSet
<1>7. ASSUME NEW set \in UIntSet,
             sets_map_[op.key] # Absent => set = sets_map_[op.key],
             sets_map_[op.key] = Absent => set.deleted_values_ = {},
             sets_map_' = [sets_map_ EXCEPT ![op.key] = Mutated(set, op)],
             AfterMutation(th)
      PROVE  UIntCacheInv'
  <2> DEFINE s == IF op.is_deleted THEN [op EXCEPT !.pc = "list"] ELSE UIntIdle
  <2>1. /\ Mutated(set, op) \in UIntSet
        /\ \A d \in Mutated(set, op).deleted_values_ :
             d \in set.deleted_values_ \/ (op.is_deleted /\ d[1] = op.time)
    BY <1>4, MutatedSet
  <2>2. /\ s \in UIntThreadStates /\ s.pc \in {"list", "idle"}
        /\ op.is_deleted => s.pc = "list" /\ s.key = op.key /\ s.time = op.time
    BY <1>2, <1>3 DEF UIntThreadStates, UIntIdle
  <2>3. uint_thread' = [uint_thread EXCEPT ![th] = s]
    BY <1>7 DEF AfterMutation
  <2> HIDE DEF s, op
  <2>4. Mutated(set, op) # Absent
    BY <2>1, UIntCacheAssumption
  <2>5. /\ sets_map_' \in [UIntKeys -> UIntSet \cup {Absent}]
        /\ \A k \in UIntKeys : sets_map_[k] # Absent => sets_map_'[k] # Absent
        /\ \A k \in UIntKeys : k # op.key => sets_map_'[k] = sets_map_[k]
        /\ sets_map_'[op.key] = Mutated(set, op)
    BY <1>2, <1>4, <1>7, <2>1, <2>4
  <2>6. ASSUME NEW k \in UIntKeys, sets_map_'[k] # Absent,
               NEW d \in sets_map_'[k].deleted_values_
        PROVE  \/ ListedSet(k, d)' \/ InHand(s, k, d)
               \/ /\ sets_map_[k] # Absent /\ d \in sets_map_[k].deleted_values_
                  /\ ~ListedSet(k, d) /\ ~InHand(op, k, d)
    <3>1. CASE sets_map_[k] # Absent /\ d \in sets_map_[k].deleted_values_
      BY <1>5, <1>6, <3>1
    <3>2. CASE ~(sets_map_[k] # Absent /\ d \in sets_map_[k].deleted_values_)
      <4>1. k = op.key
        BY <2>5, <2>6, <3>2
      <4>2. op.is_deleted /\ d[1] = op.time
        BY <1>7, <2>1, <2>5, <2>6, <3>2, <4>1
      <4> QED BY <2>2, <4>1, <4>2 DEF InHand
    <3> QED BY <3>1, <3>2
  <2>7. deleted_sets_map_' \in [UIntPrefixes -> SUBSET (UIntTimes \X UIntKeys)]
    BY <1>2, <1>3
  <2>8. s.pc \notin {"get_wait", "put_wait", "clean_wait"} /\ ~Cleaning(s)
    BY <2>2 DEF Cleaning
  <2>9. \A k \in UIntKeys : sets_map_'[k] # Absent =>
          \A d \in sets_map_'[k].deleted_values_ :
            \/ ListedSet(k, d)' \/ InHand(s, k, d)
            \/ /\ sets_map_[k] # Absent /\ d \in sets_map_[k].deleted_values_
               /\ ~ListedSet(k, d) /\ ~InHand(uint_thread[th], k, d)
    BY <2>6 DEF op
  <2>10. s \in UIntThreadStates
    BY <2>2
  <2>11. /\ sets_map_' \in [UIntKeys -> UIntSet \cup {Absent}]
         /\ \A k \in UIntKeys : sets_map_[k] # Absent => sets_map_'[k] # Absent
    BY SMTT(30), <2>5
  <2> QED BY Zenon, <1>11, <2>3, <2>7, <2>8, <2>9, <2>10, <2>11, ThreadMoves DEF SameCutoff
<1>8. CASE MutateSet(th)
  <2>1. sets_map_[op.key] \in UIntSet /\ sets_map_[op.key] # Absent
    BY <1>2, <1>4, <1>8 DEF MutateSet
  <2> QED BY Zenon, <1>7, <1>8, <2>1 DEF MutateSet
<1>9. CASE PutSetIfAbsent(th) /\ sets_map_[op.key] = Absent
  BY <1>7, <1>9, NewSet DEF PutSetIfAbsent
<1>10. CASE PutSetIfAbsent(th) /\ sets_map_[op.key] # Absent
  <2> DEFINE s == [op EXCEPT !.pc = "put_wait"]
  <2>1. /\ uint_thread' = [uint_thread EXCEPT ![th] = s] /\ op.pc = "put" /\ UNCHANGED maps
    BY <1>10 DEF PutSetIfAbsent, maps
  <2>2. s \in UIntThreadStates /\ s.key = op.key /\ s.pc = "put_wait"
    BY <1>2, <2>1 DEF UIntThreadStates
  <2> HIDE DEF s
  <2> QED BY Zenon, <1>5, <1>10, <2>1, <2>2, ThreadOnlyMoves DEF Cleaning
<1> QED BY <1>8, <1>9, <1>10

(* The removal goes from the hand of the thread into the list.               *)
LEMMA ListStep ==
  ASSUME UIntCacheInv, NEW th \in UIntThreads, ListDeletedSet(th)
  PROVE  UIntCacheInv'
<1> DEFINE op == uint_thread[th]
<1>1. UIntCacheTypes
  BY DEF UIntCacheInv
<1>2. /\ op \in UIntThreadStates /\ sets_map_ \in [UIntKeys -> UIntSet \cup {Absent}]
      /\ deleted_sets_map_ \in [UIntPrefixes -> SUBSET (UIntTimes \X UIntKeys)]
  BY <1>1 DEF UIntCacheTypes
<1>3. /\ op.pc = "list" /\ sets_map_' = sets_map_
      /\ deleted_sets_map_' =
           [deleted_sets_map_ EXCEPT ![op.prefix] = @ \cup {<<op.time, op.key>>}]
      /\ uint_thread' = [uint_thread EXCEPT ![th] = UIntIdle]
  BY DEF ListDeletedSet
<1>4. op.key \in UIntKeys /\ op.prefix \in UIntPrefixes /\ op.time \in UIntTimes
  BY <1>2, <1>3 DEF UIntThreadStates
<1>5. deleted_sets_map_' \in [UIntPrefixes -> SUBSET (UIntTimes \X UIntKeys)]
  BY <1>2, <1>3, <1>4
<1>6. \A k, d : ListedSet(k, d) \/ InHand(op, k, d) => ListedSet(k, d)'
  BY <1>2, <1>3, <1>4 DEF ListedSet, InHand
<1>7. UIntIdle \in UIntThreadStates /\ UIntIdle.pc = "idle"
  BY SMTT(30) DEF UIntIdle, UIntThreadStates
<1>9. SameCutoff /\ ~Cleaning(UIntIdle)
  BY <1>1, <1>7, SameCutoffHolds DEF ListDeletedSet, Cleaning
<1> HIDE DEF InHand, ListedSet, op
<1>8. \A k \in UIntKeys : sets_map_'[k] # Absent =>
        \A d \in sets_map_'[k].deleted_values_ :
          \/ ListedSet(k, d)' \/ InHand(UIntIdle, k, d)
          \/ /\ sets_map_[k] # Absent /\ d \in sets_map_[k].deleted_values_
             /\ ~ListedSet(k, d) /\ ~InHand(op, k, d)
  BY <1>3, <1>6
<1> QED BY Zenon, <1>2, <1>3, <1>5, <1>7, <1>8, <1>9, ThreadMoves DEF op, SameCutoff

(* A cleanup that starts never moves the cutoff back.                        *)
LEMMA CleanUpMovesOn ==
  ASSUME UIntCacheTypes, NEW th, NEW t \in UIntTimes, StartUIntCleanUp(th, t)
  PROVE  /\ sets_max_cleanup_commit_time_map_' \in [UIntPrefixes -> UIntTimes \cup {Absent}]
         /\ UIntCutoff <= UIntCutoff'
         /\ \/ uint_thread' = uint_thread
            \/ /\ uint_thread' = [uint_thread EXCEPT ![th] = [pc |-> "take", time |-> t]]
               /\ t <= UIntCutoff'
<1> DEFINE max == sets_max_cleanup_commit_time_map_[DefaultPrefix]
<1>1. /\ sets_max_cleanup_commit_time_map_ \in [UIntPrefixes -> UIntTimes \cup {Absent}]
      /\ UIntCutoff \in Int /\ t \in Int /\ 0 < t
  BY CutoffIsInt, UIntTimesAreInts DEF UIntCacheTypes
<1>2. CASE UNCHANGED <<sets_max_cleanup_commit_time_map_, uint_thread>>
  BY <1>2, SameCutoffHolds DEF SameCutoff
<1>3. CASE /\ ~(max # Absent /\ t < max)
           /\ sets_max_cleanup_commit_time_map_' =
                [sets_max_cleanup_commit_time_map_ EXCEPT ![DefaultPrefix] = t]
           /\ uint_thread' = [uint_thread EXCEPT ![th] = [pc |-> "take", time |-> t]]
  <2>1. /\ sets_max_cleanup_commit_time_map_' \in [UIntPrefixes -> UIntTimes \cup {Absent}]
        /\ sets_max_cleanup_commit_time_map_'[DefaultPrefix] = t
    BY <1>1, <1>3, UIntCacheAssumption
  <2>2. UIntCutoff' = t
    BY <2>1, UIntCacheAssumption DEF UIntCutoff
  <2>3. UIntCutoff <= t
    BY <1>1, <1>3 DEF UIntCutoff
  <2> QED BY <1>1, <1>3, <2>1, <2>2, <2>3
<1> QED BY <1>2, <1>3 DEF StartUIntCleanUp

(* A cleanup takes what is due from the list into its hand, and lets go of a *)
(* key once it has dropped the removals of its set that are due.             *)
LEMMA CleanUpStep ==
  ASSUME UIntCacheInv, NEW th \in UIntThreads,
         CleanUpUIntSetMaps(th) \/ TakeDeletedSets(th) \/ CleanUpSet(th)
  PROVE  UIntCacheInv'
<1> DEFINE op == uint_thread[th]
<1>1. UIntCacheTypes
  BY DEF UIntCacheInv
<1>2. /\ op \in UIntThreadStates /\ sets_map_ \in [UIntKeys -> UIntSet \cup {Absent}]
      /\ deleted_sets_map_ \in [UIntPrefixes -> SUBSET (UIntTimes \X UIntKeys)]
      /\ op.pc = "clean_wait" => sets_map_[op.key] # Absent
      /\ Cleaning(op) => op.time <= UIntCutoff
      /\ uint_thread \in [UIntThreads -> UIntThreadStates]
  BY SMTT(30), <1>1 DEF UIntCacheTypes
<1>3. CASE CleanUpUIntSetMaps(th)
  <2>1. PICK t \in UIntTimes : StartUIntCleanUp(th, t)
    BY <1>3 DEF CleanUpUIntSetMaps
  <2>2. PICK s \in UIntThreadStates :
          /\ s.pc \in {"idle", "take"} /\ op = UIntIdle
          /\ uint_thread' = [uint_thread EXCEPT ![th] = s]
    <3>1. op = UIntIdle /\ UIntIdle \in UIntThreadStates /\ UIntIdle.pc = "idle"
      BY <2>1 DEF StartUIntCleanUp, UIntIdle, UIntThreadStates
    <3>2. CASE UNCHANGED uint_thread
      BY <1>2, <3>1, <3>2
    <3>3. CASE uint_thread' = [uint_thread EXCEPT ![th] = [pc |-> "take", time |-> t]]
      BY Zenon, <3>1, <3>3, UIntCacheAssumption DEF UIntThreadStates
    <3> QED BY <2>1, <3>2, <3>3 DEF StartUIntCleanUp
  <2>3. UNCHANGED <<sets_map_, deleted_sets_map_>>
    BY <2>1 DEF StartUIntCleanUp
  <2>6. /\ sets_max_cleanup_commit_time_map_' \in [UIntPrefixes -> UIntTimes \cup {Absent}]
        /\ UIntCutoff <= UIntCutoff' /\ (Cleaning(s) => s.time <= UIntCutoff')
    <3>1. /\ sets_max_cleanup_commit_time_map_' \in [UIntPrefixes -> UIntTimes \cup {Absent}]
          /\ UIntCutoff <= UIntCutoff'
          /\ \/ uint_thread' = uint_thread
             \/ /\ uint_thread' = [uint_thread EXCEPT ![th] = [pc |-> "take", time |-> t]]
                /\ t <= UIntCutoff'
      BY <1>1, <2>1, CleanUpMovesOn
    <3>2. uint_thread'[th] = s
      BY <1>2, <2>2
    <3>3. CASE uint_thread' = uint_thread
      BY <2>2, <3>1, <3>2, <3>3 DEF UIntIdle, Cleaning
    <3>4. CASE /\ uint_thread' = [uint_thread EXCEPT ![th] = [pc |-> "take", time |-> t]]
               /\ t <= UIntCutoff'
      <4>1. s = [pc |-> "take", time |-> t]
        BY <1>2, <3>2, <3>4
      <4> QED BY <3>1, <3>4, <4>1
    <3> QED BY <3>1, <3>3, <3>4
  <2>4. \A k, d : (ListedSet(k, d)' <=> ListedSet(k, d)) /\ ~InHand(op, k, d)
    BY <2>2, <2>3 DEF ListedSet, InHand, UIntIdle
  <2> HIDE DEF InHand, ListedSet, op
  <2>5. \A k \in UIntKeys : sets_map_'[k] # Absent =>
          \A d \in sets_map_'[k].deleted_values_ :
            \/ ListedSet(k, d)' \/ InHand(s, k, d)
            \/ /\ sets_map_[k] # Absent /\ d \in sets_map_[k].deleted_values_
               /\ ~ListedSet(k, d) /\ ~InHand(op, k, d)
    BY <2>3, <2>4
  <2> QED BY Zenon, <1>2, <2>2, <2>3, <2>5, <2>6, ThreadMoves DEF op
<1>4. CASE TakeDeletedSets(th)
  <2> DEFINE due == {d \in deleted_sets_map_[DefaultPrefix] : d[1] <= op.time}
             s == [pc |-> "clean", time |-> op.time, todo |-> {d[2] : d \in due}]
  <2>1. /\ op.pc = "take" /\ sets_map_' = sets_map_
        /\ deleted_sets_map_' = [deleted_sets_map_ EXCEPT ![DefaultPrefix] = @ \ due]
        /\ uint_thread' = [uint_thread EXCEPT ![th] = s]
    BY <1>4 DEF TakeDeletedSets
  <2>2. op.time \in UIntTimes /\ op.time <= UIntCutoff
    BY <1>2, <2>1 DEF UIntThreadStates, Cleaning
  <2>10. SameCutoff
    BY <1>1, <1>4, SameCutoffHolds DEF TakeDeletedSets
  <2>3. deleted_sets_map_[DefaultPrefix] \subseteq UIntTimes \X UIntKeys
    BY <1>2, UIntCacheAssumption
  <2>4. {d[2] : d \in due} \in SUBSET UIntKeys
    BY SMTT(30), <2>3
  <2>5. s \in UIntThreadStates /\ s.pc = "clean" /\ s.time = op.time
        /\ s.todo = {d[2] : d \in due}
    BY <2>2, <2>4 DEF UIntThreadStates
  <2>6. deleted_sets_map_' \in [UIntPrefixes -> SUBSET (UIntTimes \X UIntKeys)]
    BY ZenonT(30), <1>2, <2>1
  <2>7. \A k, d : ~InHand(op, k, d)
    BY <2>1 DEF InHand
  <2> HIDE DEF s, op
  <2>8. ASSUME NEW k, NEW d, ListedSet(k, d)
        PROVE  ListedSet(k, d)' \/ InHand(s, k, d)
    <3>1. PICK p \in UIntPrefixes : <<d[1], k>> \in deleted_sets_map_[p]
      BY <2>8 DEF ListedSet
    <3>2. CASE p = DefaultPrefix /\ d[1] <= op.time
      <4>1. <<d[1], k>> \in due
        BY <3>1, <3>2
      <4>2. k \in s.todo
        BY <2>5, <4>1
      <4> QED BY <2>5, <3>2, <4>2 DEF InHand
    <3>3. CASE ~(p = DefaultPrefix /\ d[1] <= op.time)
      BY <1>2, <2>1, <3>1, <3>3 DEF ListedSet
    <3> QED BY <3>2, <3>3
  <2> HIDE DEF InHand, ListedSet, due
  <2>9. \A k \in UIntKeys : sets_map_'[k] # Absent =>
          \A d \in sets_map_'[k].deleted_values_ :
            \/ ListedSet(k, d)' \/ InHand(s, k, d)
            \/ /\ sets_map_[k] # Absent /\ d \in sets_map_[k].deleted_values_
               /\ ~ListedSet(k, d) /\ ~InHand(op, k, d)
    BY SMTT(30), <2>1, <2>7, <2>8
  <2>11. Cleaning(s) => s.time <= UIntCutoff'
    BY <2>2, <2>5, <2>10 DEF SameCutoff
  <2> QED BY ZenonT(30), <1>2, <2>1, <2>5, <2>6, <2>9, <2>10, <2>11, ThreadMoves DEF op, SameCutoff
<1>5. CASE CleanUpSet(th)
  <2> DEFINE s == [pc |-> "clean", time |-> op.time, todo |-> op.todo \ {op.key}]
             set == Cleanup(sets_map_[op.key], op.time)
  <2>1. /\ op.pc = "clean_wait" /\ deleted_sets_map_' = deleted_sets_map_
        /\ sets_map_' = [sets_map_ EXCEPT ![op.key] = set]
        /\ uint_thread' = [uint_thread EXCEPT ![th] = s]
    BY <1>5 DEF CleanUpSet
  <2>2. /\ op.time \in UIntTimes /\ op.key \in UIntKeys /\ op.todo \in SUBSET UIntKeys
        /\ op.time <= UIntCutoff
    BY <1>2, <2>1 DEF UIntThreadStates, Cleaning
  <2>14. SameCutoff
    BY <1>1, <1>5, SameCutoffHolds DEF CleanUpSet
  <2>3. sets_map_[op.key] \in UIntSet
    BY <1>2, <2>1, <2>2
  <2>4. /\ set \in UIntSet /\ set # Absent
        /\ \A d \in set.deleted_values_ :
             d \in sets_map_[op.key].deleted_values_ /\ ~(d[1] <= op.time)
    BY ZenonT(30), <2>2, <2>3, CleanedSet, UIntCacheAssumption
  <2>5. s \in UIntThreadStates /\ s.pc = "clean" /\ s.time = op.time
        /\ s.todo = op.todo \ {op.key}
    BY <2>2 DEF UIntThreadStates
  <2> HIDE DEF s, set, op
  <2>6. /\ sets_map_' \in [UIntKeys -> UIntSet \cup {Absent}]
        /\ \A k \in UIntKeys : sets_map_[k] # Absent => sets_map_'[k] # Absent
        /\ \A k \in UIntKeys : k # op.key => sets_map_'[k] = sets_map_[k]
        /\ sets_map_'[op.key] = set /\ sets_map_[op.key] # Absent
    BY <1>2, <2>1, <2>2, <2>4 DEF op
  <2>7. \A k, d : ListedSet(k, d)' <=> ListedSet(k, d)
    BY <2>1 DEF ListedSet
  <2>8. \A k, d : InHand(op, k, d) /\ ~(k = op.key /\ d[1] <= op.time) => InHand(s, k, d)
    BY SMTT(30), <2>1, <2>5 DEF InHand
  <2>9. \A d : InHand(op, op.key, d) => d[1] <= op.time
    BY SMTT(30), <2>1 DEF InHand
  <2> HIDE DEF InHand, ListedSet
  <2>10. ASSUME NEW k \in UIntKeys, sets_map_'[k] # Absent,
                NEW d \in sets_map_'[k].deleted_values_
         PROVE  \/ ListedSet(k, d)' \/ InHand(s, k, d)
                \/ /\ sets_map_[k] # Absent /\ d \in sets_map_[k].deleted_values_
                   /\ ~ListedSet(k, d) /\ ~InHand(op, k, d)
    <3>1. CASE k = op.key
      BY <2>4, <2>6, <2>7, <2>9, <2>10, <3>1
    <3>2. CASE k # op.key
      BY SMTT(30), <2>6, <2>7, <2>8, <2>10, <3>2
    <3> QED BY <3>1, <3>2
  <2>11. \A k \in UIntKeys : sets_map_'[k] # Absent =>
          \A d \in sets_map_'[k].deleted_values_ :
            \/ ListedSet(k, d)' \/ InHand(s, k, d)
            \/ /\ sets_map_[k] # Absent /\ d \in sets_map_[k].deleted_values_
               /\ ~ListedSet(k, d) /\ ~InHand(uint_thread[th], k, d)
    BY <2>10 DEF op
  <2>12. s.pc \notin {"get_wait", "put_wait", "clean_wait"}
    BY <2>5
  <2>13. deleted_sets_map_' \in [UIntPrefixes -> SUBSET (UIntTimes \X UIntKeys)]
    BY <1>2, <2>1
  <2>15. Cleaning(s) => s.time <= UIntCutoff'
    BY <2>2, <2>5, <2>14 DEF SameCutoff
  <2>16. s \in UIntThreadStates /\ uint_thread' = [uint_thread EXCEPT ![th] = s]
    BY <2>1, <2>5
  <2>17. /\ sets_map_' \in [UIntKeys -> UIntSet \cup {Absent}]
         /\ \A k \in UIntKeys : sets_map_[k] # Absent => sets_map_'[k] # Absent
    BY Zenon, <2>6
  <2> QED BY Zenon, <2>11, <2>12, <2>13, <2>14, <2>15, <2>16, <2>17, ThreadMoves DEF SameCutoff
<1> QED BY <1>3, <1>4, <1>5

(* The integer sets start in the invariant.                                  *)
LEMMA UIntCacheInvInit == UIntCacheInit => UIntCacheInv
<1> SUFFICES ASSUME UIntCacheInit PROVE UIntCacheInv
  OBVIOUS
<1>1. UIntIdle \in UIntThreadStates /\ ~Cleaning(UIntIdle) /\ UIntIdle.pc = "idle"
  BY DEF UIntIdle, UIntThreadStates, Cleaning
<1>2. UIntCacheTypes
  BY <1>1 DEF UIntCacheInit, UIntCacheTypes
<1>3. DeletedSetsAreListed
  BY DEF UIntCacheInit, DeletedSetsAreListed
<1> QED BY <1>2, <1>3 DEF UIntCacheInv

(* Every step of every thread keeps the invariant.                           *)
LEMMA UIntCacheInvStep == UIntCacheInv /\ [UIntCacheNext]_uintCacheVars => UIntCacheInv'
<1> SUFFICES ASSUME UIntCacheInv, [UIntCacheNext]_uintCacheVars PROVE UIntCacheInv'
  OBVIOUS
<1>1. CASE UNCHANGED uintCacheVars
  BY <1>1 DEF uintCacheVars, maps, UIntCacheInv, UIntCacheTypes, DeletedSetsAreListed, UIntCutoff
<1>2. ASSUME NEW th \in UIntThreads,
             UIntMutation(th) \/ CleanUpUIntSetMaps(th) \/ UIntLookup(th) \/ UIntContinue(th)
      PROVE  UIntCacheInv'
  BY <1>2, QuietStep, MutationStep, ListStep, CleanUpStep DEF UIntContinue
<1> QED BY <1>1, <1>2 DEF UIntCacheNext

(* No removal recorded in a set is forgotten (DeletedSetsAreListed), for any *)
(* number of threads, keys, prefixes, values and commit times.               *)
THEOREM DeletedSetsAreAlwaysListed == UIntCacheSpec => []DeletedSetsAreListed
<1>1. UIntCacheInv => DeletedSetsAreListed
  BY DEF UIntCacheInv
<1> QED BY <1>1, UIntCacheInvInit, UIntCacheInvStep, PTL DEF UIntCacheSpec

(***************************************************************************)
(* What a set says of one value whose newest mutation is `new`.  The set     *)
(* knows it if its metadata is that of some mutation, and serves it exactly  *)
(* if the metadata is that of the newest, or is gone and the newest removed  *)
(* the value at a time that the cutoff has reached.                         *)
(***************************************************************************)
Knows(set, v, new) ==
  LET md == set.values_metadata_[v] IN
  md # NoMetadata =>
    /\ 0 < md.logical_commit_time
    /\ md.logical_commit_time <= new.logical_commit_time
    /\ ~md.is_deleted => v \in set.values_bitset_
    /\ md.is_deleted => <<md.logical_commit_time, v>> \in set.deleted_values_

ServesExactly(set, v, new, cutoff) ==
  LET md == set.values_metadata_[v] IN
  /\ v \in set.values_bitset_ <=> ~new.is_deleted
  /\ md # NoMetadata => md = new
  /\ md = NoMetadata => new.is_deleted /\ new.logical_commit_time <= cutoff

HistoryInv ==
  /\ UIntCacheInv
  /\ uint_newest \in [UIntKeys -> [UIntValues -> ValueMetadata]]
  /\ \A k \in UIntKeys, v \in UIntValues :
       /\ Knows(SetOf(k), v, uint_newest[k][v])
       /\ <<k, v>> \notin misled => ServesExactly(SetOf(k), v, uint_newest[k][v], UIntCutoff)

(* Add and Remove change a value that has no metadata or older metadata.     *)
Changes(set, v, values, time) ==
  /\ v \in values
  /\ \/ set.values_metadata_[v] = NoMetadata
     \/ set.values_metadata_[v].logical_commit_time < time

(* What Add and Remove do to one value.                                      *)
ValueChanged(after, v, time, is_deleted) ==
  /\ after.values_metadata_[v] = [logical_commit_time |-> time, is_deleted |-> is_deleted]
  /\ v \in after.values_bitset_ <=> ~is_deleted
  /\ is_deleted => <<time, v>> \in after.deleted_values_

ValueKept(set, after, v) ==
  /\ after.values_metadata_[v] = set.values_metadata_[v]
  /\ v \in after.values_bitset_ <=> v \in set.values_bitset_
  /\ \A t \in UIntTimes : <<t, v>> \in after.deleted_values_ <=> <<t, v>> \in set.deleted_values_

(* AddOrRemove changes a value or keeps it.                                  *)
LEMMA MutatedValue ==
  ASSUME NEW set \in UIntSet, NEW values \in SUBSET UIntValues, NEW time \in UIntTimes,
         NEW is_deleted \in BOOLEAN, NEW v \in UIntValues,
         NEW after, after = AddOrRemove(set, values, time, is_deleted)
  PROVE  IF Changes(set, v, values, time) THEN ValueChanged(after, v, time, is_deleted)
                                          ELSE ValueKept(set, after, v)
<1> DEFINE changed == {w \in values : Newer(set, w, time)}
           metadata == [w \in UIntValues |->
                          IF w \in changed
                            THEN [logical_commit_time |-> time, is_deleted |-> is_deleted]
                          ELSE IF w \in values THEN Metadata(set, w)
                          ELSE set.values_metadata_[w]]
<1>1. time \in Int /\ 0 < time
  BY UIntTimesAreInts
<1>2. v \in changed <=> Changes(set, v, values, time)
  BY <1>1 DEF Newer, Metadata, Changes
<1>3. metadata[v] = IF v \in changed
                      THEN [logical_commit_time |-> time, is_deleted |-> is_deleted]
                      ELSE set.values_metadata_[v]
  BY <1>2 DEF Metadata, Changes
<1>4. after =
        [values_bitset_ |-> BitsetAfter(set, changed, is_deleted),
         values_metadata_ |-> metadata,
         deleted_values_ |-> DeletedAfter(set, changed, time, is_deleted)]
  BY DEF AddOrRemove
<1> HIDE DEF changed, metadata
<1>5. v \in BitsetAfter(set, changed, is_deleted) <=>
        IF v \in changed THEN ~is_deleted ELSE v \in set.values_bitset_
  BY DEF BitsetAfter
<1>6. /\ v \in changed /\ is_deleted =>
           <<time, v>> \in DeletedAfter(set, changed, time, is_deleted)
      /\ v \notin changed => \A t \in UIntTimes :
           <<t, v>> \in DeletedAfter(set, changed, time, is_deleted) <=>
             <<t, v>> \in set.deleted_values_
  BY DEF DeletedAfter
<1> QED BY <1>2, <1>3, <1>4, <1>5, <1>6 DEF ValueChanged, ValueKept

(* The metadata of a value that the set knows has an integer time.           *)
LEMMA KnownTime ==
  ASSUME NEW set \in UIntSet, NEW v \in UIntValues, NEW new, Knows(set, v, new),
         set.values_metadata_[v] # NoMetadata
  PROVE  /\ set.values_metadata_[v].logical_commit_time \in UIntTimes
         /\ set.values_metadata_[v].logical_commit_time \in Int
<1> DEFINE md == set.values_metadata_[v]
<1>1. md \in ValueMetadata
  BY DEF UIntSet
<1>2. md.logical_commit_time \in UIntTimes \cup {0} /\ 0 < md.logical_commit_time
  BY <1>1 DEF ValueMetadata, Knows
<1> HIDE DEF md
<1>3. md.logical_commit_time \in UIntTimes /\ md.logical_commit_time \in Int
  BY <1>2, UIntTimesAreInts
<1> QED BY <1>3 DEF md

(* A mutation keeps what the set knows.  Afterwards the set serves the value *)
(* exactly if the mutation is the newest, or if it did before and the        *)
(* mutation is not late.                                                     *)
KeptByMutation(set, after, v, values, time, new, last, cutoff) ==
  /\ Knows(after, v, last)
  /\ \/ v \in values /\ new.logical_commit_time < time
     \/ /\ ServesExactly(set, v, new, cutoff)
        /\ ~(v \in values /\ set.values_metadata_[v] = NoMetadata /\ time <= cutoff)
     => ServesExactly(after, v, last, cutoff)

(* The set after Add or Remove.                                              *)
LEMMA MutationKeepsValue ==
  ASSUME NEW set \in UIntSet, NEW values \in SUBSET UIntValues, NEW time \in UIntTimes,
         NEW is_deleted \in BOOLEAN, NEW v \in UIntValues, NEW new \in ValueMetadata,
         NEW cutoff \in Int, Knows(set, v, new),
         NEW after, after = AddOrRemove(set, values, time, is_deleted),
         NEW last, last = IF v \in values /\ new.logical_commit_time < time
                            THEN [logical_commit_time |-> time, is_deleted |-> is_deleted]
                            ELSE new
  PROVE  KeptByMutation(set, after, v, values, time, new, last, cutoff)
<1> DEFINE md == set.values_metadata_[v]
           op == [logical_commit_time |-> time, is_deleted |-> is_deleted]
           newer == v \in values /\ new.logical_commit_time < time
           late == v \in values /\ md = NoMetadata /\ time <= cutoff
<1>1. time \in Int /\ 0 < time /\ new.logical_commit_time \in Int
  BY UIntTimesAreInts DEF ValueMetadata
<1>2. md # NoMetadata => md.logical_commit_time \in UIntTimes /\ md.logical_commit_time \in Int
  BY KnownTime
<1>3. op # NoMetadata /\ op.logical_commit_time = time /\ op.is_deleted = is_deleted
  BY UIntCacheAssumption DEF ValueMetadata
<1>6. Changes(set, v, values, time) => ValueChanged(after, v, time, is_deleted)
  BY Zenon, MutatedValue
<1>7. ~Changes(set, v, values, time) => ValueKept(set, after, v)
  BY Zenon, MutatedValue
<1>4. CASE Changes(set, v, values, time)
  <2>1. /\ after.values_metadata_[v] = op
        /\ v \in after.values_bitset_ <=> ~is_deleted
        /\ is_deleted => <<time, v>> \in after.deleted_values_
    BY <1>4, <1>6 DEF ValueChanged
  <2>2. CASE newer
    <3>1. last = op
      BY <2>2
    <3> HIDE DEF op
    <3>2. Knows(after, v, last)
      BY <1>1, <1>3, <2>1, <3>1 DEF Knows
    <3>3. ServesExactly(after, v, last, cutoff)
      BY <1>3, <2>1, <3>1 DEF ServesExactly
    <3> QED BY <3>2, <3>3 DEF KeptByMutation
  <2>3. CASE ~newer
    <3>1. last = new /\ time <= new.logical_commit_time
      BY <1>1, <1>4, <2>3 DEF Changes
    <3>2. ServesExactly(set, v, new, cutoff) => late
      <4>1. CASE md = NoMetadata
        BY <1>1, <1>4, <3>1, <4>1 DEF ServesExactly, Changes
      <4>2. CASE md # NoMetadata
        BY <1>1, <1>2, <1>4, <3>1, <4>2 DEF ServesExactly, Changes
      <4> QED BY <4>1, <4>2
    <3> HIDE DEF op
    <3>3. Knows(after, v, last)
      BY <1>1, <1>3, <2>1, <3>1 DEF Knows
    <3> QED BY <2>3, <3>2, <3>3 DEF KeptByMutation
  <2> QED BY <2>2, <2>3
<1>5. CASE ~Changes(set, v, values, time)
  <2>1. /\ after.values_metadata_[v] = md
        /\ v \in after.values_bitset_ <=> v \in set.values_bitset_
        /\ \A t \in UIntTimes :
             <<t, v>> \in after.deleted_values_ <=> <<t, v>> \in set.deleted_values_
    BY <1>5, <1>7 DEF ValueKept
  <2>2. ~newer
    <3>1. v \in values => md # NoMetadata /\ ~(md.logical_commit_time < time)
      BY <1>5 DEF Changes
    <3>2. md # NoMetadata => md.logical_commit_time <= new.logical_commit_time
      BY DEF Knows
    <3> HIDE DEF md
    <3> QED BY <1>1, <1>2, <3>1, <3>2
  <2>3. last = new
    BY <2>2
  <2>4. Knows(after, v, last)
    BY <1>2, <2>1, <2>3 DEF Knows
  <2>5. ServesExactly(set, v, new, cutoff) => ServesExactly(after, v, last, cutoff)
    BY <2>1, <2>3 DEF ServesExactly
  <2> QED BY <2>2, <2>4, <2>5 DEF KeptByMutation
<1> QED BY <1>4, <1>5

(* Cleanup up to a time that the cutoff has reached keeps what the set knows, *)
(* and exact service unless it erases the value's metadata too early.        *)
KeptByCleanUp(set, after, v, time, new, cutoff) ==
  /\ Knows(after, v, new)
  /\ ServesExactly(set, v, new, cutoff) /\ v \notin ErasedTooEarly(set, time) =>
       ServesExactly(after, v, new, cutoff)

(* The set after Cleanup.                                                    *)
LEMMA CleanUpKeepsValue ==
  ASSUME NEW set \in UIntSet, NEW time \in UIntTimes, NEW v \in UIntValues,
         NEW new \in ValueMetadata, NEW cutoff \in Int, time <= cutoff,
         Knows(set, v, new), NEW after, after = Cleanup(set, time)
  PROVE  KeptByCleanUp(set, after, v, time, new, cutoff)
<1> DEFINE md == set.values_metadata_[v]
           due == {d \in set.deleted_values_ : d[1] <= time}
<1>1. time \in Int /\ new.logical_commit_time \in Int
  BY UIntTimesAreInts DEF ValueMetadata
<1>2. /\ after.values_bitset_ = set.values_bitset_
      /\ after.deleted_values_ = set.deleted_values_ \ due
      /\ after.values_metadata_[v] = IF \E d \in due : d[2] = v THEN NoMetadata ELSE md
  BY DEF Cleanup
<1>3. v \in ErasedTooEarly(set, time) <=>
        /\ after.values_metadata_[v] # md
        /\ ~md.is_deleted \/ md.logical_commit_time > time
  BY DEF ErasedTooEarly
<1> HIDE DEF due
<1>4. CASE \E d \in due : d[2] = v
  <2>1. after.values_metadata_[v] = NoMetadata
    BY <1>2, <1>4
  <2>2. ASSUME ServesExactly(set, v, new, cutoff), v \notin ErasedTooEarly(set, time)
        PROVE  new.is_deleted /\ new.logical_commit_time <= cutoff
    <3>1. CASE md = NoMetadata
      BY <2>2, <3>1 DEF ServesExactly
    <3>2. CASE md # NoMetadata
      <4>1. md = new
        BY <2>2, <3>2 DEF ServesExactly
      <4>2. md.is_deleted /\ ~(md.logical_commit_time > time)
        BY <1>3, <2>1, <2>2, <3>2
      <4> HIDE DEF md
      <4> QED BY <1>1, <4>1, <4>2
    <3> QED BY <3>1, <3>2
  <2>3. Knows(after, v, new)
    BY <2>1 DEF Knows
  <2>4. ASSUME ServesExactly(set, v, new, cutoff), v \notin ErasedTooEarly(set, time)
        PROVE  ServesExactly(after, v, new, cutoff)
    BY <1>2, <2>1, <2>2, <2>4 DEF ServesExactly
  <2> QED BY <2>3, <2>4 DEF KeptByCleanUp
<1>5. CASE ~\E d \in due : d[2] = v
  <2>1. after.values_metadata_[v] = md
    BY <1>2, <1>5
  <2>2. \A t : <<t, v>> \notin due
    BY <1>5
  <2>3. Knows(after, v, new)
    BY <1>2, <2>1, <2>2 DEF Knows
  <2>4. ServesExactly(set, v, new, cutoff) => ServesExactly(after, v, new, cutoff)
    BY <1>2, <2>1 DEF ServesExactly
  <2> QED BY <2>3, <2>4 DEF KeptByCleanUp
<1> QED BY <1>4, <1>5

(* A cutoff that moves on keeps exact service.                               *)
LEMMA CutoffKeepsValue ==
  ASSUME NEW set, NEW v, NEW new \in ValueMetadata,
         NEW cutoff \in Int, NEW later \in Int, cutoff <= later,
         ServesExactly(set, v, new, cutoff)
  PROVE  ServesExactly(set, v, new, later)
<1>1. new.logical_commit_time \in Int
  BY UIntTimesAreInts DEF ValueMetadata
<1> QED BY <1>1 DEF ServesExactly

(* What HistoryInv says of one value.                                        *)
ValueInv(k, v) ==
  /\ Knows(SetOf(k), v, uint_newest[k][v])
  /\ <<k, v>> \notin misled => ServesExactly(SetOf(k), v, uint_newest[k][v], UIntCutoff)

(* A step that changes at most one set: every value of that set is known as  *)
(* before, and so is every value of the others.                              *)
LEMMA HistoryMoves ==
  ASSUME HistoryInv, UIntCacheInv', NEW key \in UIntKeys,
         uint_newest' \in [UIntKeys -> [UIntValues -> ValueMetadata]],
         \A k \in UIntKeys \ {key} : SetOf(k)' = SetOf(k) /\ uint_newest'[k] = uint_newest[k],
         \A k \in UIntKeys \ {key}, v \in UIntValues : <<k, v>> \in misled' <=> <<k, v>> \in misled,
         UIntCutoff' = UIntCutoff,
         \A v \in UIntValues :
           ValueInv(key, v)'
  PROVE  HistoryInv'
<1>1. ASSUME NEW k \in UIntKeys, k # key, NEW v \in UIntValues
      PROVE  ValueInv(k, v)'
  <2>1. ValueInv(k, v)
    BY DEF HistoryInv, ValueInv
  <2>2. /\ SetOf(k)' = SetOf(k) /\ uint_newest'[k] = uint_newest[k]
        /\ <<k, v>> \in misled' <=> <<k, v>> \in misled
    BY <1>1
  <2> HIDE DEF SetOf, UIntCutoff
  <2> QED BY <2>1, <2>2 DEF ValueInv
<1>2. \A k \in UIntKeys, v \in UIntValues : ValueInv(k, v)'
  BY <1>1
<1> QED BY <1>2 DEF HistoryInv, ValueInv

(* A mutation of either kind.                                                *)
LEMMA HistoryMutationStep ==
  ASSUME HistoryInv, UIntCacheInv', NEW op, op.key \in UIntKeys,
         op.values \in SUBSET UIntValues, op.time \in UIntTimes, op.is_deleted \in BOOLEAN,
         sets_map_' = [sets_map_ EXCEPT ![op.key] = Mutated(SetOf(op.key), op)],
         ObserveUInt(op), UNCHANGED sets_max_cleanup_commit_time_map_
  PROVE  HistoryInv'
<1> DEFINE key == op.key
           set == SetOf(key)
           newer == {v \in op.values : uint_newest[key][v].logical_commit_time < op.time}
           late == {v \in op.values : /\ set.values_metadata_[v] = NoMetadata
                                      /\ op.time <= UIntCutoff}
           last == [v \in UIntValues |->
                      IF v \in newer
                        THEN [logical_commit_time |-> op.time, is_deleted |-> op.is_deleted]
                        ELSE uint_newest[key][v]]
<1>1. /\ sets_map_ \in [UIntKeys -> UIntSet \cup {Absent}]
      /\ sets_max_cleanup_commit_time_map_ \in [UIntPrefixes -> UIntTimes \cup {Absent}]
      /\ uint_newest \in [UIntKeys -> [UIntValues -> ValueMetadata]]
  BY DEF HistoryInv, UIntCacheInv, UIntCacheTypes
<1>2. set \in UIntSet
  BY <1>1, NewSet DEF SetOf
<1>3. UIntCutoff \in Int /\ UIntCutoff' = UIntCutoff
  BY <1>1, CutoffIsInt DEF UIntCutoff
<1>4. Mutated(set, op) = AddOrRemove(set, op.values, op.time, op.is_deleted)
  BY DEF Mutated, Add, Remove
<1>5. /\ uint_newest' = [uint_newest EXCEPT ![key] = last]
      /\ misled' = (misled \ ({key} \X newer)) \cup ({key} \X (late \ newer))
  BY DEF ObserveUInt
<1>6. last \in [UIntValues -> ValueMetadata]
  BY <1>1 DEF ValueMetadata
<1>7. /\ uint_newest' \in [UIntKeys -> [UIntValues -> ValueMetadata]]
      /\ uint_newest'[key] = last
      /\ \A k \in UIntKeys \ {key} : uint_newest'[k] = uint_newest[k]
  BY <1>1, <1>5, <1>6
<1>8. \A k \in UIntKeys, v \in UIntValues :
        <<k, v>> \in misled' <=>
          IF k = key THEN (<<k, v>> \in misled \/ v \in late) /\ v \notin newer
                     ELSE <<k, v>> \in misled
  BY <1>5
<1>9. /\ SetOf(key)' = Mutated(set, op)
      /\ \A k \in UIntKeys \ {key} : SetOf(k)' = SetOf(k)
  <2>1. Mutated(set, op) # Absent
    BY <1>2, MutatedSet, UIntCacheAssumption
  <2>2. /\ sets_map_'[key] = Mutated(set, op)
        /\ \A k \in UIntKeys \ {key} : sets_map_'[k] = sets_map_[k]
    BY <1>1
  <2> HIDE DEF set, key
  <2> QED BY <2>1, <2>2 DEF SetOf
<1>10. ASSUME NEW v \in UIntValues
       PROVE  ValueInv(key, v)'
  <2> DEFINE after == AddOrRemove(set, op.values, op.time, op.is_deleted)
             new == uint_newest[key][v]
  <2>1. /\ Knows(set, v, new)
        /\ <<key, v>> \notin misled => ServesExactly(set, v, new, UIntCutoff)
    BY DEF HistoryInv
  <2>2. new \in ValueMetadata
    BY <1>1
  <2>3. last[v] = IF v \in op.values /\ new.logical_commit_time < op.time
                    THEN [logical_commit_time |-> op.time, is_deleted |-> op.is_deleted]
                    ELSE new
    OBVIOUS
  <2>4. /\ v \in newer <=> v \in op.values /\ new.logical_commit_time < op.time
        /\ v \in late <=> /\ v \in op.values /\ set.values_metadata_[v] = NoMetadata
                         /\ op.time <= UIntCutoff
    OBVIOUS
  <2> HIDE DEF set, newer, late, last, new, UIntCutoff
  <2>5. KeptByMutation(set, after, v, op.values, op.time, new, last[v], UIntCutoff)
    BY Zenon, <1>2, <1>3, <2>1, <2>2, <2>3, MutationKeepsValue
  <2>6. <<key, v>> \notin misled' <=> (<<key, v>> \notin misled /\ v \notin late) \/ v \in newer
    BY <1>8
  <2>7. SetOf(key)' = after /\ uint_newest'[key][v] = last[v] /\ UIntCutoff' = UIntCutoff
    BY <1>3, <1>4, <1>7, <1>9
  <2> HIDE DEF after
  <2>8. <<key, v>> \notin misled' => ServesExactly(after, v, last[v], UIntCutoff)
    BY <2>1, <2>4, <2>5, <2>6 DEF KeptByMutation
  <2> QED BY <2>5, <2>7, <2>8 DEF ValueInv, KeptByMutation
<1> HIDE DEF set, newer, late, last
<1> QED BY Zenon, <1>3, <1>7, <1>8, <1>9, <1>10, HistoryMoves

(* Cleanup of one set.                                                       *)
LEMMA HistoryCleanUpStep ==
  ASSUME HistoryInv, UIntCacheInv', NEW key \in UIntKeys, NEW time \in UIntTimes,
         time <= UIntCutoff, sets_map_[key] # Absent,
         sets_map_' = [sets_map_ EXCEPT ![key] = Cleanup(sets_map_[key], time)],
         misled' = misled \cup ({key} \X ErasedTooEarly(sets_map_[key], time)),
         UNCHANGED <<sets_max_cleanup_commit_time_map_, uint_newest>>
  PROVE  HistoryInv'
<1> DEFINE set == sets_map_[key]
<1>1. /\ sets_map_ \in [UIntKeys -> UIntSet \cup {Absent}]
      /\ uint_newest \in [UIntKeys -> [UIntValues -> ValueMetadata]]
      /\ UIntCutoff \in Int
  BY CutoffIsInt DEF HistoryInv, UIntCacheInv, UIntCacheTypes
<1>4. set \in UIntSet /\ SetOf(key) = set
  BY <1>1 DEF SetOf
<1>5. UIntCutoff' = UIntCutoff
  BY DEF UIntCutoff
<1>6. \A k \in UIntKeys, v \in UIntValues :
        <<k, v>> \in misled' <=>
          <<k, v>> \in misled \/ (k = key /\ v \in ErasedTooEarly(set, time))
  OBVIOUS
<1>7. /\ SetOf(key)' = Cleanup(set, time)
      /\ \A k \in UIntKeys \ {key} : SetOf(k)' = SetOf(k)
  <2>1. Cleanup(set, time) # Absent
    BY <1>4, CleanedSet, UIntCacheAssumption
  <2>2. /\ sets_map_'[key] = Cleanup(set, time)
        /\ \A k \in UIntKeys \ {key} : sets_map_'[k] = sets_map_[k]
    BY <1>1
  <2> HIDE DEF set
  <2> QED BY <2>1, <2>2 DEF SetOf
<1>8. ASSUME NEW v \in UIntValues
      PROVE  ValueInv(key, v)'
  <2> DEFINE after == Cleanup(set, time)
             new == uint_newest[key][v]
  <2>1. /\ Knows(set, v, new)
        /\ <<key, v>> \notin misled => ServesExactly(set, v, new, UIntCutoff)
    BY <1>4 DEF HistoryInv
  <2>2. new \in ValueMetadata
    BY <1>1
  <2> HIDE DEF set, new, UIntCutoff
  <2>3. KeptByCleanUp(set, after, v, time, new, UIntCutoff)
    BY Zenon, <1>1, <1>4, <2>1, <2>2, CleanUpKeepsValue
  <2>4. <<key, v>> \notin misled' <=>
          <<key, v>> \notin misled /\ v \notin ErasedTooEarly(set, time)
    BY <1>6
  <2>5. SetOf(key)' = after /\ uint_newest'[key][v] = new /\ UIntCutoff' = UIntCutoff
    BY <1>5, <1>7 DEF new
  <2> HIDE DEF after
  <2>6. /\ Knows(after, v, new)
        /\ <<key, v>> \notin misled' => ServesExactly(after, v, new, UIntCutoff)
    BY <2>1, <2>3, <2>4 DEF KeptByCleanUp
  <2> QED BY <2>5, <2>6 DEF ValueInv
<1>9. /\ uint_newest' \in [UIntKeys -> [UIntValues -> ValueMetadata]]
      /\ \A k \in UIntKeys : uint_newest'[k] = uint_newest[k]
  BY <1>1
<1> HIDE DEF set
<1> QED BY Zenon, <1>5, <1>6, <1>7, <1>8, <1>9, HistoryMoves

(* Every other step leaves sets and history alone; the cutoff may move on.   *)
LEMMA HistoryQuietStep ==
  ASSUME HistoryInv, UIntCacheInv', UNCHANGED <<sets_map_, uintHistory>>,
         UIntCutoff <= UIntCutoff'
  PROVE  HistoryInv'
<1>1. /\ uint_newest' \in [UIntKeys -> [UIntValues -> ValueMetadata]]
      /\ UIntCutoff \in Int /\ UIntCutoff' \in Int
      /\ uint_newest' = uint_newest /\ misled' = misled
  <2>1. UIntCutoff' \in Int
    BY UIntTimesAreInts, UIntCacheAssumption DEF UIntCacheInv, UIntCacheTypes, UIntCutoff
  <2> QED BY <2>1, CutoffIsInt DEF HistoryInv, UIntCacheInv, UIntCacheTypes, uintHistory
<1>2. \A k \in UIntKeys : SetOf(k)' = SetOf(k)
  BY DEF SetOf
<1>3. ASSUME NEW k \in UIntKeys, NEW v \in UIntValues
      PROVE  ValueInv(k, v)'
  <2>1. /\ Knows(SetOf(k), v, uint_newest[k][v])
        /\ <<k, v>> \notin misled => ServesExactly(SetOf(k), v, uint_newest[k][v], UIntCutoff)
        /\ uint_newest[k][v] \in ValueMetadata
    BY DEF HistoryInv
  <2>2. SetOf(k)' = SetOf(k)
    BY <1>2
  <2> HIDE DEF SetOf, UIntCutoff
  <2>3. ServesExactly(SetOf(k), v, uint_newest[k][v], UIntCutoff) =>
          ServesExactly(SetOf(k), v, uint_newest[k][v], UIntCutoff')
    BY <1>1, <2>1, CutoffKeepsValue
  <2> QED BY <1>1, <2>1, <2>2, <2>3 DEF ValueInv
<1> QED BY <1>1, <1>3 DEF HistoryInv, ValueInv

(* No value was mutated at the start.                                        *)
LEMMA HistoryInvInit == UIntCacheInit => HistoryInv
<1> SUFFICES ASSUME UIntCacheInit PROVE HistoryInv
  OBVIOUS
<1> DEFINE none == [logical_commit_time |-> 0, is_deleted |-> TRUE]
<1>1. none \in ValueMetadata /\ none.logical_commit_time = 0 /\ none.is_deleted
  BY DEF ValueMetadata
<1>2. /\ uint_newest \in [UIntKeys -> [UIntValues -> ValueMetadata]]
      /\ \A k \in UIntKeys, v \in UIntValues : uint_newest[k][v] = none
  BY <1>1 DEF UIntCacheInit
<1> HIDE DEF none
<1>3. /\ \A k \in UIntKeys : SetOf(k) = EmptySet
      /\ UIntCutoff = 0
  BY UIntCacheAssumption DEF UIntCacheInit, SetOf, UIntCutoff
<1>4. \A v \in UIntValues : Knows(EmptySet, v, none) /\ ServesExactly(EmptySet, v, none, 0)
  BY <1>1 DEF EmptySet, Knows, ServesExactly
<1> QED BY <1>2, <1>3, <1>4, UIntCacheInvInit DEF HistoryInv

(* Every step keeps the history.                                             *)
LEMMA HistoryInvStep == HistoryInv /\ [UIntCacheNext]_uintCacheVars => HistoryInv'
<1> SUFFICES ASSUME HistoryInv, [UIntCacheNext]_uintCacheVars PROVE HistoryInv'
  OBVIOUS
<1>1. UIntCacheInv /\ UIntCacheInv' /\ UIntCacheTypes
  BY UIntCacheInvStep DEF HistoryInv, UIntCacheInv
<1>2. ASSUME UNCHANGED <<sets_map_, uintHistory, sets_max_cleanup_commit_time_map_>>
      PROVE  HistoryInv'
  <2>1. UIntCutoff <= UIntCutoff'
    BY <1>1, <1>2, SameCutoffHolds DEF SameCutoff
  <2> QED BY <1>1, <1>2, <2>1, HistoryQuietStep
<1>3. CASE UNCHANGED uintCacheVars
  BY <1>2, <1>3 DEF uintCacheVars, maps
<1>4. ASSUME NEW th \in UIntThreads,
             UIntMutation(th) \/ CleanUpUIntSetMaps(th) \/ UIntLookup(th) \/ UIntContinue(th)
      PROVE  HistoryInv'
  <2> DEFINE op == uint_thread[th]
  <2>1. /\ op \in UIntThreadStates /\ UIntCutoff \in Int
        /\ op.pc \in {"get_wait", "put_wait", "clean_wait"} => sets_map_[op.key] # Absent
        /\ Cleaning(op) => op.time <= UIntCutoff
    BY <1>1, CutoffIsInt DEF UIntCacheTypes
  <2>2. CASE MutateSet(th) \/ (PutSetIfAbsent(th) /\ sets_map_[op.key] = Absent)
    <3>1. /\ op.pc \in {"get_wait", "put_wait", "put"}
          /\ sets_map_' = [sets_map_ EXCEPT ![op.key] = Mutated(SetOf(op.key), op)]
          /\ ObserveUInt(op) /\ UNCHANGED sets_max_cleanup_commit_time_map_
      BY <2>1, <2>2 DEF MutateSet, PutSetIfAbsent, SetOf
    <3>2. /\ op.key \in UIntKeys /\ op.values \in SUBSET UIntValues
          /\ op.time \in UIntTimes /\ op.is_deleted \in BOOLEAN
      BY <2>1, <3>1 DEF UIntThreadStates
    <3> HIDE DEF op
    <3> QED BY Zenon, <1>1, <3>1, <3>2, HistoryMutationStep
  <2>3. CASE CleanUpSet(th)
    <3>1. /\ op.pc = "clean_wait"
          /\ sets_map_' = [sets_map_ EXCEPT ![op.key] = Cleanup(sets_map_[op.key], op.time)]
          /\ misled' = misled \cup ({op.key} \X ErasedTooEarly(sets_map_[op.key], op.time))
          /\ UNCHANGED <<sets_max_cleanup_commit_time_map_, uint_newest>>
      BY <2>3 DEF CleanUpSet
    <3>2. /\ op.key \in UIntKeys /\ op.time \in UIntTimes
          /\ op.time <= UIntCutoff /\ sets_map_[op.key] # Absent
      BY <2>1, <3>1 DEF UIntThreadStates, Cleaning
    <3> HIDE DEF op
    <3> QED BY Zenon, <1>1, <3>1, <3>2, HistoryCleanUpStep
  <2>4. CASE CleanUpUIntSetMaps(th)
    <3>1. PICK t \in UIntTimes : StartUIntCleanUp(th, t)
      BY <2>4 DEF CleanUpUIntSetMaps
    <3>2. UNCHANGED <<sets_map_, uintHistory>>
      BY <3>1 DEF StartUIntCleanUp
    <3>3. UIntCutoff <= UIntCutoff'
      BY <1>1, <3>1, CleanUpMovesOn
    <3> QED BY <1>1, <3>2, <3>3, HistoryQuietStep
  <2>5. CASE UIntMutation(th) \/ UIntLookup(th)
    BY <1>2, <2>5 DEF UIntMutation, UIntLookup, StartUIntMutation, StartUIntLookup, maps
  <2>6. CASE \/ GetSet(th) \/ ListDeletedSet(th) \/ TakeDeletedSets(th) \/ GetSetToClean(th)
             \/ FinishUIntCleanUp(th) \/ CollectNode(th) \/ ReturnUIntResult(th)
             \/ ReleaseUIntResult(th)
    <3>1. UNCHANGED <<sets_map_, uintHistory, sets_max_cleanup_commit_time_map_>>
      BY Zenon, <2>6 DEF GetSet, ListDeletedSet, TakeDeletedSets, GetSetToClean, FinishUIntCleanUp,
                         CollectNode, ReturnUIntResult, ReleaseUIntResult, maps
    <3> QED BY <1>2, <3>1
  <2>7. CASE PutSetIfAbsent(th) /\ sets_map_[op.key] # Absent
    BY <1>2, <2>7 DEF PutSetIfAbsent
  <2> QED BY <1>4, <2>2, <2>3, <2>4, <2>5, <2>6, <2>7 DEF UIntContinue
<1> QED BY <1>3, <1>4 DEF UIntCacheNext

(* NewestUIntMutationWins: for any number of threads, whatever the order in  *)
(* which UpdateSetValues, DeleteSetValues and CleanUpValueSets overlap, the  *)
(* bitset and GetValues of each set agree with the newest mutation of each   *)
(* value that neither an early cleanup nor a late mutation misled them about. *)
THEOREM NewestUIntMutationAlwaysWins == UIntCacheSpec => []NewestUIntMutationWins
<1>1. HistoryInv => NewestUIntMutationWins
  <2> SUFFICES ASSUME HistoryInv, NEW k \in UIntKeys, NEW v \in UIntValues, <<k, v>> \notin misled
               PROVE  /\ v \in SetOf(k).values_bitset_ <=> ~uint_newest[k][v].is_deleted
                      /\ v \in GetValues(SetOf(k)) <=> ~uint_newest[k][v].is_deleted
    BY DEF NewestUIntMutationWins
  <2>1. ServesExactly(SetOf(k), v, uint_newest[k][v], UIntCutoff)
    BY DEF HistoryInv
  <2> HIDE DEF SetOf
  <2> QED BY <2>1 DEF ServesExactly, GetValues
<1> QED BY <1>1, HistoryInvInit, HistoryInvStep, PTL DEF UIntCacheSpec

(* Whatever misleads a set, GetValues returns nothing that the bitset lacks, *)
(* and every value marked as removed is listed for a later Cleanup.          *)
THEOREM ValueSetViewsAgree == UIntCacheSpec => [](ValuesAreInBitset /\ RemovedValuesAreListed)
<1>1. HistoryInv => ValuesAreInBitset /\ RemovedValuesAreListed
  BY Zenon DEF HistoryInv, Knows, ValuesAreInBitset, RemovedValuesAreListed, GetValues
<1> QED BY <1>1, HistoryInvInit, HistoryInvStep, PTL DEF UIntCacheSpec
=============================================================================
