---------------------- MODULE KeyValueSetHistoryProofs ----------------------
(* Proofs about KeyValueSetCache that speak of past mutations: the newest one *)
(* wins, and what is deleted is listed until a cleanup has dealt with it.     *)
EXTENDS KeyValueSetProofs

(***************************************************************************)
(* Last writer wins.                                                       *)
(***************************************************************************)

(* The metadata of a value, NoMeta also when the key has no entry.           *)
Entry(k, v) ==
  IF key_to_value_set_map_[k] = NoEntry THEN NoMeta ELSE key_to_value_set_map_[k][v]

(* What the newest mutation of a value left is in the map.  A value may be   *)
(* missing only if it was deleted, at a time that no mutation can come       *)
(* before any more: neither one that has yet to pass the cutoff test nor one *)
(* that has passed it and waits for the key.                                 *)
NewestOf(k, v) ==
  /\ Entry(k, v) # NoMeta => Entry(k, v) = newest_in_set[k][v]
  /\ Entry(k, v) = NoMeta =>
       /\ newest_in_set[k][v].is_deleted
       /\ \A r \in SetRoutes : r[1] = k =>
            newest_in_set[k][v].last_logical_commit_time <= SetCutoff(r[2])
       /\ \A th \in Threads : thread[th].pc \in {"lock_key", "apply"} /\ thread[th].key = k =>
            newest_in_set[k][v].last_logical_commit_time < thread[th].time

NewestInv == \A k \in SetKeys : FromOnePrefix(k) => \A v \in SetValues : NewestOf(k, v)

(* A missing entry is told from every inner map. *)
LEMMA NoEntryIsNoMap == NoEntry \notin InnerMap
BY SetConstantsAssumption DEF InnerMap

(* The times that are compared are integers. *)
LEMMA NewestIsInt ==
  ASSUME SetTypeOK
  PROVE  /\ \A k \in SetKeys, v \in SetValues :
              newest_in_set[k][v].last_logical_commit_time \in Int
         /\ \A p \in SetPrefixes : SetCutoff(p) \in Int
         /\ \A r \in SetRoutes : r[1] \in SetKeys /\ r[2] \in SetPrefixes
BY Zenon, SetConstantsAssumption DEF SetTypeOK, SetValueMeta, SetCutoff

(* Steps that change no metadata, lower no cutoff, and let a thread join the *)
(* mutations of a key only after the cutoff test.                            *)
LEMMA NewestKeep ==
  ASSUME BasicInv, NewestInv, NEW th \in Threads, NEW x \in ThreadState,
         thread' = [thread EXCEPT ![th] = x],
         UNCHANGED <<key_to_value_set_map_, newest_in_set>>,
         \A p \in SetPrefixes : /\ SetCutoff(p) <= set_cache_max_cleanup_logical_commit_time_'[p]
                                /\ set_cache_max_cleanup_logical_commit_time_'[p] \in Int,
         x.pc \in {"lock_key", "apply"} =>
           \/ /\ thread[th].pc \in {"lock_key", "apply"}
              /\ thread[th].key = x.key /\ thread[th].time = x.time
           \/ /\ <<x.key, x.prefix>> \in SetRoutes
              /\ x.time \in Int
              /\ SetCutoff(x.prefix) < x.time
  PROVE  NewestInv'
<1>1. /\ thread'[th] = x
      /\ \A other \in Threads \ {th} : thread'[other] = thread[other]
  BY Zenon, ThreadChange DEF BasicInv
<1>2. SUFFICES ASSUME NEW k \in SetKeys, FromOnePrefix(k), NEW v \in SetValues
               PROVE  NewestOf(k, v)'
  BY DEF NewestInv
<1>3. NewestOf(k, v) /\ Entry(k, v)' = Entry(k, v)
  BY <1>2 DEF NewestInv, Entry
<1>4. CASE Entry(k, v) # NoMeta
  BY <1>3, <1>4 DEF NewestOf
<1>5. CASE Entry(k, v) = NoMeta
  <2> DEFINE t == newest_in_set[k][v].last_logical_commit_time
  <2>1. /\ newest_in_set[k][v].is_deleted
        /\ \A r \in SetRoutes : r[1] = k => t <= SetCutoff(r[2])
        /\ \A o \in Threads : thread[o].pc \in {"lock_key", "apply"} /\ thread[o].key = k =>
             t < thread[o].time
    BY <1>3, <1>5 DEF NewestOf
  <2>2. /\ t \in Int
        /\ \A p \in SetPrefixes : SetCutoff(p) \in Int
        /\ \A r \in SetRoutes : r[2] \in SetPrefixes
    BY NewestIsInt DEF BasicInv
  <2> HIDE DEF t
  <2>3. \A r \in SetRoutes : r[1] = k => t <= set_cache_max_cleanup_logical_commit_time_'[r[2]]
    BY <2>1, <2>2
  <2>4. x.pc \in {"lock_key", "apply"} /\ x.key = k => t < x.time
    <3>1. <<x.key, x.prefix>> \in SetRoutes /\ x.key = k => t <= SetCutoff(x.prefix)
                                              /\ x.prefix \in SetPrefixes
      BY <2>1, <2>2
    <3> QED BY <2>1, <2>2, <3>1
  <2>5. \A o \in Threads : thread'[o].pc \in {"lock_key", "apply"} /\ thread'[o].key = k =>
          t < thread'[o].time
    BY <1>1, <2>1, <2>4
  <2> QED BY <1>3, <2>1, <2>3, <2>5 DEF NewestOf, SetCutoff, t
<1> QED BY <1>4, <1>5

(* Merging the same operation into the map and into the history.             *)
LEMMA NewestMerge ==
  ASSUME BasicInv, NewestInv, NEW op \in MutationState, 0 < op.time,
         ObserveSet(op), UNCHANGED set_cache_max_cleanup_logical_commit_time_,
         NEW meta \in InnerMap, \A v \in SetValues : meta[v] = Entry(op.key, v),
         key_to_value_set_map_' = [key_to_value_set_map_ EXCEPT ![op.key] = Merged(meta, op)],
         \A v \in op.values : FromOnePrefix(op.key) /\ Entry(op.key, v) = NoMeta =>
           newest_in_set[op.key][v].last_logical_commit_time < op.time,
         \A th \in Threads : thread'[th].pc \in {"lock_key", "apply"} => thread'[th] = thread[th]
  PROVE  NewestInv'
<1>1. SUFFICES ASSUME NEW k \in SetKeys, FromOnePrefix(k), NEW v \in SetValues
               PROVE  NewestOf(k, v)'
  BY DEF NewestInv
<1>2. NewestOf(k, v) /\ op.key \in SetKeys /\ op.values \subseteq SetValues
  BY <1>1 DEF NewestInv, MutationState
<1> DEFINE merged == Merged(meta, op)
<1>m. merged \in InnerMap
  BY Zenon, MergedType
<1>n. Merged(meta, op) # NoEntry
  <2> HIDE DEF merged
  <2>1. merged # NoEntry
    BY <1>m, NoEntryIsNoMap
  <2> QED BY <2>1 DEF merged
<1>3. CASE k # op.key \/ v \notin op.values
  <2>1. newest_in_set'[k][v] = newest_in_set[k][v]
    BY <1>2, <1>3 DEF BasicInv, SetTypeOK, ObserveSet, Merged
  <2>2. Merged(meta, op) # NoEntry /\ (v \notin op.values => Merged(meta, op)[v] = meta[v])
    <3>1. v \notin op.values => Merged(meta, op)[v] = meta[v]
      BY DEF Merged
    <3> QED BY <1>n, <3>1
  <2>3. key_to_value_set_map_'[k] = IF k = op.key THEN Merged(meta, op) ELSE key_to_value_set_map_[k]
    BY <1>2 DEF BasicInv, SetTypeOK
  <2>4. Entry(k, v)' = Entry(k, v)
    BY <1>3, <2>2, <2>3 DEF Entry
  <2> QED BY <1>2, <2>1, <2>4 DEF NewestOf, SetCutoff
<1>4. CASE k = op.key /\ v \in op.values
  <2> DEFINE new == [last_logical_commit_time |-> op.time, is_deleted |-> op.is_deleted]
             old == newest_in_set[k][v]
  <2>1. Entry(k, v)' = IF meta[v] = NoMeta \/ meta[v].last_logical_commit_time < op.time
                         THEN new ELSE meta[v]
    <3>1. key_to_value_set_map_'[k] = Merged(meta, op)
      BY <1>2, <1>4 DEF BasicInv, SetTypeOK
    <3> QED BY <1>4, <1>n, <3>1, MergedType DEF Entry
  <2>2. newest_in_set'[k][v] =
          IF old.last_logical_commit_time < op.time THEN new ELSE old
    <3>1. newest_in_set[k] \in InnerMap /\ newest_in_set[k][v] # NoMeta
      BY SetConstantsAssumption DEF BasicInv, SetTypeOK, InnerMap
    <3>2. newest_in_set'[k] = Merged(newest_in_set[k], op)
      BY <1>2, <1>4 DEF BasicInv, SetTypeOK, ObserveSet
    <3> QED BY <1>4, <3>1, <3>2, MergedType
  <2>3. Entry(k, v)' # NoMeta
    <3>1. new # NoMeta
      BY SetConstantsAssumption DEF MutationState, SetValueMeta
    <3> QED BY <2>1, <3>1
  <2> HIDE DEF new
  <2>4. Entry(k, v)' = newest_in_set'[k][v]
    <3>1. CASE meta[v] = NoMeta
      BY <1>1, <1>4, <2>1, <2>2, <3>1
    <3>2. CASE meta[v] # NoMeta
      BY <1>2, <1>4, <2>1, <2>2, <3>2 DEF NewestOf
    <3> QED BY <3>1, <3>2
  <2> QED BY <2>3, <2>4 DEF NewestOf
<1> QED BY <1>3, <1>4

(* UpdateKeyValueSet and DeleteValuesInSet up to the key lock keep NewestInv. *)
LEMMA NewestStartMutation ==
  ASSUME BasicInv, NewestInv, NEW th \in Threads, NEW op \in MutationState,
         op.pc = "lock_key", <<op.key, op.prefix>> \in SetRoutes, StartMutation(th, op)
  PROVE  NewestInv'
<1>1. op.key \in SetKeys /\ op.prefix \in SetPrefixes /\ op.values \subseteq SetValues
      /\ op.time \in Int /\ op \in ThreadState
  BY Zenon, SetConstantsAssumption DEF MutationState, ThreadState
<1>2. SetCutoff(op.prefix) \in Int /\ 0 <= SetCutoff(op.prefix)
  BY <1>1, NewestIsInt DEF BasicInv, OperationInv
<1>3. UNCHANGED set_cache_max_cleanup_logical_commit_time_
  BY DEF StartMutation
<1>4. CASE UNCHANGED <<key_to_value_set_map_, newest_in_set, thread>>
  BY <1>3, <1>4 DEF NewestInv, NewestOf, Entry, SetCutoff
<1>5. CASE /\ ~TooOld(op)
           /\ key_to_value_set_map_[op.key] = NoEntry
           /\ key_to_value_set_map_' =
                [key_to_value_set_map_ EXCEPT ![op.key] = Merged(NoValues, op)]
           /\ ObserveSet(op)
           /\ UNCHANGED thread
  <2>1. SetCutoff(op.prefix) < op.time /\ 0 < op.time
    BY <1>1, <1>2, <1>5 DEF TooOld
  <2>2. NoValues \in InnerMap /\ \A v \in SetValues : NoValues[v] = Entry(op.key, v)
    BY <1>5 DEF NoValues, InnerMap, Entry
  <2>3. \A v \in op.values : FromOnePrefix(op.key) /\ Entry(op.key, v) = NoMeta =>
          newest_in_set[op.key][v].last_logical_commit_time < op.time
    <3>1. SUFFICES ASSUME NEW v \in SetValues, NewestOf(op.key, v), Entry(op.key, v) = NoMeta
                   PROVE  newest_in_set[op.key][v].last_logical_commit_time < op.time
      BY <1>1 DEF NewestInv
    <3>2. newest_in_set[op.key][v].last_logical_commit_time <= SetCutoff(op.prefix)
      BY <3>1 DEF NewestOf
    <3>3. newest_in_set[op.key][v].last_logical_commit_time \in Int
      BY <1>1, NewestIsInt DEF BasicInv
    <3> QED BY <1>1, <1>2, <2>1, <3>2, <3>3
  <2> QED BY Zenon, <1>3, <1>5, <2>1, <2>2, <2>3, NewestMerge
<1>6. CASE /\ ~TooOld(op)
           /\ thread' = [thread EXCEPT ![th] = op]
           /\ UNCHANGED <<key_to_value_set_map_, newest_in_set>>
  <2>1. SetCutoff(op.prefix) < op.time
    BY <1>1, <1>2, <1>6 DEF TooOld
  <2>2. \A p \in SetPrefixes : /\ SetCutoff(p) <= set_cache_max_cleanup_logical_commit_time_'[p]
                               /\ set_cache_max_cleanup_logical_commit_time_'[p] \in Int
    BY <1>3, NewestIsInt DEF BasicInv, SetCutoff
  <2> QED BY Zenon, <1>1, <1>6, <2>1, <2>2, NewestKeep
<1> QED BY <1>4, <1>5, <1>6 DEF StartMutation

(* Merging the values of a mutation keeps NewestInv. *)
LEMMA NewestApply ==
  ASSUME BasicInv, NewestInv, NEW th \in Threads, ApplyMutation(th)
  PROVE  NewestInv'
<1> DEFINE op == thread[th]
           old == key_to_value_set_map_[op.key]
<1>1. /\ op \in MutationState /\ 0 < op.time
      /\ old \in InnerMap
      /\ thread' = [thread EXCEPT ![th] = thread'[th]]
      /\ thread'[th].pc \in {"idle", "list"}
  BY Zenon, ApplyFacts
<1>2. op.pc = "apply" /\ old # NoEntry /\ op.key \in SetKeys /\ op.values \subseteq SetValues
  BY <1>1 DEF ApplyMutation, BasicInv, EntryInv, MutationState
<1>3. \A v \in SetValues : old[v] = Entry(op.key, v)
  BY <1>2 DEF Entry
<1>4. \A v \in op.values : FromOnePrefix(op.key) /\ Entry(op.key, v) = NoMeta =>
        newest_in_set[op.key][v].last_logical_commit_time < op.time
  BY <1>2 DEF NewestInv, NewestOf
<1>5. \A o \in Threads : thread'[o].pc \in {"lock_key", "apply"} => thread'[o] = thread[o]
  BY <1>1 DEF BasicInv, SetTypeOK
<1>6. /\ key_to_value_set_map_' = [key_to_value_set_map_ EXCEPT ![op.key] = Merged(old, op)]
      /\ ObserveSet(op)
      /\ UNCHANGED set_cache_max_cleanup_logical_commit_time_
  BY DEF ApplyMutation
<1> HIDE DEF op, old
<1> QED BY Zenon, <1>1, <1>3, <1>4, <1>5, <1>6, NewestMerge

(* A cleanup takes a value out of the map only when its newest mutation      *)
(* deleted it at a time that the cutoff has reached.                         *)
LEMMA NewestCleanUpKey ==
  ASSUME BasicInv, NewestInv, NEW th \in Threads, CleanUpKey(th)
  PROVE  NewestInv'
<1> DEFINE op == thread[th]
<1>1. PICK first, values :
        /\ first \in op.due
        /\ LET key == first[2]
               left == ReclaimedValues(key_to_value_set_map_[key], values, op.time)
           IN  /\ op \in CleanUpState /\ op.pc = "clean"
               /\ key \in SetKeys
               /\ CanCleanKey(key)
               /\ key_to_value_set_map_' =
                    IF key_to_value_set_map_[key] = NoEntry THEN key_to_value_set_map_
                    ELSE [key_to_value_set_map_ EXCEPT ![key] = EntryLeft(left)]
               /\ thread'[th].pc = "clean"
               /\ thread' = [thread EXCEPT ![th] = thread'[th]]
  BY Zenon, CleanUpKeyFacts
<1>2. UNCHANGED <<set_cache_max_cleanup_logical_commit_time_, newest_in_set>>
  BY DEF CleanUpKey
<1>3. op.time \in SetTimes /\ op.time \in Int /\ op.prefix \in SetPrefixes
  BY Zenon, <1>1, SetConstantsAssumption DEF CleanUpState
<1>4. /\ \A o \in Threads : thread'[o].pc \in {"lock_key", "apply"} => thread'[o] = thread[o]
      /\ \A o \in Threads : thread[o].pc = "lock_key" => FALSE
  BY <1>1 DEF BasicInv, LockInv, HoldsMap, SetTypeOK
<1> HIDE DEF op
<1>5. SUFFICES ASSUME NEW k \in SetKeys, FromOnePrefix(k), NEW v \in SetValues
               PROVE  NewestOf(k, v)'
  BY DEF NewestInv
<1>6. NewestOf(k, v)
  BY <1>5 DEF NewestInv
<1>7. CASE Entry(k, v)' = Entry(k, v)
  BY <1>2, <1>4, <1>6, <1>7 DEF NewestOf, SetCutoff
<1>8. CASE Entry(k, v)' # Entry(k, v)
  <2>1. k = first[2] /\ key_to_value_set_map_[k] # NoEntry
    BY <1>1, <1>8 DEF Entry, BasicInv, SetTypeOK
  <2> DEFINE meta == key_to_value_set_map_[k]
             left == ReclaimedValues(meta, values, op.time)
  <2>2. meta \in InnerMap /\ key_to_value_set_map_'[k] = EntryLeft(left)
    BY <1>1, <2>1 DEF BasicInv, SetTypeOK
  <2>3. left[v] = IF /\ v \in values /\ meta[v] # NoMeta /\ meta[v].is_deleted
                     /\ meta[v].last_logical_commit_time <= op.time
                    THEN NoMeta ELSE meta[v]
    BY <1>3, <2>2, ReclaimedType
  <2>4. Entry(k, v)' = left[v] /\ Entry(k, v) = meta[v]
    <3>1. left # NoEntry
      BY <1>3, <2>2, ReclaimedType, NoEntryIsNoMap
    <3>2. left = NoValues => left[v] = NoMeta
      BY DEF NoValues
    <3> HIDE DEF left
    <3>3. key_to_value_set_map_'[k] = IF left = NoValues THEN NoEntry ELSE left
      BY <2>2 DEF EntryLeft
    <3> QED BY <2>1, <3>1, <3>2, <3>3 DEF Entry
  <2>5. /\ Entry(k, v)' = NoMeta /\ Entry(k, v) # NoMeta /\ Entry(k, v).is_deleted
        /\ Entry(k, v).last_logical_commit_time <= op.time
    BY <1>8, <2>3, <2>4
  <2>6. newest_in_set[k][v] = Entry(k, v)
    BY <1>6, <2>5 DEF NewestOf
  <2>7. newest_in_set[k][v].last_logical_commit_time <= SetCutoff(op.prefix)
    <3>1. op.time <= SetCutoff(op.prefix)
      BY <1>1 DEF BasicInv, CleanInv, op
    <3>2. newest_in_set[k][v].last_logical_commit_time \in Int /\ SetCutoff(op.prefix) \in Int
      BY <1>3, NewestIsInt DEF BasicInv
    <3> QED BY <1>3, <2>5, <2>6, <3>1, <3>2
  <2>8. <<k, op.prefix>> \in SetRoutes
    BY <1>1, <1>3, <2>1 DEF BasicInv, CleanInv, OperationInv, op
  <2>9. \A r \in SetRoutes : r[1] = k => r[2] = op.prefix
    BY <1>5, <2>8 DEF FromOnePrefix
  <2>10. \A o \in Threads : thread[o].pc = "apply" => thread[o].key # k
    BY <1>1, <2>1 DEF CanCleanKey, KeyIsFree, HoldsKey
  <2> QED BY <1>2, <1>4, <2>5, <2>6, <2>7, <2>9, <2>10 DEF NewestOf, SetCutoff
<1> QED BY <1>7, <1>8

(* The empty cache satisfies NewestInv. *)
LEMMA NewestInit == SetInit => NewestInv
<1> SUFFICES ASSUME SetInit, NEW k \in SetKeys, NEW v \in SetValues PROVE NewestOf(k, v)
  BY DEF NewestInv
<1>1. newest_in_set[k][v].last_logical_commit_time = 0 /\ newest_in_set[k][v].is_deleted
  BY DEF SetInit
<1>2. \A th \in Threads : thread[th].pc = "idle"
  BY DEF SetInit, Idle
<1>3. \A r \in SetRoutes : SetCutoff(r[2]) = 0
  BY SetConstantsAssumption DEF SetInit, SetCutoff
<1>4. Entry(k, v) = NoMeta
  BY DEF SetInit, Entry
<1> QED BY <1>1, <1>2, <1>3, <1>4 DEF NewestOf

(* Every step keeps NewestInv. *)
LEMMA NewestStep ==
  ASSUME BasicInv, NewestInv, SetNext
  PROVE  NewestInv'
<1>1. PICK th \in Threads : Mutation(th) \/ CleanUp(th) \/ Lookup(th) \/ Continue(th)
  BY DEF SetNext
<1>2. ASSUME NEW x \in ThreadState, thread' = [thread EXCEPT ![th] = x],
             x.pc \notin {"lock_key", "apply"},
             UNCHANGED <<key_to_value_set_map_, newest_in_set,
                         set_cache_max_cleanup_logical_commit_time_>>
      PROVE  NewestInv'
  <2>1. \A p \in SetPrefixes : /\ SetCutoff(p) <= set_cache_max_cleanup_logical_commit_time_'[p]
                               /\ set_cache_max_cleanup_logical_commit_time_'[p] \in Int
    BY <1>2, NewestIsInt DEF BasicInv, SetCutoff
  <2> QED BY Zenon, <1>2, <2>1, NewestKeep
<1>3. CASE Mutation(th)
  <2>1. PICK op \in MutationState :
          op.pc = "lock_key" /\ <<op.key, op.prefix>> \in SetRoutes /\ StartMutation(th, op)
    BY <1>3, NewOperation DEF Mutation
  <2> QED BY <2>1, NewestStartMutation
<1>4. CASE CleanUp(th)
  <2>1. PICK time \in SetTimes, prefix \in SetPrefixes : StartCleanUp(th, time, prefix)
    BY <1>4 DEF CleanUp
  <2>2. /\ SetTypeOK' /\ thread'[th].pc = "clean"
        /\ \A other \in Threads \ {th} : thread'[other] = thread[other]
    BY <2>1, StartCleanUpTypes
  <2>3. thread'[th] \in ThreadState /\ thread' = [thread EXCEPT ![th] = thread'[th]]
    BY <2>2 DEF BasicInv, SetTypeOK
  <2>4. \A p \in SetPrefixes : /\ SetCutoff(p) <= set_cache_max_cleanup_logical_commit_time_'[p]
                               /\ set_cache_max_cleanup_logical_commit_time_'[p] \in Int
    BY <2>1, CutoffGrows DEF BasicInv, SetCutoff
  <2>5. UNCHANGED <<key_to_value_set_map_, newest_in_set>>
    BY <2>1 DEF StartCleanUp
  <2> QED BY Zenon, <2>2, <2>3, <2>4, <2>5, NewestKeep
<1>5. CASE Lookup(th)
  <2>1. PICK key_set \in SUBSET SetKeys : StartLookup(th, key_set)
    BY <1>5 DEF Lookup
  <2>2. PICK x \in ThreadState : thread' = [thread EXCEPT ![th] = x] /\ x.pc = "collect"
    BY <2>1, StartLookupFacts
  <2> QED BY Zenon, <1>2, <2>1, <2>2 DEF StartLookup, setData
<1>6. CASE LockKey(th)
  <2> DEFINE x == [thread[th] EXCEPT !.pc = "apply"]
  <2>1. thread[th] \in MutationState /\ thread[th].pc = "lock_key"
    BY <1>6, ThreadStates DEF BasicInv, SetTypeOK, LockKey
  <2>2. x \in MutationState /\ x.pc = "apply" /\ x.key = thread[th].key /\ x.time = thread[th].time
    BY <2>1 DEF MutationState
  <2>3. x \in ThreadState
    BY <2>2 DEF ThreadState
  <2>4. thread' = [thread EXCEPT ![th] = x] /\ UNCHANGED setData
    BY <1>6 DEF LockKey
  <2> HIDE DEF x
  <2>5. \A p \in SetPrefixes : /\ SetCutoff(p) <= set_cache_max_cleanup_logical_commit_time_'[p]
                               /\ set_cache_max_cleanup_logical_commit_time_'[p] \in Int
    BY <2>4, NewestIsInt DEF BasicInv, SetCutoff, setData
  <2> QED BY Zenon, <2>1, <2>2, <2>3, <2>4, <2>5, NewestKeep DEF setData
<1>7. CASE ApplyMutation(th)
  BY <1>7, NewestApply
<1>8. CASE ListDeletedValues(th)
  BY Zenon, <1>2, <1>8, IdleIsThreadState DEF ListDeletedValues
<1>9. CASE CleanUpKey(th)
  BY <1>9, NewestCleanUpKey
<1>10. CASE FinishCleanUp(th)
  BY Zenon, <1>2, <1>10, IdleIsThreadState DEF FinishCleanUp
<1>11. CASE CollectKey(th)
  <2>1. PICK x \in ThreadState : thread' = [thread EXCEPT ![th] = x] /\ x.pc = "collect"
    BY <1>11, CollectKeyFacts
  <2> QED BY Zenon, <1>2, <1>11, <2>1 DEF CollectKey, setData
<1>12. CASE ReturnResult(th)
  <2>1. PICK x \in ThreadState : thread' = [thread EXCEPT ![th] = x] /\ x.pc = "result"
    BY <1>12, ReturnResultFacts
  <2> QED BY Zenon, <1>2, <1>12, <2>1 DEF ReturnResult, setData
<1>13. CASE ReleaseResult(th)
  BY Zenon, <1>2, <1>13, IdleIsThreadState DEF ReleaseResult, setData
<1> QED BY <1>1, <1>3, <1>4, <1>5, <1>6, <1>7, <1>8, <1>9, <1>10, <1>11, <1>12, <1>13 DEF Continue

(* NewestSetMutationWins: whatever the interleaving of UpdateKeyValueSet,    *)
(* DeleteValuesInSet, lookups and cleanups, a set holds exactly the values   *)
(* whose newest mutation added them.                                         *)
THEOREM NewestSetMutationAlwaysWins == SetSpec => []NewestSetMutationWins
<1>1. BasicInv /\ NewestInv => NewestSetMutationWins
  <2> SUFFICES ASSUME BasicInv, NewestInv, NEW k \in SetKeys, FromOnePrefix(k), NEW v \in SetValues
               PROVE  v \in ValueSet(k) <=> ~newest_in_set[k][v].is_deleted
    BY DEF NewestSetMutationWins, ValueSet
  <2>1. NewestOf(k, v)
    BY DEF NewestInv
  <2>2. v \in ValueSet(k) <=> Entry(k, v) # NoMeta /\ ~Entry(k, v).is_deleted
    BY DEF ValueSet, Entry
  <2> QED BY <2>1, <2>2 DEF NewestOf
<1>2. BasicInv /\ NewestInv /\ [SetNext]_setVars => NewestInv'
  <2>1. NewestInv /\ UNCHANGED setVars => NewestInv'
    BY DEF NewestInv, NewestOf, Entry, SetCutoff, setVars, setData
  <2> QED BY <2>1, NewestStep
<1> QED BY <1>1, <1>2, BasicInit, BasicStep, NewestInit, PTL DEF SetSpec

(***************************************************************************)
(* No deleted value leaks.                                                 *)
(***************************************************************************)

(* The listed nodes that no cleanup under way has dealt with: the cleanup    *)
(* erases the others from the list when it ends.                             *)
Kept(p) ==
  {n \in deleted_set_nodes_map_[p] : \A th \in Threads :
     thread[th].pc = "clean" /\ thread[th].prefix = p /\ n[1] <= thread[th].time =>
       n \in thread[th].due}

AboutToBeListed(n) ==
  \E th \in Threads : thread[th].pc = "list" /\ n \in Nodes(thread[th], thread[th].values)

(* Every deleted value is listed in a node that outlasts the cleanups under  *)
(* way, or is about to be listed.                                            *)
Listed(n) == AboutToBeListed(n) \/ \E p \in SetPrefixes : n \in Kept(p)

ListedInv ==
  \A k \in SetKeys, v \in SetValues, t \in SetTimes :
    /\ Entry(k, v) # NoMeta
    /\ Entry(k, v).is_deleted
    /\ Entry(k, v).last_logical_commit_time = t
    => Listed(<<t, k, v>>)

(* A thread that was not listing, and a cleanup that goes on, lose no node.  *)
LEMMA ListedKeep ==
  ASSUME BasicInv, NEW th \in Threads, NEW x \in ThreadState,
         thread' = [thread EXCEPT ![th] = x],
         thread[th].pc # "list", UNCHANGED deleted_set_nodes_map_,
         NEW n, Listed(n),
         x.pc = "clean" /\ n[1] <= x.time => n \in x.due \/ n \notin Kept(x.prefix)
  PROVE  Listed(n)'
<1>1. /\ thread'[th] = x
      /\ \A other \in Threads \ {th} : thread'[other] = thread[other]
  BY Zenon, ThreadChange DEF BasicInv
<1>2. CASE AboutToBeListed(n)
  BY <1>1, <1>2 DEF Listed, AboutToBeListed, Nodes
<1>3. CASE \E p \in SetPrefixes : n \in Kept(p)
  <2>1. PICK p \in SetPrefixes : n \in Kept(p)
    BY <1>3
  <2>2. n \in deleted_set_nodes_map_'[p]
    BY <2>1 DEF Kept
  <2>3. ASSUME NEW o \in Threads, thread'[o].pc = "clean", thread'[o].prefix = p,
               n[1] <= thread'[o].time
        PROVE  n \in thread'[o].due
    BY <1>1, <2>1, <2>3 DEF Kept
  <2>4. n \in Kept(p)'
    BY <2>2, <2>3 DEF Kept
  <2> QED BY <2>4 DEF Listed
<1> QED BY <1>2, <1>3 DEF Listed

(* DeleteValuesInSet lists the values of a key it inserts at once. *)
LEMMA ListedStartMutation ==
  ASSUME BasicInv, ListedInv, NEW th \in Threads, NEW op \in MutationState,
         op.pc = "lock_key", StartMutation(th, op)
  PROVE  ListedInv'
<1>1. op.key \in SetKeys /\ op.prefix \in SetPrefixes /\ op.values \subseteq SetValues
      /\ op \in ThreadState /\ op.time \in Int
  BY Zenon, SetConstantsAssumption DEF MutationState, ThreadState
<1>2. thread[th].pc = "idle" /\ \A o \in Threads : thread[o].pc # "clean"
  BY DEF StartMutation, Idle, MapIsFree, HoldsMap
<1>3. CASE UNCHANGED <<key_to_value_set_map_, deleted_set_nodes_map_, thread>>
  BY <1>3 DEF ListedInv, Listed, AboutToBeListed, Kept, Entry, Nodes
<1>4. CASE ~TooOld(op) /\ key_to_value_set_map_[op.key] = NoEntry
  <2>1. 0 < op.time
    BY <1>1, <1>4, NewestIsInt DEF TooOld, BasicInv, OperationInv
  <2>2. SUFFICES ASSUME NEW k \in SetKeys, NEW v \in SetValues, NEW t \in SetTimes,
                        Entry(k, v)' # NoMeta, Entry(k, v)'.is_deleted,
                        Entry(k, v)'.last_logical_commit_time = t
                 PROVE  Listed(<<t, k, v>>)'
    BY DEF ListedInv
  <2>3. /\ UNCHANGED thread
        /\ key_to_value_set_map_' = [key_to_value_set_map_ EXCEPT ![op.key] = Merged(NoValues, op)]
        /\ deleted_set_nodes_map_' = [deleted_set_nodes_map_ EXCEPT ![op.prefix] =
                IF op.is_deleted THEN @ \cup Nodes(op, op.values) ELSE @]
    BY <1>4 DEF StartMutation
  <2>4. \A p \in SetPrefixes : Kept(p)' = deleted_set_nodes_map_'[p]
                               /\ deleted_set_nodes_map_[p] \subseteq deleted_set_nodes_map_'[p]
    BY SMTT(30), <1>1, <1>2, <2>3 DEF Kept, BasicInv, SetTypeOK
  <2>5. CASE k # op.key
    <3>1. Entry(k, v)' = Entry(k, v)
      BY <1>1, <2>3, <2>5 DEF Entry, BasicInv, SetTypeOK
    <3>2. Listed(<<t, k, v>>)
      BY <2>2, <3>1 DEF ListedInv
    <3> QED BY <2>3, <2>4, <3>1, <3>2 DEF Listed, AboutToBeListed, Kept, Nodes
  <2>6. CASE k = op.key
    <3>1. NoValues \in InnerMap /\ NoValues[v] = NoMeta
      BY DEF NoValues, InnerMap
    <3>2. /\ Merged(NoValues, op) # NoEntry
          /\ Merged(NoValues, op)[v] =
                IF v \in op.values
                  THEN [last_logical_commit_time |-> op.time, is_deleted |-> op.is_deleted]
                  ELSE NoMeta
      BY <2>1, <3>1, MergedType, NoEntryIsNoMap
    <3>3. Entry(k, v)' = Merged(NoValues, op)[v]
      BY <1>1, <2>3, <2>6, <3>2 DEF Entry, BasicInv, SetTypeOK
    <3>4. v \in op.values /\ op.is_deleted /\ t = op.time
      BY <2>2, <3>2, <3>3
    <3>5. <<t, k, v>> \in deleted_set_nodes_map_'[op.prefix]
      BY <1>1, <2>3, <2>6, <3>4 DEF Nodes, BasicInv, SetTypeOK
    <3> QED BY <1>1, <2>4, <3>4, <3>5 DEF Listed
  <2> QED BY <2>5, <2>6
<1>5. CASE thread' = [thread EXCEPT ![th] = op]
           /\ UNCHANGED <<key_to_value_set_map_, deleted_set_nodes_map_>>
  <2>1. \A k \in SetKeys, v \in SetValues : Entry(k, v)' = Entry(k, v)
    BY <1>5 DEF Entry
  <2> QED BY Zenon, <1>1, <1>2, <1>5, <2>1, ListedKeep DEF ListedInv
<1> QED BY <1>3, <1>4, <1>5 DEF StartMutation

(* The values that DeleteValuesInSet marks are about to be listed. *)
LEMMA ListedApply ==
  ASSUME BasicInv, ListedInv, NEW th \in Threads, ApplyMutation(th)
  PROVE  ListedInv'
<1> DEFINE op == thread[th]
           old == key_to_value_set_map_[op.key]
           marked == {v \in op.values : Touched(old, v).last_logical_commit_time < op.time}
<1>1. /\ op \in MutationState /\ 0 < op.time
      /\ old \in InnerMap /\ Merged(old, op) \in InnerMap
      /\ thread'[th] \in ThreadState
      /\ thread' = [thread EXCEPT ![th] = thread'[th]]
      /\ thread'[th].pc \in {"idle", "list"}
      /\ thread'[th].pc = "list" =>
           /\ thread'[th].key = op.key /\ thread'[th].time = op.time
           /\ thread'[th].values = marked
      /\ thread'[th].pc = "idle" => ~op.is_deleted \/ marked = {}
  BY Zenon, ApplyFacts
<1>2. /\ op.pc = "apply" /\ UNCHANGED deleted_set_nodes_map_
      /\ key_to_value_set_map_' = [key_to_value_set_map_ EXCEPT ![op.key] = Merged(old, op)]
  BY DEF ApplyMutation
<1>3. op.key \in SetKeys /\ op.values \subseteq SetValues /\ op.time \in Int
  BY Zenon, <1>1, SetConstantsAssumption DEF MutationState
<1>4. SUFFICES ASSUME NEW k \in SetKeys, NEW v \in SetValues, NEW t \in SetTimes,
                      Entry(k, v)' # NoMeta, Entry(k, v)'.is_deleted,
                      Entry(k, v)'.last_logical_commit_time = t
               PROVE  Listed(<<t, k, v>>)'
  BY DEF ListedInv
<1>5. CASE Entry(k, v)' = Entry(k, v)
  <2>1. Listed(<<t, k, v>>)
    BY <1>4, <1>5 DEF ListedInv
  <2> HIDE DEF op, old, marked
  <2>2. thread[th].pc = "apply"
    BY <1>2 DEF op
  <2> QED BY <1>1, <1>2, <1>5, <2>1, <2>2, ListedKeep
<1>6. CASE Entry(k, v)' # Entry(k, v)
  <2>1. k = op.key /\ Entry(k, v)' = Merged(old, op)[v]
    <3>1. Merged(old, op) # NoEntry
      BY <1>1, NoEntryIsNoMap
    <3> QED BY SMTT(30), <1>2, <1>3, <1>6, <3>1 DEF Entry, BasicInv, SetTypeOK
  <2>2. Entry(k, v) = old[v]
    BY SMTT(30), <1>1, <2>1, NoEntryIsNoMap DEF Entry
  <2>3. /\ v \in op.values
        /\ old[v] = NoMeta \/ old[v].last_logical_commit_time < op.time
        /\ Entry(k, v)' = [last_logical_commit_time |-> op.time, is_deleted |-> op.is_deleted]
    BY SMTT(30), <1>1, <1>6, <2>1, <2>2, MergedType
  <2>4. v \in marked
    BY SMTT(30), <1>1, <1>3, <2>3 DEF Touched
  <2>5. op.is_deleted /\ t = op.time
    BY <1>4, <2>3
  <2> HIDE DEF marked, old
  <2>6. thread'[th].pc = "list"
    BY <1>1, <2>4, <2>5
  <2>7. <<t, k, v>> \in Nodes(thread'[th], thread'[th].values)
    BY <1>1, <2>1, <2>4, <2>5, <2>6 DEF Nodes
  <2> HIDE DEF op
  <2> QED BY <2>5, <2>6, <2>7 DEF Listed, AboutToBeListed
<1> QED BY <1>5, <1>6

(* Listing moves the marked values to the list. *)
LEMMA ListedListing ==
  ASSUME BasicInv, ListedInv, NEW th \in Threads, ListDeletedValues(th)
  PROVE  ListedInv'
<1> DEFINE op == thread[th]
<1>1. op \in MutationState
  BY ThreadStates DEF BasicInv, SetTypeOK, ListDeletedValues
<1>2. op.prefix \in SetPrefixes
  BY <1>1 DEF MutationState
<1>3. /\ deleted_set_nodes_map_' =
           [deleted_set_nodes_map_ EXCEPT ![op.prefix] = @ \cup Nodes(op, op.values)]
      /\ thread' = [thread EXCEPT ![th] = Idle]
      /\ UNCHANGED key_to_value_set_map_
      /\ \A o \in Threads : thread[o].pc # "clean"
  BY DEF ListDeletedValues, MapIsFree, HoldsMap
<1>4. /\ thread'[th].pc = "idle"
      /\ \A other \in Threads \ {th} : thread'[other] = thread[other]
  BY Zenon, <1>3, IdleIsThreadState, ThreadChange DEF BasicInv
<1>5. /\ \A p \in SetPrefixes : deleted_set_nodes_map_[p] \subseteq deleted_set_nodes_map_'[p]
      /\ Nodes(op, op.values) \subseteq deleted_set_nodes_map_'[op.prefix]
  BY <1>2, <1>3 DEF BasicInv, SetTypeOK
<1>6. \A o \in Threads : thread'[o].pc # "clean"
  BY <1>3, <1>4
<1>7. \A p \in SetPrefixes : Kept(p)' = deleted_set_nodes_map_'[p]
  BY <1>6 DEF Kept
<1>8. \A k \in SetKeys, v \in SetValues : Entry(k, v)' = Entry(k, v)
  BY <1>3 DEF Entry
<1>9. ASSUME NEW n, Listed(n)
      PROVE  Listed(n)'
  <2>1. CASE \E p \in SetPrefixes : n \in Kept(p)
    BY <1>5, <1>7, <2>1 DEF Kept, Listed
  <2>2. CASE AboutToBeListed(n)
    <3>1. PICK o \in Threads : thread[o].pc = "list" /\ n \in Nodes(thread[o], thread[o].values)
      BY <2>2 DEF AboutToBeListed
    <3>2. CASE o = th
      BY <1>2, <1>5, <1>7, <3>1, <3>2 DEF Listed
    <3>3. CASE o # th
      <4>1. thread'[o].pc = "list" /\ n \in Nodes(thread'[o], thread'[o].values)
        BY <1>4, <3>1, <3>3
      <4> QED BY <4>1 DEF Listed, AboutToBeListed, Nodes
    <3> QED BY <3>2, <3>3
  <2> QED BY <1>9, <2>1, <2>2 DEF Listed
<1> QED BY <1>8, <1>9 DEF ListedInv

(* A cleanup starts with all the nodes up to its time due. *)
LEMMA ListedStartCleanUp ==
  ASSUME BasicInv, ListedInv, NEW th \in Threads, NEW time \in SetTimes, NEW prefix \in SetPrefixes,
         StartCleanUp(th, time, prefix)
  PROVE  ListedInv'
<1>1. /\ SetTypeOK'
      /\ thread'[th].pc = "clean" /\ thread'[th].prefix = prefix /\ thread'[th].time = time
      /\ thread'[th].due = {n \in deleted_set_nodes_map_[prefix] : n[1] <= time}
      /\ \A other \in Threads \ {th} : thread'[other] = thread[other]
  BY StartCleanUpTypes
<1>2. thread'[th] \in ThreadState /\ thread' = [thread EXCEPT ![th] = thread'[th]]
  BY <1>1 DEF BasicInv, SetTypeOK
<1>3. UNCHANGED <<key_to_value_set_map_, deleted_set_nodes_map_>> /\ thread[th].pc # "list"
  BY DEF StartCleanUp, Idle
<1>4. \A n : n \in thread'[th].due \/ ~(n[1] <= time) \/ n \notin Kept(prefix)
  BY <1>1 DEF Kept
<1>5. \A n : Listed(n) => Listed(n)'
  BY <1>1, <1>2, <1>3, <1>4, ListedKeep
<1>6. \A k \in SetKeys, v \in SetValues : Entry(k, v)' = Entry(k, v)
  BY <1>3 DEF Entry
<1> QED BY <1>5, <1>6 DEF ListedInv

(* The nodes that a cleanup has dealt with are those of values it reclaimed, *)
(* or of values that a newer mutation touched.                               *)
LEMMA ListedCleanUpKey ==
  ASSUME BasicInv, ListedInv, NEW th \in Threads, CleanUpKey(th)
  PROVE  ListedInv'
<1> DEFINE op == thread[th]
<1>1. PICK first \in op.due :
           LET key == first[2]
               group == {n \in op.due : n[1] = first[1] /\ n[2] = key}
               left == ReclaimedValues(key_to_value_set_map_[key], {n[3] : n \in group}, op.time)
           IN  /\ op \in CleanUpState /\ op.pc = "clean"
               /\ key \in SetKeys
               /\ key_to_value_set_map_' =
                    IF key_to_value_set_map_[key] = NoEntry THEN key_to_value_set_map_
                    ELSE [key_to_value_set_map_ EXCEPT ![key] = EntryLeft(left)]
               /\ thread'[th] \in CleanUpState
               /\ thread'[th].pc = "clean"
               /\ thread'[th].prefix = op.prefix /\ thread'[th].time = op.time
               /\ thread'[th].due = op.due \ group
               /\ thread' = [thread EXCEPT ![th] = thread'[th]]
  BY Zenon, CleanUpKeyFacts
<1> DEFINE key == first[2]
           group == {n \in op.due : n[1] = first[1] /\ n[2] = key}
           values == {n[3] : n \in group}
<1>2. UNCHANGED deleted_set_nodes_map_
  BY DEF CleanUpKey
<1>3. op.time \in SetTimes /\ first[1] <= op.time /\ op.pc # "list" /\ op.pc = "clean"
  BY <1>1 DEF BasicInv, CleanInv, CleanUpState
<1>4. thread'[th] \in ThreadState
  BY <1>1 DEF ThreadState
<1>5. SUFFICES ASSUME NEW k \in SetKeys, NEW v \in SetValues, NEW t \in SetTimes,
                      Entry(k, v)' # NoMeta, Entry(k, v)'.is_deleted,
                      Entry(k, v)'.last_logical_commit_time = t
               PROVE  Listed(<<t, k, v>>)'
  BY DEF ListedInv
<1>6. Entry(k, v)' = Entry(k, v) /\ <<t, k, v>> \notin group
  <2>1. CASE k # key
    BY SMTT(30), <1>1, <2>1 DEF Entry, BasicInv, SetTypeOK
  <2>2. CASE k = key
    <3> DEFINE meta == key_to_value_set_map_[key]
               left == ReclaimedValues(meta, values, op.time)
    <3>1. meta # NoEntry
      BY SMTT(30), <1>1, <1>5, <2>2 DEF Entry
    <3>2. meta \in InnerMap /\ key_to_value_set_map_'[key] = EntryLeft(left)
      BY SMTT(30), <1>1, <3>1 DEF BasicInv, SetTypeOK
    <3>3. Entry(k, v)' = left[v]
      BY <1>5, <2>2, <3>2 DEF Entry, EntryLeft
    <3> HIDE DEF values
    <3>4. left[v] = IF /\ v \in values /\ meta[v] # NoMeta /\ meta[v].is_deleted
                       /\ meta[v].last_logical_commit_time <= op.time
                      THEN NoMeta ELSE meta[v]
      BY SMTT(30), <1>3, <3>2, ReclaimedType
    <3>5. left[v] = meta[v] /\ meta[v] = Entry(k, v)
      BY <1>5, <2>2, <3>1, <3>3, <3>4 DEF Entry
    <3>6. v \notin values \/ ~(t <= op.time)
      BY <1>5, <3>3, <3>4, <3>5
    <3>7. <<t, k, v>> \in group => v \in values /\ t = first[1]
      BY DEF values
    <3> QED BY SMTT(30), <1>3, <3>3, <3>5, <3>6, <3>7
  <2> QED BY SMTT(30), <2>1, <2>2
<1>7. Listed(<<t, k, v>>)
  BY <1>5, <1>6 DEF ListedInv
<1>8. thread'[th].prefix = op.prefix /\ thread'[th].time = op.time /\ thread'[th].due = op.due \ group
  BY <1>1
<1>9. <<t, k, v>>[1] <= op.time => <<t, k, v>> \in thread'[th].due \/ <<t, k, v>> \notin Kept(op.prefix)
  <2>1. <<t, k, v>> \in Kept(op.prefix) /\ <<t, k, v>>[1] <= op.time => <<t, k, v>> \in op.due
    BY <1>3 DEF Kept
  <2> HIDE DEF group, op
  <2> QED BY <1>6, <1>8, <2>1
<1>10. thread' = [thread EXCEPT ![th] = thread'[th]]
  BY <1>1
<1>11. thread[th].pc # "list"
  BY <1>3
<1> HIDE DEF op, group
<1> QED BY <1>2, <1>4, <1>7, <1>8, <1>9, <1>10, <1>11, ListedKeep

(* A cleanup that ends drops only nodes that it has dealt with. *)
LEMMA ListedFinishCleanUp ==
  ASSUME BasicInv, ListedInv, NEW th \in Threads, FinishCleanUp(th)
  PROVE  ListedInv'
<1> DEFINE op == thread[th]
<1>1. op \in CleanUpState /\ op.pc = "clean" /\ op.due = {}
  BY ThreadStates DEF BasicInv, SetTypeOK, FinishCleanUp
<1>2. op.prefix \in SetPrefixes /\ op.time \in Int
  BY Zenon, <1>1, SetConstantsAssumption DEF CleanUpState
<1>3. /\ deleted_set_nodes_map_' =
           [deleted_set_nodes_map_ EXCEPT ![op.prefix] = {n \in @ : n[1] > op.time}]
      /\ thread' = [thread EXCEPT ![th] = Idle]
      /\ UNCHANGED key_to_value_set_map_
  BY DEF FinishCleanUp
<1>4. \A o \in Threads \ {th} : thread[o].pc # "clean"
  BY <1>1 DEF BasicInv, LockInv, HoldsMap
<1>5. /\ thread'[th].pc = "idle"
      /\ \A other \in Threads \ {th} : thread'[other] = thread[other]
  BY Zenon, <1>3, IdleIsThreadState, ThreadChange DEF BasicInv
<1>6. \A p \in SetPrefixes : Kept(p)' = deleted_set_nodes_map_'[p]
  <2>1. \A o \in Threads : thread'[o].pc # "clean"
    BY <1>4, <1>5
  <2> QED BY <2>1 DEF Kept
<1>7. \A p \in SetPrefixes : Kept(p) \subseteq deleted_set_nodes_map_'[p]
  <2>1. \A p \in SetPrefixes : \A n \in deleted_set_nodes_map_[p] : n[1] \in Int
    <3>1. \A n \in SetTimes \X SetKeys \X SetValues : n[1] \in Int
      BY Zenon, SetConstantsAssumption
    <3> QED BY <3>1 DEF BasicInv, SetTypeOK
  <2>2. \A n \in Kept(op.prefix) : n \in deleted_set_nodes_map_[op.prefix] /\ ~(n[1] <= op.time)
    BY <1>1 DEF Kept
  <2> HIDE DEF op
  <2>3. \A n \in Kept(op.prefix) : n \in deleted_set_nodes_map_[op.prefix] /\ n[1] > op.time
    BY <1>2, <2>1, <2>2
  <2>4. \A p \in SetPrefixes : deleted_set_nodes_map_'[p] =
          IF p = op.prefix THEN {n \in deleted_set_nodes_map_[p] : n[1] > op.time}
          ELSE deleted_set_nodes_map_[p]
    BY Zenon, <1>2, <1>3 DEF BasicInv, SetTypeOK
  <2> QED BY ZenonT(30), <2>3, <2>4 DEF Kept
<1>8. \A n : Listed(n) => Listed(n)'
  <2>1. \A n : AboutToBeListed(n) => AboutToBeListed(n)'
    BY <1>1, <1>5 DEF AboutToBeListed, Nodes
  <2> QED BY <1>6, <1>7, <2>1 DEF Listed
<1>9. \A k \in SetKeys, v \in SetValues : Entry(k, v)' = Entry(k, v)
  BY <1>3 DEF Entry
<1> QED BY <1>8, <1>9 DEF ListedInv

(* Every step keeps ListedInv. *)
LEMMA ListedStep ==
  ASSUME BasicInv, ListedInv, SetNext
  PROVE  ListedInv'
<1>1. PICK th \in Threads : Mutation(th) \/ CleanUp(th) \/ Lookup(th) \/ Continue(th)
  BY DEF SetNext
<1>2. ASSUME NEW x \in ThreadState, thread' = [thread EXCEPT ![th] = x],
             x.pc # "clean", thread[th].pc # "list",
             UNCHANGED <<key_to_value_set_map_, deleted_set_nodes_map_>>
      PROVE  ListedInv'
  <2>1. \A n : Listed(n) => Listed(n)'
    BY Zenon, <1>2, ListedKeep
  <2>2. \A k \in SetKeys, v \in SetValues : Entry(k, v)' = Entry(k, v)
    BY <1>2 DEF Entry
  <2> QED BY <2>1, <2>2 DEF ListedInv
<1>3. CASE Mutation(th)
  <2>1. PICK op \in MutationState : op.pc = "lock_key" /\ StartMutation(th, op)
    BY Zenon, <1>3, NewOperation DEF Mutation
  <2> QED BY <2>1, ListedStartMutation
<1>4. CASE CleanUp(th)
  BY <1>4, ListedStartCleanUp DEF CleanUp
<1>5. CASE Lookup(th)
  <2>1. PICK key_set \in SUBSET SetKeys : StartLookup(th, key_set)
    BY <1>5 DEF Lookup
  <2>2. PICK x \in ThreadState : thread' = [thread EXCEPT ![th] = x] /\ x.pc = "collect"
    BY <2>1, StartLookupFacts
  <2>3. thread[th].pc # "list" /\ UNCHANGED <<key_to_value_set_map_, deleted_set_nodes_map_>>
    BY <2>1 DEF StartLookup, setData, Idle
  <2> QED BY Zenon, <1>2, <2>2, <2>3
<1>6. CASE LockKey(th)
  <2> DEFINE x == [thread[th] EXCEPT !.pc = "apply"]
  <2>1. thread[th] \in MutationState /\ thread[th].pc = "lock_key"
    BY <1>6, ThreadStates DEF BasicInv, SetTypeOK, LockKey
  <2>2. x \in MutationState /\ x.pc = "apply"
    BY <2>1 DEF MutationState
  <2>3. x \in ThreadState
    BY <2>2 DEF ThreadState
  <2>4. thread' = [thread EXCEPT ![th] = x] /\ UNCHANGED setData
    BY <1>6 DEF LockKey
  <2> HIDE DEF x
  <2> QED BY Zenon, <1>2, <2>1, <2>2, <2>3, <2>4 DEF setData
<1>7. CASE ApplyMutation(th)
  BY <1>7, ListedApply
<1>8. CASE ListDeletedValues(th)
  BY <1>8, ListedListing
<1>9. CASE CleanUpKey(th)
  BY <1>9, ListedCleanUpKey
<1>10. CASE FinishCleanUp(th)
  BY <1>10, ListedFinishCleanUp
<1>11. CASE CollectKey(th)
  <2>1. PICK x \in ThreadState : thread' = [thread EXCEPT ![th] = x] /\ x.pc = "collect"
    BY <1>11, CollectKeyFacts
  <2>2. thread[th].pc # "list" /\ UNCHANGED <<key_to_value_set_map_, deleted_set_nodes_map_>>
    BY <1>11 DEF CollectKey, setData
  <2> QED BY Zenon, <1>2, <2>1, <2>2
<1>12. CASE ReturnResult(th)
  <2>1. PICK x \in ThreadState : thread' = [thread EXCEPT ![th] = x] /\ x.pc = "result"
    BY <1>12, ReturnResultFacts
  <2>2. thread[th].pc # "list" /\ UNCHANGED <<key_to_value_set_map_, deleted_set_nodes_map_>>
    BY <1>12 DEF ReturnResult, setData
  <2> QED BY Zenon, <1>2, <2>1, <2>2
<1>13. CASE ReleaseResult(th)
  BY Zenon, <1>2, <1>13, IdleIsThreadState DEF ReleaseResult, setData
<1> QED BY <1>1, <1>3, <1>4, <1>5, <1>6, <1>7, <1>8, <1>9, <1>10, <1>11, <1>12, <1>13 DEF Continue

(* DeletedValuesAreListed: a deleted value is listed for the cleanup, or its *)
(* DeleteValuesInSet is about to list it, also while a cleanup runs between  *)
(* the marking and the listing: no deleted value stays in the map for ever.  *)
THEOREM DeletedValuesAreAlwaysListed == SetSpec => []DeletedValuesAreListed
<1>1. SetInit => ListedInv
  BY SMTT(30) DEF SetInit, ListedInv, Entry
<1>2. BasicInv /\ ListedInv => DeletedValuesAreListed
  <2> SUFFICES ASSUME BasicInv, ListedInv, NEW k \in SetKeys, NEW v \in SetValues,
                      key_to_value_set_map_[k] # NoEntry, key_to_value_set_map_[k][v] # NoMeta,
                      key_to_value_set_map_[k][v].is_deleted,
                      NEW t, t = key_to_value_set_map_[k][v].last_logical_commit_time
               PROVE  \/ \E p \in SetPrefixes : <<t, k, v>> \in deleted_set_nodes_map_[p]
                      \/ \E th \in Threads : /\ thread[th].pc = "list"
                                             /\ <<t, k, v>> \in Nodes(thread[th], thread[th].values)
    BY DEF DeletedValuesAreListed
  <2>1. t \in SetTimes
    BY DEF BasicInv, SetTypeOK, InnerMap, SetValueMeta
  <2>2. Listed(<<t, k, v>>)
    BY SMTT(30), <2>1 DEF ListedInv, Entry
  <2> QED BY <2>2 DEF Listed, AboutToBeListed, Kept
<1>3. BasicInv /\ ListedInv /\ [SetNext]_setVars => ListedInv'
  <2>1. ListedInv /\ UNCHANGED setVars => ListedInv'
    BY DEF ListedInv, Listed, AboutToBeListed, Kept, Entry, Nodes, setVars, setData
  <2> QED BY <2>1, ListedStep
<1> QED BY <1>1, <1>2, <1>3, BasicInit, BasicStep, PTL DEF SetSpec
=============================================================================
