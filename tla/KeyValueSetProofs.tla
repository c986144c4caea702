-------------------------- MODULE KeyValueSetProofs --------------------------
(* Proofs about KeyValueSetCache, for all threads, keys, values, prefixes and *)
(* commit times: types, locks and the results of lookups.                     *)
EXTENDS KeyValueSetCache, TLAPS

(***************************************************************************)
(* Types and locks.                                                        *)
(***************************************************************************)

(* What a thread is doing determines what it remembers. *)
LEMMA ThreadStates ==
  ASSUME NEW x \in ThreadState
  PROVE  /\ x.pc \in {"lock_key", "apply", "list"} => x \in MutationState
         /\ x.pc = "clean" => x \in CleanUpState
         /\ x.pc = "collect" => x \in LookupState
         /\ x.pc = "result" => x \in ResultState
         /\ x.pc \in {"idle", "lock_key", "apply", "list", "clean", "collect", "result"}
BY DEF ThreadState, Idle, MutationState, CleanUpState, LookupState, ResultState

(* Between its cutoff test and the listing a mutation keeps its operation,   *)
(* whose time is above every initial cutoff.                                 *)
OperationInv ==
  /\ \A p \in SetPrefixes : 0 <= SetCutoff(p)
  /\ \A p \in SetPrefixes : \A n \in deleted_set_nodes_map_[p] : <<n[2], p>> \in SetRoutes
  /\ \A th \in Threads : thread[th].pc \in {"lock_key", "apply", "list"} =>
       /\ <<thread[th].key, thread[th].prefix>> \in SetRoutes
       /\ 0 < thread[th].time
       /\ thread[th].pc = "list" => thread[th].is_deleted

(* Merging an operation keeps the types, and leaves no default metadata.     *)
LEMMA MergedType ==
  ASSUME NEW meta \in InnerMap, NEW op \in MutationState, 0 < op.time
  PROVE  /\ Merged(meta, op) \in InnerMap
         /\ \A v \in SetValues :
              Merged(meta, op)[v] =
                IF v \in op.values /\ (meta[v] = NoMeta \/ meta[v].last_logical_commit_time < op.time)
                  THEN [last_logical_commit_time |-> op.time, is_deleted |-> op.is_deleted]
                  ELSE meta[v]
         /\ \A v \in op.values : Merged(meta, op)[v] # NoMeta
<1> DEFINE new == [last_logical_commit_time |-> op.time, is_deleted |-> op.is_deleted]
<1>1. new \in SetValueMeta /\ new # NoMeta
  BY SetConstantsAssumption DEF MutationState, SetValueMeta
<1>2. op.time \in Int /\ op.values \subseteq SetValues
  BY Zenon, SetConstantsAssumption DEF MutationState
<1>3. ASSUME NEW v \in SetValues
      PROVE  Merged(meta, op)[v] =
                IF v \in op.values /\ (meta[v] = NoMeta \/ meta[v].last_logical_commit_time < op.time)
                  THEN new ELSE meta[v]
  <2>1. CASE meta[v] = NoMeta
    BY <1>2, <2>1 DEF Merged, Touched
  <2>2. CASE meta[v] # NoMeta
    <3>1. meta[v].last_logical_commit_time \in Int
      BY Zenon, <2>2, SetConstantsAssumption DEF InnerMap, SetValueMeta
    <3> QED BY <1>2, <2>2, <3>1 DEF Merged, Touched
  <2> QED BY <2>1, <2>2
<1>4. Merged(meta, op) \in InnerMap
  <2>1. \A v \in SetValues : Merged(meta, op)[v] \in SetValueMeta \cup {NoMeta}
    BY <1>1, <1>3 DEF InnerMap
  <2>2. Merged(meta, op) = [v \in SetValues |-> Merged(meta, op)[v]]
    BY DEF Merged
  <2> QED BY <2>1, <2>2 DEF InnerMap
<1>5. \A v \in op.values : Merged(meta, op)[v] # NoMeta
  BY <1>1, <1>2, <1>3
<1> HIDE DEF new
<1> QED BY <1>3, <1>4, <1>5 DEF new

(* The history of a key keeps its type when an operation is merged into it. *)
LEMMA MergedNewest ==
  ASSUME NEW meta \in [SetValues -> SetValueMeta], NEW op \in MutationState, 0 < op.time
  PROVE  Merged(meta, op) \in [SetValues -> SetValueMeta]
<1>1. meta \in InnerMap
  BY DEF InnerMap
<1>2. [last_logical_commit_time |-> op.time, is_deleted |-> op.is_deleted] \in SetValueMeta
  BY DEF MutationState, SetValueMeta
<1>3. \A v \in SetValues : Merged(meta, op)[v] \in SetValueMeta
  BY <1>1, <1>2, MergedType
<1>4. Merged(meta, op) \in InnerMap
  BY Zenon, <1>1, MergedType
<1> QED BY <1>3, <1>4 DEF InnerMap

(* The operation that Mutation starts with. *)
LEMMA NewOperation ==
  ASSUME NEW r \in SetRoutes, NEW vs \in SUBSET SetValues, NEW t \in SetTimes, NEW d \in BOOLEAN
  PROVE  LET op == [pc |-> "lock_key", key |-> r[1], prefix |-> r[2],
                    values |-> vs, time |-> t, is_deleted |-> d]
         IN  /\ op \in MutationState
             /\ op.pc = "lock_key"
             /\ <<op.key, op.prefix>> \in SetRoutes
BY SetConstantsAssumption DEF MutationState

(* One thread changes, the others go on as they were. *)
LEMMA ThreadChange ==
  ASSUME SetTypeOK, NEW th \in Threads, NEW x \in ThreadState,
         thread' = [thread EXCEPT ![th] = x]
  PROVE  /\ thread' \in [Threads -> ThreadState]
         /\ thread'[th] = x
         /\ \A other \in Threads \ {th} : thread'[other] = thread[other]
BY DEF SetTypeOK

(* UpdateKeyValueSet and DeleteValuesInSet up to the key lock keep the types. *)
LEMMA StartMutationTypes ==
  ASSUME SetTypeOK, OperationInv, NEW th \in Threads, NEW op \in MutationState,
         op.pc = "lock_key", <<op.key, op.prefix>> \in SetRoutes, StartMutation(th, op)
  PROVE  SetTypeOK' /\ OperationInv'
<1>1. op.key \in SetKeys /\ op.prefix \in SetPrefixes /\ op.values \subseteq SetValues
      /\ op.time \in SetTimes /\ op.time \in Int /\ SetCutoff(op.prefix) \in Int
  BY Zenon, SetConstantsAssumption DEF MutationState, SetTypeOK, SetCutoff
<1>2. CASE TooOld(op) /\ UNCHANGED <<key_to_value_set_map_, deleted_set_nodes_map_, newest_in_set, thread>>
  BY <1>2 DEF StartMutation, SetTypeOK, OperationInv, SetCutoff
<1>3. CASE ~TooOld(op) /\ key_to_value_set_map_[op.key] = NoEntry
  <2>1. 0 < op.time /\ op.values # {}
    BY <1>1, <1>3 DEF TooOld, OperationInv
  <2>2. NoValues \in InnerMap
    BY DEF NoValues, InnerMap
  <2>3. Merged(NoValues, op) \in InnerMap \ {NoValues}
    <3>1. PICK v \in op.values : v \in SetValues
      BY <1>1, <2>1
    <3>2. Merged(NoValues, op) \in InnerMap /\ Merged(NoValues, op)[v] # NoMeta
      BY Zenon, <2>1, <2>2, <3>1, MergedType
    <3> QED BY <3>1, <3>2 DEF NoValues
  <2>4. key_to_value_set_map_' \in [SetKeys -> {NoEntry} \cup (InnerMap \ {NoValues})]
    BY <1>1, <1>3, <2>3 DEF StartMutation, SetTypeOK
  <2>5. Nodes(op, op.values) \subseteq SetTimes \X SetKeys \X SetValues
        /\ \A n \in Nodes(op, op.values) : n[2] = op.key
    BY <1>1 DEF Nodes
  <2>6. deleted_set_nodes_map_' \in [SetPrefixes -> SUBSET (SetTimes \X SetKeys \X SetValues)]
    BY <1>1, <1>3, <2>5 DEF StartMutation, SetTypeOK
  <2>7. newest_in_set' \in [SetKeys -> [SetValues -> SetValueMeta]]
    BY <1>1, <1>3, <2>1, MergedNewest DEF StartMutation, ObserveSet, SetTypeOK
  <2>8. UNCHANGED <<set_cache_max_cleanup_logical_commit_time_, thread>>
    BY <1>3 DEF StartMutation
  <2>9. \A p \in SetPrefixes : \A n \in deleted_set_nodes_map_'[p] : <<n[2], p>> \in SetRoutes
    <3>1. \A p \in SetPrefixes : deleted_set_nodes_map_'[p] =
             IF p = op.prefix /\ op.is_deleted
               THEN deleted_set_nodes_map_[p] \cup Nodes(op, op.values)
               ELSE deleted_set_nodes_map_[p]
      BY Zenon, <1>1, <1>3 DEF StartMutation, SetTypeOK
    <3> QED BY Zenon, <2>5, <3>1 DEF OperationInv
  <2> QED BY <2>4, <2>6, <2>7, <2>8, <2>9 DEF SetTypeOK, OperationInv, SetCutoff
<1>4. CASE ~TooOld(op) /\ key_to_value_set_map_[op.key] # NoEntry
  <2>1. 0 < op.time
    BY <1>1, <1>4 DEF TooOld, OperationInv
  <2>2. thread' = [thread EXCEPT ![th] = op] /\ UNCHANGED setData
    BY <1>4 DEF StartMutation, setData
  <2>3. op \in ThreadState
    BY DEF ThreadState
  <2>4. /\ thread' \in [Threads -> ThreadState] /\ thread'[th] = op
        /\ \A other \in Threads \ {th} : thread'[other] = thread[other]
    BY Zenon, <2>2, <2>3, ThreadChange
  <2> QED BY <2>1, <2>2, <2>4 DEF SetTypeOK, OperationInv, SetCutoff, setData
<1> QED BY <1>2, <1>3, <1>4 DEF StartMutation

(* The locks exclude each other: the map's exclusive holder is alone, and so *)
(* is the exclusive holder of a key.                                         *)
LockInv ==
  \A th, other \in Threads : th # other =>
    /\ HoldsMap(th) => ~HoldsMap(other) /\ ~ReadsMap(other)
    /\ \A k \in SetKeys : HoldsKey(th, k) => ~HoldsKey(other, k) /\ ~ReadsKey(other, k)

(* A mutation that waits for its key or works on it finds the key's entry,   *)
(* for nobody can erase the key meanwhile.                                   *)
EntryInv ==
  \A th \in Threads : thread[th].pc \in {"lock_key", "apply"} =>
    key_to_value_set_map_[thread[th].key] # NoEntry

(* A cleanup has raised the cutoff to its time, and its list is a part of    *)
(* the listed nodes.                                                         *)
CleanInv ==
  \A th \in Threads : thread[th].pc = "clean" =>
    /\ thread[th].time <= SetCutoff(thread[th].prefix)
    /\ thread[th].due \subseteq
         {n \in deleted_set_nodes_map_[thread[th].prefix] : n[1] <= thread[th].time}

BasicInv == SetTypeOK /\ OperationInv /\ LockInv /\ EntryInv /\ CleanInv

(* OperationInv is about the operations of the threads, the nodes and the    *)
(* cutoffs only.                                                             *)
LEMMA OperationChange ==
  ASSUME SetTypeOK, OperationInv, NEW th \in Threads, NEW x \in ThreadState,
         thread' = [thread EXCEPT ![th] = x],
         UNCHANGED set_cache_max_cleanup_logical_commit_time_,
         UNCHANGED deleted_set_nodes_map_,
         x.pc \in {"lock_key", "apply", "list"} =>
           /\ <<x.key, x.prefix>> \in SetRoutes
           /\ 0 < x.time
           /\ x.pc = "list" => x.is_deleted
  PROVE  thread' \in [Threads -> ThreadState] /\ OperationInv'
BY Zenon, ThreadChange DEF OperationInv, SetCutoff

(* An idle thread. *)
LEMMA IdleIsThreadState ==
  Idle \in ThreadState /\ Idle.pc = "idle"
BY DEF Idle, ThreadState

(* Taking the mutex of a key keeps the types. *)
LEMMA LockKeyTypes ==
  ASSUME BasicInv, NEW th \in Threads, LockKey(th)
  PROVE  SetTypeOK' /\ OperationInv'
<1> DEFINE x == [thread[th] EXCEPT !.pc = "apply"]
<1>1. thread[th] \in MutationState
  BY ThreadStates DEF BasicInv, SetTypeOK, LockKey
<1>2. x \in MutationState /\ x.pc = "apply" /\ x.key = thread[th].key
      /\ x.prefix = thread[th].prefix /\ x.time = thread[th].time
  BY <1>1 DEF MutationState
<1>3. thread' = [thread EXCEPT ![th] = x] /\ UNCHANGED setData
  BY DEF LockKey
<1>4. <<x.key, x.prefix>> \in SetRoutes /\ 0 < x.time
  BY <1>2 DEF LockKey, BasicInv, OperationInv
<1>5. x \in ThreadState
  BY <1>2 DEF ThreadState
<1> HIDE DEF x
<1>6. thread' \in [Threads -> ThreadState] /\ OperationInv'
  BY Zenon, <1>2, <1>3, <1>4, <1>5, OperationChange DEF BasicInv, setData
<1> QED BY <1>3, <1>6 DEF BasicInv, SetTypeOK, setData

(* What the thread that applies a mutation knows, and what it goes on with.  *)
LEMMA ApplyFacts ==
  ASSUME BasicInv, NEW th \in Threads, ApplyMutation(th)
  PROVE  LET op == thread[th]
             old == key_to_value_set_map_[op.key]
         IN  /\ op \in MutationState
             /\ 0 < op.time
             /\ <<op.key, op.prefix>> \in SetRoutes
             /\ old \in InnerMap \ {NoValues}
             /\ Merged(old, op) \in InnerMap \ {NoValues}
             /\ thread'[th] \in ThreadState
             /\ thread' = [thread EXCEPT ![th] = thread'[th]]
             /\ thread'[th].pc \in {"idle", "list"}
             /\ thread'[th].pc = "list" =>
                  /\ thread'[th] \in MutationState
                  /\ thread'[th].key = op.key /\ thread'[th].prefix = op.prefix
                  /\ thread'[th].time = op.time
                  /\ thread'[th].is_deleted /\ op.is_deleted
                  /\ thread'[th].values =
                       {v \in op.values : Touched(old, v).last_logical_commit_time < op.time}
             /\ thread'[th].pc = "idle" =>
                  \/ ~op.is_deleted
                  \/ {v \in op.values : Touched(old, v).last_logical_commit_time < op.time} = {}
<1> DEFINE op == thread[th]
           old == key_to_value_set_map_[op.key]
           marked == {v \in op.values : Touched(old, v).last_logical_commit_time < op.time}
           x == [op EXCEPT !.pc = "list", !.values = marked]
<1>1. op \in MutationState /\ op.pc = "apply"
  BY ThreadStates DEF BasicInv, SetTypeOK, ApplyMutation
<1>2. 0 < op.time /\ <<op.key, op.prefix>> \in SetRoutes
  BY <1>1 DEF BasicInv, OperationInv
<1>3. old \in InnerMap \ {NoValues}
  BY <1>1 DEF BasicInv, EntryInv, SetTypeOK, MutationState
<1>4. Merged(old, op) \in InnerMap \ {NoValues}
  <2>1. PICK v \in SetValues : old[v] # NoMeta
    BY <1>3 DEF InnerMap, NoValues
  <2>2. [last_logical_commit_time |-> op.time, is_deleted |-> op.is_deleted] # NoMeta
    BY <1>1, SetConstantsAssumption DEF MutationState, SetValueMeta
  <2>3. Merged(old, op) \in InnerMap /\ Merged(old, op)[v] # NoMeta
    BY Zenon, <1>1, <1>2, <1>3, <2>1, <2>2, MergedType
  <2> QED BY <2>3 DEF NoValues
<1>5. marked \subseteq op.values
  OBVIOUS
<1>6. thread' = [thread EXCEPT ![th] = IF op.is_deleted /\ marked # {} THEN x ELSE Idle]
  BY DEF ApplyMutation
<1> HIDE DEF marked, old
<1>7. x \in MutationState /\ x.pc = "list" /\ x.key = op.key /\ x.prefix = op.prefix
      /\ x.time = op.time /\ x.is_deleted = op.is_deleted /\ x.values = marked
  BY Zenon, <1>1, <1>5 DEF MutationState
<1>8. x \in ThreadState /\ Idle \in ThreadState /\ Idle.pc = "idle"
  BY <1>7, IdleIsThreadState DEF ThreadState
<1> HIDE DEF x
<1>9. thread'[th] = IF op.is_deleted /\ marked # {} THEN x ELSE Idle
  BY <1>6 DEF BasicInv, SetTypeOK
<1> HIDE DEF op
<1> QED BY Zenon, <1>1, <1>2, <1>3, <1>4, <1>6, <1>7, <1>8, <1>9 DEF op, old, marked

(* Merging the values of a mutation keeps the types. *)
LEMMA ApplyTypes ==
  ASSUME BasicInv, NEW th \in Threads, ApplyMutation(th)
  PROVE  SetTypeOK' /\ OperationInv'
<1> DEFINE op == thread[th]
           old == key_to_value_set_map_[op.key]
<1>1. /\ op \in MutationState /\ 0 < op.time /\ <<op.key, op.prefix>> \in SetRoutes
      /\ Merged(old, op) \in InnerMap \ {NoValues}
  BY ApplyFacts
<1>2. /\ thread'[th] \in ThreadState
      /\ thread' = [thread EXCEPT ![th] = thread'[th]]
      /\ thread'[th].pc \in {"idle", "list"}
      /\ thread'[th].pc = "list" =>
           /\ thread'[th].key = op.key /\ thread'[th].prefix = op.prefix
           /\ thread'[th].time = op.time /\ thread'[th].is_deleted
  BY Zenon, ApplyFacts
<1>3. op.key \in SetKeys
  BY <1>1 DEF MutationState
<1>4. key_to_value_set_map_' \in [SetKeys -> {NoEntry} \cup (InnerMap \ {NoValues})]
  BY <1>1, <1>3 DEF ApplyMutation, BasicInv, SetTypeOK
<1>5. newest_in_set' \in [SetKeys -> [SetValues -> SetValueMeta]]
  BY <1>1, <1>3, MergedNewest DEF ApplyMutation, ObserveSet, BasicInv, SetTypeOK
<1>6. UNCHANGED <<deleted_set_nodes_map_, set_cache_max_cleanup_logical_commit_time_>>
  BY DEF ApplyMutation
<1>7. thread' \in [Threads -> ThreadState] /\ OperationInv'
  <2>1. thread'[th].pc \in {"lock_key", "apply", "list"} =>
          /\ <<thread'[th].key, thread'[th].prefix>> \in SetRoutes
          /\ 0 < thread'[th].time
          /\ thread'[th].pc = "list" => thread'[th].is_deleted
    BY <1>1, <1>2
  <2> QED BY <1>2, <1>6, <2>1, OperationChange DEF BasicInv
<1> QED BY <1>4, <1>5, <1>6, <1>7 DEF BasicInv, SetTypeOK

(* Listing marked values keeps the types. *)
LEMMA ListTypes ==
  ASSUME BasicInv, NEW th \in Threads, ListDeletedValues(th)
  PROVE  SetTypeOK' /\ OperationInv'
<1> DEFINE op == thread[th]
<1>1. op \in MutationState /\ op.pc = "list"
  BY ThreadStates DEF BasicInv, SetTypeOK, ListDeletedValues
<1>2. <<op.key, op.prefix>> \in SetRoutes
  BY <1>1 DEF BasicInv, OperationInv
<1>3. op.key \in SetKeys /\ op.prefix \in SetPrefixes /\ op.values \subseteq SetValues
      /\ op.time \in SetTimes
  BY <1>1 DEF MutationState
<1>4. Nodes(op, op.values) \subseteq SetTimes \X SetKeys \X SetValues
      /\ \A n \in Nodes(op, op.values) : n[2] = op.key
  BY <1>3 DEF Nodes
<1>5. /\ deleted_set_nodes_map_' =
           [deleted_set_nodes_map_ EXCEPT ![op.prefix] = @ \cup Nodes(op, op.values)]
      /\ thread' = [thread EXCEPT ![th] = Idle]
      /\ UNCHANGED <<key_to_value_set_map_, set_cache_max_cleanup_logical_commit_time_, newest_in_set>>
  BY DEF ListDeletedValues
<1> HIDE DEF op
<1>6. deleted_set_nodes_map_' \in [SetPrefixes -> SUBSET (SetTimes \X SetKeys \X SetValues)]
  BY <1>3, <1>4, <1>5 DEF BasicInv, SetTypeOK
<1>7. \A p \in SetPrefixes : \A n \in deleted_set_nodes_map_'[p] : <<n[2], p>> \in SetRoutes
  <2>1. \A p \in SetPrefixes : deleted_set_nodes_map_'[p] =
           IF p = op.prefix THEN deleted_set_nodes_map_[p] \cup Nodes(op, op.values)
           ELSE deleted_set_nodes_map_[p]
    BY Zenon, <1>3, <1>5 DEF BasicInv, SetTypeOK
  <2> QED BY Zenon, <1>2, <1>4, <2>1 DEF BasicInv, OperationInv
<1>8. /\ thread' \in [Threads -> ThreadState] /\ thread'[th].pc = "idle"
      /\ \A other \in Threads \ {th} : thread'[other] = thread[other]
  BY Zenon, <1>5, IdleIsThreadState, ThreadChange DEF BasicInv
<1>9. OperationInv'
  BY <1>5, <1>7, <1>8 DEF BasicInv, OperationInv, SetCutoff
<1> QED BY <1>5, <1>6, <1>8, <1>9 DEF BasicInv, SetTypeOK

(* A cleanup raises one cutoff. *)
LEMMA CutoffGrows ==
  ASSUME SetTypeOK, NEW th \in Threads, NEW time \in SetTimes, NEW prefix \in SetPrefixes,
         StartCleanUp(th, time, prefix)
  PROVE  /\ set_cache_max_cleanup_logical_commit_time_' \in [SetPrefixes -> SetTimes]
         /\ \A p \in SetPrefixes : SetCutoff(p) <= SetCutoff(p)'
         /\ time <= SetCutoff(prefix)'
         /\ \A p \in SetPrefixes : SetCutoff(p)' \in Int /\ SetCutoff(p) \in Int
<1>1. /\ set_cache_max_cleanup_logical_commit_time_' \in [SetPrefixes -> SetTimes]
      /\ \A p \in SetPrefixes : SetCutoff(p)' =
           IF p = prefix /\ SetCutoff(p) < time THEN time ELSE SetCutoff(p)
  BY DEF SetTypeOK, StartCleanUp, SetCutoff
<1>2. \A p \in SetPrefixes : SetCutoff(p) \in Int
  BY Zenon, SetConstantsAssumption DEF SetTypeOK, SetCutoff
<1>3. time \in Int
  BY SetConstantsAssumption
<1> QED BY <1>1, <1>2, <1>3

(* The start of a cleanup keeps the types; its thread then has the due nodes. *)
LEMMA StartCleanUpTypes ==
  ASSUME BasicInv, NEW th \in Threads, NEW time \in SetTimes, NEW prefix \in SetPrefixes,
         StartCleanUp(th, time, prefix)
  PROVE  /\ SetTypeOK' /\ OperationInv'
         /\ thread'[th].pc = "clean" /\ thread'[th].prefix = prefix /\ thread'[th].time = time
         /\ thread'[th].due = {n \in deleted_set_nodes_map_[prefix] : n[1] <= time}
         /\ \A other \in Threads \ {th} : thread'[other] = thread[other]
<1> DEFINE nodes == {n \in deleted_set_nodes_map_[prefix] : n[1] <= time}
           x == [pc |-> "clean", prefix |-> prefix, time |-> time, due |-> nodes]
<1>1. nodes \subseteq SetTimes \X SetKeys \X SetValues
  BY DEF BasicInv, SetTypeOK
<1>2. thread' = [thread EXCEPT ![th] = x]
      /\ UNCHANGED <<key_to_value_set_map_, deleted_set_nodes_map_, newest_in_set>>
  BY DEF StartCleanUp
<1> HIDE DEF nodes
<1>3. x \in CleanUpState /\ x.pc = "clean" /\ x.prefix = prefix /\ x.time = time /\ x.due = nodes
  BY <1>1 DEF CleanUpState
<1>4. x \in ThreadState
  BY <1>3 DEF ThreadState
<1> HIDE DEF x
<1>5. /\ thread' \in [Threads -> ThreadState] /\ thread'[th] = x
      /\ \A other \in Threads \ {th} : thread'[other] = thread[other]
  BY Zenon, <1>2, <1>4, ThreadChange DEF BasicInv
<1>6. \A p \in SetPrefixes : 0 <= SetCutoff(p)'
  BY CutoffGrows DEF BasicInv, OperationInv
<1>7. OperationInv'
  BY <1>2, <1>3, <1>5, <1>6 DEF BasicInv, OperationInv
<1> QED BY <1>2, <1>3, <1>5, <1>7, CutoffGrows DEF BasicInv, SetTypeOK, nodes

(* What a cleanup does to the inner map of one key. *)
LEMMA ReclaimedType ==
  ASSUME NEW meta \in InnerMap, NEW values, NEW time \in SetTimes
  PROVE  /\ ReclaimedValues(meta, values, time) \in InnerMap
         /\ \A v \in SetValues : ReclaimedValues(meta, values, time)[v] =
              IF /\ v \in values /\ meta[v] # NoMeta /\ meta[v].is_deleted
                 /\ meta[v].last_logical_commit_time <= time
                THEN NoMeta ELSE meta[v]
         /\ EntryLeft(ReclaimedValues(meta, values, time)) \in {NoEntry} \cup (InnerMap \ {NoValues})
BY DEF ReclaimedValues, InnerMap, EntryLeft

(* The step of a cleanup, with the key it is about. *)
LEMMA CleanUpKeyFacts ==
  ASSUME BasicInv, NEW th \in Threads, CleanUpKey(th)
  PROVE  \E first \in thread[th].due :
           LET op == thread[th]
               key == first[2]
               group == {n \in op.due : n[1] = first[1] /\ n[2] = key}
               left == ReclaimedValues(key_to_value_set_map_[key], {n[3] : n \in group}, op.time)
           IN  /\ op \in CleanUpState /\ op.pc = "clean"
               /\ key \in SetKeys
               /\ CanCleanKey(key)
               /\ key_to_value_set_map_' =
                    IF key_to_value_set_map_[key] = NoEntry THEN key_to_value_set_map_
                    ELSE [key_to_value_set_map_ EXCEPT ![key] = EntryLeft(left)]
               /\ thread'[th] \in CleanUpState
               /\ thread'[th].pc = "clean"
               /\ thread'[th].prefix = op.prefix /\ thread'[th].time = op.time
               /\ thread'[th].due = op.due \ group
               /\ thread' = [thread EXCEPT ![th] = thread'[th]]
<1> DEFINE op == thread[th]
<1>1. op \in CleanUpState /\ op.pc = "clean"
  BY ThreadStates DEF BasicInv, SetTypeOK, CleanUpKey
<1>2. PICK first \in op.due :
        LET key == first[2]
            group == {n \in op.due : n[1] = first[1] /\ n[2] = key}
            left == ReclaimedValues(key_to_value_set_map_[key], {n[3] : n \in group}, op.time)
        IN  /\ CanCleanKey(key)
            /\ key_to_value_set_map_' =
                 IF key_to_value_set_map_[key] = NoEntry THEN key_to_value_set_map_
                 ELSE [key_to_value_set_map_ EXCEPT ![key] = EntryLeft(left)]
            /\ thread' = [thread EXCEPT ![th].due = @ \ group]
  BY Zenon DEF CleanUpKey
<1> DEFINE key == first[2]
           group == {n \in op.due : n[1] = first[1] /\ n[2] = key}
           x == [op EXCEPT !.due = @ \ group]
<1>3. key \in SetKeys
  BY <1>1, <1>2 DEF CleanUpState
<1>4. thread' = [thread EXCEPT ![th] = x]
  BY <1>2
<1> HIDE DEF group
<1>5. x \in CleanUpState /\ x.pc = "clean" /\ x.prefix = op.prefix /\ x.time = op.time
      /\ x.due = op.due \ group
  BY <1>1 DEF CleanUpState
<1> HIDE DEF x
<1>6. thread'[th] = x
  BY <1>4 DEF BasicInv, SetTypeOK
<1> QED BY Zenon, <1>1, <1>2, <1>3, <1>4, <1>5, <1>6 DEF group

(* Cleaning up one key keeps the types. *)
LEMMA CleanUpKeyTypes ==
  ASSUME BasicInv, NEW th \in Threads, CleanUpKey(th)
  PROVE  SetTypeOK' /\ OperationInv'
<1> DEFINE op == thread[th]
<1>1. PICK first, values :
        /\ first \in op.due
        /\ LET key == first[2]
               left == ReclaimedValues(key_to_value_set_map_[key], values, op.time)
           IN  /\ op \in CleanUpState
               /\ key \in SetKeys
               /\ key_to_value_set_map_' =
                    IF key_to_value_set_map_[key] = NoEntry THEN key_to_value_set_map_
                    ELSE [key_to_value_set_map_ EXCEPT ![key] = EntryLeft(left)]
               /\ thread'[th] \in CleanUpState
               /\ thread'[th].pc = "clean"
               /\ thread' = [thread EXCEPT ![th] = thread'[th]]
  BY Zenon, CleanUpKeyFacts
<1>2. UNCHANGED <<deleted_set_nodes_map_, set_cache_max_cleanup_logical_commit_time_, newest_in_set>>
  BY DEF CleanUpKey
<1>3. op.time \in SetTimes
  BY <1>1 DEF CleanUpState
<1>4. key_to_value_set_map_' \in [SetKeys -> {NoEntry} \cup (InnerMap \ {NoValues})]
  <2>1. CASE key_to_value_set_map_[first[2]] = NoEntry
    BY <1>1, <2>1 DEF BasicInv, SetTypeOK
  <2>2. CASE key_to_value_set_map_[first[2]] # NoEntry
    <3>1. key_to_value_set_map_[first[2]] \in InnerMap
      BY <1>1, <2>2 DEF BasicInv, SetTypeOK
    <3>2. EntryLeft(ReclaimedValues(key_to_value_set_map_[first[2]], values, op.time))
            \in {NoEntry} \cup (InnerMap \ {NoValues})
      BY <1>3, <3>1, ReclaimedType
    <3> QED BY <1>1, <2>2, <3>2 DEF BasicInv, SetTypeOK
  <2> QED BY <2>1, <2>2
<1>5. thread'[th] \in ThreadState
  BY <1>1 DEF ThreadState
<1>6. thread' \in [Threads -> ThreadState] /\ OperationInv'
  BY Zenon, <1>1, <1>2, <1>5, OperationChange DEF BasicInv
<1> QED BY <1>2, <1>4, <1>6 DEF BasicInv, SetTypeOK

(* The end of a cleanup keeps the types. *)
LEMMA FinishCleanUpTypes ==
  ASSUME BasicInv, NEW th \in Threads, FinishCleanUp(th)
  PROVE  SetTypeOK' /\ OperationInv'
<1> DEFINE op == thread[th]
<1>1. op \in CleanUpState
  BY ThreadStates DEF BasicInv, SetTypeOK, FinishCleanUp
<1>2. op.prefix \in SetPrefixes
  BY <1>1 DEF CleanUpState
<1>3. /\ deleted_set_nodes_map_' =
           [deleted_set_nodes_map_ EXCEPT ![op.prefix] = {n \in @ : n[1] > op.time}]
      /\ thread' = [thread EXCEPT ![th] = Idle]
      /\ UNCHANGED <<key_to_value_set_map_, set_cache_max_cleanup_logical_commit_time_, newest_in_set>>
  BY DEF FinishCleanUp
<1> HIDE DEF op
<1>4. /\ deleted_set_nodes_map_' \in [SetPrefixes -> SUBSET (SetTimes \X SetKeys \X SetValues)]
      /\ \A p \in SetPrefixes : deleted_set_nodes_map_'[p] \subseteq deleted_set_nodes_map_[p]
  BY <1>2, <1>3 DEF BasicInv, SetTypeOK
<1>5. /\ thread' \in [Threads -> ThreadState] /\ thread'[th].pc = "idle"
      /\ \A other \in Threads \ {th} : thread'[other] = thread[other]
  BY Zenon, <1>3, IdleIsThreadState, ThreadChange DEF BasicInv
<1>6. OperationInv'
  BY <1>3, <1>4, <1>5 DEF BasicInv, OperationInv, SetCutoff
<1> QED BY <1>3, <1>4, <1>5, <1>6 DEF BasicInv, SetTypeOK

(* A lookup changes only what its thread holds. *)
LEMMA LookupTypes ==
  ASSUME BasicInv, NEW th \in Threads, NEW x \in ThreadState,
         x.pc \in {"idle", "collect", "result"},
         thread' = [thread EXCEPT ![th] = x], UNCHANGED setData
  PROVE  SetTypeOK' /\ OperationInv'
<1>1. thread' \in [Threads -> ThreadState] /\ OperationInv'
  BY Zenon, OperationChange DEF BasicInv, setData
<1> QED BY <1>1 DEF BasicInv, SetTypeOK, setData

(* A lookup starts with no key locked. *)
LEMMA StartLookupFacts ==
  ASSUME BasicInv, NEW th \in Threads, NEW key_set \in SUBSET SetKeys, StartLookup(th, key_set)
  PROVE  \E x \in ThreadState :
           /\ thread' = [thread EXCEPT ![th] = x]
           /\ x.pc = "collect"
           /\ \A k \in SetKeys : x.locked[k] = NoEntry
<1> DEFINE nothing == [k \in SetKeys |-> NoEntry]
           x == [pc |-> "collect", todo |-> key_set, locked |-> nothing]
<1>1. nothing \in [SetKeys -> {NoEntry} \cup InnerMap] /\ \A k \in SetKeys : nothing[k] = NoEntry
  OBVIOUS
<1>2. thread' = [thread EXCEPT ![th] = x]
  BY DEF StartLookup
<1> HIDE DEF nothing
<1>3. x \in LookupState /\ x.pc = "collect" /\ x.locked = nothing
  BY <1>1 DEF LookupState
<1>4. x \in ThreadState
  BY <1>3 DEF ThreadState
<1> HIDE DEF x
<1> QED BY Zenon, <1>1, <1>2, <1>3, <1>4

(* Collecting a key locks it in the state in which it is, and keeps the keys *)
(* collected before.                                                         *)
LEMMA CollectKeyFacts ==
  ASSUME BasicInv, NEW th \in Threads, CollectKey(th)
  PROVE  \E x \in ThreadState, key \in SetKeys :
           /\ thread' = [thread EXCEPT ![th] = x]
           /\ thread[th].pc = "collect" /\ x.pc = "collect"
           /\ key_to_value_set_map_[key] # NoEntry => KeyIsReadable(key)
           /\ x.locked[key] = key_to_value_set_map_[key]
           /\ \A k \in SetKeys \ {key} : x.locked[k] = thread[th].locked[k]
<1> DEFINE op == thread[th]
<1>1. op \in LookupState /\ op.pc = "collect"
  BY ThreadStates DEF BasicInv, SetTypeOK, CollectKey
<1>2. PICK key \in op.todo :
        /\ key_to_value_set_map_[key] # NoEntry => KeyIsReadable(key)
        /\ thread' = [thread EXCEPT ![th] =
             [op EXCEPT !.todo = @ \ {key}, !.locked[key] = key_to_value_set_map_[key]]]
  BY Zenon DEF CollectKey
<1> DEFINE x == [op EXCEPT !.todo = @ \ {key}, !.locked[key] = key_to_value_set_map_[key]]
           held == [op.locked EXCEPT ![key] = key_to_value_set_map_[key]]
<1>3. key \in SetKeys /\ op.locked \in [SetKeys -> {NoEntry} \cup InnerMap]
  BY <1>1, <1>2 DEF LookupState
<1>4. key_to_value_set_map_[key] \in {NoEntry} \cup InnerMap
  BY <1>3 DEF BasicInv, SetTypeOK
<1>5. held \in [SetKeys -> {NoEntry} \cup InnerMap] /\ held[key] = key_to_value_set_map_[key]
      /\ \A k \in SetKeys \ {key} : held[k] = op.locked[k]
  BY <1>3, <1>4
<1>6. x = [op EXCEPT !.todo = @ \ {key}, !.locked = held]
  BY <1>1 DEF LookupState
<1> HIDE DEF held, x
<1>7. x \in LookupState /\ x.pc = "collect" /\ x.locked = held
  BY Zenon, <1>1, <1>5, <1>6 DEF LookupState
<1>8. x \in ThreadState
  BY <1>7 DEF ThreadState
<1>9. thread' = [thread EXCEPT ![th] = x]
  BY <1>2 DEF x
<1> QED BY ZenonT(30), <1>1, <1>2, <1>3, <1>5, <1>7, <1>8, <1>9

(* The result keeps the locks of the lookup. *)
LEMMA ReturnResultFacts ==
  ASSUME BasicInv, NEW th \in Threads, ReturnResult(th)
  PROVE  \E x \in ThreadState :
           /\ thread' = [thread EXCEPT ![th] = x]
           /\ thread[th].pc = "collect" /\ x.pc = "result"
           /\ x.locked = thread[th].locked
<1> DEFINE x == [pc |-> "result", locked |-> thread[th].locked]
<1>1. thread[th] \in LookupState
  BY ThreadStates DEF BasicInv, SetTypeOK, ReturnResult
<1>2. x \in ResultState /\ x.pc = "result" /\ x.locked = thread[th].locked
  BY <1>1 DEF LookupState, ResultState
<1>3. x \in ThreadState
  BY <1>2 DEF ThreadState
<1>4. thread' = [thread EXCEPT ![th] = x]
  BY DEF ReturnResult
<1> HIDE DEF x
<1> QED BY Zenon, <1>2, <1>3, <1>4 DEF ReturnResult

(* A thread's new state is compatible with the locks of the others. *)
LEMMA LockChange ==
  ASSUME SetTypeOK, LockInv, NEW th \in Threads, NEW x \in ThreadState,
         thread' = [thread EXCEPT ![th] = x],
         \A other \in Threads \ {th} :
           /\ x.pc \in {"lock_key", "clean"} => ~HoldsMap(other) /\ ~ReadsMap(other)
           /\ x.pc = "collect" => ~HoldsMap(other)
           /\ \A k \in SetKeys :
                /\ x.pc = "apply" /\ x.key = k => ~HoldsKey(other, k) /\ ~ReadsKey(other, k)
                /\ x.pc \in {"collect", "result"} /\ x.locked[k] # NoEntry => ~HoldsKey(other, k)
  PROVE  LockInv'
<1>1. /\ thread'[th] = x
      /\ \A other \in Threads \ {th} : thread'[other] = thread[other]
  BY Zenon, ThreadChange
<1>2. /\ HoldsMap(th)' <=> x.pc \in {"lock_key", "clean"}
      /\ ReadsMap(th)' <=> x.pc = "collect"
      /\ \A k \in SetKeys : HoldsKey(th, k)' <=> x.pc = "apply" /\ x.key = k
      /\ \A k \in SetKeys : ReadsKey(th, k)' <=>
           x.pc \in {"collect", "result"} /\ x.locked[k] # NoEntry
  BY <1>1 DEF HoldsMap, ReadsMap, HoldsKey, ReadsKey
<1>3. \A other \in Threads \ {th} :
        /\ HoldsMap(other)' <=> HoldsMap(other)
        /\ ReadsMap(other)' <=> ReadsMap(other)
        /\ \A k \in SetKeys : HoldsKey(other, k)' <=> HoldsKey(other, k)
        /\ \A k \in SetKeys : ReadsKey(other, k)' <=> ReadsKey(other, k)
  BY <1>1 DEF HoldsMap, ReadsMap, HoldsKey, ReadsKey
<1>4. SUFFICES ASSUME NEW a \in Threads, NEW b \in Threads, a # b
               PROVE  /\ HoldsMap(a)' => ~HoldsMap(b)' /\ ~ReadsMap(b)'
                      /\ \A k \in SetKeys : HoldsKey(a, k)' => ~HoldsKey(b, k)' /\ ~ReadsKey(b, k)'
  BY DEF LockInv
<1>5. /\ HoldsMap(b) => ~HoldsMap(a) /\ ~ReadsMap(a)
      /\ HoldsMap(a) => ~HoldsMap(b) /\ ~ReadsMap(b)
      /\ \A k \in SetKeys : HoldsKey(a, k) => ~HoldsKey(b, k) /\ ~ReadsKey(b, k)
  BY <1>4 DEF LockInv
<1>6. CASE a = th
  BY <1>2, <1>3, <1>4, <1>6
<1>7. CASE b = th
  BY <1>2, <1>3, <1>4, <1>7
<1>8. CASE a # th /\ b # th
  BY <1>3, <1>5, <1>8
<1> QED BY <1>6, <1>7, <1>8

(* Entries that stay, and a thread that joins the mutations of a key only    *)
(* while the key has an entry.                                               *)
LEMMA EntryChange ==
  ASSUME SetTypeOK, EntryInv, NEW th \in Threads, NEW x \in ThreadState,
         thread' = [thread EXCEPT ![th] = x],
         x.pc \in {"lock_key", "apply"} => key_to_value_set_map_'[x.key] # NoEntry,
         \A other \in Threads \ {th} : thread[other].pc \in {"lock_key", "apply"} =>
           \/ key_to_value_set_map_'[thread[other].key] = key_to_value_set_map_[thread[other].key]
           \/ key_to_value_set_map_'[thread[other].key] # NoEntry
  PROVE  EntryInv'
BY ZenonT(30), ThreadChange DEF EntryInv

(* Cutoffs that do not fall, and nodes that stay while a cleanup runs.       *)
LEMMA CleanChange ==
  ASSUME SetTypeOK, CleanInv, NEW th \in Threads, NEW x \in ThreadState,
         thread' = [thread EXCEPT ![th] = x],
         x.pc = "clean" =>
           /\ x.time <= set_cache_max_cleanup_logical_commit_time_'[x.prefix]
           /\ x.due \subseteq {n \in deleted_set_nodes_map_'[x.prefix] : n[1] <= x.time},
         \A other \in Threads \ {th} : thread[other].pc = "clean" =>
           /\ UNCHANGED set_cache_max_cleanup_logical_commit_time_
           /\ deleted_set_nodes_map_[thread[other].prefix] \subseteq
                deleted_set_nodes_map_'[thread[other].prefix]
  PROVE  CleanInv'
<1>1. /\ thread'[th] = x
      /\ \A other \in Threads \ {th} : thread'[other] = thread[other]
  BY Zenon, ThreadChange
<1>2. SUFFICES ASSUME NEW o \in Threads, thread'[o].pc = "clean"
               PROVE  /\ thread'[o].time <= set_cache_max_cleanup_logical_commit_time_'[thread'[o].prefix]
                      /\ thread'[o].due \subseteq
                           {n \in deleted_set_nodes_map_'[thread'[o].prefix] : n[1] <= thread'[o].time}
  BY DEF CleanInv, SetCutoff
<1>3. CASE o = th
  BY <1>1, <1>2, <1>3
<1>4. CASE o # th
  <2>1. thread'[o] = thread[o] /\ thread[o].pc = "clean"
    BY <1>1, <1>2, <1>4
  <2>2. /\ thread[o].time <= set_cache_max_cleanup_logical_commit_time_[thread[o].prefix]
        /\ thread[o].due \subseteq
             {n \in deleted_set_nodes_map_[thread[o].prefix] : n[1] <= thread[o].time}
    BY <2>1 DEF CleanInv, SetCutoff
  <2>3. /\ UNCHANGED set_cache_max_cleanup_logical_commit_time_
        /\ deleted_set_nodes_map_[thread[o].prefix] \subseteq
             deleted_set_nodes_map_'[thread[o].prefix]
    BY <1>4, <2>1
  <2> QED BY <2>1, <2>2, <2>3
<1> QED BY <1>3, <1>4

(* UpdateKeyValueSet and DeleteValuesInSet up to the key lock keep BasicInv. *)
LEMMA StartMutationBasic ==
  ASSUME BasicInv, NEW th \in Threads, NEW op \in MutationState,
         op.pc = "lock_key", <<op.key, op.prefix>> \in SetRoutes, StartMutation(th, op)
  PROVE  BasicInv'
<1> USE DEF BasicInv
<1>1. SetTypeOK' /\ OperationInv'
  BY StartMutationTypes
<1>2. op.key \in SetKeys /\ op.prefix \in SetPrefixes
  BY DEF MutationState
<1>3. /\ thread[th] = Idle /\ Idle \in ThreadState /\ Idle.pc = "idle"
      /\ \A o \in Threads : ~HoldsMap(o) /\ ~ReadsMap(o)
      /\ UNCHANGED set_cache_max_cleanup_logical_commit_time_
  BY IdleIsThreadState DEF StartMutation, MapIsFree
<1>4. CASE UNCHANGED <<key_to_value_set_map_, deleted_set_nodes_map_, thread>>
  BY <1>1, <1>3, <1>4 DEF LockInv, EntryInv, CleanInv, HoldsMap, ReadsMap, HoldsKey, ReadsKey, SetCutoff
<1>5. CASE /\ key_to_value_set_map_[op.key] = NoEntry
           /\ \A k \in SetKeys \ {op.key} : key_to_value_set_map_'[k] = key_to_value_set_map_[k]
           /\ UNCHANGED thread
  <2>1. LockInv'
    BY <1>5 DEF LockInv, HoldsMap, ReadsMap, HoldsKey, ReadsKey
  <2>2. \A o \in Threads : thread[o].pc \notin {"lock_key", "clean"}
    BY <1>3 DEF HoldsMap
  <2>3. \A o \in Threads : thread[o].pc = "apply" =>
          /\ thread[o].key \in SetKeys
          /\ key_to_value_set_map_[thread[o].key] # NoEntry
    BY ThreadStates DEF SetTypeOK, EntryInv, MutationState
  <2>4. EntryInv'
    BY <1>5, <2>2, <2>3 DEF EntryInv
  <2>5. CleanInv'
    BY <1>5, <2>2 DEF CleanInv
  <2> QED BY <1>1, <2>1, <2>4, <2>5
<1>6. CASE /\ key_to_value_set_map_[op.key] # NoEntry
           /\ thread' = [thread EXCEPT ![th] = op]
           /\ UNCHANGED <<key_to_value_set_map_, deleted_set_nodes_map_>>
  <2>1. op \in ThreadState
    BY DEF ThreadState
  <2>2. LockInv'
    BY Zenon, <1>3, <1>6, <2>1, LockChange
  <2>3. EntryInv'
    BY Zenon, <1>6, <2>1, EntryChange
  <2>4. CleanInv'
    BY Zenon, <1>3, <1>6, <2>1, CleanChange
  <2> QED BY <1>1, <2>2, <2>3, <2>4
<1> QED
  <2>1. CASE ~TooOld(op) /\ key_to_value_set_map_[op.key] = NoEntry
    BY <1>2, <1>5, <2>1 DEF StartMutation, SetTypeOK
  <2> QED BY <1>4, <1>6, <2>1 DEF StartMutation

(* Taking the mutex of a key keeps BasicInv. *)
LEMMA LockKeyBasic ==
  ASSUME BasicInv, NEW th \in Threads, LockKey(th)
  PROVE  BasicInv'
<1> USE DEF BasicInv
<1> DEFINE x == [thread[th] EXCEPT !.pc = "apply"]
<1>1. SetTypeOK' /\ OperationInv'
  BY LockKeyTypes
<1>2. thread[th] \in MutationState
  BY ThreadStates DEF SetTypeOK, LockKey
<1>3. x \in MutationState /\ x.pc = "apply" /\ x.key = thread[th].key
  BY <1>2 DEF MutationState
<1>4. thread' = [thread EXCEPT ![th] = x] /\ UNCHANGED setData
  BY DEF LockKey
<1>5. x \in ThreadState
  BY <1>3 DEF ThreadState
<1> HIDE DEF x
<1>6. LockInv'
  <2>1. \A other \in Threads : ~HoldsKey(other, x.key) /\ ~ReadsKey(other, x.key)
    BY <1>3 DEF LockKey, KeyIsFree
  <2> QED BY Zenon, <1>3, <1>4, <1>5, <2>1, LockChange
<1>7. key_to_value_set_map_'[x.key] # NoEntry
  BY <1>3, <1>4 DEF EntryInv, LockKey, setData
<1>8. EntryInv'
  BY Zenon, <1>4, <1>5, <1>7, EntryChange DEF setData
<1>9. CleanInv'
  BY Zenon, <1>3, <1>4, <1>5, CleanChange DEF setData
<1> QED BY <1>1, <1>6, <1>8, <1>9

(* Merging the values of a mutation keeps BasicInv. *)
LEMMA ApplyBasic ==
  ASSUME BasicInv, NEW th \in Threads, ApplyMutation(th)
  PROVE  BasicInv'
<1> USE DEF BasicInv
<1>1. SetTypeOK' /\ OperationInv'
  BY ApplyTypes
<1>2. /\ thread'[th] \in ThreadState
      /\ thread' = [thread EXCEPT ![th] = thread'[th]]
      /\ thread'[th].pc \in {"idle", "list"}
  BY Zenon, ApplyFacts
<1>3. LockInv'
  BY <1>2, LockChange
<1>4. \A k \in SetKeys : key_to_value_set_map_[k] # NoEntry => key_to_value_set_map_'[k] # NoEntry
  <2>1. thread[th] \in MutationState /\ Merged(key_to_value_set_map_[thread[th].key], thread[th]) \in InnerMap
    BY Zenon, ApplyFacts
  <2>2. Merged(key_to_value_set_map_[thread[th].key], thread[th]) # NoEntry
    BY <2>1, SetConstantsAssumption DEF InnerMap
  <2> QED BY <2>2 DEF ApplyMutation, SetTypeOK
<1>5. \A o \in Threads : thread[o].pc \in {"lock_key", "apply"} =>
        thread[o].key \in SetKeys /\ key_to_value_set_map_[thread[o].key] # NoEntry
  BY ThreadStates DEF SetTypeOK, EntryInv, MutationState
<1>6. EntryInv'
  BY <1>2, <1>4, <1>5, EntryChange
<1>7. CleanInv'
  BY Zenon, <1>2, CleanChange DEF ApplyMutation
<1> QED BY <1>1, <1>3, <1>6, <1>7

(* Listing marked values keeps BasicInv. *)
LEMMA ListBasic ==
  ASSUME BasicInv, NEW th \in Threads, ListDeletedValues(th)
  PROVE  BasicInv'
<1> USE DEF BasicInv
<1>1. SetTypeOK' /\ OperationInv'
  BY ListTypes
<1>2. /\ thread' = [thread EXCEPT ![th] = Idle] /\ Idle \in ThreadState /\ Idle.pc = "idle"
      /\ UNCHANGED <<key_to_value_set_map_, set_cache_max_cleanup_logical_commit_time_>>
  BY IdleIsThreadState DEF ListDeletedValues
<1>3. \A o \in Threads : thread[o].pc # "clean"
  BY DEF ListDeletedValues, MapIsFree, HoldsMap
<1>4. LockInv'
  BY Zenon, <1>2, LockChange
<1>5. EntryInv'
  BY Zenon, <1>2, EntryChange
<1>6. CleanInv'
  BY Zenon, <1>2, <1>3, CleanChange
<1> QED BY <1>1, <1>4, <1>5, <1>6

(* The start of a cleanup keeps BasicInv. *)
LEMMA StartCleanUpBasic ==
  ASSUME BasicInv, NEW th \in Threads, NEW time \in SetTimes, NEW prefix \in SetPrefixes,
         StartCleanUp(th, time, prefix)
  PROVE  BasicInv'
<1> USE DEF BasicInv
<1>1. /\ SetTypeOK' /\ OperationInv'
      /\ thread'[th].pc = "clean" /\ thread'[th].prefix = prefix /\ thread'[th].time = time
      /\ thread'[th].due = {n \in deleted_set_nodes_map_[prefix] : n[1] <= time}
  BY StartCleanUpTypes
<1>2. thread'[th] \in ThreadState /\ thread' = [thread EXCEPT ![th] = thread'[th]]
  <2>1. \E x : thread' = [thread EXCEPT ![th] = x]
    BY Zenon DEF StartCleanUp
  <2>2. thread'[th] \in ThreadState
    BY <1>1 DEF SetTypeOK
  <2> QED BY <2>1, <2>2 DEF SetTypeOK
<1>3. /\ \A o \in Threads : ~HoldsMap(o) /\ ~ReadsMap(o)
      /\ UNCHANGED <<key_to_value_set_map_, deleted_set_nodes_map_>>
  BY DEF StartCleanUp, MapIsFree
<1>4. LockInv'
  BY <1>1, <1>2, <1>3, LockChange
<1>5. EntryInv'
  BY <1>1, <1>2, <1>3, EntryChange
<1>6. CleanInv'
  <2>1. \A o \in Threads : thread[o].pc # "clean"
    BY <1>3 DEF HoldsMap
  <2>2. time <= set_cache_max_cleanup_logical_commit_time_'[prefix]
    BY CutoffGrows DEF SetCutoff
  <2>3. thread'[th].due \subseteq {n \in deleted_set_nodes_map_'[prefix] : n[1] <= time}
    BY <1>1, <1>3
  <2> QED BY <1>1, <1>2, <2>1, <2>2, <2>3, CleanChange
<1> QED BY <1>1, <1>4, <1>5, <1>6

(* Cleaning up one key keeps BasicInv: nobody is at work on that key. *)
LEMMA CleanUpKeyBasic ==
  ASSUME BasicInv, NEW th \in Threads, CleanUpKey(th)
  PROVE  BasicInv'
<1> USE DEF BasicInv
<1>1. SetTypeOK' /\ OperationInv'
  BY CleanUpKeyTypes
<1>2. PICK key \in SetKeys :
        /\ CanCleanKey(key)
        /\ \A k \in SetKeys \ {key} : key_to_value_set_map_'[k] = key_to_value_set_map_[k]
        /\ key_to_value_set_map_[key] = NoEntry => key_to_value_set_map_'[key] = NoEntry
        /\ thread[th] \in CleanUpState /\ thread[th].pc = "clean"
        /\ thread'[th] \in CleanUpState /\ thread'[th].pc = "clean"
        /\ thread'[th].prefix = thread[th].prefix /\ thread'[th].time = thread[th].time
        /\ thread'[th].due \subseteq thread[th].due
        /\ thread' = [thread EXCEPT ![th] = thread'[th]]
  BY Zenon, CleanUpKeyFacts DEF SetTypeOK
<1>3. thread'[th] \in ThreadState
  BY <1>2 DEF ThreadState
<1>4. UNCHANGED <<deleted_set_nodes_map_, set_cache_max_cleanup_logical_commit_time_>>
  BY DEF CleanUpKey
<1>5. \A o \in Threads \ {th} : ~HoldsMap(o) /\ ~ReadsMap(o)
  BY <1>2 DEF LockInv, HoldsMap
<1>6. LockInv'
  BY <1>2, <1>3, <1>5, LockChange
<1>7. EntryInv'
  <2>1. ASSUME NEW o \in Threads \ {th}, thread[o].pc \in {"lock_key", "apply"}
        PROVE  key_to_value_set_map_'[thread[o].key] = key_to_value_set_map_[thread[o].key]
    <3>1. thread[o].pc = "apply" /\ thread[o].key \in SetKeys
      BY <1>5, <2>1, ThreadStates DEF HoldsMap, SetTypeOK, MutationState
    <3>2. key_to_value_set_map_[thread[o].key] # NoEntry
      BY <2>1 DEF EntryInv
    <3>3. HoldsKey(o, thread[o].key)
      BY <3>1 DEF HoldsKey
    <3>4. thread[o].key # key
      BY <1>2, <3>2, <3>3 DEF CanCleanKey, KeyIsFree
    <3> QED BY <1>2, <3>1, <3>4
  <2> QED BY <1>2, <1>3, <2>1, EntryChange
<1>8. CleanInv'
  <2>1. /\ thread'[th].time <= set_cache_max_cleanup_logical_commit_time_'[thread'[th].prefix]
        /\ thread'[th].due \subseteq
             {n \in deleted_set_nodes_map_'[thread'[th].prefix] : n[1] <= thread'[th].time}
    BY <1>2, <1>4 DEF CleanInv, SetCutoff
  <2> QED BY <1>2, <1>3, <1>4, <2>1, CleanChange
<1> QED BY <1>1, <1>6, <1>7, <1>8

(* The end of a cleanup keeps BasicInv. *)
LEMMA FinishCleanUpBasic ==
  ASSUME BasicInv, NEW th \in Threads, FinishCleanUp(th)
  PROVE  BasicInv'
<1> USE DEF BasicInv
<1>1. SetTypeOK' /\ OperationInv'
  BY FinishCleanUpTypes
<1>2. /\ thread' = [thread EXCEPT ![th] = Idle] /\ Idle \in ThreadState /\ Idle.pc = "idle"
      /\ UNCHANGED <<key_to_value_set_map_, set_cache_max_cleanup_logical_commit_time_>>
  BY IdleIsThreadState DEF FinishCleanUp
<1>3. \A o \in Threads \ {th} : thread[o].pc # "clean"
  BY DEF FinishCleanUp, LockInv, HoldsMap
<1>4. LockInv'
  BY Zenon, <1>2, LockChange
<1>5. EntryInv'
  BY Zenon, <1>2, EntryChange
<1>6. CleanInv'
  BY Zenon, <1>2, <1>3, CleanChange
<1> QED BY <1>1, <1>4, <1>5, <1>6

(* A step of a lookup leaves the map alone, and its thread holds shared      *)
(* locks only.                                                               *)
LEMMA LookupBasic ==
  ASSUME BasicInv, NEW th \in Threads, NEW x \in ThreadState,
         thread' = [thread EXCEPT ![th] = x], UNCHANGED setData,
         x.pc \in {"idle", "collect", "result"},
         x.pc = "collect" => \A o \in Threads \ {th} : ~HoldsMap(o),
         x.pc \in {"collect", "result"} =>
           \A k \in SetKeys : x.locked[k] # NoEntry => \A o \in Threads \ {th} : ~HoldsKey(o, k)
  PROVE  BasicInv'
<1> USE DEF BasicInv
<1>1. SetTypeOK' /\ OperationInv'
  BY Zenon, LookupTypes
<1>2. LockInv'
  BY Zenon, LockChange
<1>3. EntryInv'
  BY Zenon, EntryChange DEF setData
<1>4. CleanInv'
  BY Zenon, CleanChange DEF setData
<1> QED BY <1>1, <1>2, <1>3, <1>4

(***************************************************************************)
(* Results of lookups.                                                     *)
(***************************************************************************)

(* Nobody changes the entry of a key that another thread's result reads.     *)
LEMMA ResultsChange ==
  ASSUME BasicInv, ResultsStayValid, NEW th \in Threads, NEW x \in ThreadState,
         thread' = [thread EXCEPT ![th] = x],
         x.pc \in {"collect", "result"} => \A k \in SetKeys :
           x.locked[k] # NoEntry => key_to_value_set_map_'[k] = x.locked[k],
         \A o \in Threads \ {th}, k \in SetKeys : ReadsKey(o, k) =>
           key_to_value_set_map_'[k] = key_to_value_set_map_[k]
  PROVE  ResultsStayValid'
<1>1. /\ thread'[th] = x
      /\ \A other \in Threads \ {th} : thread'[other] = thread[other]
  BY Zenon, ThreadChange DEF BasicInv
<1> QED BY <1>1 DEF ResultsStayValid, ReadsKey

(* Every step keeps the results valid. *)
LEMMA ResultsStep ==
  ASSUME BasicInv, ResultsStayValid, SetNext
  PROVE  ResultsStayValid'
<1> USE DEF BasicInv
<1>1. PICK th \in Threads : Mutation(th) \/ CleanUp(th) \/ Lookup(th) \/ Continue(th)
  BY DEF SetNext
<1>2. Idle \in ThreadState /\ Idle.pc = "idle"
  BY IdleIsThreadState
<1>3. ASSUME UNCHANGED <<key_to_value_set_map_>>, NEW x \in ThreadState,
             thread' = [thread EXCEPT ![th] = x],
             x.pc \notin {"collect", "result"}
      PROVE  ResultsStayValid'
  BY Zenon, <1>3, ResultsChange
<1>4. CASE Mutation(th)
  <2>1. PICK op \in MutationState : op.pc = "lock_key" /\ StartMutation(th, op)
    BY Zenon, <1>4, NewOperation DEF Mutation
  <2>2. op.key \in SetKeys /\ op \in ThreadState
    BY <2>1 DEF MutationState, ThreadState
  <2>3. CASE UNCHANGED <<key_to_value_set_map_, thread>>
    BY <2>3 DEF ResultsStayValid
  <2>4. CASE key_to_value_set_map_[op.key] = NoEntry /\ UNCHANGED thread
             /\ \A k \in SetKeys \ {op.key} : key_to_value_set_map_'[k] = key_to_value_set_map_[k]
    BY <2>4 DEF ResultsStayValid
  <2>5. CASE UNCHANGED key_to_value_set_map_ /\ thread' = [thread EXCEPT ![th] = op]
    BY Zenon, <1>3, <2>1, <2>2, <2>5
  <2>6. CASE ~TooOld(op) /\ key_to_value_set_map_[op.key] = NoEntry
    BY <2>1, <2>2, <2>4, <2>6 DEF StartMutation, SetTypeOK
  <2> QED BY <2>1, <2>3, <2>5, <2>6 DEF StartMutation
<1>5. CASE CleanUp(th)
  <2>1. PICK time \in SetTimes, prefix \in SetPrefixes : StartCleanUp(th, time, prefix)
    BY <1>5 DEF CleanUp
  <2>2. thread'[th].pc = "clean" /\ \A other \in Threads \ {th} : thread'[other] = thread[other]
    BY <2>1, StartCleanUpTypes
  <2>3. UNCHANGED key_to_value_set_map_
    BY <2>1 DEF StartCleanUp
  <2> QED BY <2>2, <2>3 DEF ResultsStayValid
<1>6. CASE Lookup(th)
  <2>1. PICK key_set \in SUBSET SetKeys : StartLookup(th, key_set)
    BY <1>6 DEF Lookup
  <2>2. PICK x \in ThreadState :
          thread' = [thread EXCEPT ![th] = x] /\ \A k \in SetKeys : x.locked[k] = NoEntry
    BY <2>1, StartLookupFacts
  <2>3. UNCHANGED key_to_value_set_map_
    BY <2>1 DEF StartLookup, setData
  <2> QED BY Zenon, <2>2, <2>3, ResultsChange
<1>7. CASE LockKey(th)
  <2>1. thread' = [thread EXCEPT ![th] = [thread[th] EXCEPT !.pc = "apply"]]
        /\ UNCHANGED key_to_value_set_map_
    BY <1>7 DEF LockKey, setData
  <2>2. [thread[th] EXCEPT !.pc = "apply"] \in MutationState
    <3>1. thread[th] \in MutationState
      BY <1>7, ThreadStates DEF SetTypeOK, LockKey
    <3> QED BY <3>1 DEF MutationState
  <2>3. [thread[th] EXCEPT !.pc = "apply"].pc = "apply"
        /\ [thread[th] EXCEPT !.pc = "apply"] \in ThreadState
    BY <1>7, <2>2, ThreadStates DEF SetTypeOK, LockKey, MutationState, ThreadState
  <2> QED BY Zenon, <1>3, <2>1, <2>3
<1>8. CASE ApplyMutation(th)
  <2>1. /\ thread'[th] \in ThreadState
        /\ thread' = [thread EXCEPT ![th] = thread'[th]]
        /\ thread'[th].pc \in {"idle", "list"}
        /\ thread[th] \in MutationState
    BY Zenon, <1>8, ApplyFacts
  <2>2. HoldsKey(th, thread[th].key) /\ thread[th].key \in SetKeys
    BY <1>8, <2>1 DEF HoldsKey, ApplyMutation, MutationState
  <2>3. \A o \in Threads \ {th} : ~ReadsKey(o, thread[th].key)
    BY <2>2 DEF LockInv
  <2>4. \A k \in SetKeys \ {thread[th].key} : key_to_value_set_map_'[k] = key_to_value_set_map_[k]
    BY <1>8, <2>2 DEF ApplyMutation, SetTypeOK
  <2> QED BY <2>1, <2>3, <2>4, ResultsChange
<1>9. CASE ListDeletedValues(th)
  BY Zenon, <1>2, <1>3, <1>9 DEF ListDeletedValues
<1>10. CASE CleanUpKey(th)
  <2>1. PICK key \in SetKeys :
          /\ CanCleanKey(key)
          /\ \A k \in SetKeys \ {key} : key_to_value_set_map_'[k] = key_to_value_set_map_[k]
          /\ key_to_value_set_map_[key] = NoEntry => key_to_value_set_map_'[key] = NoEntry
          /\ thread'[th] \in CleanUpState /\ thread'[th].pc = "clean"
          /\ thread' = [thread EXCEPT ![th] = thread'[th]]
    BY Zenon, <1>10, CleanUpKeyFacts DEF SetTypeOK
  <2>2. thread'[th] \in ThreadState
    BY <2>1 DEF ThreadState
  <2>3. \A o \in Threads \ {th}, k \in SetKeys : ReadsKey(o, k) =>
          key_to_value_set_map_'[k] = key_to_value_set_map_[k]
    BY <2>1 DEF CanCleanKey, KeyIsFree
  <2> QED BY <2>1, <2>2, <2>3, ResultsChange
<1>11. CASE FinishCleanUp(th)
  BY Zenon, <1>2, <1>3, <1>11 DEF FinishCleanUp
<1>12. CASE CollectKey(th)
  <2>1. PICK x \in ThreadState, key \in SetKeys :
           /\ thread' = [thread EXCEPT ![th] = x]
           /\ thread[th].pc = "collect"
           /\ x.locked[key] = key_to_value_set_map_[key]
           /\ \A k \in SetKeys \ {key} : x.locked[k] = thread[th].locked[k]
    BY <1>12, CollectKeyFacts
  <2>2. UNCHANGED key_to_value_set_map_
    BY <1>12 DEF CollectKey, setData
  <2>3. \A k \in SetKeys : x.locked[k] # NoEntry => key_to_value_set_map_'[k] = x.locked[k]
    BY <2>1, <2>2 DEF ResultsStayValid
  <2> QED BY Zenon, <2>1, <2>2, <2>3, ResultsChange
<1>13. CASE ReturnResult(th)
  <2>1. PICK x \in ThreadState :
           /\ thread' = [thread EXCEPT ![th] = x]
           /\ thread[th].pc = "collect"
           /\ x.locked = thread[th].locked
    BY <1>13, ReturnResultFacts
  <2>2. UNCHANGED key_to_value_set_map_
    BY <1>13 DEF ReturnResult, setData
  <2>3. \A k \in SetKeys : x.locked[k] # NoEntry => key_to_value_set_map_'[k] = x.locked[k]
    BY <2>1, <2>2 DEF ResultsStayValid
  <2> QED BY Zenon, <2>1, <2>2, <2>3, ResultsChange
<1>14. CASE ReleaseResult(th)
  BY Zenon, <1>2, <1>3, <1>14 DEF ReleaseResult, setData
<1> QED BY <1>1, <1>4, <1>5, <1>6, <1>7, <1>8, <1>9, <1>10, <1>11, <1>12, <1>13, <1>14 DEF Continue

(* The steps of a lookup keep BasicInv. *)
LEMMA LookupStepsBasic ==
  ASSUME BasicInv, NEW th \in Threads,
         Lookup(th) \/ CollectKey(th) \/ ReturnResult(th) \/ ReleaseResult(th)
  PROVE  BasicInv'
<1>1. CASE Lookup(th)
  <2>1. PICK key_set \in SUBSET SetKeys : StartLookup(th, key_set)
    BY <1>1 DEF Lookup
  <2>2. PICK x \in ThreadState : /\ thread' = [thread EXCEPT ![th] = x]
                                 /\ x.pc = "collect"
                                 /\ \A k \in SetKeys : x.locked[k] = NoEntry
    BY <2>1, StartLookupFacts
  <2>3. UNCHANGED setData /\ \A o \in Threads : ~HoldsMap(o)
    BY <2>1 DEF StartLookup, MapIsReadable
  <2> QED BY Zenon, <2>2, <2>3, LookupBasic
<1>2. CASE CollectKey(th)
  <2>1. PICK x \in ThreadState, key \in SetKeys :
           /\ thread' = [thread EXCEPT ![th] = x]
           /\ thread[th].pc = "collect" /\ x.pc = "collect"
           /\ key_to_value_set_map_[key] # NoEntry => KeyIsReadable(key)
           /\ x.locked[key] = key_to_value_set_map_[key]
           /\ \A k \in SetKeys \ {key} : x.locked[k] = thread[th].locked[k]
    BY <1>2, CollectKeyFacts
  <2>2. UNCHANGED setData
    BY Zenon, <1>2 DEF CollectKey
  <2>3. \A o \in Threads \ {th} : ~HoldsMap(o)
    BY <2>1 DEF BasicInv, LockInv, ReadsMap
  <2>4. \A k \in SetKeys : x.locked[k] # NoEntry => \A o \in Threads \ {th} : ~HoldsKey(o, k)
    BY <2>1 DEF BasicInv, LockInv, ReadsKey, KeyIsReadable
  <2> QED BY Zenon, <2>1, <2>2, <2>3, <2>4, LookupBasic
<1>3. CASE ReturnResult(th)
  <2>1. PICK x \in ThreadState :
           /\ thread' = [thread EXCEPT ![th] = x]
           /\ thread[th].pc = "collect" /\ x.pc = "result"
           /\ x.locked = thread[th].locked
    BY <1>3, ReturnResultFacts
  <2>2. UNCHANGED setData
    BY <1>3 DEF ReturnResult
  <2>3. \A k \in SetKeys : x.locked[k] # NoEntry => \A o \in Threads \ {th} : ~HoldsKey(o, k)
    BY <2>1 DEF BasicInv, LockInv, ReadsKey
  <2> QED BY Zenon, <2>1, <2>2, <2>3, LookupBasic
<1>4. CASE ReleaseResult(th)
  BY Zenon, <1>4, IdleIsThreadState, LookupBasic DEF ReleaseResult
<1> QED BY <1>1, <1>2, <1>3, <1>4

(* The empty cache satisfies BasicInv. *)
LEMMA BasicInit ==
  SetInit => BasicInv /\ ResultsStayValid
<1> SUFFICES ASSUME SetInit PROVE BasicInv /\ ResultsStayValid
  OBVIOUS
<1>1. \A th \in Threads : thread[th] = Idle /\ thread[th].pc = "idle" /\ thread[th] \in ThreadState
  BY IdleIsThreadState DEF SetInit
<1>2. /\ key_to_value_set_map_ \in [SetKeys -> {NoEntry} \cup (InnerMap \ {NoValues})]
      /\ deleted_set_nodes_map_ \in [SetPrefixes -> SUBSET (SetTimes \X SetKeys \X SetValues)]
      /\ set_cache_max_cleanup_logical_commit_time_ \in [SetPrefixes -> SetTimes]
  BY SetConstantsAssumption DEF SetInit
<1>3. thread \in [Threads -> ThreadState]
  BY <1>1 DEF SetInit
<1>4. newest_in_set \in [SetKeys -> [SetValues -> SetValueMeta]]
  <2>1. [last_logical_commit_time |-> 0, is_deleted |-> TRUE] \in SetValueMeta
    BY SetConstantsAssumption DEF SetValueMeta
  <2> QED BY <2>1 DEF SetInit
<1>5. SetTypeOK
  BY <1>2, <1>3, <1>4 DEF SetTypeOK
<1>6. OperationInv
  BY <1>1 DEF OperationInv, SetInit, SetCutoff
<1>7. LockInv /\ EntryInv /\ CleanInv /\ ResultsStayValid
  BY <1>1 DEF LockInv, EntryInv, CleanInv, ResultsStayValid, HoldsMap, ReadsMap, HoldsKey, ReadsKey
<1> QED BY <1>5, <1>6, <1>7 DEF BasicInv

(* Every step keeps BasicInv. *)
LEMMA BasicStep ==
  BasicInv /\ [SetNext]_setVars => BasicInv'
<1> SUFFICES ASSUME BasicInv, [SetNext]_setVars PROVE BasicInv'
  OBVIOUS
<1>1. CASE SetNext
  <2>1. PICK th \in Threads : Mutation(th) \/ CleanUp(th) \/ Lookup(th) \/ Continue(th)
    BY <1>1 DEF SetNext
  <2>2. CASE Mutation(th)
    <3>1. PICK op \in MutationState :
            op.pc = "lock_key" /\ <<op.key, op.prefix>> \in SetRoutes /\ StartMutation(th, op)
      BY ZenonT(30), <2>2, NewOperation DEF Mutation
    <3> QED BY <3>1, StartMutationBasic
  <2>3. CASE CleanUp(th)
    BY <2>3, StartCleanUpBasic DEF CleanUp
  <2> QED
    BY <2>1, <2>2, <2>3, LookupStepsBasic, LockKeyBasic, ApplyBasic, ListBasic, CleanUpKeyBasic,
       FinishCleanUpBasic DEF Continue
<1>2. CASE UNCHANGED setVars
  <2>1. UNCHANGED <<key_to_value_set_map_, deleted_set_nodes_map_,
                    set_cache_max_cleanup_logical_commit_time_, newest_in_set, thread>>
    BY <1>2 DEF setVars, setData
  <2> QED BY <2>1 DEF BasicInv, SetTypeOK, OperationInv, LockInv, EntryInv, CleanInv,
                      HoldsMap, ReadsMap, HoldsKey, ReadsKey, SetCutoff
<1> QED BY <1>1, <1>2

(* SetTypeOK for every number of threads, keys and values: in particular no  *)
(* entry of the map is ever empty.                                           *)
THEOREM SetTypesHold == SetSpec => []SetTypeOK
<1>1. BasicInv => SetTypeOK
  BY DEF BasicInv
<1> QED BY <1>1, BasicInit, BasicStep, PTL DEF SetSpec

(* ResultsStayValid: GetKeyValueSet hands out references into the map, and   *)
(* no step of any thread changes an inner map while a result refers to it.   *)
THEOREM ResultsAlwaysStayValid == SetSpec => []ResultsStayValid
<1>1. BasicInv /\ ResultsStayValid /\ [SetNext]_setVars => ResultsStayValid'
  <2>1. ResultsStayValid /\ UNCHANGED setVars => ResultsStayValid'
    BY DEF ResultsStayValid, setVars, setData
  <2> QED BY <2>1, ResultsStep
<1> QED BY <1>1, BasicInit, BasicStep, PTL DEF SetSpec
=============================================================================
