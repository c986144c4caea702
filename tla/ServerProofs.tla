---------------------------- MODULE ServerProofs ----------------------------
(* Proofs about the key-value cache of a server, KeyValueCache, for all keys, *)
(* values, prefixes and commit times, and about its life, ServerLifecycle, for *)
(* fleets of any size, any number of shards and any number of faults.         *)
EXTENDS KeyValueCache, ServerLifecycle, TLAPS

-----------------------------------------------------------------------------
(* The operations keep the types of the four variables: the cutoff stays a   *)
(* commit time and no count of the multimap falls below zero.                *)
LEMMA TypeInvariantStep == TypeOK /\ [Next]_vars => TypeOK'
<1> SUFFICES ASSUME TypeOK, [Next]_vars PROVE TypeOK'
  OBVIOUS
<1> USE ConstantsAssumption
<1>1. ASSUME NEW r \in Routes, NEW v \in Values, NEW t \in Times,
             UpdateKeyValue(r[1], v, t, r[2])
      PROVE  TypeOK'
  <2> DEFINE key == r[1]
             prefix == r[2]
  <2>1. key \in Keys /\ prefix \in Prefixes
    OBVIOUS
  <2>2. [value |-> v, last_logical_commit_time |-> t] \in CacheValue
    BY DEF CacheValue
  <2>3. newest' \in [Keys -> CacheValue]
    BY <1>1, <2>1, <2>2 DEF UpdateKeyValue, Observe, TypeOK
  <2>4. map_' \in [Keys -> CacheValue \cup {Missing}]
    BY <1>1, <2>1, <2>2 DEF UpdateKeyValue, TypeOK
  <2>5. deleted_nodes_map_' \in [Prefixes -> [Times \X Keys -> Nat]]
    <3>1. CASE IsTombstone(key) /\ EraseDeletedNode(key, prefix)
      <4> DEFINE time == map_[key].last_logical_commit_time
      <4>1. time \in Times
        BY <3>1, <2>1 DEF TypeOK, IsTombstone, CacheValue
      <4>2. <<time, key>> \in Times \X Keys
        BY <4>1, <2>1
      <4>3. CASE /\ deleted_nodes_map_[prefix][<<time, key>>] > 0
                 /\ deleted_nodes_map_' =
                      [deleted_nodes_map_ EXCEPT ![prefix][<<time, key>>] = @ - 1]
        <5>1. deleted_nodes_map_[prefix][<<time, key>>] - 1 \in Nat
          BY <4>2, <4>3, <2>1 DEF TypeOK
        <5> QED BY Zenon, <5>1, <4>2, <4>3, <2>1 DEF TypeOK
      <4>4. CASE UNCHANGED deleted_nodes_map_
        BY Zenon, <4>4 DEF TypeOK
      <4> QED BY Zenon, <3>1, <4>3, <4>4 DEF EraseDeletedNode
    <3>2. CASE UNCHANGED deleted_nodes_map_
      BY Zenon, <3>2 DEF TypeOK
    <3> QED BY Zenon, <1>1, <3>1, <3>2 DEF UpdateKeyValue
  <2> QED BY Zenon, <1>1, <2>3, <2>4, <2>5 DEF UpdateKeyValue, TypeOK
<1>2. ASSUME NEW r \in Routes, NEW t \in Times, DeleteKey(r[1], t, r[2])
      PROVE  TypeOK'
  <2>1. r[1] \in Keys /\ r[2] \in Prefixes /\ <<t, r[1]>> \in Times \X Keys
    OBVIOUS
  <2>2. [value |-> Null, last_logical_commit_time |-> t] \in CacheValue
    BY DEF CacheValue
  <2>3. newest' \in [Keys -> CacheValue]
    BY <1>2, <2>1, <2>2 DEF DeleteKey, Observe, TypeOK
  <2>4. map_' \in [Keys -> CacheValue \cup {Missing}]
    BY <1>2, <2>1, <2>2 DEF DeleteKey, TypeOK
  <2>5. deleted_nodes_map_' \in [Prefixes -> [Times \X Keys -> Nat]]
    <3>1. deleted_nodes_map_[r[2]][<<t, r[1]>>] + 1 \in Nat
      BY <2>1 DEF TypeOK
    <3>2. CASE EmplaceDeletedNode(r[1], t, r[2])
      BY Zenon, <3>1, <3>2, <2>1 DEF EmplaceDeletedNode, TypeOK
    <3>3. CASE UNCHANGED deleted_nodes_map_
      BY Zenon, <3>3 DEF TypeOK
    <3> QED BY Zenon, <1>2, <3>2, <3>3 DEF DeleteKey
  <2> QED BY Zenon, <1>2, <2>3, <2>4, <2>5 DEF DeleteKey, TypeOK
<1>3. ASSUME NEW p \in Prefixes, NEW t \in Times, CleanUpKeyValueMap(t, p)
      PROVE  TypeOK'
  BY <1>3 DEF CleanUpKeyValueMap, TypeOK
<1>4. CASE UNCHANGED vars
  BY Zenon, <1>4 DEF vars, TypeOK
<1> QED BY <1>1, <1>2, <1>3, <1>4 DEF Next

(* Type correctness of the cache in every reachable state. *)
THEOREM TypeCorrectness == Spec => []TypeOK
<1>1. Init => TypeOK
  BY ConstantsAssumption DEF Init, TypeOK, CacheValue
<1> QED BY <1>1, TypeInvariantStep, PTL DEF Spec

-----------------------------------------------------------------------------
(* The cutoffs never decrease: a mutation once too old stays too old. *)
LEMMA CutoffsGrow ==
  ASSUME TypeOK, [Next]_vars, NEW p \in Prefixes
  PROVE  Cutoff(p) <= Cutoff(p)'
<1> USE ConstantsAssumption DEF Cutoff
<1>0. max_cleanup_logical_commit_time_map_[p] \in Int
  BY Zenon DEF TypeOK
<1>1. ASSUME NEW q \in Prefixes, NEW t \in Times, CleanUpKeyValueMap(t, q)
      PROVE  Cutoff(p) <= Cutoff(p)'
  <2>1. CASE p = q
    BY <1>0, <1>1, <2>1 DEF CleanUpKeyValueMap, TypeOK
  <2>2. CASE p # q
    BY <1>0, <1>1, <2>2 DEF CleanUpKeyValueMap, TypeOK
  <2> QED BY <2>1, <2>2
<1>2. CASE UNCHANGED max_cleanup_logical_commit_time_map_
  BY <1>0, <1>2
<1> QED BY Zenon, <1>1, <1>2 DEF Next, UpdateKeyValue, DeleteKey, vars

-----------------------------------------------------------------------------
(* The strengthening behind NewestMutationWins.  A key that has an entry has *)
(* exactly the newest mutation.  A key without one was never set, or was     *)
(* deleted and then cleaned up; its newest time is then covered by the       *)
(* cutoff, which is what keeps later, older updates out.                     *)
EntryIsNewest(k) ==
  IF map_[k] = Missing
    THEN /\ newest[k].value = Null
         /\ \A p \in Prefixes : <<k, p>> \in Routes =>
              newest[k].last_logical_commit_time <= Cutoff(p)
    ELSE map_[k] = newest[k]

(* A multimap entry of a prefix belongs to a key that arrives through it. *)
NodesFollowRoutes ==
  \A p \in Prefixes, t \in Times, k \in Keys :
    deleted_nodes_map_[p][<<t, k>>] > 0 => <<k, p>> \in Routes

NewestInv ==
  /\ TypeOK
  /\ \A k \in Keys : OnePrefix(k) => EntryIsNewest(k)
  /\ NodesFollowRoutes

(* One mutation that Observe records and the cache then applies or skips     *)
(* leaves the key's entry equal to its newest mutation.                      *)
LEMMA MutationKeepsNewest ==
  ASSUME NewestInv,
         NEW key \in Keys, NEW prefix \in Prefixes, <<key, prefix>> \in Routes,
         NEW value \in Values \cup {Null}, NEW t \in Times,
         Observe(key, value, t, prefix),
         \/ SkipsMutation(key, t, prefix) /\ UNCHANGED map_
         \/ /\ ~SkipsMutation(key, t, prefix)
            /\ map_' = [map_ EXCEPT ![key] =
                          [value |-> value, last_logical_commit_time |-> t]],
         UNCHANGED max_cleanup_logical_commit_time_map_,
         NEW k \in Keys, OnePrefix(k)
  PROVE  EntryIsNewest(k)'
<1> DEFINE m == [value |-> value, last_logical_commit_time |-> t]
<1>1. /\ t \in Int
      /\ Cutoff(prefix) \in Int
      /\ newest[key].last_logical_commit_time \in Int
      /\ m \in CacheValue
      /\ EntryIsNewest(k)
  BY Zenon, ConstantsAssumption DEF NewestInv, TypeOK, CacheValue, Cutoff
<1>2. CASE k # key
  <2>1. map_'[k] = map_[k] /\ newest'[k] = newest[k]
    BY <1>2 DEF Observe, NewestInv, TypeOK
  <2> QED BY <2>1, <1>1 DEF EntryIsNewest, Cutoff
<1>3. CASE k = key /\ SkipsMutation(key, t, prefix)
  <2>1. newest' = newest
    BY <1>1, <1>3 DEF Observe, SkipsMutation, EntryIsNewest
  <2> QED BY <2>1, <1>1, <1>3 DEF EntryIsNewest, Cutoff
<1>4. CASE k = key /\ ~SkipsMutation(key, t, prefix)
  <2>1. t > Cutoff(prefix) /\ t > newest[key].last_logical_commit_time
    BY <1>1, <1>4 DEF SkipsMutation, EntryIsNewest
  <2>2. newest'[key] = m
    BY <2>1 DEF Observe, NewestInv, TypeOK
  <2>3. map_'[key] = m
    BY <1>4 DEF NewestInv, TypeOK
  <2>4. m # Missing
    BY <1>1, ConstantsAssumption
  <2> QED BY <2>2, <2>3, <2>4, <1>4 DEF EntryIsNewest
<1> QED BY <1>2, <1>3, <1>4

(* A multimap count only grows in DeleteKey, at the key and prefix of the    *)
(* deletion.                                                                 *)
LEMMA NodesFollowRoutesStep ==
  TypeOK /\ NodesFollowRoutes /\ [Next]_vars => NodesFollowRoutes'
<1> SUFFICES ASSUME TypeOK, NodesFollowRoutes, [Next]_vars,
                    NEW p \in Prefixes, NEW s \in Times, NEW k \in Keys,
                    deleted_nodes_map_'[p][<<s, k>>] > 0
             PROVE  <<k, p>> \in Routes
  BY DEF NodesFollowRoutes
<1> DEFINE count == deleted_nodes_map_[p][<<s, k>>]
<1>0. count \in Nat /\ (count > 0 => <<k, p>> \in Routes)
  BY DEF TypeOK, NodesFollowRoutes
<1>1. ASSUME NEW r \in Routes, NEW v \in Values, NEW t \in Times,
             UpdateKeyValue(r[1], v, t, r[2])
      PROVE  <<k, p>> \in Routes
  <2>1. CASE UNCHANGED deleted_nodes_map_
    BY <1>0, <2>1
  <2>2. ASSUME NEW e \in Times \X Keys,
               deleted_nodes_map_' = [deleted_nodes_map_ EXCEPT ![r[2]][e] = @ - 1]
        PROVE  <<k, p>> \in Routes
    <3>1. deleted_nodes_map_'[p][<<s, k>>] \in {count, count - 1}
      BY Zenon, <2>2 DEF TypeOK
    <3> QED BY <3>1, <1>0
  <2>3. CASE IsTombstone(r[1]) /\ EraseDeletedNode(r[1], r[2])
    <3>1. <<map_[r[1]].last_logical_commit_time, r[1]>> \in Times \X Keys
      BY <2>3, ConstantsAssumption DEF TypeOK, IsTombstone, CacheValue
    <3> QED BY <3>1, <2>1, <2>2, <2>3 DEF EraseDeletedNode
  <2> QED BY <1>1, <2>1, <2>3 DEF UpdateKeyValue
<1>2. ASSUME NEW r \in Routes, NEW t \in Times, DeleteKey(r[1], t, r[2])
      PROVE  <<k, p>> \in Routes
  <2>1. CASE UNCHANGED deleted_nodes_map_
    BY <1>0, <2>1
  <2>2. CASE EmplaceDeletedNode(r[1], t, r[2])
    <3>1. r = <<r[1], r[2]>>
      BY ConstantsAssumption
    <3>2. CASE p = r[2] /\ k = r[1]
      BY <3>1, <3>2
    <3>3. CASE ~(p = r[2] /\ k = r[1])
      <4>1. deleted_nodes_map_'[p][<<s, k>>] = count
        BY <2>2, <3>3 DEF EmplaceDeletedNode, TypeOK
      <4> QED BY <4>1, <1>0
    <3> QED BY <3>2, <3>3
  <2> QED BY <1>2, <2>1, <2>2 DEF DeleteKey
<1>3. ASSUME NEW q \in Prefixes, NEW t \in Times, CleanUpKeyValueMap(t, q)
      PROVE  <<k, p>> \in Routes
  <2>1. deleted_nodes_map_'[p][<<s, k>>] \in {count, 0}
    BY <1>3 DEF CleanUpKeyValueMap, TypeOK
  <2> QED BY <2>1, <1>0
<1>4. CASE UNCHANGED vars
  BY <1>0, <1>4 DEF vars
<1> QED BY <1>1, <1>2, <1>3, <1>4 DEF Next

-----------------------------------------------------------------------------
(* NewestInv is inductive.  It speaks of keys that arrive through one prefix: *)
(* in the cleanup step the tombstone it removes must be covered by the cutoff *)
(* it raises.                                                                 *)
LEMMA NewestInvStep == NewestInv /\ [Next]_vars => NewestInv'
<1> SUFFICES ASSUME NewestInv, [Next]_vars PROVE NewestInv'
  OBVIOUS
<1>1. TypeOK' /\ NodesFollowRoutes'
  BY TypeInvariantStep, NodesFollowRoutesStep DEF NewestInv
<1>2. ASSUME NEW k \in Keys, OnePrefix(k) PROVE EntryIsNewest(k)'
  <2>1. ASSUME NEW r \in Routes, NEW v \in Values, NEW t \in Times,
               UpdateKeyValue(r[1], v, t, r[2])
        PROVE  EntryIsNewest(k)'
    <3>1. r[1] \in Keys /\ r[2] \in Prefixes /\ <<r[1], r[2]>> \in Routes
      BY ConstantsAssumption
    <3> QED BY <1>2, <2>1, <3>1, MutationKeepsNewest DEF UpdateKeyValue
  <2>2. ASSUME NEW r \in Routes, NEW t \in Times, DeleteKey(r[1], t, r[2])
        PROVE  EntryIsNewest(k)'
    <3>1. r[1] \in Keys /\ r[2] \in Prefixes /\ <<r[1], r[2]>> \in Routes
      BY ConstantsAssumption
    <3> QED BY <1>2, <2>2, <3>1, MutationKeepsNewest DEF DeleteKey
  <2>3. ASSUME NEW q \in Prefixes, NEW t \in Times, CleanUpKeyValueMap(t, q)
        PROVE  EntryIsNewest(k)'
    <3>1. EntryIsNewest(k) /\ newest' = newest
      BY <1>2, <2>3 DEF NewestInv, CleanUpKeyValueMap
    <3>2. newest[k].last_logical_commit_time \in Int
      BY Zenon, ConstantsAssumption DEF NewestInv, TypeOK, CacheValue
    <3>3. CASE map_'[k] = map_[k]
      <4>1. CASE map_[k] # Missing
        BY <3>1, <3>3, <4>1 DEF EntryIsNewest
      <4>2. CASE map_[k] = Missing
        <5>1. ASSUME NEW p \in Prefixes, <<k, p>> \in Routes
              PROVE  newest'[k].last_logical_commit_time <= Cutoff(p)'
          <6>1. newest[k].last_logical_commit_time <= Cutoff(p)
            BY <3>1, <4>2, <5>1 DEF EntryIsNewest
          <6>2. Cutoff(p) <= Cutoff(p)'
            BY CutoffsGrow DEF NewestInv
          <6>3. Cutoff(p) \in Int /\ Cutoff(p)' \in Int
            BY Zenon, <1>1, ConstantsAssumption DEF NewestInv, TypeOK, Cutoff
          <6> QED BY <3>1, <3>2, <6>1, <6>2, <6>3
        <5> QED BY <3>1, <3>3, <4>2, <5>1 DEF EntryIsNewest
      <4> QED BY <4>1, <4>2
    <3>4. CASE map_'[k] # map_[k]
      <4>1. /\ map_'[k] = Missing
            /\ Reclaimed(k, t)
            /\ \E s \in Times : deleted_nodes_map_[q][<<s, k>>] > 0
        BY Zenon, <2>3, <3>4 DEF CleanUpKeyValueMap, NewestInv, TypeOK
      <4>2. <<k, q>> \in Routes
        BY <4>1 DEF NewestInv, NodesFollowRoutes
      <4>3. /\ newest[k].value = Null
            /\ newest[k].last_logical_commit_time <= t
        BY <3>1, <4>1 DEF EntryIsNewest, Reclaimed, IsTombstone
      <4>4. t <= Cutoff(q)'
        <5>1. t \in Int /\ Cutoff(q) \in Int
          BY Zenon, ConstantsAssumption DEF NewestInv, TypeOK, Cutoff
        <5>2. Cutoff(q)' = IF Cutoff(q) < t THEN t ELSE Cutoff(q)
          BY <2>3 DEF CleanUpKeyValueMap, Cutoff, NewestInv, TypeOK
        <5> QED BY <5>1, <5>2
      <4>5. newest[k].last_logical_commit_time <= Cutoff(q)'
        <5>1. t \in Int /\ Cutoff(q)' \in Int
          BY Zenon, <1>1, ConstantsAssumption DEF TypeOK, Cutoff
        <5> QED BY <3>2, <4>3, <4>4, <5>1
      <4>6. ASSUME NEW p \in Prefixes, <<k, p>> \in Routes PROVE p = q
        BY <1>2, <4>2, <4>6 DEF OnePrefix
      <4> QED BY <3>1, <4>1, <4>3, <4>5, <4>6 DEF EntryIsNewest
    <3> QED BY <3>3, <3>4
  <2>4. CASE UNCHANGED vars
    BY <1>2, <2>4 DEF vars, NewestInv, EntryIsNewest, Cutoff
  <2> QED BY <2>1, <2>2, <2>3, <2>4 DEF Next
<1>3. ASSUME NEW k \in Keys PROVE OnePrefix(k)' <=> OnePrefix(k)
  BY DEF OnePrefix
<1> QED BY <1>1, <1>2, <1>3 DEF NewestInv

(* Newest mutation wins: GetKeyValuePairs returns the newest mutation above  *)
(* the cutoffs of every key that arrives through one prefix, in any order of *)
(* arrival and after any number of cleanups of any prefix.                   *)
THEOREM NewestMutationAlwaysWins == Spec => []NewestMutationWins
<1>1. Init => NewestInv
  <2> SUFFICES ASSUME Init PROVE NewestInv
    OBVIOUS
  <2>1. TypeOK
    BY ConstantsAssumption DEF Init, TypeOK, CacheValue
  <2>2. NodesFollowRoutes
    BY DEF Init, NodesFollowRoutes
  <2>3. ASSUME NEW k \in Keys PROVE EntryIsNewest(k)
    <3>1. /\ map_[k] = Missing
          /\ newest[k].value = Null
          /\ newest[k].last_logical_commit_time = 0
      BY DEF Init
    <3>2. \A p \in Prefixes : Cutoff(p) = 0
      BY DEF Init, Cutoff
    <3> QED BY <3>1, <3>2 DEF EntryIsNewest
  <2> QED BY <2>1, <2>2, <2>3 DEF NewestInv
<1>2. NewestInv /\ [Next]_vars => NewestInv'
  BY NewestInvStep
<1>3. NewestInv => NewestMutationWins
  BY DEF NewestInv, EntryIsNewest, NewestMutationWins, GetKeyValue
<1> QED BY <1>1, <1>2, <1>3, PTL DEF Spec

-----------------------------------------------------------------------------
(* No tombstone leaks: whatever the routes, every tombstone is listed at its *)
(* own time for a later cleanup.                                             *)
THEOREM TombstonesAreAlwaysListed == Spec => []TombstonesAreListed
<1>1. Init => TombstonesAreListed
  BY DEF Init, TombstonesAreListed, IsTombstone
<1>2. TypeOK /\ TombstonesAreListed /\ [Next]_vars => TombstonesAreListed'
  <2> SUFFICES ASSUME TypeOK, TombstonesAreListed, [Next]_vars,
                      NEW k \in Keys, IsTombstone(k)'
               PROVE  \E p \in Prefixes :
                        deleted_nodes_map_'[p][<<map_'[k].last_logical_commit_time, k>>] > 0
    BY Zenon DEF TombstonesAreListed
  <2> DEFINE Listed(p, t) == deleted_nodes_map_[p][<<t, k>>] > 0
             time == map_[k].last_logical_commit_time
  <2>0. ASSUME map_'[k] = map_[k]
        PROVE  time \in Times /\ \E p \in Prefixes : Listed(p, time)
    <3>1. IsTombstone(k)
      BY <2>0 DEF IsTombstone
    <3> QED BY <3>1 DEF TombstonesAreListed, TypeOK, IsTombstone, CacheValue
  <2>1. ASSUME NEW r \in Routes, NEW v \in Values, NEW t \in Times,
               UpdateKeyValue(r[1], v, t, r[2])
        PROVE  \E p \in Prefixes : Listed(p, time)' /\ map_'[k] = map_[k]
    <3>1. r[1] \in Keys /\ r[2] \in Prefixes
      BY ConstantsAssumption
    <3>2. map_'[k] = map_[k] /\ (k = r[1] => UNCHANGED deleted_nodes_map_)
      <4>1. CASE UNCHANGED <<map_, deleted_nodes_map_>>
        BY <4>1
      <4>2. CASE map_' = [map_ EXCEPT ![r[1]] =
                           [value |-> v, last_logical_commit_time |-> t]]
        <5>1. k # r[1]
          <6> SUFFICES ASSUME k = r[1] PROVE FALSE
            OBVIOUS
          <6>1. map_'[k].value = v
            BY <4>2 DEF TypeOK
          <6> QED BY <6>1, ConstantsAssumption DEF IsTombstone
        <5> QED BY <4>2, <5>1 DEF TypeOK
      <4> QED BY <2>1, <4>1, <4>2 DEF UpdateKeyValue
    <3>3. PICK p \in Prefixes : Listed(p, time)
      BY <2>0, <3>2
    <3>4. deleted_nodes_map_'[p][<<time, k>>] = deleted_nodes_map_[p][<<time, k>>]
      <4>1. CASE UNCHANGED deleted_nodes_map_
        BY <4>1
      <4>2. CASE k # r[1] /\ IsTombstone(r[1]) /\ EraseDeletedNode(r[1], r[2])
        <5>1. map_[r[1]].last_logical_commit_time \in Times /\ time \in Times
          BY <4>2, <3>1, <3>2, <2>0 DEF TypeOK, IsTombstone, CacheValue
        <5> QED BY <4>2, <5>1, <3>1 DEF EraseDeletedNode, TypeOK
      <4> QED BY <2>1, <3>2, <4>1, <4>2 DEF UpdateKeyValue
    <3> QED BY <3>2, <3>3, <3>4
  <2>2. ASSUME NEW r \in Routes, NEW t \in Times, DeleteKey(r[1], t, r[2])
        PROVE  \E p \in Prefixes :
                 deleted_nodes_map_'[p][<<map_'[k].last_logical_commit_time, k>>] > 0
    <3>1. r[1] \in Keys /\ r[2] \in Prefixes
      BY ConstantsAssumption
    <3>2. CASE UNCHANGED <<map_, deleted_nodes_map_>>
      BY <3>2, <2>0
    <3>3. CASE /\ map_' = [map_ EXCEPT ![r[1]] =
                            [value |-> Null, last_logical_commit_time |-> t]]
               /\ EmplaceDeletedNode(r[1], t, r[2])
      <4>1. CASE k = r[1]
        <5>1. map_'[k].last_logical_commit_time = t
          BY <3>3, <4>1 DEF TypeOK
        <5>2. /\ deleted_nodes_map_[r[2]][<<t, k>>] \in Nat
              /\ deleted_nodes_map_'[r[2]][<<t, k>>]
                    = deleted_nodes_map_[r[2]][<<t, k>>] + 1
          BY <3>1, <3>3, <4>1 DEF EmplaceDeletedNode, TypeOK
        <5> QED BY <3>1, <5>1, <5>2
      <4>2. CASE k # r[1]
        <5>1. map_'[k] = map_[k]
          BY <3>3, <4>2 DEF TypeOK
        <5>2. PICK p \in Prefixes : Listed(p, time)
          BY <2>0, <5>1
        <5>3. deleted_nodes_map_'[p][<<time, k>>] = deleted_nodes_map_[p][<<time, k>>]
          BY <2>0, <3>3, <4>2, <5>1 DEF EmplaceDeletedNode, TypeOK
        <5> QED BY <5>1, <5>2, <5>3
      <4> QED BY <4>1, <4>2
    <3> QED BY <2>2, <3>2, <3>3 DEF DeleteKey
  <2>3. ASSUME NEW q \in Prefixes, NEW t \in Times, CleanUpKeyValueMap(t, q)
        PROVE  \E p \in Prefixes :
                 deleted_nodes_map_'[p][<<map_'[k].last_logical_commit_time, k>>] > 0
    <3>1. map_'[k] = map_[k]
      BY <2>3 DEF CleanUpKeyValueMap, IsTombstone, TypeOK
    <3>2. PICK p \in Prefixes : Listed(p, time)
      BY <2>0, <3>1
    <3>3. p = q => ~(time <= t)
      <4> SUFFICES ASSUME p = q, time <= t PROVE FALSE
        OBVIOUS
      <4>1. Reclaimed(k, t)
        BY <3>1 DEF Reclaimed, IsTombstone
      <4>2. map_'[k] = Missing
        BY SMTT(30), <2>0, <2>3, <3>1, <3>2, <4>1 DEF CleanUpKeyValueMap
      <4> QED BY <4>2 DEF IsTombstone
    <3>4. deleted_nodes_map_'[p][<<time, k>>] = deleted_nodes_map_[p][<<time, k>>]
      BY <2>0, <2>3, <3>1, <3>3 DEF CleanUpKeyValueMap, TypeOK
    <3> QED BY <3>1, <3>2, <3>4
  <2>4. CASE UNCHANGED vars
    BY <2>0, <2>4 DEF vars
  <2> QED BY <2>1, <2>2, <2>3, <2>4 DEF Next
<1> QED BY <1>1, <1>2, TypeCorrectness, PTL DEF Spec

(* Cleaning up is invisible to readers of every key. *)
THEOREM CleanUpIsAlwaysInvisible == Spec => CleanUpIsInvisible
<1>1. ASSUME TypeOK, NEW p \in Prefixes, NEW t \in Times, CleanUpKeyValueMap(t, p),
             NEW k \in Keys
      PROVE  GetKeyValue(k)' = GetKeyValue(k)
  <2>1. map_'[k] = map_[k] \/ (map_'[k] = Missing /\ Reclaimed(k, t))
    BY <1>1 DEF CleanUpKeyValueMap
  <2> QED BY <2>1 DEF GetKeyValue, Reclaimed, IsTombstone
<1>2. TypeOK =>
        [(\E p \in Prefixes, t \in Times : CleanUpKeyValueMap(t, p))
           => \A k \in Keys : GetKeyValue(k)' = GetKeyValue(k)]_vars
  BY <1>1
<1> QED BY <1>2, TypeCorrectness, PTL DEF Spec, CleanUpIsInvisible
-----------------------------------------------------------------------------
(* The stages between two points of Server::Init and of the destruction.     *)
FromUdf == {"default_udf", "listening", "notified", "loaded", "started", "healthy", "hooked", "ready", "waiting"}
FromListening == FromUdf \ {"default_udf"}
FromLoaded == FromListening \ {"listening", "notified"}
FromStarted == FromLoaded \ {"loaded"}
FromHooked == FromStarted \ {"started", "healthy"}
Stopped == {"forced", "destroying", "udf_destroyed", "orchestrator_destroyed"}

(* What Init has done is kept until the shutdown begins; the load balancer   *)
(* is told to send requests only at the end of it.                           *)
InitInv ==
  \A s \in Servers :
    /\ stage[s] \in FromUdf => "udf" \in done[s]
    /\ stage[s] \in FromListening /\ num_shards > 1 => "remote" \in done[s]
    /\ stage[s] \in FromLoaded => "data" \in done[s]
    /\ stage[s] \in FromStarted => {"notifier", "loader", "realtime"} \subseteq threads[s]
    /\ stage[s] \in FromHooked => "hooks" \in done[s] /\ (num_shards > 1 => "mappings" \in threads[s])
    /\ health[s] = "serving" => stage[s] \in {"ready", "waiting"}

(* The notifiers have ended when the members are destroyed.                  *)
ShutdownInv ==
  \A s \in Servers : stage[s] \in Stopped => threads[s] \cap {"notifier", "realtime"} = {}

LifecycleInv == LifecycleTypeOK /\ InitInv /\ InServiceHasData /\ ShutdownInv /\ CallbacksHaveTheirOwner

(* A step of one instance leaves the others alone.                           *)
OthersKeep(s) ==
  /\ num_shards' = num_shards
  /\ \A t \in Servers \ {s} :
       /\ stage'[t] = stage[t] /\ done'[t] = done[t] /\ threads'[t] = threads[t]
       /\ health'[t] = health[t] /\ service'[t] = service[t]

(* What the invariant says is to be shown for the instance's new state alone. *)
LEMMA OneInstance ==
  ASSUME LifecycleInv, NEW s \in Servers, OthersKeep(s), LifecycleTypeOK',
         stage'[s] \in FromUdf => "udf" \in done'[s],
         stage'[s] \in FromListening /\ num_shards > 1 => "remote" \in done'[s],
         stage'[s] \in FromLoaded => "data" \in done'[s],
         stage'[s] \in FromStarted => {"notifier", "loader", "realtime"} \subseteq threads'[s],
         stage'[s] \in FromHooked => "hooks" \in done'[s] /\ (num_shards > 1 => "mappings" \in threads'[s]),
         health'[s] = "serving" => stage'[s] \in {"ready", "waiting"},
         service'[s] = "in" /\ stage'[s] # "aborted" => "data" \in done'[s],
         stage'[s] \in Stopped => threads'[s] \cap {"notifier", "realtime"} = {},
         stage'[s] = "orchestrator_destroyed" => "loader" \notin threads'[s]
  PROVE  LifecycleInv'
<1>1. LifecycleTypeOK /\ InitInv /\ InServiceHasData /\ ShutdownInv /\ CallbacksHaveTheirOwner
  BY DEF LifecycleInv
<1>2. InitInv'
  <2>1. ASSUME NEW t \in Servers
        PROVE  /\ stage'[t] \in FromUdf => "udf" \in done'[t]
               /\ stage'[t] \in FromListening /\ num_shards' > 1 => "remote" \in done'[t]
               /\ stage'[t] \in FromLoaded => "data" \in done'[t]
               /\ stage'[t] \in FromStarted => {"notifier", "loader", "realtime"} \subseteq threads'[t]
               /\ stage'[t] \in FromHooked => "hooks" \in done'[t] /\ (num_shards' > 1 => "mappings" \in threads'[t])
               /\ health'[t] = "serving" => stage'[t] \in {"ready", "waiting"}
    <3>1. CASE t = s
      BY <3>1 DEF OthersKeep
    <3>2. CASE t # s
      BY <1>1, <3>2 DEF InitInv, OthersKeep
    <3> QED BY <3>1, <3>2
  <2> QED BY <2>1 DEF InitInv
<1>3. InServiceHasData'
  BY <1>1 DEF InServiceHasData, OthersKeep
<1>4. ShutdownInv'
  BY <1>1 DEF ShutdownInv, OthersKeep
<1>5. CallbacksHaveTheirOwner'
  <2>1. stage'[s] = "orchestrator_destroyed" => threads'[s] \cap {"notifier", "loader", "realtime"} = {}
    BY DEF Stopped
  <2> QED BY <1>1, <2>1 DEF CallbacksHaveTheirOwner, OthersKeep
<1> QED BY <1>2, <1>3, <1>4, <1>5 DEF LifecycleInv

(* A fault keeps to its bound.                                               *)
LEMMA FaultType == LifecycleTypeOK /\ Fault => faults' \in 0..MaxFaults
BY LifecycleAssumption DEF Fault, LifecycleTypeOK

(* Server::Init, as far as it fails or goes on.                              *)
LEMMA InitSteps ==
  ASSUME LifecycleInv, NEW s \in Servers,
         \/ CreateDefaultInstances(s) \/ StartHeartbeat(s) \/ SetDefaultUdfCodeObject(s)
         \/ StartServers(s) \/ CreateNotifiers(s) \/ CreateDataOrchestrator(s)
         \/ StartDataOrchestrator(s)
  PROVE  LifecycleInv'
<1>0. LifecycleTypeOK
  BY DEF LifecycleInv
<1> DEFINE Early == {"boot", "created", "beating", "default_udf", "listening", "notified", "loaded"}
<1>1. /\ stage[s] \in FromUdf => "udf" \in done[s]
      /\ stage[s] \in FromListening /\ num_shards > 1 => "remote" \in done[s]
      /\ stage[s] \in FromLoaded => "data" \in done[s]
      /\ health[s] = "serving" => stage[s] \in {"ready", "waiting"}
      /\ service[s] = "in" /\ stage[s] # "aborted" => "data" \in done[s]
  BY DEF LifecycleInv, InitInv, InServiceHasData
<1>2. ASSUME NEW from \in Early, InitFails(s, from)
      PROVE  LifecycleInv'
  <2>1. /\ LifecycleTypeOK' /\ OthersKeep(s) /\ stage[s] = from
        /\ stage'[s] = "failed" /\ done'[s] = done[s] /\ threads'[s] = threads[s]
        /\ health'[s] = health[s] /\ service'[s] = service[s]
    BY <1>0, <1>2, FaultType DEF LifecycleTypeOK, InitFails, At, OthersKeep, Stages
  <2> QED BY <1>1, <1>2, <2>1, OneInstance DEF FromUdf, FromListening, FromLoaded, FromStarted, FromHooked, Stopped
<1>3. CASE CreateDefaultInstances(s)
  <2>1. /\ LifecycleTypeOK' /\ OthersKeep(s) /\ stage[s] = "boot"
        /\ stage'[s] \in {"created", "exited"} /\ done'[s] = done[s]
        /\ health'[s] = health[s] /\ service'[s] = service[s]
    <3>1. CASE stage' = [stage EXCEPT ![s] = "created"] /\ InitLogger(s)
               /\ UNCHANGED <<num_shards, is_running, service, done, health, faults>>
      BY <1>0, <1>3, <3>1 DEF LifecycleTypeOK, InitLogger, Runs, OthersKeep, Stages, CreateDefaultInstances, At
    <3>2. CASE stage' = [stage EXCEPT ![s] = "exited"] /\ Fault
               /\ UNCHANGED <<num_shards, is_running, service, done, threads, health>>
      BY <1>0, <1>3, <3>2, FaultType DEF LifecycleTypeOK, OthersKeep, Stages, CreateDefaultInstances, At
    <3> QED BY <1>3, <3>1, <3>2 DEF CreateDefaultInstances, At
  <2> QED BY <1>1, <2>1, OneInstance DEF FromUdf, FromListening, FromLoaded, FromStarted, FromHooked, Stopped
<1>4. CASE StartHeartbeat(s)
  <2>1. CASE /\ At(s, "created", "beating")
             /\ is_running' = [is_running EXCEPT ![s] = TRUE]
             /\ UNCHANGED <<num_shards, service, done, threads, health, faults>>
    <3>1. /\ LifecycleTypeOK' /\ OthersKeep(s) /\ stage[s] = "created"
          /\ stage'[s] = "beating" /\ done'[s] = done[s]
          /\ health'[s] = health[s] /\ service'[s] = service[s]
      BY <1>0, <2>1 DEF LifecycleTypeOK, At, OthersKeep, Stages
    <3> QED BY <1>1, <3>1, OneInstance DEF FromUdf, FromListening, FromLoaded, FromStarted, FromHooked, Stopped
  <2> QED BY <1>2, <1>4, <2>1 DEF StartHeartbeat
<1>5. CASE SetDefaultUdfCodeObject(s)
  <2>1. CASE /\ At(s, "beating", "default_udf") /\ Does(s, {"udf"})
             /\ UNCHANGED <<num_shards, is_running, service, threads, health, faults>>
    <3>1. /\ LifecycleTypeOK' /\ OthersKeep(s) /\ stage[s] = "beating"
          /\ stage'[s] = "default_udf" /\ done'[s] = done[s] \cup {"udf"}
          /\ health'[s] = health[s] /\ service'[s] = service[s]
      BY <1>0, <2>1 DEF LifecycleTypeOK, At, Does, OthersKeep, Stages
    <3> QED BY <1>1, <3>1, OneInstance DEF FromUdf, FromListening, FromLoaded, FromStarted, FromHooked, Stopped
  <2> QED BY <1>2, <1>5, <2>1 DEF SetDefaultUdfCodeObject
<1>6. CASE StartServers(s)
  <2>1. CASE /\ At(s, "default_udf", "listening")
             /\ CreateAndStartGrpcServer(s) /\ CreateAndStartRemoteLookupServer(s)
             /\ UNCHANGED <<num_shards, is_running, service, threads, faults>>
    <3> DEFINE remote == IF num_shards = 1 THEN {} ELSE {"remote"}
    <3>1. remote \subseteq {"remote"} /\ (num_shards > 1 => "remote" \in remote)
      OBVIOUS
    <3>2. done' = [done EXCEPT ![s] = done[s] \cup remote] /\ health' = [health EXCEPT ![s] = "not_serving"]
      BY <2>1 DEF CreateAndStartGrpcServer, CreateAndStartRemoteLookupServer, Does
    <3> HIDE DEF remote
    <3>3. /\ LifecycleTypeOK' /\ OthersKeep(s) /\ stage[s] = "default_udf"
          /\ stage'[s] = "listening" /\ done'[s] = done[s] \cup remote
          /\ health'[s] = "not_serving" /\ service'[s] = service[s]
      BY Zenon, <1>0, <2>1, <3>1, <3>2 DEF LifecycleTypeOK, At, OthersKeep, Stages
    <3> QED BY <1>1, <3>1, <3>3, OneInstance DEF FromUdf, FromListening, FromLoaded, FromStarted, FromHooked, Stopped
  <2> QED BY <1>2, <1>6, <2>1 DEF StartServers
<1>7. CASE CreateNotifiers(s)
  <2>1. CASE /\ At(s, "listening", "notified")
             /\ UNCHANGED <<num_shards, is_running, service, done, threads, health, faults>>
    <3>1. /\ LifecycleTypeOK' /\ OthersKeep(s) /\ stage[s] = "listening"
          /\ stage'[s] = "notified" /\ done'[s] = done[s]
          /\ health'[s] = health[s] /\ service'[s] = service[s]
      BY <1>0, <2>1 DEF LifecycleTypeOK, At, OthersKeep, Stages
    <3> QED BY <1>1, <3>1, OneInstance DEF FromUdf, FromListening, FromLoaded, FromStarted, FromHooked, Stopped
  <2> QED BY <1>2, <1>7, <2>1 DEF CreateNotifiers
<1>8. CASE CreateDataOrchestrator(s)
  <2>1. /\ LifecycleTypeOK' /\ OthersKeep(s) /\ stage[s] = "notified"
        /\ stage'[s] = "loaded" /\ done'[s] = done[s] \cup {"data"}
        /\ health'[s] = health[s] /\ service'[s] = service[s]
    BY <1>0, <1>8 DEF CreateDataOrchestrator, LifecycleTypeOK, At, Does, OthersKeep, Stages
  <2> QED BY <1>1, <2>1, OneInstance DEF FromUdf, FromListening, FromLoaded, FromStarted, FromHooked, Stopped
<1>9. CASE StartDataOrchestrator(s)
  <2>1. /\ LifecycleTypeOK' /\ OthersKeep(s) /\ stage[s] = "loaded"
        /\ stage'[s] = "started" /\ done'[s] = done[s]
        /\ threads'[s] = threads[s] \cup {"notifier", "loader", "realtime"}
        /\ health'[s] = health[s] /\ service'[s] = service[s]
    BY <1>0, <1>9 DEF StartDataOrchestrator, LifecycleTypeOK, At, Runs, OthersKeep, Stages
  <2> QED BY <1>1, <2>1, OneInstance DEF FromUdf, FromListening, FromLoaded, FromStarted, FromHooked, Stopped
<1> QED BY <1>3, <1>4, <1>5, <1>6, <1>7, <1>8, <1>9

(* The heartbeat completes the lifecycle when it is destroyed, or before     *)
(* that on a sharded server: with the data loaded unless Init failed.        *)
LEMMA ReadySteps ==
  ASSUME LifecycleInv, NEW s \in Servers,
         MarkHealthy(s) \/ InitializeUdfHooks(s) \/ SetServing(s) \/ DestroyHeartbeat(s)
  PROVE  LifecycleInv'
<1>0. LifecycleTypeOK
  BY DEF LifecycleInv
<1>1. /\ stage[s] \in FromUdf => "udf" \in done[s]
      /\ stage[s] \in FromListening /\ num_shards > 1 => "remote" \in done[s]
      /\ stage[s] \in FromLoaded => "data" \in done[s]
      /\ stage[s] \in FromStarted => {"notifier", "loader", "realtime"} \subseteq threads[s]
      /\ stage[s] \in FromHooked => "hooks" \in done[s] /\ (num_shards > 1 => "mappings" \in threads[s])
      /\ health[s] = "serving" => stage[s] \in {"ready", "waiting"}
      /\ service[s] = "in" /\ stage[s] # "aborted" => "data" \in done[s]
  BY DEF LifecycleInv, InitInv, InServiceHasData
<1>2. ASSUME Finish(s) \/ UNCHANGED <<is_running, service, faults>>
      PROVE  /\ is_running' \in [Servers -> BOOLEAN]
             /\ service' \in [Servers -> {"pre", "in", "post"}]
             /\ \A t \in Servers \ {s} : service'[t] = service[t]
             /\ faults' \in 0..MaxFaults
  <2>1. /\ is_running' \in [Servers -> BOOLEAN] /\ service' \in [Servers -> {"pre", "in", "post"}]
        /\ \A t \in Servers \ {s} : service'[t] = service[t]
    BY Zenon, <1>0, <1>2 DEF LifecycleTypeOK, Finish, CompleteLifecycle
  <2>2. Fault \/ faults' = faults
    BY <1>2 DEF Finish, CompleteLifecycle
  <2>3. faults' \in 0..MaxFaults
    BY <1>0, <2>2, FaultType DEF LifecycleTypeOK
  <2> QED BY <2>1, <2>3
<1>3. CASE MarkHealthy(s)
  <2>1. Finish(s) \/ UNCHANGED <<is_running, service, faults>>
    BY <1>3 DEF MarkHealthy
  <2>2. /\ LifecycleTypeOK' /\ OthersKeep(s) /\ stage[s] = "started"
        /\ stage'[s] = "healthy" /\ done'[s] = done[s] /\ threads'[s] = threads[s]
        /\ health'[s] = health[s]
    BY <1>0, <1>2, <1>3, <2>1 DEF MarkHealthy, LifecycleTypeOK, At, OthersKeep, Stages
  <2> QED BY <1>1, <2>2, OneInstance DEF FromUdf, FromListening, FromLoaded, FromStarted, FromHooked, Stopped
<1>4. CASE /\ At(s, "healthy", "hooked")
           /\ IF num_shards > 1 THEN CreateShardManager(s) ELSE UNCHANGED threads
           /\ Does(s, {"hooks"})
           /\ UNCHANGED <<num_shards, is_running, service, health, faults>>
  <2> DEFINE mappings == IF num_shards > 1 THEN {"mappings"} ELSE {}
  <2>1. mappings \subseteq {"mappings"} /\ (num_shards > 1 => "mappings" \in mappings)
    OBVIOUS
  <2>2. threads' = [threads EXCEPT ![s] = threads[s] \cup mappings]
    <3>1. CASE num_shards > 1
      BY <1>4, <3>1 DEF CreateShardManager, Runs
    <3>2. CASE ~(num_shards > 1)
      <4>1. threads' = threads /\ threads[s] \cup mappings = threads[s]
        BY <1>4, <3>2
      <4> HIDE DEF mappings
      <4> QED BY <1>0, <4>1 DEF LifecycleTypeOK
    <3> QED BY <3>1, <3>2
  <2> HIDE DEF mappings
  <2>3. /\ LifecycleTypeOK' /\ OthersKeep(s) /\ stage[s] = "healthy"
        /\ stage'[s] = "hooked" /\ done'[s] = done[s] \cup {"hooks"} /\ threads'[s] = threads[s] \cup mappings
        /\ health'[s] = health[s] /\ service'[s] = service[s]
    BY Zenon, <1>0, <1>4, <2>1, <2>2 DEF Does, LifecycleTypeOK, At, OthersKeep, Stages
  <2> QED BY <1>1, <2>1, <2>3, OneInstance DEF FromUdf, FromListening, FromLoaded, FromStarted, FromHooked, Stopped
<1>5. CASE SetServing(s)
  <2>1. /\ LifecycleTypeOK' /\ OthersKeep(s) /\ stage[s] = "hooked"
        /\ stage'[s] = "ready" /\ done'[s] = done[s] /\ threads'[s] = threads[s]
        /\ service'[s] = service[s]
    BY <1>0, <1>5 DEF SetServing, LifecycleTypeOK, At, OthersKeep, Stages
  <2> QED BY <1>1, <2>1, OneInstance DEF FromUdf, FromListening, FromLoaded, FromStarted, FromHooked, Stopped
<1>6. CASE At(s, "ready", "waiting") /\ Finish(s) /\ UNCHANGED <<num_shards, done, threads, health>>
  <2>1. /\ LifecycleTypeOK' /\ OthersKeep(s) /\ stage[s] = "ready"
        /\ stage'[s] = "waiting" /\ done'[s] = done[s] /\ threads'[s] = threads[s]
        /\ health'[s] = health[s]
    BY <1>0, <1>2, <1>6 DEF LifecycleTypeOK, At, OthersKeep, Stages
  <2> QED BY <1>1, <2>1, OneInstance DEF FromUdf, FromListening, FromLoaded, FromStarted, FromHooked, Stopped
<1>7. CASE /\ At(s, "failed", "aborted") /\ Finish(s)
           /\ threads' = [threads EXCEPT ![s] = {}]
           /\ health' = [health EXCEPT ![s] = "down"]
           /\ UNCHANGED <<num_shards, done>>
  <2>1. LifecycleTypeOK' /\ OthersKeep(s) /\ stage'[s] = "aborted" /\ health'[s] = "down"
    BY <1>0, <1>2, <1>7 DEF LifecycleTypeOK, At, OthersKeep, Stages
  <2> QED BY <2>1, OneInstance DEF FromUdf, FromListening, FromLoaded, FromStarted, FromHooked, Stopped
<1>8. CASE InitFails(s, "healthy")
  <2>1. /\ LifecycleTypeOK' /\ OthersKeep(s) /\ stage[s] = "healthy"
        /\ stage'[s] = "failed" /\ done'[s] = done[s] /\ threads'[s] = threads[s]
        /\ health'[s] = health[s] /\ service'[s] = service[s]
    BY <1>0, <1>8, FaultType DEF LifecycleTypeOK, InitFails, At, OthersKeep, Stages
  <2> QED BY <1>1, <2>1, OneInstance DEF FromUdf, FromListening, FromLoaded, FromStarted, FromHooked, Stopped
<1> QED BY <1>3, <1>4, <1>5, <1>6, <1>7, <1>8 DEF DestroyHeartbeat, InitializeUdfHooks

(* The shutdown ends the notifiers before any member is destroyed.           *)
LEMMA ShutdownSteps ==
  ASSUME LifecycleInv, NEW s \in Servers,
         \/ Wait(s) \/ GracefulShutdown(s) \/ ForceShutdown(s) \/ DestroyUdfClient(s)
         \/ DestroyDataOrchestrator(s) \/ DestroyRest(s)
  PROVE  LifecycleInv'
<1>0. LifecycleTypeOK
  BY DEF LifecycleInv
<1>1. /\ health[s] = "serving" => stage[s] \in {"ready", "waiting"}
      /\ service[s] = "in" /\ stage[s] # "aborted" => "data" \in done[s]
      /\ stage[s] \in Stopped => threads[s] \cap {"notifier", "realtime"} = {}
  BY DEF LifecycleInv, InitInv, InServiceHasData, ShutdownInv
<1>2. CASE Wait(s)
  <2>1. /\ LifecycleTypeOK' /\ OthersKeep(s) /\ stage[s] = "waiting"
        /\ stage'[s] = "graceful" /\ done'[s] = done[s] /\ health'[s] = "down" /\ service'[s] = service[s]
    BY <1>0, <1>2, FaultType DEF Wait, LifecycleTypeOK, At, OthersKeep, Stages
  <2> QED BY <1>1, <2>1, OneInstance DEF FromUdf, FromListening, FromLoaded, FromStarted, FromHooked, Stopped
<1>3. CASE GracefulShutdown(s)
  <2>1. /\ LifecycleTypeOK' /\ OthersKeep(s) /\ stage[s] = "graceful"
        /\ stage'[s] = "forced" /\ done'[s] = done[s] \ {"remote"}
        /\ threads'[s] = MaybeShutdownNotifiers(threads[s] \ {"mappings"})
        /\ health'[s] = health[s] /\ service'[s] = service[s]
    BY <1>0, <1>3 DEF GracefulShutdown, MaybeShutdownNotifiers, LifecycleTypeOK, At, OthersKeep, Stages
  <2>2. threads'[s] \cap {"notifier", "realtime"} = {}
    BY <2>1 DEF MaybeShutdownNotifiers
  <2> QED BY Zenon, <1>1, <2>1, <2>2, OneInstance DEF FromUdf, FromListening, FromLoaded, FromStarted, FromHooked, Stopped
<1>4. CASE ForceShutdown(s)
  <2>1. /\ LifecycleTypeOK' /\ OthersKeep(s) /\ stage[s] = "forced"
        /\ stage'[s] = "destroying" /\ done'[s] = done[s] \ {"remote"}
        /\ threads'[s] = MaybeShutdownNotifiers(threads[s]) \ {"mappings"}
        /\ health'[s] = health[s] /\ service'[s] = service[s]
    BY <1>0, <1>4 DEF ForceShutdown, MaybeShutdownNotifiers, LifecycleTypeOK, At, OthersKeep, Stages
  <2>2. threads'[s] \cap {"notifier", "realtime"} = {}
    BY <2>1 DEF MaybeShutdownNotifiers
  <2> QED BY <1>1, <2>1, <2>2, OneInstance DEF FromUdf, FromListening, FromLoaded, FromStarted, FromHooked, Stopped
<1>5. CASE DestroyUdfClient(s)
  <2>1. /\ LifecycleTypeOK' /\ OthersKeep(s) /\ stage[s] = "destroying"
        /\ stage'[s] = "udf_destroyed" /\ done'[s] = done[s] /\ threads'[s] = threads[s]
        /\ health'[s] = health[s] /\ service'[s] = service[s]
    BY <1>0, <1>5 DEF DestroyUdfClient, LifecycleTypeOK, At, OthersKeep, Stages
  <2> QED BY <1>1, <2>1, OneInstance DEF FromUdf, FromListening, FromLoaded, FromStarted, FromHooked, Stopped
<1>6. CASE DestroyDataOrchestrator(s)
  <2>1. /\ LifecycleTypeOK' /\ OthersKeep(s) /\ stage[s] = "udf_destroyed"
        /\ stage'[s] = "orchestrator_destroyed" /\ done'[s] = done[s]
        /\ threads'[s] = threads[s] \ {"notifier", "loader"}
        /\ health'[s] = health[s] /\ service'[s] = service[s]
    BY <1>0, <1>6 DEF DestroyDataOrchestrator, LifecycleTypeOK, At, OthersKeep, Stages
  <2>2. threads'[s] \cap {"notifier", "realtime"} = {} /\ "loader" \notin threads'[s]
    BY <1>1, <2>1 DEF Stopped
  <2> QED BY <1>1, <2>1, <2>2, OneInstance DEF FromUdf, FromListening, FromLoaded, FromStarted, FromHooked, Stopped
<1>7. CASE DestroyRest(s)
  <2>1. /\ LifecycleTypeOK' /\ OthersKeep(s) /\ stage[s] = "orchestrator_destroyed"
        /\ stage'[s] = "exited" /\ done'[s] = done[s]
        /\ health'[s] = health[s] /\ service'[s] = service[s]
    BY <1>0, <1>7 DEF DestroyRest, LifecycleTypeOK, At, OthersKeep, Stages
  <2> QED BY <1>1, <2>1, OneInstance DEF FromUdf, FromListening, FromLoaded, FromStarted, FromHooked, Stopped
<1> QED BY <1>2, <1>3, <1>4, <1>5, <1>6, <1>7

(* A new instance starts out of service.                                     *)
LEMMA GroupSteps ==
  ASSUME LifecycleInv, NEW s \in Servers,
         Crash(s) \/ HookExpires(s) \/ Terminate(s) \/ Launch(s)
  PROVE  LifecycleInv'
<1>0. LifecycleTypeOK
  BY DEF LifecycleInv
<1>1. /\ health[s] = "serving" => stage[s] \in {"ready", "waiting"}
      /\ service[s] = "in" /\ stage[s] # "aborted" => "data" \in done[s]
  BY DEF LifecycleInv, InitInv, InServiceHasData
<1>2. CASE Crash(s)
  <2>1. /\ LifecycleTypeOK' /\ OthersKeep(s) /\ stage[s] # "aborted"
        /\ stage'[s] = "exited" /\ done'[s] = done[s] /\ health'[s] = "down" /\ service'[s] = service[s]
    BY <1>0, <1>2, FaultType DEF Crash, Dies, Gone, LifecycleTypeOK, OthersKeep, Stages
  <2> QED BY <1>1, <2>1, OneInstance DEF FromUdf, FromListening, FromLoaded, FromStarted, FromHooked, Stopped
<1>3. CASE HookExpires(s)
  <2>1. /\ LifecycleTypeOK' /\ OthersKeep(s)
        /\ stage'[s] = "exited" /\ health'[s] = "down" /\ service'[s] = "post"
    <3>1. faults' \in 0..MaxFaults
      BY <1>0, <1>3, FaultType DEF HookExpires, LifecycleTypeOK
    <3> QED BY <1>0, <1>3, <3>1 DEF HookExpires, Dies, LifecycleTypeOK, OthersKeep, Stages
  <2> QED BY <2>1, OneInstance DEF FromUdf, FromListening, FromLoaded, FromStarted, FromHooked, Stopped
<1>4. CASE Terminate(s)
  <2>1. /\ LifecycleTypeOK' /\ OthersKeep(s) /\ stage[s] \in {"exited", "aborted"}
        /\ stage'[s] = stage[s] /\ health'[s] = health[s] /\ service'[s] = "post"
    BY <1>0, <1>4 DEF Terminate, Gone, LifecycleTypeOK, OthersKeep, Stages
  <2> QED BY <1>1, <2>1, OneInstance DEF FromUdf, FromListening, FromLoaded, FromStarted, FromHooked, Stopped
<1>5. CASE Launch(s)
  <2>1. /\ LifecycleTypeOK' /\ OthersKeep(s) /\ stage[s] \in {"exited", "aborted"}
        /\ stage'[s] = "boot" /\ health'[s] = health[s] /\ service'[s] = "pre"
    BY <1>0, <1>5 DEF Launch, Gone, LifecycleTypeOK, OthersKeep, Stages
  <2> QED BY <1>1, <2>1, OneInstance DEF FromUdf, FromListening, FromLoaded, FromStarted, FromHooked, Stopped
<1> QED BY <1>2, <1>3, <1>4, <1>5

(* The inductive invariant holds in every state.                             *)
LEMMA LifecycleInvHolds == LifecycleSpec => []LifecycleInv
<1>1. LifecycleInit => LifecycleInv
  BY LifecycleAssumption
     DEF LifecycleInit, LifecycleInv, LifecycleTypeOK, InitInv, InServiceHasData, ShutdownInv, CallbacksHaveTheirOwner,
         Stages, FromUdf, FromListening, FromLoaded, FromStarted, FromHooked, Stopped
<1>2. LifecycleInv /\ [LifecycleNext]_lifecycleVars => LifecycleInv'
  <2> SUFFICES ASSUME LifecycleInv, [LifecycleNext]_lifecycleVars PROVE LifecycleInv'
    OBVIOUS
  <2>1. ASSUME NEW s \in Servers,
               Steps(s) \/ Wait(s) \/ Crash(s) \/ HookExpires(s) \/ Terminate(s) \/ Launch(s)
        PROVE  LifecycleInv'
    BY <2>1, InitSteps, ReadySteps, ShutdownSteps, GroupSteps DEF Steps
  <2>2. CASE UNCHANGED lifecycleVars
    BY <2>2 DEF lifecycleVars, LifecycleInv, LifecycleTypeOK, InitInv, InServiceHasData, ShutdownInv, CallbacksHaveTheirOwner
  <2> QED BY <2>1, <2>2 DEF LifecycleNext
<1> QED BY <1>1, <1>2, PTL DEF LifecycleSpec

(* The types hold for any fleet.                                             *)
THEOREM LifecycleTypesHold == LifecycleSpec => []LifecycleTypeOK
<1>1. LifecycleInv => LifecycleTypeOK
  BY DEF LifecycleInv
<1> QED BY <1>1, LifecycleInvHolds, PTL

(* Server::Init tells the load balancer to send requests (server.cc:537)     *)
(* only when everything that answers them is in place, and it stays in place *)
(* for as long as the status does, whatever fails, crashes or shuts down.    *)
THEOREM ServingIsAlwaysComplete == LifecycleSpec => []ServingIsComplete
<1>1. LifecycleInv => ServingIsComplete
  <2> SUFFICES ASSUME LifecycleInv, NEW s \in Servers, health[s] = "serving"
               PROVE  /\ {"udf", "data", "hooks"} \subseteq done[s]
                      /\ {"notifier", "loader", "realtime"} \subseteq threads[s]
                      /\ num_shards > 1 => "remote" \in done[s] /\ "mappings" \in threads[s]
    BY DEF ServingIsComplete
  <2>1. stage[s] \in {"ready", "waiting"}
    BY DEF LifecycleInv, InitInv
  <2>2. stage[s] \in FromUdf /\ stage[s] \in FromListening /\ stage[s] \in FromLoaded
        /\ stage[s] \in FromStarted /\ stage[s] \in FromHooked
    BY <2>1 DEF FromUdf, FromListening, FromLoaded, FromStarted, FromHooked
  <2> QED BY <2>2 DEF LifecycleInv, InitInv
<1> QED BY <1>1, LifecycleInvHolds, PTL

(* An instance that other shards may send lookups to has loaded its data,    *)
(* unless its initialisation failed.                                         *)
THEOREM InServiceAlwaysHasData == LifecycleSpec => []InServiceHasData
<1>1. LifecycleInv => InServiceHasData
  BY DEF LifecycleInv
<1> QED BY <1>1, LifecycleInvHolds, PTL

(* No thread that calls back into the data orchestrator outlives it.         *)
THEOREM CallbacksAlwaysHaveTheirOwner == LifecycleSpec => []CallbacksHaveTheirOwner
<1>1. LifecycleInv => CallbacksHaveTheirOwner
  BY DEF LifecycleInv
<1> QED BY <1>1, LifecycleInvHolds, PTL
=============================================================================
