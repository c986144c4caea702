------------------------ MODULE DataOrchestratorProofs ------------------------
(* Proofs about DataOrchestrator, for all prefixes, numbers of files and      *)
(* malformed names: the notifier's and the loader's threads, and uploads.     *)
EXTENDS DataOrchestratorStartProofs

(* List: what it finds in a prefix is everything after the last name.        *)
LEMMA ListStep ==
  ASSUME LoadingInv, List, Unchanged
  PROVE  LoadingInv'
<1>1. TypeInv /\ CreateInv /\ StartedInv /\ QueueInv /\ NoDeltaSkipped
  BY DEF LoadingInv
<1>2. PICK failed \in SUBSET Allowed : ListPrefixDeltaFiles(failed)
  BY DEF List
<1> DEFINE found == [p \in Allowed |-> IF p \in failed THEN {} ELSE ListedAfter(p)]
<1>3. /\ UNCHANGED <<blobs, notifications, prefix_start_after_map, calls>>
      /\ watch.pc = "list" /\ watch' = [pc |-> "call", current |-> {}, found |-> found]
  BY <1>2 DEF ListPrefixDeltaFiles, storage
<1>4. UNCHANGED <<snapshot, phase, todo, listed, ending_delta_files, loader, destructor, applied>>
  BY DEF Unchanged
<1>5. \A p \in Allowed : \A f : f \in ListedAfter(p) <=> f \in 1..blobs[p] /\ prefix_start_after_map[p] < f
  <2>1. \A p \in Allowed : blobs[p] \in Nat /\ prefix_start_after_map[p] \in Nat
    BY <1>1, NameFacts
  <2> QED BY <2>1 DEF ListedAfter
<1>6. found \in [Allowed -> SUBSET Files]
  <2>1. \A p \in Allowed : ListedAfter(p) \subseteq Files
    BY <1>1, <1>5, NameFacts
  <2> QED BY <2>1
<1>7. /\ watch' \in WatchState /\ watch'.pc = "call" /\ watch'.found = found
      /\ phase = "started" /\ destructor \in {"no", "stop notifier"}
  <2> HIDE DEF found
  <2>1. watch' \in WatchState /\ watch'.pc = "call" /\ watch'.found = found
    BY <1>3, <1>6 DEF WatchState
  <2> QED BY Zenon, <1>1, <1>3, <2>1 DEF TypeInv, TypeOK
<1>8. TypeInv'
  <2>1. TypeOK'
    BY Zenon, <1>1, <1>3, <1>4, <1>7 DEF TypeInv, TypeOK
  <2> QED BY Zenon, <1>1, <1>3, <1>4, <1>7, <2>1 DEF TypeInv
<1>9. (\A q : Delta(q)' = Delta(q)) /\ (\A b : InQueue(b)' <=> InQueue(b))
  BY <1>3, <1>4 DEF Delta, InQueue
<1>10. CreateInv' /\ NoDeltaSkipped' /\ QueueInv'
  BY <1>1, <1>3, <1>4, <1>9 DEF CreateInv, NoDeltaSkipped, QueueInv
<1>11. StartedInv'
  <2>1. ASSUME NEW p \in Allowed, NEW f \in found[p]
        PROVE  /\ f \in 1..blobs[p]
               /\ prefix_start_after_map[p] < f
               /\ \A g \in Delta(p) : prefix_start_after_map[p] < g /\ g < f => g \in found[p]
    <3>1. p \notin failed /\ f \in ListedAfter(p) /\ found[p] = ListedAfter(p)
      BY <2>1
    <3>2. Delta(p) \subseteq 1..blobs[p]
      BY DEF Delta
    <3> QED BY <1>5, <3>1, <3>2
  <2> HIDE DEF found
  <2> QED BY Zenon, <1>1, <1>3, <1>4, <1>7, <1>9, <2>1 DEF StartedInv
<1> QED BY <1>8, <1>10, <1>11 DEF LoadingInv

(* CallBack passes on the first name of what was found in a prefix.          *)
LEMMA CallBackStep ==
  ASSUME LoadingInv, CallBack, Unchanged
  PROVE  LoadingInv'
<1>1. TypeInv /\ CreateInv /\ StartedInv /\ QueueInv /\ NoDeltaSkipped
  BY DEF LoadingInv
<1> DEFINE Rest(p, n) == [watch.found EXCEPT ![p] = @ \ {n}]
<1> DEFINE Calls(p, n) ==
      /\ \A other \in watch.found[p] : n <= other
      /\ watch' = IF \A q \in Allowed : Rest(p, n)[q] = {} THEN Watching
                  ELSE [pc |-> "call", found |-> Rest(p, n),
                        current |-> IF Rest(p, n)[p] = {} THEN {} ELSE {p}]
      /\ IF IsDeltaFilename(n)
           THEN /\ calls' = Append(calls, <<p, n>>)
                /\ prefix_start_after_map' = [prefix_start_after_map EXCEPT ![p] = n]
           ELSE UNCHANGED <<calls, prefix_start_after_map>>
<1>0. PICK p \in Allowed : \E n \in watch.found[p] : Calls(p, n)
  BY Zenon DEF CallBack
<1> HIDE DEF Calls
<1>2. PICK n \in watch.found[p] : Calls(p, n)
  BY <1>0
<1> USE DEF Calls
<1> DEFINE rest == Rest(p, n)
<1>3. /\ UNCHANGED <<blobs, notifications>> /\ watch.pc = "call"
      /\ UNCHANGED <<snapshot, phase, todo, listed, ending_delta_files, loader, destructor, applied>>
  BY DEF CallBack, Unchanged, storage
<1>4. /\ watch.found \in [Allowed -> SUBSET Files] /\ n \in Files
      /\ phase = "started" /\ destructor \in {"no", "stop notifier"}
  <2>1. watch.found \in [Allowed -> SUBSET Files]
    BY Zenon, <1>1, <1>3, ThreadStates DEF TypeInv
  <2> QED BY Zenon, <1>1, <1>2, <1>3, <2>1 DEF TypeInv, TypeOK
<1>5. /\ rest \in [Allowed -> SUBSET Files]
      /\ \A q \in Allowed : rest[q] = IF q = p THEN watch.found[p] \ {n} ELSE watch.found[q]
  BY Zenon, <1>4
<1>6. /\ watch' = Watching \/ (watch'.pc = "call" /\ watch'.found = rest)
      /\ watch' \in WatchState
  <2>1. (IF rest[p] = {} THEN {} ELSE {p}) \in SUBSET Allowed
    OBVIOUS
  <2>2. watch' = Watching \/ watch' = [pc |-> "call", found |-> rest,
                                       current |-> IF rest[p] = {} THEN {} ELSE {p}]
    BY <1>2
  <2> HIDE DEF rest
  <2>3. [pc |-> "call", found |-> rest, current |-> IF rest[p] = {} THEN {} ELSE {p}] \in WatchState
    BY <1>5, <2>1 DEF WatchState
  <2>4. /\ [pc |-> "call", found |-> rest, current |-> IF rest[p] = {} THEN {} ELSE {p}].pc = "call"
        /\ [pc |-> "call", found |-> rest, current |-> IF rest[p] = {} THEN {} ELSE {p}].found = rest
    OBVIOUS
  <2>5. Watching \in WatchState
    BY ThreadStates
  <2> HIDE DEF Calls
  <2> QED BY <2>2, <2>3, <2>4, <2>5
<1> HIDE DEF Rest, rest
<1>7. /\ \A q : Delta(q)' = Delta(q)
      /\ \A q \in Allowed : \A g : g \in Delta(q) <=>
           g \in Files /\ g \in Nat /\ IsDeltaFilename(g) /\ 0 < g /\ g <= blobs[q]
      /\ \A q \in Allowed : prefix_start_after_map[q] \in Nat /\ blobs[q] \in Nat
      /\ n \in Nat /\ Files \subseteq Nat
  BY Zenon, <1>1, <1>3, <1>4, DeltaFacts, NameFacts DEF Delta
<1>8. \A q \in Allowed : \A f \in watch.found[q] :
        /\ f \in 1..blobs[q]
        /\ prefix_start_after_map[q] < f
        /\ \A g \in Delta(q) : prefix_start_after_map[q] < g /\ g < f => g \in watch.found[q]
  BY Zenon, <1>1, <1>3, <1>4 DEF StartedInv
<1>9. \A q \in Allowed : /\ \A g \in Delta(q) : g <= prefix_start_after_map[q] => g \in applied[q] \/ InQueue(<<q, g>>)
                         /\ \A f \in applied[q] : f <= prefix_start_after_map[q] /\ f \in Nat
  <2>1. \A q \in Allowed : applied[q] \subseteq Nat
    <3>1. \A q \in Allowed : applied[q] \subseteq Files
      BY <1>1, NameFacts
    <3> QED BY Zenon, <1>7, <3>1
  <2> QED BY Zenon, <1>1, <1>4, <2>1 DEF StartedInv
<1>10. ASSUME NEW q \in Allowed, NEW f \in rest[q]
       PROVE  /\ f \in watch.found[q] /\ f \in 1..blobs[q]
              /\ prefix_start_after_map[q] < f
              /\ \A g \in Delta(q) : prefix_start_after_map[q] < g /\ g < f /\ <<q, g>> # <<p, n>> => g \in rest[q]
  BY <1>5, <1>8, <1>10
<1>11. \A q : Watching.pc # "call"
  BY ThreadStates
<1>12. CASE ~IsDeltaFilename(n)
  <2>1. UNCHANGED <<calls, prefix_start_after_map>>
    BY <1>2, <1>12
  <2>2. TypeInv'
    <3>1. TypeOK'
      BY Zenon, <1>1, <1>3, <1>4, <2>1 DEF TypeInv, TypeOK
    <3>2. watch'.pc # "done" /\ watch' # NotStarted
      BY <1>6, ThreadStates
    <3> QED BY Zenon, <1>1, <1>3, <1>4, <1>6, <2>1, <3>1, <3>2 DEF TypeInv
  <2>3. \A b : InQueue(b)' <=> InQueue(b)
    BY <1>3, <2>1 DEF InQueue
  <2>4. CreateInv' /\ NoDeltaSkipped' /\ QueueInv'
    BY <1>1, <1>3, <1>7, <2>1 DEF CreateInv, NoDeltaSkipped, QueueInv
  <2>5. \A q \in Allowed : \A g \in Delta(q) : <<q, g>> # <<p, n>>
    BY <1>7, <1>12
  <2>6. ASSUME NEW q \in Allowed, NEW f \in rest[q]
        PROVE  /\ f \in 1..blobs[q]
               /\ prefix_start_after_map[q] < f
               /\ \A g \in Delta(q) : prefix_start_after_map[q] < g /\ g < f => g \in rest[q]
    BY <1>10, <2>5
  <2>7. StartedInv'
    BY <1>3, <1>6, <1>7, <1>9, <1>11, <2>1, <2>3, <2>6 DEF StartedInv
  <2> QED BY <2>2, <2>4, <2>7 DEF LoadingInv
<1>13. CASE IsDeltaFilename(n)
  <2>1. calls' = Append(calls, <<p, n>>) /\ prefix_start_after_map' = [prefix_start_after_map EXCEPT ![p] = n]
    BY <1>2, <1>13
  <2>2. n \in Delta(p) /\ n <= blobs[p] /\ prefix_start_after_map[p] < n
    <3>1. n \in watch.found[p]
      BY <1>2
    <3>2. n \in 1..blobs[p] /\ prefix_start_after_map[p] < n
      BY <1>8, <3>1
    <3>3. 0 < n /\ n <= blobs[p]
      <4>1. blobs[p] \in Nat
        BY <1>7
      <4> QED BY <3>2, <4>1
    <3>4. n \in Delta(p)
      BY <1>13, <3>2 DEF Delta
    <3> QED BY <3>2, <3>3, <3>4
  <2>3. /\ prefix_start_after_map' \in [Allowed -> {0} \cup Files]
        /\ \A q \in Allowed : prefix_start_after_map'[q] = IF q = p THEN n ELSE prefix_start_after_map[q]
    <3>1. prefix_start_after_map \in [Allowed -> {0} \cup Files]
      BY Zenon, <1>1 DEF TypeInv, TypeOK
    <3> QED BY Zenon, <1>4, <2>1, <3>1
  <2>4. calls \in Seq(Allowed \X Files) /\ <<p, n>> \in Allowed \X Files
    BY Zenon, <1>1, <1>4 DEF TypeInv, TypeOK
  <2>5. /\ calls' \in Seq(Allowed \X Files)
        /\ Len(calls) \in Nat /\ Len(calls') = Len(calls) + 1
        /\ \A i \in 1..Len(calls) : calls'[i] = calls[i]
        /\ calls'[Len(calls) + 1] = <<p, n>>
    BY <2>1, <2>4, AppendProperties
  <2>6. TypeInv'
    <3>1. TypeOK'
      BY Zenon, <1>1, <1>3, <1>4, <2>3, <2>5 DEF TypeInv, TypeOK
    <3>2. watch'.pc # "done" /\ watch' # NotStarted
      BY <1>6, ThreadStates
    <3>3. \A q \in Allowed : prefix_start_after_map'[q] <= blobs[q]
      BY Zenon, <1>1, <2>2, <2>3 DEF TypeInv
    <3> QED BY Zenon, <1>1, <1>3, <1>4, <1>6, <3>1, <3>2, <3>3 DEF TypeInv
  <2>7. CreateInv' /\ NoDeltaSkipped'
    BY <1>1, <1>3, <1>7 DEF CreateInv, NoDeltaSkipped
  <2>8. \A b : InQueue(b) \/ b = <<p, n>> => InQueue(b)'
    <3>1. \A i \in 1..Len(calls) : i \in 1..Len(calls') /\ calls'[i] = calls[i]
      BY <2>5
    <3>2. Len(calls) + 1 \in 1..Len(calls')
      BY <2>5
    <3> QED BY SMTT(30), <1>3, <2>5, <3>1, <3>2 DEF InQueue
  <2>9. ASSUME NEW q \in Allowed
        PROVE  /\ \A g \in Delta(q) : g <= prefix_start_after_map'[q] => g \in applied[q] \/ InQueue(<<q, g>>)'
               /\ \A f \in applied[q] : f <= prefix_start_after_map'[q]
               /\ \A f \in rest[q] :
                    /\ f \in 1..blobs[q]
                    /\ prefix_start_after_map'[q] < f
                    /\ \A g \in Delta(q) : prefix_start_after_map'[q] < g /\ g < f => g \in rest[q]
    <3>1. CASE q # p
      <4>1. \A g : <<q, g>> # <<p, n>>
        BY <3>1
      <4> QED BY <1>9, <1>10, <2>3, <2>8, <3>1, <4>1
    <3>2. CASE q = p
      <4>1. ASSUME NEW g \in Delta(p), g <= n
            PROVE  g \in applied[p] \/ InQueue(<<p, g>>)'
        <5>1. CASE g <= prefix_start_after_map[p]
          BY <1>9, <2>8, <5>1
        <5>2. CASE prefix_start_after_map[p] < g /\ g < n
          <6>1. g \in watch.found[p]
            BY <1>2, <1>8, <5>2
          <6> QED BY <1>2, <1>7, <5>2, <6>1
        <5>3. CASE g = n
          BY <2>8, <5>3
        <5> QED BY <1>7, <4>1, <5>1, <5>2, <5>3
      <4>2. \A f \in applied[p] : f <= n
        BY <1>7, <1>9, <2>2
      <4>3. ASSUME NEW f \in rest[p]
            PROVE  /\ f \in 1..blobs[p]
                   /\ n < f
                   /\ \A g \in Delta(p) : n < g /\ g < f => g \in rest[p]
        <5>1. f \in watch.found[p] /\ f # n /\ f \in 1..blobs[p]
          BY <1>5, <1>10, <4>3
        <5>2. n <= f /\ f \in Nat
          BY <1>2, <1>7, <5>1
        <5>3. \A g \in Delta(p) : n < g => prefix_start_after_map[p] < g /\ <<p, g>> # <<p, n>>
          BY <1>7, <2>2
        <5> QED BY <1>7, <1>10, <4>3, <5>1, <5>2, <5>3
      <4> QED BY <2>3, <3>2, <4>1, <4>2, <4>3
    <3> QED BY <3>1, <3>2
  <2>10. StartedInv'
    BY SMTT(30), <1>3, <1>6, <1>7, <1>11, <2>9 DEF StartedInv
  <2>11. QueueInv'
    <3>0. ASSUME NEW q \in Allowed, NEW x \in Nat, x <= prefix_start_after_map[q]
          PROVE  x <= prefix_start_after_map'[q] /\ (q = p => x < n)
      <4>1. prefix_start_after_map[q] \in Nat /\ n \in Nat
        BY <1>7
      <4> QED BY <2>2, <2>3, <3>0, <4>1
    <3>1. \A i \in 1..Len(calls) : calls[i] \in Allowed \X Files
      BY <2>4
    <3>2. ASSUME NEW i \in 1..Len(calls)
          PROVE  /\ calls[i][2] \in Delta(calls[i][1])
                 /\ calls[i][2] <= prefix_start_after_map'[calls[i][1]]
                 /\ calls[i][1] = p => calls[i][2] < n
                 /\ \A j \in 1..Len(calls) : i < j /\ calls[j][1] = calls[i][1] => calls[i][2] < calls[j][2]
                 /\ \A f \in applied[calls[i][1]] : f < calls[i][2]
      <4>1. /\ calls[i][2] \in Delta(calls[i][1])
            /\ calls[i][2] <= prefix_start_after_map[calls[i][1]]
            /\ \A j \in 1..Len(calls) : i < j /\ calls[j][1] = calls[i][1] => calls[i][2] < calls[j][2]
            /\ \A f \in applied[calls[i][1]] : f < calls[i][2]
        BY <1>1 DEF QueueInv
      <4>2. calls[i][1] \in Allowed /\ calls[i][2] \in Nat
        BY Zenon, <1>7, <3>1
      <4> QED BY <3>0, <4>1, <4>2
    <3>3. \A f \in applied[p] : f < n
      BY <1>7, <1>9, <2>2
    <3>4. ASSUME NEW i \in 1..Len(calls')
          PROVE  /\ calls'[i][2] \in Delta(calls'[i][1])
                 /\ calls'[i][2] <= prefix_start_after_map'[calls'[i][1]]
                 /\ \A j \in 1..Len(calls') : i < j /\ calls'[j][1] = calls'[i][1] => calls'[i][2] < calls'[j][2]
                 /\ \A f \in applied[calls'[i][1]] : f < calls'[i][2]
      <4>1. \A j \in 1..Len(calls') : j \in 1..Len(calls) \/ j = Len(calls) + 1
        BY <2>5
      <4>2. CASE i = Len(calls) + 1
        <5>1. calls'[i] = <<p, n>> /\ \A j \in 1..Len(calls') : ~(i < j)
          BY <2>5, <4>2
        <5>2. n <= prefix_start_after_map'[p]
          BY <1>7, <2>3
        <5> QED BY <2>2, <3>3, <5>1, <5>2
      <4>3. CASE i \in 1..Len(calls)
        <5>1. calls'[i] = calls[i]
          BY <2>5, <4>3
        <5>2. ASSUME NEW j \in 1..Len(calls'), i < j, calls'[j][1] = calls[i][1]
              PROVE  calls[i][2] < calls'[j][2]
          BY <2>5, <3>2, <4>1, <4>3, <5>2
        <5> QED BY <3>2, <4>3, <5>1, <5>2
      <4> QED BY <4>1, <4>2, <4>3
    <3>5. ASSUME loader.pc = "load"
          PROVE  /\ loader.blob[2] \in Delta(loader.blob[1])
                 /\ loader.blob[2] <= prefix_start_after_map'[loader.blob[1]]
                 /\ \A j \in 1..Len(calls') : calls'[j][1] = loader.blob[1] => loader.blob[2] < calls'[j][2]
                 /\ \A f \in applied[loader.blob[1]] : f < loader.blob[2]
      <4>1. loader.blob \in Allowed \X Files
        BY Zenon, <1>1, <3>5, ThreadStates DEF TypeInv
      <4>2. /\ loader.blob[2] \in Delta(loader.blob[1])
            /\ loader.blob[2] <= prefix_start_after_map[loader.blob[1]]
            /\ \A j \in 1..Len(calls) : calls[j][1] = loader.blob[1] => loader.blob[2] < calls[j][2]
            /\ \A f \in applied[loader.blob[1]] : f < loader.blob[2]
        BY <1>1, <3>5 DEF QueueInv
      <4>3. loader.blob[1] \in Allowed /\ loader.blob[2] \in Nat
        <5>1. loader.blob[1] \in Allowed /\ loader.blob[2] \in Files
          BY <4>1
        <5> QED BY Zenon, <1>7, <5>1
      <4>4. /\ loader.blob[2] <= prefix_start_after_map'[loader.blob[1]]
            /\ loader.blob[1] = p => loader.blob[2] < n
        BY <3>0, <4>2, <4>3
      <4>5. \A j \in 1..Len(calls') : j \in 1..Len(calls) \/ j = Len(calls) + 1
        BY <2>5
      <4> QED BY SMTT(30), <2>5, <4>2, <4>4, <4>5
    <3> QED BY <1>3, <1>7, <3>4, <3>5 DEF QueueInv
  <2> QED BY <2>6, <2>7, <2>10, <2>11 DEF LoadingInv
<1> QED BY <1>12, <1>13

(* TakeFile moves the head of the queue to the loader; it is never dropped.  *)
LEMMA TakeFileStep ==
  ASSUME LoadingInv, TakeFile
  PROVE  LoadingInv'
<1>1. TypeInv /\ CreateInv /\ StartedInv /\ QueueInv /\ NoDeltaSkipped
  BY DEF LoadingInv
<1>2. /\ UNCHANGED <<blobs, notifications, prefix_start_after_map, watch, snapshot, phase, todo, listed,
                     ending_delta_files, destructor, applied>>
      /\ loader.pc = "wait" /\ calls # <<>> /\ calls' = Tail(calls)
  BY DEF TakeFile, storage, notifier
<1>3. calls \in Seq(Allowed \X Files)
  BY Zenon, <1>1 DEF TypeInv, TypeOK
<1>4. /\ Len(calls) \in Nat /\ 0 < Len(calls)
      /\ Head(calls) = calls[1] /\ calls[1] \in Allowed \X Files
      /\ calls' \in Seq(Allowed \X Files)
      /\ Len(calls') = Len(calls) - 1
      /\ \A i \in 1..Len(calls') : calls'[i] = calls[i + 1]
  <2>1. Len(calls) \in Nat /\ Len(calls) # 0
    BY <1>2, <1>3, EmptySeq
  <2>2. /\ Head(calls) \in Allowed \X Files
        /\ Tail(calls) \in Seq(Allowed \X Files)
        /\ Len(Tail(calls)) = Len(calls) - 1
        /\ \A i \in 1..Len(Tail(calls)) : Tail(calls)[i] = calls[i + 1]
    BY <1>2, <1>3, HeadTailProperties
  <2>3. Head(calls) = calls[1]
    BY <1>2, <1>3
  <2> QED BY <1>2, <2>1, <2>2, <2>3
<1>5. /\ \A i \in 1..Len(calls') : i + 1 \in 1..Len(calls) /\ 1 < i + 1
      /\ \A i \in 1..Len(calls) : i = 1 \/ (i - 1 \in 1..Len(calls') /\ calls'[i - 1] = calls[i])
      /\ 1 \in 1..Len(calls)
  <2>1. \A i \in 1..Len(calls) : i = 1 \/ (i - 1 \in 1..Len(calls') /\ (i - 1) + 1 = i)
    BY <1>4
  <2>2. \A i \in 1..Len(calls) : i = 1 \/ (i - 1 \in 1..Len(calls') /\ calls'[i - 1] = calls[i])
    BY <1>4, <2>1
  <2>3. \A i \in 1..Len(calls') : i + 1 \in 1..Len(calls) /\ 1 < i + 1
    BY <1>4
  <2> QED BY <1>4, <2>2, <2>3
<1>6. /\ calls[1][2] \in Delta(calls[1][1])
      /\ calls[1][2] <= prefix_start_after_map[calls[1][1]]
      /\ \A j \in 1..Len(calls) : 1 < j /\ calls[j][1] = calls[1][1] => calls[1][2] < calls[j][2]
      /\ \A f \in applied[calls[1][1]] : f < calls[1][2]
  BY <1>1, <1>5 DEF QueueInv
<1>7. loader' = [pc |-> "load", blob |-> calls[1]] /\ loader' \in LoaderState
  <2>1. IsDeltaFilename(calls[1][2]) /\ calls[1][1] \in Allowed
    BY <1>4, <1>6 DEF Delta
  <2>2. loader' = [pc |-> "load", blob |-> calls[1]]
    BY <1>4, <2>1 DEF TakeFile
  <2> QED BY <1>4, <2>2 DEF LoaderState
<1>8. loader'.pc = "load" /\ loader'.blob = calls[1]
  BY <1>7
<1>9. \A q : Delta(q)' = Delta(q)
  BY <1>2 DEF Delta
<1>10. TypeInv'
  <2>1. phase = "started"
    BY Zenon, <1>1, <1>2 DEF TypeInv, TypeOK
  <2>2. TypeOK'
    BY Zenon, <1>1, <1>2, <1>4, <1>8, <2>1 DEF TypeInv, TypeOK
  <2> QED BY Zenon, <1>1, <1>2, <1>7, <2>1, <2>2 DEF TypeInv
<1>11. CreateInv' /\ NoDeltaSkipped'
  BY <1>1, <1>2, <1>9 DEF CreateInv, NoDeltaSkipped
<1>12. \A b : InQueue(b) => InQueue(b)'
  BY <1>2, <1>5, <1>8 DEF InQueue
<1>13. StartedInv'
  BY <1>1, <1>2, <1>9, <1>12 DEF StartedInv
<1>14. QueueInv'
  <2>1. ASSUME NEW i \in 1..Len(calls')
        PROVE  /\ calls'[i][2] \in Delta(calls'[i][1])
               /\ calls'[i][2] <= prefix_start_after_map[calls'[i][1]]
               /\ \A j \in 1..Len(calls') : i < j /\ calls'[j][1] = calls'[i][1] => calls'[i][2] < calls'[j][2]
               /\ \A f \in applied[calls'[i][1]] : f < calls'[i][2]
    <3>1. calls'[i] = calls[i + 1] /\ i + 1 \in 1..Len(calls)
      BY <1>4, <1>5
    <3>2. \A j \in 1..Len(calls') : i < j => i + 1 < j + 1 /\ j + 1 \in 1..Len(calls) /\ calls'[j] = calls[j + 1]
      <4>1. \A j \in 1..Len(calls') : i < j => i + 1 < j + 1
        BY <1>4
      <4>2. \A j \in 1..Len(calls') : j + 1 \in 1..Len(calls) /\ calls'[j] = calls[j + 1]
        BY <1>4, <1>5
      <4> QED BY <4>1, <4>2
    <3> QED BY <1>1, <3>1, <3>2 DEF QueueInv
  <2>2. \A j \in 1..Len(calls') : calls'[j][1] = calls[1][1] => calls[1][2] < calls'[j][2]
    <3>1. \A j \in 1..Len(calls') : j + 1 \in 1..Len(calls) /\ 1 < j + 1 /\ calls'[j] = calls[j + 1]
      BY <1>4, <1>5
    <3> QED BY <1>6, <3>1
  <2> QED BY <1>2, <1>6, <1>8, <1>9, <2>1, <2>2 DEF QueueInv
<1> QED BY <1>10, <1>11, <1>13, <1>14 DEF LoadingInv

(* LoadFile: everything before the file in its prefix has been loaded, as    *)
(* all that was passed on is loaded or waits behind it.                      *)
LEMMA LoadFileStep ==
  ASSUME LoadingInv, LoadFile
  PROVE  LoadingInv'
<1>1. TypeInv /\ CreateInv /\ StartedInv /\ QueueInv /\ NoDeltaSkipped
  BY DEF LoadingInv
<1>2. PICK p \in Allowed, n \in Files : loader.blob = <<p, n>>
  <2>1. loader.blob \in Allowed \X Files
    BY Zenon, <1>1, ThreadStates DEF LoadFile, TypeInv
  <2> QED BY <2>1
<1>3. /\ UNCHANGED <<blobs, notifications, prefix_start_after_map, watch, calls, snapshot, phase, todo, listed,
                     ending_delta_files, destructor>>
      /\ loader.pc = "load" /\ loader' = [pc |-> "wait"]
      /\ applied' = [applied EXCEPT ![p] = @ \cup {n}]
  BY <1>2 DEF LoadFile, notifierVars, storage, notifier
<1>4. loader' \in LoaderState /\ loader'.pc = "wait" /\ phase = "started"
  <2>1. loader' \in LoaderState /\ loader'.pc = "wait"
    BY <1>3, ThreadStates
  <2> QED BY Zenon, <1>1, <1>3, <2>1 DEF TypeInv, TypeOK
<1>5. /\ applied' \in [Allowed -> SUBSET Files]
      /\ \A q \in Allowed : applied'[q] = IF q = p THEN applied[p] \cup {n} ELSE applied[q]
  <2>1. applied \in [Allowed -> SUBSET Files]
    BY Zenon, <1>1 DEF TypeInv, TypeOK
  <2> QED BY <1>3, <2>1
<1>6. /\ \A q : Delta(q)' = Delta(q)
      /\ \A q \in Allowed : \A g \in Delta(q) : g \in Nat
      /\ n \in Nat /\ Files \subseteq Nat
      /\ \A q \in Allowed : prefix_start_after_map[q] \in Nat
  BY <1>1, <1>3, DeltaFacts, NameFacts DEF Delta
<1>7. /\ n \in Delta(p)
      /\ n <= prefix_start_after_map[p]
      /\ \A j \in 1..Len(calls) : calls[j][1] = p => n < calls[j][2]
      /\ \A f \in applied[p] : f < n
  BY <1>1, <1>2, <1>3 DEF QueueInv
<1>8. \A q \in Allowed : /\ \A g \in Delta(q) : g <= prefix_start_after_map[q] => g \in applied[q] \/ InQueue(<<q, g>>)
                         /\ \A f \in applied[q] : f <= prefix_start_after_map[q]
  BY <1>1, <1>4 DEF StartedInv
<1>9. TypeInv'
  <2>1. TypeOK'
    BY Zenon, <1>1, <1>3, <1>4, <1>5 DEF TypeInv, TypeOK
  <2> QED BY Zenon, <1>1, <1>3, <1>4, <2>1 DEF TypeInv
<1>10. CreateInv'
  <2>1. \A q \in Allowed : applied'[q] \subseteq Delta(q) /\ applied[q] \subseteq applied'[q]
    <3>1. \A q \in Allowed : applied[q] \subseteq Delta(q)
      BY <1>1 DEF CreateInv
    <3> QED BY <1>5, <1>7, <3>1
  <2> QED BY <1>1, <1>3, <1>4, <1>6, <2>1 DEF CreateInv
<1>11. NoDeltaSkipped'
  <2>1. ASSUME NEW g \in Delta(p), g < n
        PROVE  g \in applied[p]
    <3>1. g <= prefix_start_after_map[p]
      <4>1. g \in Nat /\ n \in Nat /\ prefix_start_after_map[p] \in Nat
        BY <1>6
      <4> QED BY <1>7, <2>1, <4>1
    <3>2. ASSUME NEW j \in 1..Len(calls), calls[j] = <<p, g>>
          PROVE  FALSE
      <4>1. n < g
        BY <1>7, <3>2
      <4> QED BY <1>6, <2>1, <4>1
    <3>3. <<p, g>> # <<p, n>>
      BY <1>6, <2>1
    <3> QED BY Zenon, <1>2, <1>8, <3>1, <3>2, <3>3 DEF InQueue
  <2>2. ASSUME NEW q \in Allowed, NEW f \in applied'[q], NEW g \in Delta(q), g < f
        PROVE  g \in applied'[q]
    <3>1. CASE f \in applied[q]
      BY <1>1, <1>5, <2>2, <3>1 DEF NoDeltaSkipped
    <3>2. CASE q = p /\ f = n
      BY <1>5, <2>1, <2>2, <3>2
    <3> QED BY <1>5, <2>2, <3>1, <3>2
  <2> QED BY <1>6, <2>2 DEF NoDeltaSkipped
<1>12. StartedInv'
  <2>1. \A b : InQueue(b) => InQueue(b)' \/ b = <<p, n>>
    BY <1>2, <1>3 DEF InQueue
  <2>2. ASSUME NEW q \in Allowed
        PROVE  /\ \A g \in Delta(q) : g <= prefix_start_after_map[q] => g \in applied'[q] \/ InQueue(<<q, g>>)'
               /\ \A f \in applied'[q] : f <= prefix_start_after_map[q]
    <3>1. \A g : <<q, g>> = <<p, n>> => q = p /\ g = n
      OBVIOUS
    <3>2. \A g : <<q, g>> = <<p, n>> => g \in applied'[q]
      BY <1>5, <3>1
    <3>3. applied[q] \subseteq applied'[q] /\ \A f \in applied'[q] : f \in applied[q] \/ (q = p /\ f = n)
      BY SMTT(30), <1>5
    <3> QED BY <1>7, <1>8, <2>1, <3>2, <3>3
  <2> QED BY <1>1, <1>3, <1>6, <2>2 DEF StartedInv
<1>13. QueueInv'
  <2>1. ASSUME NEW i \in 1..Len(calls), NEW f \in applied'[calls[i][1]]
        PROVE  f < calls[i][2]
    <3>1. calls[i][1] \in Allowed
      <4>1. calls \in Seq(Allowed \X Files)
        BY Zenon, <1>1 DEF TypeInv, TypeOK
      <4>2. calls[i] \in Allowed \X Files
        BY <4>1
      <4> QED BY <4>2
    <3>2. CASE f \in applied[calls[i][1]]
      BY <1>1, <3>2 DEF QueueInv
    <3>3. CASE calls[i][1] = p /\ f = n
      BY <1>7, <3>3
    <3> QED BY <1>5, <2>1, <3>1, <3>2, <3>3
  <2> QED BY <1>1, <1>3, <1>4, <1>6, <2>1 DEF QueueInv
<1> QED BY <1>9, <1>10, <1>11, <1>12, <1>13 DEF LoadingInv

(* Upload: the new name is beyond everything that was listed or loaded.      *)
LEMMA UploadStep ==
  ASSUME LoadingInv, NEW p \in Prefixes, Upload(p), Unchanged
  PROVE  LoadingInv'
<1>1. TypeInv /\ CreateInv /\ StartedInv /\ QueueInv /\ NoDeltaSkipped
  BY DEF LoadingInv
<1>2. /\ UNCHANGED <<prefix_start_after_map, watch, calls>>
      /\ UNCHANGED <<snapshot, phase, todo, listed, ending_delta_files, loader, destructor, applied>>
      /\ blobs[p] < MaxFile[p]
      /\ blobs' = [blobs EXCEPT ![p] = blobs[p] + 1]
      /\ notifications' \in {notifications, notifications \cup {<<p, blobs[p] + 1>>}}
  BY DEF Upload, Unchanged, notifier
<1>3. blobs[p] + 1 \in Files /\ blobs[p] \in Nat /\ MaxFile[p] \in Nat
  <2>1. blobs[p] + 1 \in Files /\ blobs[p] \in Nat
    BY <1>1, <1>2, NameFacts
  <2> QED BY <2>1, NotifierAssumption
<1>4. /\ blobs' \in [Prefixes -> {0} \cup Files]
      /\ \A q \in Prefixes : blobs'[q] = IF q = p THEN blobs[p] + 1 ELSE blobs[q]
  <2>1. blobs \in [Prefixes -> {0} \cup Files]
    BY Zenon, <1>1 DEF TypeInv, TypeOK
  <2> QED BY <1>2, <1>3, <2>1
<1>5. \A q \in Prefixes : blobs[q] \in Nat
  BY <1>1, NameFacts
<1>6. TypeInv'
  <2>1. notifications' \subseteq Blobs
    <3>1. <<p, blobs[p] + 1>> \in Blobs /\ notifications \subseteq Blobs
      BY Zenon, <1>1, <1>3 DEF Blobs, TypeInv, TypeOK
    <3> QED BY <1>2, <3>1
  <2>2. TypeOK'
    BY Zenon, <1>1, <1>2, <1>4, <2>1 DEF TypeInv, TypeOK
  <2>3. \A q \in Prefixes : blobs[q] <= blobs'[q] /\ blobs'[q] \in Nat
    BY <1>4, <1>5
  <2>4. \A q \in Prefixes : blobs'[q] <= MaxFile[q]
    <3>1. blobs[p] + 1 <= MaxFile[p]
      BY <1>2, <1>3
    <3>2. \A q \in Prefixes : blobs[q] <= MaxFile[q]
      BY Zenon, <1>1 DEF TypeInv
    <3> QED BY <1>4, <3>1, <3>2
  <2>5. \A q \in Allowed : /\ snapshot[q] <= blobs'[q]
                           /\ ending_delta_files[q] <= blobs'[q]
                           /\ prefix_start_after_map[q] <= blobs'[q]
    <3>1. ASSUME NEW q \in Allowed, NEW x \in Nat, x <= blobs[q]
          PROVE  x <= blobs'[q]
      <4>1. blobs[q] \in Nat /\ blobs'[q] \in Nat /\ blobs[q] <= blobs'[q]
        BY <1>1, <1>5, <2>3, NameFacts
      <4> QED BY <3>1, <4>1
    <3>2. \A q \in Allowed : /\ snapshot[q] \in Nat /\ ending_delta_files[q] \in Nat
                             /\ prefix_start_after_map[q] \in Nat
      BY <1>1, NameFacts
    <3>3. \A q \in Allowed : /\ snapshot[q] <= blobs[q]
                             /\ ending_delta_files[q] <= blobs[q]
                             /\ prefix_start_after_map[q] <= blobs[q]
      BY Zenon, <1>1 DEF TypeInv
    <3> QED BY <3>1, <3>2, <3>3
  <2> QED BY Zenon, <1>1, <1>2, <2>2, <2>4, <2>5 DEF TypeInv
<1>7. ASSUME NEW q \in Allowed
      PROVE  /\ Delta(q) \subseteq Delta(q)'
             /\ \A g \in Delta(q)' : g \in Delta(q) \/ \A f \in Nat : f <= blobs[q] => f < g
  <2>1. blobs[q] \in Nat /\ (blobs'[q] = blobs[q] \/ blobs'[q] = blobs[q] + 1) /\ q \in Prefixes
    BY <1>1, <1>4, <1>5, NameFacts
  <2>2. 1..blobs[q] \subseteq 1..blobs'[q] /\ \A g \in 1..blobs'[q] : g \in 1..blobs[q] \/ g = blobs[q] + 1
    BY <2>1
  <2>3. \A f \in Nat : f <= blobs[q] => f < blobs[q] + 1
    BY <2>1
  <2> QED BY <2>2, <2>3 DEF Delta
<1>8. /\ \A q \in Allowed : /\ ending_delta_files[q] \in Nat /\ ending_delta_files[q] <= blobs[q]
                            /\ prefix_start_after_map[q] \in Nat /\ prefix_start_after_map[q] <= blobs[q]
      /\ \A q \in Allowed : \A f \in Delta(q) : f \in Nat /\ f <= blobs[q]
      /\ Files \subseteq Nat
  <2>1. \A q \in Allowed : \A f \in Delta(q) : f \in Nat /\ f <= blobs[q]
    BY <1>1, DeltaFacts
  <2>2. Files \subseteq Nat
    BY <1>1, NameFacts
  <2>3. \A q \in Allowed : ending_delta_files[q] \in Nat /\ prefix_start_after_map[q] \in Nat
    BY <1>1, NameFacts
  <2> QED BY Zenon, <1>1, <2>1, <2>2, <2>3 DEF TypeInv
<1>9. \A f, g \in Nat : ~(f < g /\ g <= f) /\ ~(f < g /\ g < f)
  OBVIOUS
<1>10. \A q \in Allowed : \A g \in Delta(q)' : g \in Nat
  <2>1. \A q \in Allowed : Delta(q)' \subseteq Files
    BY DEF Delta, IsDeltaFilename
  <2> QED BY Zenon, <1>8, <2>1
<1>11. \A q \in Allowed : \A g \in Delta(q)', f \in Nat : g \in Delta(q) \/ ~(f <= blobs[q] /\ (g <= f \/ g < f))
  BY SMTT(30), <1>7, <1>9, <1>10
<1>12. CreateInv'
  <2>1. ASSUME NEW q \in Allowed
        PROVE  /\ applied[q] \subseteq Delta(q)'
               /\ \A g \in Delta(q)' : g <= ending_delta_files[q] => g \in applied[q]
    BY <1>1, <1>7, <1>8, <1>11 DEF CreateInv
  <2>2. ASSUME NEW q \in Allowed, NEW f \in Files, <<q, f>> \in listed
        PROVE  /\ f \in Delta(q)'
               /\ \A g \in Delta(q)' : ending_delta_files[q] < g /\ g < f => <<q, g>> \in listed
    BY <1>1, <1>7, <1>8, <1>11, <2>2 DEF CreateInv
  <2> QED BY SMTT(30), <1>1, <1>2, <2>1, <2>2 DEF CreateInv
<1>13. NoDeltaSkipped'
  <2>1. ASSUME NEW q \in Allowed, NEW f \in applied[q], NEW g \in Delta(q)', g < f
        PROVE  g \in applied[q]
    <3>1. f \in Delta(q)
      BY <1>1, <2>1 DEF CreateInv
    <3>2. g \in Delta(q)
      BY SMTT(30), <1>8, <1>11, <2>1, <3>1
    <3> QED BY <1>1, <2>1, <3>2 DEF NoDeltaSkipped
  <2> QED BY <1>2, <2>1 DEF NoDeltaSkipped
<1>14. StartedInv'
  <2>1. \A b : InQueue(b)' <=> InQueue(b)
    BY <1>2 DEF InQueue
  <2>2. ASSUME phase = "started", NEW q \in Allowed, NEW g \in Delta(q)', g <= prefix_start_after_map[q]
        PROVE  g \in applied[q] \/ InQueue(<<q, g>>)
    BY <1>1, <1>8, <1>11, <2>2 DEF StartedInv
  <2>3. ASSUME phase = "started", watch.pc = "call", NEW q \in Allowed, NEW f \in watch.found[q]
        PROVE  /\ f \in 1..blobs'[q]
               /\ prefix_start_after_map[q] < f
               /\ \A g \in Delta(q)' : prefix_start_after_map[q] < g /\ g < f => g \in watch.found[q]
    <3>1. /\ f \in 1..blobs[q]
          /\ prefix_start_after_map[q] < f
          /\ \A g \in Delta(q) : prefix_start_after_map[q] < g /\ g < f => g \in watch.found[q]
      BY <1>1, <2>3 DEF StartedInv
    <3>2. blobs[q] \in Nat /\ (blobs'[q] = blobs[q] \/ blobs'[q] = blobs[q] + 1)
      BY <1>1, <1>4, <1>5, NameFacts
    <3>3. f \in Nat /\ f <= blobs[q] /\ f \in 1..blobs'[q]
      BY SMTT(30), <3>1, <3>2
    <3> QED BY <1>11, <3>1, <3>3
  <2> QED BY SMTT(30), <1>1, <1>2, <2>1, <2>2, <2>3 DEF StartedInv
<1>15. QueueInv'
  <2>1. ASSUME NEW i \in 1..Len(calls)
        PROVE  calls[i][2] \in Delta(calls[i][1])'
    <3>1. calls \in Seq(Allowed \X Files)
      BY Zenon, <1>1 DEF TypeInv, TypeOK
    <3>2. calls[i] \in Allowed \X Files
      BY <3>1
    <3>3. calls[i][1] \in Allowed
      BY <3>2
    <3>4. PICK q \in Allowed : q = calls[i][1]
      BY <3>3
    <3>5. calls[i][2] \in Delta(q)'
      BY <1>1, <1>7, <3>4 DEF QueueInv
    <3> QED BY <1>2, <3>4, <3>5 DEF Delta
  <2>2. ASSUME loader.pc = "load"
        PROVE  loader.blob[2] \in Delta(loader.blob[1])'
    <3>1. loader.blob \in Allowed \X Files
      BY Zenon, <1>1, <2>2, ThreadStates DEF TypeInv
    <3>2. loader.blob[1] \in Allowed
      BY <3>1
    <3>3. PICK q \in Allowed : q = loader.blob[1]
      BY <3>2
    <3>4. loader.blob[2] \in Delta(q)'
      BY <1>1, <1>7, <2>2, <3>3 DEF QueueInv
    <3> QED BY <1>2, <3>3, <3>4 DEF Delta
  <2> QED BY SMTT(30), <1>1, <1>2, <2>1, <2>2 DEF QueueInv
<1> QED BY <1>6, <1>12, <1>13, <1>14, <1>15 DEF LoadingInv

(***************************************************************************)
(* The theorems.                                                           *)
(***************************************************************************)

(* Every step keeps the invariant.                                           *)
LEMMA LoadingNext ==
  ASSUME LoadingInv, [Next]_vars
  PROVE  LoadingInv'
<1>1. CASE TryCreate
  BY <1>1, LoadSnapshotFilesStep, ListDeltaFilesStep, LoadListedFileStep DEF TryCreate
<1>2. CASE FailTryCreate
  BY <1>2, FailTryCreateStep
<1>3. CASE StartLoading
  BY <1>3, StartLoadingStep
<1>4. CASE NotifierThread
  BY <1>4, QuietSteps, ListStep, CallBackStep DEF NotifierThread, Watch
<1>5. CASE ProcessNewFiles
  BY <1>5, TakeFileStep, LoadFileStep, QuietSteps DEF ProcessNewFiles
<1>6. CASE Destroy \/ Join
  BY <1>6, QuietSteps DEF Join
<1>7. CASE Environment
  BY <1>7, QuietSteps, UploadStep DEF Environment
<1>8. CASE UNCHANGED vars
  <2>1. /\ UNCHANGED <<blobs, notifications, prefix_start_after_map, watch, calls, snapshot, phase, todo,
                       listed, ending_delta_files, loader, destructor, applied>>
    BY <1>8 DEF vars, notifierVars, notifier, storage
  <2>2. TypeInv'
    BY Zenon, <2>1 DEF LoadingInv, TypeInv, TypeOK
  <2> QED BY <2>1, <2>2, LoadingKeep DEF LoadingInv
<1> QED BY <1>1, <1>2, <1>3, <1>4, <1>5, <1>6, <1>7, <1>8 DEF Next

(* The inductive invariant holds in every state.                             *)
LEMMA LoadingInvHolds == Spec => []LoadingInv
<1>1. Init => LoadingInv
  BY LoadingInit
<1>2. LoadingInv /\ [Next]_vars => LoadingInv'
  BY LoadingNext
<1> QED BY <1>1, <1>2, PTL DEF Spec

(* The types hold, and the notifier runs only between Start and the end of   *)
(* the destructor, for any prefixes and names.                               *)
THEOREM OrchestratorTypesHold == Spec => []TypeOK
<1>1. LoadingInv => TypeOK
  BY Zenon DEF LoadingInv, TypeInv
<1> QED BY <1>1, LoadingInvHolds, PTL

(* data_orchestrator.cc loads the delta files of each prefix without a gap:  *)
(* in TryCreate and each of its retries, through the handover in Start, and  *)
(* on the loader thread, whatever is lost, repeated or uploaded meanwhile.   *)
THEOREM DeltasAreNeverSkipped == Spec => []NoDeltaSkipped
<1>1. LoadingInv => NoDeltaSkipped
  BY DEF LoadingInv
<1> QED BY <1>1, LoadingInvHolds, PTL

(* No delta file is queued twice or queued after it was loaded: what the     *)
(* loader holds and the queue behind it ascend in each prefix, beyond        *)
(* everything loaded.                                                        *)
THEOREM QueueIsAlwaysFresh == Spec => []QueueIsFresh
<1>1. LoadingInv => QueueIsFresh
  <2> SUFFICES ASSUME LoadingInv PROVE QueueIsFresh
    OBVIOUS
  <2>1. QueueInv /\ calls \in Seq(Allowed \X Files) /\ loader \in LoaderState
    BY Zenon DEF LoadingInv, TypeInv, TypeOK
  <2>2. CASE loader.pc # "load"
    BY <2>1, <2>2 DEF QueueIsFresh, Queued, QueueInv
  <2>3. CASE loader.pc = "load"
    <3> DEFINE b == loader.blob
    <3>1. Queued = <<b>> \o calls /\ b \in Allowed \X Files
      BY <2>1, <2>3, ThreadStates DEF Queued
    <3> HIDE DEF b
    <3>2. /\ <<b>> \in Seq(Allowed \X Files) /\ Len(<<b>>) = 1 /\ <<b>>[1] = b
          /\ Len(calls) \in Nat
      BY <2>1, <3>1
    <3>3. /\ Len(Queued) = 1 + Len(calls)
          /\ \A i \in 1..(1 + Len(calls)) : Queued[i] = IF i <= 1 THEN <<b>>[i] ELSE calls[i - 1]
      BY <2>1, <3>1, <3>2, ConcatProperties
    <3>4. /\ Queued[1] = b
          /\ \A i \in 1..Len(Queued) : i = 1 \/ (1 < i /\ i - 1 \in 1..Len(calls) /\ Queued[i] = calls[i - 1])
      BY <3>2, <3>3
    <3>5. /\ \A j \in 1..Len(calls) : calls[j][1] = b[1] => b[2] < calls[j][2]
          /\ \A f \in applied[b[1]] : f < b[2]
      BY <2>1, <2>3 DEF QueueInv, b
    <3>6. ASSUME NEW i \in 1..Len(Queued)
          PROVE  /\ \A j \in 1..Len(Queued) : i < j /\ Queued[j][1] = Queued[i][1] => Queued[i][2] < Queued[j][2]
                 /\ \A f \in applied[Queued[i][1]] : f < Queued[i][2]
      <4>1. CASE i = 1
        <5>1. Queued[i] = b
          BY <3>4, <4>1
        <5>2. \A j \in 1..Len(Queued) : i < j => j - 1 \in 1..Len(calls) /\ Queued[j] = calls[j - 1]
          BY <3>3, <3>4, <4>1
        <5> QED BY <3>5, <5>1, <5>2
      <4>2. CASE i # 1
        <5>1. i - 1 \in 1..Len(calls) /\ Queued[i] = calls[i - 1]
          BY <3>4, <4>2
        <5>2. \A j \in 1..Len(Queued) : i < j =>
                j - 1 \in 1..Len(calls) /\ Queued[j] = calls[j - 1] /\ i - 1 < j - 1
          BY <3>3, <3>4, <4>2
        <5> QED BY Zenon, <2>1, <5>1, <5>2 DEF QueueInv
      <4> QED BY <4>1, <4>2
    <3> QED BY <3>6 DEF QueueIsFresh
  <2> QED BY <2>2, <2>3
<1> QED BY <1>1, LoadingInvHolds, PTL
=============================================================================
