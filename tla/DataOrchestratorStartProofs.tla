--------------------- MODULE DataOrchestratorStartProofs ---------------------
(* The inductive invariant of DataOrchestrator, for all prefixes, numbers of  *)
(* files and malformed names, and the steps of TryCreate and Start.           *)
EXTENDS DataOrchestrator, SequenceTheorems, TLAPS

(* Where the Watch loop and the loader thread can be.                        *)
WatchState ==
  {NotStarted, Watching, Waiting, [pc |-> "list"], [pc |-> "done"]} \cup
  [pc : {"call"}, current : SUBSET Allowed, found : [Allowed -> SUBSET Files]]

LoaderState ==
  {[pc |-> "none"], [pc |-> "wait"], [pc |-> "done"]} \cup [pc : {"load"}, blob : Allowed \X Files]

(* Nothing runs before Start; no name lies beyond what has been uploaded.    *)
TypeInv ==
  /\ TypeOK
  /\ watch \in WatchState
  /\ loader \in LoaderState
  /\ listed \subseteq Allowed \X Files
  /\ destructor \in {"no", "stop notifier", "join loader", "returned"}
  /\ phase # "started" => watch = NotStarted /\ calls = <<>>
  /\ phase # "started" => destructor = "no"
  /\ destructor \in {"join loader", "returned"} => watch.pc = "done"
  /\ \A p \in Prefixes : blobs[p] <= MaxFile[p]
  /\ \A p \in Allowed : /\ snapshot[p] <= blobs[p]
                        /\ ending_delta_files[p] <= blobs[p]
                        /\ prefix_start_after_map[p] <= blobs[p]

(* TryCreate: what it has passed over is loaded, and the files it has listed *)
(* are the next ones of their prefix, without a gap.  Once a prefix is       *)
(* listed nothing that an earlier attempt loaded is beyond the list.         *)
CreateInv ==
  /\ phase = "created" => todo = {}
  /\ phase # "deltas" => listed = {}
  /\ \A p \in Allowed :
       /\ applied[p] \subseteq Delta(p)
       /\ \A g \in Delta(p) : g <= ending_delta_files[p] => g \in applied[p]
       /\ phase = "created" \/ (phase = "deltas" /\ p \notin todo) =>
            \A f \in applied[p] : f <= ending_delta_files[p] \/ <<p, f>> \in listed
       /\ \A f \in Files : <<p, f>> \in listed =>
            /\ f \in Delta(p)
            /\ ending_delta_files[p] < f
            /\ \A g \in Delta(p) : ending_delta_files[p] < g /\ g < f => <<p, g>> \in listed

InQueue(b) ==
  \/ \E i \in 1..Len(calls) : calls[i] = b
  \/ loader.pc = "load" /\ loader.blob = b

(* After Start: up to the name that the notifier passed on last, every delta *)
(* file is loaded or queued, and nothing beyond it is.  What a listing found *)
(* and has not passed on are the next names of the prefix, without a gap.    *)
StartedInv ==
  phase = "started" => \A p \in Allowed :
    /\ \A g \in Delta(p) : g <= prefix_start_after_map[p] => g \in applied[p] \/ InQueue(<<p, g>>)
    /\ \A f \in applied[p] : f <= prefix_start_after_map[p]
    /\ watch.pc = "call" => \A f \in watch.found[p] :
         /\ f \in 1..blobs[p]
         /\ prefix_start_after_map[p] < f
         /\ \A g \in Delta(p) : prefix_start_after_map[p] < g /\ g < f => g \in watch.found[p]

(* The queue: delta files that were passed on, ascending in each prefix and  *)
(* beyond everything that is loaded.                                         *)
QueueInv ==
  /\ \A i \in 1..Len(calls) :
       /\ calls[i][2] \in Delta(calls[i][1])
       /\ calls[i][2] <= prefix_start_after_map[calls[i][1]]
       /\ \A j \in 1..Len(calls) : i < j /\ calls[j][1] = calls[i][1] => calls[i][2] < calls[j][2]
       /\ \A f \in applied[calls[i][1]] : f < calls[i][2]
  /\ loader.pc = "load" =>
       /\ loader.blob[2] \in Delta(loader.blob[1])
       /\ loader.blob[2] <= prefix_start_after_map[loader.blob[1]]
       /\ \A j \in 1..Len(calls) : calls[j][1] = loader.blob[1] => loader.blob[2] < calls[j][2]
       /\ \A f \in applied[loader.blob[1]] : f < loader.blob[2]

LoadingInv == TypeInv /\ CreateInv /\ StartedInv /\ QueueInv /\ NoDeltaSkipped

(***************************************************************************)
(* Types.                                                                  *)
(***************************************************************************)

(* Names are positive, and the names uploaded to a prefix are files.         *)
LEMMA NameFacts ==
  ASSUME TypeInv
  PROVE  /\ Files \subseteq Nat \ {0}
         /\ \A p \in Allowed : p \in Prefixes
         /\ \A p \in Prefixes : /\ blobs[p] \in Nat
                                /\ 1..blobs[p] \subseteq Files
                                /\ blobs[p] < MaxFile[p] => blobs[p] + 1 \in Files
         /\ \A p \in Allowed : /\ snapshot[p] \in Nat
                               /\ ending_delta_files[p] \in Nat
                               /\ prefix_start_after_map[p] \in Nat
                               /\ applied[p] \subseteq Files
<1>1. Files \subseteq Nat \ {0}
  BY NotifierAssumption DEF Files
<1>0. \A n \in {0} \cup Files : n \in Nat
  BY <1>1
<1>2. ASSUME NEW p \in Prefixes
      PROVE  /\ blobs[p] \in Nat
             /\ 1..blobs[p] \subseteq Files
             /\ blobs[p] < MaxFile[p] => blobs[p] + 1 \in Files
  <2>1. blobs[p] \in Nat /\ blobs[p] <= MaxFile[p] /\ MaxFile[p] \in Nat
    <3>1. blobs[p] \in {0} \cup Files /\ blobs[p] <= MaxFile[p]
      BY Zenon DEF TypeInv, TypeOK
    <3>2. MaxFile[p] \in Nat
      BY NotifierAssumption
    <3> QED BY <1>0, <3>1, <3>2, Zenon
  <2>2. 1..MaxFile[p] \subseteq Files
    BY DEF Files
  <2> QED BY <2>1, <2>2
<1>3. ASSUME NEW p \in Allowed
      PROVE  /\ snapshot[p] \in Nat /\ ending_delta_files[p] \in Nat
             /\ prefix_start_after_map[p] \in Nat /\ applied[p] \subseteq Files
  <2>1. /\ snapshot[p] \in {0} \cup Files /\ ending_delta_files[p] \in {0} \cup Files
        /\ prefix_start_after_map[p] \in {0} \cup Files /\ applied[p] \subseteq Files
    BY Zenon DEF TypeInv, TypeOK
  <2> QED BY <1>0, <2>1, Zenon
<1> QED BY <1>1, <1>2, <1>3, NotifierAssumption

(* The states of the two threads that the proofs tell apart.                 *)
LEMMA ThreadStates ==
  /\ \A w \in WatchState : w.pc = "call" =>
       w.found \in [Allowed -> SUBSET Files] /\ w.current \in SUBSET Allowed
  /\ \A w \in WatchState : w.pc \in {"off", "watch", "wait", "list", "done", "call"}
  /\ {NotStarted, Watching, Waiting, [pc |-> "list"], [pc |-> "done"]} \subseteq WatchState
  /\ NotStarted.pc = "off" /\ Watching.pc = "watch" /\ Waiting.pc = "wait"
  /\ [pc |-> "list"].pc = "list" /\ [pc |-> "done"].pc = "done"
  /\ \A l \in LoaderState : l.pc = "load" => l.blob \in Allowed \X Files
  /\ \A l \in LoaderState : l.pc \in {"none", "wait", "load", "done"}
  /\ {[pc |-> "none"], [pc |-> "wait"], [pc |-> "done"]} \subseteq LoaderState
  /\ [pc |-> "none"].pc = "none" /\ [pc |-> "wait"].pc = "wait"
<1>1. /\ \A w \in WatchState : w.pc = "call" =>
           w.found \in [Allowed -> SUBSET Files] /\ w.current \in SUBSET Allowed
      /\ \A w \in WatchState : w.pc \in {"off", "watch", "wait", "list", "done", "call"}
      /\ {NotStarted, Watching, Waiting, [pc |-> "list"], [pc |-> "done"]} \subseteq WatchState
  BY DEF WatchState, NotStarted, Watching, Waiting
<1>2. /\ NotStarted.pc = "off" /\ Watching.pc = "watch" /\ Waiting.pc = "wait"
      /\ [pc |-> "list"].pc = "list" /\ [pc |-> "done"].pc = "done"
      /\ [pc |-> "none"].pc = "none" /\ [pc |-> "wait"].pc = "wait"
  BY DEF NotStarted, Watching, Waiting
<1>3. /\ \A l \in LoaderState : l.pc = "load" => l.blob \in Allowed \X Files
      /\ \A l \in LoaderState : l.pc \in {"none", "wait", "load", "done"}
      /\ {[pc |-> "none"], [pc |-> "wait"], [pc |-> "done"]} \subseteq LoaderState
  BY DEF LoaderState
<1> QED BY <1>1, <1>2, <1>3

(* Init satisfies all of the invariant.                                      *)
LEMMA LoadingInit == Init => LoadingInv
<1> SUFFICES ASSUME Init PROVE LoadingInv
  OBVIOUS
<1>1. /\ watch = NotStarted /\ loader = [pc |-> "none"] /\ loader.pc = "none" /\ watch.pc = "off"
      /\ watch \in WatchState /\ loader \in LoaderState
  BY ThreadStates DEF Init, InitNotifier
<1>2. /\ blobs \in [Prefixes -> {0} \cup Files] /\ snapshot \in [Allowed -> {0} \cup Files]
      /\ \A p \in Prefixes : blobs[p] <= MaxFile[p]
      /\ \A p \in Allowed : snapshot[p] <= blobs[p]
      /\ notifications = {} /\ todo = Allowed /\ listed = {} /\ calls = <<>>
      /\ phase = "snapshots" /\ destructor = "no"
      /\ prefix_start_after_map = [p \in Allowed |-> 0]
      /\ ending_delta_files = [p \in Allowed |-> 0]
      /\ applied = [p \in Allowed |-> {}]
  BY DEF Init, InitNotifier
<1>3. calls \in Seq(Allowed \X Files) /\ Len(calls) = 0
  BY <1>2
<1>4. TypeOK
  BY <1>1, <1>2, <1>3 DEF TypeOK
<1>5. \A p \in Allowed : 0 <= blobs[p]
  <2>1. \A f \in Files : 0 <= f
    BY NotifierAssumption DEF Files
  <2> QED BY <1>2, <2>1, NotifierAssumption
<1>6. TypeInv
  BY <1>1, <1>2, <1>4, <1>5 DEF TypeInv
<1>7. CreateInv
  <2>1. \A p \in Allowed : \A g \in Delta(p) : ~(g <= ending_delta_files[p])
    BY <1>2, <1>6, NameFacts DEF Delta
  <2> QED BY <1>2, <2>1 DEF CreateInv
<1>8. StartedInv /\ QueueInv /\ NoDeltaSkipped
  BY <1>1, <1>2, <1>3 DEF StartedInv, QueueInv, NoDeltaSkipped
<1> QED BY <1>6, <1>7, <1>8 DEF LoadingInv

(* Steps of the Watch loop that only move it, and the other steps that leave *)
(* files and queue alone.                                                    *)
LEMMA LoadingKeep ==
  ASSUME LoadingInv,
         UNCHANGED <<blobs, phase, todo, listed, ending_delta_files, applied, calls,
                     prefix_start_after_map>>,
         watch' = watch \/ watch'.pc # "call",
         loader' = loader \/ (loader.pc # "load" /\ loader'.pc # "load")
  PROVE  CreateInv' /\ StartedInv' /\ QueueInv' /\ NoDeltaSkipped'
<1>1. \A p : Delta(p)' = Delta(p)
  BY DEF Delta
<1>2. CreateInv' /\ NoDeltaSkipped'
  BY <1>1 DEF LoadingInv, CreateInv, NoDeltaSkipped
<1>3. \A b : InQueue(b)' <=> InQueue(b)
  BY DEF InQueue
<1>4. StartedInv'
  BY <1>1, <1>3 DEF LoadingInv, StartedInv
<1>5. QueueInv'
  BY <1>1 DEF LoadingInv, QueueInv
<1> QED BY <1>2, <1>4, <1>5

(* The delta files of a prefix are its well-formed names.                    *)
LEMMA DeltaFacts ==
  ASSUME TypeInv
  PROVE  \A p \in Allowed : \A g :
           g \in Delta(p) <=> g \in Files /\ g \in Nat /\ IsDeltaFilename(g) /\ 0 < g /\ g <= blobs[p]
<1>1. \A g : IsDeltaFilename(g) => g \in Files
  BY DEF IsDeltaFilename
<1>2. \A p \in Allowed : blobs[p] \in Nat /\ 1..blobs[p] \subseteq Files
  BY NameFacts
<1>3. Files \subseteq Nat \ {0}
  BY NameFacts
<1> QED BY <1>1, <1>2, <1>3 DEF Delta

(***************************************************************************)
(* The steps.                                                              *)
(***************************************************************************)

(* The steps of the Watch loop before it lists and after it has called back, *)
(* and the steps of the destructor, of the flag and of the loader's end.     *)
LEMMA QuietSteps ==
  ASSUME LoadingInv,
         \/ /\ StopsWatching \/ KeepsWatching \/ BackupPoll \/ WaitFails \/ Notified
               \/ NoNewFile \/ ExpireFlag
            /\ Unchanged
         \/ Destroy
         \/ JoinNotifier \/ JoinLoader
         \/ EndLoader
         \/ \E p \in Allowed : UploadSnapshot(p)
  PROVE  LoadingInv'
<1> USE DEF LoadingInv
<1>1. CASE /\ StopsWatching \/ KeepsWatching \/ BackupPoll \/ WaitFails \/ Notified
              \/ NoNewFile
           /\ Unchanged
  <2>1. /\ watch' \in {Watching, Waiting, [pc |-> "list"], [pc |-> "done"]}
        /\ UNCHANGED <<blobs, expiring_flag, prefix_start_after_map, should_stop_, calls>>
        /\ notifications' \subseteq notifications
    BY <1>1 DEF StopsWatching, KeepsWatching, BackupPoll, WaitFails, Notified, NoNewFile, storage
  <2>2. watch.pc \in {"watch", "wait", "list", "call"}
    BY <1>1, ThreadStates
       DEF StopsWatching, KeepsWatching, BackupPoll, WaitFails, Notified, NoNewFile
  <2>3. watch' \in WatchState /\ watch'.pc # "call"
    BY <2>1, ThreadStates
  <2>4. UNCHANGED <<snapshot, phase, todo, listed, ending_delta_files, loader, destructor, applied>>
    BY <1>1 DEF Unchanged
  <2>5. phase = "started" /\ destructor \in {"no", "stop notifier"}
    BY Zenon, <2>2 DEF TypeInv, TypeOK
  <2>6. TypeInv'
    BY Zenon, <2>1, <2>3, <2>4, <2>5 DEF TypeInv, TypeOK
  <2> QED BY <2>1, <2>3, <2>4, <2>6, LoadingKeep
<1>2. CASE ExpireFlag /\ Unchanged
  <2>1. UNCHANGED <<blobs, notifications, prefix_start_after_map, watch, calls, snapshot, phase, todo,
                    listed, ending_delta_files, loader, destructor, applied>>
    BY <1>2 DEF ExpireFlag, Unchanged, storage
  <2>2. TypeInv'
    BY Zenon, <2>1 DEF TypeInv, TypeOK
  <2> QED BY <2>1, <2>2, LoadingKeep
<1>3. CASE Destroy \/ JoinNotifier \/ JoinLoader
  <2>1. UNCHANGED <<blobs, notifications, prefix_start_after_map, watch, calls, snapshot, phase, todo,
                    listed, ending_delta_files, loader, applied>>
    BY Zenon, <1>3 DEF Destroy, JoinNotifier, JoinLoader, RequestStop, notifierVars, notifier, storage
  <2>2. \/ phase = "started" /\ destructor' = "stop notifier" /\ destructor = "no"
        \/ destructor' = "join loader" /\ watch.pc = "done" /\ destructor = "stop notifier"
        \/ destructor' = "returned" /\ destructor = "join loader"
    BY Zenon, <1>3 DEF Destroy, JoinNotifier, JoinLoader
  <2>3. TypeInv'
    BY Zenon, <2>1, <2>2 DEF TypeInv, TypeOK
  <2> QED BY <2>1, <2>3, LoadingKeep
<1>4. CASE EndLoader
  <2>1. /\ UNCHANGED <<blobs, notifications, prefix_start_after_map, watch, calls, snapshot, phase, todo,
                       listed, ending_delta_files, destructor, applied>>
        /\ loader.pc = "wait" /\ loader' = [pc |-> "done"]
    BY <1>4 DEF EndLoader, notifierVars, notifier, storage
  <2>2. loader' \in LoaderState /\ loader'.pc = "done"
    BY <2>1, ThreadStates
  <2>3. TypeInv'
    BY Zenon, <2>1, <2>2 DEF TypeInv, TypeOK
  <2> QED BY <2>1, <2>2, <2>3, LoadingKeep
<1>5. ASSUME NEW p \in Allowed, UploadSnapshot(p)
      PROVE  LoadingInv'
  <2>1. /\ UNCHANGED <<blobs, notifications, prefix_start_after_map, watch, calls, loader, phase, todo,
                       listed, ending_delta_files, destructor, applied>>
        /\ snapshot' = [snapshot EXCEPT ![p] = blobs[p]]
    BY <1>5 DEF UploadSnapshot, notifierVars, notifier, storage
  <2>2. blobs[p] \in {0} \cup Files /\ blobs[p] <= blobs[p]
    <3>1. p \in Prefixes /\ blobs[p] \in Nat
      BY NameFacts
    <3>2. blobs[p] \in {0} \cup Files
      BY Zenon, <3>1 DEF TypeInv, TypeOK
    <3> QED BY <3>1, <3>2
  <2>3. snapshot' \in [Allowed -> {0} \cup Files] /\ \A q \in Allowed : snapshot'[q] <= blobs[q]
    <3>1. snapshot \in [Allowed -> {0} \cup Files] /\ \A q \in Allowed : snapshot[q] <= blobs[q]
      BY Zenon DEF TypeInv, TypeOK
    <3>2. \A q \in Allowed : snapshot'[q] = IF q = p THEN blobs[p] ELSE snapshot[q]
      BY <2>1, <3>1
    <3>3. snapshot' \in [Allowed -> {0} \cup Files]
      BY <2>1, <2>2, <3>1
    <3> QED BY <2>2, <3>1, <3>2, <3>3
  <2>4. TypeInv'
    BY Zenon, <2>1, <2>3 DEF TypeInv, TypeOK
  <2> QED BY <2>1, <2>4, LoadingKeep
<1> QED BY <1>1, <1>2, <1>3, <1>4, <1>5

(* LoadSnapshotFiles passes over the files that the snapshot includes and    *)
(* loads their data.                                                         *)
LEMMA LoadSnapshotFilesStep ==
  ASSUME LoadingInv, NEW p \in Allowed, LoadSnapshotFiles(p)
  PROVE  LoadingInv'
<1> DEFINE S == {f \in 1..snapshot[p] : IsDeltaFilename(f)}
<1>1. TypeInv /\ CreateInv /\ NoDeltaSkipped
  BY DEF LoadingInv
<1>2. /\ UNCHANGED <<blobs, notifications, prefix_start_after_map, watch, calls, snapshot, listed,
                     loader, destructor>>
      /\ phase = "snapshots" /\ phase' \in {"snapshots", "deltas"}
      /\ phase' = "deltas" => todo' = Allowed
      /\ todo' \subseteq Allowed
      /\ applied' = [applied EXCEPT ![p] = @ \cup S]
      /\ ending_delta_files' = [ending_delta_files EXCEPT ![p] = snapshot[p]]
  BY <1>1 DEF LoadSnapshotFiles, notifierVars, notifier, storage, TypeInv, TypeOK
<1>3. /\ applied \in [Allowed -> SUBSET Files] /\ ending_delta_files \in [Allowed -> {0} \cup Files]
      /\ snapshot[p] \in {0} \cup Files /\ snapshot[p] <= blobs[p]
  BY Zenon, <1>1 DEF TypeInv, TypeOK
<1>4. S \subseteq Files
  BY DEF IsDeltaFilename
<1>5. /\ applied' \in [Allowed -> SUBSET Files] /\ ending_delta_files' \in [Allowed -> {0} \cup Files]
      /\ \A q \in Allowed : /\ applied'[q] = IF q = p THEN applied[p] \cup S ELSE applied[q]
                            /\ ending_delta_files'[q] = IF q = p THEN snapshot[p] ELSE ending_delta_files[q]
  <2> HIDE DEF S
  <2> QED BY <1>2, <1>3, <1>4
<1>6. TypeInv'
  <2>1. \A q \in Allowed : ending_delta_files'[q] <= blobs'[q]
    BY <1>1, <1>2, <1>3, <1>5 DEF TypeInv
  <2>2. TypeOK'
    BY <1>1, <1>2, <1>5 DEF TypeInv, TypeOK
  <2> QED BY <1>1, <1>2, <2>1, <2>2 DEF TypeInv
<1>7. /\ \A q : Delta(q)' = Delta(q)
      /\ \A q \in Allowed : \A g : g \in Delta(q) <=>
           g \in Files /\ g \in Nat /\ IsDeltaFilename(g) /\ 0 < g /\ g <= blobs[q]
      /\ snapshot[p] \in Nat /\ blobs[p] \in Nat
  BY <1>1, <1>2, DeltaFacts, NameFacts DEF Delta
<1>8. \A g : g \in S <=> g \in Delta(p) /\ g <= snapshot[p]
  BY <1>3, <1>4, <1>7
<1>9. CreateInv'
  <2>1. listed' = {}
    BY <1>1, <1>2 DEF CreateInv
  <2>2. ASSUME NEW q \in Allowed
        PROVE  /\ applied'[q] \subseteq Delta(q)
               /\ \A g \in Delta(q) : g <= ending_delta_files'[q] => g \in applied'[q]
    <3> HIDE DEF S
    <3> QED BY <1>1, <1>5, <1>8 DEF CreateInv
  <2> QED BY <1>2, <1>7, <2>1, <2>2 DEF CreateInv
<1>10. NoDeltaSkipped'
  <2>1. ASSUME NEW q \in Allowed, NEW f \in applied'[q], NEW g \in Delta(q), g < f
        PROVE  g \in applied'[q]
    <3>1. CASE f \in applied[q]
      BY <1>1, <1>5, <2>1, <3>1 DEF NoDeltaSkipped
    <3>2. CASE q = p /\ f \in S
      <4>1. g <= snapshot[p]
        BY <1>7, <1>8, <2>1, <3>2
      <4> QED BY <1>5, <1>8, <3>2, <4>1
    <3> QED BY <1>5, <2>1, <3>1, <3>2
  <2> QED BY <1>7, <2>1 DEF NoDeltaSkipped
<1>11. StartedInv' /\ QueueInv'
  <2>1. phase' # "started"
    BY <1>2
  <2>2. Len(calls') = 0 /\ loader'.pc = "none"
    BY <1>6, <2>1 DEF TypeInv, TypeOK
  <2> QED BY <2>1, <2>2 DEF StartedInv, QueueInv
<1> QED BY <1>6, <1>9, <1>10, <1>11 DEF LoadingInv

(* ListDeltaFiles: the listing begins where the snapshot ends.               *)
LEMMA ListDeltaFilesStep ==
  ASSUME LoadingInv, NEW p \in Allowed, ListDeltaFiles(p)
  PROVE  LoadingInv'
<1>1. TypeInv /\ CreateInv /\ NoDeltaSkipped
  BY DEF LoadingInv
<1>2. /\ UNCHANGED <<blobs, notifications, prefix_start_after_map, watch, calls, snapshot, ending_delta_files,
                     applied, loader, destructor>>
      /\ phase = "deltas" /\ listed = {} /\ p \in todo
      /\ listed' = {p} \X {f \in ListedFrom(p) : IsDeltaFilename(f)}
      /\ todo' = todo \ {p}
      /\ phase' = IF todo = {p} /\ listed' = {} THEN "created" ELSE "deltas"
  BY DEF ListDeltaFiles, notifierVars, notifier, storage
<1>3. /\ \A q : Delta(q)' = Delta(q)
      /\ \A q \in Allowed : \A g : g \in Delta(q) <=>
           g \in Files /\ g \in Nat /\ IsDeltaFilename(g) /\ 0 < g /\ g <= blobs[q]
      /\ ending_delta_files[p] \in Nat /\ blobs[p] \in Nat
  BY <1>1, <1>2, DeltaFacts, NameFacts DEF Delta
<1>4. \A q, f : <<q, f>> \in listed' <=> q = p /\ f \in Delta(p) /\ ending_delta_files[p] < f
  <2>1. \A f : f \in ListedFrom(p) /\ IsDeltaFilename(f) <=> f \in Delta(p) /\ ending_delta_files[p] < f
    <3>1. \A f : f \in ListedFrom(p) <=> f \in 1..blobs[p] /\ ending_delta_files[p] < f
      BY <1>3 DEF ListedFrom
    <3> QED BY <3>1 DEF Delta
  <2> QED BY <1>2, <2>1
<1>5. listed' \subseteq Allowed \X Files
  <2>1. \A f \in ListedFrom(p) : IsDeltaFilename(f) => f \in Files
    BY DEF IsDeltaFilename
  <2> QED BY <1>2, <2>1
<1>6. TypeInv'
  <2>1. phase' \in {"created", "deltas"} /\ todo' \subseteq Allowed
    BY <1>1, <1>2 DEF TypeInv, TypeOK
  <2>2. Allowed \subseteq Prefixes
    BY NotifierAssumption
  <2>3. TypeOK'
    BY <1>1, <1>2, <1>5, <2>1, <2>2 DEF TypeInv, TypeOK, Blobs
  <2> QED BY <1>1, <1>2, <1>5, <2>1, <2>3 DEF TypeInv
<1>7. CreateInv'
  <2>1. (phase' = "created" => todo' = {}) /\ (phase' # "deltas" => listed' = {})
    BY <1>2
  <2>2. ASSUME NEW q \in Allowed
        PROVE  /\ applied[q] \subseteq Delta(q)
               /\ \A g \in Delta(q) : g <= ending_delta_files[q] => g \in applied[q]
    BY <1>1 DEF CreateInv
  <2>3. ASSUME NEW q \in Allowed, phase' = "created" \/ (phase' = "deltas" /\ q \notin todo'),
               NEW f \in applied[q]
        PROVE  f \in Files /\ (f <= ending_delta_files[q] \/ <<q, f>> \in listed')
    <3>1. f \in Delta(q)
      BY <2>2, <2>3
    <3>2. CASE q = p
      BY <1>3, <1>4, <3>1, <3>2
    <3>3. CASE q # p
      <4>1. q \notin todo
        BY <1>2, <2>3, <3>3
      <4>2. f <= ending_delta_files[q] \/ <<q, f>> \in listed
        BY <1>1, <1>2, <4>1, <2>3 DEF CreateInv
      <4> QED BY <1>2, <1>3, <3>1, <4>2
    <3> QED BY <3>2, <3>3
  <2>4. ASSUME NEW q \in Allowed, NEW f \in Files, <<q, f>> \in listed'
        PROVE  /\ f \in Delta(q)
               /\ ending_delta_files[q] < f
               /\ \A g \in Delta(q) : ending_delta_files[q] < g /\ g < f => <<q, g>> \in listed'
    BY <1>4, <2>4
  <2> QED BY <1>2, <1>3, <2>1, <2>2, <2>3, <2>4 DEF CreateInv
<1>8. NoDeltaSkipped'
  BY <1>1, <1>2, <1>3 DEF NoDeltaSkipped
<1>9. StartedInv' /\ QueueInv'
  <2>1. phase' # "started"
    BY <1>2
  <2>2. Len(calls') = 0 /\ loader'.pc = "none"
    BY <1>6, <2>1 DEF TypeInv, TypeOK
  <2> QED BY <2>1, <2>2 DEF StartedInv, QueueInv
<1> QED BY <1>6, <1>7, <1>8, <1>9 DEF LoadingInv

(* LoadListedFile takes the first of the listed files: all delta files       *)
(* before it are loaded.                                                     *)
LEMMA LoadListedFileStep ==
  ASSUME LoadingInv, LoadListedFile
  PROVE  LoadingInv'
<1>1. TypeInv /\ CreateInv /\ NoDeltaSkipped
  BY DEF LoadingInv
<1>2. PICK b \in listed :
        /\ \A c \in listed : b[2] <= c[2]
        /\ ending_delta_files' = [ending_delta_files EXCEPT ![b[1]] = b[2]]
        /\ applied' = [applied EXCEPT ![b[1]] = @ \cup {b[2]}]
        /\ listed' = listed \ {b}
        /\ phase' = IF todo = {} /\ listed' = {} THEN "created" ELSE phase
  BY Zenon DEF LoadListedFile
<1>3. PICK p \in Allowed, n \in Files : b = <<p, n>>
  <2>1. b \in Allowed \X Files
    BY Zenon, <1>1, <1>2 DEF TypeInv
  <2> QED BY <2>1
<1>4. /\ UNCHANGED <<blobs, notifications, prefix_start_after_map, watch, calls, snapshot, todo,
                     loader, destructor>>
      /\ phase = "deltas"
      /\ phase' = IF todo = {} /\ listed' = {} THEN "created" ELSE "deltas"
      /\ listed' = listed \ {<<p, n>>} /\ <<p, n>> \in listed
  BY <1>2, <1>3 DEF LoadListedFile, notifierVars, notifier, storage
<1>5. /\ applied' \in [Allowed -> SUBSET Files] /\ ending_delta_files' \in [Allowed -> {0} \cup Files]
      /\ \A q \in Allowed : /\ applied'[q] = IF q = p THEN applied[p] \cup {n} ELSE applied[q]
                            /\ ending_delta_files'[q] = IF q = p THEN n ELSE ending_delta_files[q]
  <2>1. applied \in [Allowed -> SUBSET Files] /\ ending_delta_files \in [Allowed -> {0} \cup Files]
    BY Zenon, <1>1 DEF TypeInv, TypeOK
  <2>2. /\ applied' = [applied EXCEPT ![p] = @ \cup {n}]
        /\ ending_delta_files' = [ending_delta_files EXCEPT ![p] = n]
    BY <1>2, <1>3
  <2> QED BY <2>1, <2>2
<1>6. /\ \A q : Delta(q)' = Delta(q)
      /\ \A q \in Allowed : \A g : g \in Delta(q) <=>
           g \in Files /\ g \in Nat /\ IsDeltaFilename(g) /\ 0 < g /\ g <= blobs[q]
      /\ \A q \in Allowed : ending_delta_files[q] \in Nat /\ blobs[q] \in Nat
      /\ n \in Nat /\ Files \subseteq Nat
  BY <1>1, <1>4, DeltaFacts, NameFacts DEF Delta
<1>7. /\ n \in Delta(p)
      /\ ending_delta_files[p] < n
      /\ \A g \in Delta(p) : ending_delta_files[p] < g /\ g < n => <<p, g>> \in listed
  BY <1>1, <1>4 DEF CreateInv
<1>8. \A g : <<p, g>> \in listed => n <= g
  <2>1. \A g : <<p, g>>[2] = g
    OBVIOUS
  <2> QED BY <1>2, <1>3, <2>1
<1>9. \A g \in Delta(p) : g < n => g \in applied[p]
  <2>1. ASSUME NEW g \in Delta(p), g < n
        PROVE  g \in applied[p]
    <3>1. g \in Nat
      BY <1>6
    <3>2. ~(n <= g)
      BY <1>6, <2>1, <3>1
    <3>3. <<p, g>> \notin listed
      BY <1>8, <3>2
    <3>4. g <= ending_delta_files[p]
      BY <1>6, <1>7, <2>1, <3>1, <3>3
    <3> QED BY <1>1, <3>4 DEF CreateInv
  <2> QED BY <2>1
<1>10. TypeInv'
  <2>1. \A q \in Allowed : ending_delta_files'[q] <= blobs'[q]
    <3>1. \A q \in Allowed : ending_delta_files[q] <= blobs[q]
      BY Zenon, <1>1 DEF TypeInv
    <3>2. n <= blobs[p]
      BY <1>6, <1>7
    <3> QED BY <1>4, <1>5, <3>1, <3>2
  <2>2. listed' \subseteq listed
    BY <1>4
  <2>3. TypeOK'
    BY <1>1, <1>4, <1>5, <2>2 DEF TypeInv, TypeOK
  <2> QED BY SMTT(30), <1>1, <1>4, <2>1, <2>2, <2>3 DEF TypeInv
<1>11. CreateInv'
  <2>1. (phase' = "created" => todo' = {}) /\ (phase' # "deltas" => listed' = {})
    BY <1>4
  <2>2. ASSUME NEW q \in Allowed
        PROVE  /\ applied'[q] \subseteq Delta(q)
               /\ \A g \in Delta(q) : g <= ending_delta_files'[q] => g \in applied'[q]
    <3>1. CASE q # p
      BY <1>1, <1>5, <3>1 DEF CreateInv
    <3>2. CASE q = p
      <4>1. applied[p] \subseteq Delta(p)
        BY <1>1 DEF CreateInv
      <4>2. \A g \in Delta(p) : g <= n => g < n \/ g = n
        BY <1>6
      <4> QED BY <1>5, <1>7, <1>9, <3>2, <4>1, <4>2
    <3> QED BY <3>1, <3>2
  <2>3. ASSUME NEW q \in Allowed, phase' = "created" \/ (phase' = "deltas" /\ q \notin todo'),
               NEW f \in applied'[q]
        PROVE  f <= ending_delta_files'[q] \/ <<q, f>> \in listed'
    <3>1. q \notin todo
      BY <1>4, <2>3
    <3>2. f \in applied[q] => f <= ending_delta_files[q] \/ <<q, f>> \in listed
      BY <1>1, <1>4, <3>1 DEF CreateInv
    <3>3. f \in Nat
      BY <1>6, <2>2, <2>3
    <3>4. CASE q # p
      BY <1>4, <1>5, <2>3, <3>2, <3>4
    <3>5. CASE q = p
      <4>1. f <= ending_delta_files[p] => f <= n
        BY <1>6, <1>7, <3>3
      <4>2. f = n => f <= n
        BY <1>6
      <4> QED BY <1>4, <1>5, <2>3, <3>2, <3>5, <4>1, <4>2
    <3> QED BY <3>4, <3>5
  <2>4. ASSUME NEW q \in Allowed, NEW f \in Files, <<q, f>> \in listed'
        PROVE  /\ f \in Delta(q)
               /\ ending_delta_files'[q] < f
               /\ \A g \in Delta(q) : ending_delta_files'[q] < g /\ g < f => <<q, g>> \in listed'
    <3>1. <<q, f>> \in listed /\ <<q, f>> # <<p, n>>
      BY <1>4, <2>4
    <3>2. /\ f \in Delta(q)
          /\ ending_delta_files[q] < f
          /\ \A g \in Delta(q) : ending_delta_files[q] < g /\ g < f => <<q, g>> \in listed
      BY <1>1, <3>1 DEF CreateInv
    <3>3. CASE q # p
      BY <1>4, <1>5, <3>2, <3>3
    <3>4. CASE q = p
      <4>1. n < f
        BY <1>6, <1>8, <3>1, <3>4
      <4>2. \A g \in Delta(p) : n < g => ending_delta_files[p] < g /\ g # n
        BY <1>6, <1>7
      <4> QED BY <1>4, <1>5, <3>2, <3>4, <4>1, <4>2
    <3> QED BY <3>3, <3>4
  <2> QED BY <1>6, <2>1, <2>2, <2>3, <2>4 DEF CreateInv
<1>12. NoDeltaSkipped'
  <2>1. ASSUME NEW q \in Allowed, NEW f \in applied'[q], NEW g \in Delta(q), g < f
        PROVE  g \in applied'[q]
    <3>1. CASE f \in applied[q]
      BY <1>1, <1>5, <2>1, <3>1 DEF NoDeltaSkipped
    <3>2. CASE q = p /\ f = n
      BY SMTT(30), <1>5, <1>9, <2>1, <3>2
    <3> QED BY <1>5, <2>1, <3>1, <3>2
  <2> QED BY <1>6, <2>1 DEF NoDeltaSkipped
<1>13. StartedInv' /\ QueueInv'
  <2>1. phase' # "started"
    BY <1>4
  <2>2. Len(calls') = 0 /\ loader'.pc = "none"
    BY <1>10, <2>1 DEF TypeInv, TypeOK
  <2> QED BY <2>1, <2>2 DEF StartedInv, QueueInv
<1> QED BY <1>10, <1>11, <1>12, <1>13 DEF LoadingInv

(* A failed TryCreate starts over and keeps what was loaded.                 *)
LEMMA FailTryCreateStep ==
  ASSUME LoadingInv, FailTryCreate
  PROVE  LoadingInv'
<1>1. TypeInv /\ CreateInv /\ NoDeltaSkipped
  BY DEF LoadingInv
<1>2. /\ UNCHANGED <<blobs, notifications, prefix_start_after_map, watch, calls, snapshot, applied,
                     loader, destructor>>
      /\ phase # "started" /\ phase' = "snapshots" /\ todo' = Allowed /\ listed' = {}
      /\ ending_delta_files' = [p \in Allowed |-> 0]
  BY DEF FailTryCreate, notifierVars, notifier, storage
<1>3. /\ \A q : Delta(q)' = Delta(q)
      /\ \A q \in Allowed : \A g \in Delta(q) : g \in Nat /\ 0 < g
      /\ \A q \in Allowed : 0 <= blobs[q]
  BY <1>1, <1>2, DeltaFacts, NameFacts DEF Delta
<1>4. TypeInv'
  <2>1. TypeOK'
    BY SMTT(30), <1>1, <1>2 DEF TypeInv, TypeOK
  <2> QED BY <1>1, <1>2, <1>3, <2>1 DEF TypeInv
<1>5. CreateInv'
  <2>1. \A q \in Allowed : \A g \in Delta(q) : ~(g <= ending_delta_files'[q])
    BY <1>2, <1>3
  <2> QED BY <1>1, <1>2, <1>3, <2>1 DEF CreateInv
<1>6. NoDeltaSkipped'
  BY <1>1, <1>2, <1>3 DEF NoDeltaSkipped
<1>7. StartedInv' /\ QueueInv'
  <2>2. Len(calls') = 0 /\ loader'.pc = "none"
    BY <1>2, <1>4 DEF TypeInv, TypeOK
  <2> QED BY <1>2, <2>2 DEF StartedInv, QueueInv
<1> QED BY <1>4, <1>5, <1>6, <1>7 DEF LoadingInv

(* Start hands over: the notifier goes on after the last file that TryCreate *)
(* loaded.                                                                   *)
LEMMA StartLoadingStep ==
  ASSUME LoadingInv, StartLoading
  PROVE  LoadingInv'
<1>1. TypeInv /\ CreateInv /\ NoDeltaSkipped
  BY DEF LoadingInv
<1>2. /\ UNCHANGED <<blobs, notifications, calls, snapshot, todo, listed, ending_delta_files,
                     applied, destructor>>
      /\ phase = "created" /\ phase' = "started"
      /\ prefix_start_after_map' = ending_delta_files
      /\ watch' = Watching /\ loader' = [pc |-> "wait"]
  BY DEF StartLoading, Start, storage
<1>3. /\ watch' \in WatchState /\ loader' \in LoaderState
      /\ watch'.pc = "watch" /\ loader'.pc = "wait"
  BY <1>2, ThreadStates
<1>4. Len(calls) = 0 /\ destructor = "no" /\ listed = {}
  BY <1>1, <1>2 DEF TypeInv, CreateInv
<1>5. \A q : Delta(q)' = Delta(q)
  BY <1>2 DEF Delta
<1>6. TypeInv'
  <2>1. TypeOK'
    BY SMTT(30), <1>1, <1>2, <1>3, <1>4 DEF TypeInv, TypeOK
  <2> QED BY <1>1, <1>2, <1>3, <1>4, <2>1 DEF TypeInv
<1>7. CreateInv' /\ NoDeltaSkipped'
  BY SMTT(30), <1>1, <1>2, <1>4, <1>5 DEF CreateInv, NoDeltaSkipped
<1>8. StartedInv'
  BY SMTT(30), <1>1, <1>2, <1>3, <1>4, <1>5 DEF CreateInv, StartedInv
<1>9. QueueInv'
  BY <1>2, <1>3, <1>4 DEF QueueInv
<1> QED BY <1>6, <1>7, <1>8, <1>9 DEF LoadingInv
=============================================================================
