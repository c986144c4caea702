--------------------------- MODULE DataOrchestrator ---------------------------
(***************************************************************************)
(* Which files the data server loads, and when: TryCreate loads the most    *)
(* recent snapshot of every prefix and the delta files after it, Start      *)
(* hands over to the DeltaFileNotifier and to the thread that loads the     *)
(* files it finds, the destructor stops both                                *)
(* (components/data_server/data_loading/data_orchestrator.cc, called by     *)
(* components/data_server/server/server.cc, which retries TryCreate).       *)
(* What loading a file does to the cache is the subject of DataLoading.     *)
(***************************************************************************)
EXTENDS DeltaFileNotifier

CONSTANT
  Unreadable    \* blobs whose load never succeeds

ASSUME UnreadableAssumption == Unreadable \subseteq Blobs

VARIABLES
  snapshot,            \* allowed prefix -> last delta file that its most recent
                       \* snapshot for this shard includes, 0 if there is none
  phase,               \* "snapshots", "deltas": inside TryCreate; "created", "started"
  todo,                \* prefixes that this phase of TryCreate has not finished
  listed,              \* files of the current prefix still to load in TryCreate
  ending_delta_files,  \* allowed prefix -> last name seen by TryCreate, 0 if none
  loader,              \* what data_loader_thread_ is doing
  destructor,          \* "no", then the step the destructor is at
  applied              \* history: prefix -> delta files whose data was loaded

vars == <<notifierVars, snapshot, phase, todo, listed, ending_delta_files,
          loader, destructor, applied>>

Loads(p, file) == <<p, file>> \notin Unreadable

stop_ == destructor # "no"

Delta(p) == {f \in 1..blobs[p] : IsDeltaFilename(f)}

Init ==
  /\ InitNotifier
  /\ snapshot \in [Allowed -> {0} \cup Files]
  /\ \A p \in Allowed : snapshot[p] <= blobs[p]
  /\ phase = "snapshots"
  /\ todo = Allowed
  /\ listed = {}
  /\ ending_delta_files = [p \in Allowed |-> 0]
  /\ loader = [pc |-> "none"]
  /\ destructor = "no"
  /\ applied = [p \in Allowed |-> {}]

-----------------------------------------------------------------------------
(* TryCreate. *)

(* The most recent complete snapshot of the prefix, if there is one for this *)
(* shard, is loaded and tells after which delta file to go on.               *)
LoadSnapshotFiles(p) ==
  /\ phase = "snapshots"
  /\ p \in todo
  /\ applied' = [applied EXCEPT ![p] = @ \cup {f \in 1..snapshot[p] : IsDeltaFilename(f)}]
  /\ ending_delta_files' = [ending_delta_files EXCEPT ![p] = snapshot[p]]
  /\ todo' = IF todo = {p} THEN Allowed ELSE todo \ {p}
  /\ phase' = IF todo = {p} THEN "deltas" ELSE phase
  /\ UNCHANGED <<notifierVars, snapshot, listed, loader, destructor>>

ListedFrom(p) == {f \in 1..blobs[p] : f > ending_delta_files[p]}

(* The delta files of the next prefix; prefixes are left in listed as pairs. *)
ListDeltaFiles(p) ==
  /\ phase = "deltas"
  /\ listed = {}
  /\ p \in todo
  /\ listed' = {p} \X {f \in ListedFrom(p) : IsDeltaFilename(f)}
  /\ todo' = todo \ {p}
  /\ phase' = IF todo = {p} /\ listed' = {} THEN "created" ELSE phase
  /\ UNCHANGED <<notifierVars, snapshot, ending_delta_files, loader, destructor, applied>>

LoadListedFile ==
  /\ phase = "deltas"
  /\ \E b \in listed :
       /\ \A c \in listed : b[2] <= c[2]
       /\ Loads(b[1], b[2])
       /\ ending_delta_files' = [ending_delta_files EXCEPT ![b[1]] = b[2]]
       /\ applied' = [applied EXCEPT ![b[1]] = @ \cup {b[2]}]
       /\ listed' = listed \ {b}
       /\ phase' = IF todo = {} /\ listed' = {} THEN "created" ELSE phase
  /\ UNCHANGED <<notifierVars, snapshot, todo, loader, destructor>>

(* Any listing or load may fail: TryCreate returns the error and is called   *)
(* again; the cache keeps what was loaded.                                   *)
FailTryCreate ==
  /\ phase \in {"snapshots", "deltas"}
  /\ phase' = "snapshots"
  /\ todo' = Allowed
  /\ listed' = {}
  /\ ending_delta_files' = [p \in Allowed |-> 0]
  /\ UNCHANGED <<notifierVars, snapshot, loader, destructor, applied>>

-----------------------------------------------------------------------------
(* Start: the notifier begins after the last file that TryCreate saw. *)
StartLoading ==
  /\ phase = "created"
  /\ Start(ending_delta_files)
  /\ loader' = [pc |-> "wait"]
  /\ phase' = "started"
  /\ UNCHANGED <<snapshot, todo, listed, ending_delta_files, destructor, applied>>

(* ProcessNewFiles takes the oldest name of the queue. *)
TakeFile ==
  /\ loader.pc = "wait"
  /\ ~stop_
  /\ calls # <<>>
  /\ calls' = Tail(calls)
  /\ loader' = LET b == Head(calls) IN
               IF IsDeltaFilename(b[2]) /\ b[1] \in Allowed
                 THEN [pc |-> "load", blob |-> b]
                 ELSE [pc |-> "wait"]
  /\ UNCHANGED <<storage, notifier, snapshot, phase, todo, listed, ending_delta_files,
                 destructor, applied>>

LoadFile_NoRetry ==
  /\ loader.pc = "load"
  /\ LET b == loader.blob IN
       applied' \in {applied, [applied EXCEPT ![b[1]] = @ \cup {b[2]}]}
  /\ loader' = [pc |-> "wait"]
  /\ UNCHANGED <<notifierVars, snapshot, phase, todo, listed, ending_delta_files, destructor>>

(* RetryUntilOk: a failed load changes nothing here and is tried again. *)
LoadFile ==
  /\ loader.pc = "load"
  /\ LET b == loader.blob IN
       /\ Loads(b[1], b[2])
       /\ applied' = [applied EXCEPT ![b[1]] = @ \cup {b[2]}]
  /\ loader' = [pc |-> "wait"]
  /\ UNCHANGED <<notifierVars, snapshot, phase, todo, listed, ending_delta_files, destructor>>

EndLoader ==
  /\ loader.pc = "wait"
  /\ stop_
  /\ loader' = [pc |-> "done"]
  /\ UNCHANGED <<notifierVars, snapshot, phase, todo, listed, ending_delta_files,
                 destructor, applied>>

-----------------------------------------------------------------------------
(* The destructor sets stop_, stops the notifier and joins its thread, then  *)
(* joins the loader.                                                         *)
Destroy ==
  /\ phase = "started"
  /\ destructor = "no"
  /\ destructor' = "stop notifier"
  /\ RequestStop
  /\ UNCHANGED <<snapshot, phase, todo, listed, ending_delta_files, loader, applied>>

JoinNotifier ==
  /\ destructor = "stop notifier"
  /\ watch.pc = "done"
  /\ destructor' = "join loader"
  /\ UNCHANGED <<notifierVars, snapshot, phase, todo, listed, ending_delta_files, loader, applied>>

JoinLoader ==
  /\ destructor = "join loader"
  /\ loader.pc = "done"
  /\ destructor' = "returned"
  /\ UNCHANGED <<notifierVars, snapshot, phase, todo, listed, ending_delta_files, loader, applied>>

-----------------------------------------------------------------------------
TryCreate ==
  \/ \E p \in Allowed : LoadSnapshotFiles(p)
  \/ \E p \in Allowed : ListDeltaFiles(p)
  \/ LoadListedFile

ProcessNewFiles == TakeFile \/ LoadFile \/ EndLoader

Unchanged ==
  UNCHANGED <<snapshot, phase, todo, listed, ending_delta_files, loader, destructor, applied>>

NotifierThread == Watch /\ Unchanged

(* A newer snapshot is uploaded, before or between attempts of TryCreate.    *)
UploadSnapshot(p) ==
  /\ phase = "snapshots"
  /\ snapshot[p] < blobs[p]
  /\ snapshot' = [snapshot EXCEPT ![p] = blobs[p]]
  /\ UNCHANGED <<notifierVars, phase, todo, listed, ending_delta_files, loader,
                 destructor, applied>>

Environment ==
  \/ (ExpireFlag \/ \E p \in Prefixes : Upload(p)) /\ Unchanged
  \/ \E p \in Allowed : UploadSnapshot(p)

Join == JoinNotifier \/ JoinLoader

Next ==
  \/ TryCreate
  \/ FailTryCreate
  \/ StartLoading
  \/ NotifierThread
  \/ ProcessNewFiles
  \/ Destroy
  \/ Join
  \/ Environment

Spec == Init /\ [][Next]_vars

(* The server's threads keep running and time passes.  The bucket fails only *)
(* finitely often, but for the blobs that can never be read: the server      *)
(* retries TryCreate, listings and loads for as long as it takes.            *)
ListFails == watch.pc = "list" /\ watch'.pc = "call"
             /\ \E p \in Allowed : watch'.found[p] # ListedAfter(p)

MeetsUnreadable ==
  \E b \in listed : ~Loads(b[1], b[2]) /\ \A c \in listed : b[2] <= c[2]

OrchestratorFairness ==
  /\ WF_vars(TryCreate \/ (MeetsUnreadable /\ FailTryCreate))
  /\ WF_vars(StartLoading)
  /\ WF_vars(NotifierThread)
  /\ WF_vars(ProcessNewFiles)
  /\ WF_vars(Join)
  /\ WF_vars(ExpireFlag /\ Unchanged)
  /\ <>[][(FailTryCreate => MeetsUnreadable) /\ ~ListFails]_vars

FairSpec == Spec /\ OrchestratorFairness

-----------------------------------------------------------------------------
(* The blobs that the loader holds or will take, in order. *)
Queued == IF loader.pc = "load" THEN <<loader.blob>> \o calls ELSE calls

(* Type invariant.  The notifier runs only between Start and the destructor. *)
TypeOK ==
  /\ blobs \in [Prefixes -> {0} \cup Files]
  /\ snapshot \in [Allowed -> {0} \cup Files]
  /\ notifications \subseteq Blobs
  /\ prefix_start_after_map \in [Allowed -> {0} \cup Files]
  /\ calls \in Seq(Allowed \X Files)
  /\ phase \in {"snapshots", "deltas", "created", "started"}
  /\ todo \subseteq Allowed
  /\ listed \subseteq Blobs
  /\ ending_delta_files \in [Allowed -> {0} \cup Files]
  /\ applied \in [Allowed -> SUBSET Files]
  /\ watch.pc \in {"watch", "wait", "list", "call"} =>
       phase = "started" /\ destructor \in {"no", "stop notifier"}
  /\ loader.pc # "none" <=> phase = "started"

(* No delta file is skipped: whatever was loaded, in TryCreate, its retries  *)
(* and by the loader thread, all delta files before it in its prefix were    *)
(* loaded, or are in the snapshot, before it.                                *)
NoDeltaSkipped ==
  \A p \in Allowed : \A f \in applied[p] :
    \A g \in Delta(p) : g < f => g \in applied[p]

(* No delta file is loaded again: the queue holds the files of each prefix   *)
(* in strictly ascending order, all after every file already loaded, also    *)
(* across the handover from TryCreate to the notifier.                       *)
QueueIsFresh ==
  \A i \in 1..Len(Queued) :
    LET p == Queued[i][1] IN
    /\ \A j \in 1..Len(Queued) : i < j /\ Queued[j][1] = p => Queued[i][2] < Queued[j][2]
    /\ \A f \in applied[p] : f < Queued[i][2]

(* Every delta file is loaded in the end, also one without a notification    *)
(* and one whose listing or load failed before, as long as no load fails for *)
(* ever, unless the orchestrator is destroyed.  The bucket gets finitely     *)
(* many files here, and what was loaded stays so.                            *)
EveryReadableDeltaIsLoaded ==
  <>[](\A p \in Allowed : \A f \in Delta(p) : Loads(p, f) => f \in applied[p] \/ stop_)

(* A file that cannot be read does not keep the files after it out:          *)
(* docs/error_handling.md:31 says "When a delta file or record in a delta    *)
(* file cannot be read after a few retries, it will be skipped".             *)
UnreadableFilesAreSkipped ==
  \A blob \in Unreadable : \A f \in (blob[2] + 1)..MaxFile[blob[1]] :
    IsDeltaFilename(f) /\ Loads(blob[1], f) =>
      (f <= blobs[blob[1]] ~> f \in applied[blob[1]] \/ stop_)

=============================================================================
