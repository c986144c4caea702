-------------------------- MODULE DeltaFileNotifier --------------------------
(***************************************************************************)
(* DeltaFileNotifier (components/data/blob_storage/delta_file_notifier.cc)  *)
(* on its thread (components/data/common/thread_manager.cc): the Watch loop *)
(* waits for change notifications, lists the new delta files of every       *)
(* prefix, at the latest when the expiring flag runs out, and passes each   *)
(* of them to the callback.  The bucket and the notification queue are      *)
(* external: files are uploaded in the order of their names, notifications  *)
(* may be lost, repeated and batched.                                       *)
(***************************************************************************)
EXTENDS Integers, Sequences, FiniteSets, FiniteSetsExt

CONSTANTS
  Prefixes,     \* directories of the bucket
  Allowed,      \* the allowlisted ones (BlobPrefixAllowlist)
  MaxFile,      \* prefix -> bound on its files; names are 1, 2, ..., 0 is ""
  Malformed     \* names with the delta prefix that are no delta file names

ASSUME NotifierAssumption ==
  /\ Allowed \subseteq Prefixes
  /\ MaxFile \in [Prefixes -> Nat]
  /\ Malformed \subseteq Nat

Files == UNION {1..MaxFile[p] : p \in Prefixes}
Blobs == Prefixes \X Files

VARIABLES
  blobs,                   \* prefix -> number of files uploaded so far
  notifications,           \* blobs with a notification that may still arrive
  expiring_flag,           \* FALSE once poll_frequency_ has passed
  prefix_start_after_map,  \* allowed prefix -> last name passed on, 0 if none
  watch,                   \* where the Watch loop is
  should_stop_,
  calls                    \* blobs passed to the callback and not taken yet

storage == <<blobs, notifications>>
notifier == <<expiring_flag, prefix_start_after_map, watch, should_stop_>>
notifierVars == <<storage, notifier, calls>>

IsDeltaFilename(file) == file \in Files \ Malformed

NotStarted == [pc |-> "off"]
Watching == [pc |-> "watch"]
Waiting == [pc |-> "wait"]

InitNotifier ==
  /\ blobs \in [Prefixes -> {0} \cup Files]
  /\ \A p \in Prefixes : blobs[p] <= MaxFile[p]
  /\ notifications = {}
  /\ expiring_flag = FALSE
  /\ prefix_start_after_map = [p \in Allowed |-> 0]
  /\ watch = NotStarted
  /\ should_stop_ = FALSE
  /\ calls = <<>>

-----------------------------------------------------------------------------
(* The bucket and its notifications. *)
Upload(p) ==
  /\ blobs[p] < MaxFile[p]
  /\ blobs' = [blobs EXCEPT ![p] = @ + 1]
  /\ notifications' \in {notifications, notifications \cup {<<p, blobs[p] + 1>>}}
  /\ UNCHANGED <<notifier, calls>>

ExpireFlag ==
  /\ expiring_flag
  /\ expiring_flag' = FALSE
  /\ UNCHANGED <<storage, prefix_start_after_map, watch, should_stop_, calls>>

-----------------------------------------------------------------------------
Start(start_after) ==
  /\ watch = NotStarted
  /\ watch' = Watching
  /\ prefix_start_after_map' = start_after
  /\ expiring_flag' = FALSE
  /\ UNCHANGED <<storage, should_stop_, calls>>

(* The head of the loop. *)
StopsWatching ==
  /\ watch = Watching
  /\ should_stop_
  /\ watch' = [pc |-> "done"]
  /\ UNCHANGED <<storage, expiring_flag, prefix_start_after_map, should_stop_, calls>>

KeepsWatching ==
  /\ watch = Watching
  /\ ~should_stop_
  /\ watch' = Waiting
  /\ UNCHANGED <<storage, expiring_flag, prefix_start_after_map, should_stop_, calls>>

BackupPoll_Initial ==
  /\ watch = Waiting
  /\ ~expiring_flag \/ should_stop_
  /\ \A p \in Allowed : prefix_start_after_map[p] = 0
  /\ watch' = [pc |-> "list"]
  /\ UNCHANGED <<storage, expiring_flag, prefix_start_after_map, should_stop_, calls>>

(* ShouldListBlobs without an unexpired flag, or when it expires during the  *)
(* wait: a backup poll.  A wait ended by Stop may look the same.             *)
BackupPoll ==
  /\ watch = Waiting
  /\ ~expiring_flag \/ should_stop_
  /\ watch' = [pc |-> "list"]
  /\ UNCHANGED <<storage, expiring_flag, prefix_start_after_map, should_stop_, calls>>

(* An error, after which the thread backs off, or no notification at all.    *)
WaitFails ==
  /\ watch = Waiting
  /\ expiring_flag
  /\ watch' = Watching
  /\ UNCHANGED <<storage, expiring_flag, prefix_start_after_map, should_stop_, calls>>

(* WaitForNotification: the largest delta file of the batch, by full name.   *)
(* How prefixes compare with each other is left open.                        *)
MaxChange(batch, p, file) ==
  LET named == {b \in batch : b[1] = p /\ IsDeltaFilename(b[2])} IN
  named # {} /\ file = Max({b[2] : b \in named})

ShouldListBlobs(p, file) ==
  /\ p \in Allowed
  /\ file >= prefix_start_after_map[p]

Notified ==
  /\ watch = Waiting
  /\ expiring_flag
  /\ \E batch \in SUBSET notifications :
       /\ batch # {}
       /\ \E gone \in SUBSET batch : notifications' = notifications \ gone
       /\ \/ \E p \in Prefixes, file \in Files :
               /\ MaxChange(batch, p, file)
               /\ watch' = IF ShouldListBlobs(p, file) THEN [pc |-> "list"] ELSE Watching
          \/ /\ \A b \in batch : ~IsDeltaFilename(b[2])
             /\ watch' = Watching
  /\ UNCHANGED <<blobs, expiring_flag, prefix_start_after_map, should_stop_, calls>>

ListedAfter_Inclusive(p) ==
  {f \in 1..blobs[p] : f >= prefix_start_after_map[p]}

(* ListBlobs with start_after. *)
ListedAfter(p) == {f \in 1..blobs[p] : f > prefix_start_after_map[p]}

(* ListPrefixDeltaFiles: prefixes whose listing fails are left out. *)
ListPrefixDeltaFiles(failed) ==
  /\ watch.pc = "list"
  /\ expiring_flag' = TRUE
  /\ watch' = [pc |-> "call", current |-> {},
               found |-> [p \in Allowed |-> IF p \in failed THEN {} ELSE ListedAfter(p)]]
  /\ UNCHANGED <<storage, prefix_start_after_map, should_stop_, calls>>

(* One prefix after the other, each in ascending order.                      *)
CallBack ==
  /\ watch.pc = "call"
  /\ \E p \in Allowed : \E file \in watch.found[p] :
       /\ watch.current \in {{}, {p}}
       /\ \A other \in watch.found[p] : file <= other
       /\ LET rest == [watch.found EXCEPT ![p] = @ \ {file}]
          IN  /\ watch' = IF \A q \in Allowed : rest[q] = {} THEN Watching
                          ELSE [pc |-> "call", found |-> rest,
                                current |-> IF rest[p] = {} THEN {} ELSE {p}]
              /\ IF IsDeltaFilename(file)
                   THEN /\ calls' = Append(calls, <<p, file>>)
                        /\ prefix_start_after_map' = [prefix_start_after_map EXCEPT ![p] = file]
                   ELSE UNCHANGED <<calls, prefix_start_after_map>>
  /\ UNCHANGED <<storage, expiring_flag, should_stop_>>

NoNewFile ==
  /\ watch.pc = "call"
  /\ \A p \in Allowed : watch.found[p] = {}
  /\ watch' = Watching
  /\ UNCHANGED <<storage, expiring_flag, prefix_start_after_map, should_stop_, calls>>

(* Stop tells the thread to end and waits for StopsWatching.                 *)
RequestStop ==
  /\ should_stop_' = TRUE
  /\ UNCHANGED <<storage, expiring_flag, prefix_start_after_map, watch, calls>>

List == \E failed \in SUBSET Allowed : ListPrefixDeltaFiles(failed)

Watch ==
  \/ StopsWatching
  \/ KeepsWatching
  \/ BackupPoll
  \/ WaitFails
  \/ Notified
  \/ List
  \/ CallBack
  \/ NoNewFile
=============================================================================
