----------------------------- MODULE LocalNotifier -----------------------------
(***************************************************************************)
(* LocalChangeNotifier (change_notifier_local.cc): the notifier of data    *)
(* files and of realtime updates of a server that runs on one machine.  It *)
(* lists a directory again and again and returns the names it has not seen.*)
(* The directory belongs to other processes (external).                    *)
(***************************************************************************)
EXTENDS Naturals, FiniteSets

CONSTANTS
  Files,           \* names a file may have
  MaxWait,         \* max_wait, in poll intervals
  MaxFileChanges   \* files added and removed, and failed listings

VARIABLES
  directory,
  files_in_directory_,
  call,         \* the caller: idle, in GetNotifications, stopped or crashed
  max_wait,
  should_stop,
  initial,      \* history: files of the first listing
  reported,     \* history: how often a name was returned
  fileChanges

localVars == <<directory, files_in_directory_, call, max_wait, should_stop,
               initial, reported, fileChanges>>

\* The constructor's own listing may fail; its result is used unchecked.
LocalInit ==
  /\ directory \in SUBSET Files
  /\ call \in {"idle", "crashed"}
  /\ files_in_directory_ = IF call = "crashed" THEN {} ELSE directory
  /\ initial = files_in_directory_
  /\ max_wait = 0 /\ should_stop = FALSE
  /\ reported = [f \in Files |-> 0]
  /\ fileChanges = 0

FileChange == fileChanges < MaxFileChanges /\ fileChanges' = fileChanges + 1

FindNewFiles(previous_files) == directory \ previous_files

CallGetNotifications ==
  /\ call = "idle"
  /\ call' = "watching" /\ max_wait' = MaxWait
  /\ UNCHANGED <<directory, files_in_directory_, should_stop, initial, reported, fileChanges>>

Return(to) ==
  /\ call' = to
  /\ max_wait' = 0
  /\ UNCHANGED <<directory, should_stop, initial>>

\* Mutant: the names returned are not remembered.
FoundNewFilesForgotten ==
  /\ FindNewFiles(files_in_directory_) # {}
  /\ reported' = [f \in Files |->
                    reported[f] + IF f \in FindNewFiles(files_in_directory_) THEN 1 ELSE 0]
  /\ Return("idle")
  /\ UNCHANGED <<files_in_directory_, fileChanges>>

FoundNewFiles ==
  /\ FindNewFiles(files_in_directory_) # {}
  /\ reported' = [f \in Files |->
                    reported[f] + IF f \in FindNewFiles(files_in_directory_) THEN 1 ELSE 0]
  /\ files_in_directory_' = files_in_directory_ \cup FindNewFiles(files_in_directory_)
  /\ Return("idle")
  /\ UNCHANGED fileChanges

NoNewFiles ==
  /\ FindNewFiles(files_in_directory_) = {}
  /\ max_wait' = max_wait - 1
  /\ UNCHANGED <<directory, files_in_directory_, call, should_stop, initial, reported,
                 fileChanges>>

\* One round of the loop, its sleep included.
GetLocalNotifications ==
  /\ call = "watching"
  /\ \/ should_stop /\ Return("stopped") /\ UNCHANGED <<files_in_directory_, reported, fileChanges>>
     \/ /\ ~should_stop /\ max_wait = 0
        /\ Return("idle") /\ UNCHANGED <<files_in_directory_, reported, fileChanges>>
     \/ /\ ~should_stop /\ max_wait > 0
        /\ \/ FileChange /\ Return("idle") /\ UNCHANGED <<files_in_directory_, reported>>
           \/ FoundNewFiles
           \/ NoNewFiles

AddFile(f) ==
  /\ f \notin directory /\ FileChange
  /\ directory' = directory \cup {f}
  /\ UNCHANGED <<files_in_directory_, call, max_wait, should_stop, initial, reported>>

RemoveFile(f) ==
  /\ f \in directory /\ FileChange
  /\ directory' = directory \ {f}
  /\ UNCHANGED <<files_in_directory_, call, max_wait, should_stop, initial, reported>>

StopWatching ==
  /\ ~should_stop /\ should_stop' = TRUE
  /\ UNCHANGED <<directory, files_in_directory_, call, max_wait, initial, reported, fileChanges>>

LocalNext ==
  \/ CallGetNotifications \/ GetLocalNotifications
  \/ \E f \in Files : AddFile(f) \/ RemoveFile(f)
  \/ StopWatching

LocalSpec == LocalInit /\ [][LocalNext]_localVars

----------------------------------------------------------------------------

LocalTypeOK ==
  /\ directory \subseteq Files /\ files_in_directory_ \subseteq Files
  /\ initial \subseteq files_in_directory_
  /\ call \in {"idle", "watching", "stopped", "crashed"}
  /\ max_wait \in 0..MaxWait /\ should_stop \in BOOLEAN
  /\ reported \in [Files -> Nat]

\* "so that they'll be ignored if GetNotifications is called again"
\* (change_notifier_local.cc:86): a name is returned once, and never if the file was
\* there at the start, however often files come and go and listings fail.
NewFilesAreReportedOnce ==
  \A f \in Files : reported[f] = IF f \in files_in_directory_ \ initial THEN 1 ELSE 0

=============================================================================
