-------------------------------- MODULE BlobStorage --------------------------------
(***************************************************************************)
(* The blob storage clients (S3, GCP, local files) and what finds snapshot *)
(* file groups and delta files with them. A listing takes a page at a time *)
(* while tools put and remove blobs.                                       *)
(*                                                                         *)
(* The name of an object is the sequence of its path components. A file    *)
(* name is the sequence of its numbers: <<type, time>> for a whole file,   *)
(* <<type, time, index, size>> for a file of a group, <<>> for the empty   *)
(* string; with their fixed number of digits the names order as strings.   *)
(***************************************************************************)
EXTENDS Integers, SequencesExt, FiniteSetsExt

CONSTANTS
  Clients,           \* of "s3", "gcp" and "local"
  Setups,            \* what happens in a behaviour: the locations blobs are put to, and
                     \* what the server looks for, [prefix, type, start_after]
  Copies,            \* the keys of cp commands
  PageSize,
  MaxDeletes         \* bound on the blobs removed

\* 2 is LOGICAL_SHARDING_CONFIG.
DELTA == 1
SNAPSHOT == 3

VARIABLES
  setup,
  client,
  bucket,            \* the names of the objects
  deletes,
  call,              \* what the server is doing: "idle", "listing", "listed", "loading", "loaded", "crashed"
  request,
  keys,              \* what ListBlobs has collected
  token,             \* the name the next page begins after
  skipped,           \* GCP: an entry could not be read
  loaded,            \* the files of the snapshot group that are loaded
  seen, steady       \* history: names in the bucket at some time, at all times of the listing

listing == <<request, keys, token, skipped>>
vars == <<setup, client, bucket, deletes, call, listing, loaded, seen, steady>>

(***************************************************************************)
(* Names                                                                   *)
(***************************************************************************)

\* AppendPrefix and its inverse, ParseBlobName.
AppendPrefix(value, prefix) == Append(prefix, value)

ParseBlobName(name) == [prefix |-> Front(name), key |-> Last(name)]

\* The order of strings of this form.
Before(a, b) ==
  \/ IsStrictPrefix(a, b)
  \/ \E i \in 1..Min({Len(a), Len(b)}) :
       a[i] < b[i] /\ \A j \in 1..(i - 1) : a[j] = b[j]

IsDeltaFilename(key) == Len(key) = 2 /\ key[1] = DELTA

IsSnapshotFilename(key) == Len(key) = 2 /\ key[1] = SNAPSHOT

IsFileGroupFileName(key) == Len(key) = 4 /\ key[1] \in {DELTA, SNAPSHOT}

(***************************************************************************)
(* Tools                                                                   *)
(***************************************************************************)

Put(name) ==
  /\ name \notin bucket
  /\ bucket' = bucket \cup {name}
  /\ seen' = IF call = "listing" THEN seen \cup {name} ELSE seen
  /\ UNCHANGED <<setup, client, deletes, call, listing, loaded, steady>>

\* PutBlob, of a tool that gives prefix and key.
PutBlob(location) == Put(AppendPrefix(location.key, location.prefix))

\* The cp command to cloud://key: the location it builds has the key as its prefix.
\* The local client cannot open such a path.
CpObjects(key) ==
  /\ client # "local"
  /\ Put(AppendPrefix(<<>>, <<key>>))

\* DeleteBlob, as the rm command calls it for each of its keys.
DeleteBlob(location) ==
  LET name == AppendPrefix(location.key, location.prefix)
  IN /\ name \in bucket /\ deletes < MaxDeletes
     /\ bucket' = bucket \ {name} /\ deletes' = deletes + 1
     /\ steady' = IF call = "listing" THEN steady \ {name} ELSE steady
     /\ UNCHANGED <<setup, client, call, listing, loaded, seen>>

(***************************************************************************)
(* ListBlobs                                                               *)
(***************************************************************************)

\* The names the storage gives for a request, and what the client keeps of them. GCP
\* begins with start_after, which the client drops; the local client filters itself.
Matches(name) ==
  LET blob == ParseBlobName(name)
  IN /\ blob.prefix = request.prefix
     /\ blob.key # <<>> /\ blob.key[1] = request.type
     /\ Before(request.start_after, blob.key)

SortedNames(names) == SetToSortSeq(names, LAMBDA a, b : Before(Last(a), Last(b)))

StartListing ==
  /\ call = "idle"
  /\ call' = "listing" /\ request' = setup.request
  /\ keys' = <<>> /\ token' = <<>> /\ skipped' = FALSE
  /\ seen' = bucket /\ steady' = bucket
  /\ UNCHANGED <<setup, client, bucket, deletes, loaded>>

ListPage_OnlyOne ==
  /\ call = "listing" /\ client # "local"
  /\ LET after == SortedNames({n \in bucket : Matches(n) /\ Before(token, Last(n))})
         page == SubSeq(after, 1, Min({PageSize, Len(after)}))
     IN /\ keys' = keys \o [i \in DOMAIN page |-> Last(page[i])]
        /\ token' = IF page = <<>> THEN token ELSE Last(Last(page))
        /\ call' = "listed"
  /\ UNCHANGED <<setup, client, bucket, deletes, request, skipped, loaded, seen, steady>>

\* A page of ListObjectsV2 or ListObjects: the next names after the last one given.
\* Without another page the call returns.
ListPage ==
  /\ call = "listing" /\ client # "local"
  /\ LET after == SortedNames({n \in bucket : Matches(n) /\ Before(token, Last(n))})
         page == SubSeq(after, 1, Min({PageSize, Len(after)}))
     IN /\ keys' = keys \o [i \in DOMAIN page |-> Last(page[i])]
        /\ token' = IF page = <<>> THEN token ELSE Last(Last(page))
        /\ call' = IF Len(after) <= PageSize THEN "listed" ELSE "listing"
  /\ UNCHANGED <<setup, client, bucket, deletes, request, skipped, loaded, seen, steady>>

\* The local client: one pass over the directory, then a sort.
ListDirectory ==
  /\ call = "listing" /\ client = "local"
  /\ LET names == SortedNames({n \in bucket : Matches(n)})
     IN keys' = [i \in DOMAIN names |-> Last(names[i])]
  /\ call' = "listed"
  /\ UNCHANGED <<setup, client, bucket, deletes, request, token, skipped, loaded, seen, steady>>

\* A page that fails: S3 returns the error; GCP logs it, and the range ends with what
\* came before.
ListFails ==
  /\ call = "listing"
  /\ IF client = "gcp" THEN call' = "listed" /\ skipped' = TRUE /\ UNCHANGED <<request, keys, token>>
     ELSE /\ call' = "idle" /\ request' = [request EXCEPT !.type = 0]
          /\ keys' = <<>> /\ token' = <<>> /\ skipped' = FALSE
  /\ seen' = (IF client = "gcp" THEN seen ELSE {}) /\ steady' = (IF client = "gcp" THEN steady ELSE {})
  /\ UNCHANGED <<setup, client, bucket, deletes, loaded>>

(***************************************************************************)
(* File groups                                                             *)
(***************************************************************************)

NewGroup == [type |-> 0, time |-> 0, group_size |-> 0, files |-> {}]

GetStatus(group) ==
  IF group.files # {} /\ group.group_size = Cardinality(group.files) THEN "complete" ELSE "pending"

\* ParseMetadataFromFilename: the index must be smaller than the size.
ParsesMetadata(filename) == Len(filename) = 4 => filename[3] < filename[4]

ParseMetadataFromFilename(filename) ==
  [type |-> filename[1], time |-> filename[2],
   group_size |-> IF Len(filename) = 4 THEN filename[4] ELSE 1, files |-> {}]

ValidateIncomingMetadata(existing, incoming) ==
  \A field \in {"group_size", "time", "type"} : existing[field] = incoming[field]

AddFile_AnySize(group, filename) ==
  IF filename \in group.files THEN {group}
  ELSE LET incoming == ParseMetadataFromFilename(filename)
           known == IF group.type = 0 THEN incoming ELSE group
       IN {[known EXCEPT !.files = group.files \cup {filename}]}

\* AddFile: the group with the file, or {} for an error. A complete group and a file
\* that is there already are left as they are.
AddFile(group, filename) ==
  IF GetStatus(group) = "complete" \/ filename \in group.files THEN {group}
  ELSE IF ~ParsesMetadata(filename) THEN {}
  ELSE LET incoming == ParseMetadataFromFilename(filename)
           known == IF group.type = 0 THEN incoming ELSE group
       IN IF ValidateIncomingMetadata(known, incoming)
          THEN {[known EXCEPT !.files = group.files \cup {filename}]}
          ELSE {}

\* Whether a name begins with the basename of a group.
HasBasename(filename, group) == filename[1] = group.type /\ filename[2] = group.time

\* One name of the loop of CreateFileGroupsFromBlobNames; {} is the error.
NextName(done, filename) ==
  UNION {LET same == HasBasename(filename, d.current)
             group == IF same THEN d.current ELSE NewGroup
             groups == IF same \/ d.current.files = {} THEN d.groups ELSE Append(d.groups, d.current)
         IN {[groups |-> groups, current |-> g] : g \in AddFile(group, filename)} : d \in done}

\* CreateFileGroupsFromBlobNames: the groups of a sorted listing, {} for an error.
CreateFileGroupsFromBlobNames(filenames) ==
  {IF d.current.files = {} THEN d.groups ELSE Append(d.groups, d.current) :
     d \in FoldLeft(NextName, {[groups |-> <<>>, current |-> NewGroup]}, filenames)}

\* FindFileGroups after the listing: the supported names only, then the complete groups.
FindFileGroups(names) ==
  LET supported(n) == IsDeltaFilename(n) \/ IsSnapshotFilename(n) \/ IsFileGroupFileName(n)
      complete(g) == GetStatus(g) = "complete"
  IN {SelectSeq(gs, complete) : gs \in CreateFileGroupsFromBlobNames(SelectSeq(names, supported))}

FindMostRecentFileGroup_First(names) ==
  UNION {IF gs = <<>> THEN {} ELSE {Head(gs)} : gs \in FindFileGroups(names)}

\* FindMostRecentFileGroup: the last of them, if there is one.
FindMostRecentFileGroup(names) ==
  UNION {IF gs = <<>> THEN {} ELSE {Last(gs)} : gs \in FindFileGroups(names)}

(***************************************************************************)
(* LoadSnapshotFiles                                                       *)
(***************************************************************************)

Found == IF call \in {"listed", "loading", "loaded"} THEN FindMostRecentFileGroup(keys) ELSE {}

\* Loading one file of the group, in the order of a hash set. A file that was removed
\* fails the load; the local client returns no reader, which is used all the same.
LoadSnapshotFile(file) ==
  /\ call \in {"listed", "loading"} /\ request.type = SNAPSHOT
  /\ \E group \in Found : file \in group.files \ loaded
  /\ IF AppendPrefix(file, request.prefix) \in bucket
     THEN /\ loaded' = loaded \cup {file}
          /\ call' = IF \E group \in Found : group.files = loaded' THEN "loaded" ELSE "loading"
     ELSE /\ call' = IF client = "local" THEN "crashed" ELSE "idle"
          /\ loaded' = {}
  /\ IF call' \in {"idle", "crashed"}
     THEN /\ keys' = <<>> /\ token' = <<>> /\ skipped' = FALSE /\ seen' = {} /\ steady' = {}
          /\ request' = [request EXCEPT !.type = 0]
     ELSE UNCHANGED <<listing, seen, steady>>
  /\ UNCHANGED <<setup, client, bucket, deletes>>

\* The caller is done with the result; initialisation or the next poll lists again.
Finish ==
  /\ \/ call = "loaded"
     \/ call = "listed" /\ (request.type # SNAPSHOT \/ Found = {})
  /\ call' = "idle"
  /\ keys' = <<>> /\ token' = <<>> /\ skipped' = FALSE /\ loaded' = {} /\ seen' = {} /\ steady' = {}
  /\ request' = [request EXCEPT !.type = 0]
  /\ UNCHANGED <<setup, client, bucket, deletes>>

Init ==
  /\ setup \in Setups
  /\ client \in Clients
  /\ bucket = {} /\ deletes = 0
  /\ call = "idle" /\ request = [prefix |-> <<>>, type |-> 0, start_after |-> <<>>]
  /\ keys = <<>> /\ token = <<>> /\ skipped = FALSE
  /\ loaded = {} /\ seen = {} /\ steady = {}

Next ==
  \/ \E location \in setup.blobs : PutBlob(location) \/ DeleteBlob(location)
  \/ \E key \in Copies : CpObjects(key)
  \/ StartListing
  \/ ListPage \/ ListDirectory \/ ListFails \/ Finish
  \/ \E group \in Found : \E file \in group.files : LoadSnapshotFile(file)

Spec == Init /\ [][Next]_vars

(***************************************************************************)
(* Properties                                                              *)
(***************************************************************************)

\* What is listed is in order, and nothing twice.
TypeOK ==
  /\ call \in {"idle", "listing", "listed", "loading", "loaded", "crashed"}
  /\ \A i \in 1..(Len(keys) - 1) : Before(keys[i], keys[i + 1])
  /\ steady \subseteq seen
  /\ Cardinality(Found) <= 1

\* ListBlobs gives the files that were there all the time and match the request, a page
\* boundary, a put or a removal in the middle notwithstanding, and no file that was not
\* there at some time of the listing. (GCP may miss some after an error it only logs.)
ListingIsFaithful ==
  call \in {"listed", "loading", "loaded"} =>
    LET Keys(names) == {Last(n) : n \in {x \in names : Matches(x)}}
    IN /\ ToSet(keys) \subseteq Keys(seen)
       /\ ~skipped => Keys(steady) \subseteq ToSet(keys)

\* A snapshot whose files were all there when the listing began is not passed over for
\* an older one because a newer one is still being uploaded, file by file.
NewestCompleteGroupIsFound ==
  (call \in {"listed", "loading", "loaded"} /\ ~skipped /\ FindFileGroups(keys) # {}) =>
    \A file \in {Last(n) : n \in {x \in steady : Matches(x)}} :
      (IsFileGroupFileName(file) /\ \A i \in 0..(file[4] - 1) :
          AppendPrefix(<<file[1], file[2], i, file[4]>>, request.prefix) \in steady)
        => \E group \in Found : group.time >= file[2]

\* A snapshot group that is taken for complete has every one of its indices once, and a
\* snapshot is loaded with all the files of one such group, although files are put and
\* removed between the pages of the listing.
SnapshotsAreWhole ==
  /\ \A group \in Found :
       LET n == group.group_size
       IN group.files = IF {f \in group.files : Len(f) = 2} # {}
                          THEN {<<group.type, group.time>>}
                          ELSE {<<group.type, group.time, i, n>> : i \in 0..(n - 1)}
  /\ call = "loaded" => \E group \in Found : loaded = group.files
=============================================================================
