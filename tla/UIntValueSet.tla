----------------------------- MODULE UIntValueSet -----------------------------
(***************************************************************************)
(* UIntValueSet (components/data_server/cache/uint_value_set.h) as a value: *)
(* the bitset that queries use, the metadata of every value seen, and the   *)
(* removed values by removal time.  The 32 and 64 bit sets are the same     *)
(* template.                                                                *)
(***************************************************************************)
EXTENDS Integers

CONSTANTS
  UIntValues,  \* the unsigned integers in play
  UIntTimes,   \* logical_commit_time, a set of integers
  NoMetadata   \* a value without an entry in values_metadata_

ValueMetadata == [logical_commit_time : UIntTimes \cup {0}, is_deleted : BOOLEAN]

UIntSet ==
  [values_bitset_ : SUBSET UIntValues,
   values_metadata_ : [UIntValues -> ValueMetadata \cup {NoMetadata}],
   deleted_values_ : SUBSET (UIntTimes \X UIntValues)]

EmptySet ==
  [values_bitset_ |-> {},
   values_metadata_ |-> [v \in UIntValues |-> NoMetadata],
   deleted_values_ |-> {}]

GetValues(set) ==
  {v \in UIntValues : /\ set.values_metadata_[v] # NoMetadata
                  /\ ~set.values_metadata_[v].is_deleted}

(* operator[]: a value not seen before gets zero metadata. *)
Metadata(set, v) ==
  IF set.values_metadata_[v] = NoMetadata
    THEN [logical_commit_time |-> 0, is_deleted |-> FALSE]
    ELSE set.values_metadata_[v]

Newer_Equal(set, v, time) == Metadata(set, v).logical_commit_time <= time

(* The mutation is newer than what the set knows of the value. *)
Newer(set, v, time) == Metadata(set, v).logical_commit_time < time

BitsetAfter(set, changed, is_deleted) ==
  IF is_deleted THEN set.values_bitset_ \ changed ELSE set.values_bitset_ \cup changed

(* A re-added value is taken from the list of its new time, not of the time  *)
(* at which it was removed.                                                  *)
DeletedAfter(set, changed, time, is_deleted) ==
  IF is_deleted THEN set.deleted_values_ \cup ({time} \X changed)
                ELSE set.deleted_values_ \ ({time} \X changed)

AddOrRemove(set, values, time, is_deleted) ==
  LET changed == {v \in values : Newer(set, v, time)} IN
  [values_bitset_ |-> BitsetAfter(set, changed, is_deleted),
   values_metadata_ |->
     [v \in UIntValues |->
        IF v \in changed THEN [logical_commit_time |-> time, is_deleted |-> is_deleted]
        ELSE IF v \in values THEN Metadata(set, v)
        ELSE set.values_metadata_[v]],
   deleted_values_ |-> DeletedAfter(set, changed, time, is_deleted)]

Add(set, values, time) == AddOrRemove(set, values, time, FALSE)

Remove(set, values, time) == AddOrRemove(set, values, time, TRUE)

(* Every value listed up to the cutoff loses its metadata, whatever it says. *)
Cleanup(set, cutoff) ==
  LET due == {d \in set.deleted_values_ : d[1] <= cutoff} IN
  [values_bitset_ |-> set.values_bitset_,
   values_metadata_ |->
     [v \in UIntValues |-> IF \E d \in due : d[2] = v THEN NoMetadata ELSE set.values_metadata_[v]],
   deleted_values_ |-> set.deleted_values_ \ due]
=============================================================================
