------------------------------ MODULE Compression ------------------------------
(***************************************************************************)
(* The concatenation of compression groups and the reader that takes them  *)
(* apart (components/data_server/request_handler/compression): each group  *)
(* is its length and its bytes, compressed or not.  The reader is given    *)
(* the bytes that arrived, which may be cut off or damaged.                *)
(*                                                                         *)
(* Brotli itself is external: a compressed group is its bytes and an end   *)
(* mark; the decoder takes any number of bytes at a time and gives its     *)
(* output back in any pieces.                                              *)
(***************************************************************************)
EXTENDS Integers, Sequences, SequencesExt

CONSTANTS
  Groups,      \* plaintext groups: sequences of bytes
  MaxGroups    \* bound on the groups of a response

VARIABLES
  type,        \* "kUncompressed" or "kBrotli"
  partitions_, \* the groups that were added
  blob,        \* the bytes that arrived
  intact,      \* they are the ones that were built
  pos,         \* bytes consumed by the reader
  results,     \* what each extraction returned
  pc,
  decoder      \* the decoder of the group being extracted

vars == <<type, partitions_, blob, intact, pos, results, pc, decoder>>

SizeOf(n) == [kind |-> "size", value |-> n]
Byte(b) == [kind |-> "byte", value |-> b]
EndMark == [kind |-> "end", value |-> 0]
Invalid == [kind |-> "invalid", value |-> 0]

Bytes(group) == [i \in DOMAIN group |-> Byte(group[i])]

NoDecoder == [input |-> <<>>, read |-> 0, ready |-> 0, outputs |-> <<>>]

Init ==
  /\ type \in {"kUncompressed", "kBrotli"}
  /\ partitions_ = <<>> /\ blob = <<>> /\ intact = TRUE /\ pos = 0
  /\ results = <<>> /\ pc = "add" /\ decoder = NoDecoder

AddCompressionGroup(group) ==
  /\ pc = "add"
  /\ Len(partitions_) < MaxGroups
  /\ partitions_' = Append(partitions_, group)
  /\ UNCHANGED <<type, blob, intact, pos, results, pc, decoder>>

-----------------------------------------------------------------------------
UncompressedGroup(group) == <<SizeOf(Len(group))>> \o Bytes(group)

CompressWithPlainSize(group) == <<SizeOf(Len(group))>> \o Append(Bytes(group), EndMark)

(* The size is the one after compression, written over the first guess. *)
CompressOnePartition(group) ==
  LET compressed == Append(Bytes(group), EndMark)
  IN <<SizeOf(Len(compressed))>> \o compressed

BuildBlob ==
  FlattenSeq([i \in DOMAIN partitions_ |->
                IF type = "kUncompressed" THEN UncompressedGroup(partitions_[i])
                                          ELSE CompressOnePartition(partitions_[i])])

(* What may arrive: a part of the bytes; of compressed bytes also some with   *)
(* one that Brotli rejects, or with a group that goes on after its end.  (A   *)
(* changed byte that Brotli accepts cannot be noticed.)                       *)
CutOff(built) == {SubSeq(built, 1, n) : n \in 0..(Len(built) - 1)}

InvalidAt(built) ==
  {[built EXCEPT ![i] = Invalid] : i \in {j \in DOMAIN built : built[j].kind = "byte"}}

GoesOn(built) ==
  {SubSeq(built, 1, i - 1) \o <<SizeOf(built[i].value + 1)>>
      \o SubSeq(built, i + 1, i + built[i].value) \o <<Invalid>>
      \o SubSeq(built, i + built[i].value + 1, Len(built)) :
     i \in {j \in DOMAIN built : built[j].kind = "size"}}

Build ==
  /\ pc = "add"
  /\ blob' \in {BuildBlob} \cup CutOff(BuildBlob) \cup
               (IF type = "kBrotli" THEN InvalidAt(BuildBlob) \cup GoesOn(BuildBlob) ELSE {})
  /\ intact' = (blob' = BuildBlob)
  /\ pc' = "read"
  /\ UNCHANGED <<type, partitions_, pos, results, decoder>>

BuildFails ==
  /\ pc = "add"
  /\ type = "kBrotli"
  /\ pc' = "failed"
  /\ UNCHANGED <<type, partitions_, blob, intact, pos, results, decoder>>

-----------------------------------------------------------------------------
Result(ok, group) == Append(results, [ok |-> ok, group |-> group])

IsDoneReading == pos = Len(blob)

(* A failed read consumes the rest of the data. *)
ReadFails ==
  /\ results' = Result(FALSE, <<>>)
  /\ pos' = Len(blob)
  /\ UNCHANGED <<pc, decoder>>

(* The size, then as many bytes. *)
HasOneGroup == pos + 1 + blob[pos + 1].value <= Len(blob)

OneGroup == SubSeq(blob, pos + 2, pos + 1 + blob[pos + 1].value)

ExtractUncompressed ==
  /\ results' = Result(TRUE, [i \in DOMAIN OneGroup |-> OneGroup[i].value])
  /\ UNCHANGED <<pc, decoder>>

ExtractBrotli ==
  /\ decoder' = [NoDecoder EXCEPT !.input = OneGroup]
  /\ pc' = "decode"
  /\ UNCHANGED results

ExtractOneCompressionGroup ==
  /\ pc = "read"
  /\ ~IsDoneReading
  /\ IF HasOneGroup
       THEN /\ pos' = pos + 1 + blob[pos + 1].value
            /\ IF type = "kUncompressed" THEN ExtractUncompressed ELSE ExtractBrotli
       ELSE ReadFails
  /\ UNCHANGED <<type, partitions_, blob, intact>>

ReadingEnds ==
  /\ pc = "read"
  /\ IsDoneReading
  /\ pc' = "done"
  /\ UNCHANGED <<type, partitions_, blob, intact, pos, results, decoder>>

-----------------------------------------------------------------------------
(* The decoder.  It has read a part of its input; `ready` bytes of that can  *)
(* be taken, of which Len(outputs) have been.                                *)
HasMoreOutput == decoder.ready > Len(decoder.outputs)

AtEnd == decoder.read > 0 /\ decoder.input[decoder.read] = EndMark

IsFinished == AtEnd /\ ~HasMoreOutput

InputIsDone == decoder.read = Len(decoder.input)

TakeOutput ==
  /\ HasMoreOutput
  /\ \E n \in (Len(decoder.outputs) + 1)..decoder.ready :
       decoder' = [decoder EXCEPT !.outputs = [i \in 1..n |-> decoder.input[i].value]]
  /\ UNCHANGED <<pc, results>>

DecodeReturns(ok) ==
  /\ results' = Result(ok, IF ok THEN decoder.outputs ELSE <<>>)
  /\ decoder' = NoDecoder
  /\ pc' = "read"

Finish == IsFinished /\ DecodeReturns(InputIsDone)

Truncated == ~HasMoreOutput /\ ~IsFinished /\ InputIsDone /\ DecodeReturns(FALSE)

(* Bytes up to the end mark are read, and some of the output becomes ready:  *)
(* all of it at the end mark.                                                *)
DecompressStream ==
  /\ ~HasMoreOutput /\ ~IsFinished /\ ~InputIsDone
  /\ \E read \in (decoder.read + 1)..Len(decoder.input) :
       /\ \A i \in (decoder.read + 1)..(read - 1) : decoder.input[i].kind = "byte"
       /\ CASE decoder.input[read].kind = "byte" ->
                 /\ \E ready \in Len(decoder.outputs)..read :
                      decoder' = [decoder EXCEPT !.read = read, !.ready = ready]
                 /\ UNCHANGED <<pc, results>>
            [] decoder.input[read].kind = "end" ->
                 /\ decoder' = [decoder EXCEPT !.read = read, !.ready = read - 1]
                 /\ UNCHANGED <<pc, results>>
            [] OTHER -> DecodeReturns(FALSE)

Decode ==
  /\ pc = "decode"
  /\ TakeOutput \/ Finish \/ Truncated \/ DecompressStream
  /\ UNCHANGED <<type, partitions_, blob, intact, pos>>

Next ==
  \/ \E group \in Groups : AddCompressionGroup(group)
  \/ Build
  \/ BuildFails
  \/ ExtractOneCompressionGroup
  \/ Decode
  \/ ReadingEnds

Spec == Init /\ [][Next]_vars

-----------------------------------------------------------------------------
TypeOK ==
  /\ pos \in 0..Len(blob)
  /\ pc \in {"add", "read", "decode", "done", "failed"}
  /\ decoder.read \in 0..Len(decoder.input)
  /\ Len(decoder.outputs) <= decoder.ready

(* The n-th extraction returns the n-th group that was added or an error,    *)
(* never a part of a group or bytes of another one, whatever was cut off or  *)
(* damaged and however the decoder cuts its output; from the bytes that were *)
(* built every group comes back (ExtractOneCompressionGroup, Decode).        *)
ExtractedGroupsWereAdded ==
  /\ \A i \in DOMAIN results :
       results[i].ok => i \in DOMAIN partitions_ /\ results[i].group = partitions_[i]
  /\ (pc = "done" /\ intact) =>
       Len(results) = Len(partitions_) /\ \A i \in DOMAIN results : results[i].ok

=============================================================================
