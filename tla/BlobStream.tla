-------------------------------- MODULE BlobStream --------------------------------
(***************************************************************************)
(* What the readers of data files expect of the stream of a blob: it has a *)
(* position; a seek moves it within the blob and says where it is; a read  *)
(* gives the byte there and moves on by one, or gives nothing. The byte is *)
(* that of some version of the blob, since a blob may be replaced while it *)
(* is read. Nothing is promised once the storage has failed, or has given  *)
(* a range of the blob in several chunks.                                  *)
(***************************************************************************)
EXTENDS Integers

CONSTANTS Versions, MaxSize

VARIABLES
  pos,       \* the position of the stream
  out,       \* what the last call returned
  broken     \* the storage has failed, or given a range in several chunks

vars == <<pos, out, broken>>

Nothing == [op |-> "nothing"]

Init == pos = 0 /\ out = Nothing /\ broken = FALSE

Seek ==
  /\ pos' \in 0..MaxSize
  /\ out' = [op |-> "seek", position |-> pos']
  /\ broken' = broken

Read ==
  /\ \E v \in Versions : out' = [op |-> "read", byte |-> <<v, pos>>]
  /\ pos' = pos + 1
  /\ broken' = broken

\* The end of the blob, or a seek that is refused.
GetNothing == out' = Nothing /\ UNCHANGED <<pos, broken>>

Break == broken' = TRUE

Next == Seek \/ Read \/ GetNothing \/ Break

Spec == Init /\ [][Next]_vars
=============================================================================
