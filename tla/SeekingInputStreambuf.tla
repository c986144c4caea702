--------------------------- MODULE SeekingInputStreambuf ---------------------------
(***************************************************************************)
(* SeekingInputStreambuf: a stream over a blob of the cloud storage with   *)
(* one buffer, and the S3 and GCP readers that fill it by ranges. The blob *)
(* may be replaced by one of another size while it is read; the size is    *)
(* cached at the first call. A range is read chunk by chunk, and a chunk   *)
(* may be shorter than what was asked for. A byte is its version and its   *)
(* place.                                                                  *)
(***************************************************************************)
EXTENDS Integers, Sequences

CONSTANTS
  MaxSize,           \* bound on the size of a blob
  BufferSizes,       \* values of options_.buffer_size
  Offsets            \* the offsets of seeks

ASSUME StreambufAssumption == MaxSize \in Nat /\ BufferSizes \subseteq Int /\ Offsets \subseteq Int

Versions == 1..2

min(a, b) == IF b < a THEN b ELSE a

max(a, b) == IF a < b THEN b ELSE a

VARIABLES
  blob,                  \* the current version of the blob and its size
  buffer_size,
  buffer_,
  gptr, egptr,           \* the get area, counted from the beginning of buffer_
  src_limit_position_,
  src_cached_size_,
  bad,                   \* the state of the istream: nothing works until clear()
  out,                   \* what the last call returned
  total_bytes_to_read,   \* locals of underflow, zero when it does not run
  total_bytes_read,
  failed,                \* history: a call of the storage has failed
  overwritten            \* history: a chunk was stored over another of the same range

area == <<buffer_, gptr, egptr, src_limit_position_>>
filling == <<total_bytes_to_read, total_bytes_read>>
vars == <<blob, buffer_size, area, src_cached_size_, bad, out, filling, failed, overwritten>>

Nothing == [op |-> "nothing"]

Init ==
  /\ blob \in [version : {1}, size : 0..MaxSize]
  /\ buffer_size \in BufferSizes
  /\ buffer_ = <<>> /\ gptr = 0 /\ egptr = 0
  /\ src_limit_position_ = 0 /\ src_cached_size_ = -1
  /\ bad = FALSE /\ out = Nothing
  /\ total_bytes_to_read = 0 /\ total_bytes_read = 0
  /\ failed = FALSE /\ overwritten = FALSE

\* The thread that reads is in the loop of underflow.
Underflowing == total_bytes_to_read > 0

\* Another PutBlob of the same key.
Replace ==
  /\ blob.version = 1
  /\ blob' \in [version : {2}, size : 0..MaxSize]
  /\ UNCHANGED <<buffer_size, area, src_cached_size_, bad, out, filling, failed, overwritten>>

(***************************************************************************)
(* Positions                                                               *)
(***************************************************************************)

BufferAvailableChars == egptr - gptr

BufferStartPosition == src_limit_position_ - egptr

BufferCursorPosition == src_limit_position_ - BufferAvailableChars

\* The error callback of S3BlobReader and GcpBlobReader sets badbit.
MaybeReportError == bad' = TRUE /\ failed' = TRUE /\ out' = Nothing

(***************************************************************************)
(* Size, seek and read                                                     *)
(***************************************************************************)

\* Size: SizeImpl is called once.
Size == IF src_cached_size_ >= 0 THEN src_cached_size_ ELSE blob.size

\* SizeImpl fails, in seekoff or in underflow.
SizeFails ==
  /\ ~bad /\ src_cached_size_ < 0
  /\ MaybeReportError
  /\ UNCHANGED <<blob, buffer_size, area, src_cached_size_, filling, overwritten>>

MoveTo_KeepLimit(new_position) ==
  IF new_position < BufferStartPosition \/ new_position > src_limit_position_
  THEN /\ buffer_' = <<>> /\ gptr' = 0 /\ egptr' = 0
       /\ UNCHANGED src_limit_position_
  ELSE /\ gptr' = new_position - BufferStartPosition /\ egptr' = Len(buffer_)
       /\ UNCHANGED <<buffer_, src_limit_position_>>

\* The setg calls of seekoff: the get area is emptied, or the cursor moves within it.
MoveTo(new_position) ==
  IF new_position < BufferStartPosition \/ new_position >= src_limit_position_
  THEN /\ buffer_' = <<>> /\ gptr' = 0 /\ egptr' = 0
       /\ src_limit_position_' = new_position
  ELSE /\ gptr' = new_position - BufferStartPosition /\ egptr' = Len(buffer_)
       /\ UNCHANGED <<buffer_, src_limit_position_>>

\* The switch of seekoff: what it refuses, and the position it computes.
Refused(off, dir) == (dir = "beg" /\ off < 0) \/ (dir = "end" /\ off > 0)

Target(off, dir) ==
  CASE dir = "beg" -> off
    [] dir = "cur" -> BufferCursorPosition + off
    [] dir = "end" -> Size + off

seekoff(off, dir) ==
  /\ ~Underflowing
  /\ src_cached_size_' = Size
  /\ IF Refused(off, dir) THEN out' = Nothing /\ UNCHANGED area
     ELSE LET new_position == min(Size, max(0, Target(off, dir)))
          IN MoveTo(new_position) /\ out' = [op |-> "seek", position |-> new_position]
  /\ UNCHANGED <<blob, buffer_size, filling, failed, overwritten>>

\* seekg of the istream, which does nothing on a bad stream.
seekg(off, dir) == ~bad /\ seekoff(off, dir) /\ UNCHANGED bad

\* clear() and seekg(0), as the readers of records begin.
Reset == bad /\ seekoff(0, "beg") /\ bad' = FALSE

BytesToRead == max(min(Size - src_limit_position_, buffer_size), 1)

Resized(length) ==
  [i \in 1..length |-> IF i <= Len(buffer_) THEN buffer_[i] ELSE <<0, 0>>]

\* The buffer once ReadChunk has stored n bytes at its beginning, buffer_.data().
WithChunk(n) ==
  [i \in 1..Len(buffer_) |->
     IF i <= n THEN <<blob.version, src_limit_position_ + i - 1>> ELSE buffer_[i]]

\* underflow, as far as the loop: at the end of the blob there is nothing to read.
BeginUnderflow ==
  /\ ~bad /\ ~Underflowing /\ gptr >= egptr
  /\ src_cached_size_' = Size
  /\ IF src_limit_position_ >= Size
     THEN out' = Nothing /\ UNCHANGED <<buffer_, total_bytes_to_read>>
     ELSE /\ total_bytes_to_read' = BytesToRead
          /\ buffer_' = Resized(BytesToRead)
          /\ UNCHANGED out
  /\ UNCHANGED <<blob, buffer_size, gptr, egptr, src_limit_position_, bad, total_bytes_read,
                 failed, overwritten>>

\* ReadChunk gives n bytes of what is missing: all of them, or fewer because the blob has
\* become shorter or the answer broke off, possibly none at all: then the chunk is asked
\* for again. (No reader gives a negative number, which would end the loop.) After the
\* last one the get area is the buffer, and sbumpc takes its first byte.
ReadChunk(n) ==
  /\ Underflowing
  /\ n <= total_bytes_to_read - total_bytes_read
  /\ n <= max(0, blob.size - src_limit_position_)
  /\ buffer_' = WithChunk(n)
  /\ src_limit_position_' = src_limit_position_ + n
  /\ overwritten' = (overwritten \/ (n > 0 /\ total_bytes_read > 0))
  /\ IF total_bytes_read + n < total_bytes_to_read
     THEN /\ total_bytes_read' = total_bytes_read + n
          /\ UNCHANGED <<gptr, egptr, out, total_bytes_to_read>>
     ELSE /\ gptr' = 1 /\ egptr' = total_bytes_to_read
          /\ out' = [op |-> "read", byte |-> WithChunk(n)[1]]
          /\ total_bytes_to_read' = 0 /\ total_bytes_read' = 0
  /\ UNCHANGED <<blob, buffer_size, src_cached_size_, bad, failed>>

\* ReadChunk fails, at once or after chunks that came short: what was read is in the
\* buffer and counted, the get area is the old one.
ReadChunkFails ==
  /\ Underflowing
  /\ MaybeReportError
  /\ total_bytes_to_read' = 0 /\ total_bytes_read' = 0
  /\ UNCHANGED <<blob, buffer_size, area, src_cached_size_, overwritten>>

\* sbumpc within the get area.
Bump ==
  /\ ~bad /\ ~Underflowing /\ gptr < egptr
  /\ out' = [op |-> "read", byte |-> buffer_[gptr + 1]]
  /\ gptr' = gptr + 1
  /\ UNCHANGED <<blob, buffer_size, buffer_, egptr, src_limit_position_, src_cached_size_, bad,
                 filling, failed, overwritten>>

Next ==
  \/ Replace \/ SizeFails \/ BeginUnderflow \/ ReadChunkFails \/ Bump \/ Reset
  \/ \E n \in 0..MaxSize : ReadChunk(n)
  \/ \E off \in Offsets, dir \in {"beg", "cur", "end"} : seekg(off, dir)

Spec == Init /\ [][Next]_vars

(***************************************************************************)
(* Properties                                                              *)
(***************************************************************************)

\* The get area lies within the buffer, and the cursor within the get area, as long as
\* the storage has not failed (a failed underflow has resized the buffer under it).
TypeOK ==
  /\ src_cached_size_ \in -1..MaxSize
  /\ total_bytes_read \in 0..total_bytes_to_read
  /\ ~failed => /\ 0 <= gptr /\ gptr <= egptr /\ src_limit_position_ <= MaxSize
                /\ Len(buffer_) = IF Underflowing THEN total_bytes_to_read ELSE egptr

\* The stream implements BlobStream: whatever the seeks, the fillings of the buffer and
\* the chunks in which they come, a read gives the byte at the position of the stream and
\* moves on by one, and a seek says where the next read will be. A blob replaced on the
\* way does not shift bytes. It does so until the storage fails or a second chunk of one
\* range is stored over the first: ReadChunk always gets buffer_.data(), so a range that
\* comes in several chunks loses its bytes (seeking_input_streambuf.cc:137).
Stream == INSTANCE BlobStream WITH
  pos <- BufferCursorPosition - total_bytes_read,
  broken <- failed \/ overwritten

IsAStream == Stream!Spec
=============================================================================
