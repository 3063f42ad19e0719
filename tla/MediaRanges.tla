----------------------------- MODULE MediaRanges -----------------------------
(***************************************************************************)
(* Which bytes of a file common-file-handler answers a request for a range *)
(* with: streaming_media and streaming_media_condition.                    *)
(*                                                                         *)
(* A range is what stands on the two sides of the dash in the header       *)
(* Range; the bytes of an answer are a set of positions.                   *)
(***************************************************************************)
EXTENDS Integers

(* One side of the dash is empty. *)
Missing == -1

Sides == Nat \cup {Missing}
RangeHeader == [start : Sides, end : Sides]

(* The reply, and the bytes with it. *)
Reply(status, bytes) == [status |-> status, bytes |-> bytes]
NoBytes(status) == Reply(status, {})

RangeStart(range) == IF range.start = Missing THEN 0 ELSE range.start
RangeEnd(range, chunkSize) ==
    IF range.end = Missing THEN RangeStart(range) + chunkSize ELSE range.end

(* file.read(length) from a position: -1 is all the rest, a length below    *)
(* that is an error, and no more is read than there is.                     *)
Read(size, position, length) ==
    {b \in 0..(size - 1) : position <= b /\ (length = -1 \/ b < position + length)}

(* Faulty variant of StreamingMedia: the end is taken to be included, and   *)
(* yet not read.                                                            *)
StreamingMediaShort(range, size, chunkSize) ==
    IF RangeStart(range) >= size - 1
    THEN NoBytes("null")
    ELSE Reply("206", Read(size, RangeStart(range), RangeEnd(range, chunkSize) - RangeStart(range) - 1))

(* The end is not read.  It is clipped only when it is beyond the size, and *)
(* then to the last byte; at the last byte and behind it the handler        *)
(* returns nothing, which FastAPI answers with null.                        *)
StreamingMedia(range, size, chunkSize) ==
    LET start == RangeStart(range)
        asked == RangeEnd(range, chunkSize)
        end == IF asked > size THEN size - 1 ELSE asked
    IN  IF start >= size - 1 THEN NoBytes("null")
        ELSE IF end - start < -1 THEN NoBytes("404")
        ELSE Reply("206", Read(size, start, end - start))

(* The variant for the audio component of browsers needs a start, and does  *)
(* not look at the end.                                                     *)
StreamingMediaCondition(range, size, chunkSize) ==
    IF range.start = Missing THEN NoBytes("406")
    ELSE Reply("206", Read(size, range.start, chunkSize))

-----------------------------------------------------------------------------
From(position) == [start |-> position, end |-> Missing]

(* The bytes take a player on: they begin where it is, and leave none out.  *)
TakesOn(bytes, position, size) ==
    \E next \in (position + 1)..size : bytes = position..(next - 1)

(* A player that asks for what follows the bytes it has gets on with every  *)
(* answer, until it has the file (streaming_media_condition), or all of it  *)
(* but the last byte (streaming_media, which may stop there).               *)
PlaysThrough(size, chunkSize) ==
    \A position \in 0..size :
        LET media == StreamingMedia(From(position), size, chunkSize)
            condition == StreamingMediaCondition(From(position), size, chunkSize)
        IN  /\ IF position < size - 1
               THEN media.status = "206" /\ TakesOn(media.bytes, position, size)
               ELSE media.bytes = {}
            /\ IF position < size
               THEN TakesOn(condition.bytes, position, size)
               ELSE condition.bytes = {}

(* A range whose end is not before its start is answered with bytes of it,  *)
(* from its start on, or with none.                                         *)
KeepsToTheRange(size, chunkSize) ==
    \A start \in 0..size, end \in 0..(size + 1) :
        LET range == [start |-> start, end |-> end]
            bytes == StreamingMedia(range, size, chunkSize).bytes
        IN  start <= end =>
                bytes \subseteq start..end /\ (bytes # {} => start \in bytes)
=============================================================================
