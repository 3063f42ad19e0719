---------------------------- MODULE FileStreams ----------------------------
(***************************************************************************)
(* What a player gets of the files of FileStorage: GET                     *)
(* /streaming_media_file answers one request for a range after another     *)
(* from the temporary copy of a file.                                      *)
(***************************************************************************)
EXTENDS FileStorage, MediaRanges

CONSTANTS
    Sizes,              \* how long files are
    ChunkSizes          \* STREAMING_CHUNK_SIZE

ASSUME FileStreamsAssumption ==
    /\ Sizes \subseteq Nat
    /\ ChunkSizes \subseteq Nat \ {0}

AllSizesPlayThrough ==
    \A size \in Sizes, chunkSize \in ChunkSizes :
        PlaysThrough(size, chunkSize) /\ KeepsToTheRange(size, chunkSize)

(* What can be streamed at all can be played: it is the file of the row     *)
(* asked for (CopiesAreTrue), and whatever the size of the file and of the  *)
(* chunks, a player comes to its end.                                       *)
StreamsReachTheEnd == \A r \in Calls : cache[r] = r => AllSizesPlayThrough
=============================================================================
