----------------------------- MODULE TextChunks -----------------------------
(***************************************************************************)
(* How elgen-esg-ingest-service cuts the text of a document into the       *)
(* pieces that are stored and searched: clean_non_sense_text,              *)
(* chunk_text_nltk.                                                        *)
(*                                                                         *)
(* A text is the sequence of its paragraphs, what is between two empty     *)
(* lines, and a paragraph the sequence of its sentences, what is between   *)
(* two full stops.  Of a sentence are left how many tokens it has and      *)
(* whether it makes sense: nostril's nonsense() does not take it for       *)
(* nonsense, and does not refuse to judge it for being too short.  A token *)
(* is a position in its paragraph.                                         *)
(***************************************************************************)
EXTENDS Integers, Sequences, FiniteSets, SequencesExt

Sentence == [tokens : Nat, makesSense : BOOLEAN]

Tokens(paragraph) == FoldSeq(LAMBDA sentence, n : sentence.tokens + n, 0, paragraph)

(* Sentences that make no sense, and those that nonsense() raises a         *)
(* ValueError for, are dropped.  The ends of lines become blanks, so that   *)
(* what is left is one paragraph.                                           *)
CleanNonSenseText(text) ==
    <<SelectSeq(FlattenSeq(text), LAMBDA sentence : sentence.makesSense)>>

(* Faulty variant of Starts: the last, incomplete piece is left out.        *)
StartsOfFull(n, chunkSize, overlap) ==
    {i \in 0..(n - chunkSize) : \E k \in 0..n : i = k * (chunkSize - overlap)}

(* range(0, n, chunkSize - overlap) *)
Starts(n, chunkSize, overlap) ==
    {i \in 0..(n - 1) : \E k \in 0..n : i = k * (chunkSize - overlap)}

(* The slice of a list may end before its upper bound. *)
Slice(n, i, chunkSize) == {t \in 0..(n - 1) : i <= t /\ t < i + chunkSize}

(* The pieces of a paragraph of n tokens. *)
ChunkParagraph(n, chunkSize, overlap, ignoreTokenLength) ==
    IF n < ignoreTokenLength THEN {}
    ELSE IF n > chunkSize
    THEN {Slice(n, i, chunkSize) : i \in Starts(n, chunkSize, overlap)}
    ELSE {0..(n - 1)}

(* The pieces of a text. *)
ChunkText(text, chunkSize, overlap, ignoreTokenLength) ==
    UNION {{[paragraph |-> i, tokens |-> tokens] :
                tokens \in ChunkParagraph(Tokens(text[i]), chunkSize, overlap,
                                         ignoreTokenLength)} :
           i \in DOMAIN text}

(* Their order in the list that process_documents returns. *)
Precedes(p, q) ==
    \/ p.paragraph < q.paragraph
    \/ p.paragraph = q.paragraph /\ \E s \in p.tokens : \A t \in q.tokens : s < t

-----------------------------------------------------------------------------
(* What the overlap is for: tokens that are at most the overlap apart are   *)
(* together in a piece, and no piece is longer than it may be.              *)
KeepsContext(n, chunkSize, overlap, ignoreTokenLength) ==
    LET pieces == ChunkParagraph(n, chunkSize, overlap, ignoreTokenLength)
    IN  /\ n >= ignoreTokenLength =>
              \A s, t \in 0..(n - 1) :
                  s <= t /\ t <= s + overlap => \E p \in pieces : s \in p /\ t \in p
        /\ \A p \in pieces : p # {} /\ Cardinality(p) <= chunkSize
=============================================================================
