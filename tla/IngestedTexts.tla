--------------------------- MODULE IngestedTexts ---------------------------
(***************************************************************************)
(* What is found of the documents of Ingestion: the pieces their texts     *)
(* were cut into, as far as the vector service has stored them.            *)
(***************************************************************************)
EXTENDS Ingestion, TextChunks

CONSTANTS
    Contents,           \* [Documents -> texts], what is extracted of a document
    ChunkSize,          \* CHUNK_SIZE
    Overlap,            \* CHUNK_OVERLAP
    IgnoreTokenLength   \* the default of ignore_token_length

(* Only what Elasticsearch has extracted is cleaned; the text of a PDF is   *)
(* cut as it is.                                                            *)
TextOf(d) == IF d \in Pdfs THEN Contents[d] ELSE CleanNonSenseText(Contents[d])

PiecesOf(d) == ChunkText(TextOf(d), ChunkSize, Overlap, IgnoreTokenLength)

ASSUME IngestedTextsAssumption ==
    /\ Contents \in [Documents -> Seq(Seq(Sentence))]
    /\ ChunkSize \in Nat \ {0}
    /\ Overlap \in 0..(ChunkSize - 1)
    /\ IgnoreTokenLength \in Nat \ {0}

(* Texts are finite, so these are facts; they are folds, which the provers  *)
(* cannot compute.  A document has as many paragraphs to store as its text  *)
(* has pieces.                                                              *)
ASSUME TextsAreFinite ==
    \A d \in Documents :
        /\ TextOf(d) \in Seq(Seq(Sentence))
        /\ \A i \in DOMAIN TextOf(d) : Tokens(TextOf(d)[i]) \in Nat
        /\ Paragraphs[d] = Cardinality(PiecesOf(d))

(* Paragraphs are stored one after the other. *)
StoredPieces(u) ==
    {p \in PiecesOf(document[u]) :
        Cardinality({q \in PiecesOf(document[u]) : Precedes(q, p)}) < paragraphs[u]}

(* A document that a client was told is ingested is found with its context. *)
(* Of a text that is what cleaning has left of it: the sentences taken for  *)
(* nonsense are not found.  What is left, and a PDF as it is, has no gap:   *)
(* of each paragraph that is not too short, any two tokens no further apart *)
(* than the overlap are together in a piece the vector service has stored,  *)
(* whatever failed, was given up or restarted on the way and after.         *)
ContextIsKept ==
    \A u \in Uploads : told[u] = "ok" =>
        \A i \in DOMAIN TextOf(document[u]) :
            LET n == Tokens(TextOf(document[u])[i])
            IN  n >= IgnoreTokenLength =>
                  \A s, t \in 0..(n - 1) :
                      s <= t /\ t <= s + Overlap =>
                          \E p \in StoredPieces(u) :
                              p.paragraph = i /\ s \in p.tokens /\ t \in p.tokens
=============================================================================
