--------------------------- MODULE IngestionProofs ---------------------------
(***************************************************************************)
(* Proofs about Ingestion: a confirmed upload is complete in the file      *)
(* handler and the vector service, and a document whose record can be      *)
(* found is not ingested again.                                            *)
(*                                                                         *)
(* Three parties act on an upload by themselves, so the invariant says     *)
(* what each of them can conclude from where the upload is: its handler    *)
(* (HandlerAt), its record (RecordAt), its job (JobAt).                    *)
(***************************************************************************)
EXTENDS IngestedTexts, FiniteSetTheorems, TLAPS

(* Handlers work for known documents whose file is kept. *)
HandlerAt(u) ==
    /\ step[u] # "new" => document[u] \in Documents
    /\ step[u] \in {"queue"} \cup Working => u \in stored
    /\ step[u] \in {"new", "save"} => told[u] = "nothing"
    /\ step[u] \in {"check", "record", "read"} => document[u] \notin Pdfs

(* Who has a record: a document that is no PDF, from "read" on. *)
RecordAt(u) ==
    /\ step[u] \in {"new", "save", "queue", "check", "record"} => record[u] = "none"
    /\ step[u] = "read" => record[u] # "none"
    /\ step[u] \in {"send", "wait"} \/ job[u] # "none" =>
          document[u] \in Pdfs \/ record[u] # "none"

(* What the vector service has stored by the time a job is where it is. *)
JobAt(u) ==
    /\ job[u] # "none" => step[u] \in {"wait", "ended"}
    /\ step[u] = "wait" => job[u] # "none"
    /\ job[u] \in {"none", "parse", "index", "create"} => paragraphs[u] = 0
    /\ job[u] \in {"index", "create", "store", "ok"} => Paragraphs[document[u]] > 0
    /\ job[u] = "ok" => paragraphs[u] = Paragraphs[document[u]]

(* What an answer says. *)
AnswerAt(u) ==
    /\ told[u] = "ok" => step[u] = "ended" /\ job[u] = "ok" /\ u \in stored
    /\ told[u] = "conflict" =>
          /\ step[u] = "ended" /\ record[u] = "none" /\ job[u] = "none"
          /\ \E v \in Uploads : document[v] = document[u] /\ record[v] # "none"

(* A warned upload is refused in its next step. *)
WarnedAt(u) ==
    u \in warned =>
        /\ step[u] \in {"check", "ended"}
        /\ record[u] = "none" /\ job[u] = "none"
        /\ step[u] = "check" => Found(document[u])

IngestionInv ==
    /\ TypeOK
    /\ \A u \in Uploads :
          HandlerAt(u) /\ RecordAt(u) /\ JobAt(u) /\ AnswerAt(u) /\ WarnedAt(u)

LEMMA IngestionInit == Init => IngestionInv
<1> SUFFICES ASSUME Init PROVE IngestionInv
  OBVIOUS
<1>1. TypeOK
  BY DEF Init, TypeOK, Steps, Answers, Working
<1>2. \A u \in Uploads :
         HandlerAt(u) /\ RecordAt(u) /\ JobAt(u) /\ AnswerAt(u) /\ WarnedAt(u)
  BY DEF Init, HandlerAt, RecordAt, JobAt, AnswerAt, WarnedAt, Working
<1> QED
  BY <1>1, <1>2 DEF IngestionInv

(* Steps of the BFF and of the ingestion service keep the types. *)
LEMMA HandlerKeepsTypes ==
    ASSUME IngestionInv, NEW u \in Uploads,
           \/ \E d \in Documents : Upload(u, d)
           \/ SaveFile(u) \/ SaveFails(u) \/ GiveUp(u) \/ Take(u) \/ Check(u)
           \/ Record(u) \/ ReadText(u) \/ SendToVectorService(u) \/ Receive(u) \/ Fail(u)
    PROVE  TypeOK'
<1> USE DEF IngestionInv, TypeOK, Steps, Answers, Working, vectorVars
<1>1. ASSUME NEW d \in Documents, Upload(u, d) PROVE TypeOK'
  BY <1>1, IngestionAssumption DEF Upload, JobAt, RecordAt
<1>2. CASE SaveFile(u)
  BY <1>2 DEF SaveFile
<1>3. CASE SaveFails(u)
  BY <1>3 DEF SaveFails, End
<1>4. CASE GiveUp(u)
  BY <1>4 DEF GiveUp
<1>5. CASE Take(u)
  BY <1>5 DEF Take
<1>6. CASE Check(u)
  BY <1>6 DEF Check, End
<1>7. CASE Record(u)
  BY <1>7 DEF Record, End
<1>8. CASE ReadText(u)
  BY <1>8 DEF ReadText, End
<1>9. CASE SendToVectorService(u)
  BY <1>9 DEF SendToVectorService, InProgress
<1>10. CASE Receive(u)
  BY <1>10 DEF Receive, End
<1>11. CASE Fail(u)
  BY <1>11 DEF Fail, End
<1> QED
  BY <1>1, <1>2, <1>3, <1>4, <1>5, <1>6, <1>7, <1>8, <1>9, <1>10, <1>11

(* They keep the invariant, of the upload they are about and of the others: *)
(* no handler takes back a record, so what warned or refused another upload *)
(* is still there.                                                          *)
LEMMA HandlerKeepsInv ==
    ASSUME IngestionInv, NEW u \in Uploads,
           \/ \E d \in Documents : Upload(u, d)
           \/ SaveFile(u) \/ SaveFails(u) \/ GiveUp(u) \/ Take(u) \/ Check(u)
           \/ Record(u) \/ ReadText(u) \/ SendToVectorService(u) \/ Receive(u) \/ Fail(u)
    PROVE  IngestionInv'
<1>1. TypeOK'
  BY HandlerKeepsTypes
<1> SUFFICES ASSUME NEW w \in Uploads
             PROVE  (HandlerAt(w) /\ RecordAt(w) /\ JobAt(w) /\ AnswerAt(w) /\ WarnedAt(w))'
  BY <1>1 DEF IngestionInv
<1> USE DEF IngestionInv, TypeOK, HandlerAt, RecordAt, JobAt, AnswerAt, WarnedAt,
            Working, vectorVars, End, Found
<1>2. ASSUME NEW d \in Documents, Upload(u, d)
      PROVE  (HandlerAt(w) /\ RecordAt(w) /\ JobAt(w) /\ AnswerAt(w) /\ WarnedAt(w))'
  BY <1>2 DEF Upload
<1>3. CASE SaveFile(u)
  BY <1>3 DEF SaveFile
<1>4. CASE SaveFails(u)
  BY <1>4 DEF SaveFails
<1>5. CASE GiveUp(u)
  BY <1>5 DEF GiveUp
<1>6. CASE Take(u)
  BY <1>6 DEF Take
<1>7. CASE Check(u)
  BY <1>7 DEF Check
<1>8. CASE Record(u)
  BY <1>8 DEF Record
<1>9. CASE ReadText(u)
  BY <1>9 DEF ReadText
<1>10. CASE SendToVectorService(u)
  BY <1>10 DEF SendToVectorService
<1>11. CASE Receive(u)
  BY <1>11 DEF Receive
<1>12. CASE Fail(u)
  BY <1>12 DEF Fail
<1> QED
  BY <1>2, <1>3, <1>4, <1>5, <1>6, <1>7, <1>8, <1>9, <1>10, <1>11, <1>12

(* The jobs of the vector service keep the types. *)
LEMMA JobKeepsTypes ==
    ASSUME IngestionInv, NEW u \in Uploads,
           \/ Parse(u) \/ LookForIndex(u) \/ CreateIndex(u) \/ StoreParagraph(u)
           \/ AllStored(u) \/ JobFails(u)
    PROVE  TypeOK'
<1> USE DEF IngestionInv, TypeOK, ingestVars, InProgress
<1>1. document[u] \in Documents
  BY DEF Parse, LookForIndex, CreateIndex, StoreParagraph, AllStored, JobFails,
         JobAt, HandlerAt
<1>2. Paragraphs[document[u]] \in Nat /\ WorkspaceOf[document[u]] \in Workspaces
  BY <1>1, IngestionAssumption
<1>3. CASE Parse(u)
  BY <1>3 DEF Parse
<1>4. CASE LookForIndex(u)
  BY <1>4 DEF LookForIndex
<1>5. CASE CreateIndex(u)
  BY <1>2, <1>5 DEF CreateIndex
<1>6. CASE StoreParagraph(u)
  BY <1>2, <1>6 DEF StoreParagraph
<1>7. CASE AllStored(u)
  BY <1>7 DEF AllStored
<1>8. CASE JobFails(u)
  BY <1>8 DEF JobFails
<1> QED
  BY <1>3, <1>4, <1>5, <1>6, <1>7, <1>8

(* A job finds the paragraphs of its upload as it left them, and is done    *)
(* when all of them are there.                                              *)
LEMMA JobKeepsInv ==
    ASSUME IngestionInv, NEW u \in Uploads,
           \/ Parse(u) \/ LookForIndex(u) \/ CreateIndex(u) \/ StoreParagraph(u)
           \/ AllStored(u) \/ JobFails(u)
    PROVE  IngestionInv'
<1>1. TypeOK'
  BY JobKeepsTypes
<1>2. UNCHANGED ingestVars /\ job[u] \in InProgress
  BY DEF Parse, LookForIndex, CreateIndex, StoreParagraph, AllStored, JobFails, InProgress
<1>3. /\ \A w \in Uploads \ {u} : job'[w] = job[w] /\ paragraphs'[w] = paragraphs[w]
      /\ job'[u] # "none"
  BY DEF IngestionInv, TypeOK, InProgress, Parse, LookForIndex, CreateIndex,
         StoreParagraph, AllStored, JobFails
<1>4. JobAt(u)'
  <2>1. document[u] \in Documents /\ Paragraphs[document[u]] \in Nat
    BY <1>2, IngestionAssumption DEF IngestionInv, JobAt, HandlerAt, InProgress
  <2> QED
    BY <1>2, <2>1 DEF IngestionInv, TypeOK, JobAt, ingestVars, InProgress, Parse,
       LookForIndex, CreateIndex, StoreParagraph, AllStored, JobFails
<1>5. ASSUME NEW w \in Uploads
      PROVE  (HandlerAt(w) /\ RecordAt(w) /\ JobAt(w) /\ AnswerAt(w) /\ WarnedAt(w))'
  BY <1>2, <1>3, <1>4 DEF IngestionInv, HandlerAt, RecordAt, JobAt, AnswerAt,
     WarnedAt, Found, ingestVars, InProgress, Working
<1> QED
  BY <1>1, <1>5 DEF IngestionInv

(* What befalls a service as a whole. *)
LEMMA OutageKeepsInv ==
    ASSUME IngestionInv,
           \/ DeleteIngestIndex \/ Refresh
           \/ RestartIngestService \/ RestartVectorService
    PROVE  IngestionInv'
<1> USE DEF IngestionInv, TypeOK, Steps, Answers, Working, InProgress,
            ingestVars, vectorVars
<1>1. TypeOK'
  <2>1. CASE DeleteIngestIndex
    BY <2>1 DEF DeleteIngestIndex
  <2>2. CASE Refresh
    BY <2>2 DEF Refresh
  <2>3. CASE RestartIngestService
    BY <2>3 DEF RestartIngestService
  <2>4. CASE RestartVectorService
    BY <2>4 DEF RestartVectorService
  <2> QED
    BY <2>1, <2>2, <2>3, <2>4
<1> SUFFICES ASSUME NEW w \in Uploads
             PROVE  (HandlerAt(w) /\ RecordAt(w) /\ JobAt(w) /\ AnswerAt(w) /\ WarnedAt(w))'
  BY <1>1
<1> USE DEF HandlerAt, RecordAt, JobAt, AnswerAt, WarnedAt, Found
<1>2. CASE DeleteIngestIndex
  BY <1>2 DEF DeleteIngestIndex
<1>3. CASE Refresh
  BY <1>3 DEF Refresh
<1>4. CASE RestartIngestService
  BY <1>4 DEF RestartIngestService
<1>5. CASE RestartVectorService
  BY <1>5 DEF RestartVectorService
<1> QED
  BY <1>2, <1>3, <1>4, <1>5

LEMMA StutteringKeepsInv ==
    ASSUME IngestionInv, UNCHANGED vars
    PROVE  IngestionInv'
BY DEF vars, IngestionInv, TypeOK, HandlerAt, RecordAt, JobAt, AnswerAt, WarnedAt, Found

THEOREM IngestionInvariant == Spec => []IngestionInv
<1>1. IngestionInv /\ [Next]_vars => IngestionInv'
  <2> SUFFICES ASSUME IngestionInv, [Next]_vars PROVE IngestionInv'
    OBVIOUS
  <2>1. ASSUME NEW u \in Uploads,
               \/ \E d \in Documents : Upload(u, d)
               \/ IngestStep(u) \/ SaveFails(u) \/ GiveUp(u) \/ Fail(u)
        PROVE  IngestionInv'
    BY <2>1, HandlerKeepsInv DEF IngestStep
  <2>2. ASSUME NEW u \in Uploads, VectorStep(u) \/ JobFails(u)
        PROVE  IngestionInv'
    BY <2>2, JobKeepsInv DEF VectorStep
  <2>3. CASE DeleteIngestIndex \/ Refresh \/ RestartIngestService \/ RestartVectorService
    BY <2>3, OutageKeepsInv
  <2>4. CASE UNCHANGED vars
    BY <2>4, StutteringKeepsInv
  <2> QED
    BY <2>1, <2>2, <2>3, <2>4 DEF Next
<1> QED
  BY IngestionInit, <1>1, PTL DEF Spec

(* The tables of the three services hold what they should. *)
THEOREM IngestionTypeCorrect == Spec => []TypeOK
<1>1. IngestionInv => TypeOK
  BY DEF IngestionInv
<1> QED
  BY <1>1, IngestionInvariant, PTL

(* Whatever the ingestion service tells the BFF to be stored is stored, in  *)
(* the file handler and, to the last paragraph, in the vector service.      *)
THEOREM ConfirmedUploadsAreComplete == Spec => []ConfirmedIsComplete
<1>1. IngestionInv => ConfirmedIsComplete
  BY DEF IngestionInv, AnswerAt, JobAt, ConfirmedIsComplete
<1> QED
  BY <1>1, IngestionInvariant, PTL

(* The check by file name, once it can find a document, lets no upload of   *)
(* it through, whatever the other workers are doing.                        *)
THEOREM FoundDocumentsAreNotRepeated == Spec => []FoundIsNotRepeated
<1>1. IngestionInv => FoundIsNotRepeated
  BY DEF IngestionInv, TypeOK, WarnedAt, JobAt, FoundIsNotRepeated
<1> QED
  BY <1>1, IngestionInvariant, PTL

(* A paragraph of a text can be traced to a record, and a refusal to the    *)
(* record of another upload.                                                *)
THEOREM StoredParagraphsAreRecorded == Spec => []ParagraphsAreRecorded
<1>1. IngestionInv => ParagraphsAreRecorded
  BY DEF IngestionInv, TypeOK, RecordAt, JobAt, AnswerAt, ParagraphsAreRecorded
<1> QED
  BY <1>1, IngestionInvariant, PTL

-----------------------------------------------------------------------------
(* Of the multiples of a stride, one is the last that is not above a token. *)
LEMMA LastMultiple ==
    ASSUME NEW stride \in Nat \ {0}, NEW t \in Nat
    PROVE  \E k \in 0..t : k * stride <= t /\ t < k * stride + stride
<1> DEFINE k == t \div stride
<1>1. t = stride * k + (t % stride) /\ 0 <= t % stride /\ (t % stride) < stride
  BY SMT
<1>2. k \in Nat
  BY SMT
<1> HIDE DEF k
<1>3. k * stride <= t /\ t < k * stride + stride
  BY <1>1, <1>2, SMT
<1>4. k <= k * stride
  BY <1>2, SMT
<1>5. k \in 0..t
  BY <1>2, <1>3, <1>4, SMT
<1> QED
  BY <1>3, <1>5

(* Tokens that are near each other are in the slice that begins last before *)
(* the first of them.                                                       *)
LEMMA NearTokensShareASlice ==
    ASSUME NEW n \in Nat, NEW chunkSize \in Nat \ {0},
           NEW overlap \in 0..(chunkSize - 1),
           NEW s \in 0..(n - 1), NEW t \in 0..(n - 1), s <= t, t <= s + overlap
    PROVE  \E i \in Starts(n, chunkSize, overlap) :
              s \in Slice(n, i, chunkSize) /\ t \in Slice(n, i, chunkSize)
<1> DEFINE stride == chunkSize - overlap
<1>1. stride \in Nat \ {0} /\ chunkSize = stride + overlap /\ s \in Nat
  OBVIOUS
<1>2. PICK k \in 0..s : k * stride <= s /\ s < k * stride + stride
  <2> HIDE DEF stride
  <2> QED
    BY <1>1, LastMultiple
<1>3. k * stride \in Int
  BY <1>1
<1>4. 0 <= k * stride
  <2> HIDE DEF stride
  <2>1. k \in Nat
    OBVIOUS
  <2> QED
    BY <1>1, <2>1, SMT
<1>5. k * stride \in 0..(n - 1) /\ k \in 0..n
  BY <1>2, <1>3, <1>4
<1>6. k * stride \in Starts(n, chunkSize, overlap)
  BY <1>5 DEF Starts
<1>7. t < k * stride + chunkSize
  BY <1>1, <1>2, <1>3
<1>8. s \in Slice(n, k * stride, chunkSize) /\ t \in Slice(n, k * stride, chunkSize)
  BY <1>1, <1>2, <1>3, <1>7 DEF Slice
<1> QED
  BY <1>6, <1>8

LEMMA SlicesAreBounded ==
    ASSUME NEW n \in Nat, NEW chunkSize \in Nat \ {0}, NEW i \in 0..(n - 1)
    PROVE  Slice(n, i, chunkSize) # {} /\ Cardinality(Slice(n, i, chunkSize)) <= chunkSize
<1>1. i \in Slice(n, i, chunkSize)
  BY DEF Slice
<1>2. Slice(n, i, chunkSize) \in SUBSET (i..(i + chunkSize - 1))
  BY DEF Slice
<1>3. IsFiniteSet(i..(i + chunkSize - 1)) /\ Cardinality(i..(i + chunkSize - 1)) = chunkSize
  <2>1. i \in Int /\ i + chunkSize - 1 \in Int /\ ~(i > i + chunkSize - 1)
        /\ (i + chunkSize - 1) - i + 1 = chunkSize
    OBVIOUS
  <2> QED
    BY <2>1, FS_Interval
<1>4. Cardinality(Slice(n, i, chunkSize)) <= chunkSize
  BY <1>2, <1>3, FS_Subset
<1> QED
  BY <1>1, <1>4

(* Whatever sizes chunk_text_nltk is given, if the overlap is smaller than  *)
(* the chunks: all tokens of a paragraph that is not ignored are in its     *)
(* pieces, those at most the overlap apart are together in one, and no      *)
(* piece is empty or longer than chunk_size.                                *)
THEOREM ContextIsKeptForAllSizes ==
    ASSUME NEW n \in Nat, NEW chunkSize \in Nat \ {0},
           NEW overlap \in 0..(chunkSize - 1), NEW ignoreTokenLength \in Nat \ {0}
    PROVE  KeepsContext(n, chunkSize, overlap, ignoreTokenLength)
<1> DEFINE pieces == ChunkParagraph(n, chunkSize, overlap, ignoreTokenLength)
<1>1. CASE n < ignoreTokenLength
  BY <1>1 DEF ChunkParagraph, KeepsContext
<1>2. CASE n >= ignoreTokenLength /\ n > chunkSize
  <2>1. pieces = {Slice(n, i, chunkSize) : i \in Starts(n, chunkSize, overlap)}
    BY <1>2 DEF ChunkParagraph
  <2>2. \A s, t \in 0..(n - 1) :
           s <= t /\ t <= s + overlap => \E p \in pieces : s \in p /\ t \in p
    BY <2>1, NearTokensShareASlice
  <2>3. \A p \in pieces : p # {} /\ Cardinality(p) <= chunkSize
    BY <2>1, SlicesAreBounded DEF Starts
  <2> QED
    BY <2>2, <2>3 DEF KeepsContext
<1>3. CASE n >= ignoreTokenLength /\ n <= chunkSize
  <2>1. pieces = {0..(n - 1)}
    BY <1>3 DEF ChunkParagraph
  <2>2. 0 \in 0..(n - 1)
    BY <1>3
  <2>3. Cardinality(0..(n - 1)) = n
    BY <1>3, FS_Interval
  <2> QED
    BY <1>3, <2>1, <2>2, <2>3 DEF KeepsContext
<1> QED
  BY <1>1, <1>2, <1>3

(* A text has finitely many pieces. *)
LEMMA PiecesAreFinite ==
    ASSUME NEW d \in Documents
    PROVE  IsFiniteSet(PiecesOf(d))
<1> DEFINE text == TextOf(d)
<1> DEFINE cut(i) == ChunkParagraph(Tokens(text[i]), ChunkSize, Overlap, IgnoreTokenLength)
<1> DEFINE piece(i, tokens) == [paragraph |-> i, tokens |-> tokens]
<1> DEFINE pieces(i) == {piece(i, tokens) : tokens \in cut(i)}
<1>1. IsFiniteSet(DOMAIN text)
  <2>1. PICK len \in Nat : DOMAIN text = 1..len
    BY TextsAreFinite
  <2> QED
    BY <2>1, FS_Interval
<1>2. ASSUME NEW i \in DOMAIN text PROVE IsFiniteSet(pieces(i))
  <2> DEFINE n == Tokens(text[i])
  <2>1. n \in Nat
    BY TextsAreFinite
  <2> HIDE DEF n
  <2>2. ASSUME NEW tokens \in ChunkParagraph(n, ChunkSize, Overlap, IgnoreTokenLength)
        PROVE  tokens \in SUBSET (0..(n - 1))
    BY <2>1, <2>2 DEF ChunkParagraph, Slice
  <2>3. IsFiniteSet(SUBSET (0..(n - 1)))
    <3>1. 0 \in Int /\ n - 1 \in Int
      BY <2>1
    <3>2. IsFiniteSet(0..(n - 1))
      BY <3>1, FS_Interval
    <3> QED
      BY <3>2, FS_SUBSET
  <2>4. IsFiniteSet(ChunkParagraph(n, ChunkSize, Overlap, IgnoreTokenLength))
    BY <2>2, <2>3, FS_Subset
  <2>5. IsFiniteSet(cut(i))
    BY <2>4 DEF n
  <2> DEFINE f == [tokens \in cut(i) |-> piece(i, tokens)]
  <2> HIDE DEF cut, text
  <2>6. f \in Surjection(cut(i), pieces(i))
    BY DEF Surjection
  <2> QED
    BY <2>5, <2>6, FS_Surjection
<1>3. IsFiniteSet({pieces(i) : i \in DOMAIN text})
  <2> HIDE DEF text, pieces
  <2> DEFINE f == [i \in DOMAIN text |-> pieces(i)]
  <2>1. f \in Surjection(DOMAIN text, {pieces(i) : i \in DOMAIN text})
    BY DEF Surjection
  <2> QED
    BY <1>1, <2>1, FS_Surjection
<1>4. PiecesOf(d) = UNION {pieces(i) : i \in DOMAIN text}
  BY DEF PiecesOf, ChunkText
<1> HIDE DEF pieces, text
<1> QED
  BY <1>2, <1>3, <1>4, FS_UNION

(* No piece comes before itself. *)
LEMMA PrecedesIsStrict ==
    ASSUME NEW d \in Documents, NEW p \in PiecesOf(d)
    PROVE  ~Precedes(p, p)
<1>1. PICK i \in DOMAIN TextOf(d) :
        /\ p.paragraph = i
        /\ p.tokens \in ChunkParagraph(Tokens(TextOf(d)[i]), ChunkSize, Overlap,
                                       IgnoreTokenLength)
  BY DEF PiecesOf, ChunkText
<1>2. i \in Int /\ Tokens(TextOf(d)[i]) \in Nat
  BY TextsAreFinite
<1>3. p.tokens \subseteq Int
  BY <1>1, <1>2 DEF ChunkParagraph, Slice
<1> QED
  BY <1>1, <1>2, <1>3 DEF Precedes

(* With as many paragraphs stored as the text has pieces, all are stored.   *)
LEMMA AllPiecesAreStored ==
    ASSUME NEW u \in Uploads, document[u] \in Documents,
           paragraphs[u] = Cardinality(PiecesOf(document[u]))
    PROVE  StoredPieces(u) = PiecesOf(document[u])
<1> DEFINE pieces == PiecesOf(document[u])
<1> SUFFICES ASSUME NEW p \in pieces
             PROVE  Cardinality({q \in pieces : Precedes(q, p)}) < paragraphs[u]
  BY DEF StoredPieces
<1> DEFINE earlier == {q \in pieces : Precedes(q, p)}
<1>1. IsFiniteSet(pieces)
  BY PiecesAreFinite
<1>2. p \notin earlier
  BY PrecedesIsStrict
<1>3. earlier \in SUBSET pieces /\ earlier # pieces
  BY <1>2
<1> HIDE DEF earlier, pieces
<1>4. Cardinality(earlier) <= Cardinality(pieces) /\ Cardinality(earlier) # Cardinality(pieces)
      /\ IsFiniteSet(earlier)
  BY <1>1, <1>3, FS_Subset
<1>5. Cardinality(earlier) \in Nat /\ Cardinality(pieces) \in Nat
  BY <1>1, <1>4, FS_CardinalityType
<1> QED
  BY <1>4, <1>5 DEF pieces, earlier

(* What a client is told is ingested is found with its context: all pieces  *)
(* of a confirmed document are stored, and no two near tokens are in none.  *)
THEOREM UploadsKeepTheirContext == Spec => []ContextIsKept
<1>1. IngestionInv => ContextIsKept
  <2> SUFFICES ASSUME IngestionInv, NEW u \in Uploads, told[u] = "ok",
                      NEW i \in DOMAIN TextOf(document[u]),
                      Tokens(TextOf(document[u])[i]) >= IgnoreTokenLength,
                      NEW s \in 0..(Tokens(TextOf(document[u])[i]) - 1),
                      NEW t \in 0..(Tokens(TextOf(document[u])[i]) - 1),
                      s <= t, t <= s + Overlap
               PROVE  \E p \in StoredPieces(u) :
                          p.paragraph = i /\ s \in p.tokens /\ t \in p.tokens
    BY DEF ContextIsKept
  <2> DEFINE n == Tokens(TextOf(document[u])[i])
  <2>1. /\ document[u] \in Documents
        /\ paragraphs[u] = Paragraphs[document[u]]
    BY DEF IngestionInv, AnswerAt, HandlerAt, JobAt
  <2>2. StoredPieces(u) = PiecesOf(document[u])
    BY <2>1, TextsAreFinite, AllPiecesAreStored
  <2>3. n \in Nat /\ n >= IgnoreTokenLength /\ s \in 0..(n - 1) /\ t \in 0..(n - 1)
    BY <2>1, TextsAreFinite
  <2>4. PICK tokens \in ChunkParagraph(n, ChunkSize, Overlap, IgnoreTokenLength) :
            s \in tokens /\ t \in tokens
    <3> HIDE DEF n
    <3>1. KeepsContext(n, ChunkSize, Overlap, IgnoreTokenLength)
      BY <2>3, IngestedTextsAssumption, ContextIsKeptForAllSizes
    <3> QED
      BY <2>3, <3>1 DEF KeepsContext
  <2>5. [paragraph |-> i, tokens |-> tokens] \in PiecesOf(document[u])
    BY <2>4 DEF PiecesOf, ChunkText
  <2> QED
    BY <2>2, <2>4, <2>5
<1> QED
  BY <1>1, IngestionInvariant, PTL
=============================================================================
