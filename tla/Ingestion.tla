----------------------------- MODULE Ingestion -----------------------------
(***************************************************************************)
(* Uploading documents: the BFF keeps the file in the file handler and     *)
(* sends it to the ingestion service, which records it in Elasticsearch,   *)
(* reads its text back, cuts it into paragraphs and has the vector service *)
(* store them one by one.  POST /ingest/document/{workspace_id} of         *)
(* elgen-esg-bff, POST /ingest/files/{file_id} and DELETE /ingest/es of    *)
(* elgen-esg-ingest-service, POST /es/store-data of                        *)
(* elgen-esg-vector-service.                                               *)
(*                                                                         *)
(* A worker of the ingestion service handles one upload at a time, because *)
(* its handler blocks the event loop.  The vector service answers in a     *)
(* threadpool and goes on when its caller has gone, and so does the        *)
(* ingestion service when the BFF has given up.                            *)
(***************************************************************************)
EXTENDS Naturals, FiniteSets

CONSTANTS
    Uploads,            \* the requests to the BFF
    Documents,          \* file names within a workspace
    Pdfs,               \* those ending in .pdf
    Workspaces,
    WorkspaceOf,        \* [Documents -> Workspaces]
    Paragraphs,         \* [Documents -> Nat], 0 if all paragraphs are short
    Unnamed,            \* the document of an upload that was not sent
    MaxWorkers          \* the largest WORKERS_COUNT considered

ASSUME IngestionAssumption ==
    /\ Pdfs \subseteq Documents
    /\ Unnamed \notin Documents
    /\ WorkspaceOf \in [Documents -> Workspaces]
    /\ Paragraphs \in [Documents -> Nat]
    /\ MaxWorkers \in Nat \ {0}

VARIABLES
    workers,            \* WORKERS_COUNT
    document,           \* the document of an upload
    step,               \* where its handler is
    told,               \* what the BFF has answered
    stored,             \* the uploads whose file the file handler keeps
    ingestIndex,        \* does the index of the ingestion service exist
    record,             \* the entry an upload has made there
    vectorIndex,        \* the workspaces with an index of paragraphs
    job,                \* where the vector service is with an upload
    paragraphs,         \* how many paragraphs of an upload it has stored
    warned              \* history: taken when a search would find its document

ingestVars == <<workers, document, step, told, stored, ingestIndex, record, warned>>
vectorVars == <<vectorIndex, job, paragraphs>>
vars == <<workers, document, step, told, stored, ingestIndex, record, warned,
          vectorIndex, job, paragraphs>>

(* A worker is busy from "check" to "wait". *)
Working == {"check", "record", "read", "send", "wait"}
Steps == {"new", "save", "queue", "ended"} \cup Working
Answers == {"nothing", "ok", "conflict", "error"}
InProgress == {"parse", "index", "create", "store"}

TypeOK ==
    /\ workers \in 1..MaxWorkers
    /\ document \in [Uploads -> Documents \cup {Unnamed}]
    /\ step \in [Uploads -> Steps]
    /\ told \in [Uploads -> Answers]
    /\ stored \in SUBSET Uploads
    /\ ingestIndex \in BOOLEAN
    /\ record \in [Uploads -> {"none", "hidden", "searchable", "deleted"}]
    /\ warned \in SUBSET Uploads
    /\ vectorIndex \in SUBSET Workspaces
    /\ job \in [Uploads -> {"none", "ok", "failed"} \cup InProgress]
    /\ paragraphs \in [Uploads -> Nat]
    /\ \A u \in Uploads :
          document[u] # Unnamed => paragraphs[u] <= Paragraphs[document[u]]

(* The pipeline and the index are created before the service listens. *)
Init ==
    /\ workers \in 1..MaxWorkers
    /\ document = [u \in Uploads |-> Unnamed]
    /\ step = [u \in Uploads |-> "new"]
    /\ told = [u \in Uploads |-> "nothing"]
    /\ stored = {}
    /\ ingestIndex = TRUE
    /\ record = [u \in Uploads |-> "none"]
    /\ warned = {}
    /\ vectorIndex = {}
    /\ job = [u \in Uploads |-> "none"]
    /\ paragraphs = [u \in Uploads |-> 0]

-----------------------------------------------------------------------------
(* The BFF.  An answer reaches the client unless the BFF gave up before.    *)
End(u, answer) ==
    /\ step' = [step EXCEPT ![u] = "ended"]
    /\ told' = [told EXCEPT ![u] = IF @ = "nothing" THEN answer ELSE @]

Upload(u, d) ==
    /\ step[u] = "new"
    /\ step' = [step EXCEPT ![u] = "save"]
    /\ document' = [document EXCEPT ![u] = d]
    /\ UNCHANGED <<told, stored, ingestIndex, record, warned, workers, vectorVars>>

SaveFile(u) ==
    /\ step[u] = "save"
    /\ stored' = stored \cup {u}
    /\ step' = [step EXCEPT ![u] = "queue"]
    /\ UNCHANGED <<document, told, ingestIndex, record, warned, workers, vectorVars>>

(* The file handler fails, or only its answer is lost. *)
SaveFails(u) ==
    /\ step[u] = "save"
    /\ stored' \in {stored, stored \cup {u}}
    /\ End(u, "error")
    /\ UNCHANGED <<document, ingestIndex, record, warned, workers, vectorVars>>

(* handle_file_upload sets no timeout of its own and does not catch the one *)
(* of aiohttp; the ingestion service does not notice.                       *)
GiveUp(u) ==
    /\ step[u] \in {"queue"} \cup Working
    /\ told[u] = "nothing"
    /\ told' = [told EXCEPT ![u] = "error"]
    /\ UNCHANGED <<document, step, stored, ingestIndex, record, warned, workers, vectorVars>>

-----------------------------------------------------------------------------
(* The ingestion service. *)
Busy == {u \in Uploads : step[u] \in Working}

Found(d) == \E v \in Uploads : document[v] = d /\ record[v] = "searchable"

(* Faulty variant of Take: every document is treated as a PDF. *)
TakeUnrecorded(u) ==
    /\ step[u] = "queue"
    /\ Cardinality(Busy) < workers
    /\ step' = [step EXCEPT ![u] = "send"]
    /\ warned' = IF Found(document[u]) THEN warned \cup {u} ELSE warned
    /\ UNCHANGED <<document, told, stored, ingestIndex, record, workers, vectorVars>>

(* ingest_into_es_and_vector: PDFs are not recorded and not checked. *)
Take(u) ==
    /\ step[u] = "queue"
    /\ Cardinality(Busy) < workers
    /\ \/ /\ document[u] \in Pdfs
          /\ step' = [step EXCEPT ![u] = "send"]
          /\ UNCHANGED warned
       \/ /\ document[u] \notin Pdfs
          /\ step' = [step EXCEPT ![u] = "check"]
          /\ warned' = IF Found(document[u]) THEN warned \cup {u} ELSE warned
    /\ UNCHANGED <<document, told, stored, ingestIndex, record, workers, vectorVars>>

(* Faulty variant of Check: the number of hits is not looked at. *)
CheckStatusOnly(u) ==
    /\ step[u] = "check"
    /\ \/ ~ingestIndex /\ End(u, "error")
       \/ ingestIndex /\ step' = [step EXCEPT ![u] = "record"] /\ UNCHANGED told
    /\ UNCHANGED <<document, stored, ingestIndex, record, warned, workers, vectorVars>>

(* check_if_ingested_by_filename: a search, which sees refreshed records    *)
(* only and fails when the index is missing.  It looks for the name as it   *)
(* came, while the record has its basename: the same for a name that has no *)
(* slash, and the BFF sends no other.                                       *)
Check(u) ==
    /\ step[u] = "check"
    /\ \/ ~ingestIndex /\ End(u, "error")
       \/ ingestIndex /\ Found(document[u]) /\ End(u, "conflict")
       \/ /\ ingestIndex /\ ~Found(document[u])
          /\ step' = [step EXCEPT ![u] = "record"]
          /\ UNCHANGED told
    /\ UNCHANGED <<document, stored, ingestIndex, record, warned, workers, vectorVars>>

(* ingest_single_document: the POST creates the index if it is missing.     *)
Record(u) ==
    /\ step[u] = "record"
    /\ ingestIndex' = TRUE
    /\ record' = [record EXCEPT ![u] = "hidden"]
    /\ \/ step' = [step EXCEPT ![u] = "read"] /\ UNCHANGED told
       \/ End(u, "error")                       \* the answer is lost
    /\ UNCHANGED <<document, stored, warned, workers, vectorVars>>

(* get_text_by_es_id: by id, so without waiting for a refresh. *)
ReadText(u) ==
    /\ step[u] = "read"
    /\ \/ /\ record[u] \in {"hidden", "searchable"}
          /\ step' = [step EXCEPT ![u] = "send"]
          /\ UNCHANGED told
       \/ record[u] = "deleted" /\ End(u, "error")
    /\ UNCHANGED <<document, stored, ingestIndex, record, warned, workers, vectorVars>>

(* The paragraphs of the one document are always one batch. *)
SendToVectorService(u) ==
    /\ step[u] = "send"
    /\ step' = [step EXCEPT ![u] = "wait"]
    /\ job' = [job EXCEPT ![u] = "parse"]
    /\ UNCHANGED <<document, told, stored, ingestIndex, record, warned, workers,
                   vectorIndex, paragraphs>>

(* Faulty variants of Receive: the status code of the answer is not looked  *)
(* at; only a good answer is waited for.                                    *)
ReceiveUnchecked(u) ==
    /\ step[u] = "wait" /\ job[u] \in {"ok", "failed"} /\ End(u, "ok")
    /\ UNCHANGED <<document, stored, ingestIndex, record, warned, workers, vectorVars>>

ReceiveOkOnly(u) ==
    /\ step[u] = "wait" /\ job[u] = "ok" /\ End(u, "ok")
    /\ UNCHANGED <<document, stored, ingestIndex, record, warned, workers, vectorVars>>

Receive(u) ==
    /\ step[u] = "wait"
    /\ \/ job[u] = "ok" /\ End(u, "ok")
       \/ job[u] = "failed" /\ End(u, "error")
    /\ UNCHANGED <<document, stored, ingestIndex, record, warned, workers, vectorVars>>

(* Elasticsearch or the connection to the vector service fails, the text is *)
(* empty, the PDF is broken.                                                *)
Fail(u) ==
    /\ step[u] \in Working
    /\ End(u, "error")
    /\ UNCHANGED <<document, stored, ingestIndex, record, warned, workers, vectorVars>>

(* DELETE /ingest/es. *)
DeleteIngestIndex ==
    /\ ingestIndex
    /\ ingestIndex' = FALSE
    /\ record' = [u \in Uploads |-> IF record[u] = "none" THEN "none" ELSE "deleted"]
    /\ warned' = {}
    /\ UNCHANGED <<document, step, told, stored, workers, vectorVars>>

(* Records become searchable when Elasticsearch refreshes the index. *)
Refresh ==
    /\ record' = [u \in Uploads |-> IF record[u] = "hidden" THEN "searchable" ELSE record[u]]
    /\ UNCHANGED <<document, step, told, stored, ingestIndex, warned, workers, vectorVars>>

(* The service restarts: its connections break, the index is created anew. *)
RestartIngestService ==
    LET lost == {u \in Uploads : step[u] \in {"queue"} \cup Working}
    IN  /\ step' = [u \in Uploads |-> IF u \in lost THEN "ended" ELSE step[u]]
        /\ told' = [u \in Uploads |-> IF u \in lost /\ told[u] = "nothing"
                                      THEN "error" ELSE told[u]]
        /\ ingestIndex' = TRUE
        /\ UNCHANGED <<document, stored, record, warned, workers, vectorVars>>

-----------------------------------------------------------------------------
(* The vector service. *)

(* The fields of the index of paragraphs: all without sub-fields. *)
MappedFields == {"embedding", "file_name", "file_id", "es_id", "workspace_id", "text"}

SearchedField == "file_name.keyword"

(* check_file_ingested: a term on a field the index does not map finds      *)
(* nothing; a missing index counts as nothing found.                        *)
HitsByFileName(d) ==
    {v \in Uploads : /\ SearchedField \in MappedFields
                     /\ document[v] = d
                     /\ paragraphs[v] > 0}

(* parse_data_object and entities[0], which fails when nothing is left. *)
Parse(u) ==
    /\ job[u] = "parse"
    /\ job' = [job EXCEPT ![u] =
          IF Paragraphs[document[u]] = 0 \/ HitsByFileName(document[u]) # {}
          THEN "failed" ELSE "index"]
    /\ UNCHANGED <<ingestVars, vectorIndex, paragraphs>>

(* create_index: the index is looked for, and created in a second call,     *)
(* which fails if another job was quicker.                                  *)
LookForIndex(u) ==
    /\ job[u] = "index"
    /\ job' = [job EXCEPT ![u] =
          IF WorkspaceOf[document[u]] \in vectorIndex THEN "store" ELSE "create"]
    /\ UNCHANGED <<ingestVars, vectorIndex, paragraphs>>

CreateIndex(u) ==
    /\ job[u] = "create"
    /\ job' = [job EXCEPT ![u] =
          IF WorkspaceOf[document[u]] \in vectorIndex THEN "failed" ELSE "store"]
    /\ vectorIndex' = vectorIndex \cup {WorkspaceOf[document[u]]}
    /\ UNCHANGED <<ingestVars, paragraphs>>

(* Faulty variant: one paragraph too many. *)
StoreParagraphBeyond(u) ==
    /\ job[u] = "store"
    /\ paragraphs[u] <= Paragraphs[document[u]]
    /\ paragraphs' = [paragraphs EXCEPT ![u] = @ + 1]
    /\ UNCHANGED <<ingestVars, vectorIndex, job>>

StoreParagraph(u) ==
    /\ job[u] = "store"
    /\ paragraphs[u] < Paragraphs[document[u]]
    /\ paragraphs' = [paragraphs EXCEPT ![u] = @ + 1]
    /\ UNCHANGED <<ingestVars, vectorIndex, job>>

AllStored(u) ==
    /\ job[u] = "store"
    /\ paragraphs[u] = Paragraphs[document[u]]
    /\ job' = [job EXCEPT ![u] = "ok"]
    /\ UNCHANGED <<ingestVars, vectorIndex, paragraphs>>

(* Elasticsearch or the embedding fails. *)
JobFails(u) ==
    /\ job[u] \in InProgress
    /\ job' = [job EXCEPT ![u] = "failed"]
    /\ UNCHANGED <<ingestVars, vectorIndex, paragraphs>>

RestartVectorService ==
    /\ job' = [u \in Uploads |-> IF job[u] \in InProgress THEN "failed" ELSE job[u]]
    /\ UNCHANGED <<ingestVars, vectorIndex, paragraphs>>

-----------------------------------------------------------------------------
(* What the services do by themselves when nothing fails. *)
IngestStep(u) ==
    \/ SaveFile(u) \/ Take(u) \/ Check(u) \/ Record(u) \/ ReadText(u)
    \/ SendToVectorService(u) \/ Receive(u)

VectorStep(u) ==
    \/ Parse(u) \/ LookForIndex(u) \/ CreateIndex(u)
    \/ StoreParagraph(u) \/ AllStored(u)

Next ==
    \/ \E u \in Uploads :
          \/ \E d \in Documents : Upload(u, d)
          \/ IngestStep(u)
          \/ VectorStep(u)
          \/ SaveFails(u) \/ GiveUp(u) \/ Fail(u) \/ JobFails(u)
    \/ DeleteIngestIndex
    \/ Refresh
    \/ RestartIngestService
    \/ RestartVectorService

Spec == Init /\ [][Next]_vars

(* A handler that can go on does.  A worker that is free takes any of the   *)
(* uploads that wait.                                                       *)
FairSpec ==
    /\ Spec
    /\ \A u \in Uploads : WF_vars(IngestStep(u)) /\ WF_vars(VectorStep(u))

-----------------------------------------------------------------------------
(* An upload that was confirmed has its file in the file handler and all    *)
(* its paragraphs, of which there is at least one, in the vector service,   *)
(* whatever failed or restarted on the way and after.                       *)
ConfirmedIsComplete ==
    \A u \in Uploads : told[u] = "ok" =>
        /\ u \in stored
        /\ paragraphs[u] = Paragraphs[document[u]]
        /\ paragraphs[u] > 0

(* A document whose record can be found is not ingested again: an upload    *)
(* taken up after that leaves no record and no paragraph, even if others    *)
(* are half way, until the index of the ingestion service is deleted.       *)
FoundIsNotRepeated ==
    \A u \in warned : record[u] = "none" /\ paragraphs[u] = 0

(* A part of a document that is not a PDF is in the vector service only if  *)
(* the upload it comes from was recorded: the es_id it carries was given    *)
(* out.  An upload is refused only for the record of another one.           *)
ParagraphsAreRecorded ==
    \A u \in Uploads :
        /\ paragraphs[u] > 0 /\ document[u] \notin Pdfs => record[u] # "none"
        /\ told[u] = "conflict" =>
              /\ record[u] = "none" /\ paragraphs[u] = 0
              /\ \E v \in Uploads \ {u} :
                    document[v] = document[u] /\ record[v] # "none"

(* Every upload is answered, and the vector service is done with every job  *)
(* it was given, also those whose caller has gone.                          *)
EveryUploadEnds ==
    \A u \in Uploads :
        /\ (step[u] = "save") ~> (told[u] # "nothing")
        /\ (job[u] # "none") ~> (job[u] \in {"ok", "failed"})

(* check_if_ingested_by_filename: "check if a file was already ingested or  *)
(* not", and the detail of the 409: "file ... is already ingested!"  Here   *)
(* also when another upload of it is still under way.                       *)
RefusedIsIngested ==
    \A u \in Uploads : told[u] = "conflict" =>
        \E v \in Uploads : /\ document[v] = document[u]
                           /\ job[v] \in {"ok"} \cup InProgress \/ step[v] \in Working
=============================================================================
