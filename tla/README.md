# A formal model of Generative-IA (ELGEN)

This directory holds TLA+ modules for the services of this repository, the TLC
configurations that check them on small instances, and proofs that TLAPS checks
for instances of any size. `PROJECT.json` lists the runs, the theorems, the
lines of code that each definition models, the hazards the properties are aimed
at, and the faulty variants that show that each property can fail.

To check a module: `tlc -config answers.cfg MCAnswerGeneration.tla`; to check
the proofs: `tlapm AnswerGenerationProofs.tla`.

## 1. The system

ELGEN answers questions about a company's documents with large language models.
It is a set of FastAPI services; `src/elgen-docker-compose` starts them, each
as one container that is always restarted.

| Component | State it keeps | Operations |
|---|---|---|
| **BFF** (`elgen-esg-bff`): the only service the browser talks to | none of its own; reads and writes a user's attributes (quotas, dates) in Keycloak | check the token, check and charge quotas, forward to the other services, refund a question when an answer times out, collect sources for a question, login and logout, create users, patch the source configuration |
| **Conversation service** (`elgen-esg-conversation-service`) | Postgres: conversations, questions, answers, analytics, versions, sources, SQL commands, workspaces, users of workspaces, suggestions, the registry of models | conversations and questions; answers at once, by streaming, or through the SQL chain; rating and editing of answers; workspaces, data sources, suggestions, models |
| **Model services** (`elgen-esg-model-service`, `elgen-esg-online-model-service`) | a loaded model | inference, at once or as a stream of chunks |
| **Source service** (not in the repository) | the customers' databases | their DDL, SELECT statements |
| **Ingestion service** (`elgen-esg-ingest-service`) | Elasticsearch: one record per document | extract, split, embed, store |
| **Vector service** (`elgen-esg-vector-service`, and two variants) | Elasticsearch or Milvus: paragraphs with their vectors | create an index, insert in bulk, search |
| **File storage** (`common-file-handler`) | Postgres: the table of files; the files in a directory, Azure or MongoDB; temporary copies | upload, download, stream, delete |
| **Keycloak** (external) | users, their attributes and sessions, the configuration of the sources | login, tokens, read and replace a user or the configuration |
| **Conversational bot**, `coversation_service`, the nested copy in the BFF | | older versions of the above; not deployed |

How they interact: every arrow is an HTTP call that can fail or time out. A
question takes this way: BFF reads the quota in Keycloak, the conversation
service stores the question, the BFF writes the new quota to Keycloak, collects
sources from the vector service and the web and has the conversation service
store them, and then asks it for the answer; the conversation service reads the
question, the history and the sources, calls a model service, stores the answer
and its analytics, and replies.

What is hard in it:

* **Mixed concurrency in one process.** The conversation service is one process
  (uvicorn's `Server.run` starts no workers). Its `def` handlers run in a
  threadpool and interleave at every database call. Its `async def` handlers
  run on one event loop and make blocking calls there: each is atomic from one
  `await` to the next, and while a model computes, every other coroutine waits.
* **Read, await, write back.** The BFF reads a whole attribute record from
  Keycloak, awaits, and writes the whole record back.
* **Two transactions where one is meant.** An answer and its analytics; the SQL
  command and the answer; a question and its charge; a document in
  Elasticsearch and its vectors; a file and its row.
* **Streams.** A client may leave, the model may break off, at any chunk; the
  last chunk is stored before it is forwarded.
* **Timeouts.** The BFF gives up on an answer that is still being made.
* **Soft deletion.** Rows are flagged, and not every reader looks at the flag.

### What makes each component correct

* Conversation store: nobody asks in another's conversation; a deleted
  conversation stays deleted whatever was in flight; what a caller is told of
  the sources of a question is true of them.
* Answer generation: what the client is told agrees with what is stored, after
  any failure, disconnect or crash; at most one answer per request; a request
  ends.
* Answer versions: the history of an answer is complete and in order, ratings
  stay with the text they were given to.
* Quotas: never more than the daily quota on record; what is created is charged,
  but for what failed charges and late writes give back.
* Ingestion: what is confirmed is complete in all three stores; a document that
  can be found is not ingested again; every upload is answered.
  Of what cleaning leaves of a text, no token and no context is lost.
* Workspaces: a name is shared, and a deleted workspace listed, only through an
  update; a workspace has the source it was reported with; a withdrawn
  suggestion stays withdrawn.
* File storage: a row leads to its own, complete file; a file without a row is
  one whose client knows; what is reported as saved can be fetched until
  somebody asks for its removal, what is reported as deleted is gone; what is
  streamed can be played to its end.
* BFF: who is told of success has nothing under way any more and has got all
  that the request needed (a logout excepted); nobody is charged for what does
  not exist; confirmed settings stay; everybody hears something.

## 2. The modules

| Module | Models | Checked by |
|---|---|---|
| `ConversationStore` | conversation and question tables, the handlers that write them | `store` |
| `QuestionSources` | the sources stored for a question, beside that store; extends it | `store` |
| `AnswerGeneration` | the answer endpoints over that store; extends it | `answers`, `endings`, `failed_save` |
| `AnswerLedger` | what a client may rely on: the abstract specification of `AnswerGeneration` | `endings` (as `KeepsTheLedger`) |
| `AnswerVersions` | rating, editing, latest version | `versions` |
| `QuestionQuota` | the BFF's quotas of one user in Keycloak | `quota` |
| `BffCalls` | the BFF's handlers as sequences of calls behind one timeout and one circuit breaker | `bff`, `cancelled` |
| `Workspaces` | workspaces, their types, users, data sources and suggestions | `workspaces` |
| `FileStorage` | files and their rows in the file handler, over Azure or a directory | `files` |
| `MediaRanges` | which bytes of a streamed file are sent for a range | `files` |
| `FileStreams` | what a player gets of the files: `FileStorage` with `MediaRanges` | `files` |
| `Ingestion` | uploads through the BFF, the ingestion service and the vector service | `ingestion`, `refused` |
| `TextChunks` | how a text is cut into the pieces that are stored; gives `Ingestion` its numbers | `ingestion` |
| `IngestedTexts` | what is found of the documents: `Ingestion` with `TextChunks` | `ingestion`, `refused` |
| `MC*` | symmetry sets and constants for TLC | |
| `*Proofs` | theorems, see section 5 | |

Operators introduced by "Faulty variant" are not part of the models: each is
the body of one definition with a plausible bug, and shows that a property
notices it. `PROJECT.json` says which property each of them breaks.

### ConversationStore

`conversation` and `question` are the tables, by id, `Absent` where there is no
row. `editing` holds, per threadpool session, the row a rename or a deletion
has loaded and what it is going to write. `LoadForTitle` and `LoadForDelete`
are `Query.get`, `CommitEdit` is the flush and commit of `DBHelper.session`: it
writes only the columns whose value differs from the one loaded (`Flushed`),
which is what SQLAlchemy does and what `DeletedForever` depends on.
`RollbackEdit` is a failing commit. Creating a conversation is one INSERT.
`CreateQuestion` checks owner and workspace (`MayAsk`) and inserts, on the event
loop. Neither checks the deleted flag. The flags of a question (`skip_doc`,
`skip_web`, its classification) are stored and returned only, and left out.

### QuestionSources

`Send` is a call of `POST /conversations/sources` or `.../web-sources`, for any
question id: neither endpoint looks at whose question it is. `SaveOne` is one row
and its commit; a list is stored row by row, in any order, and `SaveFails` gives
the rest up and keeps what is there. `SaveIsLost` is the death of the process as
one thread sees it, as `RollbackEdit` is for the store's sessions. The two
tables, written and read by the same code, are one set of rows, and a document
is of one kind or the other. The BFF never sends an empty list. Nothing looks for
duplicates, so a row names the call that wrote it, and a list sent twice is
stored twice. `SourcesOf` is what a prompt is made from.

### AnswerGeneration

Each request has a kind (the chat endpoint, the streaming endpoint, the SQL
chain with depth command, result or explanation, or the SQL command alone) and
goes through steps:

    answer       prepare -> model -> insert -> analytics -> end
    stream       prepare -> model -> open -> (chunks -> check)* -> insert -> analytics -> end
    command      prepare -> ddl -> model -> savesql -> insert -> analytics -> end
    result       prepare -> ddl -> model -> execute -> savesql -> insert -> analytics -> end
    explanation  prepare -> ddl -> model -> execute -> savesql -> explain -> open -> ...
    query        prepare -> ddl -> model -> savesql -> end

A step can fail wherever the code raises, and `told` records how that looks to
the client: an error or an ERROR chunk, or, for exceptions that the generators
do not catch, a stream cut off. `query` is `GET /chat/answer/{id}/sql`: it shows
the command, stores it and no answer, and since it is not a stream its exceptions
are errors and its client cannot abandon it. `Awaiting` are the steps at an `await`,
`Blocking` those that hold the event loop; a coroutine's step needs that no
other coroutine holds it (`CanRun`), the chat endpoint's never does. A
disconnected client is noticed only at an await (`Abandon`). `InsertAnswer` and
`InsertAnalytics` are the two commits of `create_answer`. `Crash` ends every
request and session in flight and keeps what was committed. `OtherHandler` runs
the store's operations in between.

The abstraction: texts, prompts and chunk contents are left out; a chunk is
IN_PROGRESS, DONE, or bad. Each request is sent once: a retry by the client is
another request.

### AnswerLedger

For every request a book that is blank, recorded or filed, and an outcome.
`KeepsTheLedger` maps the answer table to *recorded*, the analytics to *filed*,
`told = "done"` to *acknowledged*. It says that a request is acknowledged in the
very step that files its answer, and that nothing is stored for a request that
has ended.

### AnswerVersions

`Rate`, `Replace` and `ShowLatest` are coroutines without an await, so each is
one step. `versions` is the table `versioned_answer` with the rows of each
answer in the order of their insertion: every query of it asks for one
`answer_id`. `past` is a history variable. `Latest` is the set of rows that
`ORDER BY creation_date DESC LIMIT 1` may return. `NothingIsForgotten` has three
parts: the history is complete and in order, the edited flags tell of it, and
what is shown as the latest version is a stage the answer was in.

### QuestionQuota

`profile` is the user's record in Keycloak, `copy` the record a coroutine
carries over its awaits. Spending is check, create, read, write; a refund is
read, write; `GET /user` is check, (token,) write. Every one of these steps is
a separate call of Keycloak or the conversation service, and `KeycloakFails`
may strike at each. `Midnight` moves the date.

A PUT that is not answered in time, or whose connection breaks, is an error for
its coroutine, and Keycloak may still carry it out: then, which for the record is
a `Write`; never, which is a `KeycloakFails` or a PUT that stays in `late`; or
later (`GiveUpWaiting`, `LandLate`), when it replaces whatever record has been
written since by the one that was read long before.

`given`, `extra` and `overlapped` are history variables. `extra` is what a user
has had on top of today's quota: questions given back, things created whose
charge Keycloak has not made, and, when a late PUT lands, what the old record
still allows more than the one it replaces. The last is not the code's doing
before the landing, and nothing in the code prevents it; `NothingIsFree` says that
the handlers themselves, run one at a time, give nothing away beyond these.

### BffCalls

A handler of the BFF is a coroutine that calls one service after the other
through `make_request`. `Plan` gives, for each kind of request, the calls in
order; `place` is the call a request waits for, `told` what its user heard.
`GoodAnswer` goes on to one of `Following` (there are handlers that skip a
call), `BadAnswer` is an answer that the handler cannot use, `Raise` a broken
connection, `TimeOut` the 180 seconds, or a gateway's 504 that is not JSON, which
`make_request` raises as it does its own. Only `get_answer` goes on after one: it
refunds. A stream is asked for past `make_request`, with `httpx`, so it neither
counts for the breaker nor is stopped by it.

The breaker is one for all services, because the decorator is on
`make_request`: `Fails` counts to `Threshold`, `Recover` is its
`recovery_timeout`, and any answer, also an error, closes it.

What a service does is an action of its own (`Perform`, `Miss`): it happens
whether or not somebody still waits, which is what makes timeouts interesting.
`config` is the one piece of data kept, the configuration of the sources, an
attribute of the Keycloak client which a patch reads whole (`seen`) and writes
back whole; a set of requests stands for it, those whose settings are in it,
and every patch is for a model of its own.

The abstraction: a handler that makes one call which changes something, after
checking the token, is of kind `change` (workspaces, models, suggestions,
titles, ratings, edits); roles and the format of an answer are checked on the
way and are cases of `BadAnswer`. Handlers that read one service and change
nothing are left out. Quotas themselves are in `QuestionQuota`.

`DoneIsDone` relates what the user heard to the whole plan: nothing the request
has set off is still under way, and each effect in the plan has been done, except
those of `MayBeLeftOut`, which then were never sent. It says nothing of members
and previews, which have no effects, and of a logout only that nothing is under
way: "Logout successful" does not depend on what Keycloak answered (section 4).

### Workspaces

The tables are variables by id. Most handlers are coroutines without an await
that lets others in, so one request is one step, except that creating or
updating a workspace commits it and then links its source: between the two
`linking` holds what is left, the loop takes up nothing else (`LoopRequest`),
and the process may fail or die (`LinkFails`, `Crash`). Assigning users and
creating types are `def` handlers: a thread reads (`Read`), and commits later
(`CommitUsers`, `CommitType`) or is rolled back.

Requests that are refused, or fail before their first commit, change nothing
and are no steps. All types are of one name, since others do not matter to
them. `touched` and `promised` are history variables: what was updated since it
was created or deleted, and which source each workspace was reported to have.

### FileStorage

Three stores: the files (by path), the table of rows (by the upload that made
them), and the temporary copies that streaming leaves. A call goes through the
steps of its handler; `OnLoop` are the steps between which nothing else runs,
`Suspended` those at an await that lets others in: reading an upload (Azure:
all of it before anything else; directory: while writing), and measuring a
recording. Every call of Postgres or of a provider may fail, and `Crash` may
come at every step.

`Taken` is the providers' `exists`. Azure lists the blobs that begin with the
path, and for a name without an extension takes any of them: `LongerNames` says
which names begin so, the name itself among them, for its copies with a suffix.
An id without a row is passed over by Azure's loop of `delete_many`, and ends
the one of the directory provider. `SaveRow` swallows a failing INSERT. `EraseFile` follows
`rmdir`, which in Azure takes the key of a JSON answer for a blob and therefore
always fails. `torn` is a history variable: paths at which an overwrite has
removed the file and not its row.

The abstraction: one folder of one user; content is the upload it is from. The
Mongo provider is not modelled (no deployment selects it); downloads and listings
change nothing; the API key is one for all services.

### Ingestion

Three parties act on an upload, each on its own:

* the handler (`step`, `told`): the BFF saves the file and waits; a worker of
  the ingestion service goes `check -> record -> read -> send -> wait`, PDFs
  straight to `send`. It blocks its worker all the way, so at most `workers`
  uploads are in progress; `workers` is `WORKERS_COUNT`, any number up to
  `MaxWorkers`, and never changes. `GiveUp` is the BFF's client library timing
  out (`handle_file_upload` sets `delay=None` and does not catch that timeout);
  the worker does not notice. `Fail` may strike at every step.
* the record (`record`): hidden when it is written, searchable after a
  `Refresh`, deleted with the index. The check is a search, the text is read by
  id, which is why `Found` looks at searchable records and `ReadText` at all.
* the job of the vector service (`job`, `paragraphs`): parse, look for the
  index, create it, store one paragraph after the other. It goes on when the
  worker's connection breaks.

A document of one upload is always one batch, whatever the batch size. Texts
are left out except for how many pieces they give, which `IngestedTexts` takes
from `TextChunks`;
that can be none, because `chunk_text_nltk` drops short paragraphs, and then
the vector service fails after the record was made. `HitsByFileName` models the
query as Elasticsearch evaluates it: no hits on a field that is not mapped.
Uploads of one name in one workspace are uploads of one document. `warned` is a
history variable.

Outside the model: `RequestException`s other than a connection error end the
same way (a 500); the BFF's own route for deleting the index calls `/store/es`,
which the ingestion service does not have (`/ingest/es`), so the deletion comes
from its API only; the compose file sets `VEC_STORE_ENDPOINT` to a route of the
Milvus service that `main.py` does not mount, the model has the default,
`es/store-data`; the BFF saves files at `v2/save_file`, a route the file handler
of this repository does not mount; retries inside the Elasticsearch client,
which could store one paragraph twice.

### MediaRanges

Pure operators. `StreamingMedia` and `StreamingMediaCondition` give the reply to
a range, the bytes in it as a set of positions; `Read` is `file.read`, with its
special length -1. `PlaysThrough` is the step of a player that asks for what
follows the bytes it has, from wherever it is: it gets on until it has the file,
with `streaming_media` perhaps without the last byte. `KeepsToTheRange` is about
ranges with both ends. Headers that are not a range are refused and left out.
`FileStreams` joins them with the files: `StreamsReachTheEnd` says that what can
be streamed can be played, for the sizes given as `Sizes` and `ChunkSizes`.

### TextChunks

Pure operators. A text is a sequence of paragraphs (what is between empty lines),
a paragraph a sequence of sentences (what is between full stops), and of a
sentence are kept its number of tokens and whether it makes sense: nostril's
`nonsense()` says no, or raises a `ValueError` because it is too short to judge.
`CleanNonSenseText` drops the sentences that do not, and turns the ends of lines
into blanks, so that one paragraph is left of a text that is not a PDF. How words
are divided into tokens is left out, the joining of the sentences included.
`ChunkParagraph` has the three branches of `chunk_text_nltk`: ignored, cut into
overlapping slices, kept whole. A piece of a text is a paragraph's number and the
positions of its tokens there; `Precedes` is the order in which they are sent.

### IngestedTexts

`Ingestion` counts the paragraphs the vector service has stored of an upload;
here they are the pieces of a text, stored in their order (`StoredPieces`).
`TextOf` is what is cut: the cleaned text, of a PDF the text as it is.
`ContextIsKept` is about what a client was told is ingested: in each paragraph of
`TextOf` that is not too short, any two tokens that are at most the overlap apart
are together in a piece that is stored. Nothing is said of what cleaning drops: a
sentence that makes sense to a reader and not to nostril is not found.

## 3. Runs

| Run | Instance | Shows |
|---|---|---|
| `store` | 2 users, 2 workspaces, 2 titles, 1 conversation, 2 questions, 2 sessions, 2 calls with lists of 2 documents; 41201 states | `QuestionsOwned`, `DeletedForever`, `SourcesAsReplied` |
| `answers` | 2 requests, 2 answers, 2 questions, 1 conversation, 1 session, 1 chunk; 881481 states | `DoneIsDurable`, `HalfSavedOnlyByFailure`, `OneAnswerPerRequest`, `SqlAnswersHaveSource`, `DeletedConversationsStaySilent` |
| `endings` | 2 requests, 2 answers, 1 question, no session; 80193 states; no symmetry | `KeepsTheLedger`, `EveryRequestEnds` |
| `versions` | 2 answers, 2 texts, 2 ratings, 4 versions in all; 216280 states | `NothingIsForgotten` |
| `quota` | 2 calls, 1 PUT still to land, quotas 2 and 1, 2 days, 3 questions and 1 conversation created, 1 extra of each; 6288796 states | `NeverAboveInit`, `NothingIsFree` |
| `bff` | 2 requests of any of 14 kinds, breaker at 2 failures; 434792 states; no symmetry | `DoneIsDone`, `EffectsInOrder`, `SettingsAreKept`, `EveryUserHears` |
| `workspaces` | 2 workspaces, 2 names, 1 source, 2 users, 3 types, 2 suggestions of 2 contents, 2 threads, 5 requests; 34600 states | `ListedAsIntended`, `PromisedSources`, `TypesRepeatByOverlap`, `WithdrawnIsNotShown` |
| `files` | 3 calls, 2 names of which one begins the other, both providers; 509562 states | `RowsAreTrue`, `OrphansAreKnown`, `DeletedIsGone`, `CopiesAreTrue`, `StreamsReachTheEnd` (files of up to 7 bytes), `SavedIsKept` |
| `ingestion` | 2 uploads, a text of 2 pieces and a PDF of 1, both with nonsense, slices of 3 tokens overlapping by 1, paragraphs of 1 token ignored, 1 or 2 workers; 43546 states; no symmetry | `ConfirmedIsComplete`, `FoundIsNotRepeated`, `ParagraphsAreRecorded`, `ContextIsKept`, `EveryUploadEnds` |
| `failed_save`, `refused`, `cancelled` | the instances of `answers`, `ingestion` and `bff` or smaller | disagreements, section 4 |

Why the bounds are enough: the hazards are between two actors (two sessions on
one row, two requests on the loop, two calls of a user), so two of each make
every race; a third only repeats them, and the proofs do not depend on the
number. One IN_PROGRESS chunk makes every place in a stream where a client can
leave: before, between and after chunks. Four versions are four of one answer,
or two of each in any order. Two days make every comparison of dates; a quota of
2 can be partly used, one of 1 cannot. Two pieces make a document that is half
stored, and a second upload one that is refused or stored again while the first
is under way. Two lists of two documents can be half stored, sent again, and
overlap; the conversations of `store` do not meet, so one is enough. `MaxGiven`
of questions is above their quota so that exceeding it is possible; a late PUT
(`Puts` has room for one at a time) can land during or after any later call, and
`MaxExtra` lets one question come back, be left uncharged, or be regained in a day. The breaker opens after 10 failures in the
code and after 2 in the instance: what matters is that it opens between two
calls of a handler and is half open while another waits, which 2 allow and a
larger number only delays. Two patches overlap, or one and a new configuration.
Three calls of the file handler make a deletion or an overwrite between an
upload and a second one. Five requests (`MaxRequests`) are two creations, a
deletion, and two updates.

Deadlock is checked in `store`, where another rename is always possible. It is
not checked elsewhere: those models stop when ids are used up or every request
has ended.

Fairness: `FairSpec` of `Ingestion` assumes weak fairness of the handler and of
the job of each upload, nothing of failures, clients, refreshes and restarts.
`FairSpec` of `BffCalls` assumes only that time passes: weak fairness of
`TimeOut`, which the event loop's timer gives. No service ever has to answer,
so `EveryUserHears` is a result about the timeouts.
`FairSpec` of `AnswerGeneration` assumes weak fairness of each request's own steps
(`ServerStep`): a handler that can go on does. It is what the event loop, the
threadpool, Postgres and the model services give as long as they reply. The
service itself sets no timeout on `requests.post`, so a model that never replies
holds the loop for ever; this is an assumption of `EveryRequestEnds` and not a
result. Nothing is assumed of clients (they may never ask, never leave) nor of
crashes.

## 4. Where the code and its texts disagree

Shown by a run:

* The except branch of `create_answer` says "Delete the answer_object if it was
  created". It does not: the answer is already committed (`failed_save`).
* A file is refused with "is already ingested!" once its record can be found,
  also when reading its text or storing its paragraphs failed and nothing of it
  is in the vector service. Nothing takes the record back (`refused`).
* `make_request` answers a timeout with "has timed out and has been cancelled".
  Nothing is cancelled: the service was not told and may do what it was asked
  for afterwards, or have done it before (`cancelled`).

Seen while modelling, and part of the models:

* `DELETE /conversation` is described as a hard delete "along with its queries,
  messages and sources". It sets a flag; questions stay, and new ones can be
  asked.
* `.../history/latest` promises "the latest version of an answer before the
  current one". All versions carry the creation date of the answer, so that
  after two edits any of them may come first.
* The vector service says it ignores rows that are already stored. Its query
  names a field the index does not map, so it finds none, and a PDF that is
  sent again is stored again.
* `chunk_text_nltk` says it splits at empty lines; `clean_non_sense_text` has
  replaced all ends of lines by blanks before, so that a text which is not a
  PDF is one paragraph.
* `logout` says it ends the actual session. It ends the first of the user's
  sessions, which may be another device's, and does not look at the answer: the
  user reads "Logout successful" also when Keycloak has refused or not got the
  deletion, and the session is open. `DoneIsDone` leaves logouts out for this.
* The deletion of a file reports "files where not deleted" also when the row is
  gone and only the file is left.

Other behaviour a reader should know of, against which no text speaks.

*Quotas and questions.* Overlapping questions of a user are not all charged; a
record written back after midnight by a call that read it before can set a date
back to the day before, so the quota is renewed again; a refund after midnight,
before the first question of the new day, charges a question. A PUT the BFF has
given up on can land after later ones and undo their charges (and refunds). Each timed-out
attempt at an answer refunds again, and a retry stores a second answer. When
the timeout of an answer is the failure that opens the breaker, the refund is
refused by the breaker and the user gets a 500. The SQL chain answers in deleted
conversations. `GET /chat/answer/{id}/sql` takes a parameter `execute_sql_query`
and does not pass it on. Sources are stored for any question, also another
user's, and once more for each time they are sent; a list that fails half way
leaves its first half, which the prompt then uses.

*BFF.* Of two overlapping patches of the source configuration one is lost, and
so is one that overlaps a late write of a request that has timed out. A login
that timed out leaves its session open. The preview of a document whose file
cannot be fetched returns the metadata as a success. Uploads have a breaker of
their own and no timeout of their own.

*Workspaces.* A creation whose link or whose answer fails is committed all the
same, and a second attempt is refused for its name. A PATCH sets `active` by
default, so that it brings deleted workspaces back. A PATCH with another source
leaves two sources that name the workspace, and `.first()` shows either. Types
of one name can be created by overlapping requests.

*Files.* A recursive deletion in Azure always fails after the row is gone. An
orphan stays for ever. Listing a folder in Azure is a 404 as soon as one blob in
it has no row. All exceptions of the handlers are answered with 404.

Of a streamed file the end of a range is not sent although `Content-Range` names it
as included, so that a player that trusts the header would leave out a byte at
each chunk, and one that asks for the last byte alone gets `null`. A range without
a start (`bytes=-500`, the last 500 bytes) is answered with the first ones. A range
whose end is just before its start is answered with all the rest. The listing of
files in pages counts all files of the directory also when it was asked for some.

*Chunks.* Sentences that nostril takes for nonsense, or refuses to judge, which it
does with short ones, are not ingested, and the answer does not say so. The last slice may be wholly inside the one before. A `CHUNK_OVERLAP`
equal to `CHUNK_SIZE` raises in `range`, a larger one gives no chunks for long
paragraphs; nothing validates the two, and `ContextIsKept` assumes overlap <
size. The check for a document already ingested uses the name as it came, the
record its last part: a name with a slash, which only a direct caller of the
service could send, would never be found. `Ingestion` has names without slashes.

## 5. Proofs

All proofs are checked by TLAPS for every value of the constants.

**ConversationStoreProofs.** `StoreInvariant` is inductive: types; the
conversation a session has loaded exists and has still the same owner; every
question is owned. From it `StoreTypeCorrect`, `QuestionsStayOwned` and, as an
action property, `DeletionIsForever`: a commit changes the title, or sets the
flag, and nothing else.

**SourcesAndVersionsProofs.** `SourcesKeepTheStore`: every step of
`QuestionSources` is a step of the store or leaves it alone, so the store's
theorems carry over. `SourceInvariant` adds that every row was sent by the call
it names and is no longer among those it has to store, that what a call has sent
and no longer has to store is there unless it failed or was lost, and that only a
pending call has anything left. From it `SourcesTypeCorrect` and
`SourcesAreAsReplied`. The second part is about `AnswerVersions`: `History` says
what the rows of `versioned_answer` and the row of an answer must tell of its
stages; that it holds of a new answer, is kept by a rating and by a new text are
lemmas about three values, without the tables, and `VersionsInv` is `History` for
every answer. From it `VersionsTypeCorrect` and `HistoriesAreComplete`.

**AnswerGenerationProofs.** The safety invariants are not inductive. The
inductive invariant ties the tables to the program counters through `written`,
the answer id a handler has in hand: a request that has not reached its insert
has no answer row; one that is past it has exactly the row `written` names; one
between its commits has that row without analytics; a request of the SQL chain
at or past its insert, and a command that was shown, has a saved command; a late request of the other kinds
has not got past `prepare`, because a deleted conversation stays deleted. Each
action is a lemma; `Invariant` combines them, and `TypeCorrect`,
`DoneStaysDurable`, `HalfSavedIsAFailure`, `NoSecondAnswer`,
`SqlAnswersAreTraceable`, `DeletedMeansSilent` follow. `LedgerIsKept` is the
refinement: under the invariant every step is a step of `AnswerLedger` or
leaves its variables alone. `DeletionIsForeverWhileAnswering` carries
`DeletedForever` over from the store, to which this module adds crashes.

**QuestionQuotaProofs.** `QuotaInv`: the record in Keycloak, every copy
in flight and every PUT still to land are within the initial quotas and not dated in the future. The second
half is what makes stale writes harmless. From it `QuotaTypeCorrect` and
`QuotaNeverExceeded`. `NothingIsEverFree` is about a day's account, which a call
disturbs between creating something and writing the charge. `FreeInv` therefore
says, as long as no calls have overlapped, how the account stands while nobody is
at work, and for each step of the one call that is: by how much the record in
Keycloak may lag behind what was created, and that the copy in hand is already
within the account again, also when midnight has passed since it was read, or
a late PUT has landed under it (`Fair`): the account grows by what the record
gains, so that the copy still fits. The PUTs themselves need no account before
they land; all that is known of them is that they are `Sound`.

**WorkspacesProofs.** The properties are about different tables, so each has an
invariant of its own over `TablesInv` (types, and that a thread assigns users
only to a row that is there; rows are never removed). `ListedWorkspaces` and
`SourcesAreKept` are inductive over it as they stand. `PoolBoundsTypes` counts:
the types there are and the threads about to insert another are together no
more than the threads (`TypesFit`), because whoever inserts has seen none.
`WithdrawnStaysHidden` rests on `Distinct`: no two suggestions of a workspace,
deleted or not, say the same.

**BffCallsProofs.** `PlanTable` and `PlanEnds` say where in the plans the calls
are that an answer depends on. `JobsInv` says for each job that nothing beyond
its place was sent, that what it has passed was done, and what follows from what
it was told; a late effect only makes more of it true. From it `CallsTypeCorrect`,
`EffectsAreOrdered` and `GoodAnswersAreTrue`. For the last, each effect of a plan is
before the place where the handler stopped, at it, or beyond it (`DoneOrLeftOut`);
that nothing is under way follows, except for a logout, where the answer to the
last call tells it (`NothingUnderWay`). For `ConfirmedSettingsStay`, `SettingsInv` says what a patch has in
hand when it is about to write the configuration back: whatever was confirmed
before the patch came is in what it has read, or had been replaced already for a
reason that stays one.

**FileStorageProofs.** A handler that waits loses sight of its path, and Azure
takes a longer name for the one asked for; the invariant `StoreInv` therefore
says of each path who may be there: one row and its file, or one upload that
writes, or one deletion that erases. An overwrite that could not delete the old
row breaks this for its path, which is then `torn`, and nothing is claimed of
rows there; what is claimed of files and calls holds there also. From it
`FilesTypeCorrect`, `RowsLeadToTheirFiles`, `OrphansAreAccountedFor`,
`DeletedStaysGone`, `StreamsShowTheirFiles`, and the action property
`SavedFilesStay`. The module also holds the facts about `MediaRanges`:
`ReadIsAnInterval`, a read that is not empty takes a player on, and from it
`StreamsPlayThrough` for every size and every place in the file, including the
last chunk and the last byte, and `RangesAreKept`. `StreamsComeToTheirEnd` is
their instance for the sizes of `FileStreams`.

**IngestionProofs.** `IngestionInv` says of every upload what its handler, its
record and its job can conclude from where it is. It is needed because the
properties relate stores of different services: that a confirmed upload is
complete rests on what a job has stored when it is `ok` (`JobAt`), and that a
handler only waits for a job of its own. One lemma covers the steps of a
handler, one those of a job, one the outages. From it `IngestionTypeCorrect`,
`ConfirmedUploadsAreComplete`, `FoundDocumentsAreNotRepeated` and
`StoredParagraphsAreRecorded`. The module
also holds the facts about `TextChunks`: `LastMultiple` finds the last multiple of
a step at or below a token; the slice that begins there holds the token and
everything at most the overlap further on (`NearTokensShareASlice`), and no slice
is empty or too long (`SlicesAreBounded`). From these `ContextIsKeptForAllSizes`,
for every length, chunk size, smaller overlap and lower limit. For
`UploadsKeepTheirContext` this meets the inductive invariant: a confirmed upload
has stored as many pieces as its text has (`ConfirmedUploadsAreComplete`),
`Precedes` is a strict order of finitely many pieces, so each has fewer than that
before it and is among those stored (`AllPiecesAreStored`).

The assumptions are those named in the modules: `Absent`, `None` and the like
differ from every row, id and name they stand beside; bounds are natural
numbers; quotas, sizes of chunks and the threshold of the breaker are positive;
there is at least one worker; the threads of the pool are finitely many; the
overlap of the slices is less than their size; and `TextsAreFinite`: a text has
finitely many tokens, and a document as many paragraphs to store as its text has
pieces, which are folds over sequences, and computed by TLC for each instance.

Every invariant and action property of a passing run is proved, and so is the
refinement. Model-checked only: `EveryRequestEnds`, `EveryUploadEnds` and
`EveryUserHears`, which are liveness under fairness, beyond the prover; what the
folds `Tokens` and `CleanNonSenseText` compute of a text, which needs induction
over the sequence; and of course the violations.

## 6. Not modelled, and the plan

Not modelled:

* Older copies: `src/coversation_service`, `src/elgen-esg-bff/source/source`
  (a nested copy of the BFF), `src/elgen-esg-conversational-bot`,
  `ingest_service.py`, and the Milvus variants of the vector service. The
  compose file starts none of them and `main.py` mounts none of them; they hold
  about a third of the Python of the repository and repeat, in older form, what
  is modelled.
* Model services, prompt construction, extraction of texts from PDF, Word and
  other files: functions of their input. What they may answer or how they may
  fail are choices of the models above.
* Of the file handler: the MongoDB provider, accounts and their API keys, zip
  files, and the classes of streams that only that provider uses.
* The registry of models: each operation is one statement under a unique key.
* Reading endpoints, schemas, configuration, dependency injection, exceptions
  classes, tests.

The parts of the deployed services that are left are reads and plumbing, which
is why the share of mapped lines stays well below that of modelled behaviour.

Planned: the safety half of the liveness properties, that a request whose
handler has ended has told its client something, as invariants with proofs; and
an abstract specification of the file handler (a map from ids to files) that
`FileStorage` implements outside of torn paths.
