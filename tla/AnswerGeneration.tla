-------------------------- MODULE AnswerGeneration --------------------------
(***************************************************************************)
(* How elgen-esg-conversation-service answers a question: the chat         *)
(* endpoint, the streaming endpoint, the three depths of the SQL chain and *)
(* the endpoint that shows the SQL command alone, over the tables of       *)
(* ConversationStore and the tables answer, answer_analytics and           *)
(* sql_source_response.                                                    *)
(*                                                                         *)
(* The service is one process with one event loop (uvicorn's Server.run    *)
(* starts no workers).  The chat endpoint is a `def` handler: it runs in   *)
(* the threadpool and interleaves with everything at every database call.  *)
(* The other endpoints are coroutines whose database and model calls       *)
(* are blocking: such a request holds the event loop from one await to the *)
(* next, and its other steps need the loop to be free.                     *)
(***************************************************************************)
EXTENDS ConversationStore

CONSTANTS
    Requests,           \* requests for an answer, each sent once
    Answers,            \* the ids that answer rows can get
    MaxChunks           \* bound: IN_PROGRESS chunks the model sends per stream

ASSUME AnswerAssumption ==
    /\ MaxChunks \in Nat
    /\ Absent \notin [question : Questions, by : Requests]
    /\ Absent \notin Answers

VARIABLES
    kind,               \* endpoint and query depth of each request
    target,             \* the question each request is for
    pc,                 \* where its handler is
    connected,          \* requests whose client is still there
    told,               \* how the request ended, as its client can see it
    chunks,             \* IN_PROGRESS chunks forwarded so far
    answer,             \* table answer, by id, with the request that wrote the row
    analytics,          \* ids with a row in answer_analytics
    sqlSource,          \* requests with a row in sql_source_response
    written,            \* the answer id the handler has in hand (answer_object.id)
    late                \* requests sent after their conversation was deleted

requestVars == <<kind, target, connected, late>>
tableVars == <<answer, analytics, sqlSource>>
answerVars == <<kind, target, pc, connected, told, chunks, answer, analytics,
                sqlSource, written, late>>
vars == <<storeVars, answerVars>>

Depths == {"command", "result", "explanation"}      \* QueryDepth
SqlKinds == Depths \cup {"query"}
StreamKinds == Depths \cup {"stream"}
LoopKinds == StreamKinds \cup {"query"}              \* `async def` handlers
Kinds == LoopKinds \cup {"answer"}

Awaiting == {"prepare", "ddl", "execute", "open", "check"}     \* at an await
Blocking == {"model", "savesql", "explain", "chunks", "insert", "analytics"}
Steps == Awaiting \cup Blocking

Endings == {"done",     \* the answer, or the DONE chunk
            "shown",    \* the SQL command, without an answer
            "error",    \* an error response, or an ERROR chunk
            "cut",      \* the stream stops without a final chunk
            "left",     \* the client had gone and the stream was abandoned
            "lost"}     \* the process died

AnswerRow == [question : Questions, by : Requests]

AnswerTypeOK ==
    /\ kind \in [Requests -> Kinds]
    /\ target \in [Requests -> Questions \cup {Absent}]
    /\ pc \in [Requests -> Steps \cup {"idle", "end"}]
    /\ connected \subseteq Requests
    /\ told \in [Requests -> Endings \cup {"nothing"}]
    /\ chunks \in [Requests -> 0..MaxChunks]
    /\ answer \in [Answers -> AnswerRow \cup {Absent}]
    /\ analytics \subseteq Answers
    /\ sqlSource \subseteq Requests
    /\ written \in [Requests -> Answers \cup {Absent}]
    /\ late \subseteq Requests

TypeOK == StoreTypeOK /\ AnswerTypeOK

(* Nothing is stored and nothing is asked.  What kind of request each one   *)
(* will be is left open from the start.                                     *)
Init ==
    /\ StoreInit
    /\ kind \in [Requests -> Kinds]
    /\ target = [r \in Requests |-> Absent]
    /\ pc = [r \in Requests |-> "idle"]
    /\ connected = {}
    /\ told = [r \in Requests |-> "nothing"]
    /\ chunks = [r \in Requests |-> 0]
    /\ answer = [a \in Answers |-> Absent]
    /\ analytics = {}
    /\ sqlSource = {}
    /\ written = [r \in Requests |-> Absent]
    /\ late = {}

-----------------------------------------------------------------------------
(* The event loop and the client.                                           *)

HoldsLoop(r) == kind[r] \in LoopKinds /\ pc[r] \in Blocking

(* A step of request r that runs on the event loop waits until no other     *)
(* coroutine holds it; a step in the threadpool does not.                   *)
CanRun(r) == kind[r] \in LoopKinds => \A s \in Requests \ {r} : ~HoldsLoop(s)

Goto(r, step) == pc' = [pc EXCEPT ![r] = step] /\ UNCHANGED told

End(r, ending) ==
    /\ pc' = [pc EXCEPT ![r] = "end"]
    /\ told' = [told EXCEPT ![r] = ending]

(* What the client of r sees of an exception that the handler does not      *)
(* turn into an ERROR chunk: a stream cut off, or an error response from    *)
(* the two endpoints that do not stream.                                    *)
Uncaught(r) == IF kind[r] \in StreamKinds THEN "cut" ELSE "error"

(* The client sends request r about a question it knows the id of. *)
Ask(r, q) ==
    /\ pc[r] = "idle"
    /\ question[q] # Absent
    /\ target' = [target EXCEPT ![r] = q]
    /\ connected' = connected \cup {r}
    /\ late' = IF Deleted(question[q].conversation) THEN late \cup {r} ELSE late
    /\ Goto(r, "prepare")
    /\ UNCHANGED <<storeVars, tableVars, kind, chunks, written>>

Disconnect(r) ==
    /\ r \in connected
    /\ pc[r] \in Steps
    /\ connected' = connected \ {r}
    /\ UNCHANGED <<storeVars, tableVars, kind, target, late, pc, told, chunks, written>>

(* Faulty variant: a stream can be cancelled inside its blocking calls. *)
AbandonAnywhere(r) ==
    /\ kind[r] \in StreamKinds
    /\ pc[r] \in Steps
    /\ r \notin connected
    /\ End(r, "left")
    /\ UNCHANGED <<storeVars, tableVars, requestVars, chunks, written>>

(* Faulty variant: the client is looked for only between two chunks. *)
AbandonBetweenChunks(r) ==
    /\ CanRun(r)
    /\ kind[r] \in StreamKinds
    /\ pc[r] = "check"
    /\ r \notin connected
    /\ End(r, "left")
    /\ UNCHANGED <<storeVars, tableVars, requestVars, chunks, written>>

(* request.is_disconnected, and Starlette's cancellation of a streaming     *)
(* response whose client has gone: both strike only at an await.            *)
Abandon(r) ==
    /\ CanRun(r)
    /\ kind[r] \in StreamKinds
    /\ pc[r] \in Awaiting
    /\ r \notin connected
    /\ End(r, "left")
    /\ UNCHANGED <<storeVars, tableVars, requestVars, chunks, written>>

-----------------------------------------------------------------------------
(* Before the answer.                                                       *)

(* Faulty variant: the history is read by id alone. *)
PrepareRegardless(r) ==
    /\ CanRun(r)
    /\ pc[r] = "prepare"
    /\ \/ Goto(r, IF kind[r] \in SqlKinds THEN "ddl" ELSE "model")
       \/ End(r, IF kind[r] \in SqlKinds THEN "error" ELSE Uncaught(r))
    /\ UNCHANGED <<storeVars, tableVars, requestVars, chunks, written>>

(* ChatService.prepare_prompt_arguments: the history of a deleted           *)
(* conversation is not found, a failing read raises; neither exception is   *)
(* caught by the stream.  The SQL chain reads the question only.            *)
Prepare(r) ==
    /\ CanRun(r)
    /\ pc[r] = "prepare"
    /\ IF kind[r] \in SqlKinds
       THEN Goto(r, "ddl") \/ End(r, "error")
       ELSE \/ /\ ~Deleted(question[target[r]].conversation)
               /\ Goto(r, "model")
            \/ End(r, Uncaught(r))
    /\ UNCHANGED <<storeVars, tableVars, requestVars, chunks, written>>

(* SourceService.get_source_ddl answers, or raises an HTTPException that    *)
(* FullSQLChain does not catch.                                             *)
ReceiveDdl(r) ==
    /\ CanRun(r)
    /\ pc[r] = "ddl"
    /\ Goto(r, "model") \/ End(r, Uncaught(r))
    /\ UNCHANGED <<storeVars, tableVars, requestVars, chunks, written>>

(* The model services reply: summaries of the web sources, then the whole   *)
(* answer for the chat endpoint or an open stream; for the SQL chain, the   *)
(* command.  A connection error is an error chunk; an unknown model or an   *)
(* unreadable answer is not caught by the streams.                          *)
AfterModel(r) ==
    CASE kind[r] = "answer" -> "insert"
      [] kind[r] = "stream" -> "open"
      [] kind[r] \in {"command", "query"} -> "savesql"
      [] OTHER -> "execute"

ModelReplies(r) ==
    /\ CanRun(r)
    /\ pc[r] = "model"
    /\ Goto(r, AfterModel(r)) \/ End(r, "error") \/ End(r, Uncaught(r))
    /\ UNCHANGED <<storeVars, tableVars, requestVars, chunks, written>>

(* SourceService.execute_sql_command: a result, or the fixed text for a     *)
(* statement that is not a SELECT; SQLExecuteError is an error chunk, an    *)
(* HTTPException is not caught.                                             *)
ExecuteSql(r) ==
    /\ CanRun(r)
    /\ pc[r] = "execute"
    /\ Goto(r, "savesql") \/ End(r, "error") \/ End(r, "cut")
    /\ UNCHANGED <<storeVars, tableVars, requestVars, chunks, written>>

(* The end of SQLQueryChain.generate_answer: the command is all that the    *)
(* endpoint without a depth asks for, whatever its execute_sql_query says.  *)
AfterSaving(r) ==
    CASE kind[r] = "query" -> End(r, "shown")
      [] kind[r] = "explanation" -> Goto(r, "explain")
      [] OTHER -> Goto(r, "insert")

(* Faulty variant: a failure to save the command is logged and forgotten. *)
SaveSqlSourceIfPossible(r) ==
    /\ CanRun(r)
    /\ pc[r] = "savesql"
    /\ sqlSource' \in {sqlSource, sqlSource \cup {r}}
    /\ AfterSaving(r)
    /\ UNCHANGED <<storeVars, requestVars, answer, analytics, chunks, written>>

(* SQLSourceRepository.create_sql_source_response.  Its failure becomes     *)
(* SqlSourceResponseSavingException, which FullSQLChain does not catch; so  *)
(* does a failure to read the row again after its commit.                   *)
SaveSqlSource(r) ==
    /\ CanRun(r)
    /\ pc[r] = "savesql"
    /\ \/ /\ sqlSource' = sqlSource \cup {r}
          /\ AfterSaving(r) \/ End(r, Uncaught(r))
       \/ End(r, Uncaught(r)) /\ UNCHANGED sqlSource
    /\ UNCHANGED <<storeVars, requestVars, answer, analytics, chunks, written>>

(* The model that explains the result opens its stream, or fails. *)
OpenExplanation(r) ==
    /\ CanRun(r)
    /\ pc[r] = "explain"
    /\ Goto(r, "open") \/ End(r, "error") \/ End(r, "cut")
    /\ UNCHANGED <<storeVars, tableVars, requestVars, chunks, written>>

-----------------------------------------------------------------------------
(* LLMStreamer.stream_llm_response.                                         *)

(* The client is still there: start iterating over the response. *)
StartStream(r) ==
    /\ CanRun(r)
    /\ pc[r] = "open"
    /\ r \in connected
    /\ Goto(r, "chunks")
    /\ UNCHANGED <<storeVars, tableVars, requestVars, chunks, written>>

(* response.iter_content returns a chunk, ends, or raises: without a final  *)
(* chunk the generator just stops.                                          *)
ReceiveChunk(r) ==
    /\ CanRun(r)
    /\ pc[r] = "chunks"
    /\ Goto(r, "check") \/ End(r, "cut")
    /\ UNCHANGED <<storeVars, tableVars, requestVars, chunks, written>>

(* The client is still there: an IN_PROGRESS chunk is forwarded.  (Sending  *)
(* it may await too; nothing shared changes between the two awaits.)        *)
ForwardChunk(r) ==
    /\ CanRun(r)
    /\ pc[r] = "check"
    /\ r \in connected
    /\ chunks[r] < MaxChunks
    /\ chunks' = [chunks EXCEPT ![r] = @ + 1]
    /\ Goto(r, "chunks")
    /\ UNCHANGED <<storeVars, tableVars, requestVars, written>>

(* The client is still there: a DONE chunk is stored before it is           *)
(* forwarded; an ERROR chunk, or one that cannot be parsed, ends the stream *)
(* with an ERROR chunk.                                                     *)
ReceiveLastChunk(r) ==
    /\ CanRun(r)
    /\ pc[r] = "check"
    /\ r \in connected
    /\ Goto(r, "insert") \/ End(r, "error")
    /\ UNCHANGED <<storeVars, tableVars, requestVars, chunks, written>>

-----------------------------------------------------------------------------
(* ConversationRepository.create_answer: two transactions.                  *)

(* What the client sees when create_answer raises: FullSQLChain catches the *)
(* exception for the depths that save the answer themselves.                *)
SavingFailed(r) == IF kind[r] \in {"stream", "explanation"} THEN "cut" ELSE "error"

(* Faulty variant: the generated id is not read back after the commit. *)
InsertAnswerWithoutId(r) ==
    /\ CanRun(r)
    /\ pc[r] = "insert"
    /\ \/ \E a \in Answers :
            /\ answer[a] = Absent
            /\ answer' = [answer EXCEPT ![a] = [question |-> target[r], by |-> r]]
            /\ Goto(r, "analytics")
       \/ End(r, SavingFailed(r)) /\ UNCHANGED answer
    /\ UNCHANGED <<storeVars, requestVars, analytics, sqlSource, chunks, written>>

InsertAnswer(r) ==
    /\ CanRun(r)
    /\ pc[r] = "insert"
    /\ \/ \E a \in Answers :
            /\ answer[a] = Absent
            /\ answer' = [answer EXCEPT ![a] = [question |-> target[r], by |-> r]]
            /\ written' = [written EXCEPT ![r] = a]
            /\ Goto(r, "analytics")
       \/ End(r, SavingFailed(r)) /\ UNCHANGED <<answer, written>>
    /\ UNCHANGED <<storeVars, requestVars, analytics, sqlSource, chunks>>

(* Faulty variant: the failure of the second commit is not raised again. *)
InsertAnalyticsQuietly(r) ==
    /\ CanRun(r)
    /\ pc[r] = "analytics"
    /\ analytics' \in {analytics, analytics \cup {written[r]}}
    /\ End(r, "done")
    /\ UNCHANGED <<storeVars, requestVars, answer, sqlSource, chunks, written>>

(* Faulty variant: create_answer is tried again when its second commit      *)
(* fails.                                                                   *)
InsertAnalyticsOrRetry(r) ==
    /\ CanRun(r)
    /\ pc[r] = "analytics"
    /\ \/ /\ analytics' = analytics \cup {written[r]}
          /\ End(r, "done")
       \/ Goto(r, "insert") /\ UNCHANGED analytics
    /\ UNCHANGED <<storeVars, requestVars, answer, sqlSource, chunks, written>>

(* The second commit, and what is sent after it: the answer, or the DONE    *)
(* chunk unless the stream is cancelled while sending, or an error if what  *)
(* was saved does not fit the schema it is sent in.  The except branch      *)
(* rolls back the analytics row only.                                       *)
InsertAnalytics(r) ==
    /\ CanRun(r)
    /\ pc[r] = "analytics"
    /\ \/ /\ analytics' = analytics \cup {written[r]}
          /\ \/ End(r, "done") \/ End(r, "error")
             \/ kind[r] \in StreamKinds /\ r \notin connected /\ End(r, "left")
       \/ End(r, SavingFailed(r)) /\ UNCHANGED analytics
    /\ UNCHANGED <<storeVars, requestVars, answer, sqlSource, chunks, written>>

-----------------------------------------------------------------------------
(* The process dies and is restarted: every request in flight is lost, the  *)
(* committed rows stay, open transactions are rolled back.                  *)
Crash ==
    /\ \E r \in Requests : pc[r] \in Steps
    /\ pc' = [r \in Requests |-> IF pc[r] \in Steps THEN "end" ELSE pc[r]]
    /\ told' = [r \in Requests |-> IF pc[r] \in Steps THEN "lost" ELSE told[r]]
    /\ editing' = [s \in Sessions |-> Absent]
    /\ UNCHANGED <<conversation, question, requestVars, tableVars, chunks, written>>

(* The other handlers.  Creating a question needs the event loop. *)
OtherHandler ==
    /\ StoreNext
    /\ question' # question => \A r \in Requests : ~HoldsLoop(r)
    /\ UNCHANGED answerVars

ServerStep(r) ==
    \/ Abandon(r)
    \/ Prepare(r)
    \/ ReceiveDdl(r)
    \/ ModelReplies(r)
    \/ ExecuteSql(r)
    \/ SaveSqlSource(r)
    \/ OpenExplanation(r)
    \/ StartStream(r)
    \/ ReceiveChunk(r)
    \/ ForwardChunk(r)
    \/ ReceiveLastChunk(r)
    \/ InsertAnswer(r)
    \/ InsertAnalytics(r)

Next ==
    \/ \E r \in Requests, q \in Questions : Ask(r, q)
    \/ \E r \in Requests : Disconnect(r)
    \/ \E r \in Requests : ServerStep(r)
    \/ Crash
    \/ OtherHandler

Spec == Init /\ [][Next]_vars

(* The event loop, the threads, the database and the services they call all *)
(* answer in the end; nothing is assumed of clients, nor of crashes.        *)
Fairness == \A r \in Requests : WF_vars(ServerStep(r))

FairSpec == Spec /\ Fairness

-----------------------------------------------------------------------------
(* Safety.                                                                  *)

StoredBy(r) == {a \in Answers : answer[a] # Absent /\ answer[a].by = r}

(* A client that got its answer finds it after any crash or failure of      *)
(* others: the row is there, for the question it asked, with its analytics. *)
DoneIsDurable ==
    \A r \in Requests :
        told[r] = "done" =>
            \E a \in analytics :
                answer[a] = [question |-> target[r], by |-> r]

(* An answer without analytics is one that is being saved now, or that a    *)
(* failed commit or a crash left behind.  In particular a client that walks *)
(* away never leaves one: a stream is not abandoned between the commits.    *)
HalfSavedOnlyByFailure ==
    \A a \in Answers :
        answer[a] # Absent /\ a \notin analytics =>
            LET r == answer[a].by
            IN  pc[r] = "analytics" \/ told[r] \in {"error", "cut", "lost"}

(* A request stores at most one answer, however its stream and the loop are *)
(* interleaved with others: no step is run again after the insert.          *)
OneAnswerPerRequest ==
    \A a, b \in Answers :
        answer[a] # Absent /\ answer[b] # Absent /\ answer[a].by = answer[b].by =>
            a = b

(* An answer that the SQL chain gave can be traced to the command (and the  *)
(* result) it was made from, and a command that was only shown is there     *)
(* too: SqlSourceResponse is saved first.                                   *)
SqlAnswersHaveSource ==
    /\ \A a \in Answers :
          answer[a] # Absent /\ kind[answer[a].by] \in SqlKinds =>
              answer[a].by \in sqlSource
    /\ \A r \in Requests : told[r] = "shown" => r \in sqlSource

(* Chatting in a conversation that had been deleted before the request was  *)
(* sent stores no answer.  (The SQL chain does not look at the flag, and a  *)
(* deletion while the model is answering does not stop the answer.)         *)
DeletedConversationsStaySilent ==
    \A r \in late : kind[r] \notin SqlKinds => StoredBy(r) = {}

(* The comment in the except branch of create_answer: "Delete the           *)
(* answer_object if it was created".  A failure to save that was reported   *)
(* to the client leaves no answer behind, which would have no analytics.    *)
FailedAnswersAreDeleted ==
    \A r \in Requests : told[r] \in {"error", "cut"} => StoredBy(r) \subseteq analytics

(* The ledger that the tables and the handlers amount to. *)
Ledger == INSTANCE AnswerLedger WITH
    book <- [r \in Requests |->
                IF StoredBy(r) = {} THEN "blank"
                ELSE IF StoredBy(r) \cap analytics = {} THEN "recorded"
                ELSE "filed"],
    outcome <- [r \in Requests |->
                IF pc[r] # "end" THEN "pending"
                ELSE IF told[r] = "done" THEN "acknowledged"
                ELSE "closed"]

(* The service keeps the promises of AnswerLedger: nothing is stored for a  *)
(* request once it is over, and it is acknowledged in the step that files   *)
(* its answer.                                                              *)
KeepsTheLedger == Ledger!LedgerSpec

(* Every request that was sent is over some day, and with it the time the   *)
(* event loop is held for it.                                               *)
EveryRequestEnds ==
    \A r \in Requests : pc[r] \in Steps ~> pc[r] = "end"
=============================================================================
