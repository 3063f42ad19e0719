--------------------------- MODULE QuestionSources ---------------------------
(***************************************************************************)
(* The sources of a question: the tables source_document and source_web of *)
(* elgen-esg-conversation-service beside those of ConversationStore, and   *)
(* the endpoints POST /conversations/sources and .../web-sources.          *)
(*                                                                         *)
(* The BFF sends what the source service found for a question.  Both       *)
(* handlers are `def` handlers of the threadpool that store the list one   *)
(* row, and one transaction, at a time, and stop at the first failure.     *)
(* Nothing looks at what is stored already, nor at whose question it is.   *)
(* The two tables are written and read by the same code; a document is a   *)
(* row to be of one or the other.                                          *)
(***************************************************************************)
EXTENDS ConversationStore

CONSTANTS
    Saves,              \* calls of the two endpoints
    Documents           \* what the source service finds

VARIABLES
    request,            \* the question and the documents each call is sent with
    remaining,          \* documents it has still to store
    reply,              \* what the caller of each has been told
    source              \* tables source_document and source_web, with the writer

sourceVars == <<request, remaining, reply, source>>
vars == <<storeVars, sourceVars>>

SaveRequest == [question : Questions, documents : (SUBSET Documents) \ {{}}]

SourceRow == [question : Questions, document : Documents, by : Saves]

(* "lost": the process died before the reply. *)
Replies == {"unsent", "pending", "saved", "failed", "lost"}

TypeOK ==
    /\ StoreTypeOK
    /\ request \in [Saves -> SaveRequest \cup {Absent}]
    /\ remaining \in [Saves -> SUBSET Documents]
    /\ reply \in [Saves -> Replies]
    /\ source \subseteq SourceRow
    /\ \A row \in source : question[row.question] # Absent

Init ==
    /\ StoreInit
    /\ request = [v \in Saves |-> Absent]
    /\ remaining = [v \in Saves |-> {}]
    /\ reply = [v \in Saves |-> "unsent"]
    /\ source = {}

-----------------------------------------------------------------------------
(* The BFF sends a list that is not empty, about any id it was given. *)
Send(v, q, documents) ==
    /\ reply[v] = "unsent"
    /\ documents # {}
    /\ request' = [request EXCEPT ![v] = [question |-> q, documents |-> documents]]
    /\ remaining' = [remaining EXCEPT ![v] = documents]
    /\ reply' = [reply EXCEPT ![v] = "pending"]
    /\ UNCHANGED <<storeVars, source>>

RowOf(v, d) == [question |-> request[v].question, document |-> d, by |-> v]

(* Faulty variant: the foreign key to question is not declared. *)
SaveOneOfAny(v, d) ==
    /\ reply[v] = "pending"
    /\ d \in remaining[v]
    /\ source' = source \cup {RowOf(v, d)}
    /\ remaining' = [remaining EXCEPT ![v] = @ \ {d}]
    /\ reply' = [reply EXCEPT ![v] = IF remaining'[v] = {} THEN "saved" ELSE @]
    /\ UNCHANGED <<storeVars, request>>

(* create_source_document, create_web_source: one INSERT and one COMMIT,    *)
(* which the foreign key to question lets pass.  After the last of the list *)
(* the rows are returned.                                                   *)
SaveOne(v, d) ==
    /\ reply[v] = "pending"
    /\ d \in remaining[v]
    /\ question[request[v].question] # Absent
    /\ source' = source \cup {RowOf(v, d)}
    /\ remaining' = [remaining EXCEPT ![v] = @ \ {d}]
    /\ reply' = [reply EXCEPT ![v] = IF remaining'[v] = {} THEN "saved" ELSE @]
    /\ UNCHANGED <<storeVars, request>>

(* Faulty variant: a document that fails is skipped, and the others are     *)
(* returned.                                                                *)
SkipOne(v) ==
    /\ reply[v] = "pending"
    /\ \E d \in remaining[v] :
          /\ remaining' = [remaining EXCEPT ![v] = @ \ {d}]
          /\ reply' = [reply EXCEPT ![v] = IF remaining'[v] = {} THEN "saved" ELSE @]
    /\ UNCHANGED <<storeVars, request, source>>

(* The next document cannot be stored: there is no such question, a column  *)
(* of it is missing, the connection breaks (before or after the COMMIT took *)
(* effect).  The list is given up with an error; its rows so far stay.      *)
SaveFails(v) ==
    /\ reply[v] = "pending"
    /\ \/ UNCHANGED source
       \/ /\ question[request[v].question] # Absent
          /\ \E d \in remaining[v] : source' = source \cup {RowOf(v, d)}
    /\ remaining' = [remaining EXCEPT ![v] = {}]
    /\ reply' = [reply EXCEPT ![v] = "failed"]
    /\ UNCHANGED <<storeVars, request>>

(* The process dies; what was committed stays.  (Together with RollbackEdit *)
(* this is a crash: it strikes the threads in any number and order.)        *)
SaveIsLost(v) ==
    /\ reply[v] = "pending"
    /\ remaining' = [remaining EXCEPT ![v] = {}]
    /\ reply' = [reply EXCEPT ![v] = "lost"]
    /\ UNCHANGED <<storeVars, request, source>>

SaveStep(v) ==
    \/ \E q \in Questions, documents \in SUBSET Documents : Send(v, q, documents)
    \/ \E d \in Documents : SaveOne(v, d)
    \/ SaveFails(v)
    \/ SaveIsLost(v)

Next ==
    \/ \E v \in Saves : SaveStep(v)
    \/ StoreNext /\ UNCHANGED sourceVars

Spec == Init /\ [][Next]_vars

-----------------------------------------------------------------------------
(* get_sources_by_question_id: what the prompt of a question is made from. *)
SourcesOf(q) == {row \in source : row.question = q}

(* What a caller was told of its list is true of the prompts made since:    *)
(* after a success every document of it is among the sources of the         *)
(* question, once for each call; after a failure or a crash any part of it  *)
(* may be, and nothing else: a document is there twice only if it was sent  *)
(* twice, and never under a question it was not sent for.                   *)
SourcesAsReplied ==
    \A q \in Questions, v \in Saves :
        LET found == {row.document : row \in {r \in SourcesOf(q) : r.by = v}}
            meant == reply[v] # "unsent" /\ request[v].question = q
        IN  /\ ~meant => found = {}
            /\ meant => found \subseteq request[v].documents \ remaining[v]
            /\ meant /\ reply[v] \in {"pending", "saved"} =>
                    found = request[v].documents \ remaining[v]
            /\ reply[v] = "saved" => remaining[v] = {}
=============================================================================
