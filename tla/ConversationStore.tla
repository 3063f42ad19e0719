-------------------------- MODULE ConversationStore --------------------------
(***************************************************************************)
(* The conversation and question tables of elgen-esg-conversation-service  *)
(* (ConversationRepository behind ConversationService) and the handlers    *)
(* that write them.                                                        *)
(*                                                                         *)
(* A title update and a deletion are `def` handlers: FastAPI runs them in  *)
(* its threadpool, so the read of the row (Query.get) and the flush of the *)
(* changed columns at commit are two steps that other handlers interleave  *)
(* with.  Creating a conversation is one INSERT.  Creating a question runs *)
(* on the event loop; the ownership checks and the INSERT are one step,    *)
(* because no handler ever changes the owner or the workspace they read.   *)
(***************************************************************************)
EXTENDS Naturals, FiniteSets

CONSTANTS
    Users, Workspaces, Titles,
    Conversations,      \* the ids that conversations can get
    Questions,          \* the ids that questions can get
    Sessions,           \* threadpool sessions that edit a conversation row
    Absent              \* no such row, or a session without a loaded row

ASSUME AbsentAssumption ==
    /\ Absent \notin [user : Users, workspace : Workspaces, title : Titles,
                      deleted : BOOLEAN]
    /\ Absent \notin [conversation : Conversations, user : Users,
                      workspace : Workspaces]

VARIABLES
    conversation,       \* table conversation, by id
    question,           \* table question, by id, with the headers it was asked under
    editing             \* what each threadpool session has loaded and wants to write

storeVars == <<conversation, question, editing>>

ConversationRow == [user : Users, workspace : Workspaces, title : Titles,
                    deleted : BOOLEAN]

QuestionRow == [conversation : Conversations, user : Users,
                workspace : Workspaces]

Edit == [conversation : Conversations, loaded : ConversationRow,
         job : {"title"}, title : Titles]
          \cup
        [conversation : Conversations, loaded : ConversationRow,
         job : {"delete"}]

StoreTypeOK ==
    /\ conversation \in [Conversations -> ConversationRow \cup {Absent}]
    /\ question \in [Questions -> QuestionRow \cup {Absent}]
    /\ editing \in [Sessions -> Edit \cup {Absent}]

StoreInit ==
    /\ conversation = [c \in Conversations |-> Absent]
    /\ question = [q \in Questions |-> Absent]
    /\ editing = [s \in Sessions |-> Absent]

Exists(c) == conversation[c] # Absent

Deleted(c) == Exists(c) /\ conversation[c].deleted

-----------------------------------------------------------------------------
(* POST /conversation: one INSERT under a fresh id. *)
CreateConversation(c, u, w, t) ==
    /\ ~Exists(c)
    /\ conversation' = [conversation EXCEPT ![c] =
            [user |-> u, workspace |-> w, title |-> t, deleted |-> FALSE]]
    /\ UNCHANGED <<question, editing>>

(* Query.get(conversation_id): neither handler filters on the deleted flag, *)
(* so a deleted conversation can be renamed, and deleted again.             *)
LoadForTitle(s, c, t) ==
    /\ editing[s] = Absent
    /\ Exists(c)
    /\ editing' = [editing EXCEPT ![s] =
            [conversation |-> c, loaded |-> conversation[c],
             job |-> "title", title |-> t]]
    /\ UNCHANGED <<conversation, question>>

LoadForDelete(s, c) ==
    /\ editing[s] = Absent
    /\ Exists(c)
    /\ editing' = [editing EXCEPT ![s] =
            [conversation |-> c, loaded |-> conversation[c],
             job |-> "delete"]]
    /\ UNCHANGED <<conversation, question>>

(* Faulty variant: the UPDATE writes the whole row as it was loaded. *)
FlushedWholeRow(row, edit) ==
    IF edit.job = "title"
    THEN [edit.loaded EXCEPT !.title = edit.title]
    ELSE [edit.loaded EXCEPT !.deleted = TRUE]

(* What a commit makes of the row: the UPDATE names only the columns whose  *)
(* value differs from the loaded one, so a concurrent write to another      *)
(* column survives.                                                         *)
Flushed(row, edit) ==
    CASE edit.job = "title" /\ edit.title # edit.loaded.title ->
            [row EXCEPT !.title = edit.title]
      [] edit.job = "delete" /\ ~edit.loaded.deleted ->
            [row EXCEPT !.deleted = TRUE]
      [] OTHER -> row

CommitEdit(s) ==
    /\ editing[s] # Absent
    /\ LET c == editing[s].conversation
       IN  conversation' = [conversation EXCEPT ![c] = Flushed(@, editing[s])]
    /\ editing' = [editing EXCEPT ![s] = Absent]
    /\ UNCHANGED question

(* The commit fails, or the process dies: the session is rolled back. *)
RollbackEdit(s) ==
    /\ editing[s] # Absent
    /\ editing' = [editing EXCEPT ![s] = Absent]
    /\ UNCHANGED <<conversation, question>>

(* _validate_user_conversation_ownership and                                *)
(* _validate_workspace_conversation_ownership: both look the row up by id   *)
(* and owner, neither looks at the deleted flag.                            *)
MayAsk(c, u, w) ==
    /\ Exists(c)
    /\ conversation[c].user = u
    /\ conversation[c].workspace = w

(* Faulty variant: the workspace of the conversation is not compared. *)
CreateQuestionInAnyWorkspace(q, c, u, w) ==
    /\ question[q] = Absent
    /\ Exists(c) /\ conversation[c].user = u
    /\ question' = [question EXCEPT ![q] =
            [conversation |-> c, user |-> u, workspace |-> w]]
    /\ UNCHANGED <<conversation, editing>>

(* POST /conversation/question: the classification model has been asked     *)
(* (the flags it decides are left out), then the checks and the INSERT.     *)
CreateQuestion(q, c, u, w) ==
    /\ question[q] = Absent
    /\ MayAsk(c, u, w)
    /\ question' = [question EXCEPT ![q] =
            [conversation |-> c, user |-> u, workspace |-> w]]
    /\ UNCHANGED <<conversation, editing>>

StoreNext ==
    \/ \E c \in Conversations, u \in Users, w \in Workspaces, t \in Titles :
            CreateConversation(c, u, w, t)
    \/ \E s \in Sessions, c \in Conversations, t \in Titles : LoadForTitle(s, c, t)
    \/ \E s \in Sessions, c \in Conversations : LoadForDelete(s, c)
    \/ \E s \in Sessions : CommitEdit(s)
    \/ \E s \in Sessions : RollbackEdit(s)
    \/ \E q \in Questions, c \in Conversations, u \in Users, w \in Workspaces :
            CreateQuestion(q, c, u, w)

StoreSpec == StoreInit /\ [][StoreNext]_storeVars

-----------------------------------------------------------------------------
(* A conversation that was deleted stays deleted, whatever renames and      *)
(* deletions were reading its row at that moment: nothing brings a deleted  *)
(* conversation back into anybody's list, and its owner never changes.      *)
DeletedForever ==
    [][\A c \in Conversations :
          Exists(c) =>
            /\ Exists(c)'
            /\ Deleted(c) => Deleted(c)'
            /\ conversation'[c].user = conversation[c].user
            /\ conversation'[c].workspace = conversation[c].workspace]_storeVars

(* A question sits in a conversation that belongs to the user, and to the   *)
(* workspace, under which it was asked, also after renames and deletions.   *)
QuestionsOwned ==
    \A q \in Questions :
        question[q] # Absent =>
            MayAsk(question[q].conversation, question[q].user, question[q].workspace)
=============================================================================
