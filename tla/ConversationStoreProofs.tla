----------------------- MODULE ConversationStoreProofs -----------------------
(***************************************************************************)
(* Proofs about ConversationStore: type correctness, who owns a question,  *)
(* and that no interleaving of renames and deletions revives a deleted     *)
(* conversation.                                                           *)
(***************************************************************************)
EXTENDS ConversationStore, TLAPS

(* A session only ever edits a row that is in the table. *)
EditsExist == \A s \in Sessions : editing[s] # Absent => Exists(editing[s].conversation)

StoreInv == StoreTypeOK /\ EditsExist /\ QuestionsOwned

(* What no step of the store, nor any other step, does to a row. *)
RowKept(c) ==
    Exists(c) =>
        /\ Exists(c)'
        /\ Deleted(c) => Deleted(c)'
        /\ conversation'[c].user = conversation[c].user
        /\ conversation'[c].workspace = conversation[c].workspace

(* No conversation row is Absent: a written row exists. *)
LEMMA RowsArePresent ==
    /\ \A row \in ConversationRow : row # Absent
    /\ \A row \in QuestionRow : row # Absent
BY AbsentAssumption DEF ConversationRow, QuestionRow

(* A flush keeps the type, the owner and the workspace of the row, and      *)
(* never clears its deleted flag.                                           *)
LEMMA FlushKeepsRow ==
    ASSUME NEW row \in ConversationRow, NEW edit \in Edit
    PROVE  /\ Flushed(row, edit) \in ConversationRow
           /\ Flushed(row, edit).user = row.user
           /\ Flushed(row, edit).workspace = row.workspace
           /\ row.deleted => Flushed(row, edit).deleted
<1>1. CASE edit.job = "title" /\ edit.title # edit.loaded.title
  <2>1. edit.title \in Titles
    BY <1>1 DEF Edit
  <2>2. Flushed(row, edit) = [row EXCEPT !.title = edit.title]
    BY <1>1 DEF Flushed
  <2> QED
    BY <2>1, <2>2 DEF ConversationRow
<1>2. CASE edit.job = "delete" /\ ~edit.loaded.deleted
  <2>1. Flushed(row, edit) = [row EXCEPT !.deleted = TRUE]
    BY <1>2 DEF Flushed
  <2> QED
    BY <2>1 DEF ConversationRow
<1>3. CASE ~(edit.job = "title" /\ edit.title # edit.loaded.title)
           /\ ~(edit.job = "delete" /\ ~edit.loaded.deleted)
  BY <1>3 DEF Flushed
<1> QED
  BY <1>1, <1>2, <1>3

(* The initial tables are empty. *)
LEMMA StoreInitInv == StoreInit => StoreInv
BY DEF StoreInit, StoreInv, StoreTypeOK, EditsExist, QuestionsOwned

(* One step of the store keeps its invariant and every existing row. *)
LEMMA StoreStep ==
    StoreInv /\ [StoreNext]_storeVars => StoreInv' /\ \A c \in Conversations : RowKept(c)
<1> SUFFICES ASSUME StoreInv, [StoreNext]_storeVars
             PROVE  StoreInv' /\ \A c \in Conversations : RowKept(c)
  OBVIOUS
<1> USE DEF StoreInv
<1>1. ASSUME NEW c \in Conversations, NEW u \in Users, NEW w \in Workspaces,
             NEW t \in Titles, CreateConversation(c, u, w, t)
      PROVE  StoreInv' /\ \A d \in Conversations : RowKept(d)
  <2> DEFINE row == [user |-> u, workspace |-> w, title |-> t, deleted |-> FALSE]
  <2>1. row \in ConversationRow /\ row # Absent
    BY RowsArePresent DEF ConversationRow
  <2>2. /\ conversation' = [conversation EXCEPT ![c] = row]
        /\ ~Exists(c)
        /\ UNCHANGED <<question, editing>>
    BY <1>1 DEF CreateConversation
  <2>3. StoreTypeOK'
    BY <2>1, <2>2 DEF StoreTypeOK
  <2>4. \A d \in Conversations : Exists(d) => conversation'[d] = conversation[d]
    BY <2>2 DEF StoreTypeOK
  <2>5. EditsExist'
    BY <2>2, <2>4 DEF EditsExist, Exists, StoreTypeOK, Edit
  <2>6. QuestionsOwned'
    BY <2>2, <2>4 DEF QuestionsOwned, MayAsk, Exists, StoreTypeOK, QuestionRow
  <2>7. \A d \in Conversations : RowKept(d)
    BY <2>4 DEF RowKept, Exists, Deleted
  <2> QED
    BY <2>3, <2>5, <2>6, <2>7
<1>2. ASSUME NEW s \in Sessions, NEW c \in Conversations, NEW t \in Titles,
             LoadForTitle(s, c, t)
      PROVE  StoreInv' /\ \A d \in Conversations : RowKept(d)
  <2>1. [conversation |-> c, loaded |-> conversation[c], job |-> "title",
         title |-> t] \in Edit
    BY <1>2 DEF LoadForTitle, Exists, StoreTypeOK, Edit
  <2> QED
    BY <1>2, <2>1 DEF LoadForTitle, StoreTypeOK, EditsExist, QuestionsOwned,
        MayAsk, Exists, RowKept, Deleted
<1>3. ASSUME NEW s \in Sessions, NEW c \in Conversations, LoadForDelete(s, c)
      PROVE  StoreInv' /\ \A d \in Conversations : RowKept(d)
  <2>1. [conversation |-> c, loaded |-> conversation[c], job |-> "delete"] \in Edit
    BY <1>3 DEF LoadForDelete, Exists, StoreTypeOK, Edit
  <2> QED
    BY <1>3, <2>1 DEF LoadForDelete, StoreTypeOK, EditsExist, QuestionsOwned,
        MayAsk, Exists, RowKept, Deleted
<1>4. ASSUME NEW s \in Sessions, CommitEdit(s)
      PROVE  StoreInv' /\ \A d \in Conversations : RowKept(d)
  <2> DEFINE c == editing[s].conversation
  <2> DEFINE row == Flushed(conversation[c], editing[s])
  <2>1. editing[s] \in Edit /\ c \in Conversations /\ Exists(c)
    BY <1>4 DEF CommitEdit, StoreTypeOK, EditsExist, Edit
  <2>2. conversation[c] \in ConversationRow
    BY <2>1 DEF StoreTypeOK, Exists
  <2>3. /\ row \in ConversationRow
        /\ row # Absent
        /\ row.user = conversation[c].user
        /\ row.workspace = conversation[c].workspace
        /\ conversation[c].deleted => row.deleted
    BY <2>1, <2>2, FlushKeepsRow, RowsArePresent
  <2>4. /\ conversation' = [conversation EXCEPT ![c] = row]
        /\ editing' = [editing EXCEPT ![s] = Absent]
        /\ question' = question
    BY <1>4 DEF CommitEdit
  <2> HIDE DEF c, row
  <2>5. StoreTypeOK'
    BY <2>1, <2>3, <2>4 DEF StoreTypeOK
  <2>6. \A d \in Conversations : RowKept(d)
    BY <2>1, <2>3, <2>4 DEF StoreTypeOK, RowKept, Exists, Deleted
  <2>7. EditsExist'
    BY <2>4, <2>6 DEF EditsExist, RowKept, StoreTypeOK, Edit, Exists
  <2>8. QuestionsOwned'
    BY <2>4, <2>6 DEF QuestionsOwned, MayAsk, RowKept, StoreTypeOK, QuestionRow, Exists
  <2> QED
    BY <2>5, <2>6, <2>7, <2>8
<1>5. ASSUME NEW s \in Sessions, RollbackEdit(s)
      PROVE  StoreInv' /\ \A d \in Conversations : RowKept(d)
  BY <1>5 DEF RollbackEdit, StoreTypeOK, EditsExist, QuestionsOwned, MayAsk,
      Exists, RowKept, Deleted
<1>6. ASSUME NEW q \in Questions, NEW c \in Conversations, NEW u \in Users,
             NEW w \in Workspaces, CreateQuestion(q, c, u, w)
      PROVE  StoreInv' /\ \A d \in Conversations : RowKept(d)
  <2> DEFINE row == [conversation |-> c, user |-> u, workspace |-> w]
  <2>1. row \in QuestionRow /\ row # Absent
    BY RowsArePresent DEF QuestionRow
  <2>2. /\ question' = [question EXCEPT ![q] = row]
        /\ MayAsk(c, u, w)
        /\ UNCHANGED <<conversation, editing>>
    BY <1>6 DEF CreateQuestion
  <2>3. StoreTypeOK' /\ EditsExist'
    BY <2>1, <2>2 DEF StoreTypeOK, EditsExist, Exists
  <2>4. QuestionsOwned'
    BY <2>1, <2>2 DEF StoreTypeOK, QuestionsOwned, MayAsk, Exists
  <2> QED
    BY <2>2, <2>3, <2>4 DEF RowKept, Exists, Deleted
<1>7. CASE UNCHANGED storeVars
  BY <1>7 DEF storeVars, StoreTypeOK, EditsExist, QuestionsOwned, MayAsk,
      Exists, RowKept, Deleted
<1> QED
  BY <1>1, <1>2, <1>3, <1>4, <1>5, <1>6, <1>7 DEF StoreNext

(* A question row never changes once it is there. *)
LEMMA QuestionsKept ==
    ASSUME StoreNext, StoreTypeOK, NEW q \in Questions, question[q] # Absent
    PROVE  question'[q] = question[q]
BY DEF StoreNext, StoreTypeOK, CreateConversation, LoadForTitle, LoadForDelete,
   CommitEdit, RollbackEdit, CreateQuestion

(* The invariant of the tables, whatever the handlers interleave: types,    *)
(* edits of existing rows, and questions in their asker's conversations.    *)
THEOREM StoreInvariant == StoreSpec => []StoreInv
<1>1. StoreInit => StoreInv
  BY StoreInitInv
<1>2. StoreInv /\ [StoreNext]_storeVars => StoreInv'
  BY StoreStep
<1> QED
  BY <1>1, <1>2, PTL DEF StoreSpec

(* The tables hold rows of the right type. *)
THEOREM StoreTypeCorrect == StoreSpec => []StoreTypeOK
BY StoreInvariant, PTL DEF StoreInv

(* Every question is in a conversation of the user and the workspace it was *)
(* asked under.                                                             *)
THEOREM QuestionsStayOwned == StoreSpec => []QuestionsOwned
BY StoreInvariant, PTL DEF StoreInv

(* No rename or deletion, however it overlaps with others, brings a deleted *)
(* conversation back or changes its owner.                                  *)
THEOREM DeletionIsForever == StoreSpec => DeletedForever
<1>1. StoreInv /\ [StoreNext]_storeVars =>
        [\A c \in Conversations :
          Exists(c) =>
            /\ Exists(c)'
            /\ Deleted(c) => Deleted(c)'
            /\ conversation'[c].user = conversation[c].user
            /\ conversation'[c].workspace = conversation[c].workspace]_storeVars
  BY StoreStep DEF RowKept
<1> QED
  BY <1>1, StoreInvariant, PTL DEF StoreSpec, DeletedForever
=============================================================================
