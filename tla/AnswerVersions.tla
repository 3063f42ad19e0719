--------------------------- MODULE AnswerVersions ---------------------------
(***************************************************************************)
(* Editing and rating stored answers in elgen-esg-conversation-service:    *)
(* AnswerRepository behind ChatService and the endpoints PUT /chat/answer, *)
(* PUT /chat/answer/rating and GET /chat/answer/{id}/history/latest.       *)
(*                                                                         *)
(* The three endpoints are coroutines that never await, so each runs on    *)
(* the event loop from its first read to its commit without another of     *)
(* them in between.  A commit that fails leaves the tables as they were.   *)
(***************************************************************************)
EXTENDS Naturals, FiniteSets, SequencesExt

CONSTANTS
    Answers,            \* the stored answers
    Contents,           \* the texts an answer can have
    Ratings,            \* AnswerRatingEnum
    Unrated,            \* the NULL of column rating
    Nothing,            \* no version has been shown
    MaxVersions         \* bound: rows of versioned_answer

ASSUME VersionsAssumption == Unrated \notin Ratings /\ MaxVersions \in Nat

VARIABLES
    answer,             \* table answer: content, rating and edited flag
    versions,           \* table versioned_answer: the rows of each answer_id,
                        \* in the order of insertion
    shown,              \* the last answer of .../history/latest, by answer
    past                \* history: what each answer has been, the present last

versionsVars == <<answer, versions, shown, past>>

(* The answers of an instance were all stored at time 0; an answer keeps    *)
(* its creation_date for ever.                                              *)
AnswerRow == [content : Contents, rating : Ratings \cup {Unrated},
              edited : BOOLEAN, creation_date : {0}]

(* The rows of different answers are never read together, so that only the  *)
(* order of those of one answer matters; the key is not part of a row.      *)
VersionRow == AnswerRow

Stage == [content : Contents, rating : Ratings \cup {Unrated}]

VersionsTypeOK ==
    /\ answer \in [Answers -> AnswerRow]
    /\ versions \in [Answers -> Seq(VersionRow)]
    /\ shown \in [Answers -> VersionRow \cup {Nothing}]
    /\ past \in [Answers -> Seq(Stage)]

StageOf(row) == [content |-> row.content, rating |-> row.rating]

(* The answers as create_answer stores them. *)
VersionsInit ==
    /\ answer \in [Answers -> [content : Contents, rating : {Unrated},
                               edited : {FALSE}, creation_date : {0}]]
    /\ versions = [a \in Answers |-> <<>>]
    /\ shown = [a \in Answers |-> Nothing]
    /\ past = [a \in Answers |-> <<StageOf(answer[a])>>]

(* update_rating_for_answer: one UPDATE of the row with that id. *)
Rate(a, rating) ==
    /\ answer' = [answer EXCEPT ![a].rating = rating]
    /\ past' = [past EXCEPT ![a] = Append(Front(@), [Last(@) EXCEPT !.rating = rating])]
    /\ UNCHANGED <<versions, shown>>

Stored == UNION {{a} \X DOMAIN versions[a] : a \in Answers}

(* Faulty variant: the new text also gets a new creation_date. *)
ReplaceRedated(a, content) ==
    /\ Cardinality(Stored) < MaxVersions
    /\ versions' = [versions EXCEPT ![a] = Append(@, answer[a])]
    /\ answer' = [answer EXCEPT ![a] =
            [content |-> content, rating |-> Unrated, edited |-> TRUE,
             creation_date |-> @.creation_date + 1]]
    /\ past' = [past EXCEPT ![a] = Append(@, [content |-> content, rating |-> Unrated])]
    /\ UNCHANGED shown

(* update_answer_with_versioning: the old row goes to versioned_answer, all *)
(* its columns and its creation_date with it, and the new content starts    *)
(* unrated, in one transaction.                                             *)
Replace(a, content) ==
    /\ Cardinality(Stored) < MaxVersions
    /\ versions' = [versions EXCEPT ![a] = Append(@, answer[a])]
    /\ answer' = [answer EXCEPT ![a].content = content,
                                ![a].rating = Unrated,
                                ![a].edited = TRUE]
    /\ past' = [past EXCEPT ![a] = Append(@, [content |-> content, rating |-> Unrated])]
    /\ UNCHANGED shown

NewestOf(rows) ==
    {row \in rows : \A other \in rows : other.creation_date <= row.creation_date}

(* Faulty variant: the versions are not filtered by answer_id. *)
LatestOfAll(a) == NewestOf(UNION {ToSet(versions[b]) : b \in Answers})

(* get_latest_versioned_answer: a row that ORDER BY creation_date DESC may  *)
(* put first.  Rows with the same date come in any order.                   *)
Latest(a) == NewestOf(ToSet(versions[a]))

ShowLatest(a) ==
    /\ \E row \in Latest(a) : shown' = [shown EXCEPT ![a] = row]
    /\ UNCHANGED <<answer, versions, past>>

VersionsNext ==
    \E a \in Answers :
        \/ \E rating \in Ratings : Rate(a, rating)
        \/ \E content \in Contents : Replace(a, content)
        \/ ShowLatest(a)

VersionsSpec == VersionsInit /\ [][VersionsNext]_versionsVars

-----------------------------------------------------------------------------
(* No text that an answer ever had is lost, nor the rating it had when it   *)
(* was replaced: the versions of an answer, then the answer itself, tell    *)
(* its history in order, a rating stays with the text it was given to, and  *)
(* only the first of them says that it is the text of the model.  What      *)
(* .../history/latest shows is one of the earlier stages of that answer.    *)
NothingIsForgotten ==
    \A a \in Answers :
        LET rows == versions[a] \o <<answer[a]>>
        IN  /\ [i \in DOMAIN rows |-> StageOf(rows[i])] = past[a]
            /\ \A i \in DOMAIN rows : rows[i].edited <=> i > 1
            /\ shown[a] # Nothing => StageOf(shown[a]) \in ToSet(Front(past[a]))
=============================================================================
