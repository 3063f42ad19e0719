---------------------- MODULE SourcesAndVersionsProofs ----------------------
(***************************************************************************)
(* Proofs about two groups of tables that hang on those of                 *)
(* ConversationStore.  QuestionSources only adds to what the store may do, *)
(* so that all that is proved of the store holds beside it, and what a     *)
(* caller was told of its sources is true.  AnswerVersions, which shares   *)
(* no table with either, keeps the whole history of every answer.          *)
(***************************************************************************)
EXTENDS QuestionSources, AnswerVersions, ConversationStoreProofs, SequenceTheorems

(* A call in hand has a list, and still to store is a part of it. *)
RequestsAreKnown ==
    \A v \in Saves :
        /\ reply[v] # "unsent" =>
              request[v] \in SaveRequest /\ remaining[v] \subseteq request[v].documents
        /\ reply[v] # "pending" => remaining[v] = {}

(* Each row is one that its writer was sent and is done with ... *)
RowsWereSent ==
    \A row \in source :
        /\ reply[row.by] # "unsent"
        /\ row.question = request[row.by].question
        /\ row.document \in request[row.by].documents \ remaining[row.by]

(* ... and as long as nothing has failed, all that it is done with is there. *)
DoneIsStored ==
    \A v \in Saves :
        reply[v] \in {"pending", "saved"} =>
            \A d \in request[v].documents \ remaining[v] : RowOf(v, d) \in source

SourceInv ==
    /\ StoreInv
    /\ TypeOK
    /\ RequestsAreKnown
    /\ RowsWereSent
    /\ DoneIsStored

-----------------------------------------------------------------------------
(* The steps of a call leave the tables of the store alone. *)
LEMMA SavesKeepStore ==
    ASSUME NEW v \in Saves, SaveStep(v)
    PROVE  UNCHANGED storeVars
BY DEF SaveStep, Send, SaveOne, SaveFails, SaveIsLost

LEMMA SourceInitInv == Init => SourceInv
<1> SUFFICES ASSUME Init PROVE SourceInv
  OBVIOUS
<1>1. StoreInv
  BY StoreInitInv DEF Init
<1> QED
  BY <1>1 DEF Init, SourceInv, TypeOK, StoreInv, Replies, RequestsAreKnown,
     RowsWereSent, DoneIsStored

(* A call that is sent has stored nothing yet. *)
LEMMA SendKeepsInv ==
    ASSUME SourceInv, NEW v \in Saves, NEW q \in Questions,
           NEW documents \in SUBSET Documents, Send(v, q, documents), StoreInv'
    PROVE  SourceInv'
<1> USE DEF SourceInv, storeVars
<1> DEFINE sent == [question |-> q, documents |-> documents]
<1>1. /\ reply[v] = "unsent"
      /\ request' = [request EXCEPT ![v] = sent]
      /\ remaining' = [remaining EXCEPT ![v] = documents]
      /\ reply' = [reply EXCEPT ![v] = "pending"]
      /\ UNCHANGED <<storeVars, source>>
  BY DEF Send
<1>2. sent \in SaveRequest /\ sent.documents = documents
  BY DEF Send, SaveRequest
<1> HIDE DEF sent
<1>3. TypeOK'
  BY <1>1, <1>2 DEF TypeOK, StoreInv, Replies
<1>4. RequestsAreKnown'
  BY <1>1, <1>2 DEF TypeOK, RequestsAreKnown
<1>5. RowsWereSent'
  BY <1>1 DEF TypeOK, RowsWereSent, SourceRow
<1>6. DoneIsStored'
  BY <1>1, <1>2 DEF TypeOK, DoneIsStored, RowOf
<1> QED
  BY <1>3, <1>4, <1>5, <1>6

(* A stored document leaves the list as its row appears. *)
LEMMA SaveOneKeepsInv ==
    ASSUME SourceInv, NEW v \in Saves, NEW d \in Documents, SaveOne(v, d), StoreInv'
    PROVE  SourceInv'
<1> USE DEF SourceInv, storeVars
<1>1. /\ reply[v] = "pending" /\ d \in remaining[v]
      /\ question[request[v].question] # Absent
      /\ source' = source \cup {RowOf(v, d)}
      /\ remaining' = [remaining EXCEPT ![v] = @ \ {d}]
      /\ reply' = [reply EXCEPT ![v] = IF remaining'[v] = {} THEN "saved" ELSE @]
      /\ UNCHANGED <<storeVars, request>>
  BY DEF SaveOne
<1>2. /\ request[v] \in SaveRequest
      /\ remaining'[v] = remaining[v] \ {d}
      /\ reply'[v] \in {"pending", "saved"}
      /\ reply'[v] = "saved" => remaining'[v] = {}
      /\ \A w \in Saves \ {v} : remaining'[w] = remaining[w] /\ reply'[w] = reply[w]
  BY <1>1 DEF TypeOK, RequestsAreKnown
<1>3. RowOf(v, d) \in SourceRow
  BY <1>2 DEF RowOf, SourceRow, SaveRequest
<1>4. TypeOK'
  <2>1. reply' \in [Saves -> Replies]
    BY <1>1 DEF TypeOK, Replies
  <2>2. question[RowOf(v, d).question] # Absent
    BY <1>1 DEF RowOf
  <2> QED
    BY <1>1, <1>3, <2>1, <2>2 DEF TypeOK, StoreInv
<1>5. RequestsAreKnown'
  BY <1>1, <1>2 DEF RequestsAreKnown
<1>6. RowsWereSent'
  <2>1. /\ RowOf(v, d).by = v
        /\ RowOf(v, d).question = request[v].question
        /\ RowOf(v, d).document = d
    BY DEF RowOf
  <2>2. d \in request[v].documents \ remaining'[v]
    BY <1>1, <1>2 DEF RequestsAreKnown
  <2>3. ASSUME NEW row \in source
        PROVE  /\ reply'[row.by] # "unsent"
               /\ row.question = request[row.by].question
               /\ row.document \in request[row.by].documents \ remaining'[row.by]
    BY <1>2, <2>3 DEF RowsWereSent, TypeOK, SourceRow
  <2> QED
    BY <1>1, <1>2, <2>1, <2>2, <2>3 DEF RowsWereSent
<1>7. DoneIsStored'
  BY <1>1, <1>2 DEF DoneIsStored, RowOf
<1> QED
  BY <1>4, <1>5, <1>6, <1>7

(* A call that fails, or that the process takes with it, is over, and what  *)
(* it has stored by then was on its list.                                   *)
LEMMA EndOfSaveKeepsInv ==
    ASSUME SourceInv, NEW v \in Saves, SaveFails(v) \/ SaveIsLost(v), StoreInv'
    PROVE  SourceInv'
<1> USE DEF SourceInv, storeVars
<1>1. /\ reply[v] = "pending"
      /\ remaining' = [remaining EXCEPT ![v] = {}]
      /\ \E r \in {"failed", "lost"} : reply' = [reply EXCEPT ![v] = r]
      /\ UNCHANGED <<storeVars, request>>
  BY DEF SaveFails, SaveIsLost
<1>2. /\ request[v] \in SaveRequest /\ remaining[v] \subseteq request[v].documents
      /\ remaining'[v] = {} /\ reply'[v] \in {"failed", "lost"}
      /\ \A w \in Saves \ {v} : remaining'[w] = remaining[w] /\ reply'[w] = reply[w]
  BY <1>1 DEF TypeOK, RequestsAreKnown
<1>3. ASSUME NEW row \in source' \ source
      PROVE  /\ row \in SourceRow /\ row.by = v
             /\ row.question = request[v].question
             /\ row.document \in request[v].documents
             /\ question[row.question] # Absent
  <2>1. PICK d \in remaining[v] : row = RowOf(v, d) /\ question[request[v].question] # Absent
    BY DEF SaveFails, SaveIsLost
  <2> QED
    BY <1>2, <2>1 DEF RowOf, SourceRow, SaveRequest, TypeOK
<1>4. source \subseteq source'
  BY DEF SaveFails, SaveIsLost
<1>5. TypeOK'
  <2>1. source' \subseteq SourceRow /\ \A row \in source' : question[row.question] # Absent
    BY <1>3 DEF TypeOK
  <2>2. remaining' \in [Saves -> SUBSET Documents] /\ reply' \in [Saves -> Replies]
    BY <1>1 DEF TypeOK, Replies
  <2> QED
    BY <1>1, <2>1, <2>2 DEF TypeOK, StoreInv
<1>6. RequestsAreKnown'
  BY <1>1, <1>2 DEF RequestsAreKnown
<1>7. RowsWereSent'
  <2>1. ASSUME NEW row \in source
        PROVE  /\ reply'[row.by] # "unsent"
               /\ row.question = request[row.by].question
               /\ row.document \in request[row.by].documents \ remaining'[row.by]
    BY <1>2, <2>1 DEF RowsWereSent, TypeOK, SourceRow
  <2> QED
    BY <1>1, <1>2, <1>3, <2>1 DEF RowsWereSent
<1>8. DoneIsStored'
  BY <1>1, <1>2, <1>4 DEF DoneIsStored, RowOf
<1> QED
  BY <1>5, <1>6, <1>7, <1>8

(* Every step keeps the invariant. *)
LEMMA SourceStep == SourceInv /\ [Next]_vars => SourceInv'
<1> SUFFICES ASSUME SourceInv, [Next]_vars PROVE SourceInv'
  OBVIOUS
<1>1. [StoreNext]_storeVars
  BY SavesKeepStore DEF Next, vars
<1>2. StoreInv'
  BY <1>1, StoreStep DEF SourceInv
<1>3. ASSUME NEW v \in Saves, SaveStep(v) PROVE SourceInv'
  BY <1>2, <1>3, SendKeepsInv, SaveOneKeepsInv, EndOfSaveKeepsInv DEF SaveStep
<1>4. CASE [StoreNext]_storeVars /\ UNCHANGED sourceVars
  <2>1. ASSUME NEW q \in Questions, question[q] # Absent PROVE question'[q] # Absent
    BY <1>4, <2>1, QuestionsKept DEF SourceInv, StoreInv, storeVars
  <2>2. TypeOK'
    BY <1>2, <1>4, <2>1 DEF SourceInv, StoreInv, TypeOK, SourceRow, sourceVars
  <2> QED
    BY <1>2, <1>4, <2>2 DEF SourceInv, sourceVars, RequestsAreKnown, RowsWereSent,
       DoneIsStored, RowOf
<1> QED
  BY <1>3, <1>4 DEF Next, vars

-----------------------------------------------------------------------------
(* The endpoints for the sources change nothing that those of the store     *)
(* rely on: every behaviour of both is one of the store.                    *)
THEOREM SourcesKeepTheStore == Spec => StoreSpec
<1>1. Init => StoreInit
  BY DEF Init
<1>2. [Next]_vars => [StoreNext]_storeVars
  BY SavesKeepStore DEF Next, vars
<1> QED
  BY <1>1, <1>2, PTL DEF Spec, StoreSpec

THEOREM SourceInvariant == Spec => []SourceInv
<1>1. Init => SourceInv
  BY SourceInitInv
<1>2. SourceInv /\ [Next]_vars => SourceInv'
  BY SourceStep
<1> QED
  BY <1>1, <1>2, PTL DEF Spec

(* Rows have their types, and every source is one of a question that is     *)
(* there: the foreign key holds although nobody asks for the question.      *)
THEOREM SourcesTypeCorrect == Spec => []TypeOK
BY SourceInvariant, PTL DEF SourceInv

(* What a caller was told of its list is what the prompts are made from,    *)
(* however many calls for the same question overlap, fail and are repeated. *)
THEOREM SourcesAreAsReplied == Spec => []SourcesAsReplied
<1>1. SourceInv => SourcesAsReplied
  <2> SUFFICES ASSUME SourceInv, NEW q \in Questions, NEW v \in Saves
               PROVE  LET found == {row.document : row \in {r \in SourcesOf(q) : r.by = v}}
                          meant == reply[v] # "unsent" /\ request[v].question = q
                      IN  /\ ~meant => found = {}
                          /\ meant => found \subseteq request[v].documents \ remaining[v]
                          /\ meant /\ reply[v] \in {"pending", "saved"} =>
                                  found = request[v].documents \ remaining[v]
                          /\ reply[v] = "saved" => remaining[v] = {}
    BY DEF SourcesAsReplied
  <2> DEFINE rows == {r \in SourcesOf(q) : r.by = v}
             meant == reply[v] # "unsent" /\ request[v].question = q
  <2>1. ASSUME NEW row \in rows
        PROVE  meant /\ row.document \in request[v].documents \ remaining[v]
    BY <2>1 DEF SourceInv, RowsWereSent, SourcesOf
  <2>2. ASSUME meant, reply[v] \in {"pending", "saved"},
               NEW d \in request[v].documents \ remaining[v]
        PROVE  \E row \in rows : row.document = d
    <3>1. RowOf(v, d) \in rows /\ RowOf(v, d).document = d
      BY <2>2 DEF SourceInv, DoneIsStored, SourcesOf, RowOf
    <3> QED
      BY <3>1
  <2>3. reply[v] = "saved" => remaining[v] = {}
    BY DEF SourceInv, RequestsAreKnown
  <2> QED
    BY <2>1, <2>2, <2>3
<1> QED
  BY <1>1, SourceInvariant, PTL

-----------------------------------------------------------------------------
(* The rows of versioned_answer of an answer are its earlier stages, the    *)
(* first of them the only one that is not marked as edited, and the row of  *)
(* the answer is its last stage.                                            *)
History(rows, row, stages) ==
    /\ rows \in Seq(AnswerRow) /\ row \in AnswerRow /\ stages \in Seq(Stage)
    /\ Len(stages) = Len(rows) + 1
    /\ \A i \in 1..Len(rows) :
            /\ StageOf(rows[i]) = stages[i]
            /\ rows[i].edited <=> i > 1
    /\ StageOf(row) = stages[Len(rows) + 1]
    /\ row.edited <=> Len(rows) > 0

(* What was shown is still a version: versions are only added. *)
ShownIsAVersion(a) ==
    shown[a] # Nothing => \E i \in 1..Len(versions[a]) : shown[a] = versions[a][i]

VersionsInv ==
    /\ VersionsTypeOK
    /\ \A a \in Answers : /\ History(versions[a], answer[a], past[a])
                          /\ ShownIsAVersion(a)

(* An answer as it was first stored. *)
LEMMA HistoryBegins ==
    ASSUME NEW row \in AnswerRow, ~row.edited
    PROVE  History(<<>>, row, <<StageOf(row)>>)
<1>1. StageOf(row) \in Stage
  BY DEF StageOf, AnswerRow, Stage
<1> DEFINE stage == StageOf(row)
<1> HIDE DEF stage
<1>2. /\ <<stage>> \in Seq(Stage) /\ Len(<<stage>>) = 1 /\ <<stage>>[1] = stage
  BY <1>1 DEF stage
<1> DEFINE rows == <<>>
<1>3. rows \in Seq(AnswerRow) /\ Len(rows) = 0
  OBVIOUS
<1> HIDE DEF rows
<1>4. \A i \in 1..Len(rows) : FALSE
  BY <1>3
<1> DEFINE stages == <<stage>>
<1>5. stages \in Seq(Stage) /\ Len(stages) = Len(rows) + 1
      /\ stages[Len(rows) + 1] = StageOf(row)
  BY <1>2, <1>3 DEF stage
<1> HIDE DEF stages
<1>6. History(rows, row, stages)
  BY <1>3, <1>4, <1>5 DEF History
<1> QED
  BY <1>6 DEF rows, stages, stage

(* Everything but its last member stays when that is replaced. *)
LEMMA LastReplaced ==
    ASSUME NEW S, NEW s \in Seq(S), Len(s) > 0, NEW e \in S
    PROVE  /\ Append(Front(s), e) \in Seq(S)
           /\ Len(Append(Front(s), e)) = Len(s)
           /\ \A i \in 1..(Len(s) - 1) : Append(Front(s), e)[i] = s[i]
           /\ Append(Front(s), e)[Len(s)] = e
<1>1. Len(s) \in Nat
  BY LenProperties
<1> DEFINE n == Len(s) - 1
           front == SubSeq(s, 1, n)
<1>2. 1 \in 1..Len(s) + 1 /\ n \in 1 - 1..Len(s) /\ n \in Nat
  BY <1>1
<1> HIDE DEF n
<1>3. /\ front \in Seq(S) /\ Len(front) = IF 1 <= n THEN n - 1 + 1 ELSE 0
      /\ \A i \in 1..n - 1 + 1 : front[i] = s[1 + i - 1]
  BY <1>2, SubSeqProperties
<1> HIDE DEF front
<1>4. Len(front) = n /\ \A i \in 1..n : front[i] = s[i]
  BY <1>2, <1>3
<1>5. /\ Append(front, e) \in Seq(S) /\ Len(Append(front, e)) = Len(front) + 1
      /\ \A i \in 1..Len(front) : Append(front, e)[i] = front[i]
      /\ Append(front, e)[Len(front) + 1] = e
  BY <1>3, AppendProperties
<1>6. Front(s) = front
  BY DEF Front, front, n
<1> QED
  BY <1>1, <1>4, <1>5, <1>6 DEF n

(* A rating changes the last stage, which no version tells of yet. *)
LEMMA RatingKeepsHistory ==
    ASSUME NEW rows, NEW row, NEW stages, History(rows, row, stages),
           NEW rating \in Ratings
    PROVE  History(rows, [row EXCEPT !.rating = rating],
                   Append(Front(stages), [Last(stages) EXCEPT !.rating = rating]))
<1> DEFINE stage == [Last(stages) EXCEPT !.rating = rating]
           rated == [row EXCEPT !.rating = rating]
           after == Append(Front(stages), stage)
<1>1. /\ rows \in Seq(AnswerRow) /\ row \in AnswerRow /\ stages \in Seq(Stage)
      /\ Len(stages) = Len(rows) + 1 /\ Len(rows) \in Nat
  BY DEF History
<1>2. Last(stages) = StageOf(row)
  BY <1>1 DEF History, Last
<1>3. stage \in Stage /\ stage = StageOf(rated)
  BY <1>1, <1>2 DEF StageOf, AnswerRow, Stage
<1>4. rated \in AnswerRow /\ rated.edited = row.edited
  BY <1>1 DEF AnswerRow
<1> HIDE DEF stage, rated
<1>5. /\ after \in Seq(Stage) /\ Len(after) = Len(stages)
      /\ \A i \in 1..(Len(stages) - 1) : after[i] = stages[i]
      /\ after[Len(stages)] = stage
  BY <1>1, <1>3, LastReplaced
<1> HIDE DEF after
<1>6. \A i \in 1..Len(rows) : StageOf(rows[i]) = after[i] /\ (rows[i].edited <=> i > 1)
  BY <1>1, <1>5 DEF History
<1>7. StageOf(rated) = after[Len(rows) + 1] /\ (rated.edited <=> Len(rows) > 0)
  BY <1>1, <1>3, <1>4, <1>5 DEF History
<1>8. History(rows, rated, after)
  BY <1>1, <1>4, <1>5, <1>6, <1>7 DEF History
<1> QED
  BY <1>8 DEF after, rated, stage

(* A new text: the row before it becomes the last version. *)
LEMMA NewTextKeepsHistory ==
    ASSUME NEW rows, NEW row, NEW stages, History(rows, row, stages),
           NEW content \in Contents
    PROVE  History(Append(rows, row),
                   [row EXCEPT !.content = content, !.rating = Unrated, !.edited = TRUE],
                   Append(stages, [content |-> content, rating |-> Unrated]))
<1> DEFINE stage == [content |-> content, rating |-> Unrated]
           new == [row EXCEPT !.content = content, !.rating = Unrated, !.edited = TRUE]
           more == Append(rows, row)
           after == Append(stages, stage)
<1>1. /\ rows \in Seq(AnswerRow) /\ row \in AnswerRow /\ stages \in Seq(Stage)
      /\ Len(stages) = Len(rows) + 1 /\ Len(rows) \in Nat
  BY DEF History
<1>2. stage \in Stage /\ new \in AnswerRow /\ new.edited /\ StageOf(new) = stage
  BY <1>1 DEF StageOf, AnswerRow, Stage
<1> HIDE DEF stage, new
<1>3. /\ more \in Seq(AnswerRow) /\ Len(more) = Len(rows) + 1
      /\ \A i \in 1..Len(rows) : more[i] = rows[i]
      /\ more[Len(rows) + 1] = row
  BY <1>1, AppendProperties
<1>4. /\ after \in Seq(Stage) /\ Len(after) = Len(stages) + 1
      /\ \A i \in 1..Len(stages) : after[i] = stages[i]
      /\ after[Len(stages) + 1] = stage
  BY <1>1, <1>2, AppendProperties
<1> HIDE DEF more, after
<1>5. ASSUME NEW i \in 1..Len(more)
      PROVE  StageOf(more[i]) = after[i] /\ (more[i].edited <=> i > 1)
  <2>1. CASE i \in 1..Len(rows)
    <3>1. more[i] = rows[i] /\ after[i] = stages[i]
      BY <2>1, <1>1, <1>3, <1>4
    <3> QED
      BY <2>1, <3>1 DEF History
  <2>2. CASE i = Len(rows) + 1
    <3>1. more[i] = row /\ after[i] = stages[Len(rows) + 1]
      BY <2>2, <1>1, <1>3, <1>4
    <3>2. i > 1 <=> Len(rows) > 0
      BY <2>2, <1>1
    <3> QED
      BY <3>1, <3>2 DEF History
  <2> QED
    BY <2>1, <2>2, <1>1, <1>3
<1>6. StageOf(new) = after[Len(more) + 1] /\ (new.edited <=> Len(more) > 0)
  BY <1>1, <1>2, <1>3, <1>4
<1>7. History(more, new, after)
  BY <1>1, <1>2, <1>3, <1>4, <1>5, <1>6 DEF History
<1> QED
  BY <1>7 DEF more, new, after, stage

LEMMA VersionsInitInv == VersionsInit => VersionsInv
<1> SUFFICES ASSUME VersionsInit PROVE VersionsInv
  OBVIOUS
<1>1. ASSUME NEW a \in Answers
      PROVE  /\ answer[a] \in AnswerRow /\ ~answer[a].edited
             /\ versions[a] = <<>> /\ past[a] = <<StageOf(answer[a])>>
             /\ shown[a] = Nothing
  BY DEF VersionsInit, AnswerRow
<1>2. \A a \in Answers : History(versions[a], answer[a], past[a])
  BY <1>1, HistoryBegins
<1>3. \A a \in Answers : ShownIsAVersion(a)
  BY <1>1 DEF ShownIsAVersion
<1>4. VersionsTypeOK
  <2>1. \A a \in Answers : versions[a] \in Seq(VersionRow) /\ past[a] \in Seq(Stage)
    BY <1>2 DEF History, VersionRow
  <2>2. /\ answer = [a \in Answers |-> answer[a]]
        /\ versions = [a \in Answers |-> versions[a]]
        /\ past = [a \in Answers |-> past[a]] /\ shown = [a \in Answers |-> shown[a]]
    BY DEF VersionsInit
  <2> QED
    BY <1>1, <2>1, <2>2 DEF VersionsTypeOK
<1> QED
  BY <1>2, <1>3, <1>4 DEF VersionsInv

LEMMA RateKeepsInv ==
    ASSUME VersionsInv, NEW a \in Answers, NEW rating \in Ratings, Rate(a, rating)
    PROVE  VersionsInv'
<1> DEFINE row == [answer[a] EXCEPT !.rating = rating]
           stages == Append(Front(past[a]), [Last(past[a]) EXCEPT !.rating = rating])
<1>1. /\ answer' = [answer EXCEPT ![a] = row]
      /\ past' = [past EXCEPT ![a] = stages]
      /\ UNCHANGED <<versions, shown>>
  BY DEF Rate
<1>2. History(versions[a], row, stages)
  BY RatingKeepsHistory DEF VersionsInv
<1> HIDE DEF row, stages
<1>3. row \in AnswerRow /\ stages \in Seq(Stage)
  BY <1>2 DEF History
<1>4. VersionsTypeOK'
  BY <1>1, <1>3 DEF VersionsInv, VersionsTypeOK
<1>5. ASSUME NEW b \in Answers
      PROVE  History(versions'[b], answer'[b], past'[b]) /\ ShownIsAVersion(b)'
  <2>1. History(versions'[b], answer'[b], past'[b])
    BY <1>1, <1>2 DEF VersionsInv, VersionsTypeOK
  <2>2. ShownIsAVersion(b)'
    BY <1>1 DEF VersionsInv, ShownIsAVersion
  <2> QED
    BY <2>1, <2>2
<1>6. \A b \in Answers : History(versions[b], answer[b], past[b])'
  BY <1>5 DEF History, StageOf
<1> QED
  BY <1>4, <1>5, <1>6 DEF VersionsInv

LEMMA ReplaceKeepsInv ==
    ASSUME VersionsInv, NEW a \in Answers, NEW content \in Contents, Replace(a, content)
    PROVE  VersionsInv'
<1> DEFINE row == [answer[a] EXCEPT !.content = content, !.rating = Unrated,
                                    !.edited = TRUE]
           rows == Append(versions[a], answer[a])
           stages == Append(past[a], [content |-> content, rating |-> Unrated])
<1>1. /\ answer' = [answer EXCEPT ![a] = row]
      /\ versions' = [versions EXCEPT ![a] = rows]
      /\ past' = [past EXCEPT ![a] = stages]
      /\ shown' = shown
  BY DEF Replace
<1>2. History(rows, row, stages)
  BY NewTextKeepsHistory DEF VersionsInv
<1>3. /\ Len(versions[a]) \in Nat /\ Len(rows) = Len(versions[a]) + 1
      /\ \A i \in 1..Len(versions[a]) : rows[i] = versions[a][i]
  <2>1. versions[a] \in Seq(AnswerRow) /\ answer[a] \in AnswerRow
    BY DEF VersionsInv, History
  <2> QED
    BY <2>1, AppendProperties, LenProperties
<1> HIDE DEF row, rows, stages
<1>4. row \in AnswerRow /\ stages \in Seq(Stage) /\ rows \in Seq(VersionRow)
  BY <1>2 DEF History, VersionRow
<1>5. VersionsTypeOK'
  BY <1>1, <1>4 DEF VersionsInv, VersionsTypeOK
<1>6. ASSUME NEW b \in Answers
      PROVE  History(versions'[b], answer'[b], past'[b]) /\ ShownIsAVersion(b)'
  <2>1. CASE b # a
    <3>1. /\ versions'[b] = versions[b] /\ answer'[b] = answer[b]
          /\ past'[b] = past[b] /\ shown'[b] = shown[b]
      BY <1>1, <2>1 DEF VersionsInv, VersionsTypeOK
    <3> QED
      BY <3>1 DEF VersionsInv, ShownIsAVersion
  <2>2. CASE b = a
    <3>1. versions'[a] = rows /\ answer'[a] = row /\ past'[a] = stages
          /\ shown'[a] = shown[a]
      BY <1>1 DEF VersionsInv, VersionsTypeOK
    <3>2. ShownIsAVersion(a)'
      BY <3>1, <1>3 DEF VersionsInv, ShownIsAVersion
    <3> QED
      BY <1>2, <2>2, <3>1, <3>2
  <2> QED
    BY <2>1, <2>2
<1>7. \A b \in Answers : History(versions[b], answer[b], past[b])'
  BY <1>6 DEF History, StageOf
<1> QED
  BY <1>5, <1>6, <1>7 DEF VersionsInv

(* What is shown is one of the rows of versioned_answer. *)
LEMMA ShowLatestKeepsInv ==
    ASSUME VersionsInv, NEW a \in Answers, ShowLatest(a)
    PROVE  VersionsInv'
<1>1. PICK row \in Latest(a) : shown' = [shown EXCEPT ![a] = row]
  BY DEF ShowLatest
<1>2. UNCHANGED <<answer, versions, past>>
  BY DEF ShowLatest
<1>3. versions[a] \in Seq(VersionRow)
  BY DEF VersionsInv, VersionsTypeOK
<1>4. PICK i \in 1..Len(versions[a]) : row = versions[a][i]
  BY <1>3 DEF Latest, NewestOf, ToSet
<1>5. row \in VersionRow
  BY <1>3, <1>4, ElementOfSeq
<1>6. VersionsTypeOK'
  BY <1>1, <1>2, <1>5 DEF VersionsInv, VersionsTypeOK
<1>7. \A b \in Answers : ShownIsAVersion(b)'
  BY <1>1, <1>2, <1>4 DEF VersionsInv, VersionsTypeOK, ShownIsAVersion
<1>8. \A b \in Answers : History(versions[b], answer[b], past[b])'
  BY <1>2 DEF VersionsInv, History, StageOf
<1> QED
  BY <1>6, <1>7, <1>8 DEF VersionsInv

(* The history of every answer, for any number of answers and versions.     *)
THEOREM VersionsInvariant == VersionsSpec => []VersionsInv
<1>1. VersionsInv /\ [VersionsNext]_versionsVars => VersionsInv'
  <2> SUFFICES ASSUME VersionsInv, [VersionsNext]_versionsVars PROVE VersionsInv'
    OBVIOUS
  <2>1. ASSUME NEW a \in Answers, NEW rating \in Ratings, Rate(a, rating)
        PROVE  VersionsInv'
    BY <2>1, RateKeepsInv
  <2>2. ASSUME NEW a \in Answers, NEW content \in Contents, Replace(a, content)
        PROVE  VersionsInv'
    BY <2>2, ReplaceKeepsInv
  <2>3. ASSUME NEW a \in Answers, ShowLatest(a)
        PROVE  VersionsInv'
    BY <2>3, ShowLatestKeepsInv
  <2>4. CASE UNCHANGED versionsVars
    BY <2>4 DEF versionsVars, VersionsInv, VersionsTypeOK, History, ShownIsAVersion,
       StageOf
  <2> QED
    BY <2>1, <2>2, <2>3, <2>4 DEF VersionsNext
<1> QED
  BY <1>1, VersionsInitInv, PTL DEF VersionsSpec

(* Rows, versions and histories have their types. *)
THEOREM VersionsTypeCorrect == VersionsSpec => []VersionsTypeOK
BY VersionsInvariant, PTL DEF VersionsInv

(* No text or rating of an answer is lost or told of another text, and what *)
(* is shown as its latest version is one of its earlier stages.             *)
THEOREM HistoriesAreComplete == VersionsSpec => []NothingIsForgotten
<1>1. VersionsInv => NothingIsForgotten
  <2> SUFFICES ASSUME VersionsInv, NEW a \in Answers
               PROVE  LET rows == versions[a] \o <<answer[a]>>
                      IN  /\ [i \in DOMAIN rows |-> StageOf(rows[i])] = past[a]
                          /\ \A i \in DOMAIN rows : rows[i].edited <=> i > 1
                          /\ shown[a] # Nothing =>
                                StageOf(shown[a]) \in ToSet(Front(past[a]))
    BY DEF NothingIsForgotten
  <2> DEFINE rows == versions[a] \o <<answer[a]>>
             n == Len(versions[a])
  <2>1. History(versions[a], answer[a], past[a])
    BY DEF VersionsInv
  <2>2. /\ versions[a] \in Seq(AnswerRow) /\ answer[a] \in AnswerRow
        /\ past[a] \in Seq(Stage) /\ n \in Nat /\ Len(past[a]) = n + 1
    BY <2>1, LenProperties DEF History
  <2>3. /\ DOMAIN rows = 1..(n + 1)
        /\ \A i \in 1..n : rows[i] = versions[a][i]
        /\ rows[n + 1] = answer[a]
    <3>1. <<answer[a]>> \in Seq(AnswerRow) /\ Len(<<answer[a]>>) = 1
          /\ <<answer[a]>>[1] = answer[a]
      BY <2>2
    <3>2. /\ rows \in Seq(AnswerRow) /\ Len(rows) = n + 1
          /\ \A i \in 1..n + 1 :
                rows[i] = IF i <= n THEN versions[a][i] ELSE <<answer[a]>>[i - n]
      BY <2>2, <3>1, ConcatProperties
    <3> DEFINE single == <<answer[a]>>
    <3> HIDE DEF rows, n, single
    <3>3. DOMAIN rows = 1..(n + 1)
      BY <3>2, LenProperties
    <3>4. single[1] = answer[a]
      BY <3>1 DEF single
    <3>5. \A i \in 1..n + 1 : rows[i] = IF i <= n THEN versions[a][i] ELSE single[i - n]
      BY <3>2 DEF single
    <3> QED
      BY <2>2, <3>3, <3>4, <3>5
  <2> HIDE DEF rows, n
  <2>4. ASSUME NEW i \in 1..(n + 1)
        PROVE  StageOf(rows[i]) = past[a][i] /\ (rows[i].edited <=> i > 1)
    <3>1. CASE i \in 1..n
      BY <2>1, <2>3, <3>1 DEF History, n
    <3>2. CASE i = n + 1
      <4>1. i > 1 <=> n > 0
        BY <2>2, <3>2
      <4> QED
        BY <2>1, <2>3, <3>2, <4>1 DEF History, n
    <3> QED
      BY <2>2, <3>1, <3>2
  <2>5. [i \in DOMAIN rows |-> StageOf(rows[i])] = past[a]
    <3>1. past[a] = [i \in 1..(n + 1) |-> past[a][i]]
      BY <2>2, LenProperties
    <3> QED
      BY <2>3, <2>4, <3>1
  <2>6. ASSUME shown[a] # Nothing
        PROVE  StageOf(shown[a]) \in ToSet(Front(past[a]))
    <3>1. PICK i \in 1..n : shown[a] = versions[a][i]
      BY <2>6 DEF VersionsInv, ShownIsAVersion, n
    <3>2. StageOf(shown[a]) = past[a][i]
      BY <2>1, <3>1 DEF History, n
    <3>3. /\ SubSeq(past[a], 1, n) \in Seq(Stage) /\ Len(SubSeq(past[a], 1, n)) = n
          /\ SubSeq(past[a], 1, n)[i] = past[a][i]
      BY <2>2, <3>1, SubSeqProperties
    <3>4. DOMAIN SubSeq(past[a], 1, n) = 1..n
      BY <3>3, LenProperties
    <3>5. Front(past[a]) = SubSeq(past[a], 1, n)
      BY <2>2 DEF Front
    <3> QED
      BY <3>1, <3>2, <3>3, <3>4, <3>5 DEF ToSet
  <2> QED
    BY <2>3, <2>4, <2>5, <2>6 DEF rows
<1> QED
  BY <1>1, VersionsInvariant, PTL
=============================================================================
