----------------------- MODULE AnswerGenerationProofs -----------------------
(***************************************************************************)
(* Proofs about AnswerGeneration: its invariant, the safety properties     *)
(* that follow from it, and that it implements AnswerLedger.               *)
(*                                                                         *)
(* The properties of the tables are not inductive by themselves: what ties *)
(* a row to the request that wrote it is the id the handler has in hand    *)
(* (written), so the invariant says what that id is worth at every step.   *)
(***************************************************************************)
EXTENDS AnswerGeneration, ConversationStoreProofs

(* The id in hand is that of a row written for this request. *)
InHand ==
    \A r \in Requests :
        written[r] # Absent => answer[written[r]] = [question |-> target[r], by |-> r]

(* Every row is in the hand of the request that wrote it. *)
RowsInHand ==
    \A a \in Answers : answer[a] # Absent => written[answer[a].by] = a

(* Nothing is in hand before the insert; between the commits a row without  *)
(* analytics is.                                                            *)
HandBySteps ==
    \A r \in Requests :
        /\ pc[r] \notin {"analytics", "end"} => written[r] = Absent
        /\ pc[r] = "analytics" => written[r] # Absent /\ written[r] \notin analytics

(* What a request was told says what became of its row. *)
ToldBySteps ==
    \A r \in Requests :
        /\ pc[r] = "end" <=> told[r] # "nothing"
        /\ told[r] = "done" => written[r] \in analytics
        /\ told[r] \in {"done", "left", "shown"} /\ written[r] # Absent =>
                written[r] \in analytics

(* Analytics are only written for rows that exist. *)
AnalyticsOfRows == \A a \in analytics : answer[a] # Absent

(* The steps of the SQL chain that come after its source was saved; a       *)
(* command is shown after them as well.                                     *)
AfterSource == {"explain", "open", "chunks", "check", "insert", "analytics"}

SourceFirst ==
    \A r \in Requests :
        /\ kind[r] \in SqlKinds /\ (pc[r] \in AfterSource \/ written[r] # Absent) =>
                r \in sqlSource
        /\ told[r] = "shown" => r \in sqlSource

(* A request that was sent is about a question in the table. *)
AskedAboutQuestions ==
    \A r \in Requests :
        pc[r] # "idle" => target[r] \in Questions /\ question[target[r]] # Absent

(* A late request never gets past reading the conversation, unless it is    *)
(* for the SQL chain.                                                       *)
LateStopsEarly ==
    \A r \in late :
        /\ pc[r] # "idle"
        /\ Deleted(question[target[r]].conversation)
        /\ kind[r] \notin SqlKinds =>
                pc[r] \in {"prepare", "end"} /\ written[r] = Absent

Inv ==
    /\ StoreInv
    /\ AnswerTypeOK
    /\ InHand
    /\ RowsInHand
    /\ HandBySteps
    /\ ToldBySteps
    /\ AnalyticsOfRows
    /\ SourceFirst
    /\ AskedAboutQuestions
    /\ LateStopsEarly

-----------------------------------------------------------------------------
(* A step that touches no row of answer or answer_analytics: the handler of *)
(* r goes on to another step, or its request ends without an answer.        *)
ControlStep(r) ==
    /\ pc[r] \in Steps \ {"analytics"}
    /\ \/ \E step \in Steps \ {"analytics"} :
            /\ Goto(r, step)
            /\ kind[r] \in SqlKinds /\ step \in AfterSource => r \in sqlSource'
            /\ kind[r] \notin SqlKinds => r \notin late
       \/ \E ending \in {"error", "cut", "left", "shown"} :
            /\ End(r, ending)
            /\ ending = "shown" => r \in sqlSource'
    /\ sqlSource' \in {sqlSource, sqlSource \cup {r}}
    /\ chunks' \in [Requests -> 0..MaxChunks]
    /\ UNCHANGED <<storeVars, requestVars, answer, analytics, written>>

(* No answer row is Absent. *)
LEMMA AnswerRowsArePresent == \A row \in AnswerRow : row # Absent
BY AnswerAssumption DEF AnswerRow

(* A request that has got beyond reading the conversation is not late,      *)
(* unless it is for the SQL chain.                                          *)
LEMMA NotLate ==
    ASSUME Inv, NEW r \in Requests, pc[r] \in Steps, pc[r] # "prepare",
           kind[r] \notin SqlKinds
    PROVE  r \notin late
BY DEF Inv, LateStopsEarly, Steps, Awaiting, Blocking

(* All steps of a handler but the last two are such steps; so is a failing  *)
(* insert.                                                                  *)
LEMMA ServerStepsAreControlSteps ==
    ASSUME Inv, NEW r \in Requests, ServerStep(r)
    PROVE  \/ ControlStep(r)
           \/ InsertAnswer(r) /\ pc'[r] = "analytics"
           \/ InsertAnalytics(r)
<1> USE DEF Inv, AnswerTypeOK, Kinds, LoopKinds, StreamKinds, SqlKinds, Depths,
        Steps, Awaiting, Blocking, AfterSource, ControlStep
<1>1. CASE Abandon(r)
  BY <1>1 DEF Abandon, End, tableVars
<1>2. CASE Prepare(r)
  <2>1. pc[r] = "prepare" /\ chunks' = chunks /\ sqlSource' = sqlSource
        /\ UNCHANGED <<storeVars, requestVars, answer, analytics, written>>
    BY <1>2 DEF Prepare, tableVars
  <2>2. CASE kind[r] \in SqlKinds
    BY <1>2, <2>1, <2>2 DEF Prepare, End, Goto
  <2>3. CASE kind[r] \notin SqlKinds /\ Goto(r, "model")
            /\ ~Deleted(question[target[r]].conversation)
    BY <2>1, <2>3 DEF LateStopsEarly
  <2>4. CASE kind[r] \notin SqlKinds /\ End(r, Uncaught(r))
    BY <2>1, <2>4 DEF Uncaught
  <2> QED
    BY <1>2, <2>2, <2>3, <2>4 DEF Prepare
<1>3. CASE ReceiveDdl(r)
  BY <1>3, NotLate DEF ReceiveDdl, End, Goto, Uncaught, tableVars
<1>4. CASE ModelReplies(r)
  <2>1. AfterModel(r) \in {"insert", "open", "savesql", "execute"}
        /\ (kind[r] \in SqlKinds => AfterModel(r) \in {"savesql", "execute"})
    BY DEF AfterModel
  <2>2. pc[r] = "model" /\ chunks' = chunks /\ sqlSource' = sqlSource
        /\ UNCHANGED <<storeVars, requestVars, answer, analytics, written>>
    BY <1>4 DEF ModelReplies, tableVars
  <2>3. CASE Goto(r, AfterModel(r))
    BY <2>1, <2>2, <2>3, NotLate
  <2>4. CASE End(r, "error") \/ End(r, Uncaught(r))
    BY <2>2, <2>4 DEF Uncaught
  <2> QED
    BY <1>4, <2>3, <2>4 DEF ModelReplies
<1>5. CASE ExecuteSql(r)
  BY <1>5, NotLate DEF ExecuteSql, End, Goto, tableVars
<1>6. CASE SaveSqlSource(r)
  <2>1. pc[r] = "savesql" /\ chunks' = chunks
        /\ UNCHANGED <<storeVars, requestVars, answer, analytics, written>>
    BY <1>6 DEF SaveSqlSource
  <2>2. CASE sqlSource' = sqlSource \cup {r} /\ (AfterSaving(r) \/ End(r, Uncaught(r)))
    <3>1. \/ End(r, "shown")
          \/ End(r, "error") \/ End(r, "cut")
          \/ Goto(r, "explain")
          \/ Goto(r, "insert")
      BY <2>2 DEF AfterSaving, Uncaught
    <3> QED
      BY <2>1, <2>2, <3>1, NotLate
  <2>3. CASE End(r, Uncaught(r)) /\ UNCHANGED sqlSource
    BY <2>1, <2>3 DEF Uncaught
  <2> QED
    BY <1>6, <2>2, <2>3 DEF SaveSqlSource
<1>7. CASE OpenExplanation(r)
  BY <1>7, NotLate DEF OpenExplanation, End, Goto, tableVars, SourceFirst
<1>8. CASE StartStream(r)
  BY <1>8, NotLate DEF StartStream, End, Goto, tableVars, SourceFirst
<1>9. CASE ReceiveChunk(r)
  BY <1>9, NotLate DEF ReceiveChunk, End, Goto, tableVars, SourceFirst
<1>10. CASE ForwardChunk(r)
  <2>1. chunks' \in [Requests -> 0..MaxChunks]
    BY <1>10, AnswerAssumption DEF ForwardChunk
  <2> QED
    BY <1>10, <2>1, NotLate DEF ForwardChunk, Goto, tableVars, SourceFirst
<1>11. CASE ReceiveLastChunk(r)
  BY <1>11, NotLate DEF ReceiveLastChunk, End, Goto, tableVars, SourceFirst
<1>12. CASE InsertAnswer(r)
  <2>1. pc[r] = "insert" /\ chunks' = chunks /\ sqlSource' = sqlSource
        /\ UNCHANGED <<storeVars, requestVars, analytics>>
    BY <1>12 DEF InsertAnswer
  <2>2. CASE End(r, SavingFailed(r)) /\ UNCHANGED <<answer, written>>
    BY <2>1, <2>2 DEF SavingFailed
  <2>3. CASE Goto(r, "analytics")
    BY <1>12, <2>3 DEF Goto
  <2> QED
    BY <1>12, <2>2, <2>3 DEF InsertAnswer
<1>13. CASE InsertAnalytics(r)
  BY <1>13
<1> QED
  BY <1>1, <1>2, <1>3, <1>4, <1>5, <1>6, <1>7, <1>8, <1>9, <1>10, <1>11, <1>12,
     <1>13 DEF ServerStep

(* Inv holds of the empty tables. *)
LEMMA InitInv == Init => Inv
<1> SUFFICES ASSUME Init PROVE Inv
  OBVIOUS
<1>1. StoreInv
  BY StoreInitInv DEF Init
<1>2. AnswerTypeOK
  BY AnswerAssumption DEF Init, AnswerTypeOK
<1> QED
  BY <1>1, <1>2 DEF Init, Inv, InHand, RowsInHand, HandBySteps, ToldBySteps,
     AnalyticsOfRows, SourceFirst, AskedAboutQuestions, LateStopsEarly, AfterSource

(* The invariant of the tables of the store is about those tables only. *)
LEMMA StoreUnchanged ==
    ASSUME StoreInv, UNCHANGED storeVars
    PROVE  StoreInv'
BY StoreStep

LEMMA ControlStepKeepsInv ==
    ASSUME Inv, NEW r \in Requests, ControlStep(r)
    PROVE  Inv'
<1> USE DEF Inv, ControlStep, requestVars
<1>1. StoreInv'
  BY StoreUnchanged
<1>2. pc[r] \in Steps /\ pc[r] \notin {"idle", "end", "analytics"}
      /\ told[r] = "nothing" /\ written[r] = Absent
  <2>1. pc[r] \in Steps /\ pc[r] \notin {"idle", "end", "analytics"}
    BY DEF Steps, Awaiting, Blocking
  <2> QED
    BY <2>1 DEF HandBySteps, ToldBySteps
<1>3. /\ \A s \in Requests \ {r} : pc'[s] = pc[s] /\ told'[s] = told[s]
      /\ \/ pc'[r] \in Steps \ {"analytics"} /\ told'[r] = "nothing"
         \/ /\ pc'[r] = "end"
            /\ told'[r] \in {"error", "cut", "left", "shown"}
            /\ told'[r] = "shown" => r \in sqlSource'
  BY <1>2 DEF Goto, End, AnswerTypeOK
<1>4. pc'[r] # "idle" /\ (pc'[r] \in Steps => pc'[r] # "end")
  BY <1>3 DEF Steps, Awaiting, Blocking
<1>5. AnswerTypeOK'
  <2>1. pc' \in [Requests -> Steps \cup {"idle", "end"}]
    BY DEF Goto, End, AnswerTypeOK
  <2>2. told' \in [Requests -> Endings \cup {"nothing"}]
    BY DEF Goto, End, AnswerTypeOK, Endings
  <2> QED
    BY <2>1, <2>2 DEF AnswerTypeOK
<1>6. InHand' /\ RowsInHand' /\ AnalyticsOfRows'
  BY DEF InHand, RowsInHand, AnalyticsOfRows
<1>7. HandBySteps'
  BY <1>2, <1>3, <1>4 DEF HandBySteps
<1>8. ToldBySteps'
  BY <1>2, <1>3, <1>4 DEF ToldBySteps
<1>9. SourceFirst'
  <2>1. kind[r] \in SqlKinds /\ pc'[r] \in AfterSource => r \in sqlSource'
    BY <1>2 DEF Goto, End, AnswerTypeOK, AfterSource
  <2> QED
    BY <1>2, <1>3, <2>1 DEF SourceFirst
<1>10. AskedAboutQuestions'
  BY <1>2, <1>3 DEF AskedAboutQuestions, storeVars
<1>11. LateStopsEarly'
  <2>1. r \in late /\ kind[r] \notin SqlKinds => pc'[r] = "end"
    BY DEF Goto, End, AnswerTypeOK
  <2> QED
    BY <1>2, <1>3, <1>4, <2>1 DEF LateStopsEarly, AnswerTypeOK, storeVars, Deleted, Exists
<1> QED
  BY <1>1, <1>5, <1>6, <1>7, <1>8, <1>9, <1>10, <1>11

(* Two requests never have the same row in hand. *)
LEMMA RowsOfHands ==
    ASSUME Inv, NEW r \in Requests, written[r] # Absent
    PROVE  /\ written[r] \in Answers
           /\ answer[written[r]] # Absent
           /\ answer[written[r]].by = r
           /\ answer[written[r]].question = target[r]
<1> USE DEF Inv
<1>1. pc[r] # "idle"
  BY DEF HandBySteps
<1>2. [question |-> target[r], by |-> r] \in AnswerRow
  BY <1>1 DEF AskedAboutQuestions, AnswerRow
<1> QED
  BY <1>2, AnswerRowsArePresent DEF InHand, AnswerTypeOK

LEMMA InsertAnswerKeepsInv ==
    ASSUME Inv, NEW r \in Requests, InsertAnswer(r), pc'[r] = "analytics"
    PROVE  Inv'
<1> USE DEF Inv, requestVars
<1>1. PICK a \in Answers :
        /\ answer[a] = Absent
        /\ answer' = [answer EXCEPT ![a] = [question |-> target[r], by |-> r]]
        /\ written' = [written EXCEPT ![r] = a]
        /\ Goto(r, "analytics")
  BY DEF InsertAnswer, End, AnswerTypeOK
<1>2. pc[r] = "insert" /\ UNCHANGED <<storeVars, requestVars, analytics, sqlSource, chunks>>
  BY DEF InsertAnswer
<1>3. written[r] = Absent /\ told[r] = "nothing" /\ told' = told
  BY <1>1, <1>2 DEF HandBySteps, ToldBySteps, Goto
<1>4. pc' = [pc EXCEPT ![r] = "analytics"]
  BY <1>1 DEF Goto
<1>5. target[r] \in Questions /\ a # Absent /\ a \notin analytics
  BY <1>1, <1>2, AnswerAssumption DEF AskedAboutQuestions, AnalyticsOfRows
<1> DEFINE row == [question |-> target[r], by |-> r]
<1>6. row \in AnswerRow /\ row # Absent /\ row.by = r
  BY <1>5, AnswerRowsArePresent DEF AnswerRow
<1>7. answer' = [answer EXCEPT ![a] = row] /\ written' = [written EXCEPT ![r] = a]
  BY <1>1
<1> HIDE DEF row
<1>8. StoreInv'
  BY <1>2, StoreUnchanged
<1>9. AnswerTypeOK'
  BY <1>2, <1>3, <1>4, <1>6, <1>7 DEF AnswerTypeOK, Steps, Blocking
<1>10. \A s \in Requests \ {r} : written[s] # Absent => written[s] # a
  BY <1>1, RowsOfHands
<1>11. InHand'
  <2>1. answer'[a] = [question |-> target'[r], by |-> r]
    BY <1>2, <1>7 DEF row, AnswerTypeOK
  <2>2. ASSUME NEW s \in Requests, s # r, written'[s] # Absent
        PROVE  answer'[written'[s]] = [question |-> target'[s], by |-> s]
    <3>1. written'[s] = written[s] /\ written[s] # a /\ target'[s] = target[s]
      BY <1>2, <1>7, <1>10, <2>2 DEF AnswerTypeOK
    <3>2. answer'[written[s]] = answer[written[s]]
      BY <1>7, <3>1, <2>2 DEF AnswerTypeOK
    <3> QED
      BY <2>2, <3>1, <3>2 DEF InHand
  <2>3. written'[r] = a
    BY <1>7 DEF AnswerTypeOK
  <2> QED
    BY <2>1, <2>2, <2>3 DEF InHand
<1>12. RowsInHand'
  <2>1. ASSUME NEW b \in Answers, b # a, answer[b] # Absent
        PROVE  written'[answer[b].by] = b
    BY <1>3, <1>7, <2>1, AnswerAssumption DEF RowsInHand, AnswerTypeOK, AnswerRow
  <2> QED
    BY <1>6, <1>7, <2>1 DEF RowsInHand, AnswerTypeOK
<1>13. HandBySteps'
  BY <1>2, <1>4, <1>5, <1>7 DEF HandBySteps, AnswerTypeOK
<1>14. ToldBySteps'
  BY <1>2, <1>3, <1>4, <1>7 DEF ToldBySteps, AnswerTypeOK
<1>15. AnalyticsOfRows'
  BY <1>2, <1>5, <1>6, <1>7 DEF AnalyticsOfRows, AnswerTypeOK
<1>16. SourceFirst'
  BY <1>2, <1>3, <1>4, <1>7 DEF SourceFirst, AnswerTypeOK, AfterSource
<1>17. AskedAboutQuestions'
  BY <1>2, <1>4 DEF AskedAboutQuestions, storeVars, AnswerTypeOK
<1>18. LateStopsEarly'
  BY <1>2, <1>4, <1>7 DEF LateStopsEarly, storeVars, Deleted, Exists, AnswerTypeOK
<1> QED
  BY <1>8, <1>9, <1>11, <1>12, <1>13, <1>14, <1>15, <1>16, <1>17, <1>18

LEMMA InsertAnalyticsKeepsInv ==
    ASSUME Inv, NEW r \in Requests, InsertAnalytics(r)
    PROVE  Inv'
<1> USE DEF Inv, requestVars
<1>1. pc[r] = "analytics" /\ UNCHANGED <<storeVars, requestVars, answer, sqlSource, chunks, written>>
  BY DEF InsertAnalytics
<1>2. written[r] \in Answers /\ written[r] # Absent /\ answer[written[r]] # Absent
  BY <1>1, RowsOfHands DEF HandBySteps
<1>3. PICK ending \in {"done", "left", "error", "cut"} :
        /\ End(r, ending)
        /\ \/ analytics' = analytics \cup {written[r]}
           \/ ending \notin {"done", "left"} /\ analytics' = analytics
  BY DEF InsertAnalytics, SavingFailed
<1>4. /\ pc' = [pc EXCEPT ![r] = "end"]
      /\ told' = [told EXCEPT ![r] = ending]
      /\ analytics \subseteq analytics' /\ analytics' \subseteq analytics \cup {written[r]}
  BY <1>3 DEF End
<1>5. StoreInv'
  BY <1>1, StoreUnchanged
<1>6. AnswerTypeOK'
  BY <1>1, <1>2, <1>3, <1>4 DEF AnswerTypeOK, Endings
<1>7. InHand' /\ RowsInHand' /\ AnalyticsOfRows'
  BY <1>1, <1>2, <1>4 DEF InHand, RowsInHand, AnalyticsOfRows
<1>8. \A s \in Requests \ {r} : written[s] # Absent => written[s] # written[r]
  BY <1>2, RowsOfHands
<1>9. HandBySteps'
  BY <1>1, <1>4, <1>8 DEF HandBySteps, AnswerTypeOK
<1>10. ToldBySteps'
  BY <1>1, <1>3, <1>4 DEF ToldBySteps, AnswerTypeOK
<1>11. SourceFirst'
  BY <1>1, <1>3, <1>4 DEF SourceFirst, AnswerTypeOK, AfterSource
<1>12. AskedAboutQuestions'
  BY <1>1, <1>4 DEF AskedAboutQuestions, storeVars, AnswerTypeOK
<1>13. LateStopsEarly'
  BY <1>1, <1>4 DEF LateStopsEarly, storeVars, Deleted, Exists, AnswerTypeOK
<1> QED
  BY <1>5, <1>6, <1>7, <1>9, <1>10, <1>11, <1>12, <1>13

-----------------------------------------------------------------------------
(* Clients, crashes and the other handlers. *)

LEMMA AskKeepsInv ==
    ASSUME Inv, NEW r \in Requests, NEW q \in Questions, Ask(r, q)
    PROVE  Inv'
<1> USE DEF Inv
<1>1. /\ pc[r] = "idle" /\ question[q] # Absent
      /\ target' = [target EXCEPT ![r] = q]
      /\ connected' = connected \cup {r}
      /\ late' = IF Deleted(question[q].conversation) THEN late \cup {r} ELSE late
      /\ pc' = [pc EXCEPT ![r] = "prepare"]
      /\ UNCHANGED <<storeVars, tableVars, kind, chunks, written, told>>
  BY DEF Ask, Goto
<1>2. written[r] = Absent
  BY <1>1 DEF HandBySteps
<1>3. StoreInv'
  BY <1>1, StoreUnchanged
<1>4. AnswerTypeOK'
  BY <1>1 DEF AnswerTypeOK, tableVars, Steps, Awaiting
<1>5. InHand'
  BY <1>1, <1>2 DEF InHand, tableVars, AnswerTypeOK
<1>6. RowsInHand' /\ AnalyticsOfRows'
  BY <1>1 DEF RowsInHand, AnalyticsOfRows, tableVars
<1>7. HandBySteps' /\ ToldBySteps'
  BY <1>1, <1>2 DEF HandBySteps, ToldBySteps, tableVars, AnswerTypeOK
<1>8. SourceFirst'
  BY <1>1, <1>2 DEF SourceFirst, AfterSource, tableVars, AnswerTypeOK
<1>9. AskedAboutQuestions'
  BY <1>1 DEF AskedAboutQuestions, AnswerTypeOK, storeVars
<1>10. LateStopsEarly'
  BY <1>1, <1>2 DEF LateStopsEarly, AnswerTypeOK, storeVars, Deleted, Exists
<1> QED
  BY <1>3, <1>4, <1>5, <1>6, <1>7, <1>8, <1>9, <1>10

LEMMA DisconnectKeepsInv ==
    ASSUME Inv, NEW r \in Requests, Disconnect(r)
    PROVE  Inv'
<1> USE DEF Inv, Disconnect, tableVars
<1>1. StoreInv'
  BY StoreUnchanged
<1> QED
  BY <1>1 DEF AnswerTypeOK, InHand, RowsInHand, HandBySteps, ToldBySteps,
     AnalyticsOfRows, SourceFirst, AskedAboutQuestions, LateStopsEarly, storeVars,
     Deleted, Exists

LEMMA CrashKeepsInv ==
    ASSUME Inv, Crash
    PROVE  Inv'
<1> USE DEF Inv, requestVars, tableVars
<1>1. /\ pc' = [r \in Requests |-> IF pc[r] \in Steps THEN "end" ELSE pc[r]]
      /\ told' = [r \in Requests |-> IF pc[r] \in Steps THEN "lost" ELSE told[r]]
      /\ editing' = [s \in Sessions |-> Absent]
      /\ UNCHANGED <<conversation, question, requestVars, tableVars, chunks, written>>
  BY DEF Crash
<1>2. \A r \in Requests : pc[r] \notin Steps => pc[r] \in {"idle", "end"}
  BY DEF AnswerTypeOK
<1>3. "idle" \notin Steps /\ "end" \notin Steps /\ "prepare" \in Steps
      /\ AfterSource \subseteq Steps /\ "analytics" \in Steps
  BY DEF Steps, Awaiting, Blocking, AfterSource
<1>4. StoreInv'
  BY <1>1 DEF StoreInv, StoreTypeOK, EditsExist, QuestionsOwned, MayAsk, Exists
<1>5. AnswerTypeOK'
  BY <1>1, <1>2 DEF AnswerTypeOK, Endings
<1>6. InHand' /\ RowsInHand' /\ AnalyticsOfRows'
  BY <1>1 DEF InHand, RowsInHand, AnalyticsOfRows
<1>7. HandBySteps'
  BY <1>1, <1>2, <1>3 DEF HandBySteps
<1>8. ToldBySteps'
  BY <1>1, <1>2, <1>3 DEF ToldBySteps
<1>9. SourceFirst'
  BY <1>1, <1>2, <1>3 DEF SourceFirst
<1>10. AskedAboutQuestions'
  BY <1>1, <1>2, <1>3 DEF AskedAboutQuestions
<1>11. LateStopsEarly'
  BY <1>1, <1>2, <1>3 DEF LateStopsEarly, Deleted, Exists, AnswerTypeOK
<1> QED
  BY <1>4, <1>5, <1>6, <1>7, <1>8, <1>9, <1>10, <1>11

LEMMA OtherHandlerKeepsInv ==
    ASSUME Inv, OtherHandler
    PROVE  Inv'
<1> USE DEF Inv
<1>1. StoreNext /\ UNCHANGED answerVars
  BY DEF OtherHandler
<1>2. StoreInv' /\ \A c \in Conversations : RowKept(c)
  BY <1>1, StoreStep
<1>3. \A q \in Questions : question[q] # Absent =>
        /\ question'[q] = question[q]
        /\ question[q].conversation \in Conversations
  BY <1>1, QuestionsKept DEF StoreInv, StoreTypeOK, QuestionRow
<1>4. AskedAboutQuestions'
  BY <1>1, <1>3 DEF AskedAboutQuestions, answerVars
<1>5. LateStopsEarly'
  <2>1. ASSUME NEW r \in late
        PROVE  /\ question'[target[r]] = question[target[r]]
               /\ Deleted(question[target[r]].conversation)'
    <3>1. target[r] \in Questions /\ question[target[r]] # Absent
      BY <2>1 DEF AskedAboutQuestions, LateStopsEarly, AnswerTypeOK
    <3>2. Deleted(question[target[r]].conversation)
      BY <2>1 DEF LateStopsEarly
    <3> QED
      BY <1>1, <1>2, <1>3, <3>1, <3>2 DEF RowKept, Deleted, Exists, answerVars
  <2> QED
    BY <1>1, <2>1 DEF LateStopsEarly, answerVars
<1> QED
  BY <1>1, <1>2, <1>4, <1>5 DEF answerVars, AnswerTypeOK, InHand, RowsInHand,
     HandBySteps, ToldBySteps, AnalyticsOfRows, SourceFirst

LEMMA StutterKeepsInv ==
    ASSUME Inv, UNCHANGED vars
    PROVE  Inv'
<1>1. StoreInv'
  BY StoreUnchanged DEF Inv, vars
<1> QED
  BY <1>1 DEF Inv, vars, answerVars, storeVars, AnswerTypeOK, InHand, RowsInHand,
     HandBySteps, ToldBySteps, AnalyticsOfRows, SourceFirst, AskedAboutQuestions,
     LateStopsEarly, Deleted, Exists

LEMMA NextKeepsInv == Inv /\ [Next]_vars => Inv'
<1> SUFFICES ASSUME Inv, [Next]_vars PROVE Inv'
  OBVIOUS
<1>1. ASSUME NEW r \in Requests, NEW q \in Questions, Ask(r, q) PROVE Inv'
  BY <1>1, AskKeepsInv
<1>2. ASSUME NEW r \in Requests, Disconnect(r) PROVE Inv'
  BY <1>2, DisconnectKeepsInv
<1>3. ASSUME NEW r \in Requests, ServerStep(r) PROVE Inv'
  BY <1>3, ServerStepsAreControlSteps, ControlStepKeepsInv, InsertAnswerKeepsInv,
     InsertAnalyticsKeepsInv
<1>4. CASE Crash
  BY <1>4, CrashKeepsInv
<1>5. CASE OtherHandler
  BY <1>5, OtherHandlerKeepsInv
<1>6. CASE UNCHANGED vars
  BY <1>6, StutterKeepsInv
<1> QED
  BY <1>1, <1>2, <1>3, <1>4, <1>5, <1>6 DEF Next

-----------------------------------------------------------------------------
(* Inv is an invariant, whatever the numbers of requests, questions,        *)
(* sessions and chunks, and however requests, crashes and clients leaving   *)
(* interleave.                                                              *)
THEOREM Invariant == Spec => []Inv
<1>1. Init => Inv
  BY InitInv
<1>2. Inv /\ [Next]_vars => Inv'
  BY NextKeepsInv
<1> QED
  BY <1>1, <1>2, PTL DEF Spec

(* Rows, steps and endings have the right types. *)
THEOREM TypeCorrect == Spec => []TypeOK
<1>1. Inv => TypeOK
  BY DEF Inv, StoreInv, TypeOK
<1> QED
  BY <1>1, Invariant, PTL

(* An answer that a client was given is stored with its analytics, for the  *)
(* question it asked, then and for ever.                                    *)
THEOREM DoneStaysDurable == Spec => []DoneIsDurable
<1>1. Inv => DoneIsDurable
  <2> SUFFICES ASSUME Inv, NEW r \in Requests, told[r] = "done"
               PROVE  \E a \in analytics : answer[a] = [question |-> target[r], by |-> r]
    BY DEF DoneIsDurable
  <2>1. written[r] \in analytics /\ written[r] # Absent
    BY AnswerAssumption DEF Inv, ToldBySteps, AnswerTypeOK
  <2> QED
    BY <2>1 DEF Inv, InHand
<1> QED
  BY <1>1, Invariant, PTL

(* Only a failed commit or a crash leaves an answer without analytics.      *)
THEOREM HalfSavedIsAFailure == Spec => []HalfSavedOnlyByFailure
<1>1. Inv => HalfSavedOnlyByFailure
  <2> SUFFICES ASSUME Inv, NEW a \in Answers, answer[a] # Absent, a \notin analytics,
                      pc[answer[a].by] # "analytics"
               PROVE  told[answer[a].by] \in {"error", "cut", "lost"}
    BY DEF HalfSavedOnlyByFailure
  <2> DEFINE r == answer[a].by
  <2>1. r \in Requests /\ written[r] = a /\ written[r] # Absent
    BY AnswerAssumption DEF Inv, RowsInHand, AnswerTypeOK, AnswerRow
  <2>2. pc[r] = "end" /\ told[r] # "nothing" /\ told[r] \notin {"done", "left", "shown"}
    BY <2>1 DEF Inv, HandBySteps, ToldBySteps
  <2> QED
    BY <2>1, <2>2 DEF Inv, AnswerTypeOK, Endings
<1> QED
  BY <1>1, Invariant, PTL

(* A request never stores a second answer. *)
THEOREM NoSecondAnswer == Spec => []OneAnswerPerRequest
<1>1. Inv => OneAnswerPerRequest
  BY DEF Inv, RowsInHand, OneAnswerPerRequest
<1> QED
  BY <1>1, Invariant, PTL

(* An answer of the SQL chain always has its source stored. *)
THEOREM SqlAnswersAreTraceable == Spec => []SqlAnswersHaveSource
<1>1. Inv => SqlAnswersHaveSource
  BY AnswerAssumption DEF Inv, RowsInHand, SourceFirst, SqlAnswersHaveSource,
     AnswerTypeOK, AnswerRow
<1> QED
  BY <1>1, Invariant, PTL

(* A conversation that is deleted gets no answer to a chat request that was *)
(* sent afterwards.                                                         *)
THEOREM DeletedMeansSilent == Spec => []DeletedConversationsStaySilent
<1>1. Inv => DeletedConversationsStaySilent
  BY AnswerAssumption DEF Inv, RowsInHand, LateStopsEarly, AnswerTypeOK,
     DeletedConversationsStaySilent, StoredBy
<1> QED
  BY <1>1, Invariant, PTL

(* A deleted conversation stays deleted, and each keeps its owner, also     *)
(* while it is answered in: no handler writes a conversation, and a crash   *)
(* between reading a row and committing it leaves the row as it was.        *)
THEOREM DeletionIsForeverWhileAnswering == Spec => DeletedForever
<1>1. Inv /\ [Next]_vars =>
        [\A c \in Conversations :
          Exists(c) =>
            /\ Exists(c)'
            /\ Deleted(c) => Deleted(c)'
            /\ conversation'[c].user = conversation[c].user
            /\ conversation'[c].workspace = conversation[c].workspace]_storeVars
  <2> SUFFICES ASSUME Inv, [Next]_vars
               PROVE  UNCHANGED storeVars \/ \A c \in Conversations : RowKept(c)
    BY DEF RowKept
  <2>1. ASSUME NEW r \in Requests, NEW q \in Questions, Ask(r, q)
        PROVE  UNCHANGED storeVars
    BY <2>1 DEF Ask
  <2>2. ASSUME NEW r \in Requests, Disconnect(r)
        PROVE  UNCHANGED storeVars
    BY <2>2 DEF Disconnect
  <2>3. ASSUME NEW r \in Requests, ServerStep(r)
        PROVE  UNCHANGED storeVars
    BY <2>3, ServerStepsAreControlSteps
       DEF ControlStep, InsertAnswer, InsertAnalytics
  <2>4. CASE Crash
    BY <2>4 DEF Crash, RowKept, Exists, Deleted
  <2>5. CASE OtherHandler
    BY <2>5, StoreStep DEF OtherHandler, Inv
  <2>6. CASE UNCHANGED vars
    BY <2>6 DEF vars
  <2> QED
    BY <2>1, <2>2, <2>3, <2>4, <2>5, <2>6 DEF Next
<1> QED
  BY <1>1, Invariant, PTL DEF Spec, DeletedForever

-----------------------------------------------------------------------------
(* The ledger that AnswerGeneration keeps. *)

Book ==
    [r \in Requests |->
        IF StoredBy(r) = {} THEN "blank"
        ELSE IF StoredBy(r) \cap analytics = {} THEN "recorded"
        ELSE "filed"]

Outcome ==
    [r \in Requests |->
        IF pc[r] # "end" THEN "pending"
        ELSE IF told[r] = "done" THEN "acknowledged"
        ELSE "closed"]

(* The same page of the book, from the row in hand. *)
Page(r) ==
    IF written[r] = Absent THEN "blank"
    ELSE IF written[r] \notin analytics THEN "recorded"
    ELSE "filed"

LEMMA BookOfHand == Inv => Book = [r \in Requests |-> Page(r)]
<1> SUFFICES ASSUME Inv PROVE Book = [r \in Requests |-> Page(r)]
  OBVIOUS
<1>1. ASSUME NEW r \in Requests
      PROVE  StoredBy(r) = IF written[r] = Absent THEN {} ELSE {written[r]}
  <2>1. CASE written[r] = Absent
    BY <2>1, AnswerAssumption DEF StoredBy, Inv, RowsInHand
  <2>2. CASE written[r] # Absent
    BY <2>2, RowsOfHands DEF StoredBy, Inv, RowsInHand
  <2> QED
    BY <2>1, <2>2
<1> QED
  BY <1>1 DEF Book, Page

LEMMA BookOfHandNext == Inv' => Book' = [r \in Requests |-> Page(r)']
<1>1. (Inv => Book = [r \in Requests |-> Page(r)])'
  BY BookOfHand, PTL
<1> QED
  BY <1>1

(* A step of a handler records, files or closes its own request, or leaves  *)
(* the ledger alone.                                                        *)
LEMMA ServerStepInLedger ==
    ASSUME Inv, Inv', NEW r \in Requests, ServerStep(r)
    PROVE  Ledger!LedgerNext \/ UNCHANGED <<Book, Outcome>>
<1>1. Book = [s \in Requests |-> Page(s)] /\ Book' = [s \in Requests |-> Page(s)']
  BY BookOfHand, BookOfHandNext
<1>2. CASE ControlStep(r)
  <2>1. Book' = Book
    BY <1>1, <1>2 DEF ControlStep, Page
  <2>2. ASSUME NEW step \in Steps, Goto(r, step)
        PROVE  Outcome' = Outcome
    BY <1>2, <2>2 DEF ControlStep, Goto, Outcome, Steps, Awaiting, Blocking, Inv, AnswerTypeOK
  <2>3. ASSUME NEW ending \in {"error", "cut", "left", "shown"}, End(r, ending)
        PROVE  Ledger!CloseAll({r})
    <3>1. Outcome[r] = "pending"
      BY <1>2 DEF ControlStep, Outcome, Steps, Awaiting, Blocking
    <3>2. Outcome' = [s \in Requests |-> IF s \in {r} THEN "closed" ELSE Outcome[s]]
      BY <2>3 DEF End, Outcome, Inv, AnswerTypeOK
    <3> QED
      BY <2>1, <3>1, <3>2 DEF Ledger!CloseAll, Book, Outcome
  <2> QED
    BY <1>2, <2>1, <2>2, <2>3 DEF ControlStep, Ledger!LedgerNext
<1>3. CASE InsertAnswer(r) /\ pc'[r] = "analytics"
  <2>1. pc[r] = "insert" /\ written[r] = Absent
    BY <1>3 DEF InsertAnswer, Inv, HandBySteps
  <2>2. PICK a \in Answers :
          written' = [written EXCEPT ![r] = a] /\ Goto(r, "analytics")
    BY <1>3 DEF InsertAnswer, End, Inv, AnswerTypeOK
  <2>3. Outcome[r] = "pending" /\ Outcome' = Outcome
    BY <2>1, <2>2 DEF Goto, Outcome, Inv, AnswerTypeOK
  <2>4. Page(r)' = "recorded" /\ Page(r) = "blank"
    BY <1>3, <2>1 DEF Page, Inv, HandBySteps
  <2>5. \A s \in Requests \ {r} : Page(s)' = Page(s)
    BY <1>3, <2>2 DEF InsertAnswer, Page, Inv, AnswerTypeOK
  <2>6. Book[r] = "blank" /\ Book' = [Book EXCEPT ![r] = "recorded"]
    BY <1>1, <2>4, <2>5
  <2>7. Ledger!Record(r)
    BY <2>3, <2>6 DEF Ledger!Record, Book, Outcome
  <2> QED
    BY <2>7 DEF Ledger!LedgerNext
<1>4. CASE InsertAnalytics(r)
  <2>1. pc[r] = "analytics" /\ written' = written /\ written[r] # Absent
        /\ written[r] \notin analytics
    BY <1>4 DEF InsertAnalytics, Inv, HandBySteps
  <2>2. PICK ending \in {"done", "left", "error", "cut"} :
          /\ End(r, ending)
          /\ \/ analytics' = analytics \cup {written[r]}
             \/ ending \notin {"done", "left"} /\ analytics' = analytics
    BY <1>4 DEF InsertAnalytics, SavingFailed
  <2>3. Outcome[r] = "pending"
        /\ Outcome' = [Outcome EXCEPT ![r] = IF ending = "done" THEN "acknowledged"
                                             ELSE "closed"]
    BY <2>1, <2>2 DEF End, Outcome, Inv, AnswerTypeOK
  <2>4. CASE analytics' = analytics \cup {written[r]}
    <3>1. Page(r) = "recorded" /\ Page(r)' = "filed"
      BY <2>1, <2>2, <2>4 DEF Page
    <3>2. \A s \in Requests \ {r} : Page(s)' = Page(s)
      BY <2>1, <2>2, <2>4, RowsOfHands DEF Page
    <3>3. Book[r] = "recorded" /\ Book' = [Book EXCEPT ![r] = "filed"]
      BY <1>1, <3>1, <3>2
    <3>4. Ledger!File(r)
      BY <2>3, <3>3 DEF Ledger!File, Book, Outcome
    <3> QED
      BY <3>4 DEF Ledger!LedgerNext
  <2>5. CASE ending \notin {"done", "left"} /\ analytics' = analytics
    <3>1. Book' = Book
      BY <1>1, <2>1, <2>2, <2>5 DEF Page
    <3>2. Outcome' = [s \in Requests |-> IF s \in {r} THEN "closed" ELSE Outcome[s]]
      BY <2>3, <2>5 DEF Outcome
    <3>3. Ledger!CloseAll({r})
      BY <2>3, <3>1, <3>2 DEF Ledger!CloseAll, Book, Outcome
    <3> QED
      BY <3>3 DEF Ledger!LedgerNext
  <2> QED
    BY <2>2, <2>4, <2>5
<1> QED
  BY <1>2, <1>3, <1>4, ServerStepsAreControlSteps

(* A crash closes the requests in flight together. *)
LEMMA CrashInLedger ==
    ASSUME Inv, Inv', Crash
    PROVE  Ledger!LedgerNext
<1> DEFINE inFlight == {r \in Requests : pc[r] \in Steps}
<1>1. Book' = Book
  BY BookOfHand, BookOfHandNext DEF Crash, Page, tableVars
<1>2. inFlight # {} /\ \A r \in inFlight : Outcome[r] = "pending"
  BY DEF Crash, Outcome, Steps, Awaiting, Blocking
<1>3. Outcome' = [r \in Requests |-> IF r \in inFlight THEN "closed" ELSE Outcome[r]]
  BY DEF Crash, Outcome
<1>4. inFlight \in SUBSET Requests
  OBVIOUS
<1> HIDE DEF inFlight
<1>5. PICK R \in SUBSET Requests :
        /\ R # {}
        /\ \A r \in R : Outcome[r] = "pending"
        /\ Outcome' = [r \in Requests |-> IF r \in R THEN "closed" ELSE Outcome[r]]
  BY <1>2, <1>3, <1>4
<1>6. Ledger!CloseAll(R)
  BY <1>1, <1>5 DEF Ledger!CloseAll, Book, Outcome
<1> QED
  BY <1>6 DEF Ledger!LedgerNext

(* AnswerGeneration implements AnswerLedger: whatever the endpoint and      *)
(* whatever fails, nothing is stored for a request once it is over, and a   *)
(* request is acknowledged only in the step that files its answer.          *)
THEOREM LedgerIsKept == Spec => KeepsTheLedger
<1>1. Init => Ledger!LedgerInit
  <2> SUFFICES ASSUME Init PROVE Ledger!LedgerInit
    OBVIOUS
  <2>1. Book = [r \in Requests |-> "blank"]
    BY DEF Init, Book, StoredBy
  <2>2. Outcome = [r \in Requests |-> "pending"]
    BY DEF Init, Outcome
  <2> QED
    BY <2>1, <2>2 DEF Ledger!LedgerInit, Book, Outcome
<1>2. Inv /\ Inv' /\ [Next]_vars => [Ledger!LedgerNext]_Ledger!ledgerVars
  <2> SUFFICES ASSUME Inv, Inv', [Next]_vars
               PROVE  Ledger!LedgerNext \/ UNCHANGED <<Book, Outcome>>
    BY DEF Ledger!ledgerVars, Book, Outcome
  <2>1. ASSUME NEW r \in Requests, NEW q \in Questions, Ask(r, q)
        PROVE  UNCHANGED <<Book, Outcome>>
    <3>1. pc[r] # "end" /\ pc' = [pc EXCEPT ![r] = "prepare"] /\ told' = told
      BY <2>1 DEF Ask, Goto
    <3>2. Outcome' = Outcome
      BY <3>1 DEF Outcome, Inv, AnswerTypeOK
    <3> QED
      BY <2>1, <3>2, BookOfHand, BookOfHandNext DEF Ask, Page, tableVars
  <2>2. ASSUME NEW r \in Requests, Disconnect(r)
        PROVE  UNCHANGED <<Book, Outcome>>
    BY <2>2 DEF Disconnect, tableVars, Book, Outcome, StoredBy
  <2>3. ASSUME NEW r \in Requests, ServerStep(r)
        PROVE  Ledger!LedgerNext \/ UNCHANGED <<Book, Outcome>>
    BY <2>3, ServerStepInLedger
  <2>4. CASE Crash
    BY <2>4, CrashInLedger
  <2>5. CASE OtherHandler
    BY <2>5 DEF OtherHandler, answerVars, Book, Outcome, StoredBy
  <2>6. CASE UNCHANGED vars
    BY <2>6 DEF vars, answerVars, Book, Outcome, StoredBy
  <2> QED
    BY <2>1, <2>2, <2>3, <2>4, <2>5, <2>6 DEF Next
<1> QED
  BY <1>1, <1>2, Invariant, PTL DEF Spec, KeepsTheLedger, Ledger!LedgerSpec
=============================================================================
