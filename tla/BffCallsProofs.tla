--------------------------- MODULE BffCallsProofs ---------------------------
(***************************************************************************)
(* Proofs about BffCalls, for any number of requests that are answered,    *)
(* fail and time out in any order: types, what has been done when a good   *)
(* answer is given, the order of the effects of a request, and which       *)
(* settings are lost.                                                      *)
(*                                                                         *)
(* What a job has set off so far follows from its place in its plan:       *)
(* nothing beyond the place has been sent, and what was passed is done.    *)
(***************************************************************************)
EXTENDS BffCalls, TLAPS

(* The plans, call by call, and where in them the calls are that an answer  *)
(* depends on.                                                              *)
Marked(k, p) ==
    LET c == Plan[k][p]
    IN
        /\ c = "create" => <<k, p>> \in {<<"question", 6>>, <<"conversation", 5>>}
        /\ c = "write" => <<k, p>> \in {<<"question", 12>>, <<"conversation", 11>>, <<"answer", 8>>}
        /\ c = "ask" => <<k, p>> \in {<<"answer", 2>>}
        /\ c = "stream" => <<k, p>> \in {<<"stream", 3>>}
        /\ c = "save" => <<k, p>> \in {<<"sources", 4>>}
        /\ c = "register" => <<k, p>> \in {<<"source", 2>>}
        /\ c = "extract" => <<k, p>> \in {<<"source", 3>>}
        /\ c = "change" => <<k, p>> \in {<<"change", 2>>}
        /\ c = "open" => <<k, p>> \in {<<"login", 2>>}
        /\ c = "end" => <<k, p>> \in {<<"logout", 7>>}
        /\ c = "import" => <<k, p>> \in {<<"account", 4>>}
        /\ c = "set" => <<k, p>> \in {<<"patch", 7>>, <<"configuration", 4>>}
        /\ c = "fetch" => <<k, p>> \in {<<"sources", 3>>}
        /\ c = "file" => <<k, p>> \in {<<"preview", 3>>}
        /\ c = "metadata" => <<k, p>> \in {<<"preview", 2>>}
        /\ c = "introspect" /\ k = "sources" => p = 1
        /\ c = "read" => <<k, p>> \in {<<"patch", 6>>}

LEMMA PlanTable ==
    \A k \in Kinds :
        /\ Len(Plan[k]) \in Nat \ {0} /\ DOMAIN Plan[k] = 1..Len(Plan[k])
        /\ \A p \in 1..Len(Plan[k]) : Marked(k, p)
<1>1. Kinds = {"question", "conversation", "answer", "stream", "sources", "source", "change",
               "members", "preview", "login", "logout", "account", "patch", "configuration"}
  BY DEF Kinds, Plan
<1> DEFINE Good(k) ==
        /\ Len(Plan[k]) \in Nat \ {0} /\ DOMAIN Plan[k] = 1..Len(Plan[k])
        /\ \A p \in 1..Len(Plan[k]) : Marked(k, p)
<1>2. Good("question")
  BY DEF Plan, AddQuestion, CheckAuth, AdminToken, GetUser, UpdateRateLimit, Marked
<1>3. Good("conversation")
  BY DEF Plan, CreateConversation, CheckAuth, AdminToken, GetUser, UpdateRateLimit, Marked
<1>4. Good("answer")
  BY DEF Plan, GetAnswer, CheckAuth, AdminToken, GetUser, UpdateRateLimit, Marked
<1>5. Good("stream")
  BY DEF Plan, StreamAnswer, CheckAuth, AdminToken, GetUser, UpdateRateLimit, Marked
<1>6. Good("sources")
  BY DEF Plan, GetSources, CheckAuth, AdminToken, GetUser, UpdateRateLimit, Marked
<1>7. Good("source")
  BY DEF Plan, AddSource, CheckAuth, AdminToken, GetUser, UpdateRateLimit, Marked
<1>8. Good("change")
  BY DEF Plan, ChangeWorkspace, CheckAuth, AdminToken, GetUser, UpdateRateLimit, Marked
<1>9. Good("members")
  BY DEF Plan, GetMembers, CheckAuth, AdminToken, GetUser, UpdateRateLimit, Marked
<1>10. Good("preview")
  BY DEF Plan, PreviewDocument, CheckAuth, AdminToken, GetUser, UpdateRateLimit, Marked
<1>11. Good("login")
  BY DEF Plan, Login, CheckAuth, AdminToken, GetUser, UpdateRateLimit, Marked
<1>12. Good("logout")
  BY DEF Plan, Logout, CheckAuth, AdminToken, GetUser, UpdateRateLimit, Marked
<1>13. Good("account")
  BY DEF Plan, CreateUser, CheckAuth, AdminToken, GetUser, UpdateRateLimit, Marked
<1>14. Good("patch")
  BY DEF Plan, UpdateSourcesConfig, CheckAuth, AdminToken, GetUser, UpdateRateLimit, Marked
<1>15. Good("configuration")
  BY DEF Plan, AddSourcesConfiguration, CheckAuth, AdminToken, GetUser, UpdateRateLimit, Marked
<1> QED
  BY <1>1, <1>2, <1>3, <1>4, <1>5, <1>6, <1>7, <1>8, <1>9, <1>10, <1>11, <1>12, <1>13, <1>14, <1>15

LEMMA PlanEnds ==
    /\ Len(Plan["question"]) = 12 /\ Plan["question"][6] = "create" /\ Plan["question"][12] = "write"
    /\ Len(Plan["conversation"]) = 11 /\ Plan["conversation"][5] = "create"
    /\ Plan["conversation"][11] = "write"
    /\ Len(Plan["answer"]) = 8 /\ Plan["answer"][8] = "write"
    /\ Len(Plan["stream"]) = 3 /\ Plan["stream"][3] = "stream"
    /\ Len(Plan["sources"]) = 4 /\ Plan["sources"][4] = "save"
    /\ Len(Plan["source"]) = 3 /\ Plan["source"][2] = "register" /\ Plan["source"][3] = "extract"
    /\ Len(Plan["change"]) = 2 /\ Plan["change"][2] = "change"
    /\ Len(Plan["preview"]) = 4
    /\ Len(Plan["login"]) = 2 /\ Plan["login"][2] = "open"
    /\ Len(Plan["logout"]) = 7 /\ Plan["logout"][7] = "end"
    /\ Len(Plan["account"]) = 4 /\ Plan["account"][4] = "import"
    /\ Len(Plan["patch"]) = 10 /\ Plan["patch"][7] = "set" /\ Plan["patch"][6] = "read"
    /\ Len(Plan["configuration"]) = 4 /\ Plan["configuration"][4] = "set"
<1>1. Len(Plan["question"]) = 12 /\ Plan["question"][6] = "create" /\ Plan["question"][12] = "write"
  BY DEF Plan, AddQuestion, CheckAuth, AdminToken, GetUser, UpdateRateLimit
<1>2. Len(Plan["conversation"]) = 11 /\ Plan["conversation"][5] = "create"
      /\ Plan["conversation"][11] = "write"
  BY DEF Plan, CreateConversation, CheckAuth, AdminToken, GetUser, UpdateRateLimit
<1>3. Len(Plan["answer"]) = 8 /\ Plan["answer"][8] = "write"
  BY DEF Plan, GetAnswer, CheckAuth, AdminToken, GetUser, UpdateRateLimit
<1>4. /\ Len(Plan["stream"]) = 3 /\ Plan["stream"][3] = "stream"
      /\ Len(Plan["sources"]) = 4 /\ Plan["sources"][4] = "save"
      /\ Len(Plan["source"]) = 3 /\ Plan["source"][2] = "register"
      /\ Plan["source"][3] = "extract"
      /\ Len(Plan["change"]) = 2 /\ Plan["change"][2] = "change"
      /\ Len(Plan["preview"]) = 4
      /\ Len(Plan["login"]) = 2 /\ Plan["login"][2] = "open"
  BY DEF Plan, StreamAnswer, GetSources, AddSource, ChangeWorkspace,
     PreviewDocument, Login, CheckAuth
<1>5. /\ Len(Plan["logout"]) = 7 /\ Plan["logout"][7] = "end"
      /\ Len(Plan["account"]) = 4 /\ Plan["account"][4] = "import"
  BY DEF Plan, Logout, CreateUser, CheckAuth, AdminToken
<1>6. /\ Len(Plan["patch"]) = 10 /\ Plan["patch"][7] = "set" /\ Plan["patch"][6] = "read"
      /\ Len(Plan["configuration"]) = 4 /\ Plan["configuration"][4] = "set"
  BY DEF Plan, UpdateSourcesConfig, AddSourcesConfiguration, CheckAuth, AdminToken
<1> QED
  BY <1>1, <1>2, <1>3, <1>4, <1>5, <1>6

(* No plan has the same effect twice. *)
LEMMA EffectsOnce ==
    ASSUME NEW k \in Kinds, NEW p \in 1..Len(Plan[k]), NEW q \in 1..Len(Plan[k]),
           Plan[k][p] \in Effects, Plan[k][p] = Plan[k][q]
    PROVE  p = q
<1>1. Marked(k, p) /\ Marked(k, q)
  BY PlanTable
<1> HIDE DEF Kinds
<1> QED
  BY <1>1 DEF Marked, Effects

(* Where a handler goes on, and what it may pass over. *)
LEMMA FollowingBounds ==
    ASSUME TypeOK, NEW j \in Jobs, Waiting(j), NEW p \in Following(j)
    PROVE  /\ kind[j] \in Kinds /\ place[j] \in 1..Len(Plan[kind[j]])
           /\ p \in Nat /\ p > place[j]
           /\ p <= Len(Plan[kind[j]]) =>
                 \A q \in (place[j] + 1)..(p - 1) :
                    /\ Plan[kind[j]][q] \in Effects => Plan[kind[j]][q] = "set"
           /\ p > Len(Plan[kind[j]]) =>
                 place[j] = Len(Plan[kind[j]]) \/ Call(j) \in {"fetch", "file", "ask"}
<1> DEFINE k == kind[j]
           n == Len(Plan[k])
           next == place[j] + 1
<1>1. k \in Kinds /\ place[j] \in Nat /\ place[j] > 0 /\ place[j] \in 1..n
  BY PlanTable DEF TypeOK, Waiting
<1>2. n \in Nat /\ \A q \in 1..n : Marked(k, q)
  BY <1>1, PlanTable
<1>3. /\ Call(j) = "introspect" /\ k = "sources" => Following(j) = {next, next + 1}
      /\ Call(j) = "fetch" => Following(j) = {next, n + 1}
      /\ Call(j) \in {"read", "metadata"} => Following(j) = {next, next + 1}
      /\ Call(j) \in {"ask", "file"} => Following(j) = {n + 1}
      /\ ~(Call(j) = "introspect" /\ k = "sources")
            /\ Call(j) \notin {"fetch", "read", "metadata", "ask", "file"} =>
               Following(j) = {next}
  <2> HIDE DEF Call
  <2> QED
    BY DEF Following
<1>4. Marked(k, place[j])
  BY <1>1, <1>2
<1>5. p \in {next, next + 1, n + 1}
  BY <1>3
<1>6. p \in Nat /\ p > place[j]
  BY <1>1, <1>2, <1>5
<1>7. ASSUME p <= n, NEW q \in (place[j] + 1)..(p - 1), Plan[k][q] \in Effects
      PROVE  Plan[k][q] = "set"
  <2>1. p = next + 1 /\ q = next
    BY <1>1, <1>2, <1>5, <1>7
  <2>2. \/ Call(j) = "introspect" /\ k = "sources"
        \/ Call(j) \in {"read", "metadata"}
    BY <1>1, <1>2, <1>3, <1>7, <2>1
  <2>3. Marked(k, q)
    <3>1. q \in 1..n
      BY <1>1, <1>2, <1>6, <1>7
    <3> HIDE DEF k, n
    <3> QED
      BY <1>2, <3>1
  <2>4. Plan[k][place[j]] = Call(j)
    BY DEF Call
  <2> HIDE DEF k, n
  <2> QED
    BY <1>1, <1>4, <1>7, <2>1, <2>2, <2>3, <2>4 DEF Marked, Effects
<1>8. ASSUME p > n
      PROVE  place[j] = n \/ Call(j) \in {"fetch", "file", "ask"}
  <2>1. CASE p = next
    BY <1>1, <1>2, <1>8, <2>1
  <2>2. CASE p = next + 1 /\ p # n + 1
    BY <1>1, <1>2, <1>8, <2>2
  <2>3. CASE p = n + 1 /\ p # next
    <3>1. CASE Call(j) = "introspect" /\ k = "sources"
      <4>1. n = 4 /\ p \in {next, next + 1}
        BY <1>3, <3>1, PlanEnds
      <4>2. Plan[k][place[j]] = "introspect"
        BY <3>1 DEF Call
      <4>3. place[j] = 1
        <5> HIDE DEF k
        <5> QED
          BY <1>4, <3>1, <4>2 DEF Marked
      <4> QED
        BY <1>8, <4>1, <4>3
    <3>2. CASE Call(j) \in {"read", "metadata"}
      <4>1. p \in {next, next + 1} /\ Plan[k][place[j]] \in {"read", "metadata"}
        BY <1>3, <3>2 DEF Call
      <4>2. <<k, place[j]>> \in {<<"preview", 2>>, <<"patch", 6>>}
        <5> HIDE DEF k
        <5> QED
          BY <1>4, <4>1 DEF Marked
      <4>3. /\ (k = "preview" /\ place[j] = 2) \/ (k = "patch" /\ place[j] = 6)
            /\ k = "preview" => n = 4
            /\ k = "patch" => n = 10
        BY <4>2, PlanEnds
      <4> HIDE DEF n, k
      <4> QED
        BY <1>8, <4>1, <4>3
    <3> QED
      BY <1>3, <2>3, <3>1, <3>2
  <2> QED
    BY <1>5, <2>1, <2>2, <2>3
<1> QED
  BY <1>1, <1>6, <1>7, <1>8

-----------------------------------------------------------------------------
(* Types.                                                                   *)
LEMMA Sending ==
    ASSUME TypeOK, NEW j \in Jobs, NEW k, NEW p \in Nat, Send(j, k, p)
    PROVE  /\ place' \in [Jobs -> Nat] /\ place'[j] = p
           /\ \A i \in Jobs \ {j} : place'[i] = place[i]
           /\ begun' \in SUBSET (Jobs \X Effects)
           /\ begun \subseteq begun' /\ begun' \subseteq begun \cup {<<j, Plan[k][p]>>}
           /\ Plan[k][p] \in Effects => <<j, Plan[k][p]>> \in begun'
           /\ done' = done /\ failed' = failed
<1>1. place' = [place EXCEPT ![j] = p]
  BY DEF Send
<1>2. /\ place' \in [Jobs -> Nat] /\ place'[j] = p
      /\ \A i \in Jobs \ {j} : place'[i] = place[i]
  BY <1>1 DEF TypeOK
<1>3. begun \in SUBSET (Jobs \X Effects)
  BY DEF TypeOK
<1>4. /\ begun' \in SUBSET (Jobs \X Effects)
      /\ begun \subseteq begun' /\ begun' \subseteq begun \cup {<<j, Plan[k][p]>>}
      /\ Plan[k][p] \in Effects => <<j, Plan[k][p]>> \in begun'
  <2>1. CASE Plan[k][p] \in Effects
    <3>1. begun' = begun \cup {<<j, Plan[k][p]>>}
      BY <2>1 DEF Send
    <3> HIDE DEF Effects
    <3> QED
      BY <1>3, <2>1, <3>1
  <2>2. CASE Plan[k][p] \notin Effects
    BY <1>3, <2>2 DEF Send
  <2> QED
    BY <2>1, <2>2
<1> QED
  BY <1>2, <1>4 DEF Send

BreakerOK ==
    /\ failures \in 0..Threshold
    /\ breaker \in {"closed", "open", "half_open"}
    /\ breaker = "closed" <=> failures < Threshold

LEMMA BreakerStep ==
    ASSUME TypeOK, NEW j \in Jobs, Succeeds(j) \/ Fails(j)
    PROVE  BreakerOK'
<1>1. BreakerOK /\ Threshold \in Nat \ {0}
  BY BffAssumption DEF TypeOK, BreakerOK
<1>2. CASE UNCHANGED <<failures, breaker>>
  BY <1>1, <1>2 DEF BreakerOK
<1>3. CASE failures' = 0 /\ breaker' = "closed"
  BY <1>1, <1>3 DEF BreakerOK
<1>4. CASE failures + 1 >= Threshold /\ failures' = Threshold /\ breaker' = "open"
  BY <1>1, <1>4 DEF BreakerOK
<1>5. CASE failures + 1 < Threshold /\ failures' = failures + 1 /\ UNCHANGED breaker
  BY <1>1, <1>5 DEF BreakerOK
<1>6. failures + 1 >= Threshold \/ failures + 1 < Threshold
  BY <1>1 DEF BreakerOK
<1> QED
  BY <1>2, <1>3, <1>4, <1>5, <1>6 DEF Succeeds, Fails

(* What the types say of one job. *)
Placed(j) ==
    /\ place[j] > 0 => kind[j] # "none" /\ place[j] \in DOMAIN Plan[kind[j]]
    /\ kind[j] = "none" => told[j] = "nothing"
    /\ kind[j] # "none" /\ place[j] = 0 => told[j] = "error"

(* A step of a handler that waits. *)
LEMMA TypeHandler ==
    ASSUME TypeOK, NEW j \in Jobs, Waiting(j), kind' = kind, BreakerOK',
           \/ \E p \in Nat : /\ p \in 1..Len(Plan[kind[j]])
                             /\ Send(j, kind[j], p) /\ told' = told
           \/ /\ UNCHANGED <<place, serviceVars>>
              /\ \E answer \in Answers \ {"nothing"} : Tell(j, answer),
           seen' \in [Jobs -> SUBSET Jobs], UNCHANGED <<config, answeredBefore>>
    PROVE  TypeOK'
<1>1. /\ kind[j] \in Kinds /\ kind[j] # "none" /\ place[j] > 0 /\ told[j] = "nothing"
      /\ DOMAIN Plan[kind[j]] = 1..Len(Plan[kind[j]])
  BY PlanTable DEF TypeOK, Waiting
<1>2. \A i \in Jobs : Placed(i)
  BY DEF TypeOK, Placed
<1>3. CASE \E p \in Nat : /\ p \in 1..Len(Plan[kind[j]])
                          /\ Send(j, kind[j], p) /\ told' = told
  <2>1. PICK p \in Nat : /\ p \in 1..Len(Plan[kind[j]])
                         /\ Send(j, kind[j], p) /\ told' = told
    BY <1>3
  <2>2. /\ place' \in [Jobs -> Nat] /\ place'[j] = p
        /\ \A i \in Jobs \ {j} : place'[i] = place[i]
        /\ begun' \in SUBSET (Jobs \X Effects) /\ begun \subseteq begun'
        /\ done' = done /\ failed' = failed
    BY <2>1, Sending
  <2>3. p > 0
    BY <2>1
  <2>4. \A i \in Jobs : Placed(i)'
    BY <1>1, <1>2, <2>1, <2>2, <2>3 DEF Placed
  <2> QED
    BY <2>1, <2>2, <2>4 DEF TypeOK, BreakerOK, Placed
<1>4. CASE /\ UNCHANGED <<place, serviceVars>>
           /\ \E answer \in Answers \ {"nothing"} : Tell(j, answer)
  <2>1. PICK answer \in Answers \ {"nothing"} : told' = [told EXCEPT ![j] = answer]
    BY <1>4 DEF Tell
  <2>2. told' \in [Jobs -> Answers] /\ \A i \in Jobs \ {j} : told'[i] = told[i]
    BY <2>1 DEF TypeOK
  <2>3. \A i \in Jobs : Placed(i)'
    BY <1>1, <1>2, <1>4, <2>2 DEF Placed
  <2> QED
    BY <1>4, <2>2, <2>3 DEF TypeOK, BreakerOK, Placed, serviceVars
<1> QED
  BY <1>3, <1>4

LEMMA TypeArrive ==
    ASSUME TypeOK, NEW j \in Jobs, NEW k \in Kinds, Arrive(j, k)
    PROVE  TypeOK'
<1>1. /\ Len(Plan[k]) \in Nat \ {0} /\ DOMAIN Plan[k] = 1..Len(Plan[k])
  BY PlanTable
<1>2. k # "none"
  BY DEF Kinds, Plan
<1>3. /\ kind[j] = "none" /\ kind' = [kind EXCEPT ![j] = k]
      /\ answeredBefore' = [answeredBefore EXCEPT ![j] = {i \in Jobs : told[i] = "ok"}]
      /\ UNCHANGED <<config, seen, failures, breaker>>
  BY DEF Arrive
<1>4. /\ kind' \in [Jobs -> Kinds \cup {"none"}] /\ kind'[j] = k
      /\ \A i \in Jobs \ {j} : kind'[i] = kind[i]
  <2> HIDE DEF Kinds
  <2> QED
    BY <1>3 DEF TypeOK
<1>5. answeredBefore' \in [Jobs -> SUBSET Jobs]
  BY <1>3 DEF TypeOK
<1>6. \A i \in Jobs : Placed(i)
  BY DEF TypeOK, Placed
<1>7. CASE Send(j, k, 1) /\ UNCHANGED told
  <2>1. /\ place' \in [Jobs -> Nat] /\ place'[j] = 1
        /\ \A i \in Jobs \ {j} : place'[i] = place[i]
        /\ begun' \in SUBSET (Jobs \X Effects) /\ begun \subseteq begun'
        /\ done' = done /\ failed' = failed
    BY <1>7, Sending
  <2>2. \A i \in Jobs : Placed(i)'
    BY <1>1, <1>2, <1>4, <1>6, <1>7, <2>1 DEF Placed
  <2> QED
    BY <1>3, <1>4, <1>5, <1>7, <2>1, <2>2 DEF TypeOK, Placed
<1>8. CASE Tell(j, "error") /\ UNCHANGED <<place, serviceVars>>
  <2>1. told' \in [Jobs -> Answers] /\ told'[j] = "error"
        /\ \A i \in Jobs \ {j} : told'[i] = told[i]
    BY <1>8 DEF Tell, TypeOK, Answers
  <2>2. place[j] = 0
    BY <1>3, <1>6 DEF Placed, TypeOK
  <2>3. \A i \in Jobs : Placed(i)'
    BY <1>2, <1>4, <1>6, <1>8, <2>1, <2>2 DEF Placed
  <2> QED
    BY <1>3, <1>4, <1>5, <1>8, <2>1, <2>3 DEF TypeOK, Placed, serviceVars
<1> QED
  BY <1>7, <1>8 DEF Arrive

LEMMA TypeGoodAnswer ==
    ASSUME TypeOK, NEW j \in Jobs, GoodAnswer(j)
    PROVE  TypeOK'
<1>1. Waiting(j) /\ kind' = kind /\ BreakerOK'
  BY BreakerStep DEF GoodAnswer
<1>2. seen' \in [Jobs -> SUBSET Jobs] /\ UNCHANGED <<config, answeredBefore>>
  BY DEF GoodAnswer, Take, TypeOK
<1>3. PICK p \in Following(j) :
          IF p <= Len(Plan[kind[j]])
          THEN Send(j, kind[j], p) /\ UNCHANGED told
          ELSE /\ Tell(j, IF kind[j] = "answer" /\ Call(j) = "write" THEN "refunded" ELSE "ok")
               /\ UNCHANGED <<place, serviceVars>>
  BY DEF GoodAnswer
<1>4. /\ place[j] \in 1..Len(Plan[kind[j]]) /\ kind[j] \in Kinds /\ Len(Plan[kind[j]]) \in Nat
      /\ p \in Nat /\ p > place[j]
  BY <1>1, FollowingBounds, PlanTable
<1>5. CASE p <= Len(Plan[kind[j]])
  <2>1. p \in 1..Len(Plan[kind[j]])
    BY <1>4, <1>5
  <2> QED
    BY <1>1, <1>2, <1>3, <1>4, <1>5, <2>1, TypeHandler
<1>6. CASE ~(p <= Len(Plan[kind[j]]))
  <2>1. {"refunded", "ok"} \subseteq Answers \ {"nothing"}
    BY DEF Answers
  <2>2. \E answer \in Answers \ {"nothing"} : Tell(j, answer)
    BY <1>3, <1>6, <2>1
  <2> QED
    BY <1>1, <1>2, <1>3, <1>6, <2>2, TypeHandler
<1> QED
  BY <1>5, <1>6

LEMMA TypeTimeOut ==
    ASSUME TypeOK, NEW j \in Jobs, TimeOut(j)
    PROVE  TypeOK'
<1>1. /\ Waiting(j) /\ kind' = kind /\ BreakerOK'
      /\ UNCHANGED configVars
  BY BreakerStep DEF TimeOut
<1>2. seen' \in [Jobs -> SUBSET Jobs] /\ UNCHANGED <<config, answeredBefore>>
  BY <1>1 DEF configVars, TypeOK
<1>3. CASE UNCHANGED <<place, serviceVars>> /\ (Tell(j, "timed_out") \/ Tell(j, "error"))
  <2>1. {"timed_out", "error"} \subseteq Answers \ {"nothing"}
    BY DEF Answers
  <2> QED
    BY <1>1, <1>2, <1>3, <2>1, TypeHandler
<1>4. CASE Call(j) = "ask" /\ Send(j, kind[j], place[j] + 1) /\ UNCHANGED told
  <2>1. /\ kind[j] \in Kinds /\ place[j] \in 1..Len(Plan[kind[j]])
        /\ Plan[kind[j]][place[j]] = "ask"
    BY <1>1, <1>4, PlanTable DEF TypeOK, Waiting, Call
  <2>2. Marked(kind[j], place[j])
    BY <2>1, PlanTable
  <2>3. kind[j] = "answer" /\ place[j] = 2
    BY <2>1, <2>2 DEF Marked
  <2>4. place[j] + 1 \in Nat /\ place[j] + 1 \in 1..Len(Plan[kind[j]])
    BY <2>3, PlanEnds
  <2> QED
    BY <1>1, <1>2, <1>4, <2>4, TypeHandler
<1> QED
  BY <1>3, <1>4 DEF TimeOut

LEMMA TypeStep == TypeOK /\ [Next]_vars => TypeOK'
<1> SUFFICES ASSUME TypeOK, [Next]_vars PROVE TypeOK'
  OBVIOUS
<1>1. ASSUME NEW j \in Jobs, BadAnswer(j) \/ Raise(j) PROVE TypeOK'
  <2>1. /\ Waiting(j) /\ kind' = kind /\ BreakerOK'
        /\ UNCHANGED <<place, serviceVars>> /\ UNCHANGED configVars
    BY <1>1, BreakerStep DEF BadAnswer, Raise
  <2>2. {"ok", "error"} \subseteq Answers \ {"nothing"}
    BY DEF Answers
  <2>3. \E answer \in Answers \ {"nothing"} : Tell(j, answer)
    BY <1>1, <2>2 DEF BadAnswer, Raise
  <2>4. seen' \in [Jobs -> SUBSET Jobs] /\ UNCHANGED <<config, answeredBefore>>
    BY <2>1 DEF configVars, TypeOK
  <2> QED
    BY <2>1, <2>3, <2>4, TypeHandler
<1>2. ASSUME NEW j \in Jobs, NEW c \in Effects, Perform(j, c) \/ Miss(j, c) PROVE TypeOK'
  <2>1. /\ <<j, c>> \in begun /\ <<j, c>> \notin done /\ <<j, c>> \notin failed
        /\ UNCHANGED <<kind, place, told, begun, seen, answeredBefore, failures, breaker>>
    BY <1>2 DEF Perform, Miss, Running, configVars
  <2>2. done' \in SUBSET begun' /\ failed' \in SUBSET (begun' \ done')
    BY <1>2, <2>1 DEF Perform, Miss, TypeOK
  <2>3. config' \in SUBSET Jobs
    BY <1>2 DEF Perform, Miss, configVars, TypeOK
  <2> QED
    BY <2>1, <2>2, <2>3 DEF TypeOK
<1>3. CASE Recover
  <2>1. BreakerOK'
    BY <1>3, BffAssumption DEF Recover, TypeOK, BreakerOK
  <2> QED
    BY <1>3, <2>1 DEF Recover, TypeOK, BreakerOK, serviceVars, configVars
<1>4. CASE UNCHANGED vars
  BY <1>4 DEF vars, TypeOK, serviceVars, configVars
<1> QED
  BY <1>1, <1>2, <1>3, <1>4, TypeArrive, TypeGoodAnswer, TypeTimeOut DEF Next

LEMMA TypeInit == Init => TypeOK
<1> SUFFICES ASSUME Init PROVE TypeOK
  OBVIOUS
<1>1. 0 \in 0..Threshold /\ 0 < Threshold
  BY BffAssumption
<1> QED
  BY <1>1 DEF Init, TypeOK, Answers

(* Types, and the breaker: it lets calls through as long as the failures    *)
(* have not reached the threshold.                                          *)
THEOREM CallsTypeCorrect == Spec => []TypeOK
<1>1. Init => TypeOK
  BY TypeInit
<1>2. TypeOK /\ [Next]_vars => TypeOK'
  BY TypeStep
<1> QED
  BY <1>1, <1>2, PTL DEF Spec

-----------------------------------------------------------------------------
(* What a job has set off: only what is in its plan up to its place, and    *)
(* what it passed is done, unless it was the answer that took too long, or  *)
(* a patch for which there was nothing to set.                              *)
Sent(j) ==
    \A c \in Effects :
        <<j, c>> \in begun =>
            /\ kind[j] # "none"
            /\ \E p \in 1..place[j] : Plan[kind[j]][p] = c

Current(j) == place[j] > 0 /\ Call(j) \in Effects => <<j, Call(j)>> \in begun

Passed(j) ==
    kind[j] # "none" =>
        \A p \in 1..(place[j] - 1) :
            LET c == Plan[kind[j]][p]
            IN  c \in Effects =>
                    \/ Did(j, c)
                    \/ c = "ask"
                    \/ c = "set" /\ <<j, c>> \notin begun

ToldOk(j) ==
    told[j] = "ok" =>
        /\ place[j] > 0
        /\ \/ Call(j) \in {"fetch", "file"}
           \/ Call(j) = "end" /\ <<j, "end">> \notin Running
           \/ Call(j) = "ask" /\ Did(j, "ask")
           \/ /\ place[j] = Len(Plan[kind[j]]) /\ kind[j] # "answer"
              /\ Call(j) \in Effects => Did(j, Call(j))

ToldRefunded(j) ==
    told[j] = "refunded" => place[j] > 0 /\ Call(j) = "write" /\ Did(j, "write")

JobOK(j) == Sent(j) /\ Current(j) /\ Passed(j) /\ ToldOk(j) /\ ToldRefunded(j)

JobsInv == TypeOK /\ \A j \in Jobs : JobOK(j)

(* A job that does not move stays right, whatever the others and the        *)
(* services do.                                                             *)
LEMMA Unmoved ==
    ASSUME JobsInv, NEW j \in Jobs,
           kind'[j] = kind[j], place'[j] = place[j], told'[j] = told[j],
           \A c \in Effects : <<j, c>> \in begun' <=> <<j, c>> \in begun,
           done \subseteq done', failed \subseteq failed'
    PROVE  JobOK(j)'
<1>1. JobOK(j)
  BY DEF JobsInv
<1>2. Call(j)' = Call(j)
  BY DEF Call
<1>3. Sent(j)'
  BY <1>1 DEF JobOK, Sent
<1>4. Current(j)'
  BY <1>1, <1>2 DEF JobOK, Current
<1>5. Passed(j)'
  BY <1>1 DEF JobOK, Passed, Did
<1>6. "end" \in Effects
  BY DEF Effects
<1>7. <<j, "end">> \notin Running => <<j, "end">> \notin Running'
  BY <1>6 DEF Running
<1>8. ToldOk(j)'
  BY <1>1, <1>2, <1>7 DEF JobOK, ToldOk, Did
<1>9. ToldRefunded(j)'
  BY <1>1, <1>2 DEF JobOK, ToldRefunded, Did
<1> QED
  BY <1>3, <1>4, <1>5, <1>8, <1>9 DEF JobOK

(* A handler that ends leaves what it set off as it is. *)
LEMMA Ended ==
    ASSUME JobsInv, NEW j \in Jobs, Waiting(j),
           UNCHANGED <<kind, place, serviceVars>>,
           NEW answer, Tell(j, answer),
           answer = "ok" =>
                \/ Call(j) \in {"fetch", "file"}
                \/ Call(j) = "end" /\ <<j, "end">> \notin Running
                \/ Call(j) = "ask" /\ Did(j, "ask")
                \/ /\ place[j] = Len(Plan[kind[j]]) /\ kind[j] # "answer"
                   /\ Call(j) \in Effects => Did(j, Call(j)),
           answer = "refunded" => Call(j) = "write" /\ Did(j, "write")
    PROVE  \A i \in Jobs : JobOK(i)'
<1>1. /\ told'[j] = answer /\ \A i \in Jobs \ {j} : told'[i] = told[i]
  BY DEF Tell, JobsInv, TypeOK
<1>2. \A i \in Jobs \ {j} : JobOK(i)'
  BY <1>1, Unmoved DEF serviceVars
<1>3. JobOK(j) /\ place[j] > 0
  BY DEF JobsInv, Waiting
<1>4. /\ Call(j)' = Call(j) /\ Running' = Running
      /\ UNCHANGED <<kind, place, begun, done, failed>>
  BY DEF Call, Running, serviceVars
<1>5. Sent(j)' /\ Current(j)' /\ Passed(j)'
  BY <1>3, <1>4 DEF JobOK, Sent, Current, Passed, Did
<1>6. ToldOk(j)' /\ ToldRefunded(j)'
  BY <1>1, <1>3, <1>4 DEF ToldOk, ToldRefunded, Did
<1>7. JobOK(j)'
  BY <1>5, <1>6 DEF JobOK
<1> QED
  BY <1>2, <1>7

(* A handler that goes on has what it waited for, and passes over no effect *)
(* but the new settings of a patch.                                         *)
LEMMA Advanced ==
    ASSUME JobsInv, NEW j \in Jobs, Waiting(j), UNCHANGED <<kind, told>>,
           NEW p \in 1..Len(Plan[kind[j]]), p > place[j],
           Send(j, kind[j], p),
           Call(j) \in Effects => Did(j, Call(j)) \/ Call(j) = "ask",
           \A q \in (place[j] + 1)..(p - 1) :
                Plan[kind[j]][q] \in Effects => Plan[kind[j]][q] = "set"
    PROVE  \A i \in Jobs : JobOK(i)'
<1> DEFINE k == kind[j]
           n == Len(Plan[k])
<1>1. /\ k \in Kinds /\ k # "none" /\ place[j] \in 1..n /\ n \in Nat /\ p \in Nat
      /\ told[j] = "nothing" /\ kind' = kind /\ told' = told /\ JobOK(j)
  BY PlanTable DEF JobsInv, TypeOK, Waiting
<1>2. /\ place'[j] = p
      /\ \A i \in Jobs \ {j} : place'[i] = place[i]
      /\ begun \subseteq begun' /\ begun' \subseteq begun \cup {<<j, Plan[k][p]>>}
      /\ Plan[k][p] \in Effects => <<j, Plan[k][p]>> \in begun'
      /\ done' = done /\ failed' = failed
  BY <1>1, Sending DEF JobsInv
<1>3. \A i \in Jobs \ {j} : JobOK(i)'
  BY <1>1, <1>2, Unmoved
<1>4. Sent(j)'
  <2> SUFFICES ASSUME NEW c \in Effects, <<j, c>> \in begun'
               PROVE  \E q \in 1..p : Plan[k][q] = c
    BY <1>1, <1>2 DEF Sent
  <2>1. CASE <<j, c>> \in begun
    <3>1. PICK q \in 1..place[j] : Plan[k][q] = c
      BY <1>1, <2>1 DEF JobOK, Sent
    <3>2. q \in 1..p
      BY <1>1, <3>1
    <3> QED
      BY <3>1, <3>2
  <2>2. CASE c = Plan[k][p]
    BY <2>2
  <2> QED
    BY <1>2, <2>1, <2>2
<1>5. Current(j)'
  BY <1>1, <1>2 DEF Current, Call
<1>6. Passed(j)'
  <2> SUFFICES ASSUME NEW q \in 1..(p - 1), Plan[k][q] \in Effects
               PROVE  \/ Did(j, Plan[k][q])
                      \/ Plan[k][q] = "ask"
                      \/ Plan[k][q] = "set" /\ <<j, Plan[k][q]>> \notin begun'
    BY <1>1, <1>2 DEF Passed, Did
  <2>1. q \in 1..n /\ q # p
    BY <1>1
  <2>2. Plan[k][q] # Plan[k][p]
    BY <1>1, <2>1, EffectsOnce
  <2>3. <<j, Plan[k][q]>> \in begun' => <<j, Plan[k][q]>> \in begun
    BY <1>2, <2>2
  <2>4. CASE q < place[j]
    <3>1. q \in 1..(place[j] - 1)
      BY <1>1, <2>4
    <3> QED
      BY <1>1, <2>3, <3>1 DEF JobOK, Passed
  <2>5. CASE q = place[j]
    BY <2>5 DEF Call
  <2>6. CASE q > place[j]
    <3>1. q \in (place[j] + 1)..(p - 1)
      BY <1>1, <2>6
    <3>2. Plan[k][q] = "set"
      BY <3>1
    <3>3. ASSUME <<j, Plan[k][q]>> \in begun PROVE FALSE
      <4>1. PICK r \in 1..place[j] : Plan[k][r] = Plan[k][q]
        BY <1>1, <3>3 DEF JobOK, Sent
      <4>2. r \in 1..n
        BY <1>1, <4>1
      <4>3. r = q
        BY <1>1, <2>1, <4>1, <4>2, EffectsOnce
      <4> QED
        BY <1>1, <2>6, <4>1, <4>3
    <3> QED
      BY <2>3, <3>2, <3>3
  <2> QED
    BY <1>1, <2>4, <2>5, <2>6
<1>7. ToldOk(j)' /\ ToldRefunded(j)'
  BY <1>1 DEF ToldOk, ToldRefunded
<1>8. JobOK(j)'
  BY <1>4, <1>5, <1>6, <1>7 DEF JobOK
<1> QED
  BY <1>3, <1>8

LEMMA JobsArrive ==
    ASSUME JobsInv, NEW j \in Jobs, NEW k \in Kinds, Arrive(j, k)
    PROVE  \A i \in Jobs : JobOK(i)'
<1>1. /\ kind[j] = "none" /\ told[j] = "nothing" /\ k # "none"
      /\ kind'[j] = k /\ \A i \in Jobs \ {j} : kind'[i] = kind[i]
  <2>1. k # "none"
    BY DEF Kinds, Plan
  <2> HIDE DEF Kinds
  <2> QED
    BY <2>1 DEF Arrive, JobsInv, TypeOK
<1>2. \A c \in Effects : <<j, c>> \notin begun
  BY <1>1 DEF JobsInv, JobOK, Sent
<1>3. CASE Send(j, k, 1) /\ UNCHANGED told
  <2>1. /\ place'[j] = 1 /\ \A i \in Jobs \ {j} : place'[i] = place[i]
        /\ begun \subseteq begun' /\ begun' \subseteq begun \cup {<<j, Plan[k][1]>>}
        /\ Plan[k][1] \in Effects => <<j, Plan[k][1]>> \in begun'
        /\ done' = done /\ failed' = failed /\ told' = told
    BY <1>3, Sending DEF JobsInv
  <2>2. \A i \in Jobs \ {j} : JobOK(i)'
    BY <1>1, <2>1, Unmoved
  <2>3. Sent(j)'
    <3>1. ASSUME NEW c \in Effects, <<j, c>> \in begun' PROVE c = Plan[k][1]
      BY <1>2, <2>1, <3>1
    <3> QED
      BY <1>1, <2>1, <3>1 DEF Sent
  <2>4. Current(j)' /\ Passed(j)' /\ ToldOk(j)' /\ ToldRefunded(j)'
    BY <1>1, <2>1 DEF Current, Passed, ToldOk, ToldRefunded, Call
  <2> QED
    BY <2>2, <2>3, <2>4 DEF JobOK
<1>4. CASE Tell(j, "error") /\ UNCHANGED <<place, serviceVars>>
  <2>1. /\ told'[j] = "error" /\ \A i \in Jobs \ {j} : told'[i] = told[i]
    BY <1>4 DEF Tell, JobsInv, TypeOK
  <2>2. \A i \in Jobs \ {j} : JobOK(i)'
    BY <1>1, <1>4, <2>1, Unmoved DEF serviceVars
  <2>3. place'[j] = 0 /\ begun' = begun
    BY <1>1, <1>4 DEF serviceVars, JobsInv, TypeOK
  <2>4. JobOK(j)'
    BY <1>1, <1>2, <2>1, <2>3 DEF JobOK, Sent, Current, Passed, ToldOk, ToldRefunded
  <2> QED
    BY <2>2, <2>4
<1> QED
  BY <1>3, <1>4 DEF Arrive

LEMMA JobsGoodAnswer ==
    ASSUME JobsInv, NEW j \in Jobs, GoodAnswer(j)
    PROVE  \A i \in Jobs : JobOK(i)'
<1>1. /\ Waiting(j) /\ kind' = kind
      /\ Call(j) \in Effects => Did(j, Call(j))
  BY DEF GoodAnswer, Did
<1>2. PICK p \in Following(j) :
          IF p <= Len(Plan[kind[j]])
          THEN Send(j, kind[j], p) /\ UNCHANGED told
          ELSE /\ Tell(j, IF kind[j] = "answer" /\ Call(j) = "write" THEN "refunded" ELSE "ok")
               /\ UNCHANGED <<place, serviceVars>>
  BY DEF GoodAnswer
<1>3. /\ kind[j] \in Kinds /\ place[j] \in 1..Len(Plan[kind[j]])
      /\ Len(Plan[kind[j]]) \in Nat /\ p \in Nat /\ p > place[j]
      /\ p <= Len(Plan[kind[j]]) =>
            \A q \in (place[j] + 1)..(p - 1) :
               Plan[kind[j]][q] \in Effects => Plan[kind[j]][q] = "set"
      /\ p > Len(Plan[kind[j]]) =>
            place[j] = Len(Plan[kind[j]]) \/ Call(j) \in {"fetch", "file", "ask"}
  BY <1>1, FollowingBounds, PlanTable DEF JobsInv
<1>4. CASE p <= Len(Plan[kind[j]])
  <2>1. p \in 1..Len(Plan[kind[j]])
    BY <1>3, <1>4
  <2> QED
    BY <1>1, <1>2, <1>3, <1>4, <2>1, Advanced
<1>5. CASE p > Len(Plan[kind[j]])
  <2>1. ~(p <= Len(Plan[kind[j]])) /\ {"ask", "write"} \subseteq Effects
    BY <1>3, <1>5 DEF Effects
  <2>2. kind[j] = "answer" /\ place[j] = Len(Plan[kind[j]]) => Call(j) = "write"
    BY PlanEnds DEF Call
  <2>3. CASE kind[j] = "answer" /\ Call(j) = "write"
    <3>1. Tell(j, "refunded") /\ UNCHANGED <<place, serviceVars>> /\ Did(j, "write")
      BY <1>1, <1>2, <2>1, <2>3
    <3> QED
      BY <1>1, <2>3, <3>1, Ended
  <2>4. CASE ~(kind[j] = "answer" /\ Call(j) = "write")
    <3>1. Tell(j, "ok") /\ UNCHANGED <<place, serviceVars>>
      BY <1>2, <2>1, <2>4
    <3>2. Call(j) = "ask" => Did(j, "ask")
      BY <1>1, <2>1
    <3>3. \/ Call(j) \in {"fetch", "file"}
          \/ Call(j) = "end" /\ <<j, "end">> \notin Running
          \/ Call(j) = "ask" /\ Did(j, "ask")
          \/ /\ place[j] = Len(Plan[kind[j]]) /\ kind[j] # "answer"
             /\ Call(j) \in Effects => Did(j, Call(j))
      BY <1>1, <1>3, <1>5, <2>2, <2>4, <3>2
    <3> QED
      BY <1>1, <3>1, <3>3, Ended
  <2> QED
    BY <2>3, <2>4
<1> QED
  BY <1>3, <1>4, <1>5

LEMMA JobsTimeOut ==
    ASSUME JobsInv, NEW j \in Jobs, TimeOut(j)
    PROVE  \A i \in Jobs : JobOK(i)'
<1>1. Waiting(j) /\ kind' = kind
  BY DEF TimeOut
<1>2. CASE UNCHANGED <<place, serviceVars>> /\ (Tell(j, "timed_out") \/ Tell(j, "error"))
  BY <1>1, <1>2, Ended
<1>3. CASE Call(j) = "ask" /\ Send(j, kind[j], place[j] + 1) /\ UNCHANGED told
  <2>1. /\ kind[j] \in Kinds /\ place[j] \in 1..Len(Plan[kind[j]])
        /\ Plan[kind[j]][place[j]] = "ask"
    BY <1>1, <1>3, PlanTable DEF JobsInv, TypeOK, Waiting, Call
  <2>2. Marked(kind[j], place[j])
    BY <2>1, PlanTable
  <2>3. kind[j] = "answer" /\ place[j] = 2
    BY <2>1, <2>2 DEF Marked
  <2>4. /\ place[j] + 1 \in 1..Len(Plan[kind[j]]) /\ place[j] + 1 > place[j]
        /\ (place[j] + 1)..(place[j] + 1 - 1) = {}
    BY <2>3, PlanEnds
  <2> QED
    BY <1>1, <1>3, <2>4, Advanced
<1> QED
  BY <1>2, <1>3 DEF TimeOut

LEMMA JobsStep == JobsInv /\ [Next]_vars => JobsInv'
<1> SUFFICES ASSUME JobsInv, [Next]_vars PROVE JobsInv'
  OBVIOUS
<1>1. TypeOK'
  BY TypeStep DEF JobsInv
<1>2. ASSUME NEW j \in Jobs, BadAnswer(j) PROVE \A i \in Jobs : JobOK(i)'
  <2>1. /\ Waiting(j) /\ <<j, Call(j)>> \notin Running
        /\ UNCHANGED <<kind, place, serviceVars>>
        /\ Tell(j, IF Call(j) \in {"end", "file"} THEN "ok" ELSE "error")
    BY <1>2 DEF BadAnswer
  <2> QED
    BY <2>1, Ended
<1>3. ASSUME NEW j \in Jobs, Raise(j) PROVE \A i \in Jobs : JobOK(i)'
  BY <1>3, Ended DEF Raise
<1>4. ASSUME NEW j \in Jobs, NEW c \in Effects, Perform(j, c) \/ Miss(j, c)
      PROVE  \A i \in Jobs : JobOK(i)'
  <2>1. /\ UNCHANGED <<kind, place, told, begun>>
        /\ done \subseteq done' /\ failed \subseteq failed'
    BY <1>4 DEF Perform, Miss
  <2> QED
    BY <2>1, Unmoved
<1>5. CASE Recover \/ UNCHANGED vars
  <2>1. UNCHANGED <<kind, place, told, begun, done, failed>>
    BY <1>5 DEF Recover, vars, serviceVars
  <2> QED
    BY <1>1, <2>1, Unmoved DEF JobsInv
<1> QED
  BY <1>1, <1>2, <1>3, <1>4, <1>5, JobsArrive, JobsGoodAnswer, JobsTimeOut
     DEF Next, JobsInv

(* Every step keeps that, whoever makes it.                                 *)
THEOREM JobsInvariant == Spec => []JobsInv
<1>1. Init => JobsInv
  BY TypeInit DEF Init, JobsInv, JobOK, Sent, Current, Passed, ToldOk, ToldRefunded
<1>2. JobsInv /\ [Next]_vars => JobsInv'
  BY JobsStep
<1> QED
  BY <1>1, <1>2, PTL DEF Spec

(* Where a job is that has set off an effect, and what is behind it.        *)
LEMMA Reached ==
    ASSUME JobsInv, NEW j \in Jobs, NEW c \in Effects, <<j, c>> \in begun
    PROVE  /\ kind[j] \in Kinds /\ kind[j] # "none"
           /\ \E p \in 1..place[j] : Plan[kind[j]][p] = c /\ Marked(kind[j], p)
<1>1. /\ kind[j] \in Kinds /\ kind[j] # "none" /\ place[j] \in Nat
      /\ place[j] > 0 => place[j] \in 1..Len(Plan[kind[j]])
  BY PlanTable DEF JobsInv, JobOK, Sent, TypeOK
<1>2. PICK p \in 1..place[j] : Plan[kind[j]][p] = c
  BY DEF JobsInv, JobOK, Sent
<1>3. p \in 1..Len(Plan[kind[j]])
  BY <1>1, <1>2, PlanTable
<1>4. Marked(kind[j], p)
  BY <1>1, <1>3, PlanTable
<1> QED
  BY <1>1, <1>2, <1>4

(* A job that was told of success is at the end of its plan, or at one of   *)
(* the calls at which a handler may stop.                                   *)
LEMMA Stopped ==
    ASSUME JobsInv, NEW j \in Jobs, told[j] = "ok"
    PROVE  /\ kind[j] \in Kinds /\ place[j] \in 1..Len(Plan[kind[j]])
           /\ Call(j) = Plan[kind[j]][place[j]]
           /\ \/ kind[j] = "sources" /\ place[j] = 3
              \/ kind[j] = "preview"
              \/ kind[j] = "logout" /\ Call(j) = "end" /\ <<j, "end">> \notin Running
              \/ kind[j] = "answer" /\ Did(j, "ask")
              \/ /\ place[j] = Len(Plan[kind[j]]) /\ kind[j] # "answer"
                 /\ Call(j) \in Effects => Did(j, Call(j))
           /\ kind[j] = "answer" => Call(j) = "ask" /\ place[j] = 2
<1>1. place[j] > 0 /\ ToldOk(j)
  BY DEF JobsInv, JobOK, ToldOk
<1>2. kind[j] \in Kinds /\ place[j] \in 1..Len(Plan[kind[j]])
  BY <1>1, PlanTable DEF JobsInv, TypeOK
<1>3. Call(j) = Plan[kind[j]][place[j]]
  BY DEF Call
<1>4. Marked(kind[j], place[j])
  BY <1>2, PlanTable
<1>5. /\ Call(j) = "fetch" => kind[j] = "sources" /\ place[j] = 3
      /\ Call(j) = "file" => kind[j] = "preview"
      /\ Call(j) = "end" => kind[j] = "logout"
      /\ Call(j) = "ask" => kind[j] = "answer" /\ place[j] = 2
  BY <1>3, <1>4 DEF Marked
<1> QED
  BY <1>1, <1>2, <1>3, <1>5 DEF ToldOk

(* An effect of the plan of who was told of success, other than a logout,   *)
(* has been done, or there was no need of it and it was never sent: what    *)
(* lies before the place was passed, the place is where the handler         *)
(* stopped, and nothing beyond it has been sent.                            *)
LEMMA DoneOrLeftOut ==
    ASSUME JobsInv, NEW j \in Jobs, told[j] = "ok", kind[j] # "logout",
           NEW c \in EffectsOf(kind[j])
    PROVE  \/ Did(j, c)
           \/ <<j, c>> \notin begun /\ <<kind[j], c>> \in MayBeLeftOut
<1> DEFINE k == kind[j]
<1>1. /\ k \in Kinds /\ k # "none" /\ place[j] \in 1..Len(Plan[k]) /\ Len(Plan[k]) \in Nat
      /\ Call(j) = Plan[k][place[j]]
  <2>1. "none" \notin Kinds
    BY DEF Kinds, Plan
  <2>2. k \in Kinds /\ place[j] \in 1..Len(Plan[k]) /\ Call(j) = Plan[k][place[j]]
    BY Stopped
  <2> HIDE DEF k, Kinds
  <2>3. Len(Plan[k]) \in Nat
    BY <2>2, PlanTable
  <2> QED
    BY <2>1, <2>2, <2>3
<1>2. PICK p \in 1..Len(Plan[k]) : Plan[k][p] = c
  BY <1>1, PlanTable DEF EffectsOf
<1>3. c \in Effects /\ Marked(k, p)
  BY <1>1, <1>2, PlanTable DEF EffectsOf
<1>4. \/ k = "sources" /\ place[j] = 3
      \/ k = "preview"
      \/ k = "answer" /\ Did(j, "ask") /\ Call(j) = "ask" /\ place[j] = 2
      \/ /\ place[j] = Len(Plan[k]) /\ k # "answer"
         /\ Call(j) \in Effects => Did(j, Call(j))
  BY Stopped
<1>5. k # "preview" /\ <<k, p>> # <<"sources", 3>>
  BY <1>2, <1>3 DEF Marked, Effects
<1>6. CASE p < place[j]
  <2>1. Did(j, c) \/ c = "ask" \/ (c = "set" /\ <<j, c>> \notin begun)
    <3>1. p \in 1..(place[j] - 1)
      BY <1>1, <1>6
    <3> QED
      BY <1>1, <1>2, <1>3, <3>1 DEF JobsInv, JobOK, Passed
  <2>2. c # "ask"
    <3>1. c = "ask" => k = "answer" /\ p = 2
      BY <1>2, <1>3 DEF Marked
    <3>2. k = "answer" => place[j] = 2
      BY <1>4
    <3> QED
      BY <1>6, <3>1, <3>2
  <2>3. c = "set" => <<k, c>> \in MayBeLeftOut
    <3> SUFFICES ASSUME c = "set" PROVE <<k, c>> \in MayBeLeftOut
      OBVIOUS
    <3>1. k = "patch" \/ (k = "configuration" /\ p = 4)
      BY <1>2, <1>3 DEF Marked
    <3>2. k = "configuration" => place[j] = 4
      BY <1>1, <1>4, PlanEnds
    <3>3. ~(k = "configuration" /\ p = 4)
      BY <1>6, <3>2
    <3>4. k = "patch"
      BY <3>1, <3>3
    <3>5. <<k, c>> = <<"patch", "set">>
      BY <3>4, Zenon
    <3> QED
      BY <3>5, Zenon DEF MayBeLeftOut
  <2> QED
    BY <2>1, <2>2, <2>3
<1>7. CASE p = place[j]
  BY <1>1, <1>2, <1>3, <1>4, <1>5, <1>7
<1>8. CASE p > place[j]
  <2>1. <<k, c>> \in MayBeLeftOut
    <3>1. ASSUME k = "sources" PROVE p = 4
      <4>1. Len(Plan[k]) = 4 /\ p \in 1..4 /\ p > place[j]
        BY <1>8, <3>1, PlanEnds
      <4>2. place[j] = 3 \/ place[j] = 4
        BY <1>4, <3>1, <4>1
      <4> QED
        BY <4>1, <4>2
    <3>2. k = "sources" => c = "save"
      BY <1>2, <3>1, PlanEnds
    <3>3. k = "answer" => p # 2
      BY <1>4, <1>8
    <3>4. k = "answer" => c = "write"
      BY <1>2, <1>3, <3>3 DEF Marked, Effects
    <3>5. k = "sources" \/ k = "answer"
      BY <1>1, <1>4, <1>5, <1>8
    <3> QED
      BY <3>2, <3>4, <3>5 DEF MayBeLeftOut
  <2>2. <<j, c>> \notin begun
    <3>1. ASSUME <<j, c>> \in begun PROVE FALSE
      <4>1. PICK q \in 1..place[j] : Plan[k][q] = c
        BY <1>3, <3>1, Reached
      <4>2. q \in 1..Len(Plan[k])
        BY <1>1, <4>1
      <4>3. q = p
        BY <1>1, <1>2, <1>3, <4>1, <4>2, EffectsOnce
      <4> QED
        BY <1>1, <1>8, <4>1, <4>3
    <3> QED
      BY <3>1
  <2> QED
    BY <2>1, <2>2
<1> QED
  BY <1>1, <1>6, <1>7, <1>8

(* And nothing is under way any more, for a logout either. *)
LEMMA NothingUnderWay ==
    ASSUME JobsInv, NEW j \in Jobs, told[j] = "ok", NEW c \in Effects
    PROVE  <<j, c>> \notin Running
<1> SUFFICES ASSUME <<j, c>> \in begun, ~Did(j, c), <<j, c>> \in Running
             PROVE  FALSE
  BY DEF Running, Did
<1>1. /\ kind[j] \in Kinds /\ place[j] \in 1..Len(Plan[kind[j]])
      /\ Len(Plan[kind[j]]) \in Nat /\ DOMAIN Plan[kind[j]] = 1..Len(Plan[kind[j]])
  <2> HIDE DEF Kinds
  <2> QED
    BY Stopped, PlanTable
<1>2. PICK p \in 1..place[j] : Plan[kind[j]][p] = c /\ Marked(kind[j], p)
  BY Reached
<1>3. CASE kind[j] # "logout"
  <2>1. c \in EffectsOf(kind[j])
    BY <1>1, <1>2 DEF EffectsOf
  <2> QED
    BY <1>3, <2>1, DoneOrLeftOut
<1>4. CASE kind[j] = "logout"
  <2>1. c = "end" /\ p = 7
    BY <1>2, <1>4 DEF Marked, Effects
  <2>2. place[j] = 7 /\ Call(j) = "end"
    BY <1>1, <1>2, <1>4, <2>1, PlanEnds DEF Call
  <2> QED
    BY <1>4, <2>1, <2>2, Stopped
<1> QED
  BY <1>3, <1>4

LEMMA DoneByPlan == JobsInv => DoneIsDone
BY DoneOrLeftOut, NothingUnderWay DEF DoneIsDone, JobsInv, JobOK, ToldRefunded

(* Whatever timed out on the way: who is told of success has nothing under  *)
(* way any more, and the request has had all its effects, but for those     *)
(* there was no need of and for the end of a session.                       *)
THEOREM GoodAnswersAreTrue == Spec => []DoneIsDone
BY JobsInvariant, DoneByPlan, PTL

LEMMA OrderByPlan == JobsInv => EffectsInOrder
<1> SUFFICES ASSUME JobsInv, NEW j \in Jobs
             PROVE  /\ kind[j] = "answer" /\ <<j, "write">> \in begun => told[j] # "ok"
                    /\ kind[j] \in {"question", "conversation"} /\ <<j, "write">> \in begun =>
                          Did(j, "create")
                    /\ <<j, "extract">> \in begun => Did(j, "register")
  BY DEF EffectsInOrder
<1>1. {"write", "extract", "create", "register"} \subseteq Effects
  BY DEF Effects
<1>2. place[j] \in Nat
  BY DEF JobsInv, TypeOK
<1>3. ASSUME NEW p \in 1..(place[j] - 1), kind[j] # "none", Plan[kind[j]][p] \in Effects,
             Plan[kind[j]][p] \notin {"ask", "set"}
      PROVE  Did(j, Plan[kind[j]][p])
  BY <1>3 DEF JobsInv, JobOK, Passed
<1>4. ASSUME <<j, "write">> \in begun
      PROVE  /\ kind[j] = "answer" => told[j] # "ok"
             /\ kind[j] \in {"question", "conversation"} => Did(j, "create")
  <2>1. PICK p \in 1..place[j] : Plan[kind[j]][p] = "write" /\ Marked(kind[j], p)
    BY <1>1, <1>4, Reached
  <2>2. <<kind[j], p>> \in {<<"question", 12>>, <<"conversation", 11>>, <<"answer", 8>>}
    BY <2>1 DEF Marked
  <2>3. kind[j] = "answer" => told[j] # "ok"
    <3>1. kind[j] = "answer" => p = 8
      BY <2>2
    <3>2. kind[j] = "answer" /\ told[j] = "ok" => place[j] = 2
      BY Stopped
    <3> QED
      BY <1>2, <2>1, <3>1, <3>2
  <2>4. CASE kind[j] = "question"
    <3>1. 6 \in 1..(place[j] - 1) /\ Plan[kind[j]][6] = "create"
      BY <1>2, <2>1, <2>2, <2>4, PlanEnds
    <3> QED
      BY <1>1, <1>3, <2>3, <2>4, <3>1
  <2>5. CASE kind[j] = "conversation"
    <3>1. 5 \in 1..(place[j] - 1) /\ Plan[kind[j]][5] = "create"
      BY <1>2, <2>1, <2>2, <2>5, PlanEnds
    <3> QED
      BY <1>1, <1>3, <2>3, <2>5, <3>1
  <2> QED
    BY <2>3, <2>4, <2>5
<1>5. ASSUME <<j, "extract">> \in begun
      PROVE  Did(j, "register")
  <2>1. PICK p \in 1..place[j] : Plan[kind[j]][p] = "extract" /\ Marked(kind[j], p)
    BY <1>1, <1>5, Reached
  <2>2. <<kind[j], p>> = <<"source", 3>>
    BY <2>1 DEF Marked
  <2>3. 2 \in 1..(place[j] - 1) /\ Plan[kind[j]][2] = "register" /\ kind[j] # "none"
    BY <1>2, <2>1, <2>2, PlanEnds
  <2> QED
    BY <1>1, <1>3, <2>3
<1> QED
  BY <1>4, <1>5

(* Charges, extractions and refunds come after what they are for.           *)
THEOREM EffectsAreOrdered == Spec => []EffectsInOrder
BY JobsInvariant, OrderByPlan, PTL

-----------------------------------------------------------------------------
(* Which settings are lost.  What was confirmed before a patch came is in   *)
(* what the patch read, or has been replaced for a reason that stays one.   *)
Overwritten(j) ==
    \E k \in Jobs \ {j} :
        Did(k, "set") /\ (kind[k] = "configuration" \/ j \notin answeredBefore[k])

SettingsInv ==
    /\ \A j, k \in Jobs : j \in answeredBefore[k] => told[j] = "ok"
    /\ \A j \in Jobs : Did(j, "set") /\ j \notin config => Overwritten(j)
    /\ \A j, k \in Jobs :
          kind[k] = "patch" /\ <<k, "set">> \in begun /\ j \in answeredBefore[k] /\ Did(j, "set") =>
              j \in seen[k] \/ Overwritten(j)

LEMMA SetBy ==
    ASSUME JobsInv, NEW j \in Jobs, <<j, "set">> \in begun
    PROVE  \/ kind[j] = "patch" /\ place[j] >= 7
           \/ kind[j] = "configuration" /\ place[j] >= 4
<1>1. "set" \in Effects /\ place[j] \in Nat
  BY DEF Effects, JobsInv, TypeOK
<1>2. PICK p \in 1..place[j] : Plan[kind[j]][p] = "set" /\ Marked(kind[j], p)
  BY <1>1, Reached
<1>3. <<kind[j], p>> \in {<<"patch", 7>>, <<"configuration", 4>>}
  BY <1>2 DEF Marked
<1> QED
  BY <1>1, <1>2, <1>3

(* Who has been told that settings are set waits for no late one.           *)
LEMMA NoLateSet ==
    ASSUME JobsInv, NEW j \in Jobs, told[j] = "ok"
    PROVE  <<j, "set">> \notin Running
<1> SUFFICES ASSUME <<j, "set">> \in begun PROVE Did(j, "set")
  BY DEF Running, Did
<1>1. "set" \in Effects /\ "set" # "ask"
  BY DEF Effects
<1>2. (kind[j] = "patch" /\ place[j] >= 7) \/ (kind[j] = "configuration" /\ place[j] >= 4)
  BY SetBy
<1>3. /\ place[j] = Len(Plan[kind[j]]) /\ (Call(j) \in Effects => Did(j, Call(j)))
      /\ Call(j) = Plan[kind[j]][place[j]]
  BY <1>2, Stopped
<1>4. CASE kind[j] = "configuration"
  BY <1>1, <1>3, <1>4, PlanEnds
<1>5. CASE kind[j] = "patch"
  <2>1. 7 \in 1..(place[j] - 1) /\ Plan[kind[j]][7] = "set" /\ kind[j] # "none"
    BY <1>3, <1>5, PlanEnds
  <2>2. place[j] > 0
    BY <2>1, <1>2 DEF JobsInv, TypeOK
  <2> QED
    BY <1>1, <2>1, <2>2 DEF JobsInv, JobOK, Passed
<1> QED
  BY <1>2, <1>4, <1>5

LEMMA NewlySent ==
    ASSUME NEW j, NEW k, NEW p, Send(j, k, p), NEW i, NEW c,
           <<i, c>> \in begun', <<i, c>> \notin begun
    PROVE  i = j /\ Plan[k][p] = c
<1>1. begun' = begun \/ begun' = begun \cup {<<j, Plan[k][p]>>}
  BY DEF Send
<1>2. <<i, c>> = <<j, Plan[k][p]>>
  BY <1>1
<1> HIDE DEF Plan
<1> QED
  BY <1>2

(* Only a patch that has just read the configuration goes on to set it. *)
LEMMA SetIsSent ==
    ASSUME JobsInv, NEW j \in Jobs, GoodAnswer(j), kind[j] = "patch",
           <<j, "set">> \notin begun, <<j, "set">> \in begun'
    PROVE  Call(j) = "read"
<1>1. Waiting(j) /\ TypeOK
  BY DEF GoodAnswer, JobsInv
<1>2. PICK p \in Following(j) : p <= Len(Plan[kind[j]]) /\ Send(j, kind[j], p)
  BY DEF GoodAnswer, serviceVars
<1>3. /\ kind[j] \in Kinds /\ place[j] \in 1..Len(Plan[kind[j]])
      /\ p \in Nat /\ p > place[j] /\ Len(Plan[kind[j]]) \in Nat
  BY <1>1, FollowingBounds, PlanTable
<1>4. Plan[kind[j]][p] = "set"
  BY <1>2, NewlySent
<1>5. Marked(kind[j], p) /\ Marked(kind[j], place[j])
  <2>1. p \in 1..Len(Plan[kind[j]])
    BY <1>2, <1>3
  <2> QED
    BY <1>3, <2>1, PlanTable
<1>6. p = 7
  BY <1>4, <1>5 DEF Marked
<1>7. Call(j) = Plan[kind[j]][place[j]]
  BY DEF Call
<1>8. Call(j) \notin {"fetch", "metadata", "ask", "file"}
  BY <1>5, <1>7 DEF Marked
<1>9. CASE Call(j) = "read"
  BY <1>9
<1>10. CASE Call(j) # "read"
  <2>1. Following(j) = {place[j] + 1}
    <3> HIDE DEF Call
    <3> QED
      BY <1>8, <1>10 DEF Following
  <2>2. place[j] = 6
    BY <1>3, <1>6, <2>1
  <2> QED
    BY <1>7, <2>2, PlanEnds
<1> QED
  BY <1>9, <1>10

(* What a step may do to settings, and to what others know of them.         *)
LEMMA SettingsMoves ==
    ASSUME JobsInv, [Next]_vars
    PROVE  /\ done \subseteq done'
           /\ \A i \in Jobs :
                 /\ told[i] = "ok" => told'[i] = "ok"
                 /\ kind[i] # "none" =>
                       kind'[i] = kind[i] /\ answeredBefore'[i] = answeredBefore[i]
                 /\ kind[i] = "none" => \A m \in answeredBefore'[i] :
                       told[m] = "ok" \/ m \in answeredBefore[i]
                 /\ <<i, "set">> \in begun => seen'[i] = seen[i]
                 /\ <<i, "set">> \in begun' \ begun /\ kind'[i] = "patch" =>
                       seen'[i] = config /\ config' = config /\ done' = done
           /\ \/ config' = config /\ \A i \in Jobs : Did(i, "set")' => Did(i, "set")
              \/ \E k \in Jobs : Perform(k, "set")
<1> DEFINE Moves ==
        /\ done \subseteq done'
        /\ \A i \in Jobs :
              /\ told[i] = "ok" => told'[i] = "ok"
              /\ kind[i] # "none" =>
                    kind'[i] = kind[i] /\ answeredBefore'[i] = answeredBefore[i]
              /\ kind[i] = "none" => \A m \in answeredBefore'[i] :
                    told[m] = "ok" \/ m \in answeredBefore[i]
              /\ <<i, "set">> \in begun => seen'[i] = seen[i]
              /\ <<i, "set">> \in begun' \ begun /\ kind'[i] = "patch" =>
                    seen'[i] = config /\ config' = config /\ done' = done
        /\ \/ config' = config /\ \A i \in Jobs : Did(i, "set")' => Did(i, "set")
           \/ \E k \in Jobs : Perform(k, "set")
<1>1. /\ TypeOK /\ told \in [Jobs -> Answers]
      /\ kind \in [Jobs -> Kinds \cup {"none"}]
      /\ answeredBefore \in [Jobs -> SUBSET Jobs] /\ seen \in [Jobs -> SUBSET Jobs]
  BY DEF JobsInv, TypeOK
<1>2. ASSUME NEW j \in Jobs, NEW k \in Kinds, Arrive(j, k) PROVE Moves
  <2>1. /\ kind[j] = "none" /\ kind' = [kind EXCEPT ![j] = k]
        /\ answeredBefore' = [answeredBefore EXCEPT ![j] = {i \in Jobs : told[i] = "ok"}]
        /\ config' = config /\ seen' = seen
    BY <1>2 DEF Arrive
  <2>2. told[j] = "nothing"
    BY <1>1, <2>1 DEF TypeOK
  <2>3. done' = done /\ \A i \in Jobs : told[i] = "ok" => told'[i] = "ok"
    BY <1>1, <1>2, <2>2 DEF Arrive, Send, Tell, serviceVars
  <2>4. \A i \in Jobs : <<i, "set">> \in begun' => <<i, "set">> \in begun
    <3>1. CASE Send(j, k, 1)
      <4>1. 1 \in 1..Len(Plan[k]) /\ 1 \in Nat
        BY PlanTable
      <4>2. Marked(k, 1)
        BY <4>1, PlanTable
      <4>3. Plan[k][1] # "set"
        BY <4>2 DEF Marked
      <4> QED
        BY <3>1, <4>3, NewlySent
    <3>2. CASE UNCHANGED serviceVars
      BY <3>2 DEF serviceVars
    <3> QED
      BY <1>2, <3>1, <3>2 DEF Arrive
  <2>5. \A i \in Jobs \ {j} : kind'[i] = kind[i] /\ answeredBefore'[i] = answeredBefore[i]
    BY <1>1, <2>1
  <2>6. \A m \in answeredBefore'[j] : told[m] = "ok"
    BY <1>1, <2>1
  <2>7. \A i \in Jobs : kind[i] # "none" =>
            kind'[i] = kind[i] /\ answeredBefore'[i] = answeredBefore[i]
    BY <2>1, <2>5
  <2>8. \A i \in Jobs : kind[i] = "none" => \A m \in answeredBefore'[i] :
            told[m] = "ok" \/ m \in answeredBefore[i]
    BY <2>5, <2>6
  <2> QED
    BY <2>1, <2>3, <2>4, <2>7, <2>8 DEF Did
<1>3. ASSUME NEW j \in Jobs, GoodAnswer(j) PROVE Moves
  <2>1. /\ Waiting(j) /\ kind' = kind /\ config' = config /\ answeredBefore' = answeredBefore
        /\ seen' = IF Call(j) = "read" THEN [seen EXCEPT ![j] = config] ELSE seen
    BY <1>3 DEF GoodAnswer, Take
  <2>2. done' = done /\ \A i \in Jobs : told[i] = "ok" => told'[i] = "ok"
    <3>1. told[j] = "nothing" /\ done' = done
      BY <1>3 DEF GoodAnswer, Waiting, Send, serviceVars
    <3>2. (\E a : Tell(j, a)) \/ told' = told
      BY <1>3 DEF GoodAnswer
    <3> QED
      BY <1>1, <3>1, <3>2 DEF Tell
  <2>3. \A i \in Jobs : <<i, "set">> \in begun' /\ <<i, "set">> \notin begun => i = j
    <3>1. CASE UNCHANGED serviceVars
      BY <3>1 DEF serviceVars
    <3>2. ASSUME NEW p \in Following(j), Send(j, kind[j], p)
          PROVE  \A i \in Jobs : <<i, "set">> \in begun' /\ <<i, "set">> \notin begun => i = j
      BY <3>2, NewlySent
    <3> QED
      BY <1>3, <3>1, <3>2 DEF GoodAnswer
  <2>4. <<j, "set">> \in begun => seen' = seen
    <3>1. CASE <<j, "set">> \in begun /\ Call(j) = "read"
      <4>1. kind[j] \in Kinds /\ place[j] \in 1..Len(Plan[kind[j]])
        BY <1>1, <2>1, PlanTable DEF TypeOK, Waiting
      <4>2. Marked(kind[j], place[j]) /\ Plan[kind[j]][place[j]] = "read"
        BY <3>1, <4>1, PlanTable DEF Call
      <4>3. kind[j] = "patch" /\ place[j] = 6
        BY <4>2 DEF Marked
      <4> QED
        BY <3>1, <4>3, SetBy
    <3> QED
      BY <2>1, <3>1
  <2>5. <<j, "set">> \in begun' /\ <<j, "set">> \notin begun /\ kind[j] = "patch" =>
            seen'[j] = config
    <3>1. ASSUME <<j, "set">> \in begun', <<j, "set">> \notin begun, kind[j] = "patch"
          PROVE  Call(j) = "read"
      BY <1>3, <3>1, SetIsSent
    <3> QED
      BY <1>1, <2>1, <3>1
  <2>6. \A i \in Jobs \ {j} : seen'[i] = seen[i]
    BY <1>1, <2>1
  <2>7. \A i \in Jobs :
            /\ <<i, "set">> \in begun => seen'[i] = seen[i]
            /\ <<i, "set">> \in begun' \ begun /\ kind'[i] = "patch" => seen'[i] = config
    BY <2>1, <2>3, <2>4, <2>5, <2>6
  <2> QED
    BY <2>1, <2>2, <2>7 DEF Did
<1>4. ASSUME NEW j \in Jobs, BadAnswer(j) \/ Raise(j) \/ TimeOut(j) PROVE Moves
  <2>1. /\ told[j] = "nothing" /\ kind' = kind /\ UNCHANGED configVars
        /\ (\E a : Tell(j, a)) \/ told' = told
    BY <1>4 DEF BadAnswer, Raise, TimeOut, Waiting
  <2>2. \A i \in Jobs : told[i] = "ok" => told'[i] = "ok"
    BY <1>1, <2>1 DEF Tell
  <2>3. done' = done
    BY <1>4 DEF BadAnswer, Raise, TimeOut, serviceVars, Send
  <2>4. \A i \in Jobs : <<i, "set">> \in begun' => <<i, "set">> \in begun
    <3>1. CASE UNCHANGED serviceVars
      BY <3>1 DEF serviceVars
    <3>2. CASE Call(j) = "ask" /\ Waiting(j) /\ Send(j, kind[j], place[j] + 1)
      <4>1. /\ kind[j] \in Kinds /\ place[j] \in 1..Len(Plan[kind[j]])
            /\ Plan[kind[j]][place[j]] = "ask"
        BY <1>1, <3>2, PlanTable DEF TypeOK, Waiting, Call
      <4>2. Marked(kind[j], place[j])
        BY <4>1, PlanTable
      <4>3. kind[j] = "answer" /\ place[j] = 2
        BY <4>1, <4>2 DEF Marked
      <4>4. 3 \in 1..Len(Plan["answer"]) /\ "answer" \in Kinds
        BY <4>1, <4>3, PlanEnds
      <4>5. Marked("answer", 3)
        BY <4>4, PlanTable
      <4>6. Plan[kind[j]][place[j] + 1] # "set" /\ place[j] + 1 \in Nat
        BY <4>3, <4>5 DEF Marked
      <4> QED
        BY <3>2, <4>6, NewlySent
    <3> QED
      BY <1>4, <3>1, <3>2 DEF BadAnswer, Raise, TimeOut
  <2> QED
    BY <2>1, <2>2, <2>3, <2>4 DEF Did, configVars
<1>5. ASSUME NEW j \in Jobs, NEW c \in Effects, Perform(j, c) PROVE Moves
  <2>1. /\ done' = done \cup {<<j, c>>}
        /\ UNCHANGED <<kind, told, begun, seen, answeredBefore>>
        /\ c # "set" => config' = config
    BY <1>5 DEF Perform
  <2>2. c # "set" => \A i \in Jobs : Did(i, "set")' => Did(i, "set")
    BY <2>1 DEF Did
  <2>3. c = "set" => Perform(j, "set")
    BY <1>5
  <2> QED
    BY <2>1, <2>2, <2>3
<1>6. ASSUME NEW j \in Jobs, NEW c \in Effects, Miss(j, c) PROVE Moves
  BY <1>6 DEF Miss, configVars, Did
<1>7. CASE Recover \/ UNCHANGED vars
  BY <1>7 DEF Recover, vars, serviceVars, configVars, Did
<1> QED
  BY <1>2, <1>3, <1>4, <1>5, <1>6, <1>7 DEF Next

LEMMA SettingsStep ==
    JobsInv /\ SettingsInv /\ [Next]_vars => SettingsInv'
<1> SUFFICES ASSUME JobsInv, SettingsInv, [Next]_vars PROVE SettingsInv'
  OBVIOUS
<1>1. /\ done \subseteq done'
      /\ \A i \in Jobs :
            /\ told[i] = "ok" => told'[i] = "ok"
            /\ kind[i] # "none" =>
                  kind'[i] = kind[i] /\ answeredBefore'[i] = answeredBefore[i]
            /\ kind[i] = "none" => \A m \in answeredBefore'[i] :
                  told[m] = "ok" \/ m \in answeredBefore[i]
            /\ <<i, "set">> \in begun => seen'[i] = seen[i]
            /\ <<i, "set">> \in begun' \ begun /\ kind'[i] = "patch" =>
                  seen'[i] = config /\ config' = config /\ done' = done
  BY SettingsMoves
<1>2. \/ config' = config /\ \A i \in Jobs : Did(i, "set")' => Did(i, "set")
      \/ \E k \in Jobs : Perform(k, "set")
  BY SettingsMoves
<1>3. done \subseteq begun /\ begun \in SUBSET (Jobs \X Effects)
  BY DEF JobsInv, TypeOK
<1>4. \A i \in Jobs : <<i, "set">> \in begun =>
          kind[i] \in {"patch", "configuration"} /\ kind[i] # "none"
  BY SetBy
<1>5. \A i \in Jobs : Did(i, "set") => Did(i, "set")' /\ <<i, "set">> \in begun
  BY <1>1, <1>3 DEF Did
<1>6. \A i \in Jobs : Overwritten(i) => Overwritten(i)'
  BY <1>1, <1>4, <1>5 DEF Overwritten
<1>7. \A j, k \in Jobs : j \in answeredBefore'[k] => told'[j] = "ok"
  BY <1>1 DEF SettingsInv
<1>8. ASSUME NEW j \in Jobs, Did(j, "set")', j \notin config'
      PROVE  Overwritten(j)'
  <2>1. CASE config' = config /\ \A i \in Jobs : Did(i, "set")' => Did(i, "set")
    BY <1>6, <1>8, <2>1 DEF SettingsInv
  <2>2. ASSUME NEW k \in Jobs, Perform(k, "set") PROVE Overwritten(j)'
    <3>1. /\ <<k, "set">> \in begun /\ done' = done \cup {<<k, "set">>}
          /\ config' = IF kind[k] = "patch" THEN seen[k] \cup {k} ELSE {k}
          /\ UNCHANGED <<kind, answeredBefore>>
      BY <2>2 DEF Perform, Running
    <3>2. j # k /\ Did(j, "set") /\ Did(k, "set")'
      BY <1>8, <3>1 DEF Did
    <3>3. CASE kind[k] = "configuration" \/ j \notin answeredBefore[k]
      BY <3>1, <3>2, <3>3 DEF Overwritten
    <3>4. CASE kind[k] = "patch" /\ j \in answeredBefore[k]
      BY <1>6, <1>8, <3>1, <3>2, <3>4 DEF SettingsInv
    <3> QED
      BY <1>4, <3>1, <3>3, <3>4
  <2> QED
    BY <1>2, <2>1, <2>2
<1>9. ASSUME NEW j \in Jobs, NEW k \in Jobs, kind'[k] = "patch", <<k, "set">> \in begun',
             j \in answeredBefore'[k], Did(j, "set")'
      PROVE  j \in seen'[k] \/ Overwritten(j)'
  <2>1. CASE <<k, "set">> \in begun
    <3>1. kind[k] = "patch" /\ j \in answeredBefore[k] /\ seen'[k] = seen[k]
      BY <1>1, <1>4, <1>9, <2>1
    <3>2. told[j] = "ok"
      BY <3>1 DEF SettingsInv
    <3>3. Did(j, "set")
      <4>1. <<j, "set">> \notin Running
        BY <3>2, NoLateSet
      <4>2. ASSUME NEW m \in Jobs, Perform(m, "set") PROVE Did(j, "set")
        BY <1>9, <4>1, <4>2 DEF Perform, Did
      <4> QED
        BY <1>2, <1>9, <4>2
    <3> QED
      BY <1>6, <2>1, <3>1, <3>3 DEF SettingsInv
  <2>2. CASE <<k, "set">> \notin begun
    <3>1. seen'[k] = config /\ config' = config /\ done' = done
      BY <1>1, <1>9, <2>2
    <3>2. Did(j, "set")
      BY <1>9, <3>1 DEF Did
    <3> QED
      BY <1>6, <3>1, <3>2 DEF SettingsInv
  <2> QED
    BY <2>1, <2>2
<1> QED
  BY <1>7, <1>8, <1>9 DEF SettingsInv

(* Settings that were confirmed are only lost to a new configuration or to  *)
(* a patch that was under way already.                                      *)
THEOREM ConfirmedSettingsStay == Spec => []SettingsAreKept
<1>1. Init => SettingsInv
  BY DEF Init, SettingsInv, Did
<1>2. JobsInv /\ SettingsInv /\ [Next]_vars => SettingsInv'
  BY SettingsStep
<1>3. SettingsInv => SettingsAreKept
  BY DEF SettingsInv, SettingsAreKept, Overwritten
<1> QED
  BY <1>1, <1>2, <1>3, JobsInvariant, PTL DEF Spec
=============================================================================
