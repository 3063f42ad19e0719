------------------------------ MODULE BffCalls ------------------------------
(***************************************************************************)
(* elgen-esg-bff: what a request of a user becomes.  Each handler is a     *)
(* sequence of calls of other services through make_request, which gives   *)
(* up after 180 seconds and sits behind one circuit breaker for all        *)
(* services.  Keycloak is one of them: its users, their sessions and the    *)
(* configuration of the sources are administrated from here.               *)
(*                                                                         *)
(* The service that is called does not notice when the BFF gives up: what  *)
(* it was asked to do may still be done.  The handlers are coroutines, so  *)
(* between the answer to one call and the next call nothing comes in.      *)
(***************************************************************************)
EXTENDS Naturals, Sequences, FiniteSets

CONSTANTS
    Jobs,               \* the requests of the users
    Threshold           \* failure_threshold of the breaker

ASSUME BffAssumption == Threshold \in Nat \ {0}

VARIABLES
    kind,               \* what a job asks for
    place,              \* the number of the call it waits for
    told,               \* what it was answered
    begun,              \* the calls that change something and were sent
    done,               \* ... that have changed it
    failed,             \* ... that have not and will not
    config,             \* the requests whose settings Keycloak's configuration has
    seen,               \* ... when a patch read it
    answeredBefore,     \* history: the good answers given before a request came
    failures,           \* failures since the last success
    breaker

vars == <<kind, place, told, begun, done, failed, config, seen, answeredBefore,
          failures, breaker>>
serviceVars == <<begun, done, failed>>
configVars == <<config, seen, answeredBefore>>

(* check_auth; _get_admin_token, get_user, update_rate_limit. *)
CheckAuth == <<"introspect">>
AdminToken == <<"endpoints", "token">>
GetUser == AdminToken \o <<"user">>
UpdateRateLimit == AdminToken \o GetUser \o <<"write">>

AddQuestion == <<"type">> \o CheckAuth \o GetUser \o <<"create">> \o UpdateRateLimit
CreateConversation == CheckAuth \o GetUser \o <<"create">> \o UpdateRateLimit

(* The rest is for an answer that takes too long. *)
GetAnswer == CheckAuth \o <<"ask">> \o UpdateRateLimit

(* get_source_docs, get_web_source. *)
GetSources == CheckAuth \o <<"limits", "fetch", "save">>
AddSource == CheckAuth \o <<"register", "extract">>

(* get_answer_by_streaming asks past make_request. *)
StreamAnswer == <<"type">> \o CheckAuth \o <<"stream">>

(* Workspaces, suggestions, models, titles, ratings and texts of answers    *)
(* are changed by one call.                                                 *)
ChangeWorkspace == CheckAuth \o <<"change">>

(* Some answers are put together from two services, and change nothing: a   *)
(* document is fetched, or converted if it is a PDF.                        *)
GetMembers == CheckAuth \o <<"members">> \o AdminToken \o <<"users">>
PreviewDocument == CheckAuth \o <<"metadata", "file", "convert">>

(* login, refresh_token; logout; create_user.                               *)
Login == <<"endpoints", "open">>
Logout == <<"introspect">> \o AdminToken \o <<"sessions">> \o AdminToken \o <<"end">>
CreateUser == CheckAuth \o AdminToken \o <<"import">>

(* One model's limits in the configuration, or all of it. *)
UpdateSourcesConfig ==
    CheckAuth \o AdminToken \o AdminToken \o <<"read", "set">> \o AdminToken \o <<"reread">>
AddSourcesConfiguration == CheckAuth \o AdminToken \o <<"set">>

Plan ==
    [question |-> AddQuestion, conversation |-> CreateConversation,
     answer |-> GetAnswer, stream |-> StreamAnswer, sources |-> GetSources, source |-> AddSource,
     change |-> ChangeWorkspace, members |-> GetMembers,
     preview |-> PreviewDocument, login |-> Login, logout |-> Logout,
     account |-> CreateUser, patch |-> UpdateSourcesConfig,
     configuration |-> AddSourcesConfiguration]

Kinds == DOMAIN Plan
Effects == {"create", "write", "ask", "stream", "save", "register", "extract", "change",
            "open", "end", "import", "set"}
Answers == {"nothing", "ok", "error", "timed_out", "refunded"}

Waiting(j) == place[j] > 0 /\ told[j] = "nothing"
Call(j) == Plan[kind[j]][place[j]]
Running == begun \ (done \cup failed)

TypeOK ==
    /\ kind \in [Jobs -> Kinds \cup {"none"}]
    /\ place \in [Jobs -> Nat]
    /\ told \in [Jobs -> Answers]
    /\ begun \in SUBSET (Jobs \X Effects)
    /\ done \in SUBSET begun
    /\ failed \in SUBSET (begun \ done)
    /\ config \in SUBSET Jobs
    /\ seen \in [Jobs -> SUBSET Jobs]
    /\ answeredBefore \in [Jobs -> SUBSET Jobs]
    /\ failures \in 0..Threshold
    /\ breaker \in {"closed", "open", "half_open"}
    /\ \A j \in Jobs :
          /\ place[j] > 0 => kind[j] # "none" /\ place[j] \in DOMAIN Plan[kind[j]]
          /\ kind[j] = "none" => told[j] = "nothing"
          /\ kind[j] # "none" /\ place[j] = 0 => told[j] = "error"
    \* only a success closes it, and then the count starts again
    /\ breaker = "closed" <=> failures < Threshold

Init ==
    /\ kind = [j \in Jobs |-> "none"]
    /\ place = [j \in Jobs |-> 0]
    /\ told = [j \in Jobs |-> "nothing"]
    /\ begun = {}
    /\ done = {}
    /\ failed = {}
    /\ config = {}
    /\ seen = [j \in Jobs |-> {}]
    /\ answeredBefore = [j \in Jobs |-> {}]
    /\ failures = 0
    /\ breaker = "closed"

-----------------------------------------------------------------------------
(* The breaker counts what make_request raises.  Whatever a service         *)
(* answers, an error as well, is a success.                                 *)
Succeeds(j) ==
    IF Call(j) = "stream"
    THEN UNCHANGED <<failures, breaker>>
    ELSE failures' = 0 /\ breaker' = "closed"

Fails(j) ==
    IF Call(j) = "stream"
    THEN UNCHANGED <<failures, breaker>>
    ELSE IF failures + 1 >= Threshold
    THEN failures' = Threshold /\ breaker' = "open"
    ELSE failures' = failures + 1 /\ UNCHANGED breaker

(* Faulty variant of Recover: the breaker closes by itself. *)
RecoverClosed ==
    /\ breaker = "open"
    /\ breaker' = "closed"
    /\ UNCHANGED <<kind, place, told, serviceVars, configVars, failures>>

(* recovery_timeout: the next calls are let through, and the first that     *)
(* fails opens the breaker again.                                           *)
Recover ==
    /\ breaker = "open"
    /\ breaker' = "half_open"
    /\ UNCHANGED <<kind, place, told, serviceVars, configVars, failures>>

Tell(j, answer) == told' = [told EXCEPT ![j] = answer]

(* The call at place p of a plan is sent. *)
Send(j, k, p) ==
    /\ place' = [place EXCEPT ![j] = p]
    /\ begun' = IF Plan[k][p] \in Effects THEN begun \cup {<<j, Plan[k][p]>>} ELSE begun
    /\ UNCHANGED <<done, failed>>

Arrive(j, k) ==
    /\ kind[j] = "none"
    /\ kind' = [kind EXCEPT ![j] = k]
    /\ \/ breaker # "open" /\ Send(j, k, 1) /\ UNCHANGED told
       \/ breaker = "open" /\ Tell(j, "error") /\ UNCHANGED <<place, serviceVars>>
    /\ answeredBefore' = [answeredBefore EXCEPT ![j] = {i \in Jobs : told[i] = "ok"}]
    /\ UNCHANGED <<config, seen, failures, breaker>>

(* Where a handler goes on after a good answer: the limit of the sources    *)
(* may be in the request, there may be nothing to save, no model of the     *)
(* name that a patch is for, and a document that is a PDF.                  *)
Following(j) ==
    LET next == place[j] + 1
        end == Len(Plan[kind[j]]) + 1
    IN  CASE Call(j) = "introspect" /\ kind[j] = "sources" -> {next, next + 1}
          [] Call(j) = "fetch" -> {next, end}
          [] Call(j) = "read" -> {next, next + 1}
          [] Call(j) = "metadata" -> {next, next + 1}
          [] Call(j) \in {"ask", "file"} -> {end}
          [] OTHER -> {next}

(* What a patch starts from is the configuration it was sent. *)
Take(j) ==
    /\ seen' = IF Call(j) = "read" THEN [seen EXCEPT ![j] = config] ELSE seen
    /\ UNCHANGED <<config, answeredBefore>>

(* Faulty variant of GoodAnswer: nothing has to be done yet. *)
GoodAnswerAssumed(j) ==
    /\ Waiting(j)
    /\ \E p \in Following(j) :
          IF p > Len(Plan[kind[j]])
          THEN Tell(j, "ok") /\ UNCHANGED <<place, serviceVars>>
          ELSE Send(j, kind[j], p) /\ UNCHANGED told
    /\ Succeeds(j)
    /\ Take(j)
    /\ UNCHANGED kind

GoodAnswer(j) ==
    /\ Waiting(j)
    /\ Call(j) \in Effects => <<j, Call(j)>> \in done
    /\ \E p \in Following(j) :
          IF p <= Len(Plan[kind[j]])
          THEN Send(j, kind[j], p) /\ UNCHANGED told
          ELSE /\ Tell(j, IF kind[j] = "answer" /\ Call(j) = "write" THEN "refunded" ELSE "ok")
               /\ UNCHANGED <<place, serviceVars>>
    /\ Succeeds(j)
    /\ Take(j)
    /\ UNCHANGED kind

(* Not ok, or not what the handler can use: an inactive token, no more      *)
(* questions left, a user that exists, a schema that does not fit.  Nobody  *)
(* looks at how the end of a session was answered, and who cannot be given  *)
(* a file is given its description.                                         *)
BadAnswer(j) ==
    /\ Waiting(j)
    /\ <<j, Call(j)>> \notin Running
    /\ Tell(j, IF Call(j) \in {"end", "file"} THEN "ok" ELSE "error")
    /\ Succeeds(j)
    /\ UNCHANGED <<kind, place, serviceVars, configVars>>

(* No connection, or one that breaks, or no JSON. *)
Raise(j) ==
    /\ Waiting(j)
    /\ Tell(j, "error")
    /\ Fails(j)
    /\ UNCHANGED <<kind, place, serviceVars, configVars>>

(* Faulty variants of TimeOut: the call is repeated; any call that takes    *)
(* too long is passed over.                                                 *)
TimeOutAndRetry(j) ==
    /\ Waiting(j)
    /\ Fails(j)
    /\ UNCHANGED <<kind, place, told, serviceVars, configVars>>

TimeOutAndGoOn(j) ==
    /\ Waiting(j)
    /\ Fails(j)
    /\ IF place[j] < Len(Plan[kind[j]]) /\ breaker' # "open"
       THEN Send(j, kind[j], place[j] + 1) /\ UNCHANGED told
       ELSE Tell(j, "timed_out") /\ UNCHANGED <<place, serviceVars>>
    /\ UNCHANGED <<kind, configVars>>

(* After 180 seconds, or when a gateway on the way answers 504 without JSON *)
(* for the service.  Only get_answer goes on, unless the breaker opens.     *)
(* A stream is just cut off, after 300 seconds without a chunk.             *)
TimeOut(j) ==
    /\ Waiting(j)
    /\ Fails(j)
    /\ CASE Call(j) \notin {"ask", "stream"} ->
              Tell(j, "timed_out") /\ UNCHANGED <<place, serviceVars>>
         [] Call(j) = "stream" \/ breaker' = "open" ->
              Tell(j, "error") /\ UNCHANGED <<place, serviceVars>>
         [] OTHER -> Send(j, kind[j], place[j] + 1) /\ UNCHANGED told
    /\ UNCHANGED <<kind, configVars>>

-----------------------------------------------------------------------------
(* Faulty variant of Perform: a patch sends its own settings only. *)
PerformAlone(j, c) ==
    /\ <<j, c>> \in Running
    /\ done' = done \cup {<<j, c>>}
    /\ config' = IF c = "set" THEN {j} ELSE config
    /\ UNCHANGED <<kind, place, told, begun, failed, seen, answeredBefore, failures, breaker>>

(* The services, whether or not somebody still waits.  Keycloak replaces    *)
(* the configuration by the one it is sent.                                 *)
Perform(j, c) ==
    /\ <<j, c>> \in Running
    /\ done' = done \cup {<<j, c>>}
    /\ config' = IF c # "set" THEN config
                 ELSE IF kind[j] = "patch" THEN seen[j] \cup {j} ELSE {j}
    /\ UNCHANGED <<kind, place, told, begun, failed, seen, answeredBefore, failures, breaker>>

(* It never arrives, is refused, or fails. *)
Miss(j, c) ==
    /\ <<j, c>> \in Running
    /\ failed' = failed \cup {<<j, c>>}
    /\ UNCHANGED <<kind, place, told, begun, done, configVars, failures, breaker>>

Next ==
    \/ \E j \in Jobs :
          \/ \E k \in Kinds : Arrive(j, k)
          \/ GoodAnswer(j) \/ BadAnswer(j) \/ Raise(j) \/ TimeOut(j)
          \/ \E c \in Effects : Perform(j, c) \/ Miss(j, c)
    \/ Recover

Spec == Init /\ [][Next]_vars

(* Time passes; nobody has to answer. *)
FairSpec == Spec /\ \A j \in Jobs : WF_vars(TimeOut(j))

-----------------------------------------------------------------------------
Did(j, c) == <<j, c>> \in done

EffectsOf(k) == {Plan[k][p] : p \in DOMAIN Plan[k]} \cap Effects

(* There may be nothing to refund, no source to save, no model of the name. *)
MayBeLeftOut == {<<"answer", "write">>, <<"sources", "save">>, <<"patch", "set">>}

(* Who is told of success has nothing under way any more that could change  *)
(* a service after it, and all that the request sets off has been done, at  *)
(* the first call as at the last, except what the handler had no need of    *)
(* and never sent.  A refund that is announced has been written.            *)
(* Not so for a logout: "Logout successful" is said whatever Keycloak       *)
(* answered, and the session may still be open; it is only not being ended  *)
(* any more.  Members and previews set nothing off.                         *)
DoneIsDone ==
    \A j \in Jobs :
        /\ told[j] = "ok" => \A c \in Effects : <<j, c>> \notin Running
        /\ told[j] = "ok" /\ kind[j] # "logout" =>
              \A c \in EffectsOf(kind[j]) :
                 \/ Did(j, c)
                 \/ <<j, c>> \notin begun /\ <<kind[j], c>> \in MayBeLeftOut
        /\ told[j] = "refunded" => Did(j, "write")

(* Whatever fails on the way, a user is charged only for what was created,  *)
(* a source is looked into only when it is registered, and who has been     *)
(* given an answer is not given the question back, however late.            *)
EffectsInOrder ==
    \A j \in Jobs :
        /\ kind[j] = "answer" /\ <<j, "write">> \in begun => told[j] # "ok"
        /\ kind[j] \in {"question", "conversation"} /\ <<j, "write">> \in begun => Did(j, "create")
        /\ <<j, "extract">> \in begun => Did(j, "register")

(* What a patch or a new configuration of the sources was confirmed to set  *)
(* is only lost to a new configuration, or to a patch that was under way    *)
(* before it was confirmed: settings made one after the other all stay.     *)
SettingsAreKept ==
    \A j \in Jobs :
        told[j] = "ok" /\ Did(j, "set") /\ j \notin config =>
            \E k \in Jobs \ {j} :
                Did(k, "set") /\ (kind[k] = "configuration" \/ j \notin answeredBefore[k])

(* Every user hears something, also when no service ever answers.           *)
EveryUserHears == \A j \in Jobs : (kind[j] # "none") ~> (told[j] # "nothing")

(* The 504 of make_request says "This request has timed out and has been    *)
(* cancelled, please retry", and so does the one of get_answer.  Here: what *)
(* was cancelled has not been done by then.                                 *)
CancelledIsNotDone ==
    \A j \in Jobs :
        told[j] \in {"timed_out", "refunded"} =>
            ~Did(j, IF kind[j] = "answer" THEN "ask" ELSE Call(j))
=============================================================================
