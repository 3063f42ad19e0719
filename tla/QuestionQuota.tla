---------------------------- MODULE QuestionQuota ----------------------------
(***************************************************************************)
(* The daily quotas of one user in elgen-esg-bff: KeycloakService behind   *)
(* the endpoints that create questions and conversations, the answer       *)
(* endpoint (which gives a question back when it times out) and GET /user  *)
(* (which renews the quotas).                                              *)
(*                                                                         *)
(* The quotas are attributes of the user's Keycloak record.  The handlers  *)
(* are coroutines; every call of Keycloak or of the conversation service   *)
(* is an await, and every write sends back the whole attribute record that *)
(* was read before.  A PUT whose answer is late or lost ends the coroutine *)
(* with an error, and Keycloak may still carry it out, now or later.       *)
(***************************************************************************)
EXTENDS Integers

CONSTANTS
    Calls,              \* coroutines that can be in flight for this user
    Puts,               \* bound: PUTs nobody waits for that Keycloak still has
    Nothing,            \* no such PUT
    InitLimit,          \* questionsInit, conversationsInit
    MaxDay,             \* bound: days
    MaxGiven,           \* bound: things of each kind created in a day
    MaxExtra            \* bound: what comes on top of each quota of a day

Attributes == {"questions", "conversations"}
Days == 0..MaxDay
Quota == [limit : Int, date : Days]
Profile == [Attributes -> Quota]

ASSUME QuotaAssumption ==
    /\ InitLimit \in [Attributes -> Nat \ {0}]
    /\ MaxDay \in Nat
    /\ MaxGiven \in [Attributes -> Nat] /\ MaxExtra \in [Attributes -> Nat]
    /\ Nothing \notin Profile

VARIABLES
    today,              \* date.today()
    profile,            \* the user's record in Keycloak: limit and date of each quota
    pc,                 \* where each coroutine is
    job,                \* what it is for
    copy,               \* the attributes it has read, or is about to write
    late,               \* the records of the PUTs Keycloak has still to carry out
    given,              \* history: things created today, as the BFF was told
    extra,              \* history: what came on top of today's quota
    overlapped          \* history: two calls of this user have been in flight

callVars == <<pc, job, copy>>
historyVars == <<given, extra, overlapped>>
vars == <<today, profile, late, callVars, historyVars>>

Jobs == [kind : {"spend"}, attribute : Attributes]
            \cup [kind : {"refund"}, attribute : {"questions"}]
            \cup [kind : {"renew"}, attribute : Attributes \cup {"both"}]

TypeOK ==
    /\ today \in Days
    /\ profile \in Profile
    /\ pc \in [Calls -> {"idle", "check", "create", "read", "token", "write"}]
    /\ job \in [Calls -> Jobs]
    /\ copy \in [Calls -> Profile]
    /\ late \in [Puts -> Profile \cup {Nothing}]
    /\ given \in [Attributes -> Nat]
    /\ extra \in [Attributes -> Nat]
    /\ \A a \in Attributes : given[a] <= MaxGiven[a] /\ extra[a] <= MaxExtra[a]
    /\ overlapped \in BOOLEAN

FullProfile == [a \in Attributes |-> [limit |-> InitLimit[a], date |-> 0]]
Nobody == [kind |-> "renew", attribute |-> "both"]
Zero == [a \in Attributes |-> 0]

(* create_user: both quotas full, dated today. *)
Init ==
    /\ today = 0
    /\ profile = FullProfile
    /\ pc = [r \in Calls |-> "idle"]
    /\ job = [r \in Calls |-> Nobody]
    /\ copy = [r \in Calls |-> FullProfile]
    /\ late = [w \in Puts |-> Nothing]
    /\ given = Zero
    /\ extra = Zero
    /\ overlapped = FALSE

-----------------------------------------------------------------------------
Goto(r, step) == pc' = [pc EXCEPT ![r] = step]

(* The coroutine is over; its local variables are gone. *)
Return(r) ==
    /\ Goto(r, "idle")
    /\ job' = [job EXCEPT ![r] = Nobody]
    /\ copy' = [copy EXCEPT ![r] = FullProfile]

Bump(count, a) == [count EXCEPT ![a] = @ + 1]

Begin(r, j, step) ==
    /\ pc[r] = "idle"
    /\ job' = [job EXCEPT ![r] = j]
    /\ overlapped' = (overlapped \/ \E s \in Calls : pc[s] # "idle")
    /\ Goto(r, step)
    /\ UNCHANGED <<today, profile, late, copy, given, extra>>

(* add_question and create_conversation. *)
Spend(r, a) == Begin(r, [kind |-> "spend", attribute |-> a], "check")

(* get_answer received a 504: the answer of some question of the user has   *)
(* timed out.                                                               *)
TimeOut(r) == Begin(r, [kind |-> "refund", attribute |-> "questions"], "read")

(* GET /user. *)
LookAtUser(r) == Begin(r, [kind |-> "renew", attribute |-> "both"], "check")

(* check_user_limit: the record is read; the quota is not used up, or its   *)
(* date has passed.                                                         *)
Allowed(quota) == (quota.limit > 0 /\ quota.date = today) \/ today > quota.date

CheckLimit(r) ==
    /\ pc[r] = "check"
    /\ job[r].kind = "spend"
    /\ IF Allowed(profile[job[r].attribute])
       THEN Goto(r, "create") /\ UNCHANGED <<job, copy>>
       ELSE Return(r)
    /\ UNCHANGED <<today, profile, late, historyVars>>

(* The conversation service creates what was asked for and says so, or the  *)
(* BFF sees a failure and charges nothing.                                  *)
Create(r) ==
    /\ pc[r] = "create"
    /\ \/ /\ given[job[r].attribute] < MaxGiven[job[r].attribute]
          /\ given' = Bump(given, job[r].attribute)
          /\ Goto(r, "read")
          /\ UNCHANGED <<job, copy>>
       \/ Return(r) /\ UNCHANGED given
    /\ UNCHANGED <<today, profile, late, extra, overlapped>>

(* Faulty variants of Updated: the date written is that of the next day; a  *)
(* new day starts with the full quota, the first question not counted.      *)
UpdatedForTomorrow(quota, a, refund) ==
    IF today > quota.date
    THEN [limit |-> InitLimit[a] - 1, date |-> today + 1]
    ELSE [quota EXCEPT !.limit = IF refund THEN @ + 1 ELSE @ - 1]

UpdatedFirstFree(quota, a, refund) ==
    IF today > quota.date
    THEN [limit |-> InitLimit[a], date |-> today]
    ELSE [quota EXCEPT !.limit = IF refund THEN @ + 1 ELSE @ - 1]

(* _update_attribute_limit and _update_user_attributes. *)
Updated(quota, a, refund) ==
    IF today > quota.date
    THEN [limit |-> InitLimit[a] - 1, date |-> today]
    ELSE [quota EXCEPT !.limit = IF refund THEN @ + 1 ELSE @ - 1]

(* Faulty variant: every timeout gives a question back. *)
ReadForUpdateUnlimited(r) ==
    /\ pc[r] = "read"
    /\ LET a == job[r].attribute
       IN  copy' = [copy EXCEPT ![r] =
                [profile EXCEPT ![a] = Updated(@, a, job[r].kind = "refund")]]
    /\ Goto(r, "write")
    /\ UNCHANGED <<today, profile, late, job, historyVars>>

(* update_rate_limit reads the record again and prepares the new one; a     *)
(* refund beyond the initial limit is refused.                              *)
ReadForUpdate(r) ==
    /\ pc[r] = "read"
    /\ LET a == job[r].attribute
           refund == job[r].kind = "refund"
       IN  IF refund /\ profile[a].limit >= InitLimit[a]
           THEN Return(r)
           ELSE /\ copy' = [copy EXCEPT ![r] =
                        [profile EXCEPT ![a] = Updated(@, a, refund)]]
                /\ Goto(r, "write")
                /\ UNCHANGED job
    /\ UNCHANGED <<today, profile, late, historyVars>>

(* check_date_limit: which quotas are of an earlier day. *)
CheckDates(r) ==
    /\ pc[r] = "check"
    /\ job[r].kind = "renew"
    /\ LET expired == {a \in Attributes : today > profile[a].date}
       IN  IF expired = {}
           THEN Return(r)
           ELSE /\ job' = [job EXCEPT ![r].attribute =
                        IF expired = Attributes THEN "both"
                        ELSE CHOOSE a \in expired : TRUE]
                /\ copy' = [copy EXCEPT ![r] = profile]
                /\ Goto(r, "token")
    /\ UNCHANGED <<today, profile, late, historyVars>>

(* reset_user_limits, after the await for the admin token: the expired      *)
(* limits are renewed, both dates become today.                             *)
PrepareReset(r) ==
    /\ pc[r] = "token"
    /\ copy' = [copy EXCEPT ![r] = [a \in Attributes |->
            [limit |-> IF job[r].attribute \in {a, "both"} THEN InitLimit[a]
                       ELSE copy[r][a].limit,
             date |-> today]]]
    /\ Goto(r, "write")
    /\ UNCHANGED <<today, profile, late, job, historyVars>>

(* The PUT replaces the whole record, and is answered; or its answer is     *)
(* lost and the user is told of an error, which changes nothing here.       *)
Write(r) ==
    /\ pc[r] = "write"
    /\ profile' = copy[r]
    /\ LET a == job[r].attribute
       IN  IF job[r].kind = "refund" /\ copy[r][a].date = today
           THEN extra[a] < MaxExtra[a] /\ extra' = Bump(extra, a)
           ELSE UNCHANGED extra
    /\ Return(r)
    /\ UNCHANGED <<today, late, given, overlapped>>

(* A coroutine that ends before Keycloak has charged what was created.      *)
LeaveUncharged(r) ==
    LET a == job[r].attribute
    IN  IF job[r].kind = "spend" /\ pc[r] # "check"
        THEN extra[a] < MaxExtra[a] /\ extra' = Bump(extra, a)
        ELSE UNCHANGED extra

(* Keycloak does not answer the GET, or refuses or never gets the PUT: the  *)
(* user gets an error, what was created stays, and is not charged.          *)
KeycloakFails(r) ==
    /\ pc[r] \in {"check", "read", "token", "write"}
    /\ Return(r)
    /\ LeaveUncharged(r)
    /\ UNCHANGED <<today, profile, late, given, overlapped>>

(* make_request gives up on the PUT, which Keycloak has and may carry out   *)
(* later (a PUT it never carries out stays there for good).                 *)
GiveUpWaiting(r) ==
    /\ pc[r] = "write"
    /\ \E w \in Puts :
        late[w] = Nothing /\ late' = [late EXCEPT ![w] = copy[r]]
    /\ Return(r)
    /\ LeaveUncharged(r)
    /\ UNCHANGED <<today, profile, given, overlapped>>

(* What a quota still allows today. *)
Room(quota, a) == IF quota.date = today THEN quota.limit ELSE InitLimit[a]

(* The room a user gains when the record is replaced by a stale one. *)
Gain(record, a) ==
    IF Room(record[a], a) > Room(profile[a], a)
    THEN Room(record[a], a) - Room(profile[a], a)
    ELSE 0

(* Keycloak carries out a PUT that nobody waits for any more, whatever has  *)
(* been written since it was sent.                                          *)
LandLate(w) ==
    /\ late[w] # Nothing
    /\ profile' = late[w]
    /\ late' = [late EXCEPT ![w] = Nothing]
    /\ \A a \in Attributes : extra[a] + Gain(late[w], a) <= MaxExtra[a]
    /\ extra' = [a \in Attributes |-> extra[a] + Gain(late[w], a)]
    /\ UNCHANGED <<today, callVars, given, overlapped>>

Midnight ==
    /\ today < MaxDay
    /\ today' = today + 1
    /\ given' = Zero
    /\ extra' = Zero
    /\ UNCHANGED <<profile, late, callVars, overlapped>>

Next ==
    \/ \E r \in Calls :
        \/ \E a \in Attributes : Spend(r, a)
        \/ TimeOut(r)
        \/ LookAtUser(r)
        \/ CheckLimit(r)
        \/ Create(r)
        \/ ReadForUpdate(r)
        \/ CheckDates(r)
        \/ PrepareReset(r)
        \/ Write(r)
        \/ KeycloakFails(r)
        \/ GiveUpWaiting(r)
    \/ \E w \in Puts : LandLate(w)
    \/ Midnight

Spec == Init /\ [][Next]_vars

-----------------------------------------------------------------------------
(* However the calls of a user overlap, and whatever stale record they      *)
(* write back, a user never has more than the quota of a day, nor a date in *)
(* the future: refunds, resets and charges never add up beyond it.          *)
NeverAboveInit ==
    \A a \in Attributes : profile[a].limit <= InitLimit[a] /\ profile[a].date <= today

(* As long as the calls of a user have not overlapped, a day's questions    *)
(* (and conversations) are within the quota and what came on top of it: a   *)
(* question given back after a timeout, a charge Keycloak has not made, and *)
(* what came back when a PUT given up on landed over a newer record.  Such  *)
(* PUTs may land between and during the calls: the reads, charges, refunds  *)
(* and renewals give nothing away of their own.                             *)
NothingIsFree ==
    ~overlapped => \A a \in Attributes : given[a] <= InitLimit[a] + extra[a]
=============================================================================
