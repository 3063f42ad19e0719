------------------------- MODULE QuestionQuotaProofs -------------------------
(***************************************************************************)
(* Proofs about QuestionQuota: types, and that no overlap of charges,      *)
(* refunds and resets ever gives a user more than the quota of a day.      *)
(* The record in Keycloak is written from what a coroutine read earlier,   *)
(* so the invariant has to say of every copy, and of every PUT that is     *)
(* still to land, what it says of the record.                              *)
(* And that nothing is had for free while the calls do not overlap: the    *)
(* account of a day balances up to the one thing the call in flight has    *)
(* created and not yet charged, or gives back and has not yet booked.      *)
(***************************************************************************)
EXTENDS QuestionQuota, TLAPS

Sound(record) ==
    \A a \in Attributes :
        record[a].limit <= InitLimit[a] /\ record[a].date <= today

QuotaInv ==
    /\ TypeOK
    /\ Sound(profile)
    /\ \A r \in Calls : Sound(copy[r])
    /\ \A w \in Puts : late[w] # Nothing => Sound(late[w])

(* The full quotas of a new user are sound on any day. *)
LEMMA FullIsSound ==
    ASSUME today \in Days
    PROVE  FullProfile \in Profile /\ Sound(FullProfile) /\ Nobody \in Jobs
BY QuotaAssumption DEF FullProfile, Profile, Quota, Sound, Days, Attributes,
   Nobody, Jobs

(* A charge, or a refund that is not refused, prepares a sound quota. *)
LEMMA UpdateIsSound ==
    ASSUME TypeOK, NEW quota \in Quota, NEW a \in Attributes, NEW refund \in BOOLEAN,
           quota.limit <= InitLimit[a], quota.date <= today,
           refund => quota.limit < InitLimit[a]
    PROVE  /\ Updated(quota, a, refund) \in Quota
           /\ Updated(quota, a, refund).limit <= InitLimit[a]
           /\ Updated(quota, a, refund).date <= today
<1>1. InitLimit[a] \in Nat /\ today \in Days /\ quota.limit \in Int
  BY QuotaAssumption DEF TypeOK, Quota
<1>2. CASE today > quota.date
  <2>1. Updated(quota, a, refund) = [limit |-> InitLimit[a] - 1, date |-> today]
    BY <1>2 DEF Updated
  <2> QED
    BY <1>1, <2>1 DEF Quota, Days
<1>3. CASE ~(today > quota.date)
  <2>1. Updated(quota, a, refund) =
          [limit |-> IF refund THEN quota.limit + 1 ELSE quota.limit - 1,
           date |-> quota.date]
    BY <1>3 DEF Updated, Quota
  <2> QED
    BY <1>1, <2>1 DEF Quota, Days
<1> QED
  BY <1>2, <1>3

LEMMA QuotaInit == Init => QuotaInv
<1> SUFFICES ASSUME Init PROVE QuotaInv
  OBVIOUS
<1>1. today \in Days
  BY QuotaAssumption DEF Init, Days
<1>2. /\ Zero \in [Attributes -> Nat]
      /\ \A a \in Attributes : Zero[a] <= MaxGiven[a] /\ Zero[a] <= MaxExtra[a]
  BY QuotaAssumption DEF Zero
<1> QED
  BY <1>1, <1>2, FullIsSound DEF Init, QuotaInv, TypeOK

(* Counting up to a bound. *)
LEMMA BumpBelow ==
    ASSUME NEW max \in [Attributes -> Nat], NEW count \in [Attributes -> Nat],
           \A b \in Attributes : count[b] <= max[b],
           NEW a \in Attributes, count[a] < max[a]
    PROVE  /\ Bump(count, a) \in [Attributes -> Nat]
           /\ \A b \in Attributes : Bump(count, a)[b] <= max[b]
BY DEF Bump

(* The end of a coroutine. *)
LEMMA ReturnKeeps ==
    ASSUME QuotaInv, NEW r \in Calls, Return(r), today' = today
    PROVE  /\ pc' \in [Calls -> {"idle", "check", "create", "read", "token", "write"}]
           /\ job' \in [Calls -> Jobs]
           /\ copy' \in [Calls -> Profile]
           /\ \A s \in Calls : Sound(copy[s])'
<1>1. FullProfile \in Profile /\ Sound(FullProfile) /\ Nobody \in Jobs
  BY FullIsSound DEF QuotaInv, TypeOK
<1>2. copy' = [copy EXCEPT ![r] = FullProfile] /\ pc' = [pc EXCEPT ![r] = "idle"]
      /\ job' = [job EXCEPT ![r] = Nobody]
  BY DEF Return, Goto
<1>3. \A s \in Calls : copy'[s] = FullProfile \/ copy'[s] = copy[s]
  BY <1>2 DEF QuotaInv, TypeOK
<1>4. \A s \in Calls : Sound(copy[s])'
  BY <1>1, <1>3 DEF QuotaInv, Sound
<1> QED
  BY <1>1, <1>2, <1>4 DEF QuotaInv, TypeOK

(* One more on top of a quota. *)
LEMMA ExtraBumped ==
    ASSUME TypeOK, NEW a,
           \/ extra[a] < MaxExtra[a] /\ extra' = Bump(extra, a)
           \/ UNCHANGED extra
    PROVE  extra' \in [Attributes -> Nat] /\ \A b \in Attributes : extra'[b] <= MaxExtra[b]
<1>1. CASE a \in Attributes
  BY <1>1, BumpBelow, QuotaAssumption DEF TypeOK
<1>2. CASE a \notin Attributes
  BY <1>2 DEF TypeOK, Bump
<1> QED
  BY <1>1, <1>2

(* What a record gains over another is a number. *)
LEMMA GainIsNatural ==
    ASSUME TypeOK, NEW record \in Profile, NEW a \in Attributes
    PROVE  /\ Gain(record, a) \in Nat
           /\ Room(record[a], a) \in Int /\ Room(profile[a], a) \in Int
           /\ Room(record[a], a) <= Room(profile[a], a) + Gain(record, a)
<1>1. record[a].limit \in Int /\ profile[a].limit \in Int /\ InitLimit[a] \in Int
  BY QuotaAssumption DEF TypeOK, Profile, Quota
<1> QED
  BY <1>1 DEF Gain, Room

LEMMA QuotaStep == QuotaInv /\ [Next]_vars => QuotaInv'
<1> SUFFICES ASSUME QuotaInv, [Next]_vars PROVE QuotaInv'
  OBVIOUS
<1> USE DEF QuotaInv, TypeOK, historyVars, callVars
<1>1. ASSUME NEW r \in Calls, NEW j \in Jobs, NEW step \in {"check", "read"},
             Begin(r, j, step)
      PROVE  QuotaInv'
  BY <1>1 DEF Begin, Goto, Sound
<1>2. ASSUME NEW r \in Calls, CheckLimit(r) PROVE QuotaInv'
  BY <1>2, ReturnKeeps DEF CheckLimit, Goto, Sound
<1>3. ASSUME NEW r \in Calls, Create(r) PROVE QuotaInv'
  <2>1. CASE Return(r) /\ UNCHANGED given
    BY <1>3, <2>1, ReturnKeeps DEF Create, Sound
  <2>2. CASE /\ given[job[r].attribute] < MaxGiven[job[r].attribute]
             /\ given' = Bump(given, job[r].attribute)
             /\ Goto(r, "read")
             /\ UNCHANGED <<job, copy>>
    <3>1. /\ given' \in [Attributes -> Nat]
          /\ \A a \in Attributes : given'[a] <= MaxGiven[a]
      <4>1. CASE job[r].attribute \in Attributes
        BY <2>2, <4>1, BumpBelow, QuotaAssumption
      <4>2. CASE job[r].attribute \notin Attributes
        BY <2>2, <4>2 DEF Bump
      <4> QED
        BY <4>1, <4>2
    <3> QED
      BY <1>3, <2>2, <3>1 DEF Create, Goto, Sound
  <2> QED
    BY <1>3, <2>1, <2>2 DEF Create
<1>4. ASSUME NEW r \in Calls, ReadForUpdate(r) PROVE QuotaInv'
  <2> DEFINE a == job[r].attribute
  <2> DEFINE refund == job[r].kind = "refund"
  <2> DEFINE record == [profile EXCEPT ![a] = Updated(@, a, refund)]
  <2>1. CASE refund /\ profile[a].limit >= InitLimit[a]
    BY <1>4, <2>1, ReturnKeeps DEF ReadForUpdate, Sound
  <2>2. CASE ~(refund /\ profile[a].limit >= InitLimit[a])
    <3>1. /\ copy' = [copy EXCEPT ![r] = record]
          /\ pc' = [pc EXCEPT ![r] = "write"]
          /\ UNCHANGED <<today, profile, late, job, historyVars>>
      BY <1>4, <2>2 DEF ReadForUpdate, Goto
    <3>2. record \in Profile /\ Sound(record)
      <4>1. CASE a \in Attributes
        <5>1. profile[a] \in Quota /\ profile[a].limit \in Int /\ InitLimit[a] \in Int
          BY <4>1, QuotaAssumption DEF Profile, Quota
        <5>2. /\ Updated(profile[a], a, refund) \in Quota
              /\ Updated(profile[a], a, refund).limit <= InitLimit[a]
              /\ Updated(profile[a], a, refund).date <= today
          <6> HIDE DEF a
          <6>1. refund \in BOOLEAN /\ (refund => profile[a].limit < InitLimit[a])
            BY <2>2, <5>1
          <6> HIDE DEF refund
          <6> QED
            BY <4>1, <5>1, <6>1, UpdateIsSound DEF Sound
        <5> QED
          BY <4>1, <5>2 DEF Profile, Sound
      <4>2. CASE a \notin Attributes
        <5>1. record = profile
          BY <4>2 DEF Profile
        <5> QED
          BY <5>1
      <4> QED
        BY <4>1, <4>2
    <3> HIDE DEF record
    <3> QED
      BY <3>1, <3>2 DEF Sound
  <2> QED
    BY <2>1, <2>2
<1>5. ASSUME NEW r \in Calls, CheckDates(r) PROVE QuotaInv'
  <2> DEFINE expired == {a \in Attributes : today > profile[a].date}
  <2> DEFINE which == IF expired = Attributes THEN "both" ELSE CHOOSE a \in expired : TRUE
  <2>1. CASE expired = {}
    BY <1>5, <2>1, ReturnKeeps DEF CheckDates, Sound
  <2>2. CASE expired # {}
    <3>1. job[r].kind = "renew" /\ which \in Attributes \cup {"both"}
      BY <1>5, <2>2 DEF CheckDates
    <3>2. /\ job' = [job EXCEPT ![r].attribute = which]
          /\ copy' = [copy EXCEPT ![r] = profile]
          /\ pc' = [pc EXCEPT ![r] = "token"]
          /\ UNCHANGED <<today, profile, late, historyVars>>
      BY <1>5, <2>2 DEF CheckDates, Goto
    <3> HIDE DEF which
    <3>3. job' \in [Calls -> Jobs]
      <4>1. [job[r] EXCEPT !.attribute = which] \in Jobs
        BY <3>1 DEF Jobs
      <4> QED
        BY <3>2, <4>1
    <3> QED
      BY <3>2, <3>3 DEF Sound
  <2> QED
    BY <2>1, <2>2
<1>6. ASSUME NEW r \in Calls, PrepareReset(r) PROVE QuotaInv'
  <2> DEFINE record == [a \in Attributes |->
            [limit |-> IF job[r].attribute \in {a, "both"} THEN InitLimit[a]
                       ELSE copy[r][a].limit,
             date |-> today]]
  <2>1. /\ copy' = [copy EXCEPT ![r] = record]
        /\ pc' = [pc EXCEPT ![r] = "write"]
        /\ UNCHANGED <<today, profile, late, job, historyVars>>
    BY <1>6 DEF PrepareReset, Goto
  <2>2. \A a \in Attributes : /\ InitLimit[a] \in Int
                              /\ copy[r][a].limit \in Int
                              /\ copy[r][a].limit <= InitLimit[a]
    BY QuotaAssumption DEF Profile, Quota, Sound
  <2>3. record \in Profile /\ Sound(record)
    BY <2>2 DEF Profile, Quota, Sound, Days
  <2> HIDE DEF record
  <2> QED
    BY <2>1, <2>3 DEF Sound
<1>7. ASSUME NEW r \in Calls, Write(r) PROVE QuotaInv'
  <2>1. /\ profile' = copy[r]
        /\ UNCHANGED <<today, late, given, overlapped>>
        /\ Return(r)
    BY <1>7 DEF Write
  <2>2. extra' \in [Attributes -> Nat] /\ \A a \in Attributes : extra'[a] <= MaxExtra[a]
    BY <1>7, ExtraBumped DEF Write
  <2> QED
    BY <2>1, <2>2, ReturnKeeps DEF Sound
<1>8. ASSUME NEW r \in Calls, KeycloakFails(r) \/ GiveUpWaiting(r) PROVE QuotaInv'
  <2>1. UNCHANGED <<today, profile, given, overlapped>> /\ Return(r)
    BY <1>8 DEF KeycloakFails, GiveUpWaiting
  <2>2. extra' \in [Attributes -> Nat] /\ \A a \in Attributes : extra'[a] <= MaxExtra[a]
    BY <1>8, ExtraBumped DEF KeycloakFails, GiveUpWaiting, LeaveUncharged
  <2>3. /\ late' \in [Puts -> Profile \cup {Nothing}]
        /\ \A w \in Puts : late'[w] = late[w] \/ late'[w] = copy[r]
    BY <1>8 DEF KeycloakFails, GiveUpWaiting
  <2> QED
    BY <2>1, <2>2, <2>3, ReturnKeeps DEF Sound
<1>13. ASSUME NEW w \in Puts, LandLate(w) PROVE QuotaInv'
  <2>1. /\ late[w] # Nothing /\ profile' = late[w]
        /\ late' = [late EXCEPT ![w] = Nothing]
        /\ UNCHANGED <<today, callVars, given, overlapped>>
        /\ \A a \in Attributes : extra[a] + Gain(late[w], a) <= MaxExtra[a]
        /\ extra' = [a \in Attributes |-> extra[a] + Gain(late[w], a)]
    BY <1>13 DEF LandLate
  <2>2. late[w] \in Profile
    BY <2>1
  <2>3. \A a \in Attributes : Gain(late[w], a) \in Nat
    BY <2>2, GainIsNatural
  <2>4. extra' \in [Attributes -> Nat] /\ \A a \in Attributes : extra'[a] <= MaxExtra[a]
    BY <2>1, <2>3
  <2> QED
    BY <2>1, <2>2, <2>4 DEF Sound
<1>9. CASE Midnight
  <2>1. today' \in Days /\ today' = today + 1 /\ today \in Int
    BY <1>9, QuotaAssumption DEF Midnight, Days
  <2>2. \A record \in Profile : Sound(record) =>
          \A a \in Attributes : record[a].limit <= InitLimit[a] /\ record[a].date <= today'
    BY <2>1 DEF Sound, Profile, Quota, Days
  <2>3. /\ Zero \in [Attributes -> Nat]
        /\ \A a \in Attributes : Zero[a] <= MaxGiven[a] /\ Zero[a] <= MaxExtra[a]
    BY QuotaAssumption DEF Zero
  <2>4. UNCHANGED <<profile, late, callVars, overlapped>> /\ given' = Zero /\ extra' = Zero
    BY <1>9 DEF Midnight
  <2> QED
    BY <2>1, <2>2, <2>3, <2>4 DEF Sound
<1>10. CASE UNCHANGED vars
  BY <1>10 DEF vars, Sound
<1>11. ASSUME NEW r \in Calls, NEW a \in Attributes, Spend(r, a) PROVE QuotaInv'
  <2>1. [kind |-> "spend", attribute |-> a] \in Jobs
    BY DEF Jobs
  <2> QED
    BY <1>1, <1>11, <2>1 DEF Spend
<1>12. ASSUME NEW r \in Calls, TimeOut(r) \/ LookAtUser(r) PROVE QuotaInv'
  <2>1. [kind |-> "refund", attribute |-> "questions"] \in Jobs
        /\ [kind |-> "renew", attribute |-> "both"] \in Jobs
    BY DEF Jobs
  <2> QED
    BY <1>1, <1>12, <2>1 DEF TimeOut, LookAtUser
<1> QED
  BY <1>2, <1>3, <1>4, <1>5, <1>6, <1>7, <1>8, <1>9, <1>10, <1>11, <1>12, <1>13 DEF Next

(* Types, and soundness of the record and of every copy of it. *)
THEOREM QuotaInvariant == Spec => []QuotaInv
<1>1. Init => QuotaInv
  BY QuotaInit
<1>2. QuotaInv /\ [Next]_vars => QuotaInv'
  BY QuotaStep
<1> QED
  BY <1>1, <1>2, PTL DEF Spec

(* A user never has more than the quota of a day, for any number of         *)
(* overlapping calls, any quotas and any number of days.                    *)
THEOREM QuotaNeverExceeded == Spec => []NeverAboveInit
<1>1. QuotaInv => NeverAboveInit
  BY DEF QuotaInv, Sound, NeverAboveInit
<1> QED
  BY <1>1, QuotaInvariant, PTL

(* Types hold for any number of calls, days and quotas. *)
THEOREM QuotaTypeCorrect == Spec => []TypeOK
<1>1. QuotaInv => TypeOK
  BY DEF QuotaInv
<1> QED
  BY <1>1, QuotaInvariant, PTL

-----------------------------------------------------------------------------
(* Calls that do not overlap. How far the count of the day may be ahead of  *)
(* what a record still allows today while the one call in flight has not    *)
(* yet charged what it created, or not yet booked what it gives back.       *)
Within(quota, a, owed) == given[a] + Room(quota, a) <= InitLimit[a] + extra[a] + owed

Covered(a) == given[a] <= InitLimit[a] + extra[a]

Owed(r, a) ==
    IF pc[r] \in {"read", "write"} /\ job[r].kind = "spend" /\ job[r].attribute = a
    THEN 1 ELSE 0

GivenBack(r, a) ==
    IF job[r].kind = "refund" /\ job[r].attribute = a /\ copy[r][a].date = today
    THEN 1 ELSE 0

Phases ==
    \A r \in Calls :
        /\ pc[r] = "check" => job[r].kind \in {"spend", "renew"}
        /\ pc[r] = "create" => job[r].kind = "spend"
        /\ pc[r] = "read" => job[r].kind \in {"spend", "refund"}
        /\ pc[r] = "token" => job[r].kind = "renew"

(* A call that has been allowed is covered for one thing more, whatever     *)
(* lands in the meantime.                                                   *)
Fair(r) ==
    /\ \A a \in Attributes : Covered(a) /\ Within(profile[a], a, Owed(r, a))
    /\ pc[r] = "create" =>
            LET a == job[r].attribute IN given[a] + 1 <= InitLimit[a] + extra[a]
    /\ pc[r] \in {"token", "write"} =>
            \A a \in Attributes : Within(copy[r][a], a, GivenBack(r, a))
    /\ pc[r] = "token" =>
            \A a \in Attributes :
                job[r].attribute \in {a, "both"} => copy[r][a].date < today

Quiet == \A a \in Attributes : Covered(a) /\ Within(profile[a], a, 0)

Alone(r) == \A s \in Calls : s # r => pc[s] = "idle"

Serial ==
    /\ \A r \in Calls : pc[r] # "idle" => Alone(r) /\ Fair(r)
    /\ (\A r \in Calls : pc[r] = "idle") => Quiet

FreeInv == QuotaInv /\ Phases /\ (~overlapped => Serial)

(* The counters and limits are integers, before and after a step. *)
LEMMA Numbers ==
    ASSUME QuotaInv, NEW a \in Attributes
    PROVE  /\ given[a] \in Nat /\ extra[a] \in Nat
           /\ InitLimit[a] \in Nat /\ InitLimit[a] > 0
           /\ today \in Nat
           /\ profile[a].limit \in Int /\ profile[a].limit <= InitLimit[a]
           /\ profile[a].date \in Nat /\ profile[a].date <= today
           /\ \A r \in Calls : /\ copy[r][a].limit \in Int
                               /\ copy[r][a].limit <= InitLimit[a]
                               /\ copy[r][a].date \in Nat
                               /\ copy[r][a].date <= today
<1>1. InitLimit[a] \in Nat /\ InitLimit[a] > 0
  BY QuotaAssumption
<1>2. profile[a] \in Quota /\ \A r \in Calls : copy[r][a] \in Quota
  BY DEF QuotaInv, TypeOK, Profile
<1>3. given[a] \in Nat /\ extra[a] \in Nat /\ today \in Nat
  BY DEF QuotaInv, TypeOK, Days
<1> QED
  BY <1>1, <1>2, <1>3 DEF QuotaInv, Sound, Quota, Days

(* A step of the one coroutine in flight leaves the others idle. *)
LEMMA SerialAfter ==
    ASSUME NEW r \in Calls, \A s \in Calls : s # r => pc'[s] = "idle",
           pc'[r] # "idle" => Fair(r)',
           pc'[r] = "idle" => Quiet'
    PROVE  Serial'
BY DEF Serial, Alone

LEMMA AloneStays ==
    ASSUME QuotaInv, NEW r \in Calls, Alone(r), NEW step, Goto(r, step)
    PROVE  /\ \A s \in Calls : s # r => pc'[s] = "idle"
           /\ pc'[r] = step
BY DEF QuotaInv, TypeOK, Alone, Goto

LEMMA SerialBegin ==
    ASSUME FreeInv, ~overlapped', NEW r \in Calls, NEW j \in Jobs,
           NEW step \in {"check", "read"}, Begin(r, j, step),
           step = "read" => j.kind = "refund"
    PROVE  Serial'
<1>1. /\ \A s \in Calls : pc[s] = "idle"
      /\ Quiet
      /\ Goto(r, step) /\ job' = [job EXCEPT ![r] = j]
      /\ UNCHANGED <<today, profile, late, copy, given, extra>>
  BY DEF FreeInv, Serial, Begin
<1>2. /\ \A s \in Calls : s # r => pc'[s] = "idle"
      /\ pc'[r] = step
  BY <1>1, AloneStays DEF FreeInv, Alone
<1>3. job'[r] = j
  BY <1>1 DEF FreeInv, QuotaInv, TypeOK
<1>4. Fair(r)'
  <2>1. \A a \in Attributes : Owed(r, a)' = 0
    BY <1>2, <1>3 DEF Owed
  <2>2. \A a \in Attributes : Within(profile[a], a, Owed(r, a))'
    BY <1>1, <2>1 DEF Quiet, Within, Room
  <2>3. \A a \in Attributes : Covered(a)'
    BY <1>1 DEF Quiet, Covered
  <2> QED
    BY <1>2, <1>3, <2>2, <2>3 DEF Fair
<1> QED
  BY <1>2, <1>4, SerialAfter

(* What each step of the one call in flight does to the account. *)
LEMMA SerialCheckLimit ==
    ASSUME FreeInv, ~overlapped, NEW r \in Calls, CheckLimit(r)
    PROVE  Serial'
<1>1. /\ Alone(r) /\ Fair(r) /\ pc[r] = "check" /\ job[r].kind = "spend"
      /\ UNCHANGED <<today, profile, late, historyVars>>
  BY DEF FreeInv, Serial, CheckLimit
<1>2. Quiet
  BY <1>1 DEF Fair, Quiet, Owed
<1>3. Quiet'
  BY <1>1, <1>2 DEF Quiet, Within, Covered, Room, historyVars
<1>4. CASE Return(r)
  BY <1>1, <1>3, <1>4, AloneStays, SerialAfter DEF Return, FreeInv
<1>5. CASE /\ Allowed(profile[job[r].attribute])
           /\ Goto(r, "create") /\ UNCHANGED <<job, copy>>
  <2>1. (\A s \in Calls : s # r => pc'[s] = "idle") /\ pc'[r] = "create"
    BY <1>1, <1>5, AloneStays DEF FreeInv
  <2>2. job[r].attribute \in Attributes
    BY <1>1 DEF FreeInv, QuotaInv, TypeOK, Jobs
  <2>3. LET a == job[r].attribute IN given[a] + 1 <= InitLimit[a] + extra[a]
    BY <1>2, <1>5, <2>2, Numbers DEF Quiet, Within, Room, Allowed, FreeInv
  <2>4. LET a == job'[r].attribute IN given'[a] + 1 <= InitLimit[a] + extra'[a]
    BY <1>1, <1>5, <2>3 DEF historyVars
  <2>5. Fair(r)'
    BY <1>1, <1>3, <1>5, <2>1, <2>4 DEF Fair, Quiet, Owed
  <2> QED
    BY <2>1, <2>5, SerialAfter
<1> QED
  BY <1>4, <1>5 DEF CheckLimit

LEMMA SerialCreate ==
    ASSUME FreeInv, ~overlapped, NEW r \in Calls, Create(r)
    PROVE  Serial'
<1>1. /\ Alone(r) /\ Fair(r) /\ pc[r] = "create" /\ job[r].kind = "spend"
      /\ UNCHANGED <<today, profile, late, extra, overlapped>>
  BY DEF FreeInv, Serial, Create, Phases
<1>2. Quiet
  BY <1>1 DEF Fair, Quiet, Owed
<1>3. CASE Return(r) /\ UNCHANGED given
  <2>1. Quiet'
    BY <1>1, <1>2, <1>3 DEF Quiet, Covered, Within, Room
  <2> QED
    BY <1>1, <1>3, <2>1, AloneStays, SerialAfter DEF Return, FreeInv
<1>4. CASE /\ given' = Bump(given, job[r].attribute)
           /\ Goto(r, "read")
           /\ UNCHANGED <<job, copy>>
  <2>1. (\A s \in Calls : s # r => pc'[s] = "idle") /\ pc'[r] = "read"
    BY <1>1, <1>4, AloneStays DEF FreeInv
  <2>2. \A a \in Attributes : Covered(a)' /\ Within(profile[a], a, Owed(r, a))'
    <3> SUFFICES ASSUME NEW a \in Attributes
                 PROVE  Covered(a)' /\ Within(profile[a], a, Owed(r, a))'
      OBVIOUS
    <3>1. /\ given[a] \in Nat /\ extra[a] \in Nat
          /\ InitLimit[a] \in Nat /\ profile[a].limit \in Int
      BY Numbers DEF FreeInv
    <3>2. given'[a] = IF a = job[r].attribute THEN given[a] + 1 ELSE given[a]
      BY <1>4 DEF Bump, FreeInv, QuotaInv, TypeOK
    <3>3. Owed(r, a)' = IF a = job[r].attribute THEN 1 ELSE 0
      BY <1>1, <1>4, <2>1 DEF Owed
    <3>4. Covered(a) /\ Within(profile[a], a, 0)
      BY <1>2 DEF Quiet
    <3>5. a = job[r].attribute => given[a] + 1 <= InitLimit[a] + extra[a]
      BY <1>1 DEF Fair
    <3> QED
      BY <1>1, <3>1, <3>2, <3>3, <3>4, <3>5 DEF Covered, Within, Room
  <2>4. Fair(r)'
    BY <2>1, <2>2 DEF Fair
  <2> QED
    BY <2>1, <2>4, SerialAfter
<1> QED
  BY <1>3, <1>4 DEF Create

LEMMA SerialReadForUpdate ==
    ASSUME FreeInv, ~overlapped, NEW r \in Calls, ReadForUpdate(r)
    PROVE  Serial'
<1> DEFINE a == job[r].attribute
<1> DEFINE refund == job[r].kind = "refund"
<1>1. /\ Alone(r) /\ Fair(r) /\ pc[r] = "read"
      /\ job[r].kind \in {"spend", "refund"}
      /\ UNCHANGED <<today, profile, late, historyVars>>
  BY DEF FreeInv, Serial, ReadForUpdate, Phases
<1>2. a \in Attributes
  BY <1>1 DEF FreeInv, QuotaInv, TypeOK, Jobs, Attributes
<1>3. CASE refund /\ Return(r)
  <2>1. Quiet'
    BY <1>1, <1>3 DEF Fair, Quiet, Owed, Covered, Within, Room, historyVars
  <2> QED
    BY <1>1, <1>3, <2>1, AloneStays, SerialAfter DEF Return, FreeInv
<1>4. CASE /\ copy' = [copy EXCEPT ![r] = [profile EXCEPT ![a] = Updated(@, a, refund)]]
           /\ Goto(r, "write")
           /\ UNCHANGED job
  <2>1. (\A s \in Calls : s # r => pc'[s] = "idle") /\ pc'[r] = "write"
    BY <1>1, <1>4, AloneStays DEF FreeInv
  <2>2. \A b \in Attributes : Covered(b)' /\ Within(profile[b], b, Owed(r, b))'
    BY <1>1, <1>4, <2>1 DEF Fair, Owed, Covered, Within, Room, historyVars
  <2>3. copy'[r] = [profile EXCEPT ![a] = Updated(profile[a], a, refund)]
    BY <1>4 DEF FreeInv, QuotaInv, TypeOK
  <2>4. \A b \in Attributes : Within(copy[r][b], b, GivenBack(r, b))'
    <3> SUFFICES ASSUME NEW b \in Attributes
                 PROVE  Within(copy[r][b], b, GivenBack(r, b))'
      OBVIOUS
    <3>1. CASE b # a
      <4>1. copy'[r][b] = profile[b] /\ GivenBack(r, b)' = 0 /\ Owed(r, b) = 0
        BY <1>1, <1>4, <2>3, <3>1 DEF GivenBack, Owed, FreeInv, QuotaInv, TypeOK, Profile
      <4> QED
        BY <1>1, <4>1 DEF Fair, Within, Room, historyVars
    <3>2. CASE b = a
      <4>1. copy'[r][b] = Updated(profile[b], b, refund)
        BY <1>2, <2>3, <3>2 DEF FreeInv, QuotaInv, TypeOK, Profile
      <4>2. profile[b] = [limit |-> profile[b].limit, date |-> profile[b].date]
        BY DEF FreeInv, QuotaInv, TypeOK, Profile, Quota
      <4>3. Owed(r, b) = IF refund THEN 0 ELSE 1
        BY <1>1, <3>2 DEF Owed
      <4>5. GivenBack(r, b)' = IF refund /\ copy'[r][b].date = today THEN 1 ELSE 0
        BY <1>1, <1>4, <3>2 DEF GivenBack
      <4>6. Within(profile[b], b, Owed(r, b))
        BY <1>1 DEF Fair
      <4> HIDE DEF a, refund
      <4>7. CASE today > profile[b].date
        <5>1. copy'[r][b].limit = InitLimit[b] - 1 /\ copy'[r][b].date = today
          BY <4>1, <4>7 DEF Updated
        <5> QED
          BY <1>1, <4>3, <4>5, <4>6, <4>7, <5>1, Numbers
             DEF Within, Room, historyVars, FreeInv
      <4>8. CASE ~(today > profile[b].date)
        <5>1. /\ copy'[r][b].limit = (IF refund THEN profile[b].limit + 1
                                                ELSE profile[b].limit - 1)
              /\ copy'[r][b].date = profile[b].date
          BY <4>1, <4>2, <4>8 DEF Updated
        <5>2. profile[b].date = today
          BY <4>8, Numbers DEF FreeInv
        <5> QED
          BY <1>1, <4>3, <4>5, <4>6, <5>1, <5>2, Numbers
             DEF Within, Room, historyVars, FreeInv
      <4> QED
        BY <4>7, <4>8
    <3> QED
      BY <3>1, <3>2
  <2>5. Fair(r)'
    BY <2>1, <2>2, <2>4 DEF Fair
  <2> QED
    BY <2>1, <2>5, SerialAfter
<1> QED
  BY <1>3, <1>4 DEF ReadForUpdate

LEMMA SerialCheckDates ==
    ASSUME FreeInv, ~overlapped, NEW r \in Calls, CheckDates(r)
    PROVE  Serial'
<1> DEFINE expired == {a \in Attributes : today > profile[a].date}
<1> DEFINE which == IF expired = Attributes THEN "both" ELSE CHOOSE a \in expired : TRUE
<1>1. /\ Alone(r) /\ Fair(r) /\ pc[r] = "check" /\ job[r].kind = "renew"
      /\ UNCHANGED <<today, profile, late, historyVars>>
  BY DEF FreeInv, Serial, CheckDates
<1>2. Quiet /\ Quiet'
  BY <1>1 DEF Fair, Quiet, Owed, Covered, Within, Room, historyVars
<1>3. CASE Return(r)
  BY <1>1, <1>2, <1>3, AloneStays, SerialAfter DEF Return, FreeInv
<1>4. CASE /\ expired # {}
           /\ job' = [job EXCEPT ![r].attribute = which]
           /\ copy' = [copy EXCEPT ![r] = profile]
           /\ Goto(r, "token")
  <2>1. (\A s \in Calls : s # r => pc'[s] = "idle") /\ pc'[r] = "token"
    BY <1>1, <1>4, AloneStays DEF FreeInv
  <2>2. which = "both" => expired = Attributes
    BY <1>4 DEF Attributes
  <2>3. which \in Attributes => which \in expired
    BY <1>4 DEF Attributes
  <2> HIDE DEF which
  <2>4. job'[r].kind = "renew" /\ job'[r].attribute = which /\ copy'[r] = profile
    BY <1>1, <1>4 DEF FreeInv, QuotaInv, TypeOK, Jobs
  <2>5. \A a \in Attributes : Owed(r, a)' = 0 /\ GivenBack(r, a)' = 0
    BY <2>1, <2>4 DEF Owed, GivenBack
  <2>6. \A a \in Attributes : which \in {a, "both"} => profile[a].date < today
    BY <2>2, <2>3, Numbers DEF FreeInv
  <2>7. Fair(r)'
    BY <1>1, <1>2, <2>1, <2>4, <2>5, <2>6 DEF Fair, Quiet, Covered, Within, Room
  <2> QED
    BY <2>1, <2>7, SerialAfter
<1> QED
  BY <1>3, <1>4 DEF CheckDates

LEMMA SerialPrepareReset ==
    ASSUME FreeInv, ~overlapped, NEW r \in Calls, PrepareReset(r)
    PROVE  Serial'
<1>1. /\ Alone(r) /\ Fair(r) /\ pc[r] = "token" /\ job[r].kind = "renew"
      /\ UNCHANGED <<today, profile, late, job, historyVars>>
      /\ Goto(r, "write")
  BY DEF FreeInv, Serial, PrepareReset, Phases
<1>2. (\A s \in Calls : s # r => pc'[s] = "idle") /\ pc'[r] = "write"
  BY <1>1, AloneStays DEF FreeInv
<1>3. \A a \in Attributes :
        /\ Owed(r, a)' = 0 /\ GivenBack(r, a)' = 0
        /\ Owed(r, a) = 0 /\ GivenBack(r, a) = 0
  BY <1>1, <1>2 DEF Owed, GivenBack
<1>4. \A a \in Attributes : Covered(a)' /\ Within(profile[a], a, Owed(r, a))'
  BY <1>1, <1>3 DEF Fair, Covered, Within, Room, historyVars
<1>5. \A a \in Attributes : Within(copy[r][a], a, GivenBack(r, a))'
  <2> SUFFICES ASSUME NEW a \in Attributes
               PROVE  Within(copy[r][a], a, GivenBack(r, a))'
    OBVIOUS
  <2>1. /\ copy'[r][a].limit = (IF job[r].attribute \in {a, "both"} THEN InitLimit[a]
                                ELSE copy[r][a].limit)
        /\ copy'[r][a].date = today
    BY DEF PrepareReset, FreeInv, QuotaInv, TypeOK
  <2>2. Within(copy[r][a], a, 0)
    BY <1>1, <1>3 DEF Fair
  <2>3. job[r].attribute \in {a, "both"} => copy[r][a].date < today
    BY <1>1 DEF Fair
  <2> QED
    BY <1>1, <1>3, <2>1, <2>2, <2>3, Numbers DEF Within, Room, historyVars, FreeInv
<1>6. Fair(r)'
  BY <1>2, <1>4, <1>5 DEF Fair
<1> QED
  BY <1>2, <1>6, SerialAfter

LEMMA SerialWrite ==
    ASSUME FreeInv, ~overlapped, NEW r \in Calls, Write(r)
    PROVE  Serial'
<1>1. /\ Alone(r) /\ Fair(r) /\ pc[r] = "write" /\ Return(r)
      /\ UNCHANGED <<today, late, given, overlapped>>
      /\ profile' = copy[r]
  BY DEF FreeInv, Serial, Write
<1>2. ASSUME NEW a \in Attributes PROVE Covered(a)' /\ Within(profile[a], a, 0)'
  <2>1. extra'[a] = extra[a] + GivenBack(r, a)
    <3>1. extra[a] \in Int
      BY Numbers DEF FreeInv
    <3>2. CASE job[r].kind = "refund" /\ copy[r][job[r].attribute].date = today
      <4>1. extra' = Bump(extra, job[r].attribute)
        BY <3>2 DEF Write
      <4> QED
        BY <3>1, <3>2, <4>1 DEF Bump, GivenBack, FreeInv, QuotaInv, TypeOK
    <3>3. CASE ~(job[r].kind = "refund" /\ copy[r][job[r].attribute].date = today)
      <4>1. extra' = extra
        BY <3>3 DEF Write
      <4> QED
        BY <3>1, <3>3, <4>1 DEF GivenBack
    <3> QED
      BY <3>2, <3>3
  <2>2. /\ Covered(a) /\ Within(copy[r][a], a, GivenBack(r, a))
        /\ GivenBack(r, a) \in Nat
    BY <1>1 DEF Fair, GivenBack
  <2> QED
    BY <1>1, <2>1, <2>2, Numbers DEF Covered, Within, Room, FreeInv
<1>3. Quiet'
  BY <1>2 DEF Quiet
<1> QED
  BY <1>1, <1>3, AloneStays, SerialAfter DEF Return, FreeInv

(* A call that fails, or that gives up on its PUT, leaves uncharged what it *)
(* has created.                                                             *)
LEMMA SerialGiveUp ==
    ASSUME FreeInv, ~overlapped, NEW r \in Calls, KeycloakFails(r) \/ GiveUpWaiting(r)
    PROVE  Serial'
<1>1. /\ Alone(r) /\ Fair(r) /\ pc[r] \in {"check", "read", "token", "write"}
      /\ Return(r) /\ LeaveUncharged(r)
      /\ UNCHANGED <<today, profile, given, overlapped>>
  BY DEF FreeInv, Serial, KeycloakFails, GiveUpWaiting
<1>2. ASSUME NEW a \in Attributes PROVE Covered(a)' /\ Within(profile[a], a, 0)'
  <2>1. extra'[a] >= extra[a] + Owed(r, a) /\ extra'[a] \in Int
    <3>1. extra[a] \in Int
      BY Numbers DEF FreeInv
    <3>2. CASE job[r].kind = "spend" /\ pc[r] # "check"
      <4>1. extra' = Bump(extra, job[r].attribute)
        BY <1>1, <3>2 DEF LeaveUncharged
      <4> QED
        BY <3>1, <3>2, <4>1 DEF Bump, Owed, FreeInv, QuotaInv, TypeOK
    <3>3. CASE ~(job[r].kind = "spend" /\ pc[r] # "check")
      <4>1. extra' = extra
        BY <1>1, <3>3 DEF LeaveUncharged
      <4> QED
        BY <3>1, <3>3, <4>1 DEF Owed
    <3> QED
      BY <3>2, <3>3
  <2>2. Covered(a) /\ Within(profile[a], a, Owed(r, a)) /\ Owed(r, a) \in Nat
    BY <1>1 DEF Fair, Owed
  <2> QED
    BY <1>1, <2>1, <2>2, Numbers DEF Covered, Within, Room, FreeInv
<1>3. Quiet'
  BY <1>2 DEF Quiet
<1> QED
  BY <1>1, <1>3, AloneStays, SerialAfter DEF Return, FreeInv

(* A late PUT changes the record under the call in flight, if there is one: *)
(* the account grows by what the record gains, and a copy stays as it was.  *)
LEMMA SerialLandLate ==
    ASSUME FreeInv, ~overlapped, NEW w \in Puts, LandLate(w)
    PROVE  Serial'
<1>1. /\ late[w] \in Profile /\ profile' = late[w]
      /\ UNCHANGED <<today, callVars, given, overlapped>>
      /\ \A a \in Attributes : extra'[a] = extra[a] + Gain(late[w], a)
  BY DEF LandLate, FreeInv, QuotaInv, TypeOK
<1>2. ASSUME NEW a \in Attributes
      PROVE  /\ extra'[a] \in Int /\ extra'[a] >= extra[a]
             /\ Covered(a) => Covered(a)'
             /\ \A owed \in Nat : Within(profile[a], a, owed) => Within(profile[a], a, owed)'
             /\ \A r \in Calls, owed \in Nat :
                    Within(copy[r][a], a, owed) => Within(copy[r][a], a, owed)'
  <2>1. /\ Gain(late[w], a) \in Nat
        /\ Room(late[w][a], a) \in Int /\ Room(profile[a], a) \in Int
        /\ Room(late[w][a], a) <= Room(profile[a], a) + Gain(late[w], a)
    BY <1>1, GainIsNatural DEF FreeInv, QuotaInv
  <2>2. given[a] \in Nat /\ extra[a] \in Nat /\ InitLimit[a] \in Nat
    BY Numbers DEF FreeInv
  <2>3. extra'[a] \in Int /\ extra'[a] >= extra[a] /\ (Covered(a) => Covered(a)')
    BY <1>1, <2>1, <2>2 DEF Covered
  <2>4. ASSUME NEW owed \in Nat, Within(profile[a], a, owed)
        PROVE  Within(profile[a], a, owed)'
    <3>1. Room(profile[a], a)' = Room(late[w][a], a)
      BY <1>1 DEF Room
    <3> QED
      BY <1>1, <2>1, <2>2, <2>4, <3>1 DEF Within
  <2>5. ASSUME NEW r \in Calls, NEW owed \in Nat, Within(copy[r][a], a, owed)
        PROVE  Within(copy[r][a], a, owed)'
    BY <1>1, <2>1, <2>2, <2>5, Numbers DEF Within, Room, callVars, FreeInv
  <2> QED
    BY <2>3, <2>4, <2>5
<1>3. ASSUME NEW r \in Calls, pc[r] # "idle"
      PROVE  Alone(r)' /\ Fair(r)'
  <2>1. Alone(r) /\ Fair(r)
    BY <1>3 DEF FreeInv, Serial
  <2>2. \A a \in Attributes : /\ Owed(r, a)' = Owed(r, a) /\ Owed(r, a) \in Nat
                              /\ GivenBack(r, a)' = GivenBack(r, a)
                              /\ GivenBack(r, a) \in Nat
    BY <1>1 DEF Owed, GivenBack, callVars
  <2>3. \A a \in Attributes : Covered(a)' /\ Within(profile[a], a, Owed(r, a))'
    BY <1>1, <1>2, <2>1, <2>2 DEF Fair
  <2>4. pc[r] \in {"token", "write"} =>
          \A a \in Attributes : Within(copy[r][a], a, GivenBack(r, a))'
    BY <1>1, <1>2, <2>1, <2>2 DEF Fair
  <2>5. pc[r] = "create" =>
          LET a == job[r].attribute IN given'[a] + 1 <= InitLimit[a] + extra'[a]
    <3> SUFFICES ASSUME pc[r] = "create"
                 PROVE  given'[job[r].attribute] + 1
                            <= InitLimit[job[r].attribute] + extra'[job[r].attribute]
      OBVIOUS
    <3>1. job[r].attribute \in Attributes
      BY DEF FreeInv, Phases, QuotaInv, TypeOK, Jobs
    <3>2. given[job[r].attribute] + 1
              <= InitLimit[job[r].attribute] + extra[job[r].attribute]
      BY <2>1 DEF Fair
    <3> QED
      BY <1>1, <1>2, <3>1, <3>2, Numbers DEF FreeInv
  <2> QED
    BY <1>1, <2>1, <2>3, <2>4, <2>5 DEF Fair, Alone, callVars
<1>4. (\A r \in Calls : pc[r] = "idle") => Quiet'
  BY <1>1, <1>2 DEF FreeInv, Serial, Quiet
<1> QED
  BY <1>1, <1>3, <1>4 DEF Serial, callVars

(* At midnight every record is of an earlier day, and nothing is counted.   *)
LEMMA SerialMidnight ==
    ASSUME FreeInv, ~overlapped, Midnight
    PROVE  Serial'
<1>1. /\ today \in Nat /\ today' = today + 1
      /\ UNCHANGED <<profile, late, callVars, overlapped>>
      /\ \A a \in Attributes : given'[a] = 0 /\ extra'[a] = 0
  BY DEF FreeInv, QuotaInv, TypeOK, Midnight, Days, Zero
<1>2. ASSUME NEW a \in Attributes
      PROVE  /\ Covered(a)'
             /\ \A owed \in Nat : Within(profile[a], a, owed)'
             /\ \A r \in Calls, owed \in Nat : Within(copy[r][a], a, owed)'
  BY <1>1, Numbers DEF Covered, Within, Room, callVars, FreeInv
<1>3. ASSUME NEW r \in Calls, pc[r] # "idle"
      PROVE  Alone(r)' /\ Fair(r)'
  <2>1. Alone(r) /\ Fair(r)
    BY <1>3 DEF FreeInv, Serial
  <2>2. \A a \in Attributes : Owed(r, a)' \in Nat /\ GivenBack(r, a)' \in Nat
    BY DEF Owed, GivenBack
  <2>3. \A a \in Attributes :
          /\ Covered(a)' /\ Within(profile[a], a, Owed(r, a))'
          /\ Within(copy[r][a], a, GivenBack(r, a))'
    BY <1>2, <2>2
  <2>4. pc[r] = "create" =>
          LET a == job[r].attribute IN given'[a] + 1 <= InitLimit[a] + extra'[a]
    <3>1. pc[r] = "create" => job[r].attribute \in Attributes
      BY DEF FreeInv, Phases, QuotaInv, TypeOK, Jobs
    <3> QED
      BY <1>1, <3>1, QuotaAssumption
  <2>5. pc[r] = "token" =>
          \A a \in Attributes : job[r].attribute \in {a, "both"} => copy[r][a].date < today'
    BY <1>1, <2>1, Numbers DEF Fair, FreeInv
  <2> QED
    BY <1>1, <2>1, <2>3, <2>4, <2>5 DEF Fair, Alone, callVars
<1>4. Quiet'
  BY <1>2 DEF Quiet
<1> QED
  BY <1>1, <1>3, <1>4 DEF Serial, callVars

(* Which step a coroutine is at tells what it is for, overlapped or not.    *)
LEMMA PhasesStep ==
    ASSUME QuotaInv, Phases, [Next]_vars
    PROVE  Phases'
<1> USE DEF QuotaInv, TypeOK, Phases, Goto
<1>1. ASSUME NEW r \in Calls, Return(r) PROVE Phases'
  BY <1>1 DEF Return
<1>2. ASSUME NEW r \in Calls, NEW j \in Jobs, NEW step, Begin(r, j, step),
             \/ step = "check" /\ j.kind \in {"spend", "renew"}
             \/ step = "read" /\ j.kind = "refund"
      PROVE  Phases'
  BY <1>2 DEF Begin
<1>3. ASSUME NEW r \in Calls, NEW a \in Attributes, Spend(r, a) PROVE Phases'
  <2>1. [kind |-> "spend", attribute |-> a] \in Jobs
    BY DEF Jobs
  <2> QED
    BY <1>2, <1>3, <2>1 DEF Spend
<1>4. ASSUME NEW r \in Calls, TimeOut(r) \/ LookAtUser(r) PROVE Phases'
  <2>1. [kind |-> "refund", attribute |-> "questions"] \in Jobs
        /\ [kind |-> "renew", attribute |-> "both"] \in Jobs
    BY DEF Jobs
  <2> QED
    BY <1>2, <1>4, <2>1 DEF TimeOut, LookAtUser
<1>5. ASSUME NEW r \in Calls, CheckLimit(r) PROVE Phases'
  BY <1>1, <1>5 DEF CheckLimit
<1>6. ASSUME NEW r \in Calls, Create(r) PROVE Phases'
  BY <1>1, <1>6 DEF Create
<1>7. ASSUME NEW r \in Calls, ReadForUpdate(r) PROVE Phases'
  BY <1>1, <1>7 DEF ReadForUpdate
<1>8. ASSUME NEW r \in Calls, CheckDates(r) PROVE Phases'
  <2>1. CASE Return(r)
    BY <1>1, <2>1
  <2>2. CASE /\ job[r].kind = "renew" /\ Goto(r, "token")
             /\ \E which : job' = [job EXCEPT ![r].attribute = which]
    <3>1. PICK which : job' = [job EXCEPT ![r].attribute = which]
      BY <2>2
    <3>2. \A s \in Calls : job'[s].kind = job[s].kind
      BY <3>1 DEF Jobs
    <3> QED
      BY <2>2, <3>2
  <2> QED
    BY <1>8, <2>1, <2>2 DEF CheckDates
<1>9. ASSUME NEW r \in Calls, PrepareReset(r) \/ Write(r) \/ KeycloakFails(r)
                               \/ GiveUpWaiting(r)
      PROVE  Phases'
  BY <1>1, <1>9 DEF PrepareReset, Write, KeycloakFails, GiveUpWaiting
<1>10. CASE Midnight \/ \E w \in Puts : LandLate(w)
  BY <1>10 DEF Midnight, LandLate, callVars
<1>11. CASE UNCHANGED vars
  BY <1>11 DEF vars, callVars
<1> QED
  BY <1>3, <1>4, <1>5, <1>6, <1>7, <1>8, <1>9, <1>10, <1>11 DEF Next

LEMMA SerialStep ==
    ASSUME FreeInv, [Next]_vars, ~overlapped'
    PROVE  Serial'
<1>1. ~overlapped /\ Serial
  <2>1. ASSUME NEW r \in Calls,
               \/ \E a \in Attributes : Spend(r, a)
               \/ TimeOut(r) \/ LookAtUser(r)
        PROVE  ~overlapped
    BY <2>1 DEF Spend, TimeOut, LookAtUser, Begin, FreeInv, QuotaInv, TypeOK
  <2>2. ASSUME NEW r \in Calls,
               \/ CheckLimit(r) \/ Create(r) \/ ReadForUpdate(r) \/ CheckDates(r)
               \/ PrepareReset(r) \/ Write(r) \/ KeycloakFails(r) \/ GiveUpWaiting(r)
        PROVE  overlapped' = overlapped
    BY <2>2 DEF historyVars, CheckLimit, Create, ReadForUpdate, CheckDates, PrepareReset,
       Write, KeycloakFails, GiveUpWaiting
  <2>3. CASE Midnight \/ (\E w \in Puts : LandLate(w)) \/ UNCHANGED vars
    BY <2>3 DEF Midnight, LandLate, vars, historyVars, FreeInv
  <2> QED
    BY <2>1, <2>2, <2>3 DEF Next, FreeInv
<1>2. ASSUME NEW r \in Calls, NEW a \in Attributes, Spend(r, a) PROVE Serial'
  <2>1. [kind |-> "spend", attribute |-> a] \in Jobs
    BY DEF Jobs
  <2> QED
    BY <1>2, <2>1, SerialBegin DEF Spend
<1>3. ASSUME NEW r \in Calls, TimeOut(r) \/ LookAtUser(r) PROVE Serial'
  <2>1. [kind |-> "refund", attribute |-> "questions"] \in Jobs
        /\ [kind |-> "renew", attribute |-> "both"] \in Jobs
    BY DEF Jobs
  <2> QED
    BY <1>3, <2>1, SerialBegin DEF TimeOut, LookAtUser
<1>4. CASE UNCHANGED vars
  BY <1>1, <1>4 DEF vars, callVars, historyVars, Serial, Alone, Fair, Quiet, Covered,
     Within, Room, Owed, GivenBack
<1> QED
  BY <1>1, <1>2, <1>3, <1>4, SerialCheckLimit, SerialCreate, SerialReadForUpdate,
     SerialCheckDates, SerialPrepareReset, SerialWrite, SerialGiveUp,
     SerialLandLate, SerialMidnight DEF Next

LEMMA FreeInit == Init => FreeInv
<1> SUFFICES ASSUME Init PROVE FreeInv
  OBVIOUS
<1>1. QuotaInv
  BY QuotaInit
<1>2. Quiet
  <2>1. ASSUME NEW a \in Attributes PROVE Covered(a) /\ Within(profile[a], a, 0)
    <3>1. profile[a].limit = InitLimit[a] /\ given[a] = 0 /\ extra[a] = 0
      BY DEF Init, FullProfile, Zero
    <3>2. InitLimit[a] \in Nat
      BY QuotaAssumption
    <3> QED
      BY <3>1, <3>2 DEF Covered, Within, Room
  <2> QED
    BY <2>1 DEF Quiet
<1> QED
  BY <1>1, <1>2 DEF Init, FreeInv, Phases, Serial

THEOREM FreeInvariant == Spec => []FreeInv
<1>1. Init => FreeInv
  BY FreeInit
<1>2. FreeInv /\ [Next]_vars => FreeInv'
  BY QuotaStep, PhasesStep, SerialStep DEF FreeInv
<1> QED
  BY <1>1, <1>2, PTL DEF Spec

LEMMA FreeImplies == FreeInv => NothingIsFree
<1> SUFFICES ASSUME FreeInv, ~overlapped, NEW a \in Attributes
             PROVE  Covered(a)
  BY DEF NothingIsFree, Covered
<1>1. CASE \A r \in Calls : pc[r] = "idle"
  BY <1>1 DEF FreeInv, Serial, Quiet
<1>2. ASSUME NEW r \in Calls, pc[r] # "idle"
      PROVE  Covered(a)
  BY <1>2 DEF FreeInv, Serial, Fair
<1> QED
  BY <1>1, <1>2

(* As long as the calls of a user do not overlap, nothing is had for free:  *)
(* for any quotas, any number of days, any calls of Keycloak that fail, and *)
(* any number of PUTs that land after the BFF has given up on them.         *)
THEOREM NothingIsEverFree == Spec => []NothingIsFree
BY FreeInvariant, FreeImplies, PTL
=============================================================================
