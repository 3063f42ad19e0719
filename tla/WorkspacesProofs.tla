-------------------------- MODULE WorkspacesProofs --------------------------
(***************************************************************************)
(* Proofs about Workspaces, for any number of rows, sources, users and     *)
(* threads, and any number of requests: types with the foreign keys, what  *)
(* is listed, which source a workspace has, how often a type is repeated,  *)
(* and that what is withdrawn stays so.                                    *)
(*                                                                         *)
(* The properties hold of different tables, so that each has an inductive  *)
(* invariant of its own, over the types.                                   *)
(***************************************************************************)
EXTENDS Workspaces, FiniteSetTheorems, TLAPS

(* A thread inserts assignments only to a workspace it has found; rows are  *)
(* never removed from the table.                                            *)
AssignsToRow ==
    \A t \in Threads :
        thread[t] # None /\ thread[t].does = "assign" => Exists(thread[t].workspace)

TablesInv == TypeOK /\ AssignsToRow

(* A new row of workspace: the others are as before. *)
LEMMA RowWritten ==
    ASSUME TablesInv, NEW w \in Workspaces, NEW row \in Row,
           workspace' = [workspace EXCEPT ![w] = row]
    PROVE  /\ workspace' \in [Workspaces -> Row \cup {None}]
           /\ \A v \in Workspaces : Exists(v) => workspace'[v] # None
BY WorkspacesAssumption DEF TablesInv, TypeOK, Exists

(* The other tables, when a step only adds to the workspaces and decides    *)
(* what the handler goes on with.                                           *)
LEMMA OnlyWorkspace ==
    ASSUME TablesInv,
           workspace' \in [Workspaces -> Row \cup {None}],
           \A v \in Workspaces : Exists(v) => workspace'[v] # None,
           touched' \in SUBSET Workspaces,
           linking' \in Link \cup {None},
           linking' # None => workspace'[linking'.workspace] # None,
           requests' \in 0..MaxRequests,
           UNCHANGED <<link, promised, threadVars, suggestion>>
    PROVE  TablesInv'
<1>1. /\ assigned' = assigned /\ type' = type /\ thread' = thread
      /\ link' = link /\ promised' = promised /\ suggestion' = suggestion
  BY DEF threadVars
<1>2. \A q \in Suggestions : suggestion[q] # None =>
        suggestion[q].of \in Workspaces /\ Exists(suggestion[q].of)
  BY DEF TablesInv, TypeOK, Suggestion
<1>3. \A t \in Threads : thread[t] # None /\ thread[t].does = "assign" =>
        thread[t].workspace \in Workspaces /\ Exists(thread[t].workspace)
  BY DEF TablesInv, TypeOK, AssignsToRow, Session
<1>4. AssignsToRow'
  BY <1>1, <1>3 DEF AssignsToRow, Exists
<1>5. \A q \in Suggestions : suggestion'[q] # None => Exists(suggestion[q].of)'
  BY <1>1, <1>2 DEF Exists
<1>6. TypeOK'
  BY <1>1, <1>5 DEF TablesInv, TypeOK, Exists
<1> QED
  BY <1>4, <1>6 DEF TablesInv

LEMMA RequestsBounded ==
    ASSUME TablesInv, Request
    PROVE  requests' \in 0..MaxRequests
<1>1. requests \in 0..MaxRequests /\ MaxRequests \in Nat
  BY WorkspacesAssumption DEF TablesInv, TypeOK
<1> QED
  BY <1>1 DEF Request

LEMMA GoesOn ==
    ASSUME NEW w \in Workspaces, NEW s \in Sources \cup {None}, GoOn(w, s)
    PROVE  /\ linking' \in Link \cup {None}
           /\ linking' # None => linking'.workspace = w
BY DEF GoOn, Link

LEMMA TablesWorkspace ==
    ASSUME TablesInv, WorkspaceStep
    PROVE  TablesInv'
<1> PICK w \in Workspaces, s \in Sources \cup {None} :
        \/ \E name \in Names : CreateWorkspace(w, name, s)
        \/ \E name \in Names \cup {None}, active \in BOOLEAN : UpdateWorkspace(w, name, active, s)
        \/ DeleteWorkspace(w)
  BY DEF WorkspaceStep
<1>1. ASSUME NEW name \in Names, CreateWorkspace(w, name, s) PROVE TablesInv'
  <2>1. PICK active \in BOOLEAN : workspace' = [workspace EXCEPT ![w] =
                           [name |-> name, active |-> active, deleted |-> FALSE]]
    BY <1>1 DEF CreateWorkspace
  <2>2. [name |-> name, active |-> active, deleted |-> FALSE] \in Row
    BY DEF Row
  <2>3. workspace'[w] # None
    BY <2>1, <2>2, WorkspacesAssumption DEF TablesInv, TypeOK
  <2> QED
    BY <1>1, <2>1, <2>2, <2>3, RowWritten, OnlyWorkspace, RequestsBounded, GoesOn
       DEF CreateWorkspace, LoopRequest, TablesInv, TypeOK
<1>2. ASSUME NEW name \in Names \cup {None}, NEW active \in BOOLEAN,
             UpdateWorkspace(w, name, active, s)
      PROVE  TablesInv'
  <2> DEFINE row == [workspace[w] EXCEPT
                        !.name = IF name = None THEN @ ELSE name, !.active = active]
  <2>1. workspace[w] \in Row
    BY <1>2 DEF UpdateWorkspace, Exists, TablesInv, TypeOK
  <2>2. row \in Row
    BY <2>1 DEF Row
  <2>3. workspace' = [workspace EXCEPT ![w] = row]
    BY <1>2, <2>1 DEF UpdateWorkspace, Row
  <2> HIDE DEF row
  <2>4. workspace'[w] # None
    BY <2>2, <2>3, WorkspacesAssumption DEF TablesInv, TypeOK
  <2> QED
    BY <1>2, <2>2, <2>3, <2>4, RowWritten, OnlyWorkspace, RequestsBounded, GoesOn
       DEF UpdateWorkspace, LoopRequest, TablesInv, TypeOK
<1>3. CASE DeleteWorkspace(w)
  <2> DEFINE row == [workspace[w] EXCEPT !.active = FALSE, !.deleted = TRUE]
  <2>1. workspace[w] \in Row
    BY <1>3 DEF DeleteWorkspace, Exists, TablesInv, TypeOK
  <2>2. row \in Row
    BY <2>1 DEF Row
  <2>3. workspace' = [workspace EXCEPT ![w] = row]
    BY <1>3, <2>1 DEF DeleteWorkspace, Row
  <2> HIDE DEF row
  <2> QED
    BY <1>3, <2>2, <2>3, RowWritten, OnlyWorkspace, RequestsBounded
       DEF DeleteWorkspace, LoopRequest, sourceVars, TablesInv, TypeOK
<1> QED
  BY <1>1, <1>2, <1>3

LEMMA TablesSource ==
    ASSUME TablesInv, SourceStep
    PROVE  TablesInv'
<1> USE DEF TablesInv, TypeOK, AssignsToRow, Exists, workspaceVars, sourceVars, threadVars
<1>1. ASSUME NEW s \in Sources
      PROVE  Taken(s) \in [Workspaces -> Sources \cup {None}]
  BY DEF Taken
<1>2. linking # None => linking.source \in Sources /\ linking.workspace \in Workspaces
  BY DEF Link
<1>3. CASE LinkSource
  <2>1. promised' \in [Workspaces -> Sources \cup {None}]
    BY <1>1, <1>2, <1>3 DEF LinkSource
  <2> QED
    BY <1>2, <1>3, <2>1 DEF LinkSource
<1>4. CASE LinkFails
  <2>1. /\ promised' \in [Workspaces -> Sources \cup {None}]
        /\ link' \in [Sources -> Workspaces \cup {None, Absent}]
    BY <1>1, <1>2, <1>4 DEF LinkFails, LinkTo
  <2> QED
    BY <1>4, <2>1 DEF LinkFails
<1>5. ASSUME NEW s \in Sources, NEW w \in Workspaces \cup {None},
             AddSource(s, w) \/ UpdateSource(s, w)
      PROVE  TablesInv'
  <2>1. requests' \in 0..MaxRequests
    BY <1>5, RequestsBounded DEF AddSource, UpdateSource, LoopRequest
  <2>2. /\ promised' \in [Workspaces -> Sources \cup {None}]
        /\ link' \in [Sources -> Workspaces \cup {None, Absent}]
    BY <1>1, <1>5 DEF AddSource, UpdateSource, LinkTo
  <2> QED
    BY <1>5, <2>1, <2>2 DEF AddSource, UpdateSource
<1> QED
  BY <1>3, <1>4, <1>5 DEF SourceStep

LEMMA TablesThread ==
    ASSUME TablesInv, ThreadStep
    PROVE  TablesInv'
<1> PICK t \in Threads :
        \/ \E w \in Workspaces, users \in SUBSET Users : AssignUsers(t, w, users)
        \/ \E available \in BOOLEAN : CreateType(t, available)
        \/ CommitUsers(t) \/ RollBack(t)
        \/ \E i \in TypeIds : CommitType(t, i)
  BY DEF ThreadStep
<1> USE DEF TablesInv, AssignsToRow, Exists, workspaceVars, sourceVars
<1>1. ASSUME NEW session \in Session, Read(t, session),
             session.does = "assign" => Exists(session.workspace)
      PROVE  TablesInv'
  <2>1. requests' \in 0..MaxRequests
    BY <1>1, RequestsBounded DEF Read
  <2>2. thread' \in [Threads -> Session \cup {None}]
    BY <1>1 DEF Read, TypeOK
  <2>3. \A u \in Threads : thread'[u] = session \/ thread'[u] = thread[u]
    BY <1>1 DEF Read, TypeOK
  <2>4. UNCHANGED <<workspaceVars, sourceVars, assigned, type, suggestion>>
    BY <1>1 DEF Read
  <2> QED
    BY <1>1, <2>1, <2>2, <2>3, <2>4 DEF TypeOK
<1>2. ASSUME NEW w \in Workspaces, NEW users \in SUBSET Users, AssignUsers(t, w, users)
      PROVE  TablesInv'
  <2>1. [does |-> "assign", workspace |-> w, users |-> users] \in Session
    BY DEF Session
  <2> QED
    BY <1>1, <1>2, <2>1 DEF AssignUsers
<1>3. ASSUME NEW available \in BOOLEAN, CreateType(t, available)
      PROVE  TablesInv'
  <2>1. [does |-> "add", available |-> available] \in Session
    BY DEF Session
  <2> QED
    BY <1>1, <1>3, <2>1 DEF CreateType
<1>4. ASSUME End(t),
             type' \in [TypeIds -> {None, TRUE, FALSE}],
             assigned' \in [Users \X Workspaces -> 0..1],
             \A u \in Users, w \in Workspaces : assigned'[u, w] > 0 => Exists(w)
      PROVE  TablesInv'
  <2>1. /\ thread' \in [Threads -> Session \cup {None}]
        /\ \A u \in Threads : thread'[u] = None \/ thread'[u] = thread[u]
    BY <1>4 DEF End, TypeOK
  <2>2. UNCHANGED <<workspaceVars, sourceVars, suggestion, requests>>
    BY <1>4 DEF End
  <2> QED
    BY <1>4, <2>1, <2>2 DEF TypeOK
<1>5. CASE CommitUsers(t)
  <2> DEFINE pairs == thread[t].users \X {thread[t].workspace}
  <2>1. /\ thread[t] # None /\ thread[t].does = "assign"
        /\ \A p \in pairs : assigned[p] = 0
        /\ assigned' = [p \in DOMAIN assigned |-> assigned[p] + (IF p \in pairs THEN 1 ELSE 0)]
        /\ type' = type /\ End(t)
    BY <1>5 DEF CommitUsers
  <2>2. assigned \in [Users \X Workspaces -> 0..1]
    BY DEF TypeOK
  <2>3. ASSUME NEW p \in Users \X Workspaces
        PROVE  assigned'[p] = (IF p \in pairs THEN 1 ELSE assigned[p])
    <3> HIDE DEF pairs
    <3> QED
      BY <2>1, <2>2
  <2>4. ASSUME NEW u \in Users, NEW w \in Workspaces, assigned'[u, w] > 0
        PROVE  Exists(w)
    <3>1. CASE <<u, w>> \in pairs
      BY <2>1, <3>1
    <3>2. CASE <<u, w>> \notin pairs
      <4>1. assigned[u, w] > 0
        BY <2>3, <2>4, <3>2
      <4> QED
        BY <4>1 DEF TypeOK
    <3> QED
      BY <3>1, <3>2
  <2>5. assigned' \in [Users \X Workspaces -> 0..1]
    <3> HIDE DEF pairs
    <3> QED
      BY <2>1, <2>2, <2>3
  <2> HIDE DEF pairs
  <2> QED
    BY <1>4, <2>1, <2>4, <2>5 DEF TypeOK
<1>6. CASE RollBack(t)
  BY <1>4, <1>6 DEF RollBack, TypeOK
<1>7. ASSUME NEW i \in TypeIds, CommitType(t, i) PROVE TablesInv'
  <2>1. /\ thread[t] # None /\ thread[t].does = "add" /\ End(t) /\ assigned' = assigned
        /\ type' = [type EXCEPT ![i] = thread[t].available]
    BY <1>7 DEF CommitType
  <2>2. thread[t] \in Session
    BY <2>1 DEF TypeOK
  <2>3. thread[t].available \in BOOLEAN
    BY <2>1, <2>2 DEF Session
  <2>4. type' \in [TypeIds -> {None, TRUE, FALSE}]
    BY <2>1, <2>3 DEF TypeOK
  <2> QED
    BY <1>4, <2>1, <2>4 DEF TypeOK
<1> QED
  BY <1>2, <1>3, <1>5, <1>6, <1>7

LEMMA TablesSuggestion ==
    ASSUME TablesInv, SuggestionStep
    PROVE  TablesInv'
<1> PICK q \in Suggestions :
        \/ \E w \in Workspaces, content \in Contents : CreateSuggestion(q, w, content)
        \/ \E content \in Contents : UpdateSuggestion(q, content)
        \/ DeleteSuggestion(q)
  BY DEF SuggestionStep
<1>1. ASSUME NEW row \in Suggestion, Exists(row.of),
             suggestion' = [suggestion EXCEPT ![q] = row],
             LoopRequest, UNCHANGED <<workspaceVars, sourceVars, threadVars>>
      PROVE  TablesInv'
  <2>1. requests' \in 0..MaxRequests
    BY <1>1, RequestsBounded DEF LoopRequest
  <2>2. suggestion' \in [Suggestions -> Suggestion \cup {None}]
    BY <1>1 DEF TablesInv, TypeOK
  <2>3. \A p \in Suggestions : suggestion'[p] # None => Exists(suggestion'[p].of)
    BY <1>1 DEF TablesInv, TypeOK
  <2>4. /\ workspace' = workspace /\ touched' = touched
        /\ link' = link /\ promised' = promised /\ linking' = linking
        /\ assigned' = assigned /\ type' = type /\ thread' = thread
    BY <1>1 DEF workspaceVars, sourceVars, threadVars
  <2> QED
    BY <2>1, <2>2, <2>3, <2>4 DEF TablesInv, TypeOK, AssignsToRow, Exists
<1>2. ASSUME NEW w \in Workspaces, NEW content \in Contents, CreateSuggestion(q, w, content)
      PROVE  TablesInv'
  <2>1. [of |-> w, content |-> content, deleted |-> FALSE] \in Suggestion
    BY DEF Suggestion
  <2> QED
    BY <1>1, <1>2, <2>1 DEF CreateSuggestion
<1>3. ASSUME suggestion[q] # None
      PROVE  suggestion[q] \in Suggestion /\ Exists(suggestion[q].of)
  BY <1>3 DEF TablesInv, TypeOK
<1>4. ASSUME NEW content \in Contents, UpdateSuggestion(q, content)
      PROVE  TablesInv'
  <2>1. [suggestion[q] EXCEPT !.content = content] \in Suggestion
        /\ [suggestion[q] EXCEPT !.content = content].of = suggestion[q].of
    BY <1>3, <1>4 DEF UpdateSuggestion, Suggestion
  <2> QED
    BY <1>1, <1>3, <1>4, <2>1 DEF UpdateSuggestion
<1>5. CASE DeleteSuggestion(q)
  <2>1. [suggestion[q] EXCEPT !.deleted = TRUE] \in Suggestion
        /\ [suggestion[q] EXCEPT !.deleted = TRUE].of = suggestion[q].of
    BY <1>3, <1>5 DEF DeleteSuggestion, Suggestion
  <2> QED
    BY <1>1, <1>3, <1>5, <2>1 DEF DeleteSuggestion
<1> QED
  BY <1>2, <1>4, <1>5

LEMMA TablesStep == TablesInv /\ [Next]_vars => TablesInv'
<1> SUFFICES ASSUME TablesInv, [Next]_vars PROVE TablesInv'
  OBVIOUS
<1>1. CASE Crash
  BY <1>1 DEF Crash, TablesInv, TypeOK, AssignsToRow, Exists, workspaceVars
<1>2. CASE UNCHANGED vars
  BY <1>2 DEF vars, TablesInv, TypeOK, AssignsToRow, Exists, workspaceVars, sourceVars,
     threadVars
<1> QED
  BY <1>1, <1>2, TablesWorkspace, TablesSource, TablesThread, TablesSuggestion DEF Next

LEMMA TablesInit == Init => TablesInv
<1> SUFFICES ASSUME Init PROVE TablesInv
  OBVIOUS
<1>1. assigned \in [Users \X Workspaces -> 0..1]
  BY DEF Init
<1>2. ASSUME NEW u \in Users, NEW w \in Workspaces PROVE ~(assigned[u, w] > 0)
  <2>1. assigned[u, w] = 0
    BY DEF Init
  <2>2. ~(0 > 0)
    OBVIOUS
  <2> QED
    BY <2>1, <2>2, Zenon
<1>3. requests \in 0..MaxRequests
  BY WorkspacesAssumption DEF Init
<1>4. /\ workspace \in [Workspaces -> Row \cup {None}]
      /\ touched \in SUBSET Workspaces
      /\ link \in [Sources -> Workspaces \cup {None, Absent}]
      /\ promised \in [Workspaces -> Sources \cup {None}]
      /\ linking \in Link \cup {None}
      /\ type \in [TypeIds -> {None, TRUE, FALSE}]
      /\ thread \in [Threads -> Session \cup {None}]
      /\ suggestion \in [Suggestions -> Suggestion \cup {None}]
      /\ \A q \in Suggestions : suggestion[q] = None
      /\ \A t \in Threads : thread[t] = None
      /\ linking = None
  BY DEF Init
<1>5. TypeOK
  BY <1>1, <1>2, <1>3, <1>4 DEF TypeOK
<1> QED
  BY <1>4, <1>5 DEF TablesInv, AssignsToRow

THEOREM TablesInvariant == Spec => []TablesInv
<1>1. Init => TablesInv
  BY TablesInit
<1>2. TablesInv /\ [Next]_vars => TablesInv'
  BY TablesStep
<1> QED
  BY <1>1, <1>2, PTL DEF Spec

(* Types and foreign keys. *)
THEOREM WorkspacesTypeCorrect == Spec => []TypeOK
<1>1. TablesInv => TypeOK
  BY DEF TablesInv
<1> QED
  BY <1>1, TablesInvariant, PTL

-----------------------------------------------------------------------------
(* What is listed. Only create_workspace makes a row that counts as not     *)
(* touched, and it looks for the name; a row that is listed although it is  *)
(* deleted, which create_workspace does not find, was touched.              *)
LEMMA ListedStep == TablesInv /\ ListedAsIntended /\ [Next]_vars => ListedAsIntended'
<1> SUFFICES ASSUME TablesInv, ListedAsIntended, [Next]_vars PROVE ListedAsIntended'
  OBVIOUS
<1>1. CASE UNCHANGED workspaceVars
  BY <1>1 DEF workspaceVars, ListedAsIntended, Listed, Exists
<1>2. ASSUME NEW w \in Workspaces, NEW s, NEW name \in Names, CreateWorkspace(w, name, s)
      PROVE  ListedAsIntended'
  <2>1. PICK active \in BOOLEAN : workspace' = [workspace EXCEPT ![w] =
                           [name |-> name, active |-> active, deleted |-> FALSE]]
    BY <1>2 DEF CreateWorkspace
  <2>2. /\ workspace'[w] = [name |-> name, active |-> active, deleted |-> FALSE]
        /\ \A v \in Workspaces \ {w} : workspace'[v] = workspace[v]
        /\ touched' = touched
    BY <1>2, <2>1 DEF CreateWorkspace, TablesInv, TypeOK
  <2>3. ASSUME NEW v \in Workspaces \ {w}, Listed(v), workspace[v].name = name
        PROVE  v \in touched
    <3>1. workspace[v] \in Row /\ workspace[v].active
      BY <2>3 DEF Listed, Exists, TablesInv, TypeOK
    <3>2. workspace[v] # [name |-> name, active |-> TRUE, deleted |-> FALSE]
      BY <1>2 DEF CreateWorkspace
    <3>3. workspace[v].deleted
      BY <2>3, <3>1, <3>2 DEF Row
    <3> QED
      BY <2>3, <3>3 DEF ListedAsIntended
  <2>4. \A u, v \in Workspaces :
          u # v /\ Listed(u)' /\ Listed(v)' /\ workspace'[u].name = workspace'[v].name =>
              u \in touched \/ v \in touched
    BY <2>2, <2>3 DEF ListedAsIntended, Listed, Exists
  <2>5. \A v \in Workspaces : Listed(v)' /\ workspace'[v].deleted => v \in touched
    BY <2>2 DEF ListedAsIntended, Listed, Exists
  <2> QED
    BY <2>2, <2>4, <2>5 DEF ListedAsIntended
<1>3. ASSUME NEW w \in Workspaces, NEW s, NEW name, NEW active,
             UpdateWorkspace(w, name, active, s)
      PROVE  ListedAsIntended'
  <2>1. /\ \A v \in Workspaces \ {w} : workspace'[v] = workspace[v]
        /\ touched' = touched \cup {w}
    BY <1>3 DEF UpdateWorkspace, TablesInv, TypeOK
  <2> QED
    BY <2>1 DEF ListedAsIntended, Listed, Exists
<1>4. ASSUME NEW w \in Workspaces, DeleteWorkspace(w)
      PROVE  ListedAsIntended'
  <2>1. workspace[w] \in Row
    BY <1>4 DEF DeleteWorkspace, Exists, TablesInv, TypeOK
  <2>2. /\ \A v \in Workspaces \ {w} : workspace'[v] = workspace[v]
        /\ touched' = touched \ {w}
        /\ ~workspace'[w].active
    BY <1>4, <2>1 DEF DeleteWorkspace, TablesInv, TypeOK, Row
  <2>3. ~Listed(w)'
    BY <2>2 DEF Listed
  <2> QED
    BY <2>2, <2>3 DEF ListedAsIntended, Listed, Exists
<1>5. WorkspaceStep => ListedAsIntended'
  BY <1>2, <1>3, <1>4 DEF WorkspaceStep
<1>6. SourceStep => UNCHANGED workspaceVars
  BY DEF SourceStep, LinkSource, LinkFails, AddSource, UpdateSource
<1>7. ThreadStep => UNCHANGED workspaceVars
  BY DEF ThreadStep, AssignUsers, CreateType, CommitUsers, RollBack, CommitType, Read, End
<1>8. SuggestionStep => UNCHANGED workspaceVars
  BY DEF SuggestionStep, CreateSuggestion, UpdateSuggestion, DeleteSuggestion
<1>9. Crash \/ UNCHANGED vars => UNCHANGED workspaceVars
  BY DEF Crash, vars
<1> QED
  BY <1>1, <1>5, <1>6, <1>7, <1>8, <1>9 DEF Next

(* Two listed workspaces share a name, and a deleted one is listed, only    *)
(* after an update.                                                         *)
THEOREM ListedWorkspaces == Spec => []ListedAsIntended
<1>1. Init => ListedAsIntended
  BY DEF Init, ListedAsIntended, Listed, Exists
<1>2. TablesInv /\ ListedAsIntended /\ [Next]_vars => ListedAsIntended'
  BY ListedStep
<1> QED
  BY <1>1, <1>2, TablesInvariant, PTL DEF Spec

-----------------------------------------------------------------------------
(* Where sources are linked. Whoever links a source takes the promise from  *)
(* the workspace that had it.                                               *)
LEMMA PromisesStep == TablesInv /\ PromisedSources /\ [Next]_vars => PromisedSources'
<1> SUFFICES ASSUME TablesInv, PromisedSources, [Next]_vars PROVE PromisedSources'
  OBVIOUS
<1>1. CASE UNCHANGED <<link, promised>>
  BY <1>1 DEF PromisedSources
<1>2. /\ link \in [Sources -> Workspaces \cup {None, Absent}]
      /\ promised \in [Workspaces -> Sources \cup {None}]
      /\ linking # None => linking.workspace \in Workspaces /\ linking.source \in Sources
  BY DEF TablesInv, TypeOK, Link
<1>3. ASSUME NEW s \in Sources, NEW w, LinkTo(s, w) PROVE PromisedSources'
  BY <1>2, <1>3 DEF LinkTo, Taken, PromisedSources
<1>4. CASE LinkSource
  <2> DEFINE s == linking.source
             w == linking.workspace
  <2>1. /\ link' = [link EXCEPT ![s] = w]
        /\ promised' = [Taken(s) EXCEPT ![w] = s]
        /\ s \in Sources /\ w \in Workspaces
    BY <1>2, <1>4 DEF LinkSource
  <2> HIDE DEF s, w
  <2>2. link'[s] = w /\ promised'[w] = s
    BY <1>2, <2>1 DEF Taken
  <2>3. ASSUME NEW v \in Workspaces \ {w}, promised'[v] # None
        PROVE  link'[promised'[v]] = v
    <3>1. promised'[v] = promised[v] /\ promised[v] # s
      BY <1>2, <2>1, <2>3 DEF Taken
    <3> QED
      BY <1>2, <2>1, <2>3, <3>1 DEF PromisedSources
  <2> QED
    BY <2>2, <2>3 DEF PromisedSources
<1>5. CASE LinkFails
  BY <1>1, <1>2, <1>3, <1>5 DEF LinkFails
<1>6. ASSUME NEW s \in Sources, NEW w \in Workspaces \cup {None}, AddSource(s, w)
      PROVE  PromisedSources'
  <2>1. /\ link[s] = Absent /\ link' = [link EXCEPT ![s] = w] /\ promised' = promised
    BY <1>6 DEF AddSource
  <2>2. \A v \in Workspaces : promised[v] # s
    BY <1>2, <2>1, WorkspacesAssumption DEF PromisedSources
  <2> QED
    BY <1>2, <2>1, <2>2 DEF PromisedSources
<1>7. ASSUME NEW s \in Sources, NEW w \in Workspaces \cup {None}, UpdateSource(s, w)
      PROVE  PromisedSources'
  BY <1>3, <1>7 DEF UpdateSource
<1>8. SourceStep => PromisedSources'
  BY <1>4, <1>5, <1>6, <1>7 DEF SourceStep
<1>9. WorkspaceStep => UNCHANGED <<link, promised>>
  BY DEF WorkspaceStep, CreateWorkspace, UpdateWorkspace, DeleteWorkspace, sourceVars
<1>10. ThreadStep => UNCHANGED <<link, promised>>
  BY DEF ThreadStep, AssignUsers, CreateType, CommitUsers, RollBack, CommitType, Read, End,
     sourceVars
<1>11. SuggestionStep => UNCHANGED <<link, promised>>
  BY DEF SuggestionStep, CreateSuggestion, UpdateSuggestion, DeleteSuggestion, sourceVars
<1>12. Crash \/ UNCHANGED vars => UNCHANGED <<link, promised>>
  BY DEF Crash, vars, sourceVars
<1> QED
  BY <1>1, <1>8, <1>9, <1>10, <1>11, <1>12 DEF Next

(* A workspace that was reported with a source has it until another request *)
(* takes it, however the two commits fail.                                  *)
THEOREM SourcesAreKept == Spec => []PromisedSources
<1>1. Init => PromisedSources
  BY DEF Init, PromisedSources
<1>2. TablesInv /\ PromisedSources /\ [Next]_vars => PromisedSources'
  BY PromisesStep
<1> QED
  BY <1>1, <1>2, TablesInvariant, PTL DEF Spec

-----------------------------------------------------------------------------
(* Suggestions. No two rows, deleted or not, say the same in a workspace.   *)
Distinct ==
    \A p, q \in Suggestions :
        p # q /\ suggestion[p] # None /\ suggestion[q] # None =>
            \/ suggestion[p].of # suggestion[q].of
            \/ suggestion[p].content # suggestion[q].content

LEMMA DistinctStep == TablesInv /\ Distinct /\ [Next]_vars => Distinct'
<1> SUFFICES ASSUME TablesInv, Distinct, [Next]_vars PROVE Distinct'
  OBVIOUS
<1>1. CASE UNCHANGED suggestion
  BY <1>1 DEF Distinct
<1>2. ASSUME NEW q \in Suggestions, NEW row,
             suggestion' = [suggestion EXCEPT ![q] = row],
             \A p \in Suggestions : p # q /\ suggestion[p] # None =>
                \/ suggestion[p].of # row.of
                \/ suggestion[p].content # row.content
      PROVE  Distinct'
  BY <1>2 DEF Distinct, TablesInv, TypeOK
<1>3. ASSUME NEW w, NEW content, Unique(w, content),
             NEW p \in Suggestions, suggestion[p] # None
      PROVE  suggestion[p].of # w \/ suggestion[p].content # content
  <2>1. <<suggestion[p].of, suggestion[p].content>> # <<w, content>>
    BY <1>3 DEF Unique
  <2> QED
    BY <2>1
<1>4. ASSUME NEW q \in Suggestions, NEW w \in Workspaces, NEW content \in Contents,
             CreateSuggestion(q, w, content)
      PROVE  Distinct'
  <2> DEFINE row == [of |-> w, content |-> content, deleted |-> FALSE]
  <2>1. row.of = w /\ row.content = content
    OBVIOUS
  <2>2. suggestion' = [suggestion EXCEPT ![q] = row] /\ Unique(w, content)
    BY <1>4 DEF CreateSuggestion
  <2> HIDE DEF row
  <2>3. \A p \in Suggestions : suggestion[p] # None =>
          suggestion[p].of # row.of \/ suggestion[p].content # row.content
    BY <1>3, <2>1, <2>2
  <2> QED
    BY <1>2, <2>2, <2>3
<1>5. ASSUME NEW q \in Suggestions, NEW content \in Contents, UpdateSuggestion(q, content)
      PROVE  Distinct'
  <2> DEFINE row == [suggestion[q] EXCEPT !.content = content]
  <2>1. suggestion[q] \in Suggestion /\ Unique(suggestion[q].of, content)
    BY <1>5 DEF UpdateSuggestion, TablesInv, TypeOK
  <2>2. row.of = suggestion[q].of /\ row.content = content
    BY <2>1 DEF Suggestion
  <2>3. suggestion' = [suggestion EXCEPT ![q] = row]
    BY <1>5, <2>1 DEF UpdateSuggestion, Suggestion
  <2> HIDE DEF row
  <2>4. \A p \in Suggestions : suggestion[p] # None =>
          suggestion[p].of # row.of \/ suggestion[p].content # row.content
    BY <1>3, <2>1, <2>2
  <2> QED
    BY <1>2, <2>3, <2>4
<1>6. ASSUME NEW q \in Suggestions, DeleteSuggestion(q)
      PROVE  Distinct'
  <2>1. suggestion[q] \in Suggestion
    BY <1>6 DEF DeleteSuggestion, TablesInv, TypeOK
  <2>2. /\ [suggestion[q] EXCEPT !.deleted = TRUE].of = suggestion[q].of
        /\ [suggestion[q] EXCEPT !.deleted = TRUE].content = suggestion[q].content
    BY <2>1 DEF Suggestion
  <2> QED
    BY <1>2, <1>6, <2>2 DEF DeleteSuggestion, Distinct
<1>7. SuggestionStep => Distinct'
  BY <1>4, <1>5, <1>6 DEF SuggestionStep
<1>8. WorkspaceStep => UNCHANGED suggestion
  BY DEF WorkspaceStep, CreateWorkspace, UpdateWorkspace, DeleteWorkspace
<1>9. SourceStep => UNCHANGED suggestion
  BY DEF SourceStep, LinkSource, LinkFails, AddSource, UpdateSource
<1>10. ThreadStep => UNCHANGED suggestion
  BY DEF ThreadStep, AssignUsers, CreateType, CommitUsers, RollBack, CommitType, Read, End
<1>11. Crash \/ UNCHANGED vars => UNCHANGED suggestion
  BY DEF Crash, vars
<1> QED
  BY <1>1, <1>7, <1>8, <1>9, <1>10, <1>11 DEF Next

(* What was deleted is shown by no other row. *)
THEOREM WithdrawnStaysHidden == Spec => []WithdrawnIsNotShown
<1>1. Init => Distinct
  BY DEF Init, Distinct
<1>2. TablesInv /\ Distinct /\ [Next]_vars => Distinct'
  BY DistinctStep
<1>3. Distinct => WithdrawnIsNotShown
  BY DEF Distinct, WithdrawnIsNotShown, Shown
<1> QED
  BY <1>1, <1>2, <1>3, TablesInvariant, PTL DEF Spec

-----------------------------------------------------------------------------
(* Types of one name. Whoever creates one has seen none: the types there    *)
(* are and those that are still to be committed are from different threads. *)
Creating == {t \in Threads : thread[t] # None /\ thread[t].does = "add"}

TypesFit ==
    /\ IsFiniteSet(Added)
    /\ Cardinality(Added) + Cardinality(Creating) <= Cardinality(Threads)

LEMMA CreatingIsFinite ==
    /\ IsFiniteSet(Threads) /\ Cardinality(Threads) \in Nat
    /\ \A S \in SUBSET Threads :
          IsFiniteSet(S) /\ Cardinality(S) \in Nat /\ Cardinality(S) <= Cardinality(Threads)
    /\ Creating \in SUBSET Threads
<1>1. IsFiniteSet(Threads)
  BY WorkspacesAssumption
<1>2. Creating \in SUBSET Threads
  BY DEF Creating
<1>3. ASSUME NEW S \in SUBSET Threads
      PROVE  IsFiniteSet(S) /\ Cardinality(S) \in Nat /\ Cardinality(S) <= Cardinality(Threads)
  <2>1. S \subseteq Threads
    OBVIOUS
  <2> QED
    BY <1>1, <2>1, FS_Subset, FS_CardinalityType
<1> QED
  BY <1>1, <1>2, <1>3, FS_CardinalityType

LEMMA FitStep == TablesInv /\ TypesFit /\ [Next]_vars => TypesFit'
<1> SUFFICES ASSUME TablesInv, TypesFit, [Next]_vars PROVE TypesFit'
  OBVIOUS
<1>1. /\ IsFiniteSet(Added) /\ Cardinality(Added) \in Nat
      /\ Cardinality(Creating) \in Nat /\ Cardinality(Threads) \in Nat
      /\ Cardinality(Added) + Cardinality(Creating) <= Cardinality(Threads)
  BY CreatingIsFinite, FS_CardinalityType DEF TypesFit
<1>2. ASSUME Added' = Added, Creating' \in SUBSET Creating PROVE TypesFit'
  <2>1. Cardinality(Creating') \in Nat /\ Cardinality(Creating') <= Cardinality(Creating)
    <3>1. Creating' \subseteq Creating /\ IsFiniteSet(Creating)
      BY <1>2, CreatingIsFinite
    <3>2. Cardinality(Creating') <= Cardinality(Creating)
      BY <3>1, FS_Subset
    <3> QED
      BY <1>2, <3>2, CreatingIsFinite
  <2> QED
    BY <1>1, <1>2, <2>1 DEF TypesFit
<1>3. CASE UNCHANGED <<type, thread>>
  BY <1>2, <1>3 DEF Added, Creating
<1>4. ASSUME NEW t \in Threads, End(t), type' = type PROVE TypesFit'
  <2>1. Added' = Added
    BY <1>4 DEF Added
  <2>2. Creating' \in SUBSET Creating
    BY <1>4 DEF End, Creating, TablesInv, TypeOK
  <2> QED
    BY <1>2, <2>1, <2>2
<1>5. ASSUME NEW t \in Threads, NEW w, NEW users, AssignUsers(t, w, users)
      PROVE  TypesFit'
  <2>1. Added' = Added
    BY <1>5 DEF AssignUsers, Read, Added
  <2>2. Creating' \in SUBSET Creating
    BY <1>5 DEF AssignUsers, Read, Creating, TablesInv, TypeOK
  <2> QED
    BY <1>2, <2>1, <2>2
<1>6. ASSUME NEW t \in Threads, NEW available, CreateType(t, available)
      PROVE  TypesFit'
  <2>1. Added' = {}
    BY <1>6 DEF CreateType, Read, Added
  <2>2. Creating' \in SUBSET Threads
    BY DEF Creating
  <2>3. Cardinality(Creating') \in Nat /\ Cardinality(Creating') <= Cardinality(Threads)
    BY <2>2, CreatingIsFinite
  <2> QED
    BY <1>1, <2>1, <2>3, FS_EmptySet DEF TypesFit
<1>7. ASSUME NEW t \in Threads, NEW i \in TypeIds, CommitType(t, i)
      PROVE  TypesFit'
  <2>1. thread[t] # None /\ thread[t].does = "add" /\ thread[t] \in Session
    BY <1>7 DEF CommitType, TablesInv, TypeOK
  <2>2. thread[t].available # None
    BY <2>1, WorkspacesAssumption DEF Session
  <2>3. Added' = Added \cup {i} /\ i \notin Added
    BY <1>7, <2>2 DEF CommitType, Added, TablesInv, TypeOK
  <2>4. Creating' = Creating \ {t} /\ t \in Creating
    BY <1>7, <2>1 DEF CommitType, End, Creating, TablesInv, TypeOK
  <2>5. IsFiniteSet(Added') /\ Cardinality(Added') = Cardinality(Added) + 1
    BY <1>1, <2>3, FS_AddElement
  <2>6. Cardinality(Creating') = Cardinality(Creating) - 1
    BY <2>4, CreatingIsFinite, FS_RemoveElement
  <2> QED
    BY <1>1, <2>5, <2>6 DEF TypesFit
<1>8. CASE ThreadStep
  BY <1>4, <1>5, <1>6, <1>7, <1>8 DEF ThreadStep, CommitUsers, RollBack
<1>9. CASE Crash
  <2>1. Added' = Added /\ Creating' \in SUBSET Creating
    BY <1>9 DEF Crash, Added, Creating
  <2> QED
    BY <1>2, <2>1
<1>10. WorkspaceStep => UNCHANGED <<type, thread>>
  BY DEF WorkspaceStep, CreateWorkspace, UpdateWorkspace, DeleteWorkspace, threadVars
<1>11. SourceStep => UNCHANGED <<type, thread>>
  BY DEF SourceStep, LinkSource, LinkFails, AddSource, UpdateSource, threadVars
<1>12. SuggestionStep => UNCHANGED <<type, thread>>
  BY DEF SuggestionStep, CreateSuggestion, UpdateSuggestion, DeleteSuggestion, threadVars
<1>13. UNCHANGED vars => UNCHANGED <<type, thread>>
  BY DEF vars, threadVars
<1> QED
  BY <1>3, <1>8, <1>9, <1>10, <1>11, <1>12, <1>13 DEF Next

(* A type is repeated by creations that overlap and by nothing else, so     *)
(* that the pool bounds how often.                                          *)
THEOREM PoolBoundsTypes == Spec => []TypesRepeatByOverlap
<1>1. Init => TypesFit
  <2> SUFFICES ASSUME Init PROVE TypesFit
    OBVIOUS
  <2>1. Added = {}
    BY DEF Init, Added
  <2>2. Cardinality(Creating) \in Nat /\ Cardinality(Creating) <= Cardinality(Threads)
        /\ Cardinality(Threads) \in Nat
    BY CreatingIsFinite
  <2> QED
    BY <2>1, <2>2, FS_EmptySet DEF TypesFit
<1>2. TablesInv /\ TypesFit /\ [Next]_vars => TypesFit'
  BY FitStep
<1>3. TypesFit => TypesRepeatByOverlap
  <2>1. ASSUME TypesFit PROVE Cardinality(Added) <= Cardinality(Threads)
    BY <2>1, CreatingIsFinite, FS_CardinalityType DEF TypesFit
  <2> QED
    BY <2>1 DEF TypesRepeatByOverlap
<1> QED
  BY <1>1, <1>2, <1>3, TablesInvariant, PTL DEF Spec
=============================================================================
