----------------------------- MODULE Workspaces -----------------------------
(***************************************************************************)
(* The tables with which workspaces are administrated in the conversation  *)
(* service: workspaces and their types, the data sources they use, the     *)
(* users assigned to them and the questions suggested in them.             *)
(*                                                                         *)
(* Most handlers are coroutines that call the database directly, so that   *)
(* the event loop runs them from beginning to end; but a creation commits  *)
(* the workspace and the link to its source one after the other.  Users    *)
(* are assigned and types created in the threads of the pool.              *)
(*                                                                         *)
(* Requests that are refused or fail before their first commit change      *)
(* nothing, and are no steps.                                              *)
(***************************************************************************)
EXTENDS Naturals, FiniteSets

CONSTANTS
    Workspaces,         \* the ids the rows may have
    Names,
    Sources,
    Users,
    TypeIds,
    Suggestions,
    Contents,           \* what may be suggested
    Threads,            \* threads of the pool
    MaxRequests,        \* bound on the requests
    None                \* no row, no value

Absent == "absent"
Row == [name : Names, active : BOOLEAN, deleted : BOOLEAN]
Suggestion == [of : Workspaces, content : Contents, deleted : BOOLEAN]
Link == [workspace : Workspaces, source : Sources]
Session ==
    [does : {"assign"}, workspace : Workspaces, users : SUBSET Users]
      \cup [does : {"add"}, available : BOOLEAN]

(* None and Absent are no values of the tables. *)
ASSUME WorkspacesAssumption ==
    /\ MaxRequests \in Nat
    /\ IsFiniteSet(Threads)
    /\ None \notin Workspaces \cup Names \cup Sources
    /\ None \notin Row \cup Suggestion \cup Link \cup Session \cup BOOLEAN
    /\ Absent \notin Workspaces \cup {None}

VARIABLES
    workspace,          \* the rows of workspace
    touched,            \* those updated since they were created or deleted
    link,               \* the workspace of each source
    promised,           \* the source each workspace was said to have, unless taken since
    linking,            \* what the handler on the loop has still to link
    assigned,           \* how many rows each user has in each workspace
    type,               \* the rows of workspace_type
    thread,             \* what each thread is about to commit
    suggestion,         \* the rows of workspace_chat_suggestions
    requests

workspaceVars == <<workspace, touched>>
sourceVars == <<link, promised, linking>>
threadVars == <<assigned, type, thread>>
vars == <<workspaceVars, sourceVars, threadVars, suggestion, requests>>

Exists(w) == workspace[w] # None
Listed(w) == Exists(w) /\ workspace[w].active
Shown(q) == suggestion[q] # None /\ ~suggestion[q].deleted
Added == {t \in TypeIds : type[t] # None}

TypeOK ==
    /\ workspace \in [Workspaces -> Row \cup {None}]
    /\ touched \in SUBSET Workspaces
    /\ link \in [Sources -> Workspaces \cup {None, Absent}]
    /\ promised \in [Workspaces -> Sources \cup {None}]
    /\ linking \in Link \cup {None}
    /\ assigned \in [Users \X Workspaces -> 0..1]
    /\ type \in [TypeIds -> {None, TRUE, FALSE}]
    /\ thread \in [Threads -> Session \cup {None}]
    /\ suggestion \in [Suggestions -> Suggestion \cup {None}]
    /\ requests \in 0..MaxRequests
    \* the foreign keys, and what is on its way to them
    /\ \A q \in Suggestions : suggestion[q] # None => Exists(suggestion[q].of)
    /\ \A u \in Users, w \in Workspaces : assigned[u, w] > 0 => Exists(w)
    /\ linking # None => Exists(linking.workspace)

Init ==
    /\ workspace = [w \in Workspaces |-> None]
    /\ touched = {}
    /\ link = [s \in Sources |-> Absent]
    /\ promised = [w \in Workspaces |-> None]
    /\ linking = None
    /\ assigned = [p \in Users \X Workspaces |-> 0]
    /\ type = [t \in TypeIds |-> None]
    /\ thread = [t \in Threads |-> None]
    /\ suggestion = [q \in Suggestions |-> None]
    /\ requests = 0

Request == requests < MaxRequests /\ requests' = requests + 1

(* The loop takes up a request only when it is done with the last one. *)
LoopRequest == Request /\ linking = None

-----------------------------------------------------------------------------
(* After the workspace is committed the handler goes on with the source,    *)
(* if the request names one, unless the answer does not fit its schema.     *)
GoOn(w, s) == linking' \in {None} \cup [workspace : {w}, source : {s} \ {None}]

(* Faulty variant of CreateWorkspace: nobody looks for the name. *)
CreateWorkspaceUnchecked(w, name, s) ==
    /\ LoopRequest
    /\ ~Exists(w)
    /\ workspace' = [workspace EXCEPT ![w] = [name |-> name, active |-> TRUE, deleted |-> FALSE]]
    /\ GoOn(w, s)
    /\ UNCHANGED <<touched, link, promised, threadVars, suggestion>>

CreateWorkspace(w, name, s) ==
    /\ LoopRequest
    /\ ~Exists(w)
    /\ ~\E v \in Workspaces :
          workspace[v] = [name |-> name, active |-> TRUE, deleted |-> FALSE]
    /\ \E active \in BOOLEAN :
          workspace' = [workspace EXCEPT ![w] =
                           [name |-> name, active |-> active, deleted |-> FALSE]]
    /\ GoOn(w, s)
    /\ UNCHANGED <<touched, link, promised, threadVars, suggestion>>

(* A field that the request leaves out keeps its value; active is set even  *)
(* then.  Nothing asks whether the name is taken, or the row deleted.       *)
UpdateWorkspace(w, name, active, s) ==
    /\ LoopRequest
    /\ Exists(w)
    /\ workspace' = [workspace EXCEPT
                        ![w].name = IF name = None THEN @ ELSE name,
                        ![w].active = active]
    /\ touched' = touched \cup {w}
    /\ GoOn(w, s)
    /\ UNCHANGED <<link, promised, threadVars, suggestion>>

(* Faulty variant of DeleteWorkspace: the row is only marked. *)
DeleteWorkspaceMarked(w) ==
    /\ LoopRequest
    /\ Exists(w)
    /\ workspace' = [workspace EXCEPT ![w].deleted = TRUE]
    /\ touched' = touched \ {w}
    /\ UNCHANGED <<sourceVars, threadVars, suggestion>>

DeleteWorkspace(w) ==
    /\ LoopRequest
    /\ Exists(w)
    /\ workspace' = [workspace EXCEPT ![w].active = FALSE, ![w].deleted = TRUE]
    /\ touched' = touched \ {w}
    /\ UNCHANGED <<sourceVars, threadVars, suggestion>>

-----------------------------------------------------------------------------
(* A source belongs to the workspace it was linked to last. *)
Taken(s) == [w \in Workspaces |-> IF promised[w] = s THEN None ELSE promised[w]]

LinkTo(s, w) == link' = [link EXCEPT ![s] = w] /\ promised' = Taken(s)

(* Faulty variant of LinkSource: an error of the link is only logged. *)
LinkSourceQuietly ==
    /\ linking # None
    /\ link' \in {link, [link EXCEPT ![linking.source] = linking.workspace]}
    /\ promised' = [Taken(linking.source) EXCEPT ![linking.workspace] = linking.source]
    /\ linking' = None
    /\ UNCHANGED <<workspaceVars, threadVars, suggestion, requests>>

LinkSource ==
    /\ linking # None
    /\ link[linking.source] # Absent
    /\ link' = [link EXCEPT ![linking.source] = linking.workspace]
    /\ promised' = [Taken(linking.source) EXCEPT ![linking.workspace] = linking.source]
    /\ linking' = None
    /\ UNCHANGED <<workspaceVars, threadVars, suggestion, requests>>

(* There is no such source, or the second commit fails, or what follows     *)
(* after it: the client is told of an error.                                *)
LinkFails ==
    /\ linking # None
    /\ \/ UNCHANGED <<link, promised>>
       \/ link[linking.source] # Absent /\ LinkTo(linking.source, linking.workspace)
    /\ linking' = None
    /\ UNCHANGED <<workspaceVars, threadVars, suggestion, requests>>

AddSource(s, w) ==
    /\ LoopRequest
    /\ link[s] = Absent
    /\ link' = [link EXCEPT ![s] = w]
    /\ UNCHANGED <<workspaceVars, promised, linking, threadVars, suggestion>>

UpdateSource(s, w) ==
    /\ LoopRequest
    /\ link[s] # Absent
    /\ LinkTo(s, w)
    /\ UNCHANGED <<workspaceVars, linking, threadVars, suggestion>>

-----------------------------------------------------------------------------
(* The threads read first, and commit later. *)
Read(t, session) ==
    /\ Request
    /\ thread[t] = None
    /\ thread' = [thread EXCEPT ![t] = session]
    /\ UNCHANGED <<workspaceVars, sourceVars, assigned, type, suggestion>>

End(t) ==
    /\ thread' = [thread EXCEPT ![t] = None]
    /\ UNCHANGED <<workspaceVars, sourceVars, suggestion, requests>>

AssignUsers(t, w, users) ==
    /\ Exists(w)
    /\ Read(t, [does |-> "assign", workspace |-> w, users |-> users])

(* All rows are inserted in one transaction, each pair once. *)
CommitUsers(t) ==
    /\ thread[t] # None
    /\ thread[t].does = "assign"
    /\ LET pairs == thread[t].users \X {thread[t].workspace}
       IN  /\ \A p \in pairs : assigned[p] = 0
           /\ assigned' = [p \in DOMAIN assigned |-> assigned[p] + (IF p \in pairs THEN 1 ELSE 0)]
    /\ UNCHANGED type
    /\ End(t)

(* Faulty variant of CreateType: only types in use have a name. *)
CreateTypeIfNotOffered(t, available) ==
    /\ \A i \in Added : ~type[i]
    /\ Read(t, [does |-> "add", available |-> available])

(* All types here are of one name, since others do not matter to them.  The *)
(* name is looked for whether or not the type is offered.                   *)
CreateType(t, available) ==
    /\ Added = {}
    /\ Read(t, [does |-> "add", available |-> available])

CommitType(t, i) ==
    /\ thread[t] # None
    /\ thread[t].does = "add"
    /\ i \notin Added
    /\ type' = [type EXCEPT ![i] = thread[t].available]
    /\ UNCHANGED assigned
    /\ End(t)

(* The commit is refused or fails, and is rolled back. *)
RollBack(t) ==
    /\ thread[t] # None
    /\ UNCHANGED <<assigned, type>>
    /\ End(t)

-----------------------------------------------------------------------------
(* uq_content_workspace_combination, which deleted rows satisfy as well. *)
Unique(w, content) ==
    \A q \in Suggestions :
        suggestion[q] # None => <<suggestion[q].of, suggestion[q].content>> # <<w, content>>

(* Faulty variants of CreateSuggestion: the workspace need not exist; a     *)
(* deleted suggestion does not count.                                       *)
CreateSuggestionAnywhere(q, w, content) ==
    /\ LoopRequest
    /\ suggestion[q] = None
    /\ Unique(w, content)
    /\ suggestion' = [suggestion EXCEPT ![q] = [of |-> w, content |-> content, deleted |-> FALSE]]
    /\ UNCHANGED <<workspaceVars, sourceVars, threadVars>>

CreateSuggestionAnew(q, w, content) ==
    /\ LoopRequest
    /\ Exists(w)
    /\ suggestion[q] = None
    /\ \A p \in Suggestions :
          Shown(p) => <<suggestion[p].of, suggestion[p].content>> # <<w, content>>
    /\ suggestion' = [suggestion EXCEPT ![q] = [of |-> w, content |-> content, deleted |-> FALSE]]
    /\ UNCHANGED <<workspaceVars, sourceVars, threadVars>>

CreateSuggestion(q, w, content) ==
    /\ LoopRequest
    /\ Exists(w)
    /\ suggestion[q] = None
    /\ Unique(w, content)
    /\ suggestion' = [suggestion EXCEPT ![q] = [of |-> w, content |-> content, deleted |-> FALSE]]
    /\ UNCHANGED <<workspaceVars, sourceVars, threadVars>>

(* A deleted one is updated like any other, and stays deleted. *)
UpdateSuggestion(q, content) ==
    /\ LoopRequest
    /\ suggestion[q] # None
    /\ Unique(suggestion[q].of, content)
    /\ suggestion' = [suggestion EXCEPT ![q].content = content]
    /\ UNCHANGED <<workspaceVars, sourceVars, threadVars>>

DeleteSuggestion(q) ==
    /\ LoopRequest
    /\ suggestion[q] # None
    /\ suggestion' = [suggestion EXCEPT ![q].deleted = TRUE]
    /\ UNCHANGED <<workspaceVars, sourceVars, threadVars>>

(* The process is started again. *)
Crash ==
    /\ linking' = None
    /\ thread' = [t \in Threads |-> None]
    /\ UNCHANGED <<workspaceVars, link, promised, assigned, type, suggestion, requests>>

-----------------------------------------------------------------------------
WorkspaceStep ==
    \E w \in Workspaces, s \in Sources \cup {None} :
        \/ \E name \in Names : CreateWorkspace(w, name, s)
        \/ \E name \in Names \cup {None}, active \in BOOLEAN : UpdateWorkspace(w, name, active, s)
        \/ DeleteWorkspace(w)

SourceStep ==
    \/ LinkSource \/ LinkFails
    \/ \E s \in Sources, w \in Workspaces \cup {None} : AddSource(s, w) \/ UpdateSource(s, w)

ThreadStep ==
    \E t \in Threads :
        \/ \E w \in Workspaces, users \in SUBSET Users : AssignUsers(t, w, users)
        \/ \E available \in BOOLEAN : CreateType(t, available)
        \/ CommitUsers(t) \/ RollBack(t)
        \/ \E i \in TypeIds : CommitType(t, i)

SuggestionStep ==
    \E q \in Suggestions :
        \/ \E w \in Workspaces, content \in Contents : CreateSuggestion(q, w, content)
        \/ \E content \in Contents : UpdateSuggestion(q, content)
        \/ DeleteSuggestion(q)

Next == WorkspaceStep \/ SourceStep \/ ThreadStep \/ SuggestionStep \/ Crash

Spec == Init /\ [][Next]_vars

-----------------------------------------------------------------------------
(* create_workspace refuses a name that a listed workspace has, which no    *)
(* constraint of the table does, and delete_workspace says that it          *)
(* deactivates: two listed workspaces share a name, and a deleted one is    *)
(* listed, only after an update renamed one of them or brought it back.     *)
ListedAsIntended ==
    /\ \A v, w \in Workspaces :
          v # w /\ Listed(v) /\ Listed(w) /\ workspace[v].name = workspace[w].name =>
              v \in touched \/ w \in touched
    /\ \A w \in Workspaces : Listed(w) /\ workspace[w].deleted => w \in touched

(* The two commits of create_workspace and update_workspace: a workspace    *)
(* that was reported with a source has it, until another request takes it,  *)
(* whatever failed in between.                                              *)
PromisedSources ==
    \A w \in Workspaces : promised[w] # None => link[promised[w]] = w

(* create_workspace_type looks for the name in a thread before it inserts,  *)
(* and no constraint helps: a name is used twice only by creations that     *)
(* overlap, so there are never more types of it than threads.               *)
TypesRepeatByOverlap == Cardinality(Added) <= Cardinality(Threads)

(* A suggestion that was deleted is not shown in its workspace by another   *)
(* row, whatever is created, renamed and deleted afterwards.                *)
WithdrawnIsNotShown ==
    \A p, q \in Suggestions :
        suggestion[p] # None /\ suggestion[p].deleted /\ Shown(q) =>
            \/ suggestion[p].of # suggestion[q].of
            \/ suggestion[p].content # suggestion[q].content
=============================================================================
