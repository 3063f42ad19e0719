---------------------------- MODULE FileStorage ----------------------------
(***************************************************************************)
(* common-file-handler: files are kept in Azure or in a directory, and a   *)
(* row of the table files tells where.  POST /save_file, /v1/save_file and *)
(* /restricted_upload, DELETE /delete_file and /multiple_files, GET        *)
(* /streaming_media_file, and the job that clears what streaming leaves.   *)
(*                                                                         *)
(* The service is one event loop.  A handler gives it up where it reads    *)
(* the uploaded file; everything else it does in one go, but each call of  *)
(* Postgres or of the provider may fail, and the process may die between   *)
(* two of them.                                                            *)
(***************************************************************************)
EXTENDS Naturals, FiniteSets

CONSTANTS
    Calls,              \* the requests that change something
    Names,              \* file names, of one folder
    LongerNames,        \* [Names -> SUBSET Names]: those that a name without
                        \* an extension begins, and itself, for its suffixed
                        \* copies; {} for the others
    Plain,              \* no random suffix
    None

ASSUME FileStorageAssumption ==
    /\ LongerNames \in [Names -> SUBSET Names]
    /\ Plain \notin Calls
    /\ None \notin Calls
    /\ {"no_copy", "lost_copy"} \cap Calls = {}

(* append_id makes a name nobody else has. *)
Paths == [name : Names, suffix : Calls \cup {Plain}]

ASSUME NoneAssumption == None \notin Paths

VARIABLES
    provider,           \* DEFAULT_PROVIDER
    request,            \* what a call asks for
    step,               \* where its handler is
    told,               \* what it has answered
    path,               \* the path it has in hand
    inHand,             \* the row it has in hand
    todo,               \* the ids it has not come to
    listed,             \* the ids it will say are deleted
    files,              \* whose content is at a path
    unfinished,         \* the uploads whose content is not all there
    rows,               \* the path in the row an upload has made
    cache,              \* whose content the temporary copy of a row has
    streamed,           \* has this process streamed anything
    torn                \* history: paths that lost their file but not their row

callVars == <<provider, request, path, inHand, todo, listed>>
storeVars == <<files, unfinished, rows, torn>>
streamVars == <<cache, streamed>>
vars == <<provider, request, path, inHand, todo, listed, step, told,
          files, unfinished, rows, torn, cache, streamed>>

Providers == {"azure", "directory"}
OnLoop == {"check", "remove", "unrow", "write", "row", "find", "erase"}
Suspended == {"measure", "read", "writing"}
Steps == {"new", "ended"} \cup OnLoop \cup Suspended
Answers == {"nothing", "saved", "saved_without_id", "refused", "failed",
            "deleted", "not_deleted"}
Requests ==
    [route : {"save", "restricted", "delete", "delete_many"}, name : Names \cup {None},
     overwrite : BOOLEAN, victims : SUBSET Calls, recursive : BOOLEAN]
NoRequest == [route |-> "save", name |-> None, overwrite |-> FALSE,
              victims |-> {}, recursive |-> FALSE]

TypeOK ==
    /\ provider \in Providers
    /\ request \in [Calls -> Requests]
    /\ step \in [Calls -> Steps]
    /\ told \in [Calls -> Answers]
    /\ path \in [Calls -> Paths \cup {None}]
    /\ inHand \in [Calls -> Calls \cup {None}]
    /\ todo \in [Calls -> SUBSET Calls]
    /\ listed \in [Calls -> SUBSET Calls]
    /\ files \in [Paths -> Calls \cup {None}]
    /\ unfinished \in SUBSET Calls
    /\ rows \in [Calls -> Paths \cup {None}]
    /\ cache \in [Calls -> Calls \cup {"no_copy", "lost_copy"}]
    /\ streamed \in BOOLEAN
    /\ torn \in SUBSET Paths
    \* one handler runs at a time, and has in hand what its step works on
    /\ \A c, d \in Calls : step[c] \in OnLoop /\ step[d] \in OnLoop => c = d
    /\ \A c \in Calls :
          /\ step[c] \in {"remove", "unrow", "write", "writing", "row", "erase"} => path[c] # None
          /\ step[c] \in {"remove", "unrow", "erase"} => inHand[c] # None

Init ==
    /\ provider \in Providers
    /\ request = [c \in Calls |-> NoRequest]
    /\ step = [c \in Calls |-> "new"]
    /\ told = [c \in Calls |-> "nothing"]
    /\ path = [c \in Calls |-> None]
    /\ inHand = [c \in Calls |-> None]
    /\ todo = [c \in Calls |-> {}]
    /\ listed = [c \in Calls |-> {}]
    /\ files = [p \in Paths |-> None]
    /\ unfinished = {}
    /\ rows = [c \in Calls |-> None]
    /\ cache = [c \in Calls |-> "no_copy"]
    /\ streamed = FALSE
    /\ torn = {}

-----------------------------------------------------------------------------
LoopFree == \A c \in Calls : step[c] \notin OnLoop

GoTo(c, s) == step' = [step EXCEPT ![c] = s] /\ UNCHANGED told

End(c, answer) ==
    /\ step' = [step EXCEPT ![c] = "ended"]
    /\ told' = [told EXCEPT ![c] = answer]

PlainPath(n) == [name |-> n, suffix |-> Plain]
OwnPath(c, n) == [name |-> n, suffix |-> c]

(* The Azure provider reads the whole upload first, the directory provider  *)
(* while it writes.                                                         *)
UploadStart == IF provider = "azure" THEN "read" ELSE "check"

(* save_file, save_file_v1. *)
Save(c, n, o) ==
    /\ step[c] = "new" /\ LoopFree
    /\ request' = [request EXCEPT ![c] =
          [route |-> "save", name |-> n, overwrite |-> o, victims |-> {}, recursive |-> FALSE]]
    /\ GoTo(c, UploadStart)
    /\ UNCHANGED <<provider, path, inHand, todo, listed, storeVars, streamVars>>

(* upload_media_file_restricted: always overwrites, once the duration of    *)
(* the recording has been found to be within what the user has left.        *)
SaveRestricted(c, n) ==
    /\ step[c] = "new" /\ LoopFree
    /\ request' = [request EXCEPT ![c] =
          [route |-> "restricted", name |-> n, overwrite |-> TRUE, victims |-> {}, recursive |-> FALSE]]
    /\ GoTo(c, "measure")
    /\ UNCHANGED <<provider, path, inHand, todo, listed, storeVars, streamVars>>

(* Faulty variant: the handler goes on in the thread that measures. *)
MeasureInThread(c) ==
    /\ step[c] = "measure"
    /\ GoTo(c, UploadStart) \/ End(c, "refused")
    /\ UNCHANGED <<callVars, storeVars, streamVars>>

Measure(c) ==
    /\ step[c] = "measure" /\ LoopFree
    /\ GoTo(c, UploadStart) \/ End(c, "refused")
    /\ UNCHANGED <<callVars, storeVars, streamVars>>

ReadSource(c) ==
    /\ step[c] = "read" /\ LoopFree
    /\ GoTo(c, "check")
    /\ UNCHANGED <<callVars, storeVars, streamVars>>

(* exists.  Azure lists blobs by prefix, and for a name without an          *)
(* extension takes any of them.                                             *)
Taken(n) ==
    \/ files[PlainPath(n)] # None
    \/ /\ provider = "azure"
       /\ \E p \in Paths : /\ files[p] # None
                           /\ p.name \in LongerNames[n]

RowsAt(p) == {q \in Calls : rows[q] = p}

(* Faulty variant of Check: an upload replaces what is there in any case. *)
CheckReplacing(c) ==
    /\ step[c] = "check"
    /\ \E q \in Calls \cup {None} :
          LET n == request[c].name IN
          /\ path' = [path EXCEPT ![c] = PlainPath(n)]
          /\ inHand' = [inHand EXCEPT ![c] = q]
          /\ \/ ~Taken(n) /\ q = None /\ GoTo(c, "write")
             \/ Taken(n) /\ q # None /\ rows[q] = PlainPath(n) /\ GoTo(c, "remove")
             \/ Taken(n) /\ q = None /\ RowsAt(PlainPath(n)) = {} /\ End(c, "refused")
    /\ UNCHANGED <<provider, request, todo, listed, storeVars, streamVars>>

(* Faulty variant of Check: whether the name is taken is not looked at. *)
CheckNothing(c) ==
    /\ step[c] = "check"
    /\ path' = [path EXCEPT ![c] = PlainPath(request[c].name)]
    /\ GoTo(c, "write")
    /\ UNCHANGED <<provider, request, inHand, todo, listed, storeVars, streamVars>>

(* upload: where to write, and for an overwrite get_file_per_path, which    *)
(* raises a 404 when no row has that path and takes any of them otherwise.  *)
Check(c) ==
    /\ step[c] = "check"
    /\ LET n == request[c].name
           known == RowsAt(PlainPath(n))
       IN  \/ /\ ~Taken(n)
              /\ path' = [path EXCEPT ![c] = PlainPath(n)]
              /\ GoTo(c, "write") /\ UNCHANGED inHand
           \/ /\ Taken(n) /\ ~request[c].overwrite
              /\ path' = [path EXCEPT ![c] = OwnPath(c, n)]
              /\ GoTo(c, "write") /\ UNCHANGED inHand
           \/ /\ Taken(n) /\ request[c].overwrite
              /\ \E q \in known : inHand' = [inHand EXCEPT ![c] = q]
              /\ path' = [path EXCEPT ![c] = PlainPath(n)]
              /\ GoTo(c, "remove")
           \/ /\ Taken(n) /\ request[c].overwrite /\ known = {}
              /\ End(c, "refused") /\ UNCHANGED <<path, inHand>>
    /\ UNCHANGED <<provider, request, todo, listed, storeVars, streamVars>>

(* delete: fails when the file is not there. *)
RemoveOld(c) ==
    /\ step[c] = "remove"
    /\ \/ /\ files[path[c]] # None
          /\ files' = [files EXCEPT ![path[c]] = None]
          /\ GoTo(c, "unrow")
       \/ End(c, "failed") /\ UNCHANGED files
    /\ UNCHANGED <<callVars, unfinished, rows, torn, streamVars>>

(* delete_file_per_id. *)
DeleteOldRow(c) ==
    /\ step[c] = "unrow"
    /\ \/ /\ rows' = [rows EXCEPT ![inHand[c]] = None]
          /\ GoTo(c, "write") /\ UNCHANGED torn
       \/ /\ torn' = torn \cup {path[c]}
          /\ End(c, "failed") /\ UNCHANGED rows
    /\ UNCHANGED <<callVars, files, unfinished, streamVars>>

(* upload_blob writes all of it at once, and replaces no blob. *)
UploadBlob(c) ==
    /\ step[c] = "write" /\ provider = "azure"
    /\ \/ /\ files[path[c]] = None
          /\ files' = [files EXCEPT ![path[c]] = c]
          /\ GoTo(c, "row")
       \/ End(c, "failed") /\ UNCHANGED files
    /\ UNCHANGED <<callVars, unfinished, rows, torn, streamVars>>

(* open(..., 'wb') and the first chunk. *)
WriteFile(c) ==
    /\ step[c] = "write" /\ provider = "directory"
    /\ \/ /\ files' = [files EXCEPT ![path[c]] = c]
          /\ unfinished' = unfinished \cup {c}
          /\ GoTo(c, "writing")
       \/ End(c, "failed") /\ UNCHANGED <<files, unfinished>>
    /\ UNCHANGED <<callVars, rows, torn, streamVars>>

(* The chunks that arrive while other handlers run. *)
WriteRest(c) ==
    /\ step[c] = "writing" /\ LoopFree
    /\ \/ unfinished' = unfinished \ {c} /\ GoTo(c, "row")
       \/ End(c, "failed") /\ UNCHANGED unfinished
    /\ UNCHANGED <<callVars, files, rows, torn, streamVars>>

(* Faulty variant of SaveRow: an INSERT that fails is not noticed. *)
SaveRowQuietly(c) ==
    /\ step[c] = "row"
    /\ rows' \in {rows, [rows EXCEPT ![c] = path[c]]}
    /\ End(c, "saved")
    /\ UNCHANGED <<callVars, files, unfinished, torn, streamVars>>

(* metadata, save_file_per_id.  A failing INSERT is logged and the answer   *)
(* is a success all the same, without an id (or, in Azure, with the id that *)
(* the file had before it was overwritten).                                 *)
SaveRow(c) ==
    /\ step[c] = "row"
    /\ \/ /\ files[path[c]] # None
          /\ rows' = [rows EXCEPT ![c] = path[c]]
          /\ End(c, "saved")
       \/ End(c, "saved_without_id") /\ UNCHANGED rows
       \/ provider = "azure" /\ End(c, "failed") /\ UNCHANGED rows
    /\ UNCHANGED <<callVars, files, unfinished, torn, streamVars>>

-----------------------------------------------------------------------------
(* delete_file_with_id, delete_multiple_files. *)
Delete(c, route, victims, recursive) ==
    /\ step[c] = "new" /\ LoopFree
    /\ victims # {} /\ c \notin victims
    /\ route = "delete" => Cardinality(victims) = 1
    /\ route = "delete_many" => ~recursive
    /\ request' = [request EXCEPT ![c] =
          [route |-> route, name |-> None, overwrite |-> FALSE,
           victims |-> victims, recursive |-> recursive]]
    /\ todo' = [todo EXCEPT ![c] = victims]
    /\ GoTo(c, "find")
    /\ UNCHANGED <<provider, path, inHand, listed, storeVars, streamVars>>

(* An error ends the call, or the loop over its ids with what was listed. *)
GiveUp(c) ==
    IF request[c].route = "delete" THEN End(c, "failed")
    ELSE End(c, IF listed[c] = {} THEN "not_deleted" ELSE "deleted")

(* The ids are looked up and their rows deleted one by one.  An id without  *)
(* a row is an error, which only Azure's loop passes over: in a directory   *)
(* there is no path None.                                                   *)
DeleteRow(c, v) ==
    /\ step[c] = "find" /\ v \in todo[c]
    /\ \/ /\ rows[v] # None
          /\ rows' = [rows EXCEPT ![v] = None]
          /\ path' = [path EXCEPT ![c] = rows[v]]
          /\ inHand' = [inHand EXCEPT ![c] = v]
          /\ todo' = [todo EXCEPT ![c] = @ \ {v}]
          /\ GoTo(c, "erase")
       \/ rows[v] # None /\ GiveUp(c) /\ UNCHANGED <<rows, path, inHand, todo>>
       \/ /\ rows[v] = None /\ (request[c].route = "delete" \/ provider = "directory")
          /\ GiveUp(c) /\ UNCHANGED <<rows, path, inHand, todo>>
       \/ /\ rows[v] = None /\ request[c].route = "delete_many" /\ provider = "azure"
          /\ todo' = [todo EXCEPT ![c] = @ \ {v}]
          /\ UNCHANGED <<step, told, rows, path, inHand>>
    /\ UNCHANGED <<provider, request, listed, files, unfinished, torn, streamVars>>

(* Faulty variant of EraseFile: what cannot be erased is listed too. *)
EraseAnyhow(c) ==
    /\ step[c] = "erase"
    /\ files' \in {files, [files EXCEPT ![path[c]] = None]}
    /\ listed' = [listed EXCEPT ![c] = @ \cup {inHand[c]}]
    /\ IF request[c].route = "delete" THEN End(c, "deleted") ELSE GoTo(c, "find")
    /\ UNCHANGED <<provider, request, path, inHand, todo, unfinished, rows, torn, streamVars>>

(* The file itself.  In Azure a recursive deletion asks for the blob        *)
(* "files_list" below the path, the key of the answer of list_files, and    *)
(* fails.  In a loop a missing file is passed over, and so is, in Azure,    *)
(* every failure.                                                           *)
EraseFile(c) ==
    /\ step[c] = "erase"
    /\ \/ /\ files[path[c]] # None
          /\ ~(provider = "azure" /\ request[c].recursive)
          /\ files' = [files EXCEPT ![path[c]] = None]
          /\ listed' = [listed EXCEPT ![c] = @ \cup {inHand[c]}]
          /\ IF request[c].route = "delete" THEN End(c, "deleted") ELSE GoTo(c, "find")
       \/ /\ \/ request[c].route = "delete"
             \/ provider = "directory" /\ files[path[c]] # None
          /\ GiveUp(c) /\ UNCHANGED <<files, listed>>
       \/ /\ request[c].route = "delete_many"
          /\ provider = "azure" \/ files[path[c]] = None
          /\ GoTo(c, "find") /\ UNCHANGED <<files, listed>>
    /\ UNCHANGED <<provider, request, path, inHand, todo, unfinished, rows, torn, streamVars>>

FinishDelete(c) ==
    /\ step[c] = "find" /\ todo[c] = {}
    /\ End(c, IF listed[c] = {} THEN "not_deleted" ELSE "deleted")
    /\ UNCHANGED <<callVars, storeVars, streamVars>>

-----------------------------------------------------------------------------
(* Faulty variant of Download: a copy of a file of the same path will do. *)
DownloadNamesake(r) ==
    IF \E q \in Calls : cache[q] \in Calls /\ path[q] = rows[r]
    THEN CHOOSE q \in Calls : cache[q] \in Calls /\ path[q] = rows[r]
    ELSE IF files[rows[r]] = None THEN "no_copy" ELSE files[rows[r]]

(* streaming_media_file_service: the row is looked up, then a temporary     *)
(* copy; if there is none the file is downloaded and the copy noted.  The   *)
(* directory provider downloads into no file, so streaming always fails.    *)
Download(r) == IF files[rows[r]] = None THEN "no_copy" ELSE files[rows[r]]

Stream(r) ==
    /\ LoopFree
    /\ provider = "azure"
    /\ rows[r] # None
    /\ \/ cache[r] # "no_copy" /\ UNCHANGED cache
       \/ /\ cache[r] = "no_copy"
          /\ cache' \in {cache, [cache EXCEPT ![r] = Download(r)]}
    /\ streamed' = (streamed \/ cache[r] # "no_copy" \/ Download(r) # "no_copy")
    /\ UNCHANGED <<callVars, step, told, storeVars>>

(* clean_files, every six hours: rm -rf /tmp/tmp*, then the rows. *)
CleanFiles ==
    /\ LoopFree
    /\ streamed
    /\ \/ cache' = [r \in Calls |-> "no_copy"]
       \/ cache' = [r \in Calls |-> IF cache[r] = "no_copy" THEN "no_copy" ELSE "lost_copy"]
    /\ UNCHANGED <<callVars, step, told, storeVars, streamed>>

(* The process dies, its calls are never answered; startup forgets the      *)
(* copies.                                                                  *)
Crash ==
    /\ step' = [c \in Calls |-> IF step[c] = "new" THEN "new" ELSE "ended"]
    /\ torn' = torn \cup {path[c] : c \in {d \in Calls : step[d] = "unrow"}}
    /\ cache' = [r \in Calls |-> "no_copy"]
    /\ streamed' = FALSE
    /\ UNCHANGED <<callVars, told, files, unfinished, rows>>

-----------------------------------------------------------------------------
UploadStep(c) ==
    \/ Measure(c) \/ ReadSource(c) \/ Check(c) \/ RemoveOld(c) \/ DeleteOldRow(c)
    \/ UploadBlob(c) \/ WriteFile(c) \/ WriteRest(c) \/ SaveRow(c)

Next ==
    \/ \E c \in Calls :
          \/ \E n \in Names, o \in BOOLEAN : Save(c, n, o)
          \/ \E n \in Names : SaveRestricted(c, n)
          \/ UploadStep(c)
          \/ \E route \in {"delete", "delete_many"}, victims \in SUBSET Calls,
                recursive \in BOOLEAN : Delete(c, route, victims, recursive)
          \/ \E v \in Calls : DeleteRow(c, v)
          \/ EraseFile(c)
          \/ FinishDelete(c)
          \/ Stream(c)
    \/ CleanFiles
    \/ Crash

Spec == Init /\ [][Next]_vars

-----------------------------------------------------------------------------
(* The row of an upload leads to its own file, complete, whatever other     *)
(* uploads and deletions did to files of that name.  The exception are      *)
(* paths at which an overwrite removed a file and then could not delete its *)
(* row; "unrow" is the moment between.                                      *)
RowsAreTrue ==
    \A r \in Calls : rows[r] # None =>
        \/ files[rows[r]] = r /\ r \notin unfinished
        \/ rows[r] \in torn
        \/ \E c \in Calls : step[c] = "unrow" /\ path[c] = rows[r]

(* A file that no row leads to and no handler is about to give a row, or to *)
(* erase.                                                                   *)
Orphan(p) ==
    /\ files[p] # None
    /\ RowsAt(p) = {}
    /\ \A c \in Calls : path[c] = p => step[c] \notin {"writing", "row", "erase"}

(* A file without a row comes from an upload whose client got no id for it, *)
(* or from a deletion that did not report it as deleted.                    *)
OrphansAreKnown ==
    \A p \in Paths : Orphan(p) /\ p \notin torn =>
        \/ told[files[p]] # "saved"
        \/ \E d \in Calls : files[p] \in request[d].victims \ listed[d]

(* What a client was given an id for can be fetched by it until a call asks *)
(* for its deletion by that id, or for an overwrite of its name.            *)
Fetched(r) ==
    told[r] = "saved" /\ rows[r] # None /\ files[rows[r]] = r /\ r \notin unfinished

SavedIsKept ==
    [][\A r \in Calls : Fetched(r) /\ ~Fetched(r)' =>
          \/ rows[r] \in torn
          \/ \E c \in Calls :
                \/ step[c] = "find" /\ r \in request[c].victims
                \/ step[c] = "remove" /\ request[c].overwrite /\ path[c] = rows[r]]_vars

(* What is reported as deleted has neither a row nor a file any more.       *)
DeletedIsGone ==
    \A d \in Calls : \A r \in listed[d] :
        rows[r] = None /\ \A p \in Paths : files[p] # r

(* Streaming shows the file of the row asked for, although the temporary    *)
(* copies outlive rows and files; but at a path where an overwrite could    *)
(* not delete the row of the file it replaced.                              *)
CopiesAreTrue ==
    \A r \in Calls : cache[r] \in Calls => cache[r] = r \/ path[r] \in torn
=============================================================================
