-------------------------- MODULE FileStorageProofs -------------------------
(***************************************************************************)
(* Proofs about FileStorage and FileStreams, for any number of uploads and *)
(* deletions: rows lead to their files, what is left over is known, what   *)
(* was saved stays until somebody asks, and streams reach their end.       *)
(*                                                                         *)
(* Handlers that wait for an upload lose sight of their path, so the       *)
(* invariant says of each path that was not torn who may be there: one row *)
(* and its file, or one upload that writes, or one deletion that erases.   *)
(***************************************************************************)
EXTENDS FileStreams, TLAPS

(* Whose file and whose row: both follow from the path of an upload, which  *)
(* it keeps from Check on.                                                  *)
Upload(c) == request[c].route \in {"save", "restricted"}
Uploading == {"measure", "read", "check", "remove", "unrow", "write", "writing", "row"}

CallAt(c) ==
    /\ step[c] \in {"new"} \cup Uploading => Upload(c)
    /\ step[c] \in Uploading => request[c].name \in Names
    /\ step[c] \in {"find", "erase"} => ~Upload(c)
    /\ step[c] \in {"new", "measure", "read", "check"} => path[c] = None
    /\ Upload(c) => request[c].victims = {}
    /\ Upload(c) /\ path[c] # None => path[c].suffix \in {Plain, c}
    /\ told[c] # "nothing" => step[c] = "ended"
    /\ c \in unfinished => step[c] \in {"writing", "ended"} /\ told[c] # "saved"
    /\ step[c] = "remove" => request[c].overwrite /\ rows[inHand[c]] = path[c]
    /\ step[c] = "unrow" => rows[inHand[c]] = path[c] /\ files[path[c]] = None
    /\ cache[c] # "no_copy" => step[c] = "ended"

DeleteAt(c) ==
    /\ todo[c] \cup listed[c] \subseteq request[c].victims
    /\ todo[c] \cap listed[c] = {}
    /\ step[c] = "erase" =>
          LET v == inHand[c]
          IN  /\ v \in request[c].victims \ (todo[c] \cup listed[c])
              /\ Upload(v) /\ path[c] = path[v] /\ step[v] = "ended" /\ rows[v] = None
    /\ \A r \in listed[c] :
          step[r] = "ended" /\ rows[r] = None /\ \A p \in Paths : files[p] # r

RowOf(r) ==
    rows[r] # None =>
        Upload(r) /\ rows[r] = path[r] /\ step[r] = "ended" /\ told[r] = "saved"

FileAt(p) ==
    files[p] # None =>
        LET c == files[p]
        IN  Upload(c) /\ path[c] = p /\ step[c] \in {"writing", "row", "ended"}

(* What holds at a path that is not torn.                                   *)
OneRow(p) ==
    \A r, q \in Calls : rows[r] = p /\ rows[q] = p => r = q
RowTrue(p) ==
    \A r \in Calls : rows[r] = p =>
        files[p] = r \/ \E c \in Calls : step[c] = "unrow" /\ path[c] = p
Taking(p) ==
    \A c \in Calls : path[c] = p =>
        /\ step[c] \in {"writing", "row"} => files[p] = c
        /\ step[c] = "write" => files[p] = None
        /\ step[c] = "erase" => files[p] = inHand[c]
        /\ step[c] \in {"write", "writing", "row", "erase"} => \A r \in Calls : rows[r] # p
Known(p) ==
    files[p] # None /\ told[files[p]] = "saved" /\ rows[files[p]] # p =>
        \E d \in Calls : files[p] \in request[d].victims \ listed[d]
PathOK(p) == OneRow(p) /\ RowTrue(p) /\ Taking(p) /\ Known(p)

CopyOK(r) == cache[r] \in Calls => cache[r] = r \/ path[r] \in torn

StoreInv ==
    /\ TypeOK
    /\ \A c \in Calls : CallAt(c) /\ DeleteAt(c) /\ RowOf(c) /\ CopyOK(c)
    /\ \A p \in Paths : FileAt(p)
    /\ \A p \in Paths \ torn : PathOK(p)

-----------------------------------------------------------------------------
LEMMA Moving ==
    ASSUME TypeOK, NEW c \in Calls, NEW s \in Steps, step' = [step EXCEPT ![c] = s],
           s \in OnLoop => LoopFree \/ step[c] \in OnLoop
    PROVE  /\ step' \in [Calls -> Steps] /\ step'[c] = s
           /\ \A d \in Calls \ {c} : step'[d] = step[d]
           /\ \A d, e \in Calls : step'[d] \in OnLoop /\ step'[e] \in OnLoop => d = e
<1>1. step \in [Calls -> Steps]
  BY DEF TypeOK
<1>2. /\ step' \in [Calls -> Steps] /\ step'[c] = s
      /\ \A d \in Calls \ {c} : step'[d] = step[d]
  BY <1>1
<1>3. \A d, e \in Calls : step[d] \in OnLoop /\ step[e] \in OnLoop => d = e
  BY DEF TypeOK
<1> HIDE DEF OnLoop, Steps
<1> QED
  BY <1>2, <1>3 DEF LoopFree

LEMMA Telling ==
    ASSUME TypeOK, NEW c \in Calls, NEW a \in Answers, told' = [told EXCEPT ![c] = a]
    PROVE  /\ told' \in [Calls -> Answers] /\ told'[c] = a
           /\ \A d \in Calls \ {c} : told'[d] = told[d]
BY DEF TypeOK

(* A handler that goes on without touching files, rows or what it has in    *)
(* hand, or ends without success.                                           *)
LEMMA OnlyMoves ==
    ASSUME StoreInv, NEW c \in Calls, NEW s \in Steps,
           UNCHANGED <<provider, request, path, inHand, listed, files, rows, torn, cache, streamed>>,
           step' = [step EXCEPT ![c] = s],
           \/ s # "ended" /\ told' = told
           \/ s = "ended" /\ \E a \in Answers \ {"nothing", "saved"} : told' = [told EXCEPT ![c] = a],
           s \in OnLoop => LoopFree \/ step[c] \in OnLoop,
           todo' = todo \/ \E v \in Calls : todo' = [todo EXCEPT ![c] = @ \ {v}],
           unfinished' = unfinished \/ unfinished' = unfinished \ {c},
           \/ s = "ended" /\ step[c] \notin {"new", "unrow", "ended"}
           \/ step[c] = "measure" /\ s \in {"read", "check"}
           \/ step[c] = "read" /\ s = "check"
           \/ step[c] = "writing" /\ s = "row" /\ unfinished' = unfinished \ {c}
           \/ step[c] \in {"find", "erase"} /\ s = "find"
    PROVE  StoreInv'
<1>1. TypeOK
  BY DEF StoreInv
<1>2. /\ step' \in [Calls -> Steps] /\ step'[c] = s
      /\ \A d \in Calls \ {c} : step'[d] = step[d]
      /\ \A d, e \in Calls : step'[d] \in OnLoop /\ step'[e] \in OnLoop => d = e
  BY <1>1, Moving
<1>3. /\ told' \in [Calls -> Answers] /\ \A d \in Calls \ {c} : told'[d] = told[d]
      /\ told'[c] # "saved" \/ told'[c] = told[c]
      /\ s # "ended" => told'[c] = told[c]
  <2>1. CASE told' = told
    BY <1>1, <2>1 DEF TypeOK
  <2>2. ASSUME NEW a \in Answers \ {"nothing", "saved"}, told' = [told EXCEPT ![c] = a], s = "ended"
        PROVE  /\ told' \in [Calls -> Answers] /\ \A d \in Calls \ {c} : told'[d] = told[d]
               /\ told'[c] # "saved"
    BY <1>1, <2>2, Telling
  <2> QED
    BY <2>1, <2>2
<1>4. todo' \in [Calls -> SUBSET Calls] /\ \A d \in Calls : todo'[d] \subseteq todo[d]
  BY <1>1 DEF TypeOK
<1>5. TypeOK'
  BY <1>1, <1>2, <1>3, <1>4 DEF TypeOK
<1>6. \A d \in Calls : CallAt(d)'
  BY <1>2, <1>3 DEF StoreInv, CallAt, Upload, Uploading
<1>7. \A d \in Calls : DeleteAt(d)'
  BY <1>2, <1>4 DEF StoreInv, DeleteAt, Upload
<1>8. \A r \in Calls : RowOf(r)' /\ CopyOK(r)'
  BY <1>2, <1>3 DEF StoreInv, RowOf, CopyOK, Upload
<1>9. \A p \in Paths : FileAt(p)'
  BY <1>1, <1>2 DEF StoreInv, FileAt, Upload, TypeOK
<1>10. \A p \in Paths \ torn' : PathOK(p)'
  BY <1>1, <1>2, <1>3 DEF StoreInv, PathOK, OneRow, RowTrue, Taking, Known, TypeOK
<1> QED
  BY <1>5, <1>6, <1>7, <1>8, <1>9, <1>10 DEF StoreInv

(* A call that begins.                                                      *)
LEMMA Begins ==
    ASSUME StoreInv, NEW c \in Calls, NEW s \in Steps, NEW r \in Requests,
           step[c] = "new", LoopFree,
           request' = [request EXCEPT ![c] = r],
           todo' = [todo EXCEPT ![c] = r.victims],
           step' = [step EXCEPT ![c] = s],
           UNCHANGED <<provider, path, inHand, listed, told, storeVars, streamVars>>,
           \/ /\ r.route \in {"save", "restricted"} /\ r.victims = {} /\ r.name \in Names
              /\ s \in {"measure", "read", "check"}
           \/ r.route \notin {"save", "restricted"} /\ s = "find"
    PROVE  StoreInv'
<1>1. TypeOK /\ CallAt(c) /\ DeleteAt(c)
  BY DEF StoreInv
<1>2. /\ step' \in [Calls -> Steps] /\ step'[c] = s
      /\ \A d \in Calls \ {c} : step'[d] = step[d]
      /\ \A d, e \in Calls : step'[d] \in OnLoop /\ step'[e] \in OnLoop => d = e
  BY <1>1, Moving
<1>3. /\ request' \in [Calls -> Requests] /\ request'[c] = r
      /\ \A d \in Calls \ {c} : request'[d] = request[d]
  BY <1>1 DEF TypeOK
<1>4. /\ todo' \in [Calls -> SUBSET Calls] /\ todo'[c] = r.victims
      /\ \A d \in Calls \ {c} : todo'[d] = todo[d]
  BY <1>1 DEF TypeOK, Requests
<1>5. listed[c] = {} /\ path[c] = None /\ told[c] = "nothing" /\ request[c].victims = {}
  BY <1>1 DEF CallAt, DeleteAt
<1>6. TypeOK'
  BY <1>1, <1>2, <1>3, <1>4 DEF TypeOK, storeVars, streamVars
<1>7. \A d \in Calls : CallAt(d)'
  BY <1>2, <1>3, <1>5 DEF StoreInv, CallAt, Upload, Uploading, storeVars, streamVars
<1>8. \A d \in Calls : DeleteAt(d)'
  <2>1. DeleteAt(c)'
    BY <1>1, <1>2, <1>3, <1>4, <1>5 DEF DeleteAt, Upload
  <2>2. ASSUME NEW d \in Calls \ {c} PROVE DeleteAt(d)'
    <3>1. DeleteAt(d) /\ inHand[d] \in Calls \cup {None}
      BY DEF StoreInv, TypeOK
    <3>2. step[d] = "erase" => inHand[d] # c
      BY <3>1 DEF DeleteAt
    <3>3. \A r1 \in listed[d] : step'[r1] = "ended"
      BY <1>1, <1>2, <3>1 DEF DeleteAt, TypeOK
    <3> QED
      BY <1>1, <1>2, <1>3, <1>4, <3>1, <3>2, <3>3 DEF DeleteAt, Upload, storeVars, TypeOK
  <2> QED
    BY <2>1, <2>2
<1>9. \A d \in Calls : RowOf(d)' /\ CopyOK(d)'
  BY <1>1, <1>2, <1>3 DEF StoreInv, RowOf, CopyOK, Upload, storeVars, streamVars
<1>10. \A p \in Paths : FileAt(p)'
  BY <1>1, <1>2, <1>3 DEF StoreInv, FileAt, Upload, TypeOK, storeVars
<1>11. \A p \in Paths \ torn' : PathOK(p)'
  BY <1>1, <1>2, <1>3, <1>5 DEF StoreInv, PathOK, OneRow, RowTrue, Taking, Known, TypeOK, storeVars
<1> QED
  BY <1>6, <1>7, <1>8, <1>9, <1>10, <1>11 DEF StoreInv

LEMMA NewPaths ==
    ASSUME NEW c \in Calls, NEW n \in Names
    PROVE  /\ PlainPath(n) \in Paths /\ PlainPath(n).suffix = Plain
           /\ OwnPath(c, n) \in Paths /\ OwnPath(c, n).suffix = c
BY DEF PlainPath, OwnPath, Paths

(* An upload that has chosen its path finds it free, unless it is torn, or  *)
(* has the row there in hand.                                               *)
LEMMA Chooses ==
    ASSUME StoreInv, NEW c \in Calls, NEW p \in Paths, NEW s \in {"write", "remove"},
           step[c] = "check", p.suffix \in {Plain, c},
           path' = [path EXCEPT ![c] = p],
           step' = [step EXCEPT ![c] = s],
           \/ /\ s = "write" /\ inHand' = inHand
              /\ p \notin torn => files[p] = None /\ \A r \in Calls : rows[r] # p
           \/ /\ s = "remove" /\ request[c].overwrite
              /\ \E q \in Calls : rows[q] = p /\ inHand' = [inHand EXCEPT ![c] = q],
           UNCHANGED <<provider, request, todo, listed, told, storeVars, streamVars>>
    PROVE  StoreInv'
<1>1. TypeOK /\ CallAt(c) /\ DeleteAt(c)
  BY DEF StoreInv
<1>2. /\ step' \in [Calls -> Steps] /\ step'[c] = s
      /\ \A d \in Calls \ {c} : step'[d] = step[d]
      /\ \A d, e \in Calls : step'[d] \in OnLoop /\ step'[e] \in OnLoop => d = e
  <2>1. s \in Steps /\ step[c] \in OnLoop
    BY DEF Steps, OnLoop
  <2> QED
    BY <1>1, <2>1, Moving
<1>3. /\ path' \in [Calls -> Paths \cup {None}] /\ path'[c] = p
      /\ \A d \in Calls \ {c} : path'[d] = path[d]
  BY <1>1 DEF TypeOK
<1>4. /\ inHand' \in [Calls -> Calls \cup {None}]
      /\ \A d \in Calls \ {c} : inHand'[d] = inHand[d]
      /\ s = "remove" => inHand'[c] \in Calls /\ rows[inHand'[c]] = p /\ request[c].overwrite
  BY <1>1 DEF TypeOK
<1>5. /\ path[c] = None /\ None \notin Paths /\ None \notin Calls /\ Upload(c)
      /\ request[c].name \in Names
  BY <1>1, NoneAssumption, FileStorageAssumption DEF CallAt, Uploading
<1>6. TypeOK'
  BY <1>1, <1>2, <1>3, <1>4, <1>5 DEF TypeOK, storeVars, streamVars
<1>7. \A d \in Calls : CallAt(d)'
  <2>1. CallAt(c)'
    BY <1>1, <1>2, <1>3, <1>4, <1>5 DEF CallAt, Upload, Uploading, storeVars, streamVars
  <2>2. ASSUME NEW d \in Calls \ {c} PROVE CallAt(d)'
    BY <1>2, <1>3, <1>4 DEF StoreInv, CallAt, Upload, Uploading, storeVars, streamVars
  <2> QED
    BY <2>1, <2>2
<1>8. \A d \in Calls : DeleteAt(d)'
  BY <1>1, <1>2, <1>3, <1>4, <1>5 DEF StoreInv, DeleteAt, Upload, TypeOK, storeVars
<1>9. \A d \in Calls : RowOf(d)' /\ CopyOK(d)'
  BY <1>1, <1>2, <1>3, <1>5 DEF StoreInv, RowOf, CopyOK, CallAt, Upload, storeVars, streamVars, TypeOK
<1>10. \A x \in Paths : FileAt(x)'
  BY <1>1, <1>2, <1>3, <1>5 DEF StoreInv, FileAt, Upload, TypeOK, storeVars
<1>11. \A x \in Paths \ torn' : PathOK(x)'
  BY <1>1, <1>2, <1>3, <1>4, <1>5
     DEF StoreInv, PathOK, OneRow, RowTrue, Taking, Known, TypeOK, storeVars
<1> QED
  BY <1>6, <1>7, <1>8, <1>9, <1>10, <1>11 DEF StoreInv

LEMMA StoreCheck ==
    ASSUME StoreInv, NEW c \in Calls, Check(c)
    PROVE  StoreInv'
<1> DEFINE n == request[c].name
<1>1. TypeOK /\ CallAt(c) /\ step[c] = "check" /\ n \in Names
  BY DEF StoreInv, CallAt, Uploading, Check
<1>2. /\ PlainPath(n) \in Paths /\ PlainPath(n).suffix = Plain
      /\ OwnPath(c, n) \in Paths /\ OwnPath(c, n).suffix = c
  BY <1>1, NewPaths
<1>3. /\ path[c] = None /\ None \notin Paths /\ None \notin Calls /\ Plain \notin Calls
  BY <1>1, NoneAssumption, FileStorageAssumption DEF CallAt
<1>4. UNCHANGED <<provider, request, todo, listed, storeVars, streamVars>>
  BY DEF Check
<1>5. ASSUME ~Taken(n), path' = [path EXCEPT ![c] = PlainPath(n)], GoTo(c, "write"), inHand' = inHand
      PROVE  StoreInv'
  <2>1. files[PlainPath(n)] = None
    BY <1>5 DEF Taken
  <2>2. ASSUME NEW r \in Calls, rows[r] = PlainPath(n), PlainPath(n) \notin torn PROVE FALSE
    <3>1. \E d \in Calls : step[d] = "unrow"
      BY <1>2, <1>3, <2>1, <2>2 DEF StoreInv, PathOK, RowTrue
    <3> QED
      BY <1>1, <3>1 DEF TypeOK, OnLoop
  <2> QED
    BY <1>1, <1>2, <1>4, <1>5, <2>1, <2>2, Chooses DEF GoTo
<1>6. ASSUME path' = [path EXCEPT ![c] = OwnPath(c, n)], GoTo(c, "write"), inHand' = inHand
      PROVE  StoreInv'
  <2>1. files[OwnPath(c, n)] = None
    <3>1. ASSUME files[OwnPath(c, n)] # None PROVE FALSE
      <4> DEFINE x == files[OwnPath(c, n)]
      <4>1. x \in Calls /\ Upload(x) /\ path[x] = OwnPath(c, n)
        BY <1>1, <1>2, <3>1 DEF StoreInv, FileAt, TypeOK
      <4>2. OwnPath(c, n).suffix \in {Plain, x}
        BY <1>2, <1>3, <4>1 DEF StoreInv, CallAt
      <4> QED
        BY <1>2, <1>3, <4>1, <4>2
    <3> QED
      BY <3>1
  <2>2. ASSUME NEW r \in Calls, rows[r] = OwnPath(c, n) PROVE FALSE
    <3>1. Upload(r) /\ path[r] = OwnPath(c, n)
      BY <1>2, <1>3, <2>2 DEF StoreInv, RowOf
    <3>2. OwnPath(c, n).suffix \in {Plain, r}
      BY <1>2, <1>3, <3>1 DEF StoreInv, CallAt
    <3> QED
      BY <1>2, <1>3, <3>1, <3>2
  <2> QED
    BY <1>1, <1>2, <1>4, <1>6, <2>1, <2>2, Chooses DEF GoTo
<1>7. ASSUME request[c].overwrite, NEW q \in RowsAt(PlainPath(n)),
             inHand' = [inHand EXCEPT ![c] = q],
             path' = [path EXCEPT ![c] = PlainPath(n)], GoTo(c, "remove")
      PROVE  StoreInv'
  <2>1. q \in Calls /\ rows[q] = PlainPath(n)
    BY DEF RowsAt
  <2> QED
    BY <1>1, <1>2, <1>4, <1>7, <2>1, Chooses DEF GoTo
<1>8. ASSUME End(c, "refused"), UNCHANGED <<path, inHand>>
      PROVE  StoreInv'
  <2>1. "refused" \in Answers \ {"nothing", "saved"} /\ "ended" \in Steps /\ "ended" \notin OnLoop
    BY DEF Answers, Steps, OnLoop
  <2> QED
    BY <1>1, <1>4, <1>8, <2>1, OnlyMoves DEF End, storeVars, streamVars
<1> QED
  BY <1>5, <1>6, <1>7, <1>8 DEF Check

(* An overwrite removes the file of the only row there is, then the row.    *)
LEMMA StoreRemoveOld ==
    ASSUME StoreInv, NEW c \in Calls, RemoveOld(c)
    PROVE  StoreInv'
<1> DEFINE p == path[c]
<1>1. /\ TypeOK /\ CallAt(c) /\ step[c] = "remove"
      /\ UNCHANGED <<callVars, unfinished, rows, torn, streamVars>>
  BY DEF StoreInv, RemoveOld
<1>2. /\ p \in Paths /\ inHand[c] \in Calls /\ rows[inHand[c]] = p /\ None \notin Paths
      /\ None \notin Calls
  BY <1>1, NoneAssumption, FileStorageAssumption DEF TypeOK, CallAt
<1>3. ASSUME files' = [files EXCEPT ![p] = None], GoTo(c, "unrow")
      PROVE  StoreInv'
  <2>1. /\ step' \in [Calls -> Steps] /\ step'[c] = "unrow"
        /\ \A d \in Calls \ {c} : step'[d] = step[d]
        /\ \A d, e \in Calls : step'[d] \in OnLoop /\ step'[e] \in OnLoop => d = e
    <3>1. "unrow" \in Steps /\ step[c] \in OnLoop
      BY <1>1 DEF Steps, OnLoop
    <3> QED
      BY <1>1, <1>3, <3>1, Moving DEF GoTo
  <2>2. /\ files' \in [Paths -> Calls \cup {None}] /\ files'[p] = None
        /\ \A x \in Paths \ {p} : files'[x] = files[x]
    BY <1>1, <1>2, <1>3 DEF TypeOK
  <2>3. told' = told
    BY <1>3 DEF GoTo
  <2>4. \A d \in Calls \ {c} : step[d] \notin OnLoop
    BY <1>1 DEF TypeOK, OnLoop
  <2>5. TypeOK'
    BY <1>1, <1>2, <2>1, <2>2, <2>3 DEF TypeOK, callVars, streamVars
  <2>6. \A d \in Calls : CallAt(d)'
    BY <1>1, <1>2, <2>1, <2>2, <2>3, <2>4
       DEF StoreInv, CallAt, Upload, Uploading, OnLoop, callVars, streamVars
  <2>7. \A d \in Calls : DeleteAt(d)'
    BY <1>1, <1>2, <2>1, <2>2 DEF StoreInv, DeleteAt, Upload, TypeOK, callVars
  <2>8. \A d \in Calls : RowOf(d)' /\ CopyOK(d)'
    BY <1>1, <2>1, <2>3 DEF StoreInv, RowOf, CopyOK, Upload, callVars, streamVars
  <2>9. \A x \in Paths : FileAt(x)'
    BY <1>1, <2>1, <2>2 DEF StoreInv, FileAt, Upload, TypeOK, callVars
  <2>10. ASSUME NEW x \in Paths \ torn PROVE PathOK(x)'
    <3>1. PathOK(x)
      BY DEF StoreInv
    <3>2. OneRow(x)' /\ RowTrue(x)'
      BY <1>1, <1>2, <2>1, <2>2, <3>1 DEF PathOK, OneRow, RowTrue, callVars
    <3>3. Taking(x)'
      BY <1>1, <1>2, <2>1, <2>2, <2>4, <3>1 DEF PathOK, Taking, OnLoop, callVars
    <3>4. Known(x)'
      BY <1>1, <2>2, <2>3, <3>1 DEF PathOK, Known, callVars
    <3> QED
      BY <3>2, <3>3, <3>4 DEF PathOK
  <2> QED
    BY <1>1, <2>5, <2>6, <2>7, <2>8, <2>9, <2>10 DEF StoreInv
<1>4. ASSUME End(c, "failed"), files' = files PROVE StoreInv'
  <2>1. "failed" \in Answers \ {"nothing", "saved"} /\ "ended" \in Steps /\ "ended" \notin OnLoop
    BY DEF Answers, Steps, OnLoop
  <2> QED
    BY <1>1, <1>4, <2>1, OnlyMoves DEF End, callVars, streamVars
<1> QED
  BY <1>3, <1>4 DEF RemoveOld

LEMMA StoreDeleteOldRow ==
    ASSUME StoreInv, NEW c \in Calls, DeleteOldRow(c)
    PROVE  StoreInv'
<1> DEFINE p == path[c]
           q == inHand[c]
<1>1. /\ TypeOK /\ CallAt(c) /\ step[c] = "unrow"
      /\ UNCHANGED <<callVars, files, unfinished, streamVars>>
  BY DEF StoreInv, DeleteOldRow
<1>2. /\ p \in Paths /\ q \in Calls /\ rows[q] = p /\ files[p] = None /\ None \notin Paths
      /\ None \notin Calls
  BY <1>1, NoneAssumption, FileStorageAssumption DEF TypeOK, CallAt
<1>3. Upload(q) /\ path[q] = p /\ step[q] = "ended"
  BY <1>2 DEF StoreInv, RowOf
<1>4. \A d \in Calls \ {c} : step[d] \notin OnLoop
  BY <1>1 DEF TypeOK, OnLoop
<1>5. ASSUME rows' = [rows EXCEPT ![q] = None], GoTo(c, "write"), torn' = torn
      PROVE  StoreInv'
  <2>1. /\ step' \in [Calls -> Steps] /\ step'[c] = "write"
        /\ \A d \in Calls \ {c} : step'[d] = step[d]
        /\ \A d, e \in Calls : step'[d] \in OnLoop /\ step'[e] \in OnLoop => d = e
    <3>1. "write" \in Steps /\ step[c] \in OnLoop
      BY <1>1 DEF Steps, OnLoop
    <3> QED
      BY <1>1, <1>5, <3>1, Moving DEF GoTo
  <2>2. /\ rows' \in [Calls -> Paths \cup {None}] /\ rows'[q] = None
        /\ \A d \in Calls \ {q} : rows'[d] = rows[d]
    BY <1>1, <1>2, <1>5 DEF TypeOK
  <2>3. told' = told
    BY <1>5 DEF GoTo
  <2>4. TypeOK'
    BY <1>1, <1>2, <1>5, <2>1, <2>2, <2>3 DEF TypeOK, callVars, streamVars
  <2>5. \A d \in Calls : CallAt(d)'
    BY <1>1, <1>4, <2>1, <2>2, <2>3
       DEF StoreInv, CallAt, Upload, Uploading, OnLoop, callVars, streamVars
  <2>6. \A d \in Calls : DeleteAt(d)'
    BY <1>1, <1>2, <2>1, <2>2 DEF StoreInv, DeleteAt, Upload, TypeOK, callVars
  <2>7. \A d \in Calls : RowOf(d)' /\ CopyOK(d)'
    BY <1>1, <1>5, <2>1, <2>2, <2>3 DEF StoreInv, RowOf, CopyOK, Upload, callVars, streamVars
  <2>8. \A x \in Paths : FileAt(x)'
    BY <1>1, <2>1 DEF StoreInv, FileAt, Upload, TypeOK, callVars
  <2>9. ASSUME NEW x \in Paths \ torn PROVE PathOK(x)'
    <3>1. PathOK(x)
      BY DEF StoreInv
    <3>2. OneRow(x)'
      BY <1>2, <2>2, <3>1 DEF PathOK, OneRow
    <3>3. x = p => \A r \in Calls : rows'[r] # x
      BY <1>2, <2>2, <3>1 DEF PathOK, OneRow
    <3>4. RowTrue(x)'
      BY <1>1, <1>2, <1>4, <2>1, <2>2, <3>1, <3>3 DEF PathOK, RowTrue, OnLoop, callVars
    <3>5. Taking(x)'
      BY <1>1, <1>2, <2>1, <2>2, <3>1, <3>3 DEF PathOK, Taking, callVars
    <3>6. Known(x)'
      <4>1. files[x] # None => path[files[x]] = x /\ files[x] \in Calls
        BY <1>1 DEF StoreInv, FileAt, TypeOK
      <4>2. files[x] # None => files[x] # q
        BY <1>2, <1>3, <4>1
      <4> QED
        BY <1>1, <2>2, <2>3, <3>1, <4>1, <4>2 DEF PathOK, Known, callVars
    <3> QED
      BY <3>2, <3>4, <3>5, <3>6 DEF PathOK
  <2> QED
    BY <1>5, <2>4, <2>5, <2>6, <2>7, <2>8, <2>9 DEF StoreInv
<1>6. ASSUME torn' = torn \cup {p}, End(c, "failed"), rows' = rows
      PROVE  StoreInv'
  <2>1. "failed" \in Answers /\ "ended" \in Steps /\ "ended" \notin OnLoop
    BY DEF Answers, Steps, OnLoop
  <2>2. /\ step' \in [Calls -> Steps] /\ step'[c] = "ended"
        /\ \A d \in Calls \ {c} : step'[d] = step[d]
        /\ \A d, e \in Calls : step'[d] \in OnLoop /\ step'[e] \in OnLoop => d = e
    BY <1>1, <1>6, <2>1, Moving DEF End
  <2>3. /\ told' \in [Calls -> Answers] /\ told'[c] = "failed"
        /\ \A d \in Calls \ {c} : told'[d] = told[d]
    BY <1>1, <1>6, <2>1, Telling DEF End
  <2>4. TypeOK'
    BY <1>1, <1>2, <1>6, <2>2, <2>3 DEF TypeOK, callVars, streamVars
  <2>5. \A d \in Calls : CallAt(d)'
    BY <1>1, <1>6, <2>2, <2>3 DEF StoreInv, CallAt, Upload, Uploading, callVars, streamVars
  <2>6. \A d \in Calls : DeleteAt(d)'
    BY <1>1, <1>6, <2>2 DEF StoreInv, DeleteAt, Upload, TypeOK, callVars
  <2>7. \A d \in Calls : RowOf(d)' /\ CopyOK(d)'
    BY <1>1, <1>6, <2>2, <2>3 DEF StoreInv, RowOf, CopyOK, Upload, callVars, streamVars
  <2>8. \A x \in Paths : FileAt(x)'
    BY <1>1, <2>2 DEF StoreInv, FileAt, Upload, TypeOK, callVars
  <2>9. ASSUME NEW x \in Paths \ torn' PROVE PathOK(x)'
    <3>1. PathOK(x) /\ x # p
      BY <1>6 DEF StoreInv
    <3>2. OneRow(x)' /\ RowTrue(x)'
      BY <1>1, <1>4, <1>6, <2>2, <3>1 DEF PathOK, OneRow, RowTrue, OnLoop, callVars
    <3>3. Taking(x)'
      BY <1>1, <1>6, <2>2, <3>1 DEF PathOK, Taking, callVars
    <3>4. Known(x)'
      BY <1>1, <1>6, <2>3, <3>1 DEF PathOK, Known, callVars, StoreInv, FileAt, TypeOK
    <3> QED
      BY <3>2, <3>3, <3>4 DEF PathOK
  <2> QED
    BY <2>4, <2>5, <2>6, <2>7, <2>8, <2>9 DEF StoreInv
<1> QED
  BY <1>5, <1>6 DEF DeleteOldRow

(* Whose path is free, or torn, writes its own file there.                  *)
LEMMA Writes ==
    ASSUME StoreInv, NEW c \in Calls, NEW s \in {"row", "writing"},
           step[c] = "write",
           files' = [files EXCEPT ![path[c]] = c],
           GoTo(c, s),
           s = "row" => unfinished' = unfinished,
           s = "writing" => unfinished' = unfinished \cup {c},
           UNCHANGED <<callVars, rows, torn, streamVars>>
    PROVE  StoreInv'
<1> DEFINE p == path[c]
<1>1. TypeOK /\ CallAt(c) /\ told' = told
  BY DEF StoreInv, GoTo
<1>2. p \in Paths /\ Upload(c) /\ told[c] = "nothing" /\ None \notin Paths /\ None \notin Calls
  BY <1>1, NoneAssumption, FileStorageAssumption DEF TypeOK, CallAt, Uploading
<1>3. /\ step' \in [Calls -> Steps] /\ step'[c] = s
      /\ \A d \in Calls \ {c} : step'[d] = step[d]
      /\ \A d, e \in Calls : step'[d] \in OnLoop /\ step'[e] \in OnLoop => d = e
  <2>1. s \in Steps /\ step[c] \in OnLoop
    BY DEF Steps, OnLoop, Suspended
  <2> QED
    BY <1>1, <2>1, Moving DEF GoTo
<1>4. /\ files' \in [Paths -> Calls \cup {None}] /\ files'[p] = c
      /\ \A x \in Paths \ {p} : files'[x] = files[x]
  BY <1>1, <1>2 DEF TypeOK
<1>5. \A d \in Calls \ {c} : step[d] \notin OnLoop
  BY <1>1 DEF TypeOK, OnLoop
<1>6. TypeOK'
  BY <1>1, <1>2, <1>3, <1>4 DEF TypeOK, callVars, streamVars
<1>7. \A d \in Calls : CallAt(d)'
  BY <1>1, <1>2, <1>3, <1>5 DEF StoreInv, CallAt, Upload, Uploading, OnLoop, callVars, streamVars
<1>8. \A d \in Calls : DeleteAt(d)'
  BY <1>1, <1>2, <1>3, <1>4 DEF StoreInv, DeleteAt, Upload, TypeOK, callVars
<1>9. \A d \in Calls : RowOf(d)' /\ CopyOK(d)'
  BY <1>1, <1>3 DEF StoreInv, RowOf, CopyOK, Upload, callVars, streamVars
<1>10. \A x \in Paths : FileAt(x)'
  BY <1>1, <1>2, <1>3, <1>4 DEF StoreInv, FileAt, Upload, TypeOK, callVars
<1>11. ASSUME NEW x \in Paths \ torn PROVE PathOK(x)'
  <2>1. PathOK(x)
    BY DEF StoreInv
  <2>2. x = p => files[p] = None /\ \A r \in Calls : rows[r] # p
    BY <2>1 DEF PathOK, Taking
  <2>3. OneRow(x)' /\ RowTrue(x)'
    BY <1>1, <1>3, <1>4, <2>1, <2>2 DEF PathOK, OneRow, RowTrue, callVars
  <2>4. Taking(x)'
    BY <1>1, <1>2, <1>3, <1>4, <1>5, <2>1, <2>2 DEF PathOK, Taking, OnLoop, callVars
  <2>5. Known(x)'
    BY <1>1, <1>2, <1>4, <2>1 DEF PathOK, Known, callVars
  <2> QED
    BY <2>3, <2>4, <2>5 DEF PathOK
<1> QED
  BY <1>6, <1>7, <1>8, <1>9, <1>10, <1>11 DEF StoreInv

LEMMA StoreWrite ==
    ASSUME StoreInv, NEW c \in Calls, UploadBlob(c) \/ WriteFile(c) \/ WriteRest(c)
    PROVE  StoreInv'
<1>1. "failed" \in Answers \ {"nothing", "saved"} /\ {"ended", "row"} \subseteq Steps
      /\ "ended" \notin OnLoop
  BY DEF Answers, Steps, OnLoop
<1>2. ASSUME End(c, "failed"), step[c] \in {"write", "writing"},
             UNCHANGED <<callVars, files, rows, unfinished, torn, streamVars>>
      PROVE  StoreInv'
  BY <1>1, <1>2, OnlyMoves DEF End, callVars, streamVars
<1>3. CASE UploadBlob(c)
  BY <1>2, <1>3, Writes DEF UploadBlob
<1>4. CASE WriteFile(c)
  BY <1>2, <1>4, Writes DEF WriteFile
<1>5. CASE WriteRest(c)
  <2>1. CASE unfinished' = unfinished \ {c} /\ GoTo(c, "row")
    BY <1>1, <1>5, <2>1, OnlyMoves DEF WriteRest, GoTo, callVars, streamVars
  <2>2. CASE End(c, "failed") /\ unfinished' = unfinished
    BY <1>2, <1>5, <2>2 DEF WriteRest
  <2> QED
    BY <1>5, <2>1, <2>2 DEF WriteRest
<1> QED
  BY <1>3, <1>4, <1>5

(* The row of an upload leads to what it has just written.                  *)
LEMMA StoreSaveRow ==
    ASSUME StoreInv, NEW c \in Calls, SaveRow(c)
    PROVE  StoreInv'
<1> DEFINE p == path[c]
<1>1. /\ TypeOK /\ CallAt(c) /\ step[c] = "row"
      /\ UNCHANGED <<callVars, files, unfinished, torn, streamVars>>
  BY DEF StoreInv, SaveRow
<1>2. /\ {"saved", "saved_without_id", "failed"} \subseteq Answers
      /\ "ended" \in Steps /\ "ended" \notin OnLoop
  BY DEF Answers, Steps, OnLoop
<1>3. p \in Paths /\ Upload(c) /\ c \notin unfinished /\ None \notin Paths /\ None \notin Calls
  BY <1>1, NoneAssumption, FileStorageAssumption DEF TypeOK, CallAt, Uploading
<1>4. \A d \in Calls \ {c} : step[d] \notin OnLoop
  BY <1>1 DEF TypeOK, OnLoop
<1>5. ASSUME rows' = [rows EXCEPT ![c] = p], End(c, "saved")
      PROVE  StoreInv'
  <2>1. /\ step' \in [Calls -> Steps] /\ step'[c] = "ended"
        /\ \A d \in Calls \ {c} : step'[d] = step[d]
        /\ \A d, e \in Calls : step'[d] \in OnLoop /\ step'[e] \in OnLoop => d = e
    BY <1>1, <1>2, <1>5, Moving DEF End
  <2>2. /\ told' \in [Calls -> Answers] /\ told'[c] = "saved"
        /\ \A d \in Calls \ {c} : told'[d] = told[d]
    BY <1>1, <1>2, <1>5, Telling DEF End
  <2>3. /\ rows' \in [Calls -> Paths \cup {None}] /\ rows'[c] = p
        /\ \A d \in Calls \ {c} : rows'[d] = rows[d]
    BY <1>1, <1>3, <1>5 DEF TypeOK
  <2>4. TypeOK'
    BY <1>1, <2>1, <2>2, <2>3 DEF TypeOK, callVars, streamVars
  <2>5. \A d \in Calls : CallAt(d)'
    BY <1>1, <1>3, <1>4, <2>1, <2>2
       DEF StoreInv, CallAt, Upload, Uploading, OnLoop, callVars, streamVars
  <2>6. \A d \in Calls : DeleteAt(d)'
    BY <1>1, <1>4, <2>1, <2>3 DEF StoreInv, DeleteAt, Upload, TypeOK, OnLoop, callVars
  <2>7. \A d \in Calls : RowOf(d)' /\ CopyOK(d)'
    BY <1>1, <1>3, <2>1, <2>2, <2>3 DEF StoreInv, RowOf, CopyOK, Upload, callVars, streamVars
  <2>8. \A x \in Paths : FileAt(x)'
    BY <1>1, <2>1 DEF StoreInv, FileAt, Upload, TypeOK, callVars
  <2>9. ASSUME NEW x \in Paths \ torn PROVE PathOK(x)'
    <3>1. PathOK(x)
      BY DEF StoreInv
    <3>2. x = p => files[p] = c /\ \A r \in Calls : rows[r] # p
      BY <1>1, <3>1 DEF PathOK, Taking
    <3>3. OneRow(x)' /\ RowTrue(x)'
      BY <1>1, <2>1, <2>3, <3>1, <3>2 DEF PathOK, OneRow, RowTrue, callVars
    <3>4. Taking(x)'
      BY <1>1, <1>4, <2>1, <2>3, <3>1, <3>2 DEF PathOK, Taking, OnLoop, callVars
    <3>5. Known(x)'
      <4>1. files[x] = c => x = p
        BY <1>1, <1>3 DEF StoreInv, FileAt
      <4>2. files[x] # None => files[x] \in Calls
        BY <1>1 DEF TypeOK
      <4> QED
        BY <1>1, <2>2, <2>3, <3>1, <4>1, <4>2 DEF PathOK, Known, callVars
    <3> QED
      BY <3>3, <3>4, <3>5 DEF PathOK
  <2> QED
    BY <1>1, <2>4, <2>5, <2>6, <2>7, <2>8, <2>9 DEF StoreInv
<1>6. ASSUME End(c, "saved_without_id") \/ End(c, "failed"), rows' = rows
      PROVE  StoreInv'
  <2>1. \E a \in Answers \ {"nothing", "saved"} : told' = [told EXCEPT ![c] = a]
    BY <1>2, <1>6 DEF End
  <2> QED
    BY <1>1, <1>2, <1>6, <2>1, OnlyMoves DEF End, callVars, streamVars
<1> QED
  BY <1>5, <1>6 DEF SaveRow

LEMMA GivesUp ==
    ASSUME StoreInv, NEW c \in Calls, GiveUp(c), step[c] \in {"find", "erase"},
           UNCHANGED <<callVars, files, rows, unfinished, torn, streamVars>>
    PROVE  StoreInv'
<1>1. /\ {"failed", "not_deleted", "deleted"} \subseteq Answers \ {"nothing", "saved"}
      /\ "ended" \in Steps /\ "ended" \notin OnLoop
  BY DEF Answers, Steps, OnLoop
<1>2. /\ step' = [step EXCEPT ![c] = "ended"]
      /\ \E a \in Answers \ {"nothing", "saved"} : told' = [told EXCEPT ![c] = a]
  BY <1>1 DEF GiveUp, End
<1> QED
  BY <1>1, <1>2, OnlyMoves DEF callVars, streamVars

(* A deletion takes the row, and has its file in hand.                      *)
LEMMA StoreDeleteRow ==
    ASSUME StoreInv, NEW c \in Calls, NEW v \in Calls, DeleteRow(c, v)
    PROVE  StoreInv'
<1> DEFINE p == rows[v]
<1>1. /\ TypeOK /\ CallAt(c) /\ DeleteAt(c) /\ step[c] = "find" /\ v \in todo[c]
      /\ UNCHANGED <<provider, request, listed, files, unfinished, torn, streamVars>>
  BY DEF StoreInv, DeleteRow
<1>2. /\ ~Upload(c) /\ None \notin Paths /\ None \notin Calls /\ "no_copy" \notin Calls
      /\ "find" \in Steps /\ "find" \in OnLoop
  BY <1>1, NoneAssumption, FileStorageAssumption DEF CallAt, Steps, OnLoop
<1>3. \A d \in Calls \ {c} : step[d] \notin OnLoop
  BY <1>1, <1>2 DEF TypeOK
<1>4. ASSUME rows[v] # None,
             rows' = [rows EXCEPT ![v] = None],
             path' = [path EXCEPT ![c] = p],
             inHand' = [inHand EXCEPT ![c] = v],
             todo' = [todo EXCEPT ![c] = @ \ {v}],
             GoTo(c, "erase")
      PROVE  StoreInv'
  <2>1. /\ step' \in [Calls -> Steps] /\ step'[c] = "erase"
        /\ \A d \in Calls \ {c} : step'[d] = step[d]
        /\ \A d, e \in Calls : step'[d] \in OnLoop /\ step'[e] \in OnLoop => d = e
    <3>1. "erase" \in Steps
      BY DEF Steps, OnLoop
    <3> QED
      BY <1>1, <1>2, <1>4, <3>1, Moving DEF GoTo
  <2>2. /\ rows' \in [Calls -> Paths \cup {None}] /\ rows'[v] = None
        /\ \A d \in Calls \ {v} : rows'[d] = rows[d]
        /\ path' \in [Calls -> Paths \cup {None}] /\ path'[c] = p
        /\ \A d \in Calls \ {c} : path'[d] = path[d]
        /\ inHand' \in [Calls -> Calls \cup {None}] /\ inHand'[c] = v
        /\ \A d \in Calls \ {c} : inHand'[d] = inHand[d]
    BY <1>1, <1>4 DEF TypeOK
  <2>3. /\ todo' \in [Calls -> SUBSET Calls] /\ todo'[c] = todo[c] \ {v}
        /\ \A d \in Calls \ {c} : todo'[d] = todo[d]
    BY <1>1, <1>4 DEF TypeOK
  <2>4. told' = told
    BY <1>4 DEF GoTo
  <2>5. /\ p \in Paths /\ Upload(v) /\ path[v] = p /\ step[v] = "ended" /\ v # c
        /\ v \in request[c].victims /\ v \notin listed[c]
    BY <1>1, <1>2, <1>4 DEF StoreInv, RowOf, DeleteAt, TypeOK
  <2>6. rows[c] = None /\ cache[c] = "no_copy"
    BY <1>1 DEF StoreInv, RowOf, CallAt
  <2>7. TypeOK'
    BY <1>1, <1>2, <2>1, <2>2, <2>3, <2>4, <2>5 DEF TypeOK, streamVars
  <2>8. \A d \in Calls : CallAt(d)'
    <3>1. CallAt(c)'
      BY <1>1, <1>2, <2>1, <2>2, <2>4, <2>6 DEF CallAt, Upload, Uploading, streamVars
    <3>2. ASSUME NEW d \in Calls \ {c} PROVE CallAt(d)'
      BY <1>1, <1>3, <2>1, <2>2, <2>4
         DEF StoreInv, CallAt, Upload, Uploading, OnLoop, streamVars
    <3> QED
      BY <3>1, <3>2
  <2>9. \A d \in Calls : DeleteAt(d)'
    <3>1. DeleteAt(c)'
      BY <1>1, <2>1, <2>2, <2>3, <2>5 DEF DeleteAt, Upload, TypeOK
    <3>2. ASSUME NEW d \in Calls \ {c} PROVE DeleteAt(d)'
      BY <1>1, <1>3, <2>1, <2>2, <2>3 DEF StoreInv, DeleteAt, OnLoop, TypeOK
    <3> QED
      BY <3>1, <3>2
  <2>10. \A d \in Calls : RowOf(d)' /\ CopyOK(d)'
    BY <1>1, <1>2, <2>1, <2>2, <2>4, <2>6
       DEF StoreInv, RowOf, CopyOK, Upload, streamVars
  <2>11. \A x \in Paths : FileAt(x)'
    BY <1>1, <1>2, <2>1, <2>2 DEF StoreInv, FileAt, Upload, TypeOK
  <2>12. ASSUME NEW x \in Paths \ torn PROVE PathOK(x)'
    <3>1. PathOK(x)
      BY DEF StoreInv
    <3>2. x = p => files[p] = v /\ \A r \in Calls \ {v} : rows[r] # p
      BY <1>1, <1>3, <3>1 DEF PathOK, OneRow, RowTrue, OnLoop
    <3>3. OneRow(x)' /\ RowTrue(x)'
      BY <1>1, <1>2, <1>3, <2>1, <2>2, <3>1, <3>2 DEF PathOK, OneRow, RowTrue, OnLoop
    <3>4. Taking(x)'
      <4>1. ASSUME NEW d \in Calls \ {c}, path'[d] = x
            PROVE  /\ step'[d] \in {"writing", "row"} => files'[x] = d
                   /\ step'[d] = "write" => files'[x] = None
                   /\ step'[d] = "erase" => files'[x] = inHand'[d]
                   /\ step'[d] \in {"write", "writing", "row", "erase"} =>
                         \A r \in Calls : rows'[r] # x
        BY <1>1, <1>2, <2>1, <2>2, <3>1, <4>1 DEF PathOK, Taking
      <4>2. path'[c] = x =>
              /\ step'[c] = "erase" /\ files'[x] = inHand'[c] /\ \A r \in Calls : rows'[r] # x
        BY <1>1, <1>2, <2>1, <2>2, <3>2
      <4> QED
        BY <2>1, <4>1, <4>2 DEF Taking
    <3>5. Known(x)'
      <4>1. files[x] = v => x = p
        BY <1>2, <2>5 DEF StoreInv, FileAt
      <4>2. CASE files[x] = v
        BY <1>1, <2>5, <4>2 DEF Known
      <4>3. CASE files[x] # v
        <5>1. files[x] # None => files[x] \in Calls
          BY <1>1 DEF TypeOK
        <5> QED
          BY <1>1, <2>2, <2>4, <3>1, <4>3, <5>1 DEF PathOK, Known
      <4> QED
        BY <4>2, <4>3
    <3> QED
      BY <3>3, <3>4, <3>5 DEF PathOK
  <2> QED
    BY <1>1, <2>7, <2>8, <2>9, <2>10, <2>11, <2>12 DEF StoreInv
<1>5. ASSUME todo' = [todo EXCEPT ![c] = @ \ {v}], UNCHANGED <<step, told, rows, path, inHand>>
      PROVE  StoreInv'
  <2>1. step' = [step EXCEPT ![c] = "find"]
    BY <1>1, <1>5 DEF TypeOK
  <2> QED
    BY <1>1, <1>2, <1>5, <2>1, OnlyMoves DEF streamVars
<1>6. ASSUME GiveUp(c) \/ End(c, "failed"), UNCHANGED <<rows, path, inHand, todo>>
      PROVE  StoreInv'
  <2>1. CASE GiveUp(c)
    BY <1>1, <1>6, <2>1, GivesUp DEF callVars
  <2>2. CASE End(c, "failed")
    <3>1. "failed" \in Answers \ {"nothing", "saved"} /\ "ended" \in Steps /\ "ended" \notin OnLoop
      BY DEF Answers, Steps, OnLoop
    <3> QED
      BY <1>1, <1>6, <2>2, <3>1, OnlyMoves DEF End, streamVars
  <2> QED
    BY <1>6, <2>1, <2>2
<1> QED
  BY <1>4, <1>5, <1>6 DEF DeleteRow

(* What is listed as deleted was erased: no path has its content.           *)
LEMMA StoreEraseFile ==
    ASSUME StoreInv, NEW c \in Calls, EraseFile(c)
    PROVE  StoreInv'
<1> DEFINE p == path[c]
           v == inHand[c]
<1>1. /\ TypeOK /\ CallAt(c) /\ DeleteAt(c) /\ step[c] = "erase"
      /\ UNCHANGED <<provider, request, path, inHand, todo, unfinished, rows, torn, streamVars>>
  BY DEF StoreInv, EraseFile
<1>2. /\ p \in Paths /\ v \in Calls /\ None \notin Paths /\ None \notin Calls /\ ~Upload(c)
      /\ {"erase", "find"} \subseteq Steps /\ {"erase", "find"} \subseteq OnLoop
      /\ "ended" \in Steps /\ "ended" \notin OnLoop
  BY <1>1, NoneAssumption, FileStorageAssumption DEF TypeOK, CallAt, Steps, OnLoop
<1>3. \A d \in Calls \ {c} : step[d] \notin OnLoop
  BY <1>1, <1>2 DEF TypeOK
<1>4. ASSUME files' = [files EXCEPT ![p] = None],
             listed' = [listed EXCEPT ![c] = @ \cup {v}],
             End(c, "deleted") \/ GoTo(c, "find")
      PROVE  StoreInv'
  <2>1. PICK s \in {"ended", "find"} :
            /\ step' = [step EXCEPT ![c] = s]
            /\ s = "ended" => told' = [told EXCEPT ![c] = "deleted"]
            /\ s = "find" => told' = told
    BY <1>4 DEF End, GoTo
  <2>2. /\ step' \in [Calls -> Steps] /\ step'[c] = s
        /\ \A d \in Calls \ {c} : step'[d] = step[d]
        /\ \A d, e \in Calls : step'[d] \in OnLoop /\ step'[e] \in OnLoop => d = e
    BY <1>1, <1>2, <2>1, Moving
  <2>3. /\ told' \in [Calls -> Answers] /\ told'[c] # "saved"
        /\ s # "ended" => told'[c] = told[c]
        /\ \A d \in Calls \ {c} : told'[d] = told[d]
    <3>1. told[c] = "nothing"
      BY <1>1 DEF CallAt
    <3>2. "deleted" \in Answers
      BY DEF Answers
    <3> QED
      BY <1>1, <2>1, <3>1, <3>2, Telling DEF TypeOK
  <2>4. /\ files' \in [Paths -> Calls \cup {None}] /\ files'[p] = None
        /\ \A x \in Paths \ {p} : files'[x] = files[x]
        /\ listed' \in [Calls -> SUBSET Calls] /\ listed'[c] = listed[c] \cup {v}
        /\ \A d \in Calls \ {c} : listed'[d] = listed[d]
    BY <1>1, <1>2, <1>4 DEF TypeOK
  <2>5. TypeOK'
    BY <1>1, <1>2, <2>2, <2>3, <2>4 DEF TypeOK, streamVars
  <2>6. \A d \in Calls : CallAt(d)'
    BY <1>1, <1>2, <1>3, <2>2, <2>3, <2>4
       DEF StoreInv, CallAt, Upload, Uploading, OnLoop, streamVars
  <2>7. \A x \in Paths : files'[x] # v
    BY <1>1, <1>2, <2>4 DEF StoreInv, FileAt, DeleteAt
  <2>8. \A d \in Calls : DeleteAt(d)'
    <3>1. DeleteAt(c)'
      BY <1>1, <1>2, <2>2, <2>4, <2>7 DEF DeleteAt, Upload, TypeOK
    <3>2. ASSUME NEW d \in Calls \ {c} PROVE DeleteAt(d)'
      BY <1>1, <1>2, <1>3, <2>2, <2>4 DEF StoreInv, DeleteAt, OnLoop, TypeOK
    <3> QED
      BY <3>1, <3>2
  <2>9. \A d \in Calls : RowOf(d)' /\ CopyOK(d)'
    BY <1>1, <2>2, <2>3 DEF StoreInv, RowOf, CopyOK, Upload, streamVars
  <2>10. \A x \in Paths : FileAt(x)'
    BY <1>1, <1>2, <2>2, <2>4 DEF StoreInv, FileAt, Upload, TypeOK
  <2>11. ASSUME NEW x \in Paths \ torn PROVE PathOK(x)'
    <3>1. PathOK(x)
      BY DEF StoreInv
    <3>2. x = p => files[p] = v /\ \A r \in Calls : rows[r] # p
      BY <1>1, <3>1 DEF PathOK, Taking
    <3>3. OneRow(x)' /\ RowTrue(x)'
      BY <1>1, <1>3, <2>2, <2>4, <3>1, <3>2 DEF PathOK, OneRow, RowTrue, OnLoop
    <3>4. Taking(x)'
      BY <1>1, <1>3, <2>2, <2>4, <3>1, <3>2 DEF PathOK, Taking, OnLoop, DeleteAt
    <3>5. Known(x)'
      <4>1. files'[x] # None => files'[x] = files[x] /\ files[x] \in Calls /\ files[x] # v
        BY <1>1, <2>4, <2>7 DEF TypeOK
      <4> QED
        BY <1>1, <2>3, <2>4, <3>1, <4>1 DEF PathOK, Known
    <3> QED
      BY <3>3, <3>4, <3>5 DEF PathOK
  <2> QED
    BY <1>1, <2>5, <2>6, <2>8, <2>9, <2>10, <2>11 DEF StoreInv
<1>5. ASSUME GiveUp(c), UNCHANGED <<files, listed>> PROVE StoreInv'
  BY <1>1, <1>5, GivesUp DEF callVars
<1>6. ASSUME GoTo(c, "find"), UNCHANGED <<files, listed>> PROVE StoreInv'
  BY <1>1, <1>2, <1>6, OnlyMoves DEF GoTo, streamVars
<1> QED
  BY <1>4, <1>5, <1>6 DEF EraseFile

(* Streaming makes a copy of the file of the row, cleaning only forgets.    *)
LEMMA StoreStream ==
    ASSUME StoreInv, (\E r \in Calls : Stream(r)) \/ CleanFiles
    PROVE  StoreInv'
<1>1. /\ TypeOK /\ LoopFree
      /\ UNCHANGED <<callVars, step, told, storeVars>>
  BY DEF StoreInv, Stream, CleanFiles
<1>2. {"no_copy", "lost_copy"} \cap Calls = {} /\ None \notin Paths /\ None \notin Calls
  BY FileStorageAssumption, NoneAssumption
<1> DEFINE Copied(copies) ==
          /\ copies \in [Calls -> Calls \cup {"no_copy", "lost_copy"}]
          /\ \A r \in Calls : /\ copies[r] # "no_copy" => step[r] = "ended"
                              /\ copies[r] \in Calls => copies[r] = r \/ path[r] \in torn
<1>3. Copied(cache') /\ streamed' \in BOOLEAN
  <2>1. ASSUME NEW r \in Calls, Stream(r) PROVE Copied(cache') /\ streamed' \in BOOLEAN
    <3>1. /\ rows[r] \in Paths /\ rows[r] = path[r] /\ step[r] = "ended"
          /\ cache' = cache \/ cache' = [cache EXCEPT ![r] = Download(r)]
          /\ streamed' = (streamed \/ cache[r] # "no_copy" \/ Download(r) # "no_copy")
      BY <1>1, <2>1 DEF Stream, StoreInv, RowOf, TypeOK
    <3>2. /\ Download(r) \in Calls \cup {"no_copy", "lost_copy"}
          /\ Download(r) \in Calls => Download(r) = r \/ path[r] \in torn
      <4>1. CASE files[rows[r]] = None
        BY <1>2, <4>1 DEF Download
      <4>2. CASE files[rows[r]] # None
        <5>1. Download(r) = files[rows[r]] /\ files[rows[r]] \in Calls
          BY <1>1, <3>1, <4>2 DEF Download, TypeOK
        <5>2. rows[r] \notin torn => files[rows[r]] = r
          BY <1>1, <3>1 DEF StoreInv, PathOK, RowTrue, LoopFree, OnLoop
        <5> QED
          BY <3>1, <5>1, <5>2
      <4> QED
        BY <4>1, <4>2
    <3>3. streamed' \in BOOLEAN
      BY <1>1, <3>1 DEF TypeOK
    <3> QED
      BY <1>1, <3>1, <3>2, <3>3 DEF StoreInv, CallAt, CopyOK, TypeOK
  <2>2. ASSUME CleanFiles PROVE Copied(cache') /\ streamed' \in BOOLEAN
    BY <1>1, <1>2, <2>2 DEF CleanFiles, StoreInv, CallAt, CopyOK, TypeOK
  <2> QED
    BY <2>1, <2>2
<1>4. TypeOK'
  BY <1>1, <1>3 DEF TypeOK, callVars, storeVars
<1>5. \A d \in Calls : CallAt(d)' /\ CopyOK(d)'
  BY <1>1, <1>3 DEF StoreInv, CallAt, CopyOK, Upload, callVars, storeVars
<1>6. \A d \in Calls : DeleteAt(d)' /\ RowOf(d)'
  BY <1>1 DEF StoreInv, DeleteAt, RowOf, Upload, callVars, storeVars
<1>7. \A x \in Paths : FileAt(x)'
  BY <1>1 DEF StoreInv, FileAt, Upload, callVars, storeVars
<1>8. \A x \in Paths \ torn' : PathOK(x)'
  BY <1>1 DEF StoreInv, PathOK, OneRow, RowTrue, Taking, Known, callVars, storeVars
<1> QED
  BY <1>4, <1>5, <1>6, <1>7, <1>8 DEF StoreInv

LEMMA StoreCrash ==
    ASSUME StoreInv, Crash
    PROVE  StoreInv'
<1>1. TypeOK /\ UNCHANGED <<callVars, told, files, unfinished, rows>>
  BY DEF StoreInv, Crash
<1>2. /\ step' \in [Calls -> Steps]
      /\ \A c \in Calls : /\ step'[c] \in {"new", "ended"}
                          /\ step'[c] = "new" <=> step[c] = "new"
  BY DEF Crash, Steps
<1>3. torn' \in SUBSET Paths /\ torn \subseteq torn'
      /\ \A c \in Calls : step[c] = "unrow" => path[c] \in torn'
  BY <1>1 DEF Crash, TypeOK
<1>4. cache' \in [Calls -> {"no_copy"}] /\ streamed' = FALSE /\ "no_copy" \notin Calls
  BY FileStorageAssumption DEF Crash
<1>5. TypeOK'
  BY <1>1, <1>2, <1>3, <1>4 DEF TypeOK, callVars, OnLoop
<1>6. \A d \in Calls : CallAt(d)' /\ CopyOK(d)'
  BY <1>1, <1>2, <1>4 DEF StoreInv, CallAt, CopyOK, Upload, Uploading, callVars
<1>7. \A d \in Calls : DeleteAt(d)' /\ RowOf(d)'
  BY <1>1, <1>2 DEF StoreInv, DeleteAt, RowOf, Upload, callVars, TypeOK
<1>8. \A x \in Paths : FileAt(x)'
  BY <1>1, <1>2 DEF StoreInv, FileAt, Upload, callVars, TypeOK
<1>9. \A x \in Paths \ torn' : PathOK(x)'
  BY <1>1, <1>2, <1>3 DEF StoreInv, PathOK, OneRow, RowTrue, Taking, Known, callVars
<1> QED
  BY <1>5, <1>6, <1>7, <1>8, <1>9 DEF StoreInv

LEMMA StoreBegin ==
    ASSUME StoreInv, NEW c \in Calls,
           \/ \E n \in Names, o \in BOOLEAN : Save(c, n, o)
           \/ \E n \in Names : SaveRestricted(c, n)
           \/ \E route \in {"delete", "delete_many"}, victims \in SUBSET Calls,
                 recursive \in BOOLEAN : Delete(c, route, victims, recursive)
    PROVE  StoreInv'
<1>1. TypeOK /\ step[c] = "new" /\ LoopFree
  BY DEF StoreInv, Save, SaveRestricted, Delete
<1>2. todo[c] = {} /\ [todo EXCEPT ![c] = {}] = todo
  BY <1>1 DEF StoreInv, CallAt, DeleteAt, TypeOK
<1>3. {"measure", "read", "check", "find"} \subseteq Steps
  BY DEF Steps, OnLoop, Suspended
<1>4. ASSUME NEW n \in Names, NEW o \in BOOLEAN, Save(c, n, o) PROVE StoreInv'
  <2> DEFINE r == [route |-> "save", name |-> n, overwrite |-> o, victims |-> {}, recursive |-> FALSE]
  <2>1. r \in Requests /\ r.route = "save" /\ r.victims = {} /\ r.name = n
    BY DEF Requests
  <2>2. UploadStart \in {"read", "check"}
    BY DEF UploadStart
  <2>3. /\ request' = [request EXCEPT ![c] = r] /\ step' = [step EXCEPT ![c] = UploadStart]
        /\ UNCHANGED <<provider, path, inHand, todo, listed, told, storeVars, streamVars>>
    BY <1>4 DEF Save, GoTo
  <2> HIDE DEF r
  <2> QED
    BY <1>1, <1>2, <1>3, <2>1, <2>2, <2>3, Begins
<1>5. ASSUME NEW n \in Names, SaveRestricted(c, n) PROVE StoreInv'
  <2> DEFINE r == [route |-> "restricted", name |-> n, overwrite |-> TRUE, victims |-> {},
                   recursive |-> FALSE]
  <2>1. r \in Requests /\ r.route = "restricted" /\ r.victims = {} /\ r.name = n
    BY DEF Requests
  <2>2. /\ request' = [request EXCEPT ![c] = r] /\ step' = [step EXCEPT ![c] = "measure"]
        /\ UNCHANGED <<provider, path, inHand, todo, listed, told, storeVars, streamVars>>
    BY <1>5 DEF SaveRestricted, GoTo
  <2> HIDE DEF r
  <2> QED
    BY <1>1, <1>2, <1>3, <2>1, <2>2, Begins
<1>6. ASSUME NEW route \in {"delete", "delete_many"}, NEW victims \in SUBSET Calls,
             NEW recursive \in BOOLEAN, Delete(c, route, victims, recursive)
      PROVE  StoreInv'
  <2> DEFINE r == [route |-> route, name |-> None, overwrite |-> FALSE,
                   victims |-> victims, recursive |-> recursive]
  <2>1. r \in Requests /\ r.route = route /\ r.victims = victims
    BY DEF Requests
  <2>2. /\ request' = [request EXCEPT ![c] = r] /\ todo' = [todo EXCEPT ![c] = r.victims]
        /\ step' = [step EXCEPT ![c] = "find"]
        /\ UNCHANGED <<provider, path, inHand, listed, told, storeVars, streamVars>>
    BY <1>6, <2>1 DEF Delete, GoTo
  <2> HIDE DEF r
  <2> QED
    BY <1>1, <1>3, <2>1, <2>2, Begins
<1> QED
  BY <1>4, <1>5, <1>6

LEMMA StoreMove ==
    ASSUME StoreInv, NEW c \in Calls, Measure(c) \/ ReadSource(c) \/ FinishDelete(c)
    PROVE  StoreInv'
<1>1. /\ {"refused", "not_deleted", "deleted"} \subseteq Answers \ {"nothing", "saved"}
      /\ {"ended", "read", "check"} \subseteq Steps /\ "ended" \notin OnLoop
  BY DEF Answers, Steps, OnLoop, Suspended
<1>2. UploadStart \in {"read", "check"}
  BY DEF UploadStart
<1>3. CASE Measure(c)
  <2>1. CASE GoTo(c, UploadStart)
    BY <1>1, <1>2, <1>3, <2>1, OnlyMoves DEF Measure, GoTo, callVars, storeVars, streamVars
  <2>2. CASE End(c, "refused")
    BY <1>1, <1>3, <2>2, OnlyMoves DEF Measure, End, callVars, storeVars, streamVars
  <2> QED
    BY <1>3, <2>1, <2>2 DEF Measure
<1>4. CASE ReadSource(c)
  BY <1>1, <1>4, OnlyMoves DEF ReadSource, GoTo, callVars, storeVars, streamVars
<1>5. CASE FinishDelete(c)
  <2>1. /\ step' = [step EXCEPT ![c] = "ended"] /\ step[c] = "find"
        /\ \E a \in Answers \ {"nothing", "saved"} : told' = [told EXCEPT ![c] = a]
    BY <1>1, <1>5 DEF FinishDelete, End
  <2> QED
    BY <1>1, <1>5, <2>1, OnlyMoves DEF FinishDelete, callVars, storeVars, streamVars
<1> QED
  BY <1>3, <1>4, <1>5

LEMMA StoreStep == StoreInv /\ [Next]_vars => StoreInv'
<1> SUFFICES ASSUME StoreInv, [Next]_vars PROVE StoreInv'
  OBVIOUS
<1>1. ASSUME NEW c \in Calls, UploadStep(c) PROVE StoreInv'
  BY <1>1, StoreMove, StoreCheck, StoreRemoveOld, StoreDeleteOldRow, StoreWrite, StoreSaveRow
     DEF UploadStep
<1>2. CASE UNCHANGED vars
  <2>1. UNCHANGED <<provider, request, path, inHand, todo, listed, step, told,
                    files, unfinished, rows, torn, cache, streamed>>
    BY <1>2 DEF vars
  <2> QED
    BY <2>1 DEF StoreInv, TypeOK, CallAt, DeleteAt, RowOf, CopyOK, FileAt, PathOK, OneRow,
                RowTrue, Taking, Known, Upload
<1> QED
  BY <1>1, <1>2, StoreBegin, StoreMove, StoreDeleteRow, StoreEraseFile, StoreStream, StoreCrash
     DEF Next

LEMMA StoreInit == Init => StoreInv
<1> SUFFICES ASSUME Init PROVE StoreInv
  OBVIOUS
<1>1. NoRequest \in Requests /\ NoRequest.route = "save" /\ NoRequest.victims = {}
  BY DEF NoRequest, Requests
<1>2. None \notin Paths /\ None \notin Calls /\ "no_copy" \notin Calls
  BY FileStorageAssumption, NoneAssumption
<1>3. TypeOK
  BY <1>1 DEF Init, TypeOK, Steps, OnLoop, Answers, Providers
<1> QED
  BY <1>1, <1>2, <1>3
     DEF Init, StoreInv, CallAt, DeleteAt, RowOf, CopyOK, FileAt, PathOK, OneRow, RowTrue,
         Taking, Known, Upload, Uploading

(* Every step of every handler, a crash between two of them and the job     *)
(* that cleans keep that.                                                   *)
THEOREM StoreInvariant == Spec => []StoreInv
<1>1. StoreInv /\ [Next]_vars => StoreInv'
  BY StoreStep
<1> QED
  BY <1>1, StoreInit, PTL DEF Spec

(* Types; and one handler runs at a time.                                   *)
THEOREM FilesTypeCorrect == Spec => []TypeOK
<1>1. StoreInv => TypeOK
  BY DEF StoreInv
<1> QED
  BY <1>1, StoreInvariant, PTL

(* The row of an upload leads to its own, complete file.                    *)
THEOREM RowsLeadToTheirFiles == Spec => []RowsAreTrue
<1>1. StoreInv => RowsAreTrue
  <2> SUFFICES ASSUME StoreInv, NEW r \in Calls, rows[r] # None, rows[r] \notin torn
               PROVE  \/ files[rows[r]] = r /\ r \notin unfinished
                      \/ \E c \in Calls : step[c] = "unrow" /\ path[c] = rows[r]
    BY DEF RowsAreTrue
  <2>1. rows[r] \in Paths /\ told[r] = "saved" /\ r \notin unfinished
    BY DEF StoreInv, TypeOK, RowOf, CallAt
  <2> QED
    BY <2>1 DEF StoreInv, PathOK, RowTrue
<1> QED
  BY <1>1, StoreInvariant, PTL

(* A file without a row is one that nobody was promised, or that a deletion *)
(* has left.                                                                *)
THEOREM OrphansAreAccountedFor == Spec => []OrphansAreKnown
<1>1. StoreInv => OrphansAreKnown
  <2> SUFFICES ASSUME StoreInv, NEW p \in Paths, Orphan(p), p \notin torn, told[files[p]] = "saved"
               PROVE  \E d \in Calls : files[p] \in request[d].victims \ listed[d]
    BY DEF OrphansAreKnown
  <2>1. files[p] \in Calls /\ files[p] # None
    BY DEF StoreInv, TypeOK, Orphan
  <2>2. rows[files[p]] # p
    BY <2>1 DEF Orphan, RowsAt
  <2> QED
    BY <2>1, <2>2 DEF StoreInv, PathOK, Known
<1> QED
  BY <1>1, StoreInvariant, PTL

(* What is reported as deleted has neither a row nor a file.                *)
THEOREM DeletedStaysGone == Spec => []DeletedIsGone
<1>1. StoreInv => DeletedIsGone
  BY DEF StoreInv, DeletedIsGone, DeleteAt, TypeOK
<1> QED
  BY <1>1, StoreInvariant, PTL

(* A temporary copy has the content of the file of its row.                 *)
THEOREM StreamsShowTheirFiles == Spec => []CopiesAreTrue
<1>1. StoreInv => CopiesAreTrue
  BY DEF StoreInv, CopiesAreTrue, CopyOK
<1> QED
  BY <1>1, StoreInvariant, PTL

-----------------------------------------------------------------------------
(* Why a saved file is no longer there: the four steps that touch rows,     *)
(* files, or what is unfinished.                                            *)
Asked(r) ==
    \/ rows[r] \in torn
    \/ \E c \in Calls :
          \/ step[c] = "find" /\ r \in request[c].victims
          \/ step[c] = "remove" /\ request[c].overwrite /\ path[c] = rows[r]

LEMMA KeptStep ==
    ASSUME StoreInv, [Next]_vars, NEW r \in Calls, Fetched(r), ~Fetched(r)'
    PROVE  Asked(r)
<1> DEFINE p == rows[r]
<1>1. /\ TypeOK /\ told[r] = "saved" /\ p \in Paths /\ files[p] = r /\ r \notin unfinished
      /\ step[r] = "ended" /\ r \in Calls /\ None \notin Paths /\ None \notin Calls
  BY NoneAssumption, FileStorageAssumption DEF StoreInv, Fetched, RowOf, TypeOK
<1>2. ~(told'[r] = "saved" /\ rows'[r] = p /\ files'[p] = r /\ r \notin unfinished')
  BY <1>1 DEF Fetched
<1>3. p \notin torn => \A c \in Calls : path[c] = p => step[c] \notin {"write", "erase"}
  <2>1. p \notin torn => Taking(p)
    BY <1>1 DEF StoreInv, PathOK
  <2> QED
    BY <2>1 DEF Taking
<1>4. ASSUME told'[r] = told[r], rows' = rows, files' = files, unfinished' \subseteq unfinished
      PROVE  FALSE
  BY <1>1, <1>2, <1>4
<1>5. ASSUME NEW c \in Calls, NEW a, step[c] # "ended", End(c, a) PROVE told'[r] = told[r]
  BY <1>1, <1>5 DEF End, TypeOK
<1>6. ASSUME NEW c \in Calls, RemoveOld(c) PROVE Asked(r)
  <2>1. CASE path[c] = p
    BY <1>6, <2>1 DEF RemoveOld, Asked, StoreInv, CallAt
  <2>2. CASE path[c] # p
    <3>1. told'[r] = told[r] /\ rows' = rows /\ unfinished' = unfinished
      BY <1>5, <1>6 DEF RemoveOld, GoTo
    <3>2. files'[p] = files[p]
      BY <1>1, <1>6, <2>2 DEF RemoveOld, TypeOK
    <3> QED
      BY <1>1, <1>2, <3>1, <3>2
  <2> QED
    BY <2>1, <2>2
<1>7. ASSUME NEW c \in Calls, DeleteOldRow(c) PROVE FALSE
  <2>1. /\ step[c] = "unrow" /\ rows[inHand[c]] = path[c] /\ files[path[c]] = None
        /\ inHand[c] # r
    BY <1>1, <1>7 DEF DeleteOldRow, StoreInv, CallAt
  <2>2. told'[r] = told[r] /\ files' = files /\ unfinished' = unfinished
    BY <1>5, <1>7, <2>1 DEF DeleteOldRow, GoTo
  <2>3. rows'[r] = rows[r]
    BY <1>1, <1>7, <2>1 DEF DeleteOldRow, TypeOK
  <2> QED
    BY <1>1, <1>2, <2>2, <2>3
<1>8. ASSUME NEW c \in Calls, UploadBlob(c) \/ WriteFile(c) PROVE Asked(r)
  <2>1. /\ step[c] = "write" /\ c # r /\ told'[r] = told[r] /\ rows' = rows
        /\ r \notin unfinished'
    BY <1>1, <1>5, <1>8 DEF UploadBlob, WriteFile, GoTo
  <2>2. path[c] # p => files'[p] = files[p]
    BY <1>1, <1>8 DEF UploadBlob, WriteFile, TypeOK
  <2> QED
    BY <1>1, <1>2, <1>3, <2>1, <2>2 DEF Asked
<1>9. ASSUME NEW c \in Calls, WriteRest(c) PROVE FALSE
  <2>1. told'[r] = told[r] /\ rows' = rows /\ files' = files /\ unfinished' \subseteq unfinished
    BY <1>5, <1>9 DEF WriteRest, GoTo
  <2> QED
    BY <1>4, <2>1
<1>10. ASSUME NEW c \in Calls, SaveRow(c) PROVE FALSE
  <2>1. told'[r] = told[r] /\ files' = files /\ unfinished' = unfinished /\ c # r
    BY <1>1, <1>5, <1>10 DEF SaveRow
  <2>2. rows'[r] = rows[r]
    BY <1>1, <1>10, <2>1 DEF SaveRow, TypeOK
  <2> QED
    BY <1>1, <1>2, <2>1, <2>2
<1>11. ASSUME NEW c \in Calls, NEW v \in Calls, DeleteRow(c, v) PROVE Asked(r)
  <2>1. CASE v = r
    <3>1. step[c] = "find" /\ r \in request[c].victims
      BY <1>11, <2>1 DEF DeleteRow, StoreInv, DeleteAt
    <3> QED
      BY <3>1 DEF Asked
  <2>2. CASE v # r
    <3>1. told'[r] = told[r] /\ files' = files /\ unfinished' = unfinished
      BY <1>5, <1>11 DEF DeleteRow, GoTo, GiveUp
    <3>2. rows'[r] = rows[r]
      BY <1>1, <1>11, <2>2 DEF DeleteRow, TypeOK
    <3> QED
      BY <1>1, <1>2, <3>1, <3>2
  <2> QED
    BY <2>1, <2>2
<1>12. ASSUME NEW c \in Calls, EraseFile(c) PROVE Asked(r)
  <2>1. step[c] = "erase" /\ told'[r] = told[r] /\ rows' = rows /\ unfinished' = unfinished
    BY <1>5, <1>12 DEF EraseFile, GoTo, GiveUp
  <2>2. path[c] # p => files'[p] = files[p]
    BY <1>1, <1>12 DEF EraseFile, TypeOK
  <2> QED
    BY <1>1, <1>2, <1>3, <2>1, <2>2 DEF Asked
<1>13. ASSUME NEW c \in Calls, Measure(c) \/ ReadSource(c) \/ Check(c) \/ FinishDelete(c)
       PROVE  FALSE
  <2>1. told'[r] = told[r]
    BY <1>5, <1>13 DEF Measure, ReadSource, Check, FinishDelete, GoTo
  <2>2. rows' = rows /\ files' = files /\ unfinished' = unfinished
    BY <1>13 DEF Measure, ReadSource, Check, FinishDelete, storeVars
  <2> QED
    BY <1>4, <2>1, <2>2
<1>14. ASSUME UNCHANGED <<told, storeVars>> PROVE FALSE
  BY <1>4, <1>14 DEF storeVars
<1>15. ASSUME NEW c \in Calls, NEW route, NEW victims, NEW recursive,
              Delete(c, route, victims, recursive)
       PROVE  FALSE
  BY <1>14, <1>15 DEF Delete, GoTo
<1>16. ASSUME NEW c \in Calls, NEW n, NEW o, Save(c, n, o) \/ SaveRestricted(c, n) PROVE FALSE
  BY <1>14, <1>16 DEF Save, SaveRestricted, GoTo
<1>17. ASSUME CleanFiles \/ (\E c \in Calls : Stream(c)) \/ UNCHANGED vars PROVE FALSE
  BY <1>14, <1>17 DEF CleanFiles, Stream, vars, storeVars
<1>18. ASSUME Crash PROVE FALSE
  BY <1>4, <1>18 DEF Crash
<1>19. ASSUME NEW c \in Calls, UploadStep(c) PROVE Asked(r)
  BY <1>6, <1>7, <1>8, <1>9, <1>10, <1>13, <1>19 DEF UploadStep
<1> QED
  BY <1>11, <1>12, <1>13, <1>15, <1>16, <1>17, <1>18, <1>19 DEF Next

(* What a client was given an id for is there until somebody asks for its   *)
(* end.                                                                     *)
THEOREM SavedFilesStay == Spec => SavedIsKept
<1>1. ASSUME StoreInv, [Next]_vars
      PROVE  [\A r \in Calls : Fetched(r) /\ ~Fetched(r)' =>
                \/ rows[r] \in torn
                \/ \E c \in Calls :
                      \/ step[c] = "find" /\ r \in request[c].victims
                      \/ step[c] = "remove" /\ request[c].overwrite /\ path[c] = rows[r]]_vars
  BY <1>1, KeptStep DEF Asked
<1> QED
  BY <1>1, StoreInvariant, PTL DEF Spec, SavedIsKept

-----------------------------------------------------------------------------
(* Reading a length that is not empty from a place in a file gives the      *)
(* bytes from there to the first of the end of the length and of the file.  *)
LEMMA ReadIsAnInterval ==
    ASSUME NEW size \in Nat, NEW position \in 0..(size - 1), NEW length \in Nat \ {0}
    PROVE  TakesOn(Read(size, position, length), position, size)
<1> DEFINE next == IF position + length > size THEN size ELSE position + length
<1>1. next \in (position + 1)..size
  OBVIOUS
<1>2. Read(size, position, length) = position..(next - 1)
  <2>1. ASSUME NEW b PROVE b \in Read(size, position, length) <=> b \in position..(next - 1)
    BY DEF Read
  <2> QED
    BY <2>1
<1> QED
  BY <1>1, <1>2 DEF TakesOn

(* Behind the end of a file there is nothing to read. *)
LEMMA NothingBehindTheEnd ==
    ASSUME NEW size \in Nat, NEW length \in Nat
    PROVE  Read(size, size, length) = {}
BY DEF Read

(* Wherever a player is in a file of whatever size, streaming_media and     *)
(* streaming_media_condition take it on to the end, streaming_media         *)
(* possibly without the last byte.                                          *)
THEOREM StreamsPlayThrough ==
    ASSUME NEW size \in Nat, NEW chunkSize \in Nat \ {0}
    PROVE  PlaysThrough(size, chunkSize)
<1> SUFFICES ASSUME NEW position \in 0..size
             PROVE  LET media == StreamingMedia(From(position), size, chunkSize)
                        condition == StreamingMediaCondition(From(position), size, chunkSize)
                    IN  /\ IF position < size - 1
                           THEN media.status = "206" /\ TakesOn(media.bytes, position, size)
                           ELSE media.bytes = {}
                        /\ IF position < size
                           THEN TakesOn(condition.bytes, position, size)
                           ELSE condition.bytes = {}
  BY DEF PlaysThrough
<1> DEFINE media == StreamingMedia(From(position), size, chunkSize)
           condition == StreamingMediaCondition(From(position), size, chunkSize)
           end == IF position + chunkSize > size THEN size - 1 ELSE position + chunkSize
<1>1. /\ RangeStart(From(position)) = position
      /\ RangeEnd(From(position), chunkSize) = position + chunkSize
      /\ From(position).start = position /\ position # Missing
  BY DEF RangeStart, RangeEnd, From, Missing
<1>2. ASSUME position < size - 1
      PROVE  media.status = "206" /\ TakesOn(media.bytes, position, size)
  <2>1. end - position \in Nat \ {0} /\ ~(end - position < -1) /\ ~(position >= size - 1)
    BY <1>2
  <2>2. media = Reply("206", Read(size, position, end - position))
    BY <1>1, <2>1 DEF StreamingMedia
  <2>3. TakesOn(Read(size, position, end - position), position, size)
    <3> HIDE DEF end
    <3> QED
      BY <1>2, <2>1, ReadIsAnInterval
  <2> HIDE DEF media
  <2> QED
    BY <2>2, <2>3 DEF Reply
<1>3. ASSUME ~(position < size - 1)
      PROVE  media.bytes = {}
  BY <1>1, <1>3 DEF StreamingMedia, NoBytes, Reply
<1>4. condition.bytes = Read(size, position, chunkSize)
  BY <1>1 DEF StreamingMediaCondition, Reply
<1>5. ASSUME position < size
      PROVE  TakesOn(condition.bytes, position, size)
  <2>1. position \in 0..(size - 1)
    BY <1>5
  <2> HIDE DEF condition
  <2> QED
    BY <1>4, <2>1, ReadIsAnInterval
<1>6. ASSUME ~(position < size)
      PROVE  condition.bytes = {}
  <2>1. position = size
    BY <1>6
  <2> HIDE DEF condition
  <2> QED
    BY <1>4, <2>1, NothingBehindTheEnd
<1> HIDE DEF media, condition
<1> QED
  BY <1>2, <1>3, <1>5, <1>6 DEF media, condition

(* No byte outside the range that was asked for is sent, and none without   *)
(* the first.                                                               *)
THEOREM RangesAreKept ==
    ASSUME NEW size \in Nat, NEW chunkSize \in Nat \ {0}
    PROVE  KeepsToTheRange(size, chunkSize)
<1> SUFFICES ASSUME NEW start \in 0..size, NEW end \in 0..(size + 1), start <= end
             PROVE  LET range == [start |-> start, end |-> end]
                        bytes == StreamingMedia(range, size, chunkSize).bytes
                    IN  bytes \subseteq start..end /\ (bytes # {} => start \in bytes)
  BY DEF KeepsToTheRange
<1> DEFINE range == [start |-> start, end |-> end]
           clipped == IF end > size THEN size - 1 ELSE end
<1>1. RangeStart(range) = start /\ RangeEnd(range, chunkSize) = end
  BY DEF RangeStart, RangeEnd, Missing
<1>2. CASE start >= size - 1
  BY <1>1, <1>2 DEF StreamingMedia, NoBytes, Reply
<1>3. CASE ~(start >= size - 1)
  <2>1. clipped - start \in Nat /\ clipped <= end
    BY <1>3
  <2>2. StreamingMedia(range, size, chunkSize) =
            Reply("206", Read(size, start, clipped - start))
    BY <1>1, <1>3, <2>1 DEF StreamingMedia
  <2>3. /\ Read(size, start, clipped - start) \subseteq start..end
        /\ Read(size, start, clipped - start) # {} => start \in Read(size, start, clipped - start)
    BY <1>3, <2>1 DEF Read
  <2> QED
    BY <2>2, <2>3 DEF Reply
<1> QED
  BY <1>2, <1>3

(* What is streamed can be played to its end.                               *)
THEOREM StreamsComeToTheirEnd == Spec => []StreamsReachTheEnd
<1>1. StreamsReachTheEnd
  BY FileStreamsAssumption, StreamsPlayThrough, RangesAreKept
     DEF StreamsReachTheEnd, AllSizesPlayThrough
<1> QED
  BY <1>1, PTL
=============================================================================
