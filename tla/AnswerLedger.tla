---------------------------- MODULE AnswerLedger ----------------------------
(***************************************************************************)
(* What a client of elgen-esg-conversation-service may rely on, whatever   *)
(* endpoint it uses: an abstract view of AnswerGeneration.  For every      *)
(* request the service keeps a book in which an answer is first recorded   *)
(* and then filed (it has its analytics), and the request has an outcome.  *)
(***************************************************************************)
CONSTANT Requests

VARIABLES
    book,               \* what is stored for each request
    outcome             \* what has become of each request

ledgerVars == <<book, outcome>>

LedgerInit ==
    /\ book = [r \in Requests |-> "blank"]
    /\ outcome = [r \in Requests |-> "pending"]

(* The answer is stored, once, and only for a request that is still open. *)
Record(r) ==
    /\ outcome[r] = "pending"
    /\ book[r] = "blank"
    /\ book' = [book EXCEPT ![r] = "recorded"]
    /\ UNCHANGED outcome

(* A recorded answer is filed, and its request closed in the same step: it  *)
(* is acknowledged only then.                                               *)
File(r) ==
    /\ outcome[r] = "pending"
    /\ book[r] = "recorded"
    /\ book' = [book EXCEPT ![r] = "filed"]
    /\ outcome' \in {[outcome EXCEPT ![r] = o] : o \in {"acknowledged", "closed"}}

(* Requests are closed unanswered, by failures one at a time, by a crash    *)
(* together; what the book says of them stays.                              *)
CloseAll(R) ==
    /\ R # {}
    /\ \A r \in R : outcome[r] = "pending"
    /\ outcome' = [r \in Requests |-> IF r \in R THEN "closed" ELSE outcome[r]]
    /\ UNCHANGED book

LedgerNext ==
    \/ \E r \in Requests : Record(r) \/ File(r)
    \/ \E R \in SUBSET Requests : CloseAll(R)

LedgerSpec == LedgerInit /\ [][LedgerNext]_ledgerVars
=============================================================================
