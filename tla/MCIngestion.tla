---------------------------- MODULE MCIngestion ----------------------------
(* Instances of Ingestion for TLC: a text and a PDF of one workspace.      *)
EXTENDS IngestedTexts

MCWorkspaceOf == [d \in Documents |-> CHOOSE w \in Workspaces : TRUE]

Sense(n) == [tokens |-> n, makesSense |-> TRUE]
Nonsense(n) == [tokens |-> n, makesSense |-> FALSE]

(* A text of two paragraphs, which cleaning makes one of, with a sentence   *)
(* that is dropped; a PDF whose paragraphs stay apart, the first too short. *)
MCContents == [d \in Documents |->
    IF d \in Pdfs THEN <<<<Sense(1)>>, <<Sense(1), Nonsense(2)>>>>
    ELSE <<<<Sense(1), Nonsense(2)>>, <<Sense(3)>>>>]

MCParagraphs == [d \in Documents |->
    Cardinality(ChunkText(IF d \in Pdfs THEN MCContents[d]
                          ELSE CleanNonSenseText(MCContents[d]), 3, 1, 2))]
=============================================================================
