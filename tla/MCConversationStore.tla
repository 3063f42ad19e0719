------------------------- MODULE MCConversationStore ------------------------
(* Instances of ConversationStore with QuestionSources for TLC. *)
EXTENDS QuestionSources, TLC

Symmetry == Permutations(Users) \cup Permutations(Workspaces)
                \cup Permutations(Titles) \cup Permutations(Conversations)
                \cup Permutations(Questions) \cup Permutations(Sessions)
                \cup Permutations(Saves) \cup Permutations(Documents)
=============================================================================
