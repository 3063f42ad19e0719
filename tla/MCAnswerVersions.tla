-------------------------- MODULE MCAnswerVersions --------------------------
(* Instances of AnswerVersions for TLC. *)
EXTENDS AnswerVersions, TLC

Symmetry == Permutations(Answers) \cup Permutations(Contents) \cup Permutations(Ratings)
=============================================================================
