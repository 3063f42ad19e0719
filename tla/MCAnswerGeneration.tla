------------------------- MODULE MCAnswerGeneration -------------------------
(* Instances of AnswerGeneration for TLC. *)
EXTENDS AnswerGeneration, TLC

Symmetry == Permutations(Requests) \cup Permutations(Answers)
                \cup Permutations(Questions)
=============================================================================
