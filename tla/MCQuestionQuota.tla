--------------------------- MODULE MCQuestionQuota ---------------------------
(* Instances of QuestionQuota for TLC. *)
EXTENDS QuestionQuota, TLC

Symmetry == Permutations(Calls)

TwoQuestions == [a \in Attributes |-> IF a = "questions" THEN 2 ELSE 1]
ThreeQuestionsGiven == [a \in Attributes |-> IF a = "questions" THEN 3 ELSE 1]
OneExtra == [a \in Attributes |-> 1]
=============================================================================
