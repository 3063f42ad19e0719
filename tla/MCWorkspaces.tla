---------------------------- MODULE MCWorkspaces ----------------------------
(* Instances of Workspaces for TLC. *)
EXTENDS Workspaces, TLC

MCSymmetry ==
    Permutations(Workspaces) \cup Permutations(Names) \cup Permutations(Users)
      \cup Permutations(TypeIds) \cup Permutations(Suggestions)
      \cup Permutations(Contents) \cup Permutations(Threads)
=============================================================================
