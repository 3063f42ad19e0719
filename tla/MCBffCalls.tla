----------------------------- MODULE MCBffCalls -----------------------------
(* Instances of BffCalls for TLC. *)
EXTENDS BffCalls, TLC

MCSymmetry == Permutations(Jobs)
=============================================================================
