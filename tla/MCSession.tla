------------------------------- MODULE MCSession -------------------------------
(* SessionData with runs that can be told apart only by what they do.       *)
EXTENDS SessionData, TLC

RunSymmetry == Permutations(Runs)
=============================================================================
