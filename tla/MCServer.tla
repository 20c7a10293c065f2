------------------------------ MODULE MCServer ------------------------------
(* Server for TLC. *)
EXTENDS Server, TLC

\* Session ids are drawn at random; nothing orders them.
SessionSymmetry == Permutations(Sessions)
=============================================================================
