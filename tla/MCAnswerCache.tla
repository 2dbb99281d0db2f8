--------------------------- MODULE MCAnswerCache ---------------------------
(***************************************************************************)
(* Small instances of AnswerCache.                                         *)
(***************************************************************************)
EXTENDS AnswerCache, TLC

Symmetry == Permutations(Askers) \cup Permutations(Docs) \cup Permutations(Mutators)
=============================================================================
