--------------------------- MODULE MCDealPipeline ---------------------------
(***************************************************************************)
(* Small instances of DealPipeline.                                        *)
(***************************************************************************)
EXTENDS DealPipeline, TLC

Symmetry == Permutations(Deals) \cup Permutations(Users)
=============================================================================
