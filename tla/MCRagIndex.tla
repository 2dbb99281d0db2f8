----------------------------- MODULE MCRagIndex -----------------------------
(***************************************************************************)
(* Small instances of RagIndex.  "repeated" holds one text twice, so that  *)
(* a diff against it has to count; "blank" has no text at all.             *)
(***************************************************************************)
EXTENDS RagIndex, TLC

CONSTANTS repeated, other, blank, x, y

MCContent == [f \in Files |-> CASE f = repeated -> <<x, x>>
                                [] f = other -> <<y, x>>
                                [] f = blank -> <<>>]
=============================================================================
