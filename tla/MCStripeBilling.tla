-------------------------- MODULE MCStripeBilling --------------------------
(***************************************************************************)
(* Small instances of StripeBilling.                                       *)
(***************************************************************************)
EXTENDS StripeBilling, TLC
=============================================================================
