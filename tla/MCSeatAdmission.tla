-------------------------- MODULE MCSeatAdmission --------------------------
(* Instances of SeatAdmission for TLC. *)
EXTENDS SeatAdmission, TLC
=============================================================================
