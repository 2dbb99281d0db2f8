----------------------------- MODULE MCBooking -----------------------------
(* Instances of Booking for TLC. *)
EXTENDS Booking, TLC

CONSTANTS d1, u1, u2, p1

\* Both units belong to the one deal's buyer to choose from.
OneDeal == d1 :> {u1, u2}

\* A plan with milestones of its own.
OnePlan == p1 :> <<20, 80>>

Symmetry == Permutations(Agents) \cup Permutations(Units)
=============================================================================
