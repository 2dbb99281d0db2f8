---------------------------- MODULE LeadDelivery ----------------------------
(***************************************************************************)
(* What the lead queue promises to the rest of the CRM, without workers,   *)
(* batches or database steps: a dedupe key is received, its lead is        *)
(* captured in the CRM, and only then is the key settled, for good.        *)
(* Capturing may happen more than once (delivery is at least once), and    *)
(* may happen again after the key is settled, by an attempt that began     *)
(* earlier.                                                                *)
(***************************************************************************)
CONSTANT Keys

VARIABLES
    status,     \* status[k]: what the queue says of key k
    captured    \* the keys whose lead has reached the CRM's timeline

vars == <<status, captured>>

Init ==
    /\ status = [k \in Keys |-> "absent"]
    /\ captured = {}

Receive(k) ==
    /\ status[k] = "absent"
    /\ status' = [status EXCEPT ![k] = "pending"]
    /\ UNCHANGED captured

Capture(k) ==
    /\ status[k] # "absent"
    /\ captured' = captured \cup {k}
    /\ UNCHANGED status

Settle(k) ==
    /\ status[k] = "pending"
    /\ k \in captured
    /\ status' = [status EXCEPT ![k] = "done"]
    /\ UNCHANGED captured

Next == \E k \in Keys : Receive(k) \/ Capture(k) \/ Settle(k)

Spec == Init /\ [][Next]_vars
=============================================================================
