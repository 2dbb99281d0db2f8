---------------------------- MODULE MCLeadIngest ----------------------------
(***************************************************************************)
(* Small instances of LeadIngest.  "portal" and "hashed" are about the     *)
(* same person; "portal" carries its own id, so its key does not depend on *)
(* the field map, and "hashed" does not, so mapping its fields changes its *)
(* key.  "nameless" carries an id and neither phone nor e-mail address.    *)
(***************************************************************************)
EXTENDS LeadIngest, TLC

CONSTANTS portal, hashed, nameless, k1, k2, k3, k4, p1, p2, s1, s2

OwnKeys == portal :> k1 @@ nameless :> k4
MCKeyOf == [l \in Leads |-> IF l = hashed THEN k2 ELSE OwnKeys[l]]
MCMappedKeyOf == [l \in Leads |-> IF l = hashed THEN k3 ELSE OwnKeys[l]]
MCPersonOf == [l \in Leads |-> IF l = nameless THEN p2 ELSE p1]
MCSourceOf == [l \in Leads |-> IF l = hashed THEN s2 ELSE s1]

WorkerSymmetry == Permutations(Workers)

Acking == [enabled |-> TRUE, mapped |-> FALSE, ack |-> TRUE]
Mapped == [enabled |-> TRUE, mapped |-> TRUE, ack |-> FALSE]
Disabled == [enabled |-> FALSE, mapped |-> FALSE, ack |-> FALSE]

AnyConfig == {NoConfig, Mapped, Acking, Disabled}
EnabledConfig == {NoConfig, Mapped}
=============================================================================
