------------------------- MODULE MCWhatsAppInbound -------------------------
(***************************************************************************)
(* Small instances of WhatsAppInbound: a batch with one message, and one   *)
(* with another message of the same customer and a receipt.  The batches   *)
(* of receipts alone have no number the drain could route them by.         *)
(***************************************************************************)
EXTENDS WhatsAppInbound, TLC

CONSTANTS mixed, single, delivered, failed, m1, m2, o1

Message(m) == [kind |-> "message", id |-> m]
Receipt(o, s) == [kind |-> "status", id |-> o, status |-> s]

MCEventsOf ==
    [b \in Batches |->
        CASE b = mixed -> <<Message(m2), Receipt(o1, "delivered")>>
          [] b = single -> <<Message(m1)>>
          [] b = delivered -> <<Receipt(o1, "delivered")>>
          [] b = failed -> <<Receipt(o1, "failed")>>]

OneCustomer == [m \in Messages |-> CHOOSE s \in Senders : TRUE]
ToCustomer == [o \in Outgoing |-> CHOOSE s \in Senders : TRUE]
FirstWorkspace == [o \in Outgoing |-> CHOOSE ws \in Workspaces : TRUE]

HandlerSymmetry == Permutations(Handlers)
=============================================================================
