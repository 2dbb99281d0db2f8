--------------------------- MODULE StripeBilling ---------------------------
(***************************************************************************)
(* The plan of a workspace as Stripe's webhook keeps it: checkout, the     *)
(* events Stripe sends about a subscription, and handleStripeEvent, which  *)
(* finds the workspace, writes its Subscription row and copies the plan to *)
(* Workspace.plan, in database calls of their own.  The webhook has no     *)
(* memory of events; Stripe delivers each until it is answered with 200,   *)
(* possibly again after that, and in any order.                            *)
(***************************************************************************)
EXTENDS Integers, Sequences, FiniteSets

CONSTANTS
    Workspaces,
    Plans,       \* paid plans
    Pro,         \* the plan of a checkout whose subscription cannot be read
    Customers,   \* Stripe customer ids
    Subs,        \* Stripe subscription ids
    Handlers,    \* invocations of the webhook that may overlap
    Ordered,     \* events are delivered one by one, in the order of creation
    Exclusive,   \* nobody subscribes a workspace that is subscribed already
    MaxEvents,   \* bound: events Stripe sends
    MaxFaults,   \* bound: failing calls and killed handlers
    Null, NoRow

Status == {"active", "past_due", "unpaid", "canceled"}
Paying == {"active", "past_due"}         \* trialing counts as active

Row == [customer : Customers, sub : Subs \cup {Null},
        plan : Plans \cup {"free"}, status : Status]
Sub == [ws : Workspaces, customer : Customers, plan : Plans, status : Status]
Session == [ws : Workspaces, plan : Plans, customer : Customers \cup {Null}]
Event == [type : {"completed", "updated", "deleted"}, ws : Workspaces \cup {Null},
          customer : Customers, sub : Subs, plan : Plans, status : Status]

Handler == [pc : {"idle", "find", "retrieve", "row", "mirror"},
            event : Nat, ws : Workspaces \cup {Null},
            plan : Plans \cup {"free", Null}]

Idle == [pc |-> "idle", event |-> 0, ws |-> Null, plan |-> Null]

ASSUME BoundAssumption ==
    /\ {MaxEvents, MaxFaults} \subseteq Nat
    /\ Ordered \in BOOLEAN /\ Exclusive \in BOOLEAN
    /\ Pro \in Plans

ASSUME NullAssumption ==
    /\ Null \notin Workspaces \cup Plans \cup Customers \cup Subs
    /\ "free" \notin Plans /\ Null # "free"
    /\ NoRow \notin Row /\ Null \notin Sub

VARIABLES
    row,       \* Subscription rows, one for each workspace at most
    plan,      \* Workspace.plan
    sub,       \* subscriptions as Stripe has them
    sessions,  \* checkout sessions that were not paid yet
    events,    \* what Stripe has sent, oldest first
    acked,     \* events that were answered with 200
    guessed,   \* history: workspaces on a plan that could not be read
    handler, faults

vars == <<row, plan, sub, sessions, events, acked, guessed, handler, faults>>

tables == <<row, plan, guessed>>
stripe == <<sub, sessions, events>>

TypeOK ==
    /\ row \in [Workspaces -> Row \cup {NoRow}]
    /\ plan \in [Workspaces -> Plans \cup {"free"}]
    /\ sub \in [Subs -> Sub \cup {Null}]
    /\ sessions \subseteq Session
    /\ events \in Seq(Event)
    /\ acked \subseteq DOMAIN events
    /\ guessed \subseteq Workspaces
    /\ handler \in [Handlers -> Handler]
    /\ faults \in 0..MaxFaults

-----------------------------------------------------------------------------
(* Helpers *)

Started(s) == sub[s] # Null
SubsOf(ws) == {s \in Subs : Started(s) /\ sub[s].ws = ws}
Live(ws) == {s \in SubsOf(ws) : sub[s].status # "canceled"}

Room(n) == Len(events) + n <= MaxEvents

About(s, type, state) ==
    [type |-> type, ws |-> Null, customer |-> state.customer, sub |-> s,
     plan |-> state.plan, status |-> state.status]

At(h, pc) == handler[h].pc = pc
Current(h) == events[handler[h].event]

Having(field, value) ==
    {ws \in Workspaces : row[ws] # NoRow /\ row[ws][field] = value}

\* Mutant: any subscribed workspace will do.
OwnersByStatus(e) == {ws \in Workspaces : row[ws] # NoRow}

\* findUnique by stripeCustomerId, then by stripeSubId, then findFirst by
\* either; both columns are unique.
Owners(e) ==
    IF Having("customer", e.customer) # {} THEN Having("customer", e.customer)
                                           ELSE Having("sub", e.sub)

Answer(h) ==
    /\ handler' = [handler EXCEPT ![h] = Idle]
    /\ acked' = acked \cup {handler[h].event}

\* resolveEffectivePlan once the trial is over.
Effective(ws) ==
    IF row[ws] # NoRow
    THEN IF row[ws].status \in Paying THEN row[ws].plan ELSE "free"
    ELSE plan[ws]

Init ==
    /\ row = [ws \in Workspaces |-> NoRow]
    /\ plan = [ws \in Workspaces |-> "free"]
    /\ sub = [s \in Subs |-> Null]
    /\ sessions = {}
    /\ events = <<>>
    /\ acked = {}
    /\ guessed = {}
    /\ handler = [h \in Handlers |-> Idle]
    /\ faults = 0

-----------------------------------------------------------------------------
(* Checkout and Stripe *)

\* The checkout route: a workspace without a row becomes a new customer.
OpenCheckout(ws, p) ==
    /\ Exclusive => Live(ws) = {} /\ \A x \in sessions : x.ws # ws
    /\ sessions' = sessions \cup
           {[ws |-> ws, plan |-> p,
             customer |-> IF row[ws] = NoRow THEN Null ELSE row[ws].customer]}
    /\ UNCHANGED <<tables, sub, events, acked, handler, faults>>

\* The customer pays; Stripe reports the subscription and then the checkout.
Pay(x, s, c) ==
    LET state == [ws |-> x.ws, customer |-> c, plan |-> x.plan, status |-> "active"]
    IN  /\ Room(2)
        /\ ~Started(s)
        /\ IF x.customer # Null THEN c = x.customer
           ELSE \A t \in Subs : Started(t) => sub[t].customer # c
        /\ sessions' = sessions \ {x}
        /\ sub' = [sub EXCEPT ![s] = state]
        /\ events' = events \o <<About(s, "updated", state),
                                 [About(s, "completed", state) EXCEPT !.ws = x.ws]>>
        /\ UNCHANGED <<tables, acked, handler, faults>>

\* Another plan in the portal, a payment that fails or succeeds after all.
Change(s, p, status) ==
    LET state == [sub[s] EXCEPT !.plan = p, !.status = status]
    IN  /\ Room(1)
        /\ Started(s)
        /\ sub[s].status # "canceled"
        /\ state # sub[s]
        /\ status = "unpaid" => sub[s].status = "past_due"
        /\ sub' = [sub EXCEPT ![s] = state]
        /\ events' = Append(events, About(s, "updated", state))
        /\ UNCHANGED <<tables, sessions, acked, handler, faults>>

Cancel(s) ==
    LET state == [sub[s] EXCEPT !.status = "canceled"]
    IN  /\ Room(1)
        /\ Started(s)
        /\ sub[s].status # "canceled"
        /\ sub' = [sub EXCEPT ![s] = state]
        /\ events' = Append(events, About(s, "deleted", state))
        /\ UNCHANGED <<tables, sessions, acked, handler, faults>>

-----------------------------------------------------------------------------
(* handleStripeEvent *)

Deliver(h, i) ==
    /\ At(h, "idle")
    /\ Ordered => /\ i \notin acked
                  /\ \A j \in 1..(i - 1) : j \in acked
                  /\ \A g \in Handlers : At(g, "idle")
    /\ handler' = [handler EXCEPT ![h] = [Idle EXCEPT !.pc = "find", !.event = i]]
    /\ UNCHANGED <<tables, stripe, acked, faults>>

\* Mutant: an event about nobody is an error.
FindWorkspaceOrThrow(h) ==
    LET e == Current(h)
        found == IF e.type = "completed" THEN {e.ws} ELSE Owners(e)
    IN  /\ At(h, "find")
        /\ handler' = [handler EXCEPT ![h] =
               IF found = {} THEN Idle
               ELSE [@ EXCEPT !.pc = IF e.type = "completed" THEN "retrieve" ELSE "row",
                              !.ws = CHOOSE ws \in found : TRUE,
                              !.plan = IF e.type = "updated" THEN e.plan ELSE "free"]]
        /\ UNCHANGED <<tables, stripe, acked, faults>>

\* The workspace of the checkout, or of the customer or the subscription; an
\* event about neither is answered like one that was handled.
FindWorkspace(h) ==
    LET e == Current(h)
    IN  /\ At(h, "find")
        /\ \/ /\ e.type = "completed"
              /\ handler' = [handler EXCEPT ![h].pc = "retrieve", ![h].ws = e.ws]
              /\ UNCHANGED acked
           \/ /\ e.type # "completed"
              /\ Owners(e) = {}
              /\ Answer(h)
           \/ /\ e.type # "completed"
              /\ \E ws \in Owners(e) :
                   handler' = [handler EXCEPT ![h].pc = "row", ![h].ws = ws,
                       ![h].plan = IF e.type = "deleted" THEN "free" ELSE e.plan]
              /\ UNCHANGED acked
        /\ UNCHANGED <<tables, stripe, faults>>

\* Mutant: the price of an unreadable subscription maps to no plan.
RetrievePlanOrNone(h) ==
    /\ At(h, "retrieve")
    /\ \E ok \in BOOLEAN :
          /\ faults' = faults + (IF ok THEN 0 ELSE 1)
          /\ faults' <= MaxFaults
          /\ handler' = [handler EXCEPT ![h].pc = "row",
                 ![h].plan = IF ok THEN sub[Current(h).sub].plan ELSE Null]
    /\ UNCHANGED <<tables, stripe, acked>>

\* The checkout asks Stripe for the plan; an error leaves it at "pro".
RetrievePlan(h) ==
    /\ At(h, "retrieve")
    /\ \/ /\ handler' = [handler EXCEPT ![h].pc = "row",
                                        ![h].plan = sub[Current(h).sub].plan]
          /\ guessed' = guessed \ {handler[h].ws}
          /\ UNCHANGED faults
       \/ /\ faults < MaxFaults
          /\ faults' = faults + 1
          /\ handler' = [handler EXCEPT ![h].pc = "row", ![h].plan = Pro]
          /\ guessed' = guessed \cup {handler[h].ws}
    /\ UNCHANGED <<row, plan, stripe, acked>>

\* subscription.upsert, or the update to free of a deletion, which keeps the
\* customer.  A checkout is taken for active.
WriteRow(h) ==
    LET e == Current(h)
        ws == handler[h].ws
    IN  /\ At(h, "row")
        /\ row' = [row EXCEPT ![ws] =
               IF e.type = "deleted"
               THEN [@ EXCEPT !.sub = Null, !.plan = "free", !.status = "canceled"]
               ELSE [customer |-> e.customer, sub |-> e.sub, plan |-> handler[h].plan,
                     status |-> IF e.type = "completed" THEN "active" ELSE e.status]]
        /\ guessed' = IF e.type = "completed" THEN guessed ELSE guessed \ {ws}
        /\ handler' = [handler EXCEPT ![h].pc = "mirror"]
        /\ UNCHANGED <<plan, stripe, acked, faults>>

\* Mutant: the status is not looked at.
MirrorPlanAlways(h) ==
    /\ At(h, "mirror")
    /\ plan' = [plan EXCEPT ![handler[h].ws] = handler[h].plan]
    /\ Answer(h)
    /\ UNCHANGED <<row, guessed, stripe, faults>>

\* syncWorkspacePlan: a status that does not pay is mirrored as free.
MirrorPlan(h) ==
    LET e == Current(h)
        paying == e.type # "updated" \/ e.status \in Paying
    IN  /\ At(h, "mirror")
        /\ plan' = [plan EXCEPT ![handler[h].ws] =
               IF paying THEN handler[h].plan ELSE "free"]
        /\ Answer(h)
        /\ UNCHANGED <<row, guessed, stripe, faults>>

\* The handler throws and the route answers 500, or it is killed.
Fail(h) ==
    /\ faults < MaxFaults
    /\ faults' = faults + 1
    /\ ~At(h, "idle")
    /\ handler' = [handler EXCEPT ![h] = Idle]
    /\ UNCHANGED <<tables, stripe, acked>>

-----------------------------------------------------------------------------
Handle(h) == FindWorkspace(h) \/ RetrievePlan(h) \/ WriteRow(h) \/ MirrorPlan(h)

Next ==
    \/ \E ws \in Workspaces, p \in Plans : OpenCheckout(ws, p)
    \/ \E x \in sessions, s \in Subs, c \in Customers : Pay(x, s, c)
    \/ \E s \in Subs :
         Cancel(s) \/ \E p \in Plans, status \in Status \ {"canceled"} : Change(s, p, status)
    \/ \E h \in Handlers :
         (\E i \in DOMAIN events : Deliver(h, i)) \/ Handle(h) \/ Fail(h)

Spec == Init /\ [][Next]_vars

\* Stripe repeats an event until it is answered with 200, and a handler that
\* was started runs on.
FairSpec ==
    /\ Spec
    /\ \A h \in Handlers : WF_vars(Handle(h))
    /\ WF_vars(\E h \in Handlers, i \in 1..MaxEvents :
                   i \in DOMAIN events \ acked /\ Deliver(h, i))

-----------------------------------------------------------------------------
(* Properties *)

AtRest ==
    /\ acked = DOMAIN events
    /\ \A h \in Handlers : At(h, "idle")

\* Once every event was answered, a workspace has the limits it pays for, and
\* Workspace.plan agrees with its row ("Stripe is source of truth for
\* Subscription; Workspace.plan is derived"), but for a plan that had to be
\* guessed: through failures half-way, missed payments and resubscription.
MirrorsStripe ==
    AtRest =>
        \A ws \in Workspaces \ guessed :
            LET paid == {sub[s].plan : s \in {s \in SubsOf(ws) : sub[s].status \in Paying}}
            IN  /\ Effective(ws) \in IF paid = {} THEN {"free"} ELSE paid
                /\ plan[ws] = Effective(ws)

\* What the webhook writes for an event goes to the workspace whose checkout
\* bought the subscription, also for customers with several subscriptions.
OnlyTheBuyer ==
    [][\A h \in Handlers :
          handler[h].pc \in {"row", "mirror"} /\ handler'[h] # handler[h] =>
              \A ws \in Workspaces \ {sub[Current(h).sub].ws} :
                  row'[ws] = row[ws] /\ plan'[ws] = plan[ws]]_vars

\* An event Stripe sent is answered with 200 at last: no event, of whatever
\* type and about whomever, keeps the webhook failing and Stripe repeating it.
EventsAreHandled ==
    \A i \in 1..MaxEvents : i \in DOMAIN events ~> i \in acked
=============================================================================
