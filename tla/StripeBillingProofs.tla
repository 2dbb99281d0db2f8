------------------------ MODULE StripeBillingProofs ------------------------
(***************************************************************************)
(* What an event writes, in StripeBilling, for any number of workspaces,   *)
(* subscriptions, overlapping handlers, failures and repeated deliveries,  *)
(* whatever the order of delivery; and that row and plan agree with Stripe *)
(* at rest, where events arrive in order and nobody subscribes twice.      *)
(***************************************************************************)
EXTENDS StripeBilling, SequenceTheorems, TLAPS

\* e is about a subscription that was started, by the customer who has it; a
\* checkout names the workspace that bought it.
Sound(e, subs) ==
    /\ subs[e.sub] # Null
    /\ subs[e.sub].customer = e.customer
    /\ e.type = "completed" => e.ws = subs[e.sub].ws

EventInv == \A i \in DOMAIN events : Sound(events[i], sub)

\* The customer c has a subscription of ws.
Bought(c, ws) == \E t \in Subs : Started(t) /\ sub[t].customer = c /\ sub[t].ws = ws

\* A customer buys for one workspace only.
CustomerInv ==
    \A s, t \in Subs :
        Started(s) /\ Started(t) /\ sub[s].customer = sub[t].customer
            => sub[s].ws = sub[t].ws

SessionInv == \A x \in sessions : x.customer # Null => Bought(x.customer, x.ws)

RowInv ==
    \A ws \in Workspaces :
        row[ws] # NoRow =>
            /\ Bought(row[ws].customer, ws)
            /\ row[ws].sub # Null =>
                 Started(row[ws].sub) /\ sub[row[ws].sub].ws = ws

HandlerOK(h) ==
    handler[h].pc # "idle" =>
        /\ handler[h].event \in DOMAIN events
        /\ handler[h].pc = "retrieve" => Current(h).type = "completed"
        /\ handler[h].pc # "find" => handler[h].ws = sub[Current(h).sub].ws
        /\ handler[h].pc \in {"row", "mirror"} =>
             /\ handler[h].plan # Null
             /\ Current(h).type = "deleted" => row[handler[h].ws] # NoRow

HandlerInv == \A h \in Handlers : HandlerOK(h)

IInv == /\ TypeOK /\ EventInv /\ CustomerInv /\ SessionInv /\ RowInv /\ HandlerInv

-----------------------------------------------------------------------------
(* Steps of Stripe *)

LEMMA SubIsNoNull == Null \notin Sub
BY NullAssumption DEF Sub

\* What Stripe does to what it has: more events, each of them sound, and no
\* subscription that changes hands.
StripeGrows ==
    /\ events' \in Seq(Event)
    /\ DOMAIN events \subseteq DOMAIN events'
    /\ \A i \in DOMAIN events : events'[i] = events[i]
    /\ \A i \in DOMAIN events' \ DOMAIN events : Sound(events'[i], sub')
    /\ sub' \in [Subs -> Sub \cup {Null}]
    /\ \A s \in Subs : Started(s) =>
         sub'[s] # Null /\ sub'[s].ws = sub[s].ws /\ sub'[s].customer = sub[s].customer

LEMMA MoreEvents ==
    ASSUME TypeOK, NEW more \in Seq(Event), events' = events \o more
    PROVE  /\ events' \in Seq(Event)
           /\ DOMAIN events \subseteq DOMAIN events'
           /\ \A i \in DOMAIN events : events'[i] = events[i]
           /\ \A i \in DOMAIN events' \ DOMAIN events :
                \E j \in DOMAIN more : events'[i] = more[j]
<1>1. events \in Seq(Event)
    BY DEF TypeOK
<1>2. /\ events' \in Seq(Event)
      /\ Len(events') = Len(events) + Len(more)
      /\ \A i \in 1..Len(events) + Len(more) :
           events'[i] = IF i <= Len(events) THEN events[i] ELSE more[i - Len(events)]
    BY <1>1, ConcatProperties, Zenon
<1>3. /\ DOMAIN events = 1..Len(events) /\ DOMAIN events' = 1..Len(events')
      /\ DOMAIN more = 1..Len(more)
      /\ Len(events) \in Nat /\ Len(more) \in Nat
    BY <1>1, <1>2, LenProperties
<1>4. ASSUME NEW i \in DOMAIN events' \ DOMAIN events
      PROVE  \E j \in DOMAIN more : events'[i] = more[j]
    <2>1. i - Len(events) \in DOMAIN more /\ ~(i <= Len(events))
        BY <1>2, <1>3
    <2> QED BY <1>2, <1>3, <2>1
<1> QED BY <1>2, <1>3, <1>4

\* What is known of tables and handlers survives a step of Stripe.
LEMMA StripeStep ==
    ASSUME IInv, StripeGrows, UNCHANGED <<row, plan, handler>>
    PROVE  EventInv' /\ RowInv' /\ HandlerInv'
<1> USE DEF IInv, TypeOK, StripeGrows
<1>1. \A i \in DOMAIN events : events[i] \in Event
    BY ElementOfSeq, LenProperties
<1>2. EventInv'
    BY <1>1 DEF EventInv, Sound, Started, Event
<1>3. RowInv'
    BY DEF RowInv, Bought, Started, Row
<1>4. HandlerInv'
    BY <1>1 DEF HandlerInv, HandlerOK, Current, Handler, Event, EventInv, Sound, Started
<1> QED BY <1>2, <1>3, <1>4

LEMMA CheckoutStep ==
    ASSUME IInv, NEW ws \in Workspaces, NEW p \in Plans, OpenCheckout(ws, p)
    PROVE  IInv'
<1> USE DEF IInv, OpenCheckout, tables
<1>1. TypeOK'
    BY DEF TypeOK, Session, Row
<1>2. SessionInv'
    BY DEF SessionInv, RowInv, Bought, Started
<1>3. EventInv' /\ CustomerInv' /\ RowInv' /\ HandlerInv'
    BY DEF EventInv, CustomerInv, RowInv, HandlerInv, HandlerOK, Bought, Started, Current
<1> QED BY <1>1, <1>2, <1>3

LEMMA PayGrows ==
    ASSUME IInv, NEW x \in sessions, NEW s \in Subs, NEW c \in Customers, Pay(x, s, c)
    PROVE  StripeGrows
<1> DEFINE state == [ws |-> x.ws, customer |-> c, plan |-> x.plan, status |-> "active"]
           paid == About(s, "updated", state)
           done == [About(s, "completed", state) EXCEPT !.ws = x.ws]
<1>1. state \in Sub
    BY DEF IInv, TypeOK, Session, Sub, Status
<1>2. /\ sub' = [sub EXCEPT ![s] = state]
      /\ sub[s] = Null
      /\ events' = events \o <<paid, done>>
      /\ sessions' \subseteq sessions
      /\ UNCHANGED <<row, plan, guessed, acked, handler, faults>>
      /\ IF x.customer # Null THEN c = x.customer
         ELSE \A t \in Subs : Started(t) => sub[t].customer # c
    BY DEF Pay, tables, Started
<1>3. paid \in Event /\ done \in Event
    BY <1>1 DEF About, Event, Sub
<1>4. Null \notin Sub /\ sub'[s] = state /\ \A t \in Subs \ {s} : sub'[t] = sub[t]
    BY <1>1, <1>2, SubIsNoNull DEF IInv, TypeOK
<1>5. Sound(paid, sub') /\ Sound(done, sub')
    BY <1>1, <1>4 DEF Sound, About
<1> QED
    <2> DEFINE more == <<paid, done>>
    <2>1. /\ more \in Seq(Event)
          /\ \A j \in DOMAIN more : more[j] \in {paid, done}
        BY <1>3
    <2>2. /\ events' \in Seq(Event)
          /\ DOMAIN events \subseteq DOMAIN events'
          /\ \A i \in DOMAIN events : events'[i] = events[i]
          /\ \A i \in DOMAIN events' \ DOMAIN events :
               \E j \in DOMAIN more : events'[i] = more[j]
        <3> HIDE DEF more
        <3> QED BY <1>2, <2>1, MoreEvents DEF IInv, more
    <2>3. \A i \in DOMAIN events' \ DOMAIN events : Sound(events'[i], sub')
        <3> HIDE DEF more, paid, done
        <3> QED BY <2>1, <2>2, <1>5
    <2>4. /\ sub' \in [Subs -> Sub \cup {Null}]
          /\ \A t \in Subs : Started(t) =>
               sub'[t] # Null /\ sub'[t].ws = sub[t].ws /\ sub'[t].customer = sub[t].customer
        BY <1>1, <1>2, <1>4 DEF IInv, TypeOK, Started
    <2> QED BY <2>2, <2>3, <2>4 DEF StripeGrows

LEMMA PayStep ==
    ASSUME IInv, NEW x \in sessions, NEW s \in Subs, NEW c \in Customers, Pay(x, s, c)
    PROVE  IInv'
<1> DEFINE state == [ws |-> x.ws, customer |-> c, plan |-> x.plan, status |-> "active"]
<1>1. state \in Sub
    BY DEF IInv, TypeOK, Session, Sub, Status
<1>2. /\ sub' = [sub EXCEPT ![s] = state]
      /\ sub[s] = Null
      /\ sessions' \subseteq sessions
      /\ UNCHANGED <<row, plan, guessed, acked, handler, faults>>
      /\ IF x.customer # Null THEN c = x.customer
         ELSE \A t \in Subs : Started(t) => sub[t].customer # c
    BY DEF Pay, tables, Started
<1>3. Null \notin Sub /\ sub'[s] = state /\ \A t \in Subs \ {s} : sub'[t] = sub[t]
    BY <1>1, <1>2, SubIsNoNull DEF IInv, TypeOK
<1>4. StripeGrows
    BY PayGrows
<1>5. EventInv' /\ RowInv' /\ HandlerInv'
    BY <1>2, <1>4, StripeStep
<1>6. TypeOK'
    BY <1>2, <1>4 DEF IInv, TypeOK, StripeGrows
<1>7. Bought(c, x.ws) \/ \A t \in Subs : Started(t) => sub[t].customer # c
    BY <1>2 DEF IInv, SessionInv
<1>8. CustomerInv'
    BY <1>3, <1>7 DEF IInv, CustomerInv, Bought, Started
<1>9. SessionInv'
    BY <1>2, <1>3 DEF IInv, SessionInv, Bought, Started
<1> QED BY <1>5, <1>6, <1>8, <1>9 DEF IInv

LEMMA ChangeGrows ==
    ASSUME IInv, NEW s \in Subs, NEW state \in Sub, NEW type \in {"updated", "deleted"},
           Started(s), state.ws = sub[s].ws, state.customer = sub[s].customer,
           sub' = [sub EXCEPT ![s] = state],
           events' = Append(events, About(s, type, state)),
           UNCHANGED <<tables, sessions, acked, handler, faults>>
    PROVE  StripeGrows
<1> DEFINE e == About(s, type, state)
<1>1. e \in Event
    BY DEF About, Event, Sub
<1>2. Null \notin Sub /\ sub'[s] = state /\ \A t \in Subs \ {s} : sub'[t] = sub[t]
    BY SubIsNoNull DEF IInv, TypeOK
<1>3. Sound(e, sub')
    BY <1>2 DEF Sound, About
<1> QED
    <2> DEFINE more == <<e>>
    <2>1. more \in Seq(Event) /\ \A j \in DOMAIN more : more[j] = e
        BY <1>1
    <2>2. events' = events \o more
        BY <1>1, AppendIsConcat DEF IInv, TypeOK
    <2>3. /\ events' \in Seq(Event)
          /\ DOMAIN events \subseteq DOMAIN events'
          /\ \A i \in DOMAIN events : events'[i] = events[i]
          /\ \A i \in DOMAIN events' \ DOMAIN events :
               \E j \in DOMAIN more : events'[i] = more[j]
        <3> HIDE DEF more
        <3> QED BY <2>1, <2>2, MoreEvents DEF IInv
    <2>4. \A i \in DOMAIN events' \ DOMAIN events : Sound(events'[i], sub')
        <3> HIDE DEF more, e
        <3> QED BY <2>1, <2>3, <1>3
    <2>5. /\ sub' \in [Subs -> Sub \cup {Null}]
          /\ \A t \in Subs : Started(t) =>
               sub'[t] # Null /\ sub'[t].ws = sub[t].ws /\ sub'[t].customer = sub[t].customer
        BY <1>2 DEF IInv, TypeOK, Started
    <2> QED BY <2>3, <2>4, <2>5 DEF StripeGrows

LEMMA ChangeStep ==
    ASSUME IInv, NEW s \in Subs, NEW state \in Sub, NEW type \in {"updated", "deleted"},
           Started(s), state.ws = sub[s].ws, state.customer = sub[s].customer,
           sub' = [sub EXCEPT ![s] = state],
           events' = Append(events, About(s, type, state)),
           UNCHANGED <<tables, sessions, acked, handler, faults>>
    PROVE  IInv'
<1>1. Null \notin Sub /\ sub'[s] = state /\ \A t \in Subs \ {s} : sub'[t] = sub[t]
    BY SubIsNoNull DEF IInv, TypeOK
<1>2. StripeGrows
    BY ChangeGrows
<1>3. EventInv' /\ RowInv' /\ HandlerInv'
    BY <1>2, StripeStep DEF tables
<1>4. TypeOK'
    BY <1>2 DEF IInv, TypeOK, StripeGrows, tables
<1>5. CustomerInv' /\ SessionInv'
    BY <1>1 DEF IInv, CustomerInv, SessionInv, Bought, Started
<1> QED BY <1>3, <1>4, <1>5 DEF IInv

-----------------------------------------------------------------------------
(* Steps of a handler *)

LEMMA CurrentIsSound ==
    ASSUME IInv, NEW h \in Handlers, ~At(h, "idle")
    PROVE  /\ handler[h].event \in DOMAIN events
           /\ Current(h) \in Event
           /\ Current(h).sub \in Subs
           /\ sub[Current(h).sub] \in Sub
           /\ sub[Current(h).sub].customer = Current(h).customer
           /\ Current(h).type = "completed" => Current(h).ws = sub[Current(h).sub].ws
<1>1. handler[h].event \in DOMAIN events /\ Current(h) \in Event
    BY ElementOfSeq, LenProperties DEF IInv, TypeOK, HandlerInv, HandlerOK, Current, At
<1> QED BY <1>1 DEF IInv, TypeOK, EventInv, Sound, Current, Event

\* Whoever is found by the customer or the subscription of an event is the one
\* who bought the subscription.
LEMMA OwnersBought ==
    ASSUME IInv, NEW h \in Handlers, ~At(h, "idle"), NEW ws \in Owners(Current(h))
    PROVE  ws \in Workspaces /\ ws = sub[Current(h).sub].ws /\ row[ws] # NoRow
<1> DEFINE e == Current(h)
<1>1. /\ e.sub \in Subs /\ Started(e.sub)
      /\ sub[e.sub].customer = e.customer
    BY CurrentIsSound, SubIsNoNull DEF Started
<1>2. CASE ws \in Having("customer", e.customer)
    <2>1. ws \in Workspaces /\ row[ws] # NoRow /\ row[ws].customer = e.customer
        BY <1>2 DEF Having
    <2>2. PICK t \in Subs : Started(t) /\ sub[t].customer = e.customer /\ sub[t].ws = ws
        BY <2>1 DEF IInv, RowInv, Bought
    <2> QED BY <1>1, <2>1, <2>2 DEF IInv, CustomerInv
<1>3. CASE ws \in Having("sub", e.sub)
    <2>1. ws \in Workspaces /\ row[ws] # NoRow /\ row[ws].sub = e.sub
        BY <1>3 DEF Having
    <2>2. e.sub # Null
        BY <1>1, NullAssumption
    <2> QED BY <2>1, <2>2 DEF IInv, RowInv
<1> QED BY <1>2, <1>3 DEF Owners

\* The invariants that do not mention the handlers.
LEMMA TablesStay ==
    ASSUME IInv, UNCHANGED <<row, sub, sessions, events>>
    PROVE  EventInv' /\ CustomerInv' /\ SessionInv' /\ RowInv'
BY DEF IInv, EventInv, CustomerInv, SessionInv, RowInv, Bought, Started

LEMMA AnswerStep ==
    ASSUME IInv, NEW h \in Handlers, ~At(h, "idle"), Answer(h), UNCHANGED <<row, stripe>>
    PROVE  HandlerInv' /\ acked' \subseteq DOMAIN events /\ handler' \in [Handlers -> Handler]
<1> USE DEF IInv, TypeOK, Answer, stripe
<1>1. Idle \in Handler
    BY DEF Idle, Handler
<1>2. handler' \in [Handlers -> Handler] /\ acked' \subseteq DOMAIN events
    BY <1>1, CurrentIsSound
<1>3. handler'[h] = Idle /\ \A g \in Handlers \ {h} : handler'[g] = handler[g]
    OBVIOUS
<1>4. HandlerInv'
    BY <1>3 DEF HandlerInv, HandlerOK, Current, Idle
<1> QED BY <1>2, <1>4

LEMMA DeliverStep ==
    ASSUME IInv, NEW h \in Handlers, NEW i \in DOMAIN events, Deliver(h, i)
    PROVE  IInv'
<1> USE DEF Deliver, tables, stripe
<1>1. i \in Nat
    BY LenProperties DEF IInv, TypeOK
<1>2. handler' \in [Handlers -> Handler]
    BY <1>1 DEF IInv, TypeOK, Handler, Idle
<1>3. TypeOK'
    BY <1>2 DEF IInv, TypeOK
<1>4. HandlerInv'
    BY DEF IInv, TypeOK, HandlerInv, HandlerOK, Current, Idle
<1> QED BY <1>3, <1>4, TablesStay DEF IInv

LEMMA FindStep ==
    ASSUME IInv, NEW h \in Handlers, FindWorkspace(h)
    PROVE  IInv'
<1> DEFINE e == Current(h)
<1>1. At(h, "find") /\ UNCHANGED <<row, plan, guessed, sub, sessions, events, faults>>
    BY DEF FindWorkspace, tables, stripe
<1>2. /\ e \in Event /\ e.sub \in Subs /\ sub[e.sub] \in Sub
      /\ e.type = "completed" => e.ws = sub[e.sub].ws
    BY <1>1, CurrentIsSound DEF At
<1>3. CASE Answer(h)
    <2>1. HandlerInv' /\ acked' \subseteq DOMAIN events /\ handler' \in [Handlers -> Handler]
        BY <1>1, <1>3, AnswerStep DEF At, stripe
    <2>2. TypeOK'
        BY <1>1, <2>1 DEF IInv, TypeOK
    <2> QED BY <1>1, <2>1, <2>2, TablesStay DEF IInv
<1>4. ASSUME NEW ws \in Workspaces, NEW p \in Plans \cup {"free", Null}, NEW pc \in {"retrieve", "row"},
             handler' = [handler EXCEPT ![h].pc = pc, ![h].ws = ws, ![h].plan = p],
             acked' = acked,
             ws = sub[e.sub].ws,
             pc = "retrieve" => e.type = "completed",
             pc = "row" => p # Null /\ row[ws] # NoRow
      PROVE  IInv'
    <2> DEFINE new == [pc |-> pc, event |-> handler[h].event, ws |-> ws, plan |-> p]
    <2>1. handler[h] \in Handler /\ handler[h].event \in DOMAIN events
        BY <1>1 DEF IInv, TypeOK, HandlerInv, HandlerOK, At
    <2>2. new \in Handler
        BY <2>1 DEF Handler
    <2>3. handler'[h] = new /\ \A g \in Handlers \ {h} : handler'[g] = handler[g]
        BY <1>4, <2>1 DEF IInv, TypeOK, Handler
    <2>4. handler' \in [Handlers -> Handler]
        BY <1>4, <2>1, <2>2, <2>3 DEF IInv, TypeOK
    <2>5. TypeOK'
        BY <1>1, <1>4, <2>4 DEF IInv, TypeOK
    <2>6. HandlerInv'
        <3>1. \A g \in Handlers \ {h} : HandlerOK(g)'
            BY <1>1, <2>3 DEF IInv, HandlerInv, HandlerOK, Current
        <3>2. /\ handler'[h].pc = pc /\ handler'[h].ws = ws /\ handler'[h].plan = p
              /\ handler'[h].event = handler[h].event
            BY <2>3
        <3>3. Current(h)' = e
            BY <1>1, <3>2 DEF Current
        <3>4. HandlerOK(h)'
            <4> HIDE DEF new, e
            <4> QED BY <1>1, <1>4, <2>1, <3>2, <3>3 DEF HandlerOK
        <3> QED BY <3>1, <3>4 DEF HandlerInv
    <2> QED BY <1>1, <2>5, <2>6, TablesStay DEF IInv
<1>5. CASE /\ e.type = "completed"
           /\ handler' = [handler EXCEPT ![h].pc = "retrieve", ![h].ws = e.ws]
           /\ UNCHANGED acked
    <2>1. e.ws \in Workspaces
        BY <1>2, <1>5 DEF Sub
    <2>2. handler' = [handler EXCEPT ![h].pc = "retrieve", ![h].ws = e.ws,
                                     ![h].plan = handler[h].plan]
        BY <1>5 DEF IInv, TypeOK, Handler
    <2>3. handler[h].plan \in Plans \cup {"free", Null}
        BY DEF IInv, TypeOK, Handler
    <2> QED BY <1>2, <1>4, <1>5, <2>1, <2>2, <2>3
<1>6. ASSUME NEW ws \in Owners(e), e.type # "completed", acked' = acked,
             handler' = [handler EXCEPT ![h].pc = "row", ![h].ws = ws,
                             ![h].plan = IF e.type = "deleted" THEN "free" ELSE e.plan]
      PROVE  IInv'
    <2> DEFINE p == IF e.type = "deleted" THEN "free" ELSE e.plan
    <2>1. ws \in Workspaces /\ ws = sub[e.sub].ws /\ row[ws] # NoRow
        BY <1>1, OwnersBought DEF At
    <2>2. p \in Plans \cup {"free", Null} /\ p # Null
        BY <1>2, NullAssumption DEF Event
    <2> QED BY <1>4, <1>6, <2>1, <2>2
<1> QED BY <1>3, <1>5, <1>6 DEF FindWorkspace

LEMMA RetrieveStep ==
    ASSUME IInv, NEW h \in Handlers, RetrievePlan(h)
    PROVE  IInv'
<1> USE DEF RetrievePlan, stripe
<1>1. At(h, "retrieve") /\ sub[Current(h).sub] \in Sub /\ Current(h).type = "completed"
    BY CurrentIsSound DEF At, IInv, HandlerInv, HandlerOK
<1>2. PICK p \in Plans : handler' = [handler EXCEPT ![h].pc = "row", ![h].plan = p]
    BY <1>1, BoundAssumption DEF Sub
<1>3. p # Null
    BY NullAssumption
<1>4. handler' \in [Handlers -> Handler]
    BY <1>2 DEF IInv, TypeOK, Handler
<1>5. faults' \in 0..MaxFaults
    BY BoundAssumption DEF IInv, TypeOK
<1>6. guessed' \subseteq Workspaces
    BY <1>1, CurrentIsSound DEF IInv, TypeOK, HandlerInv, HandlerOK, At, Sub
<1>7. TypeOK'
    BY <1>4, <1>5, <1>6 DEF IInv, TypeOK
<1>8. HandlerInv'
    BY <1>1, <1>2, <1>3 DEF IInv, TypeOK, HandlerInv, HandlerOK, Current, At
<1> QED BY <1>7, <1>8, TablesStay DEF IInv

LEMMA WriteStep ==
    ASSUME IInv, NEW h \in Handlers, WriteRow(h)
    PROVE  IInv' /\ \A ws \in Workspaces \ {sub[Current(h).sub].ws} : row'[ws] = row[ws]
<1> DEFINE e == Current(h)
           ws == handler[h].ws
           new == IF e.type = "deleted"
                  THEN [row[ws] EXCEPT !.sub = Null, !.plan = "free", !.status = "canceled"]
                  ELSE [customer |-> e.customer, sub |-> e.sub, plan |-> handler[h].plan,
                        status |-> IF e.type = "completed" THEN "active" ELSE e.status]
<1>1. At(h, "row") /\ UNCHANGED <<plan, sub, sessions, events, acked, faults>>
    BY DEF WriteRow, stripe
<1>2. /\ e \in Event /\ e.sub \in Subs /\ sub[e.sub] \in Sub
      /\ sub[e.sub].customer = e.customer
    BY <1>1, CurrentIsSound DEF At
<1>3. /\ ws = sub[e.sub].ws /\ ws \in Workspaces
      /\ handler[h].plan \in Plans \cup {"free"}
      /\ e.type = "deleted" => row[ws] \in Row
    BY <1>1, <1>2 DEF IInv, TypeOK, HandlerInv, HandlerOK, Handler, At, Sub
<1>4. /\ new \in Row
      /\ new.sub # Null => new.sub = e.sub
      /\ e.type # "deleted" => new.customer = e.customer
      /\ e.type = "deleted" => new.customer = row[ws].customer
    <2>1. CASE e.type = "deleted"
        BY <1>3, <2>1 DEF Row, Status
    <2>2. CASE e.type # "deleted"
        BY <1>2, <1>3, <2>2 DEF Row, Status, Event
    <2> QED BY <2>1, <2>2
<1>5. row' = [row EXCEPT ![ws] = new] /\ row'[ws] = new
      /\ \A w \in Workspaces \ {ws} : row'[w] = row[w]
    <2>1. row' = [row EXCEPT ![ws] = new]
        BY DEF WriteRow
    <2> HIDE DEF new
    <2> QED BY <1>3, <2>1 DEF IInv, TypeOK
<1>6. handler' = [handler EXCEPT ![h].pc = "mirror"]
    BY DEF WriteRow
<1>7. TypeOK'
    <2>1. row' \in [Workspaces -> Row \cup {NoRow}]
        <3> HIDE DEF new
        <3> QED BY <1>3, <1>4, <1>5 DEF IInv, TypeOK
    <2>2. handler' \in [Handlers -> Handler]
        BY <1>6 DEF IInv, TypeOK, Handler
    <2>3. guessed' \subseteq Workspaces
        BY DEF WriteRow, IInv, TypeOK
    <2> QED BY <1>1, <2>1, <2>2, <2>3 DEF IInv, TypeOK
<1>8. RowInv'
    <2>1. Bought(new.customer, ws)
        <3>1. CASE e.type # "deleted"
            <4>1. Started(e.sub)
                BY <1>2, SubIsNoNull DEF Started
            <4> HIDE DEF new
            <4> QED BY <1>2, <1>3, <1>4, <3>1, <4>1 DEF Bought
        <3>2. CASE e.type = "deleted"
            <4>1. row[ws] # NoRow
                BY <1>3, <3>2, NullAssumption
            <4> HIDE DEF new
            <4> QED BY <1>3, <1>4, <3>2, <4>1 DEF IInv, RowInv
        <3> QED BY <3>1, <3>2
    <2>2. new.sub # Null => Started(new.sub) /\ sub[new.sub].ws = ws
        <3> HIDE DEF new
        <3> QED BY <1>2, <1>3, <1>4, SubIsNoNull DEF Started
    <2> HIDE DEF new
    <2> QED BY <1>1, <1>5, <2>1, <2>2 DEF IInv, RowInv, Bought, Started
<1>9. HandlerInv'
    <2>1. \A w \in Workspaces : row[w] # NoRow => row'[w] # NoRow
        <3> HIDE DEF new
        <3> QED BY <1>4, <1>5, NullAssumption
    <2>2. row'[ws] # NoRow
        <3> HIDE DEF new
        <3> QED BY <1>4, <1>5, NullAssumption
    <2>3. \A g \in Handlers \ {h} : HandlerOK(g)'
        <3>1. \A g \in Handlers \ {h} : handler'[g] = handler[g]
            BY <1>6 DEF IInv, TypeOK
        <3>2. \A g \in Handlers : handler[g].pc # "idle" /\ handler[g].pc # "find"
                  => handler[g].ws \in Workspaces
            BY CurrentIsSound DEF IInv, TypeOK, HandlerInv, HandlerOK, At, Sub
        <3> QED BY <1>1, <2>1, <3>1, <3>2 DEF IInv, HandlerInv, HandlerOK, Current
    <2>4. HandlerOK(h)'
        <3>1. /\ handler'[h].pc = "mirror" /\ handler'[h].ws = ws
              /\ handler'[h].event = handler[h].event
              /\ handler'[h].plan = handler[h].plan
            BY <1>6 DEF IInv, TypeOK, Handler
        <3>2. Current(h)' = e
            BY <1>1, <3>1 DEF Current
        <3> HIDE DEF e, new
        <3> QED BY <1>1, <1>3, <2>2, <3>1, <3>2, NullAssumption
                DEF IInv, HandlerInv, HandlerOK, At
    <2> QED BY <2>3, <2>4 DEF HandlerInv
<1>10. EventInv' /\ CustomerInv' /\ SessionInv'
    BY <1>1 DEF IInv, EventInv, CustomerInv, SessionInv, Bought, Started
<1> QED BY <1>3, <1>5, <1>7, <1>8, <1>9, <1>10 DEF IInv

LEMMA MirrorStep ==
    ASSUME IInv, NEW h \in Handlers, MirrorPlan(h)
    PROVE  IInv' /\ \A ws \in Workspaces \ {sub[Current(h).sub].ws} : plan'[ws] = plan[ws]
<1> USE DEF MirrorPlan, stripe
<1>1. At(h, "mirror") /\ handler[h].ws = sub[Current(h).sub].ws
      /\ handler[h].plan \in Plans \cup {"free"}
    BY DEF IInv, TypeOK, HandlerInv, HandlerOK, At, Handler
<1>2. HandlerInv' /\ acked' \subseteq DOMAIN events /\ handler' \in [Handlers -> Handler]
    BY AnswerStep DEF At
<1>3. plan' \in [Workspaces -> Plans \cup {"free"}]
    BY <1>1 DEF IInv, TypeOK
<1>4. TypeOK'
    BY <1>2, <1>3 DEF IInv, TypeOK
<1> QED BY <1>1, <1>2, <1>4, TablesStay DEF IInv, TypeOK

LEMMA FailStep ==
    ASSUME IInv, NEW h \in Handlers, Fail(h)
    PROVE  IInv'
<1> USE DEF Fail, tables, stripe
<1>1. Idle \in Handler
    BY DEF Idle, Handler
<1>2. TypeOK'
    BY <1>1, BoundAssumption DEF IInv, TypeOK
<1>3. HandlerInv'
    BY DEF IInv, TypeOK, HandlerInv, HandlerOK, Current, Idle
<1> QED BY <1>2, <1>3, TablesStay DEF IInv

-----------------------------------------------------------------------------
LEMMA InitIInv == Init => IInv
BY BoundAssumption
   DEF Init, IInv, TypeOK, EventInv, CustomerInv, SessionInv, RowInv, HandlerInv, HandlerOK,
       Started, Idle, Handler

LEMMA NextIInv ==
    ASSUME IInv, [Next]_vars
    PROVE  IInv'
<1>1. CASE UNCHANGED vars
    BY <1>1 DEF vars, IInv, TypeOK, EventInv, Sound, CustomerInv, SessionInv, RowInv,
                HandlerInv, HandlerOK, Bought, Started, Current
<1>2. ASSUME NEW s \in Subs, Cancel(s) PROVE IInv'
    <2> DEFINE state == [sub[s] EXCEPT !.status = "canceled"]
    <2>1. state \in Sub /\ state.ws = sub[s].ws /\ state.customer = sub[s].customer
        BY <1>2 DEF Cancel, IInv, TypeOK, Started, Sub, Status
    <2> QED BY <1>2, <2>1, ChangeStep DEF Cancel
<1>3. ASSUME NEW s \in Subs, NEW p \in Plans, NEW status \in Status, Change(s, p, status)
      PROVE  IInv'
    <2> DEFINE state == [sub[s] EXCEPT !.plan = p, !.status = status]
    <2>1. state \in Sub /\ state.ws = sub[s].ws /\ state.customer = sub[s].customer
        BY <1>3 DEF Change, IInv, TypeOK, Started, Sub
    <2> QED BY <1>3, <2>1, ChangeStep DEF Change
<1> QED BY <1>1, <1>2, <1>3, CheckoutStep, PayStep, DeliverStep, FindStep, RetrieveStep,
           WriteStep, MirrorStep, FailStep DEF Next, Handle

\* Every reachable state of the tables, of Stripe and of the handlers has the
\* declared types.
THEOREM TypeCorrect == Spec => []TypeOK
<1>1. IInv => TypeOK
    BY DEF IInv
<1> QED BY <1>1, InitIInv, NextIInv, PTL DEF Spec

\* handleStripeEvent writes to the workspace whose checkout bought the
\* subscription, in whatever order and however often events are delivered.
THEOREM WritesToTheBuyer == Spec => OnlyTheBuyer
<1> DEFINE Buyer(h) == sub[Current(h).sub].ws
           Act == \A h \in Handlers :
                    handler[h].pc \in {"row", "mirror"} /\ handler'[h] # handler[h] =>
                        \A ws \in Workspaces \ {Buyer(h)} :
                            row'[ws] = row[ws] /\ plan'[ws] = plan[ws]
<1>1. IInv /\ [Next]_vars => [Act]_vars
    <2> SUFFICES ASSUME IInv, [Next]_vars PROVE Act
        OBVIOUS
    <2>1. ASSUME NEW h \in Handlers, WriteRow(h) PROVE Act
        <3>1. \A g \in Handlers \ {h} : handler'[g] = handler[g]
            BY <2>1 DEF WriteRow, IInv, TypeOK
        <3> QED BY <2>1, <3>1, WriteStep DEF WriteRow
    <2>2. ASSUME NEW h \in Handlers, MirrorPlan(h) PROVE Act
        <3>1. \A g \in Handlers \ {h} : handler'[g] = handler[g]
            BY <2>2 DEF MirrorPlan, Answer, IInv, TypeOK
        <3> QED BY <2>2, <3>1, MirrorStep DEF MirrorPlan
    <2>3. CASE UNCHANGED <<row, plan>>
        BY <2>3
    <2> QED BY <2>1, <2>2, <2>3
            DEF Next, Handle, vars, OpenCheckout, Pay, Change, Cancel, Deliver, FindWorkspace,
                RetrievePlan, Fail, Answer, tables, stripe
<1>2. IInv /\ [Next]_vars => IInv'
    BY NextIInv
<1> QED BY <1>1, <1>2, InitIInv, PTL DEF Spec, OnlyTheBuyer

-----------------------------------------------------------------------------
(* One event after the other: what Stripe has sent of a workspace *)

\* The workspace that bought the subscription event i is about.
Buyer(i) == sub[events[i].sub].ws

\* Event i is the last of workspace ws.
IsLast(i, ws) ==
    /\ i \in DOMAIN events
    /\ Buyer(i) = ws
    /\ \A j \in DOMAIN events : Buyer(j) = ws => j <= i

Canceled(s) == Started(s) /\ sub[s].status = "canceled"

\* A deletion is the last event of its subscription, and there is one for each
\* that was canceled; every subscription was reported by a completed checkout.
ShapeInv ==
    \A i \in DOMAIN events :
        /\ events[i].type = "completed" => events[i].status = "active"
        /\ events[i].type = "deleted" <=> events[i].status = "canceled"
        /\ \E j \in DOMAIN events :
              events[j].type = "completed" /\ events[j].sub = events[i].sub
        /\ events[i].type = "deleted" =>
              /\ Canceled(events[i].sub)
              /\ \A j \in DOMAIN events : events[j].sub = events[i].sub => j <= i

Deleted(s) == \E i \in DOMAIN events : events[i].type = "deleted" /\ events[i].sub = s

CanceledInv == \A s \in Subs : Canceled(s) => Deleted(s)

\* A workspace subscribes again only after the deletion of what it had.
OrderInv ==
    \A j, k \in DOMAIN events :
        j < k /\ Buyer(j) = Buyer(k) /\ events[j].sub # events[k].sub =>
            \E i \in DOMAIN events :
                i < k /\ events[i].type = "deleted" /\ events[i].sub = events[j].sub

\* The last event of a workspace tells what Stripe has.
LastInv ==
    /\ \A s \in Subs : Started(s) => \E i \in DOMAIN events : IsLast(i, sub[s].ws)
    /\ \A ws \in Workspaces, i \in DOMAIN events :
          IsLast(i, ws) =>
              /\ sub[events[i].sub].plan = events[i].plan
              /\ sub[events[i].sub].status = events[i].status
              /\ \A t \in SubsOf(ws) \ {events[i].sub} : Canceled(t)

\* A workspace at the checkout has nothing, and is there once.
CheckoutInv ==
    \A x \in sessions :
        /\ Live(x.ws) = {}
        /\ \A y \in sessions : y.ws = x.ws => y = x

StripeInv ==
    ShapeInv /\ CanceledInv /\ OrderInv /\ LastInv /\ CheckoutInv

\* One handler at a time, at the first event that was not answered.
SerialInv ==
    /\ \A i \in acked : \A j \in DOMAIN events : j < i => j \in acked
    /\ \A h \in Handlers : ~At(h, "idle") =>
          /\ handler[h].event \notin acked
          /\ \A j \in DOMAIN events : j < handler[h].event => j \in acked
          /\ \A g \in Handlers \ {h} : At(g, "idle")

\* The checkout of s was handled, and its deletion was not.
Joined(s) ==
    /\ \E i \in acked : events[i].type = "completed" /\ events[i].sub = s
    /\ ~\E i \in acked : events[i].type = "deleted" /\ events[i].sub = s

\* Until then events about s find its workspace by the customer.
FoundInv ==
    /\ \A s \in Subs : Started(s) /\ Joined(s) =>
          row[sub[s].ws] # NoRow /\ row[sub[s].ws].customer = sub[s].customer
    /\ \A ws \in Workspaces :
          /\ row[ws] # NoRow /\ row[ws].sub # Null =>
                row[ws].customer = sub[row[ws].sub].customer
          /\ row[ws] = NoRow => plan[ws] = "free"

\* What the handler at event e is about to write, and what it has written.
WritingOK(x, e) ==
    /\ e.type = "deleted" => x.plan = "free"
    /\ e.type = "updated" =>
          x.plan = e.plan /\ row[x.ws] # NoRow /\ row[x.ws].customer = e.customer
    /\ e.type = "completed" /\ IsLast(x.event, x.ws) /\ x.ws \notin guessed =>
          x.plan = e.plan
    /\ x.pc = "mirror" =>
          /\ row[x.ws] # NoRow
          /\ row[x.ws].status = e.status
          /\ e.type # "deleted" =>
                row[x.ws].plan = x.plan /\ row[x.ws].customer = e.customer

WritingInv ==
    \A h \in Handlers :
        handler[h].pc \in {"row", "mirror"} => WritingOK(handler[h], Current(h))

\* An answered event that is the last of its workspace is in row and plan.
Mirrored(ws, e) ==
    /\ row[ws] # NoRow
    /\ row[ws].status = e.status
    /\ e.status \in Paying => row[ws].plan = e.plan
    /\ plan[ws] = IF e.status \in Paying THEN e.plan ELSE "free"

MirroredInv ==
    \A ws \in Workspaces \ guessed, i \in acked :
        IsLast(i, ws) => Mirrored(ws, events[i])

MirrorInv == SerialInv /\ FoundInv /\ WritingInv /\ MirroredInv

LEMMA EventIndex ==
    ASSUME IInv, NEW i \in DOMAIN events
    PROVE  /\ i \in Nat /\ events[i] \in Event /\ events[i].sub \in Subs
           /\ sub[events[i].sub] \in Sub /\ Started(events[i].sub)
           /\ sub[events[i].sub].customer = events[i].customer
           /\ Buyer(i) \in Workspaces
<1>1. i \in Nat /\ events[i] \in Event
    BY ElementOfSeq, LenProperties DEF IInv, TypeOK
<1>2. events[i].sub \in Subs /\ Sound(events[i], sub)
    BY <1>1 DEF IInv, EventInv, Event
<1>3. sub[events[i].sub] \in Sub
    BY <1>2 DEF IInv, TypeOK, Sound
<1> QED BY <1>1, <1>2, <1>3 DEF Sound, Started, Buyer, Sub

LEMMA OldEvents ==
    ASSUME IInv, StripeGrows, NEW i \in DOMAIN events
    PROVE  /\ i \in DOMAIN events' /\ events'[i] = events[i]
           /\ Buyer(i)' = Buyer(i)
           /\ \A j \in DOMAIN events' \ DOMAIN events : i < j
<1>1. i \in DOMAIN events' /\ events'[i] = events[i]
    BY DEF StripeGrows
<1>2. Buyer(i)' = Buyer(i)
    BY <1>1, EventIndex DEF StripeGrows, Buyer
<1>3. /\ DOMAIN events = 1..Len(events) /\ DOMAIN events' = 1..Len(events')
      /\ Len(events) \in Nat /\ Len(events') \in Nat
    BY LenProperties DEF IInv, TypeOK, StripeGrows
<1> QED BY <1>1, <1>2, <1>3

\* Being last is lost to a later event and never regained.
LEMMA LastStays ==
    ASSUME IInv, StripeGrows, NEW i \in DOMAIN events, NEW ws, IsLast(i, ws)'
    PROVE  IsLast(i, ws)
<1>1. Buyer(i) = ws
    BY OldEvents DEF IsLast
<1>2. ASSUME NEW j \in DOMAIN events, Buyer(j) = ws PROVE j <= i
    <2>1. j \in DOMAIN events' /\ Buyer(j)' = ws
        BY <1>2, OldEvents
    <2> QED BY <2>1 DEF IsLast
<1> QED BY <1>1, <1>2 DEF IsLast

\* Stripe reports on one subscription s, of which nobody else's workspace hears
\* and beside which its workspace has nothing; the event k is the latest.
LEMMA Reported ==
    ASSUME IInv, StripeInv, StripeGrows, NEW s \in Subs,
           NEW k \in DOMAIN events' \ DOMAIN events,
           \A j \in DOMAIN events' : j <= k,
           \A i \in DOMAIN events' \ DOMAIN events :
               /\ events'[i].sub = s
               /\ events'[i].type = "completed" => events'[i].status = "active"
               /\ events'[i].type = "deleted" <=> events'[i].status = "canceled"
               /\ events'[i].type = "deleted" => i = k,
           sub'[s] \in Sub, events'[k].plan = sub'[s].plan, events'[k].status = sub'[s].status,
           \A t \in Subs \ {s} :
               /\ sub'[t] = sub[t]
               /\ Started(t) /\ sub[t].ws = sub'[s].ws => Canceled(t),
           ~Canceled(s),
           Started(s) \/ \E j \in DOMAIN events' \ DOMAIN events : events'[j].type = "completed",
           \A x \in sessions' : x \in sessions /\ x.ws # sub'[s].ws
    PROVE  StripeInv'
<1> DEFINE Fresh == DOMAIN events' \ DOMAIN events
<1>0. PICK w \in Workspaces : w = sub'[s].ws
    BY DEF Sub
<1>1. Started(s)' /\ sub'[s] # Null /\ s \in Subs
    BY SubIsNoNull DEF Started
<1>2. \A t \in Subs : Canceled(t) => t # s /\ Canceled(t)'
    BY <1>1 DEF Canceled, Started
<1>3. \A i \in Fresh : Buyer(i)' = w /\ events'[i].sub = s
    BY <1>0 DEF Buyer
<1>4. \A i \in DOMAIN events : events[i].sub \in Subs /\ Started(events[i].sub)
    BY EventIndex
<1>5. \A i \in DOMAIN events :
         /\ i \in DOMAIN events' /\ events'[i] = events[i] /\ Buyer(i)' = Buyer(i)
         /\ \A j \in Fresh : i < j
    BY OldEvents
<1>6. \A i \in DOMAIN events' : i \in DOMAIN events \/ i \in Fresh
    OBVIOUS
<1>7. \A i \in DOMAIN events : events[i].sub = s => events[i].type # "deleted"
    BY DEF StripeInv, ShapeInv
<1>8. \A i \in DOMAIN events' : i \in Nat
    BY LenProperties DEF StripeGrows
<1>9. ShapeInv'
    <2> SUFFICES ASSUME NEW i \in DOMAIN events'
                 PROVE  /\ events'[i].type = "completed" => events'[i].status = "active"
                        /\ events'[i].type = "deleted" <=> events'[i].status = "canceled"
                        /\ \E j \in DOMAIN events' :
                              events'[j].type = "completed" /\ events'[j].sub = events'[i].sub
                        /\ events'[i].type = "deleted" =>
                              /\ sub'[events'[i].sub] # Null
                              /\ sub'[events'[i].sub].status = "canceled"
                              /\ \A j \in DOMAIN events' :
                                    events'[j].sub = events'[i].sub => j <= i
        BY DEF ShapeInv, Canceled, Started
    <2>1. CASE i \in DOMAIN events
        <3>1. /\ events[i].type = "completed" => events[i].status = "active"
              /\ events[i].type = "deleted" <=> events[i].status = "canceled"
              /\ events[i].type = "deleted" =>
                    /\ Canceled(events[i].sub)
                    /\ \A j \in DOMAIN events : events[j].sub = events[i].sub => j <= i
            BY <2>1 DEF StripeInv, ShapeInv
        <3>2. PICK j \in DOMAIN events :
                events[j].type = "completed" /\ events[j].sub = events[i].sub
            BY <2>1 DEF StripeInv, ShapeInv
        <3>3. events'[i] = events[i] /\ events'[j] = events[j] /\ j \in DOMAIN events'
            BY <1>5, <2>1
        <3>4. events[i].type = "deleted" =>
                 /\ sub'[events[i].sub] # Null
                 /\ sub'[events[i].sub].status = "canceled"
                 /\ \A n \in DOMAIN events' : events'[n].sub = events[i].sub => n <= i
            <4> SUFFICES ASSUME events[i].type = "deleted"
                         PROVE  /\ sub'[events[i].sub] # Null
                                /\ sub'[events[i].sub].status = "canceled"
                                /\ \A n \in DOMAIN events' :
                                      events'[n].sub = events[i].sub => n <= i
                OBVIOUS
            <4>1. PICK t \in Subs : t = events[i].sub
                BY <1>4, <2>1
            <4>2. t # s /\ Canceled(t)' /\ \A n \in DOMAIN events : events[n].sub = t => n <= i
                BY <1>2, <3>1, <4>1
            <4>3. \A n \in DOMAIN events' : events'[n].sub = t => n <= i
                BY <1>3, <1>5, <1>6, <4>2
            <4> QED BY <4>1, <4>2, <4>3 DEF Canceled, Started
        <3> QED BY <3>1, <3>2, <3>3, <3>4
    <2>2. CASE i \in Fresh
        <3>1. \E j \in DOMAIN events' : events'[j].type = "completed" /\ events'[j].sub = s
            <4>1. CASE Started(s)
                <5>1. PICK n \in DOMAIN events : IsLast(n, sub[s].ws)
                    BY <4>1 DEF StripeInv, LastInv
                <5>2. sub[s] \in Sub /\ sub[s].ws = sub'[s].ws
                    BY <4>1 DEF IInv, TypeOK, Started, StripeGrows
                <5>3. events[n].sub = s
                    <6>1. s \in SubsOf(sub[s].ws) /\ sub[s].ws \in Workspaces
                        BY <4>1, <5>2 DEF SubsOf, Sub
                    <6> QED BY <5>1, <6>1 DEF StripeInv, LastInv
                <5>4. PICK j \in DOMAIN events :
                        events[j].type = "completed" /\ events[j].sub = events[n].sub
                    BY DEF StripeInv, ShapeInv
                <5> QED BY <1>5, <5>3, <5>4
            <4>2. CASE \E j \in Fresh : events'[j].type = "completed"
                BY <1>3, <4>2
            <4> QED BY <4>1, <4>2
        <3>2. /\ events'[i].type = "completed" => events'[i].status = "active"
              /\ events'[i].type = "deleted" <=> events'[i].status = "canceled"
              /\ events'[i].sub = s
            BY <2>2
        <3>3. events'[i].type = "deleted" => Canceled(s)' /\ \A j \in DOMAIN events' : j <= i
            BY <1>1, <2>2, <3>2 DEF Canceled
        <3> QED BY <1>1, <3>1, <3>2, <3>3 DEF Canceled
    <2> QED BY <1>6, <2>1, <2>2
<1>10. CanceledInv'
    <2> SUFFICES ASSUME NEW t \in Subs, Canceled(t)'
                 PROVE  \E i \in DOMAIN events' : events'[i].type = "deleted" /\ events'[i].sub = t
        BY DEF CanceledInv, Deleted
    <2>1. CASE t = s
        BY <2>1 DEF Canceled
    <2>2. CASE t # s
        <3>1. Canceled(t)
            BY <2>2 DEF Canceled, Started
        <3>2. PICK i \in DOMAIN events : events[i].type = "deleted" /\ events[i].sub = t
            BY <3>1 DEF StripeInv, CanceledInv, Deleted
        <3> QED BY <1>5, <3>2
    <2> QED BY <2>1, <2>2
<1>11. OrderInv'
    <2> SUFFICES ASSUME NEW j \in DOMAIN events', NEW n \in DOMAIN events', j < n,
                        Buyer(j)' = Buyer(n)', events'[j].sub # events'[n].sub
                 PROVE  \E i \in DOMAIN events' :
                           i < n /\ events'[i].type = "deleted" /\ events'[i].sub = events'[j].sub
        BY DEF OrderInv
    <2>1. CASE n \in DOMAIN events
        <3>1. j \in DOMAIN events
            BY <1>5, <1>6, <1>8, <2>1
        <3>2. Buyer(j) = Buyer(n) /\ events[j].sub # events[n].sub
            BY <1>5, <2>1, <3>1
        <3>3. PICK i \in DOMAIN events :
                i < n /\ events[i].type = "deleted" /\ events[i].sub = events[j].sub
            BY <2>1, <3>1, <3>2 DEF StripeInv, OrderInv
        <3> QED BY <1>5, <3>1, <3>3
    <2>2. CASE n \in Fresh
        <3>1. Buyer(n)' = w /\ events'[n].sub = s
            BY <1>3, <2>2
        <3>2. j \in DOMAIN events
            BY <1>3, <1>6, <3>1
        <3>3. PICK t \in Subs : t = events[j].sub
            BY <1>4, <3>2
        <3>4. t # s /\ Started(t) /\ sub[t].ws = w
            <4>1. Buyer(j) = w /\ events'[j] = events[j]
                BY <1>5, <3>1, <3>2
            <4> QED BY <1>4, <3>1, <3>2, <3>3, <4>1 DEF Buyer
        <3>5. Canceled(t)
            BY <1>0, <3>4
        <3>6. PICK i \in DOMAIN events : events[i].type = "deleted" /\ events[i].sub = t
            BY <3>5 DEF StripeInv, CanceledInv, Deleted
        <3> QED BY <1>5, <2>2, <3>2, <3>3, <3>6
    <2> QED BY <1>6, <2>1, <2>2
<1>12. LastInv'
    <2>1. IsLast(k, w)'
        BY <1>3 DEF IsLast
    <2>2. ASSUME NEW t \in Subs, Started(t)'
          PROVE  \E v : v = sub'[t].ws /\ \E i \in DOMAIN events' : IsLast(i, v)'
        <3>1. CASE sub'[t].ws = w
            BY <2>1, <3>1
        <3>2. CASE sub'[t].ws # w
            <4>1. t # s /\ Started(t) /\ sub'[t] = sub[t]
                BY <1>0, <2>2, <3>2 DEF Started
            <4>2. PICK v : v = sub[t].ws
                OBVIOUS
            <4>3. PICK i \in DOMAIN events : IsLast(i, v)
                BY <4>1, <4>2 DEF StripeInv, LastInv
            <4>4. ASSUME NEW j \in DOMAIN events', Buyer(j)' = v PROVE j <= i
                <5>1. j \in DOMAIN events
                    BY <1>3, <1>6, <3>2, <4>1, <4>2, <4>4
                <5> QED BY <1>5, <4>3, <4>4, <5>1 DEF IsLast
            <4>5. i \in DOMAIN events' /\ Buyer(i)' = v
                BY <1>5, <4>3 DEF IsLast
            <4>6. IsLast(i, v)'
                BY <4>4, <4>5 DEF IsLast
            <4> QED BY <4>1, <4>2, <4>5, <4>6
        <3> QED BY <3>1, <3>2
    <2>3. ASSUME NEW ws \in Workspaces, NEW i \in DOMAIN events', IsLast(i, ws)'
          PROVE  /\ sub'[events'[i].sub].plan = events'[i].plan
                 /\ sub'[events'[i].sub].status = events'[i].status
                 /\ \A t \in SubsOf(ws)' \ {events'[i].sub} : Canceled(t)'
        <3>1. CASE i \in Fresh
            <4>1. ws = w
                BY <1>3, <2>3, <3>1 DEF IsLast
            <4>2. i = k
                BY <1>8, <2>1, <2>3, <4>1 DEF IsLast
            <4>3. events'[i].sub = s
                BY <3>1
            <4>4. ASSUME NEW t \in SubsOf(ws)', t # s PROVE Canceled(t)'
                <5>1. t \in Subs /\ sub'[t] = sub[t] /\ Started(t) /\ sub[t].ws = w
                    BY <4>1, <4>4 DEF SubsOf, Started
                <5> QED BY <1>0, <1>2, <4>4, <5>1
            <4> QED BY <4>2, <4>3, <4>4
        <3>2. CASE i \in DOMAIN events
            <4>1. IsLast(i, ws)
                BY <2>3, <3>2, LastStays
            <4>2. ws # w
                <5>1. ~(k <= i)
                    BY <1>5, <1>8, <3>2
                <5> QED BY <1>3, <2>3, <5>1 DEF IsLast
            <4>3. PICK t \in Subs : t = events[i].sub
                BY <1>4, <3>2
            <4>4. /\ sub[t].plan = events[i].plan /\ sub[t].status = events[i].status
                  /\ \A u \in SubsOf(ws) \ {t} : Canceled(u)
                BY <3>2, <4>1, <4>3 DEF StripeInv, LastInv
            <4>5. t # s
                BY <1>0, <1>5, <2>3, <3>2, <4>2, <4>3 DEF IsLast, Buyer
            <4>6. events'[i] = events[i] /\ sub'[t] = sub[t]
                BY <1>5, <3>2, <4>5
            <4>7. SubsOf(ws)' \subseteq SubsOf(ws) /\ \A u \in SubsOf(ws) : u \in Subs
                BY <1>0, <4>2 DEF SubsOf, Started
            <4>8. \A u \in SubsOf(ws)' \ {t} : Canceled(u)'
                BY <1>2, <4>4, <4>7
            <4> QED BY <4>3, <4>4, <4>6, <4>8
        <3> QED BY <1>6, <3>1, <3>2
    <2>4. ASSUME NEW t \in Subs, Started(t)'
          PROVE  \E i \in DOMAIN events' : /\ sub'[events'[i].sub].ws = sub'[t].ws
                                           /\ \A j \in DOMAIN events' :
                                                 sub'[events'[j].sub].ws = sub'[t].ws => j <= i
        BY <2>2, <2>4 DEF IsLast, Buyer
    <2> QED BY <2>3, <2>4 DEF LastInv, IsLast, Buyer
<1>13. CheckoutInv'
    <2>1. ASSUME NEW x \in sessions' PROVE Live(x.ws)' = {}
        <3>1. x \in sessions /\ x.ws # w
            BY <1>0, <2>1
        <3>2. Live(x.ws) = {}
            BY <3>1 DEF StripeInv, CheckoutInv
        <3>3. Live(x.ws)' \subseteq Live(x.ws)
            BY <1>0, <3>1 DEF Live, SubsOf, Started
        <3> QED BY <3>2, <3>3
    <2>2. ASSUME NEW x \in sessions', NEW y \in sessions', y.ws = x.ws PROVE y = x
        BY <2>2 DEF StripeInv, CheckoutInv
    <2> QED BY <2>1, <2>2 DEF CheckoutInv
<1> QED BY <1>9, <1>10, <1>11, <1>12, <1>13 DEF StripeInv

LEMMA Appended ==
    ASSUME IInv, NEW more \in Seq(Event), events' = events \o more
    PROVE  /\ Len(events) \in Nat
           /\ DOMAIN events = 1..Len(events)
           /\ DOMAIN events' = 1..(Len(events) + Len(more))
           /\ \A j \in 1..Len(more) : events'[Len(events) + j] = more[j]
<1>1. events \in Seq(Event)
    BY DEF IInv, TypeOK
<1>2. /\ events' \in Seq(Event)
      /\ Len(events') = Len(events) + Len(more)
      /\ \A i \in 1..Len(events) + Len(more) :
           events'[i] = IF i <= Len(events) THEN events[i] ELSE more[i - Len(events)]
    BY <1>1, ConcatProperties, Zenon
<1>3. /\ DOMAIN events = 1..Len(events) /\ DOMAIN events' = 1..Len(events')
      /\ Len(events) \in Nat /\ Len(more) \in Nat
    BY <1>1, <1>2, LenProperties
<1>4. ASSUME NEW j \in 1..Len(more) PROVE events'[Len(events) + j] = more[j]
    <2> DEFINE i == Len(events) + j
    <2>1. i \in 1..(Len(events) + Len(more)) /\ ~(i <= Len(events)) /\ i - Len(events) = j
        BY <1>3
    <2> HIDE DEF i
    <2>2. events'[i] = more[j]
        BY <1>2, <2>1
    <2> QED BY <2>2 DEF i
<1> QED BY <1>2, <1>3, <1>4

LEMMA PayReports ==
    ASSUME IInv, StripeInv, Exclusive,
           NEW x \in sessions, NEW s \in Subs, NEW c \in Customers, Pay(x, s, c)
    PROVE  StripeInv'
<1> DEFINE state == [ws |-> x.ws, customer |-> c, plan |-> x.plan, status |-> "active"]
           paid == About(s, "updated", state)
           done == [About(s, "completed", state) EXCEPT !.ws = x.ws]
           n == Len(events)
<1>1. state \in Sub
    BY DEF IInv, TypeOK, Session, Sub, Status
<1>2. /\ sub' = [sub EXCEPT ![s] = state] /\ sub[s] = Null
      /\ events' = events \o <<paid, done>>
      /\ sessions' = sessions \ {x}
    BY DEF Pay, Started
<1>3. /\ paid \in Event /\ paid.sub = s /\ paid.type = "updated" /\ paid.status = "active"
      /\ done \in Event /\ done.sub = s /\ done.type = "completed"
      /\ done.plan = state.plan /\ done.status = "active"
      /\ state.ws = x.ws /\ state.status = "active"
    BY <1>1 DEF About, Event, Sub
<1>4. sub'[s] = state /\ \A t \in Subs \ {s} : sub'[t] = sub[t]
    BY <1>1, <1>2 DEF IInv, TypeOK
<1> HIDE DEF state, paid, done
<1>5. /\ n \in Nat /\ DOMAIN events = 1..n /\ DOMAIN events' = 1..(n + 2)
      /\ events'[n + 1] = paid /\ events'[n + 2] = done
    <2> DEFINE more == <<paid, done>>
    <2>1. /\ more \in Seq(Event) /\ Len(more) = 2 /\ more[1] = paid /\ more[2] = done
        BY <1>3
    <2>2. events' = events \o more
        BY <1>2
    <2> HIDE DEF more
    <2>3. /\ n \in Nat /\ DOMAIN events = 1..n /\ DOMAIN events' = 1..(n + Len(more))
          /\ \A j \in 1..Len(more) : events'[n + j] = more[j]
        BY <2>1, <2>2, Appended
    <2> QED BY <2>1, <2>3
<1>6. PICK k : k = n + 2
    OBVIOUS
<1>7. /\ k \in DOMAIN events' \ DOMAIN events /\ events'[k] = done
      /\ \A j \in DOMAIN events' : j <= k
      /\ \A i \in DOMAIN events' \ DOMAIN events : i = n + 1 \/ i = n + 2
    BY <1>5, <1>6
<1>8. \A i \in DOMAIN events' \ DOMAIN events :
         /\ events'[i].sub = s
         /\ events'[i].type = "completed" => events'[i].status = "active"
         /\ events'[i].type = "deleted" <=> events'[i].status = "canceled"
         /\ events'[i].type = "deleted" => i = k
    BY <1>3, <1>5, <1>7
<1>9. \A t \in Subs \ {s} : Started(t) /\ sub[t].ws = sub'[s].ws => Canceled(t)
    BY <1>3, <1>4 DEF StripeInv, CheckoutInv, Live, SubsOf, Canceled
<1>10. ~Canceled(s)
    BY <1>2 DEF Canceled, Started
<1>11. \A y \in sessions' : y \in sessions /\ y.ws # sub'[s].ws
    BY <1>2, <1>3, <1>4 DEF StripeInv, CheckoutInv
<1>12. \E j \in DOMAIN events' \ DOMAIN events : events'[j].type = "completed"
    BY <1>3, <1>7
<1>13. /\ sub'[s] \in Sub /\ events'[k].plan = sub'[s].plan
       /\ events'[k].status = sub'[s].status
    BY <1>1, <1>3, <1>4, <1>7
<1> QED BY <1>4, <1>7, <1>8, <1>9, <1>10, <1>11, <1>12, <1>13, PayGrows, Reported

LEMMA ChangeReports ==
    ASSUME IInv, StripeInv, NEW s \in Subs, NEW state \in Sub, NEW type \in {"updated", "deleted"},
           Started(s), state.ws = sub[s].ws, state.customer = sub[s].customer,
           sub[s].status # "canceled", type = "deleted" <=> state.status = "canceled",
           sub' = [sub EXCEPT ![s] = state],
           events' = Append(events, About(s, type, state)),
           UNCHANGED <<tables, sessions, acked, handler, faults>>
    PROVE  StripeInv'
<1> DEFINE e == About(s, type, state)
           n == Len(events)
<1>1. /\ e \in Event /\ e.sub = s /\ e.type = type /\ e.plan = state.plan
      /\ e.status = state.status
    BY DEF About, Event, Sub
<1>2. sub'[s] = state /\ \A t \in Subs \ {s} : sub'[t] = sub[t]
    BY DEF IInv, TypeOK
<1>3. events' = Append(events, e)
    OBVIOUS
<1> HIDE DEF e
<1>4. PICK k : k = n + 1
    OBVIOUS
<1>5. /\ k \in DOMAIN events' \ DOMAIN events /\ events'[k] = e
      /\ \A j \in DOMAIN events' : j <= k
      /\ \A i \in DOMAIN events' \ DOMAIN events : i = k
    <2> DEFINE more == <<e>>
    <2>1. more \in Seq(Event) /\ Len(more) = 1 /\ more[1] = e
        BY <1>1
    <2>2. events' = events \o more
        BY <1>1, <1>3, AppendIsConcat DEF IInv, TypeOK
    <2> HIDE DEF more
    <2>3. /\ n \in Nat /\ DOMAIN events = 1..n /\ DOMAIN events' = 1..(n + Len(more))
          /\ \A j \in 1..Len(more) : events'[n + j] = more[j]
        BY <2>1, <2>2, Appended
    <2> QED BY <1>4, <2>1, <2>3
<1>6. \A i \in DOMAIN events' \ DOMAIN events :
         /\ events'[i].sub = s
         /\ events'[i].type = "completed" => events'[i].status = "active"
         /\ events'[i].type = "deleted" <=> events'[i].status = "canceled"
         /\ events'[i].type = "deleted" => i = k
    BY <1>1, <1>5
<1>7. \A t \in Subs \ {s} : Started(t) /\ sub[t].ws = sub'[s].ws => Canceled(t)
    <2>1. PICK w \in Workspaces : w = sub[s].ws
        BY <1>2 DEF Sub
    <2>2. PICK i \in DOMAIN events : IsLast(i, w)
        BY <2>1 DEF StripeInv, LastInv
    <2>3. \A t \in SubsOf(w) \ {events[i].sub} : Canceled(t)
        BY <2>2 DEF StripeInv, LastInv
    <2>4. events[i].sub = s
        BY <2>1, <2>3 DEF SubsOf, Canceled
    <2> QED BY <1>2, <2>1, <2>3, <2>4 DEF SubsOf
<1>8. \A y \in sessions' : y \in sessions /\ y.ws # sub'[s].ws
    <2>1. ASSUME NEW y \in sessions, y.ws = sub[s].ws PROVE FALSE
        <3>1. s \in Live(y.ws)
            BY <2>1 DEF Live, SubsOf
        <3> QED BY <3>1 DEF StripeInv, CheckoutInv
    <2> QED BY <1>2, <2>1
<1>9. ~Canceled(s)
    BY DEF Canceled
<1>10. /\ sub'[s] \in Sub /\ events'[k].plan = sub'[s].plan
       /\ events'[k].status = sub'[s].status
    BY <1>1, <1>2, <1>5
<1>11. StripeGrows
    BY ChangeGrows
<1> QED BY <1>2, <1>5, <1>6, <1>7, <1>8, <1>9, <1>10, <1>11, Reported

LEMMA CheckoutReports ==
    ASSUME IInv, StripeInv, Exclusive, NEW ws \in Workspaces, NEW p \in Plans,
           OpenCheckout(ws, p)
    PROVE  StripeInv'
<1>1. /\ UNCHANGED <<sub, events>> /\ Live(ws) = {} /\ \A x \in sessions : x.ws # ws
      /\ \A x \in sessions' \ sessions : x.ws = ws
      /\ \A x, y \in sessions' \ sessions : x = y
    BY DEF OpenCheckout
<1>2. /\ \A s : Started(s)' = Started(s) /\ Canceled(s)' = Canceled(s) /\ Deleted(s)' = Deleted(s)
      /\ \A v : Live(v)' = Live(v) /\ SubsOf(v)' = SubsOf(v)
      /\ \A i : Buyer(i)' = Buyer(i)
      /\ \A i, v : IsLast(i, v)' = IsLast(i, v)
    BY <1>1 DEF Started, Canceled, Deleted, Live, SubsOf, Buyer, IsLast
<1>3. ShapeInv' /\ CanceledInv' /\ OrderInv' /\ LastInv'
    BY <1>1, <1>2 DEF StripeInv, ShapeInv, CanceledInv, OrderInv, LastInv, Canceled, Started
<1>4. CheckoutInv'
    <2>1. \A x \in sessions : Live(x.ws) = {} /\ \A y \in sessions : y.ws = x.ws => y = x
        BY DEF StripeInv, CheckoutInv
    <2> QED BY <1>1, <1>2, <2>1 DEF CheckoutInv
<1> QED BY <1>3, <1>4 DEF StripeInv

LEMMA StripeStays ==
    ASSUME StripeInv, UNCHANGED <<sub, sessions, events>>
    PROVE  /\ StripeInv'
           /\ \A i, ws : IsLast(i, ws)' <=> IsLast(i, ws)
<1>1. /\ \A s : /\ Started(s)' = Started(s) /\ Canceled(s)' = Canceled(s)
                /\ Deleted(s)' = Deleted(s)
      /\ \A ws : Live(ws)' = Live(ws) /\ SubsOf(ws)' = SubsOf(ws)
      /\ \A i : Buyer(i)' = Buyer(i)
      /\ \A i, ws : IsLast(i, ws)' = IsLast(i, ws)
    BY DEF Started, Canceled, Deleted, Live, SubsOf, Buyer, IsLast
<1>2. ShapeInv' /\ CanceledInv' /\ OrderInv'
    BY DEF StripeInv, ShapeInv, CanceledInv, OrderInv, Canceled, Started, Deleted, Buyer
<1>3. LastInv' /\ CheckoutInv'
    BY DEF StripeInv, LastInv, CheckoutInv, IsLast, Buyer, Live, SubsOf, Canceled, Started
<1> QED BY <1>1, <1>2, <1>3 DEF StripeInv

LEMMA NextStripe ==
    ASSUME IInv, StripeInv, Exclusive, [Next]_vars
    PROVE  StripeInv'
<1>1. ASSUME NEW s \in Subs, Cancel(s) PROVE StripeInv'
    <2> DEFINE state == [sub[s] EXCEPT !.status = "canceled"]
    <2>1. state \in Sub /\ state.ws = sub[s].ws /\ state.customer = sub[s].customer
        BY <1>1 DEF Cancel, IInv, TypeOK, Started, Sub, Status
    <2>2. state.status = "canceled"
        BY <1>1 DEF Cancel, IInv, TypeOK, Started, Sub
    <2> QED BY <1>1, <2>1, <2>2, ChangeReports DEF Cancel
<1>2. ASSUME NEW s \in Subs, NEW p \in Plans, NEW status \in Status \ {"canceled"},
             Change(s, p, status)
      PROVE  StripeInv'
    <2> DEFINE state == [sub[s] EXCEPT !.plan = p, !.status = status]
    <2>1. state \in Sub /\ state.ws = sub[s].ws /\ state.customer = sub[s].customer
        BY <1>2 DEF Change, IInv, TypeOK, Started, Sub
    <2>2. state.status # "canceled"
        BY <1>2 DEF Change, IInv, TypeOK, Started, Sub
    <2> QED BY <1>2, <2>1, <2>2, ChangeReports DEF Change
<1>3. ASSUME UNCHANGED stripe \/ UNCHANGED vars PROVE StripeInv'
    BY <1>3, StripeStays DEF stripe, vars
<1>4. ASSUME NEW h \in Handlers,
             (\E i \in DOMAIN events : Deliver(h, i)) \/ Handle(h) \/ Fail(h)
      PROVE  UNCHANGED stripe
    BY <1>4 DEF Deliver, Handle, FindWorkspace, RetrievePlan, WriteRow, MirrorPlan, Fail
<1> QED BY <1>1, <1>2, <1>3, <1>4, CheckoutReports, PayReports DEF Next

-----------------------------------------------------------------------------
(* What has been answered is mirrored *)

\* Nothing that was known of the answered events is lost to a new one.
LEMMA MirrorKept ==
    ASSUME IInv, MirrorInv, StripeGrows, UNCHANGED <<row, plan, guessed, acked, handler>>
    PROVE  MirrorInv'
<1>1. acked \subseteq DOMAIN events /\ HandlerInv
    BY DEF IInv, TypeOK
<1>2. \A i \in DOMAIN events :
         /\ events'[i] = events[i] /\ Started(events[i].sub)
         /\ \A j \in DOMAIN events' : j < i => j \in DOMAIN events
         /\ \A ws : IsLast(i, ws)' => IsLast(i, ws)
    <2> SUFFICES ASSUME NEW i \in DOMAIN events
                 PROVE  /\ events'[i] = events[i] /\ Started(events[i].sub)
                        /\ \A j \in DOMAIN events' : j < i => j \in DOMAIN events
                        /\ \A ws : IsLast(i, ws)' => IsLast(i, ws)
        OBVIOUS
    <2>1. \A j \in DOMAIN events' : j \in Nat
        BY LenProperties DEF StripeGrows
    <2>2. \A j \in DOMAIN events' : j < i => j \in DOMAIN events
        BY <2>1, EventIndex, OldEvents
    <2>3. \A ws : IsLast(i, ws)' => IsLast(i, ws)
        BY LastStays
    <2> QED BY <2>2, <2>3, EventIndex, OldEvents
<1>3. \A h \in Handlers : ~At(h, "idle") =>
         handler[h].event \in DOMAIN events /\ Current(h)' = Current(h)
    BY <1>1, <1>2 DEF HandlerInv, HandlerOK, Current, At
<1>4. SerialInv'
    <2>1. ASSUME NEW i \in acked, NEW j \in DOMAIN events', j < i PROVE j \in acked
        BY <1>1, <1>2, <2>1 DEF MirrorInv, SerialInv
    <2>2. ASSUME NEW h \in Handlers, ~At(h, "idle")
          PROVE  /\ handler[h].event \notin acked
                 /\ \A j \in DOMAIN events' : j < handler[h].event => j \in acked
                 /\ \A g \in Handlers \ {h} : At(g, "idle")
        BY <1>2, <1>3, <2>2 DEF MirrorInv, SerialInv
    <2> QED BY <2>1, <2>2 DEF SerialInv, At
<1>5. FoundInv'
    <2>1. ASSUME NEW s \in Subs, Started(s)', Joined(s)'
          PROVE  row[sub'[s].ws] # NoRow /\ row[sub'[s].ws].customer = sub'[s].customer
        <3>1. Joined(s) /\ Started(s)
            BY <1>1, <1>2, <2>1 DEF Joined
        <3>2. sub'[s].ws = sub[s].ws /\ sub'[s].customer = sub[s].customer
            BY <3>1 DEF StripeGrows
        <3> QED BY <3>1, <3>2 DEF MirrorInv, FoundInv
    <2>2. ASSUME NEW ws \in Workspaces
          PROVE  /\ row[ws] # NoRow /\ row[ws].sub # Null =>
                       row[ws].customer = sub'[row[ws].sub].customer
                 /\ row[ws] = NoRow => plan[ws] = "free"
        <3>1. row[ws] # NoRow /\ row[ws].sub # Null =>
                 row[ws].sub \in Subs /\ Started(row[ws].sub)
            BY DEF IInv, TypeOK, RowInv, Row
        <3> QED BY <3>1 DEF MirrorInv, FoundInv, StripeGrows
    <2> QED BY <2>1, <2>2 DEF FoundInv
<1>6. WritingInv'
    <2> SUFFICES ASSUME NEW h \in Handlers, handler[h].pc \in {"row", "mirror"}
                 PROVE  WritingOK(handler[h], Current(h))'
        BY DEF WritingInv
    <2>1. WritingOK(handler[h], Current(h))
        BY DEF MirrorInv, WritingInv
    <2>2. Current(h)' = Current(h) /\ handler[h].event \in DOMAIN events
        BY <1>3 DEF At
    <2>3. \A ws : IsLast(handler[h].event, ws)' => IsLast(handler[h].event, ws)
        BY <1>2, <2>2
    <2> QED BY <2>1, <2>2, <2>3 DEF WritingOK
<1>7. MirroredInv'
    <2>1. ASSUME NEW ws \in Workspaces \ guessed, NEW i \in acked, IsLast(i, ws)'
          PROVE  Mirrored(ws, events[i])
        BY <1>1, <1>2, <2>1 DEF MirrorInv, MirroredInv
    <2> QED BY <1>1, <1>2, <2>1 DEF MirroredInv, Mirrored
<1> QED BY <1>4, <1>5, <1>6, <1>7 DEF MirrorInv

\* The event a handler is at comes after all that were answered.
LEMMA AtFront ==
    ASSUME IInv, MirrorInv, NEW h \in Handlers, ~At(h, "idle"), NEW k, k = handler[h].event
    PROVE  /\ k \in DOMAIN events /\ events[k] = Current(h) /\ k \notin acked
           /\ acked \subseteq DOMAIN events
           /\ \A i \in acked : i < k
           /\ \A j \in DOMAIN events : j < k => j \in acked
           /\ \A g \in Handlers \ {h} : At(g, "idle")
           /\ \A i \in acked : ~IsLast(i, Buyer(k))
<1>1. /\ k \in DOMAIN events /\ events[k] = Current(h)
      /\ acked \subseteq DOMAIN events
    BY CurrentIsSound DEF Current, IInv, TypeOK
<1>2. /\ k \notin acked /\ \A j \in DOMAIN events : j < k => j \in acked
      /\ \A g \in Handlers \ {h} : At(g, "idle")
    BY DEF MirrorInv, SerialInv
<1>3. \A i \in DOMAIN events : i \in Nat
    BY EventIndex
<1>4. ASSUME NEW i \in acked PROVE i < k
    <2>1. i \in Nat /\ k \in Nat /\ i # k
        BY <1>1, <1>2, <1>3
    <2>2. ~(k < i)
        BY <1>1, <1>2 DEF MirrorInv, SerialInv
    <2> QED BY <2>1, <2>2
<1>5. ASSUME NEW i \in acked PROVE ~IsLast(i, Buyer(k))
    <2>1. i < k /\ i \in Nat /\ k \in Nat
        BY <1>1, <1>3, <1>4
    <2> QED BY <1>1, <2>1 DEF IsLast
<1> QED BY <1>1, <1>2, <1>4, <1>5

LEMMA SerialStep ==
    ASSUME IInv, MirrorInv, NEW h \in Handlers, ~At(h, "idle"), UNCHANGED events,
           \A g \in Handlers \ {h} : handler'[g] = handler[g],
           \/ acked' = acked /\ (handler'[h].pc = "idle" \/ handler'[h].event = handler[h].event)
           \/ acked' = acked \cup {handler[h].event} /\ handler'[h].pc = "idle"
    PROVE  SerialInv' /\ \A g \in Handlers \ {h} : handler'[g].pc = "idle"
<1>1. PICK k : k = handler[h].event
    OBVIOUS
<1>2. /\ k \notin acked /\ \A j \in DOMAIN events : j < k => j \in acked
      /\ \A g \in Handlers \ {h} : At(g, "idle")
    BY <1>1, AtFront
<1>3. \A g \in Handlers \ {h} : handler'[g].pc = "idle"
    BY <1>2 DEF At
<1>4. ASSUME NEW i \in acked', NEW j \in DOMAIN events, j < i PROVE j \in acked'
    BY <1>1, <1>2, <1>4 DEF MirrorInv, SerialInv
<1>5. ASSUME NEW g \in Handlers, handler'[g].pc # "idle"
      PROVE  /\ handler'[g].event \notin acked'
             /\ \A j \in DOMAIN events : j < handler'[g].event => j \in acked'
             /\ \A f \in Handlers \ {g} : handler'[f].pc = "idle"
    <2>1. g = h /\ acked' = acked /\ handler'[g].event = k
        BY <1>1, <1>3, <1>5
    <2> QED BY <1>2, <1>3, <2>1
<1> QED BY <1>3, <1>4, <1>5 DEF SerialInv, At

LEMMA DeliverMirror ==
    ASSUME IInv, MirrorInv, Ordered, NEW h \in Handlers, NEW i \in DOMAIN events, Deliver(h, i)
    PROVE  MirrorInv'
<1>1. /\ UNCHANGED <<row, plan, guessed, sub, sessions, events, acked>>
      /\ i \notin acked /\ \A j \in 1..(i - 1) : j \in acked
      /\ \A g \in Handlers : At(g, "idle")
      /\ handler' = [handler EXCEPT ![h] = [Idle EXCEPT !.pc = "find", !.event = i]]
    BY DEF Deliver, tables, stripe
<1>2. /\ handler'[h].pc = "find" /\ handler'[h].event = i
      /\ \A g \in Handlers \ {h} : handler'[g].pc = "idle"
    BY <1>1 DEF IInv, TypeOK, Idle, At
<1>3. \A j \in DOMAIN events : j < i => j \in acked
    <2>1. DOMAIN events = 1..Len(events) /\ Len(events) \in Nat
        BY LenProperties DEF IInv, TypeOK
    <2> QED BY <1>1, <2>1
<1>4. SerialInv'
    BY <1>1, <1>2, <1>3 DEF MirrorInv, SerialInv, At
<1>5. FoundInv' /\ MirroredInv'
    BY <1>1 DEF MirrorInv, FoundInv, MirroredInv, Mirrored, Joined, Started, IsLast, Buyer
<1>6. WritingInv'
    BY <1>2 DEF WritingInv
<1> QED BY <1>4, <1>5, <1>6 DEF MirrorInv

LEMMA FindMirror ==
    ASSUME IInv, StripeInv, MirrorInv, NEW h \in Handlers, FindWorkspace(h)
    PROVE  MirrorInv'
<1>1. /\ ~At(h, "idle") /\ handler \in [Handlers -> Handler] /\ handler[h] \in Handler
      /\ UNCHANGED <<row, plan, guessed, sub, sessions, events>>
    BY DEF FindWorkspace, At, IInv, TypeOK, tables, stripe
<1>2. PICK k : k = handler[h].event
    OBVIOUS
<1>3. PICK e : e = Current(h)
    OBVIOUS
<1>4. /\ k \in DOMAIN events /\ events[k] = e /\ k \notin acked
      /\ \A j \in DOMAIN events : j < k => j \in acked
    BY <1>1, <1>2, <1>3, AtFront
<1>5. /\ k \in Nat /\ e \in Event /\ e.sub \in Subs /\ Started(e.sub)
      /\ sub[e.sub].customer = e.customer
    BY <1>4, EventIndex
<1>6. CASE e.type # "completed" /\ Owners(e) = {} /\ Answer(h)
    <2>1. /\ handler'[h].pc = "idle" /\ acked' = acked \cup {k}
          /\ \A g \in Handlers \ {h} : handler'[g] = handler[g]
        BY <1>1, <1>2, <1>6 DEF Answer, Idle
    <2>2. SerialInv' /\ \A g \in Handlers : handler'[g].pc = "idle"
        BY <1>1, <1>2, <2>1, SerialStep
    <2>3. WritingInv'
        BY <2>2 DEF WritingInv
    <2>4. FoundInv'
        <3>1. \A s : Joined(s)' => Joined(s)
            BY <1>1, <1>4, <1>6, <2>1 DEF Joined
        <3> QED BY <1>1, <3>1 DEF MirrorInv, FoundInv, Started
    <2>5. ASSUME NEW ws \in Workspaces, IsLast(k, ws) PROVE FALSE
        <3>1. PICK j \in DOMAIN events : events[j].type = "completed" /\ events[j].sub = e.sub
            BY <1>4 DEF StripeInv, ShapeInv
        <3>2. j \in acked
            <4>1. j <= k /\ j \in Nat /\ j # k
                BY <1>4, <1>6, <2>5, <3>1, EventIndex DEF IsLast, Buyer
            <4> QED BY <1>4, <1>5, <4>1
        <3>3. ASSUME NEW i \in acked, events[i].type = "deleted", events[i].sub = e.sub
              PROVE  FALSE
            <4>1. i \in DOMAIN events /\ i \in Nat
                BY EventIndex DEF IInv, TypeOK
            <4>2. k <= i
                BY <1>4, <3>3, <4>1 DEF StripeInv, ShapeInv
            <4>3. k = i \/ k < i
                BY <1>5, <4>1, <4>2
            <4> QED BY <1>4, <4>3 DEF MirrorInv, SerialInv
        <3>4. Joined(e.sub)
            BY <3>1, <3>2, <3>3 DEF Joined
        <3>5. PICK w : w = sub[e.sub].ws
            OBVIOUS
        <3>6. w \in Workspaces /\ row[w] # NoRow /\ row[w].customer = e.customer
            BY <1>4, <1>5, <3>4, <3>5, EventIndex DEF MirrorInv, FoundInv, Buyer
        <3>7. w \in Having("customer", e.customer)
            BY <3>6 DEF Having
        <3> QED BY <1>6, <3>7 DEF Owners
    <2>6. MirroredInv'
        BY <1>1, <2>1, <2>5 DEF MirrorInv, MirroredInv, Mirrored, IsLast, Buyer
    <2> QED BY <2>2, <2>3, <2>4, <2>6 DEF MirrorInv
<1>7. ASSUME acked' = acked, NEW pc \in {"retrieve", "row"}, NEW w, NEW p,
             handler' = [handler EXCEPT ![h].pc = pc, ![h].ws = w, ![h].plan = p],
             pc = "row" =>
                 /\ e.type # "completed"
                 /\ e.type = "deleted" => p = "free"
                 /\ e.type = "updated" =>
                       p = e.plan /\ row[w] # NoRow /\ row[w].customer = e.customer
      PROVE  MirrorInv'
    <2>1. /\ handler'[h].pc = pc /\ handler'[h].ws = w /\ handler'[h].plan = p
          /\ handler'[h].event = k
          /\ \A g \in Handlers \ {h} : handler'[g] = handler[g]
        <3>1. handler' = [handler EXCEPT ![h].pc = pc, ![h].ws = w, ![h].plan = p]
            BY <1>7
        <3> QED BY <1>1, <1>2, <3>1 DEF Handler
    <2>2. SerialInv' /\ \A g \in Handlers \ {h} : handler'[g].pc = "idle"
        BY <1>1, <1>2, <1>7, <2>1, SerialStep
    <2>3. FoundInv' /\ MirroredInv'
        BY <1>1, <1>7 DEF MirrorInv, FoundInv, MirroredInv, Mirrored, Joined, Started,
                          IsLast, Buyer
    <2>4. Current(h)' = e
        BY <1>1, <1>4, <2>1 DEF Current
    <2>5. handler'[h].pc \in {"row", "mirror"} => WritingOK(handler[h], Current(h))'
        BY <1>1, <1>7, <2>1, <2>4 DEF WritingOK
    <2>6. WritingInv'
        BY <2>2, <2>5 DEF WritingInv
    <2> QED BY <2>2, <2>3, <2>6 DEF MirrorInv
<1>8. CASE /\ handler' = [handler EXCEPT ![h].pc = "retrieve", ![h].ws = e.ws]
           /\ UNCHANGED acked
    <2>1. handler' = [handler EXCEPT ![h].pc = "retrieve", ![h].ws = e.ws,
                                     ![h].plan = handler[h].plan]
        BY <1>1, <1>8 DEF Handler
    <2> QED BY <1>7, <1>8, <2>1
<1>9. ASSUME NEW ws \in Owners(e), e.type # "completed", acked' = acked,
             handler' = [handler EXCEPT ![h].pc = "row", ![h].ws = ws,
                             ![h].plan = IF e.type = "deleted" THEN "free" ELSE e.plan]
      PROVE  MirrorInv'
    <2>1. PICK p : p = IF e.type = "deleted" THEN "free" ELSE e.plan
        OBVIOUS
    <2>2. row[ws] # NoRow /\ row[ws].customer = e.customer
        <3>1. CASE ws \in Having("customer", e.customer)
            BY <3>1 DEF Having
        <3>2. CASE ws \in Having("sub", e.sub)
            <4>1. ws \in Workspaces /\ row[ws] # NoRow /\ row[ws].sub = e.sub
                BY <3>2 DEF Having
            <4>2. e.sub # Null
                BY <1>5, NullAssumption
            <4> QED BY <1>5, <4>1, <4>2 DEF MirrorInv, FoundInv
        <3> QED BY <1>9, <3>1, <3>2 DEF Owners
    <2> QED BY <1>7, <1>9, <2>1, <2>2
<1> QED BY <1>3, <1>6, <1>8, <1>9 DEF FindWorkspace

LEMMA RetrieveMirror ==
    ASSUME IInv, StripeInv, MirrorInv, NEW h \in Handlers, RetrievePlan(h)
    PROVE  MirrorInv'
<1>1. /\ ~At(h, "idle") /\ handler \in [Handlers -> Handler] /\ handler[h] \in Handler
      /\ UNCHANGED <<row, plan, sub, sessions, events, acked>>
      /\ handler[h].pc = "retrieve"
    BY DEF RetrievePlan, At, IInv, TypeOK, stripe
<1>2. PICK k : k = handler[h].event
    OBVIOUS
<1>3. PICK e : e = Current(h)
    OBVIOUS
<1>4. /\ k \in DOMAIN events /\ events[k] = e /\ \A i \in acked : ~IsLast(i, Buyer(k))
    BY <1>1, <1>2, <1>3, AtFront
<1>5. PICK w : w = handler[h].ws
    OBVIOUS
<1>6. e.type = "completed" /\ w = Buyer(k) /\ w \in Workspaces
    BY <1>1, <1>2, <1>3, <1>4, <1>5, EventIndex
       DEF IInv, HandlerInv, HandlerOK, Current, Buyer
<1>7. PICK p : /\ handler' = [handler EXCEPT ![h].pc = "row", ![h].plan = p]
               /\ \/ p = sub[e.sub].plan /\ guessed' = guessed \ {w}
                  \/ guessed' = guessed \cup {w}
    BY <1>3, <1>5 DEF RetrievePlan
<1>8. /\ handler'[h].pc = "row" /\ handler'[h].plan = p /\ handler'[h].ws = w
      /\ handler'[h].event = k
      /\ \A g \in Handlers \ {h} : handler'[g] = handler[g]
    <2>1. handler' = [handler EXCEPT ![h].pc = "row", ![h].plan = p]
        BY <1>7
    <2> QED BY <1>1, <1>2, <1>5, <2>1 DEF Handler
<1>9. SerialInv' /\ \A g \in Handlers \ {h} : handler'[g].pc = "idle"
    BY <1>1, <1>2, <1>8, SerialStep
<1>10. FoundInv'
    BY <1>1 DEF MirrorInv, FoundInv, Joined, Started
<1>11. WritingInv'
    <2>1. Current(h)' = e
        BY <1>1, <1>4, <1>8 DEF Current
    <2>2. IsLast(k, w) /\ w \notin guessed' => p = e.plan
        <3> SUFFICES ASSUME IsLast(k, w), w \notin guessed' PROVE p = e.plan
            OBVIOUS
        <3>1. p = sub[e.sub].plan
            BY <1>7
        <3> QED BY <1>4, <1>6, <3>1 DEF StripeInv, LastInv
    <2>3. IsLast(k, w)' <=> IsLast(k, w)
        BY <1>1 DEF IsLast, Buyer
    <2>4. WritingOK(handler[h], Current(h))'
        BY <1>6, <1>8, <2>1, <2>2, <2>3 DEF WritingOK
    <2> QED BY <1>9, <2>4 DEF WritingInv
<1>12. MirroredInv'
    <2> SUFFICES ASSUME NEW v \in Workspaces, v \notin guessed', NEW i \in acked, IsLast(i, v)'
                 PROVE  Mirrored(v, events[i])'
        BY <1>1 DEF MirroredInv
    <2>1. IsLast(i, v)
        BY <1>1 DEF IsLast, Buyer
    <2>2. v # w
        BY <1>4, <1>6, <2>1
    <2>3. v \notin guessed
        BY <1>7, <2>2
    <2> QED BY <1>1, <2>1, <2>3 DEF MirrorInv, MirroredInv, Mirrored
<1> QED BY <1>9, <1>10, <1>11, <1>12 DEF MirrorInv

LEMMA WriteMirror ==
    ASSUME IInv, StripeInv, MirrorInv, NEW h \in Handlers, WriteRow(h)
    PROVE  MirrorInv'
<1>1. /\ ~At(h, "idle") /\ handler \in [Handlers -> Handler] /\ handler[h] \in Handler
      /\ UNCHANGED <<plan, sub, sessions, events, acked>>
      /\ handler[h].pc = "row" /\ HandlerOK(h)
      /\ WritingOK(handler[h], Current(h))
      /\ handler' = [handler EXCEPT ![h].pc = "mirror"]
    BY DEF WriteRow, At, IInv, TypeOK, HandlerInv, MirrorInv, WritingInv, stripe
<1>2. PICK k : k = handler[h].event
    OBVIOUS
<1>3. PICK e : e = Current(h)
    OBVIOUS
<1>4. /\ k \in DOMAIN events /\ events[k] = e /\ k \notin acked
      /\ acked \subseteq DOMAIN events
      /\ \A i \in acked : i < k
      /\ \A j \in DOMAIN events : j < k => j \in acked
      /\ \A i \in acked : ~IsLast(i, Buyer(k))
    BY <1>1, <1>2, <1>3, AtFront
<1>5. /\ k \in Nat /\ e \in Event /\ e.sub \in Subs /\ Started(e.sub)
      /\ sub[e.sub].customer = e.customer /\ Buyer(k) \in Workspaces
    BY <1>4, EventIndex
<1>6. PICK w : w = handler[h].ws
    OBVIOUS
<1>7. PICK p : p = handler[h].plan
    OBVIOUS
<1>8. w = Buyer(k) /\ w \in Workspaces /\ (e.type = "deleted" => row[w] \in Row)
    BY <1>1, <1>2, <1>3, <1>4, <1>5, <1>6
       DEF HandlerOK, Current, Buyer, IInv, TypeOK
<1>9. PICK r : r = IF e.type = "deleted"
                   THEN [row[w] EXCEPT !.sub = Null, !.plan = "free", !.status = "canceled"]
                   ELSE [customer |-> e.customer, sub |-> e.sub, plan |-> p,
                         status |-> IF e.type = "completed" THEN "active" ELSE e.status]
    OBVIOUS
<1>10. row' = [row EXCEPT ![w] = r]
    BY <1>3, <1>6, <1>7, <1>9 DEF WriteRow
<1>11. /\ e.type = "deleted" => r.sub = Null /\ r.customer = row[w].customer
       /\ e.type # "deleted" => r.sub = e.sub /\ r.customer = e.customer /\ r.plan = p
       /\ r.status = e.status
    <2>1. /\ e.type = "completed" => e.status = "active"
          /\ e.type = "deleted" => e.status = "canceled"
        BY <1>4 DEF StripeInv, ShapeInv
    <2>2. CASE e.type = "deleted"
        BY <1>8, <1>9, <2>1, <2>2 DEF Row
    <2>3. CASE e.type # "deleted"
        BY <1>9, <2>1, <2>3
    <2> QED BY <2>2, <2>3
<1>12. /\ row'[w] = r /\ \A v \in Workspaces \ {w} : row'[v] = row[v]
    BY <1>8, <1>10 DEF IInv, TypeOK
<1>13. row'[w] # NoRow
    <2>1. e.type = "deleted" => r \in Row
        BY <1>8, <1>9 DEF Row, Status
    <2>2. p \in Plans \cup {"free"} /\ e.type # "deleted" => r \in Row
        BY <1>5, <1>9 DEF Row, Status, Event
    <2>3. p \in Plans \cup {"free"}
        BY <1>1, <1>7 DEF HandlerOK, Handler
    <2> QED BY <1>12, <2>1, <2>2, <2>3, NullAssumption
<1>14. /\ handler'[h].pc = "mirror" /\ handler'[h].plan = p /\ handler'[h].ws = w
       /\ handler'[h].event = k
       /\ \A g \in Handlers \ {h} : handler'[g] = handler[g]
    <2>1. handler' = [handler EXCEPT ![h].pc = "mirror"]
        BY <1>1
    <2> QED BY <1>1, <1>2, <1>6, <1>7, <2>1 DEF Handler
<1>15. /\ guessed' = IF e.type = "completed" THEN guessed ELSE guessed \ {w}
    BY <1>3, <1>6 DEF WriteRow
<1>16. /\ e.type = "deleted" => p = "free"
       /\ e.type = "updated" =>
             p = e.plan /\ row[w] # NoRow /\ row[w].customer = e.customer
       /\ e.type = "completed" /\ IsLast(k, w) /\ w \notin guessed => p = e.plan
    BY <1>1, <1>2, <1>3, <1>6, <1>7 DEF WritingOK
<1>17. SerialInv' /\ \A g \in Handlers \ {h} : handler'[g].pc = "idle"
    BY <1>1, <1>2, <1>14, SerialStep
<1>18. WritingInv'
    <2>1. Current(h)' = e
        BY <1>1, <1>4, <1>14 DEF Current
    <2>2. IsLast(k, w)' <=> IsLast(k, w)
        BY <1>1 DEF IsLast, Buyer
    <2>3. WritingOK(handler[h], Current(h))'
        BY <1>11, <1>12, <1>13, <1>14, <1>15, <1>16, <2>1, <2>2 DEF WritingOK
    <2> QED BY <1>17, <2>3 DEF WritingInv
<1>19. FoundInv'
    <2>1. ASSUME NEW s \in Subs, Started(s), Joined(s)
          PROVE  row'[sub[s].ws] # NoRow /\ row'[sub[s].ws].customer = sub[s].customer
        <3>1. PICK v \in Workspaces : v = sub[s].ws
            BY <2>1 DEF IInv, TypeOK, Started, Sub
        <3>2. row[v] # NoRow /\ row[v].customer = sub[s].customer
            BY <2>1, <3>1 DEF MirrorInv, FoundInv
        <3>3. CASE v # w
            BY <1>12, <3>1, <3>2, <3>3
        <3>4. CASE v = w /\ e.type = "deleted"
            BY <1>11, <1>12, <1>13, <3>1, <3>2, <3>4
        <3>5. CASE v = w /\ e.type = "updated"
            BY <1>11, <1>12, <1>13, <1>16, <3>1, <3>2, <3>5
        <3>6. CASE v = w /\ e.type = "completed" /\ s = e.sub
            BY <1>5, <1>11, <1>12, <1>13, <3>1, <3>6
        <3>7. CASE v = w /\ s # e.sub
            <4>1. PICK i \in acked : events[i].type = "completed" /\ events[i].sub = s
                BY <2>1 DEF Joined
            <4>2. i \in DOMAIN events /\ i < k /\ Buyer(i) = Buyer(k)
                BY <1>4, <1>8, <3>1, <3>7, <4>1 DEF Buyer
            <4>3. PICK d \in DOMAIN events :
                    d < k /\ events[d].type = "deleted" /\ events[d].sub = s
                BY <1>4, <3>7, <4>1, <4>2 DEF StripeInv, OrderInv
            <4> QED BY <1>4, <2>1, <4>3 DEF Joined
        <3> QED BY <1>5, <3>3, <3>4, <3>5, <3>6, <3>7 DEF Event
    <2>2. ASSUME NEW v \in Workspaces
          PROVE  /\ row'[v] # NoRow /\ row'[v].sub # Null =>
                       row'[v].customer = sub[row'[v].sub].customer
                 /\ row'[v] = NoRow => plan[v] = "free"
        <3>1. CASE v # w
            BY <1>12, <3>1 DEF MirrorInv, FoundInv
        <3>2. CASE v = w
            BY <1>5, <1>11, <1>12, <1>13, <3>2
        <3> QED BY <3>1, <3>2
    <2> QED BY <1>1, <2>1, <2>2 DEF FoundInv, Joined, Started
<1>20. MirroredInv'
    <2> SUFFICES ASSUME NEW v \in Workspaces, v \notin guessed', NEW i \in acked, IsLast(i, v)'
                 PROVE  Mirrored(v, events[i])'
        BY <1>1 DEF MirroredInv
    <2>1. IsLast(i, v)
        BY <1>1 DEF IsLast, Buyer
    <2>2. v # w
        BY <1>4, <1>8, <2>1
    <2>3. v \notin guessed
        BY <1>15, <2>2
    <2>4. Mirrored(v, events[i])
        BY <2>1, <2>3 DEF MirrorInv, MirroredInv
    <2> QED BY <1>1, <1>12, <2>2, <2>4 DEF Mirrored
<1> QED BY <1>17, <1>18, <1>19, <1>20 DEF MirrorInv

LEMMA PlanMirror ==
    ASSUME IInv, StripeInv, MirrorInv, NEW h \in Handlers, MirrorPlan(h)
    PROVE  MirrorInv'
<1>1. /\ ~At(h, "idle") /\ handler \in [Handlers -> Handler] /\ handler[h] \in Handler
      /\ UNCHANGED <<row, guessed, sub, sessions, events>>
      /\ handler[h].pc = "mirror" /\ HandlerOK(h)
      /\ WritingOK(handler[h], Current(h))
    BY DEF MirrorPlan, At, IInv, TypeOK, HandlerInv, MirrorInv, WritingInv, stripe
<1>2. PICK k : k = handler[h].event
    OBVIOUS
<1>3. PICK e : e = Current(h)
    OBVIOUS
<1>4. /\ k \in DOMAIN events /\ events[k] = e
      /\ \A i \in acked : ~IsLast(i, Buyer(k))
    BY <1>1, <1>2, <1>3, AtFront
<1>5. /\ e \in Event /\ e.sub \in Subs /\ Started(e.sub)
      /\ sub[e.sub].customer = e.customer /\ Buyer(k) \in Workspaces
    BY <1>4, EventIndex
<1>6. PICK w : w = handler[h].ws
    OBVIOUS
<1>7. PICK p : p = handler[h].plan
    OBVIOUS
<1>8. w = Buyer(k) /\ w \in Workspaces /\ w = sub[e.sub].ws
    BY <1>1, <1>2, <1>3, <1>4, <1>5, <1>6 DEF HandlerOK, Current, Buyer
<1>9. PICK q : q = IF e.type # "updated" \/ e.status \in Paying THEN p ELSE "free"
    OBVIOUS
<1>10. /\ plan'[w] = q /\ \A v \in Workspaces \ {w} : plan'[v] = plan[v]
    <2>1. plan' = [plan EXCEPT ![w] = q]
        BY <1>3, <1>6, <1>7, <1>9 DEF MirrorPlan
    <2> QED BY <1>8, <2>1 DEF IInv, TypeOK
<1>11. /\ handler'[h].pc = "idle" /\ acked' = acked \cup {k}
       /\ \A g \in Handlers \ {h} : handler'[g] = handler[g]
    BY <1>1, <1>2 DEF MirrorPlan, Answer, Idle
<1>12. SerialInv' /\ \A g \in Handlers : handler'[g].pc = "idle"
    BY <1>1, <1>2, <1>11, SerialStep
<1>13. WritingInv'
    BY <1>12 DEF WritingInv
<1>14. /\ e.type = "deleted" => p = "free"
       /\ e.type = "updated" => p = e.plan
       /\ e.type = "completed" /\ IsLast(k, w) /\ w \notin guessed => p = e.plan
       /\ row[w] # NoRow /\ row[w].status = e.status
       /\ e.type # "deleted" => row[w].plan = p /\ row[w].customer = e.customer
    BY <1>1, <1>2, <1>3, <1>6, <1>7 DEF WritingOK
<1>15. FoundInv'
    <2>1. ASSUME NEW s \in Subs, Started(s), Joined(s)'
          PROVE  row[sub[s].ws] # NoRow /\ row[sub[s].ws].customer = sub[s].customer
        <3>1. CASE e.type = "completed" /\ e.sub = s
            BY <1>5, <1>8, <1>14, <3>1
        <3>2. CASE ~(e.type = "completed" /\ e.sub = s)
            <4>1. Joined(s)
                BY <1>1, <1>4, <1>11, <2>1, <3>2 DEF Joined
            <4> QED BY <2>1, <4>1 DEF MirrorInv, FoundInv
        <3> QED BY <3>1, <3>2
    <2>2. ASSUME NEW v \in Workspaces, row[v] = NoRow PROVE plan'[v] = "free"
        BY <1>10, <1>14, <2>2 DEF MirrorInv, FoundInv
    <2> QED BY <1>1, <2>1, <2>2 DEF MirrorInv, FoundInv, Started
<1>16. MirroredInv'
    <2> SUFFICES ASSUME NEW v \in Workspaces, v \notin guessed, NEW i \in acked',
                        IsLast(i, v)'
                 PROVE  Mirrored(v, events[i])'
        BY <1>1 DEF MirroredInv
    <2>1. IsLast(i, v)
        BY <1>1 DEF IsLast, Buyer
    <2>2. CASE i \in acked
        <3>1. v # w
            BY <1>4, <1>8, <2>1, <2>2
        <3>2. Mirrored(v, events[i])
            BY <2>1, <2>2 DEF MirrorInv, MirroredInv
        <3> QED BY <1>1, <1>10, <3>1, <3>2 DEF Mirrored
    <2>3. CASE i = k
        <3>1. v = w /\ events'[i] = e
            BY <1>1, <1>4, <1>8, <2>1, <2>3 DEF IsLast
        <3>2. /\ e.type = "completed" => e.status = "active"
              /\ e.type = "deleted" <=> e.status = "canceled"
            BY <1>4 DEF StripeInv, ShapeInv
        <3>3. e.status \in Paying => row[w].plan = e.plan /\ q = e.plan
            BY <1>5, <1>9, <1>14, <2>1, <2>3, <3>1, <3>2 DEF Paying, Event
        <3>4. e.status \notin Paying => q = "free"
            BY <1>5, <1>9, <1>14, <3>2 DEF Paying, Event
        <3> QED BY <1>1, <1>10, <1>14, <3>1, <3>3, <3>4 DEF Mirrored
    <2> QED BY <1>11, <2>2, <2>3
<1> QED BY <1>12, <1>13, <1>15, <1>16 DEF MirrorInv

LEMMA FailMirror ==
    ASSUME IInv, StripeInv, MirrorInv, NEW h \in Handlers, Fail(h)
    PROVE  MirrorInv'
<1>1. /\ ~At(h, "idle") /\ UNCHANGED <<row, plan, guessed, sub, sessions, events, acked>>
      /\ handler'[h].pc = "idle" /\ \A g \in Handlers \ {h} : handler'[g] = handler[g]
    BY DEF Fail, At, IInv, TypeOK, Idle, tables, stripe
<1>2. SerialInv' /\ \A g \in Handlers : handler'[g].pc = "idle"
    BY <1>1, SerialStep
<1>3. WritingInv'
    BY <1>2 DEF WritingInv
<1>4. FoundInv' /\ MirroredInv'
    BY <1>1 DEF MirrorInv, FoundInv, MirroredInv, Mirrored, Joined, Started, IsLast, Buyer
<1> QED BY <1>2, <1>3, <1>4 DEF MirrorInv

LEMMA NextMirror ==
    ASSUME IInv, StripeInv, MirrorInv, Ordered, [Next]_vars
    PROVE  MirrorInv'
<1>1. ASSUME NEW s \in Subs, Cancel(s) PROVE MirrorInv'
    <2> DEFINE state == [sub[s] EXCEPT !.status = "canceled"]
    <2>1. state \in Sub /\ state.ws = sub[s].ws /\ state.customer = sub[s].customer
        BY <1>1 DEF Cancel, IInv, TypeOK, Started, Sub, Status
    <2>2. StripeGrows
        BY <1>1, <2>1, ChangeGrows DEF Cancel
    <2> QED BY <1>1, <2>2, MirrorKept DEF Cancel, tables
<1>2. ASSUME NEW s \in Subs, NEW p \in Plans, NEW status \in Status, Change(s, p, status)
      PROVE  MirrorInv'
    <2> DEFINE state == [sub[s] EXCEPT !.plan = p, !.status = status]
    <2>1. state \in Sub /\ state.ws = sub[s].ws /\ state.customer = sub[s].customer
        BY <1>2 DEF Change, IInv, TypeOK, Started, Sub
    <2>2. StripeGrows
        BY <1>2, <2>1, ChangeGrows DEF Change
    <2> QED BY <1>2, <2>2, MirrorKept DEF Change, tables
<1>3. ASSUME NEW x \in sessions, NEW s \in Subs, NEW c \in Customers, Pay(x, s, c)
      PROVE  MirrorInv'
    BY <1>3, PayGrows, MirrorKept DEF Pay, tables
<1>4. ASSUME UNCHANGED <<row, plan, guessed, acked, handler, sub, events>> PROVE MirrorInv'
    <2>1. StripeGrows
        BY <1>4 DEF StripeGrows, IInv, TypeOK, Started
    <2> QED BY <1>4, <2>1, MirrorKept
<1>5. ASSUME NEW ws \in Workspaces, NEW p \in Plans, OpenCheckout(ws, p) PROVE MirrorInv'
    BY <1>4, <1>5 DEF OpenCheckout, tables
<1>6. CASE UNCHANGED vars
    BY <1>4, <1>6 DEF vars
<1> QED BY <1>1, <1>2, <1>3, <1>5, <1>6, DeliverMirror, FindMirror, RetrieveMirror,
           WriteMirror, PlanMirror, FailMirror DEF Next, Handle

LEMMA InitMirror == Init => StripeInv /\ MirrorInv
<1> SUFFICES ASSUME Init PROVE StripeInv /\ MirrorInv
    OBVIOUS
<1>1. /\ events = <<>> /\ DOMAIN events = {} /\ acked = {} /\ sessions = {}
      /\ \A s \in Subs : ~Started(s)
      /\ \A h \in Handlers : handler[h].pc = "idle"
      /\ \A ws \in Workspaces : row[ws] = NoRow /\ plan[ws] = "free"
    BY DEF Init, Started, Idle
<1>2. StripeInv
    BY <1>1 DEF StripeInv, ShapeInv, CanceledInv, OrderInv, LastInv, CheckoutInv, Canceled
<1>3. MirrorInv
    BY <1>1 DEF MirrorInv, SerialInv, FoundInv, WritingInv, MirroredInv, At
<1> QED BY <1>2, <1>3

\* At rest the last event of a workspace was answered, and tells what Stripe has.
LEMMA RestMirrors ==
    ASSUME IInv, StripeInv, MirrorInv
    PROVE  MirrorsStripe
<1> SUFFICES ASSUME AtRest, NEW ws \in Workspaces, ws \notin guessed
             PROVE  LET paid == {sub[s].plan : s \in {s \in SubsOf(ws) : sub[s].status \in Paying}}
                    IN  /\ Effective(ws) \in IF paid = {} THEN {"free"} ELSE paid
                        /\ plan[ws] = Effective(ws)
    BY DEF MirrorsStripe
<1> DEFINE paid == {sub[s].plan : s \in {s \in SubsOf(ws) : sub[s].status \in Paying}}
<1>1. CASE SubsOf(ws) = {}
    <2>1. row[ws] = NoRow
        BY <1>1 DEF IInv, RowInv, Bought, SubsOf
    <2>2. plan[ws] = "free" /\ paid = {}
        BY <1>1, <2>1 DEF MirrorInv, FoundInv
    <2> QED BY <2>1, <2>2 DEF Effective
<1>2. CASE SubsOf(ws) # {}
    <2>1. PICK t \in Subs : Started(t) /\ sub[t].ws = ws
        BY <1>2 DEF SubsOf
    <2>2. PICK i \in DOMAIN events : IsLast(i, ws)
        BY <2>1 DEF StripeInv, LastInv
    <2>3. PICK e : e = events[i]
        OBVIOUS
    <2>4. PICK s \in Subs : s = e.sub /\ s \in SubsOf(ws)
        BY <2>2, <2>3, EventIndex DEF SubsOf, IsLast, Buyer
    <2>5. /\ sub[s].plan = e.plan /\ sub[s].status = e.status
          /\ \A u \in SubsOf(ws) \ {s} : sub[u].status = "canceled"
        BY <2>2, <2>3, <2>4 DEF StripeInv, LastInv, Canceled
    <2>6. /\ row[ws] # NoRow /\ row[ws].status = e.status
          /\ e.status \in Paying => row[ws].plan = e.plan
          /\ plan[ws] = IF e.status \in Paying THEN e.plan ELSE "free"
        BY <2>2, <2>3 DEF AtRest, MirrorInv, MirroredInv, Mirrored
    <2>7. Effective(ws) = (IF e.status \in Paying THEN e.plan ELSE "free")
        BY <2>6 DEF Effective
    <2>8. "canceled" \notin Paying
        BY DEF Paying
    <2>9. CASE e.status \in Paying
        <3>1. e.plan \in paid
            BY <2>4, <2>5, <2>9
        <3> QED BY <2>6, <2>7, <2>9, <3>1
    <2>10. CASE e.status \notin Paying
        <3>1. paid = {}
            BY <2>5, <2>8, <2>10
        <3> QED BY <2>6, <2>7, <2>10, <3>1
    <2> QED BY <2>9, <2>10
<1> QED BY <1>1, <1>2

\* With events delivered in order, to workspaces that are not subscribed twice,
\* row and Workspace.plan say what Stripe says whenever every event has been
\* answered, whatever failed half-way, was repeated, lapsed or was bought anew.
THEOREM MirrorIsRight == Ordered /\ Exclusive => (Spec => []MirrorsStripe)
<1> SUFFICES ASSUME Ordered, Exclusive PROVE Spec => []MirrorsStripe
    OBVIOUS
<1>1. Init => IInv /\ StripeInv /\ MirrorInv
    BY InitIInv, InitMirror
<1>2. (IInv /\ StripeInv /\ MirrorInv) /\ [Next]_vars => (IInv /\ StripeInv /\ MirrorInv)'
    <2> SUFFICES ASSUME IInv, StripeInv, MirrorInv, [Next]_vars
                 PROVE  IInv' /\ StripeInv' /\ MirrorInv'
        OBVIOUS
    <2> QED BY NextIInv, NextStripe, NextMirror
<1>3. IInv /\ StripeInv /\ MirrorInv => MirrorsStripe
    BY RestMirrors
<1> QED BY <1>1, <1>2, <1>3, PTL DEF Spec

=============================================================================
