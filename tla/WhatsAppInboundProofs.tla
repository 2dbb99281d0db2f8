----------------------- MODULE WhatsAppInboundProofs -----------------------
(***************************************************************************)
(* Types of WhatsAppInbound, that a batch is marked processed only with    *)
(* its messages ingested, and how often a message can be ingested and a    *)
(* sender become a contact, for any number of workspaces, batches,         *)
(* handlers, changes of the links and faults.                              *)
(***************************************************************************)
EXTENDS WhatsAppInbound, FiniteSetTheorems, TLAPS

\* What a handler has in hand, given the tables: the events before the one it
\* is at have been settled.
HandlerOK(x, soc, hk) ==
    /\ x \in Handler
    /\ \A k \in x.rows : hk[k] # NoRow
    /\ x.pc \in Busy => x.batch \in Batches /\ hk[DedupeKey(x.batch)] # NoRow
    /\ x.pc \in Busy \ {"route"} =>
         /\ x.ws \in Workspaces
         /\ x.i \in Nat \ {0}
         /\ \A j \in DOMAIN EventsOf[x.batch] :
              j < x.i /\ EventsOf[x.batch][j].kind = "message" =>
                  soc[EventsOf[x.batch][j].id] # NoRow /\ soc[EventsOf[x.batch][j].id].done
    /\ x.pc \in {"check", "contact", "create"} =>
         /\ x.i \in DOMAIN EventsOf[x.batch]
         /\ EventsOf[x.batch][x.i].kind = "message"
         /\ soc[EventsOf[x.batch][x.i].id] # NoRow
    /\ x.pc \in {"target", "apply"} =>
         x.i \in DOMAIN EventsOf[x.batch] /\ EventsOf[x.batch][x.i].kind = "status"
    /\ x.pc = "mark" => x.i > Len(EventsOf[x.batch])

HandlerInv == \A h \in Handlers : HandlerOK(handler[h], social, hook)

\* A row holds a batch of its key, and is done only when the key's messages are.
RowInv ==
    \A k \in Keys :
        hook[k] # NoRow =>
            /\ DedupeKey(hook[k].batch) = k
            /\ hook[k].done => \A m \in k \cap Messages : Settled(m)

FiniteInv == IsFiniteSet({k \in Keys : hook[k] # NoRow})

IInv == TypeOK /\ HandlerInv /\ RowInv /\ FiniteInv

-----------------------------------------------------------------------------
(* Events and routes *)

LEMMA Kinds ==
    ASSUME NEW b \in Batches, NEW j \in DOMAIN EventsOf[b]
    PROVE  LET e == EventsOf[b][j]
           IN  /\ e.kind \in {"message", "status"}
               /\ e.kind = "message" => e.id \in Messages /\ FromOf[e.id] \in Senders
               /\ e.kind = "status" => e.id \in Outgoing /\ e.status \in Receipts
               /\ e.id \in Messages => e.kind = "message"
               /\ e.id \in DedupeKey(b)
<1>1. EventsOf[b][j] \in Event
    BY BatchAssumption
<1> QED BY <1>1, BatchAssumption DEF Event, DedupeKey

LEMMA Routed ==
    ASSUME NEW number \in BOOLEAN, NEW s, settings \subseteq Workspaces
    PROVE  Route(number, s) \in Workspaces \cup {Null}
<1>1. ASSUME NEW S, S \subseteq Workspaces PROVE TheOnly(S) \in Workspaces \cup {Null}
    <2>1. Cardinality(S) = 1 => S # {}
        BY FS_EmptySet
    <2> QED BY <1>1, <2>1 DEF TheOnly
<1>2. ASSUME NEW within, within \subseteq Workspaces
      PROVE  Owner(s, within) \in Workspaces \cup {Null}
    <2>1. TheOnly({ws \in within : contacts[ws][s] > 0}) \in Workspaces \cup {Null}
        BY <1>1, <1>2
    <2> QED BY <2>1 DEF Owner
<1> DEFINE bound == {ws \in Workspaces : link[ws] = "active"}
           last == IF Owner(s, Workspaces) # Null THEN Owner(s, Workspaces) ELSE Default
<1>3. last \in Workspaces \cup {Null} /\ Owner(s, bound) \in Workspaces \cup {Null}
    BY <1>2, NullAssumption
<1>4. TheOnly(bound) \in Workspaces \cup {Null} /\ TheOnly(settings) \in Workspaces \cup {Null}
    BY <1>1
<1>5. Route(number, s) \in {last, Owner(s, bound), TheOnly(bound), TheOnly(settings)}
    BY DEF Route
<1> HIDE DEF last, bound
<1> QED BY <1>3, <1>4, <1>5

-----------------------------------------------------------------------------
(* Steps of handlers *)

\* One handler is at x now; the tables of batches and messages only grow.
LEMMA HandlerMoves ==
    ASSUME IInv, NEW h \in Handlers, NEW x, HandlerOK(x, social', hook'),
           handler' = [handler EXCEPT ![h] = x],
           \A k \in Keys : hook[k] # NoRow => hook'[k] # NoRow,
           \A m \in Messages :
               social[m] # NoRow =>
                   social'[m] # NoRow /\ (social[m].done => social'[m].done)
    PROVE  handler' \in [Handlers -> Handler] /\ HandlerInv'
<1>1. handler \in [Handlers -> Handler] /\ HandlerInv
    BY DEF IInv, TypeOK
<1>2. handler' \in [Handlers -> Handler]
    BY <1>1 DEF HandlerOK
<1>3. ASSUME NEW g \in Handlers PROVE HandlerOK(handler'[g], social', hook')
    <2>1. CASE g = h
        BY <1>1, <2>1
    <2>2. CASE g # h
        <3> DEFINE y == handler[g]
        <3>1. handler'[g] = y /\ HandlerOK(y, social, hook)
            BY <1>1, <2>2 DEF HandlerInv
        <3>2. y \in Handler /\ \A k \in y.rows : hook'[k] # NoRow
            BY <3>1 DEF HandlerOK, Handler
        <3>3. y.batch \in Batches => DedupeKey(y.batch) \in Keys
            BY DEF Keys
        <3>4. ASSUME y.batch \in Batches, NEW j \in DOMAIN EventsOf[y.batch],
                     EventsOf[y.batch][j].kind = "message"
              PROVE  EventsOf[y.batch][j].id \in Messages
            BY <3>4, Kinds
        <3>5. y.pc \in {"check", "contact", "create"} => y.pc \in Busy
            BY DEF Busy
        <3> HIDE DEF y
        <3>6. HandlerOK(y, social', hook')
            BY <3>1, <3>2, <3>3, <3>4, <3>5 DEF HandlerOK
        <3> QED BY <3>1, <3>6
    <2> QED BY <2>1, <2>2
<1> QED BY <1>2, <1>3 DEF HandlerInv

\* A handler's step that leaves both tables alone.
LEMMA QuietMove ==
    ASSUME IInv, NEW h \in Handlers, NEW x, HandlerOK(x, social, hook),
           handler' = [handler EXCEPT ![h] = x],
           UNCHANGED <<hook, social, contacts, inbound, link, settings, links>>,
           bubble' \in [Outgoing -> Receipts \cup Unrecorded], faults' \in 0..MaxFaults
    PROVE  IInv'
<1>1. handler' \in [Handlers -> Handler] /\ HandlerInv'
    BY HandlerMoves
<1>2. TypeOK' /\ RowInv' /\ FiniteInv'
    BY <1>1 DEF IInv, TypeOK, RowInv, FiniteInv, Settled
<1> QED BY <1>1, <1>2 DEF IInv

LEMMA IdleOK == \A soc, hk : HandlerOK(Idle, soc, hk)
BY DEF HandlerOK, Idle, Handler, Busy

\* Leaving a batch, for the answer or for the cron's next row.
LEMMA Leaving ==
    ASSUME IInv, NEW h \in Handlers, Leave(h)
    PROVE  \E x : /\ handler' = [handler EXCEPT ![h] = x]
                  /\ \A soc, hk : (\A k \in handler[h].rows : hk[k] # NoRow)
                                     => HandlerOK(x, soc, hk)
<1> DEFINE y == [Idle EXCEPT !.pc = "next", !.cron = TRUE, !.rows = handler[h].rows]
<1>1. handler[h] \in Handler
    BY DEF IInv, TypeOK
<1>2. y \in Handler /\ y.pc = "next" /\ y.rows = handler[h].rows
    BY <1>1 DEF Idle, Handler
<1>3. "next" \notin Busy
    BY DEF Busy
<1>4. CASE handler[h].cron
    <2>1. handler' = [handler EXCEPT ![h] = y]
        BY <1>4 DEF Leave
    <2> HIDE DEF y
    <2>2. \A soc, hk : (\A k \in handler[h].rows : hk[k] # NoRow) => HandlerOK(y, soc, hk)
        BY <1>2, <1>3 DEF HandlerOK
    <2> QED BY <2>1, <2>2
<1>5. CASE ~handler[h].cron
    BY <1>5, IdleOK DEF Leave
<1> QED BY <1>4, <1>5

\* Faults, and a batch that cannot be routed.
LEMMA LeaveStep ==
    ASSUME IInv, NEW h \in Handlers, Leave(h), UNCHANGED <<tables, admin>>,
           faults' \in 0..MaxFaults
    PROVE  IInv'
<1>1. PICK x : /\ handler' = [handler EXCEPT ![h] = x]
               /\ \A soc, hk : (\A k \in handler[h].rows : hk[k] # NoRow)
                                  => HandlerOK(x, soc, hk)
    BY Leaving
<1>2. \A k \in handler[h].rows : hook[k] # NoRow
    BY DEF IInv, HandlerInv, HandlerOK
<1>3. HandlerOK(x, social, hook)
    BY <1>1, <1>2
<1>4. bubble' \in [Outgoing -> Receipts \cup Unrecorded]
    BY DEF IInv, TypeOK, tables
<1> QED BY <1>1, <1>3, <1>4, QuietMove DEF tables, admin

\* A new batch gets a row of its own.
LEMMA WebhookStep ==
    ASSUME IInv, NEW h \in Handlers, NEW b \in Batches, Webhook(h, b)
    PROVE  IInv'
<1> DEFINE k == DedupeKey(b)
           c == Cardinality({j \in Keys : hook[j] # NoRow})
           r == [batch |-> b, done |-> FALSE, at |-> c]
           x == [Idle EXCEPT !.pc = "route", !.batch = b]
<1>1. k \in Keys /\ hook[k] = NoRow
    BY DEF Keys, Webhook, Stored
<1>2. r \in Row /\ r # NoRow
    <2>1. c \in Nat
        BY FS_CardinalityType DEF IInv, FiniteInv
    <2>2. c \in Nat => r \in Row
        BY DEF Row
    <2> HIDE DEF r
    <2> QED BY <2>1, <2>2, NullAssumption
<1>3. /\ hook' = [hook EXCEPT ![k] = r] /\ handler' = [handler EXCEPT ![h] = x]
      /\ UNCHANGED <<social, contacts, inbound, bubble, link, settings, links, faults>>
    BY DEF Webhook, Stored, admin
<1>4. hook \in [Keys -> Row \cup {NoRow}]
    BY DEF IInv, TypeOK
<1>5. /\ hook' \in [Keys -> Row \cup {NoRow}] /\ hook'[k] = r
      /\ \A j \in Keys \ {k} : hook'[j] = hook[j]
    BY <1>1, <1>2, <1>3, <1>4
<1>6. x \in Handler /\ x.pc = "route" /\ x.batch = b /\ x.rows = {}
    BY DEF Idle, Handler, Busy
<1>7. HandlerOK(x, social', hook')
    <2> HIDE DEF x, r
    <2> QED BY <1>2, <1>5, <1>6 DEF HandlerOK
<1>8. handler' \in [Handlers -> Handler] /\ HandlerInv'
    <2> HIDE DEF x, r, k
    <2> QED BY <1>1, <1>3, <1>5, <1>7, HandlerMoves
<1>9. RowInv'
    <2>1. r.batch = b /\ ~r.done
        OBVIOUS
    <2>2. DedupeKey(r.batch) = k
        OBVIOUS
    <2> HIDE DEF r, k
    <2>3. \A j \in Keys : hook[j] # NoRow =>
            /\ DedupeKey(hook[j].batch) = j
            /\ hook[j].done => \A m \in j \cap Messages : social[m] # NoRow /\ social[m].done
        BY DEF IInv, RowInv, Settled
    <2> QED BY <1>3, <1>5, <2>1, <2>2, <2>3 DEF RowInv, Settled
<1>10. FiniteInv'
    <2>1. {j \in Keys : hook'[j] # NoRow} = {j \in Keys : hook[j] # NoRow} \cup {k}
        <3> HIDE DEF r
        <3> QED BY <1>1, <1>2, <1>5
    <2> QED BY <2>1, FS_AddElement DEF IInv, FiniteInv
<1>11. TypeOK'
    BY <1>3, <1>5, <1>8 DEF IInv, TypeOK
<1> QED BY <1>8, <1>9, <1>10, <1>11 DEF IInv

\* The cron's steps between batches, and where a batch goes.
LEMMA RouteStep ==
    ASSUME IInv, NEW h \in Handlers,
           StartDrain(h) \/ TakeRow(h) \/ FinishDrain(h) \/ Resolve(h)
    PROVE  IInv'
<1>1. /\ handler[h] \in Handler /\ HandlerOK(handler[h], social, hook)
      /\ bubble \in [Outgoing -> Receipts \cup Unrecorded] /\ faults \in 0..MaxFaults
      /\ hook \in [Keys -> Row \cup {NoRow}] /\ settings \subseteq Workspaces
    BY DEF IInv, TypeOK, HandlerInv
<1>2. UNCHANGED <<tables, admin, faults>>
    BY DEF StartDrain, TakeRow, FinishDrain, Resolve
<1>3. UNCHANGED <<hook, social, contacts, inbound, link, settings, links, bubble, faults>>
    BY <1>2 DEF tables, admin
<1>4. CASE StartDrain(h)
    <2> DEFINE x == [Idle EXCEPT !.pc = "next", !.cron = TRUE, !.rows = Oldest]
    <2>1. Oldest \subseteq Keys /\ \A k \in Oldest : hook[k] # NoRow
        BY DEF Oldest, Pending, Stored
    <2>2. x \in Handler /\ x.pc = "next" /\ x.rows = Oldest
        BY <2>1 DEF Idle, Handler
    <2>3. handler' = [handler EXCEPT ![h] = x]
        BY <1>4 DEF StartDrain
    <2>4. HandlerOK(x, social, hook)
        <3> HIDE DEF x
        <3> QED BY <2>1, <2>2 DEF HandlerOK, Busy
    <2> HIDE DEF x
    <2> QED BY <1>1, <1>3, <2>3, <2>4, QuietMove
<1>5. CASE TakeRow(h)
    <2>1. PICK k \in handler[h].rows :
            handler' = [handler EXCEPT ![h].pc = "route", ![h].rows = @ \ {k},
                                       ![h].batch = hook[k].batch]
        BY <1>5 DEF TakeRow
    <2> DEFINE x == [handler[h] EXCEPT !.pc = "route", !.rows = @ \ {k},
                                       !.batch = hook[k].batch]
    <2>2. k \in Keys /\ hook[k] # NoRow
        BY <1>1 DEF Handler, HandlerOK
    <2>3. hook[k].batch \in Batches /\ DedupeKey(hook[k].batch) = k
        BY <1>1, <2>2 DEF Row, IInv, RowInv
    <2>4. /\ x \in Handler /\ x.pc = "route" /\ x.rows \subseteq handler[h].rows
          /\ x.batch = hook[k].batch
        BY <1>1, <2>3 DEF Handler, Busy
    <2>5. handler' = [handler EXCEPT ![h] = x]
        BY <2>1
    <2>6. HandlerOK(x, social, hook)
        <3> HIDE DEF x
        <3> QED BY <1>1, <2>2, <2>3, <2>4 DEF HandlerOK
    <2> HIDE DEF x
    <2> QED BY <1>1, <1>3, <2>5, <2>6, QuietMove
<1>6. CASE FinishDrain(h)
    BY <1>1, <1>3, <1>6, IdleOK, QuietMove DEF FinishDrain
<1>7. CASE Resolve(h)
    <2> DEFINE x == [handler[h] EXCEPT !.pc = "event", !.i = 1, !.ws = RouteOf(h)]
    <2>1. RouteOf(h) \in Workspaces \cup {Null}
        <3>1. (~handler[h].cron \/ HasMessage(handler[h].batch)) \in BOOLEAN
            BY <1>1 DEF Handler, HasMessage
        <3> QED BY <1>1, <3>1, Routed DEF RouteOf
    <2>2. CASE RouteOf(h) = Null
        BY <1>1, <1>2, <1>7, <2>2, LeaveStep DEF Resolve
    <2>3. CASE RouteOf(h) # Null
        <3>1. RouteOf(h) \in Workspaces /\ handler' = [handler EXCEPT ![h] = x]
            BY <1>7, <2>1, <2>3 DEF Resolve
        <3>2. /\ x \in Handler /\ x.pc = "event" /\ x.i = 1 /\ x.ws \in Workspaces
              /\ x.rows = handler[h].rows /\ x.batch = handler[h].batch
            BY <1>1, <3>1 DEF Handler, Busy
        <3>3. handler[h].pc = "route" /\ "route" \in Busy
            BY <1>7 DEF Resolve, At, Busy
        <3>4. handler[h].batch \in Batches
            BY <1>1, <3>3 DEF HandlerOK
        <3>5. \A j \in DOMAIN EventsOf[handler[h].batch] : ~(j < 1)
            BY <3>4, BatchAssumption
        <3>6. HandlerOK(x, social, hook)
            <4> HIDE DEF x
            <4> QED BY <1>1, <3>2, <3>3, <3>5 DEF HandlerOK
        <3> HIDE DEF x
        <3> QED BY <1>1, <1>3, <3>1, <3>6, QuietMove
    <2> QED BY <2>2, <2>3
<1> QED BY <1>4, <1>5, <1>6, <1>7

\* The message or receipt a handler is at.
LEMMA AtEvent ==
    ASSUME IInv, NEW h \in Handlers, handler[h].pc \in Busy \ {"route"}
    PROVE  /\ handler[h].batch \in Batches /\ handler[h].ws \in Workspaces
           /\ handler[h].i \in Nat \ {0}
           /\ Events(h) = EventsOf[handler[h].batch]
           /\ Current(h) = EventsOf[handler[h].batch][handler[h].i]
           /\ Len(Events(h)) \in Nat
           /\ handler[h].i <= Len(Events(h)) => handler[h].i \in DOMAIN Events(h)
<1>1. HandlerOK(handler[h], social, hook)
    BY DEF IInv, HandlerInv
<1>2. handler[h].batch \in Batches /\ handler[h].ws \in Workspaces /\ handler[h].i \in Nat \ {0}
    BY <1>1 DEF HandlerOK
<1>3. EventsOf[handler[h].batch] \in Seq(Event)
    BY <1>2, BatchAssumption
<1> QED BY <1>2, <1>3 DEF Events, Current

\* A handler goes to another step of the event it is at, or to the next event
\* when that one is settled.
LEMMA Going ==
    ASSUME IInv, NEW h \in Handlers, NEW pc \in Busy \ {"route"},
           handler[h].pc \in Busy \ {"route"}, NEW soc, NEW n \in BOOLEAN,
           \A m \in Messages :
               social[m] # NoRow => soc[m] # NoRow /\ (social[m].done => soc[m].done),
           pc \in {"check", "contact", "create"} =>
               /\ handler[h].i \in DOMAIN Events(h) /\ Current(h).kind = "message"
               /\ soc[Current(h).id] # NoRow,
           pc \in {"target", "apply"} =>
               handler[h].i \in DOMAIN Events(h) /\ Current(h).kind = "status",
           pc = "mark" => handler[h].i > Len(Events(h))
    PROVE  HandlerOK([handler[h] EXCEPT !.pc = pc, !.isNew = n], soc, hook)
<1> DEFINE a == handler[h]
           x == [a EXCEPT !.pc = pc, !.isNew = n]
<1>1. a \in Handler /\ HandlerOK(a, social, hook) /\ a.pc \in Busy \ {"route"}
    BY DEF IInv, HandlerInv, TypeOK
<1>2. x \in Handler /\ x.pc = pc /\ x.rows = a.rows /\ x.batch = a.batch /\ x.ws = a.ws /\ x.i = a.i
    BY <1>1 DEF Handler
<1>3. a.batch \in Batches /\ Events(h) = EventsOf[a.batch] /\ Current(h) = EventsOf[a.batch][a.i]
    BY AtEvent
<1>4. \A j \in DOMAIN EventsOf[a.batch] :
        EventsOf[a.batch][j].kind = "message" => EventsOf[a.batch][j].id \in Messages
    BY <1>3, Kinds
<1> HIDE DEF x
<1>5. HandlerOK(x, soc, hook)
    BY <1>1, <1>2, <1>3, <1>4 DEF HandlerOK
<1> QED BY <1>5 DEF x

LEMMA GoingTo ==
    ASSUME IInv, NEW h \in Handlers, NEW pc \in Busy \ {"route"}, Goto(h, pc),
           handler[h].pc \in Busy \ {"route"}, NEW soc,
           \A m \in Messages :
               social[m] # NoRow => soc[m] # NoRow /\ (social[m].done => soc[m].done),
           pc \in {"check", "contact", "create"} =>
               /\ handler[h].i \in DOMAIN Events(h) /\ Current(h).kind = "message"
               /\ soc[Current(h).id] # NoRow,
           pc \in {"target", "apply"} =>
               handler[h].i \in DOMAIN Events(h) /\ Current(h).kind = "status",
           pc = "mark" => handler[h].i > Len(Events(h))
    PROVE  \E x : HandlerOK(x, soc, hook) /\ handler' = [handler EXCEPT ![h] = x]
<1> DEFINE x == [handler[h] EXCEPT !.pc = pc, !.isNew = handler[h].isNew]
<1>1. handler[h] \in Handler /\ handler[h].isNew \in BOOLEAN
    BY DEF IInv, TypeOK, Handler
<1>2. handler' = [handler EXCEPT ![h] = x]
    BY <1>1 DEF Goto, Handler
<1>3. HandlerOK(x, soc, hook)
    BY <1>1, Going
<1> HIDE DEF x
<1> QED BY <1>2, <1>3

LEMMA Advancing ==
    ASSUME IInv, NEW h \in Handlers, Advance(h),
           handler[h].pc \in Busy \ {"route"}, NEW soc,
           \A m \in Messages :
               social[m] # NoRow => soc[m] # NoRow /\ (social[m].done => soc[m].done),
           /\ handler[h].i \in DOMAIN Events(h)
           /\ Current(h).kind = "message" => soc[Current(h).id] # NoRow /\ soc[Current(h).id].done
    PROVE  \E x : HandlerOK(x, soc, hook) /\ handler' = [handler EXCEPT ![h] = x]
<1> DEFINE a == handler[h]
           x == [a EXCEPT !.pc = "event", !.i = @ + 1]
<1>1. a \in Handler /\ HandlerOK(a, social, hook) /\ a.pc \in Busy \ {"route"}
    BY DEF IInv, HandlerInv, TypeOK
<1>2. /\ x \in Handler /\ x.pc = "event" /\ x.rows = a.rows /\ x.batch = a.batch
      /\ x.ws = a.ws /\ x.i = a.i + 1
    <2> DEFINE i == a.i + 1
    <2>1. i \in Nat
        BY <1>1 DEF Handler
    <2> HIDE DEF i
    <2>2. [a EXCEPT !.pc = "event", !.i = i] \in Handler
        BY <1>1, <2>1 DEF Handler, Busy
    <2> QED BY <1>1, <2>2 DEF Handler, i
<1>3. /\ a.batch \in Batches /\ Events(h) = EventsOf[a.batch]
      /\ Current(h) = EventsOf[a.batch][a.i] /\ a.i \in Nat \ {0}
    BY AtEvent
<1>4. \A j \in DOMAIN EventsOf[a.batch] :
        EventsOf[a.batch][j].kind = "message" => EventsOf[a.batch][j].id \in Messages
    BY <1>3, Kinds
<1>5. \A j \in DOMAIN EventsOf[a.batch] : j \in Nat
    BY <1>3, BatchAssumption
<1>6. handler' = [handler EXCEPT ![h] = x]
    BY DEF Advance
<1> HIDE DEF a, x
<1>7. \A j \in DOMAIN EventsOf[a.batch] :
        j < x.i /\ EventsOf[a.batch][j].kind = "message" =>
            soc[EventsOf[a.batch][j].id] # NoRow /\ soc[EventsOf[a.batch][j].id].done
    <2> SUFFICES ASSUME NEW j \in DOMAIN EventsOf[a.batch], j < x.i,
                        EventsOf[a.batch][j].kind = "message"
                 PROVE  soc[EventsOf[a.batch][j].id] # NoRow /\ soc[EventsOf[a.batch][j].id].done
        OBVIOUS
    <2>1. CASE j < a.i
        BY <1>1, <1>4, <2>1 DEF HandlerOK
    <2>2. CASE j = a.i
        BY <1>3, <2>2 DEF a
    <2> QED BY <1>2, <1>3, <1>5, <2>1, <2>2
<1>8. HandlerOK(x, soc, hook)
    BY <1>1, <1>2, <1>3, <1>7 DEF HandlerOK
<1> QED BY <1>6, <1>8

\* The steps of an event that write no message.
LEMMA EventStep ==
    ASSUME IInv, NEW h \in Handlers,
           \/ CheckProcessed(h) \/ FindContact(h) \/ FindTarget(h) \/ ApplyStatus(h)
    PROVE  IInv'
<1>1. /\ HandlerOK(handler[h], social, hook) /\ handler[h] \in Handler
      /\ bubble \in [Outgoing -> Receipts \cup Unrecorded] /\ faults \in 0..MaxFaults
    BY DEF IInv, TypeOK, HandlerInv
<1>2. handler[h].pc \in Busy \ {"route"}
    BY DEF CheckProcessed, FindContact, FindTarget, ApplyStatus, At, Busy
<1>3. /\ handler[h].batch \in Batches /\ Events(h) = EventsOf[handler[h].batch]
      /\ Current(h) = EventsOf[handler[h].batch][handler[h].i]
    BY <1>2, AtEvent
<1>4. handler[h].i \in DOMAIN Events(h)
    BY <1>1, <1>3
       DEF HandlerOK, CheckProcessed, FindContact, FindTarget, ApplyStatus, At
<1>5. /\ UNCHANGED <<hook, social, contacts, inbound, link, settings, links, faults>>
      /\ bubble' \in [Outgoing -> Receipts \cup Unrecorded]
    <2>1. CASE ApplyStatus(h)
        <3>1. Current(h).kind = "status"
            BY <1>1, <1>3, <2>1 DEF ApplyStatus, At, HandlerOK
        <3>2. Current(h).status \in Receipts
            BY <1>3, <1>4, <3>1, Kinds
        <3> QED BY <1>1, <2>1, <3>2 DEF ApplyStatus, admin
    <2>2. CASE CheckProcessed(h) \/ FindContact(h) \/ FindTarget(h)
        BY <1>1, <2>2 DEF CheckProcessed, FindContact, FindTarget, tables, admin
    <2> QED BY <2>1, <2>2
<1>6. \E x : HandlerOK(x, social, hook) /\ handler' = [handler EXCEPT ![h] = x]
    <2>2. ASSUME Advance(h),
                 Current(h).kind = "message" => social[Current(h).id] # NoRow
                                                /\ social[Current(h).id].done
          PROVE  \E x : HandlerOK(x, social, hook) /\ handler' = [handler EXCEPT ![h] = x]
        BY <1>2, <1>4, <2>2, Advancing
    <2>4. CASE CheckProcessed(h)
        <3>1. Current(h).kind = "message" /\ social[Current(h).id] # NoRow
            BY <1>1, <1>3, <2>4 DEF CheckProcessed, At, HandlerOK
        <3>2. CASE social[Current(h).id].done
            BY <2>2, <2>4, <3>1, <3>2 DEF CheckProcessed
        <3>3. CASE ~social[Current(h).id].done
            <4>1. Goto(h, "contact") /\ "contact" \in Busy \ {"route"}
                BY <2>4, <3>3 DEF CheckProcessed, Busy
            <4> QED BY <1>2, <1>4, <3>1, <4>1, GoingTo
        <3> QED BY <3>2, <3>3
    <2>5. CASE FindContact(h)
        <3> DEFINE n == contacts[handler[h].ws][Sender(h)] = 0
                   x == [handler[h] EXCEPT !.pc = "create", !.isNew = n]
        <3>1. Current(h).kind = "message" /\ social[Current(h).id] # NoRow
            BY <1>1, <1>3, <2>5 DEF FindContact, At, HandlerOK
        <3>2. "create" \in Busy \ {"route"} /\ n \in BOOLEAN
            BY DEF Busy
        <3>3. handler' = [handler EXCEPT ![h] = x]
            BY <2>5 DEF FindContact
        <3>4. HandlerOK(x, social, hook)
            <4> HIDE DEF n
            <4> QED BY <1>2, <1>4, <3>1, <3>2, Going
        <3> HIDE DEF x
        <3> QED BY <3>3, <3>4
    <2>6. CASE FindTarget(h)
        <3>1. Current(h).kind = "status"
            BY <1>1, <1>3, <2>6 DEF FindTarget, At, HandlerOK
        <3>2. Goto(h, "apply") \/ Advance(h)
            BY <2>6 DEF FindTarget
        <3>3. CASE Goto(h, "apply")
            <4>1. "apply" \in Busy \ {"route"}
                BY DEF Busy
            <4> QED BY <1>2, <1>4, <3>1, <3>3, <4>1, GoingTo
        <3>4. CASE Advance(h)
            BY <2>2, <3>1, <3>4
        <3> QED BY <3>2, <3>3, <3>4
    <2>7. CASE ApplyStatus(h)
        <3>1. Current(h).kind = "status"
            BY <1>1, <1>3, <2>7 DEF ApplyStatus, At, HandlerOK
        <3> QED BY <2>2, <2>7, <3>1 DEF ApplyStatus
    <2> QED BY <2>4, <2>5, <2>6, <2>7
<1> QED BY <1>1, <1>5, <1>6, QuietMove

\* The steps that write a message or its processedAt.
LEMMA MessageStep ==
    ASSUME IInv, NEW h \in Handlers, NextEvent(h) \/ CreateActivity(h)
    PROVE  IInv'
<1> DEFINE m == Current(h).id
<1>1. /\ HandlerOK(handler[h], social, hook) /\ handler[h] \in Handler
      /\ social \in [Messages -> Social \cup {NoRow}]
    BY DEF IInv, TypeOK, HandlerInv
<1>2. handler[h].pc \in Busy \ {"route"}
    BY DEF NextEvent, CreateActivity, At, Busy
<1>3. /\ handler[h].batch \in Batches /\ Events(h) = EventsOf[handler[h].batch]
      /\ Current(h) = EventsOf[handler[h].batch][handler[h].i]
      /\ handler[h].ws \in Workspaces
      /\ handler[h].i \in Nat \ {0} /\ Len(Events(h)) \in Nat
      /\ handler[h].i <= Len(Events(h)) => handler[h].i \in DOMAIN Events(h)
    BY <1>2, AtEvent
<1>4. UNCHANGED <<hook, bubble, link, settings, links, faults>>
    BY DEF NextEvent, CreateActivity, admin
<1>5. handler[h].i \in DOMAIN Events(h) /\ Current(h).kind = "message" =>
          m \in Messages /\ FromOf[m] \in Senders
    BY <1>3, Kinds
<1>8. /\ social' \in [Messages -> Social \cup {NoRow}]
      /\ \A q \in Messages :
           social[q] # NoRow => social'[q] # NoRow /\ (social[q].done => social'[q].done)
      /\ \E x : HandlerOK(x, social', hook) /\ handler' = [handler EXCEPT ![h] = x]
    <2>1. CASE NextEvent(h) /\ handler[h].i > Len(Events(h))
        <3>1. UNCHANGED social /\ Goto(h, "mark")
            <4>1. ~(handler[h].i <= Len(Events(h)))
                BY <1>3, <2>1
            <4> QED BY <2>1, <4>1, Zenon DEF NextEvent
        <3>2. "mark" \in Busy \ {"route"}
            BY DEF Busy
        <3>3. \E x : HandlerOK(x, social, hook) /\ handler' = [handler EXCEPT ![h] = x]
            BY <1>2, <2>1, <3>1, <3>2, GoingTo
        <3> QED BY <1>1, <3>1, <3>3
    <2>2. CASE NextEvent(h) /\ handler[h].i <= Len(Events(h)) /\ Current(h).kind = "status"
        <3>1. UNCHANGED social /\ Goto(h, "target")
            BY <1>3, <2>2 DEF NextEvent
        <3>2. "target" \in Busy \ {"route"} /\ handler[h].i \in DOMAIN Events(h)
            BY <1>3, <2>2 DEF Busy
        <3>3. \E x : HandlerOK(x, social, hook) /\ handler' = [handler EXCEPT ![h] = x]
            BY <1>2, <2>2, <3>1, <3>2, GoingTo
        <3> QED BY <1>1, <3>1, <3>3
    <2>3. CASE NextEvent(h) /\ handler[h].i <= Len(Events(h)) /\ Current(h).kind = "message"
        <3>1. /\ social' = IF social[m] # NoRow THEN social
                           ELSE [social EXCEPT ![m] = [ws |-> handler[h].ws, done |-> FALSE]]
              /\ IF social'[m].done THEN Advance(h) ELSE Goto(h, "check")
            <4>1. ~(handler[h].i > Len(Events(h))) /\ Current(h).kind # "status"
                BY <1>3, <2>3
            <4> QED BY <2>3, <4>1, Zenon DEF NextEvent
        <3>2. handler[h].i \in DOMAIN Events(h) /\ m \in Messages
            BY <1>3, <1>5, <2>3
        <3>3. [ws |-> handler[h].ws, done |-> FALSE] \in Social
            BY <1>3 DEF Social
        <3>4. /\ social' \in [Messages -> Social \cup {NoRow}] /\ social'[m] # NoRow
              /\ \A q \in Messages :
                   social[q] # NoRow => social'[q] # NoRow /\ (social[q].done => social'[q].done)
            BY <1>1, <3>1, <3>2, <3>3, NullAssumption
        <3>5. CASE social'[m].done
            BY <1>2, <3>1, <3>2, <3>4, <3>5, Advancing
        <3>6. CASE ~social'[m].done
            <4>1. Goto(h, "check") /\ "check" \in Busy \ {"route"}
                BY <3>1, <3>6 DEF Busy
            <4>2. \E x : HandlerOK(x, social', hook) /\ handler' = [handler EXCEPT ![h] = x]
                BY <1>2, <2>3, <3>2, <3>4, <4>1, GoingTo
            <4> QED BY <3>4, <4>2
        <3> QED BY <3>4, <3>5, <3>6
    <2>4. CASE CreateActivity(h)
        <3>1. /\ handler[h].i \in DOMAIN Events(h) /\ Current(h).kind = "message"
              /\ social[m] # NoRow
            BY <1>1, <1>3, <2>4 DEF CreateActivity, At, HandlerOK
        <3>2. m \in Messages
            BY <1>5, <3>1
        <3>3. social' = [social EXCEPT ![m].done = TRUE] /\ Advance(h)
            BY <2>4 DEF CreateActivity
        <3>4. social[m] \in Social
            BY <1>1, <3>1, <3>2
        <3>5. [social[m] EXCEPT !.done = TRUE] \in Social
            BY <3>4 DEF Social
        <3>6. /\ social' \in [Messages -> Social \cup {NoRow}]
              /\ social'[m] = [social[m] EXCEPT !.done = TRUE]
              /\ \A q \in Messages \ {m} : social'[q] = social[q]
            BY <1>1, <3>2, <3>3, <3>5
        <3>7. social'[m] # NoRow /\ social'[m].done
            BY <3>4, <3>5, <3>6, NullAssumption DEF Social
        <3>8. \A q \in Messages :
                 social[q] # NoRow => social'[q] # NoRow /\ (social[q].done => social'[q].done)
            BY <3>6, <3>7
        <3> HIDE DEF m
        <3>9. \E x : HandlerOK(x, social', hook) /\ handler' = [handler EXCEPT ![h] = x]
            BY <1>2, <3>1, <3>3, <3>7, <3>8, Advancing DEF m
        <3> QED BY <3>6, <3>8, <3>9
    <2>5. handler[h].i > Len(Events(h)) \/ handler[h].i <= Len(Events(h))
        BY <1>3, BatchAssumption
    <2>6. handler[h].i \in DOMAIN Events(h) => Current(h).kind \in {"message", "status"}
        BY <1>3, Kinds
    <2> QED BY <1>3, <2>1, <2>2, <2>3, <2>4, <2>5, <2>6
<1>9. /\ contacts' \in [Workspaces -> [Senders -> Nat]]
      /\ inbound' \in [Workspaces -> [Messages -> Nat]]
    <2>1. /\ contacts \in [Workspaces -> [Senders -> Nat]]
          /\ inbound \in [Workspaces -> [Messages -> Nat]]
        BY DEF IInv, TypeOK
    <2>2. CASE NextEvent(h)
        BY <2>1, <2>2 DEF NextEvent
    <2>3. CASE CreateActivity(h)
        <3>1. m \in Messages /\ Sender(h) \in Senders
            BY <1>1, <1>3, <1>5, <2>3 DEF CreateActivity, At, HandlerOK, Sender
        <3>2. inbound' = [inbound EXCEPT ![handler[h].ws][m] = @ + 1]
            BY <2>3 DEF CreateActivity
        <3>3. contacts' \in {contacts, [contacts EXCEPT ![handler[h].ws][Sender(h)] = @ + 1]}
            BY <2>3 DEF CreateActivity
        <3> DEFINE w == handler[h].ws
        <3>4. w \in Workspaces
            BY <1>3
        <3>5. /\ inbound[w] \in [Messages -> Nat] /\ inbound[w][m] + 1 \in Nat
              /\ contacts[w] \in [Senders -> Nat] /\ contacts[w][Sender(h)] + 1 \in Nat
            BY <2>1, <3>1, <3>4
        <3>6. inbound' = [inbound EXCEPT ![w] = [inbound[w] EXCEPT ![m] = inbound[w][m] + 1]]
            BY <3>2
        <3>7. contacts' \in {contacts, [contacts EXCEPT ![w] =
                   [contacts[w] EXCEPT ![Sender(h)] = contacts[w][Sender(h)] + 1]]}
            BY <3>3
        <3> HIDE DEF m, w
        <3>8. inbound' \in [Workspaces -> [Messages -> Nat]]
            BY <2>1, <3>1, <3>4, <3>5, <3>6
        <3>9. contacts' \in [Workspaces -> [Senders -> Nat]]
            <4> DEFINE row == [contacts[w] EXCEPT ![Sender(h)] = contacts[w][Sender(h)] + 1]
            <4>1. row \in [Senders -> Nat]
                BY <3>1, <3>5
            <4> HIDE DEF row
            <4> QED BY <2>1, <3>4, <3>7, <4>1 DEF row
        <3> QED BY <3>8, <3>9
    <2> QED BY <2>2, <2>3
<1>10. handler' \in [Handlers -> Handler] /\ HandlerInv'
    <2>1. PICK x : HandlerOK(x, social', hook) /\ handler' = [handler EXCEPT ![h] = x]
        BY <1>8
    <2> QED BY <1>4, <1>8, <2>1, HandlerMoves
<1>11. RowInv' /\ FiniteInv'
    BY <1>4, <1>8 DEF IInv, RowInv, FiniteInv, Settled
<1>12. TypeOK'
    BY <1>4, <1>8, <1>9, <1>10 DEF IInv, TypeOK
<1> QED BY <1>10, <1>11, <1>12 DEF IInv

\* A batch whose handler came to its end is done with all its messages.
LEMMA MarkStep ==
    ASSUME IInv, NEW h \in Handlers, MarkBatch(h)
    PROVE  IInv'
<1> DEFINE a == handler[h]
           k == DedupeKey(a.batch)
           r == [hook[k] EXCEPT !.done = TRUE]
<1>1. /\ HandlerOK(a, social, hook) /\ a.pc = "mark" /\ a.pc \in Busy \ {"route"}
      /\ hook \in [Keys -> Row \cup {NoRow}]
    BY DEF IInv, HandlerInv, TypeOK, MarkBatch, At, Busy
<1>2. /\ a.batch \in Batches /\ hook[k] # NoRow /\ k \in Keys
      /\ a.i \in Nat /\ a.i > Len(EventsOf[a.batch])
      /\ EventsOf[a.batch] \in Seq(Event)
    BY <1>1, BatchAssumption DEF HandlerOK, Keys
<1>3. \A q \in k \cap Messages : Settled(q)
    <2> SUFFICES ASSUME NEW q \in k, q \in Messages PROVE Settled(q)
        OBVIOUS
    <2>1. PICK j \in DOMAIN EventsOf[a.batch] : EventsOf[a.batch][j].id = q
        BY DEF DedupeKey
    <2>2. EventsOf[a.batch][j].kind = "message"
        BY <1>2, <2>1, Kinds
    <2>3. j < a.i
        BY <1>2
    <2> QED BY <1>1, <2>1, <2>2, <2>3 DEF HandlerOK, Settled
<1>4. hook[k] \in Row /\ r \in Row /\ r # NoRow /\ r.batch = hook[k].batch
    <2>1. hook[k] \in Row
        BY <1>1, <1>2
    <2>2. r \in Row /\ r.batch = hook[k].batch
        BY <2>1 DEF Row
    <2> HIDE DEF r
    <2> QED BY <2>1, <2>2, NullAssumption
<1>5. /\ hook' = [hook EXCEPT ![k] = r]
      /\ UNCHANGED <<social, contacts, inbound, bubble, link, settings, links, faults>>
    BY <1>1, <1>2 DEF MarkBatch, admin
<1> HIDE DEF r
<1>6. /\ hook' \in [Keys -> Row \cup {NoRow}] /\ hook'[k] = r
      /\ \A j \in Keys \ {k} : hook'[j] = hook[j]
    BY <1>1, <1>2, <1>4, <1>5
<1> HIDE DEF k, a
<1>7. handler' \in [Handlers -> Handler] /\ HandlerInv'
    <2>1. PICK x : /\ handler' = [handler EXCEPT ![h] = x]
                   /\ \A soc, hk : (\A j \in a.rows : hk[j] # NoRow) => HandlerOK(x, soc, hk)
        BY Leaving DEF MarkBatch, a
    <2>2. \A j \in Keys : hook[j] # NoRow => hook'[j] # NoRow
        BY <1>4, <1>6
    <2>3. a.rows \subseteq Keys /\ \A j \in a.rows : hook[j] # NoRow
        BY <1>1 DEF HandlerOK, Handler
    <2>4. HandlerOK(x, social', hook')
        BY <2>1, <2>2, <2>3
    <2> QED BY <1>5, <2>1, <2>2, <2>4, HandlerMoves
<1>8. RowInv'
    <2>1. \A j \in Keys : hook[j] # NoRow =>
            /\ DedupeKey(hook[j].batch) = j
            /\ hook[j].done => \A q \in j \cap Messages : Settled(q)
        BY DEF IInv, RowInv
    <2>2. ASSUME NEW j \in Keys, hook'[j] # NoRow
          PROVE  /\ DedupeKey(hook'[j].batch) = j
                 /\ hook'[j].done => \A q \in j \cap Messages : Settled(q)
        <3>1. CASE j = k
            BY <1>2, <1>3, <1>4, <1>6, <2>1, <3>1
        <3>2. CASE j # k
            BY <1>6, <2>1, <2>2, <3>2
        <3> QED BY <3>1, <3>2
    <2> QED BY <1>5, <2>2 DEF RowInv, Settled
<1>9. FiniteInv'
    <2>1. {j \in Keys : hook'[j] # NoRow} = {j \in Keys : hook[j] # NoRow}
        BY <1>2, <1>4, <1>6
    <2> QED BY <2>1 DEF IInv, FiniteInv
<1>10. TypeOK'
    BY <1>5, <1>6, <1>7 DEF IInv, TypeOK
<1> QED BY <1>7, <1>8, <1>9, <1>10 DEF IInv

\* Faults, the settings of the link, and the outbox.
LEMMA OtherStep ==
    ASSUME IInv,
           \/ \E h \in Handlers : Fail(h) \/ Crash(h)
           \/ \E w \in Workspaces : Connect(w) \/ NeedsReauth(w) \/ Disconnect(w)
           \/ \E o \in Outgoing : Send(o) \/ RecordSend(o) \/ RecordSendFails(o)
    PROVE  IInv'
<1>1. /\ bubble \in [Outgoing -> Receipts \cup Unrecorded] /\ faults \in 0..MaxFaults
      /\ link \in [Workspaces -> Link] /\ settings \subseteq Workspaces
      /\ links \in 0..MaxLinks /\ {MaxLinks, MaxFaults} \subseteq Nat
    BY BoundAssumption DEF IInv, TypeOK
<1>2. ASSUME NEW h \in Handlers, Fail(h) PROVE IInv'
    BY <1>1, <1>2, LeaveStep DEF Fail
<1>3. ASSUME NEW h \in Handlers, Crash(h) PROVE IInv'
    <2>1. faults' \in 0..MaxFaults
        BY <1>1, <1>3 DEF Crash
    <2> QED BY <1>1, <1>3, <2>1, IdleOK, QuietMove DEF Crash, tables, admin
<1>4. ASSUME UNCHANGED <<hook, social, contacts, inbound, handler>>,
             bubble' \in [Outgoing -> Receipts \cup Unrecorded],
             link' \in [Workspaces -> Link], settings' \subseteq Workspaces,
             links' \in 0..MaxLinks, faults' \in 0..MaxFaults
      PROVE  IInv'
    BY <1>4 DEF IInv, TypeOK, HandlerInv, RowInv, FiniteInv, Settled
<1>5. ASSUME NEW w \in Workspaces, Connect(w) \/ NeedsReauth(w) \/ Disconnect(w)
      PROVE  IInv'
    <2>1. UNCHANGED <<hook, social, contacts, inbound, bubble, handler, faults>>
        BY <1>5 DEF Connect, NeedsReauth, Disconnect, tables
    <2>2. link' \in [Workspaces -> Link]
        BY <1>1, <1>5 DEF Connect, NeedsReauth, Disconnect, Link
    <2>3. settings' \subseteq Workspaces
        BY <1>1, <1>5 DEF Connect, NeedsReauth, Disconnect
    <2>4. links' \in 0..MaxLinks
        BY <1>1, <1>5 DEF Connect, NeedsReauth, Disconnect
    <2> QED BY <1>1, <1>4, <2>1, <2>2, <2>3, <2>4
<1>6. ASSUME NEW o \in Outgoing, Send(o) \/ RecordSend(o) \/ RecordSendFails(o)
      PROVE  IInv'
    <2>1. /\ UNCHANGED <<hook, social, contacts, inbound, settings, handler, links>>
          /\ faults' \in 0..MaxFaults
        BY <1>1, <1>6 DEF Send, RecordSend, RecordSendFails, admin
    <2>2. bubble' \in [Outgoing -> Receipts \cup Unrecorded]
        BY <1>1, <1>6 DEF Send, RecordSend, RecordSendFails, Receipts, Unrecorded
    <2>3. link' \in [Workspaces -> Link]
        BY <1>1, <1>6 DEF Send, RecordSend, RecordSendFails, admin, Link
    <2> QED BY <1>1, <1>4, <2>1, <2>2, <2>3
<1> QED BY <1>2, <1>3, <1>5, <1>6

-----------------------------------------------------------------------------
(* The invariant and what it shows *)

LEMMA InitIInv == ASSUME Init PROVE IInv
<1>1. TypeOK
    <2>1. contacts \in [Workspaces -> [Senders -> Nat]]
        <3>1. contacts \in [Workspaces -> [Senders -> 0..1]] /\ 0..1 \subseteq Nat
            BY DEF Init
        <3> QED BY <3>1
    <2>2. handler \in [Handlers -> Handler]
        BY IdleOK DEF Init, HandlerOK
    <2> QED BY <2>1, <2>2, BoundAssumption
        DEF Init, TypeOK, Unrecorded, Link
<1>2. HandlerInv
    BY IdleOK DEF Init, HandlerInv
<1>3. \A k \in Keys : hook[k] = NoRow
    BY DEF Init
<1>4. RowInv
    BY <1>3 DEF RowInv
<1>5. FiniteInv
    <2>1. {k \in Keys : hook[k] # NoRow} = {}
        BY <1>3
    <2> QED BY <2>1, FS_EmptySet DEF FiniteInv
<1> QED BY <1>1, <1>2, <1>4, <1>5 DEF IInv

LEMMA NextIInv == ASSUME IInv, [Next]_vars PROVE IInv'
<1>1. CASE UNCHANGED vars
    BY <1>1 DEF vars, IInv, TypeOK, HandlerInv, RowInv, FiniteInv, Settled
<1>2. CASE Next
    <2>1. ASSUME NEW h \in Handlers, NEW b \in Batches, Webhook(h, b) PROVE IInv'
        BY <2>1, WebhookStep
    <2>2. ASSUME NEW h \in Handlers, StartDrain(h) PROVE IInv'
        BY <2>2, RouteStep
    <2>3. ASSUME NEW h \in Handlers, Step(h) PROVE IInv'
        BY <2>3, RouteStep, EventStep, MessageStep, MarkStep DEF Step
    <2> QED BY <1>2, <2>1, <2>2, <2>3, OtherStep DEF Next
<1> QED BY <1>1, <1>2

LEMMA Invariant == Spec => []IInv
<1>1. Init => IInv
    BY InitIInv
<1>2. IInv /\ [Next]_vars => IInv'
    BY NextIInv
<1> QED BY <1>1, <1>2, PTL DEF Spec

\* Every state of the webhook, the cron, the link and the outbox is one the
\* code can store: statuses of bubbles and links come from their own sets.
THEOREM TypeCorrect == Spec => []TypeOK
<1>1. IInv => TypeOK
    BY DEF IInv
<1> QED BY <1>1, Invariant, PTL

\* However the handlers interleave and whichever of them die, a batch whose row
\* is marked processed has all its messages ingested; it follows from a key
\* that names the messages of every batch that shares it.
THEOREM ProcessedMeansIngested == Spec => []ProcessedIsIngested
<1>1. IInv => ProcessedIsIngested
    <2> SUFFICES ASSUME IInv, NEW b \in Batches, Stored(DedupeKey(b)),
                        hook[DedupeKey(b)].done, NEW j \in DOMAIN EventsOf[b],
                        EventsOf[b][j].kind = "message"
                 PROVE  Settled(EventsOf[b][j].id)
        BY DEF ProcessedIsIngested
    <2> DEFINE k == DedupeKey(b)
               m == EventsOf[b][j].id
    <2>1. k \in Keys /\ m \in k \cap Messages
        BY Kinds DEF Keys
    <2>2. hook[k] # NoRow /\ hook[k].done
        BY DEF Stored
    <2> HIDE DEF k, m
    <2>3. Settled(m)
        BY <2>1, <2>2 DEF IInv, RowInv
    <2> QED BY <2>3 DEF m
<1> QED BY <1>1, Invariant, PTL

-----------------------------------------------------------------------------
(* Copies of a message, and contacts of a sender *)

\* x has read that message m is not processed and may still write it.
Holds(x, m) == x.pc \in {"contact", "create"} /\ EventsOf[x.batch][x.i].id = m

\* x found no contact for sender s and will create one in ws.
Creates(x, ws, s) ==
    x.pc = "create" /\ x.isNew /\ x.ws = ws /\ FromOf[EventsOf[x.batch][x.i].id] = s

Holders(m) == {h \in Handlers : Holds(handler[h], m)}
Creators(ws, s) == {h \in Handlers : Creates(handler[h], ws, s)}

\* A copy costs one handler: those that may still write the message and the
\* copies written already are together no more than the handlers there are.
CopyInv ==
    \A m \in Messages :
        /\ IsFiniteSet(Activities(m))
        /\ Settled(m) <=> Activities(m) # {}
        /\ Copies(m) + Cardinality(Holders(m)) <= Cardinality(Handlers)

ContactInv ==
    \A ws \in Workspaces, s \in Senders :
        contacts[ws][s] + Cardinality(Creators(ws, s)) <= Cardinality(Handlers)

LEMMA HandlerCount ==
    ASSUME NEW S \in SUBSET Handlers, NEW T \in SUBSET S
    PROVE  /\ IsFiniteSet(S) /\ IsFiniteSet(T)
           /\ Cardinality(S) \in Nat /\ Cardinality(T) \in Nat
           /\ Cardinality(Handlers) \in Nat
           /\ Cardinality(S) <= Cardinality(Handlers)
           /\ Cardinality(T) <= Cardinality(S)
           /\ \A h \in S \ T : Cardinality(T) + 1 <= Cardinality(S)
<1>1. IsFiniteSet(S) /\ Cardinality(S) <= Cardinality(Handlers)
    BY HandlerAssumption, FS_Subset
<1>2. /\ IsFiniteSet(T) /\ Cardinality(T) <= Cardinality(S)
      /\ Cardinality(S) = Cardinality(T) => S = T
    BY <1>1, FS_Subset
<1>3. /\ Cardinality(S) \in Nat /\ Cardinality(T) \in Nat
      /\ Cardinality(Handlers) \in Nat
    BY <1>1, <1>2, HandlerAssumption, FS_CardinalityType
<1>4. \A h \in S \ T : Cardinality(T) + 1 <= Cardinality(S)
    <2>1. ASSUME NEW h \in S \ T PROVE Cardinality(S) # Cardinality(T)
        BY <1>2, <2>1
    <2> QED BY <1>2, <1>3, <2>1
<1> QED BY <1>1, <1>2, <1>3, <1>4

\* One handler moves and writes neither activity nor contact: it joins those
\* that may write only while there is nothing written.
LEMMA CountsKept ==
    ASSUME IInv, CopyInv, ContactInv, NEW h \in Handlers,
           \A g \in Handlers \ {h} : handler'[g] = handler[g],
           UNCHANGED <<contacts, inbound>>,
           \A m \in Messages : Settled(m)' <=> Settled(m),
           \A m \in Messages :
               Holds(handler'[h], m) => Holds(handler[h], m) \/ ~Settled(m),
           \A ws \in Workspaces, s \in Senders :
               Creates(handler'[h], ws, s) =>
                   Creates(handler[h], ws, s) \/ contacts[ws][s] = 0
    PROVE  CopyInv' /\ ContactInv'
<1>1. ASSUME NEW m \in Messages
      PROVE  /\ IsFiniteSet(Activities(m)') /\ (Settled(m)' <=> Activities(m)' # {})
             /\ Copies(m)' + Cardinality(Holders(m)') <= Cardinality(Handlers)
    <2>1. Activities(m)' = Activities(m)
        BY DEF Activities
    <2>2. /\ IsFiniteSet(Activities(m)) /\ (Settled(m) <=> Activities(m) # {})
          /\ Copies(m) + Cardinality(Holders(m)) <= Cardinality(Handlers)
        BY DEF CopyInv
    <2>3. Copies(m)' = Copies(m) /\ Copies(m) \in Nat
        BY <2>1, <2>2, FS_CardinalityType DEF Copies
    <2>4. Holders(m)' = {g \in Handlers : Holds(handler'[g], m)}
        BY DEF Holders, Holds
    <2>5. Copies(m) + Cardinality(Holders(m)') <= Cardinality(Handlers)
        <3>1. CASE Settled(m)
            <4>1. Holders(m)' \subseteq Holders(m) /\ Holders(m) \subseteq Handlers
                BY <2>4, <3>1 DEF Holders
            <4> QED BY <2>2, <2>3, <4>1, HandlerCount
        <3>2. CASE ~Settled(m)
            <4>1. Copies(m) = 0
                BY <2>2, <3>2, FS_EmptySet DEF Copies
            <4>2. Holders(m)' \subseteq Handlers
                BY <2>4
            <4> QED BY <4>1, <4>2, HandlerCount
        <3> QED BY <3>1, <3>2
    <2> QED BY <2>1, <2>2, <2>3, <2>5
<1>2. ASSUME NEW ws \in Workspaces, NEW s \in Senders
      PROVE  contacts'[ws][s] + Cardinality(Creators(ws, s)') <= Cardinality(Handlers)
    <2>1. Creators(ws, s)' = {g \in Handlers : Creates(handler'[g], ws, s)}
        BY DEF Creators, Creates
    <2>2. /\ contacts'[ws][s] = contacts[ws][s] /\ contacts[ws][s] \in Nat
          /\ contacts[ws][s] + Cardinality(Creators(ws, s)) <= Cardinality(Handlers)
        BY DEF IInv, TypeOK, ContactInv
    <2>3. CASE contacts[ws][s] = 0
        <3>1. Creators(ws, s)' \subseteq Handlers
            BY <2>1
        <3> QED BY <2>2, <2>3, <3>1, HandlerCount
    <2>4. CASE contacts[ws][s] # 0
        <3>1. /\ Creators(ws, s)' \subseteq Creators(ws, s)
              /\ Creators(ws, s) \subseteq Handlers
            BY <2>1, <2>4 DEF Creators
        <3> QED BY <2>2, <3>1, HandlerCount
    <2> QED BY <2>3, <2>4
<1>3. CopyInv'
    BY <1>1 DEF CopyInv
<1>4. ContactInv'
    BY <1>2 DEF ContactInv
<1> QED BY <1>3, <1>4

\* The transaction: the handler that held the message no longer does.
LEMMA CountsAfterCreate ==
    ASSUME IInv, CopyInv, ContactInv, NEW h \in Handlers, CreateActivity(h)
    PROVE  CopyInv' /\ ContactInv'
<1>1. PICK w \in Workspaces : w = handler[h].ws
    <2>1. handler[h].pc \in Busy \ {"route"}
        BY DEF CreateActivity, At, Busy
    <2> QED BY <2>1, AtEvent
<1>2. /\ handler[h].pc = "create" /\ "create" \in Busy \ {"route"}
      /\ HandlerOK(handler[h], social, hook)
      /\ handler \in [Handlers -> Handler]
    BY DEF CreateActivity, At, Busy, IInv, HandlerInv, TypeOK
<1>3. /\ handler[h].batch \in Batches
      /\ Current(h) = EventsOf[handler[h].batch][handler[h].i]
    BY <1>2, AtEvent
<1>4. PICK m \in Messages : m = Current(h).id /\ FromOf[m] \in Senders
    BY <1>2, <1>3, Kinds DEF HandlerOK
<1>5. PICK s \in Senders : s = FromOf[m]
    BY <1>4
<1>6. Sender(h) = s /\ EventsOf[handler[h].batch][handler[h].i].id = m
    BY <1>3, <1>4, <1>5 DEF Sender
<1>7. /\ handler'[h].pc = "event"
      /\ \A g \in Handlers \ {h} : handler'[g] = handler[g]
    <2>1. /\ handler' = [handler EXCEPT ![h].pc = "event", ![h].i = @ + 1]
          /\ handler \in [Handlers -> Handler]
        BY <1>2 DEF CreateActivity, Advance
    <2>2. handler[h] \in Handler
        BY <1>2
    <2>3. DOMAIN handler[h] = {"pc", "rows", "cron", "batch", "ws", "i", "isNew"}
        BY <2>2 DEF Handler
    <2> QED BY <2>1, <2>3
<1>8. /\ inbound' = [inbound EXCEPT ![w][m] = @ + 1]
      /\ social' = [social EXCEPT ![m].done = TRUE]
      /\ contacts' = IF handler[h].isNew THEN [contacts EXCEPT ![w][s] = @ + 1] ELSE contacts
    BY <1>1, <1>4, <1>6 DEF CreateActivity
<1>9. /\ inbound \in [Workspaces -> [Messages -> Nat]]
      /\ contacts \in [Workspaces -> [Senders -> Nat]]
      /\ social \in [Messages -> Social \cup {NoRow}]
      /\ social[m] # NoRow
    BY <1>2, <1>3, <1>4 DEF IInv, TypeOK, HandlerOK
<1>10. Settled(m)' /\ \A q \in Messages \ {m} : (Settled(q)' <=> Settled(q))
    <2>1. social[m] \in Social
        BY <1>9
    <2>2. PICK r : r = [social[m] EXCEPT !.done = TRUE]
        OBVIOUS
    <2>3. r \in Social /\ r.done /\ r # NoRow
        BY <2>1, <2>2, NullAssumption DEF Social
    <2>4. social' = [social EXCEPT ![m] = r]
        BY <1>8, <2>2
    <2> QED BY <1>9, <2>3, <2>4 DEF Settled
<1>11. ASSUME NEW q \in Messages
       PROVE  /\ Holders(q)' \subseteq Holders(q) /\ Holders(q) \subseteq Handlers
              /\ q = m => h \in Holders(q) \ Holders(q)'
    <2>1. Holders(q)' = {g \in Handlers : Holds(handler'[g], q)}
        BY DEF Holders, Holds
    <2>2. ~Holds(handler'[h], q)
        BY <1>7 DEF Holds
    <2>3. q = m => Holds(handler[h], q)
        BY <1>2, <1>6 DEF Holds
    <2> QED BY <1>7, <2>1, <2>2, <2>3 DEF Holders
<1>12. PICK n \in Nat : n = inbound[w][m]
    BY <1>9
<1>13. /\ inbound'[w][m] = n + 1
       /\ \A v \in Workspaces, q \in Messages :
             <<v, q>> # <<w, m>> => inbound'[v][q] = inbound[v][q]
    <2>1. inbound' = [inbound EXCEPT ![w] = [inbound[w] EXCEPT ![m] = n + 1]]
        BY <1>8, <1>12
    <2> QED BY <1>9, <2>1
<1>14. ASSUME NEW q \in Messages
       PROVE  /\ IsFiniteSet(Activities(q)') /\ (Settled(q)' <=> Activities(q)' # {})
              /\ Copies(q)' + Cardinality(Holders(q)') <= Cardinality(Handlers)
    <2>1. /\ IsFiniteSet(Activities(q)) /\ (Settled(q) <=> Activities(q) # {})
          /\ Copies(q) + Cardinality(Holders(q)) <= Cardinality(Handlers)
        BY DEF CopyInv
    <2>2. Copies(q) \in Nat
        BY <2>1, FS_CardinalityType DEF Copies
    <2>3. Activities(q)' = UNION {{ws} \X (1..inbound'[ws][q]) : ws \in Workspaces}
        BY DEF Activities
    <2>4. CASE q = m
        <3>1. Activities(m)' = Activities(m) \cup {<<w, n + 1>>}
            <4>1. 1..(n + 1) = (1..n) \cup {n + 1}
                OBVIOUS
            <4>2. ASSUME NEW p
                  PROVE  p \in Activities(m)' <=> p \in Activities(m) \cup {<<w, n + 1>>}
                <5>1. p \in Activities(m)' <=>
                        \E ws \in Workspaces : \E j \in 1..inbound'[ws][m] : p = <<ws, j>>
                    BY <2>3, <2>4
                <5>2. p \in Activities(m) <=>
                        \E ws \in Workspaces : \E j \in 1..inbound[ws][m] : p = <<ws, j>>
                    BY DEF Activities
                <5>3. n + 1 \in 1..(n + 1)
                    OBVIOUS
                <5> QED BY <1>12, <1>13, <4>1, <5>1, <5>2, <5>3
            <4> QED BY <4>2
        <3>2. /\ IsFiniteSet(Activities(m)') /\ Activities(m)' # {}
              /\ Cardinality(Activities(m)') <= Copies(m) + 1
            <4> DEFINE S == Activities(m)
            <4>1. IsFiniteSet(S) /\ Cardinality(S) = Copies(m) /\ Copies(m) \in Nat
                BY <2>1, <2>2, <2>4 DEF Copies
            <4>2. PICK e : e = <<w, n + 1>>
                OBVIOUS
            <4>3. Activities(m)' = S \cup {e}
                BY <3>1, <4>2
            <4> HIDE DEF S
            <4>4. /\ IsFiniteSet(S \cup {e})
                  /\ Cardinality(S \cup {e}) = IF e \in S THEN Cardinality(S)
                                               ELSE Cardinality(S) + 1
                BY <4>1, FS_AddElement
            <4>5. Cardinality(S \cup {e}) <= Copies(m) + 1
                BY <4>1, <4>4
            <4> QED BY <4>3, <4>4, <4>5
        <3>3. Copies(m)' \in Nat /\ Copies(m)' <= Copies(m) + 1
            BY <3>2, FS_CardinalityType DEF Copies
        <3>4. Cardinality(Holders(m)') + 1 <= Cardinality(Holders(m))
            BY <1>11, HandlerCount
        <3>5. Cardinality(Holders(m)') \in Nat /\ Cardinality(Holders(m)) \in Nat
              /\ Cardinality(Handlers) \in Nat
            BY <1>11, HandlerCount
        <3>6. Copies(m)' + Cardinality(Holders(m)') <= Cardinality(Handlers)
            BY <2>1, <2>2, <2>4, <3>3, <3>4, <3>5
        <3> QED BY <1>10, <2>4, <3>2, <3>6
    <2>5. CASE q # m
        <3>1. Activities(q)' = Activities(q)
            <4>1. \A v \in Workspaces : inbound'[v][q] = inbound[v][q]
                BY <1>13, <2>5
            <4> QED BY <2>3, <4>1 DEF Activities
        <3>2. Copies(q)' = Copies(q) /\ (Settled(q)' <=> Settled(q))
            BY <1>10, <2>5, <3>1 DEF Copies
        <3>3. Cardinality(Holders(q)') <= Cardinality(Holders(q))
              /\ Cardinality(Holders(q)') \in Nat /\ Cardinality(Holders(q)) \in Nat
              /\ Cardinality(Handlers) \in Nat
            BY <1>11, HandlerCount
        <3> QED BY <1>10, <2>1, <2>2, <2>5, <3>1, <3>2, <3>3
    <2> QED BY <2>4, <2>5
<1>15. ASSUME NEW v \in Workspaces, NEW z \in Senders
       PROVE  contacts'[v][z] + Cardinality(Creators(v, z)') <= Cardinality(Handlers)
    <2>1. Creators(v, z)' = {g \in Handlers : Creates(handler'[g], v, z)}
        BY DEF Creators, Creates
    <2>2. ~Creates(handler'[h], v, z)
        BY <1>7 DEF Creates
    <2>3. Creators(v, z)' \subseteq Creators(v, z) /\ Creators(v, z) \subseteq Handlers
        BY <1>7, <2>1, <2>2 DEF Creators
    <2>4. /\ contacts[v][z] \in Nat
          /\ contacts[v][z] + Cardinality(Creators(v, z)) <= Cardinality(Handlers)
        BY <1>9 DEF ContactInv
    <2>5. CASE handler[h].isNew /\ v = w /\ z = s
        <3>1. h \in Creators(v, z) \ Creators(v, z)'
            BY <1>1, <1>2, <1>5, <1>6, <2>1, <2>2, <2>5 DEF Creators, Creates
        <3>2. contacts'[v][z] = contacts[v][z] + 1
            BY <1>8, <1>9, <2>5
        <3>3. Cardinality(Creators(v, z)') + 1 <= Cardinality(Creators(v, z))
              /\ Cardinality(Creators(v, z)') \in Nat /\ Cardinality(Creators(v, z)) \in Nat
              /\ Cardinality(Handlers) \in Nat
            BY <2>3, <3>1, HandlerCount
        <3> QED BY <2>4, <3>2, <3>3
    <2>6. CASE ~(handler[h].isNew /\ v = w /\ z = s)
        <3>1. contacts'[v][z] = contacts[v][z]
            <4>1. CASE handler[h].isNew
                <5>1. contacts' = [contacts EXCEPT ![w] =
                          [contacts[w] EXCEPT ![s] = contacts[w][s] + 1]]
                    BY <1>8, <4>1
                <5> QED BY <1>9, <2>6, <4>1, <5>1
            <4>2. CASE ~handler[h].isNew
                BY <1>8, <4>2
            <4> QED BY <4>1, <4>2
        <3>2. Cardinality(Creators(v, z)') <= Cardinality(Creators(v, z))
              /\ Cardinality(Creators(v, z)') \in Nat /\ Cardinality(Creators(v, z)) \in Nat
              /\ Cardinality(Handlers) \in Nat
            BY <2>3, HandlerCount
        <3> QED BY <2>4, <3>1, <3>2
    <2> QED BY <2>5, <2>6
<1>16. CopyInv'
    BY <1>14 DEF CopyInv
<1>17. ContactInv'
    BY <1>15 DEF ContactInv
<1> QED BY <1>16, <1>17

\* Every other step of a handler.
LEMMA CountsOtherwise ==
    ASSUME IInv, CopyInv, ContactInv, NEW h \in Handlers,
           \/ \E b \in Batches : Webhook(h, b)
           \/ StartDrain(h) \/ TakeRow(h) \/ FinishDrain(h) \/ Resolve(h)
           \/ NextEvent(h) \/ CheckProcessed(h) \/ FindContact(h)
           \/ FindTarget(h) \/ ApplyStatus(h) \/ MarkBatch(h)
           \/ Fail(h) \/ Crash(h)
    PROVE  CopyInv' /\ ContactInv'
<1> DEFINE Away == {"idle", "next", "route", "event", "check", "target", "apply", "mark"}
<1>1. /\ handler \in [Handlers -> Handler] /\ handler[h] \in Handler
      /\ HandlerOK(handler[h], social, hook)
    BY DEF IInv, TypeOK, HandlerInv
<1>2. DOMAIN handler[h] = {"pc", "rows", "cron", "batch", "ws", "i", "isNew"}
    BY <1>1 DEF Handler
<1>3. UNCHANGED <<contacts, inbound>>
    BY DEF Webhook, StartDrain, TakeRow, FinishDrain, Resolve, NextEvent,
           CheckProcessed, FindContact, FindTarget, ApplyStatus, MarkBatch, Fail,
           Crash, tables
<1>4. ASSUME handler'[h].pc \in Away, \A g \in Handlers \ {h} : handler'[g] = handler[g],
             \A m \in Messages : Settled(m)' <=> Settled(m)
      PROVE  CopyInv' /\ ContactInv'
    <2>1. \A m : ~Holds(handler'[h], m)
        BY <1>4 DEF Holds
    <2>2. \A ws, s : ~Creates(handler'[h], ws, s)
        BY <1>4 DEF Creates
    <2> HIDE DEF Away
    <2> QED BY <1>3, <1>4, <2>1, <2>2, CountsKept
<1>5. ASSUME NEW pc, Goto(h, pc)
      PROVE  /\ handler'[h] = [handler[h] EXCEPT !.pc = pc] /\ handler'[h].pc = pc
             /\ \A g \in Handlers \ {h} : handler'[g] = handler[g]
    BY <1>1, <1>2, <1>5 DEF Goto
<1>6. ASSUME Advance(h)
      PROVE  handler'[h].pc \in Away /\ \A g \in Handlers \ {h} : handler'[g] = handler[g]
    <2>1. handler' = [handler EXCEPT ![h].pc = "event", ![h].i = @ + 1]
        BY <1>6 DEF Advance
    <2> QED BY <1>1, <1>2, <2>1
<1>7. ASSUME Leave(h)
      PROVE  handler'[h].pc \in Away /\ \A g \in Handlers \ {h} : handler'[g] = handler[g]
    <2>1. CASE handler[h].cron
        BY <1>1, <1>7, <2>1 DEF Leave, Idle
    <2>2. CASE ~handler[h].cron
        BY <1>1, <1>7, <2>2 DEF Leave, Idle
    <2> QED BY <2>1, <2>2
<1>8. ASSUME UNCHANGED social PROVE \A m \in Messages : Settled(m)' <=> Settled(m)
    BY <1>8 DEF Settled
<1>9. CASE \E b \in Batches : Webhook(h, b)
    <2>1. PICK b \in Batches : Webhook(h, b)
        BY <1>9
    <2>2. /\ UNCHANGED social
          /\ handler' = [handler EXCEPT ![h] = [Idle EXCEPT !.pc = "route", !.batch = b]]
        BY <2>1 DEF Webhook
    <2>3. handler'[h].pc \in Away /\ \A g \in Handlers \ {h} : handler'[g] = handler[g]
        BY <1>1, <2>2 DEF Idle
    <2> HIDE DEF Away
    <2> QED BY <1>4, <1>8, <2>2, <2>3
<1>10. CASE StartDrain(h) \/ TakeRow(h) \/ FinishDrain(h) \/ Crash(h)
    <2>1. UNCHANGED social
        BY <1>10 DEF StartDrain, TakeRow, FinishDrain, Crash, tables
    <2>2. handler'[h].pc \in Away /\ \A g \in Handlers \ {h} : handler'[g] = handler[g]
        <3>1. CASE StartDrain(h)
            BY <1>1, <3>1 DEF StartDrain, Idle
        <3>2. CASE TakeRow(h)
            <4>1. PICK k \in handler[h].rows :
                    handler' = [handler EXCEPT ![h].pc = "route", ![h].rows = @ \ {k},
                                               ![h].batch = hook[k].batch]
                BY <3>2 DEF TakeRow
            <4> QED BY <1>1, <1>2, <4>1
        <3>3. CASE FinishDrain(h) \/ Crash(h)
            BY <1>1, <3>3 DEF FinishDrain, Crash, Idle
        <3> QED BY <1>10, <3>1, <3>2, <3>3
    <2> HIDE DEF Away
    <2> QED BY <1>4, <1>8, <2>1, <2>2
<1>11. CASE Resolve(h) \/ MarkBatch(h) \/ Fail(h)
    <2>1. UNCHANGED social
        BY <1>11 DEF Resolve, MarkBatch, Fail, tables
    <2>2. handler'[h].pc \in Away /\ \A g \in Handlers \ {h} : handler'[g] = handler[g]
        <3>1. CASE Leave(h)
            BY <1>7, <3>1
        <3>2. CASE ~Leave(h)
            <4>1. handler' = [handler EXCEPT ![h].pc = "event", ![h].i = 1,
                                             ![h].ws = RouteOf(h)]
                BY <1>11, <3>2 DEF Resolve, MarkBatch, Fail
            <4> QED BY <1>1, <1>2, <4>1
        <3> QED BY <3>1, <3>2
    <2> HIDE DEF Away
    <2> QED BY <1>4, <1>8, <2>1, <2>2
<1>12. CASE FindTarget(h) \/ ApplyStatus(h)
    <2>1. UNCHANGED social /\ (Advance(h) \/ Goto(h, "apply"))
        BY <1>12 DEF FindTarget, ApplyStatus, tables
    <2>2. handler'[h].pc \in Away /\ \A g \in Handlers \ {h} : handler'[g] = handler[g]
        BY <1>5, <1>6, <2>1
    <2> HIDE DEF Away
    <2> QED BY <1>4, <1>8, <2>1, <2>2
<1>13. CASE NextEvent(h)
    <2>1. PICK m : m = Current(h).id
        OBVIOUS
    <2>2. \/ Goto(h, "mark") \/ Goto(h, "target") \/ Goto(h, "check") \/ Advance(h)
        BY <1>13, Zenon DEF NextEvent
    <2>3. \/ UNCHANGED social
          \/ social[m] = NoRow /\ social' = [social EXCEPT ![m] = [ws |-> handler[h].ws,
                                                                   done |-> FALSE]]
        BY <1>13, <2>1 DEF NextEvent
    <2>4. handler'[h].pc \in Away /\ \A g \in Handlers \ {h} : handler'[g] = handler[g]
        BY <1>5, <1>6, <2>2
    <2>5. ASSUME NEW q \in Messages PROVE Settled(q)' <=> Settled(q)
        <3>1. social \in [Messages -> Social \cup {NoRow}]
            BY DEF IInv, TypeOK
        <3>2. CASE UNCHANGED social
            BY <1>8, <3>2
        <3>3. CASE /\ social[m] = NoRow
                   /\ social' = [social EXCEPT ![m] = [ws |-> handler[h].ws, done |-> FALSE]]
            <4>1. CASE q = m
                <5>1. social'[q].done = FALSE
                    BY <3>1, <3>3, <4>1
                <5> QED BY <3>3, <4>1, <5>1 DEF Settled
            <4>2. CASE q # m
                BY <3>1, <3>3, <4>2 DEF Settled
            <4> QED BY <4>1, <4>2
        <3> QED BY <2>3, <3>2, <3>3
    <2> HIDE DEF Away
    <2> QED BY <1>4, <2>4, <2>5
<1>14. CASE CheckProcessed(h)
    <2>1. UNCHANGED social
        BY <1>14 DEF CheckProcessed, tables
    <2>2. CASE social[Current(h).id].done
        <3>1. handler'[h].pc \in Away /\ \A g \in Handlers \ {h} : handler'[g] = handler[g]
            BY <1>6, <1>14, <2>2 DEF CheckProcessed
        <3> HIDE DEF Away
        <3> QED BY <1>4, <1>8, <2>1, <3>1
    <2>3. CASE ~social[Current(h).id].done
        <3>1. Goto(h, "contact")
            BY <1>14, <2>3 DEF CheckProcessed
        <3>2. /\ handler'[h].pc = "contact" /\ handler'[h].batch = handler[h].batch
              /\ handler'[h].i = handler[h].i
              /\ \A g \in Handlers \ {h} : handler'[g] = handler[g]
            BY <1>1, <1>2, <1>5, <3>1
        <3>3. \A m \in Messages : Holds(handler'[h], m) => ~Settled(m)
            BY <2>3, <3>2 DEF Holds, Settled, Current, Events
        <3>4. \A ws, s : ~Creates(handler'[h], ws, s)
            BY <3>2 DEF Creates
        <3> QED BY <1>3, <1>8, <2>1, <3>2, <3>3, <3>4, CountsKept
    <2> QED BY <2>2, <2>3
<1>15. CASE FindContact(h)
    <2>1. /\ UNCHANGED social /\ handler[h].pc = "contact"
          /\ handler' = [handler EXCEPT ![h].pc = "create",
                             ![h].isNew = contacts[handler[h].ws][Sender(h)] = 0]
        BY <1>15 DEF FindContact, At, tables
    <2>2. /\ handler'[h].pc = "create" /\ handler'[h].batch = handler[h].batch
          /\ handler'[h].i = handler[h].i /\ handler'[h].ws = handler[h].ws
          /\ handler'[h].isNew = (contacts[handler[h].ws][Sender(h)] = 0)
          /\ \A g \in Handlers \ {h} : handler'[g] = handler[g]
        BY <1>1, <1>2, <2>1
    <2>3. \A m \in Messages : Holds(handler'[h], m) => Holds(handler[h], m)
        BY <2>1, <2>2 DEF Holds
    <2>4. \A ws, s : Creates(handler'[h], ws, s) => contacts[ws][s] = 0
        BY <2>2 DEF Creates, Sender, Current, Events
    <2>5. \A g \in Handlers \ {h} : handler'[g] = handler[g]
        BY <2>2
    <2>6. \A m \in Messages : Settled(m)' <=> Settled(m)
        BY <1>8, <2>1
    <2> HIDE DEF Away
    <2> QED BY <1>3, <2>3, <2>4, <2>5, <2>6, CountsKept
<1> QED BY <1>9, <1>10, <1>11, <1>12, <1>13, <1>14, <1>15

LEMMA InitCounts == ASSUME Init PROVE CopyInv /\ ContactInv
<1>1. \A h \in Handlers : handler[h] = Idle /\ Idle.pc = "idle"
    BY DEF Init, Idle
<1>2. /\ Cardinality({}) = 0 /\ IsFiniteSet({}) /\ Cardinality(Handlers) \in Nat
      /\ Cardinality(Handlers) >= 1
    BY FS_EmptySet, FS_CardinalityType, HandlerAssumption
<1>3. \A m \in Messages : Holders(m) = {}
    BY <1>1 DEF Holders, Holds
<1>4. \A ws \in Workspaces, s \in Senders : Creators(ws, s) = {}
    BY <1>1 DEF Creators, Creates
<1>5. ASSUME NEW m \in Messages PROVE Activities(m) = {} /\ ~Settled(m)
    <2>1. \A ws \in Workspaces : inbound[ws][m] = 0 /\ 1..0 = {}
        BY DEF Init
    <2>2. Activities(m) = {}
        BY <2>1 DEF Activities
    <2>3. ~Settled(m)
        BY DEF Init, Settled
    <2> QED BY <2>2, <2>3
<1>6. CopyInv
    BY <1>2, <1>3, <1>5 DEF CopyInv, Copies
<1>7. \A ws \in Workspaces, s \in Senders : contacts[ws][s] \in 0..1
    BY DEF Init
<1>8. ContactInv
    BY <1>2, <1>4, <1>7 DEF ContactInv
<1> QED BY <1>6, <1>8

LEMMA CountsStutter ==
    ASSUME CopyInv, ContactInv, UNCHANGED <<social, contacts, inbound, handler>>
    PROVE  CopyInv' /\ ContactInv'
<1>1. \A m : Activities(m)' = Activities(m) /\ Copies(m)' = Copies(m)
    BY DEF Activities, Copies
<1>2. /\ \A m : Holders(m)' = Holders(m)
      /\ \A ws, s : Creators(ws, s)' = Creators(ws, s)
    BY DEF Holders, Holds, Creators, Creates
<1>3. \A m : Settled(m)' <=> Settled(m)
    BY DEF Settled
<1>4. CopyInv'
    BY <1>1, <1>2, <1>3 DEF CopyInv
<1>5. ContactInv'
    BY <1>2 DEF ContactInv
<1> QED BY <1>4, <1>5

LEMMA NextCounts ==
    ASSUME IInv, CopyInv, ContactInv, [Next]_vars
    PROVE  CopyInv' /\ ContactInv'
<1>1. CASE UNCHANGED vars
    BY <1>1, CountsStutter DEF vars
<1>2. CASE \E ws \in Workspaces : Connect(ws) \/ NeedsReauth(ws) \/ Disconnect(ws)
    BY <1>2, CountsStutter DEF Connect, NeedsReauth, Disconnect, tables
<1>3. CASE \E o \in Outgoing : Send(o) \/ RecordSend(o) \/ RecordSendFails(o)
    <2>1. UNCHANGED <<social, contacts, inbound, handler>>
        BY <1>3 DEF Send, RecordSend, RecordSendFails
    <2> QED BY <2>1, CountsStutter
<1>4. CASE \E h \in Handlers : \/ \E b \in Batches : Webhook(h, b)
                               \/ StartDrain(h) \/ Step(h) \/ Fail(h) \/ Crash(h)
    <2>1. PICK h \in Handlers : \/ \E b \in Batches : Webhook(h, b)
                                \/ StartDrain(h) \/ Step(h) \/ Fail(h) \/ Crash(h)
        BY <1>4
    <2>2. CASE CreateActivity(h)
        BY <2>2, CountsAfterCreate
    <2>3. CASE ~CreateActivity(h)
        BY <2>1, <2>3, CountsOtherwise DEF Step
    <2> QED BY <2>2, <2>3
<1> QED BY <1>1, <1>2, <1>3, <1>4 DEF Next

\* However webhook and cron overlap, however often Meta delivers a batch and
\* wherever a handler dies, a message is on the timelines exactly when its
\* SocialEvent is processed, and no more often than there are handlers to hold
\* it at once; nor does a sender become more contacts of a workspace than that.
THEOREM CopiesAreBounded == Spec => []CopiesBounded
<1>1. Init => CopyInv /\ ContactInv
    BY InitCounts
<1>2. IInv /\ CopyInv /\ ContactInv /\ [Next]_vars => (CopyInv /\ ContactInv)'
    <2> SUFFICES ASSUME IInv, CopyInv, ContactInv, [Next]_vars
                 PROVE  CopyInv' /\ ContactInv'
        OBVIOUS
    <2> QED BY NextCounts
<1>3. IInv /\ CopyInv /\ ContactInv => CopiesBounded
    <2> SUFFICES ASSUME IInv, CopyInv, ContactInv PROVE CopiesBounded
        OBVIOUS
    <2>1. ASSUME NEW m \in Messages
          PROVE  /\ (Copies(m) > 0 <=> Settled(m))
                 /\ Copies(m) <= Cardinality(Handlers)
        <3>1. /\ IsFiniteSet(Activities(m)) /\ (Settled(m) <=> Activities(m) # {})
              /\ Copies(m) + Cardinality(Holders(m)) <= Cardinality(Handlers)
            BY DEF CopyInv
        <3>2. Copies(m) \in Nat /\ (Copies(m) = 0 <=> Activities(m) = {})
            BY <3>1, FS_CardinalityType, FS_EmptySet DEF Copies
        <3>3. Cardinality(Holders(m)) \in Nat /\ Cardinality(Handlers) \in Nat
            BY HandlerCount DEF Holders
        <3> QED BY <3>1, <3>2, <3>3
    <2>2. ASSUME NEW ws \in Workspaces, NEW s \in Senders
          PROVE  contacts[ws][s] <= Cardinality(Handlers)
        <3>1. /\ contacts[ws][s] \in Nat
              /\ contacts[ws][s] + Cardinality(Creators(ws, s)) <= Cardinality(Handlers)
            BY DEF IInv, TypeOK, ContactInv
        <3>2. Cardinality(Creators(ws, s)) \in Nat /\ Cardinality(Handlers) \in Nat
            BY HandlerCount DEF Creators
        <3> QED BY <3>1, <3>2
    <2> QED BY <2>1, <2>2 DEF CopiesBounded
<1> QED BY <1>1, <1>2, <1>3, Invariant, PTL DEF Spec

=============================================================================
