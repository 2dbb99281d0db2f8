-------------------------- MODULE WhatsAppInbound --------------------------
(***************************************************************************)
(* Two-way WhatsApp on one phone number: the webhook that records a batch  *)
(* and ingests it, the cron that drains what the webhook could not settle, *)
(* the link between workspaces and the number, and the outbox whose        *)
(* bubbles the delivery receipts move.  A handler is one invocation of the *)
(* webhook or the cron; handlers interleave between database calls and may *)
(* be killed at any of them.  Meta delivers a batch any number of times.   *)
(***************************************************************************)
EXTENDS Integers, Sequences, FiniteSets

CONSTANTS
    Workspaces,   \* tenants
    Senders,      \* customers' phone numbers
    Messages,     \* wamids of inbound messages
    Outgoing,     \* wamids of messages the outbox sends
    Batches,      \* webhook bodies Meta delivers
    EventsOf,     \* EventsOf[b]: what parseEvents finds in b
    FromOf,       \* FromOf[m]: the sender of inbound message m
    SentBy,       \* SentBy[o]: the workspace whose staff send o
    SentTo,       \* SentTo[o]: the customer o is for
    Default,      \* WHATSAPP_DEFAULT_WORKSPACE, or Null
    Handlers,     \* invocations of the webhook or the cron that may overlap
    Limit,        \* BATCH of the cron
    MaxLinks,     \* bound: changes to the links
    MaxFaults,    \* bound: failed database calls and killed handlers
    Null, NoRow

Receipts == {"failed", "sent", "delivered", "read"}

Event == [kind : {"message"}, id : Messages]
         \cup [kind : {"status"}, id : Outgoing, status : Receipts]

ASSUME BatchAssumption ==
    /\ EventsOf \in [Batches -> Seq(Event)]
    /\ FromOf \in [Messages -> Senders]
    /\ SentBy \in [Outgoing -> Workspaces]
    /\ SentTo \in [Outgoing -> Senders]
    /\ Messages \cap Outgoing = {}

ASSUME HandlerAssumption == IsFiniteSet(Handlers) /\ Handlers # {}

ASSUME BoundAssumption == {Limit, MaxLinks, MaxFaults} \subseteq Nat

\* The ids of a batch, sorted and hashed; what the events say is not part of it.
DedupeKey(b) == {EventsOf[b][i].id : i \in DOMAIN EventsOf[b]}

Keys == {DedupeKey(b) : b \in Batches}

Row == [batch : Batches, at : Nat, done : BOOLEAN]
Social == [ws : Workspaces, done : BOOLEAN]
Link == {"none", "active", "needs_reauth"}

ASSUME NullAssumption ==
    /\ NoRow \notin Row \cup Social
    /\ Null \notin Workspaces \cup Batches \cup Receipts
    /\ Default \in Workspaces \cup {Null}

VARIABLES
    hook,      \* WebhookEvent rows of source whatsapp, by dedupeKey
    social,    \* SocialEvent rows, by message
    contacts,  \* contacts[ws][s]: Contact rows with the phone number s
    inbound,   \* inbound[ws][m]: IN activities of message m
    bubble,    \* bubble[o]: status of o's OUT activity, or where o is before it
    link,      \* link[ws]: the SocialConnection of ws to the number
    settings,  \* workspaces whose settingsJson holds the number
    handler, links, faults

vars == <<hook, social, contacts, inbound, bubble, link, settings, handler,
          links, faults>>

tables == <<hook, social, contacts, inbound, bubble>>
admin == <<link, settings, links>>

Busy == {"route", "event", "check", "contact", "create", "target", "apply", "mark"}

Handler == [pc : Busy \cup {"idle", "next"},
            rows : SUBSET Keys,             \* cron: rows still to be drained
            cron : BOOLEAN,
            batch : Batches \cup {Null},    \* the batch in hand
            ws : Workspaces \cup {Null},    \* where it was routed
            i : Nat,                        \* position in its events
            isNew : BOOLEAN]                \* the sender matched no contact

Idle == [pc |-> "idle", rows |-> {}, cron |-> FALSE, batch |-> Null,
         ws |-> Null, i |-> 0, isNew |-> FALSE]

Unrecorded == {"draft", "accepted", "lost"}

TypeOK ==
    /\ hook \in [Keys -> Row \cup {NoRow}]
    /\ social \in [Messages -> Social \cup {NoRow}]
    /\ contacts \in [Workspaces -> [Senders -> Nat]]
    /\ inbound \in [Workspaces -> [Messages -> Nat]]
    /\ bubble \in [Outgoing -> Receipts \cup Unrecorded]
    /\ link \in [Workspaces -> Link]
    /\ settings \subseteq Workspaces
    /\ handler \in [Handlers -> Handler]
    /\ links \in 0..MaxLinks
    /\ faults \in 0..MaxFaults

-----------------------------------------------------------------------------
(* Helpers *)

Stored(k) == hook[k] # NoRow
Pending == {k \in Keys : Stored(k) /\ ~hook[k].done}

\* findMany ordered by createdAt, take: BATCH.
Oldest ==
    {k \in Pending :
        Cardinality({j \in Pending : hook[j].at < hook[k].at}) < Limit}

StatusRank == [failed |-> 1, sent |-> 2, delivered |-> 3, read |-> 4]

At(h, pc) == handler[h].pc = pc
Events(h) == EventsOf[handler[h].batch]
Current(h) == Events(h)[handler[h].i]
Sender(h) == FromOf[Current(h).id]

HasMessage(b) == \E i \in DOMAIN EventsOf[b] : EventsOf[b][i].kind = "message"

\* The sender of the first message of b; a batch of receipts has none.
FirstSender(b) ==
    LET messages == SelectSeq(EventsOf[b], LAMBDA e : e.kind = "message")
    IN  IF messages = <<>> THEN Null ELSE FromOf[messages[1].id]

TheOnly(S) == IF Cardinality(S) = 1 THEN CHOOSE ws \in S : TRUE ELSE Null

\* uniqueContactOwner.
Owner(s, within) ==
    IF s = Null THEN Null ELSE TheOnly({ws \in within : contacts[ws][s] > 0})

\* resolveInboundWorkspace, for the number or for none; Null is unresolved or
\* ambiguous.
Route(withNumber, s) ==
    LET bound == {ws \in Workspaces : link[ws] = "active"}
        last == IF Owner(s, Workspaces) # Null THEN Owner(s, Workspaces) ELSE Default
    IN  IF ~withNumber THEN last
        ELSE IF Cardinality(bound) > 1 THEN Owner(s, bound)
        ELSE IF bound # {} THEN TheOnly(bound)
        ELSE IF settings # {} THEN TheOnly(settings)
        ELSE last

RouteBySender(h) == Route(~handler[h].cron, FirstSender(handler[h].batch))

\* The webhook reads the number from the body, the cron from the first message.
RouteOf(h) == LET b == handler[h].batch
              IN  Route(~handler[h].cron \/ HasMessage(b), FirstSender(b))

Goto(h, pc) == handler' = [handler EXCEPT ![h].pc = pc]
Advance(h) == handler' = [handler EXCEPT ![h].pc = "event", ![h].i = @ + 1]

\* The webhook answers; the cron goes on with its next row.
Leave(h) ==
    handler' = [handler EXCEPT ![h] =
        IF handler[h].cron
        THEN [Idle EXCEPT !.pc = "next", !.cron = TRUE, !.rows = handler[h].rows]
        ELSE Idle]

Init ==
    /\ hook = [k \in Keys |-> NoRow]
    /\ social = [m \in Messages |-> NoRow]
    /\ contacts \in [Workspaces -> [Senders -> 0..1]]
    /\ inbound = [ws \in Workspaces |-> [m \in Messages |-> 0]]
    /\ bubble = [o \in Outgoing |-> "draft"]
    /\ link \in [Workspaces -> {"none", "active"}]
    /\ settings = {ws \in Workspaces : link[ws] = "active"}
    /\ handler = [h \in Handlers |-> Idle]
    /\ links = 0
    /\ faults = 0

-----------------------------------------------------------------------------
(* The link between a workspace and the number *)

\* linkPlatformNumberAction, which also writes settingsJson (a failure of that
\* write is swallowed), or the OAuth callback, which does not.
Connect(ws) ==
    /\ links < MaxLinks
    /\ links' = links + 1
    /\ link' = [link EXCEPT ![ws] = "active"]
    /\ settings' \in {settings, settings \cup {ws}}
    /\ UNCHANGED <<tables, handler, faults>>

\* testWhatsAppConnectionAction, when Meta refuses the token.
NeedsReauth(ws) ==
    /\ links < MaxLinks
    /\ links' = links + 1
    /\ link[ws] = "active"
    /\ link' = [link EXCEPT ![ws] = "needs_reauth"]
    /\ UNCHANGED <<tables, settings, handler, faults>>

\* disconnectWhatsAppAction deletes the connection and leaves settingsJson.
Disconnect(ws) ==
    /\ links < MaxLinks
    /\ links' = links + 1
    /\ link[ws] # "none"
    /\ link' = [link EXCEPT ![ws] = "none"]
    /\ UNCHANGED <<tables, settings, handler, faults>>

-----------------------------------------------------------------------------
(* The outbox *)

\* sendOutboundWhatsAppMessage up to provider.send: the contact exists, its
\* reply window is open, and Meta accepts the message or refuses the token.
Send(o) ==
    LET ws == SentBy[o]
    IN  /\ bubble[o] = "draft"
        /\ contacts[ws][SentTo[o]] > 0
        /\ \E m \in Messages : FromOf[m] = SentTo[o] /\ inbound[ws][m] > 0
        /\ \/ bubble' = [bubble EXCEPT ![o] = "accepted"] /\ UNCHANGED link
           \/ /\ link[ws] = "active"
              /\ bubble' = [bubble EXCEPT ![o] = "lost"]
              /\ link' = [link EXCEPT ![ws] = "needs_reauth"]
        /\ UNCHANGED <<hook, social, contacts, inbound, settings, handler,
                       links, faults>>

\* Its activity.create, which comes after Meta has the message.
RecordSend(o) ==
    /\ bubble[o] = "accepted"
    /\ bubble' = [bubble EXCEPT ![o] = "sent"]
    /\ UNCHANGED <<hook, social, contacts, inbound, admin, handler, faults>>

RecordSendFails(o) ==
    /\ faults < MaxFaults
    /\ faults' = faults + 1
    /\ bubble[o] = "accepted"
    /\ bubble' = [bubble EXCEPT ![o] = "lost"]
    /\ UNCHANGED <<hook, social, contacts, inbound, admin, handler>>

-----------------------------------------------------------------------------
(* The webhook and the cron *)

\* Meta reports on a message only once it has accepted it.
Deliverable(b) ==
    \A i \in DOMAIN EventsOf[b] :
        EventsOf[b][i].kind = "status" => bubble[EventsOf[b][i].id] # "draft"

\* webhookEvent.create; a batch whose key is stored is answered as deduped.
Webhook(h, b) ==
    /\ At(h, "idle")
    /\ Deliverable(b)
    /\ ~Stored(DedupeKey(b))
    /\ hook' = [hook EXCEPT ![DedupeKey(b)] =
                   [batch |-> b, done |-> FALSE,
                    at |-> Cardinality({k \in Keys : Stored(k)})]]
    /\ handler' = [handler EXCEPT ![h] = [Idle EXCEPT !.pc = "route", !.batch = b]]
    /\ UNCHANGED <<social, contacts, inbound, bubble, admin, faults>>

StartDrain(h) ==
    /\ At(h, "idle")
    /\ Oldest # {}
    /\ handler' = [handler EXCEPT ![h] = [Idle EXCEPT !.pc = "next", !.cron = TRUE,
                                                      !.rows = Oldest]]
    /\ UNCHANGED <<tables, admin, faults>>

\* The cron takes the rows it read, oldest first, whatever became of them.
TakeRow(h) ==
    /\ At(h, "next")
    /\ \E k \in handler[h].rows :
         /\ \A j \in handler[h].rows : hook[k].at <= hook[j].at
         /\ handler' = [handler EXCEPT ![h].pc = "route", ![h].rows = @ \ {k},
                                       ![h].batch = hook[k].batch]
    /\ UNCHANGED <<tables, admin, faults>>

FinishDrain(h) ==
    /\ At(h, "next")
    /\ handler[h].rows = {}
    /\ handler' = [handler EXCEPT ![h] = Idle]
    /\ UNCHANGED <<tables, admin, faults>>

\* Mutant: a batch is ingested although it could not be routed.
ResolveUnparked(h) ==
    /\ At(h, "route")
    /\ handler' = [handler EXCEPT ![h].pc = "event", ![h].i = 1, ![h].ws = RouteOf(h)]
    /\ UNCHANGED <<tables, admin, faults>>

\* A batch without a workspace is parked: its row stays pending.
Resolve(h) ==
    /\ At(h, "route")
    /\ IF RouteOf(h) = Null THEN Leave(h)
       ELSE handler' = [handler EXCEPT ![h].pc = "event", ![h].i = 1,
                                       ![h].ws = RouteOf(h)]
    /\ UNCHANGED <<tables, admin, faults>>

\* ingestWhatsAppEvents takes the next event.  Of a message it finds or creates
\* the SocialEvent; whoever loses the race to create it reads it again.
NextEvent(h) ==
    LET m == Current(h).id
    IN  /\ At(h, "event")
        /\ \/ /\ handler[h].i > Len(Events(h))
              /\ Goto(h, "mark")
              /\ UNCHANGED social
           \/ /\ handler[h].i <= Len(Events(h))
              /\ Current(h).kind = "status"
              /\ Goto(h, "target")
              /\ UNCHANGED social
           \/ /\ handler[h].i <= Len(Events(h))
              /\ Current(h).kind = "message"
              /\ social' = IF social[m] # NoRow THEN social
                           ELSE [social EXCEPT ![m] = [ws |-> handler[h].ws,
                                                       done |-> FALSE]]
              /\ IF social'[m].done THEN Advance(h) ELSE Goto(h, "check")
        /\ UNCHANGED <<hook, contacts, inbound, bubble, admin, faults>>

\* The transaction's own look at processedAt.  requireQuota follows and cannot
\* refuse: nothing increments the social_messages counter it reads.
CheckProcessed(h) ==
    /\ At(h, "check")
    /\ IF social[Current(h).id].done THEN Advance(h) ELSE Goto(h, "contact")
    /\ UNCHANGED <<tables, admin, faults>>

\* findContactByPhone, outside the transaction.
FindContact(h) ==
    /\ At(h, "contact")
    /\ handler' = [handler EXCEPT ![h].pc = "create",
                       ![h].isNew = contacts[handler[h].ws][Sender(h)] = 0]
    /\ UNCHANGED <<tables, admin, faults>>

CreateUnsettled(h) ==
    LET ws == handler[h].ws
        m == Current(h).id
    IN  /\ At(h, "create")
        /\ contacts' = IF handler[h].isNew
                       THEN [contacts EXCEPT ![ws][Sender(h)] = @ + 1]
                       ELSE contacts
        /\ inbound' = [inbound EXCEPT ![ws][m] = @ + 1]
        /\ Advance(h)
        /\ UNCHANGED <<hook, social, bubble, admin, faults>>

\* The transaction commits: contact, activity and processedAt together.
CreateActivity(h) ==
    LET ws == handler[h].ws
        m == Current(h).id
    IN  /\ At(h, "create")
        /\ contacts' = IF handler[h].isNew
                       THEN [contacts EXCEPT ![ws][Sender(h)] = @ + 1]
                       ELSE contacts
        /\ inbound' = [inbound EXCEPT ![ws][m] = @ + 1]
        /\ social' = [social EXCEPT ![m].done = TRUE]
        /\ Advance(h)
        /\ UNCHANGED <<hook, bubble, admin, faults>>

\* applyDeliveryStatus reads the bubble: unknown, not to be regressed, or due.
FindTarget(h) ==
    LET o == Current(h).id
    IN  /\ At(h, "target")
        /\ IF /\ SentBy[o] = handler[h].ws
              /\ bubble[o] \in Receipts
              /\ StatusRank[bubble[o]] < StatusRank[Current(h).status]
           THEN Goto(h, "apply") ELSE Advance(h)
        /\ UNCHANGED <<tables, admin, faults>>

\* Then it writes, whatever the bubble shows by now.
ApplyStatus(h) ==
    /\ At(h, "apply")
    /\ bubble' = [bubble EXCEPT ![Current(h).id] = Current(h).status]
    /\ Advance(h)
    /\ UNCHANGED <<hook, social, contacts, inbound, admin, faults>>

\* webhookEvent.update: processedAt.
MarkBatch(h) ==
    /\ At(h, "mark")
    /\ hook' = [hook EXCEPT ![DedupeKey(handler[h].batch)].done = TRUE]
    /\ Leave(h)
    /\ UNCHANGED <<social, contacts, inbound, bubble, admin, faults>>

MarkInFinally(h) ==
    /\ faults < MaxFaults
    /\ faults' = faults + 1
    /\ handler[h].pc \in Busy
    /\ hook' = [hook EXCEPT ![DedupeKey(handler[h].batch)].done = TRUE]
    /\ Leave(h)
    /\ UNCHANGED <<social, contacts, inbound, bubble, admin>>

\* A call throws: the catch of the webhook, or of the cron's row.
Fail(h) ==
    /\ faults < MaxFaults
    /\ faults' = faults + 1
    /\ handler[h].pc \in Busy
    /\ Leave(h)
    /\ UNCHANGED <<tables, admin>>

Crash(h) ==
    /\ faults < MaxFaults
    /\ faults' = faults + 1
    /\ ~At(h, "idle")
    /\ handler' = [handler EXCEPT ![h] = Idle]
    /\ UNCHANGED <<tables, admin>>

-----------------------------------------------------------------------------
Step(h) ==
    \/ TakeRow(h) \/ FinishDrain(h) \/ Resolve(h) \/ NextEvent(h)
    \/ CheckProcessed(h) \/ FindContact(h) \/ CreateActivity(h)
    \/ FindTarget(h) \/ ApplyStatus(h) \/ MarkBatch(h)

Next ==
    \/ \E ws \in Workspaces : Connect(ws) \/ NeedsReauth(ws) \/ Disconnect(ws)
    \/ \E o \in Outgoing : Send(o) \/ RecordSend(o) \/ RecordSendFails(o)
    \/ \E h \in Handlers :
         \/ \E b \in Batches : Webhook(h, b)
         \/ StartDrain(h) \/ Step(h) \/ Fail(h) \/ Crash(h)

Spec == Init /\ [][Next]_vars

\* A handler that was started runs on, and the platform calls the cron on its
\* schedule; that call never waits for one of the model's Handlers.
FairSpec ==
    /\ Spec
    /\ \A h \in Handlers : WF_vars(Step(h))
    /\ SF_vars(\E h \in Handlers : StartDrain(h))

-----------------------------------------------------------------------------
(* Properties *)

Settled(m) == social[m] # NoRow /\ social[m].done

\* The IN activities of message m, numbered in each workspace.
Activities(m) == UNION {{ws} \X (1..inbound[ws][m]) : ws \in Workspaces}

Copies(m) == Cardinality(Activities(m))

\* Whatever batch Meta delivered, once the row its key names is marked
\* processed every message of that batch is on a timeline: neither a replay,
\* nor a kill half way, nor the key that ignores what the events say, loses one.
ProcessedIsIngested ==
    \A b \in Batches :
        Stored(DedupeKey(b)) /\ hook[DedupeKey(b)].done =>
            \A i \in DOMAIN EventsOf[b] :
                EventsOf[b][i].kind = "message" => Settled(EventsOf[b][i].id)

\* A message is on the timelines if and only if its SocialEvent is processed,
\* and never more often than handlers held it at once: webhook and cron that
\* overlap duplicate it, one that comes later finds processedAt.  An unknown
\* number likewise becomes at most one contact of a workspace for each handler
\* that looked it up at the same time, however many messages it sends.
CopiesBounded ==
    /\ \A m \in Messages :
          /\ Copies(m) > 0 <=> Settled(m)
          /\ Copies(m) <= Cardinality(Handlers)
    /\ \A ws \in Workspaces, s \in Senders :
          contacts[ws][s] <= Cardinality(Handlers)

\* While some workspace holds the number and every message can be routed, a
\* recorded batch that carries a message reaches a timeline, after any parking,
\* failed call or kill.
ParkedIsIngested ==
    \A b \in Batches, m \in Messages :
        <>[](Route(TRUE, FromOf[m]) # Null) =>
            ((Stored(DedupeKey(b)) /\ m \in DedupeKey(b)) ~> Settled(m))

\* A receipt that reports a failure shows on the bubble it is for ("failed" of
\* the bubble's states), unless a handler wrote another status meanwhile.
FailureShown ==
    [][\A h \in Handlers :
          /\ At(h, "target")
          /\ Current(h).status = "failed"
          /\ SentBy[Current(h).id] = handler[h].ws
          /\ bubble[Current(h).id] = "sent"
          /\ faults' = faults
          => handler'[h].pc \in {"target", "apply"}]_vars
=============================================================================
