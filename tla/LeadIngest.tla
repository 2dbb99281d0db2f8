----------------------------- MODULE LeadIngest -----------------------------
(***************************************************************************)
(* The lead-ingest queue: modules/leadIngest/{queue,worker}.ts with the    *)
(* routes that call it.  WebhookEvent is a table keyed by a globally       *)
(* unique dedupeKey; processedAt = null means pending.  Portals post leads *)
(* through a webhook that only enqueues; the public micro-site processes   *)
(* its lead at once; the worker endpoint, the replay endpoint and the      *)
(* drain script all run processBatch.  processLead holds no lock and opens *)
(* no transaction, so every database call of it is a step here, and        *)
(* workers interleave and die between any two.                             *)
(***************************************************************************)
EXTENDS Integers, FiniteSets, Functions

CONSTANTS
    Workspaces,   \* tenants
    Leads,        \* payloads as delivered by a source
    Keys,         \* dedupe keys
    Persons,      \* the people leads are about
    Anonymous,    \* persons whose lead carries neither phone nor email
    Sources,      \* canonical source names
    Workers,      \* concurrent executions of processBatch or processLead
    KeyOf,        \* KeyOf[l]: dedupeKey of l under the default field names
    MappedKeyOf,  \* MappedKeyOf[l]: dedupeKey of l under its source's fieldMap
    PersonOf,     \* PersonOf[l]: whom l is about
    SourceOf,     \* SourceOf[l]: where l came from
    Ready,        \* workspaces with a pipeline stage and an owner
    AutoAck,      \* workspaces that opted in to the WhatsApp acknowledgement
    Configs,      \* LeadSourceConfig rows operations may store
    ContactLimit, \* contacts a workspace's plan allows
    Limit,        \* batch size
    MaxFaults,    \* bound: failed database calls and killed workers
    MaxReconfigs, \* bound: edits of LeadSourceConfig
    Null, NoEvent, NoConfig

Event == [ws : Workspaces, lead : Leads, at : Nat, done : BOOLEAN]

Config == [enabled : BOOLEAN, mapped : BOOLEAN, ack : BOOLEAN]

ASSUME FiniteAssumption ==
    /\ IsFiniteSet(Keys) /\ IsFiniteSet(Persons) /\ IsFiniteSet(Workspaces)
    /\ IsFiniteSet(Workers) /\ Workers # {}

ASSUME LeadAssumption ==
    /\ KeyOf \in [Leads -> Keys]
    /\ MappedKeyOf \in [Leads -> Keys]
    /\ PersonOf \in [Leads -> Persons]
    /\ SourceOf \in [Leads -> Sources]

ASSUME ConfigAssumption == Configs \subseteq Config \cup {NoConfig}

ASSUME NullAssumption ==
    /\ NoEvent \notin Event
    /\ Null \notin Leads \cup Keys \cup Workspaces

ASSUME BoundAssumption ==
    {ContactLimit, Limit, MaxFaults, MaxReconfigs} \subseteq Nat

VARIABLES
    event,      \* the WebhookEvent table, by dedupeKey
    config,     \* the LeadSourceConfig table
    contacts,   \* contacts[ws][p]: Contact rows of person p
    deals,      \* deals[ws][k]: Deal rows made for key k
    timeline,   \* timeline[ws][k]: "Lead captured" activities made for key k
    cadences,   \* cadences[ws][p]: follow-up cadences scheduled for p
    sent,       \* sent[ws][p]: WhatsApp acknowledgements sent to p
    accepted,   \* <<ws, l>> the webhook answered with received: true
    counted,    \* event keys a batch counted as processed
    proc,       \* proc[w]: one execution of processBatch or processLead
    faults, reconfigs

vars == <<event, config, contacts, deals, timeline, cadences, sent, accepted,
          counted, proc, faults, reconfigs>>

crm == <<contacts, deals, timeline, cadences, sent>>
world == <<config, accepted, faults, reconfigs>>

Running == {"config", "dedupe", "record", "contact", "quota", "create",
            "deal", "note", "followUp", "ack", "mark"}

Proc == [pc : Running \cup {"idle", "next"},
         ws : Workspaces \cup {Null},      \* the workspace it acts for
         batch : SUBSET Keys,              \* events still to be processed
         item : Keys \cup {Null},          \* current event; Null if synchronous
         lead : Leads \cup {Null},         \* current payload
         key : Keys \cup {Null},           \* its dedupeKey, as normalized
         mayAck : BOOLEAN,                 \* trusted ingress and opt-in
         isNew : BOOLEAN]                  \* this run creates the contact

Idle == [pc |-> "idle", ws |-> Null, batch |-> {}, item |-> Null,
         lead |-> Null, key |-> Null, mayAck |-> FALSE, isNew |-> FALSE]

TypeOK ==
    /\ event \in [Keys -> Event \cup {NoEvent}]
    /\ config \in [Workspaces -> [Sources -> Configs]]
    /\ contacts \in [Workspaces -> [Persons -> Nat]]
    /\ deals \in [Workspaces -> [Keys -> Nat]]
    /\ timeline \in [Workspaces -> [Keys -> Nat]]
    /\ cadences \in [Workspaces -> [Persons -> Nat]]
    /\ sent \in [Workspaces -> [Persons -> Nat]]
    /\ accepted \subseteq Workspaces \X Leads
    /\ counted \subseteq Keys
    /\ proc \in [Workers -> Proc]
    /\ faults \in 0..MaxFaults
    /\ reconfigs \in 0..MaxReconfigs

-----------------------------------------------------------------------------
(* Helpers *)

Stored(k) == event[k] # NoEvent
Processed(k) == Stored(k) /\ event[k].done

NewEvent(ws, l) ==
    [ws |-> ws, lead |-> l, done |-> FALSE,
     at |-> Cardinality({k \in Keys : Stored(k)})]

Pending(ws) == {k \in Keys : Stored(k) /\ event[k].ws = ws /\ ~event[k].done}

OldestOffByOne(ws) ==
    {k \in Pending(ws) :
        Cardinality({j \in Pending(ws) : event[j].at <= event[k].at}) < Limit}

\* findMany ordered by createdAt, take: limit.
Oldest(ws) ==
    {k \in Pending(ws) :
        Cardinality({j \in Pending(ws) : event[j].at < event[k].at}) < Limit}

Bump(table, ws, x) == [table EXCEPT ![ws][x] = @ + 1]

Sum(f) == FoldFunction(+, 0, f)

OverQuotaOffByOne(ws) == Sum(contacts[ws]) > ContactLimit

\* contact.count for the plan's cap; every row of the workspace counts.
OverQuota(ws) == Sum(contacts[ws]) >= ContactLimit

\* The contact lookup by phone or email; a lead with neither matches nobody.
Matches(ws, l) == PersonOf[l] \notin Anonymous /\ contacts[ws][PersonOf[l]] > 0

At(w, pc) == proc[w].pc = pc
Goto(w, pc) == proc' = [proc EXCEPT ![w].pc = pc]

Init ==
    /\ event = [k \in Keys |-> NoEvent]
    /\ config \in [Workspaces -> [Sources -> Configs]]
    /\ contacts = [ws \in Workspaces |-> [p \in Persons |-> 0]]
    /\ deals = [ws \in Workspaces |-> [k \in Keys |-> 0]]
    /\ timeline = [ws \in Workspaces |-> [k \in Keys |-> 0]]
    /\ cadences = [ws \in Workspaces |-> [p \in Persons |-> 0]]
    /\ sent = [ws \in Workspaces |-> [p \in Persons |-> 0]]
    /\ accepted = {}
    /\ counted = {}
    /\ proc = [w \in Workers |-> Idle]
    /\ faults = 0
    /\ reconfigs = 0

-----------------------------------------------------------------------------
(* Ingress *)

\* The portal webhook: enqueueLead, then 202.  Two racing enqueues of one key
\* leave one row, as the loser hits the unique index, so the lookup and the
\* create are one step.
Enqueue(ws, l) ==
    /\ event' = IF Stored(KeyOf[l]) THEN event
                ELSE [event EXCEPT ![KeyOf[l]] = NewEvent(ws, l)]
    /\ accepted' = accepted \cup {<<ws, l>>}
    /\ UNCHANGED <<crm, config, counted, proc, faults, reconfigs>>

\* The same webhook when enqueueLead throws: logged, and answered 200.
EnqueueFails(ws, l) ==
    /\ faults < MaxFaults
    /\ faults' = faults + 1
    /\ accepted' = accepted \cup {<<ws, l>>}
    /\ UNCHANGED <<event, crm, config, counted, proc, reconfigs>>

\* The public micro-site form: processLead in the request, with trusted: true.
Enquiry(w, ws, l) ==
    /\ At(w, "idle")
    /\ proc' = [proc EXCEPT ![w] = [Idle EXCEPT !.pc = "config", !.ws = ws,
                                                !.lead = l]]
    /\ UNCHANGED <<event, crm, world, counted>>

\* Operations edit the LeadSourceConfig row of a source.
Reconfigure(ws, s, c) ==
    /\ reconfigs < MaxReconfigs
    /\ reconfigs' = reconfigs + 1
    /\ c # config[ws][s]
    /\ config' = [config EXCEPT ![ws][s] = c]
    /\ UNCHANGED <<event, crm, accepted, counted, proc, faults>>

-----------------------------------------------------------------------------
(* processBatch *)

StartBatch(w, ws) ==
    /\ At(w, "idle")
    /\ Oldest(ws) # {}
    /\ proc' = [proc EXCEPT ![w] = [Idle EXCEPT !.pc = "next", !.ws = ws,
                                                !.batch = Oldest(ws)]]
    /\ UNCHANGED <<event, crm, world, counted>>

\* The loop takes the events it read, oldest first, whatever became of them.
Take(w) ==
    /\ At(w, "next")
    /\ \E k \in proc[w].batch :
         /\ \A j \in proc[w].batch : event[k].at <= event[j].at
         /\ proc' = [proc EXCEPT ![w] = [Idle EXCEPT !.pc = "config",
                                                     !.ws = proc[w].ws,
                                                     !.batch = proc[w].batch \ {k},
                                                     !.item = k,
                                                     !.lead = event[k].lead]]
    /\ UNCHANGED <<event, crm, world, counted>>

Finish(w) ==
    /\ At(w, "next")
    /\ proc[w].batch = {}
    /\ proc' = [proc EXCEPT ![w] = Idle]
    /\ UNCHANGED <<event, crm, world, counted>>

ReturnUncheckedItem(w) ==
    /\ Goto(w, "next")
    /\ counted' = counted \cup {proc[w].item}

\* processLead returned: the batch counts the event as processed.
Return(w) ==
    /\ Goto(w, "next")
    /\ counted' = IF proc[w].item = Null THEN counted
                  ELSE counted \cup {proc[w].item}

-----------------------------------------------------------------------------
(* processLead, one action per database call *)

\* getSourceConfig, then normalizeLead with the source's field map.
ReadConfig(w) ==
    LET l == proc[w].lead
        c == config[proc[w].ws][SourceOf[l]]
        key == IF c # NoConfig /\ c.mapped THEN MappedKeyOf[l] ELSE KeyOf[l]
        mayAck == IF c = NoConfig THEN proc[w].item = Null
                                       /\ proc[w].ws \in AutoAck
                  ELSE c.ack
    IN  /\ At(w, "config")
        /\ \/ /\ c # NoConfig /\ ~c.enabled
              /\ Return(w)
           \/ /\ c # NoConfig => c.enabled
              /\ proc' = [proc EXCEPT ![w].pc = "dedupe", ![w].key = key,
                                      ![w].mayAck = mayAck]
              /\ UNCHANGED counted
        /\ UNCHANGED <<event, crm, world>>

DedupeOnExistence(w) ==
    /\ At(w, "dedupe")
    /\ Goto(w, IF Stored(proc[w].key) THEN "contact" ELSE "record")
    /\ UNCHANGED <<event, crm, world, counted>>

\* findUnique on the dedupeKey: stop if processed, go on if merely stored.
Dedupe(w) ==
    LET k == proc[w].key
    IN  /\ At(w, "dedupe")
        /\ \/ Processed(k) /\ Return(w)
           \/ /\ ~Processed(k)
              /\ Goto(w, IF Stored(k) THEN "contact" ELSE "record")
              /\ UNCHANGED counted
        /\ UNCHANGED <<event, crm, world>>

\* webhookEvent.create; the unique index refuses it if somebody was faster.
Record(w) ==
    LET k == proc[w].key
    IN  /\ At(w, "record")
        /\ \/ /\ ~Stored(k)
              /\ event' = [event EXCEPT ![k] = NewEvent(proc[w].ws, proc[w].lead)]
              /\ Goto(w, "contact")
           \/ Stored(k) /\ Goto(w, "next") /\ UNCHANGED event
        /\ UNCHANGED <<crm, world, counted>>

FindContactAndStop(w) ==
    LET known == Matches(proc[w].ws, proc[w].lead)
    IN  /\ At(w, "contact")
        /\ proc' = [proc EXCEPT ![w].isNew = ~known,
                                ![w].pc = IF known THEN "mark" ELSE "quota"]
        /\ UNCHANGED <<event, crm, world, counted>>

FindContact(w) ==
    LET known == Matches(proc[w].ws, proc[w].lead)
    IN  /\ At(w, "contact")
        /\ proc' = [proc EXCEPT ![w].isNew = ~known,
                                ![w].pc = IF known THEN "deal" ELSE "quota"]
        /\ UNCHANGED <<event, crm, world, counted>>

\* requireQuota(workspaceId, "contacts") throws at the plan's cap.
CheckQuota(w) ==
    /\ At(w, "quota")
    /\ Goto(w, IF OverQuota(proc[w].ws) THEN "next" ELSE "create")
    /\ UNCHANGED <<event, crm, world, counted>>

CreateContact(w) ==
    /\ At(w, "create")
    /\ contacts' = Bump(contacts, proc[w].ws, PersonOf[proc[w].lead])
    /\ Goto(w, "deal")
    /\ UNCHANGED <<event, deals, timeline, cadences, sent, world, counted>>

\* A deal in the first stage, if the workspace has a stage and an owner.
CreateDeal(w) ==
    /\ At(w, "deal")
    /\ deals' = IF proc[w].ws \in Ready
                THEN Bump(deals, proc[w].ws, proc[w].key) ELSE deals
    /\ Goto(w, "note")
    /\ UNCHANGED <<event, contacts, timeline, cadences, sent, world, counted>>

CreateNoteForRepeat(w) ==
    /\ At(w, "note")
    /\ timeline' = Bump(timeline, proc[w].ws, proc[w].key)
    /\ Goto(w, "followUp")
    /\ UNCHANGED <<event, contacts, deals, cadences, sent, world, counted>>

\* The "Lead captured" activity.
CreateNote(w) ==
    /\ At(w, "note")
    /\ timeline' = Bump(timeline, proc[w].ws, proc[w].key)
    /\ Goto(w, IF proc[w].isNew THEN "followUp" ELSE "mark")
    /\ UNCHANGED <<event, contacts, deals, cadences, sent, world, counted>>

\* The cadence of a new contact is best effort: a failure is swallowed.
ScheduleFollowUps(w) ==
    LET ack == proc[w].mayAck /\ PersonOf[proc[w].lead] \notin Anonymous
    IN  /\ At(w, "followUp")
        /\ cadences' \in {cadences,
                          Bump(cadences, proc[w].ws, PersonOf[proc[w].lead])}
        /\ Goto(w, IF ack THEN "ack" ELSE "mark")
        /\ UNCHANGED <<event, contacts, deals, timeline, sent, world, counted>>

\* So is the WhatsApp acknowledgement: sent, or not configured.
Acknowledge(w) ==
    /\ At(w, "ack")
    /\ sent' \in {sent, Bump(sent, proc[w].ws, PersonOf[proc[w].lead])}
    /\ Goto(w, "mark")
    /\ UNCHANGED <<event, contacts, deals, timeline, cadences, world, counted>>

\* The consent-audit activity, which no property reads, then
\* webhookEvent.update by dedupeKey: processedAt, and workspaceId as well.
MarkProcessed(w) ==
    /\ At(w, "mark")
    /\ event' = [event EXCEPT ![proc[w].key].done = TRUE,
                              ![proc[w].key].ws = proc[w].ws]
    /\ Return(w)
    /\ UNCHANGED <<crm, world>>

\* A database call throws: processLead rethrows, the batch logs and goes on.
Fail(w) ==
    /\ faults < MaxFaults
    /\ proc[w].pc \in Running
    /\ faults' = faults + 1
    /\ Goto(w, "next")
    /\ UNCHANGED <<event, crm, config, accepted, counted, reconfigs>>

\* The serverless function is killed or times out: its batch is forgotten.
Crash(w) ==
    /\ faults < MaxFaults
    /\ ~At(w, "idle")
    /\ faults' = faults + 1
    /\ proc' = [proc EXCEPT ![w] = Idle]
    /\ UNCHANGED <<event, crm, config, accepted, counted, reconfigs>>

-----------------------------------------------------------------------------
Process(w) ==
    \/ ReadConfig(w) \/ Dedupe(w) \/ Record(w)
    \/ FindContact(w) \/ CheckQuota(w) \/ CreateContact(w)
    \/ CreateDeal(w) \/ CreateNote(w) \/ ScheduleFollowUps(w)
    \/ Acknowledge(w) \/ MarkProcessed(w)

Next ==
    \/ \E ws \in Workspaces, l \in Leads :
         Enqueue(ws, l) \/ EnqueueFails(ws, l)
    \/ \E w \in Workers, ws \in Workspaces :
         StartBatch(w, ws) \/ (\E l \in Leads : Enquiry(w, ws, l))
    \/ \E w \in Workers :
         Take(w) \/ Finish(w) \/ Process(w) \/ Fail(w) \/ Crash(w)
    \/ \E ws \in Workspaces, s \in Sources, c \in Configs : Reconfigure(ws, s, c)

Spec == Init /\ [][Next]_vars

\* A worker that started keeps executing, and whoever schedules the worker
\* endpoint keeps polling every workspace.  Polling is strong because Workers
\* bounds the model, not the platform: a poll never waits for a free slot.
FairSpec ==
    /\ Spec
    /\ \A w \in Workers : WF_vars(Take(w) \/ Finish(w) \/ Process(w))
    /\ \A ws \in Workspaces : SF_vars(\E w \in Workers : StartBatch(w, ws))

-----------------------------------------------------------------------------
(* Properties *)

\* The queue delivers every key at least once and settles it only afterwards:
\* processedAt is written only once the lead is on the timeline, and is never
\* cleared, whatever the interleaving of workers, crashes and failed calls.
Delivery == INSTANCE LeadDelivery WITH
    status <- [k \in Keys |-> IF ~Stored(k) THEN "absent"
                              ELSE IF event[k].done THEN "done" ELSE "pending"],
    captured <- {k \in Keys : \E ws \in Workspaces : timeline[ws][k] > 0}

DeliverySpec == Delivery!Spec

Total(table, k) == Sum([ws \in Workspaces |-> table[ws][k]])

\* What the missing lock costs: a key gets one deal for each worker that ran
\* beside the others and one more for each fault, never an unbounded number,
\* because processedAt stops every attempt that starts later.
DuplicatesBounded ==
    \A k \in Keys : Total(deals, k) <= Cardinality(Workers) + faults

\* A contact row gets at most one follow-up cadence and one acknowledgement,
\* also when its lead is processed again after a crash or a repeat enquiry.
AutomationOncePerContact ==
    \A ws \in Workspaces, p \in Persons :
        /\ cadences[ws][p] <= contacts[ws][p]
        /\ sent[ws][p] <= contacts[ws][p]

\* The contact cap is checked before the create without a lock, so concurrent
\* workers may pass it together, by one row each at most.
QuotaOvershootBounded ==
    \A ws \in Workspaces :
        Sum(contacts[ws]) < ContactLimit + Cardinality(Workers)

\* With one worker the queue is exactly once until something fails or a source
\* is edited: a lead gets one deal, under the key it was queued with or the one
\* its field map gives it, however often it is posted, polled and replayed.  A
\* person who left a phone number or an e-mail address is one contact, faults
\* and edits or not.
OneDealPerLead ==
    /\ faults = 0 /\ reconfigs = 0 =>
          \A l \in Leads :
              LET keys == {KeyOf[l], MappedKeyOf[l]}
              IN  \A k \in keys, j \in keys :
                    /\ Total(deals, k) <= 1
                    /\ k # j => Total(deals, k) + Total(deals, j) <= 1
    /\ \A ws \in Workspaces, p \in Persons \ Anonymous : contacts[ws][p] <= 1

Plain(c) == c = NoConfig \/ (c.enabled /\ ~c.mapped)

\* A lead that is in the queue reaches the timeline, under the key of its
\* field map or without, provided the workers are polled, faults stop and no
\* source was ever disabled or mapped; or the plan has no room for a contact.
QueuedIsCaptured ==
    [](\A ws \in Workspaces, s \in Sources : Plain(config[ws][s])) =>
        \A l \in Leads :
            (\E k \in Keys : Stored(k) /\ event[k].lead = l) ~>
                (\E ws \in Workspaces :
                    \/ OverQuota(ws) /\ ~Matches(ws, l)
                    \/ \E k \in {KeyOf[l], MappedKeyOf[l]} : timeline[ws][k] > 0)

\* Replaying an event whose deal exists makes no second deal ("replay is safe
\* because processLead is idempotent on WebhookEvent.dedupeKey").
ReplayIdempotent ==
    [][\A w \in Workers :
          /\ At(w, "deal")
          /\ proc[w].item # Null
          /\ Total(deals, proc[w].key) > 0
          /\ proc'[w] # proc[w]
          => deals' = deals]_vars

\* A batch of one workspace leaves the events of the others alone ("All
\* operations are workspace-scoped").
WorkspaceScoped ==
    [][\A w \in Workers, k \in Keys :
          /\ proc[w].item # Null
          /\ proc'[w] # proc[w]
          /\ Stored(k)
          /\ event[k].ws # proc[w].ws
          => event'[k] = event[k]]_vars

\* A lead is dropped as a duplicate only of a lead of its own workspace
\* ("materializes it ..., workspace-scoped, with dedupe").
DedupeScoped ==
    [][\A w \in Workers :
          /\ At(w, "dedupe")
          /\ Processed(proc[w].key)
          /\ proc'[w].pc = "next"
          => event[proc[w].key].ws = proc[w].ws]_vars

\* A lead that came through the queue is never acknowledged over WhatsApp.
QueuedNeverMessaged ==
    [][\A w \in Workers :
          At(w, "ack") /\ proc'[w] # proc[w] /\ sent' # sent
              => proc[w].item = Null]_vars

\* What a batch reports as processed is processed.
CountedIsProcessed == \A k \in counted : Processed(k)

\* Whatever the webhook answered with received: true is on record for replay.
AcceptedIsRecorded == \A a \in accepted : Stored(KeyOf[a[2]])
=============================================================================
