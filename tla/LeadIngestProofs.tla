-------------------------- MODULE LeadIngestProofs --------------------------
(***************************************************************************)
(* Proofs about LeadIngest, for any number of workspaces, leads, workers   *)
(* and faults: its types, that it implements LeadDelivery, and what the    *)
(* locks it does not take may cost in deals, contacts and messages.        *)
(***************************************************************************)
EXTENDS LeadIngest, FiniteSetTheorems, WellFoundedInduction, TLAPS

(* The phases of processLead in which something is already known. *)
Started == Running \ {"config"}
Recorded == Started \ {"dedupe", "record"}
Noted == {"followUp", "ack", "mark"}

Captured(k) == \E ws \in Workspaces : timeline[ws][k] > 0

\* What a worker has established by the time it is in a phase.
WorkerOK(w) ==
    /\ proc[w].pc # "idle" => proc[w].ws \in Workspaces
    /\ proc[w].pc \in Running => proc[w].lead \in Leads
    /\ proc[w].pc \in Started => proc[w].key \in Keys
    /\ proc[w].pc \in Recorded => Stored(proc[w].key)
    /\ proc[w].pc \in Noted => Captured(proc[w].key)
    /\ \A k \in proc[w].batch : Stored(k)

WorkerInv == \A w \in Workers : WorkerOK(w)

SettledInv == \A k \in Keys : Processed(k) => Captured(k)

IInv == TypeOK /\ WorkerInv /\ SettledInv

\* Nothing is ever taken back: rows stay, and so do timeline activities.
Monotone ==
    /\ \A k \in Keys : Stored(k) => Stored(k)'
    /\ \A k \in Keys : Captured(k) => Captured(k)'

-----------------------------------------------------------------------------

LEMMA NewEventType ==
    ASSUME TypeOK, NEW ws \in Workspaces, NEW l \in Leads
    PROVE  NewEvent(ws, l) \in Event
<1>1. IsFiniteSet({k \in Keys : Stored(k)})
    BY FiniteAssumption, FS_Subset
<1>2. Cardinality({k \in Keys : Stored(k)}) \in Nat
    BY <1>1, FS_CardinalityType
<1> QED
    BY <1>2 DEF NewEvent, Event

LEMMA BumpType ==
    ASSUME NEW S, NEW table \in [Workspaces -> [S -> Nat]],
           NEW ws \in Workspaces, NEW x \in S
    PROVE  Bump(table, ws, x) \in [Workspaces -> [S -> Nat]]
BY DEF Bump

\* What a worker knows survives the steps of the others.
LEMMA OthersKeep ==
    ASSUME TypeOK, NEW v \in Workers, WorkerOK(v), Monotone, proc'[v] = proc[v]
    PROVE  WorkerOK(v)'
<1>1. proc[v] \in Proc
    BY DEF TypeOK
<1>2. proc[v].batch \subseteq Keys
    BY <1>1 DEF Proc
<1>3. proc[v].pc \in Recorded => proc[v].pc \in Started
    BY DEF Recorded
<1>4. proc[v].pc \in Noted => proc[v].pc \in Started
    BY DEF Noted, Started, Running
<1> QED
    BY <1>2, <1>3, <1>4 DEF WorkerOK, Monotone

\* A step that leaves the table and the timeline alone takes nothing back.
LEMMA QuietMonotone ==
    ASSUME event' = event, timeline' = timeline
    PROVE  Monotone /\ (SettledInv => SettledInv')
BY DEF Monotone, SettledInv, Stored, Processed, Captured

LEMMA InitIInv == Init => IInv
<1> SUFFICES ASSUME Init PROVE IInv
    OBVIOUS
<1>1. TypeOK
    BY BoundAssumption DEF Init, TypeOK, Idle, Proc
<1>2. WorkerInv
    BY DEF Init, WorkerInv, WorkerOK, Idle, Running, Started, Recorded, Noted
<1>3. SettledInv
    BY DEF Init, SettledInv, Processed, Stored
<1> QED
    BY <1>1, <1>2, <1>3 DEF IInv

LEMMA EnqueueStep ==
    ASSUME IInv, NEW ws \in Workspaces, NEW l \in Leads, Enqueue(ws, l)
    PROVE  IInv'
<1>1. NewEvent(ws, l) \in Event
    BY NewEventType DEF IInv
<1>2. KeyOf[l] \in Keys
    BY LeadAssumption
<1>3. TypeOK'
    BY <1>1, <1>2 DEF IInv, TypeOK, Enqueue, crm
<1>4. Monotone
    BY <1>1, NullAssumption DEF Enqueue, crm, Monotone, Stored, Captured, IInv, TypeOK
<1>5. WorkerInv'
    BY <1>4, OthersKeep DEF IInv, WorkerInv, Enqueue
<1>6. SettledInv'
    BY <1>1, <1>2 DEF IInv, SettledInv, Enqueue, crm, Processed, Stored, Captured,
                      NewEvent, TypeOK
<1> QED
    BY <1>3, <1>5, <1>6 DEF IInv

LEMMA WorldStep ==
    ASSUME IInv,
           \/ \E ws \in Workspaces, l \in Leads : EnqueueFails(ws, l)
           \/ \E ws \in Workspaces, s \in Sources, c \in Configs :
                Reconfigure(ws, s, c)
    PROVE  IInv'
<1>1. /\ event' = event
      /\ timeline' = timeline
      /\ proc' = proc
    BY DEF EnqueueFails, Reconfigure, crm
<1>2. MaxFaults \in Nat /\ MaxReconfigs \in Nat
    BY BoundAssumption
<1>3. TypeOK'
    <2>1. CASE \E ws \in Workspaces, l \in Leads : EnqueueFails(ws, l)
        BY <1>2, <2>1 DEF IInv, TypeOK, EnqueueFails, crm
    <2>2. ASSUME NEW ws \in Workspaces, NEW s \in Sources, NEW c \in Configs,
                 Reconfigure(ws, s, c)
          PROVE  TypeOK'
        BY <1>2, <2>2 DEF IInv, TypeOK, Reconfigure, crm
    <2> QED
        BY <2>1, <2>2
<1>4. WorkerInv' /\ SettledInv'
    BY <1>1, QuietMonotone, OthersKeep DEF IInv, WorkerInv
<1> QED
    BY <1>3, <1>4 DEF IInv

\* The steps that only move a worker and leave the database alone.
LEMMA LocalStep ==
    ASSUME IInv, NEW w \in Workers, NEW r \in Proc,
           proc' = [proc EXCEPT ![w] = r],
           UNCHANGED <<event, crm, world>>,
           counted' \subseteq Keys,
           WorkerOK(w)'
    PROVE  IInv'
<1>1. /\ event' = event
      /\ timeline' = timeline
    BY DEF crm
<1>2. TypeOK'
    BY DEF IInv, TypeOK, crm, world
<1>3. ASSUME NEW v \in Workers PROVE WorkerOK(v)'
    <2>1. CASE v = w
        BY <2>1
    <2>2. CASE v # w
        BY <1>1, <2>2, QuietMonotone, OthersKeep DEF IInv, TypeOK, WorkerInv
    <2> QED
        BY <2>1, <2>2
<1>4. SettledInv'
    BY <1>1, QuietMonotone DEF IInv
<1> QED
    BY <1>2, <1>3, <1>4 DEF IInv, WorkerInv

LEMMA BatchStep ==
    ASSUME IInv, NEW w \in Workers, NEW ws \in Workspaces,
           \/ StartBatch(w, ws)
           \/ \E l \in Leads : Enquiry(w, ws, l)
           \/ Take(w)
           \/ Finish(w)
    PROVE  IInv'
<1> USE DEF Idle, Running, Started, Recorded, Noted
<1>1. proc[w] \in Proc /\ WorkerOK(w) /\ counted \subseteq Keys
    BY DEF IInv, TypeOK, WorkerInv
<1>2. CASE StartBatch(w, ws)
    <2> DEFINE r == [Idle EXCEPT !.pc = "next", !.ws = ws, !.batch = Oldest(ws)]
    <2>1. r \in Proc
        BY DEF Proc, Oldest, Pending
    <2>2. WorkerOK(w)'
        BY <1>2, <2>1 DEF StartBatch, WorkerOK, Oldest, Pending, Stored, IInv, TypeOK
    <2> QED
        BY <1>1, <1>2, <2>1, <2>2, LocalStep DEF StartBatch
<1>3. ASSUME NEW l \in Leads, Enquiry(w, ws, l) PROVE IInv'
    <2> DEFINE r == [Idle EXCEPT !.pc = "config", !.ws = ws, !.lead = l]
    <2>1. r \in Proc
        BY DEF Proc
    <2>2. WorkerOK(w)'
        BY <1>3, <2>1 DEF Enquiry, WorkerOK, IInv, TypeOK
    <2> QED
        BY <1>1, <1>3, <2>1, <2>2, LocalStep DEF Enquiry
<1>4. CASE Take(w)
    <2>1. PICK k \in proc[w].batch :
            proc' = [proc EXCEPT ![w] = [Idle EXCEPT !.pc = "config",
                                                     !.ws = proc[w].ws,
                                                     !.batch = proc[w].batch \ {k},
                                                     !.item = k,
                                                     !.lead = event[k].lead]]
        BY <1>4 DEF Take
    <2> DEFINE r == [Idle EXCEPT !.pc = "config", !.ws = proc[w].ws,
                                 !.batch = proc[w].batch \ {k}, !.item = k,
                                 !.lead = event[k].lead]
    <2>2. k \in Keys /\ event[k] \in Event
        BY <1>1, <2>1 DEF Proc, WorkerOK, Stored, IInv, TypeOK
    <2>3. r \in Proc
        BY <1>1, <2>2 DEF Proc, Event
    <2>4. WorkerOK(w)'
        BY <1>1, <1>4, <2>1, <2>2, <2>3
        DEF Take, At, WorkerOK, IInv, TypeOK, Event, Stored
    <2> QED
        BY <1>1, <1>4, <2>1, <2>3, <2>4, LocalStep DEF Take
<1>5. CASE Finish(w)
    <2>1. Idle \in Proc
        BY DEF Proc
    <2>2. WorkerOK(w)'
        BY <1>5, <2>1 DEF Finish, WorkerOK, IInv, TypeOK
    <2> QED
        BY <1>1, <1>5, <2>1, <2>2, LocalStep DEF Finish
<1> QED
    BY <1>2, <1>3, <1>4, <1>5

\* The phases that read the database and decide where to go.
LEMMA QueryStep ==
    ASSUME IInv, NEW w \in Workers,
           ReadConfig(w) \/ Dedupe(w) \/ FindContact(w) \/ CheckQuota(w)
    PROVE  IInv'
<1> USE DEF Running, Started, Recorded, Noted
<1>1. proc[w] \in Proc /\ WorkerOK(w) /\ counted \subseteq Keys
    BY DEF IInv, TypeOK, WorkerInv
<1>2. proc \in [Workers -> Proc]
    BY DEF IInv, TypeOK
<1>3. CASE ReadConfig(w)
    <2> DEFINE l == proc[w].lead
               c == config[proc[w].ws][SourceOf[l]]
               key == IF c # NoConfig /\ c.mapped THEN MappedKeyOf[l] ELSE KeyOf[l]
               mayAck == IF c = NoConfig THEN proc[w].item = Null
                                              /\ proc[w].ws \in AutoAck
                         ELSE c.ack
    <2>1. At(w, "config") /\ l \in Leads /\ proc[w].ws \in Workspaces
        BY <1>1, <1>3 DEF ReadConfig, WorkerOK, At
    <2>2. c \in Config \cup {NoConfig}
        BY <2>1, ConfigAssumption, LeadAssumption DEF IInv, TypeOK
    <2>3. key \in Keys /\ mayAck \in BOOLEAN
        BY <2>1, <2>2, LeadAssumption DEF Config
    <2>4. CASE Return(w)
        <3> DEFINE r == [proc[w] EXCEPT !.pc = "next"]
        <3>1. r \in Proc /\ proc' = [proc EXCEPT ![w] = r] /\ counted' \subseteq Keys
            BY <1>1, <1>2, <2>4 DEF Return, Goto, Proc
        <3>2. event' = event
            BY <1>3 DEF ReadConfig
        <3>3. /\ proc'[w].pc = "next"
              /\ proc'[w].ws = proc[w].ws
              /\ proc'[w].batch = proc[w].batch
            BY <1>1, <1>2, <3>1 DEF Proc
        <3>4. proc[w].ws \in Workspaces /\ \A k \in proc[w].batch : Stored(k)
            BY <1>1, <2>1 DEF WorkerOK
        <3> HIDE DEF l, c, key, mayAck, r
        <3>5. WorkerOK(w)'
            BY <3>2, <3>3, <3>4 DEF WorkerOK, Stored
        <3> QED
            BY <1>3, <3>1, <3>5, LocalStep DEF ReadConfig, r
    <2>5. CASE ~Return(w)
        <3> DEFINE r == [proc[w] EXCEPT !.pc = "dedupe", !.key = key,
                                        !.mayAck = mayAck]
        <3> HIDE DEF key, mayAck
        <3>1. r \in Proc
            BY <1>1, <2>3 DEF Proc
        <3>2. proc' = [proc EXCEPT ![w] = r] /\ counted' = counted
            BY <1>1, <1>2, <1>3, <2>5 DEF ReadConfig, key, mayAck, Proc
        <3>3. WorkerOK(w)'
            BY <1>1, <1>2, <1>3, <2>1, <2>3, <3>1, <3>2
            DEF WorkerOK, ReadConfig, Stored, Proc
        <3> QED
            BY <1>1, <1>3, <3>1, <3>2, <3>3, LocalStep DEF ReadConfig
    <2> QED
        BY <2>4, <2>5
<1>4. CASE Dedupe(w)
    <2>1. PICK pc \in {"next", "contact", "record"} :
            /\ proc' = [proc EXCEPT ![w] = [proc[w] EXCEPT !.pc = pc]]
            /\ pc = "contact" => Stored(proc[w].key)
            /\ counted' \subseteq Keys
        BY <1>1, <1>2, <1>4 DEF Dedupe, Return, Goto, Proc
    <2> DEFINE r == [proc[w] EXCEPT !.pc = pc]
    <2>2. r \in Proc
        BY <1>1, <2>1 DEF Proc
    <2>3. WorkerOK(w)'
        BY <1>1, <1>2, <1>4, <2>1, <2>2 DEF WorkerOK, Dedupe, At, Stored, Proc
    <2> QED
        BY <1>4, <2>1, <2>2, <2>3, LocalStep DEF Dedupe
<1>5. CASE FindContact(w)
    <2>1. PICK pc \in {"deal", "quota"}, new \in BOOLEAN :
            proc' = [proc EXCEPT ![w] = [proc[w] EXCEPT !.pc = pc, !.isNew = new]]
        <3> DEFINE known == Matches(proc[w].ws, proc[w].lead)
        <3>1. known \in BOOLEAN
            BY DEF Matches
        <3> HIDE DEF known
        <3>2. proc' = [proc EXCEPT ![w] = [proc[w] EXCEPT
                                   !.pc = IF known THEN "deal" ELSE "quota",
                                   !.isNew = ~known]]
            BY <1>1, <1>2, <1>5 DEF FindContact, Proc, known
        <3> QED
            BY <3>1, <3>2
    <2> DEFINE r == [proc[w] EXCEPT !.pc = pc, !.isNew = new]
    <2>2. r \in Proc
        BY <1>1, <2>1 DEF Proc
    <2>3. WorkerOK(w)'
        BY <1>1, <1>2, <1>5, <2>1, <2>2 DEF WorkerOK, FindContact, At, Stored, Proc
    <2> QED
        BY <1>1, <1>5, <2>1, <2>2, <2>3, LocalStep DEF FindContact
<1>6. CASE CheckQuota(w)
    <2>1. PICK pc \in {"next", "create"} :
            proc' = [proc EXCEPT ![w] = [proc[w] EXCEPT !.pc = pc]]
        BY <1>1, <1>2, <1>6 DEF CheckQuota, Goto, Proc
    <2> DEFINE r == [proc[w] EXCEPT !.pc = pc]
    <2>2. r \in Proc
        BY <1>1, <2>1 DEF Proc
    <2>3. WorkerOK(w)'
        BY <1>1, <1>2, <1>6, <2>1, <2>2 DEF WorkerOK, CheckQuota, At, Stored, Proc
    <2> QED
        BY <1>1, <1>6, <2>1, <2>2, <2>3, LocalStep DEF CheckQuota
<1> QED
    BY <1>3, <1>4, <1>5, <1>6

\* The phases that write: what each must show of the worker that takes it.
LEMMA WriteStep ==
    ASSUME IInv, NEW w \in Workers, NEW r \in Proc,
           proc' = [proc EXCEPT ![w] = r],
           Monotone, TypeOK', WorkerOK(w)', SettledInv'
    PROVE  IInv'
<1>1. ASSUME NEW v \in Workers PROVE WorkerOK(v)'
    <2>1. CASE v = w
        BY <2>1
    <2>2. CASE v # w
        BY <2>2, OthersKeep DEF IInv, TypeOK, WorkerInv
    <2> QED
        BY <2>1, <2>2
<1> QED
    BY <1>1 DEF IInv, WorkerInv

LEMMA RecordStep ==
    ASSUME IInv, NEW w \in Workers, Record(w)
    PROVE  IInv'
<1> USE DEF Running, Started, Recorded, Noted
<1> DEFINE k == proc[w].key
           e == NewEvent(proc[w].ws, proc[w].lead)
<1>1. proc[w] \in Proc /\ WorkerOK(w) /\ proc \in [Workers -> Proc]
    BY DEF IInv, TypeOK, WorkerInv
<1>2. k \in Keys /\ proc[w].ws \in Workspaces /\ proc[w].lead \in Leads
    BY <1>1 DEF Record, WorkerOK, At
<1>3. e \in Event /\ e.done = FALSE
    BY <1>2, NewEventType DEF IInv, NewEvent
<1>4. CASE ~Stored(k) /\ event' = [event EXCEPT ![k] = e] /\ Goto(w, "contact")
    <2> DEFINE r == [proc[w] EXCEPT !.pc = "contact"]
    <2>1. r \in Proc /\ proc' = [proc EXCEPT ![w] = r]
        BY <1>1, <1>4 DEF Proc, Goto
    <2>2. TypeOK'
        BY <1>1, <1>2, <1>3, <1>4, <2>1 DEF IInv, TypeOK, Record, crm, world
    <2>3. Monotone
        BY <1>2, <1>3, <1>4, NullAssumption
        DEF Monotone, Stored, Captured, Record, crm, IInv, TypeOK
    <2>4. WorkerOK(w)'
        BY <1>1, <1>2, <1>3, <1>4, <2>1, <2>3, NullAssumption
        DEF WorkerOK, Stored, IInv, TypeOK, Monotone, Proc
    <2>5. SettledInv'
        BY <1>2, <1>3, <1>4
        DEF SettledInv, Processed, Stored, Captured, Record, crm, IInv, TypeOK
    <2> QED
        BY <2>1, <2>2, <2>3, <2>4, <2>5, WriteStep
<1>5. CASE Stored(k) /\ Goto(w, "next") /\ UNCHANGED event
    <2> DEFINE r == [proc[w] EXCEPT !.pc = "next"]
    <2>1. r \in Proc /\ proc' = [proc EXCEPT ![w] = r]
        BY <1>1, <1>5 DEF Proc, Goto
    <2>2. WorkerOK(w)'
        BY <1>1, <1>2, <1>5, <2>1 DEF WorkerOK, Stored, Proc
    <2>3. counted' \subseteq Keys /\ UNCHANGED <<event, crm, world>>
        BY <1>5 DEF Record, IInv, TypeOK
    <2> QED
        BY <2>1, <2>2, <2>3, LocalStep
<1> QED
    BY <1>4, <1>5 DEF Record

LEMMA CreateStep ==
    ASSUME IInv, NEW w \in Workers,
           \/ CreateContact(w) \/ CreateDeal(w)
           \/ ScheduleFollowUps(w) \/ Acknowledge(w)
    PROVE  IInv'
<1> USE DEF Running, Started, Recorded, Noted
<1> DEFINE ws == proc[w].ws
           p == PersonOf[proc[w].lead]
           k == proc[w].key
<1>1. proc[w] \in Proc /\ WorkerOK(w) /\ proc \in [Workers -> Proc]
    BY DEF IInv, TypeOK, WorkerInv
<1>2. /\ ws \in Workspaces
      /\ k \in Keys
      /\ p \in Persons
      /\ proc[w].pc \in {"create", "deal", "followUp", "ack"}
    BY <1>1, LeadAssumption
    DEF CreateContact, CreateDeal, ScheduleFollowUps, Acknowledge, WorkerOK, At
<1>3. /\ event' = event
      /\ timeline' = timeline
      /\ UNCHANGED <<config, accepted, counted, faults, reconfigs>>
    BY DEF CreateContact, CreateDeal, ScheduleFollowUps, Acknowledge, world
<1>4. PICK pc \in {"deal", "note", "ack", "mark"} :
        /\ proc' = [proc EXCEPT ![w] = [proc[w] EXCEPT !.pc = pc]]
        /\ pc \in {"ack", "mark"} => proc[w].pc \in {"followUp", "ack"}
    BY <1>1 DEF CreateContact, CreateDeal, ScheduleFollowUps, Acknowledge, Goto,
                At, Proc
<1> DEFINE r == [proc[w] EXCEPT !.pc = pc]
<1>5. r \in Proc
    BY <1>1, <1>4 DEF Proc
<1>6. /\ contacts' \in [Workspaces -> [Persons -> Nat]]
      /\ deals' \in [Workspaces -> [Keys -> Nat]]
      /\ cadences' \in [Workspaces -> [Persons -> Nat]]
      /\ sent' \in [Workspaces -> [Persons -> Nat]]
    <2>1. /\ contacts \in [Workspaces -> [Persons -> Nat]]
          /\ deals \in [Workspaces -> [Keys -> Nat]]
          /\ cadences \in [Workspaces -> [Persons -> Nat]]
          /\ sent \in [Workspaces -> [Persons -> Nat]]
        BY DEF IInv, TypeOK
    <2>2. CASE CreateContact(w)
        BY <1>2, <2>1, <2>2, BumpType DEF CreateContact
    <2>3. CASE CreateDeal(w)
        BY <1>2, <2>1, <2>3, BumpType DEF CreateDeal
    <2>4. CASE ScheduleFollowUps(w)
        <3>1. Bump(cadences, ws, p) \in [Workspaces -> [Persons -> Nat]]
            BY <1>2, <2>1, BumpType
        <3> QED
            BY <2>1, <2>4, <3>1 DEF ScheduleFollowUps
    <2>5. CASE Acknowledge(w)
        <3>1. Bump(sent, ws, p) \in [Workspaces -> [Persons -> Nat]]
            BY <1>2, <2>1, BumpType
        <3> QED
            BY <2>1, <2>5, <3>1 DEF Acknowledge
    <2> QED
        BY <2>2, <2>3, <2>4, <2>5
<1>7. TypeOK'
    BY <1>1, <1>3, <1>4, <1>5, <1>6 DEF IInv, TypeOK
<1>8. Monotone /\ SettledInv'
    BY <1>3, QuietMonotone DEF IInv
<1>9. WorkerOK(w)'
    BY <1>1, <1>2, <1>3, <1>4, <1>5 DEF WorkerOK, Stored, Captured, Proc
<1> QED
    BY <1>4, <1>5, <1>7, <1>8, <1>9, WriteStep

LEMMA NoteStep ==
    ASSUME IInv, NEW w \in Workers, CreateNote(w)
    PROVE  IInv'
<1> USE DEF Running, Started, Recorded, Noted
<1> DEFINE ws == proc[w].ws
           k == proc[w].key
<1>1. proc[w] \in Proc /\ WorkerOK(w) /\ proc \in [Workers -> Proc]
    BY DEF IInv, TypeOK, WorkerInv
<1>2. ws \in Workspaces /\ k \in Keys /\ Stored(k)
    BY <1>1 DEF CreateNote, WorkerOK, At
<1>3. timeline \in [Workspaces -> [Keys -> Nat]] /\ timeline' = Bump(timeline, ws, k)
    BY DEF IInv, TypeOK, CreateNote
<1>4. timeline' \in [Workspaces -> [Keys -> Nat]]
    BY <1>2, <1>3, BumpType
<1>5. /\ timeline'[ws][k] > 0
      /\ \A v \in Workspaces, j \in Keys : timeline'[v][j] >= timeline[v][j]
    BY <1>2, <1>3 DEF Bump
<1>6. PICK pc \in {"followUp", "mark"} :
        proc' = [proc EXCEPT ![w] = [proc[w] EXCEPT !.pc = pc]]
    BY <1>1 DEF CreateNote, Goto, Proc
<1> DEFINE r == [proc[w] EXCEPT !.pc = pc]
<1>7. r \in Proc
    BY <1>1, <1>6 DEF Proc
<1>8. TypeOK'
    BY <1>1, <1>4, <1>6, <1>7 DEF IInv, TypeOK, CreateNote, world
<1>9. Monotone
    <2>1. event' = event
        BY DEF CreateNote
    <2>2. ASSUME NEW j \in Keys, Captured(j) PROVE Captured(j)'
        <3>1. PICK v \in Workspaces : timeline[v][j] > 0
            BY <2>2 DEF Captured
        <3>2. timeline'[v][j] >= timeline[v][j]
            BY <1>5
        <3>3. timeline[v][j] \in Nat /\ timeline'[v][j] \in Nat
            BY <1>3, <1>4
        <3>4. timeline'[v][j] > 0
            BY <3>1, <3>2, <3>3
        <3> QED
            BY <3>4 DEF Captured
    <2> QED
        BY <2>1, <2>2 DEF Monotone, Stored
<1>10. WorkerOK(w)'
    <2>1. /\ proc'[w].key = k /\ proc'[w].ws = ws
          /\ proc'[w].lead = proc[w].lead /\ proc'[w].batch = proc[w].batch
          /\ proc'[w].pc \in {"followUp", "mark"}
          /\ event' = event
        BY <1>1, <1>6 DEF Proc, CreateNote
    <2>2. Captured(proc[w].key)'
        <3>1. timeline'[ws][proc'[w].key] > 0
            BY <1>5, <2>1
        <3> HIDE DEF ws
        <3> QED
            BY <1>2, <3>1 DEF Captured
    <2> QED
        BY <1>1, <1>2, <2>1, <2>2 DEF WorkerOK, Stored, CreateNote, At
<1>11. SettledInv'
    BY <1>9 DEF IInv, SettledInv, Monotone, Processed, Stored, CreateNote
<1> QED
    BY <1>6, <1>7, <1>8, <1>9, <1>10, <1>11, WriteStep

LEMMA MarkStep ==
    ASSUME IInv, NEW w \in Workers, MarkProcessed(w)
    PROVE  IInv'
<1> USE DEF Running, Started, Recorded, Noted
<1> DEFINE ws == proc[w].ws
           k == proc[w].key
           e == [event[k] EXCEPT !.done = TRUE, !.ws = ws]
           r == [proc[w] EXCEPT !.pc = "next"]
<1>1. proc[w] \in Proc /\ WorkerOK(w) /\ proc \in [Workers -> Proc]
    BY DEF IInv, TypeOK, WorkerInv
<1>2. ws \in Workspaces /\ k \in Keys /\ Stored(k) /\ Captured(k)
    BY <1>1 DEF MarkProcessed, WorkerOK, At
<1>3. event[k] \in Event
    BY <1>2 DEF IInv, TypeOK, Stored
<1>4. e \in Event /\ event' = [event EXCEPT ![k] = e]
    BY <1>2, <1>3 DEF Event, MarkProcessed, IInv, TypeOK
<1>5. r \in Proc /\ proc' = [proc EXCEPT ![w] = r]
    BY <1>1 DEF Proc, MarkProcessed, Return, Goto
<1>6. counted' \subseteq Keys
    BY <1>1 DEF MarkProcessed, Return, IInv, TypeOK, Proc
<1>7. TypeOK'
    BY <1>1, <1>2, <1>4, <1>5, <1>6 DEF IInv, TypeOK, MarkProcessed, crm, world
<1>8. Monotone
    BY <1>2, <1>4, NullAssumption
    DEF Monotone, Stored, Captured, MarkProcessed, crm, IInv, TypeOK
<1>9. WorkerOK(w)'
    BY <1>1, <1>2, <1>5, <1>8 DEF WorkerOK, Monotone, Proc
<1>10. SettledInv'
    BY <1>2, <1>4, <1>8
    DEF IInv, TypeOK, SettledInv, Monotone, Processed, Stored
<1> QED
    BY <1>5, <1>7, <1>8, <1>9, <1>10, WriteStep

LEMMA FaultStep ==
    ASSUME IInv, NEW w \in Workers, Fail(w) \/ Crash(w)
    PROVE  IInv'
<1> USE DEF Running, Started, Recorded, Noted, Idle
<1>1. proc[w] \in Proc /\ WorkerOK(w) /\ proc \in [Workers -> Proc]
    BY DEF IInv, TypeOK, WorkerInv
<1>2. PICK r \in {Idle, [proc[w] EXCEPT !.pc = "next"]} :
        /\ proc' = [proc EXCEPT ![w] = r]
        /\ r # Idle => proc[w].pc # "idle"
    BY <1>1 DEF Fail, Crash, Goto, Proc
<1>3. r \in Proc
    <2>1. Idle \in Proc /\ [proc[w] EXCEPT !.pc = "next"] \in Proc
        BY <1>1 DEF Proc
    <2> QED
        BY <1>2, <2>1
<1>4. /\ event' = event
      /\ timeline' = timeline
    BY DEF Fail, Crash, crm
<1>5. MaxFaults \in Nat
    BY BoundAssumption
<1>6. TypeOK'
    BY <1>1, <1>2, <1>3, <1>5 DEF IInv, TypeOK, Fail, Crash, crm
<1>7. WorkerOK(w)'
    BY <1>1, <1>2, <1>3, <1>4 DEF WorkerOK, Stored, Proc
<1> QED
    BY <1>2, <1>3, <1>4, <1>6, <1>7, QuietMonotone, WriteStep DEF IInv

LEMMA NextIInv == IInv /\ [Next]_vars => IInv'
<1> SUFFICES ASSUME IInv, [Next]_vars PROVE IInv'
    OBVIOUS
<1>1. ASSUME NEW ws \in Workspaces, NEW l \in Leads,
             Enqueue(ws, l) \/ EnqueueFails(ws, l)
      PROVE  IInv'
    BY <1>1, EnqueueStep, WorldStep
<1>2. ASSUME NEW w \in Workers, NEW ws \in Workspaces,
             StartBatch(w, ws) \/ \E l \in Leads : Enquiry(w, ws, l)
      PROVE  IInv'
    BY <1>2, BatchStep
<1>3. ASSUME NEW w \in Workers, Take(w) \/ Finish(w)
      PROVE  IInv'
    <2>1. proc[w].ws \in Workspaces
        BY <1>3 DEF IInv, WorkerInv, WorkerOK, Take, Finish, At
    <2> QED
        BY <1>3, <2>1, BatchStep
<1>4. ASSUME NEW w \in Workers, Process(w)
      PROVE  IInv'
    BY <1>4, QueryStep, RecordStep, CreateStep, NoteStep, MarkStep DEF Process
<1>5. ASSUME NEW w \in Workers, Fail(w) \/ Crash(w)
      PROVE  IInv'
    BY <1>5, FaultStep
<1>6. ASSUME NEW ws \in Workspaces, NEW s \in Sources, NEW c \in Configs,
             Reconfigure(ws, s, c)
      PROVE  IInv'
    BY <1>6, WorldStep
<1>7. CASE UNCHANGED vars
    BY <1>7 DEF vars, IInv, TypeOK, WorkerInv, WorkerOK, SettledInv, Stored,
                Processed, Captured
<1> QED
    BY <1>1, <1>2, <1>3, <1>4, <1>5, <1>6, <1>7 DEF Next

-----------------------------------------------------------------------------

LEMMA Invariance == Spec => []IInv
<1> QED
    BY InitIInv, NextIInv, PTL DEF Spec

\* The tables and the workers' registers keep their types, whatever the
\* number of workers, workspaces, leads and faults.
THEOREM TypeCorrect == Spec => []TypeOK
<1>1. IInv => TypeOK
    BY DEF IInv
<1> QED
    BY Invariance, <1>1, PTL

\* processedAt is never set on a lead that is not on the timeline: a worker
\* that dies may cost a duplicate, but never a lead that counts as done.
THEOREM SettledIsCaptured == Spec => []SettledInv
<1>1. IInv => SettledInv
    BY DEF IInv
<1> QED
    BY Invariance, <1>1, PTL

-----------------------------------------------------------------------------
(* The queue implements at-least-once delivery. *)

LEMMA InitDelivery == Init => Delivery!Init
<1> SUFFICES ASSUME Init PROVE Delivery!Init
    OBVIOUS
<1>1. \A k \in Keys : ~Stored(k)
    BY DEF Init, Stored
<1>2. \A ws \in Workspaces, k \in Keys : ~(timeline[ws][k] > 0)
    BY DEF Init
<1> QED
    BY <1>1, <1>2 DEF Delivery!Init

\* Steps that move neither the table nor the timeline stutter.
LEMMA QuietDelivery ==
    ASSUME event' = event, timeline' = timeline
    PROVE  UNCHANGED Delivery!vars
BY DEF Delivery!vars, Stored

\* Storing a pending row under a new key is a Receive.
LEMMA StoreDelivery ==
    ASSUME IInv, NEW k \in Keys, NEW e \in Event, e.done = FALSE, ~Stored(k),
           event' = [event EXCEPT ![k] = e], timeline' = timeline
    PROVE  Delivery!Next
<1>1. Delivery!Receive(k)
    BY NullAssumption DEF IInv, TypeOK, Delivery!Receive, Stored
<1> QED
    BY <1>1 DEF Delivery!Next

LEMMA NoteDelivery ==
    ASSUME IInv, NEW w \in Workers, CreateNote(w)
    PROVE  Delivery!Next
<1>0. PICK k \in Keys : k = proc[w].key
    BY DEF IInv, WorkerInv, WorkerOK, CreateNote, At, Running, Started
<1> DEFINE ws == proc[w].ws
<1>1. ws \in Workspaces /\ Stored(k)
    BY <1>0
    DEF IInv, WorkerInv, WorkerOK, CreateNote, At, Running, Started, Recorded
<1>2. /\ timeline \in [Workspaces -> [Keys -> Nat]]
      /\ timeline' = Bump(timeline, ws, k)
      /\ event' = event
    BY <1>0 DEF IInv, TypeOK, CreateNote
<1>3. \A j \in Keys : (\E v \in Workspaces : timeline'[v][j] > 0)
                        <=> ((\E v \in Workspaces : timeline[v][j] > 0) \/ j = k)
    BY <1>1, <1>2 DEF Bump
<1>4. Delivery!Capture(k)
    BY <1>1, <1>2, <1>3 DEF Delivery!Capture, Stored
<1> QED
    BY <1>1, <1>4 DEF Delivery!Next

LEMMA MarkDelivery ==
    ASSUME IInv, NEW w \in Workers, MarkProcessed(w)
    PROVE  [Delivery!Next]_(Delivery!vars)
<1>0. PICK k \in Keys : k = proc[w].key
    BY DEF IInv, WorkerInv, WorkerOK, MarkProcessed, At, Running, Started
<1>1. Stored(k) /\ Captured(k) /\ proc[w].ws \in Workspaces
    BY <1>0 DEF IInv, WorkerInv, WorkerOK, MarkProcessed, At, Running, Started,
           Recorded, Noted
<1>2. event[k] \in Event /\ event \in [Keys -> Event \cup {NoEvent}]
    BY <1>1 DEF IInv, TypeOK, Stored
<1>3. PICK e \in Event : e.done /\ event' = [event EXCEPT ![k] = e]
    <2> DEFINE e == [event[k] EXCEPT !.done = TRUE, !.ws = proc[w].ws]
    <2>1. e \in Event /\ e.done /\ event' = [event EXCEPT ![k] = e]
        BY <1>0, <1>1, <1>2 DEF Event, MarkProcessed
    <2> QED
        BY <2>1
<1>4. timeline' = timeline
    BY DEF MarkProcessed, crm
<1>5. e # NoEvent
    BY NullAssumption
<1>6. CASE event[k].done
    BY <1>1, <1>2, <1>3, <1>4, <1>5, <1>6 DEF Delivery!vars, Stored
<1>7. CASE ~event[k].done
    <2>1. Delivery!Settle(k)
        BY <1>1, <1>2, <1>3, <1>4, <1>5, <1>7
        DEF Delivery!Settle, Stored, Captured
    <2> QED
        BY <1>1, <2>1 DEF Delivery!Next
<1> QED
    BY <1>6, <1>7

LEMMA NextDelivery == IInv /\ [Next]_vars => [Delivery!Next]_(Delivery!vars)
<1> SUFFICES ASSUME IInv, [Next]_vars PROVE [Delivery!Next]_(Delivery!vars)
    OBVIOUS
<1>1. ASSUME NEW ws \in Workspaces, NEW l \in Leads, Enqueue(ws, l)
      PROVE  [Delivery!Next]_(Delivery!vars)
    <2>1. KeyOf[l] \in Keys /\ timeline' = timeline
        BY <1>1, LeadAssumption DEF Enqueue, crm
    <2>2. CASE Stored(KeyOf[l])
        BY <1>1, <2>1, <2>2, QuietDelivery DEF Enqueue
    <2>3. CASE ~Stored(KeyOf[l])
        <3> DEFINE e == NewEvent(ws, l)
        <3>1. e \in Event /\ e.done = FALSE
            BY NewEventType DEF IInv, NewEvent
        <3>2. event' = [event EXCEPT ![KeyOf[l]] = e]
            BY <1>1, <2>3 DEF Enqueue
        <3> QED
            BY <2>1, <2>3, <3>1, <3>2, StoreDelivery
    <2> QED
        BY <2>2, <2>3
<1>2. ASSUME NEW w \in Workers, Record(w)
      PROVE  [Delivery!Next]_(Delivery!vars)
    <2> DEFINE k == proc[w].key
               e == NewEvent(proc[w].ws, proc[w].lead)
    <2>1. k \in Keys /\ proc[w].ws \in Workspaces /\ proc[w].lead \in Leads
        BY <1>2 DEF Record, At, IInv, WorkerInv, WorkerOK, Running, Started
    <2>2. e \in Event /\ e.done = FALSE
        BY <2>1, NewEventType DEF IInv, NewEvent
    <2>3. timeline' = timeline
        BY <1>2 DEF Record, crm
    <2>4. CASE ~Stored(k) /\ event' = [event EXCEPT ![k] = e]
        BY <2>1, <2>2, <2>3, <2>4, StoreDelivery
    <2>5. CASE event' = event
        BY <2>3, <2>5, QuietDelivery
    <2> QED
        BY <1>2, <2>4, <2>5 DEF Record
<1>3. ASSUME NEW w \in Workers, CreateNote(w)
      PROVE  [Delivery!Next]_(Delivery!vars)
    BY <1>3, NoteDelivery
<1>4. ASSUME NEW w \in Workers, MarkProcessed(w)
      PROVE  [Delivery!Next]_(Delivery!vars)
    BY <1>4, MarkDelivery
<1>5. ASSUME NEW w \in Workers,
             \/ Take(w) \/ Finish(w) \/ Fail(w) \/ Crash(w)
             \/ ReadConfig(w) \/ Dedupe(w) \/ FindContact(w) \/ CheckQuota(w)
             \/ CreateContact(w) \/ CreateDeal(w)
             \/ ScheduleFollowUps(w) \/ Acknowledge(w)
      PROVE  event' = event /\ timeline' = timeline
    BY <1>5 DEF Take, Finish, Fail, Crash, ReadConfig, Dedupe, FindContact,
                CheckQuota, CreateContact, CreateDeal, ScheduleFollowUps,
                Acknowledge, crm
<1>6. ASSUME NEW ws \in Workspaces,
             \/ \E l \in Leads : EnqueueFails(ws, l)
             \/ \E w \in Workers : StartBatch(w, ws)
             \/ \E w \in Workers, l \in Leads : Enquiry(w, ws, l)
             \/ \E s \in Sources, c \in Configs : Reconfigure(ws, s, c)
      PROVE  event' = event /\ timeline' = timeline
    BY <1>6 DEF EnqueueFails, StartBatch, Enquiry, Reconfigure, crm
<1>7. CASE UNCHANGED vars
    BY <1>7, QuietDelivery DEF vars
<1> QED
    BY <1>1, <1>2, <1>3, <1>4, <1>5, <1>6, <1>7, QuietDelivery DEF Next, Process

\* The queue, with all its workers, crashes and configuration edits, delivers
\* each key at least once and settles it only afterwards and for good.
THEOREM Implements == Spec => DeliverySpec
<1> QED
    BY InitDelivery, Invariance, NextDelivery, PTL
    DEF Spec, DeliverySpec, Delivery!Spec

-----------------------------------------------------------------------------
(* Sums over the rows of a table. *)

\* The order of the numbers, as a relation.
Less == {ss \in Nat \X Nat : ss[1] < ss[2]}

\* A set of numbers that is not empty has a least one.
LEMMA LeastNumber ==
    ASSUME NEW T \in SUBSET Nat, T # {}
    PROVE  \E n \in T : \A m \in T : n <= m
<1>1. IsWellFoundedOn(Less, Nat)
    <2>1. Less = OpToRel(<, Nat)
        BY DEF Less, OpToRel
    <2> QED
        BY <2>1, NatLessThanWellFounded
<1>2. PICK x \in T : \A y \in T : ~(<<y, x>> \in Less)
    BY <1>1, WFMin
<1>3. ASSUME NEW y \in T, ~(x <= y) PROVE FALSE
    <2>1. y < x /\ x \in Nat /\ y \in Nat
        BY <1>3
    <2>2. <<y, x>> \in Nat \X Nat /\ <<y, x>>[1] < <<y, x>>[2]
        BY <2>1
    <2>3. <<y, x>> \in Less
        BY <2>2 DEF Less
    <2> QED
        BY <1>2, <2>3
<1> QED
    BY <1>3

\* The element of s that the folds of the library take first.
Pick(s) == CHOOSE x \in s : TRUE

\* What Pick takes out of a subset leaves a smaller one.
LEMMA WithoutPick ==
    ASSUME NEW S, IsFiniteSet(S), NEW T \in SUBSET S, T # {}
    PROVE  /\ Pick(T) \in T
           /\ IsFiniteSet(T) /\ Cardinality(T) \in Nat
           /\ Cardinality(T \ {Pick(T)}) \in Nat
           /\ Cardinality(T) = Cardinality(T \ {Pick(T)}) + 1
<1>1. Pick(T) \in T
    BY DEF Pick
<1>2. IsFiniteSet(T) /\ IsFiniteSet(T \ {Pick(T)})
    BY FS_Subset
<1>3. Cardinality(T \ {Pick(T)}) = Cardinality(T) - 1
    BY <1>1, <1>2, FS_RemoveElement
<1>4. Cardinality(T) \in Nat /\ Cardinality(T \ {Pick(T)}) \in Nat
    BY <1>2, FS_CardinalityType
<1> QED
    BY <1>1, <1>2, <1>3, <1>4

\* What holds of {} and of every T if it holds without Pick(T) holds of every T.
LEMMA SubsetInduction ==
    ASSUME NEW S, IsFiniteSet(S), NEW P, {} \in P,
           \A T \in SUBSET S : T # {} /\ T \ {Pick(T)} \in P => T \in P
    PROVE  \A T \in SUBSET S : T \in P
<1> DEFINE Sizes == {n \in Nat : \E T \in SUBSET S : Cardinality(T) = n /\ T \notin P}
<1> SUFFICES ASSUME NEW T \in SUBSET S, T \notin P PROVE FALSE
    OBVIOUS
<1>1. Cardinality(T) \in Sizes
    BY WithoutPick
<1>2. PICK n \in Sizes : \A m \in Sizes : n <= m
    BY <1>1, LeastNumber
<1>3. PICK R \in SUBSET S : Cardinality(R) = n /\ R \notin P
    BY <1>2
<1>4. R # {}
    BY <1>3
<1>5. R \ {Pick(R)} \notin P
    BY <1>3, <1>4
<1>6. Cardinality(R \ {Pick(R)}) \in Sizes /\ Cardinality(R \ {Pick(R)}) < n
    BY <1>3, <1>4, <1>5, WithoutPick
<1> HIDE DEF Sizes
<1>7. n <= Cardinality(R \ {Pick(R)}) /\ n \in Nat /\ Cardinality(R \ {Pick(R)}) \in Nat
    BY <1>2, <1>6 DEF Sizes
<1> QED
    BY <1>6, <1>7

\* The function FoldFunction looks its result up in.
IsSum(g, f, S) ==
    g = [s \in SUBSET S |-> IF s = {} THEN 0 ELSE f[Pick(s)] + g[s \ {Pick(s)}]]

\* There is such a function on the subsets of a finite set.
LEMMA SumExists ==
    ASSUME NEW f, NEW S, IsFiniteSet(S)
    PROVE  \E g : IsSum(g, f, S)
<1> DEFINE Small(n) == {s \in SUBSET S : Cardinality(s) <= n}
           Eq(g, s) == g[s] = IF s = {} THEN 0 ELSE f[Pick(s)] + g[s \ {Pick(s)}]
           Has(n) == \E g : DOMAIN g = Small(n) /\ g = [s \in DOMAIN g |-> g[s]]
                                /\ \A s \in Small(n) : Eq(g, s)
           Missing == {n \in Nat : ~Has(n)}
<1>1. Has(0)
    <2> DEFINE g == [s \in Small(0) |-> 0]
    <2>1. ASSUME NEW s \in Small(0), s # {} PROVE FALSE
        <3>1. Cardinality(s) \in Nat /\ Cardinality(s \ {Pick(s)}) \in Nat
              /\ Cardinality(s) = Cardinality(s \ {Pick(s)}) + 1
            BY <2>1, WithoutPick
        <3> QED
            BY <3>1
    <2>2. \A s \in Small(0) : Eq(g, s)
        BY <2>1
    <2> QED
        BY <2>2
<1>2. ASSUME NEW n \in Nat, Has(n) PROVE Has(n + 1)
    <2>1. PICK g : DOMAIN g = Small(n) /\ \A s \in Small(n) : Eq(g, s)
        BY <1>2
    <2> DEFINE h == [s \in Small(n + 1) |->
                       IF s \in Small(n) THEN g[s] ELSE f[Pick(s)] + g[s \ {Pick(s)}]]
    <2>2. ASSUME NEW s \in Small(n + 1) PROVE Eq(h, s)
        <3>1. CASE s = {}
            <4>1. s \in Small(n)
                BY <3>1, FS_EmptySet
            <4> QED
                BY <2>1, <3>1, <4>1
        <3>2. CASE s # {}
            <4>1. s \ {Pick(s)} \in Small(n)
                BY <3>2, WithoutPick
            <4>2. h[s \ {Pick(s)}] = g[s \ {Pick(s)}]
                <5>1. s \ {Pick(s)} \in Small(n + 1)
                    BY <4>1, WithoutPick, FS_EmptySet
                <5> QED
                    BY <4>1, <5>1
            <4>3. CASE s \in Small(n)
                <5>1. h[s] = g[s] /\ Eq(g, s)
                    BY <2>1, <4>3
                <5> HIDE DEF h, Small
                <5> QED
                    BY <3>2, <4>2, <5>1
            <4>4. CASE s \notin Small(n)
                <5>1. h[s] = f[Pick(s)] + g[s \ {Pick(s)}]
                    BY <4>4
                <5> HIDE DEF h, Small
                <5> QED
                    BY <3>2, <4>2, <5>1
            <4> QED
                BY <4>3, <4>4
        <3> QED
            BY <3>1, <3>2
    <2>3. DOMAIN h = Small(n + 1) /\ h = [s \in DOMAIN h |-> h[s]]
        OBVIOUS
    <2> HIDE DEF h
    <2> QED
        BY <2>2, <2>3
<1> HIDE DEF Has
<1>3. Missing = {}
    <2> SUFFICES ASSUME Missing # {} PROVE FALSE
        OBVIOUS
    <2>1. Missing \in SUBSET Nat
        OBVIOUS
    <2>2. PICK n \in Missing : \A m \in Missing : n <= m
        BY <2>1, LeastNumber
    <2>3. n # 0 /\ n - 1 \in Nat
        BY <1>1, <2>2
    <2>4. n - 1 \notin Missing
        BY <2>2, <2>3
    <2> QED
        BY <1>2, <2>2, <2>3, <2>4
<1>4. Cardinality(S) \in Nat
    BY FS_CardinalityType
<1>5. Has(Cardinality(S))
    BY <1>3, <1>4
<1>6. Small(Cardinality(S)) = SUBSET S
    BY FS_Subset, FS_CardinalityType
<1>7. PICK g : DOMAIN g = SUBSET S /\ g = [s \in DOMAIN g |-> g[s]]
                   /\ \A s \in SUBSET S : Eq(g, s)
    BY <1>5, <1>6 DEF Has
<1> QED
    BY <1>7 DEF IsSum

\* FoldFunction takes the elements of the domain one by one.
LEMMA SumSteps ==
    ASSUME NEW S, IsFiniteSet(S), NEW f \in [S -> Nat]
    PROVE  \E g : /\ Sum(f) = g[S]
                  /\ g[{}] = 0
                  /\ \A T \in SUBSET S : T # {} =>
                        g[T] = f[Pick(T)] + g[T \ {Pick(T)}]
<1> DEFINE g == CHOOSE h : IsSum(h, f, S)
<1>1. IsSum(g, f, S)
    BY SumExists
<1>2. Sum(f) = g[S]
    BY DEF Sum, FoldFunction, FoldFunctionOnSet, MapThenFoldSet, IsSum, Pick
<1> HIDE DEF g
<1>3. ASSUME NEW T \in SUBSET S
      PROVE  g[T] = IF T = {} THEN 0 ELSE f[Pick(T)] + g[T \ {Pick(T)}]
    BY <1>1 DEF IsSum
<1> QED
    BY <1>2, <1>3

\* Sums of numbers are numbers.
LEMMA SumType ==
    ASSUME NEW S, IsFiniteSet(S), NEW f \in [S -> Nat]
    PROVE  Sum(f) \in Nat
<1>1. PICK g : /\ Sum(f) = g[S]
               /\ g[{}] = 0
               /\ \A T \in SUBSET S : T # {} => g[T] = f[Pick(T)] + g[T \ {Pick(T)}]
    BY SumSteps
<1> DEFINE P == {T \in SUBSET S : g[T] \in Nat}
<1>2. {} \in P
    BY <1>1
<1>3. \A T \in SUBSET S : T # {} /\ T \ {Pick(T)} \in P => T \in P
    BY <1>1, WithoutPick
<1> HIDE DEF P
<1>4. S \in P
    BY <1>2, <1>3, SubsetInduction
<1> QED
    BY <1>1, <1>4 DEF P

LEMMA SumZero ==
    ASSUME NEW S, IsFiniteSet(S)
    PROVE  Sum([x \in S |-> 0]) = 0
<1> DEFINE f == [x \in S |-> 0]
<1>0. f \in [S -> Nat]
    OBVIOUS
<1> HIDE DEF f
<1>1. PICK g : /\ Sum(f) = g[S]
               /\ g[{}] = 0
               /\ \A T \in SUBSET S : T # {} => g[T] = f[Pick(T)] + g[T \ {Pick(T)}]
    BY <1>0, SumSteps, Zenon
<1> DEFINE P == {T \in SUBSET S : g[T] = 0}
<1>2. {} \in P
    BY <1>1
<1>3. \A T \in SUBSET S : T # {} /\ T \ {Pick(T)} \in P => T \in P
    BY <1>1, WithoutPick DEF f
<1> HIDE DEF P
<1>4. S \in P
    BY <1>2, <1>3, SubsetInduction
<1> QED
    BY <1>1, <1>4 DEF P, f

\* One row more in one place is one more in the sum.
LEMMA SumBump ==
    ASSUME NEW S, IsFiniteSet(S), NEW f \in [S -> Nat], NEW x \in S
    PROVE  Sum([f EXCEPT ![x] = @ + 1]) = Sum(f) + 1
<1> DEFINE h == [f EXCEPT ![x] = @ + 1]
<1>0. h \in [S -> Nat]
    OBVIOUS
<1>6. \A y \in S : h[y] = IF y = x THEN f[y] + 1 ELSE f[y]
    OBVIOUS
<1> HIDE DEF h
<1>1. PICK g : /\ Sum(f) = g[S]
               /\ g[{}] = 0
               /\ \A T \in SUBSET S : T # {} => g[T] = f[Pick(T)] + g[T \ {Pick(T)}]
    BY SumSteps
<1>2. PICK k : /\ Sum(h) = k[S]
               /\ k[{}] = 0
               /\ \A T \in SUBSET S : T # {} => k[T] = h[Pick(T)] + k[T \ {Pick(T)}]
    BY <1>0, SumSteps, Zenon
<1> DEFINE P == {T \in SUBSET S : g[T] \in Nat /\ k[T] = IF x \in T THEN g[T] + 1 ELSE g[T]}
<1>3. {} \in P
    BY <1>1, <1>2
<1>4. ASSUME NEW T \in SUBSET S, T # {}, T \ {Pick(T)} \in P PROVE T \in P
    <2> DEFINE c == Pick(T)
               R == T \ {c}
    <2>1. c \in T /\ f[c] \in Nat
        BY <1>4, WithoutPick
    <2>2. g[T] = f[c] + g[R] /\ k[T] = h[c] + k[R] /\ h[c] = IF c = x THEN f[c] + 1 ELSE f[c]
        BY <1>1, <1>2, <1>4, <1>6, <2>1
    <2>3. g[R] \in Nat /\ k[R] = IF x \in R THEN g[R] + 1 ELSE g[R]
        BY <1>4
    <2>4. (x \in R <=> x \in T /\ x # c) /\ (x = c => x \in T)
        BY <2>1
    <2> HIDE DEF c, R
    <2>5. g[T] \in Nat /\ k[T] = IF x \in T THEN g[T] + 1 ELSE g[T]
        BY <2>1, <2>2, <2>3, <2>4
    <2> QED
        BY <2>5
<1> HIDE DEF P
<1>5. S \in P
    BY <1>3, <1>4, SubsetInduction
<1> QED
    BY <1>1, <1>2, <1>5 DEF P, h

-----------------------------------------------------------------------------
(* Counting the workers whose registers are in a set. *)

Those(R) == {w \in Workers : proc[w] \in R}
Count(R) == Cardinality(Those(R))

LEMMA CountType ==
    ASSUME NEW R
    PROVE  Count(R) \in Nat /\ Count(R) <= Cardinality(Workers)
<1>1. Those(R) \subseteq Workers
    BY DEF Those
<1> QED
    BY <1>1, FiniteAssumption, FS_Subset, FS_CardinalityType DEF Count

\* A step of one worker changes the count by that worker alone.
LEMMA CountMoves ==
    ASSUME TypeOK, NEW w \in Workers, NEW r, NEW R,
           proc' = [proc EXCEPT ![w] = r]
    PROVE  /\ Count(R)' \in Nat
           /\ Count(R)' <= Cardinality(Workers)
           /\ Count(R)' + (IF proc[w] \in R THEN 1 ELSE 0)
                = Count(R) + (IF r \in R THEN 1 ELSE 0)
<1> DEFINE Rest == Those(R) \ {w}
<1>1. proc' = [v \in Workers |-> IF v = w THEN r ELSE proc[v]]
    BY DEF TypeOK
<1>2. Those(R) = IF proc[w] \in R THEN Rest \cup {w} ELSE Rest
    BY DEF Those
<1>3. Those(R)' = IF r \in R THEN Rest \cup {w} ELSE Rest
    BY <1>1 DEF Those
<1>4. Rest \subseteq Workers /\ Rest \cup {w} \subseteq Workers
    BY DEF Those
<1> HIDE DEF Rest
<1>5. /\ IsFiniteSet(Rest) /\ Cardinality(Rest) \in Nat
      /\ Cardinality(Rest \cup {w}) \in Nat
      /\ Cardinality(Rest) <= Cardinality(Workers)
      /\ Cardinality(Rest \cup {w}) <= Cardinality(Workers)
    BY <1>4, FiniteAssumption, FS_Subset, FS_CardinalityType
<1>6. Cardinality(Rest \cup {w}) = Cardinality(Rest) + 1
    BY <1>5, FS_AddElement DEF Rest
<1>7. Count(R) = IF proc[w] \in R THEN Cardinality(Rest) + 1 ELSE Cardinality(Rest)
    BY <1>2, <1>6 DEF Count
<1>8. Count(R)' = IF r \in R THEN Cardinality(Rest) + 1 ELSE Cardinality(Rest)
    BY <1>3, <1>6 DEF Count
<1> QED
    BY <1>5, <1>6, <1>7, <1>8

\* At the start every worker is idle.
LEMMA CountIdle ==
    ASSUME Init, NEW R, Idle \notin R
    PROVE  Count(R) = 0
<1>1. Those(R) = {}
    BY DEF Those, Init
<1> QED
    BY <1>1, FS_EmptySet DEF Count

\* Nobody is in two disjoint sets of registers.
LEMMA CountDisjoint ==
    ASSUME NEW Q, NEW R, Q \cap R = {}
    PROVE  Count(Q) + Count(R) <= Cardinality(Workers)
<1>1. /\ Those(Q) \subseteq Workers
      /\ Those(R) \subseteq Workers
      /\ Those(Q) \cap Those(R) = {}
      /\ Those(Q) \cup Those(R) \subseteq Workers
    BY DEF Those
<1>2. /\ IsFiniteSet(Those(Q)) /\ Cardinality(Those(Q)) \in Nat
      /\ IsFiniteSet(Those(R)) /\ Cardinality(Those(R)) \in Nat
      /\ Cardinality(Workers) \in Nat
      /\ Cardinality(Those(Q) \cup Those(R)) <= Cardinality(Workers)
    BY <1>1, FiniteAssumption, FS_Subset, FS_CardinalityType
<1>3. Cardinality(Those(Q) \cup Those(R))
        = Cardinality(Those(Q)) + Cardinality(Those(R))
          - Cardinality(Those(Q) \cap Those(R))
    BY <1>2, FS_Union
<1>4. Cardinality(Those(Q) \cap Those(R)) = 0
    BY <1>1, FS_EmptySet
<1> QED
    BY <1>2, <1>3, <1>4 DEF Count

-----------------------------------------------------------------------------
(* What a step does to the register x of its worker, and to the tables. *)

\* No row is written, and no event becomes processed or stops being so.
Quiet ==
    /\ UNCHANGED crm
    /\ \A k \in Keys : Processed(k)' <=> Processed(k)

Writing == {"note", "followUp", "ack", "mark"}

\* The key that processLead normalizes l to.
EffectiveKey(ws, l) ==
    LET c == config[ws][SourceOf[l]]
    IN  IF c # NoConfig /\ c.mapped THEN MappedKeyOf[l] ELSE KeyOf[l]

\* The worker gives its lead up or takes another one; if the deal was made
\* already, only a fault makes it do that.
Leaves(x, r) ==
    /\ Quiet
    /\ r.pc \in {"idle", "next", "config"}
    /\ x.pc \in Writing => faults' = faults + 1

\* The worker goes on with its lead, reading only.
GoesOn(x, r) ==
    /\ Quiet
    /\ r.ws = x.ws /\ r.lead = x.lead
    /\ \/ /\ x.pc = "config" /\ r.pc = "dedupe"
          /\ r.key = EffectiveKey(x.ws, x.lead)
       \/ /\ x.pc = "dedupe" /\ ~Processed(x.key)
          /\ r = [x EXCEPT !.pc = r.pc] /\ r.pc \in {"record", "contact"}
       \/ x.pc = "record" /\ r = [x EXCEPT !.pc = "contact"]
       \/ /\ x.pc = "contact" /\ Matches(x.ws, x.lead)
          /\ r = [x EXCEPT !.isNew = FALSE, !.pc = "deal"]
       \/ /\ x.pc = "contact" /\ ~Matches(x.ws, x.lead)
          /\ r = [x EXCEPT !.isNew = TRUE, !.pc = "quota"]
       \/ x.pc = "quota" /\ ~OverQuota(x.ws) /\ r = [x EXCEPT !.pc = "create"]

\* The worker writes, and goes on.
Writes(w, r) ==
    LET x == proc[w]
    IN  /\ r = [x EXCEPT !.pc = r.pc]
        /\ \/ CreateContact(w) /\ r.pc = "deal"
           \/ CreateDeal(w) /\ r.pc = "note"
           \/ CreateNote(w) /\ r.pc = (IF x.isNew THEN "followUp" ELSE "mark")
           \/ ScheduleFollowUps(w) /\ r.pc \in {"ack", "mark"}
           \/ Acknowledge(w) /\ r.pc = "mark"
           \/ MarkProcessed(w) /\ r.pc = "next"

Step(w, r) ==
    /\ proc' = [proc EXCEPT ![w] = r]
    /\ faults' \in {faults, faults + 1}
    /\ \/ Quiet /\ r = proc[w]
       \/ Leaves(proc[w], r)
       \/ GoesOn(proc[w], r) /\ faults' = faults
       \/ Writes(w, r) /\ faults' = faults

\* Leaving the event table and the CRM tables alone is quiet.
LEMMA QuietStep ==
    ASSUME UNCHANGED <<event, crm>>
    PROVE  Quiet
BY DEF Quiet, Processed, Stored

LEMMA OutsideShape ==
    ASSUME IInv, NEW w \in Workers,
           \/ \E ws \in Workspaces, l \in Leads :
                Enqueue(ws, l) \/ EnqueueFails(ws, l)
           \/ \E ws \in Workspaces, s \in Sources, c \in Configs :
                Reconfigure(ws, s, c)
           \/ UNCHANGED vars
    PROVE  Step(w, proc[w])
<1>1. proc' = proc /\ proc' = [proc EXCEPT ![w] = proc[w]]
    BY DEF Enqueue, EnqueueFails, Reconfigure, vars, IInv, TypeOK
<1>2. faults' \in {faults, faults + 1} /\ UNCHANGED crm
    BY DEF Enqueue, EnqueueFails, Reconfigure, vars, crm
<1>3. ASSUME NEW ws \in Workspaces, NEW l \in Leads, Enqueue(ws, l)
      PROVE  Quiet
    <2>1. NewEvent(ws, l) \in Event /\ NewEvent(ws, l).done = FALSE
        BY NewEventType DEF IInv, NewEvent
    <2> QED
        BY <1>2, <1>3, <2>1, LeadAssumption
        DEF Enqueue, Quiet, Processed, Stored, IInv, TypeOK
<1>4. ASSUME \/ \E ws \in Workspaces, l \in Leads : EnqueueFails(ws, l)
             \/ \E ws \in Workspaces, s \in Sources, c \in Configs :
                  Reconfigure(ws, s, c)
             \/ UNCHANGED vars
      PROVE  Quiet
    BY <1>2, <1>4, QuietStep DEF EnqueueFails, Reconfigure, vars
<1> QED
    BY <1>1, <1>2, <1>3, <1>4 DEF Step

LEMMA BatchShape ==
    ASSUME IInv, NEW w \in Workers,
           \/ \E ws \in Workspaces : StartBatch(w, ws)
           \/ \E ws \in Workspaces, l \in Leads : Enquiry(w, ws, l)
           \/ Take(w) \/ Finish(w)
    PROVE  Step(w, proc'[w])
<1>1. Quiet
    BY QuietStep DEF StartBatch, Enquiry, Take, Finish
<1>2. proc[w].pc \notin Writing /\ faults' = faults
    BY DEF StartBatch, Enquiry, Take, Finish, At, Writing, world
<1>3. /\ proc' = [proc EXCEPT ![w] = proc'[w]]
      /\ proc'[w].pc \in {"idle", "next", "config"}
    <2>1. proc \in [Workers -> Proc]
        BY DEF IInv, TypeOK
    <2>2. ASSUME NEW ws \in Workspaces, StartBatch(w, ws)
          PROVE  <1>3!1 /\ <1>3!2
        BY <2>1, <2>2 DEF StartBatch, Idle
    <2>3. ASSUME NEW ws \in Workspaces, NEW l \in Leads, Enquiry(w, ws, l)
          PROVE  <1>3!1 /\ <1>3!2
        BY <2>1, <2>3 DEF Enquiry, Idle
    <2>4. CASE Take(w)
        BY <2>1, <2>4 DEF Take, Idle
    <2>5. CASE Finish(w)
        BY <2>1, <2>5 DEF Finish, Idle
    <2> QED
        BY <2>2, <2>3, <2>4, <2>5
<1> QED
    BY <1>1, <1>2, <1>3 DEF Step, Leaves

LEMMA FaultShape ==
    ASSUME IInv, NEW w \in Workers, Fail(w) \/ Crash(w)
    PROVE  Step(w, proc'[w])
<1>1. Quiet /\ faults' = faults + 1
    BY QuietStep DEF Fail, Crash
<1>2. PICK r : proc' = [proc EXCEPT ![w] = r] /\ r.pc \in {"idle", "next"}
    BY DEF Fail, Crash, Goto, Idle, IInv, TypeOK, Proc
<1>3. proc'[w] = r
    BY <1>2 DEF IInv, TypeOK
<1> QED
    BY <1>1, <1>2, <1>3 DEF Step, Leaves

LEMMA QueryShape ==
    ASSUME IInv, NEW w \in Workers,
           \/ ReadConfig(w) \/ Dedupe(w) \/ Record(w)
           \/ FindContact(w) \/ CheckQuota(w)
    PROVE  Step(w, proc'[w])
<1> DEFINE x == proc[w]
           r == proc'[w]
<1>1. x \in Proc /\ proc \in [Workers -> Proc] /\ WorkerOK(w)
    BY DEF IInv, TypeOK, WorkerInv
<1>2. /\ UNCHANGED crm /\ faults' = faults
      /\ x.pc \in {"config", "dedupe", "record", "contact", "quota"}
    BY DEF ReadConfig, Dedupe, Record, FindContact, CheckQuota, At, world
<1>3. CASE ReadConfig(w)
    <2>1. Quiet
        BY <1>3, QuietStep DEF ReadConfig
    <2>2. CASE Return(w)
        BY <1>1, <1>2, <2>1, <2>2 DEF Return, Goto, Step, Leaves, Writing, Proc
    <2>3. ASSUME NEW ack,
                 proc' = [proc EXCEPT ![w].pc = "dedupe",
                                      ![w].key = EffectiveKey(x.ws, x.lead),
                                      ![w].mayAck = ack]
          PROVE  Step(w, proc'[w])
        <3>1. /\ proc' = [proc EXCEPT ![w] = r]
              /\ r.pc = "dedupe" /\ r.key = EffectiveKey(x.ws, x.lead)
              /\ r.ws = x.ws /\ r.lead = x.lead
            BY <1>1, <2>3 DEF Proc
        <3>2. x.pc = "config"
            BY <1>3 DEF ReadConfig, At
        <3> QED
            BY <1>2, <2>1, <3>1, <3>2 DEF Step, GoesOn
    <2>4. \/ Return(w)
          \/ \E ack : proc' = [proc EXCEPT ![w].pc = "dedupe",
                                            ![w].key = EffectiveKey(x.ws, x.lead),
                                            ![w].mayAck = ack]
        BY <1>3, Zenon DEF ReadConfig, EffectiveKey
    <2> QED
        BY <2>2, <2>3, <2>4
<1>4. CASE Dedupe(w)
    <2>1. Quiet
        BY <1>4, QuietStep DEF Dedupe
    <2> QED
        BY <1>1, <1>2, <1>4, <2>1
        DEF Dedupe, Return, Goto, At, Step, Leaves, GoesOn, Writing, Proc
<1>5. CASE Record(w)
    <2>1. x.key \in Keys /\ x.ws \in Workspaces /\ x.lead \in Leads
        BY <1>1, <1>5 DEF Record, WorkerOK, At, Running, Started
    <2>2. /\ NewEvent(x.ws, x.lead) \in Event
          /\ NewEvent(x.ws, x.lead).done = FALSE
        BY <2>1, NewEventType DEF IInv, NewEvent
    <2>3. Quiet
        BY <1>2, <1>5, <2>1, <2>2
        DEF Record, Quiet, Processed, Stored, IInv, TypeOK
    <2> QED
        BY <1>1, <1>2, <1>5, <2>3
        DEF Record, Goto, At, Step, Leaves, GoesOn, Writing, Proc
<1>6. CASE FindContact(w)
    <2>1. Quiet
        BY <1>6, QuietStep DEF FindContact
    <2> DEFINE known == Matches(x.ws, x.lead)
    <2>2. known \in BOOLEAN
        BY DEF Matches
    <2>3. proc' = [proc EXCEPT ![w].isNew = ~known,
                               ![w].pc = IF known THEN "deal" ELSE "quota"]
        BY <1>6 DEF FindContact
    <2>4. x.pc = "contact"
        BY <1>6 DEF FindContact, At
    <2> HIDE DEF known
    <2>5. /\ proc' = [proc EXCEPT ![w] = r]
          /\ r = [x EXCEPT !.isNew = ~known,
                           !.pc = IF known THEN "deal" ELSE "quota"]
        BY <1>1, <2>3 DEF Proc
    <2>6. CASE known = TRUE
        BY <1>1, <1>2, <2>1, <2>4, <2>5, <2>6 DEF Step, GoesOn, Proc, known
    <2>7. CASE known = FALSE
        BY <1>1, <1>2, <2>1, <2>4, <2>5, <2>7 DEF Step, GoesOn, Proc, known
    <2> QED
        BY <2>2, <2>6, <2>7
<1>7. CASE CheckQuota(w)
    <2>1. Quiet
        BY <1>7, QuietStep DEF CheckQuota
    <2> QED
        BY <1>1, <1>2, <1>7, <2>1
        DEF CheckQuota, Goto, At, Step, Leaves, GoesOn, Writing, Proc
<1> QED
    BY <1>3, <1>4, <1>5, <1>6, <1>7

LEMMA WriteShape ==
    ASSUME IInv, NEW w \in Workers,
           \/ CreateContact(w) \/ CreateDeal(w) \/ CreateNote(w)
           \/ ScheduleFollowUps(w) \/ Acknowledge(w) \/ MarkProcessed(w)
    PROVE  Step(w, proc'[w])
<1> DEFINE x == proc[w]
           r == proc'[w]
<1>1. x \in Proc /\ proc \in [Workers -> Proc]
    BY DEF IInv, TypeOK
<1>2. PICK pc \in {"deal", "note", "followUp", "ack", "mark", "next"} :
        /\ proc' = [proc EXCEPT ![w].pc = pc]
        /\ CreateContact(w) => pc = "deal"
        /\ CreateDeal(w) => pc = "note"
        /\ CreateNote(w) => pc = (IF x.isNew THEN "followUp" ELSE "mark")
        /\ ScheduleFollowUps(w) => pc \in {"ack", "mark"}
        /\ Acknowledge(w) => pc = "mark"
        /\ MarkProcessed(w) => pc = "next"
    BY DEF CreateContact, CreateDeal, CreateNote, ScheduleFollowUps, Acknowledge,
           MarkProcessed, Goto, Return, At
<1>3. /\ proc' = [proc EXCEPT ![w] = r]
      /\ r = [x EXCEPT !.pc = r.pc] /\ r.pc = pc
    BY <1>1, <1>2 DEF Proc
<1>4. faults' = faults
    BY DEF CreateContact, CreateDeal, CreateNote, ScheduleFollowUps, Acknowledge,
           MarkProcessed, world
<1> QED
    BY <1>2, <1>3, <1>4 DEF Step, Writes

\* Every step is one of these.
LEMMA NextShape ==
    ASSUME IInv, [Next]_vars
    PROVE  \E w \in Workers, r \in Proc : Step(w, r)
<1>1. proc \in [Workers -> Proc] /\ proc' \in [Workers -> Proc]
    BY NextIInv DEF IInv, TypeOK
<1>2. PICK w \in Workers : Step(w, proc[w]) \/ Step(w, proc'[w])
    BY FiniteAssumption, OutsideShape, BatchShape, FaultShape, QueryShape, WriteShape
    DEF Next, Process
<1> QED
    BY <1>1, <1>2

-----------------------------------------------------------------------------
(* What the missing lock costs in deals. *)

\* Registers of a worker that may still make a deal for k, or has made it.
AheadOf(k) ==
    {x \in Proc : x.key = k /\ x.pc \in {"record", "contact", "quota", "create", "deal"}}
BehindOf(k) == {x \in Proc : x.key = k /\ x.pc \in Writing}

\* Until k is processed, a deal was made by a worker that is about to mark k or
\* met a fault; after that, by one of the workers, which is not at it any more.
DuplicatesInv ==
    \A k \in Keys :
        IF Processed(k)
        THEN Total(deals, k) + Count(AheadOf(k)) <= Cardinality(Workers) + faults
        ELSE Total(deals, k) <= Count(BehindOf(k)) + faults

LEMMA TotalType ==
    ASSUME NEW table \in [Workspaces -> [Keys -> Nat]], NEW k \in Keys
    PROVE  Total(table, k) \in Nat
<1>1. [ws \in Workspaces |-> table[ws][k]] \in [Workspaces -> Nat]
    OBVIOUS
<1> QED
    BY <1>1, FiniteAssumption, SumType DEF Total

LEMMA TotalBump ==
    ASSUME NEW table \in [Workspaces -> [Keys -> Nat]], NEW k \in Keys,
           NEW ws \in Workspaces, NEW j \in Keys
    PROVE  Total(Bump(table, ws, j), k)
             = Total(table, k) + (IF k = j THEN 1 ELSE 0)
<1> DEFINE f == [v \in Workspaces |-> table[v][k]]
           g == [v \in Workspaces |-> Bump(table, ws, j)[v][k]]
<1>1. f \in [Workspaces -> Nat]
    OBVIOUS
<1>2. g = IF k = j THEN [f EXCEPT ![ws] = @ + 1] ELSE f
    BY DEF Bump
<1>3. Sum(f) \in Nat
    BY <1>1, FiniteAssumption, SumType
<1>4. Sum(g) = Sum(f) + (IF k = j THEN 1 ELSE 0)
    <2> HIDE DEF f, g
    <2>1. CASE k = j
        BY <1>1, <1>2, <2>1, FiniteAssumption, SumBump
    <2>2. CASE k # j
        BY <1>2, <1>3, <2>2
    <2> QED
        BY <2>1, <2>2
<1> QED
    BY <1>4 DEF Total

\* A step that writes no deal and settles no key.
LEMMA DuplicatesQuiet ==
    ASSUME IInv, DuplicatesInv, NEW w \in Workers, NEW r \in Proc,
           proc' = [proc EXCEPT ![w] = r],
           deals' = deals,
           \A k \in Keys : Processed(k)' <=> Processed(k),
           faults' \in {faults, faults + 1},
           \A k \in Keys : Processed(k) /\ r \in AheadOf(k) => proc[w] \in AheadOf(k),
           \A k \in Keys : proc[w] \in BehindOf(k) =>
                r \in BehindOf(k) \/ faults' = faults + 1
    PROVE  DuplicatesInv'
<1> SUFFICES ASSUME NEW k \in Keys
             PROVE  IF Processed(k)
                    THEN Total(deals, k) + Count(AheadOf(k))'
                           <= Cardinality(Workers) + faults'
                    ELSE Total(deals, k) <= Count(BehindOf(k))' + faults'
    BY DEF DuplicatesInv, Total
<1>1. Total(deals, k) \in Nat /\ faults \in Nat /\ TypeOK
    BY TotalType DEF IInv, TypeOK
<1>2. /\ Count(AheadOf(k)) \in Nat /\ Count(BehindOf(k)) \in Nat
      /\ Cardinality(Workers) \in Nat
    BY CountType, FiniteAssumption, FS_CardinalityType
<1>3. /\ Count(AheadOf(k))' \in Nat
      /\ Count(AheadOf(k))' + (IF proc[w] \in AheadOf(k) THEN 1 ELSE 0)
           = Count(AheadOf(k)) + (IF r \in AheadOf(k) THEN 1 ELSE 0)
      /\ Count(BehindOf(k))' \in Nat
      /\ Count(BehindOf(k))' + (IF proc[w] \in BehindOf(k) THEN 1 ELSE 0)
           = Count(BehindOf(k)) + (IF r \in BehindOf(k) THEN 1 ELSE 0)
    BY <1>1, CountMoves
<1> QED
    BY <1>1, <1>2, <1>3 DEF DuplicatesInv

LEMMA DuplicatesDeal ==
    ASSUME IInv, DuplicatesInv, NEW w \in Workers, NEW r \in Proc, CreateDeal(w),
           proc' = [proc EXCEPT ![w] = r],
           r.key = proc[w].key, r.pc = "note", faults' = faults
    PROVE  DuplicatesInv'
<1> DEFINE x == proc[w]
<1>0. TypeOK
    BY DEF IInv
<1>1. /\ TypeOK /\ x \in Proc /\ x.pc = "deal" /\ r.key = x.key /\ r.pc = "note"
      /\ x.key \in Keys /\ x.ws \in Workspaces
    BY DEF IInv, TypeOK, WorkerInv, WorkerOK, CreateDeal, At, Running, Started, Proc
<1>2. \A k \in Keys : Processed(k)' <=> Processed(k)
    BY DEF CreateDeal, Processed, Stored
<1> SUFFICES ASSUME NEW k \in Keys
             PROVE  IF Processed(k)
                    THEN Total(deals', k) + Count(AheadOf(k))'
                           <= Cardinality(Workers) + faults
                    ELSE Total(deals', k) <= Count(BehindOf(k))' + faults
    BY <1>2 DEF DuplicatesInv, Total
<1>3. /\ Total(deals, k) \in Nat
      /\ Total(deals', k) \in Nat
      /\ Total(deals', k) <= Total(deals, k) + (IF k = x.key THEN 1 ELSE 0)
    <2>1. deals \in [Workspaces -> [Keys -> Nat]]
        BY <1>1 DEF TypeOK
    <2>2. Total(deals, k) \in Nat
        BY <2>1, TotalType
    <2>3. Total(Bump(deals, x.ws, x.key), k)
            = Total(deals, k) + (IF k = x.key THEN 1 ELSE 0)
        BY <1>1, <2>1, TotalBump
    <2>4. deals' = Bump(deals, x.ws, x.key) \/ deals' = deals
        BY DEF CreateDeal
    <2> QED
        BY <2>2, <2>3, <2>4
<1>4. /\ x \in AheadOf(k) <=> k = x.key
      /\ r \in BehindOf(k) <=> k = x.key
      /\ r \notin AheadOf(k) /\ x \notin BehindOf(k)
    BY <1>1 DEF AheadOf, BehindOf, Writing
<1>5. /\ Count(AheadOf(k)) \in Nat /\ Count(BehindOf(k)) \in Nat
      /\ Cardinality(Workers) \in Nat /\ faults \in Nat
    BY <1>1, CountType, FiniteAssumption, FS_CardinalityType DEF TypeOK
<1>6. /\ Count(AheadOf(k))' \in Nat
      /\ Count(AheadOf(k))' + (IF k = x.key THEN 1 ELSE 0) = Count(AheadOf(k))
      /\ Count(BehindOf(k))' = Count(BehindOf(k)) + (IF k = x.key THEN 1 ELSE 0)
    <2>1. ASSUME NEW R
          PROVE  /\ Count(R)' \in Nat
                 /\ Count(R)' + (IF x \in R THEN 1 ELSE 0)
                      = Count(R) + (IF r \in R THEN 1 ELSE 0)
        BY <1>0, CountMoves
    <2>2. /\ Count(AheadOf(k))' \in Nat
          /\ Count(AheadOf(k))' + (IF x \in AheadOf(k) THEN 1 ELSE 0)
               = Count(AheadOf(k)) + (IF r \in AheadOf(k) THEN 1 ELSE 0)
        BY <2>1
    <2>3. /\ Count(BehindOf(k))' \in Nat
          /\ Count(BehindOf(k))' + (IF x \in BehindOf(k) THEN 1 ELSE 0)
               = Count(BehindOf(k)) + (IF r \in BehindOf(k) THEN 1 ELSE 0)
        BY <2>1
    <2> QED
        BY <1>4, <1>5, <2>2, <2>3
<1> QED
    BY <1>3, <1>5, <1>6 DEF DuplicatesInv

\* Whoever settles k leaves those behind it: they and those ahead are at most
\* all workers.
LEMMA DuplicatesMark ==
    ASSUME IInv, DuplicatesInv, NEW w \in Workers, NEW r \in Proc, MarkProcessed(w),
           proc' = [proc EXCEPT ![w] = r],
           r.pc = "next", faults' = faults
    PROVE  DuplicatesInv'
<1> DEFINE x == proc[w]
<1>0. TypeOK
    BY DEF IInv
<1>1. /\ TypeOK /\ x \in Proc /\ x.pc = "mark" /\ r.pc = "next"
      /\ x.key \in Keys /\ Stored(x.key)
    BY DEF IInv, TypeOK, WorkerInv, WorkerOK, MarkProcessed, At, Running, Started,
           Recorded, Proc
<1>2. /\ deals' = deals
      /\ \A k \in Keys : Processed(k)' <=> (Processed(k) \/ k = x.key)
    <2>1. event[x.key] \in Event
        BY <1>1 DEF TypeOK, Stored
    <2>2. event' = [event EXCEPT ![x.key] = [@ EXCEPT !.done = TRUE, !.ws = x.ws]]
        BY <1>1, <2>1 DEF MarkProcessed, TypeOK, Event
    <2>3. [event[x.key] EXCEPT !.done = TRUE, !.ws = x.ws] # NoEvent
        <3>1. x.ws \in Workspaces
            BY <1>1 DEF IInv, WorkerInv, WorkerOK
        <3>2. [event[x.key] EXCEPT !.done = TRUE, !.ws = x.ws] \in Event
            BY <2>1, <3>1 DEF Event
        <3> QED
            BY <3>2, NullAssumption
    <2>4. [event[x.key] EXCEPT !.done = TRUE, !.ws = x.ws].done = TRUE
        BY <2>1 DEF Event
    <2>5. event \in [Keys -> Event \cup {NoEvent}]
        BY <1>1 DEF TypeOK
    <2>6. deals' = deals
        BY DEF MarkProcessed, crm
    <2> QED
        BY <1>1, <2>2, <2>3, <2>4, <2>5, <2>6 DEF Processed, Stored
<1> SUFFICES ASSUME NEW k \in Keys
             PROVE  IF Processed(k) \/ k = x.key
                    THEN Total(deals, k) + Count(AheadOf(k))'
                           <= Cardinality(Workers) + faults
                    ELSE Total(deals, k) <= Count(BehindOf(k))' + faults
    BY <1>2 DEF DuplicatesInv, Total
<1>3. Total(deals, k) \in Nat
    BY <1>1, TotalType DEF TypeOK
<1>4. /\ x \notin AheadOf(k) /\ r \notin AheadOf(k) /\ r \notin BehindOf(k)
      /\ x \in BehindOf(k) <=> k = x.key
    BY <1>1 DEF AheadOf, BehindOf, Writing
<1>5. /\ Count(AheadOf(k)) \in Nat /\ Count(BehindOf(k)) \in Nat
      /\ Cardinality(Workers) \in Nat /\ faults \in Nat
    BY <1>1, CountType, FiniteAssumption, FS_CardinalityType DEF TypeOK
<1>6. /\ Count(AheadOf(k))' = Count(AheadOf(k))
      /\ k # x.key => Count(BehindOf(k))' = Count(BehindOf(k))
    <2>1. ASSUME NEW R
          PROVE  /\ Count(R)' \in Nat
                 /\ Count(R)' + (IF x \in R THEN 1 ELSE 0)
                      = Count(R) + (IF r \in R THEN 1 ELSE 0)
        BY <1>0, CountMoves
    <2>2. /\ Count(AheadOf(k))' \in Nat
          /\ Count(AheadOf(k))' + (IF x \in AheadOf(k) THEN 1 ELSE 0)
               = Count(AheadOf(k)) + (IF r \in AheadOf(k) THEN 1 ELSE 0)
        BY <2>1
    <2>3. /\ Count(BehindOf(k))' \in Nat
          /\ Count(BehindOf(k))' + (IF x \in BehindOf(k) THEN 1 ELSE 0)
               = Count(BehindOf(k)) + (IF r \in BehindOf(k) THEN 1 ELSE 0)
        BY <2>1
    <2> QED
        BY <1>4, <1>5, <2>2, <2>3
<1>7. Count(AheadOf(k)) + Count(BehindOf(k)) <= Cardinality(Workers)
    <2>1. AheadOf(k) \cap BehindOf(k) = {}
        BY DEF AheadOf, BehindOf, Writing
    <2> QED
        BY <2>1, CountDisjoint
<1> QED
    BY <1>3, <1>5, <1>6, <1>7 DEF DuplicatesInv

LEMMA DuplicatesWrite ==
    ASSUME IInv, DuplicatesInv, NEW w \in Workers, NEW r \in Proc, Writes(w, r),
           proc' = [proc EXCEPT ![w] = r], faults' = faults
    PROVE  DuplicatesInv'
<1> DEFINE x == proc[w]
<1>1. x \in Proc /\ r = [x EXCEPT !.pc = r.pc]
    BY DEF IInv, TypeOK, Writes
<1>2. CASE CreateDeal(w)
    <2>1. r.key = x.key /\ r.pc = "note"
        BY <1>1, <1>2
        DEF Writes, CreateContact, CreateDeal, CreateNote, ScheduleFollowUps,
            Acknowledge, MarkProcessed, At, Proc
    <2> QED
        BY <1>2, <2>1, DuplicatesDeal
<1>3. CASE MarkProcessed(w)
    <2>1. r.pc = "next"
        BY <1>1, <1>3
        DEF Writes, CreateContact, CreateDeal, CreateNote, ScheduleFollowUps,
            Acknowledge, MarkProcessed, At
    <2> QED
        BY <1>3, <2>1, DuplicatesMark
<1>4. CASE \/ CreateContact(w) \/ CreateNote(w)
           \/ ScheduleFollowUps(w) \/ Acknowledge(w)
    <2>1. /\ deals' = deals
          /\ \A k \in Keys : Processed(k)' <=> Processed(k)
        BY <1>4 DEF CreateContact, CreateNote, ScheduleFollowUps, Acknowledge,
                    Processed, Stored
    <2>2. /\ r.key = x.key
          /\ \/ x.pc = "create" /\ r.pc = "deal"
             \/ x.pc \in Writing /\ r.pc \in Writing
        BY <1>1, <1>4
        DEF Writes, CreateContact, CreateDeal, CreateNote, ScheduleFollowUps,
            Acknowledge, MarkProcessed, At, Proc, Writing
    <2>3. /\ \A k \in Keys : r \in AheadOf(k) => x \in AheadOf(k)
          /\ \A k \in Keys : x \in BehindOf(k) => r \in BehindOf(k)
        BY <1>1, <2>2 DEF AheadOf, BehindOf, Writing
    <2> QED
        BY <2>1, <2>3, DuplicatesQuiet
<1> QED
    BY <1>2, <1>3, <1>4 DEF Writes

LEMMA DuplicatesStep ==
    ASSUME IInv, DuplicatesInv, NEW w \in Workers, NEW r \in Proc, Step(w, r)
    PROVE  DuplicatesInv'
<1> DEFINE x == proc[w]
<1>1. /\ x \in Proc /\ TypeOK /\ WorkerOK(w)
      /\ proc' = [proc EXCEPT ![w] = r]
      /\ faults' \in {faults, faults + 1}
    BY DEF IInv, TypeOK, WorkerInv, Step
<1>2. CASE Quiet /\ r = x
    BY <1>1, <1>2, DuplicatesQuiet DEF Quiet, crm
<1>3. CASE Leaves(x, r)
    <2>1. \A k \in Keys : r \notin AheadOf(k)
        BY <1>3 DEF Leaves, AheadOf
    <2>2. \A k \in Keys : x \in BehindOf(k) => faults' = faults + 1
        BY <1>3 DEF Leaves, BehindOf
    <2> QED
        BY <1>1, <1>3, <2>1, <2>2, DuplicatesQuiet DEF Leaves, Quiet, crm
<1>4. CASE GoesOn(x, r)
    <2>1. \A k \in Keys : x \notin BehindOf(k)
        BY <1>4 DEF GoesOn, BehindOf, Writing
    <2>2. ASSUME NEW k \in Keys, Processed(k), r \in AheadOf(k) PROVE x \in AheadOf(k)
        <3>1. r.key = k /\ r.pc # "dedupe"
            BY <2>2 DEF AheadOf
        <3>2. x.key = k /\ x.pc \in {"record", "contact", "quota"}
            BY <1>1, <1>4, <2>2, <3>1 DEF GoesOn, Proc
        <3> QED
            BY <1>1, <3>2 DEF AheadOf
    <2> QED
        BY <1>1, <1>4, <2>1, <2>2, DuplicatesQuiet DEF GoesOn, Quiet, crm
<1>5. ASSUME Writes(w, r), faults' = faults PROVE DuplicatesInv'
    BY <1>1, <1>5, DuplicatesWrite
<1> QED
    BY <1>2, <1>3, <1>4, <1>5 DEF Step

LEMMA InitDuplicates == Init => DuplicatesInv
<1> SUFFICES ASSUME Init, NEW k \in Keys
             PROVE  ~Processed(k) /\ Total(deals, k) <= Count(BehindOf(k)) + faults
    BY DEF DuplicatesInv
<1>1. ~Processed(k) /\ faults = 0
    BY DEF Init, Processed, Stored
<1>2. Total(deals, k) = 0
    <2>1. [ws \in Workspaces |-> deals[ws][k]] = [ws \in Workspaces |-> 0]
        BY DEF Init
    <2> QED
        BY <2>1, FiniteAssumption, SumZero DEF Total
<1>3. Count(BehindOf(k)) \in Nat
    BY CountType
<1> QED
    BY <1>1, <1>2, <1>3

\* For any number of workers, faults and workspaces: a key gets at most one deal
\* for each worker and one for each fault.
THEOREM DuplicatesAreBounded == Spec => []DuplicatesBounded
<1>1. IInv /\ DuplicatesInv /\ [Next]_vars => DuplicatesInv'
    BY NextShape, DuplicatesStep
<1>2. IInv /\ DuplicatesInv => DuplicatesBounded
    <2> SUFFICES ASSUME IInv, DuplicatesInv, NEW k \in Keys
                 PROVE  Total(deals, k) <= Cardinality(Workers) + faults
        BY DEF DuplicatesBounded
    <2>1. Total(deals, k) \in Nat /\ faults \in Nat
        BY TotalType DEF IInv, TypeOK
    <2>2. /\ Count(AheadOf(k)) \in Nat /\ Count(BehindOf(k)) \in Nat
          /\ Count(BehindOf(k)) <= Cardinality(Workers)
          /\ Cardinality(Workers) \in Nat
        BY CountType, FiniteAssumption, FS_CardinalityType
    <2> QED
        BY <2>1, <2>2 DEF DuplicatesInv
<1> QED
    BY InitDuplicates, Invariance, <1>1, <1>2, PTL DEF Spec

-----------------------------------------------------------------------------
(* Tables of contacts: one cadence and one acknowledgement for each row. *)

\* What a step adds to a table and to the workers that owe it a row is covered
\* by what it adds to the bound.
LEMMA Balance ==
    ASSUME TypeOK, NEW w \in Workers, NEW r \in Proc, NEW R,
           proc' = [proc EXCEPT ![w] = r],
           NEW n \in Nat, NEW m \in Nat, NEW bound \in Nat, NEW next \in Nat,
           n + Count(R) <= bound,
           m + (IF r \in R THEN 1 ELSE 0) + bound
             <= next + (IF proc[w] \in R THEN 1 ELSE 0) + n
    PROVE  m + Count(R)' <= next
<1>1. /\ Count(R)' \in Nat
      /\ Count(R)' + (IF proc[w] \in R THEN 1 ELSE 0)
           = Count(R) + (IF r \in R THEN 1 ELSE 0)
    BY CountMoves
<1>2. Count(R) \in Nat
    BY CountType
<1> QED
    BY <1>1, <1>2

LEMMA BumpAt ==
    ASSUME NEW S, NEW table \in [Workspaces -> [S -> Nat]],
           NEW ws \in Workspaces, NEW y \in S, NEW v \in Workspaces, NEW z \in S
    PROVE  Bump(table, ws, y)[v][z]
             = table[v][z] + (IF v = ws /\ z = y THEN 1 ELSE 0)
BY DEF Bump

\* Registers of a worker that made the contact p of ws and is in the phases.
NewOf(ws, p, phases) ==
    {x \in Proc : /\ x.ws = ws /\ x.lead \in Leads /\ PersonOf[x.lead] = p
                  /\ x.isNew /\ x.pc \in phases}

ToSchedule == {"deal", "note", "followUp"}
ToAck == ToSchedule \cup {"ack"}

\* Only a contact that is new is created, followed up and acknowledged.
NewInv ==
    \A w \in Workers :
        proc[w].pc \in {"quota", "create", "followUp", "ack"} => proc[w].isNew

\* Each contact has one cadence and one acknowledgement to come.
OwedInv ==
    \A ws \in Workspaces, p \in Persons :
        /\ cadences[ws][p] + Count(NewOf(ws, p, ToSchedule)) <= contacts[ws][p]
        /\ sent[ws][p] + Count(NewOf(ws, p, ToAck)) <= contacts[ws][p]

AutomationInv == NewInv /\ OwedInv

LEMMA NewStep ==
    ASSUME IInv, NewInv, NEW w \in Workers, NEW r \in Proc, Step(w, r)
    PROVE  NewInv'
<1> DEFINE x == proc[w]
<1>1. x \in Proc /\ proc' = [proc EXCEPT ![w] = r] /\ proc \in [Workers -> Proc]
    BY DEF IInv, TypeOK, Step
<1>2. r.pc \in {"quota", "create", "followUp", "ack"} => r.isNew
    <2>1. CASE Quiet /\ r = x
        BY <2>1 DEF NewInv
    <2>2. CASE Leaves(x, r)
        BY <2>2 DEF Leaves
    <2>3. CASE GoesOn(x, r)
        BY <1>1, <2>3 DEF GoesOn, NewInv, Proc
    <2>4. CASE Writes(w, r)
        BY <1>1, <2>4
        DEF Writes, CreateContact, CreateDeal, CreateNote, ScheduleFollowUps,
            Acknowledge, MarkProcessed, At, NewInv, Proc
    <2> QED
        BY <2>1, <2>2, <2>3, <2>4 DEF Step
<1> QED
    BY <1>1, <1>2 DEF NewInv

\* The rows a writing step adds, and what its worker owed before and after.
LEMMA OwedWrite ==
    ASSUME IInv, NewInv, NEW w \in Workers, NEW r \in Proc, Writes(w, r),
           NEW ws \in Workspaces, NEW p \in Persons
    PROVE  /\ cadences'[ws][p]
                + (IF r \in NewOf(ws, p, ToSchedule) THEN 1 ELSE 0) + contacts[ws][p]
              <= contacts'[ws][p]
                + (IF proc[w] \in NewOf(ws, p, ToSchedule) THEN 1 ELSE 0)
                + cadences[ws][p]
           /\ sent'[ws][p]
                + (IF r \in NewOf(ws, p, ToAck) THEN 1 ELSE 0) + contacts[ws][p]
              <= contacts'[ws][p]
                + (IF proc[w] \in NewOf(ws, p, ToAck) THEN 1 ELSE 0) + sent[ws][p]
<1> DEFINE x == proc[w]
           here == IF ws = x.ws /\ p = PersonOf[x.lead] THEN 1 ELSE 0
<1>1. /\ x \in Proc /\ r = [x EXCEPT !.pc = r.pc]
      /\ x.ws \in Workspaces /\ x.lead \in Leads /\ PersonOf[x.lead] \in Persons
    <2>1. x.pc \in Running
        BY DEF Writes, CreateContact, CreateDeal, CreateNote, ScheduleFollowUps,
               Acknowledge, MarkProcessed, At, Running
    <2> QED
        BY <2>1, LeadAssumption
        DEF IInv, TypeOK, WorkerInv, WorkerOK, Writes, Running
<1>2. /\ contacts \in [Workspaces -> [Persons -> Nat]]
      /\ cadences \in [Workspaces -> [Persons -> Nat]]
      /\ sent \in [Workspaces -> [Persons -> Nat]]
    BY DEF IInv, TypeOK
<1>3. /\ Bump(contacts, x.ws, PersonOf[x.lead])[ws][p] = contacts[ws][p] + here
      /\ Bump(cadences, x.ws, PersonOf[x.lead])[ws][p] = cadences[ws][p] + here
      /\ Bump(sent, x.ws, PersonOf[x.lead])[ws][p] = sent[ws][p] + here
    <2>1. x.ws \in Workspaces /\ PersonOf[x.lead] \in Persons
        BY <1>1
    <2>2. ASSUME NEW table \in [Workspaces -> [Persons -> Nat]]
          PROVE  Bump(table, x.ws, PersonOf[x.lead])[ws][p] = table[ws][p] + here
        <3>1. ASSUME NEW v \in Workspaces, NEW q \in Persons
              PROVE  Bump(table, v, q)[ws][p]
                       = table[ws][p] + (IF ws = v /\ p = q THEN 1 ELSE 0)
            BY BumpAt
        <3> QED
            BY <2>1, <3>1
    <2> QED
        BY <1>2, <2>2
<1>4. /\ contacts[ws][p] \in Nat /\ cadences[ws][p] \in Nat /\ sent[ws][p] \in Nat
      /\ here \in {0, 1}
    BY <1>2
<1>5. \A phases :
        /\ x \in NewOf(ws, p, phases) <=> here = 1 /\ x.isNew /\ x.pc \in phases
        /\ r \in NewOf(ws, p, phases) <=> here = 1 /\ x.isNew /\ r.pc \in phases
    BY <1>1 DEF NewOf, Proc
<1> HIDE DEF here
<1>6. CASE CreateContact(w)
    <2>1. x.pc = "create"
        BY <1>6 DEF CreateContact, At
    <2>2. contacts'[ws][p] = contacts[ws][p] + here /\ cadences' = cadences /\ sent' = sent
        BY <1>3, <1>6 DEF CreateContact
    <2> QED
        BY <1>4, <1>5, <2>1, <2>2
<1>7. CASE CreateDeal(w) \/ CreateNote(w) \/ MarkProcessed(w)
    <2>1. contacts' = contacts /\ cadences' = cadences /\ sent' = sent
        BY <1>7 DEF CreateDeal, CreateNote, MarkProcessed, crm
    <2>2. \A phases \in {ToSchedule, ToAck} :
             r.pc \in phases /\ x.isNew => x.pc \in phases
        BY <1>1, <1>7
        DEF Writes, CreateContact, CreateDeal, CreateNote, ScheduleFollowUps,
            Acknowledge, MarkProcessed, At, ToSchedule, ToAck
    <2> QED
        BY <1>4, <1>5, <2>1, <2>2
<1>8. CASE ScheduleFollowUps(w)
    <2>1. x.pc = "followUp" /\ x.isNew /\ r.pc \in {"ack", "mark"}
        BY <1>8
        DEF Writes, CreateContact, CreateDeal, CreateNote, ScheduleFollowUps,
            Acknowledge, MarkProcessed, At, NewInv
    <2>2. /\ contacts' = contacts /\ sent' = sent
          /\ cadences'[ws][p] \in {cadences[ws][p], cadences[ws][p] + here}
        BY <1>3, <1>8 DEF ScheduleFollowUps
    <2> QED
        BY <1>4, <1>5, <2>1, <2>2 DEF ToSchedule, ToAck
<1>9. CASE Acknowledge(w)
    <2>1. x.pc = "ack" /\ x.isNew /\ r.pc = "mark"
        BY <1>9
        DEF Writes, CreateContact, CreateDeal, CreateNote, ScheduleFollowUps,
            Acknowledge, MarkProcessed, At, NewInv
    <2>2. /\ contacts' = contacts /\ cadences' = cadences
          /\ sent'[ws][p] \in {sent[ws][p], sent[ws][p] + here}
        BY <1>3, <1>9 DEF Acknowledge
    <2> QED
        BY <1>4, <1>5, <2>1, <2>2 DEF ToSchedule, ToAck
<1> QED
    BY <1>6, <1>7, <1>8, <1>9 DEF Writes

LEMMA OwedStep ==
    ASSUME IInv, IInv', AutomationInv, NEW w \in Workers, NEW r \in Proc, Step(w, r)
    PROVE  OwedInv'
<1> SUFFICES ASSUME NEW ws \in Workspaces, NEW p \in Persons
             PROVE  /\ cadences'[ws][p] + Count(NewOf(ws, p, ToSchedule))'
                         <= contacts'[ws][p]
                    /\ sent'[ws][p] + Count(NewOf(ws, p, ToAck))' <= contacts'[ws][p]
    BY DEF OwedInv
<1> DEFINE x == proc[w]
           N == NewOf(ws, p, ToSchedule)
           M == NewOf(ws, p, ToAck)
<1>1. TypeOK /\ proc' = [proc EXCEPT ![w] = r]
    BY DEF IInv, Step
<1>2. /\ contacts[ws][p] \in Nat /\ contacts'[ws][p] \in Nat
      /\ cadences[ws][p] \in Nat /\ cadences'[ws][p] \in Nat
      /\ sent[ws][p] \in Nat /\ sent'[ws][p] \in Nat
    BY DEF IInv, TypeOK
<1>3. /\ cadences[ws][p] + Count(N) <= contacts[ws][p]
      /\ sent[ws][p] + Count(M) <= contacts[ws][p]
    BY DEF AutomationInv, OwedInv
<1>4. /\ cadences'[ws][p] + (IF r \in N THEN 1 ELSE 0) + contacts[ws][p]
           <= contacts'[ws][p] + (IF x \in N THEN 1 ELSE 0) + cadences[ws][p]
      /\ sent'[ws][p] + (IF r \in M THEN 1 ELSE 0) + contacts[ws][p]
           <= contacts'[ws][p] + (IF x \in M THEN 1 ELSE 0) + sent[ws][p]
    <2>1. CASE Quiet /\ (r \in N => x \in N) /\ (r \in M => x \in M)
        <3>1. contacts' = contacts /\ cadences' = cadences /\ sent' = sent
            BY <2>1 DEF Quiet, crm
        <3> QED
            BY <1>2, <2>1, <3>1
    <2>2. CASE Leaves(x, r) \/ GoesOn(x, r)
        <3>1. r \notin N /\ r \notin M
            BY <2>2 DEF Leaves, GoesOn, NewOf, ToSchedule, ToAck, IInv, TypeOK, Proc
        <3> QED
            BY <2>1, <2>2, <3>1 DEF Leaves, GoesOn
    <2>3. CASE Writes(w, r)
        BY <2>3, OwedWrite DEF AutomationInv
    <2> QED
        BY <2>1, <2>2, <2>3 DEF Step
<1>5. cadences'[ws][p] + Count(N)' <= contacts'[ws][p]
    <2> HIDE DEF N
    <2> QED
        BY <1>1, <1>2, <1>3, <1>4, Balance
<1>6. sent'[ws][p] + Count(M)' <= contacts'[ws][p]
    <2> HIDE DEF M
    <2> QED
        BY <1>1, <1>2, <1>3, <1>4, Balance
<1> QED
    BY <1>5, <1>6

LEMMA InitAutomation == Init => AutomationInv
<1> SUFFICES ASSUME Init PROVE AutomationInv
    OBVIOUS
<1>1. NewInv
    BY DEF Init, NewInv, Idle
<1>2. ASSUME NEW ws \in Workspaces, NEW p \in Persons
      PROVE  /\ Count(NewOf(ws, p, ToSchedule)) = 0
             /\ Count(NewOf(ws, p, ToAck)) = 0
    BY CountIdle DEF NewOf, ToSchedule, ToAck, Idle
<1>3. OwedInv
    BY <1>2 DEF Init, OwedInv
<1> QED
    BY <1>1, <1>3 DEF AutomationInv

\* Whatever fails and is processed again, a contact row gets at most one cadence
\* and one acknowledgement: for any number of workers and repeats of a lead.
THEOREM AutomationIsOnce == Spec => []AutomationOncePerContact
<1>1. IInv /\ AutomationInv /\ [Next]_vars => AutomationInv'
    BY NextIInv, NextShape, NewStep, OwedStep DEF AutomationInv
<1>2. IInv /\ AutomationInv => AutomationOncePerContact
    <2> SUFFICES ASSUME IInv, OwedInv, NEW ws \in Workspaces, NEW p \in Persons
                 PROVE  /\ cadences[ws][p] <= contacts[ws][p]
                        /\ sent[ws][p] <= contacts[ws][p]
        BY DEF AutomationInv, AutomationOncePerContact
    <2>1. /\ contacts[ws][p] \in Nat /\ cadences[ws][p] \in Nat /\ sent[ws][p] \in Nat
        BY DEF IInv, TypeOK
    <2>2. /\ Count(NewOf(ws, p, ToSchedule)) \in Nat
          /\ Count(NewOf(ws, p, ToAck)) \in Nat
        BY CountType
    <2> QED
        BY <2>1, <2>2 DEF OwedInv
<1> QED
    BY InitAutomation, Invariance, <1>1, <1>2, PTL DEF Spec

-----------------------------------------------------------------------------
(* The contact cap. *)

CreatingIn(ws) == {x \in Proc : x.ws = ws /\ x.pc = "create"}

\* Whoever has passed the quota has a place below the cap or beside it.
QuotaInv ==
    \A ws \in Workspaces :
        Sum(contacts[ws]) + Count(CreatingIn(ws)) < ContactLimit + Cardinality(Workers)

LEMMA WorkersCount == Cardinality(Workers) \in Nat /\ Cardinality(Workers) > 0
BY FiniteAssumption, FS_CardinalityType, FS_EmptySet

LEMMA ContactSum ==
    ASSUME TypeOK, NEW ws \in Workspaces
    PROVE  Sum(contacts[ws]) \in Nat
BY FiniteAssumption, SumType DEF TypeOK

LEMMA ContactBump ==
    ASSUME TypeOK, NEW ws \in Workspaces, NEW v \in Workspaces, NEW p \in Persons
    PROVE  Sum(Bump(contacts, v, p)[ws])
             = Sum(contacts[ws]) + (IF ws = v THEN 1 ELSE 0)
<1>1. contacts[ws] \in [Persons -> Nat] /\ contacts \in [Workspaces -> [Persons -> Nat]]
    BY DEF TypeOK
<1>2. Bump(contacts, v, p)[ws]
        = IF ws = v THEN [contacts[ws] EXCEPT ![p] = @ + 1] ELSE contacts[ws]
    BY <1>1 DEF Bump
<1>3. Sum([contacts[ws] EXCEPT ![p] = @ + 1]) = Sum(contacts[ws]) + 1
    BY <1>1, FiniteAssumption, SumBump
<1>4. Sum(contacts[ws]) \in Nat
    BY ContactSum
<1> QED
    BY <1>2, <1>3, <1>4

LEMMA QuotaStep ==
    ASSUME IInv, QuotaInv, NEW w \in Workers, NEW r \in Proc, Step(w, r)
    PROVE  QuotaInv'
<1> SUFFICES ASSUME NEW ws \in Workspaces
             PROVE  Sum(contacts'[ws]) + Count(CreatingIn(ws))'
                      < ContactLimit + Cardinality(Workers)
    BY DEF QuotaInv
<1> DEFINE x == proc[w]
           C == CreatingIn(ws)
<1>1. TypeOK /\ proc' = [proc EXCEPT ![w] = r] /\ x \in Proc
    BY DEF IInv, TypeOK, Step
<1>2. /\ Sum(contacts[ws]) \in Nat /\ ContactLimit \in Nat
      /\ Cardinality(Workers) \in Nat /\ Count(C) \in Nat
      /\ Sum(contacts[ws]) + Count(C) < ContactLimit + Cardinality(Workers)
    BY <1>1, ContactSum, BoundAssumption, WorkersCount, CountType DEF QuotaInv
<1>3. /\ Count(C)' \in Nat /\ Count(C)' <= Cardinality(Workers)
      /\ Count(C)' + (IF x \in C THEN 1 ELSE 0) = Count(C) + (IF r \in C THEN 1 ELSE 0)
    BY <1>1, CountMoves
<1>4. CASE contacts' = contacts /\ (r \in C => x \in C)
    BY <1>2, <1>3, <1>4
<1>5. CASE Quiet /\ r = x
    BY <1>4, <1>5 DEF Quiet, crm
<1>6. CASE Leaves(x, r)
    BY <1>4, <1>6 DEF Leaves, CreatingIn, Quiet, crm
<1>7. CASE GoesOn(x, r)
    <2>1. contacts' = contacts
        BY <1>7 DEF GoesOn, Quiet, crm
    <2>2. CASE r \in C
        <3>1. x.ws = ws /\ ~OverQuota(ws)
            BY <1>1, <1>7, <2>2 DEF GoesOn, CreatingIn, Proc
        <3>2. Sum(contacts[ws]) < ContactLimit
            BY <1>2, <3>1 DEF OverQuota
        <3> QED
            BY <1>2, <1>3, <2>1, <3>2
    <2> QED
        BY <1>4, <2>1, <2>2
<1>8. CASE Writes(w, r)
    <2>1. CASE CreateContact(w)
        <3>1. /\ x.pc = "create" /\ x.ws \in Workspaces /\ x.lead \in Leads
              /\ PersonOf[x.lead] \in Persons
            BY <2>1, LeadAssumption
            DEF CreateContact, At, IInv, WorkerInv, WorkerOK, Running
        <3>2. r.pc # "create"
            BY <1>8, <2>1, <3>1
            DEF Writes, CreateDeal, CreateNote, ScheduleFollowUps, Acknowledge,
                MarkProcessed, At
        <3>3. r \notin C /\ (x \in C <=> ws = x.ws)
            BY <1>1, <3>1, <3>2 DEF CreatingIn
        <3>4. Sum(contacts'[ws]) = Sum(contacts[ws]) + (IF ws = x.ws THEN 1 ELSE 0)
            <4>1. contacts' = Bump(contacts, x.ws, PersonOf[x.lead])
                BY <2>1 DEF CreateContact
            <4>2. ASSUME NEW v \in Workspaces, NEW p \in Persons
                  PROVE  Sum(Bump(contacts, v, p)[ws])
                           = Sum(contacts[ws]) + (IF ws = v THEN 1 ELSE 0)
                BY <1>1, ContactBump
            <4> QED
                BY <3>1, <4>1, <4>2
        <3> QED
            BY <1>2, <1>3, <3>3, <3>4
    <2>2. CASE ~CreateContact(w)
        <3>1. contacts' = contacts
            BY <1>8, <2>2
            DEF Writes, CreateDeal, CreateNote, ScheduleFollowUps, Acknowledge,
                MarkProcessed, crm
        <3>2. r.pc # "create"
            BY <1>8, <2>2
            DEF Writes, CreateDeal, CreateNote, ScheduleFollowUps, Acknowledge,
                MarkProcessed, At
        <3> QED
            BY <1>4, <3>1, <3>2 DEF CreatingIn
    <2> QED
        BY <2>1, <2>2
<1> QED
    BY <1>5, <1>6, <1>7, <1>8 DEF Step

LEMMA InitQuota == Init => QuotaInv
<1> SUFFICES ASSUME Init, NEW ws \in Workspaces
             PROVE  Sum(contacts[ws]) + Count(CreatingIn(ws))
                      < ContactLimit + Cardinality(Workers)
    BY DEF QuotaInv
<1>1. Sum(contacts[ws]) = 0
    <2>1. contacts[ws] = [p \in Persons |-> 0]
        BY DEF Init
    <2> QED
        BY <2>1, FiniteAssumption, SumZero
<1>2. Count(CreatingIn(ws)) = 0
    BY CountIdle DEF CreatingIn, Idle
<1> QED
    BY <1>1, <1>2, WorkersCount, BoundAssumption

\* For any plan, any number of workers and any interleaving: the unlocked check
\* of the contact cap lets a workspace overshoot by less than the workers.
THEOREM QuotaOvershootIsBounded == Spec => []QuotaOvershootBounded
<1>1. IInv /\ QuotaInv /\ [Next]_vars => QuotaInv'
    BY NextShape, QuotaStep
<1>2. IInv /\ QuotaInv => QuotaOvershootBounded
    <2> SUFFICES ASSUME IInv, QuotaInv, NEW ws \in Workspaces
                 PROVE  Sum(contacts[ws]) < ContactLimit + Cardinality(Workers)
        BY DEF QuotaOvershootBounded
    <2>1. Sum(contacts[ws]) \in Nat /\ Count(CreatingIn(ws)) \in Nat
        BY ContactSum, CountType DEF IInv
    <2>2. ContactLimit + Cardinality(Workers) \in Nat
        BY BoundAssumption, WorkersCount
    <2> QED
        BY <2>1, <2>2 DEF QuotaInv
<1> QED
    BY InitQuota, Invariance, <1>1, <1>2, PTL DEF Spec

-----------------------------------------------------------------------------
(* One worker, as the drain script is run. *)

\* One worker.
Alone == Cardinality(Workers) = 1

\* One tenant, whose leads do not share keys: payloads with the same key are
\* the same lead to the code.
KeysApart ==
    /\ \E ws : Workspaces = {ws}
    /\ \A l \in Leads, m \in Leads :
          {KeyOf[l], MappedKeyOf[l]} \cap {KeyOf[m], MappedKeyOf[m]} # {} => l = m

\* Registers of a worker that found no contact of p in ws.
SeekingIn(ws, p) ==
    {x \in Proc : /\ x.ws = ws /\ x.lead \in Leads /\ PersonOf[x.lead] = p
                  /\ x.pc \in {"quota", "create"}}

\* A person who can be matched is one contact, or one to be.
SeekInv ==
    \A ws \in Workspaces, p \in Persons \ Anonymous :
        contacts[ws][p] + Count(SeekingIn(ws, p)) <= 1

\* Until a source is edited, the workers and the deals have the keys that the
\* sources give them.
KeyInv ==
    reconfigs = 0 =>
        /\ \A w \in Workers : proc[w].pc \in Started =>
              proc[w].key = EffectiveKey(proc[w].ws, proc[w].lead)
        /\ \A ws \in Workspaces, k \in Keys :
              deals[ws][k] > 0 => \E l \in Leads : k = EffectiveKey(ws, l)

LEMMA SeekStep ==
    ASSUME Alone, IInv, IInv', SeekInv, NEW w \in Workers, NEW r \in Proc, Step(w, r)
    PROVE  SeekInv'
<1> SUFFICES ASSUME NEW ws \in Workspaces, NEW p \in Persons \ Anonymous
             PROVE  contacts'[ws][p] + Count(SeekingIn(ws, p))' <= 1
    BY DEF SeekInv
<1> DEFINE x == proc[w]
           S == SeekingIn(ws, p)
<1>1. TypeOK /\ proc' = [proc EXCEPT ![w] = r] /\ x \in Proc
    BY DEF IInv, TypeOK, Step
<1>2. /\ contacts[ws][p] \in Nat /\ contacts'[ws][p] \in Nat
      /\ Count(S) \in Nat /\ contacts[ws][p] + Count(S) <= 1
    BY CountType DEF IInv, TypeOK, SeekInv
<1>3. /\ Count(S)' \in Nat /\ Count(S)' <= 1
      /\ Count(S)' + (IF x \in S THEN 1 ELSE 0) = Count(S) + (IF r \in S THEN 1 ELSE 0)
    <2>1. /\ Count(S)' \in Nat /\ Count(S)' <= Cardinality(Workers)
          /\ Count(S)' + (IF x \in S THEN 1 ELSE 0) = Count(S) + (IF r \in S THEN 1 ELSE 0)
        BY <1>1, CountMoves
    <2> QED
        BY <2>1 DEF Alone
<1>4. CASE contacts' = contacts /\ (r \in S => x \in S)
    BY <1>2, <1>3, <1>4
<1>5. CASE Quiet /\ r = x
    BY <1>4, <1>5 DEF Quiet, crm
<1>6. CASE Leaves(x, r)
    BY <1>4, <1>6 DEF Leaves, SeekingIn, Quiet, crm
<1>7. CASE GoesOn(x, r)
    <2>1. contacts' = contacts
        BY <1>7 DEF GoesOn, Quiet, crm
    <2>2. CASE r \in S /\ x \notin S
        <3>1. /\ ~Matches(x.ws, x.lead)
              /\ x.ws = ws /\ x.lead \in Leads /\ PersonOf[x.lead] = p
            BY <1>1, <1>7, <2>2 DEF GoesOn, SeekingIn, Proc
        <3>2. ~(contacts[ws][p] > 0)
            BY <3>1 DEF Matches
        <3> QED
            BY <1>2, <1>3, <2>1, <3>2
    <2> QED
        BY <1>4, <2>1, <2>2
<1>8. CASE Writes(w, r)
    <2>1. CASE CreateContact(w)
        <3>1. /\ x.pc = "create" /\ x.ws \in Workspaces /\ x.lead \in Leads
              /\ PersonOf[x.lead] \in Persons
            BY <2>1, LeadAssumption
            DEF CreateContact, At, IInv, WorkerInv, WorkerOK, Running
        <3>2. r.pc \notin {"quota", "create"}
            BY <1>8, <2>1, <3>1
            DEF Writes, CreateDeal, CreateNote, ScheduleFollowUps, Acknowledge,
                MarkProcessed, At
        <3>3. r \notin S /\ (x \in S <=> ws = x.ws /\ p = PersonOf[x.lead])
            BY <1>1, <3>1, <3>2 DEF SeekingIn
        <3>4. contacts'[ws][p]
                = contacts[ws][p] + (IF ws = x.ws /\ p = PersonOf[x.lead] THEN 1 ELSE 0)
            <4>1. contacts' = Bump(contacts, x.ws, PersonOf[x.lead])
                BY <2>1 DEF CreateContact
            <4>2. ASSUME NEW v \in Workspaces, NEW q \in Persons
                  PROVE  Bump(contacts, v, q)[ws][p]
                           = contacts[ws][p] + (IF ws = v /\ p = q THEN 1 ELSE 0)
                <5>1. contacts \in [Workspaces -> [Persons -> Nat]]
                    BY <1>1 DEF TypeOK
                <5> QED
                    BY <5>1, BumpAt
            <4> QED
                BY <3>1, <4>1, <4>2
        <3> QED
            BY <1>2, <1>3, <3>3, <3>4
    <2>2. CASE ~CreateContact(w)
        <3>1. contacts' = contacts
            BY <1>8, <2>2
            DEF Writes, CreateDeal, CreateNote, ScheduleFollowUps, Acknowledge,
                MarkProcessed, crm
        <3>2. r.pc \notin {"quota", "create"}
            BY <1>8, <2>2
            DEF Writes, CreateDeal, CreateNote, ScheduleFollowUps, Acknowledge,
                MarkProcessed, At
        <3> QED
            BY <1>4, <3>1, <3>2 DEF SeekingIn
    <2> QED
        BY <2>1, <2>2
<1> QED
    BY <1>5, <1>6, <1>7, <1>8 DEF Step

\* Only an edit changes a source, and it is counted.
LEMMA ConfigStep ==
    ASSUME IInv, [Next]_vars, reconfigs' = 0
    PROVE  reconfigs = 0 /\ config' = config
<1>1. ASSUME NEW ws \in Workspaces, NEW s \in Sources, NEW c \in Configs,
             Reconfigure(ws, s, c)
      PROVE  FALSE
    BY <1>1, BoundAssumption DEF Reconfigure, IInv, TypeOK
<1>2. ASSUME NEW ws \in Workspaces, NEW l \in Leads,
             Enqueue(ws, l) \/ EnqueueFails(ws, l)
      PROVE  reconfigs' = reconfigs /\ config' = config
    BY <1>2 DEF Enqueue, EnqueueFails
<1>3. ASSUME NEW w \in Workers, NEW ws \in Workspaces,
             StartBatch(w, ws) \/ \E l \in Leads : Enquiry(w, ws, l)
      PROVE  reconfigs' = reconfigs /\ config' = config
    BY <1>3 DEF StartBatch, Enquiry, world
<1>4. ASSUME NEW w \in Workers,
             \/ Take(w) \/ Finish(w) \/ Fail(w) \/ Crash(w)
             \/ ReadConfig(w) \/ Dedupe(w) \/ Record(w) \/ FindContact(w)
             \/ CheckQuota(w)
      PROVE  reconfigs' = reconfigs /\ config' = config
    BY <1>4 DEF Take, Finish, Fail, Crash, ReadConfig, Dedupe, Record, FindContact,
                CheckQuota, world
<1>5. ASSUME NEW w \in Workers,
             \/ CreateContact(w) \/ CreateDeal(w) \/ CreateNote(w)
             \/ ScheduleFollowUps(w) \/ Acknowledge(w) \/ MarkProcessed(w)
      PROVE  reconfigs' = reconfigs /\ config' = config
    BY <1>5 DEF CreateContact, CreateDeal, CreateNote, ScheduleFollowUps,
                Acknowledge, MarkProcessed, world
<1>6. CASE UNCHANGED vars
    BY <1>6 DEF vars
<1> QED
    BY <1>1, <1>2, <1>3, <1>4, <1>5, <1>6 DEF Next, Process

LEMMA KeyStep ==
    ASSUME IInv, KeyInv, NEW w \in Workers, NEW r \in Proc, Step(w, r),
           reconfigs' = 0 => reconfigs = 0 /\ config' = config
    PROVE  KeyInv'
<1> SUFFICES ASSUME reconfigs = 0, config' = config
             PROVE  /\ \A v \in Workers : proc'[v].pc \in Started =>
                          proc'[v].key = EffectiveKey(proc'[v].ws, proc'[v].lead)
                    /\ \A ws \in Workspaces, k \in Keys :
                          deals'[ws][k] > 0 => \E l \in Leads : k = EffectiveKey(ws, l)
    BY DEF KeyInv, EffectiveKey
<1> DEFINE x == proc[w]
<1>1. /\ x \in Proc /\ proc \in [Workers -> Proc] /\ proc' = [proc EXCEPT ![w] = r]
      /\ deals \in [Workspaces -> [Keys -> Nat]]
    BY DEF IInv, TypeOK, Step
<1>2. /\ x.pc \in Started => x.key = EffectiveKey(x.ws, x.lead)
      /\ \A ws \in Workspaces, k \in Keys :
            deals[ws][k] > 0 => \E l \in Leads : k = EffectiveKey(ws, l)
    BY DEF KeyInv
<1>3. r.pc \in Started => r.key = EffectiveKey(r.ws, r.lead)
    <2>1. CASE Quiet /\ r = x
        BY <1>2, <2>1
    <2>2. CASE Leaves(x, r)
        BY <2>2 DEF Leaves, Started, Running
    <2>3. CASE GoesOn(x, r)
        BY <1>1, <1>2, <2>3 DEF GoesOn, Started, Running, Proc
    <2>4. CASE Writes(w, r)
        <3>1. x.pc \in Started
            BY <2>4
            DEF Writes, CreateContact, CreateDeal, CreateNote, ScheduleFollowUps,
                Acknowledge, MarkProcessed, At, Started, Running
        <3>2. r.key = x.key /\ r.ws = x.ws /\ r.lead = x.lead
            BY <1>1, <2>4 DEF Writes, Proc
        <3> QED
            BY <1>2, <3>1, <3>2
    <2> QED
        BY <2>1, <2>2, <2>3, <2>4 DEF Step
<1>4. ASSUME NEW v \in Workers, proc'[v].pc \in Started
      PROVE  proc'[v].key = EffectiveKey(proc'[v].ws, proc'[v].lead)
    <2>1. CASE v = w
        BY <1>1, <1>3, <1>4, <2>1
    <2>2. CASE v # w
        <3>1. proc'[v] = proc[v]
            BY <1>1, <2>2
        <3> QED
            BY <1>4, <3>1 DEF KeyInv
    <2> QED
        BY <2>1, <2>2
<1>5. ASSUME NEW ws \in Workspaces, NEW k \in Keys, deals'[ws][k] > 0
      PROVE  \E l \in Leads : k = EffectiveKey(ws, l)
    <2>1. CASE deals' = deals
        BY <1>2, <1>5, <2>1
    <2>2. CASE CreateDeal(w) /\ deals' = Bump(deals, x.ws, x.key)
        <3>1. /\ x.pc \in Started /\ x.ws \in Workspaces /\ x.key \in Keys
              /\ x.lead \in Leads
            BY <2>2
            DEF CreateDeal, At, IInv, WorkerInv, WorkerOK, Started, Running
        <3>2. CASE ws = x.ws /\ k = x.key
            BY <1>2, <3>1, <3>2
        <3>3. CASE ~(ws = x.ws /\ k = x.key)
            <4>1. deals'[ws][k] = deals[ws][k]
                BY <1>1, <2>2, <3>1, <3>3 DEF Bump
            <4> QED
                BY <1>2, <1>5, <4>1
        <3> QED
            BY <3>2, <3>3
    <2>3. deals' = deals \/ (CreateDeal(w) /\ deals' = Bump(deals, x.ws, x.key))
        BY DEF Step, Quiet, Leaves, GoesOn, Writes, CreateContact, CreateDeal,
               CreateNote, ScheduleFollowUps, Acknowledge, MarkProcessed, crm
    <2> QED
        BY <2>1, <2>2, <2>3
<1> QED
    BY <1>4, <1>5

\* A key without a deal in any workspace has none in all.
LEMMA TotalZero ==
    ASSUME NEW table, NEW k, \A ws \in Workspaces : table[ws][k] = 0
    PROVE  Total(table, k) = 0
<1>1. [ws \in Workspaces |-> table[ws][k]] = [ws \in Workspaces |-> 0]
    OBVIOUS
<1> QED
    BY <1>1, FiniteAssumption, SumZero DEF Total

LEMMA OneDealHolds ==
    ASSUME Alone, KeysApart, IInv, DuplicatesBounded, SeekInv, KeyInv
    PROVE  OneDealPerLead
<1>1. ASSUME NEW ws \in Workspaces, NEW p \in Persons \ Anonymous
      PROVE  contacts[ws][p] <= 1
    <2>1. contacts[ws][p] \in Nat /\ Count(SeekingIn(ws, p)) \in Nat
        BY CountType DEF IInv, TypeOK
    <2> QED
        BY <2>1 DEF SeekInv
<1>2. ASSUME faults = 0, reconfigs = 0, NEW l \in Leads,
             NEW k \in {KeyOf[l], MappedKeyOf[l]}, NEW j \in {KeyOf[l], MappedKeyOf[l]}
      PROVE  /\ Total(deals, k) <= 1
             /\ k # j => Total(deals, k) + Total(deals, j) <= 1
    <2>1. k \in Keys /\ j \in Keys
        BY LeadAssumption
    <2>2. deals \in [Workspaces -> [Keys -> Nat]]
        BY DEF IInv, TypeOK
    <2>3. Total(deals, k) \in Nat /\ Total(deals, j) \in Nat
        BY <2>1, <2>2, TotalType
    <2>4. Total(deals, k) <= 1 /\ Total(deals, j) <= 1
        BY <1>2, <2>1 DEF DuplicatesBounded, Alone
    <2>5. ASSUME k # j PROVE Total(deals, k) = 0 \/ Total(deals, j) = 0
        <3>1. PICK ws : Workspaces = {ws}
            BY DEF KeysApart
        <3>2. ASSUME NEW i \in {KeyOf[l], MappedKeyOf[l]}, deals[ws][i] > 0
              PROVE  i = EffectiveKey(ws, l)
            <4>1. PICK m \in Leads : i = EffectiveKey(ws, m)
                BY <1>2, <2>1, <3>1, <3>2, LeadAssumption DEF KeyInv
            <4>2. i \in {KeyOf[m], MappedKeyOf[m]}
                BY <4>1 DEF EffectiveKey
            <4>3. l = m
                BY <3>2, <4>2 DEF KeysApart
            <4> QED
                BY <4>1, <4>3
        <3>3. deals[ws][k] \in Nat /\ deals[ws][j] \in Nat
            BY <2>1, <2>2, <3>1
        <3>4. deals[ws][k] = 0 \/ deals[ws][j] = 0
            BY <2>5, <3>2, <3>3
        <3> QED
            BY <3>1, <3>4, TotalZero
    <2> QED
        BY <2>3, <2>4, <2>5
<1> QED
    BY <1>1, <1>2 DEF OneDealPerLead

LEMMA InitAlone == Init => SeekInv /\ KeyInv
<1> SUFFICES ASSUME Init PROVE SeekInv /\ KeyInv
    OBVIOUS
<1>1. ASSUME NEW ws \in Workspaces, NEW p \in Persons
      PROVE  contacts[ws][p] = 0 /\ Count(SeekingIn(ws, p)) = 0
    BY CountIdle DEF Init, SeekingIn, Idle
<1>2. KeyInv
    BY DEF Init, KeyInv, Idle, Started, Running
<1> QED
    BY <1>1, <1>2 DEF SeekInv

\* One worker and one tenant make the queue exactly once while nothing fails,
\* however many leads there are and however often they are posted.
THEOREM OneDealAlone ==
    ASSUME Alone, KeysApart
    PROVE  Spec => []OneDealPerLead
<1>1. IInv /\ SeekInv /\ KeyInv /\ [Next]_vars => SeekInv' /\ KeyInv'
    BY NextIInv, NextShape, ConfigStep, SeekStep, KeyStep
<1>2. IInv /\ DuplicatesBounded /\ SeekInv /\ KeyInv => OneDealPerLead
    BY OneDealHolds
<1> QED
    BY InitAlone, Invariance, DuplicatesAreBounded, <1>1, <1>2, PTL DEF Spec

=============================================================================
