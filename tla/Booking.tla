------------------------------ MODULE Booking ------------------------------
(***************************************************************************)
(* Holding and booking units: modules/booking/{actions,stages}.ts,         *)
(* updateUnitStatus of modules/property/actions.ts with its status machine *)
(* in modules/property/import.ts, and the payment schedules of             *)
(* modules/payments/{actions,clp}.ts.  No action opens a transaction: each *)
(* checks what it has read and then writes the unit, the deal, the payment *)
(* rows and the demand letter one after the other, so sales people who act *)
(* on the same deal or unit interleave, and a call that throws leaves the  *)
(* rest undone.                                                            *)
(***************************************************************************)
EXTENDS Integers, FiniteSets, Sequences, SequencesExt

CONSTANTS
    Deals, Units,
    Offered,     \* Offered[d]: units that may be picked for deal d
    Plans, NoPlan,
    Milestones,  \* Milestones[p]: percentages of plan p, in order
    Agents,      \* concurrent server actions
    MaxRequests, \* bound: bookings confirmed and plans attached
    MaxFaults,   \* bound: calls that throw half-way
    Null

ASSUME DealAssumption ==
    /\ Offered \in [Deals -> SUBSET Units]
    /\ NoPlan \notin Plans
    /\ Milestones \in [Plans -> Seq(Nat)]
    /\ Null \notin Deals \cup Units \cup Plans

ASSUME BoundAssumption == MaxRequests \in Nat /\ MaxFaults \in Nat

RE_STAGES == <<"INQUIRY", "VISIT", "NEGOTIATION", "HOLD", "BOOKING",
               "REGISTRATION", "POSSESSION", "CLOSED">>

Stages == ToSet(RE_STAGES)
Statuses == {"AVAILABLE", "HOLD", "BOOKED", "SOLD"}

VARIABLES
    status,     \* status[u]: Unit.status
    stage,      \* stage[d]: Deal.bookingStage, null read as INQUIRY
    unitOf,     \* unitOf[d]: Deal.unitId
    planOf,     \* planOf[d]: Deal.paymentPlanId
    payments,   \* payments[d]: percentages of the Payment rows, as created
    letter,     \* letter[d]: percentage the last demand letter #1 asks for
    proc,       \* proc[a]: what action a has read and does next
    overlapped, \* history: two actions were under way at one time
    requests, faults

vars == <<status, stage, unitOf, planOf, payments, letter, proc, overlapped,
          requests, faults>>
deal == <<stage, unitOf, planOf>>
bounds == <<overlapped, requests, faults>>

Action == [pc : {"idle", "holdUnit", "holdDeal", "read", "bookUnit", "bookDeal",
                 "row", "letter", "attach", "setStatus"},
           deal : Deals \cup {Null}, unit : Units \cup {Null},
           plan : Plans \cup {NoPlan}, to : Statuses,
           row : Nat]                  \* Payment rows created so far

\* Steps that write a unit, or link one to the deal.
Writing == {"holdUnit", "holdDeal", "bookUnit", "bookDeal", "setStatus"}

Idle == [pc |-> "idle", deal |-> Null, unit |-> Null, plan |-> NoPlan,
         to |-> "AVAILABLE", row |-> 0]

TypeOK ==
    /\ status \in [Units -> Statuses]
    /\ stage \in [Deals -> Stages]
    /\ unitOf \in [Deals -> Units \cup {Null}]
    /\ planOf \in [Deals -> Plans \cup {NoPlan}]
    /\ payments \in [Deals -> Seq(Nat)]
    /\ letter \in [Deals -> Nat]
    /\ proc \in [Agents -> Action]
    /\ \A a \in Agents : proc[a].pc \in Writing => proc[a].unit # Null
    /\ overlapped \in BOOLEAN
    /\ requests \in 0..MaxRequests
    /\ faults \in 0..MaxFaults

-----------------------------------------------------------------------------
(* The two machines *)

Rank(s) == CHOOSE i \in 1..Len(RE_STAGES) : RE_STAGES[i] = s

\* canTransition of stages.ts: any later stage.
canTransition(from, to) == Rank(to) > Rank(from)

advanceStageUnguarded(d, to) == stage[d] \in Stages

\* advanceStage throws unless the deal is there already or may go there.
advanceStage(d, to) == stage[d] = to \/ canTransition(stage[d], to)

ALLOWED == [AVAILABLE |-> {"HOLD", "BOOKED"}, HOLD |-> {"AVAILABLE", "BOOKED"},
            BOOKED |-> {"SOLD"}, SOLD |-> {}]

Allowed(from, to) == to \in ALLOWED[from]

\* The percentages materializeCLP splits the total by: the plan's milestones if
\* it has any, else the standard 8 stages.
DEFAULT_CLP == <<10, 15, 15, 10, 20, 10, 15, 5>>
Schedule(p) ==
    IF p = NoPlan \/ Milestones[p] = <<>> THEN DEFAULT_CLP ELSE Milestones[p]

At(a, pc) == proc[a].pc = pc
Begin(a, action) ==
    /\ At(a, "idle")
    /\ proc' = [proc EXCEPT ![a] = action]
    /\ overlapped' = (overlapped \/ \E b \in Agents : ~At(b, "idle"))

Goto(a, pc) == proc' = [proc EXCEPT ![a].pc = pc]

Init ==
    /\ status \in [Units -> Statuses]
    /\ stage = [d \in Deals |-> "INQUIRY"]
    /\ unitOf = [d \in Deals |-> Null]
    /\ planOf = [d \in Deals |-> NoPlan]
    /\ payments = [d \in Deals |-> <<>>]
    /\ letter = [d \in Deals |-> 0]
    /\ proc = [a \in Agents |-> Idle]
    /\ overlapped = FALSE
    /\ requests = 0
    /\ faults = 0

-----------------------------------------------------------------------------
(* holdUnit *)

\* Mutant: a unit on hold is only linked to the deal.
StartHoldOfHeld(a, d, u) ==
    /\ status[u] = "HOLD" \/ advanceStage(d, "HOLD")
    /\ Begin(a, [Idle EXCEPT !.deal = d, !.unit = u,
                    !.pc = IF status[u] = "HOLD" THEN "holdDeal" ELSE "holdUnit"])
    /\ UNCHANGED <<status, deal, payments, letter, requests, faults>>

\* advanceStage; the unit need only exist, its status is not looked at.
StartHold(a, d, u) ==
    /\ advanceStage(d, "HOLD")
    /\ Begin(a, [Idle EXCEPT !.pc = "holdUnit", !.deal = d, !.unit = u])
    /\ UNCHANGED <<status, deal, payments, letter, requests, faults>>

HoldUnit(a) ==
    /\ At(a, "holdUnit")
    /\ status' = [status EXCEPT ![proc[a].unit] = "HOLD"]
    /\ Goto(a, "holdDeal")
    /\ UNCHANGED <<deal, payments, letter, bounds>>

HoldDeal(a) ==
    /\ At(a, "holdDeal")
    /\ unitOf' = [unitOf EXCEPT ![proc[a].deal] = proc[a].unit]
    /\ stage' = [stage EXCEPT ![proc[a].deal] = "HOLD"]
    /\ proc' = [proc EXCEPT ![a] = Idle]
    /\ UNCHANGED <<status, planOf, payments, letter, bounds>>

-----------------------------------------------------------------------------
(* confirmBooking *)

StartBooking(a, d, u, p) ==
    /\ requests < MaxRequests
    /\ requests' = requests + 1
    /\ advanceStage(d, "BOOKING")
    /\ Begin(a, [Idle EXCEPT !.pc = "read", !.deal = d, !.unit = u, !.plan = p])
    /\ UNCHANGED <<status, deal, payments, letter, faults>>

ReadDealOwnUnit(a) ==
    LET d == proc[a].deal
        p == IF proc[a].plan # NoPlan THEN proc[a].plan ELSE planOf[d]
    IN  /\ At(a, "read")
        /\ proc' = [proc EXCEPT ![a] = [@ EXCEPT !.pc = "bookUnit",
                                                 !.unit = unitOf[d], !.plan = p]]
        /\ UNCHANGED <<status, deal, payments, letter, bounds>>

\* The deal is read again: its own unit wins over the one picked, and its plan
\* applies if none was named.
ReadDeal(a) ==
    LET d == proc[a].deal
        u == IF unitOf[d] # Null THEN unitOf[d] ELSE proc[a].unit
        p == IF proc[a].plan # NoPlan THEN proc[a].plan ELSE planOf[d]
    IN  /\ At(a, "read")
        /\ proc' = [proc EXCEPT ![a] = [@ EXCEPT !.pc = "bookUnit", !.unit = u,
                                                 !.plan = p]]
        /\ UNCHANGED <<status, deal, payments, letter, bounds>>

BookUnit(a) ==
    /\ At(a, "bookUnit")
    /\ status' = [status EXCEPT ![proc[a].unit] = "BOOKED"]
    /\ Goto(a, "bookDeal")
    /\ UNCHANGED <<deal, payments, letter, bounds>>

BookDealOnly(a) ==
    LET d == proc[a].deal
    IN  /\ At(a, "bookDeal")
        /\ stage' = [stage EXCEPT ![d] = "BOOKING"]
        /\ unitOf' = [unitOf EXCEPT ![d] = proc[a].unit]
        /\ planOf' = [planOf EXCEPT ![d] = proc[a].plan]
        /\ Goto(a, IF proc[a].plan = NoPlan THEN "letter" ELSE "row")
        /\ UNCHANGED <<status, payments, letter, bounds>>

BookDeal(a) ==
    LET d == proc[a].deal
    IN  /\ At(a, "bookDeal")
        /\ stage' = [stage EXCEPT ![d] = "BOOKING"]
        /\ unitOf' = [unitOf EXCEPT ![d] = proc[a].unit]
        /\ planOf' = [planOf EXCEPT ![d] = proc[a].plan]
        /\ Goto(a, "row")
        /\ UNCHANGED <<status, payments, letter, bounds>>

\* materializeCLP: one payment.create for each milestone.  Then confirmBooking
\* goes on to the letter; attachPaymentPlan, which carries no unit, is done.
CreatePayment(a) ==
    LET d == proc[a].deal
        rows == Schedule(proc[a].plan)
        n == proc[a].row + 1
    IN  /\ At(a, "row")
        /\ payments' = [payments EXCEPT ![d] = Append(@, rows[n])]
        /\ proc' = [proc EXCEPT ![a] =
                      IF n < Len(rows) THEN [@ EXCEPT !.row = n]
                      ELSE IF proc[a].unit = Null THEN Idle
                      ELSE [@ EXCEPT !.row = n, !.pc = "letter"]]
        /\ UNCHANGED <<status, deal, letter, bounds>>

\* Demand letter #1, if the workspace has a template: 10% of the total.
DemandLetter(a) ==
    /\ At(a, "letter")
    /\ letter' \in {letter, [letter EXCEPT ![proc[a].deal] = 10]}
    /\ proc' = [proc EXCEPT ![a] = Idle]
    /\ UNCHANGED <<status, deal, payments, bounds>>

-----------------------------------------------------------------------------
(* attachPaymentPlan and updateUnitStatus *)

StartAttach(a, d, p) ==
    /\ requests < MaxRequests
    /\ requests' = requests + 1
    /\ Begin(a, [Idle EXCEPT !.pc = "attach", !.deal = d, !.plan = p])
    /\ UNCHANGED <<status, deal, payments, letter, faults>>

Attach(a) ==
    /\ At(a, "attach")
    /\ planOf' = [planOf EXCEPT ![proc[a].deal] = proc[a].plan]
    /\ Goto(a, "row")
    /\ UNCHANGED <<status, stage, unitOf, payments, letter, bounds>>

\* The status read must allow the new one.
StartStatus(a, u, s) ==
    /\ Allowed(status[u], s)
    /\ Begin(a, [Idle EXCEPT !.pc = "setStatus", !.unit = u, !.to = s])
    /\ UNCHANGED <<status, deal, payments, letter, requests, faults>>

SetStatus(a) ==
    /\ At(a, "setStatus")
    /\ status' = [status EXCEPT ![proc[a].unit] = proc[a].to]
    /\ proc' = [proc EXCEPT ![a] = Idle]
    /\ UNCHANGED <<deal, payments, letter, bounds>>

\* A database call throws, or the function dies: nothing is undone.
Fail(a) ==
    /\ faults < MaxFaults
    /\ faults' = faults + 1
    /\ ~At(a, "idle")
    /\ proc' = [proc EXCEPT ![a] = Idle]
    /\ UNCHANGED <<status, deal, payments, letter, overlapped, requests>>

-----------------------------------------------------------------------------
Step(a) ==
    \/ HoldUnit(a) \/ HoldDeal(a)
    \/ ReadDeal(a) \/ BookUnit(a) \/ BookDeal(a) \/ CreatePayment(a)
    \/ DemandLetter(a) \/ Attach(a) \/ SetStatus(a)

Next ==
    \/ \E a \in Agents, d \in Deals :
         \/ \E u \in Offered[d] : StartHold(a, d, u)
         \/ \E u \in Offered[d], p \in Plans \cup {NoPlan} : StartBooking(a, d, u, p)
         \/ \E p \in Plans : StartAttach(a, d, p)
    \/ \E a \in Agents, u \in Units, s \in Statuses : StartStatus(a, u, s)
    \/ \E a \in Agents : Step(a) \/ Fail(a)

Spec == Init /\ [][Next]_vars

-----------------------------------------------------------------------------
(* Properties *)

UnderWay(d) == \E a \in Agents : proc[a].deal = d

Times(x, s) == Cardinality({i \in DOMAIN s : s[i] = x})

\* Once nobody is working on it, a deal at BOOKING has a payment row for every
\* milestone of its plan, however the confirmations, holds and plans of several
\* people interleaved ("unit -> BOOKED, deal -> BOOKING, CLP milestones
\* materialized"), unless one of them failed half-way.
BookedHasSchedule ==
    \A d \in Deals :
        stage[d] = "BOOKING" /\ ~UnderWay(d) /\ faults = 0 =>
            \A pct \in ToSet(Schedule(planOf[d])) :
                Times(pct, payments[d]) >= Times(pct, Schedule(planOf[d]))

\* While people act one after the other, a deal's stage never moves backward,
\* also when an action failed half-way and is repeated.
ForwardOnly ==
    [][~overlapped' => \A d \in Deals : Rank(stage'[d]) >= Rank(stage[d])]_vars

\* A unit is marked SOLD only from BOOKED, and never leaves SOLD: every status
\* change is one of the status machine.
UnitMachine ==
    [][\A u \in Units :
          status'[u] # status[u] => Allowed(status[u], status'[u])]_vars

\* While people act one after the other on units no other deal is offered, a
\* booked deal's unit stays BOOKED or SOLD, also when a call failed half-way.
BookedDealHoldsUnit ==
    ~overlapped =>
        \A d \in Deals :
            stage[d] = "BOOKING" => status[unitOf[d]] \in {"BOOKED", "SOLD"}

\* materializeCLP is "Idempotent-guarded by the caller": confirming a booking
\* again makes no second schedule.
ScheduledOnce ==
    [][\A a \in Agents, d \in Deals :
          /\ At(a, "row") /\ proc[a].row = 0
          /\ proc[a].deal = d /\ proc[a].unit # Null
          /\ payments'[d] # payments[d]
          => payments[d] = <<>>]_vars

\* Demand letter #1 asks for the first milestone of the deal's schedule
\* ("first CLP milestone (On Booking) = 10%").
LetterMatchesSchedule ==
    \A d \in Deals :
        letter[d] # 0 => \E i \in 1..Len(payments[d]) : payments[d][i] = letter[d]
=============================================================================
