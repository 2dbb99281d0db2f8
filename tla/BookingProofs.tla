--------------------------- MODULE BookingProofs ---------------------------
(***************************************************************************)
(* What holds of Booking for any number of deals, units, plans, agents,    *)
(* requests and faults: the types; that a booked deal nobody works on has  *)
(* its payment schedule; and, while people act one after the other, that a *)
(* deal goes forward and a booked deal keeps its unit.                     *)
(***************************************************************************)
EXTENDS Booking, FiniteSetTheorems, TLAPS

\* No unit is offered for two deals: nothing in the code checks that the unit
\* it writes belongs to no other deal.
Disjoint == \A d, e \in Deals : d # e => Offered[d] \cap Offered[e] = {}

Holding == {"holdUnit", "holdDeal"}
Confirming == {"read", "bookUnit", "bookDeal"}
Scheduling == {"row", "letter", "attach"}

\* What an action carries that is under way with x.
ProcOK(x) ==
    /\ x \in Action
    /\ x.pc \in Writing => x.unit # Null
    /\ x.pc \in Holding \cup Confirming => x.deal \in Deals /\ x.unit \in Offered[x.deal]
    /\ x.pc \in Scheduling => x.deal \in Deals
    /\ x.pc \in Confirming \cup {"attach"} => x.row = 0
    /\ x.pc = "row" => x.row < Len(Schedule(x.plan))

ProcInv == \A a \in Agents : ProcOK(proc[a])

UnitInv == \A d \in Deals : unitOf[d] \in Offered[d] \cup {Null}

\* While nothing has overlapped, at most one action is under way.
AloneInv ==
    ~overlapped => \A a, b \in Agents : ~At(a, "idle") /\ ~At(b, "idle") => a = b

MayEnter(from, to) == from = to \/ canTransition(from, to)

\* The check of the deal's stage that x passed still holds of the stages st.
Checked(x, st) ==
    /\ x.pc \in Holding => MayEnter(st[x.deal], "HOLD")
    /\ x.pc \in Confirming => MayEnter(st[x.deal], "BOOKING")

CheckedInv == ~overlapped => \A a \in Agents : Checked(proc[a], stage)

IInv == TypeOK /\ ProcInv /\ UnitInv /\ AloneInv /\ CheckedInv

-----------------------------------------------------------------------------
(* Constants *)

LEMMA RankOf ==
    /\ \A s \in Stages : Rank(s) \in Nat
    /\ "HOLD" \in Stages /\ "BOOKING" \in Stages /\ "INQUIRY" \in Stages
    /\ Rank("HOLD") < Rank("BOOKING")
<1>1. Len(RE_STAGES) = 8 /\ DOMAIN RE_STAGES = 1..8
    BY DEF RE_STAGES
<1>2. \A s \in Stages : \E i \in 1..Len(RE_STAGES) : RE_STAGES[i] = s
    BY <1>1 DEF Stages, ToSet
<1>3. \A s \in Stages : Rank(s) \in 1..Len(RE_STAGES)
    BY <1>2 DEF Rank
<1>4. RE_STAGES[4] = "HOLD" /\ RE_STAGES[5] = "BOOKING" /\ RE_STAGES[1] = "INQUIRY"
    BY DEF RE_STAGES
<1>5. "HOLD" \in Stages /\ "BOOKING" \in Stages /\ "INQUIRY" \in Stages
    BY <1>1, <1>4 DEF Stages, ToSet
<1>6. /\ \A i \in 1..8 : RE_STAGES[i] = "HOLD" => i = 4
      /\ \A i \in 1..8 : RE_STAGES[i] = "BOOKING" => i = 5
    BY DEF RE_STAGES
<1>7. Rank("HOLD") = 4 /\ Rank("BOOKING") = 5
    <2>1. \A i : i \in 1..Len(RE_STAGES) /\ RE_STAGES[i] = "HOLD" <=> i = 4
        BY <1>1, <1>4, <1>6
    <2>2. \A i : i \in 1..Len(RE_STAGES) /\ RE_STAGES[i] = "BOOKING" <=> i = 5
        BY <1>1, <1>4, <1>6
    <2> QED BY <2>1, <2>2 DEF Rank
<1> QED BY <1>1, <1>3, <1>5, <1>7

LEMMA Schedules ==
    \A p \in Plans \cup {NoPlan} : Schedule(p) \in Seq(Nat) /\ 0 < Len(Schedule(p))
<1>1. DEFAULT_CLP \in Seq(Nat) /\ Len(DEFAULT_CLP) = 8
    BY DEF DEFAULT_CLP
<1>2. ASSUME NEW p \in Plans, Milestones[p] # <<>>
      PROVE  Milestones[p] \in Seq(Nat) /\ 0 < Len(Milestones[p])
    BY <1>2, DealAssumption
<1> QED BY <1>1, <1>2 DEF Schedule

LEMMA IdleOK == ProcOK(Idle) /\ \A st : Checked(Idle, st)
BY DEF ProcOK, Idle, Action, Writing, Holding, Confirming, Scheduling, Statuses, Checked

-----------------------------------------------------------------------------
(* An agent's step *)

\* One agent begins an action, or goes on with it, at x.
LEMMA ProcMoves ==
    ASSUME IInv, NEW a \in Agents, NEW x, ProcOK(x),
           proc' = [proc EXCEPT ![a] = x],
           \/ ~At(a, "idle") /\ overlapped' = overlapped
           \/ /\ At(a, "idle")
              /\ overlapped' = (overlapped \/ \E b \in Agents : ~At(b, "idle")),
           ~overlapped' => Checked(x, stage')
    PROVE  /\ proc' \in [Agents -> Action] /\ overlapped' \in BOOLEAN
           /\ \A b \in Agents : proc'[b].pc \in Writing => proc'[b].unit # Null
           /\ ProcInv' /\ AloneInv' /\ CheckedInv'
<1>1. proc \in [Agents -> Action] /\ overlapped \in BOOLEAN
    BY DEF IInv, TypeOK
<1>2. /\ proc' \in [Agents -> Action] /\ overlapped' \in BOOLEAN
      /\ proc'[a] = x /\ \A b \in Agents \ {a} : proc'[b] = proc[b]
    BY <1>1 DEF ProcOK
<1>3. \A b \in Agents : ProcOK(proc'[b])
    BY <1>2 DEF IInv, ProcInv
<1>4. ASSUME ~overlapped', NEW b \in Agents \ {a} PROVE At(b, "idle")
    BY <1>1, <1>4 DEF IInv, AloneInv
<1>5. AloneInv'
    BY <1>2, <1>4 DEF AloneInv, At
<1>6. CheckedInv'
    BY <1>2, <1>4 DEF CheckedInv, Checked, At, Holding, Confirming
<1> QED BY <1>1, <1>2, <1>3, <1>5, <1>6 DEF ProcInv, ProcOK

\* The steps that begin an action write nothing.
LEMMA BeginStep ==
    ASSUME IInv, NEW a \in Agents, NEW x, ProcOK(x), Checked(x, stage), Begin(a, x),
           UNCHANGED <<status, deal, payments, letter, faults>>,
           requests' \in 0..MaxRequests
    PROVE  IInv'
<1>1. UNCHANGED <<status, stage, unitOf, planOf, payments, letter, faults>>
    BY DEF deal
<1>2. /\ proc' \in [Agents -> Action] /\ overlapped' \in BOOLEAN
      /\ \A b \in Agents : proc'[b].pc \in Writing => proc'[b].unit # Null
      /\ ProcInv' /\ AloneInv' /\ CheckedInv'
    BY <1>1, ProcMoves DEF Begin
<1>3. UnitInv' /\ TypeOK'
    BY <1>1, <1>2 DEF IInv, UnitInv, TypeOK
<1> QED BY <1>2, <1>3 DEF IInv

LEMMA Begins ==
    ASSUME IInv, NEW a \in Agents,
           \/ \E d \in Deals :
                \/ \E u \in Offered[d] : StartHold(a, d, u)
                \/ \E u \in Offered[d], p \in Plans \cup {NoPlan} : StartBooking(a, d, u, p)
                \/ \E p \in Plans : StartAttach(a, d, p)
           \/ \E u \in Units, s \in Statuses : StartStatus(a, u, s)
    PROVE  IInv'
<1> USE DealAssumption, BoundAssumption
        DEF Action, Writing, Holding, Confirming, Scheduling, Statuses, Idle
<1>1. requests \in 0..MaxRequests
    BY DEF IInv, TypeOK
<1>2. ASSUME NEW d \in Deals, NEW u \in Offered[d], StartHold(a, d, u)
      PROVE  IInv'
    <2> DEFINE x == [Idle EXCEPT !.pc = "holdUnit", !.deal = d, !.unit = u]
    <2>1. u \in Units /\ u # Null
        OBVIOUS
    <2>2. ProcOK(x) /\ Checked(x, stage)
        BY <1>2, <2>1 DEF ProcOK, Checked, MayEnter, StartHold, advanceStage
    <2> HIDE DEF x
    <2> QED BY <1>1, <1>2, <2>2, BeginStep DEF StartHold, x
<1>3. ASSUME NEW d \in Deals, NEW u \in Offered[d], NEW p \in Plans \cup {NoPlan},
             StartBooking(a, d, u, p)
      PROVE  IInv'
    <2> DEFINE x == [Idle EXCEPT !.pc = "read", !.deal = d, !.unit = u, !.plan = p]
    <2>1. u \in Units /\ u # Null
        OBVIOUS
    <2>2. ProcOK(x) /\ Checked(x, stage)
        BY <1>3, <2>1 DEF ProcOK, Checked, MayEnter, StartBooking, advanceStage
    <2>3. requests' \in 0..MaxRequests
        <3>1. requests < MaxRequests /\ requests' = requests + 1
            BY <1>3 DEF StartBooking
        <3> QED BY <1>1, <3>1, BoundAssumption
    <2> HIDE DEF x
    <2> QED BY <1>3, <2>2, <2>3, BeginStep DEF StartBooking, x
<1>4. ASSUME NEW d \in Deals, NEW p \in Plans, StartAttach(a, d, p)
      PROVE  IInv'
    <2> DEFINE x == [Idle EXCEPT !.pc = "attach", !.deal = d, !.plan = p]
    <2>0. x \in Action /\ x.pc = "attach" /\ x.deal = d /\ x.row = 0
        OBVIOUS
    <2>1. ProcOK(x) /\ Checked(x, stage)
        <3> HIDE DEF x
        <3> QED BY <2>0 DEF ProcOK, Checked
    <2>2. requests' \in 0..MaxRequests
        <3>1. requests < MaxRequests /\ requests' = requests + 1
            BY <1>4 DEF StartAttach
        <3> QED BY <1>1, <3>1, BoundAssumption
    <2> HIDE DEF x
    <2> QED BY <1>4, <2>1, <2>2, BeginStep DEF StartAttach, x
<1>5. ASSUME NEW u \in Units, NEW s \in Statuses, StartStatus(a, u, s)
      PROVE  IInv'
    <2> DEFINE x == [Idle EXCEPT !.pc = "setStatus", !.unit = u, !.to = s]
    <2>0. x \in Action /\ x.pc = "setStatus" /\ x.unit = u /\ u # Null
        OBVIOUS
    <2>1. ProcOK(x) /\ Checked(x, stage)
        <3> HIDE DEF x
        <3> QED BY <2>0 DEF ProcOK, Checked
    <2> HIDE DEF x
    <2> QED BY <1>1, <1>5, <2>1, BeginStep DEF StartStatus, x
<1> QED BY <1>2, <1>3, <1>4, <1>5

\* A step of an action under way: what it leaves in proc, and of the tables.
LEMMA GoesOn ==
    ASSUME IInv, NEW a \in Agents, ~At(a, "idle"),
           NEW x, ProcOK(x), proc' = [proc EXCEPT ![a] = x],
           ~overlapped => Checked(x, stage'),
           status' \in [Units -> Statuses], stage' \in [Deals -> Stages],
           unitOf' \in [Deals -> Units \cup {Null}], UnitInv',
           planOf' \in [Deals -> Plans \cup {NoPlan}],
           payments' \in [Deals -> Seq(Nat)], letter' \in [Deals -> Nat],
           UNCHANGED <<overlapped, requests>>, faults' \in 0..MaxFaults
    PROVE  IInv'
<1>1. /\ proc' \in [Agents -> Action] /\ overlapped' \in BOOLEAN
      /\ \A b \in Agents : proc'[b].pc \in Writing => proc'[b].unit # Null
      /\ ProcInv' /\ AloneInv' /\ CheckedInv'
    BY ProcMoves
<1>2. TypeOK'
    BY <1>1 DEF IInv, TypeOK
<1> QED BY <1>1, <1>2 DEF IInv

LEMMA Steps ==
    ASSUME IInv, NEW a \in Agents, Step(a) \/ Fail(a)
    PROVE  IInv'
<1> DEFINE x == proc[a]
<1> USE DealAssumption, BoundAssumption DEF deal, bounds
<1>1. ProcOK(x) /\ (~overlapped => Checked(x, stage)) /\ x = proc[a]
    BY DEF IInv, ProcInv, CheckedInv
<1>2. /\ status \in [Units -> Statuses] /\ stage \in [Deals -> Stages]
      /\ unitOf \in [Deals -> Units \cup {Null}] /\ UnitInv
      /\ planOf \in [Deals -> Plans \cup {NoPlan}]
      /\ payments \in [Deals -> Seq(Nat)] /\ letter \in [Deals -> Nat]
      /\ proc \in [Agents -> Action] /\ faults \in 0..MaxFaults
    BY DEF IInv, TypeOK
<1>3. UNCHANGED unitOf => UnitInv'
    BY <1>2 DEF UnitInv
<1> HIDE DEF x
<1> USE DEF At, ProcOK, Action, Writing, Holding, Confirming, Scheduling, Checked
<1>4. CASE HoldUnit(a)
    <2> DEFINE y == [x EXCEPT !.pc = "holdDeal"]
    <2>1. ProcOK(y) /\ (~overlapped => Checked(y, stage))
        BY <1>1, <1>4 DEF HoldUnit
    <2>2. status' \in [Units -> Statuses]
        BY <1>1, <1>2, <1>4 DEF HoldUnit, Statuses
    <2>3. proc' = [proc EXCEPT ![a] = y]
        BY <1>1, <1>4 DEF HoldUnit, Goto
    <2> HIDE DEF y
    <2> QED BY <1>1, <1>2, <1>3, <1>4, <2>1, <2>2, <2>3, GoesOn DEF HoldUnit
<1>5. CASE HoldDeal(a)
    <2>1. x.deal \in Deals /\ x.unit \in Offered[x.deal]
        BY <1>1, <1>5 DEF HoldDeal
    <2>2. stage' \in [Deals -> Stages] /\ unitOf' \in [Deals -> Units \cup {Null}] /\ UnitInv'
        BY <1>1, <1>2, <1>5, <2>1, RankOf DEF HoldDeal, UnitInv
    <2> QED BY <1>1, <1>2, <1>5, <2>2, IdleOK, GoesOn DEF HoldDeal
<1>6. CASE ReadDeal(a)
    <2> DEFINE u == IF unitOf[x.deal] # Null THEN unitOf[x.deal] ELSE x.unit
               p == IF x.plan # NoPlan THEN x.plan ELSE planOf[x.deal]
               y == [x EXCEPT !.pc = "bookUnit", !.unit = u, !.plan = p]
    <2>1. x.pc = "read" /\ x.deal \in Deals /\ x.unit \in Offered[x.deal]
        BY <1>1, <1>6 DEF ReadDeal
    <2>2. u \in Offered[x.deal] /\ u \in Units /\ u # Null /\ p \in Plans \cup {NoPlan}
        BY <1>1, <1>2, <2>1 DEF UnitInv
    <2>3. proc' = [proc EXCEPT ![a] = y]
        BY <1>1, <1>6 DEF ReadDeal
    <2> HIDE DEF u, p
    <2>4. ProcOK(y) /\ (~overlapped => Checked(y, stage))
        BY <1>1, <2>1, <2>2
    <2>5. UNCHANGED <<status, stage, unitOf, planOf, payments, letter, overlapped,
                      requests, faults>>
        BY <1>6 DEF ReadDeal
    <2>6. ~At(a, "idle")
        BY <1>1, <2>1
    <2> HIDE DEF y, ProcOK, Checked
    <2> QED BY <1>2, <1>3, <2>3, <2>4, <2>5, <2>6, GoesOn
<1>7. CASE BookUnit(a)
    <2> DEFINE y == [x EXCEPT !.pc = "bookDeal"]
    <2>1. ProcOK(y) /\ (~overlapped => Checked(y, stage))
        BY <1>1, <1>7 DEF BookUnit
    <2>2. status' \in [Units -> Statuses]
        BY <1>1, <1>2, <1>7 DEF BookUnit, Statuses
    <2>3. proc' = [proc EXCEPT ![a] = y]
        BY <1>1, <1>7 DEF BookUnit, Goto
    <2> HIDE DEF y
    <2> QED BY <1>1, <1>2, <1>3, <1>7, <2>1, <2>2, <2>3, GoesOn DEF BookUnit
<1>8. CASE BookDeal(a)
    <2> DEFINE y == [x EXCEPT !.pc = "row"]
    <2>1. x.pc = "bookDeal" /\ x.deal \in Deals /\ x.unit \in Offered[x.deal] /\ x.row = 0
        BY <1>1, <1>8 DEF BookDeal
    <2>2. 0 < Len(Schedule(x.plan))
        BY <1>1, Schedules
    <2>3. ProcOK(y) /\ (~overlapped => Checked(y, stage'))
        BY <1>1, <2>1, <2>2
    <2>4. /\ stage' = [stage EXCEPT ![x.deal] = "BOOKING"]
          /\ unitOf' = [unitOf EXCEPT ![x.deal] = x.unit]
          /\ planOf' = [planOf EXCEPT ![x.deal] = x.plan]
          /\ UNCHANGED <<status, payments, letter, overlapped, requests, faults>>
          /\ proc' = [proc EXCEPT ![a] = y]
        BY <1>1, <1>8 DEF BookDeal, Goto
    <2>5. /\ stage' \in [Deals -> Stages]
          /\ unitOf' \in [Deals -> Units \cup {Null}] /\ UnitInv'
          /\ planOf' \in [Deals -> Plans \cup {NoPlan}]
        BY <1>1, <1>2, <2>1, <2>4, RankOf DEF UnitInv
    <2>6. ~At(a, "idle")
        BY <1>1, <2>1
    <2> HIDE DEF y, ProcOK, Checked
    <2> QED BY <1>2, <2>3, <2>4, <2>5, <2>6, GoesOn
<1>9. CASE CreatePayment(a)
    <2> DEFINE rows == Schedule(x.plan)
               n == x.row + 1
               y == IF n < Len(rows) THEN [x EXCEPT !.row = n]
                    ELSE IF x.unit = Null THEN Idle
                    ELSE [x EXCEPT !.row = n, !.pc = "letter"]
    <2>1. x.pc = "row" /\ x.deal \in Deals /\ x.row \in Nat /\ x.row < Len(rows)
        BY <1>1, <1>9 DEF CreatePayment
    <2>2. rows \in Seq(Nat)
        BY <1>1, Schedules
    <2>3. rows[n] \in Nat
        BY <2>1, <2>2
    <2>4. ProcOK(y) /\ (~overlapped => Checked(y, stage))
        <3> DEFINE z == [x EXCEPT !.row = n]
        <3>0. /\ z \in Action /\ z.pc = "row" /\ z.deal = x.deal /\ z.plan = x.plan
              /\ z.row = n
            <4>1. n \in Nat /\ x \in Action
                BY <1>1, <2>1
            <4> HIDE DEF n
            <4> QED BY <2>1, <4>1
        <3>1. CASE n < Len(rows)
            <4>1. y = z
                BY <3>1
            <4> HIDE DEF z, y
            <4> QED BY <2>1, <3>0, <3>1, <4>1
        <3>2. CASE ~(n < Len(rows)) /\ x.unit = Null
            BY <3>2, IdleOK
        <3>3. CASE ~(n < Len(rows)) /\ x.unit # Null
            <4> DEFINE l == [x EXCEPT !.row = n, !.pc = "letter"]
            <4>1. l \in Action /\ l.pc = "letter" /\ l.deal = x.deal
                <5>1. n \in Nat /\ x \in Action
                    BY <1>1, <2>1
                <5> HIDE DEF n
                <5> QED BY <2>1, <5>1
            <4>2. y = l
                BY <3>3
            <4> HIDE DEF l, y
            <4> QED BY <2>1, <4>1, <4>2
        <3> QED BY <3>1, <3>2, <3>3
    <2>5. /\ payments' = [payments EXCEPT ![x.deal] = Append(@, rows[n])]
          /\ UNCHANGED <<status, stage, unitOf, planOf, letter, overlapped, requests, faults>>
        BY <1>1, <1>9 DEF CreatePayment
    <2>6. proc' = [proc EXCEPT ![a] = y]
        BY <1>1, <1>9 DEF CreatePayment
    <2>7. payments' \in [Deals -> Seq(Nat)]
        BY <1>2, <2>1, <2>3, <2>5
    <2>8. ~At(a, "idle")
        BY <1>1, <2>1
    <2> HIDE DEF y, ProcOK, Checked
    <2> QED BY <1>2, <1>3, <2>4, <2>5, <2>6, <2>7, <2>8, GoesOn
<1>10. CASE DemandLetter(a)
    <2>1. /\ UNCHANGED <<status, stage, unitOf, planOf, payments, overlapped, requests, faults>>
          /\ proc' = [proc EXCEPT ![a] = Idle] /\ ~At(a, "idle")
        BY <1>10 DEF DemandLetter
    <2>2. letter' \in [Deals -> Nat]
        BY <1>1, <1>2, <1>10 DEF DemandLetter
    <2> HIDE DEF ProcOK, Checked
    <2> QED BY <1>2, <1>3, <2>1, <2>2, IdleOK, GoesOn
<1>11. CASE Attach(a)
    <2> DEFINE y == [x EXCEPT !.pc = "row"]
    <2>1. x.pc = "attach" /\ x.deal \in Deals /\ x.row = 0 /\ ~At(a, "idle")
        BY <1>1, <1>11 DEF Attach
    <2>2. 0 < Len(Schedule(x.plan))
        BY <1>1, Schedules
    <2>3. ProcOK(y) /\ (~overlapped => Checked(y, stage))
        BY <1>1, <2>1, <2>2
    <2>4. /\ planOf' = [planOf EXCEPT ![x.deal] = x.plan]
          /\ UNCHANGED <<status, stage, unitOf, payments, letter, overlapped, requests, faults>>
          /\ proc' = [proc EXCEPT ![a] = y]
        BY <1>1, <1>11 DEF Attach, Goto
    <2>5. planOf' \in [Deals -> Plans \cup {NoPlan}]
        BY <1>1, <1>2, <2>1, <2>4
    <2> HIDE DEF y, ProcOK, Checked
    <2> QED BY <1>2, <1>3, <2>1, <2>3, <2>4, <2>5, GoesOn
<1>12. CASE SetStatus(a)
    <2>1. /\ UNCHANGED <<stage, unitOf, planOf, payments, letter, overlapped, requests, faults>>
          /\ proc' = [proc EXCEPT ![a] = Idle] /\ ~At(a, "idle")
          /\ status' = [status EXCEPT ![x.unit] = x.to]
        BY <1>1, <1>12 DEF SetStatus
    <2>2. status' \in [Units -> Statuses]
        BY <1>1, <1>2, <2>1
    <2> HIDE DEF ProcOK, Checked
    <2> QED BY <1>2, <1>3, <2>1, <2>2, IdleOK, GoesOn
<1>13. CASE Fail(a)
    <2>1. faults < MaxFaults /\ faults' = faults + 1
        BY <1>13 DEF Fail
    <2>2. faults' \in 0..MaxFaults
        BY <1>2, <2>1
    <2>3. /\ UNCHANGED <<status, stage, unitOf, planOf, payments, letter, overlapped, requests>>
          /\ ~At(a, "idle") /\ proc' = [proc EXCEPT ![a] = Idle]
        BY <1>13 DEF Fail
    <2> HIDE DEF ProcOK, Checked
    <2> QED BY <1>2, <1>3, <2>2, <2>3, IdleOK, GoesOn
<1> QED BY <1>4, <1>5, <1>6, <1>7, <1>8, <1>9, <1>10, <1>11, <1>12, <1>13 DEF Step

-----------------------------------------------------------------------------
(* Types, and stages *)

LEMMA InitIInv == Init => IInv
<1> SUFFICES ASSUME Init PROVE IInv
    OBVIOUS
<1>1. Idle \in Action /\ Idle.pc = "idle"
    BY DEF Idle, Action, Statuses
<1>2. TypeOK
    <2>1. "INQUIRY" \in Stages
        BY RankOf
    <2>2. requests \in 0..MaxRequests /\ faults \in 0..MaxFaults
        BY BoundAssumption DEF Init
    <2>3. \A a \in Agents : proc[a].pc \in Writing => proc[a].unit # Null
        BY <1>1 DEF Init, Writing
    <2>4. payments \in [Deals -> Seq(Nat)] /\ letter \in [Deals -> Nat]
        BY DEF Init
    <2> QED BY <1>1, <2>1, <2>2, <2>3, <2>4 DEF Init, TypeOK
<1>3. ProcInv /\ CheckedInv
    BY IdleOK DEF Init, ProcInv, CheckedInv
<1>4. UnitInv /\ AloneInv
    BY <1>1 DEF Init, UnitInv, AloneInv, At
<1> QED BY <1>2, <1>3, <1>4 DEF IInv

LEMMA NextIInv == IInv /\ [Next]_vars => IInv'
<1> SUFFICES ASSUME IInv, [Next]_vars PROVE IInv'
    OBVIOUS
<1>1. CASE Next
    BY <1>1, Begins, Steps DEF Next
<1>2. CASE UNCHANGED vars
    BY <1>2 DEF vars, IInv, TypeOK, ProcInv, UnitInv, AloneInv, CheckedInv, At
<1> QED BY <1>1, <1>2

LEMMA Invariance == Spec => []IInv
BY InitIInv, NextIInv, PTL DEF Spec

\* Every reachable state has the declared types: no request, however it
\* interleaves or fails, writes a unit it does not have.
THEOREM TypeCorrect == Spec => []TypeOK
<1>1. IInv => TypeOK
    BY DEF IInv
<1> QED BY <1>1, Invariance, PTL

\* While people act one after the other, no hold, confirmation, plan, change of
\* status or failure moves a deal's stage backward.
THEOREM StagesGoForward == Spec => ForwardOnly
<1> DEFINE Forward == \A d \in Deals : Rank(stage'[d]) >= Rank(stage[d])
<1>1. ASSUME IInv, [Next]_vars, ~overlapped' PROVE Forward
    <2>1. stage \in [Deals -> Stages] /\ ~overlapped
        BY <1>1, BoundAssumption
           DEF IInv, TypeOK, Next, StartHold, StartBooking, StartAttach, StartStatus, Begin,
               Step, HoldUnit, HoldDeal, ReadDeal, BookUnit, BookDeal, CreatePayment,
               DemandLetter, Attach, SetStatus, Fail, bounds, vars
    <2>2. CASE UNCHANGED stage
        BY <2>1, <2>2, RankOf
    <2>3. ASSUME NEW a \in Agents, HoldDeal(a) PROVE Forward
        <3>1. /\ stage' = [stage EXCEPT ![proc[a].deal] = "HOLD"]
              /\ MayEnter(stage[proc[a].deal], "HOLD")
            BY <1>1, <2>1, <2>3 DEF HoldDeal, IInv, CheckedInv, Checked, At, Holding
        <3> QED BY <2>1, <3>1, RankOf DEF MayEnter, canTransition
    <2>4. ASSUME NEW a \in Agents, BookDeal(a) PROVE Forward
        <3>1. /\ stage' = [stage EXCEPT ![proc[a].deal] = "BOOKING"]
              /\ MayEnter(stage[proc[a].deal], "BOOKING")
            BY <1>1, <2>1, <2>4 DEF BookDeal, IInv, CheckedInv, Checked, At, Confirming
        <3> QED BY <2>1, <3>1, RankOf DEF MayEnter, canTransition
    <2>5. UNCHANGED stage \/ \E a \in Agents : HoldDeal(a) \/ BookDeal(a)
        BY <1>1 DEF Next, StartHold, StartBooking, StartAttach, StartStatus,
               Step, HoldUnit, ReadDeal, BookUnit, CreatePayment,
               DemandLetter, Attach, SetStatus, Fail, deal, vars
    <2> QED BY <2>2, <2>3, <2>4, <2>5
<1>2. IInv /\ [Next]_vars => [~overlapped' => Forward]_vars
    BY <1>1
<1> QED BY <1>2, Invariance, PTL DEF Spec, ForwardOnly

-----------------------------------------------------------------------------
(* Booked deals and their units *)

Sealed == {"BOOKED", "SOLD"}

\* What x has read of the units' statuses st and the deals' units un still holds.
Read(x, st, un) ==
    /\ x.pc \in {"bookUnit", "bookDeal"} => un[x.deal] \in {Null, x.unit}
    /\ x.pc = "bookDeal" => st[x.unit] \in Sealed
    /\ x.pc = "setStatus" => Allowed(st[x.unit], x.to)

DealsHeld ==
    \A d \in Deals :
        stage[d] = "BOOKING" => unitOf[d] # Null /\ status[unitOf[d]] \in Sealed

BookInv ==
    ~overlapped => DealsHeld /\ \A a \in Agents : Read(proc[a], status, unitOf)

LEMMA BookMoves ==
    ASSUME IInv, ~overlapped', NEW a \in Agents, NEW x,
           proc' = [proc EXCEPT ![a] = x],
           \/ ~At(a, "idle") /\ overlapped' = overlapped
           \/ overlapped' = (overlapped \/ \E b \in Agents : ~At(b, "idle")),
           Read(x, status', unitOf'), DealsHeld'
    PROVE  BookInv'
<1>1. proc \in [Agents -> Action] /\ overlapped \in BOOLEAN
    BY DEF IInv, TypeOK
<1>2. proc'[a] = x /\ \A b \in Agents \ {a} : proc'[b] = proc[b] /\ proc[b].pc = "idle"
    BY <1>1 DEF IInv, AloneInv, At
<1>3. \A b \in Agents : Read(proc'[b], status', unitOf')
    BY <1>2 DEF Read
<1> QED BY <1>3 DEF BookInv

LEMMA StaysSealed ==
    \A s \in Statuses, t \in Statuses : s \in Sealed /\ Allowed(s, t) => t \in Sealed
BY DEF Statuses, Sealed, Allowed, ALLOWED

LEMMA NextBookInv ==
    ASSUME Disjoint, IInv, BookInv, [Next]_vars
    PROVE  BookInv'
<1> SUFFICES ASSUME ~overlapped' PROVE BookInv'
    BY DEF BookInv
<1> USE DEF deal, bounds
<1>1. overlapped \in BOOLEAN /\ status \in [Units -> Statuses]
      /\ stage \in [Deals -> Stages] /\ unitOf \in [Deals -> Units \cup {Null}]
      /\ UnitInv /\ Idle.pc = "idle"
    BY DEF IInv, TypeOK, Idle
<1>2. ~overlapped
    BY <1>1 DEF Next, StartHold, StartBooking, StartAttach, StartStatus, Begin,
           Step, HoldUnit, HoldDeal, ReadDeal, BookUnit, BookDeal, CreatePayment,
           DemandLetter, Attach, SetStatus, Fail, vars
<1>3. DealsHeld /\ \A a \in Agents : Read(proc[a], status, unitOf)
    BY <1>2 DEF BookInv
<1>4. UNCHANGED <<status, stage, unitOf>> => DealsHeld'
    BY <1>3 DEF DealsHeld
<1>5. \A st, un : Read(Idle, st, un)
    BY <1>1 DEF Read
<1>6. \A a \in Agents : ProcOK(proc[a]) /\ Checked(proc[a], stage)
    BY <1>2 DEF IInv, ProcInv, CheckedInv
<1>7. ASSUME NEW a \in Agents, NEW x, Begin(a, x), Read(x, status, unitOf),
             UNCHANGED <<status, stage, unitOf>>
      PROVE  BookInv'
    BY <1>4, <1>7, BookMoves DEF Begin
<1>8. ASSUME NEW a \in Agents, NEW d \in Deals, NEW u, StartHold(a, d, u)
      PROVE  BookInv'
    <2> DEFINE x == [Idle EXCEPT !.pc = "holdUnit", !.deal = d, !.unit = u]
    <2>1. x.pc = "holdUnit"
        BY DEF Idle
    <2> HIDE DEF x
    <2> QED BY <1>7, <1>8, <2>1 DEF StartHold, x, Read
<1>9. ASSUME NEW a \in Agents, NEW d \in Deals, NEW u, NEW p, StartBooking(a, d, u, p)
      PROVE  BookInv'
    <2> DEFINE x == [Idle EXCEPT !.pc = "read", !.deal = d, !.unit = u, !.plan = p]
    <2>1. x.pc = "read"
        BY DEF Idle
    <2> HIDE DEF x
    <2> QED BY <1>7, <1>9, <2>1 DEF StartBooking, x, Read
<1>10. ASSUME NEW a \in Agents, NEW d \in Deals, NEW p, StartAttach(a, d, p)
      PROVE  BookInv'
    <2> DEFINE x == [Idle EXCEPT !.pc = "attach", !.deal = d, !.plan = p]
    <2>1. x.pc = "attach"
        BY DEF Idle
    <2> HIDE DEF x
    <2> QED BY <1>7, <1>10, <2>1 DEF StartAttach, x, Read
<1>11. ASSUME NEW a \in Agents, NEW u, NEW s, StartStatus(a, u, s)
      PROVE  BookInv'
    <2> DEFINE x == [Idle EXCEPT !.pc = "setStatus", !.unit = u, !.to = s]
    <2>1. x.pc = "setStatus" /\ x.unit = u /\ x.to = s
        BY DEF Idle
    <2> HIDE DEF x
    <2> QED BY <1>7, <1>11, <2>1 DEF StartStatus, x, Read
<1>12. ASSUME NEW a \in Agents, HoldUnit(a) PROVE BookInv'
    <2> DEFINE x == [proc[a] EXCEPT !.pc = "holdDeal"]
               u == proc[a].unit
    <2>1. /\ status' = [status EXCEPT ![u] = "HOLD"] /\ UNCHANGED <<stage, unitOf>>
          /\ proc' = [proc EXCEPT ![a] = x] /\ x.pc = "holdDeal"
          /\ proc[a].pc = "holdUnit" /\ overlapped' = overlapped
        BY <1>6, <1>12 DEF HoldUnit, At, Goto, ProcOK, Action
    <2>2. /\ proc[a].deal \in Deals /\ u \in Offered[proc[a].deal]
          /\ MayEnter(stage[proc[a].deal], "HOLD")
        BY <1>6, <2>1 DEF ProcOK, Checked, Holding
    <2>3. stage[proc[a].deal] # "BOOKING"
        BY <2>2, RankOf DEF MayEnter, canTransition
    <2>4. ASSUME NEW d \in Deals, stage[d] = "BOOKING"
          PROVE  unitOf[d] # Null /\ unitOf[d] # u /\ status[unitOf[d]] \in Sealed
        BY <1>1, <1>3, <2>2, <2>3, <2>4 DEF UnitInv, Disjoint, DealsHeld
    <2>5. DealsHeld'
        BY <1>1, <2>1, <2>4 DEF DealsHeld
    <2> HIDE DEF x
    <2>6. Read(x, status', unitOf')
        BY <2>1 DEF Read
    <2> QED BY <2>1, <2>5, <2>6, BookMoves DEF At
<1>13. ASSUME NEW a \in Agents, HoldDeal(a) PROVE BookInv'
    <2>1. /\ stage' = [stage EXCEPT ![proc[a].deal] = "HOLD"]
          /\ unitOf' = [unitOf EXCEPT ![proc[a].deal] = proc[a].unit]
          /\ UNCHANGED <<status, overlapped>>
          /\ proc' = [proc EXCEPT ![a] = Idle] /\ ~At(a, "idle")
        BY <1>13 DEF HoldDeal, At
    <2>2. DealsHeld'
        BY <1>1, <1>3, <2>1 DEF DealsHeld
    <2> QED BY <1>5, <2>1, <2>2, BookMoves
<1>14. ASSUME NEW a \in Agents, ReadDeal(a) PROVE BookInv'
    <2> DEFINE d == proc[a].deal
               u == IF unitOf[d] # Null THEN unitOf[d] ELSE proc[a].unit
               p == IF proc[a].plan # NoPlan THEN proc[a].plan ELSE planOf[d]
               x == [proc[a] EXCEPT !.pc = "bookUnit", !.unit = u, !.plan = p]
    <2>1. /\ UNCHANGED <<status, stage, unitOf, overlapped>> /\ ~At(a, "idle")
          /\ proc' = [proc EXCEPT ![a] = x]
        BY <1>14 DEF ReadDeal, At
    <2>2. x.pc = "bookUnit" /\ x.deal = d /\ x.unit = u
        BY <1>6 DEF ProcOK, Action
    <2>3. unitOf[d] \in {Null, u}
        OBVIOUS
    <2> HIDE DEF x, u, d
    <2> QED BY <1>4, <2>1, <2>2, <2>3, BookMoves DEF Read
<1>15. ASSUME NEW a \in Agents, BookUnit(a) PROVE BookInv'
    <2> DEFINE x == [proc[a] EXCEPT !.pc = "bookDeal"]
               u == proc[a].unit
    <2>1. /\ status' = [status EXCEPT ![u] = "BOOKED"] /\ UNCHANGED <<stage, unitOf>>
          /\ proc' = [proc EXCEPT ![a] = x]
          /\ proc[a].pc = "bookUnit" /\ overlapped' = overlapped
        BY <1>15 DEF BookUnit, At, Goto
    <2>2. x.pc = "bookDeal" /\ x.deal = proc[a].deal /\ x.unit = u
        BY <1>6 DEF ProcOK, Action
    <2>3. u \in Units /\ unitOf[proc[a].deal] \in {Null, u}
        BY <1>3, <1>6, <2>1, DealAssumption DEF ProcOK, Confirming, Read
    <2>4. DealsHeld'
        BY <1>1, <1>3, <2>1 DEF DealsHeld, Sealed
    <2> HIDE DEF x
    <2>5. Read(x, status', unitOf')
        BY <1>1, <2>1, <2>2, <2>3 DEF Read, Sealed
    <2> QED BY <2>1, <2>4, <2>5, BookMoves DEF At
<1>16. ASSUME NEW a \in Agents, BookDeal(a) PROVE BookInv'
    <2> DEFINE x == [proc[a] EXCEPT !.pc = "row"]
               u == proc[a].unit
               d == proc[a].deal
    <2>1. /\ stage' = [stage EXCEPT ![d] = "BOOKING"] /\ unitOf' = [unitOf EXCEPT ![d] = u]
          /\ UNCHANGED <<status, overlapped>>
          /\ proc' = [proc EXCEPT ![a] = x] /\ proc[a].pc = "bookDeal"
        BY <1>16 DEF BookDeal, At, Goto
    <2>2. x.pc = "row"
        BY <1>6 DEF ProcOK, Action
    <2>3. u # Null /\ status[u] \in Sealed
        BY <1>3, <1>6, <2>1 DEF ProcOK, Writing, Read
    <2>4. DealsHeld'
        BY <1>1, <1>3, <2>1, <2>3 DEF DealsHeld
    <2> HIDE DEF x
    <2>5. Read(x, status', unitOf')
        BY <2>2 DEF Read
    <2> QED BY <2>1, <2>4, <2>5, BookMoves DEF At
<1>17. ASSUME NEW a \in Agents, CreatePayment(a) \/ Attach(a) \/ DemandLetter(a) \/ Fail(a)
       PROVE  BookInv'
    <2>1. UNCHANGED <<status, stage, unitOf, overlapped>> /\ ~At(a, "idle")
        BY <1>17 DEF CreatePayment, Attach, DemandLetter, Fail, At
    <2>2. \E x : proc' = [proc EXCEPT ![a] = x] /\ x.pc \in {"idle", "row", "letter"}
        <3>1. proc[a] \in Action
            BY <1>6 DEF ProcOK
        <3>2. CASE CreatePayment(a)
            BY <1>1, <3>1, <3>2 DEF CreatePayment, At, Action
        <3>3. CASE Attach(a)
            <4> DEFINE x == [proc[a] EXCEPT !.pc = "row"]
            <4>1. proc' = [proc EXCEPT ![a] = x] /\ x.pc = "row"
                BY <3>1, <3>3 DEF Attach, Goto, Action
            <4> QED BY <4>1
        <3>4. CASE DemandLetter(a) \/ Fail(a)
            BY <1>1, <3>4 DEF DemandLetter, Fail
        <3> QED BY <1>17, <3>2, <3>3, <3>4
    <2> QED BY <1>4, <2>1, <2>2, BookMoves DEF Read
<1>18. ASSUME NEW a \in Agents, SetStatus(a) PROVE BookInv'
    <2>1. /\ status' = [status EXCEPT ![proc[a].unit] = proc[a].to]
          /\ UNCHANGED <<stage, unitOf, overlapped>> /\ At(a, "setStatus") /\ ~At(a, "idle")
          /\ proc' = [proc EXCEPT ![a] = Idle]
        BY <1>18 DEF SetStatus, At
    <2>2. proc[a].to \in Statuses /\ Allowed(status[proc[a].unit], proc[a].to)
        BY <1>3, <1>6, <2>1 DEF ProcOK, Action, Read, At
    <2>3. DealsHeld'
        BY <1>1, <1>3, <2>1, <2>2, StaysSealed DEF DealsHeld
    <2> QED BY <1>5, <2>1, <2>3, BookMoves
<1>19. CASE UNCHANGED vars
    BY <1>3, <1>19 DEF vars, BookInv, DealsHeld
<1> QED BY <1>8, <1>9, <1>10, <1>11, <1>12, <1>13, <1>14, <1>15, <1>16, <1>17, <1>18, <1>19
        DEF Next, Step

\* While people act one after the other on units offered to one deal each, the
\* unit of a booked deal is BOOKED or SOLD, even if a call failed half-way.
THEOREM UnitsStayBooked ==
    ASSUME Disjoint
    PROVE  Spec => []BookedDealHoldsUnit
<1>1. Init => BookInv
    BY DEF Init, BookInv, DealsHeld, Read, Idle
<1>2. IInv /\ BookInv /\ [Next]_vars => BookInv'
    BY NextBookInv
<1>3. BookInv => BookedDealHoldsUnit
    BY DEF BookInv, BookedDealHoldsUnit, DealsHeld, Sealed
<1> QED BY <1>1, <1>2, <1>3, Invariance, PTL DEF Spec

-----------------------------------------------------------------------------
(* Schedules.  Whoever writes a deal's plan creates the rows of that plan    *)
(* afterwards; rows are only ever added, so the ones created by now, by      *)
(* whomever, are at least those an action has got to.                        *)

\* How often x is among the first n of s.
UpTo(x, s, n) == Cardinality({i \in 1..n : s[i] = x})

RowsInv ==
    \A a \in Agents : At(a, "row") =>
        \A x \in Nat :
            UpTo(x, Schedule(proc[a].plan), proc[a].row) <= Times(x, payments[proc[a].deal])

Covers(d) == \A x \in Nat : Times(x, Schedule(planOf[d])) <= Times(x, payments[d])

Creating(a, d) == At(a, "row") /\ proc[a].deal = d /\ proc[a].plan = planOf[d]

PlannedInv ==
    faults = 0 =>
        \A d \in Deals : stage[d] = "BOOKING" => Covers(d) \/ \E a \in Agents : Creating(a, d)

LEMMA UpToStep ==
    ASSUME NEW x, NEW s, NEW n \in Nat
    PROVE  /\ UpTo(x, s, n) \in Nat
           /\ UpTo(x, s, 0) = 0
           /\ UpTo(x, s, n + 1) = IF s[n + 1] = x THEN UpTo(x, s, n) + 1 ELSE UpTo(x, s, n)
<1> DEFINE S == {i \in 1..n : s[i] = x}
           T == {i \in 1..(n + 1) : s[i] = x}
<1>1. IsFiniteSet(S) /\ Cardinality(S) \in Nat
    <2>1. IsFiniteSet(1..n)
        BY FS_Interval
    <2> QED BY <2>1, FS_Subset, FS_CardinalityType
<1>2. {i \in 1..0 : s[i] = x} = {}
    OBVIOUS
<1>3. n + 1 \notin S
    OBVIOUS
<1>4. T = IF s[n + 1] = x THEN S \cup {n + 1} ELSE S
    OBVIOUS
<1>5. Cardinality(T) = IF s[n + 1] = x THEN Cardinality(S) + 1 ELSE Cardinality(S)
    <2> HIDE DEF S, T
    <2> QED BY <1>1, <1>3, <1>4, FS_AddElement
<1> QED BY <1>1, <1>2, <1>5, FS_EmptySet DEF UpTo

LEMMA TimesUpTo ==
    ASSUME NEW x, NEW s \in Seq(Nat)
    PROVE  Times(x, s) = UpTo(x, s, Len(s)) /\ Times(x, s) \in Nat
<1>1. DOMAIN s = 1..Len(s) /\ Len(s) \in Nat
    OBVIOUS
<1>2. Times(x, s) = UpTo(x, s, Len(s))
    BY <1>1 DEF Times, UpTo
<1> QED BY <1>1, <1>2, UpToStep

LEMMA UpToNext ==
    ASSUME NEW x, NEW s, NEW t, NEW n \in Nat, \A i \in 1..n : t[i] = s[i]
    PROVE  UpTo(x, t, n + 1) = IF t[n + 1] = x THEN UpTo(x, s, n) + 1 ELSE UpTo(x, s, n)
<1>1. UpTo(x, t, n) = UpTo(x, s, n)
    <2>1. {i \in 1..n : t[i] = x} = {i \in 1..n : s[i] = x}
        OBVIOUS
    <2> QED BY <2>1 DEF UpTo
<1>2. UpTo(x, t, n + 1) = IF t[n + 1] = x THEN UpTo(x, t, n) + 1 ELSE UpTo(x, t, n)
    BY UpToStep
<1> QED BY <1>1, <1>2

LEMMA TimesAppend ==
    ASSUME NEW x, NEW s, NEW y, s \in Seq(Nat), y \in Nat
    PROVE  Times(x, Append(s, y)) = IF y = x THEN Times(x, s) + 1 ELSE Times(x, s)
<1>1. PICK t : t = Append(s, y)
    OBVIOUS
<1>2. PICK n \in Nat : n = Len(s)
    OBVIOUS
<1>3. t \in Seq(Nat) /\ Len(t) = n + 1 /\ t[n + 1] = y /\ \A i \in 1..n : t[i] = s[i]
    BY <1>1, <1>2
<1>4. Times(x, t) = UpTo(x, t, n + 1) /\ Times(x, s) = UpTo(x, s, n)
    BY <1>2, <1>3, TimesUpTo
<1>5. UpTo(x, t, n + 1) = IF t[n + 1] = x THEN UpTo(x, s, n) + 1 ELSE UpTo(x, s, n)
    <2>1. \A i \in 1..n : t[i] = s[i]
        BY <1>3
    <2> QED BY <2>1, UpToNext
<1> QED BY <1>1, <1>3, <1>4, <1>5

\* A step that creates no row, writes no plan and books no deal.
LEMMA PlanMoves ==
    ASSUME RowsInv, PlannedInv, NEW a \in Agents,
           \A b \in Agents : b # a => proc'[b] = proc[b],
           ~At(a, "row") \/ faults' # 0, proc'[a].pc # "row",
           UNCHANGED <<payments, planOf>>, faults' = 0 => faults = 0,
           \A d \in Deals : stage'[d] = "BOOKING" => stage[d] = "BOOKING"
    PROVE  RowsInv' /\ PlannedInv'
<1>1. RowsInv'
    <2> SUFFICES ASSUME NEW b \in Agents, proc'[b].pc = "row", NEW x \in Nat
                 PROVE  UpTo(x, Schedule(proc'[b].plan), proc'[b].row)
                            <= Times(x, payments[proc'[b].deal])
        BY DEF RowsInv, At
    <2>1. b # a /\ proc'[b] = proc[b]
        OBVIOUS
    <2> QED BY <2>1 DEF RowsInv, At
<1>2. PlannedInv'
    <2> SUFFICES ASSUME faults' = 0, NEW d \in Deals, stage'[d] = "BOOKING"
                 PROVE  Covers(d)' \/ \E b \in Agents : Creating(b, d)'
        BY DEF PlannedInv
    <2>1. CASE Covers(d)
        BY <2>1 DEF Covers
    <2>2. ASSUME NEW b \in Agents, Creating(b, d)
          PROVE  Creating(b, d)'
        BY <2>2 DEF Creating, At
    <2> QED BY <2>1, <2>2 DEF PlannedInv
<1> QED BY <1>1, <1>2

LEMMA PlanBegins ==
    ASSUME IInv, RowsInv, PlannedInv, NEW a \in Agents,
           \/ \E d \in Deals :
                \/ \E u \in Offered[d] : StartHold(a, d, u)
                \/ \E u \in Offered[d], p \in Plans \cup {NoPlan} : StartBooking(a, d, u, p)
                \/ \E p \in Plans : StartAttach(a, d, p)
           \/ \E u \in Units, s \in Statuses : StartStatus(a, u, s)
    PROVE  RowsInv' /\ PlannedInv'
<1>1. proc \in [Agents -> Action]
    BY DEF IInv, TypeOK
<1>2. At(a, "idle") /\ UNCHANGED <<stage, planOf, payments, faults>>
    BY DEF StartHold, StartBooking, StartAttach, StartStatus, Begin, deal
<1>3. \E x : x.pc # "row" /\ proc' = [proc EXCEPT ![a] = x]
    BY DEF StartHold, StartBooking, StartAttach, StartStatus, Begin, Idle
<1>4. (\A b \in Agents : b # a => proc'[b] = proc[b]) /\ proc'[a].pc # "row"
    BY <1>1, <1>3
<1> QED BY <1>2, <1>4, PlanMoves DEF At

LEMMA PlanQuiet ==
    ASSUME IInv, RowsInv, PlannedInv, NEW a \in Agents,
           \/ HoldUnit(a) \/ HoldDeal(a) \/ ReadDeal(a) \/ BookUnit(a)
           \/ DemandLetter(a) \/ SetStatus(a) \/ Fail(a)
    PROVE  RowsInv' /\ PlannedInv'
<1>1. proc \in [Agents -> Action] /\ proc[a] \in Action /\ faults \in Nat
    BY BoundAssumption DEF IInv, TypeOK
<1>2. UNCHANGED <<planOf, payments>> /\ (At(a, "row") => Fail(a))
    BY DEF HoldUnit, HoldDeal, ReadDeal, BookUnit, DemandLetter, SetStatus, Fail, deal, At
<1>3. faults' = IF Fail(a) THEN faults + 1 ELSE faults
    BY <1>1 DEF HoldUnit, HoldDeal, ReadDeal, BookUnit, DemandLetter, SetStatus, Fail, bounds
<1>4. \A d \in Deals : stage'[d] = "BOOKING" => stage[d] = "BOOKING"
    BY DEF HoldUnit, HoldDeal, ReadDeal, BookUnit, DemandLetter, SetStatus, Fail, deal,
           IInv, TypeOK
<1>5. /\ \A b \in Agents : b # a => proc'[b] = proc[b]
      /\ proc'[a].pc # "row"
    <2>1. CASE HoldDeal(a) \/ DemandLetter(a) \/ SetStatus(a) \/ Fail(a)
        BY <1>1, <2>1 DEF HoldDeal, DemandLetter, SetStatus, Fail, Idle
    <2>2. CASE HoldUnit(a) \/ BookUnit(a)
        BY <1>1, <2>2 DEF HoldUnit, BookUnit, Goto, Action
    <2>3. CASE ReadDeal(a)
        BY <1>1, <2>3 DEF ReadDeal, Action
    <2> QED BY <2>1, <2>2, <2>3
<1>6. (~At(a, "row") \/ faults' # 0) /\ (faults' = 0 => faults = 0)
    BY <1>1, <1>2, <1>3
<1> QED BY <1>2, <1>4, <1>5, <1>6, PlanMoves

\* Whoever writes the plan of a deal creates its rows next.
LEMMA PlanWritten ==
    ASSUME IInv, RowsInv, PlannedInv, NEW a \in Agents, BookDeal(a) \/ Attach(a)
    PROVE  RowsInv' /\ PlannedInv'
<1> DEFINE d == proc[a].deal
<1>1. /\ proc \in [Agents -> Action] /\ proc[a] \in Action /\ d \in Deals
      /\ proc[a].row = 0 /\ ~At(a, "row")
      /\ planOf \in [Deals -> Plans \cup {NoPlan}] /\ stage \in [Deals -> Stages]
    BY DEF IInv, TypeOK, ProcInv, ProcOK, BookDeal, Attach, At, Confirming, Scheduling
<1>2. /\ proc' = [proc EXCEPT ![a].pc = "row"]
      /\ planOf' = [planOf EXCEPT ![d] = proc[a].plan]
      /\ UNCHANGED <<payments, faults>>
    BY DEF BookDeal, Attach, Goto, bounds
<1>3. /\ \A b \in Agents : b # a => proc'[b] = proc[b]
      /\ proc'[a].pc = "row" /\ proc'[a].deal = d
      /\ proc'[a].plan = proc[a].plan /\ proc'[a].row = 0
    BY <1>1, <1>2 DEF Action
<1>4. \A e \in Deals : e # d => planOf'[e] = planOf[e] /\ stage'[e] = stage[e]
    BY <1>1, <1>2 DEF BookDeal, Attach
<1>5. planOf'[d] = proc[a].plan
    BY <1>1, <1>2
<1>6. PICK c \in Deals : c = d
    BY <1>1
<1>7. RowsInv'
    <2> SUFFICES ASSUME NEW b \in Agents, proc'[b].pc = "row", NEW x \in Nat
                 PROVE  UpTo(x, Schedule(proc'[b].plan), proc'[b].row)
                            <= Times(x, payments[proc'[b].deal])
        BY <1>2 DEF RowsInv, At
    <2>1. CASE b = a
        <3>1. UpTo(x, Schedule(proc'[b].plan), 0) = 0
            BY UpToStep
        <3>2. payments[c] \in Seq(Nat)
            BY DEF IInv, TypeOK
        <3>3. Times(x, payments[c]) \in Nat
            BY <3>2, TimesUpTo
        <3> QED BY <1>3, <1>6, <2>1, <3>1, <3>3
    <2>2. CASE b # a
        BY <1>3, <2>2 DEF RowsInv, At
    <2> QED BY <2>1, <2>2
<1>8. PlannedInv'
    <2> SUFFICES ASSUME faults' = 0, NEW e \in Deals, stage'[e] = "BOOKING"
                 PROVE  Covers(e)' \/ \E b \in Agents : Creating(b, e)'
        BY DEF PlannedInv
    <2>1. CASE e = c
        <3>1. Creating(a, e)'
            BY <1>3, <1>5, <1>6, <2>1 DEF Creating, At
        <3> QED BY <3>1
    <2>2. CASE e # c
        <3>1. planOf'[e] = planOf[e] /\ stage'[e] = stage[e]
            BY <1>4, <1>6, <2>2
        <3>2. CASE Covers(e)
            BY <1>2, <3>1, <3>2 DEF Covers
        <3>3. ASSUME NEW b \in Agents, Creating(b, e)
              PROVE  Creating(b, e)'
            <4>1. b # a
                BY <1>1, <3>3 DEF Creating
            <4> QED BY <1>3, <3>1, <3>3, <4>1 DEF Creating, At
        <3> QED BY <1>2, <3>1, <3>2, <3>3 DEF PlannedInv
    <2> QED BY <2>1, <2>2
<1> QED BY <1>7, <1>8

\* One more row: the schedule of the action has got one further, and so have
\* the deal's rows.
LEMMA PlanRow ==
    ASSUME IInv, RowsInv, PlannedInv, NEW a \in Agents, CreatePayment(a)
    PROVE  RowsInv' /\ PlannedInv'
<1>1. PICK d \in Deals : d = proc[a].deal
    BY DEF IInv, ProcInv, ProcOK, CreatePayment, At, Scheduling
<1>2. PICK p \in Plans \cup {NoPlan} : p = proc[a].plan
    BY DEF IInv, TypeOK, Action
<1>3. PICK m \in Nat : m = proc[a].row
    BY DEF IInv, TypeOK, Action
<1>4. /\ proc \in [Agents -> Action] /\ proc[a] \in Action /\ At(a, "row")
      /\ payments \in [Deals -> Seq(Nat)] /\ m < Len(Schedule(p))
      /\ UNCHANGED <<stage, planOf, faults>>
    BY <1>2, <1>3 DEF IInv, TypeOK, ProcInv, ProcOK, CreatePayment, At, deal, bounds
<1>5. PICK s : s = Schedule(p)
    OBVIOUS
<1>6. s \in Seq(Nat) /\ Len(s) \in Nat /\ m + 1 \in 1..Len(s) /\ s[m + 1] \in Nat
    <2>1. s \in Seq(Nat) /\ m < Len(s)
        BY <1>4, <1>5, Schedules
    <2> QED BY <2>1
<1>7. /\ payments' = [payments EXCEPT ![d] = Append(@, s[m + 1])]
      /\ proc' = [proc EXCEPT ![a] =
                    IF m + 1 < Len(s) THEN [@ EXCEPT !.row = m + 1]
                    ELSE IF proc[a].unit = Null THEN Idle
                    ELSE [@ EXCEPT !.row = m + 1, !.pc = "letter"]]
    BY <1>1, <1>2, <1>3, <1>5 DEF CreatePayment
<1>8. payments'[d] = Append(payments[d], s[m + 1]) /\ payments[d] \in Seq(Nat)
    BY <1>4, <1>7
<1>9. ASSUME NEW x \in Nat, NEW e \in Deals
      PROVE  /\ Times(x, payments[e]) \in Nat /\ Times(x, payments'[e]) \in Nat
             /\ Times(x, payments[e]) <= Times(x, payments'[e])
             /\ e = d => Times(x, payments'[e]) = IF s[m + 1] = x THEN Times(x, payments[e]) + 1
                                                  ELSE Times(x, payments[e])
    <2>1. Times(x, payments[e]) \in Nat /\ payments[e] \in Seq(Nat)
        BY <1>4, TimesUpTo
    <2>2. CASE e = d
        <3>1. Times(x, Append(payments[d], s[m + 1])) =
                  IF s[m + 1] = x THEN Times(x, payments[d]) + 1 ELSE Times(x, payments[d])
            BY <1>6, <1>8, TimesAppend
        <3>2. /\ Times(x, payments'[e]) = Times(x, Append(payments[d], s[m + 1]))
              /\ Times(x, payments[e]) = Times(x, payments[d])
            BY <1>8, <2>2
        <3> QED BY <2>1, <3>1, <3>2
    <2>3. CASE e # d
        <3>1. payments'[e] = payments[e]
            BY <1>4, <1>7, <2>3
        <3> QED BY <2>1, <2>3, <3>1
    <2> QED BY <2>2, <2>3
<1>10. ASSUME NEW x \in Nat
       PROVE  UpTo(x, s, m + 1) <= Times(x, payments'[d])
    <2>1. UpTo(x, s, m) <= Times(x, payments[d])
        BY <1>1, <1>2, <1>3, <1>4, <1>5 DEF RowsInv
    <2>2. /\ UpTo(x, s, m) \in Nat
          /\ UpTo(x, s, m + 1) = IF s[m + 1] = x THEN UpTo(x, s, m) + 1 ELSE UpTo(x, s, m)
        BY UpToStep
    <2> QED BY <1>9, <2>1, <2>2
<1>11. \A b \in Agents : b # a => proc'[b] = proc[b]
    BY <1>4, <1>7
<1>12. \/ /\ m + 1 < Len(s) /\ proc'[a].pc = "row" /\ proc'[a].row = m + 1
          /\ proc'[a].deal = d /\ proc'[a].plan = p
       \/ m + 1 = Len(s) /\ proc'[a].pc # "row"
    <2>1. CASE m + 1 < Len(s)
        <3>1. proc' = [proc EXCEPT ![a] = [@ EXCEPT !.row = m + 1]]
            BY <1>7, <2>1
        <3> QED BY <1>1, <1>2, <1>4, <2>1, <3>1 DEF Action, At
    <2>2. CASE ~(m + 1 < Len(s))
        <3>1. m + 1 = Len(s)
            BY <1>6, <2>2
        <3>2. proc'[a] = IF proc[a].unit = Null THEN Idle
                         ELSE [proc[a] EXCEPT !.row = m + 1, !.pc = "letter"]
            BY <1>4, <1>7, <2>2
        <3> QED BY <1>4, <3>1, <3>2 DEF Action, Idle
    <2> QED BY <2>1, <2>2
<1>13. RowsInv'
    <2> SUFFICES ASSUME NEW b \in Agents, proc'[b].pc = "row", NEW x \in Nat
                 PROVE  UpTo(x, Schedule(proc'[b].plan), proc'[b].row)
                            <= Times(x, payments'[proc'[b].deal])
        BY DEF RowsInv, At
    <2>1. CASE b = a
        BY <1>5, <1>10, <1>12, <2>1
    <2>2. CASE b # a
        <3>1. proc'[b] = proc[b] /\ proc[b].pc = "row"
            BY <1>11, <2>2
        <3>2. PICK e \in Deals : e = proc[b].deal
            BY <3>1 DEF IInv, ProcInv, ProcOK, Scheduling
        <3>3. PICK k \in Nat : k = proc[b].row
            BY DEF IInv, TypeOK, Action
        <3>4. UpTo(x, Schedule(proc[b].plan), k) <= Times(x, payments[e])
            BY <3>1, <3>2, <3>3 DEF RowsInv, At
        <3>5. UpTo(x, Schedule(proc[b].plan), k) \in Nat
            BY UpToStep
        <3>6. UpTo(x, Schedule(proc[b].plan), k) <= Times(x, payments'[e])
            BY <1>9, <3>4, <3>5
        <3> QED BY <3>1, <3>2, <3>3, <3>6
    <2> QED BY <2>1, <2>2
<1>14. PlannedInv'
    <2> SUFFICES ASSUME faults' = 0, NEW e \in Deals, stage'[e] = "BOOKING"
                 PROVE  Covers(e)' \/ \E b \in Agents : Creating(b, e)'
        BY DEF PlannedInv
    <2>1. CASE Covers(e)
        <3>1. planOf[e] \in Plans \cup {NoPlan}
            BY DEF IInv, TypeOK
        <3>2. \A x \in Nat : Times(x, Schedule(planOf[e])) \in Nat
            BY <3>1, Schedules, TimesUpTo
        <3>3. \A x \in Nat : Times(x, Schedule(planOf[e])) <= Times(x, payments'[e])
            BY <1>9, <2>1, <3>2 DEF Covers
        <3> QED BY <1>4, <3>3 DEF Covers
    <2>2. ASSUME NEW b \in Agents, Creating(b, e), b # a
          PROVE  Creating(b, e)'
        BY <1>4, <1>11, <2>2 DEF Creating, At
    <2>3. CASE Creating(a, e)
        <3>1. e = d /\ p = planOf[e]
            BY <1>1, <1>2, <2>3 DEF Creating
        <3>2. CASE proc'[a].pc = "row"
            BY <1>4, <1>12, <3>1, <3>2 DEF Creating, At
        <3>3. CASE proc'[a].pc # "row"
            <4>1. \A x \in Nat : Times(x, s) = UpTo(x, s, m + 1)
                BY <1>6, <1>12, <3>3, TimesUpTo
            <4> QED BY <1>4, <1>5, <1>10, <3>1, <4>1 DEF Covers
        <3> QED BY <3>2, <3>3
    <2> QED BY <1>4, <2>1, <2>2, <2>3 DEF PlannedInv
<1> QED BY <1>13, <1>14

\* Once nobody is working on it, a deal at BOOKING has a payment row for every
\* milestone of the plan it ended up with, however the bookings, holds and
\* plans of any number of people interleaved, if none of them failed.
THEOREM BookedDealsAreScheduled == Spec => []BookedHasSchedule
<1>1. Init => RowsInv /\ PlannedInv
    BY DEF Init, RowsInv, PlannedInv, At, Idle
<1>2. IInv /\ RowsInv /\ PlannedInv /\ [Next]_vars => RowsInv' /\ PlannedInv'
    <2> SUFFICES ASSUME IInv, RowsInv, PlannedInv, [Next]_vars PROVE RowsInv' /\ PlannedInv'
        OBVIOUS
    <2>1. CASE UNCHANGED vars
        BY <2>1 DEF vars, RowsInv, PlannedInv, Covers, Creating, At
    <2>2. CASE Next
        BY <2>2, PlanBegins, PlanQuiet, PlanWritten, PlanRow DEF Next, Step
    <2> QED BY <2>1, <2>2
<1>3. IInv /\ PlannedInv => BookedHasSchedule
    <2> SUFFICES ASSUME IInv, PlannedInv, NEW d \in Deals, stage[d] = "BOOKING", ~UnderWay(d),
                        faults = 0, NEW pct \in ToSet(Schedule(planOf[d]))
                 PROVE  Times(pct, payments[d]) >= Times(pct, Schedule(planOf[d]))
        BY DEF BookedHasSchedule
    <2>1. Covers(d)
        BY DEF PlannedInv, Creating, UnderWay
    <2>2. planOf[d] \in Plans \cup {NoPlan} /\ payments[d] \in Seq(Nat)
        BY DEF IInv, TypeOK
    <2>3. Schedule(planOf[d]) \in Seq(Nat)
        BY <2>2, Schedules
    <2>4. pct \in Nat
        BY <2>3 DEF ToSet
    <2>5. Times(pct, payments[d]) \in Nat /\ Times(pct, Schedule(planOf[d])) \in Nat
        BY <2>2, <2>3, TimesUpTo
    <2> QED BY <2>1, <2>4, <2>5 DEF Covers
<1> QED BY <1>1, <1>2, <1>3, Invariance, PTL DEF Spec

=============================================================================
