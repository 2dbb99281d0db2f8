-------------------------- MODULE WorkspaceProofs --------------------------
(***************************************************************************)
(* A workspace's seats and its settings document.  Of SeatAdmission: the   *)
(* seat cap, and the admissions through one invite, for any number of      *)
(* people, invites, concurrent requests and plans.  Of SettingsDocument:   *)
(* its types, that the last write of a field stands but for a race, that   *)
(* the script keeps a secret and that the timeline is complete, for any    *)
(* number of writers, requests and faults.                                 *)
(***************************************************************************)
EXTENDS SeatAdmission, SettingsDocument, FiniteSetTheorems, TLAPS

\* The advisory lock is held by the one request that is inside it.
LockInv == \A r \in Requests : proc[r].pc \in Locked <=> lock = r

\* The row a request is about: not there yet, or there once.
RowOK(r) ==
    proc[r].pc # "idle" =>
        /\ proc[r].invite \in Invites
        /\ proc[r].kind = "invite" => proc[r].pc \notin {"already", "settle"}
        /\ proc[r].kind # "invite" =>
             /\ proc[r].user \in Users
             /\ invite[proc[r].invite] # "absent"

\* What a request has read, against what is stored by now.
CountOK(r) ==
    /\ proc[r].pc \in {"members", "pending", "create"} => proc[r].max <= peak
    /\ proc[r].pc \in {"pending", "create"}
         => Cardinality(members) <= proc[r].members
    /\ proc[r].pc = "create"
         => proc[r].members + OtherReservations(r) < proc[r].max

RequestInv == \A r \in Requests : RowOK(r) /\ CountOK(r)

PeakInv == plan <= peak

IInv == TypeOK /\ LockInv /\ RequestInv /\ PeakInv /\ SeatCap

\* Seats are only given back, and the largest plan only grows.
Shrinking ==
    /\ members' \subseteq members
    /\ Reserved' \subseteq Reserved
    /\ peak <= peak'
    /\ plan' <= peak'

\* A row of WorkspaceInvite does not become one that never was.
RowsStay == \A i \in Invites : invite[i] # "absent" => invite'[i] # "absent"

-----------------------------------------------------------------------------
LEMMA TypeInit == Init => TypeOK
BY PeopleAssumption DEF Init, TypeOK, Idle, Request, Kinds, Phases

LEMMA TypeStep ==
    ASSUME TypeOK, RequestInv, [Next]_vars
    PROVE  TypeOK'
<1> USE DEF Request, Kinds, Phases, Locked
<1>1. Idle \in Request
    BY DEF Idle
<1>2. IsFiniteSet(members)
    BY PeopleAssumption, FS_Subset DEF TypeOK
<1>3. Cardinality(members) \in Nat
    BY <1>2, FS_CardinalityType
<1>4. ASSUME NEW r \in Requests, End(r)
      PROVE  lock' \in Requests \cup {Null} /\ proc' \in [Requests -> Request]
    BY <1>1, <1>4 DEF End, TypeOK
<1>5. ASSUME NEW r \in Requests, NEW i \in Invites, StartInvite(r, i)
      PROVE  TypeOK'
    <2> DEFINE new == [Idle EXCEPT !.pc = "lock", !.invite = i]
    <2>1. new \in Request
        BY <1>1
    <2>2. proc' = [proc EXCEPT ![r] = new]
        BY <1>5 DEF StartInvite
    <2>3. UNCHANGED <<stores, outside, lock>>
        BY <1>5, Zenon DEF StartInvite
    <2> HIDE DEF new
    <2> QED
        BY <2>1, <2>2, <2>3 DEF TypeOK, stores, outside
<1>6. ASSUME NEW r \in Requests, NEW i \in Invites, NEW u \in Users,
             StartAccept(r, i, u) \/ StartSignup(r, i, u)
      PROVE  TypeOK'
    <2>1. PICK new \in Request : proc' = [proc EXCEPT ![r] = new]
        <3>1. [Idle EXCEPT !.pc = "already", !.kind = "accept", !.invite = i,
                           !.user = u] \in Request
            BY <1>1
        <3>2. [Idle EXCEPT !.pc = "lock", !.kind = "signup", !.invite = i,
                           !.user = u] \in Request
            BY <1>1
        <3> QED
            BY <1>6, <3>1, <3>2, Zenon DEF StartAccept, StartSignup
    <2>2. UNCHANGED <<stores, outside, lock>>
        BY <1>6, Zenon DEF StartAccept, StartSignup
    <2> QED
        BY <2>1, <2>2 DEF TypeOK, stores, outside
<1>7. ASSUME NEW r \in Requests, FindMember(r) \/ Lock(r)
      PROVE  TypeOK'
    BY <1>7 DEF FindMember, Lock, Goto, TypeOK, stores, outside
<1>8. ASSUME NEW r \in Requests, ReadPlan(r) \/ CountMembers(r)
      PROVE  TypeOK'
    <2>1. proc[r] \in Request /\ plan \in Nat
        BY PlanAssumption DEF TypeOK
    <2>2. PICK new \in Request : proc' = [proc EXCEPT ![r] = new]
        <3>1. [proc[r] EXCEPT !.max = plan, !.pc = "members"] \in Request
            BY <2>1
        <3>2. [proc[r] EXCEPT !.members = Cardinality(members), !.pc = "pending"]
                \in Request
            BY <1>3, <2>1
        <3> QED
            BY <1>8, <3>1, <3>2, Zenon DEF ReadPlan, CountMembers
    <2>3. UNCHANGED <<stores, outside, lock>>
        BY <1>8, Zenon DEF ReadPlan, CountMembers
    <2> QED
        BY <2>2, <2>3 DEF TypeOK, stores, outside
<1>9. ASSUME NEW r \in Requests, CountPending(r) \/ Abort(r)
      PROVE  TypeOK'
    BY <1>4, <1>9 DEF CountPending, Abort, Goto, TypeOK, stores, outside
<1>10. ASSUME NEW r \in Requests, Settle(r) \/ CreateInvite(r)
       PROVE  TypeOK'
    BY <1>4, <1>10 DEF Settle, CreateInvite, TypeOK, outside
<1>11. ASSUME NEW r \in Requests, Admit(r)
       PROVE  TypeOK'
    <2>1. proc[r].user \in Users /\ proc[r].invite \in Invites
        BY <1>11 DEF Admit, Admitting, RequestInv, RowOK, At
    <2>2. End(r) /\ UNCHANGED outside
        BY <1>11 DEF Admit
    <2>3. members' \subseteq Users /\ accounts' \subseteq Users
        BY <1>11, <2>1 DEF Admit, TypeOK, stores
    <2>4. invite' \in [Invites -> {"absent", "pending", "accepted", "cancelled"}]
        BY <1>11, <2>1 DEF Admit, TypeOK, stores
    <2>5. admitted' \in [Invites -> Nat]
        <3>1. \/ admitted' = admitted
              \/ admitted' = [admitted EXCEPT ![proc[r].invite] = admitted[proc[r].invite] + 1]
            BY <1>11 DEF Admit, stores
        <3>2. admitted[proc[r].invite] + 1 \in Nat
            BY <2>1 DEF TypeOK
        <3> QED BY <2>1, <3>1, <3>2 DEF TypeOK
    <2>6. lock' \in Requests \cup {Null} /\ proc' \in [Requests -> Request]
        BY <1>4, <2>2
    <2>7. expired' \subseteq Invites /\ plan' \in Plans /\ peak' \in Plans
        BY <2>2 DEF TypeOK, outside
    <2> HIDE DEF Request, Kinds, Phases, Locked
    <2> QED BY <2>3, <2>4, <2>5, <2>6, <2>7 DEF TypeOK
<1>12. ASSUME NEW i \in Invites, Cancel(i) \/ Expire(i)
       PROVE  TypeOK'
    <2>1. CASE Cancel(i)
        BY <2>1 DEF Cancel, TypeOK, stores, outside
    <2>2. CASE Expire(i)
        BY <2>2 DEF Expire, TypeOK, stores, outside
    <2> QED BY <1>12, <2>1, <2>2
<1>13. ASSUME NEW u \in Users, Remove(u)
       PROVE  TypeOK'
    BY <1>13 DEF Remove, TypeOK, outside
<1>14. ASSUME NEW n \in Plans, ChangePlan(n)
       PROVE  TypeOK'
    BY <1>14 DEF ChangePlan, TypeOK, stores
<1>15. CASE UNCHANGED vars
    BY <1>15 DEF vars, TypeOK
<1> QED
    BY <1>5, <1>6, <1>7, <1>8, <1>9, <1>10, <1>11, <1>12, <1>13, <1>14, <1>15
    DEF Next, InTransaction

-----------------------------------------------------------------------------
\* The two counts are numbers, and no larger for smaller sets.
LEMMA Counting ==
    ASSUME TypeOK
    PROVE  /\ IsFiniteSet(members) /\ Cardinality(members) \in Nat
           /\ IsFiniteSet(Reserved) /\ Cardinality(Reserved) \in Nat
           /\ \A r \in Requests : OtherReservations(r) \in Nat
<1>1. IsFiniteSet(members)
    BY PeopleAssumption, FS_Subset DEF TypeOK
<1>2. IsFiniteSet(Reserved)
    BY PeopleAssumption, FS_Subset DEF Reserved
<1>3. \A r \in Requests : IsFiniteSet(Reserved \ {proc[r].invite})
    BY <1>2, FS_Subset
<1> QED
    BY <1>1, <1>2, <1>3, FS_CardinalityType DEF OtherReservations

LEMMA ShrinkCap ==
    ASSUME TypeOK, TypeOK', SeatCap, Shrinking
    PROVE  SeatCap'
<1>1. /\ Cardinality(members') <= Cardinality(members)
      /\ Cardinality(Reserved') <= Cardinality(Reserved)
    BY Counting, FS_Subset DEF Shrinking
<1>2. /\ Cardinality(members') \in Nat
      /\ Cardinality(Reserved') \in Nat
    <2>1. IsFiniteSet(members') /\ IsFiniteSet(Reserved')
        BY Counting, FS_Subset DEF Shrinking
    <2> QED
        BY <2>1, FS_CardinalityType
<1>3. peak \in Nat /\ peak' \in Nat
    BY PlanAssumption DEF TypeOK
<1> QED
    BY <1>1, <1>2, <1>3, Counting DEF SeatCap, Taken, Shrinking

\* What a waiting request has read stays good while seats are given back.
LEMMA ShrinkCount ==
    ASSUME TypeOK, TypeOK', Shrinking, NEW s \in Requests,
           proc'[s] = proc[s], CountOK(s)
    PROVE  CountOK(s)'
<1>1. /\ Cardinality(members') <= Cardinality(members)
      /\ Cardinality(members') \in Nat
    <2>1. IsFiniteSet(members')
        BY Counting, FS_Subset DEF Shrinking
    <2> QED
        BY <2>1, Counting, FS_Subset, FS_CardinalityType DEF Shrinking
<1>2. /\ OtherReservations(s)' <= OtherReservations(s)
      /\ OtherReservations(s)' \in Nat
    <2>1. IsFiniteSet(Reserved \ {proc[s].invite})
        BY Counting, FS_Subset
    <2>2. Reserved' \ {proc'[s].invite} \subseteq Reserved \ {proc[s].invite}
        BY DEF Shrinking
    <2>3. IsFiniteSet(Reserved' \ {proc'[s].invite})
        BY <2>1, <2>2, FS_Subset
    <2> QED
        BY <2>1, <2>2, <2>3, FS_Subset, FS_CardinalityType DEF OtherReservations
<1>3. /\ proc[s].max \in Nat /\ proc[s].members \in Nat
      /\ peak \in Nat /\ peak' \in Nat
    BY PlanAssumption DEF TypeOK, Request
<1> QED
    BY <1>1, <1>2, <1>3, Counting DEF CountOK, Shrinking

LEMMA RowKeep ==
    ASSUME TypeOK, NEW s \in Requests, proc'[s] = proc[s], RowOK(s), RowsStay
    PROVE  RowOK(s)'
BY DEF RowOK, RowsStay

\* A step of request r that takes no seat.
LEMMA QuietStep ==
    ASSUME IInv, TypeOK', LockInv', NEW r \in Requests, Shrinking, RowsStay,
           \A s \in Requests \ {r} : proc'[s] = proc[s],
           RowOK(r)', CountOK(r)'
    PROVE  IInv'
<1>1. \A s \in Requests : RowOK(s)' /\ CountOK(s)'
    <2> SUFFICES ASSUME NEW s \in Requests, s # r PROVE RowOK(s)' /\ CountOK(s)'
        OBVIOUS
    <2> QED
        BY RowKeep, ShrinkCount DEF IInv, RequestInv
<1> QED
    BY <1>1, ShrinkCap DEF IInv, RequestInv, PeakInv, Shrinking

-----------------------------------------------------------------------------
\* Whatever happens beside the lock only gives seats back.
LEMMA OutsideStep ==
    ASSUME IInv, TypeOK',
           \/ \E i \in Invites : Cancel(i) \/ Expire(i)
           \/ \E u \in Users : Remove(u)
           \/ \E n \in Plans : ChangePlan(n)
    PROVE  IInv'
<1>1. proc' = proc /\ lock' = lock
    BY DEF Cancel, Expire, Remove, ChangePlan
<1>2. peak \in Nat /\ \A n \in Plans : n \in Nat
    BY PlanAssumption DEF IInv, TypeOK
<1>3. Shrinking
    <2>1. CASE \E i \in Invites : Cancel(i) \/ Expire(i)
        BY <1>2, <2>1 DEF Cancel, Expire, Shrinking, Reserved, stores, outside,
                          IInv, TypeOK, PeakInv
    <2>2. CASE \E u \in Users : Remove(u)
        BY <1>2, <2>2 DEF Remove, Shrinking, Reserved, outside, IInv, PeakInv
    <2>3. CASE \E n \in Plans : ChangePlan(n)
        BY <1>2, <2>3 DEF ChangePlan, Shrinking, Reserved, stores, IInv, PeakInv
    <2> QED
        BY <2>1, <2>2, <2>3
<1>4. RowsStay
    BY DEF Cancel, Expire, Remove, ChangePlan, RowsStay, stores, IInv, TypeOK
<1>5. LockInv'
    BY <1>1 DEF LockInv, IInv
<1>6. \A s \in Requests : RowOK(s)' /\ CountOK(s)'
    BY <1>1, <1>3, <1>4, RowKeep, ShrinkCount DEF IInv, RequestInv
<1> QED
    BY <1>3, <1>5, <1>6, ShrinkCap DEF IInv, RequestInv, PeakInv, Shrinking

\* A step that leaves every table alone gives nothing back, takes nothing.
LEMMA Still ==
    ASSUME TypeOK, PeakInv, UNCHANGED <<stores, outside>>
    PROVE  Shrinking /\ RowsStay
<1>1. peak \in Nat
    BY PlanAssumption DEF TypeOK
<1> QED
    BY <1>1 DEF Shrinking, RowsStay, Reserved, PeakInv, stores, outside

LEMMA StartStep ==
    ASSUME IInv, TypeOK', NEW r \in Requests, NEW i \in Invites,
           \/ StartInvite(r, i)
           \/ \E u \in Users : StartAccept(r, i, u) \/ StartSignup(r, i, u)
    PROVE  IInv'
<1>1. UNCHANGED <<stores, outside, lock>>
    BY Zenon DEF StartInvite, StartAccept, StartSignup
<1> DEFINE Good(new) ==
              /\ proc' = [proc EXCEPT ![r] = new]
              /\ new.pc \in {"lock", "already"}
              /\ new.invite = i
              /\ new.kind = "invite" => new.pc = "lock"
              /\ new.kind # "invite" => new.user \in Users /\ invite[i] # "absent"
<1>2. PICK new : Good(new)
    <2>1. CASE StartInvite(r, i)
        <3>1. Good([Idle EXCEPT !.pc = "lock", !.invite = i])
            BY <2>1 DEF StartInvite, Idle
        <3> QED
            BY <3>1
    <2>2. ASSUME NEW u \in Users, StartAccept(r, i, u)
          PROVE  \E new : Good(new)
        <3>1. Good([Idle EXCEPT !.pc = "already", !.kind = "accept",
                                !.invite = i, !.user = u])
            BY <2>2 DEF StartAccept, Readable, Idle
        <3> QED
            BY <3>1
    <2>3. ASSUME NEW u \in Users, StartSignup(r, i, u)
          PROVE  \E new : Good(new)
        <3>1. Good([Idle EXCEPT !.pc = "lock", !.kind = "signup",
                                !.invite = i, !.user = u])
            BY <2>3 DEF StartSignup, Readable, Idle
        <3> QED
            BY <3>1
    <2> QED
        BY <2>1, <2>2, <2>3
<1>3. proc[r].pc = "idle"
    BY DEF StartInvite, StartAccept, StartSignup, At
<1>4. /\ \A s \in Requests \ {r} : proc'[s] = proc[s]
      /\ proc'[r] = new
    BY <1>2 DEF IInv, TypeOK
<1>5. LockInv'
    BY <1>1, <1>2, <1>3, <1>4 DEF LockInv, Locked, IInv
<1>6. RowOK(r)' /\ CountOK(r)'
    BY <1>1, <1>2, <1>4 DEF RowOK, CountOK, stores
<1> QED
    BY <1>1, <1>4, <1>5, <1>6, Still, QuietStep DEF IInv

LEMMA AskStep ==
    ASSUME IInv, TypeOK', NEW r \in Requests, FindMember(r) \/ Lock(r)
    PROVE  IInv'
<1>1. UNCHANGED <<stores, outside>>
    BY DEF FindMember, Lock
<1>2. /\ \A s \in Requests \ {r} : proc'[s] = proc[s]
      /\ proc'[r] = [proc[r] EXCEPT !.pc = proc'[r].pc]
      /\ proc[r] \in Request
    BY DEF FindMember, Lock, Goto, IInv, TypeOK, Request
<1>3. \/ /\ proc[r].pc = "already" /\ proc'[r].pc \in {"settle", "lock"}
         /\ lock' = lock
      \/ /\ proc[r].pc = "lock" /\ proc'[r].pc = "plan"
         /\ lock = Null /\ lock' = r
    BY DEF FindMember, Lock, Goto, At, IInv, TypeOK, Request
<1>4. LockInv'
    BY <1>2, <1>3, PeopleAssumption DEF LockInv, Locked, IInv
<1>5. RowOK(r)' /\ CountOK(r)'
    BY <1>1, <1>2, <1>3 DEF RowOK, CountOK, stores, IInv, RequestInv, Request
<1> QED
    BY <1>1, <1>2, <1>4, <1>5, Still, QuietStep DEF IInv

LEMMA ReadStep ==
    ASSUME IInv, TypeOK', NEW r \in Requests, ReadPlan(r) \/ CountMembers(r)
    PROVE  IInv'
<1>1. UNCHANGED <<stores, outside, lock>>
    BY DEF ReadPlan, CountMembers
<1>2. proc[r] \in Request /\ proc \in [Requests -> Request]
    BY DEF IInv, TypeOK
<1>3. \A s \in Requests \ {r} : proc'[s] = proc[s]
    BY <1>2 DEF ReadPlan, CountMembers
<1>4. \/ /\ proc[r].pc = "plan"
         /\ proc'[r] = [proc[r] EXCEPT !.max = plan, !.pc = "members"]
      \/ /\ proc[r].pc = "members"
         /\ proc'[r] = [proc[r] EXCEPT !.members = Cardinality(members),
                                       !.pc = "pending"]
    BY <1>2 DEF ReadPlan, CountMembers, At
<1>5. /\ proc[r].pc \in {"plan", "members"} /\ proc'[r].pc \in {"members", "pending"}
      /\ proc'[r].invite = proc[r].invite
      /\ proc'[r].kind = proc[r].kind
      /\ proc'[r].user = proc[r].user
    BY <1>2, <1>4 DEF Request
<1>6. LockInv'
    BY <1>1, <1>3, <1>5 DEF LockInv, Locked, IInv
<1>7. RowOK(r)'
    BY <1>1, <1>5 DEF RowOK, stores, IInv, RequestInv
<1>8. CountOK(r)'
    <2>1. plan <= peak
        BY DEF IInv, PeakInv
    <2>2. peak' = peak /\ members' = members
        BY <1>1 DEF stores, outside
    <2>3. CountOK(r) /\ Cardinality(members) <= Cardinality(members)
        BY Counting DEF IInv, RequestInv
    <2>4. proc'[r].pc = "members" => proc'[r].max = plan
        BY <1>2, <1>4 DEF Request
    <2>5. proc'[r].pc = "pending" => /\ proc[r].pc = "members"
                                     /\ proc'[r].max = proc[r].max
                                     /\ proc'[r].members = Cardinality(members)
        BY <1>2, <1>4 DEF Request
    <2> QED
        BY <1>5, <2>1, <2>2, <2>3, <2>4, <2>5 DEF CountOK
<1> QED
    BY <1>1, <1>3, <1>6, <1>7, <1>8, Still, QuietStep DEF IInv

LEMMA PassStep ==
    ASSUME IInv, TypeOK', NEW r \in Requests, CountPending(r), ~End(r)
    PROVE  IInv'
<1>1. UNCHANGED <<stores, outside, lock>> /\ Goto(r, "create") /\ At(r, "pending")
    BY DEF CountPending
<1>2. proc[r] \in Request /\ proc \in [Requests -> Request]
    BY DEF IInv, TypeOK
<1>3. /\ \A s \in Requests \ {r} : proc'[s] = proc[s]
      /\ proc[r].pc = "pending"
      /\ proc'[r] = [proc[r] EXCEPT !.pc = "create"]
    BY <1>1, <1>2 DEF Goto, At
<1>4. /\ proc'[r].pc = "create"
      /\ proc'[r].invite = proc[r].invite
      /\ proc'[r].kind = proc[r].kind
      /\ proc'[r].user = proc[r].user
      /\ proc'[r].max = proc[r].max
      /\ proc'[r].members = proc[r].members
    BY <1>2, <1>3 DEF Request
<1>5. LockInv'
    BY <1>1, <1>3, <1>4 DEF LockInv, Locked, IInv
<1>6. RowOK(r)'
    BY <1>1, <1>3, <1>4 DEF RowOK, stores, IInv, RequestInv
<1>7. CountOK(r)'
    <2>1. /\ peak' = peak /\ members' = members
          /\ OtherReservations(r)' = OtherReservations(r)
        BY <1>1, <1>4 DEF stores, outside, OtherReservations, Reserved
    <2>2. proc[r].members + OtherReservations(r) < proc[r].max
        BY DEF CountPending
    <2>3. CountOK(r)
        BY DEF IInv, RequestInv
    <2> QED
        BY <1>3, <1>4, <2>1, <2>2, <2>3 DEF CountOK
<1> QED
    BY <1>1, <1>3, <1>5, <1>6, <1>7, Still, QuietStep DEF IInv

\* The end of a transaction frees the lock, and no request keeps a count.
LEMMA EndKeeps ==
    ASSUME IInv, NEW r \in Requests, End(r)
    PROVE  /\ LockInv'
           /\ RowOK(r)' /\ CountOK(r)'
           /\ \A s \in Requests \ {r} : proc'[s] = proc[s]
<1>1. /\ \A s \in Requests \ {r} : proc'[s] = proc[s]
      /\ proc'[r].pc = "idle"
    BY DEF End, IInv, TypeOK, Idle
<1>2. LockInv'
    BY <1>1, PeopleAssumption DEF End, LockInv, Locked, IInv
<1> QED
    BY <1>1, <1>2 DEF RowOK, CountOK

\* Transactions that end without taking a seat.
LEMMA EndStep ==
    ASSUME IInv, TypeOK', NEW r \in Requests, End(r),
           \/ UNCHANGED <<stores, outside>>
           \/ Settle(r)
    PROVE  IInv'
<1>1. Shrinking /\ RowsStay
    <2>1. CASE UNCHANGED <<stores, outside>>
        BY <2>1, Still DEF IInv
    <2>2. CASE Settle(r)
        <3>1. peak \in Nat /\ peak' = peak /\ members' = members
            BY <2>2, PlanAssumption DEF Settle, outside, IInv, TypeOK
        <3>2. \A i \in Invites : invite'[i] \in {invite[i], "accepted"}
            BY <2>2 DEF Settle, IInv, TypeOK
        <3>3. expired' = expired /\ plan' <= peak'
            BY <2>2 DEF Settle, outside, IInv, PeakInv
        <3> QED
            BY <3>1, <3>2, <3>3 DEF Shrinking, Reserved, RowsStay
    <2> QED
        BY <2>1, <2>2
<1> QED
    BY <1>1, EndKeeps, QuietStep

-----------------------------------------------------------------------------
\* One more element makes a set larger by one at most.
LEMMA OneMore ==
    ASSUME NEW S, NEW T, NEW x, IsFiniteSet(S), T \subseteq S \cup {x}
    PROVE  IsFiniteSet(T) /\ Cardinality(T) \in Nat
           /\ Cardinality(T) <= Cardinality(S) + 1
<1>1. IsFiniteSet(S \cup {x}) /\ Cardinality(S \cup {x}) <= Cardinality(S) + 1
    <2>1. Cardinality(S) \in Nat
        BY FS_CardinalityType
    <2>2. /\ IsFiniteSet(S \cup {x})
          /\ Cardinality(S \cup {x}) = IF x \in S THEN Cardinality(S)
                                       ELSE Cardinality(S) + 1
        BY FS_AddElement
    <2> QED
        BY <2>1, <2>2
<1>2. IsFiniteSet(T) /\ Cardinality(T) <= Cardinality(S \cup {x})
    BY <1>1, FS_Subset
<1> QED
    BY <1>1, <1>2, FS_CardinalityType

\* Taking a seat leaves no more taken than the plan the request read.
LEMMA TakeBound ==
    ASSUME IInv, TypeOK', NEW r \in Requests, proc[r].pc = "create",
           \/ /\ \E u \in Users : members' = members \cup {u}
              /\ Reserved' \subseteq Reserved \ {proc[r].invite}
           \/ /\ members' = members
              /\ Reserved' \subseteq (Reserved \ {proc[r].invite}) \cup {proc[r].invite}
    PROVE  Taken' <= proc[r].max
<1> DEFINE others == Reserved \ {proc[r].invite}
<1>1. /\ Cardinality(members) <= proc[r].members
      /\ proc[r].members + Cardinality(others) < proc[r].max
    BY DEF IInv, RequestInv, CountOK, OtherReservations
<1>2. /\ IsFiniteSet(members) /\ Cardinality(members) \in Nat
      /\ IsFiniteSet(others) /\ Cardinality(others) \in Nat
    BY Counting, FS_Subset, FS_CardinalityType DEF IInv
<1>3. proc[r].members \in Nat /\ proc[r].max \in Nat
    BY DEF IInv, TypeOK, Request
<1> HIDE DEF others
<1>4. CASE /\ \E u \in Users : members' = members \cup {u}
           /\ Reserved' \subseteq others
    <2>1. PICK u \in Users : members' = members \cup {u}
        BY <1>4
    <2>2. Cardinality(members') \in Nat
          /\ Cardinality(members') <= Cardinality(members) + 1
        BY <1>2, <2>1, OneMore
    <2>3. Cardinality(Reserved') \in Nat
          /\ Cardinality(Reserved') <= Cardinality(others)
        <3>1. IsFiniteSet(Reserved')
            BY <1>2, <1>4, FS_Subset
        <3> QED
            BY <1>2, <1>4, <3>1, FS_Subset, FS_CardinalityType
    <2> QED
        BY <1>1, <1>2, <1>3, <2>2, <2>3 DEF Taken
<1>5. CASE /\ members' = members
           /\ Reserved' \subseteq others \cup {proc[r].invite}
    <2>1. PICK x : x = proc[r].invite
        OBVIOUS
    <2>2. Cardinality(Reserved') \in Nat
          /\ Cardinality(Reserved') <= Cardinality(others) + 1
        BY <1>2, <1>5, <2>1, OneMore
    <2> QED
        BY <1>1, <1>2, <1>3, <1>5, <2>2 DEF Taken
<1> QED
    BY <1>4, <1>5 DEF others

\* No other request is inside the lock when one takes a seat.
LEMMA TakeStep ==
    ASSUME IInv, TypeOK', NEW r \in Requests, proc[r].pc = "create", End(r),
           UNCHANGED outside, RowsStay, Taken' <= proc[r].max
    PROVE  IInv'
<1>1. SeatCap'
    <2>1. proc[r].max <= peak /\ proc[r].max \in Nat /\ peak \in Nat
        BY PlanAssumption DEF IInv, RequestInv, CountOK, TypeOK, Request
    <2>2. Taken' \in Nat
        <3>1. /\ IsFiniteSet(members') /\ Cardinality(members') \in Nat
            BY PeopleAssumption, FS_Subset, FS_CardinalityType DEF TypeOK
        <3>2. /\ IsFiniteSet(Reserved') /\ Cardinality(Reserved') \in Nat
            BY PeopleAssumption, FS_Subset, FS_CardinalityType DEF Reserved
        <3> QED
            BY <3>1, <3>2 DEF Taken
    <2> QED
        BY <2>1, <2>2 DEF SeatCap, outside
<1>2. \A s \in Requests : RowOK(s)' /\ CountOK(s)'
    <2> SUFFICES ASSUME NEW s \in Requests, s # r PROVE RowOK(s)' /\ CountOK(s)'
        BY EndKeeps
    <2>1. proc'[s] = proc[s]
        BY EndKeeps
    <2>2. proc[s].pc \notin {"members", "pending", "create"}
        BY DEF IInv, LockInv, Locked
    <2> QED
        BY <2>1, <2>2, RowKeep DEF CountOK, IInv, RequestInv
<1> QED
    BY <1>1, <1>2, EndKeeps DEF IInv, RequestInv, PeakInv, outside

LEMMA CreateInviteStep ==
    ASSUME IInv, TypeOK', NEW r \in Requests, CreateInvite(r)
    PROVE  IInv' /\ Taken' <= proc[r].max
<1> DEFINE i == proc[r].invite
<1>1. /\ proc[r].pc = "create" /\ End(r) /\ members' = members /\ UNCHANGED outside
      /\ invite' = [invite EXCEPT ![i] = "pending"]
    BY DEF CreateInvite, At
<1>2. \A j \in Invites : j # i => invite'[j] = invite[j]
    BY <1>1 DEF IInv, TypeOK
<1>3. i \in Invites => invite'[i] = "pending"
    BY <1>1 DEF IInv, TypeOK
<1>4. Reserved' \subseteq (Reserved \ {i}) \cup {i}
    BY <1>1, <1>2 DEF Reserved, outside
<1>5. RowsStay
    BY <1>2, <1>3 DEF RowsStay
<1>6. Taken' <= proc[r].max
    BY <1>1, <1>4, TakeBound
<1> QED
    BY <1>1, <1>5, <1>6, TakeStep

LEMMA AdmitStep ==
    ASSUME IInv, TypeOK', NEW r \in Requests, Admit(r)
    PROVE  IInv' /\ (members' # members => Taken' <= proc[r].max)
<1> DEFINE i == proc[r].invite
           u == proc[r].user
<1>1. proc[r].pc = "create" /\ End(r) /\ UNCHANGED outside
    BY DEF Admit, Admitting, At
<1>2. CASE UNCHANGED stores
    BY <1>1, <1>2, EndStep DEF stores
<1>3. CASE ~UNCHANGED stores
    <2>1. /\ members' = members \cup {u}
          /\ invite' = [invite EXCEPT ![i] = "accepted"]
        BY <1>3 DEF Admit
    <2>2. u \in Users
        BY <1>1 DEF Admit, Admitting, IInv, RequestInv, RowOK
    <2>3. \A j \in Invites : invite'[j] = IF j = i THEN "accepted" ELSE invite[j]
        BY <2>1 DEF IInv, TypeOK
    <2>4. Reserved' \subseteq Reserved \ {i}
        BY <1>1, <2>3 DEF Reserved, outside
    <2>5. RowsStay
        BY <2>3 DEF RowsStay
    <2>6. Taken' <= proc[r].max
        BY <1>1, <2>1, <2>2, <2>4, TakeBound
    <2> QED
        BY <1>1, <2>5, <2>6, TakeStep
<1> QED
    BY <1>2, <1>3

-----------------------------------------------------------------------------
LEMMA InitIInv == Init => IInv
<1> SUFFICES ASSUME Init PROVE IInv
    OBVIOUS
<1>1. TypeOK
    BY TypeInit
<1>2. LockInv
    BY PeopleAssumption DEF Init, LockInv, Locked, Idle
<1>3. RequestInv
    BY DEF Init, RequestInv, RowOK, CountOK, Idle
<1>4. PeakInv /\ SeatCap
    <2>1. Reserved = {}
        BY DEF Init, Reserved
    <2>2. Cardinality(members) = 1 /\ Cardinality(Reserved) = 0
        BY <2>1, FS_Singleton, FS_EmptySet DEF Init
    <2> QED
        BY <2>2, PlanAssumption DEF Init, PeakInv, SeatCap, Taken
<1> QED
    BY <1>1, <1>2, <1>3, <1>4 DEF IInv

LEMMA NextIInv == IInv /\ [Next]_vars => IInv'
<1> SUFFICES ASSUME IInv, [Next]_vars PROVE IInv'
    OBVIOUS
<1>1. TypeOK'
    BY TypeStep DEF IInv
<1>2. CASE UNCHANGED vars
    BY <1>1, <1>2 DEF IInv, vars, LockInv, RequestInv, RowOK, CountOK, PeakInv,
                      SeatCap, Taken, Reserved, OtherReservations
<1>3. ASSUME NEW r \in Requests, Abort(r) PROVE IInv'
    BY <1>1, <1>3, EndStep DEF Abort
<1>4. ASSUME NEW r \in Requests, Settle(r) PROVE IInv'
    BY <1>1, <1>4, EndStep DEF Settle
<1>5. ASSUME NEW r \in Requests, CountPending(r) PROVE IInv'
    <2>1. CASE End(r)
        BY <1>1, <1>5, <2>1, EndStep DEF CountPending
    <2>2. CASE ~End(r)
        BY <1>1, <1>5, <2>2, PassStep
    <2> QED
        BY <2>1, <2>2
<1> QED
    BY <1>1, <1>2, <1>3, <1>4, <1>5, OutsideStep, StartStep, AskStep, ReadStep,
       CreateInviteStep, AdmitStep
    DEF Next, InTransaction

LEMMA Invariance == Spec => []IInv
BY InitIInv, NextIInv, PTL DEF Spec

\* Every reachable state has the declared types.
THEOREM TypeCorrect == Spec => []TypeOK
<1>1. IInv => TypeOK
    BY DEF IInv
<1> QED
    BY <1>1, Invariance, PTL

\* However many requests, cancellations, removals, expiries and plan changes
\* interleave, members and reserved seats fit in the largest plan so far.
THEOREM SeatsWithinPlan == Spec => []SeatCap
<1>1. IInv => SeatCap
    BY DEF IInv
<1> QED
    BY <1>1, Invariance, PTL

\* Every admission leaves the workspace within the plan it was checked against.
THEOREM AdmissionsWithinPlan == Spec => AdmissionWithinPlan
<1>1. IInv /\ IInv' /\ [Next]_vars => AdmissionFits
    <2> SUFFICES ASSUME IInv, IInv', [Next]_vars, NEW r \in Requests,
                        At(r, "create"),
                        \/ members' \ members # {}
                        \/ \E i \in Invites : /\ invite[i] = "absent"
                                              /\ invite'[i] = "pending"
                 PROVE  Taken' <= proc[r].max
        BY Zenon DEF AdmissionFits
    <2>1. PICK s \in Requests : CreateInvite(s) \/ Admit(s)
        BY DEF Next, InTransaction, StartInvite, StartAccept, StartSignup, Lock,
               FindMember, Settle, ReadPlan, CountMembers, CountPending, Abort,
               Cancel, Expire, Remove, ChangePlan, stores, vars, IInv, TypeOK
    <2>2. s = r
        BY <2>1 DEF CreateInvite, Admit, Admitting, At, IInv, LockInv, Locked
    <2>3. CASE CreateInvite(r)
        BY <2>3, CreateInviteStep DEF IInv
    <2>4. CASE Admit(r)
        <3>1. members' # members
            BY <2>4 DEF Admit, stores, IInv, TypeOK
        <3> QED
            BY <2>4, <3>1, AdmitStep DEF IInv
    <2> QED
        BY <2>1, <2>2, <2>3, <2>4
<1> QED
    BY <1>1, Invariance, PTL DEF Spec, AdmissionWithinPlan

-----------------------------------------------------------------------------
(* Admissions per invite.  Whoever bears an invite read it while nobody had  *)
(* been admitted through it yet, so each admission uses up one of the        *)
(* requests that bore it then, and nobody joins them afterwards.             *)

\* Requests that read invite i and may still admit somebody.
Bearers(i) ==
    {r \in Requests : proc[r].pc # "idle" /\ proc[r].kind # "invite" /\ proc[r].invite = i}

\* The row an inviting request is about to create is there only for it.
NewRowInv ==
    \A r \in Requests : proc[r].pc # "idle" /\ proc[r].kind = "invite" =>
        /\ invite[proc[r].invite] = "absent"
        /\ \A s \in Requests : s # r => proc[s].invite # proc[r].invite

LinkInv ==
    \A i \in Invites :
        /\ invite[i] \in {"absent", "pending"} => admitted[i] = 0
        /\ admitted[i] + Cardinality(Bearers(i)) <= Cardinality(Requests)

LEMMA BearersCount ==
    ASSUME NEW i \in Invites
    PROVE  /\ IsFiniteSet(Bearers(i)) /\ IsFiniteSet(Bearers(i)')
           /\ Cardinality(Bearers(i)) \in Nat /\ Cardinality(Bearers(i)') \in Nat
           /\ Cardinality(Requests) \in Nat
           /\ Cardinality(Bearers(i)') <= Cardinality(Requests)
           /\ Bearers(i)' \subseteq Bearers(i)
                => Cardinality(Bearers(i)') <= Cardinality(Bearers(i))
           /\ \A r \in Bearers(i) : Bearers(i)' \subseteq Bearers(i) \ {r}
                => Cardinality(Bearers(i)') + 1 <= Cardinality(Bearers(i))
<1>1. Bearers(i) \subseteq Requests /\ Bearers(i)' \subseteq Requests
    BY DEF Bearers
<1>2. IsFiniteSet(Bearers(i)) /\ IsFiniteSet(Bearers(i)')
    BY <1>1, RequestsAssumption, FS_Subset
<1>3. /\ Cardinality(Bearers(i)) \in Nat /\ Cardinality(Bearers(i)') \in Nat
      /\ Cardinality(Requests) \in Nat
    BY <1>2, RequestsAssumption, FS_CardinalityType
<1>4. Cardinality(Bearers(i)') <= Cardinality(Requests)
    BY <1>1, RequestsAssumption, FS_Subset
<1>5. Bearers(i)' \subseteq Bearers(i) => Cardinality(Bearers(i)') <= Cardinality(Bearers(i))
    BY <1>2, FS_Subset
<1>6. ASSUME NEW r \in Bearers(i), Bearers(i)' \subseteq Bearers(i) \ {r}
      PROVE  Cardinality(Bearers(i)') + 1 <= Cardinality(Bearers(i))
    <2>1. IsFiniteSet(Bearers(i) \ {r})
          /\ Cardinality(Bearers(i) \ {r}) = Cardinality(Bearers(i)) - 1
        BY <1>2, FS_RemoveElement
    <2>2. Cardinality(Bearers(i)') <= Cardinality(Bearers(i) \ {r})
        BY <1>6, <2>1, FS_Subset
    <2> QED BY <1>3, <2>1, <2>2
<1> QED BY <1>2, <1>3, <1>4, <1>5, <1>6

\* One request goes on with what it has, or ends; rows are accepted or deleted.
LEMMA LinkMoves ==
    ASSUME IInv, NewRowInv, LinkInv, NEW r \in Requests,
           \A s \in Requests : s # r => proc'[s] = proc[s],
           \/ proc'[r] = Idle
           \/ /\ proc'[r].pc # "idle" /\ proc[r].pc # "idle"
              /\ proc'[r].kind = proc[r].kind /\ proc'[r].invite = proc[r].invite,
           \A i \in Invites : invite'[i] # invite[i] =>
               invite[i] # "absent" /\ invite'[i] \in {"accepted", "cancelled"},
           UNCHANGED admitted
    PROVE  NewRowInv' /\ LinkInv'
<1>1. Idle.pc = "idle" /\ Idle.invite = Null
    BY DEF Idle
<1>2. ASSUME NEW i \in Invites PROVE Bearers(i)' \subseteq Bearers(i)
    BY <1>1 DEF Bearers
<1>3. LinkInv'
    <2> SUFFICES ASSUME NEW i \in Invites
                 PROVE  /\ invite'[i] \in {"absent", "pending"} => admitted[i] = 0
                        /\ admitted[i] + Cardinality(Bearers(i)') <= Cardinality(Requests)
        BY DEF LinkInv
    <2>1. admitted[i] \in Nat
        BY DEF IInv, TypeOK
    <2>2. Cardinality(Bearers(i)') <= Cardinality(Bearers(i))
        BY <1>2, BearersCount
    <2>3. /\ invite[i] \in {"absent", "pending"} => admitted[i] = 0
          /\ admitted[i] + Cardinality(Bearers(i)) <= Cardinality(Requests)
        BY DEF LinkInv
    <2> QED BY <2>1, <2>2, <2>3, BearersCount
<1>4. NewRowInv'
    <2> SUFFICES ASSUME NEW s \in Requests, proc'[s].pc # "idle", proc'[s].kind = "invite"
                 PROVE  /\ invite'[proc'[s].invite] = "absent"
                        /\ \A t \in Requests : t # s => proc'[t].invite # proc'[s].invite
        BY DEF NewRowInv
    <2>1. /\ proc[s].pc # "idle" /\ proc[s].kind = "invite"
          /\ proc'[s].invite = proc[s].invite
        BY <1>1
    <2>2. proc[s].invite \in Invites /\ proc[s].invite # Null
        BY <2>1, PeopleAssumption DEF IInv, RequestInv, RowOK
    <2>3. /\ invite[proc[s].invite] = "absent"
          /\ \A t \in Requests : t # s => proc[t].invite # proc[s].invite
        BY <2>1 DEF NewRowInv
    <2>4. \A t \in Requests : proc'[t].invite \in {proc[t].invite, Null}
        BY <1>1
    <2> QED BY <2>1, <2>2, <2>3, <2>4
<1> QED BY <1>3, <1>4

LEMMA LinkStart ==
    ASSUME IInv, NewRowInv, LinkInv, NEW r \in Requests, NEW i \in Invites,
           \/ StartInvite(r, i)
           \/ \E u \in Users : StartAccept(r, i, u) \/ StartSignup(r, i, u)
    PROVE  NewRowInv' /\ LinkInv'
<1>1. /\ proc \in [Requests -> Request] /\ proc[r].pc = "idle"
      /\ invite' = invite /\ admitted' = admitted
    BY DEF IInv, TypeOK, StartInvite, StartAccept, StartSignup, At, stores
<1>2. /\ \A s \in Requests : s # r => proc'[s] = proc[s]
      /\ proc'[r].invite = i
      /\ \/ /\ proc'[r].kind = "invite" /\ invite[i] = "absent"
            /\ \A s \in Requests : proc[s].invite # i
         \/ proc'[r].kind # "invite" /\ invite[i] = "pending"
    <2>1. CASE StartInvite(r, i)
        BY <1>1, <2>1 DEF StartInvite, Idle
    <2>2. ASSUME NEW u \in Users, StartAccept(r, i, u)
          PROVE  /\ \A s \in Requests : s # r => proc'[s] = proc[s]
                 /\ proc'[r].invite = i /\ proc'[r].kind # "invite" /\ invite[i] = "pending"
        BY <1>1, <2>2 DEF StartAccept, Readable, Idle
    <2>3. ASSUME NEW u \in Users, StartSignup(r, i, u)
          PROVE  /\ \A s \in Requests : s # r => proc'[s] = proc[s]
                 /\ proc'[r].invite = i /\ proc'[r].kind # "invite" /\ invite[i] = "pending"
        BY <1>1, <2>3 DEF StartSignup, Readable, Idle
    <2> QED BY <2>1, <2>2, <2>3
<1>3. LinkInv'
    <2> SUFFICES ASSUME NEW j \in Invites
                 PROVE  admitted[j] + Cardinality(Bearers(j)') <= Cardinality(Requests)
        BY <1>1 DEF LinkInv
    <2>1. admitted[j] \in Nat
        BY DEF IInv, TypeOK
    <2>2. CASE j = i /\ proc'[r].kind # "invite"
        <3>1. admitted[j] = 0
            BY <1>2, <2>2 DEF LinkInv
        <3> QED BY <2>1, <3>1, BearersCount
    <2>3. CASE ~(j = i /\ proc'[r].kind # "invite")
        <3>1. Bearers(j)' \subseteq Bearers(j)
            BY <1>2, <2>3 DEF Bearers
        <3>2. Cardinality(Bearers(j)') <= Cardinality(Bearers(j))
            BY <3>1, BearersCount
        <3>3. admitted[j] + Cardinality(Bearers(j)) <= Cardinality(Requests)
            BY DEF LinkInv
        <3> QED BY <2>1, <3>2, <3>3, BearersCount
    <2> QED BY <2>2, <2>3
<1>4. NewRowInv'
    BY <1>1, <1>2 DEF NewRowInv
<1> QED BY <1>3, <1>4

\* A row that appears is borne by nobody, and the one an admission uses is no
\* longer free.
LEMMA LinkCreate ==
    ASSUME IInv, NewRowInv, LinkInv, NEW r \in Requests, CreateInvite(r)
    PROVE  NewRowInv' /\ LinkInv'
<1> DEFINE i == proc[r].invite
<1>1. /\ proc \in [Requests -> Request] /\ proc[r].pc = "create" /\ proc[r].kind = "invite"
      /\ admitted' = admitted /\ invite' = [invite EXCEPT ![i] = "pending"]
      /\ proc' = [proc EXCEPT ![r] = Idle]
    BY DEF IInv, TypeOK, CreateInvite, At, End
<1>2. i \in Invites /\ invite[i] = "absent" /\ \A s \in Requests : s # r => proc[s].invite # i
    BY <1>1 DEF NewRowInv, IInv, RequestInv, RowOK
<1>3. Idle.pc = "idle" /\ Idle.invite = Null /\ Null \notin Invites
    BY PeopleAssumption DEF Idle
<1>4. \A s \in Requests : proc'[s] = IF s = r THEN Idle ELSE proc[s]
    BY <1>1
<1>5. \A j \in Invites : invite'[j] = IF j = i THEN "pending" ELSE invite[j]
    BY <1>1 DEF IInv, TypeOK
<1> HIDE DEF i
<1>6. ASSUME NEW j \in Invites
      PROVE  /\ invite'[j] \in {"absent", "pending"} => admitted[j] = 0
             /\ admitted[j] + Cardinality(Bearers(j)') <= Cardinality(Requests)
    <2>1. Bearers(j)' \subseteq Bearers(j)
        BY <1>3, <1>4 DEF Bearers
    <2>2. Cardinality(Bearers(j)') <= Cardinality(Bearers(j)) /\ admitted[j] \in Nat
        BY <2>1, BearersCount DEF IInv, TypeOK
    <2>3. /\ invite[j] \in {"absent", "pending"} => admitted[j] = 0
          /\ admitted[j] + Cardinality(Bearers(j)) <= Cardinality(Requests)
        BY DEF LinkInv
    <2> QED BY <1>2, <1>5, <2>2, <2>3, BearersCount
<1>7. LinkInv'
    BY <1>1, <1>6 DEF LinkInv
<1>8. NewRowInv'
    <2> SUFFICES ASSUME NEW s \in Requests, proc'[s].pc # "idle", proc'[s].kind = "invite"
                 PROVE  /\ invite'[proc'[s].invite] = "absent"
                        /\ \A t \in Requests : t # s => proc'[t].invite # proc'[s].invite
        BY DEF NewRowInv
    <2>1. s # r /\ proc'[s] = proc[s]
        BY <1>3, <1>4
    <2>2. /\ invite[proc[s].invite] = "absent" /\ proc[s].invite \in Invites
          /\ \A t \in Requests : t # s => proc[t].invite # proc[s].invite
        BY <2>1 DEF NewRowInv, IInv, RequestInv, RowOK
    <2> QED BY <1>2, <1>3, <1>4, <1>5, <2>1, <2>2
<1> QED BY <1>7, <1>8

LEMMA LinkAdmit ==
    ASSUME IInv, NewRowInv, LinkInv, NEW r \in Requests, Admit(r)
    PROVE  NewRowInv' /\ LinkInv'
<1> DEFINE i == proc[r].invite
<1>1. /\ proc \in [Requests -> Request] /\ proc[r].pc = "create" /\ proc[r].kind # "invite"
      /\ proc' = [proc EXCEPT ![r] = Idle]
    BY DEF IInv, TypeOK, Admit, Admitting, At, End
<1>2. i \in Invites /\ invite[i] # "absent"
    BY <1>1 DEF IInv, RequestInv, RowOK
<1>3. \A s \in Requests : proc'[s] = IF s = r THEN Idle ELSE proc[s]
    BY <1>1
<1>4. CASE UNCHANGED stores
    BY <1>3, <1>4, LinkMoves DEF stores
<1>5. CASE ~UNCHANGED stores
    <2>1. /\ invite' = [invite EXCEPT ![i] = "accepted"]
          /\ admitted' = [admitted EXCEPT ![i] = @ + 1]
        BY <1>5 DEF Admit
    <2>2. \A j \in Invites : /\ invite'[j] = IF j = i THEN "accepted" ELSE invite[j]
                             /\ admitted'[j] = IF j = i THEN admitted[j] + 1 ELSE admitted[j]
        BY <2>1 DEF IInv, TypeOK
    <2>3. Idle.pc = "idle" /\ Idle.invite = Null /\ Null \notin Invites
        BY PeopleAssumption DEF Idle
    <2>4. r \in Bearers(i)
        BY <1>1 DEF Bearers
    <2> HIDE DEF i
    <2>5. ASSUME NEW j \in Invites
          PROVE  /\ invite'[j] \in {"absent", "pending"} => admitted'[j] = 0
                 /\ admitted'[j] + Cardinality(Bearers(j)') <= Cardinality(Requests)
        <3>1. /\ invite[j] \in {"absent", "pending"} => admitted[j] = 0
              /\ admitted[j] + Cardinality(Bearers(j)) <= Cardinality(Requests)
              /\ admitted[j] \in Nat
            BY DEF LinkInv, IInv, TypeOK
        <3>2. Bearers(j)' \subseteq Bearers(j) \ {r}
            BY <1>3, <2>3 DEF Bearers
        <3>3. CASE j = i
            <4>1. Cardinality(Bearers(j)') + 1 <= Cardinality(Bearers(j))
                BY <2>4, <3>2, <3>3, BearersCount
            <4> QED BY <2>2, <3>1, <3>3, <4>1, BearersCount
        <3>4. CASE j # i
            <4>1. Cardinality(Bearers(j)') <= Cardinality(Bearers(j))
                BY <3>2, BearersCount
            <4> QED BY <2>2, <3>1, <3>4, <4>1, BearersCount
        <3> QED BY <3>3, <3>4
    <2>6. LinkInv'
        BY <2>5 DEF LinkInv
    <2>7. NewRowInv'
        <3> SUFFICES ASSUME NEW s \in Requests, proc'[s].pc # "idle", proc'[s].kind = "invite"
                     PROVE  /\ invite'[proc'[s].invite] = "absent"
                            /\ \A t \in Requests : t # s => proc'[t].invite # proc'[s].invite
            BY DEF NewRowInv
        <3>1. s # r /\ proc'[s] = proc[s]
            BY <1>3, <2>3
        <3>2. /\ invite[proc[s].invite] = "absent" /\ proc[s].invite \in Invites
              /\ \A t \in Requests : t # s => proc[t].invite # proc[s].invite
            BY <3>1 DEF NewRowInv, IInv, RequestInv, RowOK
        <3> QED BY <1>2, <1>3, <2>2, <2>3, <3>1, <3>2
    <2> QED BY <2>6, <2>7
<1> QED BY <1>4, <1>5

\* The other steps of one request.
LEMMA LinkGoesOn ==
    ASSUME IInv, NewRowInv, LinkInv, NEW r \in Requests,
           \/ Lock(r) \/ FindMember(r) \/ Settle(r) \/ ReadPlan(r) \/ CountMembers(r)
           \/ CountPending(r) \/ Abort(r)
    PROVE  NewRowInv' /\ LinkInv'
<1>1. proc \in [Requests -> Request] /\ proc[r] \in Request /\ proc[r].pc # "idle"
    BY DEF IInv, TypeOK, Lock, FindMember, Settle, ReadPlan, CountMembers, CountPending,
           Abort, At
<1>2. \A s \in Requests : s # r => proc'[s] = proc[s]
    BY <1>1 DEF Lock, FindMember, Settle, ReadPlan, CountMembers, CountPending, Abort,
                Goto, End
<1>3. \/ proc'[r] = Idle
      \/ /\ proc'[r].pc # "idle"
         /\ proc'[r].kind = proc[r].kind /\ proc'[r].invite = proc[r].invite
    <2>1. CASE End(r)
        BY <1>1, <2>1 DEF End
    <2>2. ASSUME NEW pc, pc # "idle", Goto(r, pc)
          PROVE  /\ proc'[r].pc # "idle"
                 /\ proc'[r].kind = proc[r].kind /\ proc'[r].invite = proc[r].invite
        BY <1>1, <2>2 DEF Goto, Request
    <2>3. CASE ReadPlan(r)
        BY <1>1, <2>3 DEF ReadPlan, Request
    <2>4. CASE CountMembers(r)
        BY <1>1, <2>4 DEF CountMembers, Request
    <2>5. CASE Lock(r)
        BY <2>2, <2>5 DEF Lock
    <2>6. CASE FindMember(r)
        BY <2>2, <2>6 DEF FindMember
    <2>7. CASE CountPending(r)
        BY <2>1, <2>2, <2>7 DEF CountPending
    <2> QED BY <2>1, <2>3, <2>4, <2>5, <2>6, <2>7 DEF Settle, Abort
<1>4. admitted' = admitted
    BY DEF Lock, FindMember, Settle, ReadPlan, CountMembers, CountPending, Abort, stores
<1>5. \A i \in Invites : invite'[i] # invite[i] =>
          invite[i] # "absent" /\ invite'[i] \in {"accepted", "cancelled"}
    <2>1. CASE Settle(r)
        <3>1. proc[r].kind # "invite" /\ invite[proc[r].invite] # "absent"
            BY <1>1, <2>1 DEF Settle, At, IInv, RequestInv, RowOK
        <3> QED BY <2>1, <3>1 DEF Settle, IInv, TypeOK
    <2>2. CASE ~Settle(r)
        BY <2>2 DEF Lock, FindMember, ReadPlan, CountMembers, CountPending, Abort, stores
    <2> QED BY <2>1, <2>2
<1> QED BY <1>1, <1>2, <1>3, <1>4, <1>5, LinkMoves

LEMMA LinkBeside ==
    ASSUME IInv, NewRowInv, LinkInv,
           \/ \E i \in Invites : Cancel(i) \/ Expire(i)
           \/ \E u \in Users : Remove(u)
           \/ \E n \in Plans : ChangePlan(n)
    PROVE  NewRowInv' /\ LinkInv'
<1>1. /\ proc' = proc /\ admitted' = admitted
      /\ \A i \in Invites : invite'[i] # invite[i] =>
            invite[i] # "absent" /\ invite'[i] = "cancelled"
    BY DEF Cancel, Expire, Remove, ChangePlan, stores, IInv, TypeOK
<1>2. NewRowInv'
    BY <1>1 DEF NewRowInv, IInv, RequestInv, RowOK
<1>3. \A i \in Invites : Bearers(i)' = Bearers(i)
    BY <1>1 DEF Bearers
<1>4. LinkInv'
    BY <1>1, <1>3 DEF LinkInv
<1> QED BY <1>2, <1>4

\* An invite lets in at most as many people as there are requests at work at
\* once, however often it is opened: those that read it before it was used.
THEOREM AdmissionsAreBounded == Spec => []AdmissionsPerInvite
<1>1. Init => NewRowInv /\ LinkInv
    <2> SUFFICES ASSUME Init PROVE NewRowInv /\ LinkInv
        OBVIOUS
    <2>1. NewRowInv
        BY DEF Init, NewRowInv, Idle
    <2>2. ASSUME NEW i \in Invites
          PROVE  admitted[i] = 0 /\ Cardinality(Bearers(i)) = 0
        <3>1. Bearers(i) = {}
            BY DEF Init, Bearers, Idle
        <3> QED BY <3>1, FS_EmptySet DEF Init
    <2>3. Cardinality(Requests) \in Nat
        BY RequestsAssumption, FS_CardinalityType
    <2> QED BY <2>1, <2>2, <2>3 DEF LinkInv
<1>2. IInv /\ NewRowInv /\ LinkInv /\ [Next]_vars => NewRowInv' /\ LinkInv'
    <2> SUFFICES ASSUME IInv, NewRowInv, LinkInv, [Next]_vars PROVE NewRowInv' /\ LinkInv'
        OBVIOUS
    <2>1. CASE UNCHANGED vars
        <3>1. proc' = proc /\ admitted' = admitted /\ invite' = invite
            BY <2>1 DEF vars
        <3>2. \A i \in Invites : Bearers(i)' = Bearers(i)
            BY <3>1 DEF Bearers
        <3> QED BY <3>1, <3>2 DEF NewRowInv, LinkInv
    <2>2. CASE Next
        BY <2>2, LinkStart, LinkCreate, LinkAdmit, LinkGoesOn, LinkBeside
           DEF Next, InTransaction
    <2> QED BY <2>1, <2>2
<1>3. IInv /\ LinkInv => AdmissionsPerInvite
    <2> SUFFICES ASSUME IInv, LinkInv, NEW i \in Invites
                 PROVE  admitted[i] <= Cardinality(Requests)
        BY DEF AdmissionsPerInvite
    <2>1. admitted[i] \in Nat /\ Cardinality(Bearers(i)) \in Nat /\ Cardinality(Requests) \in Nat
        BY BearersCount DEF IInv, TypeOK
    <2> QED BY <2>1 DEF LinkInv
<1> QED BY <1>1, <1>2, <1>3, Invariance, PTL DEF Spec

-----------------------------------------------------------------------------
(* The settings document *)

\* What a writer may be at.
StateOK(x) ==
    /\ x \in Writer
    /\ x.pc \in {"read", "note"} => x.field \in Audited
    /\ x.pc = "write" => x.field \in Audited \cup {"rera"}

\* A copy of the document is right about every field that was not raced.
CopyOK(x) == x.pc = "write" => \A f \in Fields \ raced : x.copy[f] = written[f]

\* There was no secret when the script looked, unless a race had touched it.
LookOK(x) ==
    /\ x.script /\ ~x.rotate /\ x.field = "secret" /\ x.pc \in {"read", "write"}
    => /\ x.looked <= count["secret"]
       /\ x.looked = count["secret"] => written["secret"] = {} \/ "secret" \in raced

WriterInv ==
    \A w \in Writers : StateOK(writer[w]) /\ CopyOK(writer[w]) /\ LookOK(writer[w])

InNote(f) == {w \in Writers : WriterAt(w, "note") /\ writer[w].field = f}

\* A change is on the timeline, about to be, or was cut off.
AuditInv ==
    \A f \in Audited :
        /\ timeline[f] + Cardinality(InNote(f)) <= count[f]
        /\ count[f] <= timeline[f] + faults + Cardinality(InNote(f))

SettingsInv == SettingsTypeOK /\ WriterInv /\ LastWriteStands /\ AuditInv

-----------------------------------------------------------------------------
(* Sets of writers *)

LEMMA NoteCount ==
    ASSUME NEW f
    PROVE  IsFiniteSet(InNote(f)) /\ Cardinality(InNote(f)) \in Nat
<1>1. IsFiniteSet(InNote(f))
    BY WriterAssumption, FS_Subset DEF InNote
<1> QED BY <1>1, FS_CardinalityType

\* One writer moves: it leaves the set, enters it, or neither.
LEMMA Moving ==
    ASSUME SettingsInv, NEW w \in Writers, NEW x, writer' = [writer EXCEPT ![w] = x], NEW f
    PROVE  /\ Cardinality(InNote(f)') \in Nat
           /\ Cardinality(InNote(f)') = Cardinality(InNote(f)) +
                  (IF x.pc = "note" /\ x.field = f
                   THEN IF w \in InNote(f) THEN 0 ELSE 1
                   ELSE IF w \in InNote(f) THEN -1 ELSE 0)
<1> DEFINE S == InNote(f)
           T == {v \in Writers : writer'[v].pc = "note" /\ writer'[v].field = f}
<1>1. IsFiniteSet(S) /\ Cardinality(S) \in Nat
    BY NoteCount
<1>2. InNote(f)' = T
    BY DEF InNote, WriterAt
<1>3. /\ writer'[w] = x
      /\ \A v \in Writers \ {w} : writer'[v] = writer[v]
    BY DEF SettingsInv, SettingsTypeOK
<1>4. CASE x.pc = "note" /\ x.field = f
    <2>1. T = S \cup {w}
        BY <1>3, <1>4 DEF InNote, WriterAt
    <2>2. Cardinality(T) = IF w \in S THEN Cardinality(S) ELSE Cardinality(S) + 1
        BY <1>1, <2>1, FS_AddElement
    <2> HIDE DEF S, T
    <2>3. Cardinality(T) = Cardinality(S) + (IF w \in S THEN 0 ELSE 1)
        BY <1>1, <2>2
    <2> QED BY <1>1, <1>2, <1>4, <2>3 DEF S
<1>5. CASE ~(x.pc = "note" /\ x.field = f)
    <2>1. T = S \ {w}
        BY <1>3, <1>5 DEF InNote, WriterAt
    <2>2. Cardinality(T) = IF w \in S THEN Cardinality(S) - 1 ELSE Cardinality(S)
        BY <1>1, <2>1, FS_RemoveElement
    <2>3. Cardinality(T) \in Nat
        BY <1>1, <2>1, FS_RemoveElement, FS_CardinalityType
    <2> HIDE DEF S, T
    <2>4. Cardinality(T) = Cardinality(S) + (IF w \in S THEN -1 ELSE 0)
        BY <1>1, <2>2
    <2> QED BY <1>2, <1>5, <2>3, <2>4 DEF S
<1> QED BY <1>4, <1>5

-----------------------------------------------------------------------------
(* Steps *)

\* A writer moves and neither the document nor a note is written.
LEMMA CopyStays ==
    ASSUME SettingsInv, NEW w \in Writers, ~WriterAt(w, "note"),
           NEW x, writer' = [writer EXCEPT ![w] = x], x.pc # "note",
           StateOK(x), CopyOK(x), LookOK(x),
           UNCHANGED <<doc, timeline, written, count, raced, faults>>,
           requests' \in 0..MaxRequests
    PROVE  SettingsInv'
<1>1. writer' \in [Writers -> Writer]
    BY DEF SettingsInv, SettingsTypeOK, StateOK
<1>2. WriterInv'
    BY DEF SettingsInv, SettingsTypeOK, WriterInv, StateOK, CopyOK, LookOK
<1>3. AuditInv'
    <2>1. ASSUME NEW f PROVE Cardinality(InNote(f)') = Cardinality(InNote(f))
        <3>1. w \notin InNote(f)
            BY DEF InNote
        <3>2. Cardinality(InNote(f)') = Cardinality(InNote(f)) + 0
            BY <3>1, Moving
        <3> QED BY <3>2, NoteCount
    <2> QED BY <2>1 DEF SettingsInv, AuditInv
<1> QED BY <1>1, <1>2, <1>3 DEF SettingsInv, SettingsTypeOK, LastWriteStands

LEMMA FailStep ==
    ASSUME SettingsInv, NEW w \in Writers, Fail(w)
    PROVE  SettingsInv'
<1>1. StateOK(IdleWriter) /\ IdleWriter.pc = "idle" /\ ~IdleWriter.script
    BY DEF StateOK, IdleWriter, Writer, Doc, Unset, Fields
<1>2. /\ writer' = [writer EXCEPT ![w] = IdleWriter] /\ faults' = faults + 1
      /\ UNCHANGED <<doc, timeline, written, count, raced, requests>>
    BY DEF Fail
<1>3. faults \in Nat /\ faults' \in 0..MaxFaults
    BY BoundAssumption DEF SettingsInv, SettingsTypeOK, Fail
<1>4. writer' \in [Writers -> Writer]
    BY <1>1, <1>2 DEF SettingsInv, SettingsTypeOK, StateOK
<1>5. WriterInv'
    BY <1>1, <1>2 DEF SettingsInv, SettingsTypeOK, WriterInv, StateOK, CopyOK, LookOK
<1>6. AuditInv'
    <2> SUFFICES ASSUME NEW f \in Audited
                 PROVE  /\ timeline[f] + Cardinality(InNote(f)') <= count[f]
                        /\ count[f] <= timeline[f] + faults' + Cardinality(InNote(f)')
        BY <1>2 DEF AuditInv
    <2> DEFINE c == Cardinality(InNote(f))
               d == Cardinality(InNote(f)')
    <2>1. c \in Nat /\ d \in Nat
        BY <1>2, NoteCount, Moving
    <2>2. d = c + (IF w \in InNote(f) THEN -1 ELSE 0)
        BY <1>1, <1>2, Moving
    <2>3. timeline[f] \in Nat /\ count[f] \in Nat
        BY DEF SettingsInv, SettingsTypeOK, Fields
    <2>4. timeline[f] + c <= count[f] /\ count[f] <= timeline[f] + faults + c
        BY DEF SettingsInv, AuditInv
    <2> HIDE DEF c, d
    <2>5. timeline[f] + d <= count[f] /\ count[f] <= timeline[f] + faults' + d
        BY <1>2, <1>3, <2>1, <2>2, <2>3, <2>4
    <2> QED BY <2>5 DEF d
<1> QED BY <1>2, <1>3, <1>4, <1>5, <1>6 DEF SettingsInv, SettingsTypeOK, LastWriteStands

\* What a change of f leaves of the facts about the fields.
LEMMA Remembering ==
    ASSUME SettingsInv, NEW f \in Fields, NEW value \in SUBSET Nat,
           NEW others \in SUBSET Writers, Remember(f, value, others)
    PROVE  /\ written' \in Doc /\ count' \in [Fields -> Nat] /\ raced' \subseteq Fields
           /\ count'[f] = count[f] + 1 /\ written'[f] = value
           /\ \A g \in Fields \ {f} :
                /\ count'[g] = count[g] /\ written'[g] = written[g]
                /\ g \in raced' <=> g \in raced
           /\ f \notin raced' => \A v \in others : ~WriterAt(v, "write")
           /\ f = "apiKeys" /\ f \in raced => f \in raced'
<1>1. written \in Doc /\ count \in [Fields -> Nat] /\ raced \subseteq Fields
    BY DEF SettingsInv, SettingsTypeOK
<1>2. written' = [written EXCEPT ![f] = value] /\ count' = [count EXCEPT ![f] = @ + 1]
    BY DEF Remember
<1>3. written' \in Doc /\ count' \in [Fields -> Nat]
    BY <1>1, <1>2 DEF Doc
<1>4. /\ raced' \in {raced, raced \cup {f}, raced \ {f}}
      /\ f \notin raced' => \A v \in others : ~WriterAt(v, "write")
      /\ f = "apiKeys" /\ f \in raced => f \in raced'
    BY DEF Remember
<1> QED BY <1>1, <1>2, <1>3, <1>4 DEF Doc

LEMMA ChangedType ==
    ASSUME SettingsInv, NEW f \in Fields, NEW old \in SUBSET Nat
    PROVE  Changed(f, old) \in SUBSET Nat
<1>1. count[f] + 1 \in Nat
    BY DEF SettingsInv, SettingsTypeOK
<1> QED BY <1>1 DEF Changed

\* The copies other writers hold, and what a script saw, after a change of f.
LEMMA OthersAfter ==
    ASSUME SettingsInv, NEW f \in Fields, NEW value \in SUBSET Nat,
           NEW others \in SUBSET Writers, Remember(f, value, others), NEW v \in others
    PROVE  (CopyOK(writer[v])' /\ LookOK(writer[v])') \/ writer'[v] # writer[v]
<1> SUFFICES ASSUME writer'[v] = writer[v]
             PROVE  CopyOK(writer[v])' /\ LookOK(writer[v])'
    OBVIOUS
<1>1. StateOK(writer[v]) /\ CopyOK(writer[v]) /\ LookOK(writer[v])
    BY DEF SettingsInv, WriterInv
<1>2. CopyOK(writer[v])'
    BY <1>1, Remembering DEF CopyOK, WriterAt
<1>3. LookOK(writer[v])'
    <2> SUFFICES ASSUME writer[v].script, ~writer[v].rotate, writer[v].field = "secret",
                        writer[v].pc \in {"read", "write"}
                 PROVE  /\ writer[v].looked <= count'["secret"]
                        /\ writer[v].looked = count'["secret"] =>
                               written'["secret"] = {} \/ "secret" \in raced'
        BY DEF LookOK
    <2>1. /\ writer[v].looked <= count["secret"]
          /\ writer[v].looked = count["secret"] => written["secret"] = {} \/ "secret" \in raced
        BY <1>1 DEF LookOK
    <2>2. writer[v].looked \in Nat /\ count["secret"] \in Nat /\ "secret" \in Fields
        BY <1>1 DEF StateOK, Writer, SettingsInv, SettingsTypeOK, Fields, Audited
    <2>3. CASE f = "secret"
        <3>1. count'["secret"] = count["secret"] + 1
            BY <2>3, Remembering
        <3> QED BY <2>1, <2>2, <3>1
    <2>4. CASE f # "secret"
        BY <2>1, <2>2, <2>4, Remembering
    <2> QED BY <2>3, <2>4
<1> QED BY <1>2, <1>3

LEMMA MergeStep ==
    ASSUME SettingsInv, NEW f \in Merged, Merge(f)
    PROVE  SettingsInv'
<1> DEFINE value == Changed(f, {})
<1>1. f \in Fields /\ value \in SUBSET Nat /\ f \notin Audited
    BY ChangedType DEF Fields, Merged, Audited
<1>2. /\ doc' = [doc EXCEPT ![f] = value] /\ Remember(f, value, Writers)
      /\ UNCHANGED <<timeline, writer, faults>> /\ requests' \in 0..MaxRequests
    BY BoundAssumption DEF Merge, SettingsInv, SettingsTypeOK
<1> HIDE DEF value
<1>3. /\ written' \in Doc /\ count' \in [Fields -> Nat] /\ raced' \subseteq Fields
      /\ written'[f] = value
      /\ \A g \in Fields \ {f} :
           /\ count'[g] = count[g] /\ written'[g] = written[g]
           /\ g \in raced' <=> g \in raced
    BY <1>1, <1>2, Remembering
<1>4. doc' \in Doc /\ doc'[f] = value /\ \A g \in Fields \ {f} : doc'[g] = doc[g]
    BY <1>1, <1>2 DEF SettingsInv, SettingsTypeOK, Doc
<1>5. SettingsTypeOK'
    BY <1>2, <1>3, <1>4 DEF SettingsInv, SettingsTypeOK
<1>6. WriterInv'
    BY <1>1, <1>2, OthersAfter DEF SettingsInv, WriterInv, StateOK
<1>7. LastWriteStands'
    BY <1>3, <1>4 DEF SettingsInv, LastWriteStands
<1>8. AuditInv'
    BY <1>1, <1>2, <1>3 DEF SettingsInv, AuditInv, InNote, WriterAt, Fields
<1> QED BY <1>5, <1>6, <1>7, <1>8 DEF SettingsInv

LEMMA WriteStep ==
    ASSUME SettingsInv, NEW w \in Writers, Write(w)
    PROVE  SettingsInv'
<1> DEFINE a == writer[w]
           f == a.field
           old == a.copy[f]
           value(o) == IF a.clear THEN {} ELSE Changed(f, o)
           x == [a EXCEPT !.pc = IF f = "rera" THEN "look" ELSE "note", !.copy = Unset]
<1>1. /\ StateOK(a) /\ CopyOK(a) /\ a \in Writer /\ a.pc = "write"
      /\ f \in Audited \cup {"rera"} /\ f \in Fields
    BY DEF SettingsInv, WriterInv, StateOK, Write, WriterAt, Fields
<1>2. a.copy \in Doc /\ written \in Doc /\ old \in SUBSET Nat /\ written[f] \in SUBSET Nat
    BY <1>1 DEF Writer, Doc, SettingsInv, SettingsTypeOK
<1>3. value(old) \in SUBSET Nat /\ value(written[f]) \in SUBSET Nat
    BY <1>1, <1>2, ChangedType
<1>4. /\ doc' = [a.copy EXCEPT ![f] = value(old)]
      /\ Remember(f, value(written[f]), Writers \ {w})
      /\ writer' = [writer EXCEPT ![w] = x]
      /\ UNCHANGED <<timeline, requests, faults>>
    BY DEF Write
<1>5. f # "apiKeys" \/ old = written[f] => value(old) = value(written[f])
    BY DEF Changed
<1>6. x \in Writer /\ x.field = f /\ x.pc = IF f = "rera" THEN "look" ELSE "note"
    <2>1. Unset \in Doc
        BY DEF Unset, Doc
    <2> QED BY <1>1, <2>1 DEF Writer
<1> HIDE DEF value, x
<1>7. /\ written' \in Doc /\ count' \in [Fields -> Nat] /\ raced' \subseteq Fields
      /\ written'[f] = value(written[f]) /\ count'[f] = count[f] + 1
      /\ \A g \in Fields \ {f} :
           /\ count'[g] = count[g] /\ written'[g] = written[g]
           /\ g \in raced' <=> g \in raced
      /\ f = "apiKeys" /\ f \in raced => f \in raced'
    BY <1>1, <1>3, <1>4, Remembering
<1>8. doc' \in Doc /\ doc'[f] = value(old) /\ \A g \in Fields \ {f} : doc'[g] = a.copy[g]
    BY <1>1, <1>2, <1>3, <1>4 DEF Doc
<1>9. /\ writer' \in [Writers -> Writer] /\ writer'[w] = x
      /\ \A v \in Writers \ {w} : writer'[v] = writer[v]
    BY <1>4, <1>6 DEF SettingsInv, SettingsTypeOK
<1>10. SettingsTypeOK'
    BY <1>4, <1>7, <1>8, <1>9 DEF SettingsInv, SettingsTypeOK
<1>11. LastWriteStands'
    <2> SUFFICES ASSUME NEW g \in Fields, g \notin raced' PROVE doc'[g] = written'[g]
        BY DEF LastWriteStands
    <2>1. CASE g # f
        BY <1>1, <1>7, <1>8, <2>1 DEF CopyOK
    <2>2. CASE g = f
        BY <1>1, <1>5, <1>7, <1>8, <2>2 DEF CopyOK
    <2> QED BY <2>1, <2>2
<1>12. WriterInv'
    <2>1. StateOK(x) /\ x.pc \notin {"read", "write"}
        BY <1>1, <1>6 DEF StateOK
    <2>2. (StateOK(writer[w]) /\ CopyOK(writer[w]) /\ LookOK(writer[w]))'
        BY <1>9, <2>1 DEF StateOK, CopyOK, LookOK
    <2>3. ASSUME NEW v \in Writers \ {w}
          PROVE  (StateOK(writer[v]) /\ CopyOK(writer[v]) /\ LookOK(writer[v]))'
        BY <1>1, <1>3, <1>4, <1>9, OthersAfter DEF SettingsInv, WriterInv, StateOK
    <2> QED BY <2>2, <2>3 DEF WriterInv
<1>13. AuditInv'
    <2> SUFFICES ASSUME NEW g \in Audited
                 PROVE  /\ timeline[g] + Cardinality(InNote(g)') <= count'[g]
                        /\ count'[g] <= timeline[g] + faults + Cardinality(InNote(g)')
        BY <1>4 DEF AuditInv
    <2> DEFINE c == Cardinality(InNote(g))
               d == Cardinality(InNote(g)')
    <2>1. c \in Nat /\ timeline[g] \in Nat /\ count[g] \in Nat /\ faults \in Nat /\ g \in Fields
        BY NoteCount, BoundAssumption DEF SettingsInv, SettingsTypeOK, Fields
    <2>2. w \notin InNote(g) /\ g # "rera"
        BY <1>1 DEF InNote, WriterAt, Audited
    <2>3. d = c + IF g = f THEN 1 ELSE 0
        BY <1>4, <1>6, <2>2, Moving
    <2>4. count'[g] = count[g] + IF g = f THEN 1 ELSE 0
        BY <1>7, <2>1
    <2>5. timeline[g] + c <= count[g] /\ count[g] <= timeline[g] + faults + c
        BY DEF SettingsInv, AuditInv
    <2> HIDE DEF c, d, f
    <2>6. timeline[g] + d <= count'[g] /\ count'[g] <= timeline[g] + faults + d
        BY <2>1, <2>3, <2>4, <2>5
    <2> QED BY <2>6 DEF d
<1> QED BY <1>10, <1>11, <1>12, <1>13 DEF SettingsInv

LEMMA NoteStep ==
    ASSUME SettingsInv, NEW w \in Writers, Note(w)
    PROVE  SettingsInv'
<1> DEFINE a == writer[w]
           f == a.field
           y == [a EXCEPT !.pc = "read", !.field = "autoAck"]
<1>1. a \in Writer /\ a.pc = "note" /\ f \in Audited /\ w \in InNote(f)
    BY DEF SettingsInv, WriterInv, StateOK, Note, WriterAt, InNote
<1>2. PICK x \in {y, IdleWriter} : writer' = [writer EXCEPT ![w] = x]
    BY DEF Note
<1>3. /\ timeline' = [timeline EXCEPT ![f] = @ + 1]
      /\ UNCHANGED <<doc, written, count, raced, requests, faults>>
    BY DEF Note
<1>4. y \in Writer /\ y.pc = "read" /\ y.field = "autoAck" /\ "autoAck" \in Audited
    BY <1>1 DEF Writer, Fields, Audited
<1>5. IdleWriter \in Writer /\ IdleWriter.pc = "idle"
    BY DEF IdleWriter, Writer, Doc, Unset, Fields
<1>6. StateOK(x) /\ CopyOK(x) /\ LookOK(x) /\ x.pc # "note"
    BY <1>2, <1>4, <1>5 DEF StateOK, CopyOK, LookOK
<1>7. writer' \in [Writers -> Writer]
    BY <1>2, <1>6 DEF SettingsInv, SettingsTypeOK, StateOK
<1>8. WriterInv'
    BY <1>2, <1>3, <1>6 DEF SettingsInv, SettingsTypeOK, WriterInv, StateOK, CopyOK, LookOK
<1>9. timeline' \in [Audited -> Nat]
    BY <1>1, <1>3 DEF SettingsInv, SettingsTypeOK
<1>10. AuditInv'
    <2> SUFFICES ASSUME NEW g \in Audited
                 PROVE  /\ timeline'[g] + Cardinality(InNote(g)') <= count[g]
                        /\ count[g] <= timeline'[g] + faults + Cardinality(InNote(g)')
        BY <1>3 DEF AuditInv
    <2> DEFINE c == Cardinality(InNote(g))
               d == Cardinality(InNote(g)')
    <2>1. c \in Nat /\ timeline[g] \in Nat /\ count[g] \in Nat /\ faults \in Nat
        BY NoteCount, BoundAssumption DEF SettingsInv, SettingsTypeOK, Fields
    <2>2. w \in InNote(g) <=> g = f
        BY <1>1 DEF InNote
    <2>3. d = c + IF g = f THEN -1 ELSE 0
        BY <1>2, <1>6, <2>2, Moving
    <2>4. timeline'[g] = timeline[g] + IF g = f THEN 1 ELSE 0
        BY <1>1, <1>3, <2>1 DEF SettingsInv, SettingsTypeOK
    <2>5. timeline[g] + c <= count[g] /\ count[g] <= timeline[g] + faults + c
        BY DEF SettingsInv, AuditInv
    <2> HIDE DEF c, d, f
    <2>6. timeline'[g] + d <= count[g] /\ count[g] <= timeline'[g] + faults + d
        BY <2>1, <2>3, <2>4, <2>5
    <2> QED BY <2>6 DEF d
<1> QED BY <1>3, <1>7, <1>8, <1>9, <1>10 DEF SettingsInv, SettingsTypeOK, LastWriteStands

\* The steps before a write.
LEMMA ReadOrLookStep ==
    ASSUME SettingsInv, NEW w \in Writers,
           \/ \E f \in Audited, clear \in BOOLEAN : Start(w, f, clear)
           \/ \E rera, rotate, ack \in BOOLEAN : StartScript(w, rera, rotate, ack)
           \/ Read(w) \/ Look(w)
    PROVE  SettingsInv'
<1> DEFINE a == writer[w]
<1>1. /\ StateOK(a) /\ LookOK(a) /\ a \in Writer /\ doc \in Doc
      /\ \A f \in Fields \ raced : doc[f] = written[f]
      /\ requests \in 0..MaxRequests /\ MaxRequests \in Nat
    BY BoundAssumption DEF SettingsInv, WriterInv, StateOK, SettingsTypeOK, LastWriteStands
<1>2. /\ ~WriterAt(w, "note") /\ UNCHANGED <<doc, timeline, written, count, raced, faults>>
      /\ requests' \in 0..MaxRequests
    <2>1. CASE \E f \in Audited, clear \in BOOLEAN : Start(w, f, clear)
        <3>1. PICK f \in Audited, clear \in BOOLEAN : Start(w, f, clear)
            BY <2>1
        <3>2. requests < MaxRequests /\ requests' = requests + 1
            BY <3>1 DEF Start
        <3>3. ~WriterAt(w, "note") /\ UNCHANGED <<doc, timeline, written, count, raced, faults>>
            BY <3>1 DEF Start, WriterAt
        <3> QED BY <1>1, <3>2, <3>3
    <2>2. CASE \E rera, rotate, ack \in BOOLEAN : StartScript(w, rera, rotate, ack)
        <3>1. PICK rera, rotate, ack \in BOOLEAN : StartScript(w, rera, rotate, ack)
            BY <2>2
        <3>2. requests < MaxRequests /\ requests' = requests + 1
            BY <3>1 DEF StartScript
        <3>3. ~WriterAt(w, "note") /\ UNCHANGED <<doc, timeline, written, count, raced, faults>>
            BY <3>1 DEF StartScript, WriterAt
        <3> QED BY <1>1, <3>2, <3>3
    <2>3. CASE Read(w) \/ Look(w)
        BY <1>1, <2>3 DEF Read, Look, WriterAt
    <2> QED BY <2>1, <2>2, <2>3
<1>3. Unset \in Doc
    BY DEF Unset, Doc
<1>4. /\ IdleWriter \in Writer /\ IdleWriter.pc = "idle"
      /\ ~IdleWriter.script /\ IdleWriter.field = "rera"
    BY <1>3 DEF IdleWriter, Writer, Fields
<1>5. ASSUME NEW x, writer' = [writer EXCEPT ![w] = x], x.pc # "note",
             StateOK(x), CopyOK(x), LookOK(x)
      PROVE  SettingsInv'
    BY <1>2, <1>5, CopyStays
<1>6. ASSUME NEW f \in Audited, NEW clear \in BOOLEAN, Start(w, f, clear) PROVE SettingsInv'
    <2> DEFINE x == [IdleWriter EXCEPT !.pc = "read", !.field = f, !.clear = clear]
    <2>1. x \in Writer /\ x.pc = "read" /\ x.field = f /\ ~x.script
        BY <1>3 DEF IdleWriter, Writer, Fields
    <2>2. writer' = [writer EXCEPT ![w] = x]
        BY <1>6 DEF Start
    <2> HIDE DEF x
    <2> QED BY <1>5, <2>1, <2>2 DEF StateOK, CopyOK, LookOK
<1>7. ASSUME NEW rera \in BOOLEAN, NEW rotate \in BOOLEAN, NEW ack \in BOOLEAN,
             StartScript(w, rera, rotate, ack)
      PROVE  SettingsInv'
    <2> DEFINE copy == IF rera THEN doc ELSE Unset
               pc == IF rera THEN "write" ELSE "look"
               x == [IdleWriter EXCEPT !.pc = pc, !.copy = copy, !.script = TRUE,
                                 !.rotate = rotate, !.ack = ack]
    <2>1. copy \in Doc /\ pc \in {"write", "look"} /\ (pc = "write" => copy = doc)
        BY <1>1, <1>3
    <2>2. writer' = [writer EXCEPT ![w] = x]
        BY <1>7 DEF StartScript
    <2> HIDE DEF copy, pc
    <2>3. x \in Writer /\ x.pc = pc /\ x.field = "rera" /\ x.copy = copy
        BY <2>1 DEF IdleWriter, Writer, Fields
    <2> HIDE DEF x
    <2> QED BY <1>1, <1>5, <2>1, <2>2, <2>3 DEF StateOK, CopyOK, LookOK
<1>8. CASE Read(w)
    <2> DEFINE x == [a EXCEPT !.pc = "write", !.copy = doc]
    <2>1. /\ x \in Writer /\ x.pc = "write" /\ x.copy = doc /\ x.field = a.field
          /\ x.script = a.script /\ x.rotate = a.rotate /\ x.looked = a.looked
        BY <1>1 DEF Writer
    <2>2. a.pc = "read" /\ writer' = [writer EXCEPT ![w] = x]
        BY <1>8 DEF Read, WriterAt
    <2> HIDE DEF x, a
    <2> QED BY <1>1, <1>5, <2>1, <2>2 DEF StateOK, CopyOK, LookOK
<1>9. CASE Look(w)
    <2> DEFINE x == [a EXCEPT !.pc = "read", !.field = "secret", !.looked = count["secret"]]
               y == [a EXCEPT !.pc = "read", !.field = "autoAck"]
    <2>1. count["secret"] \in Nat /\ {"secret", "autoAck"} \subseteq Audited /\ "secret" \in Fields
        BY DEF SettingsInv, SettingsTypeOK, Fields, Audited
    <2>2. /\ x \in Writer /\ x.pc = "read" /\ x.field = "secret"
          /\ x.looked = count["secret"] /\ x.rotate = a.rotate
        BY <1>1, <2>1 DEF Writer, Fields
    <2>3. y \in Writer /\ y.pc = "read" /\ y.field = "autoAck"
        BY <1>1, <2>1 DEF Writer, Fields
    <2>4. \/ (doc["secret"] = {} \/ a.rotate) /\ writer' = [writer EXCEPT ![w] = x]
          \/ writer' = [writer EXCEPT ![w] = y]
          \/ writer' = [writer EXCEPT ![w] = IdleWriter]
        BY <1>9 DEF Look
    <2> HIDE DEF x, y, a
    <2>5. StateOK(x) /\ StateOK(y) /\ StateOK(IdleWriter)
        BY <1>4, <2>1, <2>2, <2>3 DEF StateOK
    <2>6. doc["secret"] = {} \/ a.rotate => LookOK(x)
        BY <1>1, <2>1, <2>2 DEF LookOK
    <2>7. CopyOK(x) /\ CopyOK(y) /\ CopyOK(IdleWriter) /\ LookOK(y) /\ LookOK(IdleWriter)
        BY <1>4, <2>2, <2>3 DEF CopyOK, LookOK
    <2> QED BY <1>4, <1>5, <2>2, <2>3, <2>4, <2>5, <2>6, <2>7
<1> QED BY <1>6, <1>7, <1>8, <1>9

-----------------------------------------------------------------------------
(* The invariant and what it shows *)

LEMMA InitSettings == ASSUME SettingsInit PROVE SettingsInv
<1>1. Unset \in Doc /\ IdleWriter \in Writer /\ IdleWriter.pc = "idle" /\ ~IdleWriter.script
    BY DEF Unset, Doc, IdleWriter, Writer, Fields
<1>2. SettingsTypeOK
    BY <1>1, BoundAssumption DEF SettingsInit, SettingsTypeOK
<1>3. WriterInv
    BY <1>1 DEF SettingsInit, WriterInv, StateOK, CopyOK, LookOK
<1>4. LastWriteStands
    BY DEF SettingsInit, LastWriteStands
<1>5. AuditInv
    <2>1. \A f : InNote(f) = {}
        BY <1>1 DEF SettingsInit, InNote, WriterAt
    <2>2. \A f : Cardinality(InNote(f)) = 0
        BY <2>1, FS_EmptySet
    <2>3. \A f \in Audited : timeline[f] = 0 /\ count[f] = 0 /\ faults = 0
        BY DEF SettingsInit, Fields
    <2> QED BY <2>2, <2>3 DEF AuditInv
<1> QED BY <1>2, <1>3, <1>4, <1>5 DEF SettingsInv

LEMMA NextSettings == ASSUME SettingsInv, [SettingsNext]_settingsVars PROVE SettingsInv'
<1>1. CASE UNCHANGED settingsVars
    BY <1>1 DEF settingsVars, SettingsInv, SettingsTypeOK, WriterInv, StateOK, CopyOK, LookOK,
                LastWriteStands, AuditInv, InNote, WriterAt
<1>2. CASE SettingsNext
    BY <1>2, MergeStep, ReadOrLookStep, WriteStep, NoteStep, FailStep DEF SettingsNext
<1> QED BY <1>1, <1>2

LEMMA SettingsInvariance == SettingsSpec => []SettingsInv
<1>1. SettingsInit => SettingsInv
    BY InitSettings
<1>2. SettingsInv /\ [SettingsNext]_settingsVars => SettingsInv'
    BY NextSettings
<1> QED BY <1>1, <1>2, PTL DEF SettingsSpec

\* Whatever request changes the document, and however often, it stays an object
\* with the keys of the features.
THEOREM SettingsTypeCorrect == SettingsSpec => []SettingsTypeOK
<1>1. SettingsInv => SettingsTypeOK
    BY DEF SettingsInv
<1> QED BY <1>1, SettingsInvariance, PTL

\* The read-and-write-back of modules/leadIngest/ingress.ts and its like loses no
\* change but one made between its two calls.
THEOREM OnlyRacesErase == SettingsSpec => []LastWriteStands
<1>1. SettingsInv => LastWriteStands
    BY DEF SettingsInv
<1> QED BY <1>1, SettingsInvariance, PTL

\* scripts/provision-pilot.ts takes a secret away only if it was minted, or
\* brought back by a race, after the script had looked.
THEOREM SecretIsKept == SettingsSpec => ScriptKeepsSecret
<1> DEFINE A == \A w \in Writers :
                  /\ WriterAt(w, "write") /\ writer'[w].pc = "note"
                  /\ writer[w].script /\ ~writer[w].rotate /\ writer[w].field = "secret"
                  => \/ doc["secret"] = {}
                     \/ count["secret"] > writer[w].looked
                     \/ "secret" \in raced
<1>1. SettingsInv => A
    <2> SUFFICES ASSUME SettingsInv, NEW w \in Writers, WriterAt(w, "write"), writer[w].script,
                        ~writer[w].rotate, writer[w].field = "secret"
                 PROVE  \/ doc["secret"] = {}
                        \/ count["secret"] > writer[w].looked
                        \/ "secret" \in raced
        OBVIOUS
    <2>1. /\ writer[w].looked \in Nat /\ count["secret"] \in Nat /\ "secret" \in Fields
        BY DEF SettingsInv, SettingsTypeOK, Writer, Fields, Audited
    <2>2. /\ writer[w].looked <= count["secret"]
          /\ writer[w].looked = count["secret"] => written["secret"] = {} \/ "secret" \in raced
        BY DEF SettingsInv, WriterInv, LookOK, WriterAt
    <2>3. "secret" \notin raced => doc["secret"] = written["secret"]
        BY <2>1 DEF SettingsInv, LastWriteStands
    <2> QED BY <2>1, <2>2, <2>3
<1>2. SettingsInv /\ [SettingsNext]_settingsVars => [A]_settingsVars
    BY <1>1
<1>3. SettingsSpec => [][A]_settingsVars
    BY <1>2, SettingsInvariance, PTL DEF SettingsSpec
<1> QED BY <1>3 DEF ScriptKeepsSecret

\* Every change of a secret, an API key or the auto-ack is told on the timeline
\* when its request is over, but for one activity at most for each fault.
THEOREM TimelineTells == SettingsSpec => []AuditComplete
<1>1. SettingsInv => AuditComplete
    <2> SUFFICES ASSUME SettingsInv, NEW f \in Audited
                 PROVE  /\ timeline[f] <= count[f]
                        /\ count[f] <= timeline[f] + faults + Cardinality(InNote(f))
        BY DEF AuditComplete, InNote
    <2> DEFINE c == Cardinality(InNote(f))
    <2>1. c \in Nat /\ timeline[f] \in Nat /\ count[f] \in Nat
        BY NoteCount DEF SettingsInv, SettingsTypeOK, Fields
    <2>2. timeline[f] + c <= count[f] /\ count[f] <= timeline[f] + faults + c
        BY DEF SettingsInv, AuditInv
    <2> HIDE DEF c
    <2>3. timeline[f] <= count[f] /\ count[f] <= timeline[f] + faults + c
        BY <2>1, <2>2
    <2> QED BY <2>3 DEF c
<1> QED BY <1>1, SettingsInvariance, PTL
=============================================================================
