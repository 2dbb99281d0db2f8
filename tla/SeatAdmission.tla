--------------------------- MODULE SeatAdmission ---------------------------
(***************************************************************************)
(* Seats of one workspace: modules/billing/quota.ts assertSeatAvailable    *)
(* with its callers inviteMemberAction (lib/actions/settings.ts),          *)
(* acceptInviteAction and signupAction (lib/actions/auth.ts).  An invite   *)
(* reserves a seat until it is accepted, cancelled or expired.  Admissions *)
(* run in a transaction under a per-workspace advisory lock; cancelling,   *)
(* removing, expiry and the plan are not under that lock.  Transactions    *)
(* are READ COMMITTED: every statement sees what is committed by then, and *)
(* a transaction's own writes appear at its commit, which frees the lock.  *)
(***************************************************************************)
EXTENDS Integers, FiniteSets

CONSTANTS
    Users,      \* people, with an account or without
    Owner,      \* the member who created the workspace
    Invites,    \* rows WorkspaceInvite may ever hold
    Requests,   \* concurrent executions of the three actions
    Plans,      \* seats of the plans the workspace may be on
    Null

ASSUME PeopleAssumption ==
    /\ IsFiniteSet(Users)
    /\ IsFiniteSet(Invites)
    /\ Owner \in Users
    /\ Null \notin Users \cup Invites \cup Requests

ASSUME RequestsAssumption == IsFiniteSet(Requests)

ASSUME PlanAssumption == Plans \subseteq Nat \ {0}

VARIABLES
    members,    \* WorkspaceMember rows
    accounts,   \* User rows
    invite,     \* invite[i]: what became of WorkspaceInvite i
    expired,    \* invites past their expiresAt
    plan,       \* seats of the plan in force
    peak,       \* history: the most seats any plan so far included
    admitted,   \* history: members each invite let in
    lock,       \* holder of pg_advisory_xact_lock("seats:" + workspaceId)
    proc        \* proc[r]: what request r has read and does next

vars == <<members, accounts, invite, expired, plan, peak, admitted, lock, proc>>
stores == <<members, accounts, invite, admitted>>
outside == <<expired, plan, peak>>

Kinds == {"invite", "accept", "signup"}
Locked == {"plan", "members", "pending", "create"}
Phases == Locked \cup {"idle", "already", "lock", "settle"}

Request == [pc : Phases, kind : Kinds, user : Users \cup {Null},
            invite : Invites \cup {Null}, max : Nat, members : Nat]

Idle == [pc |-> "idle", kind |-> "invite", user |-> Null, invite |-> Null,
         max |-> 0, members |-> 0]

TypeOK ==
    /\ members \subseteq Users
    /\ accounts \subseteq Users
    /\ invite \in [Invites -> {"absent", "pending", "accepted", "cancelled"}]
    /\ expired \subseteq Invites
    /\ plan \in Plans
    /\ peak \in Plans
    /\ admitted \in [Invites -> Nat]
    /\ lock \in Requests \cup {Null}
    /\ proc \in [Requests -> Request]

-----------------------------------------------------------------------------
(* Helpers *)

At(r, pc) == proc[r].pc = pc
Goto(r, pc) == proc' = [proc EXCEPT ![r].pc = pc]

\* Rows of the pending count: neither accepted nor past expiresAt.
Reserved == {i \in Invites : invite[i] = "pending" /\ i \notin expired}

Taken == Cardinality(members) + Cardinality(Reserved)

\* assertSeatAvailable's pending count, without the invite being accepted.
OtherReservations(r) == Cardinality(Reserved \ {proc[r].invite})

ReadableAlways(i) == invite[i] # "absent" /\ i \notin expired

\* The invite is there, unaccepted and unexpired when the request reads it.
Readable(i) == invite[i] = "pending" /\ i \notin expired

\* The transaction ends, committed or rolled back, and the lock with it.
EndKeepingLock(r) ==
    /\ proc' = [proc EXCEPT ![r] = Idle]
    /\ UNCHANGED lock

End(r) ==
    /\ proc' = [proc EXCEPT ![r] = Idle]
    /\ lock' = IF lock = r THEN Null ELSE lock

Init ==
    /\ members = {Owner}
    /\ accounts \in {a \in SUBSET Users : Owner \in a}
    /\ invite = [i \in Invites |-> "absent"]
    /\ expired = {}
    /\ plan \in Plans
    /\ peak = plan
    /\ admitted = [i \in Invites |-> 0]
    /\ lock = Null
    /\ proc = [r \in Requests |-> Idle]

-----------------------------------------------------------------------------
(* What each action does before its transaction *)

\* inviteMemberAction: the addressee is no member; the token is fresh.
StartInvite(r, i) ==
    /\ At(r, "idle")
    /\ invite[i] = "absent"
    /\ \A s \in Requests : proc[s].invite # i
    /\ proc' = [proc EXCEPT ![r] = [Idle EXCEPT !.pc = "lock", !.invite = i]]
    /\ UNCHANGED <<stores, outside, lock>>

\* acceptInviteAction: anyone logged in who holds the link.
StartAccept(r, i, u) ==
    /\ At(r, "idle")
    /\ u \in accounts
    /\ Readable(i)
    /\ proc' = [proc EXCEPT ![r] = [Idle EXCEPT !.pc = "already", !.kind = "accept",
                                                !.invite = i, !.user = u]]
    /\ UNCHANGED <<stores, outside, lock>>

\* signupAction with an invite token: the e-mail address is not taken.
StartSignup(r, i, u) ==
    /\ At(r, "idle")
    /\ u \notin accounts
    /\ Readable(i)
    /\ proc' = [proc EXCEPT ![r] = [Idle EXCEPT !.pc = "lock", !.kind = "signup",
                                                !.invite = i, !.user = u]]
    /\ UNCHANGED <<stores, outside, lock>>

-----------------------------------------------------------------------------
(* The transactions *)

\* acceptInviteAction: an existing member takes no new seat, and no lock.
FindMember(r) ==
    /\ At(r, "already")
    /\ Goto(r, IF proc[r].user \in members THEN "settle" ELSE "lock")
    /\ UNCHANGED <<stores, outside, lock>>

Settle(r) ==
    LET i == proc[r].invite
    IN  /\ At(r, "settle")
        /\ invite' = IF invite[i] = "cancelled" THEN invite
                     ELSE [invite EXCEPT ![i] = "accepted"]
        /\ End(r)
        /\ UNCHANGED <<members, accounts, admitted, outside>>

LockUnguarded(r) ==
    /\ At(r, "lock")
    /\ lock' = r
    /\ Goto(r, "plan")
    /\ UNCHANGED <<stores, outside>>

Lock(r) ==
    /\ At(r, "lock")
    /\ lock = Null
    /\ lock' = r
    /\ Goto(r, "plan")
    /\ UNCHANGED <<stores, outside>>

\* resolveEffectivePlan: the plan in force at this moment.
ReadPlan(r) ==
    /\ At(r, "plan")
    /\ proc' = [proc EXCEPT ![r] = [@ EXCEPT !.max = plan, !.pc = "members"]]
    /\ UNCHANGED <<stores, outside, lock>>

CountMembers(r) ==
    /\ At(r, "members")
    /\ proc' = [proc EXCEPT ![r] = [@ EXCEPT !.members = Cardinality(members),
                                             !.pc = "pending"]]
    /\ UNCHANGED <<stores, outside, lock>>

\* Mutant: the invite has reserved the seat, so its acceptance is not checked.
CountPendingOfInvites(r) ==
    LET taken == proc[r].members + OtherReservations(r)
    IN  /\ At(r, "pending")
        /\ \/ taken >= proc[r].max /\ proc[r].kind = "invite" /\ End(r)
           \/ /\ taken < proc[r].max \/ proc[r].kind # "invite"
              /\ Goto(r, "create") /\ UNCHANGED lock
        /\ UNCHANGED <<stores, outside>>

\* QUOTA_EXCEEDED rolls the transaction back.
CountPending(r) ==
    LET taken == proc[r].members + OtherReservations(r)
    IN  /\ At(r, "pending")
        /\ \/ taken >= proc[r].max /\ End(r)
           \/ taken < proc[r].max /\ Goto(r, "create") /\ UNCHANGED lock
        /\ UNCHANGED <<stores, outside>>

CreateInvite(r) ==
    /\ At(r, "create") /\ proc[r].kind = "invite"
    /\ invite' = [invite EXCEPT ![proc[r].invite] = "pending"]
    /\ End(r)
    /\ UNCHANGED <<members, accounts, admitted, outside>>

AdmittingAnyKind(r) == At(r, "create")
Admitting(r) == At(r, "create") /\ proc[r].kind # "invite"

\* The member row and invite.accepted, one commit.  The primary keys of User
\* and WorkspaceMember and the update of a deleted invite can refuse it.
Admit(r) ==
    LET i == proc[r].invite
        u == proc[r].user
        refused == \/ invite[i] = "cancelled"
                   \/ u \in members
                   \/ proc[r].kind = "signup" /\ u \in accounts
    IN  /\ Admitting(r)
        /\ \/ refused /\ UNCHANGED stores
           \/ /\ ~refused
              /\ members' = members \cup {u}
              /\ accounts' = accounts \cup {u}
              /\ invite' = [invite EXCEPT ![i] = "accepted"]
              /\ admitted' = [admitted EXCEPT ![i] = @ + 1]
        /\ End(r)
        /\ UNCHANGED outside

\* The function is killed or a statement fails: PostgreSQL rolls back.
Abort(r) ==
    /\ ~At(r, "idle")
    /\ End(r)
    /\ UNCHANGED <<stores, outside>>

-----------------------------------------------------------------------------
(* What happens beside the lock *)

\* cancelInviteAction deletes the row, whatever its state.
Cancel(i) ==
    /\ invite[i] \in {"pending", "accepted"}
    /\ invite' = [invite EXCEPT ![i] = "cancelled"]
    /\ UNCHANGED <<members, accounts, admitted, outside, lock, proc>>

\* removeMemberAction never removes the owner.
Remove(u) ==
    /\ u \in members \ {Owner}
    /\ members' = members \ {u}
    /\ UNCHANGED <<accounts, invite, admitted, outside, lock, proc>>

\* Seven days have passed.
Expire(i) ==
    /\ invite[i] # "absent"
    /\ i \notin expired
    /\ expired' = expired \cup {i}
    /\ UNCHANGED <<stores, plan, peak, lock, proc>>

\* Stripe, or the end of the trial.
ChangePlan(n) ==
    /\ n # plan
    /\ plan' = n
    /\ peak' = IF n > peak THEN n ELSE peak
    /\ UNCHANGED <<stores, expired, lock, proc>>

-----------------------------------------------------------------------------
InTransaction(r) ==
    \/ FindMember(r) \/ Settle(r) \/ ReadPlan(r) \/ CountMembers(r)
    \/ CountPending(r) \/ CreateInvite(r) \/ Admit(r)

Next ==
    \/ \E r \in Requests, i \in Invites :
         \/ StartInvite(r, i)
         \/ \E u \in Users : StartAccept(r, i, u) \/ StartSignup(r, i, u)
    \/ \E r \in Requests : Lock(r) \/ InTransaction(r) \/ Abort(r)
    \/ \E i \in Invites : Cancel(i) \/ Expire(i)
    \/ \E u \in Users : Remove(u)
    \/ \E n \in Plans : ChangePlan(n)

Spec == Init /\ [][Next]_vars

\* A running transaction goes on, and the advisory lock is granted in the
\* order it was asked for, so whoever waits gets it some time after it is free.
FairSpec ==
    /\ Spec
    /\ \A r \in Requests : WF_vars(InTransaction(r)) /\ SF_vars(Lock(r))

-----------------------------------------------------------------------------
(* Properties *)

\* Members and reserved seats never exceed the largest plan the workspace has
\* been on: two requests cannot both take the last seat, whatever is cancelled,
\* removed, expired or downgraded meanwhile.  On an unchanging plan: never
\* above the plan.
SeatCap == Taken <= peak

AdmissionFits ==
    \A r \in Requests :
        /\ At(r, "create")
        /\ \/ members' \ members # {}
           \/ \E i \in Invites : invite[i] = "absent" /\ invite'[i] = "pending"
        => Taken' <= proc[r].max

\* An admission leaves the workspace within the plan it was checked against,
\* also after a downgrade ("The plan may have shrunk since the invite was
\* sent").  An admission under way when the plan shrinks still counts.
AdmissionWithinPlan == [][AdmissionFits]_vars

\* An invite is read before the transaction that accepts it, so each request
\* that read it in time may admit somebody, and none that comes later.
AdmissionsPerInvite ==
    \A i \in Invites : admitted[i] <= Cardinality(Requests)

\* No request waits for the seat lock for ever, not behind one that was
\* refused, rolled back or killed.
EveryRequestEnds ==
    \A r \in Requests : (proc[r].pc # "idle") ~> (proc[r].pc = "idle")
=============================================================================
