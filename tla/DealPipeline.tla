---------------------------- MODULE DealPipeline ----------------------------
(***************************************************************************)
(* Deals on the stages of one workspace's pipeline, and the stages         *)
(* themselves: the server actions that create, drag, bulk-move, edit and   *)
(* delete deals, and those that add, edit, reorder and remove stages.      *)
(* Every action reads first and writes later, with database calls of       *)
(* others in between; a write is one statement or one transaction, and the *)
(* foreign keys of the schema may refuse it.                               *)
(*                                                                         *)
(* wonAt is the revenue date: set while a deal is in a stage of kind Won.  *)
(***************************************************************************)
EXTENDS Integers, Sequences, FiniteSets, SequencesExt

CONSTANTS
    Deals,
    Stages,
    Users,      \* who may work on the pipeline at one time
    First, Won, \* the stages the workspace starts with
    Offset,     \* OFFSET, 10 000 in the code
    MaxWrites,  \* bound: writes, which also number the moments of time
    Null

\* LOST differs from OPEN in no rule of these actions.
Kinds == {"OPEN", "WON"}
MovesOne == {"drag", "edit"}

ASSUME BoundAssumption == MaxWrites \in Nat /\ Offset \in Nat
ASSUME StageAssumption ==
    IsFiniteSet(Stages) /\ {First, Won} \subseteq Stages /\ First # Won

Deal == [stage : Stages, wonAt : 1..MaxWrites \cup {Null}]
Stage == [kind : Kinds, order : Nat]
Op == [do : {"create", "bulk", "count", "add"} \cup MovesOne,
       next : {"deals", "stage", "write"},
       deals : SUBSET Deals, found : SUBSET Deals,
       to : Stages, kind : Kinds \cup {Null}, order : Nat]

ASSUME NullAssumption ==
    /\ Null \notin Deals \cup Stages \cup Kinds \cup Nat
    /\ Null \notin Deal /\ Null \notin Stage /\ Null \notin Op
    /\ \A ss \in SUBSET Stages : Null \notin [ss -> Nat]

VARIABLES
    deal,    \* Deal rows
    stage,   \* PipelineStage rows
    op,      \* the action each user has under way
    moved,   \* history: where the last logged move took a deal
    edited,  \* history: deals the edit form wrote since
    recast,  \* history: stages whose kind was changed while it mattered
    now      \* writes so far

vars == <<deal, stage, op, moved, edited, recast, now>>
history == <<moved, edited, recast>>

Exists(d) == deal[d] # Null
Present(s) == stage[s] # Null
Current == {s \in Stages : Present(s)}
\* Ids are never used again.
Unused(x) == \A u \in Users : op[u] # Null => x \notin {op[u].to} \cup op[u].deals
In(s) == {d \in Deals : Exists(d) /\ deal[d].stage = s}

TypeOK ==
    /\ deal \in [Deals -> Deal \cup {Null}]
    /\ stage \in [Stages -> Stage \cup {Null}]
    /\ op \in [Users -> Op \cup {Null}]
    /\ moved \in [Deals -> Stages \cup {Null}]
    /\ edited \subseteq Deals
    /\ recast \subseteq Stages
    /\ now \in 0..MaxWrites

-----------------------------------------------------------------------------
(* Helpers *)

\* Mutant: the date stays when a deal leaves Won.
StampedOnEntry(d, kind) ==
    IF kind = "WON" THEN now' ELSE IF Exists(d) THEN deal[d].wonAt ELSE Null

\* wonAtForStage
WonAtForStage(d, kind) == IF kind = "WON" THEN now' ELSE Null

Moment == now < MaxWrites /\ now' = now + 1

Idle(u) == op[u] = Null
At(u, do, next) == ~Idle(u) /\ op[u].do = do /\ op[u].next = next
Done(u) == op' = [op EXCEPT ![u] = Null]

Begin(u, do, next, ds, s) ==
    op' = [op EXCEPT ![u] = [do |-> do, next |-> next, deals |-> ds, found |-> {},
                             to |-> s, kind |-> Null, order |-> 0]]

\* Mutant: the highest order itself.
NextOrderTaken ==
    LET orders == {stage[s].order : s \in Current}
    IN  IF orders = {} THEN -1 ELSE CHOOSE n \in orders : \A m \in orders : m <= n

NextOrder ==
    LET orders == {stage[s].order : s \in Current}
    IN  IF orders = {} THEN 0
        ELSE 1 + (CHOOSE n \in orders : \A m \in orders : m <= n)

\* One update of a reorder; the unique index on (workspaceId, order) refuses a
\* number that another stage has.
Renumber(orders, s, n) ==
    IF orders = Null \/ \E t \in DOMAIN orders \ {s} : orders[t] = n
    THEN Null
    ELSE [orders EXCEPT ![s] = n]

Passing(orders, list, offset) ==
    LET after[n \in 0..Len(list)] ==
            IF n = 0 THEN orders ELSE Renumber(after[n - 1], list[n], offset + n - 1)
    IN  after

Pass(orders, list, offset) == Passing(orders, list, offset)[Len(list)]

OrdersNow == [s \in Current |-> stage[s].order]

\* Mutant: without the pass over high numbers.
ReorderedAtOnce(list) == Pass(OrdersNow, list, 0)

\* The two passes of reorderStagesAction; Null is the transaction rolled back.
Reordered(list) == Pass(Pass(OrdersNow, list, Offset), list, 0)

Init ==
    /\ deal = [d \in Deals |-> Null]
    /\ stage = [s \in Stages |->
          CASE s = First -> [kind |-> "OPEN", order |-> 0]
            [] s = Won   -> [kind |-> "WON", order |-> 1]
            [] OTHER     -> Null]
    /\ op = [u \in Users |-> Null]
    /\ moved = [d \in Deals |-> Null]
    /\ edited = {}
    /\ recast = {}
    /\ now = 0

-----------------------------------------------------------------------------
(* Deals: what is read before the write *)

Start(u, do, ds, s) ==
    /\ Idle(u)
    /\ do \in MovesOne => Cardinality(ds) = 1
    /\ do = "create" => ds = {}
    /\ do = "bulk" => ds # {}
    /\ Present(s) /\ \A d \in ds : Exists(d)
    /\ Begin(u, do, IF do \in MovesOne THEN "deals" ELSE "stage", ds, s)
    /\ UNCHANGED <<deal, stage, history, now>>

\* Of a single deal NOT_FOUND ends the action, and so does a drag to the stage
\* where the deal is; a bulk move logs the deals it finds.
ReadDeals(u) ==
    LET found == {d \in op[u].deals : Exists(d)}
        o == [op[u] EXCEPT !.found = found,
                           !.next = IF op[u].do = "bulk" THEN "write" ELSE "stage"]
        stops == op[u].do \in MovesOne /\ found = {}
    IN  /\ ~Idle(u)
        /\ op[u].next = "deals"
        /\ op' = [op EXCEPT ![u] = IF stops THEN Null ELSE
              IF o.do = "drag" /\ op[u].to \in {deal[d].stage : d \in found}
              THEN Null ELSE o]
        /\ UNCHANGED <<deal, stage, history, now>>

ReadStage(u) ==
    LET s == op[u].to
    IN  /\ ~Idle(u)
        /\ op[u].next = "stage"
        /\ op' = [op EXCEPT ![u] =
              IF ~Present(s) THEN Null
              ELSE [op[u] EXCEPT !.kind = stage[s].kind,
                                 !.next = IF op[u].do = "bulk" THEN "deals" ELSE "write"]]
        /\ UNCHANGED <<deal, stage, history, now>>

-----------------------------------------------------------------------------
(* Deals: the write *)

Create(u) ==
    LET s == op[u].to
    IN  /\ At(u, "create", "write")
        /\ Done(u)
        /\ \/ /\ Present(s)
              /\ Moment
              /\ \E d \in Deals :
                    /\ ~Exists(d) /\ Unused(d)
                    /\ deal' = [deal EXCEPT ![d] =
                          [stage |-> s, wonAt |-> WonAtForStage(d, op[u].kind)]]
              /\ UNCHANGED history
           \/ /\ ~Present(s)
              /\ UNCHANGED <<deal, history, now>>
        /\ UNCHANGED stage

\* Mutant: the activities are written first, outside a transaction.
MoveLoggedFirst(u) ==
    LET s == op[u].to
        ds == {d \in op[u].deals : Exists(d) /\ Present(s)}
    IN  /\ At(u, "drag", "write") \/ At(u, "bulk", "write")
        /\ Done(u)
        /\ Moment
        /\ deal' = [d \in Deals |->
              IF d \in ds THEN [stage |-> s, wonAt |-> WonAtForStage(d, op[u].kind)]
              ELSE deal[d]]
        /\ moved' = [d \in Deals |-> IF d \in op[u].found /\ Exists(d) THEN s
                                     ELSE moved[d]]
        /\ edited' = edited \ op[u].found
        /\ UNCHANGED <<stage, recast>>

\* A drag or a bulk move: the deals are updated and an activity is written for
\* each one that was found, in a transaction, which a stage or one of those
\* deals deleted meanwhile makes fail.
Move(u) ==
    LET s == op[u].to
        ds == {d \in op[u].deals : Exists(d)}
        commits == Present(s) /\ \A d \in op[u].found : Exists(d)
    IN  /\ At(u, "drag", "write") \/ At(u, "bulk", "write")
        /\ Done(u)
        /\ \/ /\ commits
              /\ Moment
              /\ deal' = [d \in Deals |->
                    IF d \in ds
                    THEN [stage |-> s, wonAt |-> WonAtForStage(d, op[u].kind)]
                    ELSE deal[d]]
              /\ moved' = [d \in Deals |-> IF d \in op[u].found THEN s ELSE moved[d]]
              /\ edited' = (edited \ op[u].found) \cup (ds \ op[u].found)
              /\ UNCHANGED recast
           \/ /\ ~commits
              /\ UNCHANGED <<deal, history, now>>
        /\ UNCHANGED stage

\* The edit form saves every field, the stage among them, and logs nothing.
Edit(u) ==
    LET s == op[u].to
        ds == {d \in op[u].deals : Exists(d)}
    IN  /\ At(u, "edit", "write")
        /\ Done(u)
        /\ \/ /\ Present(s)
              /\ \E d \in ds :
                    /\ Moment
                    /\ deal' = [deal EXCEPT ![d] =
                          [stage |-> s, wonAt |-> WonAtForStage(d, op[u].kind)]]
                    /\ edited' = edited \cup {d}
              /\ UNCHANGED <<moved, recast>>
           \/ /\ ~Present(s) \/ ds = {}
              /\ UNCHANGED <<deal, history, now>>
        /\ UNCHANGED stage

DeleteDeal(d) ==
    /\ Exists(d)
    /\ deal' = [deal EXCEPT ![d] = Null]
    /\ moved' = [moved EXCEPT ![d] = Null]
    /\ edited' = edited \ {d}
    /\ UNCHANGED <<stage, op, recast, now>>

-----------------------------------------------------------------------------
(* Stages *)

\* createStageAction reads the highest order before it inserts; of two that
\* read the same one the unique index refuses the second.
AddStage(u) ==
    \/ /\ Idle(u)
       /\ \E s \in Stages :
             /\ ~Present(s) /\ Unused(s)
             /\ op' = [op EXCEPT ![u] =
                   [do |-> "add", next |-> "write", deals |-> {}, found |-> {},
                    to |-> s, kind |-> Null, order |-> NextOrder]]
       /\ UNCHANGED <<deal, stage, history, now>>
    \/ /\ At(u, "add", "write")
       /\ Done(u)
       /\ \/ /\ \A s \in Current : stage[s].order # op[u].order
             /\ Moment
             /\ \E kind \in Kinds :
                   stage' = [stage EXCEPT ![op[u].to] =
                                [kind |-> kind, order |-> op[u].order]]
             /\ recast' = recast \ {op[u].to}
          \/ /\ \E s \in Current : stage[s].order = op[u].order
             /\ UNCHANGED <<stage, recast, now>>
       /\ UNCHANGED <<deal, moved, edited>>

\* updateStageAction may change the kind; the deals of the stage, and those
\* about to enter it, keep the date of the old one.
EditStage(s, kind) ==
    LET matters == \/ In(s) # {}
                   \/ \E u \in Users : ~Idle(u) /\ op[u].to = s /\ op[u].kind # Null
    IN  /\ Present(s)
        /\ stage[s].kind # kind
        /\ Moment
        /\ stage' = [stage EXCEPT ![s].kind = kind]
        /\ recast' = IF matters THEN recast \cup {s} ELSE recast
        /\ UNCHANGED <<deal, op, moved, edited>>

\* deleteStageAction counts the deals of the stage; the delete comes later.
CountDeals(u, s) ==
    /\ Idle(u)
    /\ Present(s)
    /\ In(s) = {}
    /\ Begin(u, "count", "write", {}, s)
    /\ UNCHANGED <<deal, stage, history, now>>

\* onDelete: Restrict refuses a stage that deals have entered since.
DropStage(u) ==
    /\ At(u, "count", "write")
    /\ Done(u)
    /\ stage' = [stage EXCEPT ![op[u].to] = IF In(op[u].to) = {} THEN Null ELSE @]
    /\ UNCHANGED <<deal, history, now>>

\* The list has an id of the workspace for each of its stages, possibly one
\* twice; it is checked against the stages and applied in a transaction.
Reorder(list) ==
    LET orders == Reordered(list)
    IN  /\ Len(list) = Cardinality(Current)
        /\ Moment
        /\ stage' = IF orders = Null THEN stage
                    ELSE [s \in Stages |-> IF s \in Current
                             THEN [stage[s] EXCEPT !.order = orders[s]] ELSE stage[s]]
        /\ UNCHANGED <<deal, op, history>>

-----------------------------------------------------------------------------
Next ==
    \/ \E u \in Users, s \in Stages :
         \E do \in MovesOne \cup {"create", "bulk"}, ds \in SUBSET Deals :
            Start(u, do, ds, s)
    \/ \E u \in Users :
         ReadDeals(u) \/ ReadStage(u) \/ Create(u) \/ Move(u) \/ Edit(u)
    \/ \E d \in Deals : DeleteDeal(d)
    \/ \E u \in Users : AddStage(u) \/ DropStage(u) \/ \E s \in Stages : CountDeals(u, s)
    \/ \E s \in Stages, kind \in Kinds : EditStage(s, kind)
    \/ \E list \in TupleOf(Current, Cardinality(Current)) : Reorder(list)

Spec == Init /\ [][Next]_vars

-----------------------------------------------------------------------------
(* Properties *)

\* A deal whose stage is of kind Won has a revenue date, and no other has, but
\* for stages whose kind was changed under deals in them or on their way.
WonAtFollowsKind ==
    \A d \in Deals :
        Exists(d) /\ deal[d].stage \in Current \ recast =>
            (deal[d].wonAt # Null <=> stage[deal[d].stage].kind = "WON")

\* No deal loses its stage to a removal that counted before the deal came in.
DealsKeepTheirStage == \A d \in Deals : Exists(d) => Present(deal[d].stage)

\* Revenue counts exactly the deals in Won ("every stage write in this file
\* routes through here"): every deal is in a stage of the workspace and has a
\* date if and only if that is a Won stage, whoever moves, edits and deletes
\* deals and stages at the same time, unless somebody changed the stage's kind.
RevenueFollowsStages == DealsKeepTheirStage /\ WonAtFollowsKind

\* The last move in a deal's timeline leads to the stage it is in, until the
\* edit form is used: moves that fail half-way are logged for no deal.
LastMoveIsTrue ==
    \A d \in Deals :
        Exists(d) /\ moved[d] # Null /\ d \notin edited => moved[d] = deal[d].stage

\* "Avoid unique (workspaceId, order) collisions": any order of the stages of
\* the workspace can be saved, whatever numbers removals have left behind,
\* while they are below the offset.
EveryOrderCanBeSaved ==
    (\A s \in Current : stage[s].order < Offset) =>
        \A list \in TupleOf(Current, Cardinality(Current)) :
            Range(list) = Current =>
                Reordered(list) = [s \in Current |-> (CHOOSE i \in DOMAIN list : list[i] = s) - 1]

\* "Stamped once, on the transition into Won": while a deal stays in Won its
\* date stays.
StampedOnce ==
    [][\A d \in Deals :
          Exists(d) /\ deal'[d] # Null /\ deal[d].wonAt # Null
          /\ deal'[d].stage = deal[d].stage =>
              deal'[d].wonAt = deal[d].wonAt]_vars
=============================================================================
