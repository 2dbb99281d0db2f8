------------------------- MODULE DealPipelineProofs -------------------------
(***************************************************************************)
(* Types of DealPipeline, that dates and the timeline follow the stages,   *)
(* that no deal loses its stage, and that any order of the stages can be   *)
(* saved, for any number of deals, stages, users and writes.               *)
(***************************************************************************)
EXTENDS DealPipeline, SequenceTheorems, FiniteSetTheorems, WellFoundedInduction, TLAPS

-----------------------------------------------------------------------------
(* Induction over the naturals, with a set for the predicate *)

Less == {ss \in Nat \X Nat : ss[1] < ss[2]}

LEMMA LeastNumber ==
    ASSUME NEW T \in SUBSET Nat, T # {}
    PROVE  \E n \in T : \A m \in T : n <= m
<1>1. IsWellFoundedOn(Less, Nat)
    <2>1. Less = OpToRel(<, Nat)
        BY DEF Less, OpToRel
    <2> QED BY <2>1, NatLessThanWellFounded
<1>2. PICK x \in T : \A y \in T : ~(<<y, x>> \in Less)
    BY <1>1, WFMin
<1>3. ASSUME NEW y \in T, ~(x <= y) PROVE FALSE
    <2>1. y < x /\ x \in Nat /\ y \in Nat
        BY <1>3
    <2>2. <<y, x>> \in Nat \X Nat /\ <<y, x>>[1] < <<y, x>>[2]
        BY <2>1
    <2>3. <<y, x>> \in Less
        BY <2>2 DEF Less
    <2> QED BY <1>2, <2>3
<1> QED BY <1>3

LEMMA UpTo ==
    ASSUME NEW n \in Nat, NEW P \in SUBSET Nat, 0 \in P,
           \A i \in 0..n-1 : i \in P => i + 1 \in P
    PROVE  0..n \subseteq P
<1> SUFFICES ASSUME NEW T, T = {i \in 0..n : i \notin P}, T # {} PROVE FALSE
    OBVIOUS
<1>1. PICK k \in T : \A i \in T : k <= i
    BY LeastNumber
<1>2. k \in 1..n /\ k \notin P
    BY <1>1
<1>3. k - 1 \in 0..n-1 /\ k - 1 \notin T
    BY <1>1, <1>2
<1>4. k - 1 \in P
    BY <1>3
<1> QED BY <1>2, <1>3, <1>4

LEMMA Greatest ==
    ASSUME NEW S \in SUBSET Nat, S # {}, IsFiniteSet(S)
    PROVE  \E n \in S : \A m \in S : m <= n
<1> DEFINE HasGreatest(T) == \E n \in T : \A m \in T : m <= n
           Sizes == {k \in Nat : \E T \in SUBSET S : T # {} /\ Cardinality(T) = k
                                                     /\ ~HasGreatest(T)}
<1>1. SUFFICES ASSUME Sizes # {} PROVE FALSE
    <2>1. Cardinality(S) \in Nat
        BY FS_CardinalityType
    <2> QED BY <2>1
<1>2. PICK k \in Sizes : \A j \in Sizes : k <= j
    BY <1>1, LeastNumber
<1>3. PICK T \in SUBSET S : T # {} /\ Cardinality(T) = k /\ ~HasGreatest(T)
    BY <1>2
<1>4. PICK x \in T : TRUE
    BY <1>3
<1>5. IsFiniteSet(T)
    BY FS_Subset
<1>6. Cardinality(T \ {x}) = k - 1 /\ k - 1 \in Nat
    <2>1. Cardinality(T \ {x}) = k - 1 /\ IsFiniteSet(T \ {x})
        BY <1>3, <1>4, <1>5, FS_RemoveElement
    <2> QED BY <2>1, FS_CardinalityType
<1>7. CASE T = {x}
    BY <1>3, <1>7
<1>8. CASE T # {x}
    <2>1. k - 1 \notin Sizes
        BY <1>2, <1>6
    <2>2. PICK n \in T \ {x} : \A m \in T \ {x} : m <= n
        BY <1>4, <1>6, <1>8, <2>1
    <2>3. x \in Nat /\ n \in Nat
        OBVIOUS
    <2>4. HasGreatest(T)
        <3>1. CASE x <= n
            BY <2>2, <3>1
        <3>2. CASE n <= x
            BY <1>4, <2>2, <2>3, <3>2
        <3> QED BY <2>3, <3>1, <3>2
    <2> QED BY <1>3, <2>4
<1> QED BY <1>7, <1>8

-----------------------------------------------------------------------------
(* The passes of a reorder *)

IsPassing(f, orders, list, offset, n) ==
    f = [i \in 0..n |-> IF i = 0 THEN orders
                        ELSE Renumber(f[i - 1], list[i], offset + i - 1)]

LEMMA PassingExists ==
    ASSUME NEW orders, NEW list, NEW offset, NEW n \in Nat
    PROVE  \E f : IsPassing(f, orders, list, offset, n)
<1> DEFINE step(old, i) == Renumber(old, list[i], offset + i - 1)
           P == {k \in Nat : \E f : f = [i \in 0..k |->
                                IF i = 0 THEN orders ELSE step(f[i - 1], i)]}
<1>1. 0 \in P
    <2>1. [i \in 0..0 |-> orders] = [i \in 0..0 |->
              IF i = 0 THEN orders ELSE step([j \in 0..0 |-> orders][i - 1], i)]
        OBVIOUS
    <2> QED BY <2>1
<1>2. ASSUME NEW k \in 0..n-1, k \in P PROVE k + 1 \in P
    <2>1. PICK f : f = [i \in 0..k |-> IF i = 0 THEN orders ELSE step(f[i - 1], i)]
        BY <1>2
    <2> DEFINE g == [i \in 0..k+1 |-> IF i = k + 1 THEN step(f[k], k + 1) ELSE f[i]]
    <2> HIDE DEF step
    <2>2. ASSUME NEW i \in 0..k+1
          PROVE  g[i] = IF i = 0 THEN orders ELSE step(g[i - 1], i)
        <3>1. CASE i = k + 1
            BY <3>1
        <3>2. CASE i \in 0..k
            <4>1. g[i] = f[i] /\ (i # 0 => g[i - 1] = f[i - 1])
                BY <3>2
            <4> QED BY <2>1, <3>2, <4>1
        <3> QED BY <3>1, <3>2
    <2>3. g = [i \in 0..k+1 |-> IF i = 0 THEN orders ELSE step(g[i - 1], i)]
        BY <2>2
    <2> HIDE DEF g
    <2> QED BY <2>3
<1>3. n \in P
    <2> HIDE DEF P
    <2>1. P \in SUBSET Nat
        BY DEF P
    <2>2. 0..n \subseteq P
        BY <1>1, <1>2, <2>1, UpTo
    <2> QED BY <2>2
<1> QED BY <1>3 DEF IsPassing

Steps(f, orders, list, offset) ==
    /\ f[0] = orders
    /\ \A i \in 1..Len(list) : f[i] = Renumber(f[i - 1], list[i], offset + i - 1)

LEMMA PassingSteps ==
    ASSUME NEW orders, NEW S, NEW list \in Seq(S), NEW offset
    PROVE  Steps(Passing(orders, list, offset), orders, list, offset)
<1> DEFINE f == Passing(orders, list, offset)
<1>1. Len(list) \in Nat
    OBVIOUS
<1>2. f = [i \in 0..Len(list) |-> IF i = 0 THEN orders
              ELSE Renumber(f[i - 1], list[i], offset + i - 1)]
    <2>1. f = CHOOSE h : IsPassing(h, orders, list, offset, Len(list))
        BY DEF Passing, IsPassing
    <2>2. \E h : IsPassing(h, orders, list, offset, Len(list))
        BY <1>1, PassingExists
    <2>3. IsPassing(f, orders, list, offset, Len(list))
        BY <2>1, <2>2
    <2> QED BY <2>3 DEF IsPassing
<1> HIDE DEF f
<1>3. f[0] = orders
    BY <1>1, <1>2
<1>4. ASSUME NEW i \in 1..Len(list)
      PROVE  f[i] = Renumber(f[i - 1], list[i], offset + i - 1)
    BY <1>1, <1>2
<1> QED BY <1>3, <1>4 DEF f, Steps

LEMMA PassType ==
    ASSUME NEW C \in SUBSET Stages, NEW orders \in [C -> Nat] \cup {Null},
           NEW list \in Seq(C), NEW offset \in Nat
    PROVE  Pass(orders, list, offset) \in [C -> Nat] \cup {Null}
<1> DEFINE f == Passing(orders, list, offset)
           P == {i \in Nat : f[i] \in [C -> Nat] \cup {Null}}
<1>1. Len(list) \in Nat
    OBVIOUS
<1>2. /\ f[0] = orders
      /\ \A i \in 1..Len(list) : f[i] = Renumber(f[i - 1], list[i], offset + i - 1)
    BY PassingSteps DEF Steps
<1> HIDE DEF f
<1>3. ASSUME NEW i \in 0..Len(list)-1, i \in P PROVE i + 1 \in P
    <2>1. f[i + 1] = Renumber(f[i], list[i + 1], offset + i)
        BY <1>1, <1>2
    <2>2. offset + i \in Nat
        BY <1>1
    <2> QED BY <1>3, <2>1, <2>2 DEF Renumber
<1>4. 0 \in P /\ P \in SUBSET Nat
    BY <1>2
<1>5. 0..Len(list) \subseteq P
    <2> HIDE DEF P
    <2> QED BY <1>1, <1>3, <1>4, UpTo
<1> QED BY <1>1, <1>5 DEF f, Pass

\* place[s] is where s is in the list.
Places(place, list, C) ==
    /\ place \in [C -> 1..Len(list)]
    /\ \A s \in C : list[place[s]] = s
    /\ \A i \in 1..Len(list) : list[i] \in C /\ place[list[i]] = i

\* No stage that is still to come holds the number of one before it.
Clear(orders, place, list, C, offset) ==
    \A s \in C, i \in 1..Len(list) : place[s] > i => orders[s] # offset + i - 1

LEMMA PassPlaces ==
    ASSUME NEW C \in SUBSET Stages, NEW orders \in [C -> Nat],
           NEW list \in Seq(C), NEW offset \in Nat, NEW place,
           Places(place, list, C), Clear(orders, place, list, C, offset)
    PROVE  Pass(orders, list, offset) = [s \in C |-> offset + place[s] - 1]
<1> DEFINE f == Passing(orders, list, offset)
<1>1. Len(list) \in Nat
    OBVIOUS
<1>2. Steps(f, orders, list, offset)
    BY PassingSteps
<1> HIDE DEF f
<1> DEFINE n == Len(list)
           upto(i) == [s \in C |-> IF place[s] <= i THEN offset + place[s] - 1 ELSE orders[s]]
           P == {i \in Nat : f[i] = upto(i)}
<1>3. /\ \A s \in C : place[s] \in 1..n /\ list[place[s]] = s
      /\ \A i \in 1..n : list[i] \in C /\ place[list[i]] = i
    BY DEF Places
<1>4. \A s \in C, i \in 1..n : place[s] > i => orders[s] # offset + i - 1
    BY DEF Clear
<1>5. n \in Nat
    BY <1>1
<1>6. /\ f[0] = orders
      /\ \A i \in 1..n : f[i] = Renumber(f[i - 1], list[i], offset + i - 1)
    BY <1>2 DEF Steps
<1>7. Pass(orders, list, offset) = f[n]
    BY DEF f, Pass
<1> HIDE DEF n
<1>8. ASSUME NEW i \in 0..n-1, f[i] = upto(i) PROVE f[i + 1] = upto(i + 1)
    <2> DEFINE t == list[i + 1]
    <2>0. i \in Nat /\ i + 1 \in 1..n
        BY <1>5
    <2>1. f[i + 1] = Renumber(upto(i), t, offset + i)
        BY <1>6, <1>8, <2>0
    <2>2. t \in C /\ place[t] = i + 1
        BY <1>3, <2>0
    <2> HIDE DEF t
    <2>3. ASSUME NEW s \in C \ {t} PROVE upto(i)[s] # offset + i
        <3>1. place[s] \in 1..n /\ place[s] # i + 1
            <4>1. CASE place[s] = i + 1
                BY <1>3, <2>2, <4>1
            <4> QED BY <1>3, <4>1
        <3>2. CASE place[s] <= i
            BY <1>5, <2>0, <3>1, <3>2
        <3>3. CASE place[s] > i + 1
            <4>1. orders[s] # offset + (i + 1) - 1
                BY <1>4, <2>0, <3>3
            <4> QED BY <1>5, <2>0, <3>1, <3>3, <4>1
        <3> QED BY <1>5, <2>0, <3>1, <3>2, <3>3
    <2>4. upto(i) \in [C -> Nat]
        <3>1. ASSUME NEW s \in C PROVE offset + place[s] - 1 \in Nat /\ orders[s] \in Nat
            BY <1>3, <1>5
        <3> QED BY <3>1
    <2>5. upto(i) # Null
        BY <2>4, NullAssumption
    <2>6. Renumber(upto(i), t, offset + i) = [upto(i) EXCEPT ![t] = offset + i]
        BY <2>3, <2>5 DEF Renumber
    <2>7. [upto(i) EXCEPT ![t] = offset + i] = upto(i + 1)
        <3>1. ASSUME NEW s \in C
              PROVE  [upto(i) EXCEPT ![t] = offset + i][s] = upto(i + 1)[s]
            <4>1. place[s] \in Nat /\ (s = t <=> place[s] = i + 1)
                BY <1>3, <1>5, <2>0, <2>2
            <4>2. CASE s = t
                <5>1. upto(i + 1)[t] = offset + (i + 1) - 1
                    BY <2>2
                <5>2. [upto(i) EXCEPT ![t] = offset + i][t] = offset + i
                    BY <2>2, <2>4
                <5>3. offset + (i + 1) - 1 = offset + i
                    BY <2>0
                <5> QED BY <4>2, <5>1, <5>2, <5>3
            <4>3. CASE s # t
                <5>1. place[s] <= i <=> place[s] <= i + 1
                    BY <2>0, <4>1, <4>3
                <5> QED BY <4>3, <5>1
            <4> QED BY <4>2, <4>3
        <3> QED BY <3>1
    <2> QED BY <2>1, <2>6, <2>7
<1>9. 0 \in P /\ P \in SUBSET Nat
    <2>1. upto(0) = orders
        BY <1>3, <1>5
    <2> QED BY <1>6, <2>1
<1>10. 0..n \subseteq P
    <2>1. ASSUME NEW i \in 0..n-1, i \in P PROVE i + 1 \in P
        <3>1. f[i + 1] = upto(i + 1)
            BY <1>8, <2>1
        <3>2. i + 1 \in Nat
            BY <1>5
        <3> HIDE DEF upto
        <3> QED BY <3>1, <3>2
    <2> HIDE DEF P
    <2> QED BY <1>5, <1>9, <2>1, UpTo
<1>11. f[n] = upto(n)
    BY <1>5, <1>10
<1>12. upto(n) = [s \in C |-> offset + place[s] - 1]
    <2>1. ASSUME NEW s \in C PROVE place[s] <= n
        BY <1>3, <1>5
    <2> QED BY <2>1
<1> QED BY <1>7, <1>11, <1>12

\* Every stage of the workspace, listed once, gets its place: the first pass moves
\* all of them above the numbers in use, the second one back below.
LEMMA OrdersSaved ==
    ASSUME TypeOK
    PROVE  EveryOrderCanBeSaved
<1> SUFFICES ASSUME \A s \in Current : stage[s].order < Offset,
                    NEW list \in TupleOf(Current, Cardinality(Current)),
                    Range(list) = Current
             PROVE  Reordered(list) =
                        [s \in Current |-> (CHOOSE i \in DOMAIN list : list[i] = s) - 1]
    BY DEF EveryOrderCanBeSaved
<1> DEFINE n == Cardinality(Current)
           place == [s \in Current |-> CHOOSE i \in DOMAIN list : list[i] = s]
           high == [s \in Current |-> Offset + place[s] - 1]
<1>1. IsFiniteSet(Current) /\ n \in Nat /\ Current \in SUBSET Stages
    BY StageAssumption, FS_Subset, FS_CardinalityType DEF Current
<1>2. list \in Seq(Current) /\ Len(list) = n /\ DOMAIN list = 1..n
    BY <1>1 DEF TupleOf
<1>3. \A i, j \in 1..n : list[i] = list[j] => i = j
    <2>1. list \in Surjection(1..n, Current)
        BY <1>2 DEF Surjection, Range
    <2>2. IsFiniteSet(1..n) /\ Cardinality(1..n) = n
        BY <1>1, FS_Interval
    <2>3. list \in Injection(1..n, Current)
        BY <1>1, <2>1, <2>2, FS_SurjSameCardinalityImpliesInj
    <2> QED BY <2>3 DEF Injection, IsInjective
<1>4. /\ \A s \in Current : place[s] \in 1..n /\ list[place[s]] = s
      /\ \A i \in 1..n : list[i] \in Current /\ place[list[i]] = i
    <2>1. ASSUME NEW s \in Current PROVE place[s] \in 1..n /\ list[place[s]] = s
        <3>1. \E i \in DOMAIN list : list[i] = s
            BY DEF Range
        <3> QED BY <1>2, <3>1
    <2>2. ASSUME NEW i \in 1..n PROVE list[i] \in Current /\ place[list[i]] = i
        <3>1. list[i] \in Current
            BY <1>2
        <3>2. place[list[i]] \in 1..n /\ list[place[list[i]]] = list[i]
            BY <2>1, <3>1
        <3> QED BY <1>3, <3>1, <3>2
    <2> QED BY <2>1, <2>2
<1>5. OrdersNow \in [Current -> Nat] /\ \A s \in Current : OrdersNow[s] < Offset
    BY DEF OrdersNow, TypeOK, Current, Present, Stage
<1> HIDE DEF place
<1>6. Places(place, list, Current)
    <2>1. place \in [Current -> 1..n]
        BY <1>4 DEF place
    <2> QED BY <1>2, <1>4, <2>1 DEF Places
<1>7. Pass(OrdersNow, list, Offset) = high
    <2>1. Clear(OrdersNow, place, list, Current, Offset)
        <3>1. ASSUME NEW s \in Current, NEW i \in 1..Len(list)
              PROVE  OrdersNow[s] # Offset + i - 1
            <4>1. OrdersNow[s] \in Nat /\ OrdersNow[s] < Offset /\ i >= 1 /\ i \in Nat
                BY <1>1, <1>2, <1>5
            <4> QED BY <4>1, BoundAssumption
        <3> QED BY <3>1 DEF Clear
    <2> QED BY <1>1, <1>2, <1>5, <1>6, <2>1, PassPlaces, BoundAssumption
<1>8. high \in [Current -> Nat]
    <2>1. ASSUME NEW s \in Current PROVE Offset + place[s] - 1 \in Nat
        BY <1>1, <1>4, BoundAssumption
    <2> QED BY <2>1
<1>9. Clear(high, place, list, Current, 0)
    <2>1. ASSUME NEW s \in Current, NEW i \in 1..Len(list), place[s] > i
          PROVE  high[s] # 0 + i - 1
        <3>1. place[s] \in Nat /\ i \in Nat
            BY <1>1, <1>2, <1>4
        <3> QED BY <2>1, <3>1, BoundAssumption
    <2> HIDE DEF high
    <2> QED BY <2>1 DEF Clear
<1>10. Pass(high, list, 0) = [s \in Current |-> 0 + place[s] - 1]
    <2> HIDE DEF high
    <2> QED BY <1>1, <1>2, <1>6, <1>8, <1>9, PassPlaces
<1>11. [s \in Current |-> 0 + place[s] - 1] =
       [s \in Current |-> (CHOOSE i \in DOMAIN list : list[i] = s) - 1]
    <2>1. ASSUME NEW s \in Current
          PROVE  0 + place[s] - 1 = (CHOOSE i \in DOMAIN list : list[i] = s) - 1
        <3>1. place[s] = CHOOSE i \in DOMAIN list : list[i] = s
            BY DEF place
        <3>2. place[s] \in Nat
            BY <1>1, <1>4
        <3> QED BY <3>1, <3>2
    <2> QED BY <2>1
<1>12. Reordered(list) = Pass(high, list, 0)
    <2> HIDE DEF high
    <2> QED BY <1>7 DEF Reordered
<1> HIDE DEF high
<1> QED BY <1>10, <1>11, <1>12

LEMMA OrdersType ==
    ASSUME TypeOK, NEW list \in Seq(Current)
    PROVE  Reordered(list) \in [Current -> Nat] \cup {Null}
<1>1. OrdersNow \in [Current -> Nat] /\ Current \in SUBSET Stages
    BY DEF OrdersNow, TypeOK, Current, Present, Stage
<1>2. Pass(OrdersNow, list, Offset) \in [Current -> Nat] \cup {Null}
    BY <1>1, PassType, BoundAssumption
<1>3. Pass(Pass(OrdersNow, list, Offset), list, 0) \in [Current -> Nat] \cup {Null}
    BY <1>1, <1>2, PassType
<1> QED BY <1>3 DEF Reordered

LEMMA NextOrderType ==
    ASSUME TypeOK
    PROVE  NextOrder \in Nat
<1> DEFINE orders == {stage[s].order : s \in Current}
<1>1. IsFiniteSet(Current)
    BY StageAssumption, FS_Subset DEF Current
<1>2. orders \in SUBSET Nat
    BY DEF TypeOK, Current, Present, Stage
<1>3. IsFiniteSet(orders)
    <2> DEFINE f == [s \in Current |-> stage[s].order]
    <2>1. f \in Surjection(Current, orders)
        BY DEF Surjection
    <2> QED BY <1>1, <2>1, FS_Surjection
<1> HIDE DEF orders
<1>4. CASE orders # {}
    <2>1. \E n \in orders : \A m \in orders : m <= n
        BY <1>2, <1>3, <1>4, Greatest
    <2>2. (CHOOSE n \in orders : \A m \in orders : m <= n) \in Nat
        BY <1>2, <2>1
    <2> QED BY <1>4, <2>2 DEF NextOrder, orders
<1> QED BY <1>4 DEF NextOrder, orders

-----------------------------------------------------------------------------
(* The inductive invariant *)

\* What an action has read: the kind of its stage, unless that was changed, and a
\* stage about to be added is not there yet.
OpOK(o) ==
    /\ o.found \subseteq o.deals
    /\ o.do \in MovesOne \cup {"create", "bulk"} /\ o.next = "write" => o.kind # Null
    /\ o.do = "bulk" /\ o.next = "deals" => o.kind # Null
    /\ o.kind # Null /\ Present(o.to) /\ o.to \notin recast => o.kind = stage[o.to].kind
    /\ o.do = "add" => ~Present(o.to)

OpInv == \A u \in Users : op[u] # Null => OpOK(op[u])

\* Nobody else is at work on a stage about to be added.
AddInv ==
    \A u, v \in Users :
        u # v /\ op[u] # Null /\ op[v] # Null /\ op[u].do = "add" => op[u].to # op[v].to

MovedInv == LastMoveIsTrue /\ \A d \in Deals : ~Exists(d) => moved[d] = Null

IInv == TypeOK /\ OpInv /\ AddInv /\ MovedInv /\ WonAtFollowsKind /\ DealsKeepTheirStage

LEMMA InitIInv == Init => IInv
<1> SUFFICES ASSUME Init PROVE IInv
    OBVIOUS
<1>1. TypeOK
    BY StageAssumption, BoundAssumption DEF Init, TypeOK, Stage, Kinds
<1> QED BY <1>1
    DEF Init, IInv, OpInv, AddInv, MovedInv, LastMoveIsTrue, WonAtFollowsKind,
        DealsKeepTheirStage, Exists

-----------------------------------------------------------------------------
(* Steps that only read *)

\* The tables and the history stay; one action goes on.
LEMMA Reading ==
    ASSUME IInv, NEW u \in Users, NEW o \in Op, OpOK(o),
           op' = [op EXCEPT ![u] = o],
           \A v \in Users \ {u} : op[v] # Null /\ "add" \in {o.do, op[v].do}
                                  => op[v].to # o.to,
           UNCHANGED <<deal, stage, history, now>>
    PROVE  IInv'
<1>1. UNCHANGED <<deal, stage, moved, edited, recast, now>>
    BY DEF history
<1>2. TypeOK'
    BY <1>1 DEF IInv, TypeOK
<1>3. OpInv'
    <2> SUFFICES ASSUME NEW v \in Users, op'[v] # Null PROVE OpOK(op[v])'
        BY DEF OpInv
    <2>1. op[v]' = IF v = u THEN o ELSE op[v]
        BY DEF IInv, TypeOK
    <2> QED BY <1>1, <2>1 DEF IInv, OpInv, OpOK, Present
<1>4. AddInv'
    <2>1. \A v \in Users : op'[v] = IF v = u THEN o ELSE op[v]
        BY DEF IInv, TypeOK
    <2> QED BY <2>1 DEF IInv, AddInv
<1> QED BY <1>1, <1>2, <1>3, <1>4
    DEF IInv, MovedInv, LastMoveIsTrue, WonAtFollowsKind, DealsKeepTheirStage,
        Exists, Present, Current

\* An action ends, and nothing it knew of is disturbed for the others.
LEMMA Ending ==
    ASSUME IInv, NEW u \in Users, Done(u), UNCHANGED <<stage, recast>>
    PROVE  /\ op' \in [Users -> Op \cup {Null}]
           /\ OpInv' /\ AddInv'
<1>1. \A v \in Users : op'[v] = IF v = u THEN Null ELSE op[v]
    BY DEF IInv, TypeOK, Done
<1>2. op' \in [Users -> Op \cup {Null}]
    BY DEF IInv, TypeOK, Done
<1> QED BY <1>1, <1>2 DEF IInv, OpInv, OpOK, AddInv, Present

LEMMA GivingUp ==
    ASSUME IInv, NEW u \in Users, Done(u), UNCHANGED <<deal, stage, history, now>>
    PROVE  IInv'
<1>1. UNCHANGED <<deal, stage, moved, edited, recast, now>>
    BY DEF history
<1>2. op' \in [Users -> Op \cup {Null}] /\ OpInv' /\ AddInv'
    BY <1>1, Ending
<1> QED BY <1>1, <1>2
    DEF IInv, TypeOK, MovedInv, LastMoveIsTrue, WonAtFollowsKind, DealsKeepTheirStage,
        Exists, Present, Current

LEMMA StartStep ==
    ASSUME IInv, NEW u \in Users, NEW s \in Stages,
           NEW do \in MovesOne \cup {"create", "bulk"}, NEW ds \in SUBSET Deals,
           Start(u, do, ds, s)
    PROVE  IInv'
<1> DEFINE o == [do |-> do, next |-> IF do \in MovesOne THEN "deals" ELSE "stage",
                 deals |-> ds, found |-> {}, to |-> s, kind |-> Null, order |-> 0]
<1>1. o \in Op /\ OpOK(o) /\ o.do # "add" /\ o.to = s
    BY DEF Op, OpOK, MovesOne
<1>2. op' = [op EXCEPT ![u] = o] /\ UNCHANGED <<deal, stage, history, now>> /\ Present(s)
    BY DEF Start, Begin
<1>3. \A v \in Users \ {u} : op[v] # Null /\ "add" \in {o.do, op[v].do} => op[v].to # o.to
    BY <1>1, <1>2 DEF IInv, OpInv, OpOK
<1> HIDE DEF o
<1> QED BY <1>1, <1>2, <1>3, Reading

LEMMA ReadDealsStep ==
    ASSUME IInv, NEW u \in Users, ReadDeals(u)
    PROVE  IInv'
<1> DEFINE found == {d \in op[u].deals : Exists(d)}
           o == [op[u] EXCEPT !.found = found,
                              !.next = IF op[u].do = "bulk" THEN "write" ELSE "stage"]
<1>1. op[u] \in Op /\ op[u].next = "deals" /\ OpOK(op[u]) /\ op[u] # Null
    BY DEF ReadDeals, Idle, IInv, TypeOK, OpInv
<1>2. UNCHANGED <<deal, stage, history, now>>
    BY DEF ReadDeals
<1>3. CASE op' = [op EXCEPT ![u] = Null]
    BY <1>2, <1>3, GivingUp DEF Done
<1>4. CASE op' = [op EXCEPT ![u] = o]
    <2>1. o \in Op
        BY <1>1 DEF Op
    <2>2. OpOK(o) /\ o.do = op[u].do /\ o.to = op[u].to
        BY <1>1 DEF Op, OpOK, MovesOne
    <2>3. \A v \in Users \ {u} : op[v] # Null /\ "add" \in {o.do, op[v].do}
                                 => op[v].to # o.to
        BY <1>1, <2>2 DEF IInv, AddInv
    <2> HIDE DEF o
    <2> QED BY <1>2, <1>4, <2>1, <2>2, <2>3, Reading
<1> QED BY <1>3, <1>4 DEF ReadDeals

LEMMA ReadStageStep ==
    ASSUME IInv, NEW u \in Users, ReadStage(u)
    PROVE  IInv'
<1> DEFINE s == op[u].to
           o == [op[u] EXCEPT !.kind = stage[s].kind,
                              !.next = IF op[u].do = "bulk" THEN "deals" ELSE "write"]
<1>1. op[u] \in Op /\ op[u].next = "stage" /\ OpOK(op[u]) /\ op[u] # Null
    BY DEF ReadStage, Idle, IInv, TypeOK, OpInv
<1>2. UNCHANGED <<deal, stage, history, now>>
    BY DEF ReadStage
<1>3. CASE ~Present(s)
    BY <1>2, <1>3, GivingUp DEF ReadStage, Done
<1>4. CASE Present(s)
    <2>1. op' = [op EXCEPT ![u] = o]
        BY <1>1, <1>4 DEF ReadStage, IInv, TypeOK
    <2>2. stage[s].kind \in Kinds /\ stage[s].kind # Null
        BY <1>1, <1>4, NullAssumption DEF IInv, TypeOK, Present, Stage, Op
    <2>3. o \in Op
        BY <1>1, <2>2 DEF Op
    <2>4. /\ o.do = op[u].do /\ o.to = s /\ o.kind = stage[s].kind
          /\ o.found = op[u].found /\ o.deals = op[u].deals
        BY <1>1 DEF Op
    <2>5. OpOK(o)
        BY <1>1, <2>2, <2>4 DEF OpOK
    <2>6. \A v \in Users \ {u} : op[v] # Null /\ "add" \in {o.do, op[v].do}
                                 => op[v].to # o.to
        BY <1>1, <2>4 DEF IInv, AddInv
    <2> HIDE DEF o
    <2> QED BY <1>2, <2>1, <2>3, <2>5, <2>6, Reading
<1> QED BY <1>3, <1>4

LEMMA CountDealsStep ==
    ASSUME IInv, NEW u \in Users, NEW s \in Stages, CountDeals(u, s)
    PROVE  IInv'
<1> DEFINE o == [do |-> "count", next |-> "write", deals |-> {}, found |-> {},
                 to |-> s, kind |-> Null, order |-> 0]
<1>1. o \in Op /\ OpOK(o) /\ o.do # "add" /\ o.to = s
    BY DEF Op, OpOK, MovesOne
<1>2. op' = [op EXCEPT ![u] = o] /\ UNCHANGED <<deal, stage, history, now>> /\ Present(s)
    BY DEF CountDeals, Begin
<1>3. \A v \in Users \ {u} : op[v] # Null /\ "add" \in {o.do, op[v].do} => op[v].to # o.to
    BY <1>1, <1>2 DEF IInv, OpInv, OpOK
<1> HIDE DEF o
<1> QED BY <1>1, <1>2, <1>3, Reading

-----------------------------------------------------------------------------
(* Deals: the write *)

\* The date a write gives a deal that enters s.
LEMMA Dated ==
    ASSUME IInv, NEW u \in Users, op[u] # Null,
           op[u].do \in MovesOne \cup {"create", "bulk"}, op[u].next = "write",
           Moment, Present(op[u].to), NEW d \in Deals
    PROVE  /\ now' \in 0..MaxWrites
           /\ [stage |-> op[u].to, wonAt |-> WonAtForStage(d, op[u].kind)] \in Deal
           /\ op[u].to \notin recast =>
                (WonAtForStage(d, op[u].kind) # Null <=> stage[op[u].to].kind = "WON")
<1>1. op[u] \in Op /\ OpOK(op[u])
    BY DEF IInv, TypeOK, OpInv
<1>2. now' \in 1..MaxWrites /\ now' # Null
    BY BoundAssumption, NullAssumption DEF IInv, TypeOK, Moment
<1>3. op[u].to \in Stages /\ WonAtForStage(d, op[u].kind) \in 1..MaxWrites \cup {Null}
    BY <1>1, <1>2 DEF Op, WonAtForStage
<1>4. WonAtForStage(d, op[u].kind) # Null <=> op[u].kind = "WON"
    BY <1>2 DEF WonAtForStage
<1>5. op[u].to \notin recast => op[u].kind = stage[op[u].to].kind
    BY <1>1 DEF OpOK
<1> QED BY <1>2, <1>3, <1>4, <1>5 DEF Deal

\* Deals ds enter the stage of u's action, and the timeline is told of some.
LEMMA Entering ==
    ASSUME IInv, NEW u \in Users, op[u] # Null,
           op[u].do \in MovesOne \cup {"create", "bulk"}, op[u].next = "write",
           Done(u), Moment, Present(op[u].to), NEW ds \in SUBSET Deals,
           deal' = [d \in Deals |->
               IF d \in ds THEN [stage |-> op[u].to, wonAt |-> WonAtForStage(d, op[u].kind)]
               ELSE deal[d]],
           moved' \in [Deals -> Stages \cup {Null}], edited' \subseteq Deals,
           MovedInv', UNCHANGED <<stage, recast>>
    PROVE  IInv'
<1>1. /\ op' \in [Users -> Op \cup {Null}]
      /\ OpInv' /\ AddInv'
    BY Ending
<1>2. ASSUME NEW d \in Deals
      PROVE  deal'[d] = IF d \in ds
                        THEN [stage |-> op[u].to, wonAt |-> WonAtForStage(d, op[u].kind)]
                        ELSE deal[d]
    OBVIOUS
<1>3. ASSUME NEW d \in ds
      PROVE  /\ deal'[d] \in Deal /\ deal'[d].stage = op[u].to
             /\ op[u].to \notin recast =>
                  (deal'[d].wonAt # Null <=> stage[op[u].to].kind = "WON")
    BY <1>2, Dated
<1>4. deal' \in [Deals -> Deal \cup {Null}]
    BY <1>2, <1>3 DEF IInv, TypeOK
<1>5. now' \in 0..MaxWrites
    BY BoundAssumption DEF IInv, TypeOK, Moment
<1>6. TypeOK'
    BY <1>1, <1>4, <1>5 DEF IInv, TypeOK
<1>7. WonAtFollowsKind'
    BY <1>2, <1>3 DEF IInv, WonAtFollowsKind, Exists, Current, Present
<1>8. DealsKeepTheirStage'
    BY <1>2, <1>3 DEF IInv, DealsKeepTheirStage, Exists, Present
<1> QED BY <1>1, <1>6, <1>7, <1>8 DEF IInv

LEMMA CreateStep ==
    ASSUME IInv, NEW u \in Users, Create(u)
    PROVE  IInv'
<1>1. At(u, "create", "write") /\ Done(u) /\ stage' = stage
    BY DEF Create
<1>2. CASE ~Present(op[u].to) /\ UNCHANGED <<deal, history, now>>
    BY <1>1, <1>2, GivingUp DEF history
<1>3. ASSUME Present(op[u].to), Moment, UNCHANGED history, NEW d \in Deals, ~Exists(d),
             deal' = [deal EXCEPT ![d] =
                 [stage |-> op[u].to, wonAt |-> WonAtForStage(d, op[u].kind)]]
      PROVE  IInv'
    <2>1. deal' = [e \in Deals |->
              IF e \in {d} THEN [stage |-> op[u].to, wonAt |-> WonAtForStage(e, op[u].kind)]
              ELSE deal[e]]
        BY <1>3 DEF IInv, TypeOK, WonAtForStage
    <2>2. UNCHANGED <<moved, edited, recast>>
        BY <1>3 DEF history
    <2>3. MovedInv'
        BY <1>3, <2>2 DEF IInv, TypeOK, MovedInv, LastMoveIsTrue, Exists
    <2>4. moved' \in [Deals -> Stages \cup {Null}] /\ edited' \subseteq Deals
        BY <2>2 DEF IInv, TypeOK
    <2> QED BY <1>1, <1>3, <2>1, <2>2, <2>3, <2>4, Entering DEF At, Idle
<1> QED BY <1>2, <1>3 DEF Create

LEMMA MoveStep ==
    ASSUME IInv, NEW u \in Users, Move(u)
    PROVE  IInv'
<1> DEFINE s == op[u].to
           ds == {d \in op[u].deals : Exists(d)}
           commits == Present(s) /\ \A d \in op[u].found : Exists(d)
<1>1. /\ op[u] # Null /\ op[u].do \in MovesOne \cup {"bulk"} /\ op[u].next = "write"
      /\ Done(u) /\ stage' = stage
    BY DEF Move, At, Idle, MovesOne
<1>2. CASE ~commits
    <2>1. UNCHANGED <<deal, stage, history, now>>
        BY <1>2 DEF Move
    <2> QED BY <1>1, <2>1, GivingUp
<1>3. CASE commits
    <2>1. /\ Moment
          /\ deal' = [d \in Deals |->
                 IF d \in ds THEN [stage |-> s, wonAt |-> WonAtForStage(d, op[u].kind)]
                 ELSE deal[d]]
          /\ moved' = [d \in Deals |-> IF d \in op[u].found THEN s ELSE moved[d]]
          /\ edited' = (edited \ op[u].found) \cup (ds \ op[u].found)
          /\ recast' = recast
        BY <1>3 DEF Move
    <2>2. op[u] \in Op /\ op[u].found \subseteq op[u].deals
        BY <1>1 DEF IInv, TypeOK, OpInv, OpOK
    <2>3. ds \in SUBSET Deals /\ op[u].found \subseteq ds /\ s \in Stages
        BY <1>3, <2>2 DEF Op
    <2>4. ASSUME NEW d \in Deals
          PROVE  /\ deal'[d] = IF d \in ds THEN [stage |-> s, wonAt |-> WonAtForStage(d, op[u].kind)]
                               ELSE deal[d]
                 /\ moved'[d] = IF d \in op[u].found THEN s ELSE moved[d]
        BY <2>1
    <2>5. \A d \in Deals : [stage |-> s, wonAt |-> WonAtForStage(d, op[u].kind)] # Null
        BY <1>1, <1>3, <2>1, Dated, NullAssumption
    <2>6. MovedInv'
        <3> HIDE DEF s, ds
        <3>1. LastMoveIsTrue'
            BY <2>1, <2>3, <2>4, <2>5 DEF IInv, MovedInv, LastMoveIsTrue, Exists
        <3>2. ASSUME NEW d \in Deals, deal'[d] = Null PROVE moved'[d] = Null
            <4>1. d \notin ds /\ deal[d] = Null
                BY <2>4, <2>5, <3>2
            <4>2. moved[d] = Null
                BY <4>1 DEF IInv, MovedInv, Exists
            <4>3. d \notin op[u].found
                BY <2>3, <4>1
            <4> QED BY <2>4, <4>2, <4>3
        <3> QED BY <3>1, <3>2 DEF MovedInv, Exists
    <2>7. moved' \in [Deals -> Stages \cup {Null}] /\ edited' \subseteq Deals
        BY <2>1, <2>3 DEF IInv, TypeOK
    <2> QED BY <1>1, <1>3, <2>1, <2>3, <2>6, <2>7, Entering
<1> QED BY <1>2, <1>3

LEMMA EditStep ==
    ASSUME IInv, NEW u \in Users, Edit(u)
    PROVE  IInv'
<1>1. At(u, "edit", "write") /\ Done(u) /\ stage' = stage
    BY DEF Edit
<1>2. CASE UNCHANGED <<deal, history, now>>
    BY <1>1, <1>2, GivingUp DEF history
<1>3. ASSUME Present(op[u].to), Moment, UNCHANGED <<moved, recast>>,
             NEW d \in Deals, Exists(d),
             deal' = [deal EXCEPT ![d] =
                 [stage |-> op[u].to, wonAt |-> WonAtForStage(d, op[u].kind)]],
             edited' = edited \cup {d}
      PROVE  IInv'
    <2>1. deal' = [e \in Deals |->
              IF e \in {d} THEN [stage |-> op[u].to, wonAt |-> WonAtForStage(e, op[u].kind)]
              ELSE deal[e]]
        BY <1>3 DEF IInv, TypeOK, WonAtForStage
    <2>2. MovedInv'
        <3>1. \A e \in Deals : e # d => deal'[e] = deal[e]
            BY <1>3 DEF IInv, TypeOK
        <3>2. \A e \in Deals : ~Exists(e) => e # d
            BY <1>3
        <3>3. deal'[d] # Null
            BY <1>1, <1>3, Dated, NullAssumption DEF IInv, TypeOK, At, Idle, MovesOne
        <3> QED BY <1>3, <3>1, <3>2, <3>3 DEF IInv, MovedInv, LastMoveIsTrue, Exists
    <2>3. moved' \in [Deals -> Stages \cup {Null}] /\ edited' \subseteq Deals
        BY <1>3 DEF IInv, TypeOK
    <2> QED BY <1>1, <1>3, <2>1, <2>2, <2>3, Entering DEF At, Idle, MovesOne
<1>4. op[u] \in Op
    BY <1>1 DEF At, Idle, IInv, TypeOK
<1>5. \A d \in op[u].deals : d \in Deals
    BY <1>4 DEF Op
<1> QED BY <1>2, <1>3, <1>5 DEF Edit

LEMMA DeleteDealStep ==
    ASSUME IInv, NEW d \in Deals, DeleteDeal(d)
    PROVE  IInv'
<1>1. UNCHANGED <<stage, op, recast, now>>
    BY DEF DeleteDeal
<1>2. ASSUME NEW e \in Deals
      PROVE  /\ deal'[e] = IF e = d THEN Null ELSE deal[e]
             /\ moved'[e] = IF e = d THEN Null ELSE moved[e]
    BY DEF DeleteDeal, IInv, TypeOK
<1>3. edited' = edited \ {d}
    BY DEF DeleteDeal
<1>4. TypeOK'
    BY <1>1, <1>3 DEF DeleteDeal, IInv, TypeOK
<1>5. MovedInv'
    BY <1>2, <1>3 DEF IInv, MovedInv, LastMoveIsTrue, Exists
<1>6. OpInv' /\ AddInv'
    BY <1>1 DEF IInv, OpInv, OpOK, AddInv, Present
<1>7. WonAtFollowsKind' /\ DealsKeepTheirStage'
    BY <1>1, <1>2
    DEF IInv, WonAtFollowsKind, DealsKeepTheirStage, Exists, Current, Present
<1> QED BY <1>4, <1>5, <1>6, <1>7 DEF IInv

-----------------------------------------------------------------------------
(* Stages *)

LEMMA BeginAdd ==
    ASSUME IInv, NEW u \in Users, NEW s \in Stages, ~Present(s), Unused(s),
           op' = [op EXCEPT ![u] =
               [do |-> "add", next |-> "write", deals |-> {}, found |-> {},
                to |-> s, kind |-> Null, order |-> NextOrder]],
           UNCHANGED <<deal, stage, history, now>>
    PROVE  IInv'
<1> DEFINE o == [do |-> "add", next |-> "write", deals |-> {}, found |-> {},
                 to |-> s, kind |-> Null, order |-> NextOrder]
<1>1. o \in Op /\ OpOK(o) /\ o.to = s
    BY NextOrderType DEF Op, OpOK, MovesOne, IInv
<1>2. \A v \in Users \ {u} : op[v] # Null => op[v].to # o.to
    BY <1>1 DEF Unused
<1>3. op' = [op EXCEPT ![u] = o]
    OBVIOUS
<1> HIDE DEF o
<1> QED BY <1>1, <1>2, <1>3, Reading

LEMMA EndAdd ==
    ASSUME IInv, NEW u \in Users, At(u, "add", "write"), Done(u), Moment,
           NEW kind \in Kinds,
           stage' = [stage EXCEPT ![op[u].to] = [kind |-> kind, order |-> op[u].order]],
           recast' = recast \ {op[u].to}, UNCHANGED <<deal, moved, edited>>
    PROVE  IInv'
<1> DEFINE s == op[u].to
<1>1. op[u] \in Op /\ op[u] # Null /\ op[u].do = "add"
    BY DEF At, Idle, IInv, TypeOK
<1>2. s \in Stages /\ op[u].order \in Nat /\ ~Present(s)
    BY <1>1 DEF Op, IInv, OpInv, OpOK
<1>3. ASSUME NEW v \in Users
      PROVE  /\ op'[v] = IF v = u THEN Null ELSE op[v]
             /\ op'[v] # Null => op'[v].to # s
    BY <1>1 DEF IInv, TypeOK, Done, AddInv
<1>4. ASSUME NEW t \in Stages \ {s} PROVE stage'[t] = stage[t]
    BY DEF IInv, TypeOK
<1>5. \A d \in Deals : Exists(d) => deal[d].stage # s
    BY <1>2 DEF IInv, DealsKeepTheirStage
<1>6. \A d \in Deals : Exists(d) => deal[d].stage \in Stages
    BY DEF IInv, TypeOK, Deal, Exists
<1>7. op' \in [Users -> Op \cup {Null}]
    BY DEF IInv, TypeOK, Done
<1>8. TypeOK'
    <2>1. stage' \in [Stages -> Stage \cup {Null}]
        BY <1>2 DEF IInv, TypeOK, Stage
    <2>2. now' \in 0..MaxWrites
        BY BoundAssumption DEF IInv, TypeOK, Moment
    <2> QED BY <1>7, <2>1, <2>2 DEF IInv, TypeOK
<1>9. OpInv'
    <2> SUFFICES ASSUME NEW v \in Users, op'[v] # Null PROVE OpOK(op[v])'
        BY DEF OpInv
    <2>1. op'[v] = op[v] /\ op[v] # Null /\ op[v].to \in Stages \ {s} /\ OpOK(op[v])
        BY <1>3, <1>7 DEF IInv, OpInv, Op
    <2>2. stage'[op[v].to] = stage[op[v].to]
        BY <1>4, <2>1
    <2> QED BY <2>1, <2>2 DEF OpOK, Present
<1>10. AddInv'
    BY <1>3 DEF IInv, AddInv
<1>11. WonAtFollowsKind' /\ DealsKeepTheirStage'
    BY <1>4, <1>5, <1>6
    DEF IInv, WonAtFollowsKind, DealsKeepTheirStage, Exists, Current, Present
<1>12. MovedInv'
    BY DEF IInv, MovedInv, LastMoveIsTrue, Exists
<1> QED BY <1>8, <1>9, <1>10, <1>11, <1>12 DEF IInv

LEMMA AddStageStep ==
    ASSUME IInv, NEW u \in Users, AddStage(u)
    PROVE  IInv'
<1>1. ASSUME NEW s \in Stages, ~Present(s), Unused(s),
             op' = [op EXCEPT ![u] =
                 [do |-> "add", next |-> "write", deals |-> {}, found |-> {},
                  to |-> s, kind |-> Null, order |-> NextOrder]],
             UNCHANGED <<deal, stage, history, now>>
      PROVE  IInv'
    BY <1>1, BeginAdd
<1>2. ASSUME At(u, "add", "write"), Done(u), Moment, NEW kind \in Kinds,
             stage' = [stage EXCEPT ![op[u].to] = [kind |-> kind, order |-> op[u].order]],
             recast' = recast \ {op[u].to}, UNCHANGED <<deal, moved, edited>>
      PROVE  IInv'
    BY <1>2, EndAdd
<1>3. ASSUME Done(u), UNCHANGED <<stage, recast, now>>, UNCHANGED <<deal, moved, edited>>
      PROVE  IInv'
    BY <1>3, GivingUp DEF history
<1> QED BY <1>1, <1>2, <1>3 DEF AddStage

LEMMA EditStageStep ==
    ASSUME IInv, NEW s \in Stages, NEW kind \in Kinds, EditStage(s, kind)
    PROVE  IInv'
<1>1. /\ Present(s) /\ Moment /\ stage' = [stage EXCEPT ![s].kind = kind]
      /\ UNCHANGED <<deal, op, moved, edited>>
    BY DEF EditStage
<1>2. stage[s] \in Stage
    BY <1>1 DEF Present, IInv, TypeOK
<1>3. /\ stage'[s] \in Stage /\ stage'[s] # Null
      /\ \A t \in Stages \ {s} : stage'[t] = stage[t]
    BY <1>1, <1>2, NullAssumption DEF IInv, TypeOK, Stage
<1>4. /\ recast \subseteq recast' /\ recast' \subseteq Stages
      /\ s \notin recast' =>
           /\ In(s) = {}
           /\ \A u \in Users : op[u] # Null /\ op[u].to = s => op[u].kind = Null
    BY DEF EditStage, Idle, IInv, TypeOK
<1>5. TypeOK'
    <2>1. stage' \in [Stages -> Stage \cup {Null}]
        BY <1>1, <1>2, <1>3 DEF IInv, TypeOK
    <2>2. now' \in 0..MaxWrites
        BY <1>1, BoundAssumption DEF IInv, TypeOK, Moment
    <2> QED BY <1>1, <1>4, <2>1, <2>2 DEF IInv, TypeOK
<1>6. \A t \in Stages : Present(t)' <=> Present(t)
    BY <1>1, <1>3 DEF Present
<1>7. OpInv'
    <2> SUFFICES ASSUME NEW u \in Users, op[u] # Null PROVE OpOK(op[u])'
        BY <1>1 DEF OpInv
    <2>1. op[u] \in Op /\ OpOK(op[u]) /\ op'[u] = op[u] /\ op[u].to \in Stages
        BY <1>1 DEF IInv, TypeOK, OpInv, Op
    <2>2. op[u].kind # Null /\ Present(op[u].to) /\ op[u].to \notin recast'
          => op[u].kind = stage'[op[u].to].kind
        BY <1>3, <1>4, <2>1 DEF OpOK
    <2> QED BY <1>6, <2>1, <2>2 DEF OpOK
<1>8. AddInv' /\ MovedInv'
    BY <1>1 DEF IInv, AddInv, MovedInv, LastMoveIsTrue, Exists
<1>9. \A d \in Deals : Exists(d) => deal[d].stage \in Stages
    BY DEF IInv, TypeOK, Deal, Exists
<1>10. DealsKeepTheirStage'
    BY <1>1, <1>6, <1>9 DEF IInv, DealsKeepTheirStage, Exists
<1>11. WonAtFollowsKind'
    <2> SUFFICES ASSUME NEW d \in Deals, Exists(d), Present(deal[d].stage),
                        deal[d].stage \notin recast'
                 PROVE  deal[d].wonAt # Null <=> stage'[deal[d].stage].kind = "WON"
        BY <1>1, <1>6 DEF WonAtFollowsKind, Exists, Current
    <2>1. deal[d].stage # s
        BY <1>4 DEF In
    <2>2. stage'[deal[d].stage] = stage[deal[d].stage] /\ deal[d].stage \in Current \ recast
        BY <1>3, <1>4, <1>9, <2>1 DEF Current
    <2> QED BY <2>2 DEF IInv, WonAtFollowsKind
<1> QED BY <1>5, <1>7, <1>8, <1>10, <1>11 DEF IInv

LEMMA DropStageStep ==
    ASSUME IInv, NEW u \in Users, DropStage(u)
    PROVE  IInv'
<1> DEFINE s == op[u].to
<1>1. /\ Done(u) /\ UNCHANGED <<deal, moved, edited, recast, now>>
      /\ stage' = [stage EXCEPT ![s] = IF In(s) = {} THEN Null ELSE stage[s]]
      /\ op[u] \in Op
    BY DEF DropStage, At, Idle, history, IInv, TypeOK
<1>2. s \in Stages
    BY <1>1 DEF Op
<1>3. \A t \in Stages : \/ stage'[t] = stage[t]
                        \/ t = s /\ stage'[t] = Null /\ In(s) = {}
    BY <1>1, <1>2 DEF IInv, TypeOK
<1>4. \A v \in Users : op'[v] = IF v = u THEN Null ELSE op[v]
    BY <1>1 DEF IInv, TypeOK, Done
<1>5. TypeOK'
    <2>1. stage' \in [Stages -> Stage \cup {Null}] /\ op' \in [Users -> Op \cup {Null}]
        BY <1>1, <1>2 DEF IInv, TypeOK, Done
    <2> QED BY <1>1, <2>1 DEF IInv, TypeOK
<1>6. OpInv'
    <2> SUFFICES ASSUME NEW v \in Users, op'[v] # Null PROVE OpOK(op[v])'
        BY DEF OpInv
    <2>1. op'[v] = op[v] /\ op[v] # Null /\ op[v] \in Op /\ OpOK(op[v])
        BY <1>4 DEF IInv, TypeOK, OpInv
    <2>2. op[v].to \in Stages
        BY <2>1 DEF Op
    <2> QED BY <1>1, <1>3, <2>1, <2>2 DEF OpOK, Present
<1>7. AddInv' /\ MovedInv'
    BY <1>1, <1>4 DEF IInv, AddInv, MovedInv, LastMoveIsTrue, Exists
<1>8. \A d \in Deals : Exists(d) => deal[d].stage \in Stages
    BY DEF IInv, TypeOK, Deal, Exists
<1>9. DealsKeepTheirStage' /\ WonAtFollowsKind'
    BY <1>1, <1>3, <1>8
    DEF IInv, DealsKeepTheirStage, WonAtFollowsKind, Exists, Present, Current, In
<1> QED BY <1>5, <1>6, <1>7, <1>9 DEF IInv

LEMMA ReorderStep ==
    ASSUME IInv, NEW list \in TupleOf(Current, Cardinality(Current)), Reorder(list)
    PROVE  IInv'
<1> DEFINE orders == Reordered(list)
<1>1. Moment /\ UNCHANGED <<deal, op, moved, edited, recast>>
    BY DEF Reorder, history
<1>2. list \in Seq(Current)
    <2>1. Cardinality(Current) \in Nat
        BY StageAssumption, FS_Subset, FS_CardinalityType DEF Current
    <2> QED BY <2>1 DEF TupleOf
<1>3. orders \in [Current -> Nat] \cup {Null}
    BY <1>2, OrdersType DEF IInv
<1> HIDE DEF orders
<1>4. ASSUME NEW s \in Stages
      PROVE  /\ stage'[s] \in Stage \cup {Null}
             /\ stage'[s] # Null <=> stage[s] # Null
             /\ stage[s] # Null => stage'[s].kind = stage[s].kind
    <2>1. CASE orders = Null
        BY <2>1 DEF Reorder, orders, IInv, TypeOK
    <2>2. CASE orders # Null
        <3>1. stage'[s] = IF s \in Current THEN [stage[s] EXCEPT !.order = orders[s]] ELSE stage[s]
            BY <2>2 DEF Reorder, orders
        <3>2. CASE s \in Current
            <4>1. stage[s] \in Stage /\ stage[s] # Null
                BY <3>2 DEF IInv, TypeOK, Current, Present
            <4>2. orders[s] \in Nat
                BY <1>3, <2>2, <3>2
            <4>3. stage'[s] \in Stage /\ stage'[s].kind = stage[s].kind
                BY <3>1, <3>2, <4>1, <4>2 DEF Stage
            <4> QED BY <4>1, <4>3, NullAssumption
        <3>3. CASE s \notin Current
            BY <3>1, <3>3 DEF IInv, TypeOK
        <3> QED BY <3>2, <3>3
    <2> QED BY <2>1, <2>2
<1>5. TypeOK'
    <2>1. stage' \in [Stages -> Stage \cup {Null}]
        <3>1. stage' = [s \in Stages |-> stage'[s]]
            <4>1. CASE orders = Null
                BY <4>1 DEF Reorder, orders, IInv, TypeOK
            <4>2. CASE orders # Null
                BY <4>2 DEF Reorder, orders
            <4> QED BY <4>1, <4>2
        <3> QED BY <1>4, <3>1
    <2>2. now' \in 0..MaxWrites
        BY <1>1, BoundAssumption DEF IInv, TypeOK, Moment
    <2> QED BY <1>1, <2>1, <2>2 DEF IInv, TypeOK
<1>6. OpInv'
    <2> SUFFICES ASSUME NEW u \in Users, op[u] # Null PROVE OpOK(op[u])'
        BY <1>1 DEF OpInv
    <2>1. op[u] \in Op /\ OpOK(op[u]) /\ op'[u] = op[u] /\ op[u].to \in Stages
        BY <1>1 DEF IInv, TypeOK, OpInv, Op
    <2> QED BY <1>1, <1>4, <2>1 DEF OpOK, Present
<1>7. AddInv' /\ MovedInv'
    BY <1>1 DEF IInv, AddInv, MovedInv, LastMoveIsTrue, Exists
<1>8. \A d \in Deals : Exists(d) => deal[d].stage \in Stages
    BY DEF IInv, TypeOK, Deal, Exists
<1>9. DealsKeepTheirStage' /\ WonAtFollowsKind'
    BY <1>1, <1>4, <1>8
    DEF IInv, DealsKeepTheirStage, WonAtFollowsKind, Exists, Present, Current
<1> QED BY <1>5, <1>6, <1>7, <1>9 DEF IInv

-----------------------------------------------------------------------------
LEMMA Inductive == IInv /\ [Next]_vars => IInv'
<1> SUFFICES ASSUME IInv, [Next]_vars PROVE IInv'
    OBVIOUS
<1>1. CASE UNCHANGED vars
    BY <1>1
    DEF vars, history, IInv, TypeOK, OpInv, OpOK, AddInv, MovedInv, LastMoveIsTrue,
        WonAtFollowsKind, DealsKeepTheirStage, Exists, Present, Current
<1>2. ASSUME NEW u \in Users, NEW s \in Stages,
             NEW do \in MovesOne \cup {"create", "bulk"}, NEW ds \in SUBSET Deals,
             Start(u, do, ds, s)
      PROVE  IInv'
    BY <1>2, StartStep
<1>3. ASSUME NEW u \in Users, ReadDeals(u) \/ ReadStage(u)
      PROVE  IInv'
    BY <1>3, ReadDealsStep, ReadStageStep
<1>4. ASSUME NEW u \in Users, Create(u) \/ Move(u) \/ Edit(u)
      PROVE  IInv'
    BY <1>4, CreateStep, MoveStep, EditStep
<1>5. ASSUME NEW d \in Deals, DeleteDeal(d)
      PROVE  IInv'
    BY <1>5, DeleteDealStep
<1>6. ASSUME NEW u \in Users, AddStage(u) \/ DropStage(u) \/ \E s \in Stages : CountDeals(u, s)
      PROVE  IInv'
    BY <1>6, AddStageStep, DropStageStep, CountDealsStep
<1>7. ASSUME NEW s \in Stages, NEW kind \in Kinds, EditStage(s, kind)
      PROVE  IInv'
    BY <1>7, EditStageStep
<1>8. ASSUME NEW list \in TupleOf(Current, Cardinality(Current)), Reorder(list)
      PROVE  IInv'
    BY <1>8, ReorderStep
<1> QED BY <1>1, <1>2, <1>3, <1>4, <1>5, <1>6, <1>7, <1>8 DEF Next

LEMMA Always == Spec => []IInv
BY InitIInv, Inductive, PTL DEF Spec

\* Deals, stages and actions under way have the declared types; no stage gets a
\* number that is none, from createStageAction or from a reorder.
THEOREM TypeCorrect == Spec => []TypeOK
<1>1. IInv => TypeOK
    BY DEF IInv
<1> QED BY <1>1, Always, PTL

\* No deal is left without its stage by deleteStageAction, whenever it counted, and
\* a deal has a revenue date if and only if its stage is Won, but for stages whose
\* kind was changed under it: wonAtForStage on every path that writes a stage.
THEOREM DatesFollowStages == Spec => []RevenueFollowsStages
<1>1. IInv => RevenueFollowsStages
    BY DEF IInv, RevenueFollowsStages
<1> QED BY <1>1, Always, PTL

\* The last move on a deal's timeline leads to its stage: moves are logged in the
\* transaction that makes them.
THEOREM TimelineFollowsMoves == Spec => []LastMoveIsTrue
<1>1. IInv => LastMoveIsTrue
    BY DEF IInv, MovedInv
<1> QED BY <1>1, Always, PTL

\* The two passes of reorderStagesAction save any order of any number of stages.
THEOREM OrdersCanBeSaved == Spec => []EveryOrderCanBeSaved
<1>1. IInv => EveryOrderCanBeSaved
    BY OrdersSaved DEF IInv
<1> QED BY <1>1, Always, PTL
=============================================================================
