------------------------- MODULE AnswerCacheProofs -------------------------
(***************************************************************************)
(* Types of AnswerCache, the freshness of what the exact cache (in Redis)  *)
(* and the semantic cache serve, and that an exact cache left warm cites   *)
(* nothing withdrawn, for any number of documents, questions, askers,      *)
(* changes and faults.                                                     *)
(***************************************************************************)
EXTENDS AnswerCache, FiniteSetTheorems, TLAPS

\* A question under way has a key, and in Redis that of the version it read;
\* what it is about to store was retrieved after that version began.
AskerOK(a) ==
    a.pc # "idle" =>
        /\ a.query \in Queries
        /\ a.key \in Keys
        /\ Redis => a.ver <= version /\ a.key = <<a.ver, a.query>>
        /\ Redis /\ a.pc = "store" => a.answer.seen >= born[a.ver]

AskerInv == \A r \in Askers : AskerOK(asker[r])

\* An entry belongs to a version that has begun, and came after its beginning.
EntryInv ==
    Redis =>
        \A v \in Versions, q \in Queries :
            exact[<<v, q>>] # NoEntry =>
                v <= version /\ exact[<<v, q>>].seen >= born[v]

BornInv == \A v \in Versions : born[v] <= clock

\* Changes whose invalidation has not reached the version yet.
Pending == {m \in Mutators : mutator[m].pc \in {"index", "bump"}}

CountInv == version + Cardinality(Pending) <= changes

DocInv == \A m \in Mutators : mutator[m].pc = "index" => mutator[m].doc \in Docs

IInv == TypeOK /\ AskerInv /\ EntryInv /\ BornInv /\ CountInv /\ DocInv

-----------------------------------------------------------------------------
(* Records *)

LEMMA Constants ==
    /\ NoAnswer \in Answer
    /\ Asleep \in Asker
    /\ Done \in Mutator
    /\ 0 \in Versions
    /\ \A v \in Versions : v \in Nat /\ Label(v) \in Versions
    /\ Redis => \A v \in Versions : Label(v) = v
BY BoundAssumption DEF NoAnswer, Answer, Asleep, Asker, Done, Mutator, Versions, Label

\* One asker takes a step that leaves the version alone.
LEMMA AskerMoves ==
    ASSUME IInv, NEW r \in Askers, NEW n \in Asker, AskerOK(n),
           asker' = [asker EXCEPT ![r] = n], UNCHANGED <<version, born>>
    PROVE  asker' \in [Askers -> Asker] /\ AskerInv'
<1>1. asker' \in [Askers -> Asker]
    BY DEF IInv, TypeOK
<1>2. ASSUME NEW s \in Askers PROVE AskerOK(asker[s])'
    <2>1. asker'[s] = n \/ asker'[s] = asker[s]
        BY DEF IInv, TypeOK
    <2>2. CASE asker'[s] = n
        BY <2>2 DEF AskerOK
    <2>3. CASE asker'[s] = asker[s]
        BY <2>3 DEF AskerOK, IInv, AskerInv
    <2> QED BY <2>1, <2>2, <2>3
<1> QED BY <1>1, <1>2 DEF AskerInv

\* A mutator is at a step that has no invalidation of the version before it.
LEMMA MutatorMoves ==
    ASSUME IInv, NEW m \in Mutators, NEW n \in Mutator,
           n.pc = "index" => n.doc \in Docs,
           mutator' = [mutator EXCEPT ![m] = n]
    PROVE  /\ mutator' \in [Mutators -> Mutator]
           /\ DocInv'
           /\ Pending' \subseteq Pending \cup {m}
           /\ n.pc \notin {"index", "bump"} => Pending' \subseteq Pending \ {m}
<1> USE DEF IInv, TypeOK
<1>1. mutator' \in [Mutators -> Mutator]
    OBVIOUS
<1>2. mutator'[m] = n /\ \A o \in Mutators \ {m} : mutator'[o] = mutator[o]
    OBVIOUS
<1>3. DocInv'
    BY <1>2 DEF DocInv
<1> QED BY <1>1, <1>2, <1>3 DEF Pending

LEMMA Counting ==
    /\ IsFiniteSet(Pending) /\ IsFiniteSet(Pending')
    /\ Cardinality(Pending) \in Nat /\ Cardinality(Pending') \in Nat
    /\ Pending' \subseteq Pending => Cardinality(Pending') <= Cardinality(Pending)
    /\ \A m \in Pending : Pending' \subseteq Pending \ {m}
            => Cardinality(Pending') + 1 <= Cardinality(Pending)
    /\ \A m \in Mutators : Pending' \subseteq Pending \cup {m}
            => Cardinality(Pending') <= Cardinality(Pending) + 1
<1>1. IsFiniteSet(Pending) /\ IsFiniteSet(Pending')
    BY MutatorsAssumption, FS_Subset, Zenon DEF Pending
<1>2. Cardinality(Pending) \in Nat /\ Cardinality(Pending') \in Nat
    BY <1>1, FS_CardinalityType
<1>3. Pending' \subseteq Pending => Cardinality(Pending') <= Cardinality(Pending)
    BY <1>1, FS_Subset
<1>4. ASSUME NEW m \in Pending, Pending' \subseteq Pending \ {m}
      PROVE  Cardinality(Pending') + 1 <= Cardinality(Pending)
    <2>1. IsFiniteSet(Pending \ {m}) /\ Cardinality(Pending \ {m}) = Cardinality(Pending) - 1
        BY <1>1, FS_RemoveElement
    <2>2. Cardinality(Pending') <= Cardinality(Pending \ {m})
        BY <1>4, <2>1, FS_Subset
    <2> QED BY <1>2, <2>1, <2>2
<1>5. ASSUME NEW m \in Mutators, Pending' \subseteq Pending \cup {m}
      PROVE  Cardinality(Pending') <= Cardinality(Pending) + 1
    <2>1. /\ IsFiniteSet(Pending \cup {m})
          /\ Cardinality(Pending \cup {m}) \in {Cardinality(Pending), Cardinality(Pending) + 1}
        BY <1>1, <1>2, FS_AddElement
    <2>2. Cardinality(Pending') <= Cardinality(Pending \cup {m})
        BY <1>5, <2>1, FS_Subset
    <2> QED BY <1>2, <2>1, <2>2
<1> QED BY <1>1, <1>2, <1>3, <1>4, <1>5

-----------------------------------------------------------------------------
(* Steps of askers *)

\* An asker goes on with the question it has, or is done with it.
LEMMA AskerGoesOn ==
    ASSUME IInv, NEW r \in Askers, NEW n \in Asker,
           \/ n = Asleep
           \/ /\ ~At(r, "idle") /\ n.pc # "store"
              /\ n.query = asker[r].query /\ n.key = asker[r].key /\ n.ver = asker[r].ver,
           asker' = [asker EXCEPT ![r] = n], UNCHANGED <<version, born>>
    PROVE  asker' \in [Askers -> Asker] /\ AskerInv'
<1>1. AskerOK(n)
    BY DEF IInv, AskerInv, AskerOK, Asleep, At
<1> QED BY <1>1, AskerMoves

\* The invariants that an asker's step can only disturb through an entry.
LEMMA AskerFrame ==
    ASSUME IInv, UNCHANGED <<clock, version, born, mutator, changes>>
    PROVE  /\ BornInv' /\ CountInv' /\ DocInv'
           /\ UNCHANGED exact => EntryInv'
BY DEF IInv, BornInv, CountInv, DocInv, EntryInv, Pending

LEMMA AskStep ==
    ASSUME IInv, NEW r \in Askers, NEW q \in Queries, Ask(r, q) \/ AskUnread(r, q)
    PROVE  IInv'
<1>1. /\ UNCHANGED <<live, clock, version, born, exact, bydoc, scope, minted, semantic,
                      cleared, missed, mutator, changes>>
      /\ asks' \in 0..MaxAsks /\ faults' \in 0..MaxFaults
    BY BoundAssumption
       DEF Ask, AskUnread, Fault, corpus, exactCache, semanticCache, IInv, TypeOK
<1>2. version \in Versions
    BY DEF IInv, TypeOK
<1>3. 0 <= version /\ version <= version
    BY <1>2, BoundAssumption DEF Versions
<1>4. \E n \in Asker : AskerOK(n) /\ asker' = [asker EXCEPT ![r] = n]
    <2>1. CASE Ask(r, q)
        <3> DEFINE k == <<Label(version), q>>
                   n == [Asleep EXCEPT !.pc = "exact", !.query = q, !.ver = version, !.key = k]
        <3>1. k \in Keys /\ (Redis => k = <<version, q>>)
            BY <1>2, Constants DEF Keys
        <3>2. n \in Asker /\ n.pc = "exact" /\ n.query = q /\ n.ver = version /\ n.key = k
            <4> HIDE DEF k
            <4> QED BY <1>2, <3>1, Constants DEF Asker, Asleep
        <3>3. AskerOK(n)
            <4> HIDE DEF k, n
            <4> QED BY <1>3, <3>1, <3>2 DEF AskerOK
        <3>4. asker' = [asker EXCEPT ![r] = n]
            BY <2>1 DEF Ask
        <3> HIDE DEF n
        <3> QED BY <3>2, <3>3, <3>4
    <2>2. CASE AskUnread(r, q)
        <3> DEFINE k == <<0, q>>
                   n == [Asleep EXCEPT !.pc = "exact", !.query = q, !.key = k]
        <3>1. k \in Keys
            BY Constants DEF Keys
        <3>2. n \in Asker /\ n.pc = "exact" /\ n.query = q /\ n.ver = 0 /\ n.key = k
            <4> HIDE DEF k
            <4> QED BY <3>1, Constants DEF Asker, Asleep
        <3>3. AskerOK(n)
            <4>1. k = <<0, q>>
                OBVIOUS
            <4> HIDE DEF k, n
            <4> QED BY <1>3, <3>1, <3>2, <4>1 DEF AskerOK
        <3>4. asker' = [asker EXCEPT ![r] = n]
            BY <2>2 DEF AskUnread
        <3> HIDE DEF n
        <3> QED BY <3>2, <3>3, <3>4
    <2> QED BY <2>1, <2>2
<1>5. asker' \in [Askers -> Asker] /\ AskerInv'
    BY <1>1, <1>4, AskerMoves
<1>6. TypeOK'
    BY <1>1, <1>5 DEF IInv, TypeOK
<1> QED BY <1>1, <1>5, <1>6, AskerFrame DEF IInv

LEMMA LookUpStep ==
    ASSUME IInv, NEW r \in Askers,
           GetCached(r) \/ ReadScope(r) \/ MintScope(r) \/ GetSemantic(r) \/ VerifyScope(r)
    PROVE  IInv'
<1> DEFINE a == asker[r]
<1>1. a \in Asker
    BY DEF IInv, TypeOK
<1>2. /\ UNCHANGED <<live, clock, version, born, exact, bydoc, cleared, missed, mutator, asks,
                      changes, faults>>
      /\ scope' \in Nat \cup {NoScope} /\ minted' \in Nat /\ semantic' \subseteq Cached
    BY DEF GetCached, ReadScope, MintScope, GetSemantic, VerifyScope, corpus, exactCache,
           semanticCache, bounds, IInv, TypeOK
<1>3. \E n \in Asker :
        /\ n = Asleep \/ /\ ~At(r, "idle") /\ n.pc # "store"
                         /\ n.query = a.query /\ n.key = a.key /\ n.ver = a.ver
        /\ asker' = [asker EXCEPT ![r] = n]
    <2>1. CASE GetCached(r)
        BY <1>1, <2>1, Constants
           DEF GetCached, Answered, GetScopeFor, Missed, At, Asker
    <2>2. CASE ReadScope(r)
        <3>1. CASE scope = NoScope
            BY <1>1, <2>2, <3>1 DEF ReadScope, At, Asker
        <3>2. CASE scope # NoScope
            <4>1. scope \in Nat
                BY <3>2 DEF IInv, TypeOK
            <4> DEFINE n == [a EXCEPT !.pc = a.then, !.token = scope]
            <4>2. n \in Asker /\ n.pc # "store" /\ n.query = a.query /\ n.key = a.key /\ n.ver = a.ver
                BY <1>1, <4>1 DEF Asker
            <4>3. asker' = [asker EXCEPT ![r] = n] /\ ~At(r, "idle")
                BY <2>2, <3>2 DEF ReadScope, At
            <4> QED BY <4>2, <4>3
        <3> QED BY <3>1, <3>2
    <2>3. CASE MintScope(r)
        <3> DEFINE n == [a EXCEPT !.pc = a.then, !.token = minted']
        <3>1. n \in Asker /\ n.pc # "store" /\ n.query = a.query /\ n.key = a.key /\ n.ver = a.ver
            BY <1>1, <1>2 DEF Asker
        <3>2. asker' = [asker EXCEPT ![r] = n] /\ ~At(r, "idle")
            BY <2>3 DEF MintScope, At
        <3> QED BY <3>1, <3>2
    <2>4. CASE GetSemantic(r)
        BY <1>1, <2>4, Constants DEF GetSemantic, Missed, At, Asker
    <2>5. CASE VerifyScope(r)
        BY <1>1, <2>5, Constants DEF VerifyScope, Answered, Missed, At, Asker
    <2> QED BY <2>1, <2>2, <2>3, <2>4, <2>5
<1>4. asker' \in [Askers -> Asker] /\ AskerInv'
    BY <1>2, <1>3, AskerGoesOn
<1>5. TypeOK'
    BY <1>2, <1>4 DEF IInv, TypeOK
<1> QED BY <1>2, <1>4, <1>5, AskerFrame DEF IInv

\* What is retrieved now is no older than any version, the question's included.
LEMMA RetrieveStep ==
    ASSUME IInv, NEW r \in Askers, Retrieve(r)
    PROVE  IInv'
<1> DEFINE a == asker[r]
<1>1. a \in Asker /\ At(r, "retrieve")
    BY DEF IInv, TypeOK, Retrieve
<1>2. UNCHANGED <<live, clock, exact, version, born, bydoc, scope, minted, semantic, cleared,
                  missed, mutator, asks, changes, faults>>
    BY DEF Retrieve, corpus, exactCache, semanticCache, bounds
<1>3. \E n \in Asker : AskerOK(n) /\ asker' = [asker EXCEPT ![r] = n]
    <2>1. CASE Answered(r)
        BY <2>1, Constants DEF Answered, AskerOK, Asleep
    <2>2. CASE \E cites \in (SUBSET live) \ {{}} :
                 asker' = [asker EXCEPT ![r].pc = "store",
                     ![r].answer = [seen |-> clock, cites |-> cites, late |-> FALSE]]
        <3>1. PICK cites \in SUBSET live :
                 asker' = [asker EXCEPT ![r].pc = "store",
                     ![r].answer = [seen |-> clock, cites |-> cites, late |-> FALSE]]
            BY <2>2
        <3> DEFINE x == [seen |-> clock, cites |-> cites, late |-> FALSE]
                   n == [a EXCEPT !.pc = "store", !.answer = x]
        <3>2. x \in Answer
            BY DEF IInv, TypeOK, Answer
        <3>3. n \in Asker
            BY <1>1, <3>2 DEF Asker
        <3>4. born[a.ver] <= clock
            BY <1>1 DEF IInv, BornInv, Asker
        <3>5. AskerOK(n)
            BY <1>1, <3>4 DEF IInv, AskerInv, AskerOK, Asker, At
        <3> QED BY <3>1, <3>3, <3>5
    <2> QED BY <2>1, <2>2 DEF Retrieve
<1>4. asker' \in [Askers -> Asker] /\ AskerInv'
    BY <1>2, <1>3, AskerMoves
<1>5. TypeOK'
    BY <1>2, <1>4 DEF IInv, TypeOK
<1> QED BY <1>2, <1>4, <1>5, AskerFrame DEF IInv

\* What is stored was retrieved under the version whose key it goes under.
LEMMA StoreStep ==
    ASSUME IInv, NEW r \in Askers, Store(r)
    PROVE  IInv'
<1> DEFINE a == asker[r]
           n == [a EXCEPT !.pc = "track"]
<1>1. a \in Asker /\ a.pc = "store" /\ AskerOK(a)
    BY DEF IInv, AskerInv, TypeOK, Store, At
<1>2. UNCHANGED <<live, clock, version, born, bydoc, scope, minted, semantic, cleared,
                  missed, mutator, asks, changes, faults>>
    BY DEF Store, corpus, semanticCache, bounds
<1>3. n \in Asker /\ AskerOK(n) /\ asker' = [asker EXCEPT ![r] = n]
    BY <1>1 DEF Asker, AskerOK, Store, Goto
<1>4. asker' \in [Askers -> Asker] /\ AskerInv'
    BY <1>2, <1>3, AskerMoves
<1>5. a.key \in Keys /\ a.answer \in Answer /\ a.query \in Queries /\ a.ver \in Versions
    BY <1>1 DEF AskerOK, Asker
<1>6. exact' = [exact EXCEPT ![a.key] = a.answer]
    BY DEF Store
<1>7. exact' \in [Keys -> Answer \cup {NoEntry}]
    BY <1>5, <1>6 DEF IInv, TypeOK
<1>8. EntryInv'
    <2> SUFFICES ASSUME Redis, NEW v \in Versions, NEW q \in Queries,
                        exact'[<<v, q>>] # NoEntry
                 PROVE  v <= version /\ exact'[<<v, q>>].seen >= born[v]
        BY <1>2 DEF EntryInv
    <2>1. a.key = <<a.ver, a.query>> /\ a.ver <= version /\ a.answer.seen >= born[a.ver]
        BY <1>1 DEF AskerOK
    <2>2. <<v, q>> \in Keys
        BY DEF Keys
    <2>3. CASE <<v, q>> = a.key
        <3>1. v = a.ver
            BY <2>1, <2>3
        <3>2. exact'[<<v, q>>] = a.answer
            BY <1>5, <1>6, <2>3 DEF IInv, TypeOK
        <3> QED BY <2>1, <3>1, <3>2
    <2>4. CASE <<v, q>> # a.key
        <3>1. exact'[<<v, q>>] = exact[<<v, q>>]
            BY <1>6, <2>2, <2>4 DEF IInv, TypeOK
        <3> QED BY <3>1 DEF IInv, EntryInv
    <2> QED BY <2>3, <2>4
<1>9. TypeOK'
    BY <1>2, <1>4, <1>7 DEF IInv, TypeOK
<1> QED BY <1>2, <1>4, <1>8, <1>9, AskerFrame DEF IInv

LEMMA SettleStep ==
    ASSUME IInv, NEW r \in Askers,
           Track(r) \/ SetSemantic(r) \/ StoreFails(r) \/ AskerDies(r)
    PROVE  IInv'
<1> DEFINE a == asker[r]
<1>1. a \in Asker
    BY DEF IInv, TypeOK
<1>2. /\ UNCHANGED <<live, clock, exact, version, born, scope, minted, cleared, mutator,
                      asks, changes>>
      /\ faults' \in 0..MaxFaults
    <2> USE BoundAssumption DEF corpus, exactCache, semanticCache, bounds
    <2>1. CASE Track(r)
        BY <2>1 DEF Track, IInv, TypeOK
    <2>2. CASE SetSemantic(r)
        BY <2>2 DEF SetSemantic, IInv, TypeOK
    <2>3. CASE StoreFails(r)
        BY <2>3 DEF StoreFails, Fault, IInv, TypeOK
    <2>4. CASE AskerDies(r)
        BY <2>4 DEF AskerDies, Fault, IInv, TypeOK
    <2> QED BY <2>1, <2>2, <2>3, <2>4
<1>3. a.pc # "idle"
    BY DEF Track, SetSemantic, StoreFails, AskerDies, At
<1>4. a.query \in Queries /\ a.key \in Keys
    BY <1>3 DEF IInv, AskerInv, AskerOK
<1>5. a.answer \in Answer /\ a.answer.cites \subseteq Docs
    BY <1>1 DEF Asker, Answer
<1>6. bydoc' \in [Docs -> SUBSET Keys] /\ missed' \subseteq Docs
    BY <1>4, <1>5 DEF Track, SetSemantic, StoreFails, AskerDies, exactCache, IInv, TypeOK
<1>7. semantic' \subseteq Cached
    <2>1. CASE SetSemantic(r)
        <3> DEFINE e == [scope |-> a.token, query |-> a.query, answer |-> a.answer]
        <3>1. e \in Cached
            BY <1>1, <1>4, <1>5 DEF Cached, Asker
        <3> QED BY <2>1, <3>1 DEF SetSemantic, IInv, TypeOK
    <2>2. CASE ~SetSemantic(r)
        BY <2>2 DEF Track, StoreFails, AskerDies, semanticCache, IInv, TypeOK
    <2> QED BY <2>1, <2>2
<1>8. \E n \in Asker :
        /\ n = Asleep \/ /\ ~At(r, "idle") /\ n.pc # "store"
                         /\ n.query = a.query /\ n.key = a.key /\ n.ver = a.ver
        /\ asker' = [asker EXCEPT ![r] = n]
    <2>1. CASE Answered(r)
        BY <2>1, Constants DEF Answered
    <2>2. CASE GetScopeFor(r, "write")
        <3> DEFINE n == [a EXCEPT !.pc = "scope", !.then = "write"]
        <3>1. n \in Asker /\ n.pc # "store" /\ n.query = a.query /\ n.key = a.key /\ n.ver = a.ver
            BY <1>1 DEF Asker
        <3>2. asker' = [asker EXCEPT ![r] = n] /\ ~At(r, "idle")
            BY <1>3, <2>2 DEF GetScopeFor, At
        <3> HIDE DEF n
        <3> QED BY <3>1, <3>2
    <2>3. CASE Goto(r, "track")
        BY <1>1, <1>3, <2>3 DEF Goto, At, Asker
    <2> QED BY <2>1, <2>2, <2>3 DEF Track, SetSemantic, StoreFails, AskerDies
<1>9. asker' \in [Askers -> Asker] /\ AskerInv'
    BY <1>2, <1>8, AskerGoesOn
<1>10. TypeOK'
    BY <1>2, <1>6, <1>7, <1>9 DEF IInv, TypeOK
<1> QED BY <1>2, <1>9, <1>10, AskerFrame DEF IInv

-----------------------------------------------------------------------------
(* Steps of mutators *)

\* Their steps that leave the exact cache and the clock alone.
LEMMA MutatorFrame ==
    ASSUME IInv, NEW m \in Mutators, NEW n \in Mutator,
           n.pc = "index" => n.doc \in Docs,
           mutator' = [mutator EXCEPT ![m] = n],
           n.pc \in {"index", "bump"} => m \in Pending,
           UNCHANGED <<clock, version, born, exact, changes>>
    PROVE  /\ mutator' \in [Mutators -> Mutator]
           /\ EntryInv' /\ BornInv' /\ CountInv' /\ DocInv'
<1>1. /\ mutator' \in [Mutators -> Mutator] /\ DocInv'
      /\ Pending' \subseteq Pending
    BY MutatorMoves
<1>2. EntryInv' /\ BornInv'
    BY DEF IInv, EntryInv, BornInv
<1>3. version \in Nat /\ changes \in Nat
    BY BoundAssumption DEF IInv, TypeOK, Versions
<1>4. CountInv'
    BY <1>1, <1>3, Counting DEF IInv, CountInv
<1> QED BY <1>1, <1>2, <1>4

\* A change of the corpus is one more that is not invalidated yet.
LEMMA ChangeStep ==
    ASSUME IInv, NEW m \in Mutators,
           \/ \E d \in Docs : Publish(m, d) \/ Withdraw(m, d)
           \/ Feedback(m)
    PROVE  IInv'
<1>1. /\ UNCHANGED <<exact, version, born, bydoc, scope, minted, semantic, cleared,
                      missed, asker, asks, faults>>
      /\ Change(m)
    BY DEF Publish, Withdraw, Feedback, exactCache, semanticCache, corpus
<1>2. clock' \in Nat /\ clock' >= clock /\ live' \subseteq Docs
    BY DEF Publish, Withdraw, Feedback, corpus, IInv, TypeOK
<1>3. changes \in Nat /\ changes' = changes + 1 /\ changes' \in 0..MaxChanges
    BY <1>1, BoundAssumption DEF Change, IInv, TypeOK
<1>4. \E n \in Mutator :
        (n.pc = "index" => n.doc \in Docs) /\ mutator' = [mutator EXCEPT ![m] = n]
    <2>1. mutator[m] \in Mutator
        BY DEF IInv, TypeOK
    <2>2. ASSUME NEW d \in Docs, NEW pc \in {"index", "bump"},
                 mutator' = [mutator EXCEPT ![m].pc = pc, ![m].doc = d]
          PROVE  \E n \in Mutator : /\ n.pc = "index" => n.doc \in Docs
                                    /\ mutator' = [mutator EXCEPT ![m] = n]
        <3> DEFINE n == [mutator[m] EXCEPT !.pc = pc, !.doc = d]
        <3>1. n \in Mutator /\ n.doc \in Docs
            BY <2>1 DEF Mutator
        <3>2. mutator' = [mutator EXCEPT ![m] = n]
            BY <2>2
        <3> HIDE DEF n
        <3> QED BY <3>1, <3>2
    <2>3. CASE Feedback(m)
        <3> DEFINE n == [mutator[m] EXCEPT !.pc = "bump"]
        <3>1. n \in Mutator /\ n.pc # "index"
            BY <2>1 DEF Mutator
        <3>2. mutator' = [mutator EXCEPT ![m] = n]
            BY <2>3 DEF Feedback, MGoto
        <3> HIDE DEF n
        <3> QED BY <3>1, <3>2
    <2>4. ASSUME NEW d \in Docs, Publish(m, d) \/ Withdraw(m, d)
          PROVE  \E n \in Mutator : /\ n.pc = "index" => n.doc \in Docs
                                    /\ mutator' = [mutator EXCEPT ![m] = n]
        <3>1. PICK pc \in {"index", "bump"} :
                  mutator' = [mutator EXCEPT ![m].pc = pc, ![m].doc = d]
            BY <2>4 DEF Publish, Withdraw
        <3> QED BY <2>2, <3>1
    <2> QED BY <2>2, <2>3, <2>4
<1>5. /\ mutator' \in [Mutators -> Mutator] /\ DocInv'
      /\ Pending' \subseteq Pending \cup {m}
    BY <1>4, MutatorMoves
<1>6. CountInv'
    <2>1. version \in Nat
        BY BoundAssumption DEF IInv, TypeOK, Versions
    <2> QED BY <1>1, <1>3, <1>5, <2>1, Counting DEF IInv, CountInv
<1>7. BornInv'
    BY <1>1, <1>2, BoundAssumption DEF IInv, BornInv, TypeOK
<1>8. EntryInv' /\ AskerInv'
    BY <1>1 DEF IInv, EntryInv, AskerInv, AskerOK
<1>9. TypeOK'
    BY <1>1, <1>2, <1>3, <1>5 DEF IInv, TypeOK
<1> QED BY <1>5, <1>6, <1>7, <1>8, <1>9 DEF IInv

\* An invalidation that leaves the version alone, and its faults.
LEMMA InvalidateStep ==
    ASSUME IInv, NEW m \in Mutators,
           \/ CheckIndex(m) \/ Scan(m) \/ Drop(m)
           \/ InvalidateFails(m) \/ MutatorDies(m)
    PROVE  IInv'
<1>1. mutator[m] \in Mutator /\ faults \in 0..MaxFaults /\ semantic \subseteq Cached
    BY DEF IInv, TypeOK
<1>2. UNCHANGED <<live, clock, exact, version, born, bydoc, scope, minted, cleared,
                  asker, asks, changes>>
    BY DEF CheckIndex, Scan, Drop, InvalidateFails, MutatorDies, corpus, exactCache,
           semanticCache, bounds
<1>3. faults' \in 0..MaxFaults
    BY <1>1, BoundAssumption
       DEF CheckIndex, Scan, Drop, InvalidateFails, MutatorDies, Fault, bounds
<1>4. semantic' \subseteq Cached
    BY <1>1 DEF CheckIndex, Scan, Drop, InvalidateFails, MutatorDies, semanticCache
<1>5. missed' \subseteq Docs
    <2>1. CASE CheckIndex(m)
        BY <2>1 DEF CheckIndex, MAt, IInv, TypeOK, DocInv
    <2>2. CASE InvalidateFails(m) \/ MutatorDies(m)
        BY <1>1, <2>2 DEF InvalidateFails, MutatorDies, IInv, TypeOK, Mutator
    <2>3. CASE Scan(m) \/ Drop(m)
        BY <2>3 DEF Scan, Drop, IInv, TypeOK
    <2> QED BY <2>1, <2>2, <2>3
<1>6. \E n \in Mutator : /\ n.pc = "index" => n.doc \in Docs
                         /\ n.pc \in {"index", "bump"} => m \in Pending
                         /\ mutator' = [mutator EXCEPT ![m] = n]
    <2>1. ASSUME NEW pc \in {"scan", "unscope", "bump"}, MGoto(m, pc),
                 pc = "bump" => m \in Pending
          PROVE  \E n \in Mutator : /\ n.pc = "index" => n.doc \in Docs
                                    /\ n.pc \in {"index", "bump"} => m \in Pending
                                    /\ mutator' = [mutator EXCEPT ![m] = n]
        <3> DEFINE n == [mutator[m] EXCEPT !.pc = pc]
        <3>1. n \in Mutator /\ n.pc = pc
            BY <1>1 DEF Mutator
        <3>2. mutator' = [mutator EXCEPT ![m] = n]
            BY <2>1 DEF MGoto
        <3> HIDE DEF n
        <3> QED BY <2>1, <3>1, <3>2
    <2>2. CASE Finished(m)
        <3>1. Done \in Mutator /\ Done.pc = "idle"
            BY Constants DEF Done
        <3> QED BY <2>2, <3>1 DEF Finished
    <2>3. CASE Scan(m)
        <3> DEFINE n == [mutator[m] EXCEPT !.pc = "drop", !.found = semantic]
        <3>1. n \in Mutator /\ n.pc = "drop"
            BY <1>1 DEF Mutator
        <3>2. mutator' = [mutator EXCEPT ![m] = n]
            BY <2>3 DEF Scan
        <3> HIDE DEF n
        <3> QED BY <3>1, <3>2
    <2>4. CASE CheckIndex(m)
        BY <2>1, <2>2, <2>4 DEF CheckIndex, ThenScan, MAt, Pending
    <2>5. CASE Drop(m) \/ InvalidateFails(m) \/ MutatorDies(m)
        BY <2>1, <2>2, <2>5 DEF Drop, InvalidateFails, MutatorDies, ThenScan
    <2> QED BY <2>3, <2>4, <2>5
<1>7. /\ mutator' \in [Mutators -> Mutator]
      /\ EntryInv' /\ BornInv' /\ CountInv' /\ DocInv'
    <2>1. PICK n \in Mutator : /\ n.pc = "index" => n.doc \in Docs
                               /\ n.pc \in {"index", "bump"} => m \in Pending
                               /\ mutator' = [mutator EXCEPT ![m] = n]
        BY <1>6
    <2> QED BY <1>2, <2>1, MutatorFrame
<1>8. AskerInv'
    BY <1>2 DEF IInv, AskerInv, AskerOK
<1>9. TypeOK'
    BY <1>2, <1>3, <1>4, <1>5, <1>7 DEF IInv, TypeOK
<1> QED BY <1>7, <1>8, <1>9 DEF IInv

\* The version that begins is one no entry has, and its changes have happened.
LEMMA BumpStep ==
    ASSUME IInv, NEW m \in Mutators, Bump(m)
    PROVE  IInv'
<1>1. /\ UNCHANGED <<live, clock, exact, bydoc, scope, minted, semantic, cleared,
                      asker, asks, changes, faults>>
      /\ missed' = {} /\ version' = version + 1
      /\ born' = [born EXCEPT ![version + 1] = clock]
      /\ m \in Pending
    BY DEF Bump, MAt, Pending, corpus, semanticCache, bounds
<1>2. mutator[m] \in Mutator /\ clock \in Nat
    BY DEF IInv, TypeOK
<1>3. version \in Nat /\ changes \in Nat /\ changes <= MaxChanges /\ MaxChanges \in Nat
    BY BoundAssumption DEF IInv, TypeOK, Versions
<1>4. \E n \in Mutator : n.pc \in {"scan", "idle"} /\ mutator' = [mutator EXCEPT ![m] = n]
    <2>1. CASE Redis
        <3> DEFINE n == [mutator[m] EXCEPT !.pc = "scan"]
        <3>1. n \in Mutator /\ n.pc = "scan"
            BY <1>2 DEF Mutator
        <3>2. mutator' = [mutator EXCEPT ![m] = n]
            BY <2>1 DEF Bump, ThenScan, MGoto
        <3> HIDE DEF n
        <3> QED BY <3>1, <3>2
    <2>2. CASE ~Redis
        <3>1. Done \in Mutator /\ Done.pc = "idle"
            BY Constants DEF Done
        <3> QED BY <2>2, <3>1 DEF Bump, ThenScan, Finished
    <2> QED BY <2>1, <2>2
<1>5. /\ mutator' \in [Mutators -> Mutator] /\ DocInv'
      /\ Pending' \subseteq Pending \ {m}
    BY <1>4, MutatorMoves
<1>6. CountInv' /\ version + 1 \in Versions
    <2>1. Cardinality(Pending') + 1 <= Cardinality(Pending)
        BY <1>1, <1>5, Counting
    <2>2. Cardinality(Pending) \in Nat /\ Cardinality(Pending') \in Nat
        BY Counting
    <2>3. version + Cardinality(Pending) <= changes
        BY DEF IInv, CountInv
    <2>4. version' + Cardinality(Pending') <= changes'
        BY <1>1, <1>3, <2>1, <2>2, <2>3
    <2>5. version + 1 <= MaxChanges
        BY <1>3, <2>1, <2>2, <2>3
    <2> QED BY <1>3, <2>4, <2>5 DEF CountInv, Versions
<1>7. \A v \in Versions : /\ v <= version => v # version + 1 /\ v <= version + 1
                          /\ v # version + 1 => born'[v] = born[v]
                          /\ born'[v] = born[v] \/ born'[v] = clock
    BY <1>1, <1>3 DEF IInv, TypeOK, Versions
<1>8. born' \in [Versions -> Nat] /\ BornInv'
    <2>1. born' \in [Versions -> Nat]
        BY <1>1, <1>2 DEF IInv, TypeOK
    <2> QED BY <1>1, <1>2, <1>7, <2>1 DEF IInv, BornInv
<1>9. EntryInv'
    BY <1>1, <1>7 DEF IInv, EntryInv
<1>10. AskerInv'
    <2> SUFFICES ASSUME NEW r \in Askers PROVE AskerOK(asker[r])'
        BY DEF AskerInv
    <2>1. asker[r] \in Asker /\ AskerOK(asker[r]) /\ asker' = asker
        BY <1>1 DEF IInv, AskerInv, TypeOK
    <2>2. asker[r].ver \in Versions
        BY <2>1 DEF Asker
    <2> QED BY <1>1, <1>7, <2>1, <2>2 DEF AskerOK
<1>11. TypeOK'
    BY <1>1, <1>5, <1>6, <1>8 DEF IInv, TypeOK
<1> QED BY <1>5, <1>6, <1>8, <1>9, <1>10, <1>11 DEF IInv

\* The end of invalidateScope marks answers, but not where they came from.
LEMMA UnscopeStep ==
    ASSUME IInv, NEW m \in Mutators, Unscope(m)
    PROVE  IInv'
<1>1. /\ UNCHANGED <<live, clock, exact, version, born, bydoc, minted, semantic, missed,
                      asks, changes, faults>>
      /\ scope' = NoScope /\ cleared' = clock /\ asker' = Overtaken
      /\ mutator' = [mutator EXCEPT ![m] = Done]
    BY DEF Unscope, Finished, corpus, exactCache, bounds
<1>2. Done \in Mutator /\ Done.pc = "idle"
    BY Constants DEF Done
<1>3. /\ mutator' \in [Mutators -> Mutator]
      /\ EntryInv' /\ BornInv' /\ CountInv' /\ DocInv'
    BY <1>1, <1>2, MutatorFrame
<1>4. ASSUME NEW r \in Askers
      PROVE  asker'[r] \in Asker /\ AskerOK(asker'[r])
    <2> DEFINE a == asker[r]
               n == [a EXCEPT !.answer.late = TRUE]
    <2>1. a \in Asker /\ AskerOK(a)
        BY DEF IInv, AskerInv, TypeOK
    <2>2. asker'[r] = a \/ asker'[r] = n
        BY <1>1 DEF Overtaken
    <2>3. /\ n \in Asker
          /\ n.pc = a.pc /\ n.query = a.query /\ n.key = a.key /\ n.ver = a.ver
          /\ n.answer.seen = a.answer.seen
        BY <2>1 DEF Asker, Answer
    <2>4. AskerOK(n)
        <3> HIDE DEF n
        <3> QED BY <2>1, <2>3 DEF AskerOK
    <2> QED BY <2>1, <2>2, <2>3, <2>4
<1>5. AskerInv' /\ asker' \in [Askers -> Asker]
    <2>1. asker' \in [Askers -> Asker]
        BY <1>1, <1>4 DEF Overtaken
    <2> QED BY <1>1, <1>4, <2>1 DEF AskerInv, AskerOK
<1>6. TypeOK'
    BY <1>1, <1>3, <1>5 DEF IInv, TypeOK
<1> QED BY <1>3, <1>5, <1>6 DEF IInv

LEMMA ExpireStep ==
    ASSUME IInv, Expire
    PROVE  IInv'
<1>1. /\ UNCHANGED <<live, clock, version, born, bydoc, minted, cleared, missed, asker,
                      mutator, asks, changes>>
      /\ faults' \in 0..MaxFaults
    BY BoundAssumption DEF Expire, Fault, corpus, IInv, TypeOK
<1>2. /\ scope' \in Nat \cup {NoScope} /\ semantic' \subseteq Cached
      /\ exact' = exact \/ \E k \in Keys : exact' = [exact EXCEPT ![k] = NoEntry]
    BY DEF Expire, IInv, TypeOK
<1>3. /\ exact' \in [Keys -> Answer \cup {NoEntry}]
      /\ \A k \in Keys : exact'[k] = exact[k] \/ exact'[k] = NoEntry
    BY <1>2 DEF IInv, TypeOK
<1>4. EntryInv'
    BY <1>1, <1>3 DEF IInv, EntryInv, Keys
<1>5. AskerInv'
    BY <1>1 DEF IInv, AskerInv, AskerOK
<1>6. TypeOK'
    BY <1>1, <1>2, <1>3 DEF IInv, TypeOK
<1> QED BY <1>1, <1>4, <1>5, <1>6, AskerFrame DEF IInv

-----------------------------------------------------------------------------
(* The theorems *)

LEMMA InitIInv == Init => IInv
<1> SUFFICES ASSUME Init PROVE IInv
    OBVIOUS
<1>1. TypeOK
    BY Constants, BoundAssumption DEF Init, TypeOK
<1>2. AskerInv /\ DocInv
    BY DEF Init, AskerInv, AskerOK, Asleep, DocInv, Done
<1>3. EntryInv /\ BornInv
    BY DEF Init, EntryInv, BornInv, Keys
<1>4. CountInv
    <2>1. Pending = {}
        BY DEF Init, Pending, Done
    <2> QED BY <2>1, FS_EmptySet DEF Init, CountInv
<1> QED BY <1>1, <1>2, <1>3, <1>4 DEF IInv

LEMMA NextIInv == IInv /\ [Next]_vars => IInv'
<1> SUFFICES ASSUME IInv, [Next]_vars PROVE IInv'
    OBVIOUS
<1>1. ASSUME NEW r \in Askers, NEW q \in Queries, Ask(r, q) \/ AskUnread(r, q)
      PROVE  IInv'
    BY <1>1, AskStep
<1>2. ASSUME NEW r \in Askers, AnswerQuery(r) \/ AskerDies(r) \/ StoreFails(r)
      PROVE  IInv'
    BY <1>2, LookUpStep, RetrieveStep, StoreStep, SettleStep DEF AnswerQuery
<1>3. ASSUME NEW m \in Mutators,
             \/ \E d \in Docs : Publish(m, d) \/ Withdraw(m, d)
             \/ Feedback(m) \/ Invalidate(m) \/ InvalidateFails(m) \/ MutatorDies(m)
      PROVE  IInv'
    BY <1>3, ChangeStep, InvalidateStep, BumpStep, UnscopeStep DEF Invalidate
<1>4. CASE Expire
    BY <1>4, ExpireStep
<1>5. CASE UNCHANGED vars
    BY <1>5 DEF vars, IInv, TypeOK, AskerInv, AskerOK, EntryInv, BornInv, CountInv,
                Pending, DocInv
<1> QED BY <1>1, <1>2, <1>3, <1>4, <1>5 DEF Next

LEMMA SpecIInv == Spec => []IInv
BY InitIInv, NextIInv, PTL DEF Spec

\* Every variable keeps its type; in particular a version stays within the
\* number of changes, whatever invalidations fail or die half-way.
THEOREM TypeCorrect == Spec => []TypeOK
<1>1. IInv => TypeOK
    BY DEF IInv
<1> QED BY <1>1, SpecIInv, PTL

\* With Redis, what the exact cache is about to serve was retrieved after every
\* invalidation the question has seen, whatever overlaps, fails or dies.
THEOREM ServesFresh ==
    ASSUME Redis
    PROVE  Spec => []ExactFresh
<1>1. IInv => ExactFresh
    <2> SUFFICES ASSUME IInv, NEW r \in Askers, At(r, "exact"),
                        exact[asker[r].key] # NoEntry
                 PROVE  exact[asker[r].key].seen >= born[asker[r].ver]
        BY DEF ExactFresh
    <2>1. /\ asker[r].ver \in Versions /\ asker[r].query \in Queries
          /\ asker[r].key = <<asker[r].ver, asker[r].query>>
        BY DEF IInv, AskerInv, AskerOK, TypeOK, Asker, At
    <2> QED BY <2>1 DEF IInv, EntryInv
<1> QED BY <1>1, SpecIInv, PTL

-----------------------------------------------------------------------------
(* The semantic cache *)

\* The asker has an answer that it may still write.
Holds(a) ==
    \/ a.pc \in {"store", "track", "write"}
    \/ a.pc \in {"scope", "mint"} /\ a.then = "write"

\* Its token was drawn, and its answer is marked or no older than the last
\* complete invalidation.
HolderOK(a) ==
    /\ a.token <= minted
    /\ Holds(a) => /\ a.answer.cites # {}
                   /\ a.answer.late \/ a.answer.seen >= cleared

HolderInv == \A r \in Askers : HolderOK(asker[r])

\* Entries have tokens that were drawn, so a new token is nobody's.
DrawnInv ==
    /\ cleared <= clock
    /\ scope # NoScope => scope <= minted
    /\ \A e \in semantic : e.scope <= minted

SemanticInv == HolderInv /\ DrawnInv /\ SemanticFresh

LEMMA HolderMoves ==
    ASSUME IInv, HolderInv, NEW r \in Askers, NEW n \in Asker,
           n.token <= minted',
           Holds(n) => n.answer.cites # {} /\ (n.answer.late \/ n.answer.seen >= cleared),
           asker' = [asker EXCEPT ![r] = n],
           minted' \in Nat, minted' >= minted, cleared' = cleared
    PROVE  HolderInv'
<1>1. ASSUME NEW s \in Askers PROVE HolderOK(asker[s])'
    <2>1. CASE asker'[s] = n
        BY <2>1 DEF HolderOK
    <2>2. CASE asker'[s] = asker[s]
        <3>1. asker[s].token \in Nat /\ minted \in Nat
            BY DEF IInv, TypeOK, Asker
        <3>2. HolderOK(asker[s])
            BY DEF HolderInv
        <3> QED BY <2>2, <3>1, <3>2 DEF HolderOK
    <2> QED BY <2>1, <2>2 DEF IInv, TypeOK
<1> QED BY <1>1 DEF HolderInv

\* An asker that reads, or gives up: the answer it holds is the one it held.
LEMMA ReaderMoves ==
    ASSUME IInv, SemanticInv, NEW r \in Askers,
           \/ \E q \in Queries : Ask(r, q) \/ AskUnread(r, q)
           \/ GetCached(r) \/ ReadScope(r) \/ GetSemantic(r) \/ VerifyScope(r)
           \/ Retrieve(r) \/ Store(r) \/ Track(r) \/ StoreFails(r) \/ AskerDies(r)
    PROVE  HolderOK(asker'[r]) /\ asker' = [asker EXCEPT ![r] = asker'[r]]
<1> DEFINE a == asker[r]
<1> USE DEF HolderOK, Holds
<1>1. a \in Asker /\ HolderOK(a) /\ minted \in Nat /\ clock \in Nat /\ cleared \in Nat
    BY DEF IInv, TypeOK, SemanticInv, HolderInv
<1>2. asker \in [Askers -> Asker] /\ a.token \in Nat
    BY <1>1 DEF IInv, TypeOK, Asker
<1>3. CASE Answered(r)
    BY <1>1, <1>2, <1>3 DEF Answered, Asleep
<1>4. CASE Missed(r)
    BY <1>1, <1>2, <1>4 DEF Missed, Asker
<1>5. ASSUME NEW then \in {"entry", "write"}, GetScopeFor(r, then),
             then = "write" => a.pc = "track"
      PROVE  HolderOK(asker'[r]) /\ asker' = [asker EXCEPT ![r] = asker'[r]]
    BY <1>1, <1>2, <1>5 DEF GetScopeFor, Asker
<1>6. ASSUME NEW q \in Queries, Ask(r, q) \/ AskUnread(r, q)
      PROVE  HolderOK(asker'[r]) /\ asker' = [asker EXCEPT ![r] = asker'[r]]
    <2>1. ASSUME NEW v, NEW k,
                 asker' = [asker EXCEPT ![r] = [Asleep EXCEPT
                     !.pc = "exact", !.query = q, !.ver = v, !.key = k]]
          PROVE  HolderOK(asker'[r]) /\ asker' = [asker EXCEPT ![r] = asker'[r]]
        BY <1>1, <1>2, <2>1 DEF Asleep
    <2>2. CASE Ask(r, q)
        <3> DEFINE k == <<Label(version), q>>
        <3>1. asker' = [asker EXCEPT ![r] = [Asleep EXCEPT
                  !.pc = "exact", !.query = q, !.ver = version, !.key = k]]
            BY <2>2 DEF Ask
        <3> HIDE DEF k
        <3> QED BY <2>1, <3>1
    <2>3. CASE AskUnread(r, q)
        <3> DEFINE k == <<0, q>>
                   n == [Asleep EXCEPT !.pc = "exact", !.query = q, !.key = k]
        <3>1. asker' = [asker EXCEPT ![r] = n]
            BY <2>3 DEF AskUnread
        <3>2. n.token = 0 /\ n.pc = "exact"
            BY DEF Asleep
        <3> HIDE DEF n
        <3> QED BY <1>1, <1>2, <3>1, <3>2
    <2> QED BY <1>6, <2>2, <2>3
<1>7. CASE GetCached(r)
    BY <1>3, <1>4, <1>5, <1>7 DEF GetCached
<1>8. CASE ReadScope(r)
    BY <1>1, <1>2, <1>8 DEF ReadScope, SemanticInv, DrawnInv, At, Asker
<1>9. CASE GetSemantic(r)
    BY <1>1, <1>2, <1>4, <1>9 DEF GetSemantic, At, Asker
<1>10. CASE VerifyScope(r)
    BY <1>3, <1>4, <1>10 DEF VerifyScope
<1>11. CASE Retrieve(r)
    BY <1>1, <1>2, <1>3, <1>11 DEF Retrieve, SemanticInv, DrawnInv, Asker
<1>12. CASE Store(r)
    BY <1>1, <1>2, <1>12 DEF Store, Goto, At, Asker
<1>13. CASE Track(r)
    BY <1>3, <1>5, <1>13 DEF Track, At
<1>14. CASE StoreFails(r)
    BY <1>1, <1>2, <1>3, <1>5, <1>14 DEF StoreFails, At, Goto, Asker
<1> QED BY <1>3, <1>6, <1>7, <1>8, <1>9, <1>10, <1>11, <1>12, <1>13, <1>14 DEF AskerDies

LEMMA ReaderStep ==
    ASSUME IInv, IInv', SemanticInv, NEW r \in Askers,
           \/ \E q \in Queries : Ask(r, q) \/ AskUnread(r, q)
           \/ GetCached(r) \/ ReadScope(r) \/ GetSemantic(r) \/ VerifyScope(r)
           \/ Retrieve(r) \/ Store(r) \/ Track(r) \/ StoreFails(r) \/ AskerDies(r)
    PROVE  SemanticInv'
<1>1. UNCHANGED <<clock, scope, minted, cleared>> /\ semantic' \subseteq semantic
    BY DEF Ask, AskUnread, GetCached, ReadScope, GetSemantic, VerifyScope, Retrieve, Store,
           Track, StoreFails, AskerDies, corpus, semanticCache
<1>2. asker'[r] \in Asker /\ minted \in Nat
    BY DEF IInv, TypeOK
<1>3. HolderInv'
    BY <1>1, <1>2, ReaderMoves, HolderMoves DEF SemanticInv, HolderOK
<1>4. DrawnInv' /\ SemanticFresh'
    BY <1>1 DEF SemanticInv, DrawnInv, SemanticFresh
<1> QED BY <1>3, <1>4 DEF SemanticInv

\* A token that is minted is not the scope of any entry yet.
LEMMA MintStep ==
    ASSUME IInv, SemanticInv, NEW r \in Askers, MintScope(r)
    PROVE  SemanticInv'
<1> DEFINE a == asker[r]
           n == [a EXCEPT !.pc = a.then, !.token = minted + 1]
<1>1. /\ a \in Asker /\ a.pc = "mint" /\ HolderOK(a)
      /\ minted \in Nat /\ minted' = minted + 1 /\ scope' = minted + 1
      /\ UNCHANGED <<semantic, cleared, clock>>
      /\ asker' = [asker EXCEPT ![r] = n]
    BY DEF IInv, TypeOK, SemanticInv, HolderInv, MintScope, At, corpus
<1>2. n \in Asker /\ n.token = minted + 1 /\ n.answer = a.answer /\ n.pc = a.then
    <2>1. a \in Asker /\ minted + 1 \in Nat
        BY <1>1
    <2> QED BY <2>1 DEF Asker
<1>3. HolderInv'
    <2>1. Holds(n) => a.then = "write"
        BY <1>1, <1>2 DEF Holds, Asker
    <2>2. Holds(n) => a.answer.cites # {} /\ (a.answer.late \/ a.answer.seen >= cleared)
        BY <1>1, <2>1 DEF HolderOK, Holds
    <2>3. HolderInv /\ minted' \in Nat /\ minted' >= minted /\ n.token <= minted'
        BY <1>1, <1>2 DEF SemanticInv
    <2> HIDE DEF n
    <2> QED BY <1>1, <1>2, <2>2, <2>3, HolderMoves
<1>4. ASSUME NEW e \in semantic PROVE e.scope \in Nat /\ e.scope <= minted
    BY DEF IInv, TypeOK, Cached, SemanticInv, DrawnInv
<1>5. DrawnInv'
    <2>1. cleared <= clock
        BY DEF SemanticInv, DrawnInv
    <2> QED BY <1>1, <1>4, <2>1 DEF DrawnInv
<1>6. SemanticFresh'
    BY <1>1, <1>4 DEF SemanticFresh
<1> QED BY <1>3, <1>5, <1>6 DEF SemanticInv

\* What is written was drawn and is marked, or fresh.
LEMMA SetStep ==
    ASSUME IInv, SemanticInv, NEW r \in Askers, SetSemantic(r)
    PROVE  SemanticInv'
<1> DEFINE a == asker[r]
           e == [scope |-> a.token, query |-> a.query, answer |-> a.answer]
<1>1. /\ a \in Asker /\ a.pc = "write" /\ HolderOK(a) /\ minted \in Nat
      /\ UNCHANGED <<scope, minted, cleared, clock>>
      /\ semantic' \subseteq semantic \cup {e}
      /\ asker' = [asker EXCEPT ![r] = Asleep]
    BY DEF IInv, TypeOK, SemanticInv, HolderInv, SetSemantic, At, corpus, Answered
<1>2. HolderInv'
    <2>1. Asleep \in Asker /\ Asleep.token = 0 /\ ~Holds(Asleep)
        BY Constants DEF Asleep, Holds
    <2>2. HolderInv /\ minted' \in Nat /\ minted' >= minted /\ Asleep.token <= minted'
        BY <1>1, <2>1 DEF SemanticInv
    <2>3. asker' = [asker EXCEPT ![r] = Asleep] /\ cleared' = cleared
        BY <1>1
    <2> QED BY <2>1, <2>2, <2>3, HolderMoves
<1>3. /\ e.scope = a.token /\ e.answer = a.answer /\ a.token <= minted
      /\ a.answer.late \/ a.answer.seen >= cleared
    BY <1>1 DEF HolderOK, Holds
<1> HIDE DEF e
<1>4. DrawnInv' /\ SemanticFresh'
    BY <1>1, <1>3 DEF SemanticInv, DrawnInv, SemanticFresh
<1> QED BY <1>2, <1>4 DEF SemanticInv

\* Whoever holds an answer when an invalidation ends has it marked, and the
\* entries that are left are out of reach.
LEMMA ClearStep ==
    ASSUME IInv, SemanticInv, NEW m \in Mutators, Unscope(m)
    PROVE  SemanticInv'
<1>1. /\ UNCHANGED <<clock, minted, semantic>>
      /\ scope' = NoScope /\ cleared' = clock /\ asker' = Overtaken
    BY DEF Unscope, corpus
<1>2. ASSUME NEW r \in Askers PROVE HolderOK(asker[r])'
    <2> DEFINE a == asker[r]
               n == [a EXCEPT !.answer.late = TRUE]
    <2>1. a \in Asker /\ HolderOK(a)
        BY DEF IInv, TypeOK, SemanticInv, HolderInv
    <2>2. CASE a.answer = NoAnswer
        <3>1. asker'[r] = a /\ a.answer.cites = {}
            BY <1>1, <2>2 DEF Overtaken, NoAnswer
        <3> QED BY <1>1, <2>1, <3>1 DEF HolderOK
    <2>3. CASE a.answer # NoAnswer
        <3>1. asker'[r] = n
            BY <1>1, <2>3 DEF Overtaken
        <3>2. /\ n.token = a.token /\ n.pc = a.pc /\ n.then = a.then
              /\ n.answer.cites = a.answer.cites /\ n.answer.late
            BY <2>1 DEF Asker, Answer
        <3> HIDE DEF n
        <3> QED BY <1>1, <2>1, <3>1, <3>2 DEF HolderOK, Holds
    <2> QED BY <2>2, <2>3
<1>3. DrawnInv' /\ SemanticFresh'
    BY <1>1, NullAssumption
       DEF SemanticInv, DrawnInv, SemanticFresh, IInv, TypeOK, Cached
<1> QED BY <1>2, <1>3 DEF SemanticInv, HolderInv

\* The other steps leave the askers alone, and write no entry and no token.
LEMMA BesideStep ==
    ASSUME IInv, IInv', SemanticInv,
           \/ \E m \in Mutators :
                \/ \E d \in Docs : Publish(m, d) \/ Withdraw(m, d)
                \/ Feedback(m) \/ CheckIndex(m) \/ Bump(m) \/ Scan(m) \/ Drop(m)
                \/ InvalidateFails(m) \/ MutatorDies(m)
           \/ Expire
           \/ UNCHANGED vars
    PROVE  SemanticInv'
<1>1. /\ UNCHANGED <<asker, minted, cleared>> /\ semantic' \subseteq semantic
      /\ scope' = scope \/ scope' = NoScope
    BY DEF Publish, Withdraw, Feedback, CheckIndex, Bump, Scan, Drop, InvalidateFails,
           MutatorDies, Expire, corpus, exactCache, semanticCache, vars
<1>2. clock' >= clock /\ clock \in Nat /\ clock' \in Nat /\ cleared \in Nat
    <2>1. clock \in Nat /\ clock' \in Nat /\ cleared \in Nat
        BY DEF IInv, TypeOK
    <2>2. clock' = clock \/ clock' = clock + 1
        BY DEF Publish, Withdraw, Feedback, CheckIndex, Bump, Scan, Drop, InvalidateFails,
               MutatorDies, Expire, corpus, vars
    <2> QED BY <2>1, <2>2
<1>3. HolderInv'
    BY <1>1 DEF SemanticInv, HolderInv, HolderOK
<1>4. DrawnInv' /\ SemanticFresh'
    BY <1>1, <1>2, NullAssumption
       DEF SemanticInv, DrawnInv, SemanticFresh, IInv, TypeOK, Cached
<1> QED BY <1>3, <1>4 DEF SemanticInv

\* Whatever overlaps, fails or dies, what the semantic cache can serve was
\* retrieved after the last complete invalidation, or marked as overtaken by it.
THEOREM ServesFreshMeanings == Spec => []SemanticFresh
<1>1. Init => SemanticInv
    BY NullAssumption
       DEF Init, SemanticInv, HolderInv, HolderOK, Holds, Asleep, DrawnInv, SemanticFresh
<1>2. IInv /\ SemanticInv /\ [Next]_vars => SemanticInv'
    <2>1. ASSUME IInv, IInv', SemanticInv, [Next]_vars PROVE SemanticInv'
        BY <2>1, ReaderStep, MintStep, SetStep, ClearStep, BesideStep
           DEF Next, AnswerQuery, Invalidate
    <2> QED BY <2>1, NextIInv
<1>3. SemanticInv => SemanticFresh
    BY DEF SemanticInv
<1> QED BY <1>1, <1>2, <1>3, SpecIInv, PTL DEF Spec

-----------------------------------------------------------------------------
(* Caches left warm.  An invalidation that finds no answer in the index of   *)
(* its document leaves the exact cache as it is.  That is right because an   *)
(* answer of the current version can be reached through the index as soon as *)
(* nobody holds it: what is stored is indexed, about to be, or written off.  *)

Cites(e, d) == e # NoEntry /\ d \in e.cites

\* d may be cited: it can be retrieved, was written off, or its invalidation
\* is still to reach the version.
Covered(d) ==
    \/ d \in live \cup missed
    \/ \E m \in Mutators : mutator[m].doc = d /\ mutator[m].pc \in {"index", "bump"}

Indexed(d) ==
    \/ bydoc[d] # {}
    \/ d \in missed
    \/ \E r \in Askers : At(r, "track") /\ d \in asker[r].answer.cites

StoredInv ==
    \A q \in Queries, d \in Docs :
        Cites(exact[<<version, q>>], d) => Covered(d) /\ Indexed(d)

HeldInv ==
    \A r \in Askers, d \in Docs :
        At(r, "store") /\ asker[r].ver = version /\ d \in asker[r].answer.cites => Covered(d)

WarmInv == StoredInv /\ HeldInv

\* Nothing is stored or drawn, and no document loses what covers or finds it.
LEMMA WarmMoves ==
    ASSUME WarmInv, version' = version, version \in Versions,
           \A d \in Docs : (Covered(d) => Covered(d)') /\ (Indexed(d) => Indexed(d)'),
           \A k \in Keys : exact'[k] = exact[k] \/ exact'[k] = NoEntry,
           \A r \in Askers : asker'[r].pc = "store" =>
               /\ asker[r].pc = "store" /\ asker'[r].ver = asker[r].ver
               /\ asker'[r].answer.cites = asker[r].answer.cites
    PROVE  WarmInv'
<1>1. StoredInv'
    <2> SUFFICES ASSUME NEW q \in Queries, NEW d \in Docs, Cites(exact'[<<version, q>>], d)
                 PROVE  Covered(d)' /\ Indexed(d)'
        BY DEF StoredInv, Cites
    <2>1. <<version, q>> \in Keys
        BY DEF Keys
    <2>2. exact'[<<version, q>>] = exact[<<version, q>>]
        BY <2>1 DEF Cites
    <2> QED BY <2>2 DEF WarmInv, StoredInv
<1>2. HeldInv'
    BY DEF WarmInv, HeldInv, At
<1> QED BY <1>1, <1>2 DEF WarmInv

\* One asker goes on; what it holds when it leaves the index is written off.
LEMMA WarmAsker ==
    ASSUME IInv, WarmInv, NEW r \in Askers,
           \A s \in Askers : s # r => asker'[s] = asker[s],
           asker'[r].pc # "store",
           UNCHANGED <<live, version, exact, mutator>>,
           missed \subseteq missed', \A d \in Docs : bydoc[d] \subseteq bydoc'[d],
           At(r, "track") => \A d \in asker[r].answer.cites : bydoc'[d] # {} \/ d \in missed'
    PROVE  WarmInv'
<1>1. ASSUME NEW d \in Docs, Covered(d) PROVE Covered(d)'
    BY <1>1 DEF Covered
<1>2. ASSUME NEW d \in Docs, Indexed(d) PROVE Indexed(d)'
    <2>1. CASE bydoc[d] # {} \/ d \in missed
        BY <2>1 DEF Indexed
    <2>2. ASSUME NEW s \in Askers, At(s, "track"), d \in asker[s].answer.cites
          PROVE  Indexed(d)'
        <3>1. CASE s = r
            BY <2>2, <3>1 DEF Indexed
        <3>2. CASE s # r
            BY <2>2, <3>2 DEF Indexed, At
        <3> QED BY <3>1, <3>2
    <2> QED BY <1>2, <2>1, <2>2 DEF Indexed
<1>3. version \in Versions
    BY DEF IInv, TypeOK
<1>4. \A s \in Askers : asker'[s].pc = "store" => asker'[s] = asker[s]
    OBVIOUS
<1> QED BY <1>1, <1>2, <1>3, <1>4, WarmMoves

LEMMA WarmLookUp ==
    ASSUME IInv, WarmInv, NEW r \in Askers,
           \/ \E q \in Queries : Ask(r, q) \/ AskUnread(r, q)
           \/ GetCached(r) \/ ReadScope(r) \/ MintScope(r) \/ GetSemantic(r)
           \/ VerifyScope(r) \/ SetSemantic(r)
    PROVE  WarmInv'
<1>1. asker \in [Askers -> Asker] /\ asker[r] \in Asker
    BY DEF IInv, TypeOK
<1>2. UNCHANGED <<live, version, exact, bydoc, missed, mutator>> /\ ~At(r, "track")
    <2>1. CASE \E q \in Queries : Ask(r, q) \/ AskUnread(r, q)
        BY <2>1 DEF Ask, AskUnread, At, corpus, exactCache
    <2>2. CASE GetCached(r) \/ ReadScope(r) \/ MintScope(r)
        BY <2>2 DEF GetCached, ReadScope, MintScope, At, corpus, exactCache
    <2>3. CASE GetSemantic(r) \/ VerifyScope(r) \/ SetSemantic(r)
        BY <2>3 DEF GetSemantic, VerifyScope, SetSemantic, At, corpus, exactCache
    <2> QED BY <2>1, <2>2, <2>3
<1>3. /\ \A s \in Askers : s # r => asker'[s] = asker[s]
      /\ asker'[r].pc # "store"
    <2>1. ASSUME NEW n, n.pc # "store", asker' = [asker EXCEPT ![r] = n]
          PROVE  /\ \A s \in Askers : s # r => asker'[s] = asker[s]
                 /\ asker'[r].pc # "store"
        BY <1>1, <2>1
    <2> DEFINE a == asker[r]
    <2>2. a \in Asker
        BY <1>1
    <2>3. \E n : n.pc # "store" /\ asker' = [asker EXCEPT ![r] = n]
        <3>1. ASSUME NEW q \in Queries, Ask(r, q) \/ AskUnread(r, q)
              PROVE  \E n : n.pc # "store" /\ asker' = [asker EXCEPT ![r] = n]
            BY <3>1 DEF Ask, AskUnread, Asleep
        <3>2. CASE Answered(r)
            BY <3>2 DEF Answered, Asleep
        <3>3. CASE Missed(r)
            <4> DEFINE n == [a EXCEPT !.pc = "retrieve", !.then = "entry", !.token = 0, !.held = 0]
            <4>1. n.pc # "store"
                BY <2>2 DEF Asker
            <4>2. asker' = [asker EXCEPT ![r] = n]
                BY <3>3 DEF Missed
            <4> HIDE DEF n
            <4> QED BY <4>1, <4>2
        <3>4. ASSUME NEW then, GetScopeFor(r, then)
              PROVE  \E n : n.pc # "store" /\ asker' = [asker EXCEPT ![r] = n]
            <4> DEFINE n == [a EXCEPT !.pc = "scope", !.then = then]
            <4>1. n.pc # "store"
                BY <2>2 DEF Asker
            <4>2. asker' = [asker EXCEPT ![r] = n]
                BY <3>4 DEF GetScopeFor
            <4> HIDE DEF n
            <4> QED BY <4>1, <4>2
        <3>5. CASE ReadScope(r)
            <4>1. CASE scope = NoScope
                <5> DEFINE n == [a EXCEPT !.pc = "mint"]
                <5>1. n.pc # "store"
                    BY <2>2 DEF Asker
                <5>2. asker' = [asker EXCEPT ![r] = n]
                    BY <3>5, <4>1 DEF ReadScope
                <5> HIDE DEF n
                <5> QED BY <5>1, <5>2
            <4>2. CASE scope # NoScope
                <5> DEFINE n == [a EXCEPT !.pc = a.then, !.token = scope]
                <5>1. n.pc # "store"
                    BY <2>2 DEF Asker
                <5>2. asker' = [asker EXCEPT ![r] = n]
                    BY <3>5, <4>2 DEF ReadScope
                <5> HIDE DEF n
                <5> QED BY <5>1, <5>2
            <4> QED BY <4>1, <4>2
        <3>6. CASE MintScope(r)
            <4> DEFINE n == [a EXCEPT !.pc = a.then, !.token = minted']
            <4>1. n.pc # "store"
                BY <2>2 DEF Asker
            <4>2. asker' = [asker EXCEPT ![r] = n]
                BY <3>6 DEF MintScope
            <4> HIDE DEF n
            <4> QED BY <4>1, <4>2
        <3>7. CASE GetSemantic(r)
            <4> DEFINE n == [a EXCEPT !.pc = "scope", !.then = "verify", !.held = a.token]
            <4>1. n.pc # "store"
                BY <2>2 DEF Asker
            <4>2. Missed(r) \/ asker' = [asker EXCEPT ![r] = n]
                BY <3>7 DEF GetSemantic
            <4> HIDE DEF n
            <4> QED BY <3>3, <4>1, <4>2
        <3>8. CASE GetCached(r) \/ VerifyScope(r) \/ SetSemantic(r)
            BY <3>2, <3>3, <3>4, <3>8 DEF GetCached, VerifyScope, SetSemantic
        <3> QED BY <3>1, <3>5, <3>6, <3>7, <3>8
    <2> QED BY <2>1, <2>3
<1> QED BY <1>2, <1>3, WarmAsker

\* Whoever ends an answer it stored has indexed it, or it is written off.
LEMMA WarmSettle ==
    ASSUME IInv, WarmInv, NEW r \in Askers, Track(r) \/ StoreFails(r) \/ AskerDies(r)
    PROVE  WarmInv'
<1>1. asker \in [Askers -> Asker] /\ asker[r] \in Asker /\ bydoc \in [Docs -> SUBSET Keys]
    BY DEF IInv, TypeOK
<1>2. asker[r].answer.cites \subseteq Docs
    BY <1>1 DEF Asker, Answer
<1>3. UNCHANGED <<live, version, exact, mutator>>
    BY DEF Track, StoreFails, AskerDies, corpus, exactCache
<1>4. /\ \A s \in Askers : s # r => asker'[s] = asker[s]
      /\ asker'[r].pc # "store"
    <2> USE <1>1 DEF Answered, GetScopeFor, Goto, Asker, Asleep
    <2>1. CASE Track(r)
        BY <2>1 DEF Track
    <2>2. CASE StoreFails(r)
        BY <2>2 DEF StoreFails
    <2>3. CASE AskerDies(r)
        BY <2>3 DEF AskerDies
    <2> QED BY <2>1, <2>2, <2>3
<1>5. /\ missed \subseteq missed'
      /\ \A d \in Docs : bydoc[d] \subseteq bydoc'[d]
      /\ At(r, "track") => \A d \in asker[r].answer.cites : bydoc'[d] # {} \/ d \in missed'
    <2>1. CASE Track(r)
        <3>1. /\ missed' = missed
              /\ \A d \in Docs : bydoc'[d] = IF d \in asker[r].answer.cites
                                             THEN bydoc[d] \cup {asker[r].key} ELSE bydoc[d]
            BY <2>1 DEF Track
        <3> QED BY <1>2, <3>1
    <2>2. CASE StoreFails(r)
        BY <1>1, <2>2 DEF StoreFails, At, exactCache
    <2>3. CASE AskerDies(r)
        BY <1>1, <2>3 DEF AskerDies, At, exactCache
    <2> QED BY <2>1, <2>2, <2>3
<1> QED BY <1>3, <1>4, <1>5, WarmAsker

\* What is drawn can be retrieved at this moment.
LEMMA WarmRetrieve ==
    ASSUME IInv, WarmInv, NEW r \in Askers, Retrieve(r)
    PROVE  WarmInv'
<1>1. asker \in [Askers -> Asker] /\ asker[r] \in Asker /\ At(r, "retrieve")
    BY DEF IInv, TypeOK, Retrieve
<1>2. UNCHANGED <<live, version, exact, bydoc, missed, mutator>>
    BY DEF Retrieve, corpus, exactCache
<1>3. CASE Answered(r)
    <2>1. /\ \A s \in Askers : s # r => asker'[s] = asker[s]
          /\ asker'[r].pc # "store" /\ ~At(r, "track")
        BY <1>1, <1>3 DEF Answered, Asleep, At
    <2> QED BY <1>2, <2>1, WarmAsker
<1>4. ASSUME NEW cites \in SUBSET live,
             asker' = [asker EXCEPT ![r].pc = "store",
                 ![r].answer = [seen |-> clock, cites |-> cites, late |-> FALSE]]
      PROVE  WarmInv'
    <2>1. /\ \A s \in Askers : s # r => asker'[s] = asker[s]
          /\ asker'[r].answer.cites = cites
        BY <1>1, <1>4 DEF Asker
    <2>2. \A d \in Docs : Covered(d)' <=> Covered(d)
        BY <1>2 DEF Covered
    <2>3. \A d \in Docs : Indexed(d) => Indexed(d)'
        BY <1>1, <1>2, <2>1 DEF Indexed, At
    <2>4. StoredInv'
        BY <1>2, <2>2, <2>3 DEF WarmInv, StoredInv
    <2>5. ASSUME NEW s \in Askers, NEW d \in Docs, At(s, "store")',
                 asker'[s].ver = version, d \in asker'[s].answer.cites
          PROVE  Covered(d)
        <3>1. CASE s = r
            BY <2>1, <2>5, <3>1 DEF Covered
        <3>2. CASE s # r
            BY <2>1, <2>5, <3>2 DEF WarmInv, HeldInv, At
        <3> QED BY <3>1, <3>2
    <2>6. HeldInv'
        BY <1>2, <2>2, <2>5 DEF HeldInv, At
    <2> QED BY <2>4, <2>6 DEF WarmInv
<1> QED BY <1>3, <1>4 DEF Retrieve

\* What is stored was covered already, and is about to be indexed.
LEMMA WarmStore ==
    ASSUME IInv, WarmInv, Redis, NEW r \in Askers, Store(r)
    PROVE  WarmInv'
<1> DEFINE a == asker[r]
<1>1. a \in Asker /\ a.pc = "store" /\ AskerOK(a) /\ asker \in [Askers -> Asker]
    BY DEF IInv, AskerInv, TypeOK, Store, At
<1>2. /\ UNCHANGED <<live, version, bydoc, missed, mutator>>
      /\ exact' = [exact EXCEPT ![a.key] = a.answer]
      /\ asker' = [asker EXCEPT ![r].pc = "track"]
    BY DEF Store, Goto, corpus
<1>3. /\ \A s \in Askers : s # r => asker'[s] = asker[s]
      /\ asker'[r].answer = a.answer /\ asker'[r].pc = "track"
    BY <1>1, <1>2 DEF Asker
<1>4. \A d \in Docs : Covered(d)' <=> Covered(d)
    BY <1>2 DEF Covered
<1>5. \A d \in Docs : Indexed(d) => Indexed(d)'
    BY <1>1, <1>2, <1>3 DEF Indexed, At
<1>6. a.key = <<a.ver, a.query>> /\ a.key \in Keys /\ version \in Versions
    BY <1>1 DEF AskerOK, IInv, TypeOK
<1>7. ASSUME NEW q \in Queries, NEW d \in Docs, Cites(exact'[<<version, q>>], d)
      PROVE  Covered(d) /\ Indexed(d)'
    <2>1. <<version, q>> \in Keys
        BY <1>6 DEF Keys
    <2>2. CASE <<version, q>> = a.key
        <3>1. a.ver = version /\ exact'[<<version, q>>] = a.answer
            BY <1>2, <1>6, <2>2 DEF IInv, TypeOK
        <3>2. d \in a.answer.cites
            BY <1>7, <3>1 DEF Cites
        <3>3. Covered(d)
            BY <1>1, <3>1, <3>2 DEF WarmInv, HeldInv, At
        <3>4. Indexed(d)'
            BY <1>3, <3>2 DEF Indexed, At
        <3> QED BY <3>3, <3>4
    <2>3. CASE <<version, q>> # a.key
        <3>1. exact'[<<version, q>>] = exact[<<version, q>>]
            BY <1>2, <2>1, <2>3 DEF IInv, TypeOK
        <3>2. Covered(d) /\ Indexed(d)
            BY <1>7, <3>1 DEF WarmInv, StoredInv
        <3> QED BY <1>5, <3>2
    <2> QED BY <2>2, <2>3
<1>8. StoredInv'
    BY <1>2, <1>4, <1>7 DEF StoredInv
<1>9. HeldInv'
    BY <1>2, <1>3, <1>4 DEF WarmInv, HeldInv, At
<1> QED BY <1>8, <1>9 DEF WarmInv


\* A mutator takes a step that leaves the version, the askers and the caches.
LEMMA WarmMutator ==
    ASSUME IInv, WarmInv, NEW m \in Mutators,
           \A o \in Mutators : o # m => mutator'[o] = mutator[o],
           \A d \in Docs : d \in live \cup missed => Covered(d)',
           \A d \in Docs : mutator[m].doc = d /\ mutator[m].pc \in {"index", "bump"}
               => Covered(d)',
           missed \subseteq missed',
           UNCHANGED <<version, exact, bydoc, asker>>
    PROVE  WarmInv'
<1>1. ASSUME NEW d \in Docs, Covered(d) PROVE Covered(d)'
    <2>1. CASE d \in live \cup missed
        BY <2>1
    <2>2. ASSUME NEW o \in Mutators, mutator[o].doc = d, mutator[o].pc \in {"index", "bump"}
          PROVE  Covered(d)'
        <3>1. CASE o = m
            BY <2>2, <3>1
        <3>2. CASE o # m
            BY <2>2, <3>2 DEF Covered
        <3> QED BY <3>1, <3>2
    <2> QED BY <1>1, <2>1, <2>2 DEF Covered
<1>2. ASSUME NEW d \in Docs, Indexed(d) PROVE Indexed(d)'
    BY <1>2 DEF Indexed, At
<1>3. version \in Versions
    BY DEF IInv, TypeOK
<1> QED BY <1>1, <1>2, <1>3, WarmMoves

LEMMA WarmChange ==
    ASSUME IInv, WarmInv, NEW m \in Mutators,
           \/ \E d \in Docs : Publish(m, d) \/ Withdraw(m, d)
           \/ Feedback(m)
    PROVE  WarmInv'
<1>1. mutator \in [Mutators -> Mutator] /\ mutator[m] \in Mutator /\ mutator[m].pc = "idle"
    BY DEF IInv, TypeOK, Publish, Withdraw, Feedback, Change, MAt
<1>2. UNCHANGED <<version, exact, bydoc, asker, missed>>
    BY DEF Publish, Withdraw, Feedback, exactCache
<1>3. \A o \in Mutators : o # m => mutator'[o] = mutator[o]
    BY <1>1 DEF Publish, Withdraw, Feedback, MGoto
<1>4. \A d \in Docs : d \in live \cup missed => Covered(d)'
    <2>1. ASSUME NEW d \in Docs, Withdraw(m, d)
          PROVE  \A c \in Docs : c \in live \cup missed => Covered(c)'
        <3>1. mutator'[m].doc = d /\ mutator'[m].pc \in {"index", "bump"} /\ live' = live \ {d}
            BY <1>1, <2>1 DEF Withdraw, Mutator
        <3> QED BY <1>2, <3>1 DEF Covered
    <2>2. CASE \E d \in Docs : Publish(m, d)
        BY <1>2, <2>2 DEF Publish, Covered
    <2>3. CASE Feedback(m)
        BY <1>2, <2>3 DEF Feedback, corpus, Covered
    <2> QED BY <2>1, <2>2, <2>3
<1> QED BY <1>1, <1>2, <1>3, <1>4, WarmMutator

LEMMA WarmInvalidate ==
    ASSUME IInv, WarmInv, NEW m \in Mutators,
           Scan(m) \/ Drop(m) \/ InvalidateFails(m) \/ MutatorDies(m)
    PROVE  WarmInv'
<1>1. mutator \in [Mutators -> Mutator] /\ mutator[m] \in Mutator
    BY DEF IInv, TypeOK
<1>2. UNCHANGED <<live, version, exact, bydoc, asker>>
    BY DEF Scan, Drop, InvalidateFails, MutatorDies, exactCache, corpus
<1>3. missed \subseteq missed'
    BY DEF Scan, Drop, InvalidateFails, MutatorDies
<1>4. \A o \in Mutators : o # m => mutator'[o] = mutator[o]
    BY <1>1 DEF Scan, Drop, InvalidateFails, MutatorDies, MGoto, ThenScan, Finished
<1>5. \A d \in Docs : d \in live \cup missed => Covered(d)'
    BY <1>2, <1>3 DEF Covered
<1>6. \A d \in Docs : mutator[m].doc = d /\ mutator[m].pc \in {"index", "bump"} => Covered(d)'
    BY <1>1, NullAssumption DEF Scan, Drop, InvalidateFails, MutatorDies, MAt, Covered
<1> QED BY <1>2, <1>3, <1>4, <1>5, <1>6, WarmMutator

\* An index that has nothing of a document, and nobody who is about to add to
\* it: no answer of the current version cites the document.
LEMMA WarmCheckIndex ==
    ASSUME IInv, WarmInv, NEW m \in Mutators, CheckIndex(m)
    PROVE  WarmInv'
<1>0. PICK d : d = mutator[m].doc
    OBVIOUS
<1>1. /\ mutator \in [Mutators -> Mutator] /\ mutator[m] \in Mutator
      /\ mutator[m].pc = "index" /\ d \in Docs /\ version \in Versions
    BY <1>0 DEF IInv, TypeOK, DocInv, CheckIndex, MAt
<1>2. UNCHANGED <<live, version, exact, bydoc, asker>> /\ missed \subseteq missed'
    BY DEF CheckIndex, exactCache, corpus
<1>3. \A o \in Mutators : o # m => mutator'[o] = mutator[o]
    BY <1>1 DEF CheckIndex, MGoto, ThenScan, Finished
<1>4. \A c \in Docs : c \in live \cup missed => Covered(c)'
    BY <1>2 DEF Covered
<1>5. CASE bydoc[d] # {} \/ d \in missed \/ \E r \in Askers : Unindexed(r, d)
    <2>1. Covered(d)'
        <3>1. CASE bydoc[d] # {}
            <4>1. mutator'[m].pc = "bump" /\ mutator'[m].doc = d
                BY <1>0, <1>1, <3>1 DEF CheckIndex, MGoto, Mutator
            <4> QED BY <4>1 DEF Covered
        <3>2. CASE bydoc[d] = {}
            <4>1. d \in missed'
                BY <1>0, <1>5, <3>2 DEF CheckIndex
            <4> QED BY <4>1 DEF Covered
        <3> QED BY <3>1, <3>2
    <2> QED BY <1>0, <1>2, <1>3, <1>4, <2>1, WarmMutator
<1>6. CASE bydoc[d] = {} /\ d \notin missed /\ ~\E r \in Askers : Unindexed(r, d)
    <2>1. ~Indexed(d)
        BY <1>6 DEF Indexed, Unindexed, At
    <2>2. ASSUME NEW c \in Docs, c # d, Covered(c) PROVE Covered(c)'
        <3>1. CASE c \in live \cup missed
            BY <1>4, <3>1
        <3>2. ASSUME NEW o \in Mutators, mutator[o].doc = c, mutator[o].pc \in {"index", "bump"}
              PROVE  Covered(c)'
            BY <1>0, <1>3, <2>2, <3>2 DEF Covered
        <3> QED BY <2>2, <3>1, <3>2 DEF Covered
    <2>3. ASSUME NEW c \in Docs, Indexed(c) PROVE Indexed(c)'
        BY <1>2, <2>3 DEF Indexed, At
    <2>4. StoredInv'
        <3> SUFFICES ASSUME NEW q \in Queries, NEW c \in Docs, Cites(exact[<<version, q>>], c)
                     PROVE  Covered(c)' /\ Indexed(c)'
            BY <1>2 DEF StoredInv, Cites
        <3>1. Covered(c) /\ Indexed(c)
            BY DEF WarmInv, StoredInv
        <3> QED BY <2>1, <2>2, <2>3, <3>1
    <2>5. HeldInv'
        <3> SUFFICES ASSUME NEW r \in Askers, NEW c \in Docs, At(r, "store"),
                            asker[r].ver = version, c \in asker[r].answer.cites
                     PROVE  Covered(c)'
            BY <1>2 DEF HeldInv, At
        <3>1. Covered(c)
            BY DEF WarmInv, HeldInv
        <3>2. c # d
            BY <1>6 DEF Unindexed, At
        <3> QED BY <2>2, <3>1, <3>2
    <2> QED BY <2>4, <2>5 DEF WarmInv
<1> QED BY <1>5, <1>6

\* Nothing is stored or drawn for a version that only begins.
LEMMA WarmBump ==
    ASSUME IInv, Redis, NEW m \in Mutators, Bump(m)
    PROVE  WarmInv'
<1>1. /\ version' = version + 1 /\ UNCHANGED <<exact, asker>>
      /\ version \in Nat /\ version' \in Versions
    BY BumpStep, BoundAssumption DEF Bump, corpus, IInv, TypeOK, Versions
<1>2. \A q \in Queries : exact[<<version', q>>] = NoEntry
    <2>1. ~(version' <= version)
        BY <1>1
    <2> QED BY <1>1, <2>1 DEF IInv, EntryInv
<1>3. ASSUME NEW r \in Askers, At(r, "store") PROVE asker[r].ver # version'
    <2>1. asker[r].ver \in Nat /\ asker[r].ver <= version
        BY <1>3, BoundAssumption DEF IInv, TypeOK, AskerInv, AskerOK, At, Asker, Versions
    <2> QED BY <1>1, <2>1
<1>4. StoredInv'
    BY <1>1, <1>2 DEF StoredInv, Cites
<1>5. HeldInv'
    BY <1>1, <1>3 DEF HeldInv, At
<1> QED BY <1>4, <1>5 DEF WarmInv

LEMMA WarmUnscope ==
    ASSUME IInv, WarmInv, NEW m \in Mutators, Unscope(m)
    PROVE  WarmInv'
<1>1. /\ UNCHANGED <<live, version, exact, bydoc, missed>>
      /\ asker' = Overtaken /\ mutator' = [mutator EXCEPT ![m] = Done]
      /\ mutator[m].pc = "unscope"
    BY DEF Unscope, Finished, MAt, corpus, exactCache
<1>2. \A o \in Mutators : o # m => mutator'[o] = mutator[o]
    BY <1>1 DEF IInv, TypeOK
<1>3. ASSUME NEW r \in Askers
      PROVE  /\ asker'[r].pc = asker[r].pc /\ asker'[r].ver = asker[r].ver
             /\ asker'[r].answer.cites = asker[r].answer.cites
    <2>1. asker[r] \in Asker
        BY DEF IInv, TypeOK
    <2>2. asker'[r] = asker[r] \/ asker'[r] = [asker[r] EXCEPT !.answer.late = TRUE]
        BY <1>1 DEF Overtaken
    <2> QED BY <2>1, <2>2 DEF Asker, Answer
<1>4. ASSUME NEW d \in Docs, Covered(d) PROVE Covered(d)'
    BY <1>1, <1>2, <1>4 DEF Covered
<1>5. ASSUME NEW d \in Docs, Indexed(d) PROVE Indexed(d)'
    BY <1>1, <1>3, <1>5 DEF Indexed, At
<1>6. version \in Versions
    BY DEF IInv, TypeOK
<1> QED BY <1>1, <1>3, <1>4, <1>5, <1>6, WarmMoves

LEMMA WarmExpire ==
    ASSUME IInv, WarmInv, Expire
    PROVE  WarmInv'
<1>1. UNCHANGED <<live, version, bydoc, missed, asker, mutator>>
    BY DEF Expire, corpus
<1>2. \A k \in Keys : exact'[k] = exact[k] \/ exact'[k] = NoEntry
    <2>1. exact \in [Keys -> Answer \cup {NoEntry}]
        BY DEF IInv, TypeOK
    <2>2. \/ exact' = exact
          \/ \E k \in Keys : exact' = [exact EXCEPT ![k] = NoEntry]
        BY DEF Expire
    <2> QED BY <2>1, <2>2
<1>3. \A d \in Docs : (Covered(d) => Covered(d)') /\ (Indexed(d) => Indexed(d)')
    BY <1>1 DEF Covered, Indexed, At
<1>4. version \in Versions
    BY DEF IInv, TypeOK
<1> QED BY <1>1, <1>2, <1>3, <1>4, WarmMoves

\* With the exact cache in Redis: a cached answer of the current version cites
\* no document that was withdrawn, unless the document was written off or its
\* invalidation is still to come, although invalidateDocuments leaves the
\* cache warm when it finds no answer in the document's index.
THEOREM WarmCacheIsRight ==
    Redis => (Spec => []WarmCitesLive)
<1> SUFFICES ASSUME Redis PROVE Spec => []WarmCitesLive
    OBVIOUS
<1>1. Init => WarmInv
    <2> SUFFICES ASSUME Init PROVE WarmInv
        OBVIOUS
    <2>1. \A q \in Queries : <<version, q>> \in Keys
        BY Constants DEF Init, Keys
    <2>2. StoredInv
        BY <2>1 DEF Init, StoredInv, Cites
    <2>3. HeldInv
        BY DEF Init, HeldInv, At, Asleep
    <2> QED BY <2>2, <2>3 DEF WarmInv
<1>2. IInv /\ WarmInv /\ [Next]_vars => WarmInv'
    <2> SUFFICES ASSUME IInv, WarmInv, [Next]_vars PROVE WarmInv'
        OBVIOUS
    <2>1. CASE UNCHANGED vars
        <3>1. UNCHANGED <<live, version, exact, bydoc, missed, asker, mutator>>
            BY <2>1 DEF vars
        <3>2. \A d \in Docs : (Covered(d)' <=> Covered(d)) /\ (Indexed(d)' <=> Indexed(d))
            BY <3>1 DEF Covered, Indexed, At
        <3>3. StoredInv'
            BY <3>1, <3>2 DEF WarmInv, StoredInv
        <3>4. HeldInv'
            BY <3>1, <3>2 DEF WarmInv, HeldInv, At
        <3> QED BY <3>3, <3>4 DEF WarmInv
    <2>2. ASSUME NEW r \in Askers,
                 \/ \E q \in Queries : Ask(r, q) \/ AskUnread(r, q)
                 \/ AnswerQuery(r) \/ AskerDies(r) \/ StoreFails(r)
          PROVE  WarmInv'
        BY <2>2, WarmLookUp, WarmSettle, WarmRetrieve, WarmStore DEF AnswerQuery
    <2>3. ASSUME NEW m \in Mutators,
                 \/ \E d \in Docs : Publish(m, d) \/ Withdraw(m, d)
                 \/ Feedback(m) \/ Invalidate(m) \/ InvalidateFails(m) \/ MutatorDies(m)
          PROVE  WarmInv'
        BY <2>3, WarmChange, WarmInvalidate, WarmCheckIndex, WarmBump, WarmUnscope
           DEF Invalidate
    <2>4. CASE Expire
        BY <2>4, WarmExpire
    <2> QED BY <2>1, <2>2, <2>3, <2>4 DEF Next
<1>3. IInv /\ WarmInv => WarmCitesLive
    <2> SUFFICES ASSUME IInv, WarmInv, NEW q \in Queries, NEW d \in Docs,
                        exact[<<Label(version), q>>] # NoEntry,
                        d \in exact[<<Label(version), q>>].cites
                 PROVE  Covered(d)
        BY DEF WarmCitesLive, Covered
    <2>1. Label(version) = version
        BY Constants DEF IInv, TypeOK
    <2> QED BY <2>1 DEF WarmInv, StoredInv, Cites
<1> QED BY <1>1, <1>2, <1>3, SpecIInv, PTL DEF Spec

=============================================================================
