---------------------------- MODULE AnswerCache ----------------------------
(***************************************************************************)
(* The two answer caches of the knowledge base: the exact one              *)
(* (modules/rag/cache.ts), whose keys carry a version that an invalidation *)
(* bumps, and the semantic one (semantic-cache.ts), whose keys carry a     *)
(* random scope token that an invalidation deletes.  Askers run            *)
(* answerQuery; mutators change what can be retrieved and then invalidate. *)
(* A question stands for all that is hashed into its key beside it (filter,*)
(* role, language); similarity matching is left out.                       *)
(***************************************************************************)
EXTENDS Integers, FiniteSets

CONSTANTS
    Docs,        \* document ids
    Queries,     \* questions
    Askers,      \* runs of answerQuery that may overlap
    Mutators,    \* changes of the corpus that may overlap
    Redis,       \* REDIS_URL is set; otherwise the Map of the process is used
    MaxAsks,     \* bound: questions asked
    MaxChanges,  \* bound: changes of the corpus
    MaxFaults,   \* bound: failing calls, killed requests and expiries
    Null, NoEntry, NoScope

Versions == 0..MaxChanges
Keys == Versions \X Queries

Answer == [seen : Nat,             \* history: the clock when it was retrieved
           cites : SUBSET Docs,
           late : BOOLEAN]         \* history: an invalidation overtook it

Cached == [scope : Nat, query : Queries, answer : Answer]

ASSUME BoundAssumption ==
    /\ {MaxAsks, MaxChanges, MaxFaults} \subseteq Nat
    /\ Redis \in BOOLEAN

ASSUME MutatorsAssumption == IsFiniteSet(Mutators)

ASSUME NullAssumption ==
    /\ NoEntry \notin Answer
    /\ NoScope \notin Nat
    /\ Null \notin Docs \cup Queries \cup Keys

VARIABLES
    live,      \* documents that are READY: what retrieve can find
    clock,     \* history: how often `live` or a document in it changed
    version,   \* rag:ver
    born,      \* history: born[v]: the clock when the version became v
    exact,     \* rag:ans entries
    bydoc,     \* bydoc[d]: rag:bydoc, the keys of answers that cited d
    scope,     \* rag:scope, or NoScope
    minted,    \* scope tokens drawn so far; no token is drawn twice
    semantic,  \* rag:cache entries
    cleared,   \* history: the clock at the last finished invalidateScope
    missed,    \* history: documents withdrawn behind the index's back
    asker, mutator, asks, changes, faults

vars == <<live, clock, version, born, exact, bydoc, scope, minted, semantic,
          cleared, missed, asker, mutator, asks, changes, faults>>

corpus == <<live, clock>>
exactCache == <<version, born, exact, bydoc>>
semanticCache == <<scope, minted, semantic, cleared>>
bounds == <<asks, changes, faults>>

NoAnswer == [seen |-> 0, cites |-> {}, late |-> FALSE]

Asker == [pc : {"idle", "exact", "scope", "mint", "entry", "verify", "retrieve",
                "store", "track", "write"},
          query : Queries \cup {Null}, key : Keys \cup {Null},
          ver : Versions,                  \* history: the version it read
          then : {"entry", "verify", "write"},   \* what the scope is for
          token : Nat, held : Nat,
          answer : Answer]

Mutator == [pc : {"idle", "index", "bump", "scan", "drop", "unscope"},
            doc : Docs \cup {Null}, found : SUBSET Cached]

Asleep == [pc |-> "idle", query |-> Null, key |-> Null, ver |-> 0,
           then |-> "entry", token |-> 0, held |-> 0, answer |-> NoAnswer]
Done == [pc |-> "idle", doc |-> Null, found |-> {}]

TypeOK ==
    /\ live \subseteq Docs
    /\ clock \in Nat
    /\ version \in Versions
    /\ born \in [Versions -> Nat]
    /\ exact \in [Keys -> Answer \cup {NoEntry}]
    /\ bydoc \in [Docs -> SUBSET Keys]
    /\ scope \in Nat \cup {NoScope}
    /\ minted \in Nat
    /\ semantic \subseteq Cached
    /\ cleared \in Nat
    /\ missed \subseteq Docs
    /\ asker \in [Askers -> Asker]
    /\ mutator \in [Mutators -> Mutator]
    /\ asks \in 0..MaxAsks
    /\ changes \in 0..MaxChanges
    /\ faults \in 0..MaxFaults

-----------------------------------------------------------------------------
(* Helpers *)

\* What the version reads as in a key: without Redis the Map holds an object,
\* which every version from the first bump on turns into "[object Object]".
Label(v) == IF Redis \/ v = 0 THEN v ELSE 1

At(r, pc) == asker[r].pc = pc
Goto(r, pc) == asker' = [asker EXCEPT ![r].pc = pc]
Answered(r) == asker' = [asker EXCEPT ![r] = Asleep]

\* No cache had the answer.
Missed(r) == asker' = [asker EXCEPT ![r] = [@ EXCEPT
                  !.pc = "retrieve", !.then = "entry", !.token = 0, !.held = 0]]

\* getScopeHash, and what its result is for.
GetScopeFor(r, then) ==
    asker' = [asker EXCEPT ![r].pc = "scope", ![r].then = then]

MAt(m, pc) == mutator[m].pc = pc
MGoto(m, pc) == mutator' = [mutator EXCEPT ![m].pc = pc]
Finished(m) == mutator' = [mutator EXCEPT ![m] = Done]

\* The semantic cache is disabled without Redis.
ThenScan(m) == IF Redis THEN MGoto(m, "scan") ELSE Finished(m)

Entries(token, q) == {e \in semantic : e.scope = token /\ e.query = q}

\* r holds an answer that no cache has, or no index.
Unindexed(r, d) == asker[r].pc \in {"store", "track"} /\ d \in asker[r].answer.cites

Init ==
    /\ live \in SUBSET Docs
    /\ clock = 0
    /\ version = 0
    /\ born = [v \in Versions |-> 0]
    /\ exact = [k \in Keys |-> NoEntry]
    /\ bydoc = [d \in Docs |-> {}]
    /\ scope = NoScope
    /\ minted = 0
    /\ semantic = {}
    /\ cleared = 0
    /\ missed = {}
    /\ asker = [r \in Askers |-> Asleep]
    /\ mutator = [m \in Mutators |-> Done]
    /\ asks = 0
    /\ changes = 0
    /\ faults = 0

-----------------------------------------------------------------------------
(* answerQuery *)

AskUnversioned(r, q) ==
    /\ asks < MaxAsks
    /\ asks' = asks + 1
    /\ At(r, "idle")
    /\ asker' = [asker EXCEPT ![r] = [Asleep EXCEPT
                    !.pc = "exact", !.query = q, !.ver = version, !.key = <<0, q>>]]
    /\ UNCHANGED <<corpus, exactCache, semanticCache, missed, mutator, changes, faults>>

\* cacheKey, before anything is retrieved.
Ask(r, q) ==
    /\ asks < MaxAsks
    /\ asks' = asks + 1
    /\ At(r, "idle")
    /\ asker' = [asker EXCEPT ![r] = [Asleep EXCEPT
                    !.pc = "exact", !.query = q, !.ver = version,
                    !.key = <<Label(version), q>>]]
    /\ UNCHANGED <<corpus, exactCache, semanticCache, missed, mutator, changes, faults>>

\* getCached.
GetCached(r) ==
    /\ At(r, "exact")
    /\ IF exact[asker[r].key] # NoEntry THEN Answered(r)
       ELSE IF Redis THEN GetScopeFor(r, "entry") ELSE Missed(r)
    /\ UNCHANGED <<corpus, exactCache, semanticCache, missed, mutator, bounds>>

\* getScopeHash reads the token ...
ReadScope(r) ==
    /\ At(r, "scope")
    /\ asker' = IF scope = NoScope THEN [asker EXCEPT ![r].pc = "mint"]
                ELSE [asker EXCEPT ![r].pc = asker[r].then, ![r].token = scope]
    /\ UNCHANGED <<corpus, exactCache, semanticCache, missed, mutator, bounds>>

\* ... and where there is none sets a new one, whoever did so meanwhile.
MintScope(r) ==
    /\ At(r, "mint")
    /\ minted' = minted + 1
    /\ scope' = minted'
    /\ asker' = [asker EXCEPT ![r].pc = asker[r].then, ![r].token = minted']
    /\ UNCHANGED <<corpus, exactCache, semantic, cleared, missed, mutator, bounds>>

\* semanticCache.get.
GetSemantic(r) ==
    /\ At(r, "entry")
    /\ IF Entries(asker[r].token, asker[r].query) = {} THEN Missed(r)
       ELSE asker' = [asker EXCEPT ![r].pc = "scope", ![r].then = "verify",
                                   ![r].held = asker[r].token]
    /\ UNCHANGED <<corpus, exactCache, semanticCache, missed, mutator, bounds>>

\* The scope has to be the same still; otherwise the entry is deleted.
VerifyScope(r) ==
    /\ At(r, "verify")
    /\ IF asker[r].token = asker[r].held THEN Answered(r) /\ UNCHANGED semantic
       ELSE /\ semantic' = semantic \ Entries(asker[r].held, asker[r].query)
            /\ Missed(r)
    /\ UNCHANGED <<corpus, exactCache, scope, minted, cleared, missed, mutator, bounds>>

\* retrieve and generate.  Without a hit the answer is a refusal, and neither
\* that nor an answer that is not faithful is cached.
Retrieve(r) ==
    /\ At(r, "retrieve")
    /\ \/ Answered(r)
       \/ \E cites \in (SUBSET live) \ {{}} :
            asker' = [asker EXCEPT ![r].pc = "store",
                ![r].answer = [seen |-> clock, cites |-> cites, late |-> FALSE]]
    /\ UNCHANGED <<corpus, exactCache, semanticCache, missed, mutator, bounds>>

\* setCached, under the key of the beginning.
Store(r) ==
    /\ At(r, "store")
    /\ exact' = [exact EXCEPT ![asker[r].key] = asker[r].answer]
    /\ Goto(r, "track")
    /\ UNCHANGED <<corpus, version, born, bydoc, semanticCache, missed, mutator, bounds>>

TrackNothing(r) ==
    /\ At(r, "track")
    /\ IF Redis THEN GetScopeFor(r, "write") ELSE Answered(r)
    /\ UNCHANGED <<corpus, exactCache, semanticCache, missed, mutator, bounds>>

\* trackCacheEntry.
Track(r) ==
    /\ At(r, "track")
    /\ bydoc' = [d \in Docs |-> IF d \in asker[r].answer.cites
                                THEN bydoc[d] \cup {asker[r].key} ELSE bydoc[d]]
    /\ IF Redis THEN GetScopeFor(r, "write") ELSE Answered(r)
    /\ UNCHANGED <<corpus, version, born, exact, semanticCache, missed, mutator, bounds>>

\* semanticCache.set, under a scope that was looked up just now.
SetSemantic(r) ==
    LET e == [scope |-> asker[r].token, query |-> asker[r].query,
              answer |-> asker[r].answer]
    IN  /\ At(r, "write")
        /\ semantic' = (semantic \ Entries(e.scope, e.query)) \cup {e}
        /\ Answered(r)
        /\ UNCHANGED <<corpus, exactCache, scope, minted, cleared, missed, mutator, bounds>>

-----------------------------------------------------------------------------
(* Changes of the corpus, each with the invalidation that follows it *)

Change(m) == MAt(m, "idle") /\ changes < MaxChanges /\ changes' = changes + 1

\* The embedding queue sets READY, then invalidateRetrievalCaches.
Publish(m, d) ==
    /\ Change(m)
    /\ live' = live \cup {d}
    /\ clock' = clock + 1
    /\ mutator' = [mutator EXCEPT ![m].pc = "bump", ![m].doc = d]
    /\ UNCHANGED <<exactCache, semanticCache, missed, asker, asks, faults>>

\* A document is deleted or its new content set PROCESSING, then
\* invalidateDocuments; reindexTenant goes on with invalidateTenant.
Withdraw(m, d) ==
    /\ Change(m)
    /\ d \in live
    /\ live' = live \ {d}
    /\ clock' = clock + 1
    /\ \E pc \in {"index", "bump"} :
         mutator' = [mutator EXCEPT ![m].pc = pc, ![m].doc = d]
    /\ UNCHANGED <<exactCache, semanticCache, missed, asker, asks, faults>>

\* submitFeedback invalidates both caches, whatever its correction became.
Feedback(m) ==
    /\ Change(m)
    /\ MGoto(m, "bump")
    /\ UNCHANGED <<corpus, exactCache, semanticCache, missed, asker, asks, faults>>

\* invalidateDocuments: without an answer that cites d the caches stay warm.
CheckIndex(m) ==
    LET d == mutator[m].doc
    IN  /\ MAt(m, "index")
        /\ IF bydoc[d] # {} THEN MGoto(m, "bump") /\ UNCHANGED missed
           ELSE /\ ThenScan(m)
                /\ missed' = IF \E r \in Askers : Unindexed(r, d)
                             THEN missed \cup {d} ELSE missed
        /\ UNCHANGED <<corpus, exactCache, semanticCache, asker, bounds>>

BumpPerId(m) ==
    /\ MAt(m, "bump")
    /\ version' = version + 1
    /\ born' = [born EXCEPT ![version + 1] = clock]
    /\ missed' = {}
    /\ UNCHANGED <<corpus, exact, bydoc, semanticCache, asker, mutator, bounds>>

\* invalidateTenant.
Bump(m) ==
    /\ MAt(m, "bump")
    /\ version' = version + 1
    /\ born' = [born EXCEPT ![version + 1] = clock]
    /\ missed' = {}
    /\ ThenScan(m)
    /\ UNCHANGED <<corpus, exact, bydoc, semanticCache, asker, bounds>>

\* invalidateScope: scan, delete what the scan found, delete the token.
Scan(m) ==
    /\ MAt(m, "scan")
    /\ mutator' = [mutator EXCEPT ![m].pc = "drop", ![m].found = semantic]
    /\ UNCHANGED <<corpus, exactCache, semanticCache, missed, asker, bounds>>

Drop(m) ==
    /\ MAt(m, "drop")
    /\ semantic' = {e \in semantic : \A f \in mutator[m].found :
                        <<e.scope, e.query>> # <<f.scope, f.query>>}
    /\ MGoto(m, "unscope")
    /\ UNCHANGED <<corpus, exactCache, scope, minted, cleared, missed, asker, bounds>>

\* Answers that were retrieved but not written yet are overtaken.
Overtaken ==
    [r \in Askers |-> IF asker[r].answer = NoAnswer THEN asker[r]
                      ELSE [asker[r] EXCEPT !.answer.late = TRUE]]

UnscopeNothing(m) ==
    /\ MAt(m, "unscope")
    /\ cleared' = clock
    /\ asker' = Overtaken
    /\ Finished(m)
    /\ UNCHANGED <<corpus, exactCache, scope, minted, semantic, missed, bounds>>

Unscope(m) ==
    /\ MAt(m, "unscope")
    /\ scope' = NoScope
    /\ cleared' = clock
    /\ asker' = Overtaken
    /\ Finished(m)
    /\ UNCHANGED <<corpus, exactCache, minted, semantic, missed, bounds>>

-----------------------------------------------------------------------------
(* Faults *)

Fault == faults < MaxFaults /\ faults' = faults + 1

\* An error of the version's read falls through to the Map, where Redis leaves 0.
AskUnread(r, q) ==
    /\ Fault
    /\ Redis
    /\ asks < MaxAsks
    /\ asks' = asks + 1
    /\ At(r, "idle")
    /\ asker' = [asker EXCEPT ![r] = [Asleep EXCEPT
                    !.pc = "exact", !.query = q, !.key = <<0, q>>]]
    /\ UNCHANGED <<corpus, exactCache, semanticCache, missed, mutator, changes>>

\* The request is killed; what it stored without an index is not found again.
AskerDies(r) ==
    /\ Fault
    /\ ~At(r, "idle")
    /\ missed' = IF At(r, "track") THEN missed \cup asker[r].answer.cites ELSE missed
    /\ Answered(r)
    /\ UNCHANGED <<corpus, exactCache, semanticCache, mutator, asks, changes>>

\* Errors of setCached and trackCacheEntry are swallowed.
StoreFails(r) ==
    /\ Fault
    /\ \/ At(r, "store") /\ Goto(r, "track") /\ UNCHANGED missed
       \/ /\ At(r, "track")
          /\ IF Redis THEN GetScopeFor(r, "write") ELSE Answered(r)
          /\ missed' = missed \cup asker[r].answer.cites
    /\ UNCHANGED <<corpus, exactCache, semanticCache, mutator, asks, changes>>

\* So are those of sMembers, which reads as no answer, and of invalidateTenant.
InvalidateFails(m) ==
    /\ Fault
    /\ mutator[m].pc \in {"index", "bump"}
    /\ missed' = IF mutator[m].doc # Null THEN missed \cup {mutator[m].doc} ELSE missed
    /\ ThenScan(m)
    /\ UNCHANGED <<corpus, exactCache, semanticCache, asker, asks, changes>>

\* An error of invalidateScope ends it, and so does a kill at any step.
MutatorDies(m) ==
    /\ Fault
    /\ ~MAt(m, "idle")
    /\ missed' = IF mutator[m].pc \in {"index", "bump"} /\ mutator[m].doc # Null
                 THEN missed \cup {mutator[m].doc} ELSE missed
    /\ Finished(m)
    /\ UNCHANGED <<corpus, exactCache, semanticCache, asker, asks, changes>>

\* A time to live runs out.
Expire ==
    /\ Fault
    /\ \/ /\ \E k \in Keys : exact[k] # NoEntry /\ exact' = [exact EXCEPT ![k] = NoEntry]
          /\ UNCHANGED <<scope, semantic>>
       \/ /\ \E e \in semantic : semantic' = semantic \ {e}
          /\ UNCHANGED <<exact, scope>>
       \/ /\ scope # NoScope
          /\ scope' = NoScope
          /\ UNCHANGED <<exact, semantic>>
    /\ UNCHANGED <<corpus, version, born, bydoc, minted, cleared, missed, asker,
                   mutator, asks, changes>>

-----------------------------------------------------------------------------
AnswerQuery(r) ==
    \/ GetCached(r) \/ ReadScope(r) \/ MintScope(r) \/ GetSemantic(r)
    \/ VerifyScope(r) \/ Retrieve(r) \/ Store(r) \/ Track(r) \/ SetSemantic(r)

Invalidate(m) ==
    CheckIndex(m) \/ Bump(m) \/ Scan(m) \/ Drop(m) \/ Unscope(m)

Next ==
    \/ \E r \in Askers :
         \/ \E q \in Queries : Ask(r, q) \/ AskUnread(r, q)
         \/ AnswerQuery(r) \/ AskerDies(r) \/ StoreFails(r)
    \/ \E m \in Mutators :
         \/ \E d \in Docs : Publish(m, d) \/ Withdraw(m, d)
         \/ Feedback(m) \/ Invalidate(m) \/ InvalidateFails(m) \/ MutatorDies(m)
    \/ Expire

Spec == Init /\ [][Next]_vars

-----------------------------------------------------------------------------
(* Properties *)

\* A question that is about to be served from the exact cache gets an answer
\* retrieved after every bump up to the version the question read: an answer
\* that was under way during a bump is filed under the version before it
\* ("invalidateTenant() cheaply drops all of a tenant's cached answers").
ExactFresh ==
    \A r \in Askers :
        /\ At(r, "exact")
        /\ exact[asker[r].key] # NoEntry
        => exact[asker[r].key].seen >= born[asker[r].ver]

\* Where the caches were left warm, no answer under the current version cites
\* a document that was withdrawn, unless the answer was not in the index when
\* that was consulted, or the invalidation is still to come.
WarmCitesLive ==
    \A q \in Queries, d \in Docs :
        LET e == exact[<<Label(version), q>>]
        IN  e # NoEntry /\ d \in e.cites =>
                \/ d \in live \cup missed
                \/ \E m \in Mutators : mutator[m].doc = d /\ mutator[m].pc \in {"index", "bump"}

\* An answer the semantic cache can serve was retrieved after the last change
\* whose invalidation is complete, unless that overtook it: the token makes
\* whatever was written between the scan and the end unreachable.
SemanticFresh ==
    \A e \in semantic :
        e.scope = scope => e.answer.late \/ e.answer.seen >= cleared
=============================================================================
