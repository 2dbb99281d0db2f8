--------------------------- MODULE RagIndexProofs ---------------------------
(***************************************************************************)
(* What holds of RagIndex for any number of documents, files, requests,    *)
(* slots, retries and faults: the types, that the slots of the embedding   *)
(* queue are used, and that a READY document nobody disturbed has all its  *)
(* chunks and vectors, however often it was stored, diffed and reindexed.  *)
(***************************************************************************)
EXTENDS RagIndex, FiniteSetTheorems, WellFoundedInduction, TLAPS

\* What a request has in hand: a reindex one document and those still to be
\* cleared, any other one document and its file.
WriterOK(x) ==
    /\ x \in Writer
    /\ x.doc \in IF x.pc \in {"idle", "next"} THEN {Null} ELSE Docs
    /\ x.pc \in Writing => x.file \in Files
    /\ x.doc \notin x.todo
    /\ x.pc \notin {"next", "dirty", "requeue"} => x.todo = {}

TypeInv ==
    /\ TypeOK
    /\ chunks \in [Docs -> SUBSET Chunk]
    /\ writer \in [Writers -> Writer]
    /\ \A w \in Writers : WriterOK(writer[w])

SlotInv == SlotsUsed /\ IsFiniteSet(Active(job))

\* Chunks are told apart by their ids, and new ones get ids nobody had.
Apart(S) ==
    /\ IsFiniteSet(S)
    /\ \A b, c \in S : b.id = c.id => b = c
    /\ \A c \in S : c.id <= nextId

ChunkInv ==
    /\ \A d \in Docs : Apart(chunks[d]) /\ (~Exists(d) => chunks[d] = {})
    /\ \A w \in Writers : Apart(writer[w].old)

Queued(d) == \E i \in DOMAIN queue : queue[i].doc = d
Embedding(d) == job[d] # NoJob \/ timers[d] # {} \/ Queued(d)

\* Nobody but w is at work on d.
Alone(w, d) == ~Embedding(d) /\ \A v \in Writers \ {w} : ~Writes(v, d)

\* An id that was not given out is nobody's; one that was is its creator's.
FreshInv ==
    /\ \A d \in Docs \ used :
         ~Exists(d) /\ ~Embedding(d) /\ \A w \in Writers : ~Writes(w, d)
    /\ \A w \in Writers :
         At(w, "create") => ~Exists(writer[w].doc) /\ Alone(w, writer[w].doc)

\* Positions of f whose text old has too few chunks of.
Missing(old, f) ==
    {i \in DOMAIN Content[f] :
        Cardinality({j \in 1..(i - 1) : Content[f][j] = Content[f][i]})
            >= Cardinality(With(old, Content[f][i]))}

Intact(d) == Complete(d) /\ (Is(d, "READY") => Unembedded(d) = {})

\* The request x is at work on d and has come this far.
PhaseOK(x, d) ==
    /\ x.pc \in {"old", "rehash"} => Intact(d)
    /\ x.pc \in {"rehash", "prune"} => x.old = chunks[d]
    /\ x.pc \in Writing \ {"create", "old", "rehash", "wipe", "claim"} => doc[d].hash = x.file
    /\ x.pc \in {"prune", "insert", "settle", "enqueue", "chunks", "requeue"}
         => doc[d].status = "PROCESSING"
    /\ x.pc = "insert" => chunks[d] = Kept(x.old, x.file)
    /\ x.pc \in {"settle", "enqueue", "dirty", "requeue"} => Complete(d)
    /\ x.pc = "settle" /\ Missing(x.old, x.file) = {}
         /\ (\A c \in Kept(x.old, x.file) : c.vec) => Unembedded(d) = {}
    /\ x.pc \in {"claim", "chunks"} => chunks[d] = {}

\* One actor at a time works on a document that is not disturbed; while it is a
\* request, the document is as far as that; otherwise it has the chunks of its
\* bytes, and what a job has not listed or embedded yet is still to come.
DocOK(d) ==
    /\ \A w \in Writers : Writes(w, d) => Alone(w, d)
    /\ \A w \in Writers : writer[w].doc = d => PhaseOK(writer[w], d)
    /\ (\A w \in Writers : writer[w].doc # d) => Intact(d)
    /\ JobAt(d, "embed") => Ids(Unembedded(d)) \subseteq job[d].work
    /\ JobAt(d, "ready") => Unembedded(d) = {}

DocInv == \A d \in Docs : Exists(d) /\ d \notin disturbed => DocOK(d)

IInv == TypeInv /\ SlotInv /\ ChunkInv /\ FreshInv /\ DocInv

-----------------------------------------------------------------------------
(* Induction over the naturals, with a set for the predicate *)

Less == {ss \in Nat \X Nat : ss[1] < ss[2]}

LEMMA LeastNumber ==
    ASSUME NEW T \in SUBSET Nat, T # {}
    PROVE  \E n \in T : \A m \in T : n <= m
<1>1. IsWellFoundedOn(Less, Nat)
    <2>1. Less = OpToRel(<, Nat)
        BY DEF Less, OpToRel
    <2> QED BY <2>1, NatLessThanWellFounded
<1>2. PICK x \in T : \A y \in T : ~(<<y, x>> \in Less)
    BY <1>1, WFMin
<1>3. ASSUME NEW y \in T, ~(x <= y) PROVE FALSE
    <2>1. y < x /\ x \in Nat /\ y \in Nat
        BY <1>3
    <2>2. <<y, x>> \in Nat \X Nat /\ <<y, x>>[1] < <<y, x>>[2]
        BY <2>1
    <2>3. <<y, x>> \in Less
        BY <2>2 DEF Less
    <2> QED BY <1>2, <2>3
<1> QED BY <1>3

LEMMA MinIsLeast ==
    ASSUME NEW T \in SUBSET Nat, T # {}
    PROVE  Min(T) \in T /\ \A m \in T : Min(T) <= m
BY LeastNumber DEF Min

LEMMA EveryNumber ==
    ASSUME NEW P \in SUBSET Nat, 0 \in P, \A i \in P : i + 1 \in P
    PROVE  P = Nat
<1> SUFFICES ASSUME NEW T, T = Nat \ P, T # {} PROVE FALSE
    OBVIOUS
<1>1. PICK k \in T : \A i \in T : k <= i
    BY LeastNumber
<1>2. k - 1 \in Nat /\ k - 1 \notin T
    BY <1>1
<1>3. k - 1 \in P
    BY <1>2
<1> QED BY <1>1, <1>3

\* A finite set of numbers is bounded.
LEMMA FiniteIsBounded ==
    ASSUME NEW T \in SUBSET Nat, IsFiniteSet(T)
    PROVE  \E N \in Nat : \A t \in T : t < N
<1> DEFINE P == {k \in Nat : \A U \in SUBSET T :
                   Cardinality(U) = k => \E N \in Nat : \A t \in U : t < N}
<1>1. 0 \in P
    <2> SUFFICES ASSUME NEW U \in SUBSET T, Cardinality(U) = 0
                 PROVE  \E N \in Nat : \A t \in U : t < N
        OBVIOUS
    <2>1. U = {}
        BY FS_Subset, FS_EmptySet
    <2> QED BY <2>1
<1>2. ASSUME NEW k \in P PROVE k + 1 \in P
    <2> SUFFICES ASSUME NEW U \in SUBSET T, Cardinality(U) = k + 1
                 PROVE  \E N \in Nat : \A t \in U : t < N
        OBVIOUS
    <2>1. k \in Nat /\ IsFiniteSet(U)
        BY FS_Subset
    <2>2. PICK u \in U : TRUE
        <3>1. U = {} => k + 1 = 0
            BY FS_EmptySet
        <3> QED BY <2>1, <3>1
    <2>3. Cardinality(U \ {u}) = k
        <3> HIDE DEF P
        <3>1. Cardinality(U \ {u}) = Cardinality(U) - 1
            BY <2>1, <2>2, FS_RemoveElement
        <3> QED BY <2>1, <3>1
    <2>4. PICK N \in Nat : \A t \in U \ {u} : t < N
        BY <2>3
    <2>5. \A t \in U : t < N + u + 1
        BY <2>4
    <2>6. N + u + 1 \in Nat
        OBVIOUS
    <2> QED BY <2>5, <2>6
<1>3. P = Nat
    <2>1. P \in SUBSET Nat
        OBVIOUS
    <2> HIDE DEF P
    <2> QED BY <1>1, <1>2, <2>1, EveryNumber
<1>4. Cardinality(T) \in P
    BY <1>3, FS_CardinalityType
<1> QED BY <1>4

-----------------------------------------------------------------------------
(* Counting by rank *)

\* Of the elements of a finite set that f puts in order, those with fewer than
\* n before them are n in number, or all of them.
LEMMA FirstOnes ==
    ASSUME NEW S, IsFiniteSet(S), NEW f \in [S -> Nat], NEW n \in Nat,
           \A a, b \in S : f[a] = f[b] => a = b
    PROVE  Cardinality({c \in S : Cardinality({k \in S : f[k] < f[c]}) < n})
               = IF Cardinality(S) <= n THEN Cardinality(S) ELSE n
<1> DEFINE Low(N) == {c \in S : f[c] < N}
           First(N) == {c \in Low(N) : Cardinality(Low(f[c])) < n}
           P == {N \in Nat : Cardinality(First(N)) = IF Cardinality(Low(N)) <= n
                                                     THEN Cardinality(Low(N)) ELSE n}
<1>1. ASSUME NEW N \in Nat PROVE IsFiniteSet(Low(N)) /\ Cardinality(Low(N)) \in Nat
                                  /\ IsFiniteSet(First(N))
    <2>1. Low(N) \in SUBSET S /\ First(N) \in SUBSET S
        OBVIOUS
    <2> HIDE DEF Low, First
    <2> QED BY <2>1, FS_Subset, FS_CardinalityType
<1>2. 0 \in P
    <2>1. Low(0) = {} /\ First(0) = {}
        OBVIOUS
    <2> HIDE DEF Low, First
    <2> QED BY <2>1, FS_EmptySet
<1>3. ASSUME NEW N \in P PROVE N + 1 \in P
    <2>1. N \in Nat /\ N + 1 \in Nat
        OBVIOUS
    <2>2. CASE \A c \in S : f[c] # N
        <3>1. Low(N + 1) = Low(N)
            BY <2>1, <2>2
        <3>2. First(N + 1) = First(N)
            BY <3>1
        <3> HIDE DEF Low, First
        <3> QED BY <2>1, <3>1, <3>2
    <2>3. ASSUME NEW c \in S, f[c] = N PROVE N + 1 \in P
        <3>1. Low(N + 1) = Low(N) \cup {c} /\ c \notin Low(N)
            BY <2>1, <2>3
        <3>2. First(N + 1) = IF Cardinality(Low(N)) < n THEN First(N) \cup {c}
                                                        ELSE First(N)
            BY <2>3, <3>1
        <3>3. c \notin First(N)
            BY <3>1
        <3> HIDE DEF Low, First
        <3>4. Cardinality(Low(N + 1)) = Cardinality(Low(N)) + 1
            BY <1>1, <2>1, <3>1, FS_AddElement
        <3>5. Cardinality(First(N) \cup {c}) = Cardinality(First(N)) + 1
            BY <1>1, <2>1, <3>3, FS_AddElement
        <3> QED BY <1>1, <2>1, <3>2, <3>4, <3>5
    <2> QED BY <2>2, <2>3
<1>4. P = Nat
    <2>1. P \in SUBSET Nat
        OBVIOUS
    <2> HIDE DEF P
    <2> QED BY <1>2, <1>3, <2>1, EveryNumber
<1>5. PICK N \in Nat : \A c \in S : f[c] < N
    <2> DEFINE T == {f[c] : c \in S}
               q == [c \in S |-> f[c]]
    <2>1. q \in Surjection(S, T)
        BY DEF Surjection
    <2>2. IsFiniteSet(T) /\ T \in SUBSET Nat
        BY <2>1, FS_Surjection
    <2>3. \E N \in Nat : \A t \in T : t < N
        <3> HIDE DEF T
        <3> QED BY <2>2, FiniteIsBounded
    <2> QED BY <2>3
<1>6. Low(N) = S
    BY <1>5
<1>7. First(N) = {c \in S : Cardinality({k \in S : f[k] < f[c]}) < n}
    BY <1>6
<1>8. N \in P
    BY <1>4
<1> HIDE DEF Low, First
<1> QED BY <1>6, <1>7, <1>8

-----------------------------------------------------------------------------
(* What a diff keeps and adds *)

\* The places of a text in a file.
Places(f, p) == {i \in DOMAIN Content[f] : Content[f][i] = p}

LEMMA PlacesFinite ==
    ASSUME NEW f \in Files, NEW p
    PROVE  /\ DOMAIN Content[f] = 1..Len(Content[f]) /\ Len(Content[f]) \in Nat
           /\ Places(f, p) \in SUBSET Nat /\ IsFiniteSet(Places(f, p))
           /\ Count(f, p) = Cardinality(Places(f, p)) /\ Count(f, p) \in Nat
<1>1. Content[f] \in Seq(Pieces)
    BY ContentAssumption
<1>2. DOMAIN Content[f] = 1..Len(Content[f]) /\ Len(Content[f]) \in Nat
    BY <1>1
<1>3. IsFiniteSet(DOMAIN Content[f])
    BY <1>2, FS_Interval
<1>4. Places(f, p) \in SUBSET DOMAIN Content[f]
    BY DEF Places
<1>5. IsFiniteSet(Places(f, p)) /\ Places(f, p) \in SUBSET Nat
    BY <1>2, <1>3, <1>4, FS_Subset
<1> QED BY <1>2, <1>5, FS_CardinalityType DEF Count, Places

LEMMA WithFinite ==
    ASSUME NEW S, IsFiniteSet(S), NEW p
    PROVE  IsFiniteSet(With(S, p)) /\ Cardinality(With(S, p)) \in Nat
<1>1. With(S, p) \in SUBSET S
    BY DEF With
<1> QED BY <1>1, FS_Subset, FS_CardinalityType

\* A diff keeps of each text as many chunks as the new file and the old have.
LEMMA KeptCount ==
    ASSUME NEW old \in SUBSET Chunk, IsFiniteSet(old),
           \A b, c \in old : b.id = c.id => b = c, NEW f \in Files, NEW p
    PROVE  Cardinality(With(Kept(old, f), p)) =
               IF Cardinality(With(old, p)) <= Count(f, p)
               THEN Cardinality(With(old, p)) ELSE Count(f, p)
<1> DEFINE S == With(old, p)
           id == [c \in S |-> c.id]
<1>1. IsFiniteSet(S) /\ S \in SUBSET old
    BY WithFinite DEF With
<1>2. id \in [S -> Nat] /\ \A a, b \in S : id[a] = id[b] => a = b
    BY <1>1 DEF Chunk
<1>3. Count(f, p) \in Nat
    BY PlacesFinite
<1>4. With(Kept(old, f), p) =
          {c \in S : Cardinality({k \in S : id[k] < id[c]}) < Count(f, p)}
    <2>1. \A c \in S : {k \in S : id[k] < id[c]} = {k \in With(old, c.piece) : k.id < c.id}
        BY DEF With
    <2>2. With(Kept(old, f), p) = {c \in S : c \in Kept(old, f)}
        BY DEF With, Kept
    <2>3. \A c \in S : c \in Kept(old, f) <=>
              Cardinality({k \in With(old, c.piece) : k.id < c.id}) < Count(f, c.piece)
        BY <1>1 DEF Kept
    <2>4. \A c \in S : c.piece = p
        BY DEF With
    <2> HIDE DEF S, id
    <2> QED BY <2>1, <2>2, <2>3, <2>4
<1> HIDE DEF S, id
<1>5. Cardinality({c \in S : Cardinality({k \in S : id[k] < id[c]}) < Count(f, p)})
          = IF Cardinality(S) <= Count(f, p) THEN Cardinality(S) ELSE Count(f, p)
    BY <1>1, <1>2, <1>3, FirstOnes
<1> QED BY <1>4, <1>5 DEF S

MissingOf(old, f, p) == {i \in Missing(old, f) : Content[f][i] = p}

\* The places a diff fills make up the rest.
LEMMA MissingCount ==
    ASSUME NEW old, IsFiniteSet(old), NEW f \in Files, NEW p
    PROVE  /\ IsFiniteSet(MissingOf(old, f, p))
           /\ Cardinality(MissingOf(old, f, p)) =
               IF Cardinality(With(old, p)) <= Count(f, p)
               THEN Count(f, p) - Cardinality(With(old, p)) ELSE 0
<1> DEFINE P == Places(f, p)
           has == Cardinality(With(old, p))
           place == [i \in P |-> i]
           F == {c \in P : Cardinality({k \in P : place[k] < place[c]}) < has}
<1>1. IsFiniteSet(P) /\ P \in SUBSET Nat /\ has \in Nat /\ Cardinality(P) = Count(f, p)
      /\ Count(f, p) \in Nat
    BY PlacesFinite, WithFinite
<1>2. place \in [P -> Nat] /\ \A a, b \in P : place[a] = place[b] => a = b
    BY <1>1
<1>3. MissingOf(old, f, p) = P \ F
    <2>1. \A i \in P : {k \in P : place[k] < place[i]}
                          = {j \in 1..(i - 1) : Content[f][j] = Content[f][i]}
        BY PlacesFinite DEF Places
    <2>2. \A i \in P : Cardinality({k \in P : place[k] < place[i]}) \in Nat
        <3> TAKE i \in P
        <3>1. {k \in P : place[k] < place[i]} \in SUBSET P
            OBVIOUS
        <3> HIDE DEF P, place
        <3> QED BY <1>1, <3>1, FS_Subset, FS_CardinalityType
    <2>3. \A i \in P : Content[f][i] = p /\ i \in DOMAIN Content[f]
        BY DEF Places
    <2>4. \A i \in MissingOf(old, f, p) : i \in P
        BY DEF MissingOf, Missing, Places
    <2>5. \A i \in P : i \in MissingOf(old, f, p) <=>
              Cardinality({j \in 1..(i - 1) : Content[f][j] = Content[f][i]}) >= has
        BY <2>3 DEF MissingOf, Missing
    <2>6. \A i \in P : i \in MissingOf(old, f, p) <=> ~(i \in F)
        <3> TAKE i \in P
        <3>1. i \in MissingOf(old, f, p) <=> Cardinality({k \in P : place[k] < place[i]}) >= has
            BY <2>1, <2>5
        <3>2. i \in F <=> Cardinality({k \in P : place[k] < place[i]}) < has
            OBVIOUS
        <3>3. Cardinality({k \in P : place[k] < place[i]}) \in Nat
            BY <2>2
        <3> HIDE DEF P, place, has, F
        <3> QED BY <1>1, <3>1, <3>2, <3>3
    <2> HIDE DEF P, place, has, F
    <2> QED BY <2>4, <2>6
<1>4. F \in SUBSET P
    OBVIOUS
<1> HIDE DEF P, place, has
<1>5. Cardinality({c \in P : Cardinality({k \in P : place[k] < place[c]}) < has})
          = IF Cardinality(P) <= has THEN Cardinality(P) ELSE has
    <2>1. IsFiniteSet(P) /\ has \in Nat
        BY <1>1
    <2> SUFFICES ASSUME NEW n \in Nat
                 PROVE  Cardinality({c \in P : Cardinality({k \in P : place[k] < place[c]}) < n})
                            = IF Cardinality(P) <= n THEN Cardinality(P) ELSE n
        BY <2>1
    <2> HIDE DEF F
    <2> QED BY <2>1, <1>2, FirstOnes
<1>10. Cardinality(F) = IF Cardinality(P) <= has THEN Cardinality(P) ELSE has
    BY <1>5
<1> HIDE DEF F
<1>6. IsFiniteSet(P \ F) /\ Cardinality(P \ F) = Cardinality(P) - Cardinality(P \cap F)
    BY <1>1, FS_Difference
<1>7. P \cap F = F
    BY <1>4
<1>8. IsFiniteSet(MissingOf(old, f, p)) /\ Cardinality(MissingOf(old, f, p)) =
          IF has <= Count(f, p) THEN Count(f, p) - has ELSE 0
    <2>1. IsFiniteSet(MissingOf(old, f, p))
          /\ Cardinality(MissingOf(old, f, p)) = Cardinality(P) - Cardinality(F)
        BY <1>3, <1>6, <1>7
    <2> QED BY <1>1, <1>10, <2>1
<1> QED BY <1>8 DEF has

LEMMA InsertedCount ==
    ASSUME nextId \in Nat, NEW old, IsFiniteSet(old), NEW f \in Files, NEW p
    PROVE  /\ IsFiniteSet(With(Inserted(old, f), p))
           /\ Cardinality(With(Inserted(old, f), p)) = Cardinality(MissingOf(old, f, p))
<1> DEFINE row(i) == [id |-> nextId + i, piece |-> Content[f][i], vec |-> FALSE]
           q == [i \in MissingOf(old, f, p) |-> row(i)]
<1>1. Inserted(old, f) = {row(i) : i \in Missing(old, f)}
    BY DEF Inserted, Missing
<1>2. With(Inserted(old, f), p) = {row(i) : i \in MissingOf(old, f, p)}
    BY <1>1 DEF With, MissingOf
<1>3. MissingOf(old, f, p) \subseteq Nat
    BY PlacesFinite DEF MissingOf, Missing
<1>4. \A i, j \in MissingOf(old, f, p) : row(i) = row(j) => i = j
    <2> TAKE i, j \in MissingOf(old, f, p)
    <2>1. row(i).id = nextId + i /\ row(j).id = nextId + j /\ i \in Nat /\ j \in Nat
        BY <1>3
    <2> QED BY <2>1
<1>5. q \in Bijection(MissingOf(old, f, p), With(Inserted(old, f), p))
    BY <1>2, <1>4 DEF Bijection, Injection, Surjection, IsInjective
<1>6. ExistsBijection(MissingOf(old, f, p), With(Inserted(old, f), p))
    BY <1>5 DEF ExistsBijection
<1> QED BY <1>6, MissingCount, FS_Bijection

LEMMA InsertedRows ==
    ASSUME nextId \in Nat, NEW old, IsFiniteSet(old), NEW f \in Files
    PROVE  /\ Inserted(old, f) \in SUBSET Chunk /\ IsFiniteSet(Inserted(old, f))
           /\ \A c \in Inserted(old, f) : nextId < c.id /\ c.id <= nextId + Len(Content[f])
           /\ \A b, c \in Inserted(old, f) : b.id = c.id => b = c
           /\ Inserted(old, f) = {} <=> Missing(old, f) = {}
<1> DEFINE row(i) == [id |-> nextId + i, piece |-> Content[f][i], vec |-> FALSE]
           q == [i \in Missing(old, f) |-> row(i)]
<1>1. Inserted(old, f) = {row(i) : i \in Missing(old, f)}
    BY DEF Inserted, Missing
<1>2. Missing(old, f) \in SUBSET (1..Len(Content[f])) /\ Len(Content[f]) \in Nat
      /\ Content[f] \in Seq(Pieces)
    BY PlacesFinite, ContentAssumption DEF Missing
<1>3. \A i \in Missing(old, f) : i \in 1..Len(Content[f]) /\ i \in Nat
                                   /\ Content[f][i] \in Pieces
    BY <1>2
<1>10. \A i \in Missing(old, f) : row(i) \in Chunk /\ row(i).id = nextId + i
    BY <1>3 DEF Chunk
<1>4. Inserted(old, f) \in SUBSET Chunk
    <2> HIDE DEF row
    <2> QED BY <1>1, <1>10
<1>5. \A c \in Inserted(old, f) : nextId < c.id /\ c.id <= nextId + Len(Content[f])
    BY <1>1, <1>2, <1>3
<1>6. \A b, c \in Inserted(old, f) : b.id = c.id => b = c
    <2> HIDE DEF row
    <2> QED BY <1>1, <1>3, <1>10
<1>7. q \in Surjection(Missing(old, f), Inserted(old, f))
    BY <1>1 DEF Surjection
<1>8. IsFiniteSet(Missing(old, f))
    <2>1. IsFiniteSet(1..Len(Content[f]))
        BY <1>2, FS_Interval
    <2> QED BY <1>2, <2>1, FS_Subset
<1>9. IsFiniteSet(Inserted(old, f))
    BY <1>7, <1>8, FS_Surjection
<1> QED BY <1>1, <1>4, <1>5, <1>6, <1>9

\* After the diff the document has each text as often as the new file.
LEMMA Rebuilt ==
    ASSUME nextId \in Nat, NEW old \in SUBSET Chunk, Apart(old), NEW f \in Files, NEW p
    PROVE  Cardinality(With(Kept(old, f) \cup Inserted(old, f), p)) = Count(f, p)
<1> DEFINE K == With(Kept(old, f), p)
           I == With(Inserted(old, f), p)
<1>1. IsFiniteSet(old) /\ Count(f, p) \in Nat /\ Cardinality(With(old, p)) \in Nat
    BY PlacesFinite, WithFinite DEF Apart
<1>2. Cardinality(K) = IF Cardinality(With(old, p)) <= Count(f, p)
                       THEN Cardinality(With(old, p)) ELSE Count(f, p)
    BY <1>1, KeptCount DEF Apart
<1>3. IsFiniteSet(I) /\ Cardinality(I) =
               IF Cardinality(With(old, p)) <= Count(f, p)
               THEN Count(f, p) - Cardinality(With(old, p)) ELSE 0
    BY <1>1, InsertedCount, MissingCount
<1>4. IsFiniteSet(K)
    <2>1. K \in SUBSET old
        BY DEF With, Kept
    <2> QED BY <1>1, <2>1, FS_Subset
<1>5. K \cap I = {}
    <2>1. \A c \in K : c.id <= nextId /\ c.id \in Nat
        BY DEF With, Kept, Apart, Chunk
    <2>2. \A c \in I : nextId < c.id
        BY <1>1, InsertedRows DEF With
    <2> HIDE DEF K, I
    <2> QED BY <2>1, <2>2
<1>6. With(Kept(old, f) \cup Inserted(old, f), p) = K \cup I
    BY DEF With
<1> HIDE DEF K, I
<1>7. Cardinality(K \cup I) = Cardinality(K) + Cardinality(I) - Cardinality({})
    BY <1>3, <1>4, <1>5, FS_Union
<1>8. Cardinality({}) = 0
    BY FS_EmptySet
<1>9. Cardinality(K \cup I) = Count(f, p)
    BY <1>1, <1>2, <1>3, <1>7, <1>8
<1> QED BY <1>6, <1>9

-----------------------------------------------------------------------------
(* The queue *)

QueueTypes == queue \in Seq(Item) /\ job \in [Docs -> Job \cup {NoJob}]
Begun(item) == [pc |-> "check", retries |-> item.retries, work |-> {}]
Waiting(e) == job[e] # NoJob \/ Queued(e)

\* A document's job stays, ends, or starts anew.
JobStep(e) == job'[e] = job[e] \/ job'[e] = NoJob \/ job'[e].pc = "check"

LEMMA BegunType ==
    ASSUME NEW item \in Item
    PROVE  Begun(item) \in Job /\ Begun(item) # NoJob /\ item.doc \in Docs
           /\ Begun(item).pc = "check"
BY NullAssumption DEF Begun, Item, Job

LEMMA QueueItems ==
    ASSUME QueueTypes, NEW i \in DOMAIN queue
    PROVE  i \in 1..Len(queue) /\ queue[i] \in Item
BY DEF QueueTypes

\* Starting an item on a free key takes one more slot.
LEMMA BeginStep ==
    ASSUME NEW jobs \in [Docs -> Job \cup {NoJob}], NEW item \in Item,
           jobs[item.doc] = NoJob, IsFiniteSet(Active(jobs))
    PROVE  /\ Begin(jobs, item) \in [Docs -> Job \cup {NoJob}]
           /\ \A e \in Docs : Begin(jobs, item)[e] = IF e = item.doc THEN Begun(item) ELSE jobs[e]
           /\ IsFiniteSet(Active(Begin(jobs, item)))
           /\ Cardinality(Active(Begin(jobs, item))) = Cardinality(Active(jobs)) + 1
<1>1. Begin(jobs, item) = [jobs EXCEPT ![item.doc] = Begun(item)]
    BY DEF Begin, Begun
<1>2. /\ Begin(jobs, item) \in [Docs -> Job \cup {NoJob}]
      /\ \A e \in Docs : Begin(jobs, item)[e] = IF e = item.doc THEN Begun(item) ELSE jobs[e]
    BY <1>1, BegunType
<1>3. Active(Begin(jobs, item)) = Active(jobs) \cup {item.doc} /\ item.doc \notin Active(jobs)
    BY <1>2, BegunType DEF Active
<1>4. /\ IsFiniteSet(Active(jobs) \cup {item.doc})
      /\ Cardinality(Active(jobs) \cup {item.doc}) = Cardinality(Active(jobs)) + 1
    BY <1>3, FS_AddElement
<1> QED BY <1>2, <1>3, <1>4

LEMMA SubmitStep ==
    ASSUME QueueTypes, SlotInv, NEW item \in Item, Submit(item)
    PROVE  /\ QueueTypes' /\ SlotInv'
           /\ \A e \in Docs : JobStep(e)
           /\ \A e \in Docs : Waiting(e)' => Waiting(e) \/ e = item.doc
<1>1. Cardinality(Active(job)) \in Nat /\ Concurrency \in Nat
    BY BoundAssumption, FS_CardinalityType DEF SlotInv
<1>2. CASE Cardinality(Active(job)) >= Concurrency
    <2>1. queue' = Append(queue, item) /\ job' = job
        BY <1>2 DEF Submit
    <2>2. /\ queue' \in Seq(Item) /\ Len(queue') = Len(queue) + 1
          /\ DOMAIN queue' = 1..Len(queue')
          /\ \A i \in 1..Len(queue) : queue'[i] = queue[i]
          /\ queue'[Len(queue) + 1] = item
        BY <2>1 DEF QueueTypes
    <2>3. QueueTypes'
        BY <2>1, <2>2 DEF QueueTypes
    <2>4. SlotInv'
        BY <1>1, <1>2, <2>1 DEF SlotInv, SlotsUsed
    <2>5. ASSUME NEW e \in Docs, Queued(e)' PROVE Queued(e) \/ e = item.doc
        <3>1. PICK i \in 1..Len(queue') : queue'[i].doc = e
            BY <2>2, <2>5 DEF Queued
        <3>2. CASE i \in 1..Len(queue)
            <4>1. i \in DOMAIN queue /\ queue[i].doc = e
                BY <2>2, <3>1, <3>2 DEF QueueTypes
            <4> QED BY <4>1 DEF Queued
        <3>3. CASE i \notin 1..Len(queue)
            <4>1. i = Len(queue) + 1
                BY <2>2, <3>3 DEF QueueTypes
            <4> QED BY <2>2, <3>1, <4>1
        <3> QED BY <3>2, <3>3
    <2> QED BY <2>1, <2>3, <2>4, <2>5 DEF JobStep, Waiting
<1>3. CASE ~(Cardinality(Active(job)) >= Concurrency) /\ job[item.doc] = NoJob
    <2>1. queue' = queue /\ job' = Begin(job, item)
        BY <1>3 DEF Submit
    <2>2. /\ job' \in [Docs -> Job \cup {NoJob}]
          /\ \A e \in Docs : job'[e] = IF e = item.doc THEN Begun(item) ELSE job[e]
          /\ IsFiniteSet(Active(job'))
          /\ Cardinality(Active(job')) = Cardinality(Active(job)) + 1
        BY <1>3, <2>1, BeginStep DEF QueueTypes, SlotInv
    <2>3. SlotInv'
        BY <1>1, <1>3, <2>1, <2>2 DEF SlotInv, SlotsUsed
    <2>4. QueueTypes'
        BY <2>1, <2>2 DEF QueueTypes
    <2>5. \A e \in Docs : JobStep(e)
        BY <2>2, BegunType DEF JobStep
    <2>6. \A e \in Docs : Waiting(e)' => Waiting(e) \/ e = item.doc
        BY <2>1, <2>2 DEF Waiting, Queued
    <2> QED BY <2>3, <2>4, <2>5, <2>6
<1>4. CASE ~(Cardinality(Active(job)) >= Concurrency) /\ job[item.doc] # NoJob
    <2>1. queue' = queue /\ job' = job
        BY <1>4 DEF Submit
    <2> QED BY <2>1 DEF QueueTypes, SlotInv, SlotsUsed, JobStep, Waiting, Queued
<1> QED BY <1>2, <1>3, <1>4

LEMMA ReleaseStep ==
    ASSUME QueueTypes, SlotInv, NEW d \in Docs, job[d] # NoJob, Release(d)
    PROVE  /\ QueueTypes' /\ SlotInv'
           /\ \A e \in Docs : JobStep(e)
           /\ \A e \in Docs : Waiting(e)' => Waiting(e)
           /\ job'[d] = NoJob \/ job'[d].pc = "check"
<1> DEFINE free == [job EXCEPT ![d] = NoJob]
           ready == {i \in DOMAIN queue : free[queue[i].doc] = NoJob}
<1>1. Cardinality(Active(job)) \in Nat /\ Concurrency \in Nat
    BY BoundAssumption, FS_CardinalityType DEF SlotInv
<1>2. free \in [Docs -> Job \cup {NoJob}] /\ free[d] = NoJob
      /\ \A e \in Docs : e # d => free[e] = job[e]
    BY DEF QueueTypes
<1>3. IsFiniteSet(Active(free)) /\ Cardinality(Active(free)) = Cardinality(Active(job)) - 1
    <2>1. Active(free) = Active(job) \ {d} /\ d \in Active(job)
        BY <1>2 DEF Active
    <2> QED BY <2>1, FS_RemoveElement DEF SlotInv
<1>4. CASE ready = {}
    <2>1. queue' = <<>> /\ job' = free
        BY <1>4 DEF Release
    <2>2. QueueTypes'
        BY <1>2, <2>1 DEF QueueTypes
    <2>3. SlotInv'
        BY <1>1, <1>3, <2>1 DEF SlotInv, SlotsUsed
    <2>4. \A e \in Docs : JobStep(e)
        BY <1>2, <2>1 DEF JobStep
    <2>5. \A e \in Docs : Waiting(e)' => Waiting(e)
        BY <1>2, <2>1 DEF Waiting, Queued
    <2> QED BY <1>2, <2>1, <2>2, <2>3, <2>4, <2>5
<1>5. CASE ready # {}
    <2> DEFINE m == Min(ready)
    <2>1. queue' = SubSeq(queue, m + 1, Len(queue)) /\ job' = Begin(free, queue[m])
        BY <1>5 DEF Release
    <2>2. m \in ready
        <3>1. ready \in SUBSET Nat
            BY DEF QueueTypes
        <3> HIDE DEF ready
        <3> QED BY <1>5, <3>1, MinIsLeast
    <2>3. m \in 1..Len(queue) /\ queue[m] \in Item /\ free[queue[m].doc] = NoJob
        BY <2>2, QueueItems
    <2> HIDE DEF free, ready, m
    <2>4. /\ job' \in [Docs -> Job \cup {NoJob}]
          /\ \A e \in Docs : job'[e] = IF e = queue[m].doc THEN Begun(queue[m]) ELSE free[e]
          /\ IsFiniteSet(Active(job'))
          /\ Cardinality(Active(job')) = Cardinality(Active(free)) + 1
        BY <1>2, <1>3, <2>1, <2>3, BeginStep
    <2>5. /\ queue' \in Seq(Item) /\ DOMAIN queue' = 1..(Len(queue) - m)
          /\ \A i \in 1..(Len(queue) - m) : queue'[i] = queue[m + i]
        BY <2>1, <2>3 DEF QueueTypes
    <2>6. SlotInv'
        <3>1. Cardinality(Active(job')) = Cardinality(Active(job))
            BY <1>1, <1>3, <2>4
        <3>2. queue # <<>>
            BY <2>3 DEF QueueTypes
        <3> QED BY <1>1, <2>4, <3>1, <3>2 DEF SlotInv, SlotsUsed
    <2>7. QueueTypes'
        BY <2>4, <2>5 DEF QueueTypes
    <2>8. \A e \in Docs : JobStep(e)
        BY <1>2, <2>3, <2>4, BegunType DEF JobStep
    <2>9. ASSUME NEW e \in Docs, Queued(e)' PROVE Queued(e)
        <3>1. PICK i \in 1..(Len(queue) - m) : queue'[i].doc = e
            BY <2>5, <2>9 DEF Queued
        <3>2. m + i \in DOMAIN queue /\ queue[m + i].doc = e
            BY <2>3, <2>5, <3>1 DEF QueueTypes
        <3> QED BY <3>2 DEF Queued
    <2>10. ASSUME NEW e \in Docs, job'[e] # NoJob PROVE Waiting(e)
        <3>1. CASE e = queue[m].doc
            BY <2>3, <3>1 DEF Waiting, Queued, QueueTypes
        <3>2. CASE e # queue[m].doc
            BY <1>2, <2>4, <2>10, <3>2 DEF Waiting
        <3> QED BY <3>1, <3>2
    <2>11. job'[d] = NoJob \/ job'[d].pc = "check"
        BY <1>2, <2>3, <2>4, BegunType
    <2> QED BY <2>6, <2>7, <2>8, <2>9, <2>10, <2>11 DEF Waiting
<1> QED BY <1>4, <1>5

LEMMA EnqueueStep ==
    ASSUME QueueTypes, SlotInv, NEW d \in Docs, Enqueue(d)
    PROVE  /\ QueueTypes' /\ SlotInv'
           /\ \A e \in Docs : JobStep(e)
           /\ \A e \in Docs : Waiting(e)' => Waiting(e) \/ e = d
<1>1. CASE Waiting(d)
    <2>1. queue' = queue /\ job' = job
        BY <1>1 DEF Enqueue, Waiting, Queued
    <2> QED BY <2>1 DEF QueueTypes, SlotInv, SlotsUsed, JobStep, Waiting, Queued
<1>2. CASE ~Waiting(d)
    <2>1. Submit([doc |-> d, retries |-> 0])
        BY <1>2 DEF Enqueue, Waiting, Queued
    <2>2. [doc |-> d, retries |-> 0] \in Item
        BY BoundAssumption DEF Item
    <2> QED BY <2>1, <2>2, SubmitStep
<1> QED BY <1>1, <1>2

-----------------------------------------------------------------------------
(* What a step leaves alone *)

RowTypes ==
    /\ doc \in [Docs -> Doc \cup {NoDoc}]
    /\ chunks \in [Docs -> SUBSET Chunk]
    /\ nextId \in Nat
    /\ used \in SUBSET Docs
TimerTypes == timers \in [Docs -> SUBSET (1..MaxRetries)]
WriterTypes == writer \in [Writers -> Writer] /\ \A w \in Writers : WriterOK(writer[w])
BoundTypes == disturbed \in SUBSET Docs /\ uploads \in 0..MaxUploads /\ faults \in 0..MaxFaults

LEMMA TypeParts ==
    TypeInv <=> RowTypes /\ QueueTypes /\ TimerTypes /\ WriterTypes /\ BoundTypes
BY DEF TypeInv, TypeOK, RowTypes, QueueTypes, TimerTypes, WriterTypes, BoundTypes

LEMMA TypePartsNext ==
    TypeInv' <=> RowTypes' /\ QueueTypes' /\ TimerTypes' /\ WriterTypes' /\ BoundTypes'
BY DEF TypeInv, TypeOK, RowTypes, QueueTypes, TimerTypes, WriterTypes, BoundTypes

LEMMA WriterParts ==
    ASSUME TypeInv, NEW w \in Writers
    PROVE  /\ writer[w].doc \in IF writer[w].pc \in {"idle", "next"} THEN {Null} ELSE Docs
           /\ writer[w].pc \in Writing => writer[w].file \in Files
           /\ writer[w].pc \in Writing \cup Reindexing \cup {"idle", "next"}
           /\ writer[w].doc \in Docs \cup {Null}
           /\ writer[w].file \in Files \cup {Null}
           /\ writer[w].old \in SUBSET Chunk
           /\ writer[w].todo \in SUBSET Docs
           /\ writer[w].doc \notin writer[w].todo
           /\ writer[w].pc \notin {"next", "dirty", "requeue"} => writer[w].todo = {}
           /\ Null \notin Docs
BY NullAssumption DEF TypeInv, WriterOK, Writer

LEMMA NobodyHasNull ==
    ASSUME TypeInv, NEW d \in Docs, NEW w \in Writers
    PROVE  /\ writer[w].doc = d => Writes(w, d)
           /\ writer[w].pc = "idle" => ~Writes(w, d)
BY WriterParts DEF Writes, At

\* The step does nothing new with d.
Calm(d) ==
    /\ Exists(d)' => Exists(d)
    /\ Embedding(d)' => Embedding(d)
    /\ \A w \in Writers : Writes(w, d)' => Writes(w, d)

LEMMA FreshStep ==
    ASSUME TypeInv, FreshInv, NEW X \in SUBSET Docs, used \subseteq used',
           \A d \in Docs \ X : Calm(d),
           \A d \in X : d \in used' /\ \A v \in Writers : At(v, "create")' => writer[v].doc # d,
           \A v \in Writers : At(v, "create")' => writer'[v] = writer[v]
    PROVE  FreshInv'
<1>1. ASSUME NEW d \in Docs \ used'
      PROVE  ~Exists(d)' /\ ~Embedding(d)' /\ \A w \in Writers : ~Writes(w, d)'
    BY <1>1 DEF FreshInv, Calm
<1>2. ASSUME NEW w \in Writers, At(w, "create")'
      PROVE  ~Exists(writer[w].doc)' /\ Alone(w, writer[w].doc)'
    <2>1. writer'[w] = writer[w] /\ At(w, "create")
        BY <1>2 DEF At
    <2>2. PICK d \in Docs : d = writer[w].doc /\ d \notin X
        BY <1>2, <2>1, WriterParts DEF At
    <2>3. ~Exists(d) /\ Alone(w, d)
        BY <2>1, <2>2 DEF FreshInv
    <2>4. ~Exists(d)' /\ Alone(w, d)'
        BY <2>2, <2>3 DEF Calm, Alone
    <2>5. writer'[w].doc = d
        BY <2>1, <2>2
    <2> QED BY <2>4, <2>5 DEF Exists, Alone, Embedding, Queued, Writes, At
<1> QED BY <1>1, <1>2 DEF FreshInv

LEMMA ChunkStep ==
    ASSUME TypeInv, ChunkInv, nextId' \in Nat, nextId <= nextId',
           \A d \in Docs : chunks'[d] \in SUBSET chunks[d] \/ Apart(chunks[d])',
           \A d \in Docs : ~Exists(d)' => chunks'[d] = {},
           \A w \in Writers : \/ writer'[w].old \in {writer[w].old, {}}
                              \/ \E d \in Docs : writer'[w].old = chunks[d]
    PROVE  ChunkInv'
<1>1. ASSUME NEW S \in SUBSET Chunk, NEW T \in SUBSET S, Apart(S)
      PROVE  IsFiniteSet(T) /\ (\A b, c \in T : b.id = c.id => b = c) /\ \A c \in T : c.id <= nextId'
    <2>1. IsFiniteSet(T)
        BY <1>1, FS_Subset DEF Apart
    <2>2. \A c \in S : c.id \in Nat /\ c.id <= nextId
        BY <1>1 DEF Apart, Chunk
    <2> QED BY <1>1, <2>1, <2>2 DEF Apart, TypeInv, TypeOK
<1>2. \A d \in Docs : chunks[d] \in SUBSET Chunk /\ Apart(chunks[d])
    BY DEF ChunkInv, TypeInv
<1>3. \A w \in Writers : writer[w].old \in SUBSET Chunk /\ Apart(writer[w].old)
    BY WriterParts DEF ChunkInv
<1>4. ASSUME NEW d \in Docs PROVE Apart(chunks[d])'
    <2>1. CASE chunks'[d] \in SUBSET chunks[d]
        <3>1. chunks[d] \in SUBSET Chunk /\ Apart(chunks[d])
            BY <1>2
        <3>2. /\ IsFiniteSet(chunks'[d]) /\ (\A b, c \in chunks'[d] : b.id = c.id => b = c)
              /\ \A c \in chunks'[d] : c.id <= nextId'
            BY <1>1, <2>1, <3>1
        <3> QED BY <3>2 DEF Apart
    <2> QED BY <2>1
<1>5. ASSUME NEW w \in Writers PROVE Apart(writer[w].old)'
    <2>1. CASE writer'[w].old = writer[w].old
        BY <1>1, <1>3, <2>1 DEF Apart
    <2>2. CASE writer'[w].old = {}
        BY <1>1, <1>3, <2>2 DEF Apart
    <2>3. ASSUME NEW d \in Docs, writer'[w].old = chunks[d] PROVE Apart(writer[w].old)'
        BY <1>1, <1>2, <2>3 DEF Apart
    <2> QED BY <2>1, <2>2, <2>3
<1> QED BY <1>4, <1>5 DEF ChunkInv

\* Document and chunks of d are as they were.
SameRows(d) == doc'[d] = doc[d] /\ chunks'[d] = chunks[d]

LEMMA IntactKept ==
    ASSUME NEW d, SameRows(d)
    PROVE  /\ Exists(d)' <=> Exists(d)
           /\ Complete(d)' <=> Complete(d)
           /\ Unembedded(d)' = Unembedded(d)
           /\ Intact(d)' <=> Intact(d)
<1>1. (Exists(d)' <=> Exists(d)) /\ (Is(d, "READY")' <=> Is(d, "READY"))
    BY DEF SameRows, Exists, Is
<1>2. Complete(d)' <=> Complete(d)
    BY DEF SameRows, Complete
<1>3. Unembedded(d)' = Unembedded(d)
    BY DEF SameRows, Unembedded
<1> QED BY <1>1, <1>2, <1>3 DEF Intact

LEMMA PhaseKept ==
    ASSUME NEW d, NEW w, SameRows(d), writer'[w] = writer[w], PhaseOK(writer[w], d)
    PROVE  PhaseOK(writer[w], d)'
BY IntactKept DEF PhaseOK, SameRows

\* A document is as it was for all who are not at work on it.
LEMMA Untouched ==
    ASSUME TypeInv, NEW d \in Docs, DocOK(d), SameRows(d), JobStep(d),
           Calm(d),
           \A w \in Writers : writer'[w].doc = d => writer'[w] = writer[w],
           (\A w \in Writers : writer'[w].doc # d) => Intact(d)
    PROVE  DocOK(d)'
<1>1. \A w \in Writers : Writes(w, d)' => Alone(w, d)'
    BY DEF DocOK, Alone, Calm
<1>2. \A w \in Writers : (writer[w].doc = d)' => PhaseOK(writer[w], d)'
    BY PhaseKept DEF DocOK
<1>3. (\A w \in Writers : writer[w].doc # d)' => Intact(d)'
    BY IntactKept
<1>4. JobAt(d, "embed")' => (Ids(Unembedded(d)) \subseteq job[d].work)'
    <2>1. JobAt(d, "embed")' => job'[d] = job[d] /\ JobAt(d, "embed")
        BY DEF JobAt, JobStep
    <2> QED BY <2>1, IntactKept DEF DocOK
<1>5. JobAt(d, "ready")' => (Unembedded(d) = {})'
    <2>1. JobAt(d, "ready")' => JobAt(d, "ready")
        BY DEF JobAt, JobStep
    <2> QED BY <2>1, IntactKept DEF DocOK
<1> QED BY <1>1, <1>2, <1>3, <1>4, <1>5 DEF DocOK

\* A writer that is alone with a document takes it one step further.
LEMMA OneMoves ==
    ASSUME TypeInv, NEW d \in Docs, NEW w \in Writers, Alone(w, d), JobStep(d),
           \A v \in Writers \ {w} : writer'[v] = writer[v],
           Writes(w, d)' => ~Embedding(d)',
           writer'[w].doc = d => PhaseOK(writer[w], d)',
           writer'[w].doc # d => Intact(d)'
    PROVE  DocOK(d)'
<1>1. \A v \in Writers \ {w} : ~Writes(v, d) /\ ~Writes(v, d)' /\ writer'[v].doc # d
    BY NobodyHasNull DEF Alone, Writes, At
<1>2. \A v \in Writers : Writes(v, d)' => Alone(v, d)'
    BY <1>1 DEF Alone
<1>3. \A v \in Writers : (writer[v].doc = d)' => PhaseOK(writer[v], d)'
    BY <1>1
<1>4. job[d] = NoJob
    BY DEF Alone, Embedding
<1>5. ~JobAt(d, "embed")' /\ ~JobAt(d, "ready")'
    BY <1>4 DEF JobAt, JobStep
<1> QED BY <1>2, <1>3, <1>5 DEF DocOK

\* So does a job, whose document nobody writes.
LEMMA JobMoves ==
    ASSUME TypeInv, NEW d \in Docs, DocOK(d), Embedding(d), writer' = writer,
           Intact(d)',
           JobAt(d, "embed")' => (Ids(Unembedded(d)) \subseteq job[d].work)',
           JobAt(d, "ready")' => (Unembedded(d) = {})'
    PROVE  DocOK(d)'
<1>1. \A w \in Writers : ~Writes(w, d)
    BY DEF DocOK, Alone
<1>2. \A w \in Writers : ~Writes(w, d)' /\ writer'[w].doc # d
    BY <1>1, NobodyHasNull DEF Writes, At
<1> QED BY <1>2 DEF DocOK

-----------------------------------------------------------------------------
(* A step of a request, and a step of a job *)

\* Only rows of d change, and ids are not used twice.
Store(d) ==
    /\ used' = used /\ nextId <= nextId'
    /\ \A e \in Docs \ {d} : SameRows(e)
    /\ \A e \in Docs : chunks'[e] \in SUBSET chunks[e] \/ Apart(chunks[e])'
    /\ ~Exists(d)' => chunks'[d] = {}

\* Only the request w moves, and has d in hand before, after, or both.
Hand(w, d) ==
    /\ \A v \in Writers \ {w} : writer'[v] = writer[v]
    /\ {writer[w].doc, writer'[w].doc} \subseteq {d, Null}
    /\ writer'[w].todo \in SUBSET writer[w].todo /\ ~At(w, "create")'
    /\ writer'[w].old \in {writer[w].old, {}, chunks[d]}

\* The request w takes its document d further.
WriterStep(w, d) ==
    /\ Writes(w, d) /\ (Exists(d)' => Exists(d) \/ At(w, "create"))
    /\ Store(d) /\ Hand(w, d)
    /\ disturbed \subseteq disturbed'

\* What happens to the queue meanwhile is that d joins it, when w is done.
Joins(w, d) ==
    /\ \A e \in Docs : JobStep(e) /\ (Waiting(e)' => Waiting(e) \/ (e = d /\ ~Writes(w, d)'))
    /\ timers' = timers

Types == RowTypes /\ QueueTypes /\ TimerTypes /\ WriterTypes /\ BoundTypes

LEMMA WriterStepKeepsIInv ==
    ASSUME IInv, NEW w \in Writers, NEW d \in Docs, WriterStep(w, d), Joins(w, d),
           Types', SlotInv',
           Exists(d)' /\ d \notin disturbed' =>
               /\ writer'[w].doc = d => PhaseOK(writer[w], d)'
               /\ writer'[w].doc # d => Intact(d)'
    PROVE  IInv'
<1>1. TypeInv /\ ChunkInv /\ FreshInv /\ DocInv
    BY DEF IInv
<1>2. TypeInv'
    BY TypePartsNext DEF Types
<1>3. \A e \in Docs \ {d} : Calm(e)
    <2> TAKE e \in Docs \ {d}
    <2>1. Exists(e)' => Exists(e)
        BY IntactKept DEF WriterStep, Store, Hand
    <2>2. Embedding(e)' => Embedding(e)
        BY DEF Joins, Waiting, Embedding
    <2>3. Null \notin Docs /\ Null # e
        BY NullAssumption
    <2>4. \A v \in Writers : Writes(v, e)' => Writes(v, e)
        <3> SUFFICES ASSUME NEW v \in Writers, Writes(v, e)' PROVE Writes(v, e)
            OBVIOUS
        <3>1. CASE v = w
            <4>1. e \in writer[w].todo
                BY <2>3, <3>1 DEF WriterStep, Store, Hand, Writes
            <4>2. ~At(w, "idle")
                BY <1>1, <4>1, WriterParts DEF At
            <4> QED BY <3>1, <4>1, <4>2 DEF Writes
        <3>2. CASE v # w
            BY <3>2 DEF WriterStep, Store, Hand, Writes, At
        <3> QED BY <3>1, <3>2
    <2> QED BY <2>1, <2>2, <2>4 DEF Calm
<1>4. FreshInv'
    <2>1. d \in used'
        BY <1>1 DEF FreshInv, WriterStep, Store, Hand
    <2>2. \A v \in Writers : At(v, "create")' => writer'[v] = writer[v] /\ v # w
        BY DEF WriterStep, Store, Hand
    <2>3. \A v \in Writers : At(v, "create")' => writer[v].doc # d
        <3> SUFFICES ASSUME NEW v \in Writers, At(v, "create")', writer[v].doc = d
                     PROVE  FALSE
            OBVIOUS
        <3>1. Alone(v, d) /\ v # w
            BY <1>1, <2>2 DEF FreshInv, At
        <3> QED BY <3>1 DEF WriterStep, Store, Hand, Alone
    <2>4. used \subseteq used'
        BY DEF WriterStep, Store, Hand
    <2>5. \A v \in Writers : At(v, "create")' => writer'[v] = writer[v]
        BY <2>2
    <2>6. \A e \in {d} : e \in used' /\ \A v \in Writers : At(v, "create")' => writer[v].doc # e
        BY <2>1, <2>3
    <2>7. TypeInv /\ FreshInv /\ {d} \in SUBSET Docs /\ \A e \in Docs \ {d} : Calm(e)
        BY <1>1, <1>3
    <2> QED BY <2>4, <2>5, <2>6, <2>7, FreshStep
<1>5. ChunkInv'
    <2>1. nextId' \in Nat /\ nextId <= nextId'
        BY DEF Types, RowTypes, WriterStep, Store, Hand
    <2>2. \A e \in Docs : ~Exists(e)' => chunks'[e] = {}
        BY <1>1, IntactKept DEF WriterStep, Store, Hand, ChunkInv, SameRows
    <2>3. \A v \in Writers : \/ writer'[v].old \in {writer[v].old, {}}
                             \/ \E e \in Docs : writer'[v].old = chunks[e]
        <3> SUFFICES ASSUME NEW v \in Writers
                     PROVE  \/ writer'[v].old \in {writer[v].old, {}}
                            \/ \E e \in Docs : writer'[v].old = chunks[e]
            OBVIOUS
        <3>1. CASE v = w
            BY <3>1 DEF WriterStep, Store, Hand
        <3>2. CASE v # w
            BY <3>2 DEF WriterStep, Store, Hand
        <3> QED BY <3>1, <3>2
    <2>4. \A e \in Docs : chunks'[e] \in SUBSET chunks[e] \/ Apart(chunks[e])'
        BY DEF WriterStep, Store, Hand
    <2> QED BY <1>1, <2>1, <2>2, <2>3, <2>4, ChunkStep
<1>6. ASSUME NEW e \in Docs, Exists(e)', e \notin disturbed' PROVE DocOK(e)'
    <2>1. CASE e = d
        <3>1. Alone(w, d)
            <4>1. CASE Exists(d)
                <5>1. DocOK(d)
                    BY <1>1, <1>6, <2>1, <4>1 DEF DocInv, WriterStep, Store, Hand
                <5> QED BY <5>1 DEF DocOK, WriterStep, Store, Hand
            <4>2. CASE At(w, "create")
                <5>1. writer[w].doc = d
                    BY <1>1, <4>2, WriterParts DEF At, WriterStep, Store, Hand
                <5> QED BY <1>1, <4>2, <5>1 DEF FreshInv
            <4> QED BY <1>6, <2>1, <4>1, <4>2 DEF WriterStep, Store, Hand
        <3>2. JobStep(d)
            BY DEF Joins
        <3>3. Writes(w, d)' => ~Embedding(d)'
            BY <3>1 DEF Joins, Alone, Embedding, Waiting
        <3>4. DocOK(d)'
            BY <1>1, <1>6, <2>1, <3>1, <3>2, <3>3, OneMoves DEF WriterStep, Store, Hand
        <3> QED BY <2>1, <3>4
    <2>2. CASE e # d
        <3>1. SameRows(e) /\ JobStep(e) /\ Calm(e)
            BY <1>3, <2>2 DEF WriterStep, Store, Hand, Joins
        <3>2. DocOK(e)
            BY <1>1, <1>6, <3>1 DEF DocInv, Calm, WriterStep, Store, Hand
        <3>3. \A v \in Writers : writer'[v].doc = e => writer'[v] = writer[v]
            BY <2>2, NullAssumption DEF WriterStep, Store, Hand
        <3>4. (\A v \in Writers : writer'[v].doc # e) => \A v \in Writers : writer[v].doc # e
            BY <2>2, NullAssumption DEF WriterStep, Store, Hand
        <3> QED BY <1>1, <3>1, <3>2, <3>3, <3>4, Untouched DEF DocOK
    <2> QED BY <2>1, <2>2
<1> QED BY <1>2, <1>4, <1>5, <1>6 DEF IInv, DocInv

\* The job of d takes it further; a slot it leaves may go to another document.
JobMove(d) ==
    /\ Embedding(d) /\ (Exists(d)' => Exists(d))
    /\ Store(d)
    /\ writer' = writer /\ disturbed' = disturbed
    /\ \A e \in Docs \ {d} : JobStep(e) /\ timers'[e] = timers[e] /\ (Waiting(e)' => Waiting(e))

LEMMA JobMoveKeepsIInv ==
    ASSUME IInv, NEW d \in Docs, JobMove(d), Types', SlotInv',
           Exists(d)' /\ Intact(d) /\ DocOK(d) =>
               /\ Intact(d)'
               /\ JobAt(d, "embed")' => (Ids(Unembedded(d)) \subseteq job[d].work)'
               /\ JobAt(d, "ready")' => (Unembedded(d) = {})'
    PROVE  IInv'
<1>1. TypeInv /\ ChunkInv /\ FreshInv /\ DocInv
    BY DEF IInv
<1>2. TypeInv'
    BY TypePartsNext DEF Types
<1>3. \A e \in Docs \ {d} : Calm(e)
    <2> TAKE e \in Docs \ {d}
    <2>1. Exists(e)' => Exists(e)
        BY IntactKept DEF JobMove, Store
    <2>2. Embedding(e)' => Embedding(e)
        BY DEF JobMove, Store, Waiting, Embedding
    <2>3. \A v \in Writers : Writes(v, e)' => Writes(v, e)
        BY DEF JobMove, Store, Writes, At
    <2> QED BY <2>1, <2>2, <2>3 DEF Calm
<1>4. FreshInv'
    <2>1. d \in used' /\ used \subseteq used'
        BY <1>1 DEF FreshInv, JobMove, Store
    <2>2. \A v \in Writers : At(v, "create")' => writer'[v] = writer[v]
        BY DEF JobMove, Store
    <2>3. ASSUME NEW v \in Writers, At(v, "create")' PROVE writer[v].doc # d
        <3>1. At(v, "create") /\ Embedding(d)
            BY <2>3 DEF JobMove, At
        <3>2. ~Embedding(writer[v].doc)
            BY <1>1, <3>1 DEF FreshInv, Alone
        <3> QED BY <3>1, <3>2
    <2>4. \A e \in {d} : e \in used' /\ \A v \in Writers : At(v, "create")' => writer[v].doc # e
        BY <2>1, <2>3
    <2>5. {d} \in SUBSET Docs
        OBVIOUS
    <2> QED BY <1>1, <1>3, <2>1, <2>2, <2>4, <2>5, FreshStep
<1>5. ChunkInv'
    <2>1. nextId' \in Nat /\ nextId <= nextId'
        BY DEF Types, RowTypes, JobMove, Store
    <2>2. \A e \in Docs : ~Exists(e)' => chunks'[e] = {}
        BY <1>1, IntactKept DEF JobMove, Store, ChunkInv, SameRows
    <2>3. \A v \in Writers : writer'[v].old \in {writer[v].old, {}}
        BY DEF JobMove, Store
    <2>4. \A e \in Docs : chunks'[e] \in SUBSET chunks[e] \/ Apart(chunks[e])'
        BY DEF JobMove, Store
    <2> QED BY <1>1, <2>1, <2>2, <2>3, <2>4, ChunkStep
<1>6. ASSUME NEW e \in Docs, Exists(e)', e \notin disturbed' PROVE DocOK(e)'
    <2>1. CASE e = d
        <3>1. DocOK(d) /\ Embedding(d)
            BY <1>1, <1>6, <2>1 DEF DocInv, JobMove, Store
        <3>2. \A w \in Writers : writer[w].doc # d
            BY <1>1, <3>1, NobodyHasNull DEF DocOK, Alone
        <3>3. Intact(d)
            BY <3>1, <3>2 DEF DocOK
        <3>4. DocOK(d)'
            BY <1>1, <1>6, <2>1, <3>1, <3>3, JobMoves DEF JobMove, Store
        <3> QED BY <2>1, <3>4
    <2>2. CASE e # d
        <3>1. SameRows(e) /\ JobStep(e) /\ Calm(e) /\ writer' = writer
            BY <1>3, <2>2 DEF JobMove, Store
        <3>2. DocOK(e)
            BY <1>1, <1>6, <3>1 DEF DocInv, Calm, JobMove, Store
        <3> QED BY <1>1, <3>1, <3>2, Untouched DEF DocOK
    <2> QED BY <2>1, <2>2
<1> QED BY <1>2, <1>4, <1>5, <1>6 DEF IInv, DocInv

-----------------------------------------------------------------------------
(* The parts a step is made of *)

LEMMA EmbedderStays ==
    ASSUME QueueTypes, TimerTypes, SlotInv, UNCHANGED embedder
    PROVE  /\ QueueTypes' /\ TimerTypes' /\ SlotInv'
           /\ \A w, d : Joins(w, d)
           /\ \A e : JobStep(e) /\ (Waiting(e)' <=> Waiting(e)) /\ (Embedding(e)' <=> Embedding(e))
<1>1. queue' = queue /\ job' = job /\ timers' = timers
    BY DEF embedder
<1>2. QueueTypes' /\ TimerTypes' /\ SlotInv'
    BY <1>1 DEF QueueTypes, TimerTypes, SlotInv, SlotsUsed
<1>3. ASSUME NEW e
      PROVE  JobStep(e) /\ (Waiting(e)' <=> Waiting(e)) /\ (Embedding(e)' <=> Embedding(e))
    <2>1. Queued(e)' <=> Queued(e)
        BY <1>1 DEF Queued
    <2>2. JobStep(e)
        BY <1>1 DEF JobStep
    <2>3. Waiting(e)' <=> Waiting(e)
        BY <1>1, <2>1 DEF Waiting
    <2>4. Embedding(e)' <=> Embedding(e)
        BY <1>1, <2>1 DEF Embedding
    <2> QED BY <2>2, <2>3, <2>4
<1> QED BY <1>1, <1>2, <1>3 DEF Joins

LEMMA RowsStay ==
    ASSUME TypeInv, ChunkInv, UNCHANGED rows, NEW d \in Docs
    PROVE  RowTypes' /\ Store(d) /\ SameRows(d)
<1>1. nextId' = nextId /\ nextId \in Nat /\ \A e \in Docs : chunks'[e] \in SUBSET chunks[e]
    BY DEF rows, TypeInv, TypeOK
<1>2. \A e \in Docs : SameRows(e)
    BY DEF rows, SameRows
<1>3. ~Exists(d)' => chunks'[d] = {}
    BY DEF rows, Exists, ChunkInv
<1>4. RowTypes'
    BY TypeParts DEF rows, RowTypes
<1> QED BY <1>1, <1>2, <1>3, <1>4 DEF Store, rows

LEMMA RowSet ==
    ASSUME TypeInv, ChunkInv, UNCHANGED <<chunks, nextId, used>>, NEW d \in Docs,
           NEW x \in Doc, doc' = [doc EXCEPT ![d] = x]
    PROVE  /\ RowTypes' /\ Store(d)
           /\ doc'[d] = x /\ chunks'[d] = chunks[d] /\ Exists(d)'
           /\ Unembedded(d)' = Unembedded(d)
<1>1. nextId' = nextId /\ nextId \in Nat /\ \A e \in Docs : chunks'[e] \in SUBSET chunks[e]
    BY DEF TypeInv, TypeOK
<1>2. RowTypes' /\ doc'[d] = x
    BY TypeParts DEF RowTypes
<1>3. \A e \in Docs \ {d} : SameRows(e)
    BY TypeParts DEF RowTypes, SameRows
<1>4. Exists(d)'
    BY <1>2, NullAssumption DEF Exists
<1> QED BY <1>1, <1>2, <1>3, <1>4 DEF Store, Unembedded

\* The chunks of d become C, and nothing else is stored.
PutChunks(d, C) ==
    /\ doc' = doc /\ used' = used /\ nextId' \in Nat /\ nextId <= nextId'
    /\ C \in SUBSET Chunk /\ chunks' = [chunks EXCEPT ![d] = C]
    /\ C \in SUBSET chunks[d] \/ Apart(chunks[d])'
    /\ ~Exists(d) => C = {}

LEMMA ChunksSet ==
    ASSUME TypeInv, ChunkInv, NEW d \in Docs, NEW C, PutChunks(d, C)
    PROVE  /\ RowTypes' /\ Store(d)
           /\ doc'[d] = doc[d] /\ chunks'[d] = C /\ (Exists(d)' <=> Exists(d))
<1>1. chunks \in [Docs -> SUBSET Chunk]
    BY TypeParts DEF RowTypes
<1>2. RowTypes' /\ chunks'[d] = C
    BY <1>1, TypeParts DEF RowTypes, PutChunks
<1>3. \A e \in Docs \ {d} : SameRows(e)
    BY <1>1 DEF SameRows, PutChunks
<1>4. \A e \in Docs : chunks'[e] \in SUBSET chunks[e] \/ Apart(chunks[e])'
    BY <1>1 DEF PutChunks
<1>5. Exists(d)' <=> Exists(d)
    BY DEF Exists, PutChunks
<1> QED BY <1>2, <1>3, <1>4, <1>5 DEF Store, PutChunks

LEMMA GotoStep ==
    ASSUME TypeInv, NEW w \in Writers, writer[w].pc \in Writing,
           NEW pc \in Writing \ {"create"}, Goto(w, pc)
    PROVE  /\ WriterTypes' /\ Hand(w, writer[w].doc)
           /\ writer'[w].pc = pc /\ writer'[w].doc = writer[w].doc
           /\ writer'[w].file = writer[w].file /\ writer'[w].old = writer[w].old
<1>1. writer \in [Writers -> Writer] /\ writer[w] \in Writer
    BY DEF TypeInv
<1>2. writer'[w] = [writer[w] EXCEPT !.pc = pc] /\ \A v \in Writers \ {w} : writer'[v] = writer[v]
    BY <1>1 DEF Goto
<1>3. /\ writer'[w].pc = pc /\ writer'[w].doc = writer[w].doc
      /\ writer'[w].file = writer[w].file /\ writer'[w].old = writer[w].old
      /\ writer'[w].todo = writer[w].todo /\ writer'[w] \in Writer
    BY <1>1, <1>2 DEF Writer
<1>4. WriterOK(writer'[w])
    BY <1>3, WriterParts DEF WriterOK, Writing, Incremental, Full
<1>5. writer' \in [Writers -> Writer]
    BY <1>1, <1>3 DEF Goto
<1>6. WriterTypes'
    BY <1>2, <1>4, <1>5 DEF WriterTypes, TypeInv
<1> QED BY <1>2, <1>3, <1>6 DEF Hand, At

LEMMA IdleIsIdle ==
    Idle \in Writer /\ WriterOK(Idle) /\ Idle.pc = "idle" /\ Idle.doc = Null /\ Idle.todo = {}
    /\ Idle.old = {}
BY DEF Idle, Writer, WriterOK, Writing, Incremental, Full

LEMMA ReturnStep ==
    ASSUME TypeInv, NEW w \in Writers, NEW d \in Docs, writer[w].doc \in {d, Null}, Return(w)
    PROVE  /\ WriterTypes' /\ Hand(w, d)
           /\ writer'[w] = Idle /\ writer'[w].doc # d /\ \A e \in Docs : ~Writes(w, e)'
<1>1. writer \in [Writers -> Writer]
    BY DEF TypeInv
<1>2. writer'[w] = Idle /\ \A v \in Writers \ {w} : writer'[v] = writer[v]
    BY <1>1 DEF Return
<1>3. writer' \in [Writers -> Writer]
    BY <1>1, IdleIsIdle DEF Return
<1>4. WriterTypes'
    BY <1>2, <1>3, IdleIsIdle DEF WriterTypes, TypeInv
<1>5. writer'[w].doc # d
    BY <1>2, IdleIsIdle, NullAssumption
<1>6. Hand(w, d)
    BY <1>2, IdleIsIdle DEF Hand, At
<1>7. \A e \in Docs : ~Writes(w, e)'
    BY <1>2, IdleIsIdle DEF Writes, At
<1> QED BY <1>2, <1>4, <1>5, <1>6, <1>7

LEMMA BoundsStay ==
    ASSUME TypeInv, UNCHANGED <<disturbed, bounds>>
    PROVE  BoundTypes' /\ disturbed \subseteq disturbed'
BY TypeParts DEF BoundTypes, bounds

\* A request in the middle has a document in hand.
LEMMA AtWork ==
    ASSUME IInv, NEW w \in Writers, writer[w].pc \in Writing \cup Reindexing
    PROVE  \E d \in Docs :
               /\ d = writer[w].doc /\ Writes(w, d) /\ d \notin writer[w].todo
               /\ Exists(d) /\ d \notin disturbed => PhaseOK(writer[w], d)
<1>1. writer[w].doc \in Docs /\ writer[w].pc # "idle" /\ writer[w].doc \notin writer[w].todo
    BY WriterParts DEF IInv, Writing, Reindexing, Incremental, Full
<1>2. Writes(w, writer[w].doc)
    BY <1>1 DEF Writes, At
<1> QED BY <1>1, <1>2 DEF IInv, DocInv, DocOK

LEMMA Parts ==
    ASSUME IInv
    PROVE  /\ TypeInv /\ SlotInv /\ ChunkInv /\ FreshInv /\ DocInv
           /\ RowTypes /\ QueueTypes /\ TimerTypes /\ WriterTypes /\ BoundTypes
BY TypeParts DEF IInv

\* Chunks that are added have ids of their own.
LEMMA AddedApart ==
    ASSUME NEW d \in Docs, chunks[d] \in SUBSET Chunk, Apart(chunks[d]), nextId \in Nat,
           NEW old, IsFiniteSet(old), NEW f \in Files,
           chunks' = [chunks EXCEPT ![d] = chunks[d] \cup Inserted(old, f)],
           d \in DOMAIN chunks, nextId' = nextId + Len(Content[f]) + 1
    PROVE  Apart(chunks[d])'
<1> DEFINE I == Inserted(old, f)
<1>1. /\ I \in SUBSET Chunk /\ IsFiniteSet(I)
      /\ \A c \in I : nextId < c.id /\ c.id <= nextId + Len(Content[f])
      /\ \A b, c \in I : b.id = c.id => b = c
    BY InsertedRows
<1> HIDE DEF I
<1>2. chunks'[d] = chunks[d] \cup I
    BY DEF I
<1>3. IsFiniteSet(chunks[d] \cup I)
    BY <1>1, FS_Union DEF Apart
<1>4. \A c \in chunks[d] \cup I : c.id \in Nat
    BY <1>1 DEF Chunk
<1>5. \A c \in chunks[d] : c.id <= nextId
    BY DEF Apart
<1>6. Len(Content[f]) \in Nat
    BY PlacesFinite
<1>7. \A c \in chunks[d] \cup I : c.id <= nextId'
    BY <1>1, <1>4, <1>5, <1>6
<1>8. \A b, c \in chunks[d] \cup I : b.id = c.id => b = c
    BY <1>1, <1>4, <1>5 DEF Apart
<1> QED BY <1>2, <1>3, <1>7, <1>8 DEF Apart

-----------------------------------------------------------------------------
(* Every step of a request keeps the invariant *)

LEMMA CreateKeepsIInv ==
    ASSUME IInv, NEW w \in Writers, Create(w)
    PROVE  IInv'
<1> USE Parts
<1>1. writer[w].pc = "create" /\ writer[w].pc \in Writing
    BY DEF Create, At, Writing
<1>2. PICK d \in Docs : d = writer[w].doc /\ Writes(w, d)
    BY <1>1, AtWork
<1>3. PICK f \in Files : f = writer[w].file
    BY <1>1, WriterParts
<1>4. UNCHANGED <<embedder, disturbed, bounds, chunks, nextId, used>>
    BY DEF Create
<1>5. /\ QueueTypes' /\ TimerTypes' /\ SlotInv' /\ BoundTypes' /\ Joins(w, d)
      /\ disturbed \subseteq disturbed'
    BY <1>4, EmbedderStays, BoundsStay
<1>6. ~Exists(d) /\ chunks[d] = {}
    BY <1>1, <1>2 DEF FreshInv, ChunkInv, At
<1>7. CASE Taken(f, d)
    <2>1. Return(w) /\ UNCHANGED rows
        BY <1>2, <1>3, <1>4, <1>7 DEF Create, rows
    <2>2. WriterTypes' /\ Hand(w, d)
        BY <1>2, <2>1, ReturnStep
    <2>3. RowTypes' /\ Store(d) /\ ~Exists(d)'
        BY <1>6, <2>1, RowsStay, IntactKept
    <2> QED BY <1>2, <1>5, <2>2, <2>3, WriterStepKeepsIInv DEF WriterStep, Types
<1>8. CASE ~Taken(f, d)
    <2> DEFINE x == [status |-> "PROCESSING", hash |-> f]
    <2>1. Goto(w, "chunks") /\ doc' = [doc EXCEPT ![d] = x] /\ x \in Doc
        BY <1>2, <1>3, <1>8 DEF Create, Doc, Status
    <2>2. /\ WriterTypes' /\ Hand(w, d)
          /\ writer'[w].pc = "chunks" /\ writer'[w].doc = d /\ writer'[w].file = f
        BY <1>1, <1>2, <1>3, <2>1, GotoStep DEF Writing
    <2>3. RowTypes' /\ Store(d) /\ doc'[d] = x /\ chunks'[d] = chunks[d]
        BY <1>4, <2>1, RowSet
    <2>4. PhaseOK(writer[w], d)'
        BY <1>6, <2>2, <2>3 DEF PhaseOK
    <2>5. WriterStep(w, d)
        BY <1>1, <1>2, <1>5, <2>2, <2>3 DEF WriterStep, At
    <2> QED BY <1>5, <2>2, <2>3, <2>4, <2>5, WriterStepKeepsIInv DEF Types
<1> QED BY <1>7, <1>8

LEMMA BuildChunksKeepsIInv ==
    ASSUME IInv, NEW w \in Writers, BuildChunks(w)
    PROVE  IInv'
<1> USE Parts
<1>1. writer[w].pc = "chunks" /\ writer[w].pc \in Writing
    BY DEF BuildChunks, At, Writing
<1>2. PICK d \in Docs : d = writer[w].doc /\ Writes(w, d)
                        /\ (Exists(d) /\ d \notin disturbed => PhaseOK(writer[w], d))
    BY <1>1, AtWork
<1>3. PICK f \in Files : f = writer[w].file
    BY <1>1, WriterParts
<1>4. UNCHANGED <<embedder, disturbed, bounds>>
    BY DEF BuildChunks
<1>5. /\ QueueTypes' /\ TimerTypes' /\ SlotInv' /\ BoundTypes' /\ Joins(w, d)
      /\ disturbed \subseteq disturbed'
    BY <1>4, EmbedderStays, BoundsStay
<1>6. Exists(d) /\ d \notin disturbed => doc[d].hash = f /\ chunks[d] = {}
    BY <1>1, <1>2, <1>3 DEF PhaseOK, Writing
<1>7. CASE ~Exists(d)
    <2>1. Return(w) /\ UNCHANGED rows
        BY <1>2, <1>7 DEF BuildChunks
    <2>2. WriterTypes' /\ Hand(w, d)
        BY <1>2, <2>1, ReturnStep
    <2>3. RowTypes' /\ Store(d) /\ ~Exists(d)'
        BY <1>7, <2>1, RowsStay, IntactKept
    <2> QED BY <1>2, <1>5, <2>2, <2>3, WriterStepKeepsIInv DEF WriterStep, Types
<1>8. CASE Exists(d) /\ Content[f] = <<>>
    <2> DEFINE x == [doc[d] EXCEPT !.status = "ERROR"]
    <2>1. Return(w) /\ UNCHANGED <<chunks, nextId, used>> /\ doc' = [doc EXCEPT ![d] = x]
        BY <1>2, <1>3, <1>8 DEF BuildChunks, SetStatus
    <2>2. x \in Doc /\ x.hash = doc[d].hash /\ x.status = "ERROR"
        BY <1>8 DEF RowTypes, Exists, Doc, Status
    <2> HIDE DEF x
    <2>3. WriterTypes' /\ Hand(w, d)
        BY <1>2, <2>1, ReturnStep
    <2>4. RowTypes' /\ Store(d) /\ doc'[d] = x /\ chunks'[d] = chunks[d]
        BY <2>1, <2>2, RowSet
    <2>5. d \notin disturbed => Intact(d)'
        <3> SUFFICES ASSUME d \notin disturbed PROVE Intact(d)'
            OBVIOUS
        <3>1. chunks'[d] = {} /\ doc'[d].hash = f
            BY <1>6, <1>8, <2>2, <2>4
        <3>2. \A p \in Pieces : Count(f, p) = 0
            <4>1. \A p : Places(f, p) = {}
                BY <1>8 DEF Places
            <4> QED BY <4>1, PlacesFinite, FS_EmptySet
        <3>3. \A p \in Pieces : Cardinality(With({}, p)) = 0
            <4>1. \A p : With({}, p) = {}
                BY DEF With
            <4> QED BY <4>1, FS_EmptySet
        <3>4. Complete(d)'
            BY <3>1, <3>2, <3>3 DEF Complete
        <3>5. ~Is(d, "READY")'
            BY <2>2, <2>4 DEF Is
        <3> QED BY <3>4, <3>5 DEF Intact
    <2>6. WriterStep(w, d)
        BY <1>2, <1>5, <1>8, <2>3, <2>4 DEF WriterStep
    <2>7. (d \notin disturbed)' => d \notin disturbed
        BY <1>4
    <2>8. writer'[w].doc # d
        BY <1>2, <2>1, ReturnStep
    <2> QED BY <1>5, <2>3, <2>4, <2>5, <2>6, <2>7, <2>8, WriterStepKeepsIInv DEF Types
<1>9. CASE Exists(d) /\ Content[f] # <<>>
    <2> DEFINE C == chunks[d] \cup Inserted({}, f)
    <2>1. /\ chunks' = [chunks EXCEPT ![d] = C] /\ nextId' = nextId + Len(Content[f]) + 1
          /\ Goto(w, "enqueue") /\ UNCHANGED <<doc, used>>
        BY <1>2, <1>3, <1>9 DEF BuildChunks
    <2>2. C \in SUBSET Chunk /\ nextId \in Nat /\ nextId' \in Nat /\ nextId <= nextId'
        <3>1. Inserted({}, f) \in SUBSET Chunk
            BY InsertedRows, FS_EmptySet DEF RowTypes
        <3>2. Len(Content[f]) \in Nat
            BY PlacesFinite
        <3>3. chunks[d] \in SUBSET Chunk /\ nextId \in Nat
            BY DEF RowTypes
        <3>4. nextId' \in Nat /\ nextId <= nextId'
            BY <2>1, <3>2, <3>3
        <3> QED BY <3>1, <3>3, <3>4
    <2>3. Apart(chunks[d])'
        <3>1. chunks[d] \in SUBSET Chunk /\ Apart(chunks[d]) /\ d \in DOMAIN chunks
            BY DEF RowTypes, ChunkInv
        <3>2. IsFiniteSet({})
            BY FS_EmptySet
        <3> QED BY <2>1, <2>2, <3>1, <3>2, AddedApart
    <2>4. /\ RowTypes' /\ Store(d) /\ doc'[d] = doc[d] /\ chunks'[d] = C
        <3>1. PutChunks(d, C)
            BY <1>9, <2>1, <2>2, <2>3 DEF PutChunks
        <3> HIDE DEF C
        <3> QED BY <3>1, ChunksSet
    <2>5. /\ WriterTypes' /\ Hand(w, d)
          /\ writer'[w].pc = "enqueue" /\ writer'[w].doc = d /\ writer'[w].file = f
        BY <1>1, <1>2, <1>3, <2>1, GotoStep DEF Writing
    <2>6. d \notin disturbed => PhaseOK(writer[w], d)'
        <3> SUFFICES ASSUME d \notin disturbed PROVE PhaseOK(writer[w], d)'
            OBVIOUS
        <3>1. doc'[d].hash = f /\ chunks'[d] = Inserted({}, f)
            BY <1>6, <1>9, <2>4
        <3>2. doc'[d].status = "PROCESSING"
            BY <1>1, <1>2, <1>9, <2>4 DEF PhaseOK
        <3>3. Complete(d)'
            <4>1. Kept({}, f) = {}
                BY DEF Kept
            <4>2. Apart({})
                BY FS_EmptySet DEF Apart
            <4>3. \A p : Cardinality(With(Kept({}, f) \cup Inserted({}, f), p)) = Count(f, p)
                BY <2>2, <4>2, Rebuilt
            <4> QED BY <3>1, <4>1, <4>3 DEF Complete
        <3> QED BY <2>5, <3>1, <3>2, <3>3 DEF PhaseOK
    <2>7. WriterStep(w, d)
        BY <1>2, <1>5, <1>9, <2>4, <2>5 DEF WriterStep
    <2>8. (d \notin disturbed)' => d \notin disturbed
        BY <1>4
    <2>9. writer'[w].doc = d
        BY <2>5
    <2> QED BY <1>5, <2>4, <2>5, <2>6, <2>7, <2>8, <2>9, WriterStepKeepsIInv DEF Types
<1> QED BY <1>7, <1>8, <1>9

\* What a request that stores a file has in hand.
LEMMA InHand ==
    ASSUME IInv, NEW w \in Writers, writer[w].pc \in Writing
    PROVE  \E d \in Docs, f \in Files :
               /\ d = writer[w].doc /\ f = writer[w].file
               /\ Writes(w, d)
               /\ Exists(d) /\ d \notin disturbed => PhaseOK(writer[w], d)
               /\ writer[w].old \in SUBSET Chunk /\ Apart(writer[w].old)
BY AtWork, Parts, WriterParts DEF ChunkInv

LEMMA EnqueueIngestKeepsIInv ==
    ASSUME IInv, NEW w \in Writers, EnqueueIngest(w)
    PROVE  IInv'
<1> USE Parts
<1>1. writer[w].pc = "enqueue" /\ writer[w].pc \in Writing
    BY DEF EnqueueIngest, At, Writing
<1>2. PICK d \in Docs : d = writer[w].doc /\ Writes(w, d)
                        /\ (Exists(d) /\ d \notin disturbed => PhaseOK(writer[w], d))
    BY <1>1, InHand
<1>3. Enqueue(d) /\ Return(w) /\ UNCHANGED <<rows, timers, disturbed, bounds>>
    BY <1>2 DEF EnqueueIngest
<1>4. WriterTypes' /\ Hand(w, d) /\ writer'[w].doc # d /\ ~Writes(w, d)'
    BY <1>2, <1>3, ReturnStep
<1>5. /\ QueueTypes' /\ SlotInv'
      /\ \A e \in Docs : JobStep(e) /\ (Waiting(e)' => Waiting(e) \/ e = d)
    BY <1>3, EnqueueStep
<1>6. TimerTypes' /\ BoundTypes' /\ disturbed' = disturbed /\ Joins(w, d)
    BY <1>3, <1>4, <1>5, BoundsStay DEF TimerTypes, Joins
<1>7. RowTypes' /\ Store(d) /\ SameRows(d)
    BY <1>3, RowsStay
<1>8. Exists(d)' /\ d \notin disturbed' => Intact(d)'
    <2> SUFFICES ASSUME Exists(d), d \notin disturbed PROVE Intact(d)
        BY <1>6, <1>7, IntactKept
    <2>1. Complete(d) /\ doc[d].status = "PROCESSING"
        BY <1>1, <1>2 DEF PhaseOK
    <2> QED BY <2>1 DEF Intact, Is
<1>9. WriterStep(w, d)
    BY <1>2, <1>4, <1>6, <1>7, IntactKept DEF WriterStep
<1> QED BY <1>4, <1>5, <1>6, <1>7, <1>8, <1>9, WriterStepKeepsIInv DEF Types

LEMMA ReadOldChunksKeepsIInv ==
    ASSUME IInv, NEW w \in Writers, ReadOldChunks(w)
    PROVE  IInv'
<1> USE Parts
<1>1. writer[w].pc = "old" /\ writer[w].pc \in Writing
    BY DEF ReadOldChunks, At, Writing, Incremental
<1>2. PICK d \in Docs : d = writer[w].doc /\ Writes(w, d)
                        /\ (Exists(d) /\ d \notin disturbed => PhaseOK(writer[w], d))
    BY <1>1, InHand
<1>3. UNCHANGED <<rows, embedder, disturbed, bounds>>
    BY DEF ReadOldChunks
<1>4. /\ QueueTypes' /\ TimerTypes' /\ SlotInv' /\ BoundTypes' /\ Joins(w, d)
      /\ disturbed \subseteq disturbed'
    BY <1>3, EmbedderStays, BoundsStay
<1>5. RowTypes' /\ Store(d) /\ SameRows(d)
    BY <1>3, RowsStay
<1>6. Exists(d)' /\ d \notin disturbed' => Intact(d)'
    BY <1>1, <1>2, <1>3, <1>5, IntactKept DEF PhaseOK
<1>7. CASE Content[writer[w].file] = <<>>
    <2>1. WriterTypes' /\ Hand(w, d) /\ writer'[w].doc # d
        BY <1>2, <1>7, ReturnStep DEF ReadOldChunks
    <2>2. WriterStep(w, d)
        BY <1>2, <1>4, <1>5, <2>1, IntactKept DEF WriterStep
    <2> QED BY <1>4, <1>5, <1>6, <2>1, <2>2, WriterStepKeepsIInv DEF Types
<1>8. CASE Content[writer[w].file] # <<>>
    <2> DEFINE x == [writer[w] EXCEPT !.pc = "rehash", !.old = chunks[d]]
    <2>1. writer \in [Writers -> Writer] /\ writer[w] \in Writer /\ WriterOK(writer[w])
        BY DEF WriterTypes
    <2>2. writer' = [writer EXCEPT ![w] = x]
        BY <1>2, <1>8 DEF ReadOldChunks
    <2>3. chunks[d] \in SUBSET Chunk
        BY DEF RowTypes
    <2>4. /\ x \in Writer /\ x.pc = "rehash" /\ x.doc = d /\ x.old = chunks[d]
          /\ x.file = writer[w].file /\ x.todo = writer[w].todo
        BY <1>2, <2>1, <2>3 DEF Writer, Writing, Incremental
    <2>5. WriterOK(x)
        BY <1>1, <2>1, <2>4, <1>2 DEF WriterOK, Writing, Incremental
    <2> HIDE DEF x
    <2>6. writer'[w] = x /\ (\A v \in Writers \ {w} : writer'[v] = writer[v])
          /\ writer' \in [Writers -> Writer]
        BY <2>1, <2>2, <2>4
    <2>7. WriterTypes'
        BY <2>1, <2>5, <2>6 DEF WriterTypes
    <2>8. Hand(w, d)
        BY <1>2, <2>4, <2>6 DEF Hand, At
    <2>9. Exists(d)' /\ d \notin disturbed' => PhaseOK(writer[w], d)'
        BY <1>5, <1>6, <2>4, <2>6 DEF PhaseOK, SameRows
    <2>10. WriterStep(w, d)
        BY <1>2, <1>4, <1>5, <2>8, IntactKept DEF WriterStep
    <2>11. writer'[w].doc = d
        BY <2>4, <2>6
    <2> QED BY <1>4, <1>5, <2>7, <2>9, <2>10, <2>11, WriterStepKeepsIInv DEF Types
<1> QED BY <1>7, <1>8

NewRow(f) == [status |-> "PROCESSING", hash |-> f]

\* The row of d gets the new hash and is PROCESSING; the request goes on at pc.
Claims(w, d, f, pc) ==
    /\ doc'[d] = NewRow(f) /\ chunks'[d] = chunks[d]
    /\ writer'[w].pc = pc /\ writer'[w].file = f /\ writer'[w].old = writer[w].old

LEMMA Claimed ==
    ASSUME IInv, NEW w \in Writers, writer[w].pc \in Writing, NEW d \in Docs, NEW f \in Files,
           d = writer[w].doc, f = writer[w].file, Writes(w, d), Exists(d),
           doc' = [doc EXCEPT ![d] = NewRow(f)],
           NEW pc \in Writing \ {"create"}, Goto(w, pc),
           UNCHANGED <<chunks, nextId, used, embedder, disturbed, bounds>>,
           Claims(w, d, f, pc) /\ d \notin disturbed => PhaseOK(writer[w], d)'
    PROVE  IInv'
<1> USE Parts
<1>1. NewRow(f) \in Doc
    BY DEF Doc, Status, NewRow
<1>2. /\ WriterTypes' /\ Hand(w, d) /\ writer'[w].doc = d
      /\ writer'[w].pc = pc /\ writer'[w].file = f /\ writer'[w].old = writer[w].old
    BY GotoStep
<1>3. RowTypes' /\ Store(d) /\ doc'[d] = NewRow(f) /\ chunks'[d] = chunks[d]
    <2>1. UNCHANGED <<chunks, nextId, used>>
        OBVIOUS
    <2> QED BY <1>1, <2>1, RowSet
<1>4. /\ QueueTypes' /\ TimerTypes' /\ SlotInv' /\ BoundTypes' /\ Joins(w, d)
      /\ disturbed \subseteq disturbed'
    BY EmbedderStays, BoundsStay
<1>5. WriterStep(w, d)
    BY <1>2, <1>3, <1>4 DEF WriterStep
<1>6. d \notin disturbed' => PhaseOK(writer[w], d)'
    BY <1>2, <1>3 DEF Claims
<1> QED BY <1>2, <1>3, <1>4, <1>5, <1>6, WriterStepKeepsIInv DEF Types

\* The diff is given up, and the document stored from scratch.
LEMMA FallsBack ==
    ASSUME IInv, NEW w \in Writers, writer[w].pc \in Writing, Goto(w, "wipe"), BoundTypes',
           UNCHANGED <<rows, embedder, disturbed>>
    PROVE  IInv'
<1> USE Parts
<1>1. PICK d \in Docs : d = writer[w].doc /\ Writes(w, d)
    BY InHand
<1>2. WriterTypes' /\ Hand(w, d) /\ writer'[w].doc = d /\ writer'[w].pc = "wipe"
    BY <1>1, GotoStep DEF Writing, Full
<1>3. RowTypes' /\ Store(d) /\ SameRows(d)
    BY RowsStay
<1>4. /\ QueueTypes' /\ TimerTypes' /\ SlotInv' /\ Joins(w, d)
    BY EmbedderStays
<1>5. WriterStep(w, d)
    BY <1>1, <1>2, <1>3, IntactKept DEF WriterStep
<1>6. PhaseOK(writer[w], d)'
    BY <1>2 DEF PhaseOK
<1> QED BY <1>2, <1>3, <1>4, <1>5, <1>6, WriterStepKeepsIInv DEF Types

LEMMA RehashKeepsIInv ==
    ASSUME IInv, NEW w \in Writers, Rehash(w)
    PROVE  IInv'
<1> USE Parts
<1>1. writer[w].pc = "rehash" /\ writer[w].pc \in Writing
    BY DEF Rehash, At, Writing, Incremental
<1>2. PICK d \in Docs, f \in Files :
          /\ d = writer[w].doc /\ f = writer[w].file /\ Writes(w, d)
          /\ Exists(d) /\ d \notin disturbed => PhaseOK(writer[w], d)
    BY <1>1, InHand
<1>3. UNCHANGED <<chunks, nextId, used, embedder, disturbed, bounds>>
    BY DEF Rehash
<1>4. CASE ~Exists(d) \/ Taken(f, d)
    <2>1. Goto(w, "wipe") /\ UNCHANGED rows
        BY <1>2, <1>3, <1>4 DEF Rehash, rows
    <2> QED BY <1>1, <1>3, <2>1, FallsBack, BoundsStay
<1>5. CASE Exists(d) /\ ~Taken(f, d)
    <2>1. Goto(w, "prune") /\ doc' = [doc EXCEPT ![d] = NewRow(f)]
        BY <1>2, <1>5 DEF Rehash, NewRow
    <2>2. ASSUME Claims(w, d, f, "prune"), d \notin disturbed
          PROVE  PhaseOK(writer[w], d)'
        <3>1. writer[w].old = chunks[d]
            BY <1>1, <1>2, <1>5, <2>2 DEF PhaseOK
        <3> QED BY <2>2, <3>1 DEF PhaseOK, Claims, NewRow
    <2>3. "prune" \in Writing \ {"create"}
        BY DEF Writing, Incremental
    <2> QED BY <1>1, <1>2, <1>3, <1>5, <2>1, <2>2, <2>3, Claimed
<1> QED BY <1>4, <1>5

\* The chunks of d become C; the request goes on at pc.
Stores(w, d, C, pc) ==
    /\ doc'[d] = doc[d] /\ chunks'[d] = C /\ Exists(d)
    /\ writer'[w].pc = pc
    /\ writer'[w].file = writer[w].file /\ writer'[w].old = writer[w].old

LEMMA Stored ==
    ASSUME IInv, NEW w \in Writers, writer[w].pc \in Writing, NEW d \in Docs,
           d = writer[w].doc, Writes(w, d), NEW C, PutChunks(d, C),
           NEW pc \in Writing \ {"create"}, Goto(w, pc),
           UNCHANGED <<embedder, disturbed, bounds>>,
           Stores(w, d, C, pc) /\ d \notin disturbed => PhaseOK(writer[w], d)'
    PROVE  IInv'
<1> USE Parts
<1>1. /\ WriterTypes' /\ Hand(w, d) /\ writer'[w].doc = d
      /\ writer'[w].pc = pc
      /\ writer'[w].file = writer[w].file /\ writer'[w].old = writer[w].old
    BY GotoStep
<1>2. /\ RowTypes' /\ Store(d)
      /\ doc'[d] = doc[d] /\ chunks'[d] = C /\ (Exists(d)' <=> Exists(d))
    BY ChunksSet
<1>3. /\ QueueTypes' /\ TimerTypes' /\ SlotInv' /\ BoundTypes' /\ Joins(w, d)
      /\ disturbed \subseteq disturbed'
    BY EmbedderStays, BoundsStay
<1>4. WriterStep(w, d)
    BY <1>1, <1>2, <1>3 DEF WriterStep
<1>5. Exists(d)' /\ d \notin disturbed' => PhaseOK(writer[w], d)'
    BY <1>1, <1>2 DEF Stores
<1> QED BY <1>1, <1>2, <1>3, <1>4, <1>5, WriterStepKeepsIInv DEF Types

LEMMA PruneKeepsIInv ==
    ASSUME IInv, NEW w \in Writers, Prune(w)
    PROVE  IInv'
<1> USE Parts
<1>1. writer[w].pc = "prune" /\ writer[w].pc \in Writing
    BY DEF Prune, At, Writing, Incremental
<1>2. PICK d \in Docs, f \in Files :
          /\ d = writer[w].doc /\ f = writer[w].file /\ Writes(w, d)
          /\ Exists(d) /\ d \notin disturbed => PhaseOK(writer[w], d)
    BY <1>1, InHand
<1>3. UNCHANGED <<doc, nextId, used, embedder, disturbed, bounds>>
    BY DEF Prune
<1> DEFINE old == writer[w].old
           kept == Kept(old, f)
           C == {c \in chunks[d] : c.id \notin Ids(old \ kept)}
<1>4. CASE ~(Ids(kept) \subseteq Ids(chunks[d]))
    <2>1. Goto(w, "wipe") /\ UNCHANGED rows
        BY <1>2, <1>3, <1>4 DEF Prune, rows
    <2> QED BY <1>1, <1>3, <2>1, FallsBack, BoundsStay
<1>5. CASE Ids(kept) \subseteq Ids(chunks[d])
    <2>1. Goto(w, "insert") /\ chunks' = [chunks EXCEPT ![d] = C]
        BY <1>2, <1>5 DEF Prune
    <2>2. chunks[d] \in SUBSET Chunk /\ nextId' \in Nat /\ nextId <= nextId'
          /\ (~Exists(d) => chunks[d] = {})
        BY <1>3 DEF RowTypes, ChunkInv
    <2>3. C \in SUBSET Chunk /\ C \in SUBSET chunks[d] /\ (~Exists(d) => C = {})
        BY <2>2
    <2>4. ASSUME Stores(w, d, C, "insert"), d \notin disturbed
          PROVE  PhaseOK(writer[w], d)'
        <3>1. /\ old = chunks[d] /\ doc[d].hash = f /\ doc[d].status = "PROCESSING"
            BY <1>1, <1>2, <2>4 DEF Stores, PhaseOK, Writing, Incremental
        <3>2. C = kept
            <4>1. kept \subseteq old
                BY DEF Kept
            <4>2. \A b, c \in chunks[d] : b.id = c.id => b = c
                BY DEF ChunkInv, Apart
            <4> HIDE DEF kept, old
            <4> QED BY <3>1, <4>1, <4>2 DEF Ids
        <3> QED BY <1>2, <2>4, <3>1, <3>2 DEF Stores, PhaseOK
    <2>5. "insert" \in Writing \ {"create"}
        BY DEF Writing, Incremental
    <2> HIDE DEF C
    <2>6. PutChunks(d, C)
        BY <1>3, <2>1, <2>2, <2>3 DEF PutChunks
    <2> QED BY <1>1, <1>2, <1>3, <2>1, <2>4, <2>5, <2>6, Stored
<1> QED BY <1>4, <1>5

LEMMA InsertKeepsIInv ==
    ASSUME IInv, NEW w \in Writers, Insert(w)
    PROVE  IInv'
<1> USE Parts
<1>1. writer[w].pc = "insert" /\ writer[w].pc \in Writing
    BY DEF Insert, At, Writing, Incremental
<1>2. PICK d \in Docs, f \in Files :
          /\ d = writer[w].doc /\ f = writer[w].file /\ Writes(w, d)
          /\ Exists(d) /\ d \notin disturbed => PhaseOK(writer[w], d)
          /\ writer[w].old \in SUBSET Chunk /\ Apart(writer[w].old)
    BY <1>1, InHand
<1>3. UNCHANGED <<doc, used, embedder, disturbed, bounds>>
    BY DEF Insert
<1> DEFINE old == writer[w].old
           I == Inserted(old, f)
           C == IF Exists(d) THEN chunks[d] \cup I ELSE chunks[d]
<1>4. CASE ~Exists(d) /\ I # {}
    <2>1. Goto(w, "wipe") /\ UNCHANGED rows
        BY <1>2, <1>3, <1>4 DEF Insert, rows
    <2> QED BY <1>1, <1>3, <2>1, FallsBack, BoundsStay
<1>5. CASE ~(~Exists(d) /\ I # {})
    <2>1. /\ Goto(w, "settle") /\ chunks' = [chunks EXCEPT ![d] = C]
          /\ nextId' = nextId + Len(Content[f]) + 1
        BY <1>2, <1>5 DEF Insert
    <2>2. /\ chunks[d] \in SUBSET Chunk /\ Apart(chunks[d]) /\ nextId \in Nat /\ d \in DOMAIN chunks
          /\ ~Exists(d) => chunks[d] = {}
        BY DEF RowTypes, ChunkInv
    <2>3. nextId' \in Nat /\ nextId <= nextId'
        <3>1. Len(Content[f]) \in Nat
            BY PlacesFinite
        <3> QED BY <2>1, <2>2, <3>1
    <2>4. IsFiniteSet(old)
        BY <1>2 DEF Apart
    <2>5. I \in SUBSET Chunk /\ (I = {} <=> Missing(old, f) = {})
        BY <2>2, <2>4, InsertedRows
    <2>6. C \in SUBSET Chunk /\ (~Exists(d) => C = {})
        BY <2>2, <2>5
    <2>7. C \in SUBSET chunks[d] \/ Apart(chunks[d])'
        <3>1. CASE ~Exists(d)
            BY <3>1
        <3>2. CASE Exists(d)
            <4>1. chunks' = [chunks EXCEPT ![d] = chunks[d] \cup Inserted(old, f)]
                BY <2>1, <3>2
            <4> HIDE DEF old, C, I
            <4> QED BY <2>1, <2>2, <2>4, <4>1, AddedApart
        <3> QED BY <3>1, <3>2
    <2>8. ASSUME Stores(w, d, C, "settle"), d \notin disturbed
          PROVE  PhaseOK(writer[w], d)'
        <3>1. /\ chunks[d] = Kept(old, f) /\ doc[d].hash = f /\ doc[d].status = "PROCESSING"
            BY <1>1, <1>2, <2>8 DEF Stores, PhaseOK, Writing, Incremental
        <3>2. chunks'[d] = Kept(old, f) \cup I
            BY <2>8, <3>1 DEF Stores
        <3>3. \A p : Cardinality(With(Kept(old, f) \cup Inserted(old, f), p)) = Count(f, p)
            BY <1>2, <2>2, Rebuilt
        <3>4. Complete(d)'
            BY <2>8, <3>1, <3>2, <3>3 DEF Stores, Complete
        <3>5. Missing(old, f) = {} /\ (\A c \in Kept(old, f) : c.vec) => (Unembedded(d) = {})'
            BY <2>5, <3>2 DEF Unembedded
        <3> HIDE DEF I, C
        <3> QED BY <1>2, <2>8, <3>1, <3>4, <3>5 DEF Stores, PhaseOK
    <2>9. "settle" \in Writing \ {"create"}
        BY DEF Writing, Incremental
    <2> HIDE DEF C
    <2>10. PutChunks(d, C)
        BY <1>3, <2>1, <2>3, <2>6, <2>7 DEF PutChunks
    <2> QED BY <1>1, <1>2, <1>3, <2>1, <2>8, <2>9, <2>10, Stored
<1> QED BY <1>4, <1>5

LEMMA SettleKeepsIInv ==
    ASSUME IInv, NEW w \in Writers, Settle(w)
    PROVE  IInv'
<1> USE Parts
<1>1. writer[w].pc = "settle" /\ writer[w].pc \in Writing
    BY DEF Settle, At, Writing, Incremental
<1>2. PICK d \in Docs, f \in Files :
          /\ d = writer[w].doc /\ f = writer[w].file /\ Writes(w, d)
          /\ Exists(d) /\ d \notin disturbed => PhaseOK(writer[w], d)
          /\ writer[w].old \in SUBSET Chunk /\ Apart(writer[w].old)
    BY <1>1, InHand
<1>3. UNCHANGED <<chunks, nextId, used, embedder, disturbed, bounds>>
    BY DEF Settle
<1> DEFINE requeue == \/ Inserted(writer[w].old, f) # {}
                      \/ \E c \in Kept(writer[w].old, f) : ~c.vec
<1>4. CASE ~Exists(d)
    <2>1. Goto(w, "wipe") /\ UNCHANGED rows
        BY <1>2, <1>3, <1>4 DEF Settle, rows
    <2> QED BY <1>1, <1>3, <2>1, FallsBack, BoundsStay
<1>5. /\ QueueTypes' /\ TimerTypes' /\ SlotInv' /\ BoundTypes' /\ Joins(w, d)
      /\ disturbed \subseteq disturbed' /\ disturbed' = disturbed
    BY <1>3, EmbedderStays, BoundsStay
<1>6. Exists(d) /\ d \notin disturbed =>
          /\ Complete(d) /\ doc[d].hash = f /\ doc[d].status = "PROCESSING"
          /\ Missing(writer[w].old, f) = {} /\ (\A c \in Kept(writer[w].old, f) : c.vec)
               => Unembedded(d) = {}
    BY <1>1, <1>2 DEF PhaseOK, Writing, Incremental
<1>7. CASE Exists(d) /\ requeue
    <2>1. Goto(w, "enqueue") /\ UNCHANGED rows
        BY <1>2, <1>3, <1>7 DEF Settle, rows
    <2>2. RowTypes' /\ Store(d) /\ SameRows(d)
        BY <2>1, RowsStay
    <2>3. /\ WriterTypes' /\ Hand(w, d) /\ writer'[w].doc = d
          /\ writer'[w].pc = "enqueue" /\ writer'[w].file = f
        BY <1>1, <1>2, <2>1, GotoStep DEF Writing
    <2>4. WriterStep(w, d)
        BY <1>2, <1>5, <1>7, <2>2, <2>3 DEF WriterStep
    <2>5. Exists(d)' /\ d \notin disturbed' => PhaseOK(writer[w], d)'
        BY <1>5, <1>6, <2>2, <2>3, IntactKept DEF PhaseOK, SameRows
    <2> QED BY <1>5, <2>2, <2>3, <2>4, <2>5, WriterStepKeepsIInv DEF Types
<1>8. CASE Exists(d) /\ ~requeue
    <2> DEFINE x == [doc[d] EXCEPT !.status = "READY"]
    <2>1. doc' = [doc EXCEPT ![d] = x] /\ Return(w) /\ UNCHANGED <<chunks, nextId, used>>
        BY <1>2, <1>3, <1>8 DEF Settle, SetStatus
    <2>2. x \in Doc /\ x.hash = doc[d].hash
        BY <1>8 DEF RowTypes, Exists, Doc, Status
    <2> HIDE DEF x
    <2>3. /\ RowTypes' /\ Store(d) /\ doc'[d] = x /\ chunks'[d] = chunks[d]
          /\ Unembedded(d)' = Unembedded(d)
        BY <2>1, <2>2, RowSet
    <2>4. WriterTypes' /\ Hand(w, d) /\ writer'[w].doc # d
        BY <1>2, <2>1, ReturnStep
    <2>5. WriterStep(w, d)
        BY <1>2, <1>5, <1>8, <2>3, <2>4 DEF WriterStep
    <2>6. d \notin disturbed' => Intact(d)'
        <3> SUFFICES ASSUME d \notin disturbed PROVE Intact(d)'
            BY <1>5
        <3>1. Complete(d)'
            BY <1>6, <1>8, <2>2, <2>3 DEF Complete
        <3>2. IsFiniteSet(writer[w].old) /\ nextId \in Nat
            BY <1>2 DEF Apart, RowTypes
        <3>3. Missing(writer[w].old, f) = {} /\ \A c \in Kept(writer[w].old, f) : c.vec
            BY <1>8, <3>2, InsertedRows
        <3>4. (Unembedded(d) = {})'
            BY <1>6, <1>8, <2>3, <3>3
        <3> QED BY <3>1, <3>4 DEF Intact
    <2> QED BY <1>5, <2>3, <2>4, <2>5, <2>6, WriterStepKeepsIInv DEF Types
<1> QED BY <1>4, <1>7, <1>8

LEMMA WipeKeepsIInv ==
    ASSUME IInv, NEW w \in Writers, Wipe(w)
    PROVE  IInv'
<1> USE Parts
<1>1. writer[w].pc = "wipe" /\ writer[w].pc \in Writing
    BY DEF Wipe, At, Writing, Full
<1>2. PICK d \in Docs, f \in Files : d = writer[w].doc /\ Writes(w, d)
    BY <1>1, InHand
<1>3. /\ UNCHANGED <<doc, nextId, used, embedder, disturbed, bounds>> /\ Goto(w, "claim")
      /\ chunks' = [chunks EXCEPT ![d] = {}]
    BY <1>2 DEF Wipe
<1>4. PutChunks(d, {})
    BY <1>3 DEF PutChunks, RowTypes
<1>5. Stores(w, d, {}, "claim") => PhaseOK(writer[w], d)'
    BY DEF Stores, PhaseOK
<1>6. "claim" \in Writing \ {"create"}
    BY DEF Writing, Full
<1> QED BY <1>1, <1>2, <1>3, <1>4, <1>5, <1>6, Stored

LEMMA ClaimKeepsIInv ==
    ASSUME IInv, NEW w \in Writers, Claim(w)
    PROVE  IInv'
<1> USE Parts
<1>1. writer[w].pc = "claim" /\ writer[w].pc \in Writing
    BY DEF Claim, At, Writing, Full
<1>2. PICK d \in Docs, f \in Files :
          /\ d = writer[w].doc /\ f = writer[w].file /\ Writes(w, d)
          /\ Exists(d) /\ d \notin disturbed => PhaseOK(writer[w], d)
    BY <1>1, InHand
<1>3. UNCHANGED <<chunks, nextId, used, embedder, bounds>>
    BY DEF Claim
<1>4. CASE ~Exists(d) \/ Taken(f, d)
    <2>1. Return(w) /\ disturbed' = disturbed \cup {d} /\ UNCHANGED rows
        BY <1>2, <1>3, <1>4 DEF Claim, rows
    <2>2. WriterTypes' /\ Hand(w, d)
        BY <1>2, <2>1, ReturnStep
    <2>3. RowTypes' /\ Store(d) /\ SameRows(d)
        BY <2>1, RowsStay
    <2>4. QueueTypes' /\ TimerTypes' /\ SlotInv' /\ Joins(w, d)
        BY <1>3, EmbedderStays
    <2>5. BoundTypes'
        BY <1>3, <2>1 DEF BoundTypes, bounds
    <2>6. WriterStep(w, d)
        BY <1>2, <2>1, <2>2, <2>3, IntactKept DEF WriterStep
    <2>7. d \in disturbed'
        BY <2>1
    <2> QED BY <2>2, <2>3, <2>4, <2>5, <2>6, <2>7, WriterStepKeepsIInv DEF Types
<1>5. CASE Exists(d) /\ ~Taken(f, d)
    <2>1. Goto(w, "chunks") /\ doc' = [doc EXCEPT ![d] = NewRow(f)] /\ UNCHANGED disturbed
        BY <1>2, <1>5 DEF Claim, NewRow
    <2>2. ASSUME Claims(w, d, f, "chunks"), d \notin disturbed
          PROVE  PhaseOK(writer[w], d)'
        <3>1. chunks[d] = {}
            BY <1>1, <1>2, <1>5, <2>2 DEF PhaseOK
        <3> QED BY <2>2, <3>1 DEF PhaseOK, Claims, NewRow
    <2>3. "chunks" \in Writing \ {"create"}
        BY DEF Writing
    <2> QED BY <1>1, <1>2, <1>3, <1>5, <2>1, <2>2, <2>3, Claimed
<1> QED BY <1>4, <1>5

\* Chunks that only get or lose vectors stay apart, and as many of each text.
LEMMA Relabelled ==
    ASSUME NEW S \in SUBSET Chunk, Apart(S), NEW g \in [S -> Chunk],
           \A c \in S : g[c].id = c.id /\ g[c].piece = c.piece
    PROVE  /\ {g[c] : c \in S} \in SUBSET Chunk
           /\ Apart({g[c] : c \in S})
           /\ \A p : Cardinality(With({g[c] : c \in S}, p)) = Cardinality(With(S, p))
<1> DEFINE T == {g[c] : c \in S}
<1>1. T \in SUBSET Chunk
    OBVIOUS
<1>2. \A b, c \in S : b.id = c.id => b = c
    BY DEF Apart
<1>3. Apart(T)
    <2>1. g \in Surjection(S, T)
        BY DEF Surjection
    <2>2. IsFiniteSet(T)
        BY <2>1, FS_Surjection DEF Apart
    <2>3. \A b, c \in T : b.id = c.id => b = c
        BY <1>2
    <2>4. \A c \in T : c.id <= nextId
        BY DEF Apart
    <2> QED BY <2>2, <2>3, <2>4 DEF Apart
<1>4. ASSUME NEW p PROVE Cardinality(With(T, p)) = Cardinality(With(S, p))
    <2> DEFINE q == [c \in With(S, p) |-> g[c]]
    <2>1. With(T, p) = {g[c] : c \in With(S, p)}
        BY DEF With
    <2>2. With(S, p) \subseteq S
        BY DEF With
    <2>3. \A b, c \in With(S, p) : g[b] = g[c] => b = c
        BY <1>2, <2>2
    <2>4. q \in Bijection(With(S, p), With(T, p))
        BY <2>1, <2>3 DEF Bijection, Injection, Surjection, IsInjective
    <2>5. IsFiniteSet(With(S, p))
        BY WithFinite DEF Apart
    <2> QED BY <2>4, <2>5, FS_Bijection DEF ExistsBijection
<1> QED BY <1>1, <1>3, <1>4

\* Then the document has all chunks of its bytes if it had.
LEMMA Revectored ==
    ASSUME IInv, NEW d \in Docs, NEW g \in [chunks[d] -> Chunk],
           \A c \in chunks[d] : g[c].id = c.id /\ g[c].piece = c.piece,
           chunks' = [chunks EXCEPT ![d] = {g[c] : c \in chunks[d]}],
           UNCHANGED <<doc, nextId, used>>
    PROVE  /\ PutChunks(d, {g[c] : c \in chunks[d]})
           /\ Complete(d) => Complete(d)'
<1> DEFINE T == {g[c] : c \in chunks[d]}
<1>1. chunks \in [Docs -> SUBSET Chunk] /\ Apart(chunks[d]) /\ (~Exists(d) => chunks[d] = {})
    BY Parts DEF RowTypes, ChunkInv
<1>2. /\ T \in SUBSET Chunk /\ Apart(T)
      /\ \A p : Cardinality(With(T, p)) = Cardinality(With(chunks[d], p))
    BY <1>1, Relabelled
<1>3. ~Exists(d) => T = {}
    BY <1>1
<1> HIDE DEF T
<1>4. chunks' = [chunks EXCEPT ![d] = T] /\ chunks'[d] = T
    BY <1>1 DEF T
<1>5. Apart(chunks[d])'
    BY <1>2, <1>4 DEF Apart
<1>6. nextId' \in Nat /\ nextId <= nextId' /\ doc' = doc /\ used' = used
    BY Parts DEF RowTypes
<1>9. T \in SUBSET Chunk
    BY <1>2
<1>7. PutChunks(d, T)
    BY <1>3, <1>4, <1>5, <1>6, <1>9 DEF PutChunks
<1>8. Complete(d) => Complete(d)'
    BY <1>2, <1>4 DEF Complete
<1> QED BY <1>7, <1>8 DEF T

LEMMA ClearVectorsKeepsIInv ==
    ASSUME IInv, NEW w \in Writers, ClearVectors(w), writer[w].todo # {}
    PROVE  IInv'
<1> USE Parts
<1>1. PICK d \in writer[w].todo :
          /\ chunks' = [chunks EXCEPT ![d] = {[c EXCEPT !.vec = FALSE] : c \in chunks[d]}]
          /\ writer' = [writer EXCEPT ![w].pc = "dirty", ![w].doc = d,
                                      ![w].todo = writer[w].todo \ {d}]
    BY DEF ClearVectors, WriterTypes
<1>2. d \in Docs /\ writer[w].doc = Null /\ writer[w].pc = "next" /\ Null \notin Docs
    BY WriterParts DEF ClearVectors, At
<1>3. UNCHANGED <<doc, nextId, used, embedder, disturbed, bounds>>
    BY DEF ClearVectors
<1> DEFINE x == [writer[w] EXCEPT !.pc = "dirty", !.doc = d, !.todo = writer[w].todo \ {d}]
           g == [c \in chunks[d] |-> [c EXCEPT !.vec = FALSE]]
<1>4. writer \in [Writers -> Writer] /\ writer[w] \in Writer /\ WriterOK(writer[w])
    BY DEF WriterTypes
<1>5. /\ x \in Writer /\ x.pc = "dirty" /\ x.doc = d /\ x.todo = writer[w].todo \ {d}
      /\ x.old = writer[w].old
    BY <1>1, <1>2, <1>4 DEF Writer, Reindexing
<1>6. WriterOK(x)
    BY <1>2, <1>5 DEF WriterOK, Writing, Incremental, Full
<1>7. writer' = [writer EXCEPT ![w] = x]
    BY <1>1, <1>4
<1> HIDE DEF x
<1>8. /\ writer'[w] = x /\ \A v \in Writers \ {w} : writer'[v] = writer[v]
    BY <1>4, <1>7
<1>9. WriterTypes'
    <2>1. writer' \in [Writers -> Writer]
        BY <1>4, <1>5, <1>7
    <2> QED BY <1>4, <1>6, <1>8, <2>1 DEF WriterTypes
<1>10. Hand(w, d)
    BY <1>2, <1>5, <1>8 DEF Hand, At
<1>11. Writes(w, d)
    BY <1>2 DEF Writes, At
<1>12. PutChunks(d, {g[c] : c \in chunks[d]}) /\ (Complete(d) => Complete(d)')
    <2>1. chunks[d] \in SUBSET Chunk
        BY <1>2 DEF RowTypes
    <2>2. /\ g \in [chunks[d] -> Chunk]
          /\ \A c \in chunks[d] : g[c].id = c.id /\ g[c].piece = c.piece
        BY <2>1 DEF Chunk
    <2>3. {[c EXCEPT !.vec = FALSE] : c \in chunks[d]} = {g[c] : c \in chunks[d]}
        OBVIOUS
    <2>4. chunks' = [chunks EXCEPT ![d] = {g[c] : c \in chunks[d]}]
        BY <1>1, <2>3
    <2>5. UNCHANGED <<doc, nextId, used>>
        BY <1>3
    <2> HIDE DEF g
    <2> QED BY <1>2, <2>2, <2>4, <2>5, Revectored
<1> HIDE DEF g
<1>13. RowTypes' /\ Store(d) /\ (Exists(d)' <=> Exists(d))
    BY <1>2, <1>12, ChunksSet
<1>14. /\ QueueTypes' /\ TimerTypes' /\ SlotInv' /\ BoundTypes' /\ Joins(w, d)
       /\ disturbed \subseteq disturbed' /\ disturbed' = disturbed
    BY <1>3, EmbedderStays, BoundsStay
<1>15. Exists(d)' /\ d \notin disturbed' => PhaseOK(writer[w], d)'
    <2> SUFFICES ASSUME Exists(d), d \notin disturbed PROVE PhaseOK(writer[w], d)'
        BY <1>13, <1>14
    <2>1. DocOK(d)
        BY <1>2 DEF DocInv
    <2>2. \A v \in Writers \ {w} : ~Writes(v, d)
        BY <1>11, <2>1 DEF DocOK, Alone
    <2>3. \A v \in Writers : writer[v].doc # d
        BY <1>2, <2>2, NobodyHasNull
    <2>4. Complete(d)'
        BY <1>12, <2>1, <2>3 DEF DocOK, Intact
    <2> QED BY <1>5, <1>8, <2>4 DEF PhaseOK, Writing, Incremental, Full
<1>16. WriterStep(w, d)
    BY <1>10, <1>11, <1>13, <1>14 DEF WriterStep
<1>17. writer'[w].doc = d
    BY <1>5, <1>8
<1> QED BY <1>2, <1>9, <1>13, <1>14, <1>15, <1>16, <1>17, WriterStepKeepsIInv DEF Types

LEMMA MarkDirtyKeepsIInv ==
    ASSUME IInv, NEW w \in Writers, MarkDirty(w)
    PROVE  IInv'
<1> USE Parts
<1>1. writer[w].pc = "dirty" /\ writer[w].pc \in Reindexing
    BY DEF MarkDirty, At, Reindexing
<1>2. PICK d \in Docs : d = writer[w].doc /\ Writes(w, d) /\ d \notin writer[w].todo
                        /\ (Exists(d) /\ d \notin disturbed => PhaseOK(writer[w], d))
    BY <1>1, AtWork
<1>3. UNCHANGED <<chunks, nextId, used, embedder, disturbed, bounds>>
    BY DEF MarkDirty
<1>4. /\ QueueTypes' /\ TimerTypes' /\ SlotInv' /\ BoundTypes' /\ Joins(w, d)
      /\ disturbed \subseteq disturbed' /\ disturbed' = disturbed
    BY <1>3, EmbedderStays, BoundsStay
<1>5. CASE ~Exists(d)
    <2>1. Return(w) /\ UNCHANGED rows
        BY <1>2, <1>3, <1>5 DEF MarkDirty, rows
    <2>2. WriterTypes' /\ Hand(w, d)
        BY <1>2, <2>1, ReturnStep
    <2>3. RowTypes' /\ Store(d) /\ ~Exists(d)'
        BY <1>5, <2>1, RowsStay, IntactKept
    <2> QED BY <1>2, <1>4, <2>2, <2>3, WriterStepKeepsIInv DEF WriterStep, Types
<1>6. CASE Exists(d)
    <2> DEFINE x == [doc[d] EXCEPT !.status = "PROCESSING"]
               y == [writer[w] EXCEPT !.pc = "requeue"]
    <2>1. doc' = [doc EXCEPT ![d] = x] /\ writer' = [writer EXCEPT ![w] = y]
        BY <1>2, <1>6 DEF MarkDirty, SetStatus, Goto
    <2>2. x \in Doc /\ x.hash = doc[d].hash /\ x.status = "PROCESSING"
        BY <1>6 DEF RowTypes, Exists, Doc, Status
    <2>3. writer \in [Writers -> Writer] /\ writer[w] \in Writer /\ WriterOK(writer[w])
        BY DEF WriterTypes
    <2>4. /\ y \in Writer /\ y.pc = "requeue" /\ y.doc = d /\ y.todo = writer[w].todo
          /\ y.old = writer[w].old
        BY <1>2, <2>3 DEF Writer, Reindexing
    <2>5. WriterOK(y)
        BY <1>2, <2>4 DEF WriterOK, Writing, Incremental, Full
    <2> HIDE DEF x, y
    <2>6. /\ writer'[w] = y /\ \A v \in Writers \ {w} : writer'[v] = writer[v]
        BY <2>1, <2>3
    <2>7. WriterTypes'
        <3>1. writer' \in [Writers -> Writer]
            BY <2>1, <2>3, <2>4
        <3> QED BY <2>3, <2>5, <2>6, <3>1 DEF WriterTypes
    <2>8. Hand(w, d)
        BY <1>2, <2>4, <2>6 DEF Hand, At
    <2>9. RowTypes' /\ Store(d) /\ doc'[d] = x /\ chunks'[d] = chunks[d]
        <3>1. UNCHANGED <<chunks, nextId, used>>
            BY <1>3
        <3> QED BY <2>1, <2>2, <3>1, RowSet
    <2>10. d \notin disturbed' => PhaseOK(writer[w], d)'
        <3> SUFFICES ASSUME d \notin disturbed PROVE PhaseOK(writer[w], d)'
            BY <1>4
        <3>1. Complete(d)
            BY <1>1, <1>2, <1>6 DEF PhaseOK
        <3>2. Complete(d)'
            BY <2>2, <2>9, <3>1 DEF Complete
        <3> QED BY <2>2, <2>4, <2>6, <2>9, <3>2 DEF PhaseOK, Writing, Incremental, Full
    <2>11. WriterStep(w, d)
        BY <1>2, <1>4, <1>6, <2>8, <2>9 DEF WriterStep
    <2>12. writer'[w].doc = d
        BY <2>4, <2>6
    <2> QED BY <1>4, <2>7, <2>9, <2>10, <2>11, <2>12, WriterStepKeepsIInv DEF Types
<1> QED BY <1>5, <1>6

LEMMA RequeueNextKeepsIInv ==
    ASSUME IInv, NEW w \in Writers, RequeueNext(w)
    PROVE  IInv'
<1> USE Parts
<1>1. writer[w].pc = "requeue" /\ writer[w].pc \in Reindexing
    BY DEF RequeueNext, At, Reindexing
<1>2. PICK d \in Docs : d = writer[w].doc /\ Writes(w, d) /\ d \notin writer[w].todo
                        /\ (Exists(d) /\ d \notin disturbed => PhaseOK(writer[w], d))
    BY <1>1, AtWork
<1> DEFINE y == [writer[w] EXCEPT !.pc = "next", !.doc = Null]
<1>3. Enqueue(d) /\ UNCHANGED <<rows, timers, disturbed, bounds>>
    BY <1>2 DEF RequeueNext
<1>4. writer \in [Writers -> Writer] /\ writer[w] \in Writer /\ WriterOK(writer[w])
    BY DEF WriterTypes
<1>5. writer' = [writer EXCEPT ![w] = y]
    BY <1>4 DEF RequeueNext
<1>6. /\ y \in Writer /\ y.pc = "next" /\ y.doc = Null /\ y.todo = writer[w].todo
      /\ y.old = writer[w].old
    BY <1>4 DEF Writer
<1>7. WriterOK(y)
    <2>1. Null \notin y.todo
        BY <1>4, <1>6, NullAssumption DEF Writer
    <2> QED BY <1>6, <2>1 DEF WriterOK, Writing, Incremental, Full
<1> HIDE DEF y
<1>8. /\ writer'[w] = y /\ \A v \in Writers \ {w} : writer'[v] = writer[v]
    BY <1>4, <1>5
<1>9. WriterTypes'
    <2>1. writer' \in [Writers -> Writer]
        BY <1>4, <1>5, <1>6
    <2> QED BY <1>4, <1>7, <1>8, <2>1 DEF WriterTypes
<1>10. Hand(w, d) /\ ~Writes(w, d)' /\ writer'[w].doc # d
    BY <1>2, <1>6, <1>8, NullAssumption DEF Hand, At, Writes
<1>11. /\ QueueTypes' /\ SlotInv'
       /\ \A e \in Docs : JobStep(e) /\ (Waiting(e)' => Waiting(e) \/ e = d)
    BY <1>3, EnqueueStep
<1>12. TimerTypes' /\ BoundTypes' /\ disturbed' = disturbed /\ Joins(w, d)
    BY <1>3, <1>10, <1>11, BoundsStay DEF TimerTypes, Joins
<1>13. RowTypes' /\ Store(d) /\ SameRows(d)
    BY <1>3, RowsStay
<1>14. Exists(d)' /\ d \notin disturbed' => Intact(d)'
    <2> SUFFICES ASSUME Exists(d), d \notin disturbed PROVE Intact(d)
        BY <1>12, <1>13, IntactKept
    <2>1. Complete(d) /\ doc[d].status = "PROCESSING"
        BY <1>1, <1>2 DEF PhaseOK
    <2> QED BY <2>1 DEF Intact, Is
<1>15. WriterStep(w, d)
    BY <1>2, <1>10, <1>12, <1>13, IntactKept DEF WriterStep
<1> QED BY <1>9, <1>10, <1>11, <1>12, <1>13, <1>14, <1>15, WriterStepKeepsIInv DEF Types

\* A request that fails leaves its document disturbed, or falls back.
LEMMA WriterFailsKeepsIInv ==
    ASSUME IInv, NEW w \in Writers, WriterFails(w)
    PROVE  IInv'
<1> USE Parts
<1>1. faults < MaxFaults /\ faults' = faults + 1
      /\ UNCHANGED <<chunks, nextId, used, embedder, uploads>>
    BY DEF WriterFails
<1>2. faults' \in 0..MaxFaults
    BY <1>1, BoundAssumption DEF BoundTypes
<1>3. CASE writer[w].pc \in Incremental /\ Goto(w, "wipe") /\ UNCHANGED <<doc, disturbed>>
    <2>1. writer[w].pc \in Writing
        BY <1>3 DEF Writing
    <2>2. BoundTypes' /\ UNCHANGED <<rows, embedder, disturbed>>
        BY <1>1, <1>2, <1>3 DEF BoundTypes, rows
    <2> QED BY <1>3, <2>1, <2>2, FallsBack
<1>4. CASE /\ writer[w].pc \in Writing \cup Reindexing
           /\ disturbed' = disturbed \cup {writer[w].doc} /\ Return(w)
           /\ \/ UNCHANGED doc
              \/ /\ Exists(writer[w].doc)
                 /\ doc' = [doc EXCEPT ![writer[w].doc].status = "ERROR"]
    <2>1. PICK d \in Docs : d = writer[w].doc /\ Writes(w, d)
        BY <1>4, AtWork
    <2>2. WriterTypes' /\ Hand(w, d)
        BY <1>4, <2>1, ReturnStep
    <2>3. QueueTypes' /\ TimerTypes' /\ SlotInv' /\ Joins(w, d)
        BY <1>1, EmbedderStays
    <2>4. BoundTypes' /\ d \in disturbed' /\ disturbed \subseteq disturbed'
        BY <1>1, <1>2, <1>4, <2>1 DEF BoundTypes
    <2>5. RowTypes' /\ Store(d) /\ (Exists(d)' => Exists(d))
        <3>1. CASE UNCHANGED doc
            <4>1. UNCHANGED rows
                BY <1>1, <3>1 DEF rows
            <4> QED BY <4>1, RowsStay, IntactKept
        <3>2. CASE Exists(d) /\ doc' = [doc EXCEPT ![d].status = "ERROR"]
            <4> DEFINE x == [doc[d] EXCEPT !.status = "ERROR"]
            <4>1. x \in Doc
                BY <3>2 DEF RowTypes, Exists, Doc, Status
            <4>2. doc' = [doc EXCEPT ![d] = x] /\ UNCHANGED <<chunks, nextId, used>>
                BY <1>1, <3>2
            <4> HIDE DEF x
            <4> QED BY <3>2, <4>1, <4>2, RowSet
        <3> QED BY <1>4, <2>1, <3>1, <3>2
    <2>6. WriterStep(w, d)
        BY <2>1, <2>2, <2>4, <2>5 DEF WriterStep
    <2> QED BY <2>2, <2>3, <2>4, <2>5, <2>6, WriterStepKeepsIInv DEF Types
<1> QED BY <1>3, <1>4 DEF WriterFails, Writing, Reindexing, Full

-----------------------------------------------------------------------------
(* A request takes documents in hand, or lets go of none *)

\* The request w, which had no document, takes those of X.
TakesUp(w, X) ==
    /\ writer[w].doc = Null /\ writer'[w].doc \in X \cup {Null} /\ writer'[w].old = {}
    /\ \A v \in Writers \ {w} : writer'[v] = writer[v]
    /\ \A d \in Docs \ X : Writes(w, d)' => Writes(w, d)
    /\ doc' = doc /\ chunks' = chunks /\ nextId' = nextId /\ UNCHANGED embedder
    /\ used \subseteq used' /\ disturbed \subseteq disturbed'

LEMMA TakesUpKeepsIInv ==
    ASSUME IInv, NEW w \in Writers, NEW X \in SUBSET Docs, TakesUp(w, X),
           RowTypes', WriterTypes', BoundTypes', FreshInv',
           \A d \in X : Exists(d) /\ d \notin disturbed' =>
               Alone(w, d) /\ (writer'[w].doc = d => PhaseOK(writer[w], d)')
    PROVE  IInv'
<1> USE Parts
<1>1. /\ QueueTypes' /\ TimerTypes' /\ SlotInv'
      /\ \A d \in Docs : JobStep(d) /\ (Embedding(d)' => Embedding(d))
    BY EmbedderStays DEF TakesUp
<1>2. TypeInv'
    BY <1>1, TypePartsNext
<1>3. \A d \in Docs : SameRows(d) /\ (Exists(d)' <=> Exists(d))
    BY DEF TakesUp, SameRows, Exists
<1>4. ChunkInv'
    <2>1. nextId' \in Nat /\ nextId <= nextId' /\ \A d \in Docs : chunks'[d] \in SUBSET chunks[d]
        BY DEF TakesUp, RowTypes
    <2>2. \A d \in Docs : ~Exists(d)' => chunks'[d] = {}
        BY <1>3 DEF ChunkInv, SameRows
    <2>3. \A v \in Writers : writer'[v].old \in {writer[v].old, {}}
        BY DEF TakesUp
    <2> QED BY <2>1, <2>2, <2>3, ChunkStep
<1>5. ASSUME NEW d \in Docs, Exists(d)', d \notin disturbed' PROVE DocOK(d)'
    <2>1. Exists(d) /\ d \notin disturbed /\ DocOK(d) /\ SameRows(d) /\ JobStep(d)
        BY <1>1, <1>3, <1>5 DEF DocInv, TakesUp
    <2>2. CASE d \in X
        <3>1. Alone(w, d) /\ (writer'[w].doc = d => PhaseOK(writer[w], d)')
            BY <1>5, <2>1, <2>2
        <3>2. \A v \in Writers : writer[v].doc # d
            BY <3>1, NobodyHasNull, NullAssumption DEF Alone, TakesUp
        <3>3. Intact(d)'
            BY <2>1, <3>2, IntactKept DEF DocOK
        <3>4. ~Embedding(d)'
            BY <1>1, <3>1 DEF Alone
        <3>5. \A v \in Writers \ {w} : writer'[v] = writer[v]
            BY DEF TakesUp
        <3> QED BY <2>1, <3>1, <3>3, <3>4, <3>5, OneMoves
    <2>3. CASE d \notin X
        <3>1. Calm(d)
            <4>1. \A v \in Writers : Writes(v, d)' => Writes(v, d)
                <5> SUFFICES ASSUME NEW v \in Writers, Writes(v, d)' PROVE Writes(v, d)
                    OBVIOUS
                <5>1. CASE v = w
                    BY <2>3, <5>1 DEF TakesUp
                <5>2. CASE v # w
                    BY <5>2 DEF TakesUp, Writes, At
                <5> QED BY <5>1, <5>2
            <4> QED BY <1>1, <1>3, <4>1 DEF Calm
        <3>2. \A v \in Writers : writer'[v].doc = d => writer'[v] = writer[v]
            BY <2>3, NullAssumption DEF TakesUp
        <3>3. (\A v \in Writers : writer'[v].doc # d) => \A v \in Writers : writer[v].doc # d
            BY NullAssumption DEF TakesUp
        <3> QED BY <2>1, <3>1, <3>2, <3>3, Untouched DEF DocOK
    <2> QED BY <2>2, <2>3
<1> QED BY <1>1, <1>2, <1>4, <1>5 DEF IInv, DocInv

\* The next request of w, from its first state on.
LEMMA RequestBegins ==
    ASSUME IInv, NEW w \in Writers, Request(w), NEW x \in Writer, WriterOK(x), x.old = {},
           writer' = [writer EXCEPT ![w] = x], disturbed' \in SUBSET Docs, faults' = faults
    PROVE  /\ WriterTypes' /\ BoundTypes'
           /\ writer'[w] = x /\ \A v \in Writers \ {w} : writer'[v] = writer[v]
           /\ writer[w].doc = Null /\ \A d \in Docs : ~Writes(w, d)
<1>1. writer \in [Writers -> Writer] /\ \A v \in Writers : WriterOK(writer[v])
    BY Parts DEF WriterTypes
<1>2. /\ writer'[w] = x /\ \A v \in Writers \ {w} : writer'[v] = writer[v]
    BY <1>1
<1>3. writer' \in [Writers -> Writer]
    BY <1>1
<1>4. WriterTypes'
    BY <1>1, <1>2, <1>3 DEF WriterTypes
<1>5. writer[w].pc = "idle"
    BY DEF Request, At
<1>6. writer[w].doc = Null /\ \A d \in Docs : ~Writes(w, d)
    BY <1>5, Parts, WriterParts DEF Writes, At
<1>7. BoundTypes'
    BY Parts, BoundAssumption DEF BoundTypes, Request
<1> QED BY <1>2, <1>4, <1>6, <1>7

LEMMA IngestKeepsIInv ==
    ASSUME IInv, NEW w \in Writers, NEW d \in Docs, NEW f \in Files, Ingest(w, d, f)
    PROVE  IInv'
<1> USE Parts
<1> DEFINE x == [Idle EXCEPT !.pc = "create", !.doc = d, !.file = f]
<1>1. /\ x \in Writer /\ x.pc = "create" /\ x.doc = d /\ x.old = {} /\ x.todo = {} /\ x.file = f
    BY DEF Writer, Idle, Writing
<1>2. WriterOK(x)
    BY <1>1 DEF WriterOK
<1>3. /\ Request(w) /\ d \notin used /\ used' = used \cup {d} /\ writer' = [writer EXCEPT ![w] = x]
      /\ UNCHANGED <<doc, chunks, nextId, embedder, disturbed, faults>>
    BY DEF Ingest
<1> HIDE DEF x
<1>4. /\ WriterTypes' /\ BoundTypes'
      /\ writer'[w] = x /\ \A v \in Writers \ {w} : writer'[v] = writer[v]
      /\ writer[w].doc = Null /\ \A e \in Docs : ~Writes(w, e)
    <2>1. disturbed' \in SUBSET Docs /\ faults' = faults
        BY <1>3 DEF BoundTypes
    <2> QED BY <1>1, <1>2, <1>3, <2>1, RequestBegins
<1>5. ~Exists(d) /\ ~Embedding(d) /\ \A v \in Writers : ~Writes(v, d)
    BY <1>3 DEF FreshInv
<1>6. \A e \in Docs : (Exists(e)' <=> Exists(e)) /\ (Embedding(e)' <=> Embedding(e))
    <2>1. \A e \in Docs : Embedding(e)' <=> Embedding(e)
        BY <1>3, EmbedderStays
    <2> QED BY <1>3, <2>1 DEF Exists
<1>7. /\ \A e \in Docs \ {d} : ~Writes(w, e)'
      /\ \A e \in Docs : \A v \in Writers \ {w} : Writes(v, e)' <=> Writes(v, e)
    BY <1>1, <1>4 DEF Writes, At
<1>8. FreshInv'
    <2>1. ASSUME NEW e \in Docs \ used'
          PROVE  ~Exists(e)' /\ ~Embedding(e)' /\ \A v \in Writers : ~Writes(v, e)'
        <3>1. e \in Docs \ used /\ e # d
            BY <1>3
        <3>2. ~Exists(e) /\ ~Embedding(e) /\ \A v \in Writers : ~Writes(v, e)
            BY <3>1 DEF FreshInv
        <3> QED BY <1>6, <1>7, <3>1, <3>2
    <2>2. ASSUME NEW v \in Writers, At(v, "create")'
          PROVE  ~Exists(writer[v].doc)' /\ Alone(v, writer[v].doc)'
        <3>1. CASE v = w
            <4>1. writer'[v].doc = d
                BY <1>1, <1>4, <3>1
            <4>2. ~Exists(d)' /\ Alone(v, d)'
                BY <1>5, <1>6, <1>7, <3>1 DEF Alone
            <4> QED BY <4>1, <4>2 DEF Exists, Alone, Embedding, Queued, Writes, At
        <3>2. CASE v # w
            <4>1. writer'[v] = writer[v] /\ At(v, "create")
                BY <1>4, <2>2, <3>2 DEF At
            <4>2. PICK e \in Docs : e = writer[v].doc
                BY <4>1, WriterParts DEF At
            <4>3. ~Exists(e) /\ Alone(v, e)
                BY <4>1, <4>2 DEF FreshInv
            <4>4. Writes(v, e)
                BY <4>1, <4>2, NobodyHasNull
            <4>5. e # d
                BY <1>5, <4>4
            <4>6. ~Exists(e)' /\ Alone(v, e)'
                BY <1>6, <1>7, <4>3, <4>5 DEF Alone
            <4>7. writer'[v].doc = e
                BY <4>1, <4>2
            <4> QED BY <4>6, <4>7 DEF Exists, Alone, Embedding, Queued, Writes, At
        <3> QED BY <3>1, <3>2
    <2> QED BY <2>1, <2>2 DEF FreshInv
<1>9. TakesUp(w, {d})
    BY <1>1, <1>3, <1>4, <1>7 DEF TakesUp
<1>10. RowTypes'
    BY <1>3 DEF RowTypes
<1>11. \A e \in {d} : Exists(e) /\ e \notin disturbed' =>
            Alone(w, e) /\ (writer'[w].doc = e => PhaseOK(writer[w], e)')
    BY <1>5
<1> QED BY <1>4, <1>8, <1>9, <1>10, <1>11, TakesUpKeepsIInv

\* The rest of what a request takes up existed, so nobody was to create it.
LEMMA TakenExisted ==
    ASSUME IInv, NEW w \in Writers, NEW X \in SUBSET Docs, TakesUp(w, X), ~At(w, "create")',
           \A d \in X : Exists(d)
    PROVE  FreshInv'
<1> USE Parts
<1>1. \A d \in Docs \ X : Calm(d)
    <2> TAKE d \in Docs \ X
    <2>1. Embedding(d)' => Embedding(d)
        BY EmbedderStays DEF TakesUp
    <2>2. \A v \in Writers : Writes(v, d)' => Writes(v, d)
        <3> SUFFICES ASSUME NEW v \in Writers, Writes(v, d)' PROVE Writes(v, d)
            OBVIOUS
        <3>1. CASE v = w
            BY <3>1 DEF TakesUp
        <3>2. CASE v # w
            BY <3>2 DEF TakesUp, Writes, At
        <3> QED BY <3>1, <3>2
    <2> QED BY <2>1, <2>2 DEF Calm, TakesUp, Exists
<1>2. \A v \in Writers : At(v, "create")' => writer'[v] = writer[v]
    BY DEF TakesUp
<1>3. \A d \in X : d \in used' /\ \A v \in Writers : At(v, "create")' => writer[v].doc # d
    <2> TAKE d \in X
    <2>1. d \in used'
        BY DEF FreshInv, TakesUp
    <2>2. \A v \in Writers : At(v, "create")' => At(v, "create")
        BY <1>2 DEF At
    <2> QED BY <2>1, <2>2 DEF FreshInv
<1>4. used \subseteq used' /\ TypeInv
    BY DEF TakesUp
<1> QED BY <1>1, <1>2, <1>3, <1>4, FreshStep

\* A document w takes up and does not share is w's alone.
LEMMA NotShared ==
    ASSUME NEW w \in Writers, NEW d \in Docs, ~Shared(w, d)
    PROVE  Alone(w, d)
BY DEF Shared, Alone, Embedding, Queued

LEMMA ReingestKeepsIInv ==
    ASSUME IInv, NEW w \in Writers, NEW d \in Docs, NEW f \in Files, Reingest(w, d, f)
    PROVE  IInv'
<1> USE Parts
<1>1. PICK pc \in {"old", "wipe"} :
          writer' = [writer EXCEPT ![w] = [Idle EXCEPT !.pc = pc, !.doc = d, !.file = f]]
    BY DEF Reingest
<1> DEFINE x == [Idle EXCEPT !.pc = pc, !.doc = d, !.file = f]
<1>2. /\ x \in Writer /\ x.pc = pc /\ x.doc = d /\ x.old = {} /\ x.todo = {} /\ x.file = f
    BY DEF Writer, Idle, Writing, Incremental, Full
<1>3. WriterOK(x)
    BY <1>2 DEF WriterOK
<1>4. /\ Request(w) /\ Exists(d) /\ writer' = [writer EXCEPT ![w] = x]
      /\ disturbed' = IF Shared(w, d) THEN disturbed \cup {d} ELSE disturbed
      /\ UNCHANGED <<rows, embedder, faults>>
    BY <1>1 DEF Reingest
<1> HIDE DEF x
<1>5. /\ WriterTypes' /\ BoundTypes'
      /\ writer'[w] = x /\ \A v \in Writers \ {w} : writer'[v] = writer[v]
      /\ writer[w].doc = Null /\ \A e \in Docs : ~Writes(w, e)
    <2>1. disturbed' \in SUBSET Docs /\ faults' = faults
        BY <1>4 DEF BoundTypes
    <2> QED BY <1>2, <1>3, <1>4, <2>1, RequestBegins
<1>6. \A e \in Docs \ {d} : ~Writes(w, e)'
    BY <1>2, <1>5 DEF Writes
<1>7. TakesUp(w, {d})
    BY <1>2, <1>4, <1>5, <1>6 DEF TakesUp, rows
<1>8. RowTypes'
    BY <1>4, RowsStay
<1>9. FreshInv'
    <2>1. ~At(w, "create")'
        BY <1>2, <1>5 DEF At
    <2>2. \A e \in {d} : Exists(e)
        BY <1>4
    <2> QED BY <1>7, <2>1, <2>2, TakenExisted
<1>10. ASSUME d \notin disturbed' PROVE Alone(w, d) /\ PhaseOK(writer[w], d)'
    <2>1. Alone(w, d) /\ d \notin disturbed
        BY <1>4, <1>10, NotShared
    <2>2. \A v \in Writers : writer[v].doc # d
        BY <1>5, <2>1, NobodyHasNull, NullAssumption DEF Alone
    <2>3. Intact(d)'
        <3>1. Intact(d)
            BY <1>4, <2>1, <2>2 DEF DocInv, DocOK
        <3> QED BY <1>4, <3>1, RowsStay, IntactKept
    <2> QED BY <1>2, <1>5, <2>1, <2>3 DEF PhaseOK, Writing, Incremental, Full
<1>11. \A e \in {d} : Exists(e) /\ e \notin disturbed' =>
            Alone(w, e) /\ (writer'[w].doc = e => PhaseOK(writer[w], e)')
    BY <1>10
<1> QED BY <1>5, <1>7, <1>8, <1>9, <1>11, TakesUpKeepsIInv

LEMMA StartReindexKeepsIInv ==
    ASSUME IInv, NEW w \in Writers, StartReindex(w)
    PROVE  IInv'
<1> USE Parts
<1> DEFINE X == {d \in Docs : Exists(d) /\ ~Is(d, "PROCESSING")}
           x == [Idle EXCEPT !.pc = "next", !.todo = X]
<1>1. /\ x \in Writer /\ x.pc = "next" /\ x.doc = Null /\ x.old = {} /\ x.todo = X
    BY DEF Writer, Idle
<1>2. WriterOK(x)
    BY <1>1, NullAssumption DEF WriterOK, Writing, Incremental, Full
<1>3. /\ Request(w) /\ writer' = [writer EXCEPT ![w] = x]
      /\ disturbed' = disturbed \cup {d \in X : Shared(w, d)}
      /\ UNCHANGED <<rows, embedder, faults>>
    BY DEF StartReindex
<1>4. X \in SUBSET Docs /\ \A d \in X : Exists(d)
    OBVIOUS
<1> HIDE DEF x, X
<1>5. /\ WriterTypes' /\ BoundTypes'
      /\ writer'[w] = x /\ \A v \in Writers \ {w} : writer'[v] = writer[v]
      /\ writer[w].doc = Null /\ \A e \in Docs : ~Writes(w, e)
    <2>1. disturbed' \in SUBSET Docs /\ faults' = faults
        BY <1>3, <1>4 DEF BoundTypes
    <2> QED BY <1>1, <1>2, <1>3, <2>1, RequestBegins
<1>6. \A e \in Docs \ X : ~Writes(w, e)'
    BY <1>1, <1>5, NullAssumption DEF Writes
<1>7. TakesUp(w, X)
    BY <1>1, <1>3, <1>5, <1>6 DEF TakesUp, rows
<1>8. RowTypes'
    BY <1>3 DEF RowTypes, rows
<1>9. FreshInv'
    <2>1. ~At(w, "create")'
        BY <1>1, <1>5 DEF At
    <2> QED BY <1>4, <1>7, <2>1, TakenExisted
<1>10. \A d \in X : Exists(d) /\ d \notin disturbed' =>
            Alone(w, d) /\ (writer'[w].doc = d => PhaseOK(writer[w], d)')
    <2> TAKE d \in X
    <2>1. d \notin disturbed' => Alone(w, d)
        BY <1>3, <1>4, NotShared
    <2>2. writer'[w].doc # d
        BY <1>1, <1>4, <1>5, NullAssumption
    <2> QED BY <2>1, <2>2
<1> QED BY <1>4, <1>5, <1>7, <1>8, <1>9, <1>10, TakesUpKeepsIInv

LEMMA LastClearKeepsIInv ==
    ASSUME IInv, NEW w \in Writers, ClearVectors(w), writer[w].todo = {}
    PROVE  IInv'
<1> USE Parts
<1>1. /\ Return(w) /\ UNCHANGED <<rows, embedder, disturbed, bounds>> /\ writer[w].pc = "next"
    BY DEF ClearVectors, rows, At
<1>2. writer[w].doc = Null
    BY <1>1, WriterParts
<1>3. /\ writer'[w] = Idle /\ \A v \in Writers \ {w} : writer'[v] = writer[v]
    BY <1>1 DEF Return, WriterTypes
<1>4. WriterTypes'
    <2>1. writer' \in [Writers -> Writer]
        BY <1>1, IdleIsIdle DEF Return, WriterTypes
    <2> QED BY <1>3, <2>1, IdleIsIdle DEF WriterTypes
<1>5. TakesUp(w, {})
    BY <1>1, <1>2, <1>3, IdleIsIdle DEF TakesUp, Writes, At, rows
<1>6. RowTypes' /\ BoundTypes'
    BY <1>1, BoundsStay DEF RowTypes, rows
<1>7. ~At(w, "create")'
    BY <1>3, IdleIsIdle DEF At
<1>8. FreshInv'
    BY <1>5, <1>7, TakenExisted
<1> QED BY <1>4, <1>5, <1>6, <1>8, TakesUpKeepsIInv

LEMMA DeleteKeepsIInv ==
    ASSUME IInv, NEW w \in Writers, NEW d \in Docs, Delete(w, d)
    PROVE  IInv'
<1> USE Parts
<1>1. /\ doc' = [doc EXCEPT ![d] = NoDoc] /\ chunks' = [chunks EXCEPT ![d] = {}]
      /\ UNCHANGED <<nextId, used, embedder, writer, disturbed, faults>>
      /\ uploads < MaxUploads /\ uploads' = uploads + 1
    BY DEF Delete, Request
<1>2. /\ QueueTypes' /\ TimerTypes' /\ SlotInv'
      /\ \A e \in Docs : JobStep(e) /\ (Embedding(e)' <=> Embedding(e))
    BY <1>1, EmbedderStays
<1>3. RowTypes' /\ WriterTypes'
    BY <1>1 DEF RowTypes, WriterTypes
<1>4. BoundTypes'
    BY <1>1, BoundAssumption DEF BoundTypes
<1>5. TypeInv'
    BY <1>2, <1>3, <1>4, TypePartsNext
<1>6. ~Exists(d)' /\ chunks'[d] = {} /\ \A e \in Docs \ {d} : SameRows(e)
    BY <1>1 DEF RowTypes, Exists, SameRows
<1>7. \A e \in Docs : Calm(e)
    <2> TAKE e \in Docs
    <2>1. Exists(e)' => Exists(e)
        BY <1>6, IntactKept
    <2>2. \A v \in Writers : Writes(v, e)' => Writes(v, e)
        BY <1>1 DEF Writes, At
    <2> QED BY <1>2, <2>1, <2>2 DEF Calm
<1>8. FreshInv'
    <2>1. /\ used \subseteq used' /\ {} \in SUBSET Docs
          /\ \A v \in Writers : At(v, "create")' => writer'[v] = writer[v]
        BY <1>1
    <2> QED BY <1>7, <2>1, FreshStep
<1>9. ChunkInv'
    <2>1. /\ nextId' \in Nat /\ nextId <= nextId'
          /\ \A v \in Writers : writer'[v].old \in {writer[v].old, {}}
        BY <1>1 DEF RowTypes
    <2>2. \A e \in Docs : ~Exists(e)' => chunks'[e] = {}
        <3> TAKE e \in Docs
        <3>1. CASE e = d
            BY <1>6, <3>1
        <3>2. CASE e # d
            BY <1>6, <3>2, IntactKept DEF ChunkInv, SameRows
        <3> QED BY <3>1, <3>2
    <2>3. \A e \in Docs : chunks'[e] \in SUBSET chunks[e]
        BY <1>6 DEF SameRows
    <2> QED BY <2>1, <2>2, <2>3, ChunkStep
<1>10. ASSUME NEW e \in Docs, Exists(e)', e \notin disturbed' PROVE DocOK(e)'
    <2>1. SameRows(e) /\ Calm(e) /\ JobStep(e) /\ writer' = writer
        BY <1>1, <1>2, <1>6, <1>7, <1>10
    <2>2. DocOK(e)
        BY <1>1, <1>10, <2>1 DEF DocInv, Calm
    <2> QED BY <2>1, <2>2, Untouched DEF DocOK
<1> QED BY <1>2, <1>5, <1>8, <1>9, <1>10 DEF IInv, DocInv

LEMMA RestartKeepsIInv ==
    ASSUME IInv, Restart
    PROVE  IInv'
<1> USE Parts
<1>1. /\ queue' = <<>> /\ job' = [d \in Docs |-> NoJob] /\ timers' = [d \in Docs |-> {}]
      /\ writer' = [w \in Writers |-> Idle] /\ UNCHANGED <<rows, uploads>>
      /\ faults < MaxFaults /\ faults' = faults + 1
      /\ disturbed' = {d \in Docs : Is(d, "PROCESSING") \/ \E w \in Writers : Writes(w, d)}
                          \cup disturbed
    BY DEF Restart
<1>2. QueueTypes' /\ TimerTypes'
    BY <1>1 DEF QueueTypes, TimerTypes
<1>3. SlotInv'
    <2>1. Active(job') = {}
        BY <1>1 DEF Active
    <2>2. IsFiniteSet(Active(job')) /\ Cardinality(Active(job')) <= Concurrency
        BY <2>1, FS_EmptySet, BoundAssumption
    <2> QED BY <1>1, <2>2 DEF SlotInv, SlotsUsed
<1>4. \A w \in Writers : writer'[w] = Idle
    BY <1>1
<1>5. WriterTypes' /\ BoundTypes'
    <2>1. WriterTypes'
        BY <1>1, <1>4, IdleIsIdle DEF WriterTypes
    <2>2. BoundTypes'
        BY <1>1, BoundAssumption DEF BoundTypes
    <2> QED BY <2>1, <2>2
<1>6. \A d \in Docs : SameRows(d) /\ (Exists(d)' <=> Exists(d))
    BY <1>1 DEF SameRows, rows, Exists
<1>7. RowTypes' /\ nextId' \in Nat /\ nextId <= nextId'
    BY <1>1 DEF RowTypes, rows
<1>8. TypeInv'
    BY <1>2, <1>5, <1>7, TypePartsNext
<1>9. \A d \in Docs : ~Embedding(d)' /\ job'[d] = NoJob
    BY <1>1 DEF Embedding, Queued
<1>10. \A d \in Docs : \A w \in Writers : ~Writes(w, d)' /\ writer'[w].doc # d
    BY <1>4, IdleIsIdle, NullAssumption DEF Writes, At
<1>11. FreshInv'
    <2>1. \A d \in Docs : Calm(d)
        BY <1>6, <1>9, <1>10 DEF Calm
    <2>2. /\ used \subseteq used' /\ {} \in SUBSET Docs
          /\ \A v \in Writers : At(v, "create")' => writer'[v] = writer[v]
        BY <1>1, <1>4, IdleIsIdle DEF rows, At
    <2> QED BY <2>1, <2>2, FreshStep
<1>12. ChunkInv'
    <2>1. \A d \in Docs : chunks'[d] \in SUBSET chunks[d] /\ (~Exists(d)' => chunks'[d] = {})
        BY <1>6 DEF SameRows, ChunkInv
    <2>2. \A w \in Writers : writer'[w].old \in {writer[w].old, {}}
        BY <1>4, IdleIsIdle
    <2> QED BY <1>7, <2>1, <2>2, ChunkStep
<1>13. ASSUME NEW d \in Docs, Exists(d)', d \notin disturbed' PROVE DocOK(d)'
    <2>1. Exists(d) /\ d \notin disturbed /\ \A w \in Writers : ~Writes(w, d)
        BY <1>1, <1>6, <1>13
    <2>2. Intact(d)
        BY <2>1, NobodyHasNull DEF DocInv, DocOK
    <2>3. Intact(d)'
        BY <1>6, <2>2, IntactKept
    <2> QED BY <1>9, <1>10, <2>3 DEF DocOK, JobAt
<1> QED BY <1>3, <1>8, <1>11, <1>12, <1>13 DEF IInv, DocInv

-----------------------------------------------------------------------------
(* Every step of a job keeps the invariant *)

LEMMA JobGotoStep ==
    ASSUME QueueTypes, SlotInv, NEW d \in Docs, job[d] # NoJob,
           NEW x \in Job, job' = [job EXCEPT ![d] = x], queue' = queue
    PROVE  /\ QueueTypes' /\ SlotInv' /\ job'[d] = x
           /\ \A e \in Docs \ {d} : JobStep(e) /\ (Waiting(e)' => Waiting(e))
<1>1. job' \in [Docs -> Job \cup {NoJob}] /\ job'[d] = x
      /\ \A e \in Docs \ {d} : job'[e] = job[e]
    BY DEF QueueTypes
<1>2. Active(job') = Active(job)
    BY <1>1, NullAssumption DEF Active
<1>3. SlotInv'
    BY <1>2 DEF SlotInv, SlotsUsed
<1> QED BY <1>1, <1>3 DEF QueueTypes, JobStep, Waiting, Queued

\* A job that moves on while the rows stay, and has nothing listed yet, or
\* leaves its slot.
LEMMA JobOnly ==
    ASSUME IInv, NEW d \in Docs, Embedding(d), QueueTypes', TimerTypes', SlotInv',
           \A e \in Docs \ {d} : JobStep(e) /\ timers'[e] = timers[e] /\ (Waiting(e)' => Waiting(e)),
           UNCHANGED <<rows, writer, disturbed>>, BoundTypes',
           DocOK(d) /\ JobAt(d, "embed")' => Ids(Unembedded(d)) \subseteq job'[d].work,
           DocOK(d) /\ JobAt(d, "ready")' => Unembedded(d) = {}
    PROVE  IInv'
<1> USE Parts
<1>1. RowTypes' /\ Store(d) /\ SameRows(d)
    BY RowsStay
<1>2. JobMove(d)
    BY <1>1, IntactKept DEF JobMove
<1>3. WriterTypes'
    BY DEF WriterTypes
<1>4. Unembedded(d)' = Unembedded(d) /\ (Intact(d)' <=> Intact(d))
    BY <1>1, IntactKept
<1> QED BY <1>1, <1>2, <1>3, <1>4, JobMoveKeepsIInv DEF Types

LEMMA CheckStatusKeepsIInv ==
    ASSUME IInv, NEW d \in Docs, CheckStatus(d)
    PROVE  IInv'
<1> USE Parts
<1>1. job[d] # NoJob /\ Embedding(d)
    BY DEF CheckStatus, JobAt, Embedding
<1>2. UNCHANGED <<rows, timers, writer, disturbed, bounds>>
    BY DEF CheckStatus
<1>3. TimerTypes' /\ BoundTypes'
    BY <1>2, BoundsStay DEF TimerTypes
<1>4. CASE Is(d, "PROCESSING")
    <2> DEFINE x == [job[d] EXCEPT !.pc = "list"]
    <2>1. job' = [job EXCEPT ![d] = x] /\ queue' = queue
        BY <1>4 DEF CheckStatus, JobGoto
    <2>2. x \in Job /\ x.pc = "list"
        BY <1>1 DEF QueueTypes, Job
    <2> HIDE DEF x
    <2>3. /\ QueueTypes' /\ SlotInv' /\ job'[d] = x
          /\ \A e \in Docs \ {d} : JobStep(e) /\ (Waiting(e)' => Waiting(e))
        BY <1>1, <2>1, <2>2, JobGotoStep
    <2>4. ~JobAt(d, "embed")' /\ ~JobAt(d, "ready")'
        BY <2>2, <2>3 DEF JobAt
    <2> QED BY <1>1, <1>2, <1>3, <2>3, <2>4, JobOnly
<1>5. CASE ~Is(d, "PROCESSING")
    <2>1. Release(d)
        BY <1>5 DEF CheckStatus
    <2>2. /\ QueueTypes' /\ SlotInv'
          /\ \A e \in Docs : JobStep(e) /\ (Waiting(e)' => Waiting(e))
          /\ job'[d] = NoJob \/ job'[d].pc = "check"
        BY <1>1, <2>1, ReleaseStep
    <2>3. ~JobAt(d, "embed")' /\ ~JobAt(d, "ready")'
        BY <2>2 DEF JobAt
    <2> QED BY <1>1, <1>2, <1>3, <2>2, <2>3, JobOnly
<1> QED BY <1>4, <1>5

LEMMA FlushKeepsIInv ==
    ASSUME IInv, NEW d \in Docs, Flush(d)
    PROVE  IInv'
<1> USE Parts
<1>1. job[d] # NoJob /\ Embedding(d) /\ Release(d)
    BY DEF Flush, JobAt, Embedding
<1>2. UNCHANGED <<rows, timers, writer, disturbed, bounds>>
    BY DEF Flush
<1>3. TimerTypes' /\ BoundTypes'
    BY <1>2, BoundsStay DEF TimerTypes
<1>4. /\ QueueTypes' /\ SlotInv'
      /\ \A e \in Docs : JobStep(e) /\ (Waiting(e)' => Waiting(e))
      /\ job'[d] = NoJob \/ job'[d].pc = "check"
    BY <1>1, ReleaseStep
<1>5. ~JobAt(d, "embed")' /\ ~JobAt(d, "ready")'
    BY <1>4 DEF JobAt
<1> QED BY <1>1, <1>2, <1>3, <1>4, <1>5, JobOnly

LEMMA ListPendingKeepsIInv ==
    ASSUME IInv, NEW d \in Docs, ListPending(d)
    PROVE  IInv'
<1> USE Parts
<1>1. job[d] # NoJob /\ Embedding(d)
    BY DEF ListPending, JobAt, Embedding
<1>2. UNCHANGED <<rows, queue, timers, writer, disturbed, bounds>>
    BY DEF ListPending
<1>3. TimerTypes' /\ BoundTypes'
    BY <1>2, BoundsStay DEF TimerTypes
<1> DEFINE x == [job[d] EXCEPT !.work = Ids(Unembedded(d)),
                               !.pc = IF Unembedded(d) = {} THEN "ready" ELSE "embed"]
<1>4. job[d] \in Job
    BY <1>1 DEF QueueTypes
<1>5. Ids(Unembedded(d)) \in SUBSET Nat
    BY DEF RowTypes, Unembedded, Ids, Chunk
<1>6. /\ x \in Job /\ x.work = Ids(Unembedded(d))
      /\ x.pc = IF Unembedded(d) = {} THEN "ready" ELSE "embed"
    BY <1>4, <1>5 DEF Job
<1>7. job' = [job EXCEPT ![d] = x]
    BY <1>4 DEF ListPending, QueueTypes
<1> HIDE DEF x
<1>8. /\ QueueTypes' /\ SlotInv' /\ job'[d] = x
      /\ \A e \in Docs \ {d} : JobStep(e) /\ (Waiting(e)' => Waiting(e))
    BY <1>1, <1>2, <1>6, <1>7, JobGotoStep
<1>9. /\ JobAt(d, "embed")' => Ids(Unembedded(d)) \subseteq job'[d].work
      /\ JobAt(d, "ready")' => Unembedded(d) = {}
    BY <1>6, <1>8 DEF JobAt
<1> QED BY <1>1, <1>2, <1>3, <1>8, <1>9, JobOnly

LEMMA EmbedKeepsIInv ==
    ASSUME IInv, NEW d \in Docs, Embed(d)
    PROVE  IInv'
<1> USE Parts
<1>1. JobAt(d, "embed") /\ job[d] # NoJob /\ Embedding(d)
    BY DEF Embed, JobAt, Embedding
<1>2. UNCHANGED <<doc, nextId, used, timers, writer, disturbed, bounds>>
    BY DEF Embed
<1>3. TimerTypes' /\ BoundTypes' /\ WriterTypes'
    BY <1>2, BoundsStay DEF TimerTypes, WriterTypes
<1> DEFINE g == [c \in chunks[d] |-> [c EXCEPT !.vec = c.vec \/ c.id \in job[d].work]]
           x == [job[d] EXCEPT !.pc = "ready"]
<1>4. /\ chunks' = [chunks EXCEPT ![d] =
              {[c EXCEPT !.vec = c.vec \/ c.id \in job[d].work] : c \in chunks[d]}]
      /\ job' = [job EXCEPT ![d] = x] /\ queue' = queue
    <2>1. chunks \in [Docs -> SUBSET Chunk]
        BY DEF RowTypes
    <2>2. {[c EXCEPT !.vec = @ \/ c.id \in job[d].work] : c \in chunks[d]}
            = {[c EXCEPT !.vec = c.vec \/ c.id \in job[d].work] : c \in chunks[d]}
        OBVIOUS
    <2> QED BY <2>1, <2>2 DEF Embed, JobGoto
<1>5. /\ g \in [chunks[d] -> Chunk]
      /\ \A c \in chunks[d] : /\ g[c].id = c.id /\ g[c].piece = c.piece
                              /\ g[c].vec = (c.vec \/ c.id \in job[d].work)
    <2>1. chunks[d] \in SUBSET Chunk
        BY DEF RowTypes
    <2>2. \A c \in chunks[d] :
              /\ [c EXCEPT !.vec = c.vec \/ c.id \in job[d].work] \in Chunk
              /\ [c EXCEPT !.vec = c.vec \/ c.id \in job[d].work].id = c.id
              /\ [c EXCEPT !.vec = c.vec \/ c.id \in job[d].work].piece = c.piece
              /\ [c EXCEPT !.vec = c.vec \/ c.id \in job[d].work].vec
                    = (c.vec \/ c.id \in job[d].work)
        BY <2>1 DEF Chunk
    <2> QED BY <2>2
<1>6. {[c EXCEPT !.vec = c.vec \/ c.id \in job[d].work] : c \in chunks[d]}
          = {g[c] : c \in chunks[d]}
    OBVIOUS
<1>7. x \in Job /\ x.pc = "ready"
    BY <1>1 DEF QueueTypes, Job
<1> HIDE DEF g, x
<1>8. PutChunks(d, {g[c] : c \in chunks[d]}) /\ (Complete(d) => Complete(d)')
    <2>1. /\ chunks' = [chunks EXCEPT ![d] = {g[c] : c \in chunks[d]}]
          /\ UNCHANGED <<doc, nextId, used>>
        BY <1>2, <1>4, <1>6
    <2> QED BY <1>5, <2>1, Revectored
<1>9. /\ RowTypes' /\ Store(d) /\ chunks'[d] = {g[c] : c \in chunks[d]}
      /\ (Exists(d)' <=> Exists(d))
    BY <1>8, ChunksSet
<1>10. /\ QueueTypes' /\ SlotInv' /\ job'[d] = x
       /\ \A e \in Docs \ {d} : JobStep(e) /\ (Waiting(e)' => Waiting(e))
    BY <1>1, <1>4, <1>7, JobGotoStep
<1>11. JobMove(d)
    BY <1>1, <1>2, <1>9, <1>10 DEF JobMove
<1>12. ASSUME Intact(d), DocOK(d)
       PROVE  /\ Intact(d)'
              /\ JobAt(d, "embed")' => (Ids(Unembedded(d)) \subseteq job[d].work)'
              /\ JobAt(d, "ready")' => (Unembedded(d) = {})'
    <2>1. \A c \in chunks[d] : ~c.vec => c.id \in job[d].work
        BY <1>1, <1>12 DEF DocOK, Ids, Unembedded
    <2>2. (Unembedded(d) = {})'
        <3>1. \A c \in chunks[d] : c.vec \/ c.id \in job[d].work
            BY <2>1
        <3>2. \A c \in chunks[d] : g[c].vec
            BY <1>5, <3>1
        <3> QED BY <1>9, <3>2 DEF Unembedded
    <2>3. Complete(d)'
        BY <1>8, <1>12 DEF Intact
    <2>4. ~JobAt(d, "embed")'
        BY <1>7, <1>10 DEF JobAt
    <2> QED BY <2>2, <2>3, <2>4 DEF Intact
<1> QED BY <1>3, <1>9, <1>10, <1>11, <1>12, JobMoveKeepsIInv DEF Types

\* The catch of processItem: another timer, or the status ERROR.
LEMMA RetryKeepsIInv ==
    ASSUME IInv, NEW d \in Docs, job[d] # NoJob, Retry(d), BoundTypes',
           UNCHANGED <<chunks, nextId, used, writer, disturbed>>
    PROVE  IInv'
<1> USE Parts
<1>1. /\ QueueTypes' /\ SlotInv'
      /\ \A e \in Docs : JobStep(e) /\ (Waiting(e)' => Waiting(e))
      /\ job'[d] = NoJob \/ job'[d].pc = "check"
    BY ReleaseStep DEF Retry
<1>2. ~JobAt(d, "embed")' /\ ~JobAt(d, "ready")'
    BY <1>1 DEF JobAt
<1>3. Embedding(d)
    BY DEF Embedding
<1>4. MaxRetries \in Nat /\ job[d].retries \in 0..MaxRetries
    BY BoundAssumption DEF QueueTypes, Job
<1>5. TimerTypes' /\ \A e \in Docs \ {d} : timers'[e] = timers[e]
    <2>1. CASE job[d].retries < MaxRetries
        <3>1. timers' = [timers EXCEPT ![d] = timers[d] \cup {job[d].retries + 1}]
            BY <2>1 DEF Retry, TimerTypes
        <3>2. job[d].retries + 1 \in 1..MaxRetries
            BY <1>4, <2>1
        <3> QED BY <3>1, <3>2 DEF TimerTypes
    <2>2. CASE ~(job[d].retries < MaxRetries)
        BY <2>2 DEF Retry, TimerTypes
    <2> QED BY <2>1, <2>2
<1>6. CASE doc' = doc
    <2>1. UNCHANGED <<rows, writer, disturbed>>
        BY <1>6 DEF rows
    <2> QED BY <1>1, <1>2, <1>3, <1>5, <2>1, JobOnly
<1>7. CASE Exists(d) /\ doc' = [doc EXCEPT ![d].status = "ERROR"]
    <2> DEFINE x == [doc[d] EXCEPT !.status = "ERROR"]
    <2>1. x \in Doc /\ x.hash = doc[d].hash /\ x.status = "ERROR"
        BY <1>7 DEF RowTypes, Exists, Doc, Status
    <2>2. doc' = [doc EXCEPT ![d] = x] /\ UNCHANGED <<chunks, nextId, used>>
        BY <1>7
    <2> HIDE DEF x
    <2>3. RowTypes' /\ Store(d) /\ doc'[d] = x /\ chunks'[d] = chunks[d]
        BY <2>1, <2>2, RowSet
    <2>4. JobMove(d)
        BY <1>1, <1>3, <1>5, <1>7, <2>3 DEF JobMove
    <2>5. Intact(d) => Intact(d)'
        BY <2>1, <2>3 DEF Intact, Complete, Is
    <2>6. WriterTypes'
        BY DEF WriterTypes
    <2> QED BY <1>1, <1>2, <1>5, <2>3, <2>4, <2>5, <2>6, JobMoveKeepsIInv DEF Types
<1> QED BY <1>6, <1>7 DEF Retry

LEMMA MarkReadyKeepsIInv ==
    ASSUME IInv, NEW d \in Docs, MarkReady(d)
    PROVE  IInv'
<1> USE Parts
<1>1. JobAt(d, "ready") /\ job[d] # NoJob /\ Embedding(d)
    BY DEF MarkReady, JobAt, Embedding
<1>2. UNCHANGED <<chunks, nextId, used, writer, disturbed, bounds>>
    BY DEF MarkReady
<1>3. BoundTypes' /\ WriterTypes'
    BY <1>2, BoundsStay DEF WriterTypes
<1>4. CASE ~Exists(d)
    BY <1>1, <1>2, <1>3, <1>4, RetryKeepsIInv DEF MarkReady
<1>5. CASE Exists(d)
    <2> DEFINE x == [doc[d] EXCEPT !.status = "READY"]
               y == [job[d] EXCEPT !.pc = "flush"]
    <2>1. /\ doc' = [doc EXCEPT ![d] = x] /\ job' = [job EXCEPT ![d] = y]
          /\ queue' = queue /\ timers' = timers
        BY <1>5 DEF MarkReady, SetStatus, JobGoto
    <2>2. x \in Doc /\ x.hash = doc[d].hash
        BY <1>5 DEF RowTypes, Exists, Doc, Status
    <2>3. y \in Job /\ y.pc = "flush"
        BY <1>1 DEF QueueTypes, Job
    <2> HIDE DEF x, y
    <2>4. /\ RowTypes' /\ Store(d) /\ doc'[d] = x /\ chunks'[d] = chunks[d]
          /\ Unembedded(d)' = Unembedded(d)
        <3>1. UNCHANGED <<chunks, nextId, used>>
            BY <1>2
        <3> QED BY <2>1, <2>2, <3>1, RowSet
    <2>5. /\ QueueTypes' /\ SlotInv' /\ job'[d] = y
          /\ \A e \in Docs \ {d} : JobStep(e) /\ (Waiting(e)' => Waiting(e))
        BY <1>1, <2>1, <2>3, JobGotoStep
    <2>6. TimerTypes'
        BY <2>1 DEF TimerTypes
    <2>7. JobMove(d)
        BY <1>1, <1>2, <1>5, <2>1, <2>4, <2>5 DEF JobMove
    <2>8. ~JobAt(d, "embed")' /\ ~JobAt(d, "ready")'
        BY <2>3, <2>5 DEF JobAt
    <2>9. Intact(d) /\ DocOK(d) => Intact(d)'
        <3> SUFFICES ASSUME Intact(d), DocOK(d) PROVE Intact(d)'
            OBVIOUS
        <3>1. Complete(d)'
            BY <2>2, <2>4 DEF Intact, Complete
        <3>2. (Unembedded(d) = {})'
            BY <1>1, <2>4 DEF DocOK
        <3> QED BY <3>1, <3>2 DEF Intact
    <2> QED BY <1>3, <2>4, <2>5, <2>6, <2>7, <2>8, <2>9, JobMoveKeepsIInv DEF Types
<1> QED BY <1>4, <1>5

LEMMA JobFailsKeepsIInv ==
    ASSUME IInv, NEW d \in Docs, JobFails(d)
    PROVE  IInv'
<1>1. /\ job[d] # NoJob /\ Retry(d)
      /\ UNCHANGED <<chunks, nextId, used, writer, disturbed, uploads>>
      /\ faults < MaxFaults /\ faults' = faults + 1
    BY DEF JobFails
<1>2. BoundTypes'
    BY <1>1, Parts, BoundAssumption DEF BoundTypes
<1> QED BY <1>1, <1>2, RetryKeepsIInv

LEMMA RetryDueKeepsIInv ==
    ASSUME IInv, NEW d \in Docs, RetryDue(d)
    PROVE  IInv'
<1> USE Parts
<1>1. PICK r \in timers[d] :
          timers' = [timers EXCEPT ![d] = timers[d] \ {r}] /\ Submit([doc |-> d, retries |-> r])
    BY DEF RetryDue, TimerTypes
<1>2. UNCHANGED <<rows, writer, disturbed, bounds>>
    BY DEF RetryDue
<1>3. Embedding(d) /\ [doc |-> d, retries |-> r] \in Item
    BY BoundAssumption DEF Embedding, TimerTypes, Item
<1>4. /\ QueueTypes' /\ SlotInv'
      /\ \A e \in Docs : JobStep(e) /\ (Waiting(e)' => Waiting(e) \/ e = d)
    BY <1>1, <1>3, SubmitStep
<1>5. TimerTypes' /\ \A e \in Docs \ {d} : timers'[e] = timers[e]
    BY <1>1 DEF TimerTypes
<1>6. /\ DocOK(d) /\ JobAt(d, "embed")' => Ids(Unembedded(d)) \subseteq job'[d].work
      /\ DocOK(d) /\ JobAt(d, "ready")' => Unembedded(d) = {}
    BY <1>4 DEF JobStep, JobAt, DocOK
<1>7. BoundTypes'
    BY <1>2, BoundsStay
<1> QED BY <1>2, <1>3, <1>4, <1>5, <1>6, <1>7, JobOnly

-----------------------------------------------------------------------------
(* The invariant *)

LEMMA InitIInv == ASSUME Init PROVE IInv
<1>1. /\ doc = [d \in Docs |-> NoDoc] /\ chunks = [d \in Docs |-> {}]
      /\ nextId = 0 /\ used = {} /\ queue = <<>>
      /\ job = [d \in Docs |-> NoJob] /\ timers = [d \in Docs |-> {}]
      /\ writer = [w \in Writers |-> Idle]
      /\ disturbed = {} /\ uploads = 0 /\ faults = 0
    BY DEF Init
<1>2. \A w \in Writers : writer[w] = Idle
    BY <1>1
<1>3. \A d \in Docs : ~Exists(d)
    BY <1>1 DEF Exists
<1>4. TypeInv
    <2>1. RowTypes
        BY <1>1 DEF RowTypes
    <2>2. QueueTypes
        BY <1>1 DEF QueueTypes
    <2>3. TimerTypes
        BY <1>1 DEF TimerTypes
    <2>4. WriterTypes
        BY <1>1, <1>2, IdleIsIdle DEF WriterTypes
    <2>5. BoundTypes
        BY <1>1, BoundAssumption DEF BoundTypes
    <2> QED BY <2>1, <2>2, <2>3, <2>4, <2>5, TypeParts
<1>5. SlotInv
    <2>1. Active(job) = {}
        BY <1>1 DEF Active
    <2>2. IsFiniteSet(Active(job)) /\ Cardinality(Active(job)) = 0
        BY <2>1, FS_EmptySet
    <2>3. queue = <<>> /\ 0 <= Concurrency
        BY <1>1, BoundAssumption
    <2> QED BY <2>2, <2>3 DEF SlotInv, SlotsUsed
<1>6. ChunkInv
    <2>1. Apart({})
        BY FS_EmptySet DEF Apart
    <2> QED BY <1>1, <1>2, <2>1, IdleIsIdle DEF ChunkInv
<1>7. FreshInv
    <2>1. \A d \in Docs : ~Embedding(d)
        BY <1>1 DEF Embedding, Queued
    <2>2. \A w \in Writers : At(w, "idle") /\ ~At(w, "create") /\ \A d \in Docs : ~Writes(w, d)
        BY <1>2, IdleIsIdle DEF At, Writes
    <2> QED BY <1>3, <2>1, <2>2 DEF FreshInv
<1>8. DocInv
    BY <1>3 DEF DocInv
<1> QED BY <1>4, <1>5, <1>6, <1>7, <1>8 DEF IInv

LEMMA StutterKeepsIInv == ASSUME IInv, UNCHANGED vars PROVE IInv'
<1>1. /\ doc' = doc /\ chunks' = chunks /\ nextId' = nextId /\ used' = used
      /\ queue' = queue /\ job' = job /\ timers' = timers /\ writer' = writer
      /\ disturbed' = disturbed /\ uploads' = uploads /\ faults' = faults
    BY DEF vars
<1>2. TypeInv'
    BY <1>1 DEF IInv, TypeInv, TypeOK
<1>3. SlotInv'
    BY <1>1 DEF IInv, SlotInv, SlotsUsed, Active
<1>4. ChunkInv'
    BY <1>1 DEF IInv, ChunkInv, Apart, Exists
<1>5. FreshInv'
    BY <1>1 DEF IInv, FreshInv, Exists, Embedding, Queued, Writes, At, Alone
<1>6. \A d \in Docs : DocOK(d)' <=> DocOK(d)
    BY <1>1 DEF DocOK, Writes, At, Alone, Embedding, Queued, PhaseOK, Intact, Complete, Is,
                Exists, Unembedded, JobAt
<1>7. DocInv'
    BY <1>1, <1>6 DEF IInv, DocInv, Exists
<1> QED BY <1>2, <1>3, <1>4, <1>5, <1>7 DEF IInv

LEMMA WriteKeepsIInv ==
    ASSUME IInv, NEW w \in Writers, Write(w) PROVE IInv'
<1>1. CASE ClearVectors(w)
    BY <1>1, ClearVectorsKeepsIInv, LastClearKeepsIInv
<1>2. CASE Create(w) \/ BuildChunks(w) \/ EnqueueIngest(w)
    BY <1>2, CreateKeepsIInv, BuildChunksKeepsIInv, EnqueueIngestKeepsIInv
<1>3. CASE ReadOldChunks(w) \/ Rehash(w) \/ Prune(w) \/ Insert(w) \/ Settle(w)
    BY <1>3, ReadOldChunksKeepsIInv, RehashKeepsIInv, PruneKeepsIInv, InsertKeepsIInv,
       SettleKeepsIInv
<1>4. CASE Wipe(w) \/ Claim(w) \/ MarkDirty(w) \/ RequeueNext(w)
    BY <1>4, WipeKeepsIInv, ClaimKeepsIInv, MarkDirtyKeepsIInv, RequeueNextKeepsIInv
<1> QED BY <1>1, <1>2, <1>3, <1>4 DEF Write

LEMMA ProcessKeepsIInv ==
    ASSUME IInv, NEW d \in Docs, Process(d) PROVE IInv'
BY CheckStatusKeepsIInv, ListPendingKeepsIInv, EmbedKeepsIInv, MarkReadyKeepsIInv,
   FlushKeepsIInv DEF Process

LEMMA NextIInv == ASSUME IInv, [Next]_vars PROVE IInv'
<1>1. CASE \E w \in Writers, d \in Docs :
              Delete(w, d) \/ \E f \in Files : Ingest(w, d, f) \/ Reingest(w, d, f)
    BY <1>1, DeleteKeepsIInv, IngestKeepsIInv, ReingestKeepsIInv
<1>2. CASE \E w \in Writers : StartReindex(w) \/ Write(w) \/ WriterFails(w)
    BY <1>2, StartReindexKeepsIInv, WriteKeepsIInv, WriterFailsKeepsIInv
<1>3. CASE \E d \in Docs : Process(d) \/ RetryDue(d) \/ JobFails(d)
    BY <1>3, ProcessKeepsIInv, RetryDueKeepsIInv, JobFailsKeepsIInv
<1>4. CASE Restart
    BY <1>4, RestartKeepsIInv
<1>5. CASE UNCHANGED vars
    BY <1>5, StutterKeepsIInv
<1> QED BY <1>1, <1>2, <1>3, <1>4, <1>5 DEF Next

LEMMA Invariance == Spec => []IInv
<1>1. Init => IInv
    BY InitIInv
<1>2. IInv /\ [Next]_vars => IInv'
    BY NextIInv
<1> QED BY <1>1, <1>2, PTL DEF Spec

\* Every reachable state has the declared types: retries stay below their
\* limit, nothing but items and jobs is in the embedding queue of
\* rag/queue.ts, and no request of rag/ingest.ts stores a chunk without an id,
\* whatever interleaves.
THEOREM TypeCorrect == Spec => []TypeOK
<1>1. IInv => TypeOK
    BY DEF IInv, TypeInv
<1> QED BY <1>1, Invariance, PTL

\* However many documents there are, tick and the finally of processItem
\* embed no more of them at once than RAG_EMBED_CONCURRENCY, and leave no slot
\* idle while an item waits: whichever item is dropped because its key is
\* active, another that can run is found behind it.
THEOREM SlotsAreUsed == Spec => []SlotsUsed
<1>1. IInv => SlotsUsed
    BY DEF IInv, SlotInv
<1> QED BY <1>1, Invariance, PTL

\* A READY document that no request writes and nothing disturbed has exactly
\* the chunks of the bytes its contentHash names, each with its vector, after
\* any number of uploads, diffs, reindexes, failed calls and retries.
THEOREM ReadyDocumentsAreSearchable == Spec => []ReadyIsSearchable
<1>1. ASSUME IInv PROVE ReadyIsSearchable
    <2> SUFFICES ASSUME NEW d \in Docs, Is(d, "READY"), d \notin disturbed,
                        \A w \in Writers : ~Writes(w, d)
                 PROVE  Complete(d) /\ Unembedded(d) = {}
        BY DEF ReadyIsSearchable
    <2>1. Exists(d)
        BY DEF Is
    <2>2. \A w \in Writers : writer[w].doc # d
        BY <1>1, NobodyHasNull DEF IInv
    <2>3. Intact(d)
        BY <1>1, <2>1, <2>2 DEF IInv, DocInv, DocOK
    <2> QED BY <2>3 DEF Intact
<1> QED BY <1>1, Invariance, PTL

=============================================================================
