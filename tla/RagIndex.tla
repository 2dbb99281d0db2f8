------------------------------ MODULE RagIndex ------------------------------
(***************************************************************************)
(* The document index of the knowledge base: modules/rag/{ingest,queue}.ts *)
(* over the pgvector accessors.  Writers (API requests) store a file as    *)
(* chunks, diff a new file against the old chunks, or clear the vectors of *)
(* the corpus; the embedding queue, which lives in the process, fills in   *)
(* the vectors and marks the document READY.  No writer opens a            *)
(* transaction or takes a lock, so each database call is a step of its own.*)
(***************************************************************************)
EXTENDS Integers, Sequences, FiniteSets, FiniteSetsExt

CONSTANTS
    Docs,         \* document ids
    Files,        \* uploaded bytes, which their contentHash stands for
    Pieces,       \* chunk texts, which their chunkHash stands for
    Content,      \* Content[f]: the chunk texts of f in order; <<>>: no text
    Writers,      \* API requests that may overlap
    Concurrency,  \* RAG_EMBED_CONCURRENCY
    MaxRetries,   \* MAX_RETRIES
    MaxUploads,   \* bound: uploads, deletions and reindex requests
    MaxFaults,    \* bound: failed calls and restarts of the process
    Null, NoDoc, NoJob

Status == {"PROCESSING", "READY", "ERROR"}

Doc == [status : Status, hash : Files]
Chunk == [id : Nat, piece : Pieces, vec : BOOLEAN]
Job == [pc : {"check", "list", "embed", "ready", "flush"}, retries : 0..MaxRetries,
        work : SUBSET Nat]
Item == [doc : Docs, retries : 0..MaxRetries]

Incremental == {"old", "rehash", "prune", "insert", "settle"}
Full == {"wipe", "claim"}
Writing == Incremental \cup Full \cup {"create", "chunks", "enqueue"}
Reindexing == {"clear", "dirty", "requeue"}

Writer == [pc : Writing \cup Reindexing \cup {"idle", "next"},
           doc : Docs \cup {Null}, file : Files \cup {Null},
           old : SUBSET Chunk,     \* the chunks the diff was made against
           todo : SUBSET Docs]     \* reindex: documents still to be cleared

Idle == [pc |-> "idle", doc |-> Null, file |-> Null, old |-> {}, todo |-> {}]

ASSUME ContentAssumption == Content \in [Files -> Seq(Pieces)]

ASSUME BoundAssumption ==
    /\ {MaxRetries, MaxUploads, MaxFaults} \subseteq Nat
    /\ Concurrency \in Nat \ {0}

ASSUME NullAssumption ==
    /\ NoDoc \notin Doc /\ NoJob \notin Job
    /\ Null \notin Docs \cup Files

VARIABLES
    doc,        \* RagDocument rows
    chunks,     \* chunks[d]: RagChunk rows of d
    nextId,     \* ids of chunks are never used twice
    used,       \* document ids that were given out
    queue,      \* items that wait for a free slot
    job,        \* job[d]: the run of processItem that holds d's key in `active`
    timers,     \* timers[d]: retries that wait for their setTimeout
    writer,
    disturbed,  \* history: documents a writer shared with another actor, a
                \* restart, or a failure that left their chunks incomplete
    uploads, faults

vars == <<doc, chunks, nextId, used, queue, job, timers, writer, disturbed,
          uploads, faults>>

rows == <<doc, chunks, nextId, used>>
embedder == <<queue, job, timers>>
bounds == <<uploads, faults>>

TypeOK ==
    /\ doc \in [Docs -> Doc \cup {NoDoc}]
    /\ \A d \in Docs : chunks[d] \subseteq Chunk
    /\ nextId \in Nat
    /\ used \subseteq Docs
    /\ queue \in Seq(Item)
    /\ job \in [Docs -> Job \cup {NoJob}]
    /\ timers \in [Docs -> SUBSET (1..MaxRetries)]
    /\ \A w \in Writers : writer[w] \in Writer
    /\ disturbed \subseteq Docs
    /\ uploads \in 0..MaxUploads
    /\ faults \in 0..MaxFaults

-----------------------------------------------------------------------------
(* Helpers *)

Exists(d) == doc[d] # NoDoc
Is(d, status) == Exists(d) /\ doc[d].status = status

\* The unique index on contentHash, over all documents.
Taken(f, d) == \E e \in Docs \ {d} : Exists(e) /\ doc[e].hash = f

Count(f, p) == Cardinality({i \in DOMAIN Content[f] : Content[f][i] = p})
With(S, p) == {c \in S : c.piece = p}

\* The old chunks a new file reuses: of each text as many as it has, in order.
Kept(old, f) ==
    {c \in old : Cardinality({k \in With(old, c.piece) : k.id < c.id})
                     < Count(f, c.piece)}

InsertedAll(old, f) ==
    {[id |-> nextId + i, piece |-> Content[f][i], vec |-> FALSE] :
        i \in DOMAIN Content[f]}

\* The chunks it adds: the occurrences of a text beyond those it reuses.
Inserted(old, f) ==
    {[id |-> nextId + i, piece |-> Content[f][i], vec |-> FALSE] :
        i \in {i \in DOMAIN Content[f] :
                 Cardinality({j \in 1..(i - 1) : Content[f][j] = Content[f][i]})
                     >= Cardinality(With(old, Content[f][i]))}}

Ids(S) == {c.id : c \in S}
Unembedded(d) == {c \in chunks[d] : ~c.vec}

Active(jobs) == {d \in Docs : jobs[d] # NoJob}
Begin(jobs, item) ==
    [jobs EXCEPT ![item.doc] = [pc |-> "check", retries |-> item.retries, work |-> {}]]

\* push, then tick: with a slot free the item starts at once, and is dropped if
\* its key is active.
Submit(item) ==
    IF Cardinality(Active(job)) >= Concurrency
    THEN queue' = Append(queue, item) /\ UNCHANGED job
    ELSE /\ job' = IF job[item.doc] = NoJob THEN Begin(job, item) ELSE job
         /\ UNCHANGED queue

\* enqueueIngest.
Enqueue(d) ==
    IF job[d] # NoJob \/ \E i \in DOMAIN queue : queue[i].doc = d
    THEN UNCHANGED <<queue, job>>
    ELSE Submit([doc |-> d, retries |-> 0])

ReleaseIdle(d) == job' = [job EXCEPT ![d] = NoJob] /\ UNCHANGED queue

\* The finally of processItem, and the tick that takes the next item.
Release(d) ==
    LET free == [job EXCEPT ![d] = NoJob]
        ready == {i \in DOMAIN queue : free[queue[i].doc] = NoJob}
    IN  IF ready = {} THEN queue' = <<>> /\ job' = free
        ELSE /\ queue' = SubSeq(queue, Min(ready) + 1, Len(queue))
             /\ job' = Begin(free, queue[Min(ready)])

At(w, pc) == writer[w].pc = pc
Goto(w, pc) == writer' = [writer EXCEPT ![w].pc = pc]
Return(w) == writer' = [writer EXCEPT ![w] = Idle]
JobAt(d, pc) == job[d] # NoJob /\ job[d].pc = pc
JobGoto(d, pc) == job' = [job EXCEPT ![d].pc = pc] /\ UNCHANGED queue

Writes(w, d) == (writer[w].doc = d \/ d \in writer[w].todo) /\ ~At(w, "idle")

\* d is being written by w while somebody else is at work on it as well.
Shared(w, d) ==
    \/ job[d] # NoJob \/ timers[d] # {} \/ \E i \in DOMAIN queue : queue[i].doc = d
    \/ \E v \in Writers \ {w} : Writes(v, d)

SetStatus(d, status) == doc' = [doc EXCEPT ![d].status = status]

Init ==
    /\ doc = [d \in Docs |-> NoDoc]
    /\ chunks = [d \in Docs |-> {}]
    /\ nextId = 0
    /\ used = {}
    /\ queue = <<>>
    /\ job = [d \in Docs |-> NoJob]
    /\ timers = [d \in Docs |-> {}]
    /\ writer = [w \in Writers |-> Idle]
    /\ disturbed = {}
    /\ uploads = 0
    /\ faults = 0

-----------------------------------------------------------------------------
(* Requests *)

Request(w) == At(w, "idle") /\ uploads < MaxUploads /\ uploads' = uploads + 1

\* ingestDocument: a file the tenant has is answered with the document it is.
Ingest(w, d, f) ==
    /\ Request(w)
    /\ d \notin used
    /\ ~Taken(f, d)
    /\ used' = used \cup {d}
    /\ writer' = [writer EXCEPT ![w] = [Idle EXCEPT !.pc = "create", !.doc = d,
                                                    !.file = f]]
    /\ UNCHANGED <<doc, chunks, nextId, embedder, disturbed, faults>>

\* reingestDocument up to the mode; the bytes it has already are a no-op.
Reingest(w, d, f) ==
    /\ Request(w)
    /\ Exists(d)
    /\ doc[d].hash # f
    /\ \E pc \in {"old", "wipe"} :
         writer' = [writer EXCEPT ![w] = [Idle EXCEPT !.pc = pc, !.doc = d, !.file = f]]
    /\ disturbed' = IF Shared(w, d) THEN disturbed \cup {d} ELSE disturbed
    /\ UNCHANGED <<rows, embedder, faults>>

\* deleteDocument; the chunks go with the row.
Delete(w, d) ==
    /\ Request(w)
    /\ Exists(d)
    /\ doc' = [doc EXCEPT ![d] = NoDoc]
    /\ chunks' = [chunks EXCEPT ![d] = {}]
    /\ UNCHANGED <<nextId, used, embedder, writer, disturbed, faults>>

\* reindexTenant reads the statuses; PROCESSING documents are left out.
StartReindex(w) ==
    LET todo == {d \in Docs : Exists(d) /\ ~Is(d, "PROCESSING")}
    IN  /\ Request(w)
        /\ writer' = [writer EXCEPT ![w] = [Idle EXCEPT !.pc = "next", !.todo = todo]]
        /\ disturbed' = disturbed \cup {d \in todo : Shared(w, d)}
        /\ UNCHANGED <<rows, embedder, faults>>

-----------------------------------------------------------------------------
(* Storing a file *)

\* The create; a file another document has breaks the unique index.
Create(w) ==
    LET d == writer[w].doc
        f == writer[w].file
    IN  /\ At(w, "create")
        /\ IF Taken(f, d) THEN Return(w) /\ UNCHANGED doc
           ELSE /\ doc' = [doc EXCEPT ![d] = [status |-> "PROCESSING", hash |-> f]]
                /\ Goto(w, "chunks")
        /\ UNCHANGED <<chunks, nextId, used, embedder, disturbed, bounds>>

\* buildChunks; a file without text, or a document deleted meanwhile, fails.
BuildChunks(w) ==
    LET d == writer[w].doc
        f == writer[w].file
    IN  /\ At(w, "chunks")
        /\ IF ~Exists(d) THEN Return(w) /\ UNCHANGED rows
           ELSE IF Content[f] = <<>>
           THEN /\ SetStatus(d, "ERROR")
                /\ Return(w)
                /\ UNCHANGED <<chunks, nextId, used>>
           ELSE /\ chunks' = [chunks EXCEPT ![d] = @ \cup Inserted({}, f)]
                /\ nextId' = nextId + Len(Content[f]) + 1
                /\ Goto(w, "enqueue")
                /\ UNCHANGED <<doc, used>>
        /\ UNCHANGED <<embedder, disturbed, bounds>>

\* The last call of each of them, after recordUsage and the invalidations.
EnqueueIngest(w) ==
    /\ At(w, "enqueue")
    /\ Enqueue(writer[w].doc)
    /\ Return(w)
    /\ UNCHANGED <<rows, timers, disturbed, bounds>>

-----------------------------------------------------------------------------
(* incrementalReingest; an error that is not an AppError goes on with the full *)

\* findChunksForReingest, after the file was parsed; no text is an AppError.
ReadOldChunks(w) ==
    LET d == writer[w].doc
    IN  /\ At(w, "old")
        /\ IF Content[writer[w].file] = <<>> THEN Return(w)
           ELSE writer' = [writer EXCEPT ![w].pc = "rehash", ![w].old = chunks[d]]
        /\ UNCHANGED <<rows, embedder, disturbed, bounds>>

\* Status, contentHash and version, before any chunk is touched.
Rehash(w) ==
    LET d == writer[w].doc
        f == writer[w].file
    IN  /\ At(w, "rehash")
        /\ IF ~Exists(d) \/ Taken(f, d) THEN Goto(w, "wipe") /\ UNCHANGED doc
           ELSE /\ doc' = [doc EXCEPT ![d] = [status |-> "PROCESSING", hash |-> f]]
                /\ Goto(w, "prune")
        /\ UNCHANGED <<chunks, nextId, used, embedder, disturbed, bounds>>

\* The reused chunks get their new index, the others are deleted.
Prune(w) ==
    LET d == writer[w].doc
        kept == Kept(writer[w].old, writer[w].file)
    IN  /\ At(w, "prune")
        /\ IF Ids(kept) \subseteq Ids(chunks[d])
           THEN /\ chunks' = [chunks EXCEPT ![d] =
                       {c \in @ : c.id \notin Ids(writer[w].old \ kept)}]
                /\ Goto(w, "insert")
           ELSE Goto(w, "wipe") /\ UNCHANGED chunks
        /\ UNCHANGED <<doc, nextId, used, embedder, disturbed, bounds>>

Insert(w) ==
    LET d == writer[w].doc
        f == writer[w].file
    IN  /\ At(w, "insert")
        /\ IF ~Exists(d) /\ Inserted(writer[w].old, f) # {}
           THEN Goto(w, "wipe") /\ UNCHANGED <<chunks, nextId>>
           ELSE /\ chunks' = [chunks EXCEPT ![d] =
                       IF Exists(d) THEN @ \cup Inserted(writer[w].old, f) ELSE @]
                /\ nextId' = nextId + Len(Content[f]) + 1
                /\ Goto(w, "settle")
        /\ UNCHANGED <<doc, used, embedder, disturbed, bounds>>

\* Queued if a vector is missing, going by the chunks it read, else READY.
Settle(w) ==
    LET d == writer[w].doc
        f == writer[w].file
        requeue == \/ Inserted(writer[w].old, f) # {}
                   \/ \E c \in Kept(writer[w].old, f) : ~c.vec
    IN  /\ At(w, "settle")
        /\ IF ~Exists(d) THEN Goto(w, "wipe") /\ UNCHANGED doc
           ELSE IF requeue THEN Goto(w, "enqueue") /\ UNCHANGED doc
           ELSE SetStatus(d, "READY") /\ Return(w)
        /\ UNCHANGED <<chunks, nextId, used, embedder, disturbed, bounds>>

-----------------------------------------------------------------------------
(* fullReingest *)

Wipe(w) ==
    /\ At(w, "wipe")
    /\ chunks' = [chunks EXCEPT ![writer[w].doc] = {}]
    /\ Goto(w, "claim")
    /\ UNCHANGED <<doc, nextId, used, embedder, disturbed, bounds>>

\* The update that stands outside the try: if it fails the chunks are gone.
Claim(w) ==
    LET d == writer[w].doc
        f == writer[w].file
    IN  /\ At(w, "claim")
        /\ IF ~Exists(d) \/ Taken(f, d)
           THEN /\ Return(w)
                /\ disturbed' = disturbed \cup {d}
                /\ UNCHANGED doc
           ELSE /\ doc' = [doc EXCEPT ![d] = [status |-> "PROCESSING", hash |-> f]]
                /\ Goto(w, "chunks")
                /\ UNCHANGED disturbed
        /\ UNCHANGED <<chunks, nextId, used, embedder, bounds>>

-----------------------------------------------------------------------------
(* reindexTenant, document by document *)

ClearVectors(w) ==
    /\ At(w, "next")
    /\ IF writer[w].todo = {} THEN Return(w) /\ UNCHANGED chunks
       ELSE \E d \in writer[w].todo :
              /\ chunks' = [chunks EXCEPT ![d] = {[c EXCEPT !.vec = FALSE] : c \in @}]
              /\ writer' = [writer EXCEPT ![w].pc = "dirty", ![w].doc = d,
                                          ![w].todo = @ \ {d}]
    /\ UNCHANGED <<doc, nextId, used, embedder, disturbed, bounds>>

\* A document deleted meanwhile makes the update, and the request, fail.
MarkDirty(w) ==
    LET d == writer[w].doc
    IN  /\ At(w, "dirty")
        /\ IF Exists(d) THEN SetStatus(d, "PROCESSING") /\ Goto(w, "requeue")
           ELSE Return(w) /\ UNCHANGED doc
        /\ UNCHANGED <<chunks, nextId, used, embedder, disturbed, bounds>>

RequeueNext(w) ==
    /\ At(w, "requeue")
    /\ Enqueue(writer[w].doc)
    /\ writer' = [writer EXCEPT ![w].pc = "next", ![w].doc = Null]
    /\ UNCHANGED <<rows, timers, disturbed, bounds>>

-----------------------------------------------------------------------------
(* processItem *)

\* Gone, or no longer PROCESSING: nothing to do.
CheckStatus(d) ==
    /\ JobAt(d, "check")
    /\ IF Is(d, "PROCESSING") THEN JobGoto(d, "list") ELSE Release(d)
    /\ UNCHANGED <<rows, timers, writer, disturbed, bounds>>

\* findChunksNeedingEmbedding.
ListPending(d) ==
    /\ JobAt(d, "list")
    /\ job' = [job EXCEPT ![d].work = Ids(Unembedded(d)),
                          ![d].pc = IF Unembedded(d) = {} THEN "ready" ELSE "embed"]
    /\ UNCHANGED <<rows, queue, timers, writer, disturbed, bounds>>

\* embed and setEmbedding, batch by batch, for the chunks it listed.
Embed(d) ==
    /\ JobAt(d, "embed")
    /\ chunks' = [chunks EXCEPT ![d] =
           {[c EXCEPT !.vec = @ \/ c.id \in job[d].work] : c \in @}]
    /\ JobGoto(d, "ready")
    /\ UNCHANGED <<doc, nextId, used, timers, writer, disturbed, bounds>>

RetryUncounted(d) ==
    /\ timers' = [timers EXCEPT ![d] = @ \cup {job[d].retries + 1}]
    /\ UNCHANGED doc
    /\ Release(d)

RetryForever(d) ==
    /\ IF job[d].retries < MaxRetries
       THEN timers' = [timers EXCEPT ![d] = @ \cup {job[d].retries + 1}]
       ELSE UNCHANGED timers
    /\ UNCHANGED doc
    /\ Release(d)

\* The catch: three more attempts, then ERROR.
Retry(d) ==
    /\ IF job[d].retries < MaxRetries
       THEN /\ timers' = [timers EXCEPT ![d] = @ \cup {job[d].retries + 1}]
            /\ UNCHANGED doc
       ELSE /\ doc' = IF Exists(d) THEN [doc EXCEPT ![d].status = "ERROR"] ELSE doc
            /\ UNCHANGED timers
    /\ Release(d)

\* READY, whatever the status is by now; a deleted row makes it throw.
MarkReady(d) ==
    /\ JobAt(d, "ready")
    /\ IF Exists(d) THEN /\ SetStatus(d, "READY")
                         /\ JobGoto(d, "flush")
                         /\ UNCHANGED timers
       ELSE Retry(d)
    /\ UNCHANGED <<chunks, nextId, used, writer, disturbed, bounds>>

\* invalidateRetrievalCaches (AnswerCache), while the key is still active.
Flush(d) ==
    /\ JobAt(d, "flush")
    /\ Release(d)
    /\ UNCHANGED <<rows, timers, writer, disturbed, bounds>>

\* The setTimeout of a retry runs out.
RetryDue(d) ==
    /\ \E r \in timers[d] :
         /\ timers' = [timers EXCEPT ![d] = @ \ {r}]
         /\ Submit([doc |-> d, retries |-> r])
    /\ UNCHANGED <<rows, writer, disturbed, bounds>>

-----------------------------------------------------------------------------
(* Faults *)

\* A call of processItem throws: the provider, the database or the cache.
JobFails(d) ==
    /\ faults < MaxFaults
    /\ faults' = faults + 1
    /\ job[d] # NoJob
    /\ Retry(d)
    /\ UNCHANGED <<chunks, nextId, used, writer, disturbed, uploads>>

\* A call of a writer throws: the incremental way falls back on the full one,
\* and the catch around the full one's last part marks the document ERROR.
WriterFails(w) ==
    LET d == writer[w].doc
    IN  /\ faults < MaxFaults
        /\ faults' = faults + 1
        /\ \/ /\ writer[w].pc \in Incremental
              /\ Goto(w, "wipe")
              /\ UNCHANGED <<doc, disturbed>>
           \/ /\ writer[w].pc \in {"chunks", "enqueue"}
              /\ doc' = IF Exists(d) THEN [doc EXCEPT ![d].status = "ERROR"] ELSE doc
              /\ disturbed' = disturbed \cup {d}
              /\ Return(w)
           \/ /\ writer[w].pc \in Full \cup {"create"} \cup Reindexing
              /\ disturbed' = disturbed \cup {d}
              /\ Return(w)
              /\ UNCHANGED doc
        /\ UNCHANGED <<chunks, nextId, used, embedder, uploads>>

\* The process restarts: queue, timers and requests are gone.
Restart ==
    /\ faults < MaxFaults
    /\ faults' = faults + 1
    /\ queue' = <<>>
    /\ job' = [d \in Docs |-> NoJob]
    /\ timers' = [d \in Docs |-> {}]
    /\ writer' = [w \in Writers |-> Idle]
    /\ disturbed' = {d \in Docs : Is(d, "PROCESSING") \/ \E w \in Writers : Writes(w, d)}
                        \cup disturbed
    /\ UNCHANGED <<rows, uploads>>

-----------------------------------------------------------------------------
Write(w) ==
    \/ Create(w) \/ BuildChunks(w) \/ EnqueueIngest(w)
    \/ ReadOldChunks(w) \/ Rehash(w) \/ Prune(w) \/ Insert(w) \/ Settle(w)
    \/ Wipe(w) \/ Claim(w)
    \/ ClearVectors(w) \/ MarkDirty(w) \/ RequeueNext(w)

Process(d) ==
    CheckStatus(d) \/ ListPending(d) \/ Embed(d) \/ MarkReady(d) \/ Flush(d)

Next ==
    \/ \E w \in Writers, d \in Docs :
         Delete(w, d) \/ \E f \in Files : Ingest(w, d, f) \/ Reingest(w, d, f)
    \/ \E w \in Writers : StartReindex(w) \/ Write(w) \/ WriterFails(w)
    \/ \E d \in Docs : Process(d) \/ RetryDue(d) \/ JobFails(d)
    \/ Restart

Spec == Init /\ [][Next]_vars

\* Requests that were started and jobs that were submitted run on, and a timer
\* that was set goes off.  Nobody has to send a request.
FairSpec ==
    /\ Spec
    /\ \A w \in Writers : WF_vars(Write(w))
    /\ \A d \in Docs : WF_vars(Process(d)) /\ WF_vars(RetryDue(d))

-----------------------------------------------------------------------------
(* Properties *)

Complete(d) ==
    \A p \in Pieces : Cardinality(With(chunks[d], p)) = Count(doc[d].hash, p)

\* A document that is READY can be searched in full: its chunks are those of
\* the bytes its hash names, however often it was diffed, and each has its
\* vector.  What breaks this is a writer that meets another actor on the
\* document, a restart, or a failed write of the chunks.
ReadyIsSearchable ==
    \A d \in Docs :
        /\ Is(d, "READY")
        /\ d \notin disturbed
        /\ \A w \in Writers : ~Writes(w, d)
        => Complete(d) /\ Unembedded(d) = {}

\* No more documents are embedded at once than there are slots, and no slot is
\* idle while an item waits: every way out of processItem takes the next one.
SlotsUsed ==
    /\ Cardinality(Active(job)) <= Concurrency
    /\ queue # <<>> => Cardinality(Active(job)) = Concurrency

\* A document that is PROCESSING becomes READY or ERROR, or is deleted, unless
\* it was disturbed: retries are counted, and every retry is taken.
EveryDocumentSettles ==
    \A d \in Docs :
        Is(d, "PROCESSING") ~> (~Is(d, "PROCESSING") \/ d \in disturbed)

\* What the knowledge page counts as searchable, a READY document nobody is
\* writing, has text to be found by.
SearchableHasText ==
    \A d \in Docs :
        Is(d, "READY") /\ (\A w \in Writers : ~Writes(w, d)) => chunks[d] # {}
=============================================================================
