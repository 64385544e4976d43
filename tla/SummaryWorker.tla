--------------------------- MODULE SummaryWorker ----------------------------
(***************************************************************************)
(* Asynchronous summaries, from the pipeline stage that queues them to the *)
(* goroutine that stores them.                                             *)
(*                                                                         *)
(*   auto_compact_async (stage_03_compaction_processors.go) adds one entry *)
(*     per large chunk to a Redis stream while a request is refined;       *)
(*   the consumer group (redis_repository.go) hands every entry out once;  *)
(*   the worker (summary_worker.go), one goroutine per process, takes a    *)
(*     batch, summarises each job, stores the artifact under every page    *)
(*     key of the job, and acknowledges.                                   *)
(*                                                                         *)
(* Redis itself (the stream, the group's cursor and its pending list) is   *)
(* modelled by what the calls of redis_repository.go do to it.  Every call *)
(* may fail, with its effect applied (the reply was lost) or not.          *)
(***************************************************************************)
EXTENDS Lists

CONSTANTS
  Worker,        \* the processes of the deployment, each with one worker
  Request,       \* refine requests
  Chunk,         \* RAG chunks: [doc, pages, same, text]
  BatchSize,     \* batchSize of the worker
  MaxJobs,       \* bound: entries of the stream
  MaxStarts,     \* bound: starts of one process
  Faults         \* TRUE when Redis calls may fail and processes may crash

ASSUME BatchAssumption == BatchSize \in Nat \ {0}
ASSUME MaxJobsAssumption == MaxJobs \in Nat
ASSUME MaxStartsAssumption == MaxStarts \in Nat
ASSUME FaultsAssumption == Faults \in BOOLEAN
\* doc: the chunk as it was when it was paged; pages: how many pages paging cut
\* it into (0: it was not paged); same: its canonical text is still that of the
\* whole, which paging into two or more pages rules out (the first page is all
\* that stays in the chunk); text: the summary component finds something to say
\* about it.
ASSUME ChunkAssumption ==
  \A c \in Chunk : c.pages \in Nat /\ c.same \in BOOLEAN /\ c.text \in BOOLEAN
ASSUME OnePageAssumption == \A c \in Chunk : c.same => c.pages <= 1

----------------------------------------------------------------------------
(* Jobs *)

\* Content hashes are told apart by what they are taken of.
WholeHash(c) == [doc |-> c.doc, whole |-> TRUE]

\* Paging leaves only the first page in the chunk and canonicalize rewrites what
\* is there (markup, boilerplate lines): the hash of the job is taken of what
\* the chunk holds when auto_compact_async runs.
CurrentHash(c) == [doc |-> c.doc, whole |-> c.same]

\* The page keys carry the hash of the whole chunk.
PageRefs(c) == [i \in 1..c.pages |-> [hash |-> WholeHash(c), page |-> i]]

JobOf(r, c) ==
  [request |-> r, hash |-> CurrentHash(c), refs |-> PageRefs(c), text |-> c.text]

Job == {JobOf(r, c) : r \in Request, c \in Chunk}

\* SaveSummary refuses an artifact whose hash is not the one in the page key.
Accepts(key, job) == key.hash = job.hash

----------------------------------------------------------------------------
VARIABLES
  status,        \* status[r]: how far request r is
  queued,        \* queued[r]: the job IDs (hashes) r reports as pending
  stream,        \* the entries of the Redis stream; an ID is a position
  group,         \* whether the consumer group exists
  delivered,     \* last-delivered-id of the group
  pending,       \* the group's pending entries list
  pc,            \* pc[w]: where the goroutine of process w is
  cur, last,     \* the rest of its batch: the entries cur[w]..last[w]
  saved,         \* saved[w]: page refs of entry cur[w] already stored
  starts,        \* starts[w]: how often process w was started (bound)
  written        \* history: <<entry, page key>> for every summary stored

requestVars == <<status, queued>>
groupVars   == <<group, delivered, pending>>
workerVars  == <<pc, cur, last, saved, starts>>
vars == <<requestVars, stream, groupVars, workerVars, written>>

Busy == {"summarize", "save"}
Live == Busy \cup {"ensure", "poll"}

Entries == DOMAIN stream
Batch(w) == cur[w]..last[w]
Acked == 1..delivered \ pending
\* Entries delivered to a worker that no longer holds them.
Orphans == pending \ UNION {Batch(w) : w \in Worker}

Init ==
  /\ status = [r \in Request |-> "running"]
  /\ queued = [r \in Request |-> << >>]
  /\ stream = << >>
  /\ group = FALSE
  /\ delivered = 0
  /\ pending = {}
  /\ pc = [w \in Worker |-> "ensure"]
  /\ cur = [w \in Worker |-> 1]
  /\ last = [w \in Worker |-> 0]
  /\ saved = [w \in Worker |-> 0]
  /\ starts = [w \in Worker |-> 1]
  /\ written = {}

----------------------------------------------------------------------------
(* The request: AutoCompactAsyncProcessor.Process *)

\* Mutation of Enqueue: the chunk is reported where the job belongs.
EnqueueChunkId(r, c) ==
  /\ status[r] = "running"
  /\ Len(stream) < MaxJobs
  /\ stream' = Append(stream, JobOf(r, c))
  /\ queued' = [queued EXCEPT ![r] = Append(@, c.doc)]
  /\ UNCHANGED <<status, groupVars, workerVars, written>>

\* Mutation of Enqueue: a job that somebody queued already is not queued again.
EnqueueOnce(r, c) ==
  /\ status[r] = "running"
  /\ Len(stream) < MaxJobs
  /\ stream' = IF \E e \in Entries : stream[e].hash = JobOf(r, c).hash
               THEN stream ELSE Append(stream, JobOf(r, c))
  /\ queued' = [queued EXCEPT ![r] = Append(@, JobOf(r, c).hash)]
  /\ UNCHANGED <<status, groupVars, workerVars, written>>

\* The next chunk worth a summary is queued.
Enqueue(r, c) ==
  /\ status[r] = "running"
  /\ Len(stream) < MaxJobs
  /\ stream' = Append(stream, JobOf(r, c))
  /\ queued' = [queued EXCEPT ![r] = Append(@, JobOf(r, c).hash)]
  /\ UNCHANGED <<status, groupVars, workerVars, written>>

\* XADD fails and the request with it; the entries queued before stay.
EnqueueFails(r, c) ==
  /\ Faults
  /\ status[r] = "running"
  /\ Len(stream) < MaxJobs
  /\ status' = [status EXCEPT ![r] = "failed"]
  /\ stream' \in {stream, Append(stream, JobOf(r, c))}
  /\ UNCHANGED <<queued, groupVars, workerVars, written>>

\* Every chunk was looked at.
Respond(r) ==
  /\ status[r] = "running"
  /\ status' = [status EXCEPT ![r] = "ok"]
  /\ UNCHANGED <<queued, stream, groupVars, workerVars, written>>

----------------------------------------------------------------------------
(* The worker: Worker.Run *)

\* Run returns: the batch is forgotten and nothing starts the goroutine again.
Stop(w) ==
  /\ pc' = [pc EXCEPT ![w] = "stopped"]
  /\ cur' = [cur EXCEPT ![w] = 1]
  /\ last' = [last EXCEPT ![w] = 0]
  /\ saved' = [saved EXCEPT ![w] = 0]
  /\ UNCHANGED starts

\* Mutation of EnsureGroup: the group is created anew at every start.
EnsureNewGroup(w) ==
  /\ pc[w] = "ensure"
  /\ group' = TRUE
  /\ delivered' = 0
  /\ pending' = {}
  /\ pc' = [pc EXCEPT ![w] = "poll"]
  /\ UNCHANGED <<requestVars, stream, cur, last, saved, starts, written>>

EnsureGroup(w) ==
  /\ pc[w] = "ensure"
  /\ group' = TRUE
  /\ pc' = [pc EXCEPT ![w] = "poll"]
  /\ UNCHANGED <<requestVars, stream, delivered, pending, cur, last, saved,
                 starts, written>>

EnsureGroupFails(w) ==
  /\ Faults
  /\ pc[w] = "ensure"
  /\ group' \in {group, TRUE}
  /\ Stop(w)
  /\ UNCHANGED <<requestVars, stream, delivered, pending, written>>

\* Mutation of Deliver: the cursor of the group stays where it is.
DeliverAgain(n) ==
  /\ n = IF Len(stream) - delivered < BatchSize
         THEN Len(stream) ELSE delivered + BatchSize
  /\ n > delivered
  /\ group
  /\ pending' = pending \cup (delivered + 1)..n
  /\ UNCHANGED <<group, delivered>>

\* Mutation of Deliver: only a full batch is handed out.
DeliverFullBatch(n) ==
  /\ n = delivered + BatchSize
  /\ n <= Len(stream)
  /\ group
  /\ delivered' = n
  /\ pending' = pending \cup (delivered + 1)..n
  /\ UNCHANGED group

\* XREADGROUP with ">": the oldest entries never delivered, at most BatchSize.
Deliver(n) ==
  /\ n = IF Len(stream) - delivered < BatchSize
         THEN Len(stream) ELSE delivered + BatchSize
  /\ n > delivered
  /\ group
  /\ delivered' = n
  /\ pending' = pending \cup (delivered + 1)..n
  /\ UNCHANGED group

Consume(w) ==
  /\ pc[w] = "poll"
  /\ \E n \in Entries :
       /\ Deliver(n)
       /\ cur' = [cur EXCEPT ![w] = delivered + 1]
       /\ last' = [last EXCEPT ![w] = n]
  /\ pc' = [pc EXCEPT ![w] = "summarize"]
  /\ UNCHANGED <<requestVars, stream, saved, starts, written>>

ConsumeFails(w) ==
  /\ Faults
  /\ pc[w] = "poll"
  /\ (\E n \in Entries : Deliver(n)) \/ UNCHANGED groupVars
  /\ Stop(w)
  /\ UNCHANGED <<requestVars, stream, written>>

\* The provider has a summary for the entry at the head of the batch.
Summarize(w) ==
  /\ pc[w] = "summarize"
  /\ stream[cur[w]].text
  /\ pc' = [pc EXCEPT ![w] = "save"]
  /\ UNCHANGED <<requestVars, stream, groupVars, cur, last, saved, starts,
                 written>>

SummarizeFails(w) ==
  /\ pc[w] = "summarize"
  /\ ~stream[cur[w]].text
  /\ Stop(w)
  /\ UNCHANGED <<requestVars, stream, groupVars, written>>

\* The page key the goroutine has to write next, when there is one left.
HasNextRef(w) == saved[w] < Len(stream[cur[w]].refs)
NextRef(w) == stream[cur[w]].refs[saved[w] + 1]

\* Mutation of SaveSummary: the hash of the key is not compared.
SaveUnchecked(w) ==
  /\ pc[w] = "save"
  /\ HasNextRef(w)
  /\ written' = written \cup {<<cur[w], NextRef(w)>>}
  /\ saved' = [saved EXCEPT ![w] = @ + 1]
  /\ UNCHANGED <<requestVars, stream, groupVars, pc, cur, last, starts>>

SaveSummary(w) ==
  /\ pc[w] = "save"
  /\ HasNextRef(w)
  /\ Accepts(NextRef(w), stream[cur[w]])
  /\ written' = written \cup {<<cur[w], NextRef(w)>>}
  /\ saved' = [saved EXCEPT ![w] = @ + 1]
  /\ UNCHANGED <<requestVars, stream, groupVars, pc, cur, last, starts>>

\* The hash check refuses the artifact.
SaveSummaryRefused(w) ==
  /\ pc[w] = "save"
  /\ HasNextRef(w)
  /\ ~Accepts(NextRef(w), stream[cur[w]])
  /\ Stop(w)
  /\ UNCHANGED <<requestVars, stream, groupVars, written>>

SaveSummaryFails(w) ==
  /\ Faults
  /\ pc[w] = "save"
  /\ HasNextRef(w)
  /\ Accepts(NextRef(w), stream[cur[w]])
  /\ written' \in {written, written \cup {<<cur[w], NextRef(w)>>}}
  /\ Stop(w)
  /\ UNCHANGED <<requestVars, stream, groupVars>>

\* Mutation of Ack: nobody waits for the pages.
AckEarly(w) ==
  /\ pc[w] = "save"
  /\ pending' = pending \ {cur[w]}
  /\ cur' = [cur EXCEPT ![w] = @ + 1]
  /\ saved' = [saved EXCEPT ![w] = 0]
  /\ pc' = [pc EXCEPT ![w] = IF cur[w] < last[w] THEN "summarize" ELSE "poll"]
  /\ UNCHANGED <<requestVars, stream, group, delivered, last, starts, written>>

\* Mutation of Ack: the loop ends with the first message.
AckForgetsRest(w) ==
  /\ pc[w] = "save"
  /\ ~HasNextRef(w)
  /\ pending' = pending \ {cur[w]}
  /\ cur' = [cur EXCEPT ![w] = last[w] + 1]
  /\ saved' = [saved EXCEPT ![w] = 0]
  /\ pc' = [pc EXCEPT ![w] = "poll"]
  /\ UNCHANGED <<requestVars, stream, group, delivered, last, starts, written>>

\* Every page is stored: XACK, then the next message or the next poll.
Ack(w) ==
  /\ pc[w] = "save"
  /\ ~HasNextRef(w)
  /\ pending' = pending \ {cur[w]}
  /\ cur' = [cur EXCEPT ![w] = @ + 1]
  /\ saved' = [saved EXCEPT ![w] = 0]
  /\ pc' = [pc EXCEPT ![w] = IF cur[w] < last[w] THEN "summarize" ELSE "poll"]
  /\ UNCHANGED <<requestVars, stream, group, delivered, last, starts, written>>

AckFails(w) ==
  /\ Faults
  /\ pc[w] = "save"
  /\ ~HasNextRef(w)
  /\ pending' \in {pending, pending \ {cur[w]}}
  /\ Stop(w)
  /\ UNCHANGED <<requestVars, stream, group, delivered, written>>

\* The process ends: a crash, or a shutdown, which does not wait for the
\* worker.
Crash(w) ==
  /\ Faults
  /\ pc[w] # "down"
  /\ pc' = [pc EXCEPT ![w] = "down"]
  /\ cur' = [cur EXCEPT ![w] = 1]
  /\ last' = [last EXCEPT ![w] = 0]
  /\ saved' = [saved EXCEPT ![w] = 0]
  /\ UNCHANGED <<requestVars, stream, groupVars, starts, written>>

\* LoadRuntime, then StartSummaryWorker; Redis keeps what it has.
Restart(w) ==
  /\ pc[w] = "down"
  /\ starts[w] < MaxStarts
  /\ pc' = [pc EXCEPT ![w] = "ensure"]
  /\ starts' = [starts EXCEPT ![w] = @ + 1]
  /\ UNCHANGED <<requestVars, stream, groupVars, cur, last, saved, written>>

----------------------------------------------------------------------------
\* One step of the goroutine whose call answers, and one whose call fails.
Progress(w) ==
  \/ EnsureGroup(w) \/ Consume(w)
  \/ Summarize(w) \/ SummarizeFails(w)
  \/ SaveSummary(w) \/ SaveSummaryRefused(w) \/ Ack(w)

CallFails(w) ==
  \/ EnsureGroupFails(w) \/ ConsumeFails(w) \/ SaveSummaryFails(w) \/ AckFails(w)

WorkerStep(w) == Progress(w) \/ CallFails(w)

RequestStep(r) ==
  \/ \E c \in Chunk : Enqueue(r, c) \/ EnqueueFails(r, c)
  \/ Respond(r)

Next ==
  \/ \E r \in Request : RequestStep(r)
  \/ \E w \in Worker : WorkerStep(w) \/ Crash(w) \/ Restart(w)

\* The goroutine is scheduled and its calls return (they carry a context and
\* the client has timeouts): it makes its next step unless the call fails or
\* the process ends first.  Nothing has to fail: a poll that finds no entry
\* comes back and polls again, which is no step of this model.  Requests,
\* crashes and restarts are nobody's obligation.
Fairness == \A w \in Worker : WF_vars(Progress(w))

Spec == Init /\ [][Next]_vars
FairSpec == Spec /\ Fairness

----------------------------------------------------------------------------
(* Properties *)

RangeOf(s) == {s[i] : i \in DOMAIN s}
\* The pages that entry e has stored its summary under.
PagesOf(e) == {x[2] : x \in {y \in written : y[1] = e}}

TypeOK ==
  /\ status \in [Request -> {"running", "ok", "failed"}]
  /\ queued \in [Request -> Seq({CurrentHash(c) : c \in Chunk})]
  /\ stream \in Seq(Job)
  /\ group \in BOOLEAN
  /\ delivered \in Nat
  /\ pending \subseteq Nat
  /\ pc \in [Worker -> Live \cup {"stopped", "down"}]
  /\ cur \in [Worker -> Nat]
  /\ last \in [Worker -> Nat]
  /\ saved \in [Worker -> Nat]
  /\ starts \in [Worker -> Nat]

\* Only what was delivered is pending, and only what was queued is delivered.
DeliveryBounds ==
  /\ delivered <= Len(stream)
  /\ pending \subseteq 1..delivered

\* A goroutine works on entries that are pending and its own: no entry is in
\* the batches of two processes, and what a batch still holds is not
\* acknowledged behind its back (ConsumeSummaryJobs, AckSummaryJob).
BatchesOwned ==
  /\ \A w \in Worker : Batch(w) \subseteq pending
  /\ \A v, w \in Worker : v # w => Batch(v) \cap Batch(w) = {}
  /\ \A w \in Worker : (pc[w] \in Busy) <=> (Batch(w) # {})

\* handleJob before AckSummaryJob: an entry leaves the pending list only when
\* the summary is stored under every page the job names.
AckedAreWritten ==
  \A e \in Acked : \A k \in DOMAIN stream[e].refs :
    <<e, stream[e].refs[k]>> \in written

\* The strengthening that AckedAreWritten needs: the goroutine counts the pages
\* it has stored, and everything counted is stored.
SavedSoFar ==
  \A w \in Worker : pc[w] \in Busy =>
    /\ saved[w] <= Len(stream[cur[w]].refs)
    /\ \A k \in 1..saved[w] : <<cur[w], stream[cur[w]].refs[k]>> \in written
IdleUnsaved == \A w \in Worker : pc[w] \notin Busy => saved[w] = 0

\* No page ever resolves to the summary of another content: whatever was
\* stored under a page key has the hash of that key (prepareSummaryArtifact).
WrittenHashesAgree ==
  \A x \in written : x[1] \in Entries /\ Accepts(x[2], stream[x[1]])

IndInv ==
  /\ TypeOK
  /\ DeliveryBounds
  /\ BatchesOwned
  /\ SavedSoFar
  /\ IdleUnsaved
  /\ AckedAreWritten
  /\ WrittenHashesAgree

\* The IDs of the jobs of request r in the stream, in order.
IdsInStream(r) ==
  LET mine == Pick(stream, {e \in Entries : stream[e].request = r})
  IN  [i \in DOMAIN mine |-> mine[i].hash]

\* The pending job IDs of a response are the jobs of that request in the
\* stream, one for one and in order; only a request that failed may have left
\* one more than it counted (AutoCompactAsyncProcessor.Process).
ResponseIdsInStream ==
  \A r \in Request :
    LET ids == IdsInStream(r)
    IN  \/ queued[r] = ids
        \/ /\ status[r] = "failed"
           /\ Len(ids) > 0
           /\ queued[r] = SubSeq(ids, 1, Len(ids) - 1)

\* An entry whose worker stopped or crashed is never worked on again: it stays
\* pending, in nobody's batch, through restarts and new workers.  (The reader
\* asks for ">" and never claims; implementation-plan.md names the gap.)
OrphansStay == [][Orphans \subseteq Orphans']_vars

\* The stream, the group and the stored summaries do what JobBoard promises.
PhaseOf(e) == CASE e > delivered                   -> "queued"
                [] e <= delivered /\ e \in pending    -> "taken"
                [] e <= delivered /\ e \notin pending -> "done"
Phase == [e \in Entries |-> PhaseOf(e)]
Board == INSTANCE JobBoard WITH jobs <- stream, phase <- Phase
ImplementsJobBoard == Board!Spec

\* As long as one worker of the deployment does not stop for good, every job
\* queued is handed to some worker.
LiveWorkerDelivers ==
  (\E w \in Worker : <>[](pc[w] \in Live))
    => \A e \in 1..MaxJobs : (e \in Entries) ~> (e <= delivered)

\* docs/test-plan.md:199: once a job is consumed its summary is written back
\* for all of its page_refs.
ConsumedJobsAreWritten ==
  \A e \in 1..MaxJobs :
    (e <= delivered) ~> (e <= delivered /\ RangeOf(stream[e].refs) \subseteq PagesOf(e))

\* As long as no worker stops and no process ends (no call of theirs fails and
\* no artifact is refused), every job queued is summarised, stored under all
\* its pages and acknowledged.
EveryJobIsAcked ==
  (\A w \in Worker : [](pc[w] \in Live))
    => \A e \in 1..MaxJobs : (e \in Entries) ~> (e \in Acked)
=============================================================================
