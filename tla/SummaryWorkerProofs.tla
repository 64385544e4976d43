------------------------- MODULE SummaryWorkerProofs ------------------------
(***************************************************************************)
(* Proofs about SummaryWorker, for every set of workers, requests and      *)
(* chunks and every batch size: the types, the inductive invariant behind  *)
(* "acknowledged means stored" and "one owner per entry", and that the     *)
(* stream and the worker implement JobBoard.                               *)
(***************************************************************************)
EXTENDS SummaryWorker, ListProofs

\* A job carries a sequence of page keys, and a truth value that says whether
\* the summary component has something to say (AutoCompactAsyncProcessor).
LEMMA JobFacts ==
  ASSUME NEW job \in Job
  PROVE  /\ Len(job.refs) \in Nat
         /\ DOMAIN job.refs = 1..Len(job.refs)
         /\ job.text \in BOOLEAN
<1>1. PICK r \in Request, c \in Chunk : job = JobOf(r, c)
  BY DEF Job
<1>2. job.refs = [i \in 1..c.pages |-> [hash |-> WholeHash(c), page |-> i]]
  BY <1>1 DEF JobOf, PageRefs
<1>3. c.pages \in Nat /\ c.text \in BOOLEAN
  BY ChunkAssumption
<1>4. job.refs \in Seq({[hash |-> WholeHash(c), page |-> i] : i \in 1..c.pages})
  BY <1>2, <1>3
<1>5. Len(job.refs) \in Nat /\ DOMAIN job.refs = 1..Len(job.refs)
  BY <1>4
<1>6. QED
  BY <1>1, <1>3, <1>5 DEF JobOf

\* What XADD appends is a job of the type (EnqueueSummaryJob).
LEMMA JobOfType ==
  ASSUME NEW r \in Request, NEW c \in Chunk
  PROVE  /\ JobOf(r, c) \in Job
         /\ JobOf(r, c).hash \in {CurrentHash(d) : d \in Chunk}
BY DEF Job, JobOf

----------------------------------------------------------------------------
(* Types *)

\* The stream, the group and the workers start with their types.
LEMMA InitTypeOK == Init => TypeOK
<1> SUFFICES ASSUME Init PROVE TypeOK
  OBVIOUS
<1>1. << >> \in Seq(Job) /\ << >> \in Seq({CurrentHash(c) : c \in Chunk})
  OBVIOUS
<1>2. stream \in Seq(Job) /\ queued \in [Request -> Seq({CurrentHash(c) : c \in Chunk})]
  BY <1>1 DEF Init
<1>3. /\ status \in [Request -> {"running", "ok", "failed"}]
      /\ pc \in [Worker -> Live \cup {"stopped", "down"}]
      /\ cur \in [Worker -> Nat]
      /\ last \in [Worker -> Nat]
      /\ saved \in [Worker -> Nat]
      /\ starts \in [Worker -> Nat]
  BY DEF Init, Live
<1>4. QED
  BY <1>2, <1>3 DEF Init, TypeOK

\* The types of a goroutine that ends.
LEMMA StopTypeOK ==
  ASSUME NEW w \in Worker, TypeOK, Stop(w)
  PROVE  /\ pc' \in [Worker -> Live \cup {"stopped", "down"}]
         /\ cur' \in [Worker -> Nat]
         /\ last' \in [Worker -> Nat]
         /\ saved' \in [Worker -> Nat]
         /\ starts' \in [Worker -> Nat]
BY DEF TypeOK, Stop

\* The types of the group when an entry is delivered.
LEMMA DeliverTypeOK ==
  ASSUME TypeOK, NEW n \in Entries, Deliver(n)
  PROVE  /\ n \in Nat
         /\ delivered' \in Nat
         /\ pending' \subseteq Nat
         /\ group' \in BOOLEAN
<1>1. n \in Nat
  BY DEF TypeOK, Entries
<1>2. delivered \in Nat /\ pending \subseteq Nat /\ group \in BOOLEAN
  BY DEF TypeOK
<1>3. (delivered + 1)..n \subseteq Nat
  BY <1>1, <1>2
<1>4. QED
  BY <1>1, <1>2, <1>3 DEF Deliver

\* The steps of a request keep the types.
LEMMA RequestStepTypeOK ==
  ASSUME TypeOK, NEW r \in Request, RequestStep(r)
  PROVE  TypeOK'
<1>1. CASE \E c \in Chunk : Enqueue(r, c)
  <2>1. PICK c \in Chunk : Enqueue(r, c)
    BY <1>1
  <2>2. stream' \in Seq(Job)
    BY <2>1, JobOfType DEF TypeOK, Enqueue
  <2>3. queued' \in [Request -> Seq({CurrentHash(d) : d \in Chunk})]
    <3>1. queued[r] \in Seq({CurrentHash(d) : d \in Chunk})
      BY DEF TypeOK
    <3>2. Append(queued[r], JobOf(r, c).hash) \in Seq({CurrentHash(d) : d \in Chunk})
      BY <3>1, JobOfType
    <3>3. QED
      BY <2>1, <3>2 DEF TypeOK, Enqueue
  <2>4. QED
    BY <2>1, <2>2, <2>3 DEF TypeOK, Enqueue, groupVars, workerVars
<1>2. CASE \E c \in Chunk : EnqueueFails(r, c)
  <2>1. PICK c \in Chunk : EnqueueFails(r, c)
    BY <1>2
  <2>2. stream' \in Seq(Job)
    <3>1. stream \in Seq(Job) /\ Append(stream, JobOf(r, c)) \in Seq(Job)
      BY JobOfType DEF TypeOK
    <3>2. QED
      BY <2>1, <3>1 DEF EnqueueFails
  <2>3. QED
    BY <2>1, <2>2 DEF TypeOK, EnqueueFails, groupVars, workerVars
<1>3. CASE Respond(r)
  BY <1>3 DEF TypeOK, Respond, groupVars, workerVars
<1>4. QED
  BY <1>1, <1>2, <1>3 DEF RequestStep

\* So do those of a worker.
LEMMA WorkerStepTypeOK ==
  ASSUME TypeOK, NEW w \in Worker, WorkerStep(w) \/ Crash(w) \/ Restart(w)
  PROVE  TypeOK'
<1>1. CASE EnsureGroup(w)
  BY <1>1 DEF TypeOK, EnsureGroup, requestVars, Live, Busy
<1>2. CASE EnsureGroupFails(w)
  BY <1>2, StopTypeOK DEF TypeOK, EnsureGroupFails, requestVars
<1>3. CASE Consume(w)
  <2>1. PICK n \in Entries :
          /\ Deliver(n)
          /\ cur' = [cur EXCEPT ![w] = delivered + 1]
          /\ last' = [last EXCEPT ![w] = n]
    BY <1>3 DEF Consume
  <2>2. delivered + 1 \in Nat
    BY DEF TypeOK
  <2>3. cur' \in [Worker -> Nat] /\ last' \in [Worker -> Nat]
    BY <2>1, <2>2, DeliverTypeOK DEF TypeOK
  <2>4. QED
    BY <1>3, <2>1, <2>3, DeliverTypeOK DEF TypeOK, Consume, requestVars, Live, Busy
<1>4. CASE ConsumeFails(w)
  <2>1. delivered' \in Nat /\ pending' \subseteq Nat /\ group' \in BOOLEAN
    BY <1>4, DeliverTypeOK DEF ConsumeFails, groupVars, TypeOK
  <2>2. QED
    BY <1>4, <2>1, StopTypeOK DEF TypeOK, ConsumeFails, requestVars
<1>5. CASE Summarize(w)
  BY <1>5 DEF TypeOK, Summarize, requestVars, groupVars, Live, Busy
<1>6. CASE SummarizeFails(w) \/ SaveSummaryRefused(w)
  BY <1>6, StopTypeOK
     DEF TypeOK, SummarizeFails, SaveSummaryRefused, requestVars, groupVars
<1>7. CASE SaveSummary(w)
  <2>1. saved' \in [Worker -> Nat]
    BY <1>7 DEF TypeOK, SaveSummary
  <2>2. QED
    BY <1>7, <2>1 DEF TypeOK, SaveSummary, requestVars, groupVars
<1>8. CASE SaveSummaryFails(w)
  BY <1>8, StopTypeOK DEF TypeOK, SaveSummaryFails, requestVars, groupVars
<1>9. CASE Ack(w)
  <2>1. cur' \in [Worker -> Nat] /\ saved' \in [Worker -> Nat]
    BY <1>9 DEF TypeOK, Ack
  <2>2. pc' \in [Worker -> Live \cup {"stopped", "down"}]
    BY <1>9 DEF TypeOK, Ack, Live, Busy
  <2>3. QED
    BY <1>9, <2>1, <2>2 DEF TypeOK, Ack, requestVars
<1>10. CASE AckFails(w)
  BY <1>10, StopTypeOK DEF TypeOK, AckFails, requestVars
<1>11. CASE Crash(w)
  BY <1>11 DEF TypeOK, Crash, requestVars, groupVars
<1>12. CASE Restart(w)
  <2>1. starts' \in [Worker -> Nat]
    BY <1>12 DEF TypeOK, Restart
  <2>2. pc' \in [Worker -> Live \cup {"stopped", "down"}]
    BY <1>12 DEF TypeOK, Restart, Live
  <2>3. QED
    BY <1>12, <2>1, <2>2 DEF TypeOK, Restart, requestVars, groupVars
<1>13. QED
  BY <1>1, <1>2, <1>3, <1>4, <1>5, <1>6, <1>7, <1>8, <1>9, <1>10, <1>11,
     <1>12 DEF WorkerStep, Progress, CallFails

\* Every variable keeps its type, whatever fails.
THEOREM TypeCorrect == Spec => []TypeOK
<1>1. TypeOK /\ [Next]_vars => TypeOK'
  <2>1. ASSUME TypeOK, Next PROVE TypeOK'
    BY <2>1, RequestStepTypeOK, WorkerStepTypeOK DEF Next
  <2>2. ASSUME TypeOK, UNCHANGED vars PROVE TypeOK'
    BY <2>2 DEF TypeOK, vars, requestVars, groupVars, workerVars
  <2>3. QED
    BY <2>1, <2>2
<1>2. QED
  BY <1>1, InitTypeOK, PTL DEF Spec

----------------------------------------------------------------------------
(* The inductive invariant *)

\* An entry of the stream is a job, so its page refs are a sequence.
LEMMA EntryFacts ==
  ASSUME TypeOK, NEW e \in 1..Len(stream)
  PROVE  /\ stream[e] \in Job
         /\ Len(stream[e].refs) \in Nat
         /\ DOMAIN stream[e].refs = 1..Len(stream[e].refs)
<1>1. stream[e] \in Job
  BY DEF TypeOK
<1>2. QED
  BY <1>1, JobFacts

\* The entries of the stream are numbered from one.
LEMMA StreamFacts ==
  ASSUME TypeOK
  PROVE  Len(stream) \in Nat /\ Entries = 1..Len(stream)
BY DEF TypeOK, Entries

\* The head of a batch is an entry of the stream that is still pending.
LEMMA HeadFacts ==
  ASSUME IndInv, NEW w \in Worker, pc[w] \in Busy
  PROVE  /\ cur[w] \in Batch(w)
         /\ cur[w] \in pending
         /\ cur[w] \in 1..delivered
         /\ cur[w] \in 1..Len(stream)
         /\ cur[w] \in Nat /\ last[w] \in Nat /\ cur[w] <= last[w]
<1>1. cur[w] \in Nat /\ last[w] \in Nat /\ delivered \in Nat /\ Len(stream) \in Nat
  BY DEF IndInv, TypeOK
<1>2. Batch(w) # {} /\ Batch(w) \subseteq pending
  BY DEF IndInv, BatchesOwned
<1>3. cur[w] <= last[w] /\ cur[w] \in Batch(w)
  BY <1>1, <1>2 DEF Batch
<1>4. pending \subseteq 1..delivered /\ delivered <= Len(stream)
  BY DEF IndInv, DeliveryBounds
<1>5. cur[w] \in 1..delivered
  BY <1>2, <1>3, <1>4
<1>6. QED
  BY <1>1, <1>2, <1>3, <1>4, <1>5

\* The invariant holds at first: no stream, no batches.
LEMMA InitIndInv == Init => IndInv
<1> SUFFICES ASSUME Init PROVE IndInv
  OBVIOUS
<1>1. TypeOK
  BY InitTypeOK
<1>2. \A w \in Worker : Batch(w) = {} /\ pc[w] \notin Busy
  BY DEF Init, Batch, Busy
<1>3. Acked = {} /\ written = {} /\ pending = {} /\ delivered = 0 /\ Len(stream) = 0
  BY DEF Init, Acked
<1>4. BatchesOwned /\ SavedSoFar /\ IdleUnsaved
  BY <1>2, <1>3 DEF BatchesOwned, SavedSoFar, IdleUnsaved, Init
<1>5. DeliveryBounds /\ AckedAreWritten /\ WrittenHashesAgree
  BY <1>3 DEF DeliveryBounds, AckedAreWritten, WrittenHashesAgree
<1>6. QED
  BY <1>1, <1>4, <1>5 DEF IndInv

\* Requests only append to the stream (EnqueueSummaryJob).
LEMMA RequestStepInv ==
  ASSUME IndInv, NEW r \in Request, RequestStep(r)
  PROVE  IndInv'
<1>1. TypeOK /\ TypeOK'
  BY RequestStepTypeOK DEF IndInv
<1>2. UNCHANGED <<group, delivered, pending, pc, cur, last, saved, written>>
  BY DEF RequestStep, Enqueue, EnqueueFails, Respond, groupVars, workerVars
<1>3. /\ Len(stream) \in Nat /\ Len(stream') \in Nat
      /\ Len(stream) <= Len(stream')
      /\ \A e \in 1..Len(stream) : stream'[e] = stream[e]
  <2>1. stream \in Seq(Job)
    BY <1>1 DEF TypeOK
  <2>2. stream' = stream \/ \E c \in Chunk : stream' = Append(stream, JobOf(r, c))
    BY DEF RequestStep, Enqueue, EnqueueFails, Respond
  <2>3. QED
    BY <2>1, <2>2
<1>4. Entries = 1..Len(stream) /\ Entries' = 1..Len(stream')
  BY <1>1 DEF TypeOK, Entries
<1>5. DeliveryBounds'
  BY <1>1, <1>2, <1>3 DEF IndInv, DeliveryBounds, TypeOK
<1>6. BatchesOwned'
  BY <1>2 DEF IndInv, BatchesOwned, Batch
<1>7. SavedSoFar'
  <2> SUFFICES ASSUME NEW w \in Worker, pc[w] \in Busy
               PROVE  /\ saved[w] <= Len(stream'[cur[w]].refs)
                      /\ \A k \in 1..saved[w] :
                           <<cur[w], stream'[cur[w]].refs[k]>> \in written
    BY <1>2 DEF SavedSoFar
  <2>1. stream'[cur[w]] = stream[cur[w]]
    BY <1>3, HeadFacts
  <2>2. QED
    BY <2>1 DEF IndInv, SavedSoFar
<1>8. AckedAreWritten'
  <2>1. Acked' = Acked
    BY <1>2 DEF Acked
  <2>2. \A e \in Acked : e \in 1..Len(stream)
    BY <1>1, <1>3 DEF Acked, IndInv, DeliveryBounds, TypeOK
  <2>3. \A e \in Acked : stream'[e] = stream[e]
    BY <2>2, <1>3
  <2>4. QED
    BY <1>2, <2>1, <2>3 DEF IndInv, AckedAreWritten
<1>9. WrittenHashesAgree'
  BY <1>2, <1>3, <1>4 DEF IndInv, WrittenHashesAgree, Accepts
<1>10. IdleUnsaved'
  BY <1>2 DEF IndInv, IdleUnsaved
<1>11. QED
  BY <1>1, <1>5, <1>6, <1>7, <1>8, <1>9, <1>10 DEF IndInv

\* The goroutine of w lets go of its batch (it stops or its process dies),
\* and nothing that another one relies on is taken away.
LEMMA ReleaseInv ==
  ASSUME IndInv, NEW w \in Worker, NEW p, p \notin Busy,
         pc' = [pc EXCEPT ![w] = p],
         cur' = [cur EXCEPT ![w] = 1],
         last' = [last EXCEPT ![w] = 0],
         saved' = [saved EXCEPT ![w] = 0],
         stream' = stream,
         pending \ Batch(w) \subseteq pending',
         written \subseteq written'
  PROVE  BatchesOwned' /\ SavedSoFar' /\ IdleUnsaved'
<1>1. /\ pc \in [Worker -> Live \cup {"stopped", "down"}]
      /\ cur \in [Worker -> Nat] /\ last \in [Worker -> Nat]
      /\ saved \in [Worker -> Nat]
  BY DEF IndInv, TypeOK
<1>2. \A v \in Worker : v # w => /\ pc'[v] = pc[v] /\ cur'[v] = cur[v]
                                 /\ last'[v] = last[v] /\ saved'[v] = saved[v]
  BY <1>1
<1>3. pc'[w] = p /\ cur'[w] = 1 /\ last'[w] = 0
  BY <1>1
<1>4. Batch(w)' = {} /\ \A v \in Worker : v # w => Batch(v)' = Batch(v)
  BY <1>2, <1>3 DEF Batch
<1>5. BatchesOwned'
  <2>1. \A v \in Worker : v # w => Batch(v) \subseteq pending \ Batch(w)
    BY DEF IndInv, BatchesOwned
  <2>2. \A v \in Worker : Batch(v)' \subseteq pending'
    BY <1>4, <2>1
  <2>3. \A u, v \in Worker : u # v => Batch(u)' \cap Batch(v)' = {}
    BY <1>4 DEF IndInv, BatchesOwned
  <2>4. \A v \in Worker : (pc'[v] \in Busy) <=> (Batch(v)' # {})
    BY <1>2, <1>3, <1>4 DEF IndInv, BatchesOwned
  <2>5. QED
    BY <2>2, <2>3, <2>4 DEF BatchesOwned
<1>6. SavedSoFar' /\ IdleUnsaved'
  BY <1>1, <1>2, <1>3 DEF IndInv, SavedSoFar, IdleUnsaved
<1>7. QED
  BY <1>5, <1>6

\* Delivering entries moves the cursor and the pending list together.
LEMMA DeliverInv ==
  ASSUME IndInv, NEW n \in Entries, Deliver(n), stream' = stream, written' = written
  PROVE  /\ delivered < n /\ delivered' = n /\ n <= Len(stream)
         /\ pending' = pending \cup (delivered + 1)..n
         /\ DeliveryBounds' /\ AckedAreWritten' /\ WrittenHashesAgree'
<1>1. /\ n \in Nat /\ delivered \in Nat /\ Len(stream) \in Nat /\ n <= Len(stream)
      /\ pending \subseteq 1..delivered
  <2>1. TypeOK /\ DeliveryBounds
    BY DEF IndInv
  <2>2. n \in 1..Len(stream) /\ Len(stream) \in Nat
    BY <2>1, StreamFacts
  <2>3. QED
    BY <2>1, <2>2 DEF TypeOK, DeliveryBounds
<1>2. delivered < n /\ delivered' = n /\ pending' = pending \cup (delivered + 1)..n
  BY <1>1 DEF Deliver
<1>3. Acked' = Acked
  BY <1>1, <1>2 DEF Acked
<1>4. DeliveryBounds'
  BY <1>1, <1>2 DEF DeliveryBounds
<1>5. AckedAreWritten'
  BY <1>3 DEF IndInv, AckedAreWritten
<1>6. WrittenHashesAgree'
  BY DEF IndInv, WrittenHashesAgree, Entries
<1>7. QED
  BY <1>1, <1>2, <1>4, <1>5, <1>6

\* When no page is left to write, every page of the job is written.
LEMMA HeadWritten ==
  ASSUME IndInv, NEW w \in Worker, pc[w] = "save", ~HasNextRef(w)
  PROVE  \A k \in DOMAIN stream[cur[w]].refs : <<cur[w], stream[cur[w]].refs[k]>> \in written
<1>1. pc[w] \in Busy
  BY DEF Busy
<1>2. /\ Len(stream[cur[w]].refs) \in Nat
      /\ DOMAIN stream[cur[w]].refs = 1..Len(stream[cur[w]].refs)
  BY <1>1, HeadFacts, EntryFacts DEF IndInv
<1>3. saved[w] \in Nat /\ saved[w] <= Len(stream[cur[w]].refs)
  BY <1>1 DEF IndInv, TypeOK, SavedSoFar
<1>4. saved[w] = Len(stream[cur[w]].refs)
  BY <1>2, <1>3 DEF HasNextRef
<1>5. QED
  BY <1>1, <1>2, <1>4 DEF IndInv, SavedSoFar

\* Acknowledging the head of a batch, whether or not the reply arrives.
LEMMA AckHeadInv ==
  ASSUME IndInv, NEW w \in Worker, pc[w] = "save", ~HasNextRef(w),
         pending' \in {pending, pending \ {cur[w]}},
         UNCHANGED <<stream, delivered, written>>
  PROVE  DeliveryBounds' /\ AckedAreWritten' /\ WrittenHashesAgree'
<1>1. Acked' \subseteq Acked \cup {cur[w]}
  BY DEF Acked
<1>2. AckedAreWritten'
  BY <1>1, HeadWritten DEF IndInv, AckedAreWritten
<1>3. DeliveryBounds'
  BY DEF IndInv, DeliveryBounds
<1>4. WrittenHashesAgree'
  BY DEF IndInv, WrittenHashesAgree, Entries
<1>5. QED
  BY <1>2, <1>3, <1>4

\* Storing the next page of the head of a batch.
LEMMA WriteHeadInv ==
  ASSUME IndInv, NEW w \in Worker, pc[w] = "save",
         Accepts(NextRef(w), stream[cur[w]]),
         written' \in {written, written \cup {<<cur[w], NextRef(w)>>}},
         UNCHANGED <<stream, delivered, pending>>
  PROVE  DeliveryBounds' /\ AckedAreWritten' /\ WrittenHashesAgree'
<1>1. cur[w] \in Entries
  BY HeadFacts, StreamFacts DEF IndInv, Busy
<1>2. Acked' = Acked /\ Entries' = Entries
  BY DEF Acked, Entries
<1>3. WrittenHashesAgree'
  BY <1>1, <1>2 DEF IndInv, WrittenHashesAgree, Accepts
<1>4. DeliveryBounds' /\ AckedAreWritten'
  BY <1>2 DEF IndInv, DeliveryBounds, AckedAreWritten
<1>5. QED
  BY <1>3, <1>4

\* What is about the stream and the pages only stays when they do.
LEMMA StillInv ==
  ASSUME IndInv, UNCHANGED <<stream, delivered, pending, written>>
  PROVE  DeliveryBounds' /\ AckedAreWritten' /\ WrittenHashesAgree'
BY DEF IndInv, DeliveryBounds, AckedAreWritten, WrittenHashesAgree, Acked, Entries

\* Every way of giving up: an error of a Redis call, a job without a summary,
\* a page that refuses it, a crash.
LEMMA FailureInv ==
  ASSUME IndInv, NEW w \in Worker,
         \/ EnsureGroupFails(w) \/ ConsumeFails(w) \/ SummarizeFails(w)
         \/ SaveSummaryRefused(w) \/ SaveSummaryFails(w) \/ AckFails(w) \/ Crash(w)
  PROVE  BatchesOwned' /\ SavedSoFar' /\ IdleUnsaved' /\ DeliveryBounds' /\ AckedAreWritten'
         /\ WrittenHashesAgree'
<1>1. "stopped" \notin Busy /\ "down" \notin Busy
  BY DEF Busy
<1>2. CASE \/ EnsureGroupFails(w) \/ SummarizeFails(w)
           \/ SaveSummaryRefused(w) \/ Crash(w)
  <2>1. UNCHANGED <<stream, delivered, pending, written>>
    BY <1>2 DEF EnsureGroupFails, SummarizeFails, SaveSummaryRefused, Crash, groupVars
  <2>2. BatchesOwned' /\ SavedSoFar' /\ IdleUnsaved'
    BY <1>1, <1>2, <2>1, ReleaseInv
       DEF EnsureGroupFails, SummarizeFails, SaveSummaryRefused, Crash, Stop
  <2>3. QED
    BY <2>1, <2>2, StillInv
<1>3. CASE ConsumeFails(w)
  <2>1. UNCHANGED <<stream, written>> /\ Stop(w)
    BY <1>3 DEF ConsumeFails
  <2>2. /\ pending \subseteq pending'
        /\ DeliveryBounds' /\ AckedAreWritten' /\ WrittenHashesAgree'
    <3>1. CASE \E n \in Entries : Deliver(n)
      BY <2>1, <3>1, DeliverInv
    <3>2. CASE UNCHANGED groupVars
      BY <2>1, <3>2, StillInv DEF groupVars
    <3>3. QED
      BY <1>3, <3>1, <3>2 DEF ConsumeFails
  <2>3. QED
    BY <1>1, <2>1, <2>2, ReleaseInv DEF Stop
<1>4. CASE SaveSummaryFails(w)
  <2>1. DeliveryBounds' /\ AckedAreWritten' /\ WrittenHashesAgree'
    BY <1>4, WriteHeadInv DEF SaveSummaryFails, groupVars
  <2>2. BatchesOwned' /\ SavedSoFar' /\ IdleUnsaved'
    BY <1>1, <1>4, ReleaseInv DEF SaveSummaryFails, Stop, groupVars
  <2>3. QED
    BY <2>1, <2>2
<1>5. CASE AckFails(w)
  <2>1. DeliveryBounds' /\ AckedAreWritten' /\ WrittenHashesAgree'
    BY <1>5, AckHeadInv DEF AckFails
  <2>2. cur[w] \in Batch(w)
    BY <1>5, HeadFacts DEF AckFails, Busy
  <2>3. BatchesOwned' /\ SavedSoFar' /\ IdleUnsaved'
    BY <1>1, <1>5, <2>2, ReleaseInv DEF AckFails, Stop
  <2>4. QED
    BY <2>1, <2>3
<1>6. QED
  BY <1>2, <1>3, <1>4, <1>5

\* A batch is taken: it is new to everybody.
LEMMA ConsumeInv ==
  ASSUME IndInv, NEW w \in Worker, Consume(w)
  PROVE  BatchesOwned' /\ SavedSoFar' /\ IdleUnsaved' /\ DeliveryBounds' /\ AckedAreWritten'
         /\ WrittenHashesAgree'
<1>1. PICK n \in Entries : /\ Deliver(n)
                          /\ cur' = [cur EXCEPT ![w] = delivered + 1]
                          /\ last' = [last EXCEPT ![w] = n]
  BY DEF Consume
<1>2. UNCHANGED <<stream, saved, written>> /\ pc' = [pc EXCEPT ![w] = "summarize"]
  BY DEF Consume
<1>3. /\ delivered < n /\ n <= Len(stream)
      /\ pending' = pending \cup (delivered + 1)..n
      /\ DeliveryBounds' /\ AckedAreWritten' /\ WrittenHashesAgree'
  BY <1>1, <1>2, DeliverInv
<1>4. /\ pc \in [Worker -> Live \cup {"stopped", "down"}]
      /\ cur \in [Worker -> Nat] /\ last \in [Worker -> Nat]
      /\ saved \in [Worker -> Nat] /\ delivered \in Nat /\ n \in Nat
  <2>1. n \in Nat
    BY StreamFacts DEF IndInv
  <2>2. QED
    BY <2>1 DEF IndInv, TypeOK
<1>5. \A v \in Worker : v # w => /\ pc'[v] = pc[v] /\ cur'[v] = cur[v]
                                 /\ last'[v] = last[v] /\ saved'[v] = saved[v]
                                 /\ Batch(v)' = Batch(v)
  BY <1>1, <1>2, <1>4 DEF Batch
<1>6. pc'[w] = "summarize" /\ cur'[w] = delivered + 1 /\ Batch(w)' = (delivered + 1)..n
  BY <1>1, <1>2, <1>4 DEF Batch
<1>7. \A v \in Worker : Batch(v) \subseteq 1..delivered
  BY DEF IndInv, BatchesOwned, DeliveryBounds
<1>8. BatchesOwned'
  <2>1. \A v \in Worker : Batch(v)' \subseteq pending'
    BY <1>3, <1>5, <1>6 DEF IndInv, BatchesOwned
  <2>2. \A v \in Worker : v # w => Batch(v)' \cap Batch(w)' = {}
    <3> SUFFICES ASSUME NEW v \in Worker, v # w, NEW e \in 1..delivered,
                        e \in (delivered + 1)..n
                 PROVE  FALSE
      BY <1>5, <1>6, <1>7
    <3> QED
      BY <1>4
  <2>3. \A u, v \in Worker : u # v => Batch(u)' \cap Batch(v)' = {}
    BY <1>5, <2>2 DEF IndInv, BatchesOwned
  <2>4. Batch(w)' # {}
    <3>1. delivered + 1 \in (delivered + 1)..n
      BY <1>3, <1>4
    <3>2. QED
      BY <1>6, <3>1
  <2>5. \A v \in Worker : (pc'[v] \in Busy) <=> (Batch(v)' # {})
    BY <1>5, <1>6, <2>4 DEF IndInv, BatchesOwned, Busy
  <2>6. QED
    BY <2>1, <2>3, <2>5 DEF BatchesOwned
<1>9. SavedSoFar'
  <2>1. pc[w] = "poll"
    BY DEF Consume
  <2>2. saved[w] = 0
    BY <2>1 DEF IndInv, IdleUnsaved, Busy
  <2>3. delivered + 1 \in 1..Len(stream)
    BY <1>3, <1>4, StreamFacts DEF IndInv
  <2>4. Len(stream[delivered + 1].refs) \in Nat
    BY <2>3, EntryFacts DEF IndInv
  <2>5. QED
    BY <1>2, <1>5, <1>6, <2>2, <2>4 DEF IndInv, SavedSoFar
<1>10. IdleUnsaved'
  BY <1>5, <1>6 DEF IndInv, IdleUnsaved, Busy
<1>11. QED
  BY <1>3, <1>8, <1>9, <1>10

\* The head of the batch is acknowledged and the next entry, if any, is next.
LEMMA AckInv ==
  ASSUME IndInv, NEW w \in Worker, Ack(w)
  PROVE  BatchesOwned' /\ SavedSoFar' /\ IdleUnsaved' /\ DeliveryBounds' /\ AckedAreWritten'
         /\ WrittenHashesAgree'
<1>1. /\ pc[w] = "save" /\ ~HasNextRef(w)
      /\ pending' = pending \ {cur[w]}
      /\ cur' = [cur EXCEPT ![w] = @ + 1]
      /\ saved' = [saved EXCEPT ![w] = 0]
      /\ pc' = [pc EXCEPT ![w] = IF cur[w] < last[w] THEN "summarize" ELSE "poll"]
      /\ UNCHANGED <<stream, delivered, last, written>>
  BY DEF Ack
<1>2. DeliveryBounds' /\ AckedAreWritten' /\ WrittenHashesAgree'
  BY <1>1, AckHeadInv
<1>3. pc[w] \in Busy
  BY <1>1 DEF Busy
<1>4. /\ cur[w] \in Batch(w) /\ cur[w] \in Nat /\ last[w] \in Nat /\ cur[w] <= last[w]
      /\ cur[w] \in pending
  BY <1>3, HeadFacts
<1>5. \A v \in Worker : v # w => /\ pc'[v] = pc[v] /\ cur'[v] = cur[v]
                                 /\ last'[v] = last[v] /\ saved'[v] = saved[v]
                                 /\ Batch(v)' = Batch(v)
  BY <1>1 DEF IndInv, TypeOK, Batch
<1>6. /\ cur'[w] = cur[w] + 1 /\ last'[w] = last[w] /\ saved'[w] = 0
      /\ pc'[w] = IF cur[w] < last[w] THEN "summarize" ELSE "poll"
  BY <1>1 DEF IndInv, TypeOK
<1>7. Batch(w)' = Batch(w) \ {cur[w]}
  BY <1>4, <1>6 DEF Batch
<1>8. BatchesOwned'
  <2>1. \A v \in Worker : v # w => cur[w] \notin Batch(v)
    BY <1>4 DEF IndInv, BatchesOwned
  <2>2. \A v \in Worker : Batch(v)' \subseteq pending'
    BY <1>1, <1>5, <1>7, <2>1 DEF IndInv, BatchesOwned
  <2>3. \A u, v \in Worker : u # v => Batch(u)' \cap Batch(v)' = {}
    BY <1>5, <1>7 DEF IndInv, BatchesOwned
  <2>4. (pc'[w] \in Busy) <=> (Batch(w)' # {})
    BY <1>4, <1>6 DEF Batch, Busy
  <2>5. \A v \in Worker : (pc'[v] \in Busy) <=> (Batch(v)' # {})
    BY <1>5, <2>4 DEF IndInv, BatchesOwned
  <2>6. QED
    BY <2>2, <2>3, <2>5 DEF BatchesOwned
<1>9. SavedSoFar'
  <2>1. ASSUME pc'[w] \in Busy PROVE Len(stream[cur[w] + 1].refs) \in Nat
    <3>1. cur[w] + 1 \in Batch(w)
      BY <1>4, <1>6, <2>1 DEF Batch, Busy
    <3>2. cur[w] + 1 \in 1..Len(stream)
      BY <3>1, StreamFacts DEF IndInv, BatchesOwned, DeliveryBounds, TypeOK
    <3>3. QED
      BY <3>2, EntryFacts DEF IndInv
  <2>2. QED
    BY <1>1, <1>5, <1>6, <2>1 DEF IndInv, SavedSoFar
<1>10. IdleUnsaved'
  BY <1>5, <1>6 DEF IndInv, IdleUnsaved
<1>11. QED
  BY <1>2, <1>8, <1>9, <1>10

\* The page at hand is stored and counted.
LEMMA SaveSummaryInv ==
  ASSUME IndInv, NEW w \in Worker, SaveSummary(w)
  PROVE  BatchesOwned' /\ SavedSoFar' /\ IdleUnsaved' /\ DeliveryBounds' /\ AckedAreWritten'
         /\ WrittenHashesAgree'
<1>1. /\ pc[w] = "save" /\ saved[w] < Len(stream[cur[w]].refs)
      /\ Accepts(NextRef(w), stream[cur[w]])
      /\ written' = written \cup {<<cur[w], stream[cur[w]].refs[saved[w] + 1]>>}
      /\ saved' = [saved EXCEPT ![w] = @ + 1]
      /\ UNCHANGED <<stream, delivered, pending, pc, cur, last>>
  BY DEF SaveSummary, HasNextRef, NextRef, groupVars
<1>2. DeliveryBounds' /\ AckedAreWritten' /\ WrittenHashesAgree'
  BY <1>1, WriteHeadInv DEF NextRef
<1>3. BatchesOwned'
  BY <1>1 DEF IndInv, BatchesOwned, Batch
<1>4. pc[w] \in Busy
  BY <1>1 DEF Busy
<1>5. /\ saved[w] \in Nat /\ saved'[w] = saved[w] + 1
      /\ \A v \in Worker : v # w => saved'[v] = saved[v]
  BY <1>1 DEF IndInv, TypeOK
<1>6. Len(stream[cur[w]].refs) \in Nat
  BY <1>4, HeadFacts, EntryFacts DEF IndInv
<1>7. SavedSoFar'
  <2>1. /\ saved'[w] <= Len(stream[cur[w]].refs)
        /\ \A k \in 1..saved'[w] : <<cur[w], stream[cur[w]].refs[k]>> \in written'
    <3>1. \A k \in 1..saved[w] : <<cur[w], stream[cur[w]].refs[k]>> \in written
      BY <1>4 DEF IndInv, SavedSoFar
    <3>2. \A k \in 1..saved'[w] : k \in 1..saved[w] \/ k = saved[w] + 1
      BY <1>5
    <3>3. saved'[w] <= Len(stream[cur[w]].refs)
      BY <1>1, <1>5, <1>6
    <3>4. ASSUME NEW k \in 1..saved'[w]
          PROVE  <<cur[w], stream[cur[w]].refs[k]>> \in written'
      <4>1. <<cur[w], stream[cur[w]].refs[saved[w] + 1]>> \in written'
        BY <1>1
      <4>2. CASE k = saved[w] + 1
        BY <4>1, <4>2
      <4>3. CASE k \in 1..saved[w]
        BY <1>1, <3>1, <4>3
      <4>4. QED
        BY <3>2, <4>2, <4>3
    <3>5. QED
      BY <3>3, <3>4
  <2>2. QED
    BY <1>1, <1>5, <2>1 DEF IndInv, SavedSoFar
<1>8. IdleUnsaved'
  BY <1>1, <1>4, <1>5 DEF IndInv, IdleUnsaved
<1>9. QED
  BY <1>2, <1>3, <1>7, <1>8

\* Steps that only move the program counter.
LEMMA MoveInv ==
  ASSUME IndInv, NEW w \in Worker, EnsureGroup(w) \/ Summarize(w) \/ Restart(w)
  PROVE  BatchesOwned' /\ SavedSoFar' /\ IdleUnsaved' /\ DeliveryBounds' /\ AckedAreWritten'
         /\ WrittenHashesAgree'
<1>1. UNCHANGED <<stream, delivered, pending, written, cur, last, saved>>
  BY DEF EnsureGroup, Summarize, Restart, groupVars
<1>2. \A v \in Worker : (pc'[v] \in Busy) <=> (pc[v] \in Busy)
  BY DEF IndInv, TypeOK, EnsureGroup, Summarize, Restart, Busy
<1>3. BatchesOwned'
  BY <1>1, <1>2 DEF IndInv, BatchesOwned, Batch
<1>4. SavedSoFar' /\ IdleUnsaved'
  BY <1>1, <1>2 DEF IndInv, SavedSoFar, IdleUnsaved
<1>5. QED
  BY <1>1, <1>3, <1>4, StillInv

\* IndInv holds in every reachable state.
THEOREM Inductive == Spec => []IndInv
<1>1. ASSUME IndInv, NEW w \in Worker, WorkerStep(w) \/ Crash(w) \/ Restart(w)
      PROVE  IndInv'
  <2>1. TypeOK'
    BY <1>1, WorkerStepTypeOK DEF IndInv
  <2>2. BatchesOwned' /\ SavedSoFar' /\ IdleUnsaved' /\ DeliveryBounds' /\ AckedAreWritten'
        /\ WrittenHashesAgree'
    BY <1>1, FailureInv, ConsumeInv, AckInv, SaveSummaryInv, MoveInv DEF WorkerStep, Progress, CallFails
  <2>3. QED
    BY <2>1, <2>2 DEF IndInv
<1>2. ASSUME IndInv, Next PROVE IndInv'
  BY <1>1, <1>2, RequestStepInv DEF Next
<1>3. ASSUME IndInv, UNCHANGED vars PROVE IndInv'
  BY <1>3 DEF IndInv, vars, requestVars, groupVars, workerVars, TypeOK, BatchesOwned,
     Batch, SavedSoFar, IdleUnsaved, DeliveryBounds, AckedAreWritten, Acked,
     WrittenHashesAgree, Entries
<1>4. IndInv /\ [Next]_vars => IndInv'
  BY <1>2, <1>3
<1>5. QED
  BY <1>4, InitIndInv, PTL DEF Spec

\* An acknowledged job is stored under every page it names, in every deployment
\* and under every failure (Worker.processMessages).
THEOREM AckMeansStored == Spec => []AckedAreWritten
<1>1. IndInv => AckedAreWritten
  BY DEF IndInv
<1>2. QED
  BY <1>1, Inductive, PTL

\* No two goroutines ever work on one entry, and none works on an entry that
\* is not pending (ConsumeSummaryJobs).
THEOREM OneOwner == Spec => []BatchesOwned
<1>1. IndInv => BatchesOwned
  BY DEF IndInv
<1>2. QED
  BY <1>1, Inductive, PTL

\* A summary stored under a page key is the summary of that content
\* (prepareSummaryArtifact).
THEOREM StoredHashesAgree == Spec => []WrittenHashesAgree
<1>1. IndInv => WrittenHashesAgree
  BY DEF IndInv
<1>2. QED
  BY <1>1, Inductive, PTL

----------------------------------------------------------------------------
(* What happens to the entries of a worker that gave up *)

\* A batch only shrinks, except when it is taken from beyond the cursor.
LEMMA BatchStep ==
  ASSUME IndInv, NEW w \in Worker, WorkerStep(w) \/ Crash(w) \/ Restart(w)
  PROVE  /\ \A v \in Worker : \A e \in Batch(v)' : e \in Batch(v) \/ e > delivered
         /\ \A e \in pending : e \in pending' \/ e \in Batch(w)
<1>1. /\ pc \in [Worker -> Live \cup {"stopped", "down"}]
      /\ cur \in [Worker -> Nat] /\ last \in [Worker -> Nat] /\ delivered \in Nat
  BY DEF IndInv, TypeOK
<1>2. CASE Stop(w) \/ Crash(w)
  <2>1. cur' = [cur EXCEPT ![w] = 1] /\ last' = [last EXCEPT ![w] = 0]
    BY <1>2 DEF Stop, Crash
  <2>2. \A v \in Worker : Batch(v)' \subseteq Batch(v)
    BY <1>1, <2>1 DEF Batch
  <2>3. pending \subseteq pending' \/ (AckFails(w) /\ pending' = pending \ {cur[w]})
    <3>1. CASE Crash(w)
      BY <3>1 DEF Crash, groupVars
    <3>2. CASE EnsureGroup(w) \/ Consume(w) \/ Summarize(w) \/ SaveSummary(w) \/ Ack(w)
               \/ Restart(w)
      BY <1>1, <1>2, <3>2 DEF Stop, Crash, EnsureGroup, Consume, Summarize, SaveSummary,
         Ack, Restart, Live, Busy, Deliver, groupVars
    <3>3. CASE EnsureGroupFails(w) \/ ConsumeFails(w) \/ SummarizeFails(w)
               \/ SaveSummaryRefused(w) \/ SaveSummaryFails(w) \/ AckFails(w)
      BY <3>3 DEF EnsureGroupFails, ConsumeFails, SummarizeFails, SaveSummaryRefused,
         SaveSummaryFails, AckFails, Deliver, groupVars
    <3>4. QED
      BY <3>1, <3>2, <3>3 DEF WorkerStep, Progress, CallFails
  <2>4. AckFails(w) => cur[w] \in Batch(w)
    BY HeadFacts DEF AckFails, Busy
  <2>5. QED
    BY <2>2, <2>3, <2>4
<1>3. CASE Consume(w)
  <2>1. PICK n \in Entries : /\ Deliver(n)
                            /\ cur' = [cur EXCEPT ![w] = delivered + 1]
                            /\ last' = [last EXCEPT ![w] = n]
    BY <1>3 DEF Consume
  <2>2. n \in Nat
    BY StreamFacts DEF IndInv
  <2>3. \A v \in Worker : v # w => Batch(v)' = Batch(v)
    BY <1>1, <2>1 DEF Batch
  <2>4. Batch(w)' = (delivered + 1)..n
    BY <1>1, <2>1 DEF Batch
  <2>5. \A e \in Batch(w)' : e > delivered
    BY <1>1, <2>2, <2>4
  <2>6. QED
    BY <2>1, <2>3, <2>5 DEF Deliver
<1>4. CASE Ack(w)
  <2>1. cur' = [cur EXCEPT ![w] = @ + 1] /\ last' = last /\ pending' = pending \ {cur[w]}
    BY <1>4 DEF Ack
  <2>2. \A v \in Worker : Batch(v)' \subseteq Batch(v)
    BY <1>1, <2>1 DEF Batch
  <2>3. cur[w] \in Batch(w)
    BY <1>4, HeadFacts DEF Ack, Busy
  <2>4. QED
    BY <2>1, <2>2, <2>3
<1>5. CASE EnsureGroup(w) \/ Summarize(w) \/ SaveSummary(w) \/ Restart(w)
  BY <1>5 DEF EnsureGroup, Summarize, SaveSummary, Restart, Batch, groupVars
<1>6. QED
  BY <1>2, <1>3, <1>4, <1>5 DEF WorkerStep, Progress, CallFails, EnsureGroupFails, ConsumeFails,
     SummarizeFails, SaveSummaryRefused, SaveSummaryFails, AckFails

\* An entry left behind by a worker that stopped or died is never worked on and
\* never acknowledged, whoever restarts (ConsumeSummaryJobs reads ">").
THEOREM OrphansRemain == Spec => OrphansStay
<1>1. ASSUME IndInv, Next, NEW e \in Orphans PROVE e \in Orphans'
  <2>1. e \in pending /\ \A v \in Worker : e \notin Batch(v)
    BY <1>1 DEF Orphans
  <2>2. e \in Nat /\ delivered \in Nat /\ e <= delivered
    BY <1>1, <2>1 DEF IndInv, TypeOK, DeliveryBounds
  <2>3. CASE \E r \in Request : RequestStep(r)
    BY <2>1, <2>3 DEF RequestStep, Enqueue, EnqueueFails, Respond, groupVars, workerVars,
       Orphans, Batch
  <2>4. CASE \E w \in Worker : WorkerStep(w) \/ Crash(w) \/ Restart(w)
    <3>1. PICK w \in Worker : WorkerStep(w) \/ Crash(w) \/ Restart(w)
      BY <2>4
    <3>2. \A v \in Worker : e \notin Batch(v)'
      BY <1>1, <2>1, <2>2, <3>1, BatchStep
    <3>3. e \in pending'
      BY <1>1, <2>1, <3>1, BatchStep
    <3>4. QED
      BY <3>2, <3>3 DEF Orphans
  <2>5. QED
    BY <1>1, <2>3, <2>4 DEF Next
<1>2. IndInv /\ [Next]_vars => [Orphans \subseteq Orphans']_vars
  BY <1>1
<1>3. QED
  BY <1>2, Inductive, PTL DEF Spec, OrphansStay

----------------------------------------------------------------------------
(* SummaryWorker implements JobBoard *)

\* The phases of the entries form a sequence as long as the stream.
PhaseShape ==
  /\ Len(stream) \in Nat /\ DOMAIN stream = 1..Len(stream)
  /\ Phase \in Seq({"queued", "taken", "done"})
  /\ Len(Phase) = Len(stream) /\ DOMAIN Phase = 1..Len(stream)
  /\ \A e \in 1..Len(stream) : Phase[e] = PhaseOf(e)

\* Every entry of the stream is in a phase of the job board.
LEMMA PhaseFacts == IndInv => PhaseShape
<1> SUFFICES ASSUME IndInv PROVE PhaseShape
  OBVIOUS
<1>1. Len(stream) \in Nat /\ DOMAIN stream = 1..Len(stream) /\ delivered \in Nat
  BY StreamFacts DEF IndInv, Entries, TypeOK
<1>2. \A e \in 1..Len(stream) : PhaseOf(e) \in {"queued", "taken", "done"}
  BY <1>1 DEF PhaseOf
<1>3. Phase = [e \in 1..Len(stream) |-> PhaseOf(e)]
  BY <1>1 DEF Phase, Entries
<1>4. QED
  BY <1>1, <1>2, <1>3 DEF PhaseShape

\* At first the board is empty.
LEMMA InitBoard == Init => Board!Init
<1> SUFFICES ASSUME Init PROVE Board!Init
  OBVIOUS
<1>1. stream = << >> /\ written = {}
  BY DEF Init
<1>2. Phase = << >>
  <2>1. IndInv /\ Len(stream) = 0
    BY <1>1, InitIndInv
  <2>2. Phase \in Seq({"queued", "taken", "done"}) /\ Len(Phase) = 0
    BY <2>1, PhaseFacts DEF PhaseShape
  <2>3. QED
    BY <2>2
<1>3. QED
  BY <1>1, <1>2 DEF Board!Init

\* Neither the stream nor the group nor a summary changes.
LEMMA BoardStutters ==
  ASSUME UNCHANGED <<stream, delivered, pending, written>>
  PROVE  UNCHANGED Board!vars
<1>1. Phase' = Phase
  BY DEF Phase, PhaseOf, Entries
<1>2. QED
  BY <1>1 DEF Board!vars

\* XADD is Submit.
LEMMA BoardSubmits ==
  ASSUME IndInv, IndInv', NEW job \in Job, stream' = Append(stream, job),
         UNCHANGED <<delivered, pending, written>>
  PROVE  Board!Submit(job)
<1>1. /\ Len(stream) \in Nat /\ Phase \in Seq({"queued", "taken", "done"})
      /\ Len(Phase) = Len(stream)
      /\ \A e \in 1..Len(stream) : Phase[e] = PhaseOf(e)
  BY PhaseFacts DEF PhaseShape
<1>2. /\ Phase' \in Seq({"queued", "taken", "done"}) /\ Len(Phase') = Len(stream')
      /\ \A e \in 1..Len(stream') : Phase'[e] = PhaseOf(e)'
  <2>1. PhaseShape'
    BY PhaseFacts, PTL
  <2>2. QED
    BY <2>1 DEF PhaseShape
<1>3. Len(stream') = Len(stream) + 1
  BY DEF IndInv, TypeOK
<1>4. delivered \in Nat /\ delivered <= Len(stream)
  BY DEF IndInv, TypeOK, DeliveryBounds
<1>5. \A e \in 1..Len(stream) : Phase'[e] = Phase[e]
  <2>1. \A e \in 1..Len(stream) : e \in 1..Len(stream')
    BY <1>1, <1>3
  <2>2. \A e \in 1..Len(stream) : PhaseOf(e)' = PhaseOf(e)
    BY DEF PhaseOf
  <2>3. QED
    BY <1>1, <1>2, <2>1, <2>2
<1>6. Phase'[Len(stream) + 1] = "queued"
  BY <1>1, <1>2, <1>3, <1>4 DEF PhaseOf
<1>7. Phase' = Append(Phase, "queued")
  BY <1>1, <1>2, <1>3, <1>5, <1>6
<1>8. QED
  BY <1>7 DEF Board!Submit

\* XREADGROUP is Take.
LEMMA BoardTakes ==
  ASSUME IndInv, IndInv', NEW n \in Entries, Deliver(n), UNCHANGED <<stream, written>>
  PROVE  Board!Take(n)
<1>1. /\ Len(stream) \in Nat /\ DOMAIN Phase = 1..Len(stream)
      /\ \A e \in 1..Len(stream) : Phase[e] = PhaseOf(e)
      /\ DOMAIN stream = 1..Len(stream)
  BY PhaseFacts DEF PhaseShape
<1>2. /\ DOMAIN Phase' = 1..Len(stream)
      /\ \A e \in 1..Len(stream) : Phase'[e] = PhaseOf(e)'
      /\ Phase' \in Seq({"queued", "taken", "done"}) /\ Len(Phase') = Len(stream)
  <2>1. PhaseShape'
    BY PhaseFacts, PTL
  <2>2. QED
    BY <2>1 DEF PhaseShape
<1>3. /\ n \in 1..Len(stream) /\ delivered < n /\ delivered' = n
      /\ pending' = pending \cup (delivered + 1)..n
  BY <1>1, DeliverInv DEF Entries
<1>4. delivered \in Nat /\ pending \subseteq 1..delivered
  BY DEF IndInv, TypeOK, DeliveryBounds
<1>5. Phase[n] = "queued"
  BY <1>1, <1>3, <1>4 DEF PhaseOf
<1>6. \A e \in 1..Len(stream) :
        Phase'[e] = IF e <= n /\ Phase[e] = "queued" THEN "taken" ELSE Phase[e]
  <2> SUFFICES ASSUME NEW e \in 1..Len(stream)
               PROVE Phase'[e] = IF e <= n /\ Phase[e] = "queued" THEN "taken" ELSE Phase[e]
    OBVIOUS
  <2>1. Phase[e] = PhaseOf(e) /\ Phase'[e] = PhaseOf(e)'
    BY <1>1, <1>2
  <2>2. CASE e <= delivered
    BY <1>3, <1>4, <2>1, <2>2 DEF PhaseOf
  <2>3. CASE e > delivered /\ e <= n
    BY <1>3, <1>4, <2>1, <2>3 DEF PhaseOf
  <2>4. CASE e > n
    BY <1>3, <1>4, <2>1, <2>4 DEF PhaseOf
  <2>5. QED
    BY <1>3, <1>4, <2>2, <2>3, <2>4
<1>7. Phase' = [i \in DOMAIN Phase |->
                  IF i <= n /\ Phase[i] = "queued" THEN "taken" ELSE Phase[i]]
  BY <1>1, <1>2, <1>6
<1>8. QED
  BY <1>1, <1>3, <1>5, <1>7 DEF Board!Take

\* The head of a batch is taken.
LEMMA HeadTaken ==
  ASSUME IndInv, NEW w \in Worker, pc[w] \in Busy
  PROVE  Phase[cur[w]] = "taken" /\ cur[w] \in DOMAIN stream /\ cur[w] \in DOMAIN Phase
<1>1. /\ cur[w] \in 1..Len(stream) /\ cur[w] \in pending /\ cur[w] \in 1..delivered
  BY HeadFacts
<1>2. delivered \in Nat
  BY DEF IndInv, TypeOK
<1>3. PhaseOf(cur[w]) = "taken"
  BY <1>1, <1>2 DEF PhaseOf
<1>4. QED
  BY <1>1, <1>3, PhaseFacts DEF PhaseShape

\* SET of a summary key is Write.
LEMMA BoardWrites ==
  ASSUME IndInv, NEW w \in Worker, pc[w] = "save", HasNextRef(w),
         Accepts(NextRef(w), stream[cur[w]]),
         written' = written \cup {<<cur[w], NextRef(w)>>},
         UNCHANGED <<stream, delivered, pending>>
  PROVE  /\ saved[w] + 1 \in DOMAIN stream[cur[w]].refs
         /\ cur[w] \in DOMAIN stream
         /\ Board!Write(cur[w], saved[w] + 1)
<1>1. pc[w] \in Busy
  BY DEF Busy
<1>2. Phase[cur[w]] = "taken" /\ cur[w] \in DOMAIN stream
  BY <1>1, HeadTaken
<1>3. saved[w] \in Nat /\ \A k \in 1..saved[w] : <<cur[w], stream[cur[w]].refs[k]>> \in written
  BY <1>1 DEF IndInv, TypeOK, SavedSoFar
<1>4. /\ Len(stream[cur[w]].refs) \in Nat
      /\ DOMAIN stream[cur[w]].refs = 1..Len(stream[cur[w]].refs)
  BY <1>1, HeadFacts, EntryFacts DEF IndInv
<1>5. saved[w] + 1 \in DOMAIN stream[cur[w]].refs
  BY <1>3, <1>4 DEF HasNextRef
<1>6. Board!Written(cur[w], stream[cur[w]].refs, (saved[w] + 1) - 1)
  BY <1>3 DEF Board!Written
<1>7. stream[cur[w]].refs[saved[w] + 1].hash = stream[cur[w]].hash
  BY DEF Accepts, NextRef
<1>8. Phase' = Phase
  BY DEF Phase, PhaseOf, Entries
<1>9. QED
  BY <1>2, <1>5, <1>6, <1>7, <1>8 DEF Board!Write, NextRef

\* XACK is Finish.
LEMMA BoardFinishes ==
  ASSUME IndInv, IndInv', NEW w \in Worker, pc[w] = "save", ~HasNextRef(w),
         pending' = pending \ {cur[w]},
         UNCHANGED <<stream, delivered, written>>
  PROVE  cur[w] \in DOMAIN stream /\ Board!Finish(cur[w])
<1>1. pc[w] \in Busy
  BY DEF Busy
<1>2. /\ Phase[cur[w]] = "taken" /\ cur[w] \in DOMAIN stream /\ cur[w] \in DOMAIN Phase
      /\ cur[w] \in pending /\ cur[w] \in 1..delivered /\ delivered \in Nat
  BY <1>1, HeadTaken, HeadFacts DEF IndInv, TypeOK
<1>3. Board!Written(cur[w], stream[cur[w]].refs, Len(stream[cur[w]].refs))
  <2>1. DOMAIN stream[cur[w]].refs = 1..Len(stream[cur[w]].refs)
    BY <1>1, HeadFacts, EntryFacts DEF IndInv
  <2>2. QED
    BY <2>1, HeadWritten DEF Board!Written
<1>4. Phase' = [Phase EXCEPT ![cur[w]] = "done"]
  <2>1. \A e \in DOMAIN stream : Phase[e] = PhaseOf(e) /\ Phase'[e] = PhaseOf(e)'
    BY DEF Phase, Entries
  <2>2. Phase'[cur[w]] = "done"
    BY <1>2, <2>1 DEF PhaseOf
  <2>3. \A e \in DOMAIN stream : e # cur[w] => Phase'[e] = Phase[e]
    <3> SUFFICES ASSUME NEW e \in DOMAIN stream, e # cur[w] PROVE PhaseOf(e)' = PhaseOf(e)
      BY <2>1
    <3>1. e \in pending' <=> e \in pending
      OBVIOUS
    <3>2. QED
      BY <3>1 DEF PhaseOf
  <2>4. QED
    BY <2>2, <2>3 DEF Phase, Entries
<1>5. QED
  BY <1>2, <1>3, <1>4 DEF Board!Finish

\* A step of a request posts a job on the board, or nothing.
LEMMA RequestStepBoard ==
  ASSUME IndInv, IndInv', NEW r \in Request, RequestStep(r)
  PROVE  [Board!Next]_(Board!vars)
<1>1. UNCHANGED <<delivered, pending, written>>
  BY DEF RequestStep, Enqueue, EnqueueFails, Respond, groupVars
<1>2. CASE stream' = stream
  BY <1>1, <1>2, BoardStutters
<1>3. CASE \E c \in Chunk : stream' = Append(stream, JobOf(r, c))
  <2>1. PICK c \in Chunk : stream' = Append(stream, JobOf(r, c))
    BY <1>3
  <2>2. JobOf(r, c) \in Job /\ Board!Submit(JobOf(r, c))
    BY <1>1, <2>1, JobOfType, BoardSubmits
  <2>3. QED
    BY <2>2 DEF Board!Next
<1>4. QED
  BY <1>2, <1>3 DEF RequestStep, Enqueue, EnqueueFails, Respond

\* Each step of a worker is a step of the board, or nothing.
LEMMA WorkerStepBoard ==
  ASSUME IndInv, IndInv', NEW w \in Worker, WorkerStep(w) \/ Crash(w) \/ Restart(w)
  PROVE  [Board!Next]_(Board!vars)
<1>1. CASE \/ EnsureGroup(w) \/ EnsureGroupFails(w) \/ Summarize(w) \/ SummarizeFails(w)
           \/ SaveSummaryRefused(w) \/ Crash(w) \/ Restart(w)
  BY <1>1, BoardStutters DEF EnsureGroup, EnsureGroupFails, Summarize, SummarizeFails,
     SaveSummaryRefused, Crash, Restart, groupVars
<1>2. CASE Consume(w) \/ ConsumeFails(w)
  <2>1. UNCHANGED <<stream, written>>
    BY <1>2 DEF Consume, ConsumeFails
  <2>2. CASE \E n \in Entries : Deliver(n)
    BY <2>1, <2>2, BoardTakes DEF Board!Next, Entries
  <2>3. CASE UNCHANGED groupVars
    BY <2>1, <2>3, BoardStutters DEF groupVars
  <2>4. QED
    BY <1>2, <2>2, <2>3 DEF Consume, ConsumeFails
<1>3. CASE SaveSummary(w) \/ SaveSummaryFails(w)
  <2>1. /\ pc[w] = "save" /\ HasNextRef(w) /\ Accepts(NextRef(w), stream[cur[w]])
        /\ UNCHANGED <<stream, delivered, pending>>
    BY <1>3 DEF SaveSummary, SaveSummaryFails, groupVars
  <2>2. CASE written' = written
    BY <2>1, <2>2, BoardStutters
  <2>3. CASE written' = written \cup {<<cur[w], NextRef(w)>>}
    BY <2>1, <2>3, BoardWrites DEF Board!Next
  <2>4. QED
    BY <1>3, <2>2, <2>3 DEF SaveSummary, SaveSummaryFails
<1>4. CASE Ack(w) \/ AckFails(w)
  <2>1. /\ pc[w] = "save" /\ ~HasNextRef(w)
        /\ UNCHANGED <<stream, delivered, written>>
    BY <1>4 DEF Ack, AckFails
  <2>2. CASE pending' = pending
    BY <2>1, <2>2, BoardStutters
  <2>3. CASE pending' = pending \ {cur[w]}
    BY <2>1, <2>3, BoardFinishes DEF Board!Next
  <2>4. QED
    BY <1>4, <2>2, <2>3 DEF Ack, AckFails
<1>5. QED
  BY <1>1, <1>2, <1>3, <1>4 DEF WorkerStep, Progress, CallFails

\* The stream, the consumer group and the workers keep the promises of JobBoard:
\* a job is taken once, in order, written page by page under keys of its own
\* content, and done only when all its pages are written.
THEOREM Implementation == Spec => ImplementsJobBoard
<1>1. ASSUME IndInv, IndInv', Next PROVE [Board!Next]_(Board!vars)
  BY <1>1, RequestStepBoard, WorkerStepBoard DEF Next
<1>2. ASSUME UNCHANGED vars PROVE UNCHANGED Board!vars
  BY <1>2, BoardStutters DEF vars, groupVars
<1>3. IndInv /\ IndInv' /\ [Next]_vars => [Board!Next]_(Board!vars)
  BY <1>1, <1>2
<1>4. QED
  BY <1>3, InitBoard, Inductive, PTL DEF Spec, ImplementsJobBoard, Board!Spec

----------------------------------------------------------------------------
(* The jobs of a request *)

\* An entry of request r adds its ID to those of r, and to nobody else's.
LEMMA IdsAppend ==
  ASSUME TypeOK, NEW r \in Request, NEW job \in Job, stream' = Append(stream, job)
  PROVE  /\ IsSequence(IdsInStream(r))
         /\ IdsInStream(r)' = IF job.request = r THEN Append(IdsInStream(r), job.hash)
                              ELSE IdsInStream(r)
<1> DEFINE I == {e \in Entries : stream[e].request = r}
           mine == Pick(stream, I)
           ids == [i \in DOMAIN mine |-> mine[i].hash]
           next == Pick(stream', I')
           H == {k.hash : k \in Job}
<1>1. /\ stream \in Seq(Job) /\ Len(stream) \in Nat /\ Entries = 1..Len(stream)
      /\ stream' \in Seq(Job) /\ Len(stream') = Len(stream) + 1
      /\ \A i \in 1..Len(stream) : stream'[i] = stream[i]
      /\ stream'[Len(stream) + 1] = job
      /\ Entries' = 1..(Len(stream) + 1)
  BY LenProperties, AppendProperties DEF TypeOK, Entries
<1>2. mine \in Seq(Job)
  BY <1>1, PickFacts
<1>3. next = IF Len(stream) + 1 \in I' THEN Append(mine, job) ELSE mine
  <2>1. \A i \in 1..Len(stream) : i \in I <=> i \in I'
    BY <1>1
  <2> HIDE DEF I
  <2>2. QED
    BY <1>1, <2>1, PickAppend
<1>4. Len(stream) + 1 \in I' <=> job.request = r
  BY <1>1
<1>5. IdsInStream(r) = ids /\ IdsInStream(r)' = [i \in DOMAIN next |-> next[i].hash]
  BY DEF IdsInStream
<1> HIDE DEF mine, next, I
<1>6. ids \in Seq(H)
  BY <1>2
<1>7. CASE job.request = r
  <2>1. next = Append(mine, job)
    BY <1>3, <1>4, <1>7
  <2>2. [i \in DOMAIN next |-> next[i].hash] = Append(ids, job.hash)
    BY <1>2, <2>1
  <2>3. QED
    BY <1>5, <1>6, <1>7, <2>2, SequenceOfItsElements
<1>8. CASE job.request # r
  BY <1>3, <1>4, <1>5, <1>6, <1>8, SequenceOfItsElements
<1>9. QED
  BY <1>7, <1>8

\* Without its last element, a list is what it was before that was appended.
LEMMA FrontFacts ==
  ASSUME NEW s, IsSequence(s), NEW e
  PROVE  SubSeq(Append(s, e), 1, Len(s)) = s
BY DEF IsSequence

\* Answers and stream unchanged, the IDs are where they were.
LEMMA IdsStay ==
  ASSUME UNCHANGED <<stream, requestVars>>, ResponseIdsInStream
  PROVE  ResponseIdsInStream'
<1>1. \A r \in Request : IdsInStream(r)' = IdsInStream(r)
  BY DEF IdsInStream, Entries
<1>2. QED
  BY <1>1 DEF ResponseIdsInStream, requestVars

\* The job IDs that a response reports are its jobs in the stream, one for one and in
\* order; a request that failed may have left one more
\* (AutoCompactAsyncProcessor.Process).
THEOREM ResponsesNameTheirJobs == Spec => []ResponseIdsInStream
<1>1. Init => ResponseIdsInStream
  <2> SUFFICES ASSUME Init, NEW r \in Request PROVE queued[r] = IdsInStream(r)
    BY DEF ResponseIdsInStream
  <2>1. stream \in Seq(Job) /\ Len(stream) = 0
    BY EmptySeq DEF Init
  <2> DEFINE mine == Pick(stream, {e \in Entries : stream[e].request = r})
  <2>2. mine \in Seq(Job) /\ Len(mine) <= 0
    BY <2>1, PickFacts
  <2>3. IdsInStream(r) = [i \in DOMAIN mine |-> mine[i].hash]
    BY DEF IdsInStream
  <2> HIDE DEF mine
  <2>4. mine = << >>
    BY <2>2, LenProperties, EmptySeq
  <2>5. QED
    BY <2>3, <2>4 DEF Init
<1>2. TypeOK /\ ResponseIdsInStream /\ [Next]_vars => ResponseIdsInStream'
  <2> SUFFICES ASSUME TypeOK, ResponseIdsInStream, [Next]_vars
               PROVE  ResponseIdsInStream'
    OBVIOUS
  <2>1. CASE UNCHANGED <<stream, requestVars>>
    BY <2>1, IdsStay
  <2>2. ASSUME NEW r \in Request, NEW c \in Chunk, Enqueue(r, c)
        PROVE  ResponseIdsInStream'
    <3> DEFINE job == JobOf(r, c)
    <3>1. job \in Job /\ job.request = r
      BY JobOfType DEF JobOf
    <3>2. /\ stream' = Append(stream, job) /\ status' = status /\ status[r] = "running"
          /\ queued' = [queued EXCEPT ![r] = Append(@, job.hash)]
      BY <2>2 DEF Enqueue
    <3> HIDE DEF job
    <3>3. queued'[r] = Append(queued[r], job.hash)
          /\ \A s \in Request \ {r} : queued'[s] = queued[s]
      BY <3>2 DEF TypeOK
    <3>4. queued[r] = IdsInStream(r)
      BY <3>2 DEF ResponseIdsInStream
    <3>5. queued'[r] = IdsInStream(r)'
      BY <3>1, <3>2, <3>3, <3>4, IdsAppend
    <3>6. \A s \in Request \ {r} : IdsInStream(s)' = IdsInStream(s)
      BY <3>1, <3>2, IdsAppend
    <3>7. QED
      BY <3>2, <3>3, <3>5, <3>6 DEF ResponseIdsInStream
  <2>3. ASSUME NEW r \in Request, NEW c \in Chunk, EnqueueFails(r, c)
        PROVE  ResponseIdsInStream'
    <3> DEFINE job == JobOf(r, c)
    <3>1. job \in Job /\ job.request = r
      BY JobOfType DEF JobOf
    <3>2. /\ stream' \in {stream, Append(stream, job)} /\ queued' = queued
          /\ status[r] = "running" /\ status' = [status EXCEPT ![r] = "failed"]
      BY <2>3 DEF EnqueueFails
    <3> HIDE DEF job
    <3>3. queued[r] = IdsInStream(r)
      BY <3>2 DEF ResponseIdsInStream
    <3>4. status'[r] = "failed" /\ \A s \in Request \ {r} : status'[s] = status[s]
      BY <3>2 DEF TypeOK
    <3>5. CASE stream' = stream
      <4>1. \A s \in Request : IdsInStream(s)' = IdsInStream(s)
        BY <3>5 DEF IdsInStream, Entries
      <4>2. QED
        BY <3>2, <3>3, <3>4, <4>1 DEF ResponseIdsInStream
    <3>6. CASE stream' = Append(stream, job)
      <4>1. \A s \in Request \ {r} : IdsInStream(s)' = IdsInStream(s)
        BY <3>1, <3>6, IdsAppend
      <4>2. IsSequence(IdsInStream(r)) /\ IdsInStream(r)' = Append(IdsInStream(r), job.hash)
        BY <3>1, <3>6, IdsAppend
      <4>3. /\ Len(IdsInStream(r)') > 0
            /\ SubSeq(IdsInStream(r)', 1, Len(IdsInStream(r)') - 1) = IdsInStream(r)
        BY <4>2, AppendFacts, FrontFacts
      <4>4. QED
        BY <3>2, <3>3, <3>4, <4>1, <4>3 DEF ResponseIdsInStream
    <3>7. QED
      BY <3>2, <3>5, <3>6
  <2>4. ASSUME NEW r \in Request, Respond(r)
        PROVE  ResponseIdsInStream'
    <3>1. \A s \in Request : IdsInStream(s)' = IdsInStream(s)
      BY <2>4 DEF IdsInStream, Entries, Respond
    <3>2. \A s \in Request : status[s] = "failed" => status'[s] = "failed"
      BY <2>4 DEF Respond, TypeOK
    <3>3. QED
      BY <2>4, <3>1, <3>2 DEF ResponseIdsInStream, Respond
  <2>5. ASSUME NEW w \in Worker, WorkerStep(w) \/ Crash(w) \/ Restart(w)
        PROVE  UNCHANGED <<stream, requestVars>>
    BY <2>5 DEF WorkerStep, Progress, CallFails, EnsureGroup, Consume, Summarize, SummarizeFails,
                SaveSummary, SaveSummaryRefused, Ack, EnsureGroupFails, ConsumeFails,
                SaveSummaryFails, AckFails, Crash, Restart
  <2>6. QED
    BY <2>1, <2>2, <2>3, <2>4, <2>5 DEF Next, RequestStep, vars
<1>3. QED
  BY <1>1, <1>2, TypeCorrect, PTL DEF Spec
=============================================================================
