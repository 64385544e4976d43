--------------------------- MODULE RefinerProofs ----------------------------
(***************************************************************************)
(* Proofs about Refiner, for every number of calls, readers and pages,     *)
(* every TTL and any number of restarts: the types, that a signal costs no *)
(* gRPC call its answer, that replies hold what they promise, that a page  *)
(* is missed only when its time was over, and that a summary that is paged *)
(* in was made of the text that was paged out.                             *)
(***************************************************************************)
EXTENDS Refiner, SequenceTheorems, TLAPS

Main == {"down", "loading", "serving", "closing", "flushing"}
Server == {"off", "up", "draining"}
Outcome == {"none", "asking", "done", "missing", "failed"}
Over == {"new", "replied", "failed", "refused", "cut", "killed"}
CallRecord == [pc : AtWork \cup Over, n : Nat, kept : SUBSET [key : Key, at : Nat]]
WorkerRecord == [pc : {"off", "idle", "busy"}, job : Nat, saved : Nat]

\* A call that found a page there is at one of its pages.
AtPage == \A c \in Call : call[c].pc = "expire" => HasNextPage(c)

\* Every job has a phase, and the worker is at one of the jobs.
AtJob == /\ Len(phase) = Len(jobs)
         /\ worker.pc = "busy" => worker.job \in 1..Len(jobs)

\* The next page of a call is one of its pages.
LEMMA NextKeyType ==
  ASSUME TypeOK, NEW c \in Call, HasNextPage(c)
  PROVE  NextKey(c) \in Key /\ call[c].n \in Nat
<1>1. call[c].n \in Nat /\ Doc[c].pages \in Nat
  BY DocAssumption DEF TypeOK
<1>2. call[c].n + 1 \in 1..Doc[c].pages
  BY <1>1 DEF HasNextPage
<1>3. QED
  BY <1>1, <1>2 DEF NextKey, Key

\* The keys a job names are keys.
LEMMA RefsType ==
  ASSUME NEW c \in Call
  PROVE  Refs(Doc[c]) \in Seq(Key) /\ Len(Refs(Doc[c])) = Doc[c].pages
<1>1. Doc[c].pages \in Nat
  BY DocAssumption
<1>2. \A n \in 1..Doc[c].pages : PageKey(Doc[c], n) \in Key
  BY DEF Key
<1>3. QED
  BY <1>1, <1>2 DEF Refs

\* The references of a job are keys.
LEMMA JobType ==
  ASSUME NEW job \in Job
  PROVE  job.refs \in Seq(Key)
BY RefsType DEF Job, JobOf

\* Calls that the gone process leaves behind.
LEMMA CallsGone ==
  ASSUME TypeOK, NEW how \in {"cut", "killed"}, Gone(how)
  PROVE  TypeOK'
<1>1. call' \in [Call -> CallRecord]
  <2>1. \A c \in Call : call[c] \in CallRecord /\ Ended(how) \in CallRecord
    BY DEF TypeOK, CallRecord, Over, AtWork, Ended, NewCall
  <2>2. QED
    BY <2>1 DEF Gone
<1>2. outcome' \in [Reader -> Outcome]
  BY DEF TypeOK, Gone, Outcome
<1>3. NothingOutlives'
  <2>1. \A c \in Call : ~Running(c)'
    BY DEF Gone, Running, Ended, NewCall, AtWork
  <2>2. \A r \in Reader : ~Asking(r)'
    BY DEF Gone, Asking
  <2>3. QED
    BY <2>1, <2>2 DEF Gone, NothingOutlives
<1>4. worker' \in WorkerRecord
  BY DEF Gone, NoWorker, WorkerRecord
<1>5. QED
  BY <1>1, <1>2, <1>3, <1>4 DEF TypeOK, Gone, boardVars, CallRecord, Over, WorkerRecord, Outcome

\* Nothing but the process, its worker and its servers changes.
LEMMA ProcessType ==
  ASSUME TypeOK, ProcessStep
  PROVE  TypeOK'
<1> USE DEF TypeOK, NothingOutlives, pagerVars, boardVars, Running, Asking, NoWorker
<1>1. CASE Start
  BY <1>1 DEF Start
<1>2. CASE Load
  BY <1>2 DEF Load
<1>3. CASE LoadFails
  BY <1>3 DEF LoadFails
<1>4. CASE Signal
  BY <1>4 DEF Signal
<1>5. CASE StopHttp
  BY <1>5 DEF StopHttp
<1>6. CASE StopGrpc
  BY <1>6 DEF StopGrpc
<1>7. CASE ServeReturns
  BY <1>7 DEF ServeReturns
<1>8. CASE CloseRedis
  BY <1>8 DEF CloseRedis
<1>9. CASE Exit \/ Kill
  BY <1>9, CallsGone DEF Exit, Kill
<1>10. QED
  BY <1>1, <1>2, <1>3, <1>4, <1>5, <1>6, <1>7, <1>8, <1>9 DEF ProcessStep, ShutDown

\* A page is stored or extended.
LEMMA PageType ==
  ASSUME TypeOK, NEW k \in Key, Pages!Store(k, k.hash) \/ Pages!Extend(k)
  PROVE  page' \in [Key -> [text : Text, exp : Nat]] /\ now' = now
<1>1. k.hash \in Text
  BY DEF Key, PageKey, Text
<1>2. now + PageTTL \in Nat
  BY TTLAssumption DEF TypeOK
<1>3. page \in [Key -> [text : Text, exp : Nat]]
  BY DEF TypeOK
<1>4. CASE Pages!Store(k, k.hash)
  BY <1>1, <1>2, <1>3, <1>4 DEF Pages!Store
<1>5. CASE Pages!Extend(k)
  <2>1. page' = [page EXCEPT ![k].exp = now + PageTTL] /\ now' = now
    BY <1>5 DEF Pages!Extend
  <2>2. [page[k] EXCEPT !.exp = now + PageTTL] \in [text : Text, exp : Nat]
    BY <1>2, <1>3
  <2>3. QED
    BY <1>3, <2>1, <2>2
<1>6. QED
  BY <1>4, <1>5

\* A job is queued.
LEMMA JobsType ==
  ASSUME TypeOK, NEW c \in Call, Board!Submit(JobOf(c))
  PROVE  /\ jobs' \in Seq(Job) /\ phase' \in Seq({"queued", "taken", "done"})
         /\ written' = written
BY DEF TypeOK, Board!Submit, Job

\* A call that is not over takes a step of its own.
LEMMA CallType ==
  ASSUME TypeOK, NEW c \in Call, Running(c), main \notin {"down", "loading"},
         NEW record \in CallRecord, call' = [call EXCEPT ![c] = record],
         page' \in [Key -> [text : Text, exp : Nat]], now' \in Nat,
         jobs' \in Seq(Job), phase' \in Seq({"queued", "taken", "done"}), written' = written,
         UNCHANGED <<asked, got, outcome, processVars, worker>>
  PROVE  TypeOK'
BY DEF TypeOK, processVars, NothingOutlives, CallRecord, Over

\* A call that runs is no call of a process that is gone.
LEMMA RunningServed ==
  ASSUME TypeOK, NEW c \in Call, Running(c)
  PROVE  main \notin {"down", "loading"}
BY DEF TypeOK, NothingOutlives

\* What the steps of a call make of its record.
LEMMA CallRecords ==
  ASSUME TypeOK, NEW c \in Call
  PROVE  /\ call[c] \in CallRecord
         /\ \A pc \in AtWork \cup Over : [call[c] EXCEPT !.pc = pc] \in CallRecord
         /\ \A how \in Over : Ended(how) \in CallRecord
         /\ HasNextPage(c) => Kept(c) \in CallRecord /\ Unkept(c) \in CallRecord
<1>1. call[c] \in CallRecord /\ now \in Nat
  BY DEF TypeOK, CallRecord, Over
<1>2. \A how \in Over : Ended(how) \in CallRecord
  BY DEF Ended, NewCall, CallRecord, AtWork
<1>3. ASSUME HasNextPage(c) PROVE Kept(c) \in CallRecord /\ Unkept(c) \in CallRecord
  <2>1. [key |-> NextKey(c), at |-> now] \in [key : Key, at : Nat]
    BY <1>1, <1>3, NextKeyType
  <2>2. call[c].n + 1 \in Nat
    BY <1>1 DEF CallRecord
  <2>3. QED
    BY <1>1, <2>1, <2>2 DEF Kept, Unkept, CallRecord, AtWork
<1>4. QED
  BY <1>1, <1>2, <1>3 DEF CallRecord

\* The record of a call after a step of its own.
Stepped(c, record) ==
  \/ record \in {Kept(c), Unkept(c), Ended("failed")}
  \/ record = [call[c] EXCEPT !.pc = "expire"] /\ HasNextPage(c)
  \/ record = [call[c] EXCEPT !.pc = "reply"] /\ call[c].pc = "paging"
  \/ record = [call[c] EXCEPT !.pc = "replied"] /\ call[c].pc = "reply"

\* A step of RefineChunk changes the record of its own call only.
LEMMA RefineCall ==
  ASSUME TypeOK, NEW c \in Call, RefineStep(c) \/ RefineFails(c)
  PROVE  /\ Running(c) /\ Stepped(c, call'[c])
         /\ \A d \in Call : d # c => call'[d] = call[d]
<1>1. \A record : call' = [call EXCEPT ![c] = record] =>
        call'[c] = record /\ \A d \in Call : d # c => call'[d] = call[d]
  BY DEF TypeOK
<1>2. \A pc : [call EXCEPT ![c].pc = pc] = [call EXCEPT ![c] = [call[c] EXCEPT !.pc = pc]]
  BY DEF TypeOK
<1>3. CASE StorePage(c) \/ ExtendPage(c) \/ ExtendNothing(c)
  <2>1. call' = [call EXCEPT ![c] = Kept(c)] \/ call' = [call EXCEPT ![c] = Unkept(c)]
    BY <1>3 DEF StorePage, ExtendPage, ExtendNothing
  <2>2. Running(c)
    BY <1>3 DEF StorePage, ExtendPage, ExtendNothing, Running, AtWork
  <2>3. QED
    BY <1>1, <2>1, <2>2 DEF Stepped
<1>4. CASE FindPage(c)
  BY <1>1, <1>2, <1>4 DEF FindPage, Running, AtWork, Stepped
<1>5. CASE Queue(c)
  BY <1>1, <1>2, <1>5 DEF Queue, Running, AtWork, Stepped
<1>6. CASE Reply(c)
  BY <1>1, <1>2, <1>6 DEF Reply, Running, AtWork, Stepped
<1>7. CASE RefineFails(c)
  BY <1>1, <1>7 DEF RefineFails, Running, AtWork, Stepped
<1>8. QED
  BY <1>3, <1>4, <1>5, <1>6, <1>7 DEF RefineStep

\* It keeps the types.
LEMMA RefineType ==
  ASSUME TypeOK, AtPage, NEW c \in Call, RefineStep(c) \/ RefineFails(c)
  PROVE  TypeOK'
<1>1. Running(c)
  BY DEF RefineStep, RefineFails, StorePage, FindPage, ExtendPage, ExtendNothing, Queue,
         Reply, Running, AtWork
<1>2. main \notin {"down", "loading"}
  BY <1>1, RunningServed
<1>3. /\ page \in [Key -> [text : Text, exp : Nat]] /\ now \in Nat
      /\ jobs \in Seq(Job) /\ phase \in Seq({"queued", "taken", "done"})
      /\ UNCHANGED <<asked, got, outcome, processVars, worker>>
  BY DEF TypeOK, RefineStep, RefineFails, StorePage, FindPage, ExtendPage, ExtendNothing, Queue,
         Reply, pagerVars, Pages!Store, Pages!Extend, Pages!readerVars
<1>4. CASE StorePage(c)
  BY <1>1, <1>2, <1>3, <1>4, PageType, NextKeyType, CallRecords, CallType
     DEF StorePage, boardVars
<1>5. CASE FindPage(c)
  BY <1>1, <1>2, <1>3, <1>5, CallRecords, CallType DEF FindPage, pagerVars, boardVars, AtWork
<1>6. CASE ExtendPage(c)
  <2>1. HasNextPage(c)
    BY <1>6 DEF AtPage, ExtendPage
  <2>2. QED
    BY <1>1, <1>2, <1>3, <1>6, <2>1, PageType, NextKeyType, CallRecords, CallType
       DEF ExtendPage, boardVars
<1>7. CASE ExtendNothing(c)
  <2>1. HasNextPage(c)
    BY <1>7 DEF AtPage, ExtendNothing
  <2>2. QED
    BY <1>1, <1>2, <1>3, <1>7, <2>1, CallRecords, CallType
       DEF ExtendNothing, pagerVars, boardVars
<1>8. CASE Queue(c)
  BY <1>1, <1>2, <1>3, <1>8, JobsType, CallRecords, CallType
     DEF Queue, pagerVars, boardVars, AtWork
<1>9. CASE Reply(c)
  BY <1>1, <1>2, <1>3, <1>9, CallRecords, CallType DEF Reply, pagerVars, boardVars, Over
<1>10. CASE RefineFails(c)
  <2>1. call' = [call EXCEPT ![c] = Ended("failed")] /\ Ended("failed") \in CallRecord
    BY <1>10, CallRecords DEF RefineFails, Over
  <2>2. page' \in [Key -> [text : Text, exp : Nat]] /\ now' = now
    BY <1>3, <1>10, PageType, NextKeyType DEF RefineFails, pagerVars
  <2>3. jobs' \in Seq(Job) /\ phase' \in Seq({"queued", "taken", "done"}) /\ written' = written
    BY <1>3, <1>10, JobsType DEF RefineFails, boardVars
  <2>4. QED
    BY <1>1, <1>2, <1>3, <2>1, <2>2, <2>3, CallType
<1>11. QED
  BY <1>4, <1>5, <1>6, <1>7, <1>8, <1>9, <1>10 DEF RefineStep
\* What a reader asked for are keys, or nothing.
LEMMA ReaderType ==
  ASSUME TypeOK, NEW r \in Reader,
         (\E c \in Call : Ask(r, c)) \/ Answer(r) \/ PageInFails(r)
  PROVE  TypeOK'
<1>1. /\ asked' \in [Reader -> Asked \cup {<< >>}] /\ outcome' \in [Reader -> Outcome]
      /\ UNCHANGED <<now, page, boardVars, processVars, worker, call>>
      /\ \A q \in Reader \ {r} : outcome'[q] = outcome[q]
  <2>1. asked \in [Reader -> Asked \cup {<< >>}] /\ outcome \in [Reader -> Outcome]
    BY DEF TypeOK, Outcome
  <2>2. \A c \in Call : Refs(Doc[c]) \in Asked
    BY DEF Asked
  <2>3. CASE \E c \in Call : Ask(r, c)
    BY <2>1, <2>2, <2>3 DEF Ask, Pages!Ask, Outcome
  <2>4. CASE Answer(r)
    BY <2>1, <2>4 DEF Answer, Pages!AnswerSummary, Pages!AnswerPage, Pages!Answer, Pages!Miss,
                      Outcome
  <2>5. CASE PageInFails(r)
    BY <2>1, <2>5 DEF PageInFails, Pages!Fail, Outcome
  <2>6. QED
    BY <2>3, <2>4, <2>5
<1>2. main \notin {"down", "loading"}
  BY DEF TypeOK, NothingOutlives, Ask, Answer, PageInFails, Asking, Connected, Pages!Fail
<1>3. QED
  BY <1>1, <1>2 DEF TypeOK, NothingOutlives, boardVars, processVars, Outcome

\* The page the worker is at.
LEMMA NextRefType ==
  ASSUME TypeOK, AtJob, worker.pc = "busy"
  PROVE  /\ worker.job \in 1..Len(jobs) /\ jobs[worker.job] \in Job /\ worker.saved \in Nat
         /\ HasNextRef => MyRefs[worker.saved + 1] \in Key
<1>1. worker.job \in 1..Len(jobs) /\ jobs \in Seq(Job) /\ worker.saved \in Nat
  BY DEF TypeOK, AtJob
<1>2. jobs[worker.job] \in Job
  BY <1>1
<1>3. MyRefs \in Seq(Key)
  BY <1>2, JobType DEF MyRefs
<1>4. ASSUME HasNextRef PROVE MyRefs[worker.saved + 1] \in Key
  <2>1. worker.saved + 1 \in 1..Len(MyRefs)
    BY <1>1, <1>3, <1>4 DEF HasNextRef
  <2>2. QED
    BY <1>3, <2>1
<1>5. QED
  BY <1>1, <1>2, <1>4

\* A sequence of phases stays one when jobs are taken or finished.
LEMMA PhaseType ==
  ASSUME TypeOK, AtJob, NEW i \in 1..Len(jobs), Board!Take(i) \/ Board!Finish(i)
  PROVE  phase' \in Seq({"queued", "taken", "done"}) /\ Len(phase') = Len(phase)
<1>1. phase \in Seq({"queued", "taken", "done"}) /\ i \in 1..Len(phase)
  BY DEF TypeOK, AtJob
<1>2. \A n \in 1..Len(phase) : phase[n] \in {"queued", "taken", "done"}
  BY <1>1
<1>3. CASE Board!Take(i)
  <2>1. phase' = [n \in 1..Len(phase) |->
                    IF n <= i /\ phase[n] = "queued" THEN "taken" ELSE phase[n]]
    BY <1>1, <1>3 DEF Board!Take
  <2>2. \A n \in 1..Len(phase) :
          (IF n <= i /\ phase[n] = "queued" THEN "taken" ELSE phase[n])
            \in {"queued", "taken", "done"}
    BY <1>2
  <2>3. Len(phase) \in Nat
    BY <1>1
  <2>4. QED
    BY <2>1, <2>2, <2>3
<1>4. CASE Board!Finish(i)
  BY <1>1, <1>4 DEF Board!Finish
<1>5. QED
  BY <1>3, <1>4

\* The worker takes, writes, finishes or stops.
LEMMA WorkerType ==
  ASSUME TypeOK, AtJob, WorkerStep
  PROVE  /\ jobs' = jobs /\ worker' \in WorkerRecord
         /\ UNCHANGED <<pagerVars, processVars, call>>
         /\ phase' \in Seq({"queued", "taken", "done"}) /\ written' \subseteq Nat \X Key
         /\ Len(phase') = Len(phase) /\ worker.pc # "off"
         /\ worker'.pc = "busy" => worker'.job \in 1..Len(jobs)
<1>1. /\ phase \in Seq({"queued", "taken", "done"}) /\ written \subseteq Nat \X Key
      /\ jobs \in Seq(Job) /\ worker \in WorkerRecord
  BY DEF TypeOK, WorkerRecord
<1>2. ASSUME NEW i \in DOMAIN jobs, Take(i)
      PROVE  /\ jobs' = jobs /\ UNCHANGED <<pagerVars, processVars, call>>
             /\ written' = written /\ worker.pc = "idle" /\ i \in 1..Len(jobs)
             /\ worker' = [pc |-> "busy", job |-> i, saved |-> 0]
             /\ phase' \in Seq({"queued", "taken", "done"}) /\ Len(phase') = Len(phase)
  <2>1. i \in 1..Len(jobs) /\ Board!Take(i)
    BY <1>1, <1>2 DEF Take
  <2>2. QED
    BY <1>2, <2>1, PhaseType DEF Take, Board!Take
<1>3. CASE Write
  <2>1. worker.job \in Nat /\ MyRefs[worker.saved + 1] \in Key
    BY <1>1, <1>3, NextRefType DEF Write
  <2>2. /\ written' = written \cup {<<worker.job, MyRefs[worker.saved + 1]>>}
        /\ UNCHANGED <<jobs, phase>>
    BY <1>3 DEF Write, Board!Write, MyRefs
  <2>3. worker' \in WorkerRecord /\ worker'.pc = "busy" /\ worker'.job = worker.job
    BY <1>1, <1>3 DEF Write, WorkerRecord
  <2>4. QED
    BY <1>1, <1>3, <2>1, <2>2, <2>3, NextRefType DEF Write
<1>4. CASE Finish
  <2>1. worker.job \in 1..Len(jobs) /\ Board!Finish(worker.job)
    BY <1>4, NextRefType DEF Finish
  <2>2. worker' \in WorkerRecord /\ worker'.pc = "idle" /\ worker.pc # "off"
    BY <1>4 DEF Finish, NoWorker, WorkerRecord
  <2>3. UNCHANGED <<jobs, written, pagerVars, processVars, call>>
    BY <1>4, <2>1 DEF Finish, Board!Finish
  <2>4. QED
    BY <1>1, <2>1, <2>2, <2>3, PhaseType
<1>5. CASE WorkerStops
  BY <1>1, <1>5 DEF WorkerStops, NoWorker, WorkerRecord, boardVars
<1>6. QED
  BY <1>1, <1>2, <1>3, <1>4, <1>5 DEF WorkerStep, WorkerRecord

Base == TypeOK /\ AtPage /\ AtJob

\* Every step keeps the types and the positions of calls and worker.
LEMMA BaseStep == Base /\ [Next]_vars => Base'
<1> SUFFICES ASSUME Base, [Next]_vars PROVE Base'
  OBVIOUS
<1>1. TypeOK /\ AtPage /\ AtJob
  BY DEF Base
<1>2. CASE UNCHANGED vars
  BY <1>1, <1>2 DEF vars, pagerVars, boardVars, processVars, Base, TypeOK, NothingOutlives,
     Running, Asking, AtPage, HasNextPage, AtJob
<1>3. CASE Tick
  <2>1. now' \in Nat /\ UNCHANGED <<page, asked, got, outcome>>
    BY <1>1, <1>3 DEF Tick, Pages!Tick, Pages!readerVars, TypeOK
  <2>2. QED
    BY <1>1, <1>3, <2>1 DEF Tick, boardVars, processVars, Base, TypeOK, NothingOutlives,
       Running, Asking, AtPage, HasNextPage, AtJob
<1>4. CASE ProcessStep
  <2>1. /\ UNCHANGED <<jobs, phase>>
        /\ worker' = worker \/ worker'.pc # "busy"
        /\ \A c \in Call : call'[c] = call[c] \/ call'[c].pc # "expire"
    BY <1>1, <1>4 DEF ProcessStep, Start, Load, LoadFails, Signal, StopHttp, ShutDown, StopGrpc,
       ServeReturns, CloseRedis, Exit, Kill, Gone, boardVars, NoWorker, Ended, NewCall, TypeOK
  <2>2. AtPage' /\ AtJob'
    BY <1>1, <2>1 DEF AtPage, AtJob, HasNextPage
  <2>3. TypeOK'
    BY <1>1, <1>4, ProcessType
  <2>4. QED
    BY <2>2, <2>3 DEF Base
<1>5. ASSUME NEW c \in Call, RefineStep(c) \/ RefineFails(c) PROVE Base'
  <2>1. TypeOK'
    BY <1>1, <1>5, RefineType
  <2>2. /\ \A d \in Call : d # c => call'[d] = call[d]
        /\ call'[c].pc = "expire" => call'[c].n < Doc[c].pages
    <3>1. /\ Stepped(c, call'[c])
          /\ \A d \in Call : d # c => call'[d] = call[d]
      BY <1>1, <1>5, RefineCall
    <3>2. call[c] \in CallRecord
      BY <1>1 DEF TypeOK, CallRecord, Over
    <3>3. QED
      BY <3>1, <3>2 DEF Stepped, Kept, Unkept, Ended, NewCall, HasNextPage, CallRecord
  <2>3. AtPage'
    BY <1>1, <2>2 DEF AtPage, HasNextPage
  <2>4. worker' = worker
    BY <1>5 DEF RefineStep, RefineFails, StorePage, FindPage, ExtendPage, ExtendNothing, Queue,
       Reply
  <2>5. \/ UNCHANGED <<jobs, phase>>
        \/ \E job \in Job : Board!Submit(job)
    BY <1>5 DEF RefineStep, RefineFails, StorePage, FindPage, ExtendPage, ExtendNothing, Queue,
       Reply, boardVars, Job
  <2>6. Len(phase') = Len(jobs') /\ Len(jobs) \in Nat /\ Len(jobs') \in Nat
                                 /\ Len(jobs') >= Len(jobs)
    BY <1>1, <2>5 DEF TypeOK, AtJob, Board!Submit
  <2>7. AtJob'
    BY <1>1, <2>4, <2>6 DEF AtJob
  <2>8. QED
    BY <2>1, <2>3, <2>7 DEF Base
<1>6. ASSUME NEW c \in Call, Accept(c) \/ Refuse(c) PROVE Base'
  <2>1. PICK pc \in {"paging", "refused"} :
          /\ call' = [call EXCEPT ![c].pc = pc]
          /\ UNCHANGED <<pagerVars, boardVars, processVars, worker>>
    BY <1>6 DEF Accept, Refuse
  <2>2. Open(c)
    BY <1>6 DEF Accept, Refuse
  <2>3. main \notin {"down", "loading"}
    BY <1>1, <2>2 DEF Open, TypeOK, NothingOutlives
  <2>4. call' \in [Call -> CallRecord]
    <3>1. call \in [Call -> CallRecord] /\ call[c] \in CallRecord
      BY <1>1 DEF TypeOK, CallRecord, Over
    <3>2. [call[c] EXCEPT !.pc = pc] \in CallRecord
      BY <3>1 DEF CallRecord, Over, AtWork
    <3>3. QED
      BY <2>1, <3>1, <3>2
  <2>5. AtPage'
    BY <1>1, <2>1 DEF AtPage, HasNextPage, TypeOK
  <2>6. TypeOK' /\ AtJob'
    BY <1>1, <2>1, <2>3, <2>4 DEF TypeOK, NothingOutlives, AtJob, pagerVars, boardVars,
       processVars, CallRecord, Over
  <2>7. QED
    BY <2>5, <2>6 DEF Base
<1>7. ASSUME NEW r \in Reader, (\E c \in Call : Ask(r, c)) \/ Answer(r) \/ PageInFails(r)
      PROVE  Base'
  <2>1. UNCHANGED <<call, jobs, phase, worker>>
    BY <1>7 DEF Ask, Answer, PageInFails, boardVars
  <2>2. QED
    BY <1>1, <1>7, <2>1, ReaderType DEF Base, AtPage, HasNextPage, AtJob
<1>8. CASE WorkerStep
  <2>1. /\ jobs' = jobs /\ worker' \in WorkerRecord
        /\ UNCHANGED <<pagerVars, processVars, call>>
        /\ phase' \in Seq({"queued", "taken", "done"}) /\ written' \subseteq Nat \X Key
        /\ Len(phase') = Len(phase) /\ worker.pc # "off"
        /\ worker'.pc = "busy" => worker'.job \in 1..Len(jobs)
    BY <1>1, <1>8, WorkerType
  <2>2. main \notin {"down", "loading"}
    BY <1>1, <2>1 DEF TypeOK, NothingOutlives, NoWorker
  <2>3. TypeOK'
    BY <1>1, <2>1, <2>2 DEF TypeOK, NothingOutlives, pagerVars, processVars, WorkerRecord
  <2>4. QED
    BY <1>1, <2>1, <2>3 DEF Base, AtPage, HasNextPage, AtJob
<1>9. QED
  BY <1>2, <1>3, <1>4, <1>5, <1>6, <1>7, <1>8 DEF Next

\* The service starts with them.
LEMMA BaseInit == Init => Base
<1> SUFFICES ASSUME Init PROVE Base
  OBVIOUS
<1>1. /\ now = 0 /\ page = [k \in Key |-> [text |-> k.hash, exp |-> 0]]
      /\ \A k \in Key : k.hash \in Text
  BY DEF Init, Key, PageKey, Text
<1>2. page \in [Key -> [text : Text, exp : Nat]]
  BY <1>1
<1>3. /\ asked \in [Reader -> Asked \cup {<< >>}] /\ outcome = [r \in Reader |-> "none"]
      /\ jobs = << >> /\ phase = << >> /\ written = {}
  BY DEF Init, Pages!Init, Board!Init
<1>4. jobs \in Seq(Job) /\ phase \in Seq({"queued", "taken", "done"}) /\ Len(phase) = Len(jobs)
  BY <1>3
<1>5. call \in [Call -> CallRecord] /\ worker \in WorkerRecord
  BY DEF Init, NewCall, NoWorker, CallRecord, Over, WorkerRecord
<1>6. NothingOutlives
  BY <1>3 DEF Init, NothingOutlives, Running, Asking, AtWork, NewCall
<1>7. written \subseteq Nat \X Key /\ outcome \in [Reader -> Outcome]
  BY <1>3 DEF Outcome
<1>8. /\ main = "down" /\ signalled = FALSE /\ grpc = "off" /\ http = "off" /\ starts = 0
  BY DEF Init
<1>9. TypeOK
  BY <1>1, <1>2, <1>3, <1>4, <1>5, <1>6, <1>7, <1>8 DEF TypeOK, CallRecord, Over, WorkerRecord,
     Outcome
<1>10. QED
  BY <1>4, <1>9 DEF Base, Init, AtPage, AtJob, NewCall, NoWorker

\* The types hold in every reachable state, and a process that is gone leaves no
\* server, worker, call or reader behind (main.go:19-66).
THEOREM TypeCorrect == Spec => []TypeOK
<1>1. Base => TypeOK
  BY DEF Base
<1>2. QED
  BY <1>1, BaseInit, BaseStep, PTL DEF Spec

\* So they hold throughout.
LEMMA BaseInvariant == Spec => []Base
BY BaseInit, BaseStep, PTL DEF Spec

----------------------------------------------------------------------------
(* Shutdown *)

\* The gRPC server is off, and idle, once Serve has returned.
Drained ==
  /\ main \in {"closing", "flushing"} => grpc = "off" /\ GrpcIdle
  /\ \A c \in Call : call[c].pc = "cut" => c \in Http

\* No step of the shutdown goes ahead of the one it waits for.
LEMMA DrainedStep == Base /\ Drained /\ [Next]_vars => Drained'
<1> SUFFICES ASSUME Base, Drained, [Next]_vars PROVE Drained'
  OBVIOUS
<1>1. TypeOK
  BY DEF Base
<1>2. CASE UNCHANGED vars
  BY <1>2 DEF vars, pagerVars, processVars, Drained, GrpcIdle, Running, Asking
<1>3. CASE Tick
  BY <1>3 DEF Tick, Pages!Tick, Pages!readerVars, processVars, Drained, GrpcIdle, Running, Asking
<1>4. CASE ProcessStep
  <2>1. CASE ServeReturns
    BY <2>1 DEF ServeReturns, pagerVars, Drained, GrpcIdle, Running, Asking
  <2>2. CASE Exit
    BY <1>1, <2>2 DEF Exit, Gone, Drained, GrpcIdle, Ended, NewCall, TypeOK
  <2>3. CASE Kill
    BY <1>1, <2>3 DEF Kill, Gone, Drained, Ended, NewCall, TypeOK
  <2>4. CASE Start \/ Load \/ LoadFails \/ Signal \/ StopHttp \/ StopGrpc \/ CloseRedis
    BY <2>4 DEF Start, Load, LoadFails, Signal, StopHttp, StopGrpc, CloseRedis, pagerVars,
       Drained, GrpcIdle, Running, Asking
  <2>5. QED
    BY <1>4, <2>1, <2>2, <2>3, <2>4 DEF ProcessStep, ShutDown
<1>5. ASSUME NEW c \in Call, Accept(c) \/ Refuse(c) PROVE Drained'
  <2>1. PICK pc \in {"paging", "refused"} : call' = [call EXCEPT ![c].pc = pc]
    BY <1>5 DEF Accept, Refuse
  <2>2. UNCHANGED <<main, grpc, outcome>> /\ Open(c)
    BY <1>5 DEF Accept, Refuse, pagerVars, processVars
  <2>3. \A d \in Call : d # c => call'[d] = call[d]
    BY <1>1, <2>1 DEF TypeOK
  <2>4. call'[c].pc # "cut"
    BY <1>1, <2>1 DEF TypeOK
  <2>5. main \in {"closing", "flushing"} => c \in Http
    BY <2>2 DEF Drained, Open
  <2>6. QED
    BY <2>2, <2>3, <2>4, <2>5 DEF Drained, GrpcIdle, Running, Asking
<1>6. ASSUME NEW c \in Call, RefineStep(c) \/ RefineFails(c) PROVE Drained'
  <2>1. UNCHANGED <<main, grpc, outcome>>
    BY <1>6 DEF RefineStep, RefineFails, StorePage, FindPage, ExtendPage, ExtendNothing, Queue,
       Reply, pagerVars, processVars, Pages!Store, Pages!Extend, Pages!readerVars
  <2>2. /\ Running(c) /\ Stepped(c, call'[c])
        /\ \A d \in Call : d # c => call'[d] = call[d]
    BY <1>1, <1>6, RefineCall
  <2>3. call'[c].pc # "cut"
    BY <1>1, <2>2 DEF TypeOK, Stepped, Kept, Unkept, Ended, NewCall
  <2>4. QED
    BY <2>1, <2>2, <2>3 DEF Drained, GrpcIdle, Running, Asking
<1>7. ASSUME NEW r \in Reader, (\E c \in Call : Ask(r, c)) \/ Answer(r) \/ PageInFails(r)
      PROVE  Drained'
  <2>1. UNCHANGED <<call, main, grpc>>
    BY <1>7 DEF Ask, Answer, PageInFails, processVars
  <2>2. CASE \E c \in Call : Ask(r, c)
    BY <2>1, <2>2 DEF Ask, Drained
  <2>3. CASE Answer(r) \/ PageInFails(r)
    BY <2>1, <2>3 DEF Answer, PageInFails, Pages!AnswerSummary, Pages!AnswerPage, Pages!Answer,
       Pages!Miss, Pages!Fail, Drained, GrpcIdle, Running, Asking
  <2>4. QED
    BY <1>7, <2>2, <2>3
<1>8. CASE WorkerStep
  <2>1. UNCHANGED <<pagerVars, processVars, call>>
    BY <1>8, WorkerType DEF Base
  <2>2. QED
    BY <2>1 DEF pagerVars, processVars, Drained, GrpcIdle, Running, Asking
<1>9. QED
  BY <1>2, <1>3, <1>4, <1>5, <1>6, <1>7, <1>8 DEF Next

\* A signal costs no gRPC call its answer: none is under way when Redis is closed,
\* and the exit cuts off calls of the dashboard server only (main.go:53-66).
THEOREM CallsFinish == Spec => []GrpcCallsFinish
<1>1. Init => Drained
  BY DEF Init, Drained, NewCall
<1>2. Drained => GrpcCallsFinish
  BY DEF Drained, GrpcCallsFinish
<1>3. QED
  BY <1>1, <1>2, DrainedStep, BaseInvariant, PTL DEF Spec

----------------------------------------------------------------------------
(* What replies promise *)

PagesBounded == \A k \in Key : page[k].exp <= now + PageTTL
PagesKept ==
  \A c \in Call : \A k \in call[c].kept : k.at <= now /\ k.at + PageTTL <= page[k.key].exp
JobsQueued ==
  \A c \in Call : call[c].pc \in {"reply", "replied"} /\ Doc[c].job =>
    \E i \in DOMAIN jobs : jobs[i] = JobOf(c)
Promises == PagesBounded /\ PagesKept /\ JobsQueued

\* A page that is stored or extended lives for a TTL, and no page lives shorter.
LEMMA PageGrows ==
  ASSUME TypeOK, PagesBounded, NEW k \in Key, Pages!Store(k, k.hash) \/ Pages!Extend(k)
  PROVE  /\ page'[k].exp = now + PageTTL /\ now' = now
         /\ \A x \in Key : page'[x].exp >= page[x].exp /\ page'[x].exp <= now + PageTTL
<1>1. /\ page \in [Key -> [text : Text, exp : Nat]] /\ now \in Nat /\ PageTTL \in Nat
      /\ page[k].exp <= now + PageTTL
  BY TTLAssumption DEF TypeOK, PagesBounded
<1>2. page'[k].exp = now + PageTTL /\ now' = now
  BY <1>1 DEF Pages!Store, Pages!Extend
<1>3. \A x \in Key : x # k => page'[x] = page[x]
  BY <1>1 DEF Pages!Store, Pages!Extend
<1>4. QED
  BY <1>1, <1>2, <1>3 DEF PagesBounded

\* The clock and the store after any step.
LEMMA StoreGrows ==
  ASSUME Base, PagesBounded, [Next]_vars
  PROVE  /\ now' \in Nat /\ now <= now'
         /\ \A k \in Key : page'[k].exp >= page[k].exp /\ page'[k].exp <= now' + PageTTL
<1>1. TypeOK /\ AtPage /\ now \in Nat /\ PageTTL \in Nat /\ \A k \in Key : page[k].exp \in Nat
  BY TTLAssumption DEF Base, TypeOK
<1>2. CASE UNCHANGED <<now, page>>
  BY <1>1, <1>2 DEF PagesBounded
<1>3. CASE Tick
  BY <1>1, <1>3 DEF Tick, Pages!Tick, PagesBounded
<1>4. ASSUME NEW c \in Call, RefineStep(c) \/ RefineFails(c), ~UNCHANGED <<now, page>>
      PROVE  \E k \in Key : Pages!Store(k, k.hash) \/ Pages!Extend(k)
  <2>1. HasNextPage(c)
    BY <1>1, <1>4 DEF AtPage, RefineStep, RefineFails, StorePage, FindPage, ExtendPage,
       ExtendNothing, Queue, Reply, pagerVars
  <2>2. NextKey(c) \in Key
    BY <1>1, <2>1, NextKeyType
  <2>3. Pages!Store(NextKey(c), NextKey(c).hash) \/ Pages!Extend(NextKey(c))
    BY <1>4 DEF RefineStep, RefineFails, StorePage, FindPage, ExtendPage, ExtendNothing, Queue,
       Reply, pagerVars
  <2>4. QED
    BY <2>2, <2>3
<1>5. ASSUME ~UNCHANGED <<now, page>>
      PROVE  Tick \/ \E c \in Call : RefineStep(c) \/ RefineFails(c)
  <2>1. CASE ProcessStep
    BY <1>5, <2>1 DEF ProcessStep, Start, Load, LoadFails, Signal, StopHttp, ShutDown, StopGrpc,
       ServeReturns, CloseRedis, Exit, Kill, Gone, pagerVars
  <2>2. CASE \E c \in Call : Accept(c) \/ Refuse(c)
    BY <1>5, <2>2 DEF Accept, Refuse, pagerVars
  <2>3. CASE \E r \in Reader : (\E c \in Call : Ask(r, c)) \/ Answer(r) \/ PageInFails(r)
    BY <1>5, <2>3 DEF Ask, Answer, PageInFails, Pages!Ask, Pages!AnswerSummary,
       Pages!AnswerPage, Pages!Answer, Pages!Miss, Pages!Fail
  <2>4. CASE WorkerStep
    BY <1>5, <2>4, WorkerType DEF Base, pagerVars
  <2>5. QED
    BY <1>5, <2>1, <2>2, <2>3, <2>4 DEF Next, vars, pagerVars
<1>6. QED
  BY <1>1, <1>2, <1>3, <1>4, <1>5, PageGrows

\* Jobs are only added to the queue.
LEMMA JobsGrow ==
  ASSUME Base, [Next]_vars
  PROVE  \A i \in DOMAIN jobs : i \in DOMAIN jobs' /\ jobs'[i] = jobs[i]
<1>1. jobs \in Seq(Job)
  BY DEF Base, TypeOK
<1>2. CASE jobs' = jobs
  BY <1>2
<1>3. ASSUME NEW job \in Job, Board!Submit(job)
      PROVE  \A i \in DOMAIN jobs : i \in DOMAIN jobs' /\ jobs'[i] = jobs[i]
  BY <1>1, <1>3 DEF Board!Submit
<1>4. jobs' = jobs \/ \E job \in Job : Board!Submit(job)
  <2>1. CASE ProcessStep
    BY <2>1 DEF ProcessStep, Start, Load, LoadFails, Signal, StopHttp, ShutDown, StopGrpc,
       ServeReturns, CloseRedis, Exit, Kill, Gone, boardVars
  <2>2. CASE \E c \in Call : Accept(c) \/ Refuse(c)
    BY <2>2 DEF Accept, Refuse, boardVars
  <2>3. CASE \E r \in Reader : (\E c \in Call : Ask(r, c)) \/ Answer(r) \/ PageInFails(r)
    BY <2>3 DEF Ask, Answer, PageInFails, boardVars
  <2>4. CASE WorkerStep
    BY <2>4, WorkerType DEF Base
  <2>5. CASE \E c \in Call : RefineStep(c) \/ RefineFails(c)
    BY <2>5 DEF RefineStep, RefineFails, StorePage, FindPage, ExtendPage, ExtendNothing, Queue,
       Reply, boardVars, Job
  <2>6. CASE Tick \/ UNCHANGED vars
    BY <2>6 DEF Tick, vars, boardVars
  <2>7. QED
    BY <2>1, <2>2, <2>3, <2>4, <2>5, <2>6 DEF Next
<1>5. QED
  BY <1>2, <1>3, <1>4

\* A step of a call keeps what it has kept, or adds the page it has just saved.
LEMMA StepKeeps ==
  ASSUME Base, PagesBounded, NEW c \in Call, RefineStep(c) \/ RefineFails(c)
  PROVE  \A k \in call'[c].kept :
           k \in call[c].kept \/ (k.at = now /\ page'[k.key].exp = now + PageTTL)
<1>1. TypeOK /\ AtPage
  BY DEF Base
<1>2. CASE StorePage(c) \/ ExtendPage(c)
  <2>1. HasNextPage(c)
    BY <1>1, <1>2 DEF AtPage, StorePage, ExtendPage
  <2>2. NextKey(c) \in Key
    BY <1>1, <2>1, NextKeyType
  <2>3. page'[NextKey(c)].exp = now + PageTTL
    BY <1>1, <1>2, <2>2, PageGrows DEF StorePage, ExtendPage
  <2>4. call'[c] = Kept(c)
    BY <1>1, <1>2 DEF TypeOK, StorePage, ExtendPage
  <2>5. Kept(c).kept = call[c].kept \cup {[key |-> NextKey(c), at |-> now]}
    BY <1>1 DEF TypeOK, Kept
  <2>6. QED
    BY <2>3, <2>4, <2>5
<1>3. CASE FindPage(c) \/ ExtendNothing(c) \/ Queue(c) \/ Reply(c) \/ RefineFails(c)
  <2>1. call[c] \in CallRecord /\ call \in [Call -> CallRecord]
    BY <1>1 DEF TypeOK, CallRecord, Over
  <2>2. CASE ExtendNothing(c)
    BY <2>1, <2>2 DEF ExtendNothing, Unkept, CallRecord
  <2>3. CASE RefineFails(c)
    BY <2>1, <2>3 DEF RefineFails, Ended, NewCall
  <2>4. CASE FindPage(c) \/ Queue(c) \/ Reply(c)
    BY <2>1, <2>4 DEF FindPage, Queue, Reply, CallRecord
  <2>5. QED
    BY <1>3, <2>2, <2>3, <2>4
<1>4. QED
  BY <1>2, <1>3 DEF RefineStep

\* A call that is about to reply has queued its job.
LEMMA StepQueues ==
  ASSUME Base, JobsQueued, NEW c \in Call, RefineStep(c) \/ RefineFails(c), Doc[c].job,
         call'[c].pc \in {"reply", "replied"}
  PROVE  \E i \in DOMAIN jobs' : jobs'[i] = JobOf(c)
<1>1. TypeOK
  BY DEF Base
<1>2. CASE Queue(c)
  <2>1. jobs \in Seq(Job) /\ jobs' = Append(jobs, JobOf(c))
    BY <1>1, <1>2 DEF TypeOK, Queue, Board!Submit
  <2>2. Len(jobs) + 1 \in DOMAIN jobs' /\ jobs'[Len(jobs) + 1] = JobOf(c)
    BY <2>1
  <2>3. QED
    BY <2>2
<1>3. CASE Reply(c)
  <2>1. call[c].pc = "reply" /\ jobs' = jobs
    BY <1>3 DEF Reply, boardVars
  <2>2. QED
    BY <2>1 DEF JobsQueued
<1>4. ~(StorePage(c) \/ FindPage(c) \/ ExtendPage(c) \/ ExtendNothing(c) \/ RefineFails(c))
  <2>1. call[c] \in CallRecord /\ call \in [Call -> CallRecord]
    BY <1>1 DEF TypeOK, CallRecord, Over
  <2>2. ~(StorePage(c) \/ ExtendPage(c))
    BY <2>1 DEF StorePage, ExtendPage, Kept, CallRecord
  <2>3. ~(FindPage(c) \/ RefineFails(c))
    BY <2>1 DEF FindPage, RefineFails, Ended, NewCall, CallRecord
  <2>4. ~ExtendNothing(c)
    BY <2>1 DEF ExtendNothing, Unkept, CallRecord
  <2>5. QED
    BY <2>2, <2>3, <2>4
<1>5. QED
  BY <1>2, <1>3, <1>4 DEF RefineStep

\* Calls that take no step of their own keep what they have, or lose it all.
LEMMA OthersKeep ==
  ASSUME Base, [Next]_vars, NEW c \in Call, ~(RefineStep(c) \/ RefineFails(c))
  PROVE  \/ call'[c].kept = call[c].kept /\ call'[c].pc = call[c].pc
         \/ call'[c].kept = call[c].kept /\ call'[c].pc \in {"paging", "refused"}
         \/ call'[c].kept = {} /\ call'[c].pc \in {"cut", "killed"}
<1>1. TypeOK /\ call[c] \in CallRecord /\ call \in [Call -> CallRecord]
  BY DEF Base, TypeOK, CallRecord, Over
<1>2. CASE call' = call
  BY <1>2
<1>3. CASE Exit \/ Kill
  BY <1>1, <1>3 DEF Exit, Kill, Gone, Ended, NewCall
<1>4. CASE \E d \in Call : Accept(d) \/ Refuse(d)
  BY <1>1, <1>4 DEF Accept, Refuse, CallRecord
<1>5. ASSUME NEW d \in Call, RefineStep(d) \/ RefineFails(d) PROVE call'[c] = call[c]
  BY <1>1, <1>5, RefineCall
<1>6. CASE ProcessStep /\ ~(Exit \/ Kill)
  BY <1>2, <1>6 DEF ProcessStep, Start, Load, LoadFails, Signal, StopHttp, ShutDown, StopGrpc,
     ServeReturns, CloseRedis
<1>7. CASE WorkerStep
  BY <1>2, <1>7, WorkerType DEF Base
<1>8. CASE \E r \in Reader : (\E d \in Call : Ask(r, d)) \/ Answer(r) \/ PageInFails(r)
  BY <1>2, <1>8 DEF Ask, Answer, PageInFails
<1>9. CASE Tick \/ UNCHANGED vars
  BY <1>2, <1>9 DEF Tick, vars
<1>10. QED
  BY <1>3, <1>4, <1>5, <1>6, <1>7, <1>8, <1>9 DEF Next

\* No step breaks a promise that a reply has made, or is about to make.
LEMMA PromisesStep == Base /\ Promises /\ [Next]_vars => Promises'
<1> SUFFICES ASSUME Base, Promises, [Next]_vars PROVE Promises'
  OBVIOUS
<1>1. TypeOK /\ PagesBounded /\ PagesKept /\ JobsQueued
  BY DEF Base, Promises
<1>2. /\ now \in Nat /\ PageTTL \in Nat /\ now' \in Nat /\ now <= now'
      /\ \A k \in Key : /\ page[k].exp \in Nat /\ page'[k].exp >= page[k].exp
                        /\ page'[k].exp <= now' + PageTTL
  BY <1>1, TTLAssumption, StoreGrows DEF TypeOK
<1>3. TypeOK'
  BY BaseStep DEF Base
<1>4. PagesBounded'
  BY <1>2 DEF PagesBounded
<1>5. ASSUME NEW c \in Call, NEW k \in call'[c].kept
      PROVE  k.at <= now' /\ k.at + PageTTL <= page'[k.key].exp
  <2>1. k.key \in Key /\ k.at \in Nat /\ page'[k.key].exp \in Nat
    BY <1>3, <1>5 DEF TypeOK
  <2>2. k \in call[c].kept \/ (k.at = now /\ page'[k.key].exp = now + PageTTL)
    BY <1>1, <1>5, StepKeeps, OthersKeep
  <2>3. CASE k \in call[c].kept
    <3>1. k.at <= now /\ k.at + PageTTL <= page[k.key].exp
      BY <1>1, <2>3 DEF PagesKept
    <3>2. QED
      BY <1>2, <2>1, <3>1
  <2>4. QED
    BY <1>2, <2>1, <2>2, <2>3
<1>6. PagesKept'
  BY <1>5 DEF PagesKept
<1>7. ASSUME NEW c \in Call, call'[c].pc \in {"reply", "replied"}, Doc[c].job
      PROVE  \E i \in DOMAIN jobs' : jobs'[i] = JobOf(c)
  <2>1. CASE RefineStep(c) \/ RefineFails(c)
    BY <1>1, <1>7, <2>1, StepQueues
  <2>2. CASE ~(RefineStep(c) \/ RefineFails(c))
    <3>1. call[c].pc \in {"reply", "replied"}
      BY <1>7, <2>2, OthersKeep
    <3>2. QED
      BY <1>1, <1>7, <3>1, JobsGrow DEF JobsQueued
  <2>3. QED
    BY <2>1, <2>2
<1>8. JobsQueued'
  BY <1>7 DEF JobsQueued
<1>9. QED
  BY <1>4, <1>6, <1>8 DEF Promises

\* At first nothing is promised.
LEMMA PromisesInit == Init => Promises
<1> SUFFICES ASSUME Init PROVE Promises
  OBVIOUS
<1>1. PagesBounded
  BY TTLAssumption DEF Init, PagesBounded
<1>2. \A c \in Call : call[c].kept = {} /\ call[c].pc = "new"
  BY DEF Init, NewCall
<1>3. QED
  BY <1>1, <1>2 DEF Promises, PagesKept, JobsQueued

\* The promises hold throughout.
LEMMA PromisesInvariant == Spec => [](Base /\ Promises)
BY BaseInit, BaseStep, PromisesInit, PromisesStep, PTL DEF Spec

\* What a reply promises is there, whatever other calls, failures and restarts do
\* meanwhile: the pages it has kept for their TTL (SavePage), its job for good
\* (EnqueueSummaryJob, refine_service.go:62-150).
THEOREM RepliesKept == Spec => []RepliesHold
<1>1. ASSUME Base, Promises PROVE RepliesHold
  <2>1. SUFFICES ASSUME NEW c \in Call, call[c].pc = "replied"
                 PROVE  /\ \A k \in call[c].kept : now < k.at + PageTTL => Pages!Lives(k.key)
                        /\ Doc[c].job => \E i \in DOMAIN jobs : jobs[i] = JobOf(c)
    BY DEF RepliesHold
  <2>2. ASSUME NEW k \in call[c].kept, now < k.at + PageTTL PROVE Pages!Lives(k.key)
    <3>1. /\ k.key \in Key /\ k.at \in Nat /\ page[k.key].exp \in Nat /\ now \in Nat
          /\ PageTTL \in Nat
      BY <1>1, TTLAssumption DEF Base, TypeOK
    <3>2. k.at + PageTTL <= page[k.key].exp
      BY <1>1 DEF Promises, PagesKept
    <3>3. QED
      BY <2>2, <3>1, <3>2 DEF Pages!Lives
  <2>3. QED
    BY <1>1, <2>1, <2>2 DEF Promises, JobsQueued
<1>2. QED
  BY <1>1, PromisesInvariant, PTL

\* There are answers for every reader.
GotDomain == got = [r \in Reader |-> got[r]]

\* A step adds or changes an answer, and drops none.
LEMMA GotStep == GotDomain /\ [Next]_vars => GotDomain'
<1> SUFFICES ASSUME GotDomain, [Next]_vars PROVE GotDomain'
  OBVIOUS
<1>1. CASE got' = got
  BY <1>1 DEF GotDomain
<1>2. ASSUME NEW r \in Reader, NEW x, got' = [got EXCEPT ![r] = x] PROVE GotDomain'
  BY <1>2 DEF GotDomain
<1>3. CASE \E r \in Reader : (\E c \in Call : Ask(r, c)) \/ Answer(r) \/ PageInFails(r)
  <2>1. PICK r \in Reader : (\E c \in Call : Ask(r, c)) \/ Answer(r) \/ PageInFails(r)
    BY <1>3
  <2>2. CASE Answer(r)
    BY <1>1, <1>2, <2>2 DEF Answer, Pages!AnswerSummary, Pages!AnswerPage, Pages!Answer,
       Pages!Miss
  <2>3. CASE (\E c \in Call : Ask(r, c)) \/ PageInFails(r)
    BY <1>1, <2>3 DEF Ask, Pages!Ask, PageInFails, Pages!Fail
  <2>4. QED
    BY <2>1, <2>2, <2>3
<1>4. CASE ProcessStep
  BY <1>1, <1>4 DEF ProcessStep, Start, Load, LoadFails, Signal, StopHttp, ShutDown, StopGrpc,
     ServeReturns, CloseRedis, Exit, Kill, Gone, pagerVars
<1>5. CASE \E c \in Call : Accept(c) \/ Refuse(c) \/ RefineStep(c) \/ RefineFails(c)
  BY <1>1, <1>5 DEF Accept, Refuse, RefineStep, RefineFails, StorePage, FindPage, ExtendPage,
     ExtendNothing, Queue, Reply, pagerVars, Pages!Store, Pages!Extend, Pages!readerVars
<1>6. CASE WorkerStep
  BY <1>1, <1>6 DEF WorkerStep, Take, Write, Finish, WorkerStops, pagerVars
<1>7. CASE Tick \/ UNCHANGED vars
  BY <1>1, <1>7 DEF Tick, Pages!Tick, Pages!readerVars, vars, pagerVars
<1>8. QED
  BY <1>3, <1>4, <1>5, <1>6, <1>7 DEF Next

\* There are answers throughout.
LEMMA GotInvariant == Spec => []GotDomain
<1>1. Init => GotDomain
  BY DEF Init, Pages!Init, GotDomain
<1>2. QED
  BY <1>1, GotStep, PTL DEF Spec

\* How the answers to a reader come about.
LEMMA ReaderStep ==
  ASSUME Base, GotDomain, [Next]_vars, NEW r \in Reader
  PROVE  \/ got'[r] = got[r] /\ asked'[r] = asked[r]
            /\ outcome'[r] \in {outcome[r], "failed"}
         \/ \E c \in Call : Ask(r, c)
         \/ Answer(r)
<1>1. /\ outcome \in [Reader -> Outcome] /\ asked \in [Reader -> Asked \cup {<< >>}]
  BY DEF Base, TypeOK, Outcome
<1>2. CASE UNCHANGED <<asked, got, outcome>>
  BY <1>2
<1>3. CASE Exit \/ Kill
  BY <1>1, <1>3 DEF Exit, Kill, Gone
<1>4. ASSUME NEW q \in Reader, q # r, (\E c \in Call : Ask(q, c)) \/ Answer(q)
      PROVE  got'[r] = got[r] /\ asked'[r] = asked[r] /\ outcome'[r] = outcome[r]
  <2>1. CASE \E c \in Call : Ask(q, c)
    BY <1>1, <1>4, <2>1 DEF Ask, Pages!Ask
  <2>2. \A x : [got EXCEPT ![q] = x][r] = got[r]
    BY <1>4 DEF GotDomain
  <2>3. CASE Answer(q)
    BY <1>1, <1>4, <2>2, <2>3 DEF Answer, Pages!AnswerSummary, Pages!AnswerPage, Pages!Answer,
       Pages!Miss
  <2>4. QED
    BY <1>4, <2>1, <2>3
<1>5. CASE \E q \in Reader : PageInFails(q)
  BY <1>1, <1>5 DEF PageInFails, Pages!Fail
<1>6. CASE ProcessStep /\ ~(Exit \/ Kill)
  BY <1>2, <1>6 DEF ProcessStep, Start, Load, LoadFails, Signal, StopHttp, ShutDown, StopGrpc,
     ServeReturns, CloseRedis, pagerVars
<1>7. CASE \E c \in Call : Accept(c) \/ Refuse(c) \/ RefineStep(c) \/ RefineFails(c)
  BY <1>2, <1>7 DEF Accept, Refuse, RefineStep, RefineFails, StorePage, FindPage, ExtendPage,
     ExtendNothing, Queue, Reply, pagerVars, Pages!Store, Pages!Extend, Pages!readerVars
<1>8. CASE WorkerStep
  BY <1>2, <1>8, WorkerType DEF Base, pagerVars
<1>9. CASE Tick \/ UNCHANGED vars
  BY <1>2, <1>9 DEF Tick, Pages!Tick, Pages!readerVars, vars, pagerVars
<1>10. QED
  BY <1>3, <1>4, <1>5, <1>6, <1>7, <1>8, <1>9 DEF Next

\* A reader that is told that a page is missing was told the truth.
LEMMA MissStep ==
  ASSUME Base, GotDomain, [Next]_vars, NEW r \in Reader, outcome[r] = "asking", outcome'[r] = "missing"
  PROVE  ~Pages!Lives(Pages!Wanted(r))
<1>1. outcome \in [Reader -> Outcome]
  BY DEF Base, TypeOK, Outcome
<1>2. ~\E c \in Call : Ask(r, c)
  BY <1>1 DEF Ask, Pages!Ask
<1>3. Answer(r)
  BY <1>2, ReaderStep
<1>4. ~Pages!AnswerSummary(r) /\ ~Pages!AnswerPage(r)
  BY <1>1 DEF Pages!AnswerSummary, Pages!AnswerPage, Pages!Answer
<1>5. QED
  BY <1>3, <1>4 DEF Answer, Pages!Miss

\* A PageIn misses a page that a reply named only when its TTL was over
\* (LoadResolvedPage, redis_repository.go:146-194).
THEOREM MissesAreLate == Spec => MissesAreOld
<1>1. ASSUME Base, GotDomain, Promises, [Next]_vars,
             NEW r \in Reader, NEW c \in Call, NEW k \in call[c].kept,
             outcome[r] = "asking", outcome'[r] = "missing", k.key = Pages!Wanted(r)
      PROVE  k.at + PageTTL <= now
  <2>1. ~Pages!Lives(Pages!Wanted(r))
    BY <1>1, MissStep
  <2>2. /\ k.key \in Key /\ k.at \in Nat /\ page[k.key].exp \in Nat /\ now \in Nat
        /\ PageTTL \in Nat
    BY <1>1, TTLAssumption DEF Base, TypeOK
  <2>3. k.at + PageTTL <= page[k.key].exp
    BY <1>1 DEF Promises, PagesKept
  <2>4. QED
    BY <1>1, <2>1, <2>2, <2>3 DEF Pages!Lives
<1>2. Base /\ GotDomain /\ Promises /\ [Next]_vars =>
        [\A r \in Reader, c \in Call :
           (outcome[r] = "asking" /\ outcome'[r] = "missing" /\ call[c].pc = "replied")
             => \A k \in call[c].kept : k.key = Pages!Wanted(r) => k.at + PageTTL <= now]_vars
  BY <1>1
<1>3. QED
  BY <1>2, PromisesInvariant, GotInvariant, PTL DEF Spec, MissesAreOld

----------------------------------------------------------------------------
(* Summaries *)

\* A summary is stored for a page of the text it was made of.
WrittenFit ==
  \A w \in written : w[1] \in DOMAIN jobs /\ jobs[w[1]].hash = w[2].hash

\* The answers to a reader: for keys, in order, and summaries that are stored.
Answers == [key : Key, kind : {"page"}, text : Text] \cup
           [key : Key, kind : {"summary"}, fits : {TRUE}]
ReadersFit ==
  \A r \in Reader :
    /\ got[r] \in Seq(Answers)
    /\ outcome[r] = "none" => got[r] = << >>
    /\ outcome[r] = "asking" => Len(got[r]) < Len(asked[r])
    /\ \A n \in DOMAIN got[r] : got[r][n].kind = "summary" =>
         \E i \in DOMAIN jobs : <<i, got[r][n].key>> \in written

\* A stored summary stays recorded, and a new one fits (handleJob compares the hashes).
LEMMA WrittenStep ==
  ASSUME Base, WrittenFit, [Next]_vars
  PROVE  written \subseteq written' /\ WrittenFit'
<1>1. TypeOK /\ AtJob /\ written \subseteq Nat \X Key
  BY DEF Base, TypeOK
<1>2. \A i \in DOMAIN jobs : i \in DOMAIN jobs' /\ jobs'[i] = jobs[i]
  BY JobsGrow
<1>3. CASE written' = written
  BY <1>2, <1>3 DEF WrittenFit
<1>4. CASE Write
  <2>1. /\ worker.job \in 1..Len(jobs) /\ MyRefs[worker.saved + 1] \in Key
        /\ jobs \in Seq(Job)
    BY <1>1, <1>4, NextRefType DEF Write, TypeOK
  <2>2. /\ MyRefs[worker.saved + 1].hash = jobs[worker.job].hash
        /\ written' = written \cup {<<worker.job, MyRefs[worker.saved + 1]>>}
    BY <1>4 DEF Write, Board!Write, MyRefs
  <2>3. worker.job \in DOMAIN jobs
    BY <2>1
  <2>4. QED
    BY <1>2, <2>2, <2>3 DEF WrittenFit
<1>5. written' = written \/ Write
  <2>1. CASE ProcessStep
    BY <2>1 DEF ProcessStep, Start, Load, LoadFails, Signal, StopHttp, ShutDown, StopGrpc,
       ServeReturns, CloseRedis, Exit, Kill, Gone, boardVars
  <2>2. CASE \E c \in Call : Accept(c) \/ Refuse(c) \/ RefineStep(c) \/ RefineFails(c)
    BY <2>2 DEF Accept, Refuse, RefineStep, RefineFails, StorePage, FindPage, ExtendPage,
       ExtendNothing, Queue, Reply, boardVars, Board!Submit
  <2>3. CASE \E r \in Reader : (\E c \in Call : Ask(r, c)) \/ Answer(r) \/ PageInFails(r)
    BY <2>3 DEF Ask, Answer, PageInFails, boardVars
  <2>4. CASE WorkerStep
    BY <2>4 DEF WorkerStep, Take, Finish, WorkerStops, Board!Take, Board!Finish, boardVars
  <2>5. CASE Tick \/ UNCHANGED vars
    BY <2>5 DEF Tick, vars, boardVars
  <2>6. QED
    BY <2>1, <2>2, <2>3, <2>4, <2>5 DEF Next
<1>6. QED
  BY <1>3, <1>4, <1>5

\* The key the reader's loop is at.
LEMMA WantedKey ==
  ASSUME TypeOK, NEW r \in Reader, got[r] \in Seq(Answers), Len(got[r]) < Len(asked[r])
  PROVE  Pages!Wanted(r) \in Key
<1>1. asked[r] \in Seq(Key)
  BY RefsType DEF TypeOK, Asked
<1>2. Len(got[r]) + 1 \in 1..Len(asked[r])
  BY <1>1
<1>3. QED
  BY <1>1, <1>2 DEF Pages!Wanted

\* One more answer: Answers is what the actions of Pager give.
LEMMA AnswerStep ==
  ASSUME Base, GotDomain, ReadersFit, NEW r \in Reader, Answer(r)
  PROVE  /\ got'[r] \in Seq(Answers) /\ outcome'[r] # "none"
         /\ outcome'[r] = "asking" => Len(got'[r]) < Len(asked'[r])
         /\ \A n \in DOMAIN got'[r] : got'[r][n].kind = "summary" =>
              \E i \in DOMAIN jobs : <<i, got'[r][n].key>> \in written
<1>1. /\ outcome \in [Reader -> Outcome] /\ asked[r] \in Seq(Key) /\ outcome[r] = "asking"
      /\ page \in [Key -> [text : Text, exp : Nat]]
  <2>1. asked[r] \in Asked \cup {<< >>} /\ << >> \in Seq(Key)
    BY DEF Base, TypeOK
  <2>2. asked[r] \in Seq(Key)
    BY <2>1, RefsType DEF Asked
  <2>3. QED
    BY <2>2 DEF Base, TypeOK, Outcome, Answer, Asking
<1>2. /\ got[r] \in Seq(Answers) /\ Len(got[r]) < Len(asked[r]) /\ Pages!Wanted(r) \in Key
      /\ \A n \in DOMAIN got[r] : got[r][n].kind = "summary" =>
           \E i \in DOMAIN jobs : <<i, got[r][n].key>> \in written
  BY <1>1, WantedKey DEF Base, ReadersFit
<1>3. CASE Pages!Miss(r)
  BY <1>1, <1>2, <1>3 DEF Pages!Miss
<1>4. ASSUME NEW answer \in Answers, Pages!Answer(r, answer),
             answer.kind = "summary" =>
               \E i \in DOMAIN jobs : <<i, answer.key>> \in written
      PROVE  /\ got'[r] \in Seq(Answers) /\ outcome'[r] # "none"
             /\ outcome'[r] = "asking" => Len(got'[r]) < Len(asked'[r])
             /\ \A n \in DOMAIN got'[r] : got'[r][n].kind = "summary" =>
                  \E i \in DOMAIN jobs : <<i, got'[r][n].key>> \in written
  <2>1. got'[r] = Append(got[r], answer) /\ asked' = asked
    BY <1>4 DEF Pages!Answer, GotDomain
  <2>2. outcome'[r] = IF Len(got[r]) + 1 = Len(asked[r]) THEN "done" ELSE "asking"
    BY <1>1, <1>4 DEF Pages!Answer
  <2>3. /\ got'[r] \in Seq(Answers) /\ Len(got'[r]) = Len(got[r]) + 1
        /\ Len(got[r]) \in Nat /\ Len(asked[r]) \in Nat
    BY <1>1, <1>2, <2>1
  <2>4. \A n \in DOMAIN got'[r] : got'[r][n] = answer \/ (n \in DOMAIN got[r] /\ got'[r][n] = got[r][n])
    BY <1>2, <2>1
  <2>5. outcome'[r] # "none" /\ (outcome'[r] = "asking" => Len(got'[r]) < Len(asked'[r]))
    BY <1>2, <2>1, <2>2, <2>3
  <2>6. ASSUME NEW n \in DOMAIN got'[r], got'[r][n].kind = "summary"
        PROVE  \E i \in DOMAIN jobs : <<i, got'[r][n].key>> \in written
    BY <1>2, <1>4, <2>4, <2>6
  <2>7. QED
    BY <2>3, <2>5, <2>6
<1>5. CASE Pages!AnswerPage(r)
  <2>1. Pages!FromPage(Pages!Wanted(r)) \in Answers
    BY <1>1, <1>2 DEF Pages!FromPage, Answers
  <2>2. Pages!FromPage(Pages!Wanted(r)).kind = "page"
    BY DEF Pages!FromPage
  <2>3. QED
    BY <1>4, <1>5, <2>1, <2>2 DEF Pages!AnswerPage
<1>6. CASE Pages!AnswerSummary(r) /\ \E i \in DOMAIN jobs : <<i, Pages!Wanted(r)>> \in written
  <2>1. Pages!FromSummary(Pages!Wanted(r)) \in Answers
    BY <1>2 DEF Pages!FromSummary, Answers
  <2>2. Pages!FromSummary(Pages!Wanted(r)).key = Pages!Wanted(r)
    BY DEF Pages!FromSummary
  <2>3. QED
    BY <1>4, <1>6, <2>1, <2>2 DEF Pages!AnswerSummary
<1>7. QED
  BY <1>3, <1>5, <1>6 DEF Answer

\* What is written is a summary of a page, and what is read was written.
LEMMA SummariesStep ==
  Base /\ GotDomain /\ WrittenFit /\ ReadersFit /\ [Next]_vars => WrittenFit' /\ ReadersFit'
<1> SUFFICES ASSUME Base, GotDomain, WrittenFit, ReadersFit, [Next]_vars
             PROVE  WrittenFit' /\ ReadersFit'
  OBVIOUS
<1>1. written \subseteq written' /\ WrittenFit' /\ DOMAIN jobs \subseteq DOMAIN jobs'
  BY WrittenStep, JobsGrow
<1>2. ASSUME NEW r \in Reader
      PROVE  /\ got'[r] \in Seq(Answers)
             /\ outcome'[r] = "none" => got'[r] = << >>
             /\ outcome'[r] = "asking" => Len(got'[r]) < Len(asked'[r])
             /\ \A n \in DOMAIN got'[r] : got'[r][n].kind = "summary" =>
                  \E i \in DOMAIN jobs : <<i, got'[r][n].key>> \in written
  <2>1. CASE Answer(r)
    BY <2>1, AnswerStep
  <2>2. CASE \E c \in Call : Ask(r, c)
    <3>1. PICK c \in Call : Ask(r, c)
      BY <2>2
    <3>2. got' = got /\ outcome[r] = "none" /\ got[r] = << >>
      BY <3>1 DEF Ask, Pages!Ask, ReadersFit
    <3>3. /\ asked \in [Reader -> Asked \cup {<< >>}] /\ outcome \in [Reader -> Outcome]
      BY DEF Base, TypeOK, Outcome
    <3>4. asked'[r] = Refs(Doc[c]) /\ outcome'[r] # "none"
      BY <3>1, <3>3 DEF Ask, Pages!Ask
    <3>5. Len(asked'[r]) \in Nat /\ Len(asked'[r]) > 0
      BY <3>1, <3>4, RefsType, DocAssumption DEF Ask
    <3>6. QED
      BY <3>2, <3>4, <3>5 DEF ReadersFit
  <2>3. CASE got'[r] = got[r] /\ asked'[r] = asked[r] /\ outcome'[r] \in {outcome[r], "failed"}
    BY <2>3 DEF ReadersFit
  <2>4. QED
    BY <2>1, <2>2, <2>3, ReaderStep
<1>3. ReadersFit'
  BY <1>1, <1>2 DEF ReadersFit
<1>4. QED
  BY <1>1, <1>3

\* A summary that is paged in was made of the very text that was paged out: its job
\* has the content hash of the page key (summary_worker.go:102-).
THEOREM SummariesFit == Spec => []SummariesAreOfTheText
<1>1. Init => WrittenFit /\ ReadersFit
  BY DEF Init, Board!Init, Pages!Init, WrittenFit, ReadersFit
<1>2. Base /\ WrittenFit /\ ReadersFit => SummariesAreOfTheText
  BY DEF WrittenFit, ReadersFit, SummariesAreOfTheText
<1>3. QED
  BY <1>1, <1>2, SummariesStep, BaseInvariant, GotInvariant, PTL DEF Spec
=============================================================================
