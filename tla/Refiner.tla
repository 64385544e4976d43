------------------------------ MODULE Refiner -------------------------------
(***************************************************************************)
(* The service as its clients see it: Refine calls that page out and queue *)
(* summary jobs, the summary worker, PageIn calls that come back for the   *)
(* pages, and the life of the process they run in (cmd/refiner/main.go and *)
(* bootstrap/runtime.go), from LoadRuntime to the exit a signal asks for,  *)
(* or a kill.  What is in Redis outlives the process.                      *)
(*                                                                         *)
(* The page store and the summary queue are taken at their word: JobBoard  *)
(* and Pager, which SummaryWorker and PageStore implement.                 *)
(***************************************************************************)
EXTENDS Naturals, Sequences, FiniteSets

CONSTANTS
  Call,          \* Refine calls
  Http,          \* those made by POST /api/refine; the others are gRPC calls
  Reader,        \* PageIn calls
  Doc,           \* Doc[c]: what call c refines: [hash, rest, pages, job]
  PageTTL,       \* pageTTL
  MaxTime,       \* bound: the clock
  MaxStarts,     \* bound: starts of the process
  Faults         \* TRUE when Redis commands may fail and the process be killed

\* hash: of the text that is paged; rest: of what paging leaves in the request;
\* pages: how many pages it is cut into; job: the policy asks for a summary.
PageKey(d, n) == [hash |-> d.hash, page |-> n]
Refs(d) == [n \in 1..d.pages |-> PageKey(d, n)]
Key == UNION {{PageKey(Doc[c], n) : n \in 1..Doc[c].pages} : c \in Call}
JobOf(c) == [call |-> c, hash |-> Doc[c].rest, refs |-> Refs(Doc[c])]
Job == {JobOf(c) : c \in Call}
Text == {Doc[c].hash : c \in Call}        \* a page of a text, by the text's hash
Asked == {Refs(Doc[c]) : c \in Call}

ASSUME HttpAssumption == Http \subseteq Call
ASSUME DocAssumption == \A c \in Call : Doc[c].pages \in Nat /\ Doc[c].job \in BOOLEAN
ASSUME TTLAssumption == PageTTL \in Nat \ {0}
ASSUME BoundAssumption == MaxTime \in Nat /\ MaxStarts \in Nat /\ Faults \in BOOLEAN

VARIABLES
  now, page, asked, got, outcome,    \* the page store and its readers
  jobs, phase, written,              \* the summary queue
  main,          \* where func main is
  signalled,     \* the context of main is cancelled
  grpc, http,    \* the servers: "off", "up" or "draining"
  starts,        \* how often the process was started (bound)
  worker,        \* [pc, job, saved]: the worker goroutine and its job
  call           \* call[c]: [pc, n, kept]

pagerVars == <<now, page, asked, got, outcome>>
boardVars == <<jobs, phase, written>>
processVars == <<main, signalled, grpc, http, starts>>
vars == <<pagerVars, boardVars, processVars, worker, call>>

Board == INSTANCE JobBoard
Pages == INSTANCE Pager

NewCall == [pc |-> "new", n |-> 0, kept |-> {}]
\* A call that ended without an answer.
Ended(how) == [NewCall EXCEPT !.pc = how]

\* Where a call that is not over may be.
AtWork == {"paging", "expire", "reply"}
Running(c) == call[c].pc \in AtWork
Asking(r) == outcome[r] = "asking"
\* Redis answers the process: the client is open.
Connected == main \in {"serving", "closing"}
NoWorker == [pc |-> "off", job |-> 0, saved |-> 0]

Init ==
  /\ now = 0
  /\ page = [k \in Key |-> [text |-> k.hash, exp |-> 0]]
  /\ Pages!Init
  /\ Board!Init
  /\ main = "down" /\ signalled = FALSE
  /\ grpc = "off" /\ http = "off"
  /\ starts = 0
  /\ worker = NoWorker
  /\ call = [c \in Call |-> NewCall]

Tick ==
  /\ now < MaxTime
  /\ Pages!Tick
  /\ UNCHANGED <<boardVars, processVars, worker, call>>

----------------------------------------------------------------------------
(* The process *)

Start ==
  /\ main = "down"
  /\ starts < MaxStarts
  /\ main' = "loading"
  /\ starts' = starts + 1
  /\ UNCHANGED <<pagerVars, boardVars, signalled, grpc, http, worker, call>>

\* LoadRuntime and net.Listen succeed, the servers and the worker are started.
\* A signal that came too late for LoadRuntime to notice does not keep them from
\* starting.
Load ==
  /\ main = "loading"
  /\ main' = "serving"
  /\ grpc' = "up" /\ http' = "up"
  /\ worker' = [NoWorker EXCEPT !.pc = "idle"]
  /\ UNCHANGED <<pagerVars, boardVars, signalled, starts, call>>

\* log.Fatal: a file, Redis, a prefix to prewarm or the address is no good, or
\* the context is cancelled.
LoadFails ==
  /\ main = "loading"
  /\ main' = "down" /\ signalled' = FALSE
  /\ UNCHANGED <<pagerVars, boardVars, grpc, http, starts, worker, call>>

\* SIGINT or SIGTERM; a second one changes nothing.
Signal ==
  /\ main \in {"loading", "serving"}
  /\ signalled' = TRUE
  /\ UNCHANGED <<pagerVars, boardVars, main, grpc, http, starts, worker, call>>

\* Mutation of StopGrpc: it waits for a worker between two jobs.
StopGrpcAfterWorker ==
  /\ main = "serving" /\ signalled /\ grpc = "up"
  /\ worker.pc = "idle"
  /\ grpc' = "draining"
  /\ UNCHANGED <<pagerVars, boardVars, main, signalled, http, starts, worker, call>>

\* GracefulStop: no new calls, the ones under way go on.
StopGrpc ==
  /\ main = "serving" /\ signalled /\ grpc = "up"
  /\ grpc' = "draining"
  /\ UNCHANGED <<pagerVars, boardVars, main, signalled, http, starts, worker, call>>

\* Shutdown of the dashboard server, which serves /api/refine too; nobody waits
\* for it.
StopHttp ==
  /\ main \in {"serving", "closing", "flushing"} /\ signalled /\ http = "up"
  /\ http' = "draining"
  /\ UNCHANGED <<pagerVars, boardVars, main, signalled, grpc, starts, worker, call>>

GrpcIdle ==
  /\ \A c \in Call \ Http : ~Running(c)
  /\ \A r \in Reader : ~Asking(r)

\* Mutation of ServeReturns: Stop instead of GracefulStop.
ServeReturnsAtOnce ==
  /\ main = "serving" /\ grpc = "draining"
  /\ main' = "closing" /\ grpc' = "off"
  /\ UNCHANGED <<pagerVars, boardVars, signalled, http, starts, worker, call>>

\* GracefulStop has waited for the last call, and Serve returns.
ServeReturns ==
  /\ main = "serving" /\ grpc = "draining"
  /\ GrpcIdle
  /\ main' = "closing" /\ grpc' = "off"
  /\ UNCHANGED <<pagerVars, boardVars, signalled, http, starts, worker, call>>

\* The deferred functions of main: the Redis client is closed, then the traces
\* are flushed, for five seconds at most.
CloseRedis ==
  /\ main = "closing"
  /\ main' = "flushing"
  /\ UNCHANGED <<pagerVars, boardVars, signalled, grpc, http, starts, worker, call>>

\* Mutation of Gone: the readers still wait for their answers.
GoneUnnoticed(how) ==
  /\ main' = "down" /\ signalled' = FALSE
  /\ grpc' = "off" /\ http' = "off"
  /\ worker' = NoWorker
  /\ call' = [c \in Call |-> IF Running(c) THEN Ended(how) ELSE call[c]]
  /\ UNCHANGED <<pagerVars, boardVars, starts>>

\* The process is gone, and with it every call that was not over.
Gone(how) ==
  /\ main' = "down" /\ signalled' = FALSE
  /\ grpc' = "off" /\ http' = "off"
  /\ worker' = NoWorker
  /\ call' = [c \in Call |-> IF Running(c) THEN Ended(how) ELSE call[c]]
  /\ outcome' = [r \in Reader |-> IF Asking(r) THEN "failed" ELSE outcome[r]]
  /\ UNCHANGED <<now, page, asked, got, boardVars, starts>>

Exit ==
  /\ main = "flushing"
  /\ Gone("cut")

Kill ==
  /\ Faults
  /\ main # "down"
  /\ Gone("killed")

----------------------------------------------------------------------------
(* Refine calls *)

\* A call reaches RefineDTO by gRPC or by POST /api/refine.
Open(c) == IF c \in Http THEN http = "up" ELSE grpc = "up"

Accept(c) ==
  /\ call[c].pc = "new"
  /\ Open(c)
  /\ call' = [call EXCEPT ![c].pc = "paging"]
  /\ UNCHANGED <<pagerVars, boardVars, processVars, worker>>

\* An unknown policy, or no budget to be had: nothing has been done yet.
Refuse(c) ==
  /\ call[c].pc = "new"
  /\ Open(c)
  /\ call' = [call EXCEPT ![c].pc = "refused"]
  /\ UNCHANGED <<pagerVars, boardVars, processVars, worker>>

\* The page that is saved next, and the call when it is.
NextKey(c) == PageKey(Doc[c], call[c].n + 1)
Kept(c) == [call[c] EXCEPT !.pc = "paging", !.n = @ + 1,
                           !.kept = @ \cup {[key |-> NextKey(c), at |-> now]}]
Unkept(c) == [call[c] EXCEPT !.pc = "paging", !.n = @ + 1]
HasNextPage(c) == call[c].n < Doc[c].pages

\* Mutation of FindPage: a page that is there is good enough.
FindPageOnly(c) ==
  /\ call[c].pc = "paging" /\ HasNextPage(c) /\ Connected
  /\ Pages!Lives(NextKey(c))
  /\ call' = [call EXCEPT ![c] = Kept(c)]
  /\ UNCHANGED <<pagerVars, boardVars, processVars, worker>>

\* SavePage: SETNX stores a page that is not there,
StorePage(c) ==
  /\ call[c].pc = "paging" /\ HasNextPage(c) /\ Connected
  /\ Pages!Store(NextKey(c), NextKey(c).hash)
  /\ call' = [call EXCEPT ![c] = Kept(c)]
  /\ UNCHANGED <<boardVars, processVars, worker>>

\* and finds one that is,
FindPage(c) ==
  /\ call[c].pc = "paging" /\ HasNextPage(c) /\ Connected
  /\ Pages!Lives(NextKey(c))
  /\ call' = [call EXCEPT ![c].pc = "expire"]
  /\ UNCHANGED <<pagerVars, boardVars, processVars, worker>>

\* whose time EXPIRE prolongs, unless it is over by now.
ExtendPage(c) ==
  /\ call[c].pc = "expire" /\ Connected
  /\ Pages!Extend(NextKey(c))
  /\ call' = [call EXCEPT ![c] = Kept(c)]
  /\ UNCHANGED <<boardVars, processVars, worker>>

ExtendNothing(c) ==
  /\ call[c].pc = "expire" /\ Connected
  /\ ~Pages!Lives(NextKey(c))
  /\ call' = [call EXCEPT ![c] = Unkept(c)]
  /\ UNCHANGED <<pagerVars, boardVars, processVars, worker>>

\* Mutation of Queue: the job is left to somebody else.
QueueNothing(c) ==
  /\ call[c].pc = "paging" /\ ~HasNextPage(c)
  /\ call' = [call EXCEPT ![c].pc = "reply"]
  /\ UNCHANGED <<pagerVars, boardVars, processVars, worker>>

\* Every page is saved: the summary job is queued, when the policy asks for one.
Queue(c) ==
  /\ call[c].pc = "paging" /\ ~HasNextPage(c)
  /\ IF Doc[c].job
     THEN Connected /\ Board!Submit(JobOf(c))
     ELSE UNCHANGED boardVars
  /\ call' = [call EXCEPT ![c].pc = "reply"]
  /\ UNCHANGED <<pagerVars, processVars, worker>>

\* The evaluation is saved, or not, which is no matter, and the call returns.
Reply(c) ==
  /\ call[c].pc = "reply"
  /\ call' = [call EXCEPT ![c].pc = "replied"]
  /\ UNCHANGED <<pagerVars, boardVars, processVars, worker>>

\* A command fails, with its effect or without: the pipeline ends with an
\* error.  What the earlier ones did stays.
RefineFails(c) ==
  /\ Faults \/ ~Connected
  /\ call[c].pc \in {"paging", "expire"}
  /\ call' = [call EXCEPT ![c] = Ended("failed")]
  /\ \/ UNCHANGED <<pagerVars, boardVars>>
     \/ /\ Connected /\ HasNextPage(c)
        /\ Pages!Store(NextKey(c), NextKey(c).hash) \/ Pages!Extend(NextKey(c))
        /\ UNCHANGED boardVars
     \/ /\ Connected /\ ~HasNextPage(c) /\ Doc[c].job
        /\ Board!Submit(JobOf(c))
        /\ UNCHANGED pagerVars
  /\ UNCHANGED <<processVars, worker>>

----------------------------------------------------------------------------
(* PageIn calls *)

\* A client asks for what a reply named; only gRPC replies name pages.
Ask(r, c) ==
  /\ grpc = "up"
  /\ call[c].pc = "replied" /\ c \notin Http /\ Doc[c].pages > 0
  /\ Pages!Ask(r, Refs(Doc[c]))
  /\ UNCHANGED <<boardVars, processVars, worker, call>>

\* The summary, which is there once the worker has stored it and until it
\* expires, else the page, else a miss.
Answer(r) ==
  /\ Asking(r) /\ Connected
  /\ \/ /\ \E i \in DOMAIN jobs : <<i, Pages!Wanted(r)>> \in written
        /\ Pages!AnswerSummary(r)
     \/ Pages!AnswerPage(r)
     \/ Pages!Miss(r)
  /\ UNCHANGED <<boardVars, processVars, worker, call>>

PageInFails(r) ==
  /\ Faults \/ ~Connected
  /\ Pages!Fail(r)
  /\ UNCHANGED <<boardVars, processVars, worker, call>>

----------------------------------------------------------------------------
(* The summary worker *)

\* The worker goes on: its context is alive.
WorkerRuns == Connected /\ ~signalled

Take(i) ==
  /\ worker.pc = "idle" /\ WorkerRuns
  /\ \A j \in 1..(i - 1) : phase[j] # "queued"
  /\ Board!Take(i)
  /\ worker' = [pc |-> "busy", job |-> i, saved |-> 0]
  /\ UNCHANGED <<pagerVars, processVars, call>>

MyRefs == jobs[worker.job].refs
HasNextRef == worker.saved < Len(MyRefs)
Accepts == MyRefs[worker.saved + 1].hash = jobs[worker.job].hash

\* Mutation of Write: the hash in the page key is not compared.
WriteUnchecked ==
  /\ worker.pc = "busy" /\ WorkerRuns /\ HasNextRef
  /\ written' = written \cup {<<worker.job, MyRefs[worker.saved + 1]>>}
  /\ worker' = [worker EXCEPT !.saved = @ + 1]
  /\ UNCHANGED <<pagerVars, jobs, phase, processVars, call>>

Write ==
  /\ worker.pc = "busy" /\ WorkerRuns /\ HasNextRef
  /\ Board!Write(worker.job, worker.saved + 1)
  /\ worker' = [worker EXCEPT !.saved = @ + 1]
  /\ UNCHANGED <<pagerVars, processVars, call>>

Finish ==
  /\ worker.pc = "busy" /\ WorkerRuns /\ ~HasNextRef
  /\ Board!Finish(worker.job)
  /\ worker' = [NoWorker EXCEPT !.pc = "idle"]
  /\ UNCHANGED <<pagerVars, processVars, call>>

\* Run returns: a command fails, the artifact is refused, or the context is
\* cancelled.  The process goes on without a worker.
WorkerStops ==
  /\ \/ worker.pc = "idle" /\ (Faults \/ ~WorkerRuns)
     \/ worker.pc = "busy" /\ (Faults \/ ~WorkerRuns \/ (HasNextRef /\ ~Accepts))
  /\ worker' = NoWorker
  /\ UNCHANGED <<pagerVars, boardVars, processVars, call>>

----------------------------------------------------------------------------
RefineStep(c) ==
  \/ StorePage(c) \/ FindPage(c) \/ ExtendPage(c) \/ ExtendNothing(c)
  \/ Queue(c) \/ Reply(c)

WorkerStep == (\E i \in DOMAIN jobs : Take(i)) \/ Write \/ Finish \/ WorkerStops

\* What main and the goroutines it starts do once the signal is there.
ShutDown == StopGrpc \/ ServeReturns \/ CloseRedis \/ Exit

ProcessStep ==
  \/ Start \/ Load \/ LoadFails \/ Signal \/ StopHttp \/ ShutDown \/ Kill

Next ==
  \/ Tick
  \/ ProcessStep
  \/ \E c \in Call : \/ Refuse(c) \/ Accept(c)
                     \/ RefineStep(c) \/ RefineFails(c)
  \/ \E r \in Reader : (\E c \in Call : Ask(r, c)) \/ Answer(r) \/ PageInFails(r)
  \/ WorkerStep

Spec == Init /\ [][Next]_vars

\* Goroutines are scheduled and Redis commands return, with an answer or an
\* error: a call that is running ends, LoadRuntime ends, and a shutdown that has
\* begun goes on.  Nobody has to call, to send a signal or to start the process,
\* and the worker owes nobody anything.
Fairness ==
  /\ WF_vars(Load) /\ WF_vars(ShutDown)
  /\ \A c \in Call : WF_vars(RefineStep(c) \/ RefineFails(c))
  /\ \A r \in Reader : WF_vars(Answer(r) \/ PageInFails(r))

FairSpec == Spec /\ Fairness

----------------------------------------------------------------------------
(* Properties *)

\* Nothing of a process outlives it.
NothingOutlives ==
  main \in {"down", "loading"} =>
    /\ worker = NoWorker /\ grpc = "off" /\ http = "off"
    /\ \A c \in Call : ~Running(c)
    /\ \A r \in Reader : ~Asking(r)

\* The types, and that nothing is left of a process that is gone.
TypeOK ==
  /\ now \in Nat
  /\ page \in [Key -> [text : Text, exp : Nat]]
  /\ asked \in [Reader -> Asked \cup {<< >>}]
  /\ outcome \in [Reader -> {"none", "asking", "done", "missing", "failed"}]
  /\ jobs \in Seq(Job)
  /\ phase \in Seq({"queued", "taken", "done"})
  /\ written \subseteq Nat \X Key
  /\ main \in {"down", "loading", "serving", "closing", "flushing"}
  /\ signalled \in BOOLEAN
  /\ grpc \in {"off", "up", "draining"} /\ http \in {"off", "up", "draining"}
  /\ starts \in Nat
  /\ worker \in [pc : {"off", "idle", "busy"}, job : Nat, saved : Nat]
  /\ call \in [Call -> [pc : AtWork \cup {"new", "replied", "failed", "refused",
                                          "cut", "killed"},
                        n : Nat, kept : SUBSET [key : Key, at : Nat]]]
  /\ NothingOutlives

\* A signal costs no gRPC call its answer: when Serve has returned and Redis is
\* closed none is under way, and none is ever cut off by the exit that follows
\* (main waits in Serve for GracefulStop).  Calls to the dashboard server are
\* not covered: nobody waits for its Shutdown.
GrpcCallsFinish ==
  /\ main \in {"closing", "flushing"} => GrpcIdle
  /\ \A c \in Call : call[c].pc = "cut" => c \in Http

\* What a reply promises is there, whoever else pages the same text out, fails
\* half way or is killed, and however often the process is restarted: its pages
\* for a TTL from when they were saved, its summary job for good.  (A page that
\* was found but gone before its EXPIRE is not kept, and the reply names it all
\* the same.)
RepliesHold ==
  \A c \in Call : call[c].pc = "replied" =>
    /\ \A k \in call[c].kept : now < k.at + PageTTL => Pages!Lives(k.key)
    /\ Doc[c].job => \E i \in DOMAIN jobs : jobs[i] = JobOf(c)

\* A PageIn misses a page that a reply named only when its TTL was over.
MissesAreOld ==
  [][\A r \in Reader, c \in Call :
       (outcome[r] = "asking" /\ outcome'[r] = "missing" /\ call[c].pc = "replied")
         => \A k \in call[c].kept : k.key = Pages!Wanted(r) => k.at + PageTTL <= now]_vars

\* A client that pages in a summary gets one that was made of the very text it
\* paged out, whatever the pipeline did to the text before the job was queued.
SummariesAreOfTheText ==
  \A r \in Reader : \A n \in DOMAIN got[r] :
    got[r][n].kind = "summary" =>
      \E i \in DOMAIN jobs : <<i, got[r][n].key>> \in written
                             /\ jobs[i].hash = got[r][n].key.hash

\* The process that got a signal exits (or is killed), however many calls, jobs
\* and servers are busy; there is no timeout that would make it.
SignalledExits == signalled ~> main = "down"
=============================================================================
