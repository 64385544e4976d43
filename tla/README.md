# Context Refiner: a TLA+ development

Context Refiner is a Go service between an application and a language model: it
takes a conversation and the chunks retrieved for it, and returns a prompt within a
token budget. What it cuts it keeps in Redis as *pages*, summarises in the
background, and hands out again on request; and it keeps the front of the prompt
stable so that the model's prefix cache can be used.

This directory holds TLA+ modules translated from that code, the TLC instances
that check them, and TLAPS proofs about them. Source paths below are relative to
`src/internal/` unless they start otherwise.

- [1. The system](#1-the-system)
- [2. The modules](#2-the-modules)
- [3. The runs](#3-the-runs)
- [4. Where code and documents disagree](#4-where-code-and-documents-disagree)
- [5. The proofs](#5-the-proofs)
- [6. What is abstracted, and what is left out](#6-what-is-abstracted-and-what-is-left-out)
- [7. Plan](#7-plan)

`tlc -config <Component>_<run>.cfg MC<Component>.tla` repeats a run,
`tlapm <Component>Proofs.tla` a proof.

## 1. The system

### Parts and how they meet

```
   client ──Refine──▶ service ──▶ pipeline ──▶ processors, in the policy's order
                                                │      │        │
                              paging: SavePage  │      │        │ prefix_cache:
                                                ▼      │        ▼ RegisterPrefix
                                            page keys  │     prefix, session and
                                                       │     hot keys
                       auto_compact_async:             ▼
                       EnqueueSummaryJob ──▶ Redis stream, consumer group
                                                       │
                                                       ▼
                            summary worker (one goroutine per process)
                                                       │ SaveSummary
                                                       ▼
   client ──PageIn──▶ service ──▶ LoadResolvedPage ◀── summary keys
```

Processors, workers and readers never call each other: what they share is Redis. A
call of the repository is often several Redis commands, and nothing makes them one
step. Requests come by gRPC or by `POST /api/refine`, which the dashboard's HTTP server
serves; the dashboard itself reads what Redis holds and what Tempo has collected.

| Part | Where | State | Operations |
| --- | --- | --- | --- |
| Page and summary store | `support/redis/redis_repository.go` | a page key and a summary key for every page, each with a TTL | `SavePage`, `LoadResolvedPage`, `SaveSummary` |
| Summary stream | the same file | stream entries, the group's cursor, its pending entries | `EnqueueSummaryJob`, `EnsureSummaryGroup`, `ConsumeSummaryJobs`, `AckSummaryJob` |
| Summary worker, provider | `support/summary/` | the batch in the goroutine's hands | `Worker.Run`, `processMessages`, `handleJob`; `HeuristicProvider.Summarize` |
| Prefix cache | `redis_repository.go`, `domain/core/prefix_cache_identity.go` | a record per prefix, the last prefix per session, a scored set per namespace | `RegisterPrefix`; admission and namespace in `stage_04_finalize_processors.go`; prewarming in `bootstrap/runtime.go` |
| Pipeline | `domain/core/pipeline.go`, `registry.go`, `src/config/policies.yaml` | the `RefineRequest` that is handed on, its token count, the audits | `Pipeline.Run`, `shouldSkipProcessor` |
| Processors | `domain/core/processor/stage_01..04` | none of their own | fourteen `Process` methods |
| Text components | `domain/core/components/` | none | normalise, split, clean, outline, render |
| Token counter | `support/tokenizer/` | none | `CountText`, `CountChunk`, `CountRequest` |
| Service, mappers | `service/refine_service.go`, `mapper/` | none | `RefineDTO` with its defaults and refusals, `PageInDTO`, the mapping of requests and replies |
| Controllers | `controller/http`, `controller/grpc` | none | decoding of `POST /api/refine`, refusals, the handlers that pass on |
| Trace evaluation | `service/refine_service.go`, `support/redis/trace_evaluation_repository.go` | a key per trace, beside the pages | what is kept of a call for the dashboard |
| Dashboard | `support/redis/dashboard_repository.go`, `service/dashboard_service.go` | none beyond Redis | a snapshot by four scans and the reads of what they found; a page in detail |
| Tempo client | `support/tempo/tempo_repository.go` | none | the search list and the detail page of a trace, from the spans there are |
| Bootstrap | `bootstrap/`, `src/cmd/refiner/main.go` | the process: two servers, a worker, a Redis client, the calls under way | load, prewarm, serve, the signal, the graceful stop, the deferred closes |

### What is hard here

- **Interleaving over Redis.** `SETNX` then `EXPIRE`, `GET` then `DEL`, `GET` then
  `SET`, `ZINCRBY` then `EXPIRE`: between the two, another request, worker or
  reader runs, or the key expires.
- **Partial failure.** A request fails in the middle of a list of pages or jobs;
  what it did before stays. The reply to a command is lost after its effect.
- **Crash and restart** of a worker in the middle of a batch or between two pages, of
  the process in the middle of calls; and the **shutdown**, in which two servers, a
  worker and the Redis client end in an order that only partly is waited for.
- **Time.** Four kinds of keys with TTLs, and summaries with an expiry in the payload
  besides.
- **Long chains of rewriting.** Thirteen processors in a row rewrite the same chunks;
  some key or hash is taken early and used late.
- **Order and stability.** The prompt's front must not depend on the order in which
  chunks arrive or on the time stamps in them.
- **No snapshots.** The dashboard walks a key space that changes under its cursor, and
  draws a trace from spans that come in any order.

`PROJECT.json` lists the hazards one by one, each at its line, with the properties
that would show it going wrong, or the reason why there is none.

### What makes each part correct

- *Store*: a page that was saved is there for its TTL; PageIn answers with the page
  or with a summary of that content, of this release, that had not expired; an
  unusable summary never hides a page.
- *Stream and worker*: an entry has one owner; it counts as done only when all its
  pages have the summary; a worker that lives gets to every job; what a worker leaves
  behind stays visible.
- *Prefix cache*: a registration lives for the TTL it was promised; hot means
  earned; the reason of a miss is true.
- *Pipeline*: the audits tell the whole story; what is paged out can be paged in;
  a request that is never over its budget loses nothing but noise; evidence keeps its sources; the same
  context gives the same prefix, and it is the prefix that is sent.
- *Exchange*: a client that puts a prompt together from the reply gets the text that
  was counted, by either way in and out, and the evaluation shows that text too.
- *Service*: a signal costs no gRPC call its answer, and the process exits; the pages
  and the job a reply names are there, across restarts; a summary is of the text.
- *Dashboard*: what is there all along is not hidden by what comes and goes; a
  snapshot that nothing disturbs is exact; a trace only unfolds as its spans arrive.

## 2. The modules

| Module | Of | |
| --- | --- | --- |
| `JobBoard` | | what the asynchronous queue promises: submitted, taken at most once and in order, written page by page, done |
| `SummaryWorker` | `summary_worker.go`, the stream calls, `auto_compact_async` | the queue, its workers, and the requests that feed it |
| `PageStore` | `SavePage`, `LoadResolvedPage`, `SaveSummary`, `PageInDTO` | pages and summaries, one Redis command per step |
| `PrefixCache` | `RegisterPrefix`, admission, prewarm | the registry, one Redis command per step |
| `Lists` | `sort.SliceStable`, loops that append what passes a test | picking from, sorting and adding up a list |
| `Chunks` | `components/`, the pure parts of the processors | chunks, texts, messages, and the operators on them; EXTENDS `Lists` |
| `RefinePipeline` | `pipeline.go`, all processors | requests running side by side; EXTENDS `Chunks` |
| `Exchange` | controllers, mappers, `RefineDTO` | what clients send and get, around the pipeline; EXTENDS `RefinePipeline` |
| `Pager` | | what the store promises: a page holds one text while it lives, a use of it prolongs it, a reader is answered in order and misses only what is not there |
| `Refiner` | `main.go`, `runtime.go`, the service as a whole | calls, worker and PageIn over the lives of a process; on `JobBoard` and `Pager` |
| `Snapshot` | `dashboard_repository.go` | the dashboard's snapshot, scan by scan, over a store that changes |
| `Traces` | `tempo_repository.go` | a trace from the spans that have arrived |
| `Dashboard` | `dashboard_service.go` | the two views of the browser; EXTENDS `Snapshot` and `Traces` |
| `MC...` | | constants and inputs of the TLC instances |
| `...Proofs` | | theorems about the module of that name; `ListProofs` and `ChunkProofs` hold lemmas about operators |

The definitions carry the names of the code where there is one. `PROJECT.json`, under
"map", gives the lines for each.

**JobBoard** is the abstract specification: `jobs`, the `phase` of each, and the pairs
`written`. It has no cursor, no group, no worker. `SummaryWorker` implements it with
`jobs <- stream` and a phase computed from the cursor and the pending list
(`PhaseOf`).

**SummaryWorker**. `pc[w]` is where the goroutine of process `w` is in `Worker.Run`:
ensuring the group, polling, summarising, saving; `cur[w]..last[w]` is the rest of its
batch and `saved[w]` the pages of the current job that are stored. Every Redis call is
an action that succeeds and one that fails; the failing one may have had its effect.
`Stop` is the return of `Run`, which nothing undoes; `Crash` is the end of the process,
`Restart` a new one on the same Redis. A chunk is a record with what matters to its
job: how many pages it was cut into, whether its text is still that of the whole, and
whether there is anything to summarise. `written` is history.

**PageStore**. Keys carry the hash of their chunk. `saver`, `reader` and `writer` are
the calls in progress with their local variables; `held` is the payload that a reader
has got and not yet judged, and `at` the time it got it. A key exists while `now` is
below its expiry. `OldSummary` are payloads an earlier release may have left: legacy
ones (migrated on read) and artifacts of another schema. A payload carries its `origin`,
history that no step reads: the key it was first stored under and what it was then. A
summary that is answered with is judged by that (`SummaryFits`), and not by what the reader
has made of it.

**PrefixCache**. An identity is a model and a prefix, which stands for its three
segment hashes and the version of the normalisation. A call goes through
`LookUp`, `LoadSession`, `SetRecord`, `SetSession`, `Score`, `ExpireHot`, and may fail
before each. `sets`, `seen` and `last` are history. `BriefSpec` is the deployment in
which a registration takes no time on a clock that counts TTLs.

**Chunks** and **RefinePipeline**. A text is a sequence of units; a unit is a line, a
paragraph or a sentence and one token long. What the code's regular expressions find
in a unit is given by the sets it belongs to: `Markup`, `Boilerplate`, `Short`,
`Signal`, and `Canon` for time stamps and identifiers. A source is a name as a client writes
it; `Label` is what `NormalizeSourceLabel` makes of it (a URL without query and fragment),
`Fold` its lower case, `StableSources` the list without blanks and second spellings, in order,
and `Folds` what a list cites whatever the spelling. A processor is one action,
apart from its calls to Redis, which are steps of their own (`done[r]` counts them):
`PageOut` before `Paging`, `Enqueue` before `AutoCompactAsync`. A request is the record
that processors hand on: chunks, messages, the prompt, tokens, audits.

**Exchange**. `Received` is what the pipeline is given for a request (`decodeRAG`,
`mapDTOMessages`, `resolvePolicy`, `resolveBudget` and the proto mapping), `Refused`
says when it is given nothing, `Reply` and `Evaluation` are what comes out, each by the
code's own way. `GrpcSources` is the rule that a chunk's one source counts only when it
lists none (`mapProtoSources`, and `StableSources` for a list of blanks); `ItemsOf` are the
items that become chunks. `Accepted` are the inputs of `RefinePipeline`; the module adds no
variable.

**Pager** and **Refiner**. `Pager` has pages with an expiry and readers with their
answers, and no Redis commands, payloads or workers. `PageStore` implements it: a
reader's answers and outcome are those of its loop, `SETNX` is `Store` or nothing,
`EXPIRE` is `Extend` or nothing, and what is done to summaries is no step of `Pager`
at all. `Refiner` takes store and queue at their word and instantiates the two abstract
modules over its own variables, so that `StorePage` *is* `Pages!Store` and `Queue` *is*
`Board!Submit`. Around them it has the process: `main` is where `func main` is, `grpc` and
`http` are the servers, `worker` is the goroutine, `call[c]` a `Refine` call with the pages
it has saved and when. A process that is gone takes worker, servers and calls with it
(`Gone`); what is in Redis stays. The hash of a job is that of what paging leaves
(`Doc[c].rest`), where the code takes it.

**Snapshot**. Keys are numbers in the order of their names. A scan ends with the keys that
were there all along, any of those that were there at some time, and some twice when
Redis shrinks its table meanwhile; `todo` is what is still to be read, `rows` what has
been. Everybody else changes the store between any two steps (`MaxChanges` times). A
useless summary is deleted by looking at it, as the code does.

**Traces**. `arrived` are the spans that Tempo has; `Detail` and `Item` are what the page
and the search list are computed to from them; both round times to milliseconds as the
code does, `Milli` units each, down for the trace and up to 1 for a span. **Dashboard** is a browser that shows one of
the two views.

How they fit: `SummaryWorker` implements `JobBoard`, `PageStore` implements `Pager`, and
`Refiner` builds on both abstractions. `RefinePipeline` saves pages and queues jobs as
single steps; `PageStore` and `SummaryWorker` take these calls apart. `RefinePipeline`
registers a prefix in one step, `PrefixCache` has its commands. `SummaryWorker`'s
assumption that a chunk cut into pages has no longer the text of the whole
(`OnePageAssumption`) is what `FirstPage` does to it in `Chunks`, and the difference of
`hash` and `rest` in `Refiner`.

## 3. The runs

Passing runs; the number of states is that of distinct ones.

| Run | Instance | States | Properties |
| --- | --- | --- | --- |
| `SummaryWorker_safety` | 2 workers, 2 requests, 3 entries, batches of 2, 2 starts each, failures and crashes | 564 k | `TypeOK`, `BatchesOwned`, `AckedAreWritten`, `ResponseIdsInStream`, `OrphansStay`, `ImplementsJobBoard` |
| `SummaryWorker_liveness` | 2 workers, 1 request, 2 entries, all four kinds of chunk, fair workers | 43 k | `LiveWorkerDelivers`, `EveryJobIsAcked` |
| `PageStore_store` | in depth: 1 key, 2 savers of 2 texts, 1 reader that asks for it twice, 1 worker, 3 payloads of an earlier release, TTL 2, clock to 4, failures and lost replies; in breadth: 2 keys of one chunk, 2 readers that ask for both, 1 saver, 1 worker, legacy payloads, clock to 3 | 1.0 M | `TypeOK`, `AnswersFit`, `PageOutlivesSave`, `MissesAreExpiries`, `ImplementsPager` |
| `PrefixCache_concurrent` | 2 calls at a time, 3 in all, 2 prefixes, TTLs 2 and 3, clock to 4, failures | 1.8 M | `TypeOK`, `RegistrationLives`, `HotIsEarned`, `ReasonsAreTrue` |
| `PrefixCache_sequential` | 1 call at a time, 3 in all, a session and a template, 2 models, 7 prefixes | 788 k | `OftenMeansHot`, `ReasonsAreTrue`, `ModelChangeIsDiagnosed` |
| `RefinePipeline_requests` | 2 requests, each any of 15 that are accepted (3 more are refused), by gRPC and HTTP, 4 policies, failures | 45 k | `TypeOK`, `AuditsAddUp`, `PagedOutIsReachable`, `RefsArePaged`, `CitationsAreKept`, `NothingLostWithinBudget`, `SameContextSamePrefix`, `RegisteredPrefixIsSent`, `ReplyIsThePrompt` |
| `Refiner_service` | a gRPC and an HTTP call of the same text, one page each, the second rewritten before its job; a reader, TTL 2, clock to 2, 2 starts, signals, kills, failures | 204 k | `TypeOK`, `GrpcCallsFinish`, `RepliesHold`, `SummariesAreOfTheText`, `MissesAreOld`, `SignalledExits` |
| `Dashboard_views` | 2 pages, an evaluation, 3 prefixes in 2 namespaces, lists of 2, any of 346 stores, 1 change, failures; all acyclic traces of 3 spans in any order, some below a millisecond | 1.5 M | `TypeOK`, `NothingSteadyIsHidden`, `QuietSnapshotIsExact`, `DetailIsTrue`, `TracesUnfold` |

The comment above each property says what it states. Deadlock is not checked in any
run: the requests are few, the stream and the clocks are bounded, and every instance
comes to its end.

**Why the bounds are enough.** *SummaryWorker*: with batches of two and three entries
there is a full batch, a rest, and an entry for the other worker; two starts let a
worker come back to a group that exists, with entries of its own still pending.
*PageStore*: a TTL of two lets a key live, be refreshed and expire while a call is
under way; the clock reaches the end of two lives. A reader that asks for the same key
twice meets it before and after every change of the store, and has an answer in hand
when it misses the second. With two keys and two readers, an answer can be out of order,
come from the other key, or from what the other reader has written back; a legacy payload
has its time at 3, within reach, and a reader that gave it a new life would serve it then.
Both at once would be more than TLC can go through: `BoundedSpec` has the steps of `Spec`
that stay within the one instance or the other (`InDepth`, `InBreadth`); between them
every action of `PageStore` happens. The proofs have lists of any keys.
*PrefixCache*: the threshold is two, so two registrations make a prefix hot and a lost update keeps it from being so; three calls also lose a life and
start another. *RefinePipeline*: pages hold three units, so that a chunk of seven
takes three pages; the inputs hold each fragment type that a processor treats
differently, duplicates with other sources and IDs, a URL with a query, a source in capitals,
a single source without a list, next to one and with a list of blanks, boilerplate and markup, headings
of both kinds with and without room for their labels, chunks without fragments, requests within, at the edge of and far above their budget, and
pairs that differ in order and in time stamps only. They come by both ways, with and
without system text, fragments, identifiers, sources, budget and policy name; the
refused ones are one for each reason. *Refiner*: one page for each call and the same page
for both, so that one call finds what the other stores, prolongs it, or finds it gone;
the second start meets the pages, jobs and answers of the first. The time of a page ends
within the instance, and the theorems have any number of pages. *Dashboard*: lists of two
are too short for three keys; an evaluation lies between the pages in the order of
names; namespaces of two and one let the hot list fill up within and between them.
Three spans make chains, forks, parents that never arrive and every order of arrival.

**Fairness** is stated for two modules.

- `SummaryWorker`: `WF_vars(Progress(w))` for every worker, where `Progress` is a step
  whose call answers. The goroutine has nothing else to do and waits for nobody: its
  calls carry a context and the client's timeouts, and a poll comes back after
  `block_timeout`. Failing, crashing, restarting and new requests are nobody's
  obligation; a worker that stops is not restarted by fairness, so the properties say
  under which condition (no worker stops, one of them does not stop for good) they hold.
- `Refiner`: weak fairness of `Load`, of `ShutDown` (the steps of `main` and of the
  goroutine it starts for the signal), of every call (its next step or its failure) and
  of every reader (an answer or a failure). Goroutines are scheduled, and a Redis command
  comes back, if with an error. None for the clock, signals, starts, kills, new calls,
  the failure of loading, the HTTP server's shutdown, or the worker. It follows that
  a process that got a signal exits, although `GracefulStop` has no timeout: what it
  waits for ends by itself.

**Mutants.** Each property of a passing run has a mutation of a mapped definition
that breaks it: a guard that is dropped, an error that is swallowed, a count that is
not reset. They stand next to the definitions they mutate and are part of no
specification.

## 4. Where code and documents disagree

| Run | The document says | The code does |
| --- | --- | --- |
| `SummaryWorker_page_refs` | `docs/test-plan.md:199`: a consumed job gets its summary written to all `page_refs` | The hash of the job is taken after paging has left only the first page in the chunk, the page keys carry the hash of the whole: the artifact of every chunk with two or more pages is refused, and the refusal ends the worker |
| `PageStore_delete_race` | `docs/code-design.md:402`: an artifact that does not validate is deleted | The key is deleted, or overwritten with a migrated payload, whatever it holds by then; a valid artifact that a worker has just stored is lost |
| `PrefixCache_model_change` | `docs/context-refiner-design.md:385`: `model_changed` can be told apart | By default the namespace contains the model and the session key contains the namespace: after a change of model nothing is found, and the reason is `created` |
| `RefinePipeline_lost_pages` | `docs/principles-and-internals.md:133`: the prompt keeps the first page, the rest is paged out and can be paged in | Two chunks with the same first page are duplicates to `collapse`, which drops the page keys of the second |

Seen while reading, without a run of their own.

*Redis.* `EXPIRE` may find nothing and is not looked at, so that `SavePage` succeeds and
there is no page (`Refiner`'s `ExtendNothing`). Concurrent registrations lose hits
(`docs/context-refiner-design.md:411` counts registrations). The hot set gets the TTL of
whoever registered last, and `hot_ttl` may be configured shorter than the default TTL.
Processes that keep the default consumer name `worker-1` share one pending list.

*Pipeline.* Page keys are sorted as strings, page 10 before page 2. Lines that are short
and repeated are all removed by a processor that declares itself lossless. A label can
push a page over the limit. `canonicalize` makes each heading a title fragment with a label of its
own, which can push a request that fitted over its budget, where the lossy processors
begin (`NothingLostWithinBudget` is therefore about requests that were never over). The identifiers in code are blanked in the registered prefix
and kept in the prompt, so that one registered prefix may stand for two sent ones. A
policy may name a processor that does not exist; it is left out without an error. The
pattern in `components/rag_clean.go:15` has a back reference, which Go's
`regexp.MustCompile` rejects when the package is initialised.

*Requests and replies.* The minimal example of `docs/http-api-refine.md:15`, without model
and budget, gets no budget and is refused (`Refused`), with status 500 as all refusals of
the service. `docs/http-api-refine.md:244` tells clients to send `FRAGMENT_TYPE_CODE` or
`FRAGMENT_TYPE_LOG`; `mapper/mapper_helper.go:48` knows `code` and `log`, and the documented
names become body (`TypeRead`). HTTP replies name no pages, so that their readers
cannot page in. With tracing disabled all calls have the same, zero trace ID, and each
overwrites the evaluation of the one before.

*Process.* `docs/code-design.md:106` has the start-up code do the graceful exit; gRPC calls are
waited for, HTTP calls of `/api/refine` are not and are cut by the exit (`Exit`).
`log.Fatal` skips the deferred closes.

*Dashboard.* Evaluations are counted and listed as pages
(`support/redis/dashboard_repository.go:341`), and with the prefix
`context-refiner` the stream's own key would be one too. A Redis error while a summary is
loaded is skipped without a word (`slips`); what `SCAN` returns twice is listed twice, but
for hot prefixes; a full hot list holds the first namespace's entries, not the hottest.
The search list of traces ignores status codes which the detail page counts; a span
without start time gets a duration of decades. A trace of less than a millisecond is shown
with its root's duration: 0 ms when the root took no time, over spans that are shown with
1 ms (`support/tempo/tempo_repository.go:302`, `:703`). `DetailIsTrue` says what remains
true of the durations.

## 5. The proofs

For every value of the constants that satisfies the named assumptions of the modules:

| Theorem | Says | Rests on |
| --- | --- | --- |
| `SummaryWorkerProofs!TypeCorrect` | `[]TypeOK` | `BatchAssumption`, `ChunkAssumption` |
| `SummaryWorkerProofs!Inductive` | `[]IndInv` | the same |
| `SummaryWorkerProofs!AckMeansStored` | `[]AckedAreWritten` | `Inductive` |
| `SummaryWorkerProofs!OneOwner` | `[]BatchesOwned` | `Inductive` |
| `SummaryWorkerProofs!StoredHashesAgree` | what is stored under a key has the hash of that key | `Inductive` |
| `SummaryWorkerProofs!OrphansRemain` | `OrphansStay`, an action property | `Inductive` |
| `SummaryWorkerProofs!ResponsesNameTheirJobs` | `[]ResponseIdsInStream` | `Inductive` |
| `SummaryWorkerProofs!Implementation` | `Spec => Board!Spec` | `Inductive` |
| `PageStoreProofs!TypeCorrect` | `[]TypeOK` | the assumptions on keys, payloads and TTL |
| `PageStoreProofs!PagesOutliveSaves` | `[]PageOutlivesSave` | `TypeCorrect`'s invariant |
| `PageStoreProofs!TextsRemain` | `TextsAreKept`, an action property: the text of a page that lives does not change | the same |
| `PageStoreProofs!MissesExpired` | `[]MissesAreExpiries` | `PagesOutliveSaves`' invariant |
| `PageStoreProofs!AnswersAreFit` | `[]AnswersFit` | `TypeCorrect`'s invariant, `HistoryIsKept` |
| `PageStoreProofs!Implementation` | `Spec => Pages!Spec`, of `Pager` | `TypeCorrect`'s invariant, `HistoryIsKept` |
| `PrefixCacheProofs!TypeCorrect` | `[]TypeOK` | the assumptions on sessions, prefixes, TTLs |
| `PrefixCacheProofs!HitsAreEarned` | `[]HotIsEarned` | the same |
| `PrefixCacheProofs!RegistrationsLive` | `[]RegistrationLives` | and `DefaultTTL <= HotTTL`, which the configuration does not enforce |
| `PrefixCacheProofs!ReasonsExplain` | `[]ReasonsAreTrue` | `TypeCorrect`'s invariant, `PrefixAssumption` |
| `PrefixCacheProofs!ModelChangesShow` | `[]ModelChangeIsDiagnosed`, when the namespace is without the model | `TypeCorrect`'s invariant |
| `PrefixCacheProofs!OftenIsHot` | `[]OftenMeansHot` of `BriefSpec`, with one call at a time | `TypeCorrect`'s invariant |
| `RefinePipelineProofs!Inductive`, `BooksAreKept` | `[]AuditsAddUp` | no assumption |
| `RefinePipelineProofs!PrefixIsSent` | `[]RegisteredPrefixIsSent` | `FinalAssumption`: the processors of stage 4 have no trigger and come last in a policy |
| `RefinePipelineProofs!TypesAreKept` | `[]TypeOK` | `InputAssumption`, `UnitAssumption`, `SourceAssumption`, `PageLimitAssumption`, `KeepAssumption`, `TriggerAssumption` |
| `RefinePipelineProofs!NoPageIsMissing` | `[]RefsArePaged` | the same |
| `RefinePipelineProofs!NoCitationIsLost` | `[]CitationsAreKept` | those of `TypesAreKept`, `SourceAssumption`, and `SentAssumption`, `AcceptedAssumption`, `ExternalAssumption`: requests come by way of the two mappings |
| `RefinePipelineProofs!SameContextIsSamePrefix` | `[]SameContextSamePrefix` | those of `TypesAreKept` |
| `ChunkProofs!PagesReadBack` | the pages of a chunk, read one after the other, are its text: a lemma on what `SplitText` and `Paginate` compute | `LabelsApart`; the assumptions on units and the page limit |
| `RefinePipelineProofs!PagingLosesNothing` | `[]PagedOutIsReachable` | those of `TypesAreKept`, and the conditions `LabelsApart`, `PagesFirst`, `KeysTell`, `CopiesTell` on what is configured and sent |
| `RefinePipelineProofs!RepliesAreThePrompt` | `[]ReplyIsThePrompt` | the same |
| `RefinerProofs!TypeCorrect` | `[]TypeOK`, with it that nothing of a process outlives it | the assumptions on calls and TTL |
| `RefinerProofs!CallsFinish` | `[]GrpcCallsFinish` | `TypeCorrect` |
| `RefinerProofs!RepliesKept` | `[]RepliesHold` | `TypeCorrect` |
| `RefinerProofs!MissesAreLate` | `MissesAreOld`, an action property | `RepliesKept`'s invariant |
| `RefinerProofs!SummariesFit` | `[]SummariesAreOfTheText` | `TypeCorrect` |
| `DashboardProofs!TypeCorrect` | `[]TypeOK` | `KeyAssumption`, `StoresAssumption`, `PageSizeAssumption`, `ChangesAssumption`; for the page of a trace `SpanAssumption`, `TraceAssumption` |
| `DashboardProofs!SteadyIsNotHidden` | `[]NothingSteadyIsHidden` | the four about the snapshot |
| `DashboardProofs!QuietIsExact` | `[]QuietSnapshotIsExact` | the same |
| `DashboardProofs!PagesAreTrue` | `[]DetailIsTrue` | `SpanAssumption`, `TraceAssumption`: parents do not go round in a circle |
| `DashboardProofs!PagesUnfold` | `TracesUnfold`, an action property | the same |

**SummaryWorker.** `AckedAreWritten` alone is not inductive: that an entry may be
acknowledged depends on what the goroutine has counted. `IndInv` adds `SavedSoFar`
(what is counted is stored), `IdleUnsaved` (the count starts at zero), `BatchesOwned`
(the entry is pending and of no other worker) and `DeliveryBounds` (the cursor never
passes the end of the stream). `ResponseIdsInStream` is inductive: what a step appends to
the stream is picked for its request last and for no other (`PickAppend`). The steps that end a batch share a lemma (`ReleaseInv`),
so do those that work on the head of one (`AckHeadInv`, `WriteHeadInv`). For
`Implementation` each action is shown to be an action of `JobBoard` or a stutter, under
`IndInv`: delivering is `Take`, storing a page is `Write`, acknowledging is `Finish`,
and a call that fails is one of them or nothing.

**PageStore.** `PageOutlivesSave` follows from `ServedInv`: a served call has written
an expiry a whole TTL later, and nobody moves one back. For the latter the proof needs
that no page expires later than one written now would (`now + PageTTL`). `MissesExpired` adds
that no reader's clock is ahead (`ReadersInTime`): a reader misses at the time it looks.
`AnswersAreFit` is about two kinds of answers: for pages, whatever lives was given to a
`SavePage` of that key (`PagesAreSaved`), and no call forgets what it was given; for
summaries, `HistoryInv`: what a summary key holds, and what a reader has got from it, is
what was first stored there, or what a legacy payload turns into, with its date and its
deadline (`Kept`), so that what validates as decoded stood for the page as stored
(`KeptStandsFor`). `Implementation` needs the types and that: a Redis command of a saver is `Store`,
`Extend` or nothing, a step of a reader that ends a key is its answer, and all that
happens to summaries is nothing.

**PrefixCache.** `CountInv` counts in two places at once, the record and the calls that
have read it and not yet written it; `LifeInv` says that a `SET` is good for the default
TTL and that a later `SET`, with whatever stale count, is too. For the reasons,
`ReasonInv` says that a session key holds what was registered under it, and
`DiagnosisExplains` that two identities of a model which agree in all four fields are one,
so that `combined_changed` is never reached; a reason once found stays true because `seen`
only grows. `ModelInv`: without the model in it a session has a single key, the
one its last registration wrote. `EveryHitCounts`: with one call at a time nobody stores
the record between its `GET` and its `SET`, and in `BriefSpec` it does not expire there.

**RefinePipeline.** `Inv` says that a request's tokens are `CountRequest` of its current
chunks, messages and prompt, and that the audits are a chain. `HandOnFacts` proves once
that handing on a request that was recounted keeps both; each processor then has to
show that what it hands on was recounted, or differs in nothing that counts.

`PrefixInv` is what `RegisteredPrefixIsSent` needs of a request under way: a prompt is
there only once `assemble` is passed and is then what chunks and messages make of it, and
a prefix that was registered is that of the present chunks and messages. Nothing rewrites
them in between because no processor of stages 1 to 3 comes after one of stage 4. That is
`FinalAssumption`; both policies in `src/config/policies.yaml` end with `prefix_cache` and
`assemble`, and neither descriptor has a trigger, so that neither is skipped.

`DataInv` serves the next three. For each request: its chunks and messages are typed;
its page keys are in the store (`Paged`); what each chunk given cites is part of what a chunk
cites that it has now (`Covers`); and a processor in the midst of its calls still runs, with the
pages it has counted in the store (`Calls`). `RefsArePaged` alone is not inductive: the
step that hands the keys on, `Paging`, comes after the steps that save the pages, and only
`Calls` knows that `done[r]` of them are there; that it is not skipped half-way has to be
known because `Skip` would start the count for the next processor with it. Pages are never
taken away here, so that other requests do no harm. For every processor `ChunkProofs`
says what it makes of chunks: still chunks, with sources and keys that stand for those
before (`StandFor`), of which `NormalizeChunk`, collapse and the sort are the hard cases.
Sources are compared by `Folds`, which `StableSources` keeps (`StableSourcesFacts`) and the
merged list of a collapse joins. `NoCitationIsLost` puts the two ends to it: an item that was
sent cites what its chunk does (`ItemsAreChunks`), by the one way or the other, and the reply
has the sources of its chunks (`ReplyCites`).

`SameContextSamePrefix` compares two requests that are never at the same place at the
same time. The proof goes through what each has in common with its input: `CourseInv`
says that a request is on a `Course`, a sequence of requests that begins with
`MapRequest` of the input and takes the processors of the policy one by one (`Turns`),
calls to the store and their failures left out. `StableChunks` sorts the normalised
chunks of both inputs to one list (`SortedSame`), because two different chunks never tie;
from there on the two requests are `Alike`: the same chunks and prefix, the same past up to
what `NormalMessage` blanks, last messages of one layout, and as many tokens. A trigger,
which reads the tokens, skips both or neither, and what a processor makes of the one it
makes of the other (`TurnsAlike`), so that the courses stay alike to the end
(`CoursesAlike`). The first statement of the property did not survive the attempt: it took
the chunks for a set, but requests that repeat a chunk differ in tokens, so that one may
pass a trigger that the other does not; two different chunks with equal sources and ID tie
in the sort and stay in the client's order; and a last message with other blank or markup
lines has another length once they are gone. `SameContext` now asks for the same chunks as
often, for no such tie, and for last messages of one layout.

`PagedOutIsReachable` is proved under conditions, which are hypotheses of
`PagingLosesNothing` and not assumptions of the model, since the code and its
configuration see to the first only:

- `PagesFirst`: paging comes first and collapse, if at all, next, and paging is not skipped
  while a chunk is too large. So it is in `src/config/policies.yaml` and by
  `MinTriggerTokens` of the descriptor, which is the page limit and one.
- `LabelsApart`: no line that a client wrote is a label. Pages repeat the labels of what they
  cut, so that reading back has to tell the two apart.
- `KeysTell`: chunks with the same page keys are cut alike. The key has the hash of the
  text, and not where its fragments begin: two chunks that differ in this alone share keys
  and not pages, and `SETNX` keeps those of the first.
- `CopiesTell`: of chunks whose first pages are equal, the first has the keys of all. Nothing
  enforces it; the two editions of `RefinePipeline_lost_pages` break it, which is the finding.

`MCRefinePipeline` has TLC evaluate all four for the inputs of `RefinePipeline_requests`, and
that the inputs of `RefinePipeline_lost_pages` meet the first three. The proof has three
parts. `PagesReadBack`: the pieces of a text join to the text (`PiecesJoin`), packing
appends one part after the other (`PackedReads`), and labels and blank lines are no words.
`CourseBears`: on the course of the request, paging runs because a chunk has no more tokens
than the prompt that it is in (`ChunkInPrompt`), leaves the keys of all pages with the first
(`FirstPagesBear`), and no processor after it parts them (`TurnKeeps`, `CollapsedChunks`).
`StoreInv`: what is in the store under a key is a page, with that key, of a chunk that
somebody sent; so two pages under one key are one page by `KeysTell`, whoever came first.
That the keys are there at all is `DataInv`'s `Paged`.

**Exchange.** The reply is made of a request's messages and chunks, the prompt was made of
them another way: `ReplyIsThePrompt` is about what two computations have in common. All of
their steps, whether they pick, rewrite or join, are Flats: `Flat(h, s)` joins the lists
that `h` has for the elements of `s`. The Flat of a Flat is a Flat (`FlatFlat`), so that
each side goes through the messages once, and what it has of one message can be compared
(`SystemSays`, `OthersReply`, `OthersSay`). The prompt has the messages in another order;
that does no harm to what only looks at the system or only at the others, and does not see
whether a message was normalised (`SaidInPrompt`). Chunks come back without blank ends and
page keys: neither the sort (`SortedBySamePlaces`) nor the gist (`GistOfTrimmedFragment`)
sees that. For the evaluation, `CountInv` says that the input tokens stay those of what
came in; that the steps add up is then the chain of audits, summed (`Telescope`).
The attempt showed that the model labelled fragments of nothing but blanks, which
`FragmentText` leaves out; `Rendered` now trims first, as the code does, and an input of
the runs has such a fragment.

**Lists.** No induction theorem of the library can be used (it takes an operator), so
`ListProofs` derives induction over sets of numbers from a least counterexample
(`Induction`), and from it what functions by recursion compute (`Recursion`). `PickFacts`
and `PickAppend` say what picking gives, `SortedByRank` that a sort is a permutation,
`FlattenFacts` where the elements of a flattened list come from. `Pick`, `Sorted` and
`Total` stand in the models where the library has `SelectSeq`, `SortSeq` and folds: these
are recursive operators, or choose among permutations nobody has shown to exist.
`Flat` and the lemmas on it are the algebra of lists that `Exchange` needs, and
`PickRelated` and the lemmas after it carry a relation between the elements of two lists
over picking, flattening and totals, and `SortedAlike` over sorting.

**Refiner.** `Base` adds to the types that a call which found a page is at one of its
pages (`AtPage`) and that the worker is at one of the jobs (`AtJob`). `Drained`: once
`Serve` has returned no gRPC call runs, and nobody has cut one; the return of `Serve` is
the only way there, and its guard is what `GracefulStop` waits for. `Promises`: a page
that a call has kept expires a TTL after that time or later (`PagesKept`, with
`PagesBounded`, as in `PageStore`), and a call past its queueing has its job in the queue
(`JobsQueued`); neither is touched by a kill. `WrittenFit` and `ReadersFit`: what is
written for a job has its hash, and a summary that was answered was written.

**Dashboard.** Both properties speak of the answer, which is put together over four scans
and as many loops; the invariants say what is true on the way. `SteadyInv`: a scan has
all that is steady; while a family is read, each steady thing has its row (`HasRow`), is
still to be read (`ToRead`), or is a hot prefix that a full list has no place for
(`CutOff`); pages are read in the order of their names (`InOrder`), so that the rows of a
list that is full come before what is left; and the families that are passed hide nothing.
Every step keeps this because whatever changes leaves `kept` (`Settled`). `QuietInv` is
about snapshots without a change, a shrinking table or a skipped error: scans are exact,
rows are true (`TrueRows`), and a row and what is still to be read never meet, so that no
row comes twice. `SortedBest`, `Found` and `TopFacts` say what the three sorts do:
`sort.Slice` of rows, of keys, and Redis's own order of a sorted set. The loads of
summaries delete what is of no use, and `UselessGoes` shows that nothing that is shown is.

`TraceInv` says of the page of a trace that it shows spans that have arrived and is true of
them (`TruePage`): the depth of each is the number of its known ancestors (`DepthFacts`; the
recursion of `buildDepthIndex` ends because no span is among its own ancestors), the time
from `start` to `end` covers every span, and the errors by service, with those of no
service, make up the total. `PagesUnfold` rests on this and on the ancestors
only growing with the spans (`UpsGrow`).

**Model-checked only**, and why:

- The liveness properties `LiveWorkerDelivers`, `EveryJobIsAcked` and `SignalledExits`:
  fairness is beyond this prover.
- `NothingLostWithinBudget`. It holds of the inputs of the run, not of all: it takes what
  `PagingLosesNothing` takes, and two chunks with equal text in different fragments collapse
  to one, of which repeated short lines may then go; a statement for all inputs would have to
  follow every line through collapse and the headings of canonicalize.

## 6. What is abstracted, and what is left out

- **Tokens** are additive, one per unit; a real encoder is not additive over a join,
  and `splitRunesByTokenBudget` searches over counts that need not be monotone.
- **Text** inside a unit. Splitting never cuts a unit; a paragraph too long for a page
  is several units. Which line is a heading is a constant, and every line above a rule is
  short enough for one; the wording of titles, summaries and outlines is left out.
- **Sources**. The one source of a chunk rides along to the reply untouched and is in the
  model only where it stands in for the list. A name within a URL that has control characters
  is not normalised for good at the first time and is no `Source`. A page key has its sources'
  names with some characters replaced, so that two names could meet; the model keeps them apart.
- **Ties and tags**. Chunks of the same sources without an ID come in the order of their text
  in the code, and stay in the client's here. Of a text that is nothing but tags the code
  leaves the tags.
- **Redis** commands are atomic and Redis itself does not lose data. The client sends a
  command once: go-redis's own retries, which the code leaves at their default
  (`support/redis/redis_repository.go:72`), could append a job twice when the reply to its
  `XADD` is lost, and score a hot prefix twice (`ZINCRBY`).
- **Namespaces** are a model or nothing; tenant and policy would act in the same way.
- The inputs of `RefinePipeline_requests` hold no two oversized chunks with the same
  first page (that is `RefinePipeline_lost_pages`), and no two chunks with the same text
  in different fragments, which would share page keys and not pages.
- **Exchange**. The roles of messages are the system's and others; time stamps,
  identifiers and blank lines may differ between reply and prompt, as the processors and
  `TrimSpace` make them. `"log"` stands for tool output too. The step that refuses a
  request is `Refiner`'s `Refuse`; generated session and request IDs, metadata and the
  languages of fragments are data that nothing modelled reads.
- **Refiner**. The worker has one job at a time, and a lost reply costs it the batch
  (`SummaryWorker` has batches and lost replies). A summary may have expired whenever it
  is looked for, so that every answer may be the page. Keeping the evaluation changes
  nothing modelled there and is part of `Reply`. `HTTP` replies name no pages.
- **Snapshot**. The `GET` of a page and the load of its summary are one step: what a delete
  may hit in between is `PageStore`'s matter (`ReadersKeepValidSummaries`). Loading the
  entry of a hot prefix adds data to its row and nothing else. `LoadPageDetail` makes the
  calls of a `PageStore` reader for one key and a plain `GET`. The count of the hot family
  is that of sorted sets and is not shown. Limits and previews come from the configuration.
- **Traces**. Span IDs are unique, nothing is its own ancestor (`TraceAssumption`; the code would recurse
  without end), and Tempo returns one set of spans for a trace. Times are
  whole units, `Milli` of them a millisecond; the run has 2, so that a span can take half of one.
- The semantic audit and the metadata that processors write.

**Not modelled**, and why: metrics and tracing (no decision of the program reads them);
the loading and validation of the configuration (its settings are constants); the `GET`
of one evaluation (nothing interleaves with it); JSON, status codes and the HTTP
requests to Tempo (pure conversion); the client, the seeding tool, web assets and generated
code.

## 7. Plan

Done, in this order: the summary queue (`JobBoard`, `SummaryWorker`), the store
(`PageStore`), the prefix cache (`PrefixCache`), the pipeline (`Chunks`,
`RefinePipeline`), the abstract store (`Pager`), the composition of calls, worker, readers
and process (`Refiner`), requests and replies (`Exchange`), the dashboard (`Snapshot`,
`Traces`, `Dashboard`), each with runs and mutants, and proofs
for each: types, safety, two refinements, for the pipeline, on top of lemmas about lists
and chunks, that books, citations, page keys and the prefix are kept, that the same
context gives the same prefix, that what was paged out reads back and that the reply is
the prompt, and for the dashboard that nothing steady is hidden, a quiet snapshot is exact, and a trace's page is true and only unfolds.

Left:

1. *Model.* The semantic audit.
2. *Runs.* The pipeline's instance with chunks that share text but not fragments.
3. *Proofs.* `NothingLostWithinBudget`, from `PagingLosesNothing` and a condition on chunks
   with equal text in different fragments.
