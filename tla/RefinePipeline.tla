--------------------------- MODULE RefinePipeline ---------------------------
(***************************************************************************)
(* Refine requests: the policy's processors run one after the other over a *)
(* request's chunks and messages (pipeline.go), each on a copy of what its *)
(* predecessor left; requests run side by side and share the page store    *)
(* and the summary queue.                                                  *)
(*                                                                         *)
(* A processor is one action, except that each of its calls to Redis is a  *)
(* step of its own: other requests run in between, and the call may fail,  *)
(* which ends the request and leaves what its earlier calls did.           *)
(***************************************************************************)
EXTENDS Chunks

CONSTANTS
  Request,       \* refine requests
  Input,         \* what a client may send, see InputAssumption
  MinTrigger,    \* MinTrigger[p]: tokens below which processor p is skipped
  SnipMin,       \* tokens up to which snip leaves a chunk alone
  Faults         \* TRUE when Redis calls may fail

\* ProcessorCapabilities of the descriptors.
Aggressive == {"json_trim", "table_reduce", "code_outline", "error_stack_focus",
               "snip", "auto_compact_async"}
StructuredOnly == Aggressive \cup {"paging", "auto_compact_sync"}
Processor == StructuredOnly \cup
               {"collapse", "compact", "sanitize", "canonicalize", "prefix_cache",
                "assemble"}
\* The fragment type that a transform of stage 2 is about.
Target == [json_trim |-> "json", table_reduce |-> "table",
           code_outline |-> "code", error_stack_focus |-> "error-stack"]

\* A client knows no page keys.
ClientChunk == {c \in RAGChunk : c.refs = << >>}

\* An input: [chunks, messages, budget, policy], where the policy is [steps,
\* threshold, head, tail].  Requests without a positive budget or with an
\* unknown policy are refused before there is a pipeline.
ASSUME InputAssumption ==
  \A in \in Input : /\ in.chunks \in Seq(ClientChunk)
                    /\ in.messages \in Seq(Message)
                    /\ in.budget \in Nat \ {0}
                    /\ in.policy.threshold \in Nat
                    /\ in.policy.head \in Nat /\ in.policy.tail \in Nat
                    /\ in.policy.steps \in Seq(Processor)
ASSUME TriggerAssumption == MinTrigger \in [Processor -> Nat] /\ SnipMin \in Nat
\* The processors of stage 4 have no trigger, and come last in policies.yaml.
Final == {"prefix_cache", "assemble"}
ASSUME FinalAssumption ==
  /\ \A p \in Final : MinTrigger[p] = 0
  /\ \A in \in Input : \A i, j \in DOMAIN in.policy.steps :
       i < j /\ in.policy.steps[i] \in Final => in.policy.steps[j] \in Final
ASSUME FaultsAssumption == Faults \in BOOLEAN

VARIABLES
  input,         \* input[r]: what the client sent
  status,        \* status[r]: "new", "running", "ok" or "failed"
  at,            \* at[r]: the position in the policy's steps
  done,          \* done[r]: Redis calls the current processor has made
  req,           \* req[r]: the RefineRequest as it is handed on
  pages,         \* the page store: page key -> text
  jobs           \* the summary queue

vars == <<input, status, at, done, req, pages, jobs>>

Policy(r) == input[r].policy
Steps(r) == Policy(r).steps

None == [rag |-> << >>, memory |-> << >>, active |-> << >>]
NoPrefix == [rag |-> << >>, system |-> << >>, memory |-> << >>]

\* CountRequest: of the prompt if there is one, of what it would be otherwise.
CountRequest(q) ==
  PromptTokens(IF q.prompt = None THEN AssemblePrompt(q.chunks, q.messages)
               ELSE q.prompt)

Recounted(q) == [q EXCEPT !.tokens = CountRequest(q)]

\* Mutation of MapRequest: the chunks stay in the client's order.
MapUnsorted(in) ==
  [chunks |-> [i \in DOMAIN in.chunks |-> NormalizeChunk(in.chunks[i])],
   messages |-> in.messages, tokens |-> 0, inputTokens |-> 0, audits |-> << >>,
   pending |-> << >>, prefix |-> NoPrefix, prompt |-> None]

MapRequest(in) ==
  [chunks |-> StableChunks(in.chunks), messages |-> in.messages,
   tokens |-> 0, inputTokens |-> 0, audits |-> << >>, pending |-> << >>,
   prefix |-> NoPrefix, prompt |-> None]

Init ==
  /\ input \in [Request -> Input]
  /\ status = [r \in Request |-> "new"]
  /\ at = [r \in Request |-> 1]
  /\ done = [r \in Request |-> 0]
  /\ req = [r \in Request |-> MapRequest(input[r])]
  /\ pages = [k \in {} |-> << >>]
  /\ jobs = {}

----------------------------------------------------------------------------
(* The pipeline: Pipeline.Run *)

\* The request is counted and handed to the first processor.
Accept(r) ==
  /\ status[r] = "new"
  /\ status' = [status EXCEPT ![r] = "running"]
  /\ req' = [req EXCEPT ![r].tokens = CountRequest(req[r]),
                        ![r].inputTokens = CountRequest(req[r])]
  /\ UNCHANGED <<input, at, done, pages, jobs>>

\* Mutation of Skips: the budget is not looked at.
SkipsUnlessSmall(r, p) ==
  \/ MinTrigger[p] > 0 /\ req[r].tokens < MinTrigger[p]
  \/ p \in StructuredOnly /\ \A i \in DOMAIN req[r].chunks : req[r].chunks[i].frags = << >>

\* shouldSkipProcessor
Skips(r, p) ==
  \/ p \in Aggressive /\ req[r].tokens <= input[r].budget
  \/ MinTrigger[p] > 0 /\ req[r].tokens < MinTrigger[p]
  \/ p \in StructuredOnly /\ \A i \in DOMAIN req[r].chunks : req[r].chunks[i].frags = << >>

\* The processor whose turn it is.
Turn(r, p) == status[r] = "running" /\ at[r] <= Len(Steps(r)) /\ Steps(r)[at[r]] = p
Runs(r, p) == Turn(r, p) /\ ~Skips(r, p)

Skip(r) ==
  /\ \E p \in Processor : Turn(r, p) /\ Skips(r, p)
  /\ at' = [at EXCEPT ![r] = @ + 1]
  /\ UNCHANGED <<input, status, done, req, pages, jobs>>

\* Mutation of HandOn: the calls of one processor count for the next.
HandOnKeepDone(r, p, next) ==
  /\ req' = [req EXCEPT ![r] = [next EXCEPT !.audits =
       Append(@, [name |-> p, before |-> req[r].tokens, after |-> next.tokens])]]
  /\ at' = [at EXCEPT ![r] = @ + 1]
  /\ UNCHANGED <<input, status, done, pages, jobs>>

\* Processor p has produced the next request: it is audited and handed on.
HandOn(r, p, next) ==
  /\ req' = [req EXCEPT ![r] = [next EXCEPT !.audits =
       Append(@, [name |-> p, before |-> req[r].tokens, after |-> next.tokens])]]
  /\ at' = [at EXCEPT ![r] = @ + 1]
  /\ done' = [done EXCEPT ![r] = 0]
  /\ UNCHANGED <<input, status, pages, jobs>>

\* A processor that only rewrites the chunks.
Rewrite(r, p, chunks) == HandOn(r, p, Recounted([req[r] EXCEPT !.chunks = chunks]))

\* A call returns an error: the request fails.
Abort(r) ==
  /\ status' = [status EXCEPT ![r] = "failed"]
  /\ UNCHANGED <<input, at, done, req>>

----------------------------------------------------------------------------
(* Stage 1 *)

\* The pages that paging has to save, in order.
PagesToSave(r) ==
  LET chunks == req[r].chunks
      large == Pick(chunks, {i \in DOMAIN chunks : Oversized(chunks[i])})
  IN  FlattenSeq([i \in DOMAIN large |-> PagesOf(large[i])])

\* SETNX: the page that is already there stays.
Saved(page) ==
  [k \in DOMAIN pages \cup {page.key} |->
     IF k \in DOMAIN pages THEN pages[k] ELSE page.text]

PageOut(r) ==
  /\ Runs(r, "paging")
  /\ done[r] < Len(PagesToSave(r))
  /\ pages' = Saved(PagesToSave(r)[done[r] + 1])
  /\ done' = [done EXCEPT ![r] = @ + 1]
  /\ UNCHANGED <<input, status, at, req, jobs>>

\* Mutation of PageOutFails: the error is dropped.
PageOutIgnored(r) ==
  /\ Faults
  /\ Runs(r, "paging")
  /\ done[r] < Len(PagesToSave(r))
  /\ done' = [done EXCEPT ![r] = @ + 1]
  /\ UNCHANGED <<input, status, at, req, pages, jobs>>

PageOutFails(r) ==
  /\ Faults
  /\ Runs(r, "paging")
  /\ done[r] < Len(PagesToSave(r))
  /\ pages' \in {pages, Saved(PagesToSave(r)[done[r] + 1])}
  /\ Abort(r)
  /\ UNCHANGED jobs

Paging(r) ==
  /\ Runs(r, "paging")
  /\ done[r] = Len(PagesToSave(r))
  /\ Rewrite(r, "paging", FirstPages(req[r].chunks))

\* Mutation of Collapse: the tokens are those before the duplicates went.
CollapseUncounted(r) ==
  /\ Runs(r, "collapse")
  /\ HandOn(r, "collapse", [req[r] EXCEPT !.chunks = CollapseChunks(@)])

\* Duplicate chunks, and the white space of the messages.
Collapse(r) ==
  /\ Runs(r, "collapse")
  /\ HandOn(r, "collapse",
       Recounted([req[r] EXCEPT !.chunks = CollapseChunks(@),
                    !.messages = DenseMessages(@)]))

Compact(r) ==
  /\ Runs(r, "compact")
  /\ HandOn(r, "compact",
       Recounted([req[r] EXCEPT !.chunks = [i \in DOMAIN @ |-> CompactChunk(@[i])],
                    !.messages = DenseMessages(@)]))

Sanitize(r) ==
  /\ Runs(r, "sanitize")
  /\ HandOn(r, "sanitize",
       Recounted([req[r] EXCEPT !.chunks = [i \in DOMAIN @ |-> SanitizeChunk(@[i])],
                    !.messages = SanitizeMessages(@)]))

Canonicalize(r) ==
  /\ Runs(r, "canonicalize")
  /\ HandOn(r, "canonicalize",
       Recounted([req[r] EXCEPT
                    !.chunks = StableChunks([i \in DOMAIN @ |-> PreprocessChunk(@[i])]),
                    !.messages = OrderMessages(@)]))

----------------------------------------------------------------------------
(* Stages 2 and 3 *)

Transform(r, p) ==
  /\ Runs(r, p)
  /\ Rewrite(r, p, [i \in DOMAIN req[r].chunks |-> ReduceChunk(req[r].chunks[i], Target[p])])

\* Chunk by chunk, until the request fits its budget.
Snip(r) ==
  /\ Runs(r, "snip")
  /\ LET chunks == req[r].chunks
         Fits(cs) == CountRequest([req[r] EXCEPT !.chunks = cs]) <= input[r].budget
         upTo[n \in Nat] ==
           IF n \notin DOMAIN chunks THEN chunks
           ELSE IF Fits(upTo[n - 1]) \/ ChunkTokens(chunks[n]) <= SnipMin
                THEN upTo[n - 1]
                ELSE [upTo[n - 1] EXCEPT ![n] = SnipChunk(@, Policy(r).head, Policy(r).tail)]
     IN  Rewrite(r, "snip", upTo[Len(chunks)])

\* Both stages of auto compaction want the request over its budget and over the
\* policy's threshold, which is the budget if the policy has none.
Threshold(r) == IF Policy(r).threshold = 0 THEN input[r].budget ELSE Policy(r).threshold
Pressed(r) == req[r].tokens > input[r].budget /\ req[r].tokens > Threshold(r)

AutoCompactSync(r) ==
  /\ Runs(r, "auto_compact_sync")
  /\ IF Pressed(r)
     THEN Rewrite(r, "auto_compact_sync",
                  [i \in DOMAIN req[r].chunks |-> SafeCompactChunk(req[r].chunks[i])])
     ELSE HandOn(r, "auto_compact_sync", req[r])

\* One job for every chunk that is half the threshold or more.
JobOf(r, c) == [request |-> r, text |-> TextOf(NormalizeChunk(c).frags),
                refs |-> NormalizeChunk(c).refs]
JobsToQueue(r) ==
  LET chunks == req[r].chunks
      worthIt == Pick(chunks, {i \in DOMAIN chunks :
                                 ChunkTokens(chunks[i]) >= Threshold(r) \div 2})
  IN  IF Pressed(r) THEN [i \in DOMAIN worthIt |-> JobOf(r, worthIt[i])] ELSE << >>

Enqueue(r) ==
  /\ Runs(r, "auto_compact_async")
  /\ done[r] < Len(JobsToQueue(r))
  /\ jobs' = jobs \cup {JobsToQueue(r)[done[r] + 1]}
  /\ done' = [done EXCEPT ![r] = @ + 1]
  /\ UNCHANGED <<input, status, at, req, pages>>

EnqueueFails(r) ==
  /\ Faults
  /\ Runs(r, "auto_compact_async")
  /\ done[r] < Len(JobsToQueue(r))
  /\ jobs' \in {jobs, jobs \cup {JobsToQueue(r)[done[r] + 1]}}
  /\ Abort(r)
  /\ UNCHANGED pages

AutoCompactAsync(r) ==
  /\ Runs(r, "auto_compact_async")
  /\ done[r] = Len(JobsToQueue(r))
  /\ HandOn(r, "auto_compact_async",
       [req[r] EXCEPT !.pending =
          @ \o [i \in DOMAIN JobsToQueue(r) |-> JobsToQueue(r)[i].text]])

----------------------------------------------------------------------------
(* Stage 4 *)

\* Mutation of PrefixOf: the active turn is taken for history.
PrefixOfAll(q) ==
  LET s == Segments(q.messages)
  IN  [rag |-> Blanked(RenderChunks(q.chunks)), system |-> s.system,
       memory |-> s.memory \o s.active]

\* BuildPrefixCacheIdentity: everything before the active turn, rendered and
\* then blanked once more, code included.
PrefixOf(q) ==
  LET s == Segments(q.messages)
  IN  [rag |-> Blanked(RenderChunks(q.chunks)), system |-> s.system, memory |-> s.memory]

\* RegisterPrefix is one call here: module PrefixCache has what it does.
PrefixCache(r) ==
  /\ Runs(r, "prefix_cache")
  /\ HandOn(r, "prefix_cache", [req[r] EXCEPT !.prefix = PrefixOf(req[r])])

\* A prefix that is empty is not registered; one that is may not get through.
PrefixCacheFails(r) ==
  /\ Faults
  /\ Runs(r, "prefix_cache")
  /\ PrefixOf(req[r]) # NoPrefix
  /\ Abort(r)
  /\ UNCHANGED <<pages, jobs>>

Assemble(r) ==
  /\ Runs(r, "assemble")
  /\ HandOn(r, "assemble",
       Recounted([req[r] EXCEPT !.prompt = AssemblePrompt(req[r].chunks, req[r].messages)]))

\* The end of the pipeline: a policy without assemble gets its prompt here.
Respond(r) ==
  /\ status[r] = "running"
  /\ at[r] > Len(Steps(r))
  /\ status' = [status EXCEPT ![r] = "ok"]
  /\ req' = [req EXCEPT ![r] =
       IF @.prompt # None THEN @
       ELSE Recounted([@ EXCEPT !.prompt = AssemblePrompt(req[r].chunks, req[r].messages)])]
  /\ UNCHANGED <<input, at, done, pages, jobs>>

----------------------------------------------------------------------------
Fails(r) == PageOutFails(r) \/ EnqueueFails(r) \/ PrefixCacheFails(r)

Step(r) ==
  \/ Accept(r) \/ Skip(r) \/ Respond(r)
  \/ PageOut(r) \/ Paging(r) \/ Collapse(r) \/ Compact(r) \/ Sanitize(r)
  \/ Canonicalize(r)
  \/ \E p \in DOMAIN Target : Transform(r, p)
  \/ Snip(r) \/ AutoCompactSync(r) \/ Enqueue(r) \/ AutoCompactAsync(r)
  \/ PrefixCache(r) \/ Assemble(r)
  \/ Fails(r)

Next == \E r \in Request : Step(r)

Spec == Init /\ [][Next]_vars

----------------------------------------------------------------------------
(* Properties *)

Response(r) == status[r] = "ok"
Given(r) == MapRequest(input[r]).chunks

\* The types; with them that a processor's calls are counted while it runs only,
\* and that no prefix is registered without prefix_cache.
TypeOK ==
  /\ status \in [Request -> {"new", "running", "ok", "failed"}]
  /\ at \in [Request -> Nat \ {0}]
  /\ done \in [Request -> Nat]
  /\ \A r \in Request :
       /\ at[r] <= Len(Steps(r)) + 1
       /\ done[r] # 0 => at[r] <= Len(Steps(r))
                           /\ Steps(r)[at[r]] \in {"paging", "auto_compact_async"}
       /\ req[r].chunks \in Seq(RAGChunk) /\ req[r].messages \in Seq(Message)
       /\ req[r].tokens \in Nat
       /\ req[r].prefix # NoPrefix => "prefix_cache" \in ToSet(Steps(r))
  /\ DOMAIN pages \subseteq PageRef /\ pages \in [DOMAIN pages -> Text]

\* The audits of a request tell its whole story: the first starts from the
\* input tokens, each starts where the one before ended, and the last ends with
\* the tokens of the request, which are those of its current text, so that no
\* processor ever decides on stale tokens (Pipeline.Run; skipped processors
\* leave no audit).
AuditsAddUp ==
  \A r \in Request : status[r] # "new" =>
    LET q == req[r]
        After(i) == IF i = 0 THEN q.inputTokens ELSE q.audits[i].after
    IN  /\ q.tokens = CountRequest(q)
        /\ q.tokens = After(Len(q.audits))
        /\ \A i \in DOMAIN q.audits : q.audits[i].before = After(i - 1)

\* The units of a text, and those one can still get at with a response: in the
\* prompt, or in a page it has a key of.
UnitsOf(text) == ToSet(Words(text))
Referred(r) == UNION {ToSet(req[r].chunks[i].refs) : i \in DOMAIN req[r].chunks}
Reachable(r) ==
  UNION {UnitsOf(req[r].prompt.rag[i].text) : i \in DOMAIN req[r].prompt.rag}
    \cup UNION {UnitsOf(pages[k]) : k \in Referred(r)}

\* Paging loses nothing: if a chunk was paged out, the response has the keys of
\* all its pages with one of its chunks, and they read back as the text.
PagedOutIsReachable ==
  \A r \in Request : Response(r) /\ "paging" \in ToSet(Steps(r)) =>
    \A c \in ToSet(Given(r)) : Oversized(c) =>
      \E o \in ToSet(req[r].chunks) :
        LET keys == [n \in DOMAIN PagesOf(c) |-> PageKey(c, n)]
        IN  /\ ToSet(keys) \subseteq ToSet(o.refs)
            /\ FlattenSeq([n \in DOMAIN keys |-> Words(pages[keys[n]])])
                 = Words(TextOf(c.frags))

\* What this takes, besides LabelsApart.  Paging goes first and passes no chunk that is
\* too large; if duplicates go at all, they go next (policies.yaml, minTriggerTokens of
\* paging).
PagesOut(in) == "paging" \in ToSet(in.policy.steps)
PagesFirst ==
  /\ MinTrigger["paging"] <= PageLimit + 1
  /\ \A in \in Input : PagesOut(in) =>
       \A i \in DOMAIN in.policy.steps :
         /\ in.policy.steps[i] = "paging" => i = 1
         /\ in.policy.steps[i] = "collapse" => i = 2

\* Chunks with the same page keys are cut alike: the keys tell the text of a chunk, and
\* not where its fragments begin.
KeysTell ==
  \A a, b \in {in \in Input : PagesOut(in)} :
    \A c \in ToSet(StableChunks(a.chunks)), d \in ToSet(StableChunks(b.chunks)) :
      Oversized(c) /\ Oversized(d) /\ PageKey(c, 1) = PageKey(d, 1) => PagesOf(c) = PagesOf(d)

\* A chunk that goes as a duplicate has no page that the first does not have.
CopiesTell ==
  \A in \in {x \in Input : PagesOut(x)} :
    LET cs == FirstPages(StableChunks(in.chunks))
    IN  \A i, j \in DOMAIN cs :
          i < j /\ SameText(cs[i], cs[j]) => ToSet(cs[j].refs) \subseteq ToSet(cs[i].refs)

\* Every page key that a response or a summary job carries is that of a saved
\* page, also when other requests save at the same time and calls fail.
RefsArePaged ==
  /\ \A r \in Request : Referred(r) \subseteq DOMAIN pages
  /\ \A job \in jobs : ToSet(job.refs) \subseteq DOMAIN pages

NeverOverBudget(r) ==
  /\ req[r].inputTokens <= input[r].budget
  /\ \A a \in ToSet(req[r].audits) : a.after <= input[r].budget

\* A request that was never over its budget loses markup, rules and boilerplate
\* only: no lossy processor runs on it (shouldSkipProcessor).  To start within
\* the budget is not enough: canonicalize labels the headings that it finds.
NothingLostWithinBudget ==
  \A r \in Request : Response(r) /\ NeverOverBudget(r) =>
    \A c \in ToSet(Given(r)) : \A f \in ToSet(c.frags) :
      \A u \in UnitsOf(f.text) :
        \/ f.type \notin {"code", "json"} /\ u \in Markup
        \/ f.type = "body" /\ (u \in Rule \/ IsBoilerplate(RichText(f.text), u))
        \/ u \in Reachable(r)

\* Two lists of messages that say the same up to time stamps and identifiers, and two
\* that only have as much to say: a processor that drops blank lines and markup drops
\* the same of both.
SameLayout(ms, ns) ==
  /\ Len(ms) = Len(ns)
  /\ \A i \in DOMAIN ms :
       /\ ms[i].role = ns[i].role
       /\ Len(ms[i].text) = Len(ns[i].text)
       /\ \A k \in DOMAIN ms[i].text :
            /\ ms[i].text[k] = Blank <=> ns[i].text[k] = Blank
            /\ ms[i].text[k] \in Markup <=> ns[i].text[k] \in Markup
SameSense(ms, ns) ==
  /\ SameLayout(ms, ns)
  /\ \A i \in DOMAIN ms : NormalMessage(ms[i]) = NormalMessage(ns[i])

\* The messages of the system, or those of the others, before the last one.
Past(messages, system) ==
  Pick(messages, {i \in 1..(Len(messages) - 1) : (messages[i].role = "system") = system})
Latest(messages) == IF messages = << >> THEN << >> ELSE <<Last(messages)>>
SameTalk(ms, ns) ==
  /\ \A system \in BOOLEAN : SameSense(Past(ms, system), Past(ns, system))
  /\ SameLayout(Latest(ms), Latest(ns))

\* Two inputs with the same context: the same chunks in any order, up to time
\* stamps and identifiers, the same history, and a last message of the same layout.
\* (Different chunks with the same sources and ID stay in the client's order.)
SameContext(a, b) ==
  LET Norm(in, i) == NormalizeChunk(in.chunks[i])
  IN  /\ \E p \in Bijection(DOMAIN a.chunks, DOMAIN b.chunks) :
           \A i \in DOMAIN a.chunks : Norm(a, i) = Norm(b, p[i])
      /\ \A i, j \in DOMAIN a.chunks :
           (/\ Folds(a.chunks[i].sources) = Folds(a.chunks[j].sources)
            /\ a.chunks[i].id = a.chunks[j].id)
             => Norm(a, i) = Norm(a, j)
      /\ SameTalk(a.messages, b.messages)
      /\ a.budget = b.budget
      /\ a.policy = b.policy

\* The same context gives the same stable prefix (StableChunks and
\* normalizeStableIdentifiers for the sake of the cache).
SameContextSamePrefix ==
  \A r, s \in Request :
    Response(r) /\ Response(s) /\ SameContext(input[r], input[s])
      => req[r].prefix = req[s].prefix

\* The prefix that was registered is the one the prompt starts with: nothing is
\* rewritten between prefix_cache and assemble, and the active turn is no part
\* of it.  (The prompt keeps identifiers in code that the prefix has blanked.)
RegisteredPrefixIsSent ==
  \A r \in Request : Response(r) /\ "prefix_cache" \in ToSet(Steps(r)) =>
    LET q == req[r]
    IN  /\ Blanked(q.prompt.rag) = q.prefix.rag
        /\ q.prompt.memory = q.prefix.system \o q.prefix.memory
        /\ q.prompt.active = Segments(q.messages).active
=============================================================================
