------------------------------ MODULE Exchange ------------------------------
(***************************************************************************)
(* What clients send and what they get, around RefinePipeline: the HTTP    *)
(* controller and the gRPC mapping of requests, the defaults and refusals  *)
(* of RefineDTO, the structured reply that a client makes its prompt of,   *)
(* and the evaluation that is kept of the call for the dashboard.          *)
(*                                                                         *)
(* A request is what a client sent: [via, system, messages, rag, window,   *)
(* budget, policy].  A chunk of it is [id, source, sources, frags, type,   *)
(* text]: gRPC clients send a list of sources or one source, and fragments *)
(* or, without any, a text; HTTP clients one source, a text and its type.  *)
(***************************************************************************)
EXTENDS RefinePipeline, Integers

CONSTANTS
  Sent,          \* requests that clients send
  Named,         \* the policies by name, each with its budget_ratio in percent
  DefaultPolicy  \* default_policy

Absent == 0        \* an id that is not given
External == 99     \* "external"
ASSUME ExternalAssumption == External \in Source
ExternalId(i) == 100 + i

SentChunk == [id : Nat, source : Source, sources : Sources,
              frags : Seq([type : STRING, text : Text]), text : Text, type : STRING]
ASSUME SentAssumption ==
  \A sent \in Sent : /\ sent.rag \in Seq(SentChunk)
                     /\ sent.via = "http" =>
                          \A i \in DOMAIN sent.rag : sent.rag[i].sources = << >>

Says(m) == Trim(m.text) # << >>
FromSystem(m) == m.role = "system"

----------------------------------------------------------------------------
(* Requests *)

\* mapFragmentTypeToCore and mapFragmentTypeFromProto: a name that is not known is body.
TypeRead(type) == IF type \in FragmentTypes THEN type ELSE "body"

\* decodeRAG: blank items go, the others keep their number.
HttpChunk(item, i) ==
  [id |-> IF item.id = Absent THEN ExternalId(i) ELSE item.id,
   sources |-> <<IF item.source = NoSource THEN External ELSE item.source>>,
   frags |-> <<[type |-> TypeRead(item.type), text |-> Trim(item.text)]>>,
   refs |-> << >>]
HttpChunks(rag) ==
  Pick([i \in DOMAIN rag |-> HttpChunk(rag[i], i)], {i \in DOMAIN rag : Says(rag[i])})

\* mapProtoSources: the one source stands in for a list without any, which may be a list
\* of blanks too (StableSources of NormalizeChunk).
GrpcSources(item) ==
  IF ToSet(item.sources) \subseteq {NoSource} THEN <<item.source>> ELSE item.sources

\* mapProtoChunks
GrpcChunk(item) ==
  [id |-> item.id,
   sources |-> GrpcSources(item),
   frags |-> IF item.frags = << >> /\ Says(item)
             THEN <<[type |-> "body", text |-> item.text]>>
             ELSE [i \in DOMAIN item.frags |->
                     [item.frags[i] EXCEPT !.type = TypeRead(@)]],
   refs |-> << >>]

\* mapDTOMessages: the system's text is the first message.
MessagesOf(sent) ==
  IF Trim(sent.system) = << >> THEN sent.messages
  ELSE <<[role |-> "system", text |-> Trim(sent.system)]>> \o sent.messages

\* resolvePolicy
PolicyName(sent) == IF sent.policy = "" THEN DefaultPolicy ELSE sent.policy

\* resolveBudget
BudgetOf(sent) ==
  LET ratio == Named[PolicyName(sent)].ratio
  IN  IF sent.budget <= 0 /\ sent.window > 0 /\ ratio > 0
      THEN (sent.window * ratio) \div 100
      ELSE sent.budget

\* Handle's check, an unknown policy, no budget to be had.
Refused(sent) ==
  \/ sent.via = "http" /\ sent.messages = << >> /\ Trim(sent.system) = << >>
  \/ PolicyName(sent) \notin DOMAIN Named
  \/ BudgetOf(sent) <= 0

\* The items of a request that become chunks.
ItemsOf(sent) ==
  IF sent.via = "http" THEN Pick(sent.rag, {i \in DOMAIN sent.rag : Says(sent.rag[i])})
  ELSE sent.rag

\* What the pipeline is given.
Received(sent) ==
  [chunks |-> IF sent.via = "http" THEN HttpChunks(sent.rag)
              ELSE [i \in DOMAIN sent.rag |-> GrpcChunk(sent.rag[i])],
   messages |-> MessagesOf(sent), budget |-> BudgetOf(sent),
   policy |-> Named[PolicyName(sent)], sent |-> sent]
Accepted == {Received(sent) : sent \in {s \in Sent : ~Refused(s)}}
\* Nothing gets to the pipeline but by way of the mappings.
ASSUME AcceptedAssumption == Input \subseteq Accepted

----------------------------------------------------------------------------
(* Replies *)

OfSystem(messages) == Pick(messages, {i \in DOMAIN messages : FromSystem(messages[i])})
OfOthers(messages) == Pick(messages, {i \in DOMAIN messages : ~FromSystem(messages[i])})
Spoken(messages) == Pick(messages, {i \in DOMAIN messages : Says(messages[i])})
Join(messages) == FlattenSeq([i \in DOMAIN messages |-> Trim(messages[i].text)])
Trimmed(messages) == [i \in DOMAIN messages |-> [messages[i] EXCEPT !.text = Trim(@)]]
TrimmedChunks(chunks) ==
  [i \in DOMAIN chunks |-> [id |-> chunks[i].id, sources |-> chunks[i].sources,
     frags |-> [j \in DOMAIN chunks[i].frags |-> [chunks[i].frags[j] EXCEPT !.text = Trim(@)]]]]

\* extractPagedChunks
PagedChunks(q) == Pick(q.chunks, {i \in DOMAIN q.chunks : q.chunks[i].refs # << >>})

\* Mutation of ReplySystem: the system's part of the prefix, without the active turn.
PrefixSystem(q) == Join(Segments(q.messages).system)

\* mapDomainResponseSystem and mapDomainResponseMessages: what is blank goes.
ReplySystem(q) == Join(OfSystem(q.messages))
ReplyMessages(q) == Trimmed(Spoken(OfOthers(q.messages)))

\* The reply, the prompt apart, which no client gets; HTTP replies name no pages.
Reply(r) ==
  LET q == req[r]
  IN  [system |-> ReplySystem(q), messages |-> ReplyMessages(q),
       rag |-> TrimmedChunks(q.chunks),
       pages |-> IF input[r].sent.via = "http" THEN << >> ELSE PagedChunks(q)]

\* mapEvaluationOutputContext: its own way to the same parts.
Output(q) ==
  LET said == Spoken(q.messages)
  IN  [system |-> Join(OfSystem(said)), messages |-> Trimmed(OfOthers(said)),
       rag |-> TrimmedChunks(q.chunks)]

\* mapEvaluationSteps
StepDeltas(q) == [i \in DOMAIN q.audits |-> q.audits[i].after - q.audits[i].before]

\* saveTraceEvaluation
Evaluation(r) ==
  LET q == req[r]
  IN  [before |-> AssemblePrompt(MapRequest(input[r]).chunks, input[r].messages),
       after |-> q.prompt, output |-> Output(q),
       inputTokens |-> q.inputTokens, outputTokens |-> q.tokens,
       steps |-> StepDeltas(q), pages |-> PagedChunks(q)]

----------------------------------------------------------------------------
(* Properties *)

\* A text without time stamps, identifiers and blank lines; what was said, and cited.
Gist(text) == Dense([i \in DOMAIN text |-> Stable(text[i])])
Gists(messages) ==
  Spoken([i \in DOMAIN messages |-> [messages[i] EXCEPT !.text = Gist(@)]])
\* The chunks of a reply as a client may send them again.
Unpaged(rag) == [i \in DOMAIN rag |-> [id |-> rag[i].id, sources |-> rag[i].sources,
                                       frags |-> rag[i].frags, refs |-> << >>]]
Cited(rag) == [i \in DOMAIN rag |-> [rag[i] EXCEPT !.text = Gist(@)]]

\* Whatever processors ran, all the sources that a chunk lists, or its one source if it
\* lists none, are still together on a chunk of the reply, up to their spelling: no
\* evidence loses its origin, be it in the request's mapping, in normalisation or as a
\* duplicate (mapProtoSources, StableSources, PreserveCitation of collapse).
CitationsAreKept ==
  \A r \in Request : Response(r) =>
    \A item \in ToSet(ItemsOf(input[r].sent)) : \E o \in ToSet(Reply(r).rag) :
      /\ Folds(item.sources) \subseteq Folds(o.sources)
      /\ Folds(item.sources) = {} => Folds(<<item.source>>) \subseteq Folds(o.sources)

\* The prompt that was built and counted is lost, clients put theirs together from
\* the reply: it has the same text, be it by what the system said, what the others
\* said and the chunks, up to time stamps and identifiers (docs/http-api-refine.md:91).
\* The evaluation shows the same parts, and its steps lead from the text that came in
\* to the text that went out.
ReplyIsThePrompt ==
  \A r \in Request : Response(r) =>
    LET p == req[r].prompt
        said == p.memory \o p.active
        e == Evaluation(r)
    IN  /\ Gist(Reply(r).system) = Gist(Join(OfSystem(said)))
        /\ Gists(Reply(r).messages) = OfOthers(Gists(said))
        /\ Cited(RenderChunks(Unpaged(Reply(r).rag))) = Cited(p.rag)
        /\ e.output = [system |-> Reply(r).system, messages |-> Reply(r).messages,
                       rag |-> Reply(r).rag]
        /\ PromptTokens(e.before) + Total(e.steps) = PromptTokens(e.after)
=============================================================================
