------------------------ MODULE RefinePipelineProofs ------------------------
(***************************************************************************)
(* Proofs about RefinePipeline and Exchange, for every set of requests,    *)
(* every input and every policy.  Whatever processors run in whatever      *)
(* order, the audits of a request add up and its tokens are those of its   *)
(* text; its data keep their types, no citation is lost and no page key is *)
(* handed on before the page is saved.  When the processors of stage 4     *)
(* come last, the prefix that is registered is the one that is sent.  What *)
(* becomes of a request is a function of what it was sent with, so that    *)
(* the same context gives the same prefix.  A chunk that was paged out can *)
(* be read back with the keys of the response.  What a client makes of the *)
(* reply, and what is kept of the call, have the text that was assembled   *)
(* and counted.                                                            *)
(***************************************************************************)
EXTENDS Exchange, ChunkProofs

\* The fields of a RefineRequest.
Fields == {"chunks", "messages", "tokens", "inputTokens", "audits", "pending",
           "prefix", "prompt"}

\* Where audit i of request q ends, or where the first one starts.
After(q, i) == IF i = 0 THEN q.inputTokens ELSE q.audits[i].after

\* The audits of q lead to its tokens.
Chained(q) ==
  /\ q.tokens = After(q, Len(q.audits))
  /\ \A i \in DOMAIN q.audits : q.audits[i].before = After(q, i - 1)

\* The inductive invariant: AuditsAddUp, with the shape of the requests, and no
\* audits before the pipeline has begun.
Inv ==
  /\ status \in [Request -> {"new", "running", "ok", "failed"}]
  /\ req = [r \in Request |-> req[r]]
  /\ \A r \in Request :
       /\ DOMAIN req[r] = Fields
       /\ IsSequence(req[r].audits)
       /\ status[r] = "new" => req[r].audits = << >>
       /\ status[r] # "new" => req[r].tokens = CountRequest(req[r]) /\ Chained(req[r])

\* What is counted of a request: its prompt, or its chunks and messages.
LEMMA CountedParts ==
  ASSUME NEW q, NEW p,
         p.chunks = q.chunks, p.messages = q.messages, p.prompt = q.prompt
  PROVE  CountRequest(p) = CountRequest(q)
BY DEF CountRequest

\* Recounting a request makes its tokens right and changes nothing else.
LEMMA RecountedFacts ==
  ASSUME NEW q, DOMAIN q = Fields
  PROVE  LET p == Recounted(q)
         IN  /\ DOMAIN p = Fields
             /\ p.tokens = CountRequest(p)
             /\ p.audits = q.audits
             /\ p.inputTokens = q.inputTokens
             /\ p.chunks = q.chunks /\ p.messages = q.messages /\ p.prompt = q.prompt
<1> DEFINE p == Recounted(q)
<1>1. /\ DOMAIN p = Fields
      /\ p.tokens = CountRequest(q)
      /\ p.audits = q.audits
      /\ p.inputTokens = q.inputTokens
      /\ p.chunks = q.chunks /\ p.messages = q.messages /\ p.prompt = q.prompt
  BY DEF Recounted, Fields
<1>2. CountRequest(p) = CountRequest(q)
  BY <1>1, CountedParts
<1>3. QED
  BY <1>1, <1>2

\* A processor keeps the books: it may rewrite chunks, messages and prompt, but
\* hands on tokens that fit them, and the audits and input tokens it was given.
KeepsBooks(q, next) ==
  /\ DOMAIN next = Fields
  /\ next.tokens = CountRequest(next)
  /\ next.audits = q.audits
  /\ next.inputTokens = q.inputTokens

\* By the invariant, a request keeps its own books.
LEMMA KeepsOwnBooks ==
  ASSUME Inv, NEW r \in Request, status[r] # "new"
  PROVE  KeepsBooks(req[r], req[r])
BY DEF Inv, KeepsBooks

\* The booking of HandOn.
LEMMA HandOnFacts ==
  ASSUME Inv, NEW r \in Request, NEW p, NEW next, status[r] # "new",
         KeepsBooks(req[r], next), HandOn(r, p, next)
  PROVE  Inv'
<1> DEFINE audit == [name |-> p, before |-> req[r].tokens, after |-> next.tokens]
           old == req[r].audits
           booked == [next EXCEPT !.audits = Append(@, audit)]
<1>1. /\ req' = [req EXCEPT ![r] = booked]
      /\ status' = status
  BY DEF HandOn
<1>2. /\ DOMAIN booked = Fields
      /\ booked.tokens = next.tokens
      /\ booked.audits = Append(old, audit)
      /\ booked.inputTokens = req[r].inputTokens
      /\ booked.chunks = next.chunks
      /\ booked.messages = next.messages
      /\ booked.prompt = next.prompt
  BY DEF KeepsBooks, Fields
<1>3. booked.tokens = CountRequest(booked)
  BY <1>2, CountedParts DEF KeepsBooks
<1>4. IsSequence(old) /\ Chained(req[r])
  BY DEF Inv
<1>5. /\ IsSequence(Append(old, audit))
      /\ Len(old) \in Nat
      /\ DOMAIN old = 1..Len(old)
      /\ DOMAIN Append(old, audit) = 1..(Len(old) + 1)
      /\ Len(Append(old, audit)) = Len(old) + 1
      /\ Append(old, audit)[Len(old) + 1] = audit
      /\ \A i \in 1..Len(old) : Append(old, audit)[i] = old[i]
  BY <1>4, AppendFacts
<1> HIDE DEF audit, booked
<1>6. booked.tokens = After(booked, Len(booked.audits))
  BY <1>2, <1>5 DEF After, audit
<1>7. ASSUME NEW i \in DOMAIN booked.audits
      PROVE  booked.audits[i].before = After(booked, i - 1)
  <2>1. CASE i = Len(old) + 1
    <3>1. booked.audits[i].before = After(req[r], Len(old))
      BY <1>2, <1>4, <1>5, <2>1 DEF Chained, audit
    <3>2. After(booked, Len(old)) = After(req[r], Len(old))
      BY <1>2, <1>5 DEF After
    <3>3. QED
      BY <1>5, <2>1, <3>1, <3>2
  <2>2. CASE i \in 1..Len(old)
    <3>1. booked.audits[i].before = After(req[r], i - 1)
      BY <1>2, <1>4, <1>5, <2>2 DEF Chained
    <3>2. After(booked, i - 1) = After(req[r], i - 1)
      BY <1>2, <1>5, <2>2 DEF After
    <3>3. QED
      BY <3>1, <3>2
  <2>3. QED
    BY <1>2, <1>5, <2>1, <2>2
<1>8. Chained(booked)
  BY <1>6, <1>7 DEF Chained
<1>9. req'[r] = booked /\ \A s \in Request \ {r} : req'[s] = req[s]
  BY <1>1 DEF Inv
<1>10. req' = [s \in Request |-> req'[s]]
  BY <1>1 DEF Inv
<1>11. QED
  BY <1>1, <1>2, <1>3, <1>5, <1>8, <1>9, <1>10 DEF Inv

\* A processor hands on a request with its books in order.
HandsOn(r) == \E p, next : KeepsBooks(req[r], next) /\ HandOn(r, p, next)

\* A processor that only rewrites the chunks does, whatever it writes: the request is
\* recounted.
LEMMA RewriteFacts ==
  ASSUME Inv, NEW r \in Request, NEW p, NEW chunks, Rewrite(r, p, chunks)
  PROVE  HandsOn(r)
<1>1. KeepsBooks(req[r], Recounted([req[r] EXCEPT !.chunks = chunks]))
  BY RecountedFacts DEF Inv, KeepsBooks, Fields
<1>2. QED
  BY <1>1 DEF Rewrite, HandsOn

----------------------------------------------------------------------------
(* The invariant is inductive *)

\* A new request has no audits.
LEMMA InitInv == Init => Inv
<1> SUFFICES ASSUME Init PROVE Inv
  OBVIOUS
<1>1. ASSUME NEW r \in Request
      PROVE  /\ DOMAIN req[r] = Fields
             /\ req[r].audits = << >>
  BY DEF Init, MapRequest, Fields
<1>2. << >> \in Seq({})
  BY EmptySeq
<1>3. IsSequence(<< >>)
  BY <1>2, SequenceOfItsElements
<1>4. QED
  BY <1>1, <1>3 DEF Init, Inv

\* The request is counted before the first processor sees it.
LEMMA AcceptInv ==
  ASSUME Inv, NEW r \in Request, Accept(r)
  PROVE  Inv'
<1> DEFINE n == CountRequest(req[r])
           q == [req[r] EXCEPT !.tokens = n, !.inputTokens = n]
<1>1. /\ req' = [req EXCEPT ![r] = q]
      /\ status[r] = "new"
      /\ status' = [status EXCEPT ![r] = "running"]
  BY DEF Accept, Inv, Fields
<1>2. /\ DOMAIN q = Fields
      /\ q.tokens = n /\ q.inputTokens = n
      /\ q.audits = << >>
      /\ q.chunks = req[r].chunks /\ q.messages = req[r].messages
      /\ q.prompt = req[r].prompt
  BY <1>1 DEF Inv, Fields
<1>3. q.tokens = CountRequest(q)
  BY <1>2, CountedParts
<1> HIDE DEF n, q
<1>4. Chained(q) /\ IsSequence(q.audits)
  BY <1>1, <1>2 DEF Chained, After, Inv
<1>5. req'[r] = q /\ \A s \in Request \ {r} : req'[s] = req[s]
  BY <1>1 DEF Inv
<1>6. req' = [s \in Request |-> req'[s]]
  BY <1>1 DEF Inv
<1>7. \A s \in Request \ {r} : status'[s] = status[s]
  BY <1>1 DEF Inv
<1>8. status' \in [Request -> {"new", "running", "ok", "failed"}] /\ status'[r] = "running"
  BY <1>1 DEF Inv
<1>9. QED
  BY <1>2, <1>3, <1>4, <1>5, <1>6, <1>7, <1>8 DEF Inv

\* A request that fails or that nothing happens to keeps its books.
LEMMA AbortInv ==
  ASSUME Inv, NEW r \in Request, status[r] # "new", Abort(r)
  PROVE  Inv'
BY DEF Abort, Inv

\* The prompt made at the end is the one that was counted all along.
LEMMA RespondInv ==
  ASSUME Inv, NEW r \in Request, Respond(r)
  PROVE  Inv'
<1> DEFINE last == req[r]
           prompt == AssemblePrompt(last.chunks, last.messages)
           full == [last EXCEPT !.prompt = prompt]
           q == IF last.prompt # None THEN last ELSE Recounted(full)
<1>1. /\ req' = [req EXCEPT ![r] = q]
      /\ status[r] = "running"
      /\ status' = [status EXCEPT ![r] = "ok"]
  BY DEF Respond
<1>2. /\ DOMAIN last = Fields /\ IsSequence(last.audits)
      /\ last.tokens = CountRequest(last) /\ Chained(last)
  BY <1>1 DEF Inv
<1>3. ASSUME last.prompt = None
      PROVE  CountRequest(full) = CountRequest(last)
  <2>1. /\ full.prompt = prompt
        /\ full.chunks = last.chunks
        /\ full.messages = last.messages
    BY <1>2 DEF Fields
  <2>2. QED
    BY <1>3, <2>1 DEF CountRequest
<1>4. /\ DOMAIN q = Fields
      /\ q.tokens = CountRequest(q)
      /\ q.tokens = last.tokens
      /\ q.audits = last.audits
      /\ q.inputTokens = last.inputTokens
  <2>1. CASE last.prompt # None
    BY <1>2, <2>1
  <2>2. CASE last.prompt = None
    <3>1. DOMAIN full = Fields /\ full.audits = last.audits
            /\ full.inputTokens = last.inputTokens
      BY <1>2 DEF Fields
    <3>2. /\ DOMAIN q = Fields
          /\ q.tokens = CountRequest(q)
          /\ q.audits = last.audits
          /\ q.inputTokens = last.inputTokens
      BY <2>2, <3>1, RecountedFacts
    <3>3. q.tokens = CountRequest(full)
      BY <2>2, <3>1 DEF Recounted, Fields
    <3>4. QED
      BY <1>2, <1>3, <2>2, <3>2, <3>3
  <2>3. QED
    BY <2>1, <2>2
<1> HIDE DEF q, last
<1>5. Chained(q)
  BY <1>2, <1>4 DEF Chained, After
<1>6. req'[r] = q /\ \A s \in Request \ {r} : req'[s] = req[s] /\ status'[s] = status[s]
  BY <1>1 DEF Inv
<1>7. req' = [s \in Request |-> req'[s]]
  BY <1>1 DEF Inv
<1>8. status' \in [Request -> {"new", "running", "ok", "failed"}] /\ status'[r] = "ok"
  BY <1>1 DEF Inv
<1>9. IsSequence(q.audits)
  BY <1>2, <1>4 DEF Inv
<1>10. QED
  BY <1>4, <1>5, <1>6, <1>7, <1>8, <1>9 DEF Inv

\* The processors that rewrite chunks and messages.
LEMMA CanonicalHandsOn ==
  ASSUME Inv, NEW r \in Request, Collapse(r) \/ Compact(r) \/ Sanitize(r) \/ Canonicalize(r)
  PROVE  HandsOn(r)
<1>1. PICK p, chunks, messages :
        HandOn(r, p, Recounted([req[r] EXCEPT !.chunks = chunks, !.messages = messages]))
  BY DEF Collapse, Compact, Sanitize, Canonicalize
<1>2. KeepsBooks(req[r], Recounted([req[r] EXCEPT !.chunks = chunks, !.messages = messages]))
  <2> DEFINE q == [req[r] EXCEPT !.chunks = chunks, !.messages = messages]
  <2>1. /\ DOMAIN q = Fields
        /\ q.audits = req[r].audits /\ q.inputTokens = req[r].inputTokens
    BY DEF Inv, Fields
  <2> HIDE DEF q
  <2>2. KeepsBooks(req[r], Recounted(q))
    BY <2>1, RecountedFacts DEF KeepsBooks
  <2>3. QED
    BY <2>2 DEF q
<1>3. QED
  BY <1>1, <1>2 DEF HandsOn

\* The processors that rewrite the chunks only.
LEMMA RewritingHandsOn ==
  ASSUME Inv, NEW r \in Request,
         \/ Paging(r)
         \/ \E p \in DOMAIN Target : Transform(r, p)
         \/ Snip(r)
  PROVE  HandsOn(r)
<1>1. \E p, chunks : Rewrite(r, p, chunks)
  BY DEF Paging, Transform, Snip
<1>2. QED
  BY <1>1, RewriteFacts

\* The processors that leave the text alone leave its tokens alone.
LEMMA LeavingHandsOn ==
  ASSUME Inv, NEW r \in Request,
         \/ AutoCompactSync(r)
         \/ AutoCompactAsync(r)
         \/ PrefixCache(r)
  PROVE  HandsOn(r)
<1>1. status[r] # "new" /\ DOMAIN req[r] = Fields
  BY DEF AutoCompactSync, AutoCompactAsync, PrefixCache, Runs, Turn, Inv
<1>2. CASE AutoCompactSync(r)
  <2>1. CASE Pressed(r)
    BY <1>2, <2>1, RewriteFacts DEF AutoCompactSync
  <2>2. CASE ~Pressed(r)
    BY <1>1, <1>2, <2>2, KeepsOwnBooks DEF AutoCompactSync, HandsOn
  <2>3. QED
    BY <2>1, <2>2
<1>3. CASE AutoCompactAsync(r)
  <2>1. PICK next, pending :
          /\ next = [req[r] EXCEPT !.pending = pending]
          /\ HandOn(r, "auto_compact_async", next)
    BY <1>3 DEF AutoCompactAsync
  <2>2. CountRequest(next) = CountRequest(req[r])
    BY <1>1, <2>1, CountedParts DEF Fields
  <2>3. KeepsBooks(req[r], next)
    BY <1>1, <2>1, <2>2 DEF KeepsBooks, Inv, Fields
  <2>4. QED
    BY <2>1, <2>3 DEF HandsOn
<1>4. CASE PrefixCache(r)
  <2>1. PICK next, prefix :
          /\ next = [req[r] EXCEPT !.prefix = prefix]
          /\ HandOn(r, "prefix_cache", next)
    BY <1>4 DEF PrefixCache
  <2>2. CountRequest(next) = CountRequest(req[r])
    BY <1>1, <2>1, CountedParts DEF Fields
  <2>3. KeepsBooks(req[r], next)
    BY <1>1, <2>1, <2>2 DEF KeepsBooks, Inv, Fields
  <2>4. QED
    BY <2>1, <2>3 DEF HandsOn
<1>5. QED
  BY <1>2, <1>3, <1>4

\* Assembling is recounted too.
LEMMA AssembleHandsOn ==
  ASSUME Inv, NEW r \in Request, Assemble(r)
  PROVE  HandsOn(r)
<1>1. PICK prompt : HandOn(r, "assemble", Recounted([req[r] EXCEPT !.prompt = prompt]))
  BY DEF Assemble
<1>2. KeepsBooks(req[r], Recounted([req[r] EXCEPT !.prompt = prompt]))
  BY RecountedFacts DEF Inv, KeepsBooks, Fields
<1>3. QED
  BY <1>1, <1>2 DEF HandsOn

\* So every processor does.
Processes(r) ==
  \/ Paging(r) \/ Collapse(r) \/ Compact(r) \/ Sanitize(r) \/ Canonicalize(r)
  \/ \E p \in DOMAIN Target : Transform(r, p)
  \/ Snip(r) \/ AutoCompactSync(r) \/ AutoCompactAsync(r)
  \/ PrefixCache(r) \/ Assemble(r)

LEMMA ProcessorsHandOn ==
  ASSUME Inv, NEW r \in Request, Processes(r)
  PROVE  status[r] # "new" /\ HandsOn(r)
<1>1. status[r] # "new"
  BY DEF Processes, Paging, Collapse, Compact, Sanitize, Canonicalize, Transform, Snip,
         AutoCompactSync, AutoCompactAsync, PrefixCache, Assemble, Runs, Turn
<1>2. CASE Collapse(r) \/ Compact(r) \/ Sanitize(r) \/ Canonicalize(r)
  BY <1>1, <1>2, CanonicalHandsOn
<1>3. CASE Paging(r) \/ (\E p \in DOMAIN Target : Transform(r, p)) \/ Snip(r)
  BY <1>1, <1>3, RewritingHandsOn
<1>4. CASE AutoCompactSync(r) \/ AutoCompactAsync(r) \/ PrefixCache(r)
  BY <1>1, <1>4, LeavingHandsOn
<1>5. CASE Assemble(r)
  BY <1>1, <1>5, AssembleHandsOn
<1>6. QED
  BY <1>2, <1>3, <1>4, <1>5 DEF Processes

\* A call that fails leaves the request as it was.
LEMMA FailsInv ==
  ASSUME Inv, NEW r \in Request, Fails(r)
  PROVE  Inv'
<1>1. status[r] # "new" /\ Abort(r)
  BY DEF Fails, PageOutFails, EnqueueFails, PrefixCacheFails, Runs, Turn
<1>2. QED
  BY <1>1, AbortInv

\* One step of one request, whatever it is, keeps the books of all of them.
THEOREM Inductive == Inv /\ [Next]_vars => Inv'
<1> SUFFICES ASSUME Inv, [Next]_vars PROVE Inv'
  OBVIOUS
<1>1. CASE UNCHANGED vars
  BY <1>1 DEF vars, Inv
<1>2. ASSUME NEW r \in Request, Step(r)
      PROVE  Inv'
  <2>1. CASE Accept(r)
    BY <2>1, AcceptInv
  <2>2. CASE Skip(r) \/ PageOut(r) \/ Enqueue(r)
    BY <2>2 DEF Skip, PageOut, Enqueue, Inv
  <2>3. CASE Respond(r)
    BY <2>3, RespondInv
  <2>4. CASE Processes(r)
    BY <2>4, ProcessorsHandOn, HandOnFacts DEF HandsOn
  <2>5. CASE Fails(r)
    BY <2>5, FailsInv
  <2>6. QED
    BY <1>2, <2>1, <2>2, <2>3, <2>4, <2>5 DEF Step, Processes
<1>3. QED
  BY <1>1, <1>2 DEF Next

\* The audits of every request tell its whole story, and no processor ever
\* decides on stale tokens (Pipeline.Run and the processors' CurrentTokens).
THEOREM BooksAreKept == Spec => []AuditsAddUp
<1>1. Inv => AuditsAddUp
  BY DEF Inv, AuditsAddUp, Chained, After
<1>2. QED
  BY <1>1, InitInv, Inductive, PTL DEF Spec

----------------------------------------------------------------------------
(* The prefix that is registered is the one that is sent *)

\* The policy of request r has had its processor p.
Passed(r, p) == \E i \in DOMAIN Steps(r) : i < at[r] /\ Steps(r)[i] = p

\* The policy of request r has had all its processors.
Over(r) == \A i \in DOMAIN Steps(r) : i < at[r]

Assembled(q) == AssemblePrompt(q.chunks, q.messages)

\* A prompt or a prefix is that of the current text: only the processors of
\* stage 4 can be left once there is one.
PrefixInv ==
  /\ input \in [Request -> Input]
  /\ at \in [Request -> Nat \ {0}]
  /\ \A r \in Request :
       /\ status[r] = "new" => at[r] = 1
       /\ req[r].prompt # None =>
            /\ req[r].prompt = Assembled(req[r])
            /\ status[r] = "ok" \/ Passed(r, "assemble")
       /\ status[r] = "ok" =>
            /\ req[r].prompt = Assembled(req[r])
            /\ Over(r)
       /\ Passed(r, "prefix_cache") => req[r].prefix = PrefixOf(req[r])

\* What a text or a prefix is made of.
SameTexts(p, q) == p.chunks = q.chunks /\ p.messages = q.messages

\* At first nothing is assembled, and no request has passed prefix_cache.
LEMMA PrefixInitInv == Init => PrefixInv
<1> SUFFICES ASSUME Init PROVE PrefixInv
  OBVIOUS
<1>1. ASSUME NEW r \in Request
      PROVE  req[r].prompt = None /\ ~Passed(r, "prefix_cache")
  <2>1. req[r].prompt = None
    BY DEF Init, MapRequest
  <2>2. at[r] = 1 /\ Steps(r) \in Seq(Processor)
    BY InputAssumption DEF Init, Steps, Policy
  <2>3. \A i \in DOMAIN Steps(r) : ~(i < 1)
    BY <2>2, LenProperties
  <2>4. QED
    BY <2>1, <2>2, <2>3 DEF Passed
<1>2. QED
  BY <1>1 DEF Init, PrefixInv

\* What is left of HandOn when the books are not looked at.
LEMMA HandedOn ==
  ASSUME Inv, PrefixInv, NEW r \in Request, NEW p, NEW next,
         DOMAIN next = Fields, HandOn(r, p, next)
  PROVE  /\ SameTexts(req'[r], next)
         /\ req'[r].prefix = next.prefix /\ req'[r].prompt = next.prompt
         /\ \A s \in Request \ {r} : req'[s] = req[s] /\ at'[s] = at[s]
         /\ at'[r] = at[r] + 1 /\ at' \in [Request -> Nat \ {0}]
         /\ UNCHANGED <<input, status>>
<1> DEFINE audit == [name |-> p, before |-> req[r].tokens, after |-> next.tokens]
           booked == [next EXCEPT !.audits = Append(@, audit)]
<1>1. /\ req' = [req EXCEPT ![r] = booked]
      /\ at' = [at EXCEPT ![r] = @ + 1]
      /\ UNCHANGED <<input, status>>
  BY DEF HandOn
<1>2. /\ booked.chunks = next.chunks /\ booked.messages = next.messages
      /\ booked.prefix = next.prefix /\ booked.prompt = next.prompt
  BY DEF Fields
<1> HIDE DEF booked
<1>3. req'[r] = booked /\ \A s \in Request \ {r} : req'[s] = req[s]
  BY <1>1 DEF Inv
<1>4. QED
  BY <1>1, <1>2, <1>3 DEF PrefixInv, SameTexts

\* Once the turn of processor p is over it has had its turn, and no other has.
LEMMA PassedOn ==
  ASSUME PrefixInv, NEW r \in Request, NEW p, Turn(r, p),
         at'[r] = at[r] + 1, input' = input, NEW q
  PROVE  Passed(r, q)' <=> (Passed(r, q) \/ p = q)
<1>1. Steps(r)' = Steps(r) /\ Steps(r) \in Seq(Processor) /\ at[r] \in Nat \ {0}
  BY InputAssumption DEF PrefixInv, Steps, Policy
<1>2. DOMAIN Steps(r) = 1..Len(Steps(r)) /\ Len(Steps(r)) \in Nat
  BY <1>1, LenProperties
<1>3. at[r] \in DOMAIN Steps(r) /\ Steps(r)[at[r]] = p
  BY <1>1, <1>2 DEF Turn
<1> HIDE DEF Steps
<1>4. \A i \in DOMAIN Steps(r) : i < at[r] + 1 <=> i < at[r] \/ i = at[r]
  BY <1>1, <1>2
<1>5. Passed(r, q)' <=> \E i \in DOMAIN Steps(r) : i < at[r] + 1 /\ Steps(r)[i] = q
  BY <1>1 DEF Passed
<1>6. QED
  BY <1>3, <1>4, <1>5 DEF Passed

\* The processors before stage 4 find neither a prompt nor a prefix.
LEMMA NothingMadeYet ==
  ASSUME PrefixInv, NEW r \in Request, NEW p, p \notin Final, Turn(r, p)
  PROVE  req[r].prompt = None /\ ~Passed(r, "prefix_cache") /\ ~Passed(r, "assemble")
<1>1. /\ Steps(r) \in Seq(Processor) /\ at[r] \in Nat \ {0}
      /\ Steps(r) = input[r].policy.steps /\ input[r] \in Input
  BY InputAssumption DEF PrefixInv, Steps, Policy
<1>2. DOMAIN Steps(r) = 1..Len(Steps(r)) /\ Len(Steps(r)) \in Nat
  BY <1>1, LenProperties
<1>3. at[r] \in DOMAIN Steps(r) /\ Steps(r)[at[r]] = p
  BY <1>1, <1>2 DEF Turn
<1>4. \A i \in DOMAIN Steps(r) : i < at[r] => Steps(r)[i] \notin Final
  BY <1>1, <1>3, FinalAssumption
<1>5. QED
  BY <1>4 DEF Passed, Final, PrefixInv, Turn

\* A processor that is not of stage 4 may rewrite chunks and messages.
LEMMA PlainPrefixInv ==
  ASSUME Inv, PrefixInv, NEW r \in Request, NEW p, p \notin Final, Turn(r, p),
         NEW next, HandOn(r, p, next),
         DOMAIN next = Fields, next.prompt = req[r].prompt
  PROVE  PrefixInv'
<1>1. /\ req[r].prompt = None
      /\ ~Passed(r, "prefix_cache") /\ ~Passed(r, "assemble")
  BY NothingMadeYet
<1>2. /\ req'[r].prompt = None
      /\ \A s \in Request \ {r} : req'[s] = req[s] /\ at'[s] = at[s]
      /\ at'[r] = at[r] + 1 /\ at' \in [Request -> Nat \ {0}]
      /\ UNCHANGED <<input, status>>
  BY <1>1, HandedOn
<1>3. ~Passed(r, "prefix_cache")' /\ ~Passed(r, "assemble")'
  BY <1>1, <1>2, PassedOn DEF Final
<1>4. \A s \in Request \ {r} : /\ Over(s)' <=> Over(s)
                               /\ \A q : Passed(s, q)' <=> Passed(s, q)
  BY <1>2 DEF Passed, Over, Steps, Policy
<1>5. status[r] = "running"
  BY DEF Turn
<1>6. \A s \in Request \ {r} : PrefixOf(req[s])' = PrefixOf(req[s]) /\ Assembled(req[s])' = Assembled(req[s])
  BY <1>2 DEF PrefixOf, Assembled
<1>7. QED
  BY <1>2, <1>3, <1>4, <1>5, <1>6 DEF PrefixInv

\* A request whose chunks, messages, prompt and position stay, in a step that
\* leaves the other requests alone.
LEMMA UntouchedPrefixInv ==
  ASSUME PrefixInv, NEW r \in Request, UNCHANGED input,
         at' = at, req' = req, status' = status \/ (Abort(r) /\ status[r] = "running"),
         Inv
  PROVE  PrefixInv'
<1>1. \A s \in Request : status'[s] # status[s] => status'[s] = "failed" /\ status[s] = "running"
  BY DEF Abort, Inv
<1>2. \A s \in Request : /\ Over(s)' <=> Over(s)
                         /\ \A q : Passed(s, q)' <=> Passed(s, q)
  BY DEF Passed, Over, Steps, Policy
<1>3. \A s \in Request : PrefixOf(req[s])' = PrefixOf(req[s]) /\ Assembled(req[s])' = Assembled(req[s])
  BY DEF PrefixOf, Assembled
<1>4. QED
  BY <1>1, <1>2, <1>3 DEF PrefixInv

\* Counting a request is no part of its text.
LEMMA AcceptPrefixInv ==
  ASSUME Inv, PrefixInv, NEW r \in Request, Accept(r)
  PROVE  PrefixInv'
<1> DEFINE q == [req[r] EXCEPT !.tokens = CountRequest(req[r]),
                               !.inputTokens = CountRequest(req[r])]
<1>1. /\ req' = [req EXCEPT ![r] = q]
      /\ status[r] = "new" /\ status' = [status EXCEPT ![r] = "running"]
      /\ UNCHANGED <<input, at>>
  BY DEF Accept, Inv, Fields
<1>2. SameTexts(q, req[r]) /\ q.prompt = req[r].prompt /\ q.prefix = req[r].prefix
  BY DEF SameTexts, Inv, Fields
<1> HIDE DEF q
<1>3. req'[r] = q /\ \A s \in Request \ {r} : req'[s] = req[s]
  BY <1>1 DEF Inv
<1>4. status'[r] = "running" /\ \A s \in Request \ {r} : status'[s] = status[s]
  BY <1>1 DEF Inv
<1>5. \A s \in Request : /\ Over(s)' <=> Over(s)
                         /\ \A p : Passed(s, p)' <=> Passed(s, p)
  BY <1>1 DEF Passed, Over, Steps, Policy
<1>6. \A s \in Request : SameTexts(req'[s], req[s]) /\ req'[s].prompt = req[s].prompt
                           /\ req'[s].prefix = req[s].prefix
  BY <1>2, <1>3 DEF SameTexts
<1>7. \A s \in Request : PrefixOf(req[s])' = PrefixOf(req[s]) /\ Assembled(req[s])' = Assembled(req[s])
  BY <1>6 DEF SameTexts, PrefixOf, Assembled
<1>8. QED
  BY <1>1, <1>4, <1>5, <1>6, <1>7 DEF PrefixInv

\* A processor of stage 4 leaves the text alone, and makes its part of it.
LEMMA FinalPrefixInv ==
  ASSUME Inv, PrefixInv, NEW r \in Request, NEW p, Turn(r, p), NEW next,
         HandOn(r, p, next), DOMAIN next = Fields, SameTexts(next, req[r]),
         \/ /\ p = "prefix_cache"
            /\ next.prefix = PrefixOf(req[r]) /\ next.prompt = req[r].prompt
         \/ /\ p = "assemble"
            /\ next.prefix = req[r].prefix /\ next.prompt = Assembled(req[r])
  PROVE  PrefixInv'
<1>1. /\ SameTexts(req'[r], req[r])
      /\ req'[r].prompt = next.prompt /\ req'[r].prefix = next.prefix
      /\ \A s \in Request \ {r} : req'[s] = req[s] /\ at'[s] = at[s]
      /\ at'[r] = at[r] + 1 /\ at' \in [Request -> Nat \ {0}]
      /\ UNCHANGED <<input, status>>
  BY HandedOn DEF SameTexts
<1>2. \A q : Passed(r, q)' <=> (Passed(r, q) \/ p = q)
  BY <1>1, PassedOn
<1>3. \A s \in Request \ {r} : /\ Over(s)' <=> Over(s)
                               /\ \A q : Passed(s, q)' <=> Passed(s, q)
  BY <1>1 DEF Passed, Over, Steps, Policy
<1>4. status[r] = "running"
  BY DEF Turn
<1>5. \A s \in Request : PrefixOf(req[s])' = PrefixOf(req[s]) /\ Assembled(req[s])' = Assembled(req[s])
  BY <1>1 DEF SameTexts, PrefixOf, Assembled
<1>6. PrefixInv!3!(r)'
  BY <1>1, <1>2, <1>4, <1>5 DEF PrefixInv
<1>7. \A s \in Request \ {r} : PrefixInv!3!(s)'
  BY <1>1, <1>3, <1>5 DEF PrefixInv
<1>8. QED
  BY <1>1, <1>6, <1>7 DEF PrefixInv

\* A processor of stage 4 is not skipped for want of tokens.
LEMMA SkipPrefixInv ==
  ASSUME Inv, PrefixInv, NEW r \in Request, Skip(r)
  PROVE  PrefixInv'
<1>1. PICK p \in Processor : Turn(r, p) /\ Skips(r, p)
  BY DEF Skip
<1>2. p \notin Final
  BY <1>1, FinalAssumption DEF Skips, Final, StructuredOnly, Aggressive
<1>3. /\ req' = req /\ status' = status /\ input' = input
      /\ at' = [at EXCEPT ![r] = @ + 1]
  BY DEF Skip
<1>4. /\ at'[r] = at[r] + 1 /\ at' \in [Request -> Nat \ {0}]
      /\ \A s \in Request \ {r} : at'[s] = at[s]
  BY <1>3 DEF PrefixInv
<1>5. /\ req[r].prompt = None
      /\ ~Passed(r, "prefix_cache") /\ ~Passed(r, "assemble")
  BY <1>1, <1>2, NothingMadeYet
<1>6. ~Passed(r, "prefix_cache")' /\ ~Passed(r, "assemble")'
  BY <1>1, <1>2, <1>3, <1>4, <1>5, PassedOn DEF Final
<1>7. \A s \in Request \ {r} : /\ Over(s)' <=> Over(s)
                               /\ \A q : Passed(s, q)' <=> Passed(s, q)
  BY <1>3, <1>4 DEF Passed, Over, Steps, Policy
<1>8. status[r] = "running"
  BY <1>1 DEF Turn
<1>9. \A s \in Request : PrefixOf(req[s])' = PrefixOf(req[s]) /\ Assembled(req[s])' = Assembled(req[s])
  BY <1>3 DEF PrefixOf, Assembled
<1>10. QED
  BY <1>3, <1>4, <1>5, <1>6, <1>7, <1>8, <1>9 DEF PrefixInv

\* A request without a prompt gets the prompt of its text.
LEMMA RespondPrefixInv ==
  ASSUME Inv, PrefixInv, NEW r \in Request, Respond(r)
  PROVE  PrefixInv'
<1> DEFINE full == [req[r] EXCEPT !.prompt = Assembled(req[r])]
           q == IF req[r].prompt # None THEN req[r] ELSE Recounted(full)
<1>1. /\ req' = [req EXCEPT ![r] = q]
      /\ status[r] = "running" /\ status' = [status EXCEPT ![r] = "ok"]
      /\ UNCHANGED <<input, at>>
      /\ Over(r)
  <2>1. at[r] > Len(Steps(r)) /\ at[r] \in Nat /\ Steps(r) \in Seq(Processor)
    BY InputAssumption DEF Respond, PrefixInv, Steps, Policy
  <2>2. Over(r)
    BY <2>1, LenProperties DEF Over
  <2>3. QED
    BY <2>2 DEF Respond, Assembled
<1>2. /\ SameTexts(q, req[r]) /\ q.prefix = req[r].prefix
      /\ q.prompt = Assembled(req[r])
  <2>1. CASE req[r].prompt # None
    BY <2>1 DEF SameTexts, PrefixInv
  <2>2. CASE req[r].prompt = None
    BY <2>2 DEF SameTexts, Inv, Fields, Recounted
  <2>3. QED
    BY <2>1, <2>2
<1> HIDE DEF q
<1>3. req'[r] = q /\ \A s \in Request \ {r} : req'[s] = req[s]
  BY <1>1 DEF Inv
<1>4. status'[r] = "ok" /\ \A s \in Request \ {r} : status'[s] = status[s]
  BY <1>1 DEF Inv
<1>5. \A s \in Request : /\ Over(s)' <=> Over(s)
                         /\ \A p : Passed(s, p)' <=> Passed(s, p)
  BY <1>1 DEF Passed, Over, Steps, Policy
<1>6. \A s \in Request : PrefixOf(req[s])' = PrefixOf(req[s]) /\ Assembled(req[s])' = Assembled(req[s])
  BY <1>2, <1>3 DEF SameTexts, PrefixOf, Assembled
<1>7. PrefixInv!3!(r)'
  BY <1>1, <1>2, <1>3, <1>4, <1>5, <1>6 DEF PrefixInv
<1>8. \A s \in Request \ {r} : PrefixInv!3!(s)'
  BY <1>1, <1>3, <1>4, <1>5, <1>6 DEF PrefixInv
<1>9. QED
  BY <1>1, <1>7, <1>8 DEF PrefixInv

\* The processors of stages 1 to 3 hand on a request with the prompt they got.
LEMMA PlainProcessors ==
  ASSUME Inv, NEW r \in Request,
         \/ Paging(r) \/ Collapse(r) \/ Compact(r) \/ Sanitize(r) \/ Canonicalize(r)
         \/ \E p \in DOMAIN Target : Transform(r, p)
         \/ Snip(r) \/ AutoCompactSync(r) \/ AutoCompactAsync(r)
  PROVE  \E p, next : /\ p \notin Final /\ Turn(r, p) /\ HandOn(r, p, next)
                      /\ DOMAIN next = Fields /\ next.prompt = req[r].prompt
<1> DEFINE Plain(p, next) == /\ p \notin Final /\ Turn(r, p) /\ HandOn(r, p, next)
                             /\ DOMAIN next = Fields /\ next.prompt = req[r].prompt
<1>1. DOMAIN req[r] = Fields
  BY DEF Inv
<1>2. ASSUME NEW p, NEW chunks, p \notin Final, Turn(r, p), Rewrite(r, p, chunks)
      PROVE  Plain(p, Recounted([req[r] EXCEPT !.chunks = chunks]))
  BY <1>1, <1>2 DEF Rewrite, Recounted, Fields
<1>3. ASSUME NEW p, NEW chunks, NEW messages, p \notin Final, Turn(r, p),
             HandOn(r, p, Recounted([req[r] EXCEPT !.chunks = chunks, !.messages = messages]))
      PROVE  Plain(p, Recounted([req[r] EXCEPT !.chunks = chunks, !.messages = messages]))
  BY <1>1, <1>3 DEF Recounted, Fields
<1> HIDE DEF Plain
<1>4. CASE Paging(r) \/ Snip(r) \/ (\E p \in DOMAIN Target : Transform(r, p))
  <2>1. PICK p, chunks : p \notin Final /\ Turn(r, p) /\ Rewrite(r, p, chunks)
    BY <1>4 DEF Paging, Snip, Transform, Runs, Final, Target
  <2>2. QED
    BY <1>2, <2>1 DEF Plain
<1>5. CASE Collapse(r) \/ Compact(r) \/ Sanitize(r) \/ Canonicalize(r)
  <2>1. PICK p, chunks, messages :
          /\ p \notin Final /\ Turn(r, p)
          /\ HandOn(r, p, Recounted([req[r] EXCEPT !.chunks = chunks, !.messages = messages]))
    BY <1>5 DEF Collapse, Compact, Sanitize, Canonicalize, Runs, Final
  <2>2. QED
    BY <1>3, <2>1 DEF Plain
<1>6. CASE AutoCompactSync(r)
  <2>1. Turn(r, "auto_compact_sync") /\ "auto_compact_sync" \notin Final
    BY <1>6 DEF AutoCompactSync, Runs, Final
  <2>2. CASE HandOn(r, "auto_compact_sync", req[r])
    BY <1>1, <2>1, <2>2
  <2>3. CASE \E chunks : Rewrite(r, "auto_compact_sync", chunks)
    BY <1>2, <2>1, <2>3 DEF Plain
  <2>4. QED
    BY <1>6, <2>2, <2>3 DEF AutoCompactSync
<1>7. CASE AutoCompactAsync(r)
  <2>1. Turn(r, "auto_compact_async") /\ "auto_compact_async" \notin Final
    BY <1>7 DEF AutoCompactAsync, Runs, Final
  <2>2. PICK pending : HandOn(r, "auto_compact_async", [req[r] EXCEPT !.pending = pending])
    BY <1>7 DEF AutoCompactAsync
  <2>3. Plain("auto_compact_async", [req[r] EXCEPT !.pending = pending])
    BY <1>1, <2>1, <2>2 DEF Plain, Fields
  <2>4. QED
    BY <2>3 DEF Plain
<1>8. QED
  BY <1>4, <1>5, <1>6, <1>7

\* Every step keeps the registered prefix that of the chunks and messages, and
\* the prompt once it is assembled.
LEMMA PrefixInductive == Inv /\ PrefixInv /\ [Next]_vars => PrefixInv'
<1> SUFFICES ASSUME Inv, PrefixInv, [Next]_vars PROVE PrefixInv'
  OBVIOUS
<1>1. CASE UNCHANGED vars
  <2>1. \A s \in Request : /\ Over(s)' <=> Over(s)
                           /\ \A q : Passed(s, q)' <=> Passed(s, q)
    BY <1>1 DEF Passed, Over, Steps, Policy, vars
  <2>2. \A s \in Request : PrefixOf(req[s])' = PrefixOf(req[s]) /\ Assembled(req[s])' = Assembled(req[s])
    BY <1>1 DEF PrefixOf, Assembled, vars
  <2>3. QED
    BY <1>1, <2>1, <2>2 DEF PrefixInv, vars
<1>2. ASSUME NEW r \in Request, Step(r)
      PROVE  PrefixInv'
  <2>1. CASE Accept(r)
    BY <2>1, AcceptPrefixInv
  <2>2. CASE Skip(r)
    BY <2>2, SkipPrefixInv
  <2>3. CASE Respond(r)
    BY <2>3, RespondPrefixInv
  <2>4. CASE PageOut(r) \/ Enqueue(r) \/ Fails(r)
    BY <2>4, UntouchedPrefixInv
       DEF PageOut, Enqueue, Fails, PageOutFails, EnqueueFails, PrefixCacheFails, Abort, Runs, Turn
  <2>5. CASE \/ Paging(r) \/ Collapse(r) \/ Compact(r) \/ Sanitize(r) \/ Canonicalize(r)
             \/ \E p \in DOMAIN Target : Transform(r, p)
             \/ Snip(r) \/ AutoCompactSync(r) \/ AutoCompactAsync(r)
    <3>1. PICK p, next : /\ p \notin Final /\ Turn(r, p) /\ HandOn(r, p, next)
                         /\ DOMAIN next = Fields /\ next.prompt = req[r].prompt
      BY <2>5, PlainProcessors
    <3>2. QED
      BY <3>1, PlainPrefixInv
  <2>6. CASE PrefixCache(r)
    <3> DEFINE next == [req[r] EXCEPT !.prefix = PrefixOf(req[r])]
    <3>1. Turn(r, "prefix_cache") /\ HandOn(r, "prefix_cache", next)
      BY <2>6 DEF PrefixCache, Runs
    <3>2. /\ DOMAIN next = Fields /\ SameTexts(next, req[r])
          /\ next.prefix = PrefixOf(req[r]) /\ next.prompt = req[r].prompt
      BY DEF Inv, Fields, SameTexts
    <3> HIDE DEF next
    <3>3. QED
      BY <3>1, <3>2, FinalPrefixInv
  <2>7. CASE Assemble(r)
    <3> DEFINE next == Recounted([req[r] EXCEPT !.prompt = Assembled(req[r])])
    <3>1. Turn(r, "assemble") /\ HandOn(r, "assemble", next)
      BY <2>7 DEF Assemble, Runs, Assembled
    <3>2. /\ DOMAIN next = Fields /\ SameTexts(next, req[r])
          /\ next.prefix = req[r].prefix /\ next.prompt = Assembled(req[r])
      BY DEF Inv, Fields, SameTexts, Recounted
    <3> HIDE DEF next
    <3>3. QED
      BY <3>1, <3>2, FinalPrefixInv
  <2>8. QED
    BY <1>2, <2>1, <2>2, <2>3, <2>4, <2>5, <2>6, <2>7 DEF Step
<1>3. QED
  BY <1>1, <1>2 DEF Next

\* What AssemblePrompt puts where.
LEMMA PromptParts ==
  ASSUME NEW chunks, NEW messages
  PROVE  LET p == AssemblePrompt(chunks, messages)
             s == Segments(messages)
         IN  /\ p.rag = RenderChunks(chunks)
             /\ p.memory = s.system \o s.memory
             /\ p.active = s.active
BY DEF AssemblePrompt

\* The prompt of a response starts with the prefix that was registered for it: the
\* processors of stage 4 come last, and see the same chunks and messages
\* (BuildPrefixCacheIdentity, AssemblePrompt).
THEOREM PrefixIsSent == Spec => []RegisteredPrefixIsSent
<1>1. Inv /\ PrefixInv => RegisteredPrefixIsSent
  <2> SUFFICES ASSUME Inv, PrefixInv, NEW r \in Request,
                      Response(r), "prefix_cache" \in ToSet(Steps(r))
               PROVE  LET q == req[r]
                      IN  /\ Blanked(q.prompt.rag) = q.prefix.rag
                          /\ q.prompt.memory = q.prefix.system \o q.prefix.memory
                          /\ q.prompt.active = Segments(q.messages).active
    BY DEF RegisteredPrefixIsSent
  <2>1. status[r] = "ok" /\ req[r].prompt = Assembled(req[r])
    BY DEF Response, PrefixInv
  <2>2. PICK i \in DOMAIN Steps(r) : Steps(r)[i] = "prefix_cache"
    BY DEF ToSet
  <2>3. i < at[r]
    BY <2>1, <2>2 DEF PrefixInv, Over
  <2>4. req[r].prefix = PrefixOf(req[r])
    BY <2>2, <2>3 DEF PrefixInv, Passed
  <2> DEFINE q == req[r]
             s == Segments(q.messages)
  <2>5. /\ q.prompt.rag = RenderChunks(q.chunks)
        /\ q.prompt.memory = s.system \o s.memory
        /\ q.prompt.active = s.active
    <3>1. LET p == AssemblePrompt(q.chunks, q.messages)
          IN  /\ p.rag = RenderChunks(q.chunks)
              /\ p.memory = s.system \o s.memory
              /\ p.active = s.active
      BY PromptParts, Zenon
    <3>2. q.prompt = AssemblePrompt(q.chunks, q.messages)
      BY <2>1 DEF Assembled
    <3> HIDE DEF q, s
    <3>3. QED
      BY <3>1, <3>2
  <2>6. /\ q.prefix.rag = Blanked(RenderChunks(q.chunks))
        /\ q.prefix.system = s.system
        /\ q.prefix.memory = s.memory
    BY <2>4 DEF PrefixOf
  <2> HIDE DEF q, s
  <2>7. QED
    BY <2>5, <2>6 DEF q, s
<1>2. QED
  BY <1>1, InitInv, Inductive, PrefixInitInv, PrefixInductive, PTL DEF Spec
----------------------------------------------------------------------------
(* The data: types, citations and pages *)

\* Every page that the chunks cs refer to is there.
Paged(cs) == \A i \in 1..Len(cs) : ToSet(cs[i].refs) \subseteq DOMAIN pages

\* The processor that request r has begun to make calls for still runs, and the
\* pages that it has saved are there.
Calls(r) ==
  /\ status[r] # "new" /\ at[r] <= Len(Steps(r))
  /\ Steps(r)[at[r]] \in {"paging", "auto_compact_async"}
  /\ ~Skips(r, Steps(r)[at[r]])
  /\ Steps(r)[at[r]] = "paging" =>
       \A k \in 1..done[r] : PagesToSave(r)[k].key \in DOMAIN pages

\* The data of request r have their types, cite what was given, and refer to pages
\* that are there.
RequestInv(r) ==
  /\ req[r].chunks \in Seq(RAGChunk) /\ Paged(req[r].chunks)
  /\ Covers(req[r].chunks, Given(r))
  /\ req[r].messages \in Seq(Message) /\ req[r].prompt \in Prompt
  /\ status[r] = "new" => req[r].tokens = 0
  /\ req[r].prefix # NoPrefix => "prefix_cache" \in ToSet(Steps(r))
  /\ at[r] <= Len(Steps(r)) + 1
  /\ done[r] # 0 => Calls(r)

DataInv ==
  /\ input \in [Request -> Input]
  /\ at \in [Request -> Nat \ {0}]
  /\ done \in [Request -> Nat]
  /\ DOMAIN pages \subseteq PageRef /\ pages \in [DOMAIN pages -> Text]
  /\ \A job \in jobs : ToSet(job.refs) \subseteq DOMAIN pages
  /\ \A r \in Request : RequestInv(r)

\* What a client sends makes a request of chunks and messages.
LEMMA GivenFacts ==
  ASSUME NEW in \in Input
  PROVE  /\ StandFor(StableChunks(in.chunks), in.chunks)
         /\ in.messages \in Seq(Message)
         /\ in.policy.steps \in Seq(Processor)
         /\ in.policy.head \in Nat /\ in.policy.tail \in Nat
         /\ \A i \in 1..Len(in.chunks) : in.chunks[i].refs = << >>
<1>1. in.chunks \in Seq(ClientChunk)
  BY InputAssumption
<1>2. \A i \in 1..Len(in.chunks) : in.chunks[i] \in ClientChunk
  BY <1>1, ElementOfSeq
<1>3. in.chunks \in Seq(RAGChunk)
  <2>1. \A c \in ClientChunk : c \in RAGChunk
    BY DEF ClientChunk
  <2>2. QED
    BY <1>1, <2>1
<1>4. QED
  BY <1>2, <1>3, InputAssumption, StableChunksFacts DEF ClientChunk

\* At first nothing is paged out.
LEMMA InitDataInv == Init => DataInv
<1> SUFFICES ASSUME Init PROVE DataInv
  OBVIOUS
<1>1. ASSUME NEW r \in Request
      PROVE  RequestInv(r)
  <2> DEFINE in == input[r]
             cs == StableChunks(in.chunks)
  <2>1. /\ in \in Input /\ req[r] = MapRequest(in)
        /\ status[r] = "new" /\ at[r] = 1 /\ done[r] = 0
    BY DEF Init
  <2>2. StandFor(cs, in.chunks) /\ \A i \in 1..Len(in.chunks) : in.chunks[i].refs = << >>
    BY <2>1, GivenFacts
  <2>3. /\ req[r].chunks = cs /\ req[r].messages = in.messages /\ req[r].prompt = None
        /\ req[r].tokens = 0 /\ req[r].prefix = NoPrefix
    BY <2>1 DEF MapRequest
  <2>4. Given(r) = cs
    BY DEF Given, MapRequest
  <2>5. Len(Steps(r)) \in Nat
    BY <2>1, GivenFacts, LenProperties DEF Steps, Policy
  <2>6. in.messages \in Seq(Message)
    BY <2>1, GivenFacts
  <2> HIDE DEF cs
  <2>7. Paged(cs)
    <3> SUFFICES ASSUME NEW i \in 1..Len(cs)
                 PROVE  ToSet(cs[i].refs) \subseteq DOMAIN pages
      BY DEF Paged
    <3>1. PICK k \in 1..Len(in.chunks) : ToSet(cs[i].refs) \subseteq ToSet(in.chunks[k].refs)
      BY <2>2 DEF StandFor, Refers
    <3>2. ToSet(<< >>) = {}
      BY DEF ToSet
    <3>3. QED
      BY <2>2, <3>1, <3>2
  <2>8. None \in Prompt
    <3>1. << >> \in Seq(Block) /\ << >> \in Seq(Message)
      BY EmptySeq
    <3>2. QED
      BY <3>1 DEF None, Prompt
  <2>9. cs \in Seq(RAGChunk) /\ Covers(cs, cs)
    BY <2>2 DEF StandFor, Covers
  <2> HIDE DEF in
  <2>10. QED
    BY <2>1, <2>3, <2>4, <2>5, <2>6, <2>7, <2>8, <2>9 DEF RequestInv
<1>2. DOMAIN pages = {} /\ pages \in [DOMAIN pages -> Text] /\ jobs = {}
  BY DEF Init
<1>3. /\ input \in [Request -> Input] /\ at \in [Request -> Nat \ {0}]
      /\ done \in [Request -> Nat]
  BY DEF Init
<1>4. QED
  BY <1>1, <1>2, <1>3 DEF DataInv

\* A request that a step leaves alone stays as it is, while pages are added.
LEMMA UntouchedRequest ==
  ASSUME NEW s \in Request, RequestInv(s), UNCHANGED input,
         req'[s] = req[s], at'[s] = at[s], done'[s] = done[s],
         status'[s] = "new" <=> status[s] = "new",
         DOMAIN pages \subseteq DOMAIN pages'
  PROVE  RequestInv(s)'
<1>1. /\ Steps(s)' = Steps(s) /\ Given(s)' = Given(s)
      /\ PagesToSave(s)' = PagesToSave(s)
      /\ \A p : Skips(s, p)' <=> Skips(s, p)
  BY DEF Steps, Policy, Given, PagesToSave, Skips
<1>2. Paged(req[s].chunks)'
  BY DEF RequestInv, Paged
<1>3. done[s] # 0 => Calls(s)'
  BY <1>1 DEF RequestInv, Calls
<1>4. QED
  BY <1>1, <1>2, <1>3 DEF RequestInv

\* What paging saves: texts under page keys, all the pages of every large chunk.
LEMMA PagesToSaveFacts ==
  ASSUME NEW r \in Request, req[r].chunks \in Seq(RAGChunk)
  PROVE  LET saves == PagesToSave(r)
             cs == req[r].chunks
         IN  /\ saves \in Seq([key : PageRef, text : Text])
             /\ \A i \in 1..Len(cs) : Oversized(cs[i]) =>
                  \A k \in 1..Len(PagesOf(cs[i])) :
                    \E m \in 1..Len(saves) : saves[m] = PagesOf(cs[i])[k]
<1> DEFINE Page == [key : PageRef, text : Text]
           cs == req[r].chunks
           I == {i \in DOMAIN cs : Oversized(cs[i])}
           large == Pick(cs, I)
           books == [i \in DOMAIN large |-> PagesOf(large[i])]
           saves == FlattenSeq(books)
<1>1. PagesToSave(r) = saves
  BY DEF PagesToSave
<1>2. PICK n \in Nat : n = Len(cs) /\ DOMAIN cs = 1..n
  BY LenProperties
<1> HIDE DEF I
<1>3. /\ large \in Seq(RAGChunk)
      /\ \A i \in 1..n : i \in I => \E k \in 1..Len(large) : large[k] = cs[i]
  <2>1. cs \in Seq(RAGChunk)
    OBVIOUS
  <2> HIDE DEF cs
  <2>2. /\ Pick(cs, I) \in Seq(RAGChunk)
        /\ Len(Pick(cs, I)) <= Len(cs)
        /\ \A i \in 1..Len(cs) : i \in I => \E k \in 1..Len(Pick(cs, I)) : Pick(cs, I)[k] = cs[i]
        /\ \A k \in 1..Len(Pick(cs, I)) : \E i \in 1..Len(cs) : i \in I /\ Pick(cs, I)[k] = cs[i]
    BY <2>1, PickFacts
  <2>3. QED
    BY <1>2, <2>2
<1> HIDE DEF large
<1>4. PICK m \in Nat : m = Len(large) /\ DOMAIN large = 1..m /\ \A i \in 1..m : large[i] \in RAGChunk
  BY <1>3, LenProperties, ElementOfSeq
<1>5. ASSUME NEW c \in RAGChunk
      PROVE  PagesOf(c) \in Seq(Page)
  <2> DEFINE book == PagesOf(c)
  <2>1. PICK k \in Nat : k = Len(book) /\ DOMAIN book = 1..k
    BY FirstPageFacts
  <2>2. \A j \in 1..k : book[j].key \in PageRef /\ book[j].text \in Text
    BY <2>1, FirstPageFacts
  <2>3. book = [j \in 1..k |-> [key |-> book[j].key, text |-> book[j].text]]
    <3>1. DOMAIN Paginate(c.frags) = DOMAIN book
      BY DEF PagesOf
    <3>2. \A j \in DOMAIN book : book[j] = [key |-> book[j].key, text |-> book[j].text]
      BY <3>1 DEF PagesOf
    <3>3. book = [j \in DOMAIN book |-> book[j]]
      BY <3>1 DEF PagesOf
    <3> HIDE DEF book
    <3>4. QED
      BY <2>1, <3>2, <3>3
  <2> HIDE DEF book
  <2>4. book \in [1..k -> Page]
    BY <2>2, <2>3
  <2>5. QED
    BY <2>4, FunctionIsSequence DEF book
<1>6. \A i \in 1..m : books[i] = PagesOf(large[i])
  BY <1>4
<1>7. books \in Seq(Seq(Page)) /\ Len(books) = m
  <2>1. \A i \in 1..Len(large) : books[i] \in Seq(Page)
    BY <1>4, <1>5, <1>6
  <2>2. books = [i \in DOMAIN large |-> books[i]]
    OBVIOUS
  <2> HIDE DEF books, saves, cs, Page
  <2>3. books \in Seq(Seq(Page)) /\ Len(books) = Len(large)
    BY <1>3, <2>1, <2>2, MappedList
  <2>4. QED
    BY <1>4, <2>3
<1> HIDE DEF books, Page
<1>8. /\ saves \in Seq(Page)
      /\ \A i \in 1..m : HasAll(saves, books[i])
  BY <1>7, FlattenFacts
<1> HIDE DEF saves
<1>9. ASSUME NEW i \in 1..n, Oversized(cs[i]), NEW k \in 1..Len(PagesOf(cs[i]))
      PROVE  \E j \in 1..Len(saves) : saves[j] = PagesOf(cs[i])[k]
  <2>1. i \in I
    BY <1>2, <1>9 DEF I
  <2>2. PICK l \in 1..m : large[l] = cs[i]
    BY <1>3, <1>4, <2>1
  <2>3. books[l] = PagesOf(cs[i])
    BY <1>6, <2>2
  <2>4. HasAll(saves, PagesOf(cs[i]))
    BY <1>8, <2>3
  <2>5. QED
    BY <2>4 DEF HasAll
<1>10. QED
  BY <1>1, <1>2, <1>8, <1>9 DEF Page

\* A page that is saved is there, and so are the others.
LEMMA SavedFacts ==
  ASSUME DOMAIN pages \subseteq PageRef, pages \in [DOMAIN pages -> Text],
         NEW page \in [key : PageRef, text : Text]
  PROVE  LET after == Saved(page)
         IN  /\ DOMAIN pages \subseteq DOMAIN after /\ page.key \in DOMAIN after
             /\ DOMAIN after \subseteq PageRef /\ after \in [DOMAIN after -> Text]
<1>1. page.key \in PageRef /\ page.text \in Text
  OBVIOUS
<1>2. DOMAIN Saved(page) = DOMAIN pages \cup {page.key}
  BY DEF Saved
<1>3. Saved(page) = [k \in DOMAIN pages \cup {page.key} |->
                       IF k \in DOMAIN pages THEN pages[k] ELSE page.text]
  BY DEF Saved
<1>4. Saved(page) \in [DOMAIN pages \cup {page.key} -> Text]
  BY <1>1, <1>3
<1>5. QED
  BY <1>1, <1>2, <1>4

\* The page that is next is one of those.
LEMMA NextPage ==
  ASSUME DataInv, NEW r \in Request, done[r] < Len(PagesToSave(r))
  PROVE  PagesToSave(r)[done[r] + 1] \in [key : PageRef, text : Text]
<1>1. PagesToSave(r) \in Seq([key : PageRef, text : Text])
  BY PagesToSaveFacts DEF DataInv, RequestInv
<1>2. PICK n \in Nat : n = Len(PagesToSave(r))
  BY <1>1, LenProperties
<1>3. done[r] \in Nat
  BY DEF DataInv
<1>4. done[r] + 1 \in 1..n
  BY <1>2, <1>3
<1>5. QED
  BY <1>1, <1>2, <1>4, ElementOfSeq

\* A processor that has made one more call.
LEMMA CallMade ==
  ASSUME DataInv, NEW r \in Request, NEW p \in {"paging", "auto_compact_async"},
         Runs(r, p), UNCHANGED <<input, status, at, req>>,
         done' = [done EXCEPT ![r] = @ + 1],
         DOMAIN pages \subseteq DOMAIN pages',
         p = "paging" => PagesToSave(r)[done[r] + 1].key \in DOMAIN pages'
  PROVE  \A s \in Request : RequestInv(s)'
<1>1. /\ done[r] \in Nat /\ done'[r] = done[r] + 1 /\ RequestInv(r)
      /\ \A s \in Request \ {r} : done'[s] = done[s] /\ RequestInv(s)
  BY DEF DataInv
<1>2. \A s \in Request \ {r} : RequestInv(s)'
  BY <1>1, UntouchedRequest
<1>3. /\ Steps(r)' = Steps(r) /\ Given(r)' = Given(r)
      /\ PagesToSave(r)' = PagesToSave(r)
      /\ \A q : Skips(r, q)' <=> Skips(r, q)
  BY DEF Steps, Policy, Given, PagesToSave, Skips
<1>4. Paged(req[r].chunks)'
  BY <1>1 DEF RequestInv, Paged
<1>5. /\ status[r] = "running" /\ at[r] <= Len(Steps(r))
      /\ Steps(r)[at[r]] = p /\ ~Skips(r, p)
  BY DEF Runs, Turn
<1>6. ASSUME p = "paging", NEW k \in 1..(done[r] + 1)
      PROVE  PagesToSave(r)[k].key \in DOMAIN pages'
  <2>1. CASE k = done[r] + 1
    BY <1>6, <2>1
  <2>2. CASE k # done[r] + 1
    <3>1. k \in 1..done[r] /\ done[r] # 0
      BY <1>1, <2>2
    <3>2. PagesToSave(r)[k].key \in DOMAIN pages
      BY <1>1, <1>5, <1>6, <3>1 DEF RequestInv, Calls
    <3>3. QED
      BY <3>2
  <2>3. QED
    BY <2>1, <2>2
<1>7. Calls(r)'
  BY <1>1, <1>3, <1>5, <1>6 DEF Calls
<1>8. RequestInv(r)'
  BY <1>1, <1>3, <1>4, <1>7 DEF RequestInv
<1>9. QED
  BY <1>2, <1>8

\* A page more, or none if the call failed.
LEMMA PageOutDataInv ==
  ASSUME Inv, DataInv, NEW r \in Request, PageOut(r) \/ PageOutFails(r)
  PROVE  DataInv'
<1> DEFINE page == PagesToSave(r)[done[r] + 1]
<1>1. done[r] < Len(PagesToSave(r)) /\ Runs(r, "paging") /\ UNCHANGED <<input, at, req, jobs>>
  BY DEF PageOut, PageOutFails, Abort
<1>2. page \in [key : PageRef, text : Text]
  BY <1>1, NextPage
<1> HIDE DEF page
<1>3. /\ DOMAIN pages \subseteq DOMAIN Saved(page) /\ page.key \in DOMAIN Saved(page)
      /\ DOMAIN Saved(page) \subseteq PageRef /\ Saved(page) \in [DOMAIN Saved(page) -> Text]
  BY <1>2, SavedFacts DEF DataInv
<1>4. pages' \in {pages, Saved(page)}
  BY DEF PageOut, PageOutFails, page
<1>5. /\ DOMAIN pages \subseteq DOMAIN pages'
      /\ DOMAIN pages' \subseteq PageRef /\ pages' \in [DOMAIN pages' -> Text]
  BY <1>3, <1>4 DEF DataInv
<1>6. CASE PageOut(r)
  <2>1. /\ UNCHANGED status /\ done' = [done EXCEPT ![r] = @ + 1]
        /\ page.key \in DOMAIN pages'
    BY <1>3, <1>6 DEF PageOut, page
  <2>2. \A s \in Request : RequestInv(s)'
    BY <1>1, <1>5, <2>1, CallMade DEF page
  <2>3. done' \in [Request -> Nat]
    BY <2>1 DEF DataInv
  <2>4. QED
    BY <1>1, <1>5, <2>2, <2>3 DEF DataInv
<1>7. CASE PageOutFails(r)
  <2>1. UNCHANGED done /\ \A s \in Request : status'[s] = "new" <=> status[s] = "new"
    BY <1>1, <1>7 DEF PageOutFails, Abort, Inv, Runs, Turn
  <2>2. \A s \in Request : RequestInv(s)'
    BY <1>1, <1>5, <2>1, UntouchedRequest DEF DataInv
  <2>3. QED
    BY <1>1, <1>5, <2>1, <2>2 DEF DataInv
<1>8. QED
  BY <1>6, <1>7

\* A job refers to pages that its chunk refers to.
LEMMA JobFacts ==
  ASSUME DataInv, NEW r \in Request, done[r] < Len(JobsToQueue(r))
  PROVE  ToSet(JobsToQueue(r)[done[r] + 1].refs) \subseteq DOMAIN pages
<1> DEFINE cs == req[r].chunks
           I == {i \in DOMAIN cs : ChunkTokens(cs[i]) >= Threshold(r) \div 2}
           worthIt == Pick(cs, I)
<1>1. /\ cs \in Seq(RAGChunk) /\ Paged(cs) /\ done[r] \in Nat
  BY DEF DataInv, RequestInv
<1>2. JobsToQueue(r) = IF Pressed(r) THEN [i \in DOMAIN worthIt |-> JobOf(r, worthIt[i])] ELSE << >>
  BY DEF JobsToQueue
<1> HIDE DEF I
<1>3. /\ worthIt \in Seq(RAGChunk)
      /\ \A k \in 1..Len(worthIt) : \E i \in 1..Len(cs) : worthIt[k] = cs[i]
  <2>1. cs \in Seq(RAGChunk)
    BY <1>1
  <2> HIDE DEF cs
  <2>2. QED
    BY <2>1, PickFacts
<1> HIDE DEF worthIt, cs
<1>4. PICK n \in Nat : n = Len(worthIt) /\ DOMAIN worthIt = 1..n
  BY <1>3, LenProperties
<1>5. JobsToQueue(r) = [i \in 1..n |-> JobOf(r, worthIt[i])]
  <2>1. JobsToQueue(r) # << >>
    BY <1>1
  <2>2. QED
    BY <1>2, <1>4, <2>1
<1>6. Len(JobsToQueue(r)) = n
  <2>1. JobsToQueue(r) \in [1..n -> {JobOf(r, worthIt[i]) : i \in 1..n}]
    BY <1>5
  <2>2. QED
    BY <2>1, FunctionIsSequence
<1>7. done[r] + 1 \in 1..n
  BY <1>1, <1>6
<1> DEFINE c == worthIt[done[r] + 1]
<1>8. JobsToQueue(r)[done[r] + 1].refs = NormalizeChunk(c).refs
  BY <1>5, <1>7 DEF JobOf
<1>9. PICK i \in 1..Len(cs) : c = cs[i]
  BY <1>3, <1>4, <1>7
<1>10. c \in RAGChunk
  BY <1>1, <1>9, ElementOfSeq
<1> HIDE DEF c
<1>11. ToSet(NormalizeChunk(c).refs) \subseteq ToSet(c.refs)
  BY <1>10, NormalizedChunk DEF Reworked
<1>12. ToSet(c.refs) \subseteq DOMAIN pages
  BY <1>1, <1>9 DEF Paged
<1>13. QED
  BY <1>8, <1>11, <1>12

\* A job more, or none if the call failed.
LEMMA EnqueueDataInv ==
  ASSUME Inv, DataInv, NEW r \in Request, Enqueue(r) \/ EnqueueFails(r)
  PROVE  DataInv'
<1> DEFINE job == JobsToQueue(r)[done[r] + 1]
<1>1. /\ done[r] < Len(JobsToQueue(r)) /\ Runs(r, "auto_compact_async")
      /\ UNCHANGED <<input, at, req, pages>>
  BY DEF Enqueue, EnqueueFails, Abort
<1>2. ToSet(job.refs) \subseteq DOMAIN pages
  BY <1>1, JobFacts
<1>3. jobs' \in {jobs, jobs \cup {job}}
  BY DEF Enqueue, EnqueueFails
<1> HIDE DEF job
<1>4. \A j \in jobs' : ToSet(j.refs) \subseteq DOMAIN pages
  BY <1>2, <1>3 DEF DataInv
<1>5. CASE Enqueue(r)
  <2>1. UNCHANGED status /\ done' = [done EXCEPT ![r] = @ + 1]
    BY <1>5 DEF Enqueue
  <2>2. \A s \in Request : RequestInv(s)'
    BY <1>1, <2>1, CallMade
  <2>3. done' \in [Request -> Nat]
    BY <2>1 DEF DataInv
  <2>4. QED
    BY <1>1, <1>4, <2>2, <2>3 DEF DataInv
<1>6. CASE EnqueueFails(r)
  <2>1. UNCHANGED done /\ \A s \in Request : status'[s] = "new" <=> status[s] = "new"
    BY <1>1, <1>6 DEF EnqueueFails, Abort, Inv, Runs, Turn
  <2>2. \A s \in Request : RequestInv(s)'
    BY <1>1, <2>1, UntouchedRequest DEF DataInv
  <2>3. QED
    BY <1>1, <1>4, <2>1, <2>2 DEF DataInv
<1>7. QED
  BY <1>5, <1>6

----------------------------------------------------------------------------
(* What the processors hand on *)

\* Processor p hands the request on as next: chunks that cite what the ones before
\* cited and refer to pages that are there, messages, and a prefix that only
\* prefix_cache makes.
Advances(r, p, next) ==
  /\ Turn(r, p) /\ HandOn(r, p, next) /\ DOMAIN next = Fields
  /\ next.chunks \in Seq(RAGChunk)
  /\ Covers(next.chunks, req[r].chunks) /\ Paged(next.chunks)
  /\ next.messages \in Seq(Message) /\ next.prompt \in Prompt
  /\ p = "prefix_cache" \/ next.prefix = req[r].prefix

\* Chunks that stand for others refer to pages that are there.
LEMMA StandInPaged ==
  ASSUME NEW ds, NEW cs, StandFor(ds, cs), Paged(cs)
  PROVE  ds \in Seq(RAGChunk) /\ Covers(ds, cs) /\ Paged(ds)
BY DEF StandFor, Refers, Paged

\* What a request holds.
LEMMA RequestFacts ==
  ASSUME Inv, DataInv, NEW r \in Request
  PROVE  /\ DOMAIN req[r] = Fields
         /\ req[r].chunks \in Seq(RAGChunk) /\ Paged(req[r].chunks)
         /\ req[r].messages \in Seq(Message) /\ req[r].prompt \in Prompt
         /\ StandFor(req[r].chunks, req[r].chunks)
         /\ Steps(r) \in Seq(Processor) /\ Len(Steps(r)) \in Nat
         /\ DOMAIN Steps(r) = 1..Len(Steps(r))
         /\ Policy(r).head \in Nat /\ Policy(r).tail \in Nat
<1>1. /\ DOMAIN req[r] = Fields
      /\ req[r].chunks \in Seq(RAGChunk) /\ Paged(req[r].chunks)
      /\ req[r].messages \in Seq(Message) /\ req[r].prompt \in Prompt
      /\ input[r] \in Input
  BY DEF Inv, DataInv, RequestInv
<1>2. /\ Steps(r) \in Seq(Processor)
      /\ Policy(r).head \in Nat /\ Policy(r).tail \in Nat
  BY <1>1, GivenFacts DEF Steps, Policy
<1>3. QED
  BY <1>1, <1>2, LenProperties, StandForReflexive

\* A processor that rewrites the chunks, or the chunks and the messages.
LEMMA RewriteAdvances ==
  ASSUME Inv, DataInv, NEW r \in Request, NEW p, Turn(r, p),
         NEW ds, StandFor(ds, req[r].chunks)
  PROVE  /\ Rewrite(r, p, ds) => \E next : Advances(r, p, next)
         /\ \A ms \in Seq(Message) :
              HandOn(r, p, Recounted([req[r] EXCEPT !.chunks = ds, !.messages = ms]))
                => \E next : Advances(r, p, next)
<1>1. /\ DOMAIN req[r] = Fields /\ Paged(req[r].chunks)
      /\ req[r].messages \in Seq(Message) /\ req[r].prompt \in Prompt
  BY RequestFacts
<1>2. ds \in Seq(RAGChunk) /\ Covers(ds, req[r].chunks) /\ Paged(ds)
  BY <1>1, StandInPaged
<1>3. ASSUME Rewrite(r, p, ds)
      PROVE  \E next : Advances(r, p, next)
  <2> DEFINE next == Recounted([req[r] EXCEPT !.chunks = ds])
  <2>1. /\ DOMAIN next = Fields /\ next.chunks = ds /\ next.messages = req[r].messages
        /\ next.prompt = req[r].prompt /\ next.prefix = req[r].prefix
    BY <1>1 DEF Recounted, Fields
  <2>2. HandOn(r, p, next)
    BY <1>3 DEF Rewrite
  <2> HIDE DEF next
  <2>3. Advances(r, p, next)
    BY <1>1, <1>2, <2>1, <2>2 DEF Advances
  <2>4. QED
    BY <2>3
<1>4. ASSUME NEW ms \in Seq(Message),
             HandOn(r, p, Recounted([req[r] EXCEPT !.chunks = ds, !.messages = ms]))
      PROVE  \E next : Advances(r, p, next)
  <2> DEFINE next == Recounted([req[r] EXCEPT !.chunks = ds, !.messages = ms])
  <2>1. /\ DOMAIN next = Fields /\ next.chunks = ds /\ next.messages = ms
        /\ next.prompt = req[r].prompt /\ next.prefix = req[r].prefix
    BY <1>1 DEF Recounted, Fields
  <2>2. HandOn(r, p, next)
    BY <1>4
  <2> HIDE DEF next
  <2>3. Advances(r, p, next)
    BY <1>1, <1>2, <1>4, <2>1, <2>2 DEF Advances
  <2>4. QED
    BY <2>3
<1>5. QED
  BY <1>3, <1>4

\* A processor that leaves the chunks and the messages alone.
LEMMA PlainAdvances ==
  ASSUME Inv, DataInv, NEW r \in Request, NEW p, NEW next, Turn(r, p), HandOn(r, p, next),
         DOMAIN next = Fields, next.chunks = req[r].chunks, next.messages = req[r].messages,
         next.prompt \in Prompt, p = "prefix_cache" \/ next.prefix = req[r].prefix
  PROVE  \E n : Advances(r, p, n)
<1>1. Advances(r, p, next)
  BY RequestFacts DEF Advances, StandFor
<1>2. QED
  BY <1>1

\* Paging is over when all pages of every large chunk are saved: the stubs that are
\* handed on refer to these.
LEMMA PagingAdvances ==
  ASSUME Inv, DataInv, NEW r \in Request, Paging(r)
  PROVE  \E next : Advances(r, "paging", next)
<1> DEFINE cs == req[r].chunks
           ds == FirstPages(cs)
           next == Recounted([req[r] EXCEPT !.chunks = ds])
<1>1. /\ cs \in Seq(RAGChunk) /\ Paged(cs) /\ DOMAIN req[r] = Fields
      /\ req[r].messages \in Seq(Message) /\ req[r].prompt \in Prompt
  BY RequestFacts
<1>2. /\ Turn(r, "paging") /\ ~Skips(r, "paging") /\ done[r] = Len(PagesToSave(r))
      /\ HandOn(r, "paging", next)
  BY DEF Paging, Runs, Rewrite
<1>3. PICK n \in Nat : n = Len(cs) /\ DOMAIN cs = 1..n /\ \A i \in 1..n : cs[i] \in RAGChunk
  BY <1>1, LenProperties, ElementOfSeq
<1>4. \A i \in 1..n : ds[i] = IF Oversized(cs[i]) THEN FirstPage(cs[i]) ELSE cs[i]
  BY <1>3 DEF FirstPages
<1>5. ds = [i \in DOMAIN cs |-> ds[i]]
  BY DEF FirstPages
<1>6. /\ DOMAIN next = Fields /\ next.chunks = ds /\ next.messages = req[r].messages
      /\ next.prompt = req[r].prompt /\ next.prefix = req[r].prefix
  BY <1>1 DEF Recounted, Fields
<1> HIDE DEF ds, next
<1>7. \A i \in 1..n : ds[i] \in RAGChunk /\ ds[i].sources = cs[i].sources
  BY <1>3, <1>4, FirstPageFacts
<1>8. ds \in Seq(RAGChunk) /\ Len(ds) = n
  BY <1>1, <1>3, <1>5, <1>7, MappedList
<1>9. Covers(ds, cs)
  BY <1>3, <1>7, <1>8 DEF Covers
<1>10. \A m \in 1..Len(PagesToSave(r)) : PagesToSave(r)[m].key \in DOMAIN pages
  <2> SUFFICES ASSUME NEW m \in 1..Len(PagesToSave(r))
               PROVE  PagesToSave(r)[m].key \in DOMAIN pages
    OBVIOUS
  <2>1. done[r] # 0 /\ m \in 1..done[r]
    <3>1. done[r] \in Nat
      BY DEF DataInv
    <3>2. QED
      BY <1>2, <3>1
  <2>2. Calls(r) /\ Steps(r)[at[r]] = "paging"
    BY <1>2, <2>1 DEF DataInv, RequestInv, Turn
  <2>3. QED
    BY <2>1, <2>2 DEF Calls
<1>11. Paged(ds)
  <2> SUFFICES ASSUME NEW i \in 1..n
               PROVE  ToSet(ds[i].refs) \subseteq DOMAIN pages
    BY <1>8 DEF Paged
  <2>1. CASE ~Oversized(cs[i])
    BY <1>1, <1>3, <1>4, <2>1 DEF Paged
  <2>2. CASE Oversized(cs[i])
    <3> DEFINE saved == PagesOf(cs[i])
    <3>1. cs[i] \in RAGChunk
      BY <1>3
    <3>2. PICK k \in Nat : k = Len(saved) /\ FirstPage(cs[i]).refs = [j \in 1..k |-> saved[j].key]
      BY <3>1, FirstPageFacts
    <3>3. \A j \in 1..k : \E m \in 1..Len(PagesToSave(r)) : PagesToSave(r)[m] = saved[j]
      <4>1. \A j \in 1..Len(saved) :
              \E m \in 1..Len(PagesToSave(r)) : PagesToSave(r)[m] = saved[j]
        BY <1>1, <1>3, <2>2, PagesToSaveFacts
      <4>2. QED
        BY <3>2, <4>1
    <3> HIDE DEF saved
    <3>4. \A j \in 1..k : saved[j].key \in DOMAIN pages
      BY <1>10, <3>3
    <3>5. ds[i].refs = [j \in 1..k |-> saved[j].key]
      BY <1>4, <2>2, <3>2
    <3>6. QED
      BY <3>4, <3>5 DEF ToSet
  <2>3. QED
    BY <2>1, <2>2
<1>12. Advances(r, "paging", next)
  BY <1>1, <1>2, <1>6, <1>8, <1>9, <1>11 DEF Advances
<1>13. QED
  BY <1>12

\* What snip makes of a request.
SnipSteps(upTo, q, in) ==
  LET chunks == q.chunks
      Fits(cs) == CountRequest([q EXCEPT !.chunks = cs]) <= in.budget
  IN  upTo = [n \in Nat |->
           IF n \notin DOMAIN chunks THEN chunks
           ELSE IF Fits(upTo[n - 1]) \/ ChunkTokens(chunks[n]) <= SnipMin
                THEN upTo[n - 1]
                ELSE [upTo[n - 1] EXCEPT ![n] = SnipChunk(@, in.policy.head, in.policy.tail)]]
Snippets(q, in) == (CHOOSE upTo : SnipSteps(upTo, q, in))[Len(q.chunks)]

\* All the lists of chunks that snip goes through.
LEMMA SnipStepsExist ==
  ASSUME NEW q, q.chunks \in Seq(RAGChunk), NEW in,
         in.policy.head \in Nat, in.policy.tail \in Nat
  PROVE  LET f == CHOOSE upTo : SnipSteps(upTo, q, in)
         IN  SnipSteps(f, q, in) /\ \A n \in 0..Len(q.chunks) : /\ StandFor(f[n], q.chunks)
                                                                /\ KeepsRefs(f[n], q.chunks)
<1> DEFINE cs == q.chunks
           Fits(ds) == CountRequest([q EXCEPT !.chunks = ds]) <= in.budget
           E(ds, n) == IF Fits(ds) \/ ChunkTokens(cs[n]) <= SnipMin THEN ds
                       ELSE [ds EXCEPT ![n] = SnipChunk(@, in.policy.head, in.policy.tail)]
           Ok(f) == f = [n \in Nat |-> IF n \notin DOMAIN cs THEN cs ELSE E(f[n - 1], n)]
           S == {ds \in Seq(RAGChunk) : StandFor(ds, cs) /\ KeepsRefs(ds, cs) /\ Len(ds) = Len(cs)}
<1>1. PICK m \in Nat : m = Len(cs) /\ DOMAIN cs = 1..m
  BY LenProperties
<1>2. ASSUME NEW ds \in S, NEW n \in 1..m
      PROVE  E(ds, n) \in S
  <2> DEFINE es == E(ds, n)
             snipped == SnipChunk(ds[n], in.policy.head, in.policy.tail)
  <2>1. /\ ds \in Seq(RAGChunk) /\ Len(ds) = m /\ DOMAIN ds = 1..m
        /\ \A i \in 1..m : ds[i] \in RAGChunk
    BY <1>1, LenProperties, ElementOfSeq
  <2>2. Reworked(snipped, ds[n])
    BY <2>1, SnippedChunk
  <2>3. es = ds \/ es = [ds EXCEPT ![n] = snipped]
    OBVIOUS
  <2> HIDE DEF es, snipped
  <2>4. CASE es = [ds EXCEPT ![n] = snipped]
    <3>1. es = [i \in DOMAIN ds |-> es[i]]
      BY <2>4
    <3>2. \A i \in 1..Len(ds) : Reworked(es[i], ds[i])
      BY <2>1, <2>2, <2>4 DEF Reworked
    <3>3. StandFor(es, ds) /\ KeepsRefs(es, ds) /\ Len(es) = Len(ds)
      BY <2>1, <3>1, <3>2, MappedChunks
    <3>4. StandFor(es, cs) /\ KeepsRefs(es, cs)
      BY <3>3, StandForTransitive, KeepsRefsTransitive
    <3>5. es \in S
      BY <1>1, <2>1, <3>3, <3>4 DEF StandFor
    <3>6. QED
      BY <3>5 DEF es
  <2>5. CASE es = ds
    BY <2>5 DEF es
  <2>6. QED
    BY <2>3, <2>4, <2>5
<1>3. cs \in S
  BY StandForReflexive DEF KeepsRefs
<1> HIDE DEF E, cs
<1> DEFINE G == [p \in S \X (1..m) |-> E(p[1], p[2])]
<1>4. G \in [S \X (1..m) -> S]
  <2> HIDE DEF S
  <2>1. QED
    BY <1>2
<1> HIDE DEF S
<1>5. PICK g \in [Nat -> S] : Recurs(g, cs, m, G)
  <2> HIDE DEF G
  <2>1. QED
    BY <1>3, <1>4, Recursion
<1>6. Ok(g)
  <2>1. \A n \in 1..m : G[<<g[n - 1], n>>] = E(g[n - 1], n)
    <3>1. \A n \in 1..m : g[n - 1] \in S
      BY <1>5
    <3>2. QED
      BY <3>1
  <2> HIDE DEF G
  <2>2. QED
    BY <1>1, <1>5, <2>1 DEF Recurs
<1>7. ASSUME NEW f
      PROVE  Ok(f) <=> SnipSteps(f, q, in)
  BY Zenon DEF SnipSteps, E, cs
<1> DEFINE h == CHOOSE upTo : SnipSteps(upTo, q, in)
<1>8. SnipSteps(h, q, in)
  BY <1>6, <1>7
<1> HIDE DEF h
<1>9. \A n \in Nat : h[n] = IF n \notin DOMAIN cs THEN cs ELSE E(h[n - 1], n)
  BY <1>7, <1>8
<1> HIDE DEF Ok
<1>10. h[0] \in S
  <2>1. 0 \in Nat /\ 0 \notin DOMAIN cs
    BY <1>1
  <2>2. QED
    BY <1>3, <1>9, <2>1
<1>11. \A n \in 1..m : h[n - 1] \in S => h[n] \in S
  <2> SUFFICES ASSUME NEW n \in 1..m, h[n - 1] \in S
               PROVE  h[n] \in S
    OBVIOUS
  <2>1. h[n] = E(h[n - 1], n)
    BY <1>1, <1>9
  <2>2. QED
    BY <1>2, <2>1
<1>12. \A n \in 0..m : h[n] \in S
  BY <1>10, <1>11, RecursionStays
<1>13. QED
  BY <1>1, <1>8, <1>12 DEF S, cs, h

\* Snip shortens one chunk after the other.
LEMMA SnippedChunks ==
  ASSUME Inv, DataInv, NEW r \in Request, Snip(r)
  PROVE  \E ds : Rewrite(r, "snip", ds) /\ StandFor(ds, req[r].chunks)
<1>1. PICK q, in : q = req[r] /\ in = input[r]
  OBVIOUS
<1>2. Rewrite(r, "snip", Snippets(q, in))
  <2>1. Rewrite(r, "snip", Snippets(req[r], input[r]))
    BY Zenon DEF Snip, Snippets, SnipSteps, Policy
  <2>2. QED
    BY <1>1, <2>1, Zenon
<1>3. /\ q.chunks \in Seq(RAGChunk) /\ Len(q.chunks) \in 0..Len(q.chunks)
      /\ in.policy.head \in Nat /\ in.policy.tail \in Nat
  BY <1>1, RequestFacts, LenProperties DEF Policy
<1>4. StandFor(Snippets(q, in), q.chunks)
  BY <1>3, SnipStepsExist DEF Snippets
<1>5. QED
  BY <1>1, <1>2, <1>4

\* A processor that rewrites its chunks one by one.
LEMMA MappingAdvances ==
  ASSUME Inv, DataInv, NEW r \in Request,
         \/ Compact(r) \/ Sanitize(r) \/ Canonicalize(r)
         \/ \E p \in DOMAIN Target : Transform(r, p)
  PROVE  \E p, next : Advances(r, p, next)
<1> DEFINE cs == req[r].chunks
           ms == req[r].messages
<1>1. /\ cs \in Seq(RAGChunk) /\ ms \in Seq(Message)
      /\ DOMAIN cs = 1..Len(cs) /\ \A i \in 1..Len(cs) : cs[i] \in RAGChunk
  BY RequestFacts, LenProperties, ElementOfSeq
<1>2. ASSUME NEW ds, ds = [i \in DOMAIN cs |-> ds[i]],
             \A i \in 1..Len(cs) : Reworked(ds[i], cs[i])
      PROVE  StandFor(ds, cs)
  <2> HIDE DEF cs
  <2>1. QED
    BY <1>1, <1>2, MappedChunks
<1>3. CASE Compact(r)
  <2> DEFINE ds == [i \in DOMAIN cs |-> CompactChunk(cs[i])]
  <2>1. StandFor(ds, cs)
    BY <1>1, <1>2, PlainRewrites
  <2>2. /\ Turn(r, "compact")
        /\ HandOn(r, "compact",
             Recounted([req[r] EXCEPT !.chunks = ds, !.messages = DenseMessages(ms)]))
    BY <1>3 DEF Compact, Runs
  <2> HIDE DEF ds
  <2>3. DenseMessages(ms) \in Seq(Message)
    BY <1>1, MessagesStay
  <2>4. QED
    BY <2>1, <2>2, <2>3, RewriteAdvances
<1>4. CASE Sanitize(r)
  <2> DEFINE ds == [i \in DOMAIN cs |-> SanitizeChunk(cs[i])]
  <2>1. StandFor(ds, cs)
    BY <1>1, <1>2, PlainRewrites
  <2>2. /\ Turn(r, "sanitize")
        /\ HandOn(r, "sanitize",
             Recounted([req[r] EXCEPT !.chunks = ds, !.messages = SanitizeMessages(ms)]))
    BY <1>4 DEF Sanitize, Runs
  <2> HIDE DEF ds
  <2>3. SanitizeMessages(ms) \in Seq(Message)
    BY <1>1, MessagesStay
  <2>4. QED
    BY <2>1, <2>2, <2>3, RewriteAdvances
<1>5. CASE Canonicalize(r)
  <2> DEFINE ds == [i \in DOMAIN cs |-> PreprocessChunk(cs[i])]
  <2>1. StandFor(ds, cs)
    BY <1>1, <1>2, PreprocessedChunk
  <2>2. /\ Turn(r, "canonicalize")
        /\ HandOn(r, "canonicalize",
             Recounted([req[r] EXCEPT !.chunks = StableChunks(ds), !.messages = OrderMessages(ms)]))
    BY <1>5 DEF Canonicalize, Runs
  <2> HIDE DEF ds
  <2>3. StandFor(StableChunks(ds), cs)
    BY <2>1, StableChunksFacts, StandForTransitive DEF StandFor
  <2>4. OrderMessages(ms) \in Seq(Message)
    BY <1>1, OrderedMessages
  <2>5. QED
    BY <2>2, <2>3, <2>4, RewriteAdvances
<1>6. CASE \E p \in DOMAIN Target : Transform(r, p)
  <2>1. PICK p \in DOMAIN Target : Transform(r, p)
    BY <1>6
  <2> DEFINE ds == [i \in DOMAIN cs |-> ReduceChunk(cs[i], Target[p])]
  <2>2. Target[p] \in {"json", "table", "code", "error-stack"}
    BY DEF Target
  <2>3. StandFor(ds, cs)
    BY <1>1, <1>2, <2>2, ReducedChunk
  <2>4. Turn(r, p) /\ Rewrite(r, p, ds)
    BY <2>1 DEF Transform, Runs
  <2> HIDE DEF ds
  <2>5. QED
    BY <2>3, <2>4, RewriteAdvances
<1>7. QED
  BY <1>3, <1>4, <1>5, <1>6

\* Every processor that runs hands the request on with what it needs.
LEMMA ProcessorsAdvance ==
  ASSUME Inv, DataInv, NEW r \in Request,
         \/ Paging(r) \/ Collapse(r) \/ Compact(r) \/ Sanitize(r) \/ Canonicalize(r)
         \/ \E p \in DOMAIN Target : Transform(r, p)
         \/ Snip(r) \/ AutoCompactSync(r) \/ AutoCompactAsync(r)
         \/ PrefixCache(r) \/ Assemble(r)
  PROVE  \E p, next : Advances(r, p, next)
<1> DEFINE cs == req[r].chunks
           ms == req[r].messages
<1>1. /\ DOMAIN req[r] = Fields
      /\ cs \in Seq(RAGChunk) /\ ms \in Seq(Message) /\ req[r].prompt \in Prompt
      /\ StandFor(cs, cs)
      /\ DOMAIN cs = 1..Len(cs) /\ \A i \in 1..Len(cs) : cs[i] \in RAGChunk
  BY RequestFacts, LenProperties, ElementOfSeq
<1>2. CASE Paging(r)
  BY <1>2, PagingAdvances
<1>3. CASE Collapse(r)
  <2>1. StandFor(CollapseChunks(cs), cs) /\ DenseMessages(ms) \in Seq(Message)
    BY <1>1, CollapsedChunks, MessagesStay
  <2>2. /\ Turn(r, "collapse")
        /\ HandOn(r, "collapse",
             Recounted([req[r] EXCEPT !.chunks = CollapseChunks(cs),
                                      !.messages = DenseMessages(ms)]))
    BY <1>3 DEF Collapse, Runs
  <2>3. QED
    BY <2>1, <2>2, RewriteAdvances
<1>4. CASE \/ Compact(r) \/ Sanitize(r) \/ Canonicalize(r)
           \/ \E p \in DOMAIN Target : Transform(r, p)
  BY <1>4, MappingAdvances
<1>5. CASE Snip(r)
  <2>1. Turn(r, "snip")
    BY <1>5 DEF Snip, Runs
  <2>2. PICK ds : Rewrite(r, "snip", ds) /\ StandFor(ds, cs)
    BY <1>5, SnippedChunks
  <2>3. QED
    BY <2>1, <2>2, RewriteAdvances
<1>6. CASE AutoCompactSync(r)
  <2> DEFINE ds == [i \in DOMAIN cs |-> SafeCompactChunk(cs[i])]
  <2>1. Turn(r, "auto_compact_sync")
    BY <1>6 DEF AutoCompactSync, Runs
  <2>2. \/ Rewrite(r, "auto_compact_sync", ds)
        \/ HandOn(r, "auto_compact_sync", req[r])
    BY <1>6 DEF AutoCompactSync
  <2>3. StandFor(ds, cs)
    <3>1. \A i \in 1..Len(cs) : Reworked(ds[i], cs[i])
      BY <1>1, SafelyCompacted
    <3>2. ds = [i \in DOMAIN cs |-> ds[i]]
      OBVIOUS
    <3> HIDE DEF ds, cs
    <3>3. QED
      BY <1>1, <3>1, <3>2, MappedChunks
  <2> HIDE DEF ds
  <2>4. QED
    BY <1>1, <2>1, <2>2, <2>3, RewriteAdvances, PlainAdvances
<1>7. CASE AutoCompactAsync(r)
  <2>1. PICK pending : HandOn(r, "auto_compact_async", [req[r] EXCEPT !.pending = pending])
    BY <1>7 DEF AutoCompactAsync
  <2> DEFINE next == [req[r] EXCEPT !.pending = pending]
  <2>2. /\ DOMAIN next = Fields /\ next.chunks = cs /\ next.messages = ms
        /\ next.prompt = req[r].prompt /\ next.prefix = req[r].prefix
    BY <1>1 DEF Fields
  <2>3. Turn(r, "auto_compact_async") /\ HandOn(r, "auto_compact_async", next)
    BY <1>7, <2>1 DEF AutoCompactAsync, Runs
  <2> HIDE DEF next
  <2>4. QED
    BY <1>1, <2>2, <2>3, PlainAdvances
<1>8. CASE PrefixCache(r)
  <2> DEFINE next == [req[r] EXCEPT !.prefix = PrefixOf(req[r])]
  <2>1. /\ DOMAIN next = Fields /\ next.chunks = cs /\ next.messages = ms
        /\ next.prompt = req[r].prompt
    BY <1>1 DEF Fields
  <2>2. Turn(r, "prefix_cache") /\ HandOn(r, "prefix_cache", next)
    BY <1>8 DEF PrefixCache, Runs
  <2> HIDE DEF next
  <2>3. QED
    BY <1>1, <2>1, <2>2, PlainAdvances
<1>9. CASE Assemble(r)
  <2> DEFINE next == Recounted([req[r] EXCEPT !.prompt = AssemblePrompt(cs, ms)])
  <2>1. /\ DOMAIN next = Fields /\ next.chunks = cs /\ next.messages = ms
        /\ next.prompt = AssemblePrompt(cs, ms) /\ next.prefix = req[r].prefix
    BY <1>1 DEF Recounted, Fields
  <2>2. Turn(r, "assemble") /\ HandOn(r, "assemble", next)
    BY <1>9 DEF Assemble, Runs
  <2>3. AssemblePrompt(cs, ms) \in Prompt
    BY <1>1, AssembledPrompt
  <2> HIDE DEF next
  <2>4. QED
    BY <1>1, <2>1, <2>2, <2>3, PlainAdvances
<1>10. QED
  BY <1>2, <1>3, <1>4, <1>5, <1>6, <1>7, <1>8, <1>9

----------------------------------------------------------------------------
(* The data invariant is inductive *)

\* A request that is handed on keeps its data in order.
LEMMA AdvanceDataInv ==
  ASSUME Inv, DataInv, NEW r \in Request, NEW p, NEW next, Advances(r, p, next)
  PROVE  DataInv'
<1> DEFINE audit == [name |-> p, before |-> req[r].tokens, after |-> next.tokens]
           booked == [next EXCEPT !.audits = Append(@, audit)]
<1>1. /\ req' = [req EXCEPT ![r] = booked] /\ at' = [at EXCEPT ![r] = @ + 1]
      /\ done' = [done EXCEPT ![r] = 0]
      /\ UNCHANGED <<input, status, pages, jobs>>
  BY DEF Advances, HandOn
<1>2. /\ booked.chunks = next.chunks /\ booked.messages = next.messages
      /\ booked.prompt = next.prompt /\ booked.prefix = next.prefix
  BY DEF Advances, Fields
<1> HIDE DEF booked
<1>3. /\ req'[r] = booked /\ at'[r] = at[r] + 1 /\ done'[r] = 0 /\ at[r] \in Nat \ {0}
      /\ at' \in [Request -> Nat \ {0}] /\ done' \in [Request -> Nat]
      /\ \A s \in Request \ {r} : req'[s] = req[s] /\ at'[s] = at[s] /\ done'[s] = done[s]
  BY <1>1 DEF Inv, DataInv
<1>4. \A s \in Request \ {r} : RequestInv(s)'
  BY <1>1, <1>3, UntouchedRequest DEF DataInv
<1>5. /\ status[r] = "running" /\ at[r] <= Len(Steps(r)) /\ Steps(r)[at[r]] = p
      /\ Len(Steps(r)) \in Nat /\ DOMAIN Steps(r) = 1..Len(Steps(r))
  BY RequestFacts DEF Advances, Turn
<1>6. Steps(r)' = Steps(r) /\ Given(r)' = Given(r)
  BY <1>1 DEF Steps, Policy, Given
<1>7. Covers(next.chunks, Given(r))
  <2>1. Covers(next.chunks, req[r].chunks) /\ Covers(req[r].chunks, Given(r))
    BY DEF Advances, DataInv, RequestInv
  <2>2. QED
    BY <2>1, CoversTransitive
<1>8. next.prefix # NoPrefix => "prefix_cache" \in ToSet(Steps(r))
  <2>1. CASE p = "prefix_cache"
    <3>1. at[r] \in DOMAIN Steps(r)
      BY <1>3, <1>5
    <3>2. QED
      BY <1>5, <2>1, <3>1 DEF ToSet
  <2>2. CASE next.prefix = req[r].prefix
    BY <2>2 DEF DataInv, RequestInv
  <2>3. QED
    BY <2>1, <2>2 DEF Advances
<1>9. Paged(next.chunks)'
  <2>1. DOMAIN pages' = DOMAIN pages
    BY <1>1
  <2>2. \A i \in 1..Len(next.chunks) : ToSet(next.chunks[i].refs) \subseteq DOMAIN pages'
    BY <2>1 DEF Advances, Paged
  <2>3. QED
    BY <1>1, <1>2, <1>3, <2>2 DEF Paged
<1>10. RequestInv(r)'
  BY <1>1, <1>2, <1>3, <1>5, <1>6, <1>7, <1>8, <1>9 DEF RequestInv, Advances, Paged
<1>11. QED
  BY <1>1, <1>3, <1>4, <1>10 DEF DataInv

\* No processor is skipped in the midst of its calls.
LEMMA SkipDataInv ==
  ASSUME Inv, DataInv, NEW r \in Request, Skip(r)
  PROVE  DataInv'
<1>1. PICK p : Turn(r, p) /\ Skips(r, p)
  BY DEF Skip
<1>2. /\ at' = [at EXCEPT ![r] = @ + 1]
      /\ UNCHANGED <<input, status, done, req, pages, jobs>>
  BY DEF Skip
<1>3. /\ at'[r] = at[r] + 1 /\ at[r] \in Nat \ {0} /\ at' \in [Request -> Nat \ {0}]
      /\ \A s \in Request \ {r} : at'[s] = at[s]
  BY <1>2 DEF DataInv
<1>4. RequestInv(r) /\ at[r] <= Len(Steps(r)) /\ Steps(r)[at[r]] = p /\ Len(Steps(r)) \in Nat
  BY <1>1, RequestFacts DEF DataInv, Turn
<1>5. done[r] = 0
  BY <1>1, <1>4 DEF RequestInv, Calls
<1>6. Steps(r)' = Steps(r) /\ Given(r)' = Given(r)
  BY <1>2 DEF Steps, Policy, Given
<1>7. Paged(req[r].chunks)'
  BY <1>2, <1>4 DEF RequestInv, Paged
<1>8. RequestInv(r)'
  BY <1>2, <1>3, <1>4, <1>5, <1>6, <1>7 DEF RequestInv
<1>9. \A s \in Request \ {r} : RequestInv(s)'
  BY <1>2, <1>3, UntouchedRequest DEF DataInv
<1>10. QED
  BY <1>2, <1>3, <1>8, <1>9 DEF DataInv

\* Nothing is called before the first processor or after the last one, and neither
\* end of the pipeline touches chunks or messages.
LEMMA EndsDataInv ==
  ASSUME Inv, DataInv, NEW r \in Request, Accept(r) \/ Respond(r)
  PROVE  DataInv'
<1> DEFINE n == CountRequest(req[r])
           prompt == AssemblePrompt(req[r].chunks, req[r].messages)
           q == IF status[r] = "new" THEN [req[r] EXCEPT !.tokens = n, !.inputTokens = n]
                ELSE IF req[r].prompt # None THEN req[r]
                ELSE Recounted([req[r] EXCEPT !.prompt = prompt])
<1>1. /\ UNCHANGED <<input, at, done, pages, jobs>>
      /\ status[r] \in {"new", "running"} /\ DOMAIN req[r] = Fields
      /\ RequestInv(r) /\ done[r] \in Nat /\ at[r] \in Nat
      /\ Len(Steps(r)) \in Nat
  BY RequestFacts DEF Accept, Respond, Inv, DataInv
<1>2. req' = [req EXCEPT ![r] = q]
  <2>1. CASE Accept(r)
    BY <1>1, <2>1 DEF Accept, Inv, Fields
  <2>2. CASE Respond(r)
    BY <2>2 DEF Respond
  <2>3. QED
    BY <2>1, <2>2
<1>3. prompt \in Prompt
  BY <1>1, AssembledPrompt DEF RequestInv
<1>4. /\ q.chunks = req[r].chunks /\ q.messages = req[r].messages
      /\ q.prefix = req[r].prefix /\ q.prompt \in Prompt
  BY <1>1, <1>3 DEF Fields, Recounted, RequestInv
<1> HIDE DEF q
<1>5. /\ req'[r] = q /\ status'[r] # "new"
      /\ \A s \in Request \ {r} : req'[s] = req[s] /\ status'[s] = status[s]
  BY <1>1, <1>2 DEF Inv, Accept, Respond
<1>6. done[r] = 0
  BY <1>1 DEF Accept, Respond, RequestInv, Calls
<1>7. Steps(r)' = Steps(r) /\ Given(r)' = Given(r)
  BY <1>1 DEF Steps, Policy, Given
<1>8. RequestInv(r)'
  BY <1>1, <1>4, <1>5, <1>6, <1>7 DEF RequestInv, Paged
<1>9. \A s \in Request \ {r} : RequestInv(s)'
  BY <1>1, <1>5, UntouchedRequest DEF DataInv
<1>10. QED
  BY <1>1, <1>8, <1>9 DEF DataInv

\* A failed call ends the request and leaves its data alone.
LEMMA PrefixCacheFailsDataInv ==
  ASSUME Inv, DataInv, NEW r \in Request, PrefixCacheFails(r)
  PROVE  DataInv'
<1>1. /\ UNCHANGED <<input, at, done, req, pages, jobs>>
      /\ \A s \in Request : status'[s] = "new" <=> status[s] = "new"
  BY DEF PrefixCacheFails, Abort, Runs, Turn, Inv
<1>2. \A s \in Request : RequestInv(s)'
  BY <1>1, UntouchedRequest DEF DataInv
<1>3. QED
  BY <1>1, <1>2 DEF DataInv

\* Every step of every request keeps the data in order.
LEMMA DataInductive == Inv /\ DataInv /\ [Next]_vars => DataInv'
<1> SUFFICES ASSUME Inv, DataInv, [Next]_vars PROVE DataInv'
  OBVIOUS
<1>1. CASE UNCHANGED vars
  <2>1. \A s \in Request : RequestInv(s)'
    BY <1>1, UntouchedRequest DEF DataInv, vars
  <2>2. QED
    BY <1>1, <2>1 DEF DataInv, vars
<1>2. ASSUME NEW r \in Request, Step(r)
      PROVE  DataInv'
  <2>1. CASE Accept(r) \/ Respond(r)
    BY <2>1, EndsDataInv
  <2>2. CASE Skip(r)
    BY <2>2, SkipDataInv
  <2>3. CASE PageOut(r) \/ PageOutFails(r)
    BY <2>3, PageOutDataInv
  <2>4. CASE Enqueue(r) \/ EnqueueFails(r)
    BY <2>4, EnqueueDataInv
  <2>5. CASE PrefixCacheFails(r)
    BY <2>5, PrefixCacheFailsDataInv
  <2>6. CASE \/ Paging(r) \/ Collapse(r) \/ Compact(r) \/ Sanitize(r) \/ Canonicalize(r)
             \/ \E p \in DOMAIN Target : Transform(r, p)
             \/ Snip(r) \/ AutoCompactSync(r) \/ AutoCompactAsync(r)
             \/ PrefixCache(r) \/ Assemble(r)
    BY <2>6, ProcessorsAdvance, AdvanceDataInv
  <2>7. QED
    BY <1>2, <2>1, <2>2, <2>3, <2>4, <2>5, <2>6 DEF Step, Fails
<1>3. QED
  BY <1>1, <1>2 DEF Next

\* The data of every request keep their types, and so do the pages, whatever
\* processors rewrite them in whatever order; calls are counted for the processor that
\* makes them, and the prefix is made by prefix_cache.
THEOREM TypesAreKept == Spec => []TypeOK
<1>1. Inv /\ DataInv => TypeOK
  <2> SUFFICES ASSUME Inv, DataInv PROVE TypeOK
    OBVIOUS
  <2>1. ASSUME NEW r \in Request
        PROVE  req[r].tokens \in Nat
    <3>1. CASE status[r] = "new"
      BY <3>1 DEF DataInv, RequestInv
    <3>2. CASE status[r] # "new"
      <4>1. req[r].tokens = CountRequest(req[r])
        BY <3>2 DEF Inv
      <4>2. /\ req[r].prompt \in Prompt
            /\ AssemblePrompt(req[r].chunks, req[r].messages) \in Prompt
        BY RequestFacts, AssembledPrompt
      <4>3. CountRequest(req[r]) \in Nat
        BY <4>2, TokensAreNat DEF CountRequest
      <4>4. QED
        BY <4>1, <4>3
    <3>3. QED
      BY <3>1, <3>2
  <2>2. QED
    BY <2>1 DEF TypeOK, Inv, DataInv, RequestInv, Calls
<1>2. QED
  BY <1>1, InitInv, Inductive, InitDataInv, DataInductive, PTL DEF Spec

\* A page key is handed on only once its page is saved: no response and no summary job
\* ever refers to a page that is not there, whatever calls of this or another request
\* fail half-way (PagingProcessor.Process, SavePage; pages do not expire in this module,
\* their time is PageStore's matter).
THEOREM NoPageIsMissing == Spec => []RefsArePaged
<1>1. Inv /\ DataInv => RefsArePaged
  <2> SUFFICES ASSUME Inv, DataInv, NEW r \in Request, NEW i \in DOMAIN req[r].chunks
               PROVE  ToSet(req[r].chunks[i].refs) \subseteq DOMAIN pages
    BY DEF RefsArePaged, Referred, DataInv
  <2>1. i \in 1..Len(req[r].chunks)
    BY RequestFacts, LenProperties
  <2>2. QED
    BY <2>1, RequestFacts DEF Paged
<1>2. QED
  BY <1>1, InitInv, Inductive, InitDataInv, DataInductive, PTL DEF Spec

\* A chunk of a gRPC request has all the sources that it was sent with.
LEMMA GrpcSourcesFacts ==
  ASSUME NEW item \in SentChunk
  PROVE  /\ Folds(item.sources) \subseteq Folds(GrpcSources(item))
         /\ Folds(item.sources) = {} => Folds(<<item.source>>) \subseteq Folds(GrpcSources(item))
<1>1. CASE ToSet(item.sources) \subseteq {NoSource}
  <2>1. Folds(item.sources) = {} /\ GrpcSources(item) = <<item.source>>
    BY <1>1 DEF Folds, GrpcSources
  <2>2. QED
    BY <2>1
<1>2. CASE ~(ToSet(item.sources) \subseteq {NoSource})
  <2>1. GrpcSources(item) = item.sources
    BY <1>2 DEF GrpcSources
  <2>2. Folds(item.sources) # {}
    BY <1>2 DEF Folds
  <2>3. QED
    BY <2>1, <2>2
<1>3. QED
  BY <1>1, <1>2

\* A chunk of an HTTP request has the one source that it was sent with.
LEMMA HttpSourcesFacts ==
  ASSUME NEW item \in SentChunk, NEW i, item.sources = << >>
  PROVE  /\ Folds(item.sources) = {}
         /\ Folds(<<item.source>>) \subseteq Folds(HttpChunk(item, i).sources)
<1>1. ToSet(<< >>) = {} /\ ToSet(<<item.source>>) = {item.source}
  BY DEF ToSet
<1>2. Folds(item.sources) = {}
  BY <1>1 DEF Folds
<1>3. CASE item.source = NoSource
  BY <1>1, <1>2, <1>3 DEF Folds
<1>4. CASE item.source # NoSource
  BY <1>2, <1>4 DEF HttpChunk
<1>5. QED
  BY <1>3, <1>4

\* What an item that was sent cites is cited by a chunk that the pipeline is given.
LEMMA ItemsAreChunks ==
  ASSUME NEW in \in Input, NEW item \in ToSet(ItemsOf(in.sent))
  PROVE  \E k \in 1..Len(in.chunks) :
           /\ Folds(item.sources) \subseteq Folds(in.chunks[k].sources)
           /\ Folds(item.sources) = {} =>
                Folds(<<item.source>>) \subseteq Folds(in.chunks[k].sources)
<1>1. PICK sent \in Sent : in = Received(sent)
  BY AcceptedAssumption DEF Accepted
<1>2. in.sent = sent
  BY <1>1 DEF Received
<1>3. PICK rag \in Seq(SentChunk) : rag = sent.rag
  BY SentAssumption
<1>4. PICK n \in Nat : n = Len(rag) /\ DOMAIN rag = 1..n /\ \A i \in 1..n : rag[i] \in SentChunk
  BY LenProperties, ElementOfSeq
<1>5. CASE sent.via = "http"
  <2>1. PICK I : I = {i \in DOMAIN rag : Says(rag[i])}
    OBVIOUS
  <2>2. PICK all : all = [i \in 1..n |-> HttpChunk(rag[i], i)]
    OBVIOUS
  <2>3. PICK S : S = {HttpChunk(rag[i], i) : i \in 1..n}
    OBVIOUS
  <2>4. all \in Seq(S) /\ Len(all) = n
    <3>1. all \in [1..n -> S]
      BY <2>2, <2>3
    <3>2. QED
      BY <3>1, FunctionIsSequence
  <2>5. ItemsOf(in.sent) = Pick(rag, I) /\ in.chunks = Pick(all, I)
    <3>1. ItemsOf(sent) = Pick(rag, I)
      BY <1>3, <1>5, <2>1 DEF ItemsOf
    <3>2. in.chunks = HttpChunks(rag)
      BY <1>1, <1>3, <1>5 DEF Received
    <3>3. QED
      BY <1>2, <1>4, <2>1, <2>2, <3>1, <3>2 DEF HttpChunks
  <2>6. PICK i \in 1..n : i \in I /\ item = rag[i]
    <3>1. PICK items : items = Pick(rag, I)
      OBVIOUS
    <3>2. /\ items \in Seq(SentChunk)
          /\ \A k \in 1..Len(items) : \E i \in 1..Len(rag) : i \in I /\ items[k] = rag[i]
      <4>1. rag \in Seq(SentChunk)
        OBVIOUS
      <4>2. /\ Pick(rag, I) \in Seq(SentChunk)
            /\ \A k \in 1..Len(Pick(rag, I)) :
                 \E i \in 1..Len(rag) : i \in I /\ Pick(rag, I)[k] = rag[i]
        BY <4>1, PickFacts
      <4>3. QED
        BY <3>1, <4>2
    <3>3. DOMAIN items = 1..Len(items)
      BY <3>2, LenProperties
    <3>4. PICK k \in 1..Len(items) : item = items[k]
      BY <2>5, <3>1, <3>3 DEF ToSet
    <3>5. QED
      BY <1>4, <3>2, <3>4
  <2>7. PICK k \in 1..Len(in.chunks) : in.chunks[k] = all[i]
    <3>1. \A j \in 1..Len(all) : j \in I => \E k \in 1..Len(Pick(all, I)) : Pick(all, I)[k] = all[j]
      <4>1. all \in Seq(S)
        BY <2>4
      <4>2. QED
        BY <4>1, PickFacts
    <3>2. QED
      BY <2>4, <2>5, <2>6, <3>1
  <2>8. in.chunks[k] = HttpChunk(item, i)
    BY <2>2, <2>6, <2>7
  <2>9. item \in SentChunk /\ item.sources = << >>
    BY <1>3, <1>4, <1>5, <2>6, SentAssumption
  <2>10. QED
    BY <2>8, <2>9, HttpSourcesFacts
<1>6. CASE sent.via # "http"
  <2>1. ItemsOf(in.sent) = rag /\ in.chunks = [i \in 1..n |-> GrpcChunk(rag[i])]
    BY <1>1, <1>2, <1>3, <1>4, <1>6 DEF ItemsOf, Received
  <2>2. Len(in.chunks) = n
    <3>1. in.chunks \in [1..n -> {GrpcChunk(rag[i]) : i \in 1..n}]
      BY <2>1
    <3>2. QED
      BY <3>1, FunctionIsSequence
  <2>3. PICK k \in 1..n : item = rag[k]
    BY <1>4, <2>1 DEF ToSet
  <2>4. in.chunks[k].sources = GrpcSources(item)
    BY <2>1, <2>3 DEF GrpcChunk
  <2>5. QED
    BY <1>4, <2>2, <2>3, <2>4, GrpcSourcesFacts
<1>7. QED
  BY <1>5, <1>6

\* The chunks of a reply cite what those of the request do.
LEMMA ReplyCites ==
  ASSUME NEW r, req[r].chunks \in Seq(RAGChunk), NEW k \in 1..Len(req[r].chunks)
  PROVE  \E o \in ToSet(Reply(r).rag) : o.sources = req[r].chunks[k].sources
<1>1. PICK cs \in Seq(RAGChunk) : cs = req[r].chunks
  OBVIOUS
<1>2. Reply(r).rag = TrimmedChunks(cs)
  BY <1>1 DEF Reply
<1>3. k \in DOMAIN cs
  BY <1>1, LenProperties
<1>4. TrimmedChunks(cs)[k].sources = cs[k].sources /\ k \in DOMAIN TrimmedChunks(cs)
  BY <1>3 DEF TrimmedChunks
<1>5. QED
  BY <1>1, <1>2, <1>4 DEF ToSet

\* Whatever processors ran, and however duplicates were merged, no evidence loses its
\* origin: the sources of every item that was sent, its list or else its one source, are
\* together on a chunk of the reply, up to their spelling (mapProtoSources, StableSources,
\* collapse; PreserveCitation of every descriptor).
THEOREM NoCitationIsLost == Spec => []CitationsAreKept
<1>1. Inv /\ DataInv => CitationsAreKept
  <2> SUFFICES ASSUME Inv, DataInv, NEW r \in Request, NEW item \in ToSet(ItemsOf(input[r].sent))
               PROVE  \E o \in ToSet(Reply(r).rag) :
                        /\ Folds(item.sources) \subseteq Folds(o.sources)
                        /\ Folds(item.sources) = {} =>
                             Folds(<<item.source>>) \subseteq Folds(o.sources)
    BY DEF CitationsAreKept
  <2>1. PICK in \in Input : in = input[r]
    BY DEF DataInv
  <2>2. req[r].chunks \in Seq(RAGChunk) /\ Covers(req[r].chunks, StableChunks(in.chunks))
    BY <2>1 DEF DataInv, RequestInv, Given, MapRequest
  <2>3. Covers(req[r].chunks, in.chunks)
    <3>1. Covers(StableChunks(in.chunks), in.chunks)
      BY GivenFacts DEF StandFor
    <3>2. QED
      BY <2>2, <3>1, CoversTransitive
  <2>4. PICK j \in 1..Len(in.chunks) :
          /\ Folds(item.sources) \subseteq Folds(in.chunks[j].sources)
          /\ Folds(item.sources) = {} =>
               Folds(<<item.source>>) \subseteq Folds(in.chunks[j].sources)
    BY <2>1, ItemsAreChunks
  <2>5. PICK k \in 1..Len(req[r].chunks) :
          Folds(in.chunks[j].sources) \subseteq Folds(req[r].chunks[k].sources)
    BY <2>3 DEF Covers
  <2>6. PICK o \in ToSet(Reply(r).rag) : o.sources = req[r].chunks[k].sources
    BY <2>2, ReplyCites
  <2>7. QED
    BY <2>4, <2>5, <2>6
<1>2. QED
  BY <1>1, InitInv, Inductive, InitDataInv, DataInductive, PTL DEF Spec

----------------------------------------------------------------------------
(* Requests that talk alike *)

\* Two lists are related by R element by element.
Related(R, s, t) == Len(s) = Len(t) /\ \A k \in 1..Len(s) : <<s[k], t[k]>> \in R

\* Lines that the processors tell apart from others alike, and those of them that are
\* the same up to identifiers.
Lookalikes == {w \in Line \X Line : /\ w[1] = Blank <=> w[2] = Blank
                                    /\ w[1] \in Markup <=> w[2] \in Markup}
Synonyms == {w \in Lookalikes : Stable(w[1]) = Stable(w[2])}

\* Messages of the same role whose lines are related by L.
Messages(L) == {w \in Message \X Message : /\ w[1].role = w[2].role
                                           /\ Related(L, w[1].text, w[2].text)}

\* SameTalk, in these terms.
Talk(ms, ns) ==
  /\ \A system \in BOOLEAN : Related(Messages(Synonyms), Past(ms, system), Past(ns, system))
  /\ Related(Messages(Lookalikes), Latest(ms), Latest(ns))

\* PickRelated for what is picked.
LEMMA RelatedPicks ==
  ASSUME NEW S, NEW s \in Seq(S), NEW T, NEW t \in Seq(T), NEW I, NEW R,
         Len(t) <= Len(s),
         \A i \in 1..Len(s) : i \in I => i <= Len(t) /\ <<s[i], t[i]>> \in R
  PROVE  Related(R, Pick(s, I), Pick(t, I))
<1>1. /\ Len(Pick(s, I)) = Len(Pick(t, I))
      /\ \A k \in 1..Len(Pick(s, I)) : <<Pick(s, I)[k], Pick(t, I)[k]>> \in R
  BY PickRelated
<1>2. QED
  BY <1>1 DEF Related

\* A processor that drops blank lines or markup drops related lines of related texts.
LEMMA RelatedTexts ==
  ASSUME NEW t \in Text, NEW u \in Text, NEW L \in {Lookalikes, Synonyms}, Related(L, t, u)
  PROVE  Related(L, Dense(t), Dense(u)) /\ Related(L, RichText(t), RichText(u))
<1>1. \A w \in L : (w[1] = Blank <=> w[2] = Blank) /\ (w[1] \in Markup <=> w[2] \in Markup)
  BY DEF Lookalikes, Synonyms
<1>2. PICK n \in Nat : n = Len(t) /\ n = Len(u) /\ DOMAIN t = 1..n /\ DOMAIN u = 1..n
  BY TextFacts DEF Related
<1>3. \A k \in 1..n : <<t[k], u[k]>> \in L
  BY <1>2 DEF Related
<1>4. \A k \in 1..n : (t[k] = Blank <=> u[k] = Blank) /\ (t[k] \in Markup <=> u[k] \in Markup)
  BY <1>1, <1>3
<1> DEFINE I == {i \in DOMAIN t : t[i] # Blank}
           J == {i \in DOMAIN t : t[i] \notin Markup}
<1>5. I = {i \in DOMAIN u : u[i] # Blank} /\ J = {i \in DOMAIN u : u[i] \notin Markup}
  BY <1>2, <1>4
<1>6. Dense(t) = Pick(t, I) /\ RichText(t) = Pick(t, J)
  BY DEF Dense, RichText
<1>7. Dense(u) = Pick(u, I) /\ RichText(u) = Pick(u, J)
  BY <1>5 DEF Dense, RichText
<1> HIDE DEF I, J
<1>8. t \in Seq(Line) /\ u \in Seq(Line)
  BY DEF Text, Line
<1>9. Related(L, Pick(t, I), Pick(u, I)) /\ Related(L, Pick(t, J), Pick(u, J))
  BY <1>2, <1>3, <1>8, RelatedPicks
<1>10. QED
  BY <1>6, <1>7, <1>9

\* Related messages stay so.
LEMMA RelatedMessages ==
  ASSUME NEW L \in {Lookalikes, Synonyms}, NEW m \in Message, NEW n \in Message,
         <<m, n>> \in Messages(L)
  PROVE  /\ <<[m EXCEPT !.text = Dense(@)], [n EXCEPT !.text = Dense(@)]>> \in Messages(L)
         /\ <<[m EXCEPT !.text = RichText(@)], [n EXCEPT !.text = RichText(@)]>> \in Messages(L)
<1>1. m.role = n.role /\ Related(L, m.text, n.text)
  BY DEF Messages
<1>2. m.text \in Text /\ n.text \in Text
  BY MessageFacts
<1>3. Related(L, Dense(m.text), Dense(n.text)) /\ Related(L, RichText(m.text), RichText(n.text))
  BY <1>1, <1>2, RelatedTexts
<1>4. /\ Dense(m.text) \in Text /\ Dense(n.text) \in Text
      /\ RichText(m.text) \in Text /\ RichText(n.text) \in Text
  BY <1>2, TextFacts DEF Dense, RichText
<1>5. ASSUME NEW t \in Text, NEW u \in Text, Related(L, t, u)
      PROVE  <<[m EXCEPT !.text = t], [n EXCEPT !.text = u]>> \in Messages(L)
  <2>1. /\ [m EXCEPT !.text = t] \in Message /\ [n EXCEPT !.text = u] \in Message
    BY MessageFacts
  <2>2. /\ [m EXCEPT !.text = t].role = m.role /\ [n EXCEPT !.text = u].role = n.role
        /\ [m EXCEPT !.text = t].text = t /\ [n EXCEPT !.text = u].text = u
    BY DEF Message
  <2>3. QED
    BY <1>1, <1>5, <2>1, <2>2 DEF Messages
<1>6. QED
  BY <1>3, <1>4, <1>5

\* Synonymous messages are the same but for their identifiers.
LEMMA SynonymousMessages ==
  ASSUME NEW m \in Message, NEW n \in Message, <<m, n>> \in Messages(Synonyms)
  PROVE  NormalMessage(m) = NormalMessage(n)
<1> DEFINE t == [i \in DOMAIN m.text |-> Stable(m.text[i])]
           u == [i \in DOMAIN n.text |-> Stable(n.text[i])]
<1>1. m.role = n.role /\ Related(Synonyms, m.text, n.text)
  BY DEF Messages
<1>2. PICK l \in Nat : /\ l = Len(m.text) /\ l = Len(n.text)
                       /\ DOMAIN m.text = 1..l /\ DOMAIN n.text = 1..l
  BY <1>1, MessageFacts, TextFacts DEF Related
<1>3. \A i \in 1..l : Stable(m.text[i]) = Stable(n.text[i])
  BY <1>1, <1>2 DEF Related, Synonyms
<1>4. t = u
  BY <1>2, <1>3
<1> HIDE DEF t, u
<1>5. [m EXCEPT !.text = t] = [n EXCEPT !.text = u]
  BY <1>1, <1>4 DEF Message
<1>6. QED
  BY <1>5 DEF NormalMessage, t, u

\* Everything is related to itself.
LEMMA RelatedToItself ==
  ASSUME NEW m \in Message
  PROVE  <<m, m>> \in Messages(Synonyms) /\ <<m, m>> \in Messages(Lookalikes)
<1>1. m.text \in Text /\ DOMAIN m.text = 1..Len(m.text) /\ \A i \in 1..Len(m.text) : m.text[i] \in Line
  BY MessageFacts, TextFacts
<1>2. \A x \in Line : <<x, x>> \in Synonyms /\ <<x, x>> \in Lookalikes
  BY DEF Synonyms, Lookalikes
<1>3. Related(Synonyms, m.text, m.text) /\ Related(Lookalikes, m.text, m.text)
  BY <1>1, <1>2 DEF Related
<1>4. QED
  BY <1>3 DEF Messages

\* What is done to the messages one by one is done to those of the past.
LEMMA PastRelated ==
  ASSUME NEW ms \in Seq(Message), NEW ns \in Seq(Message), Len(ms) = Len(ns), NEW R,
         \A i \in 1..(Len(ms) - 1) : ms[i].role = ns[i].role /\ <<ms[i], ns[i]>> \in R,
         NEW system \in BOOLEAN
  PROVE  Related(R, Past(ms, system), Past(ns, system))
<1> DEFINE I == {i \in 1..(Len(ms) - 1) : (ms[i].role = "system") = system}
<1>1. Len(ms) \in Nat
  BY LenProperties
<1>2. I = {i \in 1..(Len(ns) - 1) : (ns[i].role = "system") = system}
  BY Zenon
<1>3. Past(ms, system) = Pick(ms, I) /\ Past(ns, system) = Pick(ns, I)
  BY <1>2 DEF Past
<1>4. \A i \in 1..Len(ms) : i \in I => i <= Len(ns) /\ <<ms[i], ns[i]>> \in R
  BY <1>1
<1> HIDE DEF I
<1>5. QED
  BY <1>1, <1>3, <1>4, RelatedPicks

\* The messages of the past are messages.
LEMMA PastFacts ==
  ASSUME NEW ms \in Seq(Message), NEW system \in BOOLEAN
  PROVE  /\ Past(ms, system) \in Seq(Message) /\ Latest(ms) \in Seq(Message)
         /\ ms = << >> <=> Latest(ms) = << >>
         /\ ms # << >> => /\ Len(ms) \in Nat \ {0} /\ Latest(ms) = <<ms[Len(ms)]>>
                          /\ ms[Len(ms)] \in Message
<1>1. Past(ms, system) \in Seq(Message)
  BY PickFacts DEF Past
<1>2. ms # << >> => Len(ms) \in Nat \ {0} /\ ms[Len(ms)] \in Message
  BY EmptySeq, LenProperties, ElementOfSeq
<1>3. ms # << >> => Latest(ms) = <<ms[Len(ms)]>>
  BY DEF Latest, Last
<1>4. ms = << >> => Latest(ms) = << >>
  BY DEF Latest
<1>5. << >> \in Seq(Message) /\ \A m \in Message : <<m>> \in Seq(Message) /\ <<m>> # << >>
  BY EmptySeq
<1>6. QED
  BY <1>1, <1>2, <1>3, <1>4, <1>5

\* If a rewriting by G keeps messages related, it keeps lists of them so.
LEMMA RelatedThrough ==
  ASSUME NEW R, NEW s, NEW t, Related(R, s, t), NEW x, NEW y, NEW G,
         Related(G, s, x), Related(G, t, y),
         \A a, b, c, d : <<a, b>> \in R /\ <<a, c>> \in G /\ <<b, d>> \in G => <<c, d>> \in R
  PROVE  Related(R, x, y)
<1>1. Len(x) = Len(y) /\ Len(x) = Len(s) /\ Len(s) = Len(t)
  BY DEF Related
<1>2. \A k \in 1..Len(x) : <<s[k], t[k]>> \in R /\ <<s[k], x[k]>> \in G /\ <<t[k], y[k]>> \in G
  BY <1>1 DEF Related
<1>3. QED
  BY <1>1, <1>2 DEF Related

\* Lists of one element.
LEMMA RelatedOnes ==
  ASSUME NEW R, NEW a, NEW b
  PROVE  Related(R, <<a>>, <<b>>) <=> <<a, b>> \in R
<1>1. Len(<<a>>) = 1 /\ Len(<<b>>) = 1 /\ <<a>>[1] = a /\ <<b>>[1] = b
  OBVIOUS
<1>2. QED
  BY <1>1 DEF Related

\* White space and markup.
Densely == {w \in Message \X Message : w[2] = [w[1] EXCEPT !.text = Dense(@)]}
Richly == {w \in Message \X Message : w[2] = [w[1] EXCEPT !.text = RichText(@)]}

\* They keep messages related: as much is dropped of the one as of the other.
LEMMA RewritesKeepRelations ==
  ASSUME NEW L \in {Lookalikes, Synonyms}, NEW G \in {Densely, Richly},
         NEW a, NEW b, NEW c, NEW d,
         <<a, b>> \in Messages(L), <<a, c>> \in G, <<b, d>> \in G
  PROVE  <<c, d>> \in Messages(L)
<1>1. a \in Message /\ b \in Message
  BY DEF Messages
<1>2. CASE G = Densely
  <2>1. c = [a EXCEPT !.text = Dense(@)] /\ d = [b EXCEPT !.text = Dense(@)]
    BY <1>2 DEF Densely
  <2>2. QED
    BY <1>1, <2>1, RelatedMessages
<1>3. CASE G = Richly
  <2>1. c = [a EXCEPT !.text = RichText(@)] /\ d = [b EXCEPT !.text = RichText(@)]
    BY <1>3 DEF Richly
  <2>2. QED
    BY <1>1, <2>1, RelatedMessages
<1>4. QED
  BY <1>2, <1>3

\* Talk stays the same when the messages before the last are rewritten by G, and the last
\* one as the other.
LEMMA TalkThrough ==
  ASSUME NEW ms \in Seq(Message), NEW ns \in Seq(Message), Talk(ms, ns),
         NEW x \in Seq(Message), NEW y \in Seq(Message), Len(x) = Len(ms), Len(y) = Len(ns),
         NEW G \in {Densely, Richly},
         \A i \in 1..(Len(ms) - 1) : <<ms[i], x[i]>> \in G,
         \A i \in 1..(Len(ns) - 1) : <<ns[i], y[i]>> \in G,
         ms # << >> /\ ns # << >> =>
           <<x[Len(ms)], y[Len(ns)]>> \in Messages(Lookalikes)
  PROVE  Talk(x, y)
<1>1. \A a, b, c, d : <<a, b>> \in Messages(Synonyms) /\ <<a, c>> \in G /\ <<b, d>> \in G
                        => <<c, d>> \in Messages(Synonyms)
  BY RewritesKeepRelations
<1>2. \A m, n : <<m, n>> \in G => m.role = n.role
  <2> SUFFICES ASSUME NEW m, NEW n, <<m, n>> \in G PROVE m.role = n.role
    OBVIOUS
  <2>1. /\ m \in Message
        /\ n = [m EXCEPT !.text = Dense(@)] \/ n = [m EXCEPT !.text = RichText(@)]
    <3>1. CASE G = Densely
      BY <3>1 DEF Densely
    <3>2. CASE G = Richly
      BY <3>2 DEF Richly
    <3>3. QED
      BY <3>1, <3>2
  <2>2. QED
    BY <2>1 DEF Message
<1>3. ASSUME NEW system \in BOOLEAN
      PROVE  Related(Messages(Synonyms), Past(x, system), Past(y, system))
  <2>1. Related(G, Past(ms, system), Past(x, system))
    BY <1>2, PastRelated
  <2>2. Related(G, Past(ns, system), Past(y, system))
    BY <1>2, PastRelated
  <2>3. Related(Messages(Synonyms), Past(ms, system), Past(ns, system))
    BY DEF Talk
  <2>4. QED
    BY <1>1, <2>1, <2>2, <2>3, RelatedThrough
<1>4. Len(Latest(ms)) = Len(Latest(ns))
  BY DEF Talk, Related
<1>5. ms = << >> <=> ns = << >>
  <2>1. \A l \in Seq(Message) : l = << >> <=> Len(l) = 0
    BY EmptySeq
  <2>2. QED
    BY <1>4, <2>1, PastFacts
<1>6. (x = << >> <=> ms = << >>) /\ (y = << >> <=> ns = << >>)
  BY EmptySeq
<1>7. Related(Messages(Lookalikes), Latest(x), Latest(y))
  <2>1. CASE ms = << >>
    <3>1. Latest(x) = << >> /\ Latest(y) = << >> /\ Len(<< >>) = 0
      BY <1>5, <1>6, <2>1, PastFacts
    <3>2. QED
      BY <3>1 DEF Related
  <2>2. CASE ms # << >>
    <3>1. Latest(x) = <<x[Len(ms)]>> /\ Latest(y) = <<y[Len(ns)]>>
      BY <1>5, <1>6, <2>2, PastFacts
    <3>2. <<x[Len(ms)], y[Len(ns)]>> \in Messages(Lookalikes)
      BY <1>5, <2>2
    <3>3. QED
      BY <3>1, <3>2, RelatedOnes
  <2>3. QED
    BY <2>1, <2>2
<1>8. QED
  BY <1>3, <1>7 DEF Talk

\* The last messages of lists that talk alike.
LEMMA TalkLast ==
  ASSUME NEW ms \in Seq(Message), NEW ns \in Seq(Message), Talk(ms, ns)
  PROVE  /\ ms = << >> <=> ns = << >>
         /\ ms # << >> => <<ms[Len(ms)], ns[Len(ns)]>> \in Messages(Lookalikes)
<1>1. Related(Messages(Lookalikes), Latest(ms), Latest(ns))
  BY DEF Talk
<1>2. \A l \in Seq(Message) : l = << >> <=> Len(l) = 0
  BY EmptySeq
<1>3. ms = << >> <=> ns = << >>
  BY <1>1, <1>2, PastFacts DEF Related
<1>4. ASSUME ms # << >>
      PROVE  <<ms[Len(ms)], ns[Len(ns)]>> \in Messages(Lookalikes)
  <2>1. Latest(ms) = <<ms[Len(ms)]>> /\ Latest(ns) = <<ns[Len(ns)]>>
    BY <1>3, <1>4, PastFacts
  <2>2. QED
    BY <1>1, <2>1, RelatedOnes
<1>5. QED
  BY <1>3, <1>4

\* White space of messages, and their markup.
LEMMA TalkStays ==
  ASSUME NEW ms \in Seq(Message), NEW ns \in Seq(Message), Talk(ms, ns)
  PROVE  /\ Talk(DenseMessages(ms), DenseMessages(ns))
         /\ Talk(SanitizeMessages(ms), SanitizeMessages(ns))
<1>1. ASSUME NEW l \in Seq(Message)
      PROVE  LET d == DenseMessages(l)
                 s == SanitizeMessages(l)
             IN  /\ d \in Seq(Message) /\ Len(d) = Len(l)
                 /\ s \in Seq(Message) /\ Len(s) = Len(l)
                 /\ \A i \in 1..Len(l) : <<l[i], d[i]>> \in Densely
                 /\ \A i \in 1..Len(l) :
                      IF i = Len(l) /\ l[i].role # "system" THEN s[i] = l[i]
                      ELSE <<l[i], s[i]>> \in Richly
  <2> DEFINE d == DenseMessages(l)
             s == SanitizeMessages(l)
  <2>1. d \in Seq(Message) /\ s \in Seq(Message)
    BY MessagesStay
  <2>2. PICK n \in Nat : n = Len(l) /\ DOMAIN l = 1..n /\ \A i \in 1..n : l[i] \in Message
    BY LenProperties, ElementOfSeq
  <2>3. DOMAIN d = 1..n /\ \A i \in 1..n : d[i] = [l[i] EXCEPT !.text = Dense(@)]
    BY <2>2 DEF DenseMessages
  <2>4. DOMAIN s = 1..n
        /\ \A i \in 1..n : s[i] = IF i = n /\ l[i].role # "system" THEN l[i]
                                  ELSE [l[i] EXCEPT !.text = RichText(@)]
    BY <2>2 DEF SanitizeMessages
  <2> HIDE DEF d, s
  <2>5. Len(d) = n /\ Len(s) = n
    BY <2>1, <2>2, <2>3, <2>4, LenProperties
  <2>6. \A i \in 1..n : d[i] \in Message /\ s[i] \in Message
    BY <2>1, <2>5, ElementOfSeq
  <2>7. \A i \in 1..n : <<l[i], d[i]>> \in Densely
    BY <2>2, <2>3, <2>6 DEF Densely
  <2>8. \A i \in 1..n : IF i = n /\ l[i].role # "system" THEN s[i] = l[i]
                        ELSE <<l[i], s[i]>> \in Richly
    BY <2>2, <2>4, <2>6 DEF Richly
  <2>9. QED
    BY <2>1, <2>2, <2>5, <2>7, <2>8 DEF d, s
<1>2. /\ ms = << >> <=> ns = << >>
      /\ ms # << >> => /\ <<ms[Len(ms)], ns[Len(ns)]>> \in Messages(Lookalikes)
                       /\ Len(ms) \in 1..Len(ms) /\ Len(ns) \in 1..Len(ns)
  <2>1. \A l \in Seq(Message) : l # << >> => Len(l) \in 1..Len(l)
    BY PastFacts
  <2>2. QED
    BY <2>1, TalkLast
<1>3. Talk(DenseMessages(ms), DenseMessages(ns))
  <2> DEFINE x == DenseMessages(ms)
             y == DenseMessages(ns)
  <2>1. /\ x \in Seq(Message) /\ y \in Seq(Message) /\ Len(x) = Len(ms) /\ Len(y) = Len(ns)
        /\ \A i \in 1..Len(ms) : <<ms[i], x[i]>> \in Densely
        /\ \A i \in 1..Len(ns) : <<ns[i], y[i]>> \in Densely
    BY <1>1
  <2> HIDE DEF x, y
  <2>2. ms # << >> /\ ns # << >> => <<x[Len(ms)], y[Len(ns)]>> \in Messages(Lookalikes)
    <3>1. ASSUME ms # << >>, ns # << >>
          PROVE  <<ms[Len(ms)], x[Len(ms)]>> \in Densely /\ <<ns[Len(ns)], y[Len(ns)]>> \in Densely
      BY <1>2, <2>1, <3>1, Zenon
    <3>2. QED
      BY <1>2, <3>1, RewritesKeepRelations
  <2>3. Len(ms) \in Nat /\ Len(ns) \in Nat
    BY LenProperties
  <2>4. /\ \A i \in 1..(Len(ms) - 1) : <<ms[i], x[i]>> \in Densely
        /\ \A i \in 1..(Len(ns) - 1) : <<ns[i], y[i]>> \in Densely
    BY <2>1, <2>3
  <2>5. Talk(x, y)
    BY <2>1, <2>2, <2>4, TalkThrough
  <2>6. QED
    BY <2>5 DEF x, y
<1>4. Talk(SanitizeMessages(ms), SanitizeMessages(ns))
  <2> DEFINE x == SanitizeMessages(ms)
             y == SanitizeMessages(ns)
  <2>1. /\ x \in Seq(Message) /\ y \in Seq(Message) /\ Len(x) = Len(ms) /\ Len(y) = Len(ns)
        /\ \A i \in 1..Len(ms) : IF i = Len(ms) /\ ms[i].role # "system" THEN x[i] = ms[i]
                                 ELSE <<ms[i], x[i]>> \in Richly
        /\ \A i \in 1..Len(ns) : IF i = Len(ns) /\ ns[i].role # "system" THEN y[i] = ns[i]
                                 ELSE <<ns[i], y[i]>> \in Richly
    BY <1>1
  <2> HIDE DEF x, y
  <2>2. ASSUME ms # << >>, ns # << >>
        PROVE  <<x[Len(ms)], y[Len(ns)]>> \in Messages(Lookalikes)
    <3>1. ms[Len(ms)].role = ns[Len(ns)].role
      BY <1>2, <2>2 DEF Messages
    <3>2. CASE ms[Len(ms)].role = "system"
      <4>1. <<ms[Len(ms)], x[Len(ms)]>> \in Richly /\ <<ns[Len(ns)], y[Len(ns)]>> \in Richly
        <5>1. /\ Len(ms) \in 1..Len(ms) /\ Len(ns) \in 1..Len(ns)
              /\ ~(ms[Len(ms)].role # "system") /\ ~(ns[Len(ns)].role # "system")
          BY <1>2, <2>2, <3>1, <3>2
        <5>2. QED
          BY <2>1, <5>1, Zenon
      <4>2. QED
        BY <1>2, <2>2, <4>1, RewritesKeepRelations
    <3>3. CASE ms[Len(ms)].role # "system"
      <4>1. /\ Len(ms) \in 1..Len(ms) /\ Len(ns) \in 1..Len(ns)
            /\ ms[Len(ms)].role # "system" /\ ns[Len(ns)].role # "system"
        BY <1>2, <2>2, <3>1, <3>3
      <4>2. x[Len(ms)] = ms[Len(ms)] /\ y[Len(ns)] = ns[Len(ns)]
        BY <2>1, <4>1, Zenon
      <4>3. QED
        BY <1>2, <2>2, <4>2
    <3>4. QED
      BY <3>2, <3>3
  <2>3. Len(ms) \in Nat /\ Len(ns) \in Nat
    BY LenProperties
  <2>4. /\ \A i \in 1..(Len(ms) - 1) : <<ms[i], x[i]>> \in Richly
        /\ \A i \in 1..(Len(ns) - 1) : <<ns[i], y[i]>> \in Richly
    BY <2>1, <2>3
  <2>5. Talk(x, y)
    BY <2>1, <2>2, <2>4, TalkThrough
  <2>6. QED
    BY <2>5 DEF x, y
<1>5. QED
  BY <1>3, <1>4

\* The segments are the normalised messages of the past, and the latest message.
LEMMA SegmentsOfPast ==
  ASSUME NEW ms \in Seq(Message)
  PROVE  LET s == Segments(ms)
             R == {w \in Message \X Message : w[2] = NormalMessage(w[1])}
         IN  /\ Related(R, Past(ms, TRUE), s.system)
             /\ Related(R, Past(ms, FALSE), s.memory)
             /\ s.active = Latest(ms)
<1> DEFINE s == Segments(ms)
           R == {w \in Message \X Message : w[2] = NormalMessage(w[1])}
<1>1. PICK n \in Nat : n = Len(ms) /\ \A i \in 1..n : ms[i] \in Message
  BY LenProperties, ElementOfSeq
<1>2. CASE ms = << >>
  <2>1. n = 0
    BY <1>1, <1>2, EmptySeq
  <2>2. s = [system |-> << >>, memory |-> << >>, active |-> << >>]
    BY <1>1, <2>1 DEF Segments
  <2>3. \A system \in BOOLEAN : Len(Past(ms, system)) = 0
    <3> SUFFICES ASSUME NEW system \in BOOLEAN PROVE Len(Past(ms, system)) = 0
      OBVIOUS
    <3>1. Len(Past(ms, system)) <= Len(ms)
      BY PickFacts DEF Past
    <3>2. Len(Past(ms, system)) \in Nat
      BY PastFacts, LenProperties
    <3>3. QED
      BY <1>1, <2>1, <3>1, <3>2
  <2>4. Latest(ms) = << >> /\ Len(<< >>) = 0
    BY <1>2 DEF Latest
  <2> HIDE DEF s, R
  <2>5. s.system = << >> /\ s.memory = << >> /\ s.active = << >>
    BY <2>2
  <2>6. Related(R, Past(ms, TRUE), s.system) /\ Related(R, Past(ms, FALSE), s.memory)
    <3>1. Len(Past(ms, TRUE)) = 0 /\ Len(Past(ms, FALSE)) = 0
      BY <2>3, Zenon
    <3>2. \A x : Len(x) = 0 => Related(R, x, << >>)
      BY <2>4 DEF Related
    <3>3. QED
      BY <2>5, <3>1, <3>2, Zenon
  <2>7. QED
    BY <2>4, <2>5, <2>6 DEF s, R
<1>3. CASE ms # << >>
  <2> DEFINE stable == [i \in 1..(n - 1) |-> NormalMessage(ms[i])]
             I == {i \in DOMAIN stable : stable[i].role = "system"}
             J == {i \in DOMAIN stable : stable[i].role # "system"}
  <2>1. n \in Nat \ {0} /\ Latest(ms) = <<ms[n]>>
    BY <1>1, <1>3, PastFacts
  <2>2. s = [system |-> Pick(stable, I), memory |-> Pick(stable, J), active |-> <<ms[n]>>]
    BY <1>1, <2>1 DEF Segments
  <2>3. stable \in Seq(Message) /\ Len(stable) = n - 1 /\ DOMAIN stable = 1..(n - 1)
    <3>1. stable \in [1..(n - 1) -> Message] /\ n - 1 \in Nat
      BY <1>1, <2>1, NormalMessageFacts
    <3> HIDE DEF stable
    <3>2. QED
      BY <3>1, FunctionIsSequence
  <2>4. \A i \in 1..(n - 1) :
          stable[i] = NormalMessage(ms[i]) /\ stable[i] \in Message /\ stable[i].role = ms[i].role
    <3> SUFFICES ASSUME NEW i \in 1..(n - 1)
                 PROVE  stable[i] = NormalMessage(ms[i]) /\ stable[i] \in Message
                          /\ stable[i].role = ms[i].role
      OBVIOUS
    <3>1. stable[i] = NormalMessage(ms[i]) /\ ms[i] \in Message
      BY <1>1, <2>1
    <3>2. QED
      BY <3>1, NormalMessageFacts DEF NormalMessage, Message
  <2> HIDE DEF stable
  <2>5. /\ I = {i \in 1..(Len(ms) - 1) : (ms[i].role = "system") = TRUE}
        /\ J = {i \in 1..(Len(ms) - 1) : (ms[i].role = "system") = FALSE}
    BY <1>1, <2>3, <2>4
  <2>6. Past(ms, TRUE) = Pick(ms, I) /\ Past(ms, FALSE) = Pick(ms, J)
    BY <2>5 DEF Past
  <2>7. \A i \in 1..Len(ms) : i \in I \/ i \in J => i <= Len(stable) /\ <<ms[i], stable[i]>> \in R
    <3>1. \A i \in 1..(n - 1) : ms[i] \in Message
      BY <1>1
    <3>2. \A i \in 1..(n - 1) : <<ms[i], stable[i]>> \in R
      BY <2>4, <3>1
    <3> HIDE DEF R
    <3>3. QED
      BY <2>3, <3>2
  <2>8. Len(stable) <= Len(ms)
    BY <1>1, <2>3
  <2> HIDE DEF s, I, J, R
  <2>9. Related(R, Pick(ms, I), Pick(stable, I)) /\ Related(R, Pick(ms, J), Pick(stable, J))
    BY <2>3, <2>7, <2>8, RelatedPicks
  <2>10. /\ s.system = Pick(stable, I) /\ s.memory = Pick(stable, J) /\ s.active = <<ms[n]>>
    BY <2>2
  <2>11. QED
    BY <2>1, <2>6, <2>9, <2>10 DEF s, R
<1>4. QED
  BY <1>2, <1>3

\* Those who talk alike have the same history.
LEMMA SameSegments ==
  ASSUME NEW ms \in Seq(Message), NEW ns \in Seq(Message), Talk(ms, ns)
  PROVE  LET s == Segments(ms)
             t == Segments(ns)
         IN  /\ s.system = t.system /\ s.memory = t.memory
             /\ Related(Messages(Lookalikes), s.active, t.active)
<1> DEFINE s == Segments(ms)
           t == Segments(ns)
           R == {w \in Message \X Message : w[2] = NormalMessage(w[1])}
<1>1. /\ Related(R, Past(ms, TRUE), s.system) /\ Related(R, Past(ms, FALSE), s.memory)
      /\ s.active = Latest(ms)
  BY SegmentsOfPast
<1>2. /\ Related(R, Past(ns, TRUE), t.system) /\ Related(R, Past(ns, FALSE), t.memory)
      /\ t.active = Latest(ns)
  BY SegmentsOfPast
<1>3. \A a, b, c, d : <<a, b>> \in Messages(Synonyms) /\ <<a, c>> \in R /\ <<b, d>> \in R => c = d
  <2> SUFFICES ASSUME NEW a, NEW b, NEW c, NEW d, <<a, b>> \in Messages(Synonyms),
                      <<a, c>> \in R, <<b, d>> \in R
               PROVE  c = d
    OBVIOUS
  <2>1. a \in Message /\ b \in Message /\ c = NormalMessage(a) /\ d = NormalMessage(b)
    OBVIOUS
  <2>2. QED
    BY <2>1, SynonymousMessages
<1> HIDE DEF R
<1>4. ASSUME NEW x, NEW y, Related(Messages(Synonyms), x, y),
             NEW u \in Seq(Message), NEW v \in Seq(Message), Related(R, x, u), Related(R, y, v)
      PROVE  u = v
  <2>1. Len(u) = Len(v) /\ \A k \in 1..Len(u) : u[k] = v[k]
    BY <1>3, <1>4 DEF Related
  <2>2. QED
    BY <2>1, SameList
<1>5. /\ Related(Messages(Synonyms), Past(ms, TRUE), Past(ns, TRUE))
      /\ Related(Messages(Synonyms), Past(ms, FALSE), Past(ns, FALSE))
      /\ Related(Messages(Lookalikes), Latest(ms), Latest(ns))
  BY DEF Talk
<1>6. /\ s.system \in Seq(Message) /\ s.memory \in Seq(Message)
      /\ t.system \in Seq(Message) /\ t.memory \in Seq(Message)
  BY SegmentsFacts
<1> HIDE DEF s, t
<1>7. s.system = t.system
  BY <1>1, <1>2, <1>4, <1>5, <1>6
<1>8. s.memory = t.memory
  BY <1>1, <1>2, <1>4, <1>5, <1>6
<1>9. QED
  BY <1>1, <1>2, <1>5, <1>7, <1>8 DEF s, t

\* The order of messages that talk alike.
LEMMA TalkOrdered ==
  ASSUME NEW ms \in Seq(Message), NEW ns \in Seq(Message), Talk(ms, ns)
  PROVE  Talk(OrderMessages(ms), OrderMessages(ns))
<1> DEFINE s == Segments(ms)
           t == Segments(ns)
           x == OrderMessages(ms)
           y == OrderMessages(ns)
<1>1. PICK past : past = s.system \o s.memory /\ past = t.system \o t.memory
  BY SameSegments
<1>2. past \in Seq(Message)
  BY <1>1, SegmentsFacts, ConcatProperties
<1>3. x = past \o s.active /\ y = past \o t.active
  BY <1>1 DEF OrderMessages
<1>4. /\ s.active = Latest(ms) /\ t.active = Latest(ns)
      /\ x \in Seq(Message) /\ y \in Seq(Message)
  BY SegmentsOfPast, OrderedMessages
<1>5. \A m \in Message : <<m, m>> \in Messages(Synonyms) /\ <<m, m>> \in Messages(Lookalikes)
  BY RelatedToItself
<1>6. ms = << >> <=> ns = << >>
  BY TalkLast
<1> HIDE DEF s, t, x, y
<1>7. PICK l \in Nat : l = Len(past) /\ \A i \in 1..l : past[i] \in Message
  BY <1>2, LenProperties, ElementOfSeq
<1>8. CASE ms = << >>
  <2>1. x = y
    BY <1>3, <1>4, <1>6, <1>8, PastFacts
  <2>2. \A i \in 1..Len(x) : x[i] \in Message
    BY <1>4, ElementOfSeq
  <2>3. ASSUME NEW system \in BOOLEAN
        PROVE  Related(Messages(Synonyms), Past(x, system), Past(y, system))
    <3>1. Past(x, system) \in Seq(Message)
      BY <1>4, PastFacts
    <3>2. \A k \in 1..Len(Past(x, system)) : Past(x, system)[k] \in Message
      BY <3>1, ElementOfSeq
    <3>3. QED
      BY <1>5, <2>1, <3>2 DEF Related
  <2>4. Related(Messages(Lookalikes), Latest(x), Latest(y))
    <3>1. Latest(x) \in Seq(Message)
      BY <1>4, PastFacts
    <3>2. \A k \in 1..Len(Latest(x)) : Latest(x)[k] \in Message
      BY <3>1, ElementOfSeq
    <3>3. QED
      BY <1>5, <2>1, <3>2 DEF Related
  <2>5. QED
    BY <2>3, <2>4 DEF Talk, x, y
<1>9. CASE ms # << >>
  <2>1. PICK a \in Message, b \in Message :
          /\ s.active = <<a>> /\ t.active = <<b>> /\ <<a, b>> \in Messages(Lookalikes)
    <3>1. /\ Latest(ms) = <<ms[Len(ms)]>> /\ ms[Len(ms)] \in Message
          /\ Latest(ns) = <<ns[Len(ns)]>> /\ ns[Len(ns)] \in Message
      BY <1>6, <1>9, PastFacts
    <3>2. <<ms[Len(ms)], ns[Len(ns)]>> \in Messages(Lookalikes)
      BY <1>9, TalkLast
    <3>3. QED
      BY <1>4, <3>1, <3>2, Zenon
  <2>2. x = Append(past, a) /\ y = Append(past, b)
    BY <1>2, <1>3, <2>1
  <2>3. /\ Len(x) = l + 1 /\ Len(y) = l + 1 /\ x[l + 1] = a /\ y[l + 1] = b
        /\ \A i \in 1..l : x[i] = past[i] /\ y[i] = past[i]
    BY <1>2, <1>7, <2>2, AppendProperties
  <2>4. \A i \in 1..l : x[i].role = y[i].role /\ <<x[i], y[i]>> \in Messages(Synonyms)
    BY <1>5, <1>7, <2>3
  <2>5. \A system \in BOOLEAN : Related(Messages(Synonyms), Past(x, system), Past(y, system))
    BY <1>4, <1>7, <2>3, <2>4, PastRelated
  <2>6. Latest(x) = <<a>> /\ Latest(y) = <<b>>
    <3>1. x # << >> /\ y # << >>
      BY <1>4, <1>7, <2>3, EmptySeq
    <3>2. QED
      BY <1>4, <2>3, <3>1, PastFacts
  <2>7. Related(Messages(Lookalikes), Latest(x), Latest(y))
    BY <2>1, <2>6, RelatedOnes
  <2>8. QED
    BY <2>5, <2>7 DEF Talk, x, y
<1>10. QED
  BY <1>8, <1>9

----------------------------------------------------------------------------
(* Requests that are alike *)

\* Prompts that are the same but for the words of the active turn.
Echo(p, q) ==
  /\ p.rag = q.rag /\ p.memory = q.memory
  /\ Related(Messages(Lookalikes), p.active, q.active)

\* Of the same chunks, and messages that talk alike, the prompts echo each other.
LEMMA AssembledEcho ==
  ASSUME NEW cs, NEW ms \in Seq(Message), NEW ns \in Seq(Message), Talk(ms, ns)
  PROVE  Echo(AssemblePrompt(cs, ms), AssemblePrompt(cs, ns))
<1> DEFINE s == Segments(ms)
           t == Segments(ns)
           p == AssemblePrompt(cs, ms)
           q == AssemblePrompt(cs, ns)
<1>1. /\ s.system = t.system /\ s.memory = t.memory
      /\ Related(Messages(Lookalikes), s.active, t.active)
  BY SameSegments
<1>2. /\ p = [rag |-> RenderChunks(cs), memory |-> s.system \o s.memory, active |-> s.active]
      /\ q = [rag |-> RenderChunks(cs), memory |-> t.system \o t.memory, active |-> t.active]
  BY DEF AssemblePrompt
<1> HIDE DEF s, t, p, q
<1>3. /\ p.rag = q.rag /\ p.memory = q.memory /\ p.active = s.active /\ q.active = t.active
  BY <1>1, <1>2
<1>4. Echo(p, q)
  BY <1>1, <1>3 DEF Echo
<1>5. QED
  BY <1>4 DEF p, q

\* Echoes are as long, and both there or not.
LEMMA EchoFacts ==
  ASSUME NEW p \in Prompt, NEW q \in Prompt, Echo(p, q)
  PROVE  PromptTokens(p) = PromptTokens(q) /\ (p = None <=> q = None)
<1> DEFINE Lengths(ms) == [i \in DOMAIN ms |-> 1 + Len(ms[i].text)]
           Rag(r) == Total([i \in DOMAIN r.rag |->
                              Len(r.rag[i].sources) + Len(r.rag[i].text)])
<1>1. p.active \in Seq(Message) /\ q.active \in Seq(Message)
  BY DEF Prompt
<1>2. PICK n \in Nat : /\ n = Len(p.active) /\ n = Len(q.active)
                       /\ DOMAIN p.active = 1..n /\ DOMAIN q.active = 1..n
  BY <1>1, LenProperties DEF Echo, Related
<1>3. \A i \in 1..n : Len(p.active[i].text) = Len(q.active[i].text)
  BY <1>2 DEF Echo, Related, Messages
<1>4. Lengths(p.active) = Lengths(q.active)
  BY <1>2, <1>3
<1>5. p.rag = q.rag /\ p.memory = q.memory
  BY DEF Echo
<1>6. /\ PromptTokens(p) = Rag(p) + Total(Lengths(p.memory)) + Total(Lengths(p.active))
      /\ PromptTokens(q) = Rag(q) + Total(Lengths(q.memory)) + Total(Lengths(q.active))
  BY DEF PromptTokens
<1>7. Rag(p) = Rag(q)
  BY <1>5
<1> HIDE DEF Rag, Lengths
<1>8. PromptTokens(p) = PromptTokens(q)
  BY <1>4, <1>5, <1>6, <1>7
<1>9. p.active = << >> <=> q.active = << >>
  BY <1>1, <1>2, EmptySeq
<1>10. \A r \in Prompt : r = None <=> r.rag = << >> /\ r.memory = << >> /\ r.active = << >>
  BY DEF Prompt, None
<1>11. QED
  BY <1>5, <1>8, <1>9, <1>10

\* What a request has on its way that its processors look at.
Held(q) ==
  /\ DOMAIN q = Fields
  /\ q.chunks \in Seq(RAGChunk) /\ q.messages \in Seq(Message) /\ q.prompt \in Prompt
  /\ q.tokens = CountRequest(q)

\* Two requests that differ in the words of the active turn at most.
Alike(v, w) ==
  /\ v.chunks = w.chunks /\ Talk(v.messages, w.messages) /\ Echo(v.prompt, w.prompt)
  /\ v.prefix = w.prefix /\ v.tokens = w.tokens

\* Requests with the same chunks, and messages and prompts that echo each other, have as
\* many tokens.
LEMMA AlikeCount ==
  ASSUME NEW v, NEW w, v.chunks = w.chunks, v.chunks \in Seq(RAGChunk),
         v.messages \in Seq(Message), w.messages \in Seq(Message), Talk(v.messages, w.messages),
         v.prompt \in Prompt, w.prompt \in Prompt, Echo(v.prompt, w.prompt)
  PROVE  CountRequest(v) = CountRequest(w)
<1>1. v.prompt = None <=> w.prompt = None
  BY EchoFacts
<1>2. PromptTokens(v.prompt) = PromptTokens(w.prompt)
  BY EchoFacts
<1>3. PromptTokens(AssemblePrompt(v.chunks, v.messages))
        = PromptTokens(AssemblePrompt(v.chunks, w.messages))
  BY AssembledEcho, AssembledPrompt, EchoFacts
<1>4. QED
  BY <1>1, <1>2, <1>3 DEF CountRequest

\* So they have when the chunks of both are replaced, as snip does to see what fits.
LEMMA AlikeCountWith ==
  ASSUME NEW v, NEW w, Held(v), Held(w), Alike(v, w), NEW cs \in Seq(RAGChunk)
  PROVE  CountRequest([v EXCEPT !.chunks = cs]) = CountRequest([w EXCEPT !.chunks = cs])
<1> DEFINE x == [v EXCEPT !.chunks = cs]
           y == [w EXCEPT !.chunks = cs]
<1>1. /\ x.chunks = cs /\ x.messages = v.messages /\ x.prompt = v.prompt
      /\ y.chunks = cs /\ y.messages = w.messages /\ y.prompt = w.prompt
  BY DEF Held, Fields
<1> HIDE DEF x, y
<1>2. CountRequest(x) = CountRequest(y)
  BY <1>1, AlikeCount DEF Held, Alike
<1>3. QED
  BY <1>2 DEF x, y

\* Snip does the same to requests that are alike.
LEMMA SnippetsAlike ==
  ASSUME NEW v, NEW w, Held(v), Held(w), Alike(v, w), NEW a, NEW b,
         a.budget = b.budget, a.policy = b.policy,
         a.policy.head \in Nat, a.policy.tail \in Nat
  PROVE  Snippets(v, a) = Snippets(w, b)
<1> DEFINE f == CHOOSE upTo : SnipSteps(upTo, v, a)
           g == CHOOSE upTo : SnipSteps(upTo, w, b)
           cs == v.chunks
<1>1. cs \in Seq(RAGChunk) /\ cs = w.chunks
  BY DEF Held, Alike
<1>2. PICK m \in Nat : m = Len(cs) /\ DOMAIN cs = 1..m
  BY <1>1, LenProperties
<1>3. SnipSteps(f, v, a) /\ \A n \in 0..m : f[n] \in Seq(RAGChunk)
  BY <1>1, <1>2, SnipStepsExist DEF StandFor
<1>4. SnipSteps(g, w, b)
  BY <1>1, SnipStepsExist
<1>5. Snippets(v, a) = f[m] /\ Snippets(w, b) = g[m]
  BY <1>1, <1>2 DEF Snippets
<1> HIDE DEF f, g
<1> DEFINE FitsV(ds) == CountRequest([v EXCEPT !.chunks = ds]) <= a.budget
           FitsW(ds) == CountRequest([w EXCEPT !.chunks = ds]) <= a.budget
           Cut(ds, n) == [ds EXCEPT ![n] = SnipChunk(@, a.policy.head, a.policy.tail)]
<1>6. \A n \in Nat : f[n] = IF n \notin DOMAIN cs THEN cs
                            ELSE IF FitsV(f[n - 1]) \/ ChunkTokens(cs[n]) <= SnipMin
                                 THEN f[n - 1] ELSE Cut(f[n - 1], n)
  BY <1>3 DEF SnipSteps
<1>7. \A n \in Nat : g[n] = IF n \notin DOMAIN cs THEN cs
                            ELSE IF FitsW(g[n - 1]) \/ ChunkTokens(cs[n]) <= SnipMin
                                 THEN g[n - 1] ELSE Cut(g[n - 1], n)
  BY <1>1, <1>4 DEF SnipSteps
<1>8. \A ds \in Seq(RAGChunk) : FitsV(ds) <=> FitsW(ds)
  BY AlikeCountWith
<1> HIDE DEF FitsV, FitsW, Cut, cs
<1> DEFINE D == {n \in Nat : n <= m => f[n] = g[n]}
<1>9. 0 \in D
  BY <1>2, <1>6, <1>7
<1>10. ASSUME NEW n \in Nat, n \in D
       PROVE  n + 1 \in D
  <2> SUFFICES ASSUME n + 1 <= m PROVE f[n + 1] = g[n + 1]
    OBVIOUS
  <2>1. n + 1 \in DOMAIN cs /\ (n + 1) - 1 = n /\ n + 1 \in Nat /\ n \in 0..m
    BY <1>2
  <2>2. f[n] = g[n] /\ (FitsV(f[n]) <=> FitsW(g[n]))
    BY <1>3, <1>8, <1>10, <2>1
  <2>3. f[n + 1] = IF FitsV(f[n]) \/ ChunkTokens(cs[n + 1]) <= SnipMin
                   THEN f[n] ELSE Cut(f[n], n + 1)
    BY <1>6, <2>1
  <2>4. g[n + 1] = IF FitsW(g[n]) \/ ChunkTokens(cs[n + 1]) <= SnipMin
                   THEN g[n] ELSE Cut(g[n], n + 1)
    BY <1>7, <2>1
  <2>5. QED
    BY <2>2, <2>3, <2>4
<1>11. m \in D
  <2> HIDE DEF D
  <2>1. QED
    BY <1>9, <1>10, Induction
<1>12. QED
  BY <1>5, <1>11

----------------------------------------------------------------------------
(* What a processor makes of a request, for one input *)

\* shouldSkipProcessor, and the threshold of auto compaction.
Skipped(in, p, q) ==
  \/ p \in Aggressive /\ q.tokens <= in.budget
  \/ MinTrigger[p] > 0 /\ q.tokens < MinTrigger[p]
  \/ p \in StructuredOnly /\ \A i \in DOMAIN q.chunks : q.chunks[i].frags = << >>

Limit(in) == IF in.policy.threshold = 0 THEN in.budget ELSE in.policy.threshold

\* The chunks and the messages that processor p hands on when it runs on q.
ChunksAfter(in, p, q) ==
  LET cs == q.chunks
  IN  CASE p = "paging" -> FirstPages(cs)
        [] p = "collapse" -> CollapseChunks(cs)
        [] p = "compact"  -> [i \in DOMAIN cs |-> CompactChunk(cs[i])]
        [] p = "sanitize" -> [i \in DOMAIN cs |-> SanitizeChunk(cs[i])]
        [] p = "canonicalize" ->
             StableChunks([i \in DOMAIN cs |-> PreprocessChunk(cs[i])])
        [] p \in DOMAIN Target -> [i \in DOMAIN cs |-> ReduceChunk(cs[i], Target[p])]
        [] p = "snip" -> Snippets(q, in)
        [] p = "auto_compact_sync" /\ q.tokens > in.budget /\ q.tokens > Limit(in) ->
             [i \in DOMAIN cs |-> SafeCompactChunk(cs[i])]
        [] OTHER -> cs

MessagesAfter(p, q) ==
  CASE p \in {"collapse", "compact"} -> DenseMessages(q.messages)
    [] p = "sanitize"     -> SanitizeMessages(q.messages)
    [] p = "canonicalize" -> OrderMessages(q.messages)
    [] OTHER              -> q.messages

\* Processor p turns request q of input in into next.
Turns(in, p, q, next) ==
  IF Skipped(in, p, q) THEN next = q
  ELSE /\ next.chunks = ChunksAfter(in, p, q)
       /\ next.messages = MessagesAfter(p, q)
       /\ next.prefix = IF p = "prefix_cache" THEN PrefixOf(q) ELSE q.prefix
       /\ next.prompt = IF p = "assemble" THEN AssemblePrompt(q.chunks, q.messages) ELSE q.prompt

\* Requests that are alike skip the same processors, and stay alike through the others.
LEMMA TurnsAlike ==
  ASSUME NEW a, NEW b, a.budget = b.budget, a.policy = b.policy,
         a.policy.head \in Nat, a.policy.tail \in Nat, NEW p,
         NEW v, NEW w, Held(v), Held(w), Alike(v, w),
         NEW x, NEW y, Held(x), Held(y), Turns(a, p, v, x), Turns(b, p, w, y)
  PROVE  Alike(x, y)
<1>1. Skipped(a, p, v) <=> Skipped(b, p, w)
  BY DEF Skipped, Alike
<1>2. CASE Skipped(a, p, v)
  BY <1>1, <1>2 DEF Turns
<1>3. CASE ~Skipped(a, p, v)
  <2>1. /\ x.chunks = ChunksAfter(a, p, v) /\ y.chunks = ChunksAfter(b, p, w)
        /\ x.messages = MessagesAfter(p, v) /\ y.messages = MessagesAfter(p, w)
        /\ x.prefix = IF p = "prefix_cache" THEN PrefixOf(v) ELSE v.prefix
        /\ y.prefix = IF p = "prefix_cache" THEN PrefixOf(w) ELSE w.prefix
        /\ x.prompt = IF p = "assemble" THEN AssemblePrompt(v.chunks, v.messages) ELSE v.prompt
        /\ y.prompt = IF p = "assemble" THEN AssemblePrompt(w.chunks, w.messages) ELSE w.prompt
    BY <1>1, <1>3 DEF Turns
  <2>2. /\ v.chunks = w.chunks /\ v.tokens = w.tokens /\ v.prefix = w.prefix
        /\ Talk(v.messages, w.messages) /\ Echo(v.prompt, w.prompt)
        /\ v.messages \in Seq(Message) /\ w.messages \in Seq(Message)
    BY DEF Alike, Held
  <2>3. Snippets(v, a) = Snippets(w, b)
    BY SnippetsAlike
  <2>4. x.chunks = y.chunks
    <3>1. ChunksAfter(a, p, v) = ChunksAfter(b, p, w)
      BY <2>2, <2>3 DEF ChunksAfter, Limit
    <3>2. QED
      BY <2>1, <3>1
  <2>5. Talk(x.messages, y.messages)
    <3>1. CASE p \in {"collapse", "compact"}
      BY <2>1, <2>2, <3>1, TalkStays DEF MessagesAfter
    <3>2. CASE p = "sanitize"
      BY <2>1, <2>2, <3>2, TalkStays DEF MessagesAfter
    <3>3. CASE p = "canonicalize"
      BY <2>1, <2>2, <3>3, TalkOrdered DEF MessagesAfter
    <3>4. CASE p \notin {"collapse", "compact", "sanitize", "canonicalize"}
      BY <2>1, <2>2, <3>4 DEF MessagesAfter
    <3>5. QED
      BY <3>1, <3>2, <3>3, <3>4
  <2>6. PrefixOf(v) = PrefixOf(w)
    BY <2>2, SameSegments DEF PrefixOf
  <2>7. Echo(x.prompt, y.prompt)
    BY <2>1, <2>2, AssembledEcho
  <2>8. x.tokens = y.tokens
    BY <2>4, <2>5, <2>7, AlikeCount DEF Held
  <2>9. QED
    BY <2>1, <2>2, <2>4, <2>5, <2>6, <2>7, <2>8 DEF Alike
<1>4. QED
  BY <1>2, <1>3

\* The first n processors of the policy take a request of input in through f.
Course(in, f, n) ==
  /\ f[0].chunks = StableChunks(in.chunks) /\ f[0].messages = in.messages
  /\ f[0].prefix = NoPrefix /\ f[0].prompt = None
  /\ \A i \in 0..n : Held(f[i])
  /\ \A i \in 1..n : Turns(in, in.policy.steps[i], f[i - 1], f[i])

\* The chunks of the same context are the same once they are in order.
LEMMA SameContextSameChunks ==
  ASSUME NEW a \in Input, NEW b \in Input, SameContext(a, b)
  PROVE  StableChunks(a.chunks) = StableChunks(b.chunks)
<1> DEFINE cs == [i \in DOMAIN a.chunks |-> NormalizeChunk(a.chunks[i])]
           ds == [i \in DOMAIN b.chunks |-> NormalizeChunk(b.chunks[i])]
<1>1. a.chunks \in Seq(RAGChunk) /\ b.chunks \in Seq(RAGChunk)
  <2>1. \A c \in ClientChunk : c \in RAGChunk
    BY DEF ClientChunk
  <2>2. a.chunks \in Seq(ClientChunk) /\ b.chunks \in Seq(ClientChunk)
    BY InputAssumption
  <2>3. QED
    BY <2>1, <2>2
<1>2. \A l \in Seq(RAGChunk) : LET s == [i \in DOMAIN l |-> NormalizeChunk(l[i])]
                               IN  s \in Seq(RAGChunk)
  <2> SUFFICES ASSUME NEW l \in Seq(RAGChunk), NEW s, s = [i \in DOMAIN l |-> NormalizeChunk(l[i])]
               PROVE  s \in Seq(RAGChunk)
    BY Zenon
  <2>1. \A i \in 1..Len(l) : Reworked(s[i], l[i])
    BY LenProperties, ElementOfSeq, NormalizedChunk
  <2>2. s = [i \in DOMAIN l |-> s[i]]
    OBVIOUS
  <2>3. QED
    BY <2>1, <2>2, MappedChunks DEF StandFor
<1>3. cs \in Seq(RAGChunk) /\ ds \in Seq(RAGChunk)
  BY <1>1, <1>2, Zenon
<1>4. /\ DOMAIN cs = DOMAIN a.chunks /\ DOMAIN ds = DOMAIN b.chunks
      /\ \A i \in DOMAIN a.chunks : cs[i] = NormalizeChunk(a.chunks[i])
      /\ \A i \in DOMAIN b.chunks : ds[i] = NormalizeChunk(b.chunks[i])
  OBVIOUS
<1>5. /\ StableChunks(a.chunks) = Sorted(cs, ChunkBefore)
      /\ StableChunks(b.chunks) = Sorted(ds, ChunkBefore)
  BY DEF StableChunks
<1> HIDE DEF cs, ds
<1>6. PICK p \in Bijection(DOMAIN a.chunks, DOMAIN b.chunks) :
        \A i \in DOMAIN a.chunks : NormalizeChunk(a.chunks[i]) = NormalizeChunk(b.chunks[p[i]])
  BY DEF SameContext
<1>7. \A i \in DOMAIN a.chunks : p[i] \in DOMAIN b.chunks
  BY DEF Bijection, Injection
<1>8. \A i \in DOMAIN cs : cs[i] = ds[p[i]]
  BY <1>4, <1>6, <1>7
<1>9. \A i \in DOMAIN a.chunks : /\ Folds(cs[i].sources) = Folds(a.chunks[i].sources)
                                 /\ cs[i].id = a.chunks[i].id
  <2>1. \A i \in DOMAIN a.chunks : a.chunks[i] \in RAGChunk
    BY <1>1, LenProperties, ElementOfSeq
  <2>2. \A c \in RAGChunk : /\ Folds(NormalizeChunk(c).sources) = Folds(c.sources)
                            /\ NormalizeChunk(c).id = c.id
    BY NormalizedChunk, NormalizedParts DEF Reworked
  <2>3. QED
    BY <1>4, <2>1, <2>2
<1>10. \A i, j \in DOMAIN cs :
         Folds(cs[i].sources) = Folds(cs[j].sources) /\ cs[i].id = cs[j].id => cs[i] = cs[j]
  BY <1>4, <1>9 DEF SameContext
<1>11. p \in Bijection(DOMAIN cs, DOMAIN ds)
  BY <1>4, <1>6
<1>12. QED
  BY <1>3, <1>5, <1>8, <1>10, <1>11, SortedSame

\* SameTalk says that the messages talk alike.
LEMMA SameTalkIsTalk ==
  ASSUME NEW ms \in Seq(Message), NEW ns \in Seq(Message), SameTalk(ms, ns)
  PROVE  Talk(ms, ns)
<1>1. ASSUME NEW x \in Seq(Message), NEW y \in Seq(Message), SameLayout(x, y),
             NEW k \in 1..Len(x)
      PROVE  <<x[k], y[k]>> \in Messages(Lookalikes)
  <2>1. /\ Len(x) = Len(y) /\ DOMAIN x = 1..Len(x)
        /\ x[k] \in Message /\ y[k] \in Message
    BY <1>1, LenProperties, ElementOfSeq DEF SameLayout
  <2>2. PICK m \in Message, n \in Message : m = x[k] /\ n = y[k]
    BY <2>1
  <2>3. /\ m.role = n.role /\ Len(m.text) = Len(n.text)
        /\ \A i \in DOMAIN m.text : /\ m.text[i] = Blank <=> n.text[i] = Blank
                                    /\ m.text[i] \in Markup <=> n.text[i] \in Markup
    BY <1>1, <2>1, <2>2 DEF SameLayout
  <2>4. /\ m.text \in Text /\ DOMAIN m.text = 1..Len(m.text)
        /\ n.text \in Text /\ DOMAIN n.text = 1..Len(n.text)
        /\ \A i \in 1..Len(m.text) : m.text[i] \in Line
        /\ \A i \in 1..Len(n.text) : n.text[i] \in Line
    BY MessageFacts, TextFacts
  <2>5. \A i \in 1..Len(m.text) : <<m.text[i], n.text[i]>> \in Lookalikes
    BY <2>3, <2>4 DEF Lookalikes
  <2>6. Related(Lookalikes, m.text, n.text)
    BY <2>3, <2>5 DEF Related
  <2>7. QED
    BY <2>2, <2>3, <2>6 DEF Messages
<1>2. ASSUME NEW x \in Seq(Message), NEW y \in Seq(Message), SameSense(x, y),
             NEW k \in 1..Len(x)
      PROVE  <<x[k], y[k]>> \in Messages(Synonyms)
  <2>1. /\ Len(x) = Len(y) /\ DOMAIN x = 1..Len(x)
        /\ x[k] \in Message /\ y[k] \in Message
        /\ <<x[k], y[k]>> \in Messages(Lookalikes)
    BY <1>1, <1>2, LenProperties, ElementOfSeq DEF SameSense, SameLayout
  <2>2. PICK m \in Message, n \in Message : m = x[k] /\ n = y[k]
    BY <2>1
  <2>3. m.role = n.role /\ Related(Lookalikes, m.text, n.text)
    BY <2>1, <2>2 DEF Messages
  <2>4. NormalMessage(m) = NormalMessage(n)
    BY <1>2, <2>1, <2>2 DEF SameSense
  <2>5. [i \in DOMAIN m.text |-> Stable(m.text[i])] = [i \in DOMAIN n.text |-> Stable(n.text[i])]
    <3>1. \A l \in Message : NormalMessage(l).text = [i \in DOMAIN l.text |-> Stable(l.text[i])]
      BY DEF NormalMessage, Message
    <3>2. QED
      BY <2>4, <3>1
  <2>6. DOMAIN m.text = 1..Len(m.text) /\ DOMAIN n.text = 1..Len(n.text)
    BY MessageFacts, TextFacts
  <2>7. \A i \in 1..Len(m.text) : Stable(m.text[i]) = Stable(n.text[i])
    BY <2>5, <2>6
  <2>8. Related(Synonyms, m.text, n.text)
    BY <2>3, <2>7 DEF Related, Synonyms
  <2>9. QED
    BY <2>2, <2>3, <2>8 DEF Messages
<1>3. ASSUME NEW system \in BOOLEAN
      PROVE  Related(Messages(Synonyms), Past(ms, system), Past(ns, system))
  <2>1. /\ Past(ms, system) \in Seq(Message) /\ Past(ns, system) \in Seq(Message)
        /\ SameSense(Past(ms, system), Past(ns, system))
    BY PastFacts DEF SameTalk
  <2>2. Len(Past(ms, system)) = Len(Past(ns, system))
    BY <2>1 DEF SameSense, SameLayout
  <2>3. QED
    BY <1>2, <2>1, <2>2 DEF Related
<1>4. Related(Messages(Lookalikes), Latest(ms), Latest(ns))
  <2>1. /\ Latest(ms) \in Seq(Message) /\ Latest(ns) \in Seq(Message)
        /\ SameLayout(Latest(ms), Latest(ns))
    BY PastFacts DEF SameTalk
  <2>2. Len(Latest(ms)) = Len(Latest(ns))
    BY <2>1 DEF SameLayout
  <2>3. QED
    BY <1>1, <2>1, <2>2 DEF Related
<1>5. QED
  BY <1>3, <1>4 DEF Talk

\* The same context takes the same course.
LEMMA CoursesAlike ==
  ASSUME NEW a \in Input, NEW b \in Input, SameContext(a, b), NEW n \in Nat,
         NEW f, Course(a, f, n), NEW g, Course(b, g, n)
  PROVE  Alike(f[n], g[n])
<1>1. /\ a.budget = b.budget /\ a.policy = b.policy /\ SameTalk(a.messages, b.messages)
      /\ a.policy.head \in Nat /\ a.policy.tail \in Nat
      /\ a.messages \in Seq(Message) /\ b.messages \in Seq(Message)
  BY InputAssumption DEF SameContext
<1>2. Alike(f[0], g[0])
  <2>1. /\ f[0].chunks = g[0].chunks /\ f[0].prefix = g[0].prefix
        /\ f[0].prompt = None /\ g[0].prompt = None
        /\ f[0].messages = a.messages /\ g[0].messages = b.messages
        /\ Held(f[0]) /\ Held(g[0])
    BY SameContextSameChunks DEF Course
  <2>2. Talk(f[0].messages, g[0].messages)
    BY <1>1, <2>1, SameTalkIsTalk
  <2>3. Echo(f[0].prompt, g[0].prompt)
    BY <2>1 DEF Echo, None, Related
  <2>4. f[0].tokens = g[0].tokens
    BY <2>1, <2>2, <2>3, AlikeCount DEF Held
  <2>5. QED
    BY <2>1, <2>2, <2>3, <2>4 DEF Alike
<1> DEFINE D == {i \in Nat : i <= n => Alike(f[i], g[i])}
<1>3. ASSUME NEW i \in Nat, i \in D
      PROVE  i + 1 \in D
  <2> SUFFICES ASSUME i + 1 <= n PROVE Alike(f[i + 1], g[i + 1])
    OBVIOUS
  <2>1. i \in 0..n /\ i + 1 \in 0..n /\ i + 1 \in 1..n /\ (i + 1) - 1 = i
    OBVIOUS
  <2>2. Alike(f[i], g[i])
    BY <1>3, <2>1
  <2>3. Held(f[i]) /\ Held(g[i]) /\ Held(f[i + 1]) /\ Held(g[i + 1])
    BY <2>1 DEF Course
  <2>4. PICK p : p = a.policy.steps[i + 1] /\ p = b.policy.steps[i + 1]
    BY <1>1
  <2>5. Turns(a, p, f[i], f[i + 1]) /\ Turns(b, p, g[i], g[i + 1])
    BY <2>1, <2>4 DEF Course
  <2>6. QED
    BY <1>1, <2>2, <2>3, <2>5, TurnsAlike
<1>4. n \in D
  <2>1. 0 \in D
    BY <1>2
  <2> HIDE DEF D
  <2>2. QED
    BY <1>3, <2>1, Induction
<1>5. QED
  BY <1>4

----------------------------------------------------------------------------
(* Every request is on the course of its input *)

\* The processors before at[r] have taken the request through; of an answered one only
\* prefix and chunks are told, since the prompt may have been made after the last of them.
OnCourse(r) ==
  /\ status[r] = "new" => req[r] = MapRequest(input[r]) /\ at[r] = 1
  /\ status[r] = "running" =>
       \E f : Course(input[r], f, at[r] - 1) /\ f[at[r] - 1] = req[r]
  /\ status[r] = "ok" =>
       \E f : /\ Course(input[r], f, Len(Steps(r)))
              /\ f[Len(Steps(r))].prefix = req[r].prefix
              /\ f[Len(Steps(r))].chunks = req[r].chunks

CourseInv == \A r \in Request : OnCourse(r)

\* A course goes on with what the next processor makes of the request.
LEMMA CourseGoesOn ==
  ASSUME NEW in, NEW n \in Nat, NEW f, Course(in, f, n), NEW m, m = n + 1,
         NEW p, p = in.policy.steps[m], NEW q, q = f[n], NEW next, Held(next),
         Turns(in, p, q, next)
  PROVE  \E g : Course(in, g, m) /\ g[m] = next
<1> DEFINE g == [i \in Nat |-> IF i = m THEN next ELSE f[i]]
<1>1. g[m] = next /\ \A i \in 0..n : g[i] = f[i]
  OBVIOUS
<1> HIDE DEF g
<1>2. /\ g[0] = f[0] /\ g[m - 1] = q
      /\ \A i \in 1..n : g[i] = f[i] /\ g[i - 1] = f[i - 1]
      /\ \A i \in 0..m : i \in 0..n \/ i = m
      /\ \A i \in 1..m : i \in 1..n \/ i = m
  BY <1>1
<1>3. \A i \in 0..m : Held(g[i])
  <2>1. \A i \in 0..n : Held(f[i])
    BY DEF Course
  <2>2. QED
    BY <1>1, <1>2, <2>1
<1>4. \A i \in 1..m : Turns(in, in.policy.steps[i], g[i - 1], g[i])
  <2>1. \A i \in 1..n : Turns(in, in.policy.steps[i], f[i - 1], f[i])
    BY DEF Course
  <2>2. \A i \in 1..n : Turns(in, in.policy.steps[i], g[i - 1], g[i])
    BY <1>2, <2>1
  <2>3. Turns(in, in.policy.steps[m], g[m - 1], g[m])
    BY <1>1, <1>2
  <2>4. QED
    BY <1>2, <2>2, <2>3
<1>5. Course(in, g, m)
  BY <1>2, <1>3, <1>4 DEF Course
<1>6. QED
  BY <1>1, <1>5

AllHeld == \A r \in Request : status[r] # "new" => Held(req[r])

\* What is counted and on its way is held.
LEMMA HeldRequests == Inv /\ DataInv => AllHeld
BY RequestFacts DEF Inv, Held, AllHeld

\* A request is handed on as its processor turns it.
LEMMA HandOnTurns ==
  ASSUME Inv, NEW r \in Request, NEW p, NEW next, Runs(r, p), HandOn(r, p, next),
         DOMAIN next = Fields,
         next.chunks = ChunksAfter(input[r], p, req[r]),
         next.messages = MessagesAfter(p, req[r]),
         next.prefix = IF p = "prefix_cache" THEN PrefixOf(req[r]) ELSE req[r].prefix,
         next.prompt = IF p = "assemble" THEN AssemblePrompt(req[r].chunks, req[r].messages)
                       ELSE req[r].prompt
  PROVE  Turn(r, p) /\ Turns(input[r], p, req[r], req'[r])
<1> DEFINE audit == [name |-> p, before |-> req[r].tokens, after |-> next.tokens]
           booked == [next EXCEPT !.audits = Append(@, audit)]
<1>1. req' = [req EXCEPT ![r] = booked]
  BY DEF HandOn
<1>2. /\ booked.chunks = next.chunks /\ booked.messages = next.messages
      /\ booked.prompt = next.prompt /\ booked.prefix = next.prefix
  BY DEF Fields
<1> HIDE DEF booked
<1>3. req'[r] = booked
  BY <1>1 DEF Inv
<1>4. ~Skipped(input[r], p, req[r])
  BY DEF Runs, Skips, Skipped
<1>5. Turns(input[r], p, req[r], req'[r])
  BY <1>2, <1>3, <1>4 DEF Turns
<1>6. QED
  BY <1>5 DEF Runs

\* The same for a processor that rewrites chunks and messages.
LEMMA RewriteTurns ==
  ASSUME Inv, NEW r \in Request, NEW p, Runs(r, p), p \notin {"prefix_cache", "assemble"},
         NEW ds, ds = ChunksAfter(input[r], p, req[r]),
         NEW ms, ms = MessagesAfter(p, req[r]),
         \/ HandOn(r, p, Recounted([req[r] EXCEPT !.chunks = ds, !.messages = ms]))
         \/ Rewrite(r, p, ds) /\ ms = req[r].messages
  PROVE  Turn(r, p) /\ Turns(input[r], p, req[r], req'[r])
<1> DEFINE x == Recounted([req[r] EXCEPT !.chunks = ds, !.messages = ms])
           y == Recounted([req[r] EXCEPT !.chunks = ds])
<1>1. DOMAIN req[r] = Fields
  BY DEF Inv
<1>2. /\ DOMAIN x = Fields /\ x.chunks = ds /\ x.messages = ms
      /\ x.prompt = req[r].prompt /\ x.prefix = req[r].prefix
      /\ DOMAIN y = Fields /\ y.chunks = ds /\ y.messages = req[r].messages
      /\ y.prompt = req[r].prompt /\ y.prefix = req[r].prefix
  BY <1>1 DEF Recounted, Fields
<1>3. HandOn(r, p, x) \/ (HandOn(r, p, y) /\ ms = req[r].messages)
  BY DEF Rewrite
<1> HIDE DEF x, y
<1>4. QED
  BY <1>2, <1>3, HandOnTurns

\* Every processor that runs turns the request as the course has it.
LEMMA ProcessorsTurn ==
  ASSUME Inv, DataInv, NEW r \in Request,
         \/ Paging(r) \/ Collapse(r) \/ Compact(r) \/ Sanitize(r) \/ Canonicalize(r)
         \/ \E p \in DOMAIN Target : Transform(r, p)
         \/ Snip(r) \/ AutoCompactSync(r) \/ AutoCompactAsync(r)
         \/ PrefixCache(r) \/ Assemble(r)
  PROVE  \E p : Turn(r, p) /\ Turns(input[r], p, req[r], req'[r])
<1> DEFINE q == req[r]
           cs == q.chunks
           ms == q.messages
<1>1. DOMAIN q = Fields
  BY DEF Inv
<1>2. CASE Paging(r)
  <2> DEFINE ds == FirstPages(cs)
  <2>1. Runs(r, "paging") /\ Rewrite(r, "paging", ds)
    BY <1>2 DEF Paging
  <2>2. ds = ChunksAfter(input[r], "paging", q) /\ ms = MessagesAfter("paging", q)
    BY DEF ChunksAfter, MessagesAfter, Target
  <2> HIDE DEF ds
  <2>3. QED
    BY <2>1, <2>2, RewriteTurns
<1>3. CASE Collapse(r)
  <2>1. /\ Runs(r, "collapse")
        /\ HandOn(r, "collapse", Recounted([q EXCEPT !.chunks = CollapseChunks(cs),
                                                     !.messages = DenseMessages(ms)]))
    BY <1>3 DEF Collapse
  <2>2. /\ CollapseChunks(cs) = ChunksAfter(input[r], "collapse", q)
        /\ DenseMessages(ms) = MessagesAfter("collapse", q)
    BY DEF ChunksAfter, MessagesAfter, Target
  <2>3. QED
    BY <2>1, <2>2, RewriteTurns
<1>4. CASE Compact(r)
  <2> DEFINE ds == [i \in DOMAIN cs |-> CompactChunk(cs[i])]
  <2>1. /\ Runs(r, "compact")
        /\ HandOn(r, "compact", Recounted([q EXCEPT !.chunks = ds,
                                                    !.messages = DenseMessages(ms)]))
    BY <1>4 DEF Compact
  <2>2. /\ ds = ChunksAfter(input[r], "compact", q)
        /\ DenseMessages(ms) = MessagesAfter("compact", q)
    BY DEF ChunksAfter, MessagesAfter, Target
  <2> HIDE DEF ds
  <2>3. QED
    BY <2>1, <2>2, RewriteTurns
<1>5. CASE Sanitize(r)
  <2> DEFINE ds == [i \in DOMAIN cs |-> SanitizeChunk(cs[i])]
  <2>1. /\ Runs(r, "sanitize")
        /\ HandOn(r, "sanitize", Recounted([q EXCEPT !.chunks = ds,
                                                     !.messages = SanitizeMessages(ms)]))
    BY <1>5 DEF Sanitize
  <2>2. /\ ds = ChunksAfter(input[r], "sanitize", q)
        /\ SanitizeMessages(ms) = MessagesAfter("sanitize", q)
    BY DEF ChunksAfter, MessagesAfter, Target
  <2> HIDE DEF ds
  <2>3. QED
    BY <2>1, <2>2, RewriteTurns
<1>6. CASE Canonicalize(r)
  <2> DEFINE ds == StableChunks([i \in DOMAIN cs |-> PreprocessChunk(cs[i])])
  <2>1. /\ Runs(r, "canonicalize")
        /\ HandOn(r, "canonicalize", Recounted([q EXCEPT !.chunks = ds,
                                                         !.messages = OrderMessages(ms)]))
    BY <1>6 DEF Canonicalize
  <2>2. /\ ds = ChunksAfter(input[r], "canonicalize", q)
        /\ OrderMessages(ms) = MessagesAfter("canonicalize", q)
    BY DEF ChunksAfter, MessagesAfter, Target
  <2> HIDE DEF ds
  <2>3. QED
    BY <2>1, <2>2, RewriteTurns
<1>7. CASE \E p \in DOMAIN Target : Transform(r, p)
  <2>1. PICK p \in DOMAIN Target : Transform(r, p)
    BY <1>7
  <2> DEFINE ds == [i \in DOMAIN cs |-> ReduceChunk(cs[i], Target[p])]
  <2>2. p \in {"json_trim", "table_reduce", "code_outline", "error_stack_focus"}
    BY DEF Target
  <2>3. Runs(r, p) /\ Rewrite(r, p, ds)
    BY <2>1 DEF Transform
  <2>4. ms = MessagesAfter(p, q)
    BY <2>2 DEF MessagesAfter
  <2>5. ds = ChunksAfter(input[r], p, q)
    BY <2>2 DEF ChunksAfter
  <2> HIDE DEF ds
  <2>6. QED
    BY <2>2, <2>3, <2>4, <2>5, RewriteTurns
<1>8. CASE Snip(r)
  <2> DEFINE ds == Snippets(q, input[r])
  <2>1. Runs(r, "snip") /\ Rewrite(r, "snip", ds)
    BY <1>8, Zenon DEF Snip, Snippets, SnipSteps, Policy
  <2>2. ds = ChunksAfter(input[r], "snip", q) /\ ms = MessagesAfter("snip", q)
    BY DEF ChunksAfter, MessagesAfter, Target
  <2> HIDE DEF ds
  <2>3. QED
    BY <2>1, <2>2, RewriteTurns
<1>9. CASE AutoCompactSync(r)
  <2> DEFINE ds == [i \in DOMAIN cs |-> SafeCompactChunk(cs[i])]
             p == "auto_compact_sync"
  <2>1. Runs(r, p) /\ ms = MessagesAfter(p, q)
    BY <1>9 DEF AutoCompactSync, MessagesAfter
  <2>2. Pressed(r) <=> q.tokens > input[r].budget /\ q.tokens > Limit(input[r])
    BY DEF Pressed, Threshold, Limit, Policy
  <2>3. CASE Pressed(r)
    <3>1. Rewrite(r, p, ds)
      BY <1>9, <2>3 DEF AutoCompactSync
    <3>2. ds = ChunksAfter(input[r], p, q)
      BY <2>2, <2>3 DEF ChunksAfter, Target
    <3> HIDE DEF ds
    <3>3. QED
      BY <2>1, <3>1, <3>2, RewriteTurns
  <2>4. CASE ~Pressed(r)
    <3>1. HandOn(r, p, q)
      BY <1>9, <2>4 DEF AutoCompactSync
    <3>2. cs = ChunksAfter(input[r], p, q)
      BY <2>2, <2>4 DEF ChunksAfter, Target
    <3>3. QED
      BY <1>1, <2>1, <3>1, <3>2, HandOnTurns
  <2>5. QED
    BY <2>3, <2>4
<1>10. CASE AutoCompactAsync(r)
  <2> DEFINE p == "auto_compact_async"
  <2>1. Runs(r, p) /\ ms = MessagesAfter(p, q) /\ cs = ChunksAfter(input[r], p, q)
    BY <1>10 DEF AutoCompactAsync, MessagesAfter, ChunksAfter, Target
  <2>2. PICK pending : HandOn(r, p, [q EXCEPT !.pending = pending])
    BY <1>10 DEF AutoCompactAsync
  <2> DEFINE next == [q EXCEPT !.pending = pending]
  <2>3. /\ DOMAIN next = Fields /\ next.chunks = cs /\ next.messages = ms
        /\ next.prompt = q.prompt /\ next.prefix = q.prefix
    BY <1>1 DEF Fields
  <2>4. HandOn(r, p, next)
    BY <2>2
  <2> HIDE DEF next
  <2>5. QED
    BY <2>1, <2>3, <2>4, HandOnTurns
<1>11. CASE PrefixCache(r)
  <2> DEFINE p == "prefix_cache"
             next == [q EXCEPT !.prefix = PrefixOf(q)]
  <2>1. Runs(r, p) /\ ms = MessagesAfter(p, q) /\ cs = ChunksAfter(input[r], p, q)
    BY <1>11 DEF PrefixCache, MessagesAfter, ChunksAfter, Target
  <2>2. /\ DOMAIN next = Fields /\ next.chunks = cs /\ next.messages = ms
        /\ next.prompt = q.prompt /\ next.prefix = PrefixOf(q)
    BY <1>1 DEF Fields
  <2>3. HandOn(r, p, next)
    BY <1>11 DEF PrefixCache
  <2> HIDE DEF next
  <2>4. QED
    BY <2>1, <2>2, <2>3, HandOnTurns
<1>12. CASE Assemble(r)
  <2> DEFINE p == "assemble"
             next == Recounted([q EXCEPT !.prompt = AssemblePrompt(cs, ms)])
  <2>1. Runs(r, p) /\ ms = MessagesAfter(p, q) /\ cs = ChunksAfter(input[r], p, q)
    BY <1>12 DEF Assemble, MessagesAfter, ChunksAfter, Target
  <2>2. /\ DOMAIN next = Fields /\ next.chunks = cs /\ next.messages = ms
        /\ next.prompt = AssemblePrompt(cs, ms) /\ next.prefix = q.prefix
    BY <1>1 DEF Fields, Recounted
  <2>3. HandOn(r, p, next)
    BY <1>12 DEF Assemble
  <2> HIDE DEF next
  <2>4. QED
    BY <2>1, <2>2, <2>3, HandOnTurns
<1>13. QED
  BY <1>2, <1>3, <1>4, <1>5, <1>6, <1>7, <1>8, <1>9, <1>10, <1>11, <1>12

\* A request that has had its turn stays on course.
LEMMA TurnStaysOnCourse ==
  ASSUME Inv, DataInv, Inv', DataInv', NEW r \in Request, OnCourse(r), NEW p, Turn(r, p),
         Turns(input[r], p, req[r], req'[r]), UNCHANGED <<input, status>>,
         at' = [at EXCEPT ![r] = @ + 1]
  PROVE  OnCourse(r)'
<1>1. /\ status[r] = "running" /\ status'[r] = "running" /\ input'[r] = input[r]
      /\ at[r] \in Nat \ {0} /\ at'[r] = at[r] + 1
      /\ input[r].policy.steps[at[r]] = p
  BY DEF Turn, DataInv, Steps, Policy
<1>2. PICK n, m : n \in Nat /\ n = at[r] - 1 /\ m = n + 1 /\ m = at[r] /\ at'[r] - 1 = m
  BY <1>1
<1>3. PICK f : Course(input[r], f, n) /\ f[n] = req[r]
  BY <1>1, <1>2 DEF OnCourse
<1>4. Held(req'[r])
  <2>1. AllHeld'
    BY HeldRequests, PTL
  <2>2. QED
    BY <1>1, <2>1 DEF AllHeld
<1>5. PICK in, q, next : in = input[r] /\ q = req[r] /\ next = req'[r]
  OBVIOUS
<1>6. p = in.policy.steps[m]
  BY <1>1, <1>2, <1>5
<1>7. Course(in, f, n) /\ q = f[n]
  BY <1>3, <1>5
<1>8. Held(next) /\ Turns(in, p, q, next)
  BY <1>4, <1>5
<1>9. \E g : Course(in, g, m) /\ g[m] = next
  BY <1>2, <1>6, <1>7, <1>8, CourseGoesOn
<1>10. \E g : Course(input'[r], g, at'[r] - 1) /\ g[at'[r] - 1] = req'[r]
  BY <1>1, <1>2, <1>5, <1>9
<1>11. QED
  BY <1>1, <1>10 DEF OnCourse

\* The pipeline begins where the course of the input does.
LEMMA AcceptStaysOnCourse ==
  ASSUME Inv, DataInv, Inv', DataInv', NEW r \in Request, OnCourse(r), Accept(r)
  PROVE  OnCourse(r)'
<1>1. /\ status[r] = "new" /\ status'[r] = "running" /\ at[r] = 1
      /\ req[r] = MapRequest(input[r])
      /\ UNCHANGED <<input, at>>
      /\ req' = [req EXCEPT ![r] = [req[r] EXCEPT !.tokens = CountRequest(req[r]),
                                                 !.inputTokens = CountRequest(req[r])]]
  BY DEF Accept, OnCourse, Inv
<1>2. PICK in, q, next : in = input[r] /\ q = req[r] /\ next = req'[r]
  OBVIOUS
<1>3. /\ next.chunks = q.chunks /\ next.messages = q.messages
      /\ next.prefix = q.prefix /\ next.prompt = q.prompt
  BY <1>1, <1>2 DEF Inv, Fields
<1>4. /\ q.chunks = StableChunks(in.chunks) /\ q.messages = in.messages
      /\ q.prefix = NoPrefix /\ q.prompt = None
  BY <1>1, <1>2 DEF MapRequest
<1>5. Held(next)
  <2>1. AllHeld'
    BY HeldRequests, PTL
  <2>2. QED
    BY <1>1, <1>2, <2>1 DEF AllHeld
<1> DEFINE f == [i \in Nat |-> next]
<1>6. f[0] = next /\ \A i \in 0..0 : f[i] = next
  OBVIOUS
<1> HIDE DEF f
<1>7. Course(in, f, 0)
  BY <1>3, <1>4, <1>5, <1>6 DEF Course
<1>8. \E g : Course(input'[r], g, at'[r] - 1) /\ g[at'[r] - 1] = req'[r]
  <2>1. input'[r] = in /\ at'[r] - 1 = 0 /\ req'[r] = f[0]
    BY <1>1, <1>2, <1>6
  <2>2. QED
    BY <1>7, <2>1
<1>9. QED
  BY <1>1, <1>8 DEF OnCourse

\* The pipeline ends where the course does.
LEMMA RespondStaysOnCourse ==
  ASSUME Inv, DataInv, NEW r \in Request, OnCourse(r), Respond(r)
  PROVE  OnCourse(r)'
<1>1. /\ status[r] = "running" /\ status'[r] = "ok" /\ at[r] > Len(Steps(r))
      /\ UNCHANGED <<input, at>> /\ at[r] \in Nat /\ Len(Steps(r)) \in Nat
      /\ at[r] <= Len(Steps(r)) + 1
  BY RequestFacts DEF Respond, Inv, DataInv, RequestInv
<1>2. PICK n : n = Len(Steps(r)) /\ at[r] - 1 = n /\ Len(Steps(r))' = n
  BY <1>1 DEF Steps, Policy
<1>3. PICK f : Course(input[r], f, n) /\ f[n] = req[r]
  BY <1>1, <1>2 DEF OnCourse
<1>4. req'[r].prefix = req[r].prefix /\ req'[r].chunks = req[r].chunks
  <2>1. DOMAIN req[r] = Fields
    BY DEF Inv
  <2>2. PICK next : next = Recounted([req[r] EXCEPT !.prompt =
                                       AssemblePrompt(req[r].chunks, req[r].messages)])
    OBVIOUS
  <2>3. next.prefix = req[r].prefix /\ next.chunks = req[r].chunks
    BY <2>1, <2>2 DEF Recounted, Fields
  <2>4. req'[r] = IF req[r].prompt # None THEN req[r] ELSE next
    BY <2>2 DEF Respond, Inv
  <2>5. QED
    BY <2>3, <2>4
<1>5. \E g : /\ Course(input'[r], g, Len(Steps(r))')
            /\ g[Len(Steps(r))'].prefix = req'[r].prefix
            /\ g[Len(Steps(r))'].chunks = req'[r].chunks
  <2>1. Course(input'[r], f, Len(Steps(r))')
    BY <1>1, <1>2, <1>3
  <2>2. /\ f[Len(Steps(r))'].prefix = req'[r].prefix
        /\ f[Len(Steps(r))'].chunks = req'[r].chunks
    BY <1>2, <1>3, <1>4
  <2>3. QED
    BY <2>1, <2>2
<1>6. QED
  BY <1>1, <1>5 DEF OnCourse

\* A request that a step leaves alone, or ends with a failure.
LEMMA UntouchedOnCourse ==
  ASSUME NEW s \in Request, OnCourse(s), UNCHANGED input,
         \/ req'[s] = req[s] /\ at'[s] = at[s] /\ status'[s] = status[s]
         \/ status'[s] = "failed"
  PROVE  OnCourse(s)'
<1>1. CASE status'[s] = "failed"
  BY <1>1 DEF OnCourse
<1>2. CASE req'[s] = req[s] /\ at'[s] = at[s] /\ status'[s] = status[s]
  <2>1. Steps(s)' = Steps(s) /\ input'[s] = input[s]
    BY DEF Steps, Policy
  <2>2. QED
    BY <1>2, <2>1 DEF OnCourse
<1>3. QED
  BY <1>1, <1>2

\* Every request begins on the course of its input.
LEMMA InitCourseInv == Init => CourseInv
BY DEF Init, CourseInv, OnCourse

\* Every step of every request keeps all of them on course.
LEMMA CourseInductive ==
  ASSUME Inv, DataInv, Inv', DataInv', CourseInv, [Next]_vars
  PROVE  CourseInv'
<1>1. CASE UNCHANGED vars
  BY <1>1, UntouchedOnCourse DEF CourseInv, vars
<1>2. ASSUME NEW r \in Request, Step(r)
      PROVE  CourseInv'
  <2>1. OnCourse(r)
    BY DEF CourseInv
  <2>2. /\ UNCHANGED input
        /\ \A s \in Request \ {r} : /\ req'[s] = req[s] /\ at'[s] = at[s]
                                    /\ status'[s] = status[s]
    <3>1. CASE Accept(r) \/ Skip(r) \/ Respond(r) \/ PageOut(r) \/ Enqueue(r) \/ Fails(r)
      BY <3>1 DEF Accept, Skip, Respond, PageOut, Enqueue, Fails, PageOutFails, EnqueueFails,
                  PrefixCacheFails, Abort, Inv, DataInv
    <3>2. ASSUME NEW p, NEW next, HandOn(r, p, next)
          PROVE  /\ UNCHANGED input
                 /\ \A s \in Request \ {r} : /\ req'[s] = req[s] /\ at'[s] = at[s]
                                             /\ status'[s] = status[s]
      BY <3>2 DEF HandOn, Inv, DataInv
    <3>3. CASE \/ Paging(r) \/ Collapse(r) \/ Compact(r) \/ Sanitize(r) \/ Canonicalize(r)
               \/ \E p \in DOMAIN Target : Transform(r, p)
               \/ Snip(r) \/ AutoCompactSync(r) \/ AutoCompactAsync(r)
               \/ PrefixCache(r) \/ Assemble(r)
      <4>1. \E p, next : HandOn(r, p, next)
        BY <3>3, ProcessorsAdvance DEF Advances
      <4>2. QED
        BY <3>2, <4>1
    <3>4. QED
      BY <1>2, <3>1, <3>3 DEF Step
  <2>3. OnCourse(r)'
    <3>1. CASE Accept(r)
      BY <2>1, <3>1, AcceptStaysOnCourse
    <3>2. CASE Respond(r)
      BY <2>1, <3>2, RespondStaysOnCourse
    <3>3. CASE PageOut(r) \/ Enqueue(r)
      BY <2>1, <3>3, UntouchedOnCourse DEF PageOut, Enqueue
    <3>4. CASE Fails(r)
      <4>1. status'[r] = "failed" /\ UNCHANGED input
        BY <3>4 DEF Fails, PageOutFails, EnqueueFails, PrefixCacheFails, Abort, Inv
      <4>2. QED
        BY <2>1, <4>1, UntouchedOnCourse
    <3>5. CASE Skip(r)
      <4>1. PICK p : Turn(r, p) /\ Skips(r, p)
        BY <3>5 DEF Skip
      <4>2. UNCHANGED <<input, status, req>> /\ at' = [at EXCEPT ![r] = @ + 1]
        BY <3>5 DEF Skip
      <4>3. Turns(input[r], p, req[r], req'[r])
        BY <4>1, <4>2 DEF Turns, Skips, Skipped
      <4>4. QED
        BY <2>1, <4>1, <4>2, <4>3, TurnStaysOnCourse
    <3>6. CASE \/ Paging(r) \/ Collapse(r) \/ Compact(r) \/ Sanitize(r) \/ Canonicalize(r)
               \/ \E p \in DOMAIN Target : Transform(r, p)
               \/ Snip(r) \/ AutoCompactSync(r) \/ AutoCompactAsync(r)
               \/ PrefixCache(r) \/ Assemble(r)
      <4>1. PICK p : Turn(r, p) /\ Turns(input[r], p, req[r], req'[r])
        BY <3>6, ProcessorsTurn
      <4>2. UNCHANGED <<input, status>> /\ at' = [at EXCEPT ![r] = @ + 1]
        BY <3>6, ProcessorsAdvance DEF Advances, HandOn
      <4>3. QED
        BY <2>1, <4>1, <4>2, TurnStaysOnCourse
    <3>7. QED
      BY <1>2, <3>1, <3>2, <3>3, <3>4, <3>5, <3>6 DEF Step
  <2>4. ASSUME NEW s \in Request, s # r
        PROVE  OnCourse(s)'
    BY <2>2, <2>4, UntouchedOnCourse DEF CourseInv
  <2>5. QED
    BY <2>3, <2>4 DEF CourseInv
<1>3. QED
  BY <1>1, <1>2 DEF Next

\* The same context gives the same stable prefix, in whatever order a client sends the
\* chunks, whatever time stamps and identifiers it sends with them, and whatever the user
\* asks: the inference server has the prefix in its cache (StableChunks,
\* normalizeStableIdentifiers, BuildPrefixCacheIdentity).
THEOREM SameContextIsSamePrefix == Spec => []SameContextSamePrefix
<1>1. ASSUME DataInv, CourseInv
      PROVE  SameContextSamePrefix
  <2> SUFFICES ASSUME NEW r \in Request, NEW s \in Request, Response(r), Response(s),
                      SameContext(input[r], input[s])
               PROVE  req[r].prefix = req[s].prefix
    BY DEF SameContextSamePrefix
  <2>1. PICK a \in Input, b \in Input : a = input[r] /\ b = input[s]
    BY <1>1 DEF DataInv
  <2>2. SameContext(a, b) /\ a.policy = b.policy
    BY <2>1 DEF SameContext
  <2>3. PICK n \in Nat : n = Len(Steps(r)) /\ n = Len(Steps(s))
    <3>1. Steps(r) = Steps(s) /\ Steps(r) \in Seq(Processor)
      BY <2>1, <2>2, GivenFacts DEF Steps, Policy
    <3>2. QED
      BY <3>1, LenProperties
  <2>4. PICK f : Course(a, f, n) /\ f[n].prefix = req[r].prefix
    BY <1>1, <2>1, <2>3 DEF CourseInv, OnCourse, Response
  <2>5. PICK g : Course(b, g, n) /\ g[n].prefix = req[s].prefix
    BY <1>1, <2>1, <2>3 DEF CourseInv, OnCourse, Response
  <2>6. Alike(f[n], g[n])
    BY <2>2, <2>4, <2>5, CoursesAlike
  <2>7. QED
    BY <2>4, <2>5, <2>6 DEF Alike
<1>2. Inv /\ DataInv /\ Inv' /\ DataInv' /\ CourseInv /\ [Next]_vars => CourseInv'
  BY CourseInductive
<1>3. QED
  BY <1>1, <1>2, InitInv, Inductive, InitDataInv, DataInductive, InitCourseInv, PTL DEF Spec

----------------------------------------------------------------------------
(* What was paged out *)

\* A processor that runs after paging and collapse keeps the page keys together.
LEMMA TurnKeeps ==
  ASSUME NEW in \in Input, NEW p \in Processor, p \notin {"paging", "collapse"},
         NEW q, q.chunks \in Seq(RAGChunk), NEW next, Turns(in, p, q, next)
  PROVE  KeepsRefs(next.chunks, q.chunks)
<1>1. PICK cs \in Seq(RAGChunk) : cs = q.chunks
  OBVIOUS
<1>2. DOMAIN cs = 1..Len(cs) /\ \A i \in 1..Len(cs) : cs[i] \in RAGChunk
  BY LenProperties, ElementOfSeq
<1>3. KeepsRefs(cs, cs)
  BY DEF KeepsRefs
<1>4. ASSUME NEW ds, ds = [i \in DOMAIN cs |-> ds[i]],
             \A i \in 1..Len(cs) : Reworked(ds[i], cs[i])
      PROVE  ds \in Seq(RAGChunk) /\ KeepsRefs(ds, cs)
  BY <1>4, MappedChunks DEF StandFor
<1>5. PICK ds : ds = next.chunks
  OBVIOUS
<1>6. CASE ds = cs
  BY <1>1, <1>3, <1>5, <1>6
<1>7. CASE ds # cs
  <2>1. ~Skipped(in, p, q) /\ ds = ChunksAfter(in, p, q)
    BY <1>1, <1>5, <1>7 DEF Turns
  <2>2. CASE p = "compact"
    <3> DEFINE es == [i \in DOMAIN cs |-> CompactChunk(cs[i])]
    <3>1. ds = es
      BY <1>1, <2>1, <2>2 DEF ChunksAfter, Target
    <3>2. \A i \in 1..Len(cs) : Reworked(es[i], cs[i])
      BY <1>2, PlainRewrites
    <3>3. es = [i \in DOMAIN cs |-> es[i]]
      OBVIOUS
    <3> HIDE DEF es
    <3>4. QED
      BY <1>1, <1>4, <1>5, <3>1, <3>2, <3>3
  <2>3. CASE p = "sanitize"
    <3> DEFINE es == [i \in DOMAIN cs |-> SanitizeChunk(cs[i])]
    <3>1. ds = es
      BY <1>1, <2>1, <2>3 DEF ChunksAfter, Target
    <3>2. \A i \in 1..Len(cs) : Reworked(es[i], cs[i])
      BY <1>2, PlainRewrites
    <3>3. es = [i \in DOMAIN cs |-> es[i]]
      OBVIOUS
    <3> HIDE DEF es
    <3>4. QED
      BY <1>1, <1>4, <1>5, <3>1, <3>2, <3>3
  <2>4. CASE p = "canonicalize"
    <3> DEFINE es == [i \in DOMAIN cs |-> PreprocessChunk(cs[i])]
    <3>1. ds = StableChunks(es)
      BY <1>1, <2>1, <2>4 DEF ChunksAfter, Target
    <3>2. \A i \in 1..Len(cs) : Reworked(es[i], cs[i])
      BY <1>2, PreprocessedChunk
    <3>3. es = [i \in DOMAIN cs |-> es[i]]
      OBVIOUS
    <3> HIDE DEF es
    <3>4. es \in Seq(RAGChunk) /\ KeepsRefs(es, cs)
      BY <1>4, <3>2, <3>3
    <3>5. KeepsRefs(StableChunks(es), es)
      BY <3>4, StableChunksFacts
    <3>6. KeepsRefs(ds, cs)
      BY <3>1, <3>4, <3>5, KeepsRefsTransitive
    <3>7. QED
      BY <1>1, <1>5, <3>6
  <2>5. CASE p \in DOMAIN Target
    <3>1. PICK type \in {"json", "table", "code", "error-stack"} : type = Target[p]
      BY <2>5 DEF Target
    <3> DEFINE es == [i \in DOMAIN cs |-> ReduceChunk(cs[i], type)]
    <3>2. ds = es
      BY <1>1, <2>1, <2>5, <3>1 DEF ChunksAfter, Target
    <3>3. \A i \in 1..Len(cs) : Reworked(es[i], cs[i])
      BY <1>2, ReducedChunk
    <3>4. es = [i \in DOMAIN cs |-> es[i]]
      OBVIOUS
    <3> HIDE DEF es
    <3>5. QED
      BY <1>1, <1>4, <1>5, <3>2, <3>3, <3>4
  <2>6. CASE p = "snip"
    <3>1. ds = Snippets(q, in)
      BY <2>1, <2>6 DEF ChunksAfter, Target
    <3>2. in.policy.head \in Nat /\ in.policy.tail \in Nat
      BY GivenFacts
    <3>3. Len(q.chunks) \in 0..Len(q.chunks)
      BY LenProperties
    <3>4. KeepsRefs(Snippets(q, in), q.chunks)
      BY <3>2, <3>3, SnipStepsExist DEF Snippets
    <3>5. QED
      BY <1>5, <3>1, <3>4
  <2>7. CASE p = "auto_compact_sync" /\ q.tokens > in.budget /\ q.tokens > Limit(in)
    <3> DEFINE es == [i \in DOMAIN cs |-> SafeCompactChunk(cs[i])]
    <3>1. ds = es
      BY <1>1, <2>1, <2>7 DEF ChunksAfter, Target
    <3>2. \A i \in 1..Len(cs) : Reworked(es[i], cs[i])
      BY <1>2, SafelyCompacted
    <3>3. es = [i \in DOMAIN cs |-> es[i]]
      OBVIOUS
    <3> HIDE DEF es
    <3>4. QED
      BY <1>1, <1>4, <1>5, <3>1, <3>2, <3>3
  <2>8. QED
    BY <1>1, <1>7, <2>1, <2>2, <2>3, <2>4, <2>5, <2>6, <2>7 DEF ChunksAfter
<1>8. QED
  BY <1>6, <1>7

\* A chunk of the request as it was sent, cut into pages.
Cut(in, c) == c \in ToSet(StableChunks(in.chunks)) /\ Oversized(c)

\* Some chunk of cs has the keys of all pages of c.
Bears(cs, c) ==
  \E k \in 1..Len(cs) : \A n \in DOMAIN PagesOf(c) : PagesOf(c)[n].key \in ToSet(cs[k].refs)

\* Whatever keeps the page keys together keeps those of c together.
LEMMA BearsStill ==
  ASSUME NEW cs, NEW ds, NEW c, Bears(cs, c), KeepsRefs(ds, cs)
  PROVE  Bears(ds, c)
<1>1. PICK k \in 1..Len(cs) : \A n \in DOMAIN PagesOf(c) : PagesOf(c)[n].key \in ToSet(cs[k].refs)
  BY DEF Bears
<1>2. PICK m \in 1..Len(ds) : ToSet(cs[k].refs) \subseteq ToSet(ds[m].refs)
  BY DEF KeepsRefs
<1>3. \A n \in DOMAIN PagesOf(c) : PagesOf(c)[n].key \in ToSet(ds[m].refs)
  BY <1>1, <1>2
<1>4. QED
  BY <1>3 DEF Bears

\* Paging hands on the first page of a chunk with the keys of all its pages.
LEMMA FirstPagesBear ==
  ASSUME NEW cs \in Seq(RAGChunk), NEW c \in ToSet(cs), Oversized(c)
  PROVE  Bears(FirstPages(cs), c)
<1>1. PICK n \in Nat : n = Len(cs) /\ DOMAIN cs = 1..n /\ \A i \in 1..n : cs[i] \in RAGChunk
  BY LenProperties, ElementOfSeq
<1>2. PICK i \in 1..n : c = cs[i]
  BY <1>1 DEF ToSet
<1>3. c \in RAGChunk
  BY <1>1, <1>2
<1>4. PICK ds : ds = FirstPages(cs)
  OBVIOUS
<1>5. Len(ds) = n
  <2>1. ds \in [1..n -> {IF Oversized(cs[j]) THEN FirstPage(cs[j]) ELSE cs[j] : j \in 1..n}]
    BY <1>1, <1>4 DEF FirstPages
  <2>2. QED
    BY <2>1, FunctionIsSequence
<1>6. ds[i] = FirstPage(c)
  BY <1>1, <1>2, <1>4 DEF FirstPages
<1>7. PICK m : m = Len(PagesOf(c)) /\ DOMAIN PagesOf(c) = 1..m
               /\ FirstPage(c).refs = [k \in 1..m |-> PagesOf(c)[k].key]
  BY <1>3, FirstPageFacts
<1>8. \A k \in DOMAIN PagesOf(c) : PagesOf(c)[k].key \in ToSet(ds[i].refs)
  BY <1>6, <1>7 DEF ToSet
<1>9. QED
  BY <1>4, <1>5, <1>8 DEF Bears

\* Whoever pages goes first, and runs if a chunk is too large.
LEMMA PagingRuns ==
  ASSUME PagesFirst, NEW in \in Input, PagesOut(in), NEW f, NEW n \in Nat,
         n = Len(in.policy.steps), Course(in, f, n), NEW c, Cut(in, c)
  PROVE  /\ n >= 1 /\ in.policy.steps[1] = "paging"
         /\ f[1].chunks = FirstPages(StableChunks(in.chunks))
<1>1. PICK steps \in Seq(Processor) : steps = in.policy.steps
  BY GivenFacts
<1>2. DOMAIN steps = 1..n
  BY <1>1, LenProperties
<1>3. 1 \in 1..n /\ steps[1] = "paging"
  <2>1. PICK i \in 1..n : steps[i] = "paging"
    BY <1>1, <1>2 DEF PagesOut, ToSet
  <2>2. i = 1
    BY <1>1, <1>2, <2>1 DEF PagesFirst
  <2>3. QED
    BY <2>1, <2>2
<1>4. PICK q : q = f[0]
  OBVIOUS
<1>5. /\ q.chunks = StableChunks(in.chunks) /\ q.messages = in.messages
      /\ q.prompt = None /\ q.tokens = CountRequest(q)
  BY <1>4 DEF Course, Held
<1>6. in.chunks \in Seq(RAGChunk) /\ in.messages \in Seq(Message)
  <2>1. \A d \in ClientChunk : d \in RAGChunk
    BY DEF ClientChunk
  <2>2. in.chunks \in Seq(ClientChunk)
    BY InputAssumption
  <2>3. QED
    BY <2>1, <2>2, InputAssumption
<1>7. /\ c \in RAGChunk /\ ChunkTokens(c) \in Nat
      /\ ChunkTokens(c) <= PromptTokens(AssemblePrompt(StableChunks(in.chunks), in.messages))
  BY <1>6, ChunkInPrompt DEF Cut
<1>8. q.tokens = PromptTokens(AssemblePrompt(StableChunks(in.chunks), in.messages))
  BY <1>5 DEF CountRequest
<1>9. ChunkTokens(c) > PageLimit
  BY DEF Cut, Oversized
<1>10. ~Skipped(in, "paging", q)
  <2>1. "paging" \notin Aggressive
    BY DEF Aggressive
  <2>2. ~(q.tokens < MinTrigger["paging"])
    <3>1. MinTrigger["paging"] \in Nat /\ MinTrigger["paging"] <= PageLimit + 1
      BY TriggerAssumption DEF PagesFirst, Processor, StructuredOnly
    <3>2. PageLimit \in Nat
      BY PageLimitAssumption
    <3>3. q.tokens \in Nat
      <4>1. StableChunks(in.chunks) \in Seq(RAGChunk)
        BY <1>6, StableElements
      <4>2. AssemblePrompt(StableChunks(in.chunks), in.messages) \in Prompt
        BY <1>6, <4>1, AssembledPrompt
      <4>3. QED
        BY <1>8, <4>2, TokensAreNat
    <3>4. QED
      BY <1>7, <1>8, <1>9, <3>1, <3>2, <3>3
  <2>3. c.frags # << >>
    <3> SUFFICES ASSUME c.frags = << >> PROVE FALSE
      OBVIOUS
    <3>1. TextOf(c.frags) = << >>
      <4>1. PICK w : w = [x \in RAGFragment |-> Rendered(x)]
        OBVIOUS
      <4>2. PICK D : Text = Seq(D)
        BY DEF Text
      <4>3. w \in Giving(RAGFragment, D)
        BY <4>1, <4>2, RenderedIsText DEF Giving
      <4>4. Flat(w, << >>) = << >>
        BY <4>3, FlatEmpty
      <4>5. TextOf(<< >>) = Flat(w, << >>)
        <5>1. [i \in DOMAIN << >> |-> Rendered(<< >>[i])] = [i \in DOMAIN << >> |-> w[<< >>[i]]]
          OBVIOUS
        <5>2. QED
          BY <5>1 DEF TextOf, Flat
      <4>6. QED
        BY <4>4, <4>5
    <3>2. ChunkTokens(c) = 0
      BY <3>1 DEF ChunkTokens
    <3>3. QED
      BY <1>9, <3>2, PageLimitAssumption
  <2>4. \E i \in DOMAIN q.chunks : q.chunks[i].frags # << >>
    <3>1. PICK i \in DOMAIN q.chunks : q.chunks[i] = c
      BY <1>5 DEF Cut, ToSet
    <3>2. QED
      BY <2>3, <3>1
  <2>5. QED
    BY <2>1, <2>2, <2>4 DEF Skipped
<1>11. Turns(in, "paging", q, f[1])
  <2>1. Turns(in, in.policy.steps[1], f[1 - 1], f[1])
    BY <1>3 DEF Course
  <2>2. QED
    BY <1>1, <1>3, <1>4, <2>1
<1>12. f[1].chunks = FirstPages(q.chunks)
  BY <1>10, <1>11 DEF Turns, ChunksAfter, Target
<1>13. QED
  BY <1>1, <1>3, <1>5, <1>12

\* From paging on, the keys of the pages of a chunk stay together on some chunk.
LEMMA CourseBears ==
  ASSUME PagesFirst, CopiesTell, NEW in \in Input, PagesOut(in), NEW f, NEW n \in Nat,
         n = Len(in.policy.steps), Course(in, f, n), NEW c, Cut(in, c)
  PROVE  Bears(f[n].chunks, c)
<1>1. PICK cs \in Seq(RAGChunk) : cs = StableChunks(in.chunks)
  <2>1. \A d \in ClientChunk : d \in RAGChunk
    BY DEF ClientChunk
  <2>2. in.chunks \in Seq(RAGChunk)
    BY <2>1, InputAssumption
  <2>3. QED
    BY <2>2, StableElements
<1>2. n >= 1 /\ f[1].chunks = FirstPages(cs)
  BY <1>1, PagingRuns
<1>3. Bears(f[1].chunks, c)
  BY <1>1, <1>2, FirstPagesBear DEF Cut
<1>4. PICK steps \in Seq(Processor) : steps = in.policy.steps /\ DOMAIN steps = 1..n
  BY GivenFacts, LenProperties
<1>5. ASSUME NEW i \in 2..n, NEW j, j = i - 1, Bears(f[j].chunks, c)
      PROVE  Bears(f[i].chunks, c)
  <2>1. i \in 1..n /\ j \in 0..n /\ i # 1 /\ (i = 2 => j = 1)
    BY <1>5
  <2>2. PICK p \in Processor : p = steps[i]
    BY <1>4, <2>1, ElementOfSeq
  <2>3. p # "paging" /\ (p = "collapse" => i = 2)
    BY <1>4, <2>1, <2>2 DEF PagesFirst
  <2>4. Turns(in, p, f[j], f[i]) /\ f[j].chunks \in Seq(RAGChunk)
    <3>1. Turns(in, in.policy.steps[i], f[i - 1], f[i])
      BY <2>1 DEF Course
    <3>2. Held(f[j])
      BY <2>1 DEF Course
    <3>3. QED
      BY <1>4, <1>5, <2>2, <3>1, <3>2 DEF Held
  <2>5. CASE p # "collapse"
    <3>1. KeepsRefs(f[i].chunks, f[j].chunks)
      BY <2>3, <2>4, <2>5, TurnKeeps
    <3>2. QED
      BY <1>5, <3>1, BearsStill
  <2>6. CASE p = "collapse"
    <3>1. PICK ds : ds = f[j].chunks /\ ds = FirstPages(cs) /\ ds \in Seq(RAGChunk)
      BY <1>2, <2>1, <2>3, <2>4, <2>6
    <3>2. CopiesAgree(ds)
      BY <1>1, <3>1 DEF CopiesTell, CopiesAgree
    <3>3. KeepsRefs(CollapseChunks(ds), ds) /\ KeepsRefs(ds, ds)
      BY <3>1, <3>2, CollapsedChunks DEF KeepsRefs
    <3>4. f[i].chunks = ds \/ f[i].chunks = CollapseChunks(ds)
      BY <2>4, <2>6, <3>1 DEF Turns, ChunksAfter, Target
    <3>5. KeepsRefs(f[i].chunks, ds)
      BY <3>3, <3>4
    <3>6. QED
      BY <1>5, <3>1, <3>5, BearsStill
  <2>7. QED
    BY <2>5, <2>6
<1> DEFINE S == {k \in Nat : k + 1 <= n => Bears(f[k + 1].chunks, c)}
<1>6. 0 \in S
  BY <1>3
<1>7. ASSUME NEW k \in Nat, k \in S
      PROVE  k + 1 \in S
  <2> SUFFICES ASSUME k + 2 <= n PROVE Bears(f[k + 2].chunks, c)
    <3>1. (k + 1) + 1 = k + 2
      OBVIOUS
    <3>2. QED
      BY <3>1
  <2>1. k + 2 \in 2..n /\ k + 1 = (k + 2) - 1 /\ k + 1 <= n
    OBVIOUS
  <2>2. Bears(f[k + 1].chunks, c)
    BY <1>7, <2>1
  <2>3. QED
    BY <1>5, <2>1, <2>2
<1>8. n - 1 \in S
  <2> HIDE DEF S
  <2>1. n - 1 \in Nat
    BY <1>2
  <2>2. QED
    BY <1>6, <1>7, <2>1, Induction
<1>9. QED
  <2>1. (n - 1) + 1 = n
    OBVIOUS
  <2>2. QED
    BY <1>8, <2>1

----------------------------------------------------------------------------
(* What is in the page store *)

\* A page of a chunk that some client sent for paging.
IsPage(page) ==
  \E in \in Input : PagesOut(in) /\
    \E c : Cut(in, c) /\ \E n \in DOMAIN PagesOf(c) : page = PagesOf(c)[n]

\* Nothing else is in the store, and each page is under its own key.
StoreInv == \A k \in DOMAIN pages : IsPage([key |-> k, text |-> pages[k]])

\* What paging saves are pages of the chunks that the request has.
LEMMA SavesArePages ==
  ASSUME NEW S, NEW r \in Request, req[r].chunks \in Seq(RAGChunk),
         \A c \in ToSet(req[r].chunks) : Oversized(c) => PagesOf(c) \in Seq(S)
  PROVE  PagesToSave(r) \in Seq(S)
<1> DEFINE I == {i \in DOMAIN req[r].chunks : Oversized(req[r].chunks[i])}
<1>1. PICK cs \in Seq(RAGChunk) : cs = req[r].chunks
  OBVIOUS
<1>2. PICK large : large = Pick(cs, I)
  OBVIOUS
<1>3. PICK books : books = [i \in DOMAIN large |-> PagesOf(large[i])]
  OBVIOUS
<1>4. PagesToSave(r) = FlattenSeq(books)
  BY <1>1, <1>2, <1>3 DEF PagesToSave
<1>5. /\ large \in Seq(RAGChunk)
      /\ \A k \in 1..Len(large) : \E i \in 1..Len(cs) : i \in I /\ large[k] = cs[i]
  <2> HIDE DEF I
  <2>1. QED
    BY <1>2, PickFacts
<1>6. \A k \in 1..Len(large) : PagesOf(large[k]) \in Seq(S)
  <2> SUFFICES ASSUME NEW k \in 1..Len(large) PROVE PagesOf(large[k]) \in Seq(S)
    OBVIOUS
  <2>1. PICK i \in 1..Len(cs) : i \in I /\ large[k] = cs[i]
    BY <1>5
  <2>2. Oversized(cs[i]) /\ cs[i] \in ToSet(cs)
    BY <1>1, <2>1 DEF ToSet
  <2>3. QED
    BY <1>1, <2>1, <2>2
<1>7. books \in Seq(Seq(S))
  <2>1. books = [i \in DOMAIN large |-> books[i]] /\ \A i \in 1..Len(large) : books[i] \in Seq(S)
    BY <1>3, <1>5, <1>6, LenProperties
  <2>2. QED
    BY <1>5, <2>1, MappedList
<1>8. QED
  BY <1>4, <1>7, FlattenFacts

\* A request that pages out still has its chunks as they were sent.
LEMMA PagesAtFirst ==
  ASSUME PagesFirst, DataInv, CourseInv, NEW r \in Request, Turn(r, "paging")
  PROVE  input[r] \in Input /\ PagesOut(input[r]) /\ req[r].chunks = StableChunks(input[r].chunks)
<1>1. PICK in \in Input : in = input[r]
  BY DEF DataInv
<1>2. PICK steps \in Seq(Processor) : steps = in.policy.steps /\ steps = Steps(r)
  BY <1>1, GivenFacts DEF Steps, Policy
<1>3. at[r] \in DOMAIN steps /\ steps[at[r]] = "paging" /\ status[r] = "running"
  <2>1. at[r] \in Nat \ {0} /\ Len(steps) \in Nat
    BY <1>2, LenProperties DEF DataInv
  <2>2. at[r] <= Len(steps) /\ steps[at[r]] = "paging" /\ status[r] = "running"
    BY <1>2 DEF Turn
  <2>3. DOMAIN steps = 1..Len(steps)
    BY <1>2, LenProperties
  <2>4. QED
    BY <2>1, <2>2, <2>3
<1>4. PagesOut(in)
  BY <1>2, <1>3 DEF PagesOut, ToSet
<1>5. at[r] = 1
  BY <1>1, <1>2, <1>3, <1>4 DEF PagesFirst
<1>6. PICK f : Course(in, f, at[r] - 1) /\ f[at[r] - 1] = req[r]
  BY <1>1, <1>3 DEF CourseInv, OnCourse
<1>7. f[0] = req[r]
  <2>1. at[r] - 1 = 0
    BY <1>5
  <2>2. QED
    BY <1>6, <2>1
<1>8. QED
  BY <1>1, <1>4, <1>6, <1>7 DEF Course

\* The page that is saved next is one.
LEMMA NextIsPage ==
  ASSUME PagesFirst, DataInv, CourseInv, NEW r \in Request, Turn(r, "paging"),
         done[r] < Len(PagesToSave(r))
  PROVE  IsPage(PagesToSave(r)[done[r] + 1]) /\ PagesToSave(r)[done[r] + 1] \in [key : PageRef, text : Text]
<1> DEFINE S == {page \in [key : PageRef, text : Text] : IsPage(page)}
<1>1. PICK in \in Input : in = input[r] /\ PagesOut(in) /\ req[r].chunks = StableChunks(in.chunks)
  BY PagesAtFirst
<1>2. req[r].chunks \in Seq(RAGChunk) /\ done[r] \in Nat
  BY DEF DataInv, RequestInv
<1>3. \A c \in ToSet(req[r].chunks) : Oversized(c) => PagesOf(c) \in Seq(S)
  <2> SUFFICES ASSUME NEW c \in ToSet(req[r].chunks), Oversized(c) PROVE PagesOf(c) \in Seq(S)
    OBVIOUS
  <2>1. c \in RAGChunk
    BY <1>2, LenProperties, ElementOfSeq DEF ToSet
  <2>2. PICK m : /\ m \in Nat /\ DOMAIN PagesOf(c) = 1..m
                 /\ \A k \in 1..m : PagesOf(c)[k].key \in PageRef /\ PagesOf(c)[k].text \in Text
    BY <2>1, FirstPageFacts
  <2>3. PICK saved : saved = PagesOf(c)
    OBVIOUS
  <2>4. saved = [k \in 1..m |-> saved[k]] /\ \A k \in 1..m : saved[k] \in [key : PageRef, text : Text]
    <3>1. DOMAIN Paginate(c.frags) = 1..m
      BY <2>2 DEF PagesOf
    <3>2. saved = [k \in 1..m |-> [key |-> PageKey(c, k), text |-> TextOf(Paginate(c.frags)[k])]]
      BY <2>3, <3>1 DEF PagesOf
    <3>3. \A k \in 1..m : saved[k] = [key |-> saved[k].key, text |-> saved[k].text]
      BY <3>2
    <3>4. saved = [k \in 1..m |-> saved[k]]
      BY <3>2
    <3>5. ASSUME NEW k \in 1..m
          PROVE  saved[k] \in [key : PageRef, text : Text]
      <4>1. saved[k].key \in PageRef /\ saved[k].text \in Text
        BY <2>2, <2>3
      <4>2. [key |-> saved[k].key, text |-> saved[k].text] \in [key : PageRef, text : Text]
        BY <4>1
      <4>3. saved[k] = [key |-> saved[k].key, text |-> saved[k].text]
        BY <3>3
      <4>4. QED
        BY <4>2, <4>3, Zenon
    <3>6. QED
      BY <3>4, <3>5
  <2>5. Cut(in, c)
    BY <1>1 DEF Cut
  <2>6. \A k \in 1..m : IsPage(saved[k])
    BY <1>1, <2>2, <2>3, <2>5 DEF IsPage
  <2>7. saved \in [1..m -> S]
    BY <2>4, <2>6
  <2>8. saved \in Seq(S)
    <3> HIDE DEF S
    <3>1. QED
      BY <2>2, <2>7, FunctionIsSequence
  <2>9. QED
    BY <2>3, <2>8
<1> HIDE DEF S
<1>4. PagesToSave(r) \in Seq(S)
  BY <1>2, <1>3, SavesArePages
<1>5. done[r] + 1 \in 1..Len(PagesToSave(r))
  BY <1>2, <1>4, LenProperties
<1>6. PagesToSave(r)[done[r] + 1] \in S
  BY <1>4, <1>5, ElementOfSeq
<1>7. QED
  BY <1>6 DEF S

\* SETNX puts a page under its key, or leaves the one that is there.
LEMMA SavedIsPage ==
  ASSUME StoreInv, NEW page \in [key : PageRef, text : Text], IsPage(page), pages' = Saved(page)
  PROVE  StoreInv'
<1>1. pages' = [k \in DOMAIN pages \cup {page.key} |->
                  IF k \in DOMAIN pages THEN pages[k] ELSE page.text]
  BY DEF Saved
<1>2. page = [key |-> page.key, text |-> page.text]
  OBVIOUS
<1>3. ASSUME NEW k \in DOMAIN pages'
      PROVE  IsPage([key |-> k, text |-> pages'[k]])
  <2>1. CASE k \in DOMAIN pages
    BY <1>1, <2>1 DEF StoreInv
  <2>2. CASE k \notin DOMAIN pages
    <3>1. k = page.key /\ pages'[k] = page.text
      BY <1>1, <1>3, <2>2
    <3>2. [key |-> k, text |-> pages'[k]] = page
      BY <1>2, <3>1
    <3>3. QED
      BY <3>2
  <2>3. QED
    BY <2>1, <2>2
<1>4. QED
  BY <1>3 DEF StoreInv, IsPage

\* At first the store is empty.
LEMMA InitStoreInv == Init => StoreInv
BY DEF Init, StoreInv

\* Only paging adds to the store.
LEMMA StoreInductive ==
  ASSUME PagesFirst, Inv, DataInv, CourseInv, StoreInv, [Next]_vars
  PROVE  StoreInv'
<1>1. CASE UNCHANGED pages
  BY <1>1 DEF StoreInv, IsPage
<1>2. CASE UNCHANGED vars
  BY <1>1, <1>2 DEF vars
<1>3. ASSUME NEW r \in Request, Step(r)
      PROVE  StoreInv'
  <2>1. CASE PageOut(r) \/ PageOutFails(r)
    <3>1. Turn(r, "paging") /\ done[r] < Len(PagesToSave(r))
      BY <2>1 DEF PageOut, PageOutFails, Runs
    <3>2. PICK page \in [key : PageRef, text : Text] :
            page = PagesToSave(r)[done[r] + 1] /\ IsPage(page)
      BY <3>1, NextIsPage
    <3>3. pages' = pages \/ pages' = Saved(page)
      BY <2>1, <3>2 DEF PageOut, PageOutFails
    <3>4. QED
      BY <1>1, <3>2, <3>3, SavedIsPage
  <2>2. CASE \/ Accept(r) \/ Skip(r) \/ Respond(r) \/ Enqueue(r)
             \/ EnqueueFails(r) \/ PrefixCacheFails(r)
    BY <1>1, <2>2 DEF Accept, Skip, Respond, Enqueue, EnqueueFails, PrefixCacheFails
  <2>3. CASE \/ Paging(r) \/ Collapse(r) \/ Compact(r) \/ Sanitize(r) \/ Canonicalize(r)
             \/ \E p \in DOMAIN Target : Transform(r, p)
             \/ Snip(r) \/ AutoCompactSync(r) \/ AutoCompactAsync(r)
             \/ PrefixCache(r) \/ Assemble(r)
    <3>1. \E p, next : HandOn(r, p, next)
      BY <2>3, ProcessorsAdvance DEF Advances
    <3>2. QED
      BY <1>1, <3>1 DEF HandOn
  <2>4. QED
    BY <1>3, <2>1, <2>2, <2>3 DEF Step, Fails
<1>4. QED
  BY <1>2, <1>3 DEF Next

\* Paging loses nothing: once a chunk is paged out, whatever processors come later and
\* whatever other requests save, the response has the keys of all its pages together, and
\* what is saved under them reads back as the text of the chunk (paginateChunk, SETNX).
\* Of the conditions, which the run evaluates, CopiesTell is the one that inputs with two
\* editions of a document break: run lost_pages.
THEOREM PagingLosesNothing ==
  ASSUME LabelsApart, PagesFirst, KeysTell, CopiesTell
  PROVE  Spec => []PagedOutIsReachable
<1>1. ASSUME DataInv, CourseInv, StoreInv
      PROVE  PagedOutIsReachable
  <2> SUFFICES ASSUME NEW r \in Request, Response(r), "paging" \in ToSet(Steps(r)),
                      NEW c \in ToSet(Given(r)), Oversized(c)
               PROVE  \E o \in ToSet(req[r].chunks) :
                        LET keys == [n \in DOMAIN PagesOf(c) |-> PageKey(c, n)]
                        IN  /\ ToSet(keys) \subseteq ToSet(o.refs)
                            /\ FlattenSeq([n \in DOMAIN keys |-> Words(pages[keys[n]])])
                                 = Words(TextOf(c.frags))
    BY DEF PagedOutIsReachable
  <2>1. PICK in \in Input : in = input[r] /\ PagesOut(in)
    BY <1>1 DEF DataInv, PagesOut, Steps, Policy
  <2>2. PICK n \in Nat : n = Len(in.policy.steps) /\ n = Len(Steps(r))
    BY <2>1, GivenFacts, LenProperties DEF Steps, Policy
  <2>3. PICK f : Course(in, f, n) /\ f[n].chunks = req[r].chunks
    BY <1>1, <2>1, <2>2 DEF CourseInv, OnCourse, Response
  <2>4. Cut(in, c) /\ c \in RAGChunk
    <3>1. c \in ToSet(StableChunks(in.chunks))
      BY <2>1 DEF Given, MapRequest
    <3>2. StableChunks(in.chunks) \in Seq(RAGChunk)
      BY GivenFacts DEF StandFor
    <3>3. c \in RAGChunk
      BY <3>1, <3>2, LenProperties, ElementOfSeq DEF ToSet
    <3>4. QED
      BY <3>1, <3>3 DEF Cut
  <2>5. PICK saved : saved = PagesOf(c)
    OBVIOUS
  <2>6. PICK cs \in Seq(RAGChunk) : cs = req[r].chunks /\ Paged(cs)
    BY <1>1 DEF DataInv, RequestInv
  <2>7. PICK k \in 1..Len(cs) : \A m \in DOMAIN saved : saved[m].key \in ToSet(cs[k].refs)
    <3>1. Bears(f[n].chunks, c)
      BY <2>1, <2>2, <2>3, <2>4, CourseBears
    <3>2. QED
      BY <2>3, <2>5, <2>6, <3>1 DEF Bears
  <2>8. PICK keys : keys = [m \in DOMAIN saved |-> PageKey(c, m)]
    OBVIOUS
  <2>9. \A m \in DOMAIN saved : keys[m] = saved[m].key
    BY <2>5, <2>8 DEF PagesOf
  <2>10. ToSet(keys) \subseteq ToSet(cs[k].refs)
    BY <2>7, <2>8, <2>9 DEF ToSet
  <2>11. ASSUME NEW m \in DOMAIN saved
         PROVE  pages[keys[m]] = saved[m].text
    <3>1. keys[m] \in DOMAIN pages
      BY <2>6, <2>7, <2>9 DEF Paged
    <3>2. IsPage([key |-> keys[m], text |-> pages[keys[m]]])
      BY <1>1, <3>1 DEF StoreInv
    <3>3. PICK b \in Input :
            /\ PagesOut(b)
            /\ \E d : Cut(b, d) /\ \E j \in DOMAIN PagesOf(d) :
                 [key |-> keys[m], text |-> pages[keys[m]]] = PagesOf(d)[j]
      BY <3>2 DEF IsPage
    <3>4. PICK d : Cut(b, d) /\ \E j \in DOMAIN PagesOf(d) :
                     [key |-> keys[m], text |-> pages[keys[m]]] = PagesOf(d)[j]
      BY <3>3
    <3>5. PICK j \in DOMAIN PagesOf(d) :
            [key |-> keys[m], text |-> pages[keys[m]]] = PagesOf(d)[j]
      BY <3>4
    <3>6. PagesOf(d)[j].key = keys[m] /\ PagesOf(d)[j].text = pages[keys[m]]
      BY <3>5
    <3>7. PageKey(d, j) = PageKey(c, m)
      <4>1. PagesOf(d)[j].key = PageKey(d, j)
        BY <3>5 DEF PagesOf
      <4>2. QED
        BY <2>8, <3>6, <4>1
    <3>8. j = m /\ PageKey(d, 1) = PageKey(c, 1)
      BY <3>7 DEF PageKey
    <3>9. PagesOf(d) = saved
      BY <2>1, <2>4, <2>5, <3>3, <3>4, <3>8 DEF KeysTell, Cut
    <3>10. QED
      BY <3>6, <3>8, <3>9
  <2>12. FlattenSeq([m \in DOMAIN keys |-> Words(pages[keys[m]])]) = Words(TextOf(c.frags))
    <3>1. [m \in DOMAIN keys |-> Words(pages[keys[m]])]
            = [m \in DOMAIN saved |-> Words(saved[m].text)]
      BY <2>8, <2>11
    <3>2. QED
      BY <2>4, <2>5, <3>1, PagesReadBack
  <2>13. cs[k] \in ToSet(req[r].chunks)
    BY <2>6, LenProperties DEF ToSet
  <2>14. QED
    BY <2>5, <2>8, <2>10, <2>12, <2>13
<1>2. Inv /\ DataInv /\ CourseInv /\ StoreInv /\ [Next]_vars => StoreInv'
  BY StoreInductive
<1>3. Inv /\ DataInv /\ Inv' /\ DataInv' /\ CourseInv /\ [Next]_vars => CourseInv'
  BY CourseInductive
<1>4. QED
  BY <1>1, <1>2, <1>3, InitInv, Inductive, InitDataInv, DataInductive, InitCourseInv,
     InitStoreInv, PTL DEF Spec

----------------------------------------------------------------------------
(* What came in, and how it shrank *)

\* The tokens of a request are a number.
Countable == \A r \in Request : req[r].tokens \in Nat

LEMMA TokensFacts == Inv /\ DataInv => Countable
<1> SUFFICES ASSUME Inv, DataInv, NEW r \in Request PROVE req[r].tokens \in Nat
  BY DEF Countable
<1>1. CASE status[r] = "new"
  BY <1>1 DEF DataInv, RequestInv
<1>2. CASE status[r] # "new"
  <2>1. req[r].tokens = CountRequest(req[r])
    BY <1>2 DEF Inv
  <2>2. /\ req[r].prompt \in Prompt
        /\ AssemblePrompt(req[r].chunks, req[r].messages) \in Prompt
    BY RequestFacts, AssembledPrompt
  <2>3. CountRequest(req[r]) \in Nat
    BY <2>2, TokensAreNat DEF CountRequest
  <2>4. QED
    BY <2>1, <2>3
<1>3. QED
  BY <1>1, <1>2

\* The input tokens stay those of what came in, and audits end with numbers.
Counted(r) ==
  /\ status[r] = "new" => req[r] = MapRequest(input[r])
  /\ status[r] # "new" =>
       /\ req[r].inputTokens = CountRequest(MapRequest(input[r]))
       /\ \A i \in DOMAIN req[r].audits : req[r].audits[i].after \in Nat
CountInv == \A r \in Request : Counted(r)

\* At first there is only what came in.
LEMMA InitCountInv == Init => CountInv
BY DEF Init, CountInv, Counted

\* A request whose books and status stay as they are stays counted.
LEMMA UntouchedCounted ==
  ASSUME NEW r \in Request, Counted(r), UNCHANGED input,
         status'[r] = status[r] \/ (status[r] # "new" /\ status'[r] # "new"),
         \/ req'[r] = req[r]
         \/ /\ status[r] # "new"
            /\ req'[r].inputTokens = req[r].inputTokens /\ req'[r].audits = req[r].audits
  PROVE  Counted(r)'
BY DEF Counted

\* What a processor hands on is counted.
LEMMA HandsOnCounted ==
  ASSUME Inv, CountInv, NEW r \in Request, status[r] # "new", HandsOn(r), req'[r].tokens \in Nat
  PROVE  CountInv'
<1>1. PICK p, next : KeepsBooks(req[r], next) /\ HandOn(r, p, next)
  BY DEF HandsOn
<1> DEFINE audit == [name |-> p, before |-> req[r].tokens, after |-> next.tokens]
           old == req[r].audits
           booked == [next EXCEPT !.audits = Append(@, audit)]
<1>2. req' = [req EXCEPT ![r] = booked] /\ UNCHANGED <<status, input>>
  BY <1>1 DEF HandOn
<1>3. /\ booked.audits = Append(old, audit)
      /\ booked.inputTokens = req[r].inputTokens /\ booked.tokens = next.tokens
  BY <1>1 DEF KeepsBooks, Fields
<1>4. /\ Len(old) \in Nat /\ DOMAIN old = 1..Len(old)
      /\ DOMAIN Append(old, audit) = 1..(Len(old) + 1)
      /\ Append(old, audit)[Len(old) + 1] = audit
      /\ \A i \in 1..Len(old) : Append(old, audit)[i] = old[i]
  BY AppendFacts DEF Inv
<1>5. audit.after = next.tokens
  OBVIOUS
<1> HIDE DEF audit, booked
<1>6. req'[r] = booked /\ \A s \in Request \ {r} : req'[s] = req[s]
  BY <1>2 DEF Inv
<1>7. \A i \in DOMAIN booked.audits : booked.audits[i].after \in Nat
  <2>1. \A i \in DOMAIN old : old[i].after \in Nat
    BY DEF CountInv, Counted
  <2>2. audit.after \in Nat
    BY <1>3, <1>5, <1>6
  <2>3. QED
    BY <1>3, <1>4, <2>1, <2>2
<1>8. Counted(r)'
  BY <1>2, <1>3, <1>6, <1>7 DEF CountInv, Counted
<1>9. ASSUME NEW s \in Request, s # r
      PROVE  Counted(s)'
  BY <1>2, <1>6, <1>9, UntouchedCounted DEF CountInv
<1>10. QED
  BY <1>8, <1>9 DEF CountInv

\* Accepting a request is what counts it.
LEMMA AcceptCounted ==
  ASSUME Inv, CountInv, NEW r \in Request, Accept(r)
  PROVE  CountInv'
<1>1. /\ status[r] = "new" /\ status' = [status EXCEPT ![r] = "running"] /\ UNCHANGED input
      /\ req' = [req EXCEPT ![r] = [req[r] EXCEPT !.tokens = CountRequest(req[r]),
                                                  !.inputTokens = CountRequest(req[r])]]
  BY DEF Accept, Inv, Fields
<1>2. /\ \A s \in Request \ {r} : req'[s] = req[s] /\ status'[s] = status[s]
      /\ status'[r] = "running"
      /\ req'[r].inputTokens = CountRequest(req[r]) /\ req'[r].audits = << >>
  <2>1. DOMAIN req[r] = Fields /\ req[r].audits = << >>
    BY <1>1 DEF Inv
  <2>2. QED
    BY <1>1, <2>1 DEF Inv, Fields
<1>3. DOMAIN req'[r].audits = {}
  BY <1>2
<1>4. Counted(r)'
  BY <1>1, <1>2, <1>3 DEF CountInv, Counted
<1>5. ASSUME NEW s \in Request, s # r
      PROVE  Counted(s)'
  BY <1>1, <1>2, <1>5, UntouchedCounted DEF CountInv
<1>6. QED
  BY <1>4, <1>5 DEF CountInv

\* No step recounts what came in.
LEMMA CountInductive ==
  ASSUME Inv, CountInv, Countable', [Next]_vars
  PROVE  CountInv'
<1>1. CASE UNCHANGED vars
  BY <1>1, UntouchedCounted DEF CountInv, vars
<1>2. ASSUME NEW r \in Request, Step(r)
      PROVE  CountInv'
  <2>1. CASE Accept(r)
    BY <2>1, AcceptCounted
  <2>2. CASE Skip(r) \/ PageOut(r) \/ Enqueue(r) \/ Fails(r)
    <3>1. UNCHANGED <<input, req>>
      BY <2>2 DEF Skip, PageOut, Enqueue, Fails, PageOutFails, EnqueueFails, PrefixCacheFails, Abort
    <3>2. \A s \in Request : \/ status'[s] = status[s]
                             \/ status[s] # "new" /\ status'[s] # "new"
      BY <2>2 DEF Skip, PageOut, Enqueue, Fails, PageOutFails, EnqueueFails, PrefixCacheFails, Abort,
                  Runs, Turn, Inv
    <3>3. QED
      BY <3>1, <3>2, UntouchedCounted DEF CountInv
  <2>3. CASE Respond(r)
    <3> DEFINE full == [req[r] EXCEPT !.prompt = AssemblePrompt(req[r].chunks, req[r].messages)]
               q == IF req[r].prompt # None THEN req[r] ELSE Recounted(full)
    <3>1. /\ req' = [req EXCEPT ![r] = q] /\ UNCHANGED input
          /\ status[r] = "running" /\ status' = [status EXCEPT ![r] = "ok"]
      BY <2>3 DEF Respond
    <3>2. q.inputTokens = req[r].inputTokens /\ q.audits = req[r].audits
      <4>1. /\ DOMAIN full = Fields
            /\ full.inputTokens = req[r].inputTokens /\ full.audits = req[r].audits
        BY DEF Inv, Fields
      <4>2. /\ Recounted(full).inputTokens = full.inputTokens
            /\ Recounted(full).audits = full.audits
        BY <4>1, RecountedFacts
      <4>3. QED
        BY <4>1, <4>2
    <3> HIDE DEF q
    <3>3. /\ req'[r] = q /\ status'[r] = "ok"
          /\ \A s \in Request \ {r} : req'[s] = req[s] /\ status'[s] = status[s]
      BY <3>1 DEF Inv
    <3>4. QED
      BY <3>1, <3>2, <3>3, UntouchedCounted DEF CountInv
  <2>4. CASE Processes(r)
    BY <2>4, ProcessorsHandOn, HandsOnCounted DEF Countable
  <2>5. QED
    BY <1>2, <2>1, <2>2, <2>3, <2>4 DEF Step, Processes
<1>3. QED
  BY <1>1, <1>2 DEF Next

----------------------------------------------------------------------------
(* What is said, in the prompt and in the reply *)

\* The gist of a text, line by line.
LEMMA GistIsFlat ==
  ASSUME NEW t \in Text
  PROVE  Gist(t) = Flat(GistOf, t) /\ Gist(t) \in Text
<1>1. PICK D, g : D = Line /\ g = [u \in Line |-> Stable(u)]
  OBVIOUS
<1>2. g \in [D -> D] /\ \A d \in D : g[d] = Stable(d)
  BY <1>1, StableIsLine
<1>3. t \in Seq(D)
  BY <1>1 DEF Text, Line
<1>4. PICK st : st = [i \in DOMAIN t |-> Stable(t[i])] /\ st = Flat(Each(D, g), t) /\ st \in Text
  BY <1>1, StableIsFlat
<1>5. Gist(t) = Dense(st)
  BY <1>4 DEF Gist
<1>6. Dense(st) = Flat(Solid, st)
  BY <1>4, DenseIsFlat
<1>7. PICK e, h, k : e = Each(D, g) /\ h = Solid /\ k = GistOf
  OBVIOUS
<1>8. e \in Giving(D, D) /\ \A d \in D : e[d] = <<g[d]>>
  <2>1. Each(D, g) \in Giving(D, D)
    BY <1>2, EachFacts
  <2>2. QED
    BY <1>7, <2>1 DEF Each
<1>9. h \in Giving(D, D) /\ \A d \in D : h[d] = IF d = Blank THEN << >> ELSE <<d>>
  BY <1>1, <1>7, SolidFacts
<1>10. k \in Giving(D, D) /\ \A d \in D : k[d] = IF g[d] = Blank THEN << >> ELSE <<g[d]>>
  BY <1>1, <1>2, <1>7, GistOfType DEF GistOf
<1>11. Composes(k, h, e, D)
  <2> SUFFICES ASSUME NEW d \in D PROVE k[d] = Flat(h, e[d])
    BY DEF Composes
  <2>1. PICK x \in D : x = g[d]
    BY <1>2
  <2>2. Flat(h, <<x>>) = h[x]
    BY <1>9, FlatOne
  <2>3. QED
    BY <1>8, <1>9, <1>10, <2>1, <2>2
<1>12. Flat(h, Flat(e, t)) = Flat(k, t)
  <2>1. e \in Giving(D, D) /\ h \in Giving(D, D) /\ k \in Giving(D, D)
    BY <1>8, <1>9, <1>10
  <2>2. QED
    BY <1>3, <1>11, <2>1, FlatFlat
<1>13. Gist(t) \in Text
  BY <1>4, <1>5, TextFacts DEF Dense
<1>14. QED
  BY <1>4, <1>5, <1>6, <1>7, <1>12, <1>13

\* The gist of a trimmed text is that of the text.
LEMMA GistTrimmed ==
  ASSUME NEW t \in Text
  PROVE  Gist(Trim(t)) = Gist(t)
<1>1. Flat(GistOf, Trim(t)) = Flat(GistOf, t)
  BY TrimUnnoticed, GistOfType, BlankLine
<1>2. QED
  BY <1>1, GistIsFlat, TrimIsText

\* What a message gives to a gist and to a text, and what it gives if the system says it.
GistOfMessage == [m \in Message |-> Gist(m.text)]
SystemGist == [m \in Message |-> IF FromSystem(m) THEN Gist(m.text) ELSE << >>]
TrimOf == [m \in Message |-> Trim(m.text)]
SystemJoin == [m \in Message |-> IF FromSystem(m) THEN Trim(m.text) ELSE << >>]

\* All of these are lines.
LEMMA MessageTexts ==
  /\ GistOfMessage \in Giving(Message, Line)
  /\ SystemGist \in Giving(Message, Line)
  /\ TrimOf \in Giving(Message, Line)
  /\ SystemJoin \in Giving(Message, Line)
<1>1. \A m \in Message : Gist(m.text) \in Seq(Line) /\ Trim(m.text) \in Seq(Line)
  <2>1. \A m \in Message : m.text \in Text
    BY MessageFacts
  <2>2. \A m \in Message : Gist(m.text) \in Text /\ Trim(m.text) \in Text
    BY <2>1, GistIsFlat, TrimIsText
  <2>3. QED
    BY <2>2 DEF Text, Line
<1>2. << >> \in Seq(Line)
  BY EmptySeq
<1>3. QED
  BY <1>1, <1>2 DEF GistOfMessage, SystemGist, TrimOf, SystemJoin, Giving

\* A join goes through the messages one by one.
LEMMA JoinIsFlat ==
  ASSUME NEW ms \in Seq(Message)
  PROVE  Join(ms) = Flat(TrimOf, ms) /\ Join(ms) \in Text
<1>1. DOMAIN ms = 1..Len(ms) /\ \A i \in 1..Len(ms) : ms[i] \in Message
  BY LenProperties, ElementOfSeq
<1>2. [i \in DOMAIN ms |-> Trim(ms[i].text)] = [i \in DOMAIN ms |-> TrimOf[ms[i]]]
  BY <1>1 DEF TrimOf
<1>3. Join(ms) = Flat(TrimOf, ms)
  BY <1>2 DEF Join, Flat
<1>4. Flat(TrimOf, ms) \in Seq(Line)
  BY MessageTexts, FlatType
<1>5. QED
  BY <1>3, <1>4 DEF Text, Line

\* The messages of the system, of the others, and those that say something.
Systems == {m \in Message : FromSystem(m)}
Others == {m \in Message : ~FromSystem(m)}
Speakers == {m \in Message : Says(m)}

\* Their positions.
SystemAt(ms) == {i \in DOMAIN ms : FromSystem(ms[i])}
OthersAt(ms) == {i \in DOMAIN ms : ~FromSystem(ms[i])}
SpokenAt(ms) == {i \in DOMAIN ms : Says(ms[i])}

\* The picks of Exchange pick these.
LEMMA MessagesFound ==
  ASSUME NEW ms \in Seq(Message)
  PROVE  /\ OfSystem(ms) = Pick(ms, SystemAt(ms)) /\ Locates(SystemAt(ms), ms, Systems)
         /\ OfOthers(ms) = Pick(ms, OthersAt(ms)) /\ Locates(OthersAt(ms), ms, Others)
         /\ Spoken(ms) = Pick(ms, SpokenAt(ms)) /\ Locates(SpokenAt(ms), ms, Speakers)
<1>1. DOMAIN ms = 1..Len(ms) /\ \A i \in 1..Len(ms) : ms[i] \in Message
  BY LenProperties, ElementOfSeq
<1>2. /\ Locates(SystemAt(ms), ms, Systems)
      /\ Locates(OthersAt(ms), ms, Others)
      /\ Locates(SpokenAt(ms), ms, Speakers)
  BY <1>1 DEF Locates, Systems, Others, Speakers, SystemAt, OthersAt, SpokenAt
<1>3. QED
  BY <1>2 DEF OfSystem, OfOthers, Spoken, SystemAt, OthersAt, SpokenAt

\* They pick messages.
LEMMA MessagesPicked ==
  ASSUME NEW ms \in Seq(Message)
  PROVE  OfSystem(ms) \in Seq(Message) /\ OfOthers(ms) \in Seq(Message) /\ Spoken(ms) \in Seq(Message)
<1>1. \A I : Pick(ms, I) \in Seq(Message)
  BY PickFacts
<1>2. QED
  BY <1>1 DEF OfSystem, OfOthers, Spoken

\* To go through the messages of the system.
LEMMA FlatOfSystem ==
  ASSUME NEW S, NEW h \in Giving(Message, S), NEW k \in Giving(Message, S),
         Restricts(k, h, Systems, Message), NEW ms \in Seq(Message)
  PROVE  Flat(h, OfSystem(ms)) = Flat(k, ms)
BY MessagesFound, FlatPicked

\* To go through those of the others.
LEMMA FlatOfOthers ==
  ASSUME NEW S, NEW h \in Giving(Message, S), NEW k \in Giving(Message, S),
         Restricts(k, h, Others, Message), NEW ms \in Seq(Message)
  PROVE  Flat(h, OfOthers(ms)) = Flat(k, ms)
BY MessagesFound, FlatPicked

\* To go through those that say something.
LEMMA FlatSpoken ==
  ASSUME NEW S, NEW h \in Giving(Message, S), NEW k \in Giving(Message, S),
         Restricts(k, h, Speakers, Message), NEW ms \in Seq(Message)
  PROVE  Flat(h, Spoken(ms)) = Flat(k, ms)
BY MessagesFound, FlatPicked

\* What the system says, joined: its gist, and the text itself.
LEMMA SystemSays ==
  ASSUME NEW ms \in Seq(Message)
  PROVE  /\ Gist(Join(OfSystem(ms))) = Flat(SystemGist, ms)
         /\ Join(OfSystem(ms)) = Flat(SystemJoin, ms)
         /\ Join(OfSystem(Spoken(ms))) = Flat(SystemJoin, ms)
<1>1. PICK os \in Seq(Message) : os = OfSystem(ms)
  BY MessagesPicked
<1>2. Restricts(SystemGist, GistOfMessage, Systems, Message)
  BY DEF Restricts, SystemGist, GistOfMessage, Systems
<1>3. Restricts(SystemJoin, TrimOf, Systems, Message)
  BY DEF Restricts, SystemJoin, TrimOf, Systems
<1>4. Restricts(SystemJoin, SystemJoin, Speakers, Message)
  BY DEF Restricts, SystemJoin, Speakers, Says
<1>5. Flat(GistOfMessage, os) = Flat(SystemGist, ms)
  BY <1>1, <1>2, MessageTexts, FlatOfSystem
<1>6. Join(os) = Flat(SystemJoin, ms)
  <2>1. Flat(TrimOf, os) = Flat(SystemJoin, ms)
    BY <1>1, <1>3, MessageTexts, FlatOfSystem
  <2>2. QED
    BY <2>1, JoinIsFlat
<1>7. Gist(Join(os)) = Flat(GistOfMessage, os)
  <2>1. Composes(GistOfMessage, GistOf, TrimOf, Message)
    <3> SUFFICES ASSUME NEW m \in Message PROVE Gist(m.text) = Flat(GistOf, Trim(m.text))
      BY DEF Composes, GistOfMessage, TrimOf
    <3>1. m.text \in Text
      BY MessageFacts
    <3>2. QED
      BY <3>1, GistTrimmed, TrimIsText, GistIsFlat
  <2>2. Flat(GistOf, Flat(TrimOf, os)) = Flat(GistOfMessage, os)
    BY <2>1, MessageTexts, GistOfType, FlatFlat
  <2>3. QED
    BY <2>2, JoinIsFlat, GistIsFlat
<1>8. Join(OfSystem(Spoken(ms))) = Flat(SystemJoin, ms)
  <2>1. PICK said \in Seq(Message) : said = Spoken(ms)
    BY MessagesPicked
  <2>2. PICK ss \in Seq(Message) : ss = OfSystem(said)
    BY MessagesPicked
  <2>3. Flat(TrimOf, ss) = Flat(SystemJoin, said)
    BY <1>3, <2>2, MessageTexts, FlatOfSystem
  <2>4. Flat(SystemJoin, said) = Flat(SystemJoin, ms)
    BY <1>4, <2>1, MessageTexts, FlatSpoken
  <2>5. Join(ss) = Flat(TrimOf, ss)
    BY JoinIsFlat
  <2>6. QED
    BY <2>1, <2>2, <2>3, <2>4, <2>5
<1>9. QED
  BY <1>1, <1>5, <1>6, <1>7, <1>8

\* A gist has no blank lines.
LEMMA GistIsDense ==
  ASSUME NEW t \in Text
  PROVE  Trim(Gist(t)) = << >> <=> Gist(t) = << >>
<1>1. PICK st \in Text : Gist(t) = Dense(st)
  <2>1. [i \in DOMAIN t |-> Stable(t[i])] \in Text
    BY StableIsFlat
  <2>2. QED
    BY <2>1 DEF Gist
<1>2. PICK g : g = Gist(t)
  OBVIOUS
<1>3. g \in Text /\ g \in Seq(Line) /\ st \in Seq(Line)
  BY <1>2, GistIsFlat DEF Text, Line
<1>4. Dense(g) = g
  <2> DEFINE I == {i \in DOMAIN st : st[i] # Blank}
             J == {i \in DOMAIN g : g[i] # Blank}
  <2>1. g = Pick(st, I)
    BY <1>1, <1>2 DEF Dense
  <2>2. Dense(g) = Pick(g, J)
    BY DEF Dense
  <2>3. \A i \in I : st[i] # Blank
    OBVIOUS
  <2> HIDE DEF I
  <2>4. \A k \in 1..Len(g) : \E i \in 1..Len(st) : i \in I /\ g[k] = st[i]
    BY <1>3, <2>1, PickFacts
  <2>5. \A k \in 1..Len(g) : k \in J
    BY <1>3, <2>3, <2>4, TextFacts
  <2> HIDE DEF J
  <2>6. Pick(g, J) = g
    BY <1>3, <2>5, PickAll
  <2>7. QED
    BY <2>2, <2>6
<1>5. Trim(g) = << >> <=> Dense(g) = << >>
  BY <1>3, TrimmedAway
<1>6. QED
  BY <1>2, <1>4, <1>5

\* Messages that are trimmed, and those that are gists.
WithTrim == [m \in Message |-> [m EXCEPT !.text = Trim(m.text)]]
WithGist == [m \in Message |-> [m EXCEPT !.text = Gist(m.text)]]

\* Both only change the text, and the gist does not see a trim.
LEMMA OtherTexts ==
  /\ WithTrim \in [Message -> Message] /\ WithGist \in [Message -> Message]
  /\ \A m \in Message : /\ m.text \in Text
                        /\ WithTrim[m].text = Trim(m.text) /\ WithTrim[m].role = m.role
                        /\ WithGist[m].text = Gist(m.text) /\ WithGist[m].role = m.role
                        /\ WithGist[WithTrim[m]] = WithGist[m]
<1> SUFFICES ASSUME NEW m \in Message
             PROVE  /\ WithTrim[m] \in Message /\ WithGist[m] \in Message
                    /\ m.text \in Text
                    /\ WithTrim[m].text = Trim(m.text) /\ WithTrim[m].role = m.role
                    /\ WithGist[m].text = Gist(m.text) /\ WithGist[m].role = m.role
                    /\ WithGist[WithTrim[m]] = WithGist[m]
  BY DEF WithTrim, WithGist
<1>1. m.text \in Text
  BY MessageFacts
<1>2. Trim(m.text) \in Text /\ Gist(m.text) \in Text
  BY <1>1, TrimIsText, GistIsFlat
<1>3. Gist(Trim(m.text)) = Gist(m.text)
  BY <1>1, GistTrimmed
<1>4. WithTrim[m] \in Message /\ WithGist[m] \in Message
  BY <1>2, MessageFacts DEF WithTrim, WithGist
<1>5. WithTrim[m].text = Trim(m.text) /\ WithTrim[m].role = m.role
  BY DEF WithTrim, Message
<1>6. WithGist[m].text = Gist(m.text) /\ WithGist[m].role = m.role
  BY DEF WithGist, Message
<1>7. WithGist[WithTrim[m]] = WithGist[m]
  <2>1. WithGist[WithTrim[m]] = [WithTrim[m] EXCEPT !.text = Gist(Trim(m.text))]
    BY <1>4, <1>5 DEF WithGist
  <2>2. [WithTrim[m] EXCEPT !.text = Gist(Trim(m.text))] = [m EXCEPT !.text = Gist(Trim(m.text))]
    BY DEF WithTrim, Message
  <2>3. QED
    BY <1>3, <2>1, <2>2 DEF WithGist
<1>8. QED
  BY <1>1, <1>4, <1>5, <1>6, <1>7

\* What a message gives to the gists, to the gists of the others, to what is spoken, to
\* what others say, and to a reply.
GistsOf == [m \in Message |-> IF Gist(m.text) = << >> THEN << >> ELSE <<WithGist[m]>>]
OthersGist ==
  [m \in Message |-> IF FromSystem(m) \/ Gist(m.text) = << >> THEN << >> ELSE <<WithGist[m]>>]
SpokenTrim == [m \in Message |-> IF Says(m) THEN <<WithTrim[m]>> ELSE << >>]
OthersTrim == [m \in Message |-> IF FromSystem(m) THEN << >> ELSE <<WithTrim[m]>>]
ReplyOf == [m \in Message |-> IF ~FromSystem(m) /\ Says(m) THEN <<WithTrim[m]>> ELSE << >>]

\* All of these are messages.
LEMMA MessageLists ==
  /\ GistsOf \in Giving(Message, Message) /\ OthersGist \in Giving(Message, Message)
  /\ SpokenTrim \in Giving(Message, Message) /\ OthersTrim \in Giving(Message, Message)
  /\ ReplyOf \in Giving(Message, Message)
<1>1. /\ \A m \in Message : <<WithTrim[m]>> \in Seq(Message) /\ <<WithGist[m]>> \in Seq(Message)
      /\ << >> \in Seq(Message)
  BY OtherTexts, EmptySeq
<1>2. QED
  BY <1>1 DEF GistsOf, OthersGist, SpokenTrim, OthersTrim, ReplyOf, Giving

\* Messages are trimmed one by one.
LEMMA TrimmedIsFlat ==
  ASSUME NEW ms \in Seq(Message)
  PROVE  Trimmed(ms) = Flat(Each(Message, WithTrim), ms)
<1>1. DOMAIN ms = 1..Len(ms) /\ \A i \in 1..Len(ms) : ms[i] \in Message
  BY LenProperties, ElementOfSeq
<1>2. Trimmed(ms) = Image(WithTrim, ms)
  BY <1>1 DEF Trimmed, Image, WithTrim
<1>3. QED
  BY <1>2, OtherTexts, MapIsFlat

\* Gists are taken one by one.
LEMMA GistsAreFlat ==
  ASSUME NEW ms \in Seq(Message)
  PROVE  Gists(ms) = Flat(GistsOf, ms)
<1>1. DOMAIN ms = 1..Len(ms) /\ \A i \in 1..Len(ms) : ms[i] \in Message
  BY LenProperties, ElementOfSeq
<1>2. PICK e, only : e = Each(Message, WithGist) /\ only = Only(Message, Speakers)
  OBVIOUS
<1>3. PICK img : img = Image(WithGist, ms)
  OBVIOUS
<1>4. img = Flat(e, ms)
  BY <1>2, <1>3, OtherTexts, MapIsFlat
<1>5. e \in Giving(Message, Message) /\ only \in Giving(Message, Message)
  BY <1>2, OtherTexts, EachFacts, OnlyFacts
<1>6. img \in Seq(Message)
  BY <1>4, <1>5, FlatType
<1>7. Gists(ms) = Spoken(img)
  BY <1>1, <1>3 DEF Gists, Image, WithGist
<1>8. Spoken(img) = Flat(only, img)
  <2>1. Spoken(img) = Pick(img, SpokenAt(img)) /\ Locates(SpokenAt(img), img, Speakers)
    BY <1>6, MessagesFound
  <2>2. QED
    BY <1>2, <1>6, <2>1, PickIsFlat DEF Locates
<1>9. Composes(GistsOf, only, e, Message)
  <2> SUFFICES ASSUME NEW m \in Message PROVE GistsOf[m] = Flat(only, e[m])
    BY DEF Composes
  <2>1. PICK g \in Message : g = WithGist[m]
    BY OtherTexts
  <2>2. e[m] = <<g>>
    BY <1>2, <2>1 DEF Each
  <2>3. Flat(only, <<g>>) = only[g]
    BY <1>5, FlatOne
  <2>4. only[g] = IF Says(g) THEN <<g>> ELSE << >>
    BY <1>2 DEF Only, Speakers
  <2>5. Says(g) <=> Gist(m.text) # << >>
    BY <2>1, OtherTexts, GistIsDense DEF Says
  <2>6. QED
    BY <2>1, <2>2, <2>3, <2>4, <2>5 DEF GistsOf
<1>10. Flat(only, Flat(e, ms)) = Flat(GistsOf, ms)
  BY <1>5, <1>9, MessageLists, FlatFlat
<1>11. QED
  BY <1>4, <1>7, <1>8, <1>10

\* What a client reads of the others, and what the evaluation has of them.
LEMMA OthersReply ==
  ASSUME NEW ms \in Seq(Message)
  PROVE  /\ Trimmed(Spoken(OfOthers(ms))) = Flat(ReplyOf, ms)
         /\ Trimmed(OfOthers(Spoken(ms))) = Flat(ReplyOf, ms)
<1>1. PICK e : e = Each(Message, WithTrim)
  OBVIOUS
<1>2. e \in Giving(Message, Message) /\ \A m \in Message : e[m] = <<WithTrim[m]>>
  <2>1. Each(Message, WithTrim) \in Giving(Message, Message)
    BY OtherTexts, EachFacts
  <2>2. QED
    BY <1>1, <2>1 DEF Each
<1>3. PICK os \in Seq(Message), ss \in Seq(Message) : os = OfOthers(ms) /\ ss = Spoken(ms)
  BY MessagesPicked
<1>4. PICK so \in Seq(Message) : so = Spoken(os)
  BY MessagesPicked
<1>5. PICK oss \in Seq(Message) : oss = OfOthers(ss)
  BY MessagesPicked
<1>6. Restricts(SpokenTrim, e, Speakers, Message) /\ Restricts(OthersTrim, e, Others, Message)
  BY <1>2 DEF Restricts, SpokenTrim, OthersTrim, Speakers, Others
<1>7. /\ Restricts(ReplyOf, SpokenTrim, Others, Message)
      /\ Restricts(ReplyOf, OthersTrim, Speakers, Message)
  BY DEF Restricts, ReplyOf, SpokenTrim, OthersTrim, Speakers, Others
<1>8. e \in Giving(Message, Message)
  BY <1>2
<1>9. Trimmed(so) = Flat(ReplyOf, ms)
  <2>1. Flat(e, so) = Flat(SpokenTrim, os)
    BY <1>4, <1>6, <1>8, MessageLists, FlatSpoken
  <2>2. Flat(SpokenTrim, os) = Flat(ReplyOf, ms)
    BY <1>3, <1>7, MessageLists, FlatOfOthers
  <2>3. QED
    BY <1>1, <2>1, <2>2, TrimmedIsFlat
<1>10. Trimmed(oss) = Flat(ReplyOf, ms)
  <2>1. Flat(e, oss) = Flat(OthersTrim, ss)
    BY <1>5, <1>6, <1>8, MessageLists, FlatOfOthers
  <2>2. Flat(OthersTrim, ss) = Flat(ReplyOf, ms)
    BY <1>3, <1>7, MessageLists, FlatSpoken
  <2>3. QED
    BY <1>1, <2>1, <2>2, TrimmedIsFlat
<1>11. QED
  BY <1>3, <1>4, <1>5, <1>9, <1>10

\* The gists of what the others say are those of what a client reads of them.
LEMMA OthersSay ==
  ASSUME NEW ms \in Seq(Message)
  PROVE  /\ OfOthers(Gists(ms)) = Flat(OthersGist, ms)
         /\ Gists(Trimmed(Spoken(OfOthers(ms)))) = Flat(OthersGist, ms)
<1>1. PICK gs \in Seq(Message) : gs = Gists(ms) /\ gs = Flat(GistsOf, ms)
  BY GistsAreFlat, MessageLists, FlatType
<1>2. PICK rs \in Seq(Message) : rs = Flat(ReplyOf, ms)
  BY MessageLists, FlatType
<1>3. Gists(rs) = Flat(OthersGist, ms)
  <2>1. Composes(OthersGist, GistsOf, ReplyOf, Message)
    <3> SUFFICES ASSUME NEW m \in Message PROVE OthersGist[m] = Flat(GistsOf, ReplyOf[m])
      BY DEF Composes
    <3>1. PICK t \in Message : t = WithTrim[m]
      BY OtherTexts
    <3>2. Flat(GistsOf, <<t>>) = GistsOf[t] /\ Flat(GistsOf, << >>) = << >>
      BY MessageLists, FlatOne, FlatEmpty
    <3>3. m.text \in Text /\ Gist(t.text) = Gist(m.text) /\ WithGist[t] = WithGist[m]
      BY <3>1, OtherTexts, GistTrimmed
    <3>4. Trim(m.text) = << >> => Gist(m.text) = << >>
      <4>1. Flat(GistOf, << >>) = << >>
        BY GistOfType, FlatEmpty
      <4>2. << >> \in Text /\ Gist(<< >>) = << >>
        BY <4>1, LineFacts, GistIsFlat
      <4>3. QED
        BY <3>3, <4>2, GistTrimmed
    <3>5. CASE FromSystem(m) \/ ~Says(m)
      BY <3>2, <3>4, <3>5 DEF ReplyOf, OthersGist, Says
    <3>6. CASE ~FromSystem(m) /\ Says(m)
      <4>1. ReplyOf[m] = <<t>>
        BY <3>1, <3>6 DEF ReplyOf
      <4>2. QED
        BY <3>2, <3>3, <3>6, <4>1 DEF OthersGist, GistsOf
    <3>7. QED
      BY <3>5, <3>6
  <2>2. Flat(GistsOf, Flat(ReplyOf, ms)) = Flat(OthersGist, ms)
    BY <2>1, MessageLists, FlatFlat
  <2>3. QED
    BY <1>2, <2>2, GistsAreFlat
<1>4. OfOthers(gs) = Flat(OthersGist, ms)
  <2>1. PICK only : only = Only(Message, Others)
    OBVIOUS
  <2>2. only \in Giving(Message, Message)
    BY <2>1, OnlyFacts
  <2>3. OfOthers(gs) = Flat(only, gs)
    <3>1. OfOthers(gs) = Pick(gs, OthersAt(gs)) /\ Locates(OthersAt(gs), gs, Others)
      BY MessagesFound
    <3>2. QED
      BY <2>1, <3>1, PickIsFlat DEF Locates
  <2>4. Composes(OthersGist, only, GistsOf, Message)
    <3> SUFFICES ASSUME NEW m \in Message PROVE OthersGist[m] = Flat(only, GistsOf[m])
      BY DEF Composes
    <3>1. PICK g \in Message : g = WithGist[m]
      BY OtherTexts
    <3>2. Flat(only, <<g>>) = only[g] /\ Flat(only, << >>) = << >>
      BY <2>2, FlatOne, FlatEmpty
    <3>3. only[g] = IF FromSystem(g) THEN << >> ELSE <<g>>
      BY <2>1 DEF Only, Others
    <3>4. FromSystem(g) <=> FromSystem(m)
      BY <3>1, OtherTexts DEF FromSystem
    <3>5. GistsOf[m] = IF Gist(m.text) = << >> THEN << >> ELSE <<g>>
      BY <3>1 DEF GistsOf
    <3>6. OthersGist[m] = IF FromSystem(m) \/ Gist(m.text) = << >> THEN << >> ELSE <<g>>
      BY <3>1 DEF OthersGist
    <3>7. QED
      BY <3>2, <3>3, <3>4, <3>5, <3>6
  <2>5. Flat(only, Flat(GistsOf, ms)) = Flat(OthersGist, ms)
    BY <2>2, <2>4, MessageLists, FlatFlat
  <2>6. QED
    BY <1>1, <2>3, <2>5
<1>5. QED
  BY <1>1, <1>2, <1>3, <1>4, OthersReply

\* k has the same for a message and its normal form.
Steady(k) == \A m \in Message : k[NormalMessage(m)] = k[m]

\* k is about one kind of messages only.
OneSided(k) ==
  \/ \A m \in Message : FromSystem(m) => k[m] = << >>
  \/ \A m \in Message : ~FromSystem(m) => k[m] = << >>

\* The system's messages, the history and the active turn, one after the other, have
\* what the messages had in the order they came in.
LEMMA SaidInPrompt ==
  ASSUME NEW S, NEW k \in Giving(Message, S), Steady(k), OneSided(k), NEW ms \in Seq(Message)
  PROVE  LET s == Segments(ms)
         IN  Flat(k, (s.system \o s.memory) \o s.active) = Flat(k, ms)
<1>1. PICK n \in Nat : n = Len(ms) /\ DOMAIN ms = 1..n /\ \A i \in 1..n : ms[i] \in Message
  BY LenProperties, ElementOfSeq
<1>2. \A u, v \in Seq(Message) : Flat(k, u \o v) = Flat(k, u) \o Flat(k, v)
  BY FlatConcat
<1>3. CASE n = 0
  <2>1. << >> \o << >> = << >>
    BY EmptySeq, ConcatEmptySeq
  <2>2. ms = << >>
    BY <1>1, <1>3, EmptySeq
  <2>3. QED
    BY <1>1, <1>3, <2>1, <2>2 DEF Segments
<1>4. CASE n # 0
  <2> DEFINE front == [i \in 1..(n - 1) |-> ms[i]]
             stable == [i \in 1..(n - 1) |-> NormalMessage(ms[i])]
             I == {i \in DOMAIN stable : stable[i].role = "system"}
             J == {i \in DOMAIN stable : stable[i].role # "system"}
             last == ms[n]
  <2>1. /\ Segments(ms).system = Pick(stable, I)
        /\ Segments(ms).memory = Pick(stable, J)
        /\ Segments(ms).active = <<last>>
    BY <1>1, <1>4 DEF Segments
  <2>2. last \in Message /\ n - 1 \in Nat /\ \A i \in 1..(n - 1) : i \in 1..n
    BY <1>1, <1>4
  <2>3. front \in [1..(n - 1) -> Message] /\ stable \in [1..(n - 1) -> Message]
    BY <1>1, <2>2, NormalMessageFacts
  <2>4. \A i \in 1..(n - 1) : front[i] = ms[i] /\ stable[i] = NormalMessage(ms[i])
    OBVIOUS
  <2>5. (\A i \in I : FromSystem(stable[i])) /\ (\A i \in J : ~FromSystem(stable[i]))
    BY DEF FromSystem
  <2>6. \A i \in 1..(n - 1) : i \in I \/ i \in J
    OBVIOUS
  <2>7. /\ \A i \in 1..(n - 1) : i \notin I => ~FromSystem(stable[i])
        /\ \A i \in 1..(n - 1) : i \notin J => FromSystem(stable[i])
    BY <2>5, <2>6
  <2> HIDE DEF front, stable, I, J, last
  <2>8. /\ front \in Seq(Message) /\ Len(front) = n - 1 /\ DOMAIN front = 1..(n - 1)
        /\ stable \in Seq(Message) /\ Len(stable) = n - 1 /\ DOMAIN stable = 1..(n - 1)
    BY <2>2, <2>3, FunctionIsSequence
  <2>9. Flat(k, stable) = Flat(k, front)
    <3>1. \A i \in DOMAIN stable : k[stable[i]] = k[front[i]]
      BY <1>1, <2>2, <2>4, <2>8 DEF Steady
    <3>2. QED
      BY <2>8, <3>1, FlatSame
  <2>10. PICK x \in Seq(Message), y \in Seq(Message) :
           /\ x = Pick(stable, I) /\ y = Pick(stable, J)
           /\ \A j \in 1..Len(x) : \E i \in 1..Len(stable) : i \in I /\ x[j] = stable[i]
           /\ \A j \in 1..Len(y) : \E i \in 1..Len(stable) : i \in J /\ y[j] = stable[i]
    <3>1. ASSUME NEW K
          PROVE  \E z \in Seq(Message) :
                   /\ z = Pick(stable, K)
                   /\ \A j \in 1..Len(z) : \E i \in 1..Len(stable) : i \in K /\ z[j] = stable[i]
      <4>1. /\ Pick(stable, K) \in Seq(Message)
            /\ \A j \in 1..Len(Pick(stable, K)) : \E i \in 1..Len(stable) :
                  i \in K /\ Pick(stable, K)[j] = stable[i]
        BY <2>8, PickFacts
      <4>2. QED
        BY <4>1
    <3>2. QED
      BY <3>1
  <2>11. Flat(k, x) \o Flat(k, y) = Flat(k, front)
    <3>1. Flat(k, x) \in Seq(S) /\ Flat(k, y) \in Seq(S)
      BY FlatType
    <3>2. /\ \A j \in 1..Len(x) : \E i \in 1..Len(stable) : i \in I /\ x[j] = stable[i]
          /\ \A j \in 1..Len(y) : \E i \in 1..Len(stable) : i \in J /\ y[j] = stable[i]
      BY <2>10
    <3>3. \A i \in 1..(n - 1) : stable[i] \in Message
      BY <2>3
    <3>4. CASE \A m \in Message : FromSystem(m) => k[m] = << >>
      <4>1. \A j \in 1..Len(x) : k[x[j]] = << >>
        BY <2>5, <2>8, <3>2, <3>3, <3>4
      <4>2. Flat(k, x) = << >>
        BY <4>1, FlatNothing
      <4>3. \A i \in 1..Len(stable) : i \notin J => k[stable[i]] = << >>
        BY <2>7, <2>8, <3>3, <3>4
      <4>4. Flat(k, y) = Flat(k, stable)
        BY <2>8, <2>10, <4>3, FlatPicks
      <4>5. QED
        BY <2>9, <3>1, <4>2, <4>4, ConcatEmptySeq
    <3>5. CASE \A m \in Message : ~FromSystem(m) => k[m] = << >>
      <4>1. \A j \in 1..Len(y) : k[y[j]] = << >>
        BY <2>5, <2>8, <3>2, <3>3, <3>5
      <4>2. Flat(k, y) = << >>
        BY <4>1, FlatNothing
      <4>3. \A i \in 1..Len(stable) : i \notin I => k[stable[i]] = << >>
        BY <2>7, <2>8, <3>3, <3>5
      <4>4. Flat(k, x) = Flat(k, stable)
        BY <2>8, <2>10, <4>3, FlatPicks
      <4>5. QED
        BY <2>9, <3>1, <4>2, <4>4, ConcatEmptySeq
    <3>6. QED
      BY <3>4, <3>5 DEF OneSided
  <2>12. PICK z \in Seq(Message) : z = x \o y /\ Flat(k, z) = Flat(k, front)
    <3>1. x \o y \in Seq(Message)
      BY ConcatProperties
    <3>2. Flat(k, x \o y) = Flat(k, x) \o Flat(k, y)
      BY FlatConcat
    <3>3. QED
      BY <2>11, <3>1, <3>2
  <2>13. PICK a \in Seq(Message) : a = <<last>>
    <3>1. PICK m \in Message : m = last
      BY <2>2
    <3>2. <<m>> \in Seq(Message)
      OBVIOUS
    <3>3. QED
      BY <3>1, <3>2
  <2>14. Flat(k, z \o a) = Flat(k, front \o a)
    <3>1. Flat(k, z \o a) = Flat(k, z) \o Flat(k, a)
      BY <1>2, Zenon
    <3>2. Flat(k, front \o a) = Flat(k, front) \o Flat(k, a)
      BY <1>2, <2>8, Zenon
    <3>3. QED
      BY <2>12, <3>1, <3>2
  <2>15. front \o a = ms
    <3>1. PICK w : /\ w = Append(front, last) /\ w \in Seq(Message) /\ Len(w) = n
                   /\ w[n] = last /\ \A i \in 1..(n - 1) : w[i] = front[i]
      <4>1. PICK l \in Nat : l = Len(front) /\ l + 1 = n /\ l = n - 1
        <5>1. PICK l \in Nat : l = n - 1
          BY <2>2
        <5>2. l + 1 = n
          BY <1>1, <5>1
        <5>3. QED
          BY <2>8, <5>1, <5>2
      <4>2. PICK m \in Message : m = last
        BY <2>2
      <4>3. /\ Append(front, m) \in Seq(Message) /\ Len(Append(front, m)) = l + 1
            /\ Append(front, m)[l + 1] = m /\ \A i \in 1..l : Append(front, m)[i] = front[i]
        BY <2>8, <4>1, AppendProperties
      <4>4. QED
        BY <4>1, <4>2, <4>3
    <3>2. \A i \in 1..n : i = n \/ i \in 1..(n - 1)
      BY <1>1
    <3>3. \A i \in 1..n : w[i] = ms[i]
      BY <2>4, <3>1, <3>2 DEF last
    <3>4. w = ms
      BY <1>1, <3>1, <3>3, SameList
    <3>5. w = front \o a
      BY <2>2, <2>8, <2>13, <3>1, AppendIsConcat
    <3>6. QED
      BY <3>4, <3>5
  <2>16. QED
    BY <2>1, <2>10, <2>12, <2>13, <2>14, <2>15
<1>5. QED
  BY <1>3, <1>4

\* The gist of a message is that of its normal form.
LEMMA GistOfNormal ==
  ASSUME NEW m \in Message
  PROVE  /\ NormalMessage(m) \in Message /\ NormalMessage(m).role = m.role
         /\ Gist(NormalMessage(m).text) = Gist(m.text)
         /\ WithGist[NormalMessage(m)] = WithGist[m]
<1>1. m.text \in Text /\ NormalMessage(m) \in Message
  BY MessageFacts, NormalMessageFacts
<1>2. PICK st : /\ st = [i \in DOMAIN m.text |-> Stable(m.text[i])] /\ st \in Text
  BY <1>1, StableIsFlat
<1>3. NormalMessage(m) = [m EXCEPT !.text = st]
  BY <1>2 DEF NormalMessage
<1>4. NormalMessage(m).role = m.role /\ NormalMessage(m).text = st
  BY <1>3 DEF Message
<1>5. [i \in DOMAIN st |-> Stable(st[i])] = st
  BY <1>1, <1>2, TextFacts, StableTwice
<1>6. Gist(st) = Gist(m.text)
  BY <1>2, <1>5 DEF Gist
<1>7. WithGist[NormalMessage(m)] = WithGist[m]
  <2>1. WithGist[NormalMessage(m)] = [NormalMessage(m) EXCEPT !.text = Gist(m.text)]
    BY <1>1, <1>4, <1>6 DEF WithGist
  <2>2. [NormalMessage(m) EXCEPT !.text = Gist(m.text)] = [m EXCEPT !.text = Gist(m.text)]
    BY <1>3 DEF Message
  <2>3. QED
    BY <2>1, <2>2 DEF WithGist
<1>8. QED
  BY <1>1, <1>4, <1>6, <1>7

\* The gists of the system and of the others do not see the normal form.
LEMMA GistsAreSteady ==
  /\ Steady(SystemGist) /\ OneSided(SystemGist)
  /\ Steady(OthersGist) /\ OneSided(OthersGist)
<1>1. Steady(SystemGist) /\ Steady(OthersGist)
  BY GistOfNormal DEF Steady, SystemGist, OthersGist, FromSystem
<1>2. OneSided(SystemGist) /\ OneSided(OthersGist)
  BY DEF OneSided, SystemGist, OthersGist
<1>3. QED
  BY <1>1, <1>2

----------------------------------------------------------------------------
(* What is cited, in the prompt and in the reply *)

\* The gist of a fragment that is rendered: that of its label and its text.
LEMMA GistOfRendered ==
  ASSUME NEW f \in RAGFragment
  PROVE  Gist(Rendered(f)) =
           IF f.type = "body" \/ Dense(f.text) = << >> THEN Gist(f.text)
           ELSE GistOf[f.type] \o Gist(f.text)
<1>1. PICK t \in Text, u \in Text : t = f.text /\ u = Trim(t)
  BY FragmentFacts, TrimIsText
<1>2. Gist(u) = Gist(t) /\ (u = << >> <=> Dense(t) = << >>)
  BY <1>1, GistTrimmed, TrimmedAway
<1>3. CASE f.type = "body" \/ u = << >>
  BY <1>1, <1>2, <1>3 DEF Rendered
<1>4. CASE ~(f.type = "body" \/ u = << >>)
  <2>1. PICK l \in Line : l = f.type
    BY FragmentFacts DEF Line
  <2>2. PICK s \in Seq(Line), v \in Seq(Line) : s = <<l>> /\ v = u
    <3>1. <<l>> \in Seq(Line)
      OBVIOUS
    <3>2. u \in Seq(Line)
      BY DEF Text, Line
    <3>3. QED
      BY <3>1, <3>2
  <2>3. Rendered(f) = s \o v
    BY <1>1, <1>4, <2>1, <2>2 DEF Rendered
  <2>4. Flat(GistOf, s \o v) = Flat(GistOf, s) \o Flat(GistOf, v)
    BY GistOfType, FlatConcat
  <2>5. Flat(GistOf, s) = GistOf[l]
    BY <2>2, GistOfType, FlatOne
  <2>6. s \o v \in Text
    BY <2>3, RenderedIsText
  <2>7. Gist(s \o v) = Flat(GistOf, s \o v) /\ Gist(u) = Flat(GistOf, u)
    BY <2>6, GistIsFlat
  <2>8. QED
    BY <1>1, <1>2, <1>4, <2>1, <2>2, <2>3, <2>4, <2>5, <2>7
<1>5. QED
  BY <1>3, <1>4

\* A fragment that is trimmed has the same gist, also when it is normalised.
LEMMA GistOfTrimmedFragment ==
  ASSUME NEW f \in RAGFragment
  PROVE  /\ Relabelled(f, Trim(f.text)) \in RAGFragment
         /\ Gist(Rendered(Normal(Relabelled(f, Trim(f.text))))) = Gist(Rendered(Normal(f)))
<1>1. PICK t \in Text, u \in Text : t = f.text /\ u = Trim(t)
  BY FragmentFacts, TrimIsText
<1>2. PICK n \in Giving(Line, Line) :
        /\ n[Blank] = <<Blank>>
        /\ \A x \in Text : Normal(Relabelled(f, x)).text = Flat(n, x)
  BY NormalByLine
<1>3. Relabelled(f, t) = f /\ Relabelled(f, u) \in RAGFragment
  BY <1>1 DEF Relabelled, RAGFragment
<1>4. PICK a \in RAGFragment, b \in RAGFragment :
        /\ a = Normal(Relabelled(f, u)) /\ b = Normal(f)
        /\ a.type = f.type /\ b.type = f.type
  <2>1. Normal(f) \in RAGFragment /\ Normal(Relabelled(f, u)) \in RAGFragment
    BY <1>3, NormalIsFragment
  <2>2. \A g \in RAGFragment : Normal(g).type = g.type
    BY DEF Normal, RAGFragment
  <2>3. Relabelled(f, u).type = f.type
    BY DEF Relabelled, RAGFragment
  <2>4. QED
    BY <1>3, <2>1, <2>2, <2>3
<1>5. a.text = Flat(n, u) /\ b.text = Flat(n, t)
  BY <1>2, <1>3, <1>4
<1>6. ASSUME NEW h \in Giving(Line, Line), h[Blank] = << >>
      PROVE  Flat(h, a.text) = Flat(h, b.text)
  <2>1. PICK k : k = [l \in Line |-> Flat(h, n[l])]
    OBVIOUS
  <2>2. k \in Giving(Line, Line)
    <3>1. \A l \in Line : n[l] \in Seq(Line)
      BY DEF Giving
    <3>2. \A l \in Line : Flat(h, n[l]) \in Seq(Line)
      BY <3>1, FlatType
    <3>3. QED
      BY <2>1, <3>2 DEF Giving
  <2>3. k[Blank] = << >>
    <3>1. Flat(h, <<Blank>>) = h[Blank]
      BY BlankLine, FlatOne
    <3>2. QED
      BY <1>2, <1>6, <2>1, <3>1, BlankLine
  <2>4. Composes(k, h, n, Line)
    BY <2>1 DEF Composes
  <2>5. t \in Seq(Line) /\ u \in Seq(Line)
    BY DEF Text, Line
  <2>6. Flat(h, Flat(n, u)) = Flat(k, u) /\ Flat(h, Flat(n, t)) = Flat(k, t)
    BY <2>2, <2>4, <2>5, FlatFlat
  <2>7. Flat(k, u) = Flat(k, t)
    BY <1>1, <2>2, <2>3, TrimUnnoticed
  <2>8. QED
    BY <1>5, <2>6, <2>7
<1>7. a.text \in Text /\ b.text \in Text
  BY FragmentFacts
<1>8. Gist(a.text) = Gist(b.text) /\ Dense(a.text) = Dense(b.text)
  <2>1. Flat(GistOf, a.text) = Flat(GistOf, b.text) /\ Flat(Solid, a.text) = Flat(Solid, b.text)
    BY <1>6, GistOfType, SolidFacts, BlankLine
  <2>2. QED
    BY <1>7, <2>1, GistIsFlat, DenseIsFlat
<1>9. Gist(Rendered(a)) = Gist(Rendered(b))
  BY <1>4, <1>8, GistOfRendered
<1>10. QED
  BY <1>1, <1>3, <1>4, <1>9

\* What a fragment gives to the gist of its chunk.
FragGist == [f \in RAGFragment |-> Gist(Rendered(f))]

\* The gist of fragments is that of each of them.
LEMMA GistOfFragments ==
  ASSUME NEW frags \in Seq(RAGFragment)
  PROVE  Gist(TextOf(frags)) = Flat(FragGist, frags)
<1>1. PICK r : r = [f \in RAGFragment |-> Rendered(f)]
  OBVIOUS
<1>2. \A f \in RAGFragment : Rendered(f) \in Text /\ Rendered(f) \in Seq(Line)
                               /\ Gist(Rendered(f)) \in Seq(Line)
  BY RenderedIsText, GistIsFlat DEF Text, Line
<1>3. r \in Giving(RAGFragment, Line) /\ FragGist \in Giving(RAGFragment, Line)
  BY <1>1, <1>2 DEF Giving, FragGist
<1>4. TextOf(frags) = Flat(r, frags)
  <2>1. DOMAIN frags = 1..Len(frags) /\ \A i \in 1..Len(frags) : frags[i] \in RAGFragment
    BY LenProperties, ElementOfSeq
  <2>2. [i \in DOMAIN frags |-> Rendered(frags[i])] = [i \in DOMAIN frags |-> r[frags[i]]]
    BY <1>1, <2>1
  <2>3. QED
    BY <2>2 DEF TextOf, Flat
<1>5. Composes(FragGist, GistOf, r, RAGFragment)
  BY <1>1, <1>2, GistIsFlat DEF Composes, FragGist
<1>6. Flat(GistOf, Flat(r, frags)) = Flat(FragGist, frags)
  BY <1>3, <1>5, GistOfType, FlatFlat
<1>7. TextOf(frags) \in Text
  BY TextOfIsText
<1>8. QED
  BY <1>4, <1>6, <1>7, GistIsFlat

\* A chunk as a client gets it, and may send it again.
Returned(c) ==
  [id |-> c.id, sources |-> c.sources,
   frags |-> [j \in DOMAIN c.frags |-> Relabelled(c.frags[j], Trim(c.frags[j].text))],
   refs |-> << >>]

\* A chunk that comes back is the same but for its pages and the ends of its fragments.
LEMMA ReturnedChunk ==
  ASSUME NEW c \in RAGChunk
  PROVE  /\ Returned(c) \in RAGChunk
         /\ Returned(c).id = c.id /\ Returned(c).sources = c.sources
         /\ Gist(TextOf(NormalizeChunk(Returned(c)).frags)) = Gist(TextOf(NormalizeChunk(c).frags))
<1>1. PICK fs \in Seq(RAGFragment) : fs = c.frags
  BY ChunkFacts
<1>2. PICK n \in Nat : n = Len(fs) /\ DOMAIN fs = 1..n /\ \A j \in 1..n : fs[j] \in RAGFragment
  BY LenProperties, ElementOfSeq
<1>3. PICK gs : gs = [j \in 1..n |-> Relabelled(fs[j], Trim(fs[j].text))]
  OBVIOUS
<1>4. gs \in Seq(RAGFragment) /\ Len(gs) = n /\ DOMAIN gs = 1..n
  <2>1. gs \in [1..n -> RAGFragment]
    BY <1>2, <1>3, GistOfTrimmedFragment
  <2>2. QED
    BY <2>1, FunctionIsSequence
<1>5. PICK d : d = Returned(c)
  OBVIOUS
<1>6. d.frags = gs /\ d.id = c.id /\ d.sources = c.sources /\ d \in RAGChunk
  <2>1. d = [id |-> c.id, sources |-> c.sources, frags |-> gs, refs |-> << >>]
    BY <1>5, <1>1, <1>2, <1>3 DEF Returned
  <2>2. << >> \in Seq(PageRef)
    BY EmptySeq
  <2>3. c.id \in Nat /\ c.sources \in Sources
    BY ChunkFacts
  <2>4. QED
    BY <1>4, <2>1, <2>2, <2>3 DEF RAGChunk
<1>7. PICK as, bs : /\ as = NormalizeChunk(d).frags /\ as = [j \in 1..n |-> Normal(gs[j])]
                    /\ bs = NormalizeChunk(c).frags /\ bs = [j \in 1..n |-> Normal(fs[j])]
  BY <1>1, <1>2, <1>4, <1>6, NormalizedParts
<1>8. as \in Seq(RAGFragment) /\ bs \in Seq(RAGFragment) /\ DOMAIN as = 1..n /\ DOMAIN bs = 1..n
  <2>1. as \in [1..n -> RAGFragment] /\ bs \in [1..n -> RAGFragment]
    <3>1. \A j \in 1..n : gs[j] \in RAGFragment
      BY <1>2, <1>3, GistOfTrimmedFragment
    <3>2. QED
      BY <1>2, <1>7, <3>1, NormalIsFragment
  <2>2. QED
    BY <2>1, FunctionIsSequence
<1>9. \A j \in 1..n : FragGist[as[j]] = FragGist[bs[j]]
  <2> TAKE j \in 1..n
  <2>1. as[j] = Normal(Relabelled(fs[j], Trim(fs[j].text))) /\ bs[j] = Normal(fs[j])
    BY <1>3, <1>7
  <2>2. as[j] \in RAGFragment /\ bs[j] \in RAGFragment
    BY <1>8, LenProperties, ElementOfSeq
  <2>3. Gist(Rendered(as[j])) = Gist(Rendered(bs[j]))
    BY <1>2, <2>1, GistOfTrimmedFragment
  <2>4. QED
    BY <2>2, <2>3 DEF FragGist
<1>10. Flat(FragGist, as) = Flat(FragGist, bs)
  <2>1. [j \in DOMAIN as |-> FragGist[as[j]]] = [j \in DOMAIN bs |-> FragGist[bs[j]]]
    BY <1>8, <1>9
  <2>2. QED
    BY <2>1 DEF Flat
<1>11. QED
  BY <1>5, <1>6, <1>7, <1>8, <1>10, GistOfFragments

\* A client that sends a reply's chunks again gets them rendered with the gist that they
\* have in the prompt, in the order they have there.
LEMMA CitedAgain ==
  ASSUME NEW cs \in Seq(RAGChunk)
  PROVE  Cited(RenderChunks(Unpaged(TrimmedChunks(cs)))) = Cited(RenderChunks(cs))
<1>1. PICK n \in Nat : n = Len(cs) /\ DOMAIN cs = 1..n /\ \A i \in 1..n : cs[i] \in RAGChunk
  BY LenProperties, ElementOfSeq
<1>2. PICK ds : ds = [i \in 1..n |-> Returned(cs[i])]
  OBVIOUS
<1>3. Unpaged(TrimmedChunks(cs)) = ds
  BY <1>1, <1>2 DEF Unpaged, TrimmedChunks, Returned, Relabelled
<1>4. PICK as, bs : /\ as = [i \in 1..n |-> NormalizeChunk(cs[i])]
                    /\ bs = [i \in 1..n |-> NormalizeChunk(ds[i])]
  OBVIOUS
<1>5. /\ as \in Seq(RAGChunk) /\ Len(as) = n /\ bs \in Seq(RAGChunk) /\ Len(bs) = n
  <2>1. \A i \in 1..n : ds[i] \in RAGChunk
    BY <1>1, <1>2, ReturnedChunk
  <2>2. as \in [1..n -> RAGChunk] /\ bs \in [1..n -> RAGChunk]
    BY <1>1, <1>4, <2>1, NormalizedParts
  <2>3. QED
    BY <2>2, FunctionIsSequence
<1>6. \A i \in 1..n : /\ as[i].id = bs[i].id /\ as[i].sources = bs[i].sources
                      /\ Gist(TextOf(as[i].frags)) = Gist(TextOf(bs[i].frags))
  <2> TAKE i \in 1..n
  <2>1. PICK c \in RAGChunk, d \in RAGChunk : c = cs[i] /\ d = Returned(c) /\ d = ds[i]
    BY <1>1, <1>2, ReturnedChunk
  <2>2. as[i] = NormalizeChunk(c) /\ bs[i] = NormalizeChunk(d)
    BY <1>4, <2>1
  <2>3. /\ as[i].id = c.id /\ as[i].sources = StableSources(c.sources)
        /\ bs[i].id = d.id /\ bs[i].sources = StableSources(d.sources)
    BY <2>2, NormalizedParts
  <2>4. d.id = c.id /\ d.sources = c.sources
    BY <2>1, ReturnedChunk
  <2>5. Gist(TextOf(NormalizeChunk(d).frags)) = Gist(TextOf(NormalizeChunk(c).frags))
    BY <2>1, ReturnedChunk
  <2>6. QED
    BY <2>2, <2>3, <2>4, <2>5
<1>7. SameOrder(as, bs)
  BY <1>5, <1>6 DEF SameOrder
<1>8. PICK xs, ys : /\ xs = StableChunks(cs) /\ ys = StableChunks(ds)
                    /\ xs = Sorted(as, ChunkBefore) /\ ys = Sorted(bs, ChunkBefore)
  <2>1. DOMAIN ds = 1..n
    BY <1>2
  <2>2. QED
    BY <1>1, <1>4, <2>1 DEF StableChunks
<1>9. /\ DOMAIN xs = 1..n /\ DOMAIN ys = 1..n
      /\ \A k \in 1..n : \E i \in 1..n : xs[k] = as[i] /\ ys[k] = bs[i]
  <2>1. /\ DOMAIN Sorted(as, ChunkBefore) = 1..Len(as) /\ DOMAIN Sorted(bs, ChunkBefore) = 1..Len(as)
        /\ \A k \in 1..Len(as) : \E i \in 1..Len(as) :
              Sorted(as, ChunkBefore)[k] = as[i] /\ Sorted(bs, ChunkBefore)[k] = bs[i]
    <3>1. as \in Seq(RAGChunk) /\ bs \in Seq(RAGChunk) /\ Len(as) = Len(bs)
      BY <1>5
    <3>2. QED
      BY <1>7, <3>1, SortedBySamePlaces, Zenon
  <2>2. QED
    BY <1>5, <1>8, <2>1
<1>10. /\ Cited(RenderChunks(cs)) =
            [k \in 1..n |-> [sources |-> xs[k].sources, text |-> Gist(TextOf(xs[k].frags))]]
       /\ Cited(RenderChunks(ds)) =
            [k \in 1..n |-> [sources |-> ys[k].sources, text |-> Gist(TextOf(ys[k].frags))]]
  <2>1. ASSUME NEW zs, NEW es, zs = StableChunks(es), DOMAIN zs = 1..n
        PROVE  Cited(RenderChunks(es)) =
                 [k \in 1..n |-> [sources |-> zs[k].sources, text |-> Gist(TextOf(zs[k].frags))]]
    <3>1. PICK rs : rs = RenderChunks(es)
      OBVIOUS
    <3>2. rs = [k \in 1..n |-> [sources |-> zs[k].sources, text |-> TextOf(zs[k].frags)]]
      BY <2>1, <3>1 DEF RenderChunks
    <3>3. Cited(rs) = [k \in 1..n |-> [rs[k] EXCEPT !.text = Gist(rs[k].text)]]
      BY <3>2 DEF Cited
    <3>4. \A k \in 1..n : [rs[k] EXCEPT !.text = Gist(rs[k].text)]
                            = [sources |-> zs[k].sources, text |-> Gist(TextOf(zs[k].frags))]
      BY <3>2
    <3>5. QED
      BY <3>1, <3>3, <3>4
  <2>2. QED
    BY <1>8, <1>9, <2>1
<1>11. \A k \in 1..n : /\ xs[k].sources = ys[k].sources
                       /\ Gist(TextOf(xs[k].frags)) = Gist(TextOf(ys[k].frags))
  <2> TAKE k \in 1..n
  <2>1. PICK i \in 1..n : xs[k] = as[i] /\ ys[k] = bs[i]
    BY <1>9
  <2>2. QED
    BY <1>6, <2>1
<1>12. QED
  BY <1>3, <1>10, <1>11

----------------------------------------------------------------------------
(* The reply is the prompt *)

\* Clause by clause, for a request that has a response.
LEMMA SaidIsPrompt ==
  ASSUME NEW ms \in Seq(Message), NEW cs \in Seq(RAGChunk)
  PROVE  LET p == AssemblePrompt(cs, ms)
             said == p.memory \o p.active
             back == TrimmedChunks(cs)
         IN  /\ Gist(Join(OfSystem(ms))) = Gist(Join(OfSystem(said)))
             /\ Gists(Trimmed(Spoken(OfOthers(ms)))) = OfOthers(Gists(said))
             /\ Cited(RenderChunks(Unpaged(back))) = Cited(p.rag)
<1>1. PICK s : s = Segments(ms)
  OBVIOUS
<1>2. /\ s.system \in Seq(Message) /\ s.memory \in Seq(Message) /\ s.active \in Seq(Message)
  BY <1>1, SegmentsFacts
<1>3. PICK said \in Seq(Message) : said = (s.system \o s.memory) \o s.active
  <2>1. (s.system \o s.memory) \in Seq(Message)
    BY <1>2, ConcatProperties
  <2>2. (s.system \o s.memory) \o s.active \in Seq(Message)
    BY <1>2, <2>1, ConcatProperties
  <2>3. QED
    BY <2>2
<1>4. PICK p : /\ p = AssemblePrompt(cs, ms) /\ p.rag = RenderChunks(cs)
               /\ p.memory \o p.active = said
  <2>1. /\ AssemblePrompt(cs, ms).rag = RenderChunks(cs)
        /\ AssemblePrompt(cs, ms).memory = Segments(ms).system \o Segments(ms).memory
        /\ AssemblePrompt(cs, ms).active = Segments(ms).active
    BY PromptParts, Zenon
  <2>2. QED
    BY <1>1, <1>3, <2>1
<1>5. Flat(SystemGist, said) = Flat(SystemGist, ms) /\ Flat(OthersGist, said) = Flat(OthersGist, ms)
  <2>1. \A S : \A k \in Giving(Message, S) : Steady(k) /\ OneSided(k) =>
          Flat(k, (s.system \o s.memory) \o s.active) = Flat(k, ms)
    BY <1>1, SaidInPrompt
  <2>2. SystemGist \in Giving(Message, Line) /\ OthersGist \in Giving(Message, Message)
    BY MessageTexts, MessageLists
  <2>3. QED
    BY <1>3, <2>1, <2>2, GistsAreSteady
<1>6. Gist(Join(OfSystem(ms))) = Gist(Join(OfSystem(said)))
  BY <1>5, SystemSays
<1>7. Gists(Trimmed(Spoken(OfOthers(ms)))) = OfOthers(Gists(said))
  BY <1>5, OthersSay
<1>8. Cited(RenderChunks(Unpaged(TrimmedChunks(cs)))) = Cited(RenderChunks(cs))
  BY CitedAgain
<1>9. QED
  BY <1>4, <1>6, <1>7, <1>8

\* The steps of an evaluation lead from what was counted first to what was counted last.
LEMMA StepsLead ==
  ASSUME Inv, CountInv, NEW r \in Request, status[r] # "new", req[r].inputTokens \in Nat
  PROVE  req[r].inputTokens + Total(StepDeltas(req[r])) = req[r].tokens
<1>1. PICK q : q = req[r]
  OBVIOUS
<1>2. /\ Chained(q) /\ \A i \in DOMAIN q.audits : q.audits[i].after \in Nat
      /\ q.inputTokens \in Nat
  BY <1>1 DEF Inv, CountInv, Counted
<1>3. PICK n \in Nat : n = Len(q.audits) /\ DOMAIN q.audits = 1..n
  BY <1>1, AppendFacts DEF Inv
<1>4. PICK a : a = [i \in 0..n |-> After(q, i)]
  OBVIOUS
<1>5. a \in [0..n -> Int] /\ a[0] = q.inputTokens /\ a[n] = q.tokens
  <2>1. \A i \in 0..n : After(q, i) \in Int
    BY <1>2, <1>3 DEF After
  <2>2. After(q, 0) = q.inputTokens /\ After(q, n) = q.tokens
    BY <1>2, <1>3 DEF After, Chained
  <2>3. QED
    BY <1>4, <2>1, <2>2
<1>6. PICK s : s = StepDeltas(q)
  OBVIOUS
<1>7. DOMAIN s = 1..n /\ Len(s) = n /\ \A i \in 1..n : s[i] = a[i] - a[i - 1]
  <2>1. DOMAIN s = 1..n /\ \A i \in 1..n : s[i] = q.audits[i].after - q.audits[i].before
    BY <1>3, <1>6 DEF StepDeltas
  <2>2. s = [i \in 1..n |-> q.audits[i].after - q.audits[i].before]
    BY <1>3, <1>6 DEF StepDeltas
  <2>3. Len(s) = n
    BY <2>2
  <2>4. \A i \in 1..n : q.audits[i].after = a[i] /\ q.audits[i].before = a[i - 1]
    BY <1>2, <1>3, <1>4 DEF Chained, After
  <2>5. QED
    BY <2>1, <2>3, <2>4
<1>8. Total(s) = a[n] - a[0]
  BY <1>5, <1>7, Telescope
<1>9. QED
  BY <1>1, <1>5, <1>6, <1>8

\* Tokens before and after an evaluation are those of its texts.
LEMMA EvaluationCounts ==
  ASSUME Inv, PrefixInv, DataInv, CountInv, NEW r \in Request, status[r] = "ok"
  PROVE  PromptTokens(Evaluation(r).before) + Total(Evaluation(r).steps)
           = PromptTokens(Evaluation(r).after)
<1>1. PICK m : m = MapRequest(input[r])
  OBVIOUS
<1>2. m.chunks = StableChunks(input[r].chunks) /\ m.messages = input[r].messages /\ m.prompt = None
  BY <1>1 DEF MapRequest
<1>3. PICK b : b = AssemblePrompt(m.chunks, m.messages)
  OBVIOUS
<1>4. /\ CountRequest(m) = PromptTokens(b) /\ b \in Prompt
      /\ Evaluation(r).before = b
  <2>1. m.chunks \in Seq(RAGChunk) /\ m.messages \in Seq(Message)
    BY <1>2, GivenFacts DEF DataInv, StandFor
  <2>2. b \in Prompt
    BY <1>3, <2>1, AssembledPrompt
  <2>3. QED
    BY <1>1, <1>2, <1>3, <2>2 DEF CountRequest, Evaluation
<1>5. req[r].inputTokens = PromptTokens(b) /\ PromptTokens(b) \in Nat
  BY <1>1, <1>4, TokensAreNat DEF CountInv, Counted
<1>6. req[r].inputTokens + Total(StepDeltas(req[r])) = req[r].tokens
  BY <1>5, StepsLead
<1>7. req[r].tokens = PromptTokens(req[r].prompt)
  <2>1. req[r].tokens = CountRequest(req[r]) /\ req[r].prompt = Assembled(req[r])
    BY DEF Inv, PrefixInv
  <2>2. QED
    BY <2>1 DEF CountRequest, Assembled
<1>8. Evaluation(r).steps = StepDeltas(req[r]) /\ Evaluation(r).after = req[r].prompt
  BY DEF Evaluation
<1>9. QED
  BY <1>4, <1>5, <1>6, <1>7, <1>8

\* Whatever processors rewrote the request, and whatever a client makes its prompt of, it
\* has the text that was assembled and counted, up to time stamps and identifiers; the
\* evaluation shows the same parts, and its steps lead from what came in to what went out
\* (mapDomainResponseSystem, mapDomainResponseMessages, mapEvaluationOutputContext,
\* saveTraceEvaluation; docs/http-api-refine.md:91).
THEOREM RepliesAreThePrompt == Spec => []ReplyIsThePrompt
<1>1. ASSUME Inv, PrefixInv, DataInv, CountInv
      PROVE  ReplyIsThePrompt
  <2> SUFFICES ASSUME NEW r \in Request, Response(r)
               PROVE  LET p == req[r].prompt
                          said == p.memory \o p.active
                          e == Evaluation(r)
                      IN  /\ Gist(Reply(r).system) = Gist(Join(OfSystem(said)))
                          /\ Gists(Reply(r).messages) = OfOthers(Gists(said))
                          /\ Cited(RenderChunks(Unpaged(Reply(r).rag))) = Cited(p.rag)
                          /\ e.output = [system |-> Reply(r).system, messages |-> Reply(r).messages,
                                         rag |-> Reply(r).rag]
                          /\ PromptTokens(e.before) + Total(e.steps) = PromptTokens(e.after)
    BY DEF ReplyIsThePrompt
  <2>1. PICK ms \in Seq(Message), cs \in Seq(RAGChunk) : ms = req[r].messages /\ cs = req[r].chunks
    BY <1>1, RequestFacts
  <2>2. PICK p : p = AssemblePrompt(cs, ms) /\ p = req[r].prompt
    BY <1>1, <2>1 DEF PrefixInv, Response, Assembled
  <2>3. PICK back : back = TrimmedChunks(cs)
    OBVIOUS
  <2>4. /\ Reply(r).system = Join(OfSystem(ms))
        /\ Reply(r).messages = Trimmed(Spoken(OfOthers(ms)))
        /\ Reply(r).rag = back
    BY <2>1, <2>3 DEF Reply, ReplySystem, ReplyMessages
  <2>5. PICK said : said = p.memory \o p.active
    OBVIOUS
  <2>6. /\ Gist(Join(OfSystem(ms))) = Gist(Join(OfSystem(said)))
        /\ Gists(Trimmed(Spoken(OfOthers(ms)))) = OfOthers(Gists(said))
        /\ Cited(RenderChunks(Unpaged(back))) = Cited(p.rag)
    BY <2>2, <2>3, <2>5, SaidIsPrompt
  <2>7. Evaluation(r).output = [system |-> Reply(r).system, messages |-> Reply(r).messages,
                                rag |-> Reply(r).rag]
    <3>1. /\ Join(OfSystem(Spoken(ms))) = Join(OfSystem(ms))
          /\ Trimmed(OfOthers(Spoken(ms))) = Trimmed(Spoken(OfOthers(ms)))
      BY SystemSays, OthersReply
    <3>2. Evaluation(r).output = [system |-> Join(OfSystem(Spoken(ms))),
                                  messages |-> Trimmed(OfOthers(Spoken(ms))), rag |-> back]
      BY <2>1, <2>3 DEF Evaluation, Output
    <3>3. QED
      BY <2>4, <3>1, <3>2
  <2>8. PromptTokens(Evaluation(r).before) + Total(Evaluation(r).steps)
          = PromptTokens(Evaluation(r).after)
    BY <1>1, EvaluationCounts DEF Response
  <2>9. QED
    BY <2>2, <2>4, <2>5, <2>6, <2>7, <2>8
<1>2. Inv' /\ DataInv' => Countable'
  BY TokensFacts, PTL
<1>3. Inv /\ CountInv /\ Inv' /\ DataInv' /\ [Next]_vars => CountInv'
  BY <1>2, CountInductive
<1>4. QED
  BY <1>1, <1>3, InitInv, Inductive, PrefixInitInv, PrefixInductive, InitDataInv, DataInductive,
     InitCountInv, PTL DEF Spec

=============================================================================
