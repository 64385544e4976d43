------------------------------- MODULE Traces -------------------------------
(***************************************************************************)
(* A trace as the dashboard shows it (tempo_repository.go).  The spans of  *)
(* a trace reach Tempo one by one, a child often before its parent; the    *)
(* search and the detail page are computed from the spans there are so     *)
(* far.  Tempo itself is external.                                         *)
(***************************************************************************)
EXTENDS Naturals, FiniteSets, FiniteSetsExt

CONSTANTS
  Span,          \* span IDs, in the order of their names
  Services,      \* service names
  Milli,         \* the units of time in a millisecond
  Trace          \* the traces there may be: functions from Span to
                 \* [parent, start, end, failed, marked, service]

NoSpan == 0      \* the ID of no span: the parent of a span at the top
NoService == "none"

\* parent: a span ID, maybe of a span that never arrives; start, end: 0 for the
\* zero time; failed: the status code says so; marked: an attribute says so.
ASSUME SpanAssumption ==
  Span \subseteq Nat \ {NoSpan} /\ IsFiniteSet(Span) /\ NoService \notin Services
ASSUME MilliAssumption == Milli \in Nat \ {0}

\* A span is its own ancestor only if its parents form a circle.
Acyclic(t) ==
  ~\E circle \in (SUBSET Span) \ {{}} : \A s \in circle : t[s].parent \in circle
ASSUME TraceAssumption ==
  /\ Trace # {}
  /\ \A t \in Trace :
       /\ Acyclic(t)
       /\ \A s \in Span :
            /\ t[s].start \in Nat /\ t[s].end \in Nat
            /\ t[s].failed \in BOOLEAN /\ t[s].marked \in BOOLEAN
            /\ t[s].service \in Services \cup {NoService}

VARIABLES
  trace,         \* the trace
  arrived,       \* the spans that have reached Tempo
  shown          \* the answer to the last LoadTraceDetail or SearchTraces

traceVars == <<trace, arrived, shown>>

Earlier(s, u) == \/ trace[s].start < trace[u].start
                 \/ trace[s].start = trace[u].start /\ s < u

\* The records are in the order of their start times: the first one of some spans.
First(spans) == CHOOSE s \in spans : \A u \in spans \ {s} : Earlier(s, u)

\* Mutation of Depth: a parent that is not there does not count.
DepthIfThere(s) ==
  LET depth[u \in arrived] ==
        IF trace[u].parent \notin arrived THEN 0 ELSE depth[trace[u].parent] + 1
  IN  depth[s]

\* buildDepthIndex
Depth(s) ==
  LET depth[u \in arrived \cup {trace[v].parent : v \in arrived}] ==
        IF u \notin arrived \/ trace[u].parent = NoSpan THEN 0
        ELSE depth[trace[u].parent] + 1
  IN  depth[s]

\* chooseRootSpan: the first span without a parent, else the first.
RootSpan ==
  LET tops == {s \in arrived : trace[s].parent = NoSpan}
  IN  First(IF tops = {} THEN arrived ELSE tops)

\* isErrorStatus and isErrorAttributes
MarkedError(s) == trace[s].marked
SpanError(s) == trace[s].failed \/ MarkedError(s)

ServicesOf(spans) == {trace[s].service : s \in spans} \ {NoService}
StatsOf(v) == LET mine == {s \in arrived : trace[s].service = v}
              IN  [spans |-> Cardinality(mine),
                   errors |-> Cardinality({s \in mine : SpanError(s)})]

\* Mutation of MinStart: the zero time is a time.
MinStartOrZero ==
  CHOOSE t \in {trace[s].start : s \in arrived} :
    \A s \in arrived : t <= trace[s].start

\* The smallest time that is not zero, and the largest; 0 when there is none.
MinStart ==
  LET known == {trace[s].start : s \in arrived} \ {0}
  IN  IF known = {} THEN 0 ELSE CHOOSE t \in known : \A u \in known : t <= u
MaxEnd == CHOOSE t \in {trace[s].end : s \in arrived} :
            \A s \in arrived : trace[s].end <= t

\* nanosToMilliseconds(parseDurationNanos(...)): whole milliseconds, but at least one
\* when the span took any time.
SpanMs(s) ==
  IF trace[s].end <= trace[s].start THEN 0
  ELSE LET ms == (trace[s].end - trace[s].start) \div Milli
       IN  IF ms = 0 THEN 1 ELSE ms

\* The whole milliseconds the spans cover; when that is 0, the root's duration.
Duration ==
  LET ms == IF MinStart > 0 /\ MaxEnd > MinStart THEN (MaxEnd - MinStart) \div Milli ELSE 0
  IN  IF ms = 0 THEN SpanMs(RootSpan) ELSE ms

\* What LoadTraceDetail makes of the spans there are.
Detail == [kind |-> "detail", spans |-> arrived,
           depth |-> [s \in arrived |-> Depth(s)],
           root |-> RootSpan,
           start |-> MinStart, end |-> MaxEnd, duration |-> Duration,
           errors |-> Cardinality({s \in arrived : SpanError(s)}),
           stats |-> [v \in ServicesOf(arrived) |-> StatsOf(v)]]

\* What SearchTraces makes of a trace of which Tempo matches some spans, returns
\* some of those and names the service at the top, maybe not yet: an error is
\* counted only when an attribute tells.
Item(top, matched, returned) ==
  [kind |-> "item",
   count |-> IF Cardinality(returned) > Cardinality(matched)
             THEN Cardinality(returned) ELSE Cardinality(matched),
   services |-> ({top} \ {NoService}) \cup ServicesOf(returned),
   errors |-> Cardinality({s \in returned : MarkedError(s)})]

NothingYet ==
  /\ arrived = {}
  /\ shown = [kind |-> "nothing"]

TraceInit == trace \in Trace /\ NothingYet

Arrive(s) ==
  /\ s \notin arrived
  /\ arrived' = arrived \cup {s}
  /\ UNCHANGED <<trace, shown>>

\* A trace without spans is an error.
LoadTraceDetail ==
  /\ arrived # {}
  /\ shown' = Detail
  /\ UNCHANGED <<trace, arrived>>

SearchTraces ==
  /\ \E returned \in SUBSET arrived, top \in {NoService} \cup ServicesOf(arrived) :
       shown' = Item(top, arrived, returned)
  /\ UNCHANGED <<trace, arrived>>

TraceNext == (\E s \in Span : Arrive(s)) \/ LoadTraceDetail \/ SearchTraces

----------------------------------------------------------------------------
(* Properties *)

IsDetail == shown.kind = "detail"

\* The ancestors of span s that the shown spans tell of: what is in every set that
\* holds the parent of s and, with a span, its parent.
Above(s) == {trace[s].parent} \ {NoSpan}
ClosedAbove(set, s) == Above(s) \subseteq set /\ \A u \in set \cap shown.spans : Above(u) \subseteq set
Ancestors(s) ==
  LET all == UNION {Above(u) : u \in shown.spans}
  IN  {a \in all : \A set \in SUBSET all : ClosedAbove(set, s) => a \in set}

TraceTypeOK ==
  /\ arrived \subseteq Span
  /\ IsDetail => /\ shown.spans \subseteq arrived /\ shown.root \in shown.spans
                 /\ shown.depth \in [shown.spans -> 0..Cardinality(Span)]

\* The depth at which a span is shown is the number of its ancestors that are known of: the
\* ones that are there, and the missing parent of the topmost of them.
DepthsAreTrue ==
  \A s \in shown.spans : shown.depth[s] = Cardinality(Ancestors(s))

\* A trace that is loaded again while its spans come in only unfolds: no span is
\* dropped or moves up, no error is taken back, the time it covers does not shrink.
TracesUnfold ==
  [][(IsDetail /\ shown'.kind = "detail") =>
       /\ shown.spans \subseteq shown'.spans
       /\ \A s \in shown.spans : shown.depth[s] <= shown'.depth[s]
       /\ shown.errors <= shown'.errors
       /\ shown.start > 0 => shown'.start \in 1..shown.start
       /\ shown.end <= shown'.end]_traceVars

ErrorsIn(stats) == MapThenSumSet(LAMBDA v : stats[v].errors, DOMAIN stats)

\* The page of a trace adds up: its root is a span without a parent if there is
\* one, and none such began before it; its time covers every span whose start is
\* known, and in milliseconds it is as long as each of those that is not rounded up to
\* 1, and, unless the start of the root is unknown, no longer than that time or 1;
\* its errors are those of its services and of spans without a service.
PageAddsUp ==
  /\ \A s \in shown.spans : trace[s].parent = NoSpan =>
       trace[shown.root].parent = NoSpan /\ trace[shown.root].start <= trace[s].start
  /\ \A s \in shown.spans : trace[s].start > 0 =>
       /\ shown.start \in 1..trace[s].start /\ trace[s].end <= shown.end
       /\ SpanMs(s) <= 1 \/ SpanMs(s) <= shown.duration
  /\ trace[shown.root].start > 0 =>
       shown.duration <= 1 \/ shown.duration * Milli <= shown.end - shown.start
  /\ shown.errors = ErrorsIn(shown.stats)
                    + Cardinality({s \in shown.spans : trace[s].service = NoService
                                                      /\ SpanError(s)})

\* Whatever spans have arrived, and in whatever order, both hold of the page
\* (LoadTraceDetail).
DetailIsTrue == IsDetail => DepthsAreTrue /\ PageAddsUp
=============================================================================
