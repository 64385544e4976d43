---------------------------- MODULE PrefixCache -----------------------------
(***************************************************************************)
(* The prefix registry: PrefixCacheProcessor (stage_04) decides which      *)
(* requests are registered, RegisterPrefix (redis_repository.go) counts    *)
(* the hits of a stable prefix, picks its time to live, explains a miss    *)
(* from what the session used before, and scores hot prefixes.             *)
(*                                                                         *)
(* RegisterPrefix is six Redis commands, and every pair of them may have   *)
(* other calls' commands in between: the hit count is read by the first    *)
(* and written by the third.                                               *)
(***************************************************************************)
EXTENDS Naturals, FiniteSets

CONSTANTS
  Call,          \* requests and prewarms that may be registering at a time
  Session,       \* session IDs, and the names of prewarm templates
  Template,      \* the latter
  Model,         \* model IDs
  Prefix,        \* stable prefixes: [system, memory, rag, norm, tokens]
  Blank,         \* a segment without text
  IncludeModel,  \* prefix_cache.namespace.include_model
  MinTokens,     \* prefix_cache.min_stable_prefix_tokens
  MinSegments,   \* prefix_cache.min_segment_count
  HotThreshold,  \* prefix_cache.hot_threshold
  DefaultTTL,    \* redis.prefix_cache_ttl
  HotTTL,        \* prefix_cache.hot_ttl
  MaxTime,       \* bound: the clock
  MaxCalls,      \* bound: registrations
  Faults         \* TRUE when Redis commands may fail

ASSUME SessionAssumption == Session # {} /\ Template \subseteq Session
ASSUME PrefixAssumption ==
  /\ \A p \in Prefix : p.tokens \in Nat
  /\ \A p, q \in Prefix :
       (\A f \in {"system", "memory", "rag", "norm"} : p[f] = q[f]) => p = q
ASSUME FlagsAssumption == IncludeModel \in BOOLEAN /\ Faults \in BOOLEAN
ASSUME AdmissionAssumption == MinTokens \in Nat /\ MinSegments \in Nat
ASSUME HotAssumption == HotThreshold \in Nat \ {0}
ASSUME TTLAssumption == DefaultTTL \in Nat \ {0} /\ HotTTL \in Nat \ {0}
ASSUME BoundAssumption == MaxTime \in Nat /\ MaxCalls \in Nat

----------------------------------------------------------------------------
(* Identity and admission *)

\* The hash of a prefix covers the model and the text of the segments.
Identity == [model : Model, prefix : Prefix]
None == [model |-> Blank]
Segments(p) == {s \in {"system", "memory", "rag"} : p[s] # Blank}

Admitted(p) ==
  /\ Segments(p) # {}
  /\ p.tokens = 0 \/ p.tokens >= MinTokens
  /\ Cardinality(Segments(p)) >= MinSegments

\* One tenant and one policy: a namespace is at most a model.
Namespace(id) == IF IncludeModel THEN id.model ELSE Blank
\* The key of what a session used last; a template has one of its own.
Scope(s, id) == <<IF s \in Template THEN Blank ELSE Namespace(id), s>>
Scopes == {Scope(s, id) : s \in Session, id \in Identity}
Namespaces == {Namespace(id) : id \in Identity}

\* Mutation of DiagnoseMiss: the segment that changed is not named.
DiagnoseNoSegment(previous, id) ==
  CASE previous = None -> "created"
    [] previous = id   -> "ttl_expired"
    [] OTHER           -> "hash_changed"

\* Mutation of DiagnoseMiss: the memory is compared before the system prompt.
DiagnoseMemoryFirst(previous, id) ==
  CASE previous = None                                      -> "created"
    [] previous # None /\ previous.model # id.model         -> "model_changed"
    [] previous = id                                        -> "ttl_expired"
    [] OTHER -> IF previous.prefix.memory # id.prefix.memory THEN "memory_changed"
                ELSE IF previous.prefix.system # id.prefix.system THEN "system_changed"
                ELSE IF previous.prefix.rag # id.prefix.rag THEN "rag_changed"
                ELSE "normalization_changed"

\* Mutation of DiagnoseMiss: the models are not compared.
DiagnoseWithoutModel(previous, id) ==
  CASE previous = None -> "created"
    [] previous = id   -> "ttl_expired"
    [] OTHER -> IF previous.prefix # id.prefix THEN "system_changed" ELSE "combined_changed"

\* diagnoseMiss; the reasons below "hash_changed" by the segment they name.
DiagnoseMiss(previous, id) ==
  CASE previous = None                                  -> "created"
    [] previous # None /\ previous.model # id.model     -> "model_changed"
    [] previous = id                                    -> "ttl_expired"
    [] OTHER ->
       LET was == previous.prefix
           is  == id.prefix
       IN  CASE was.system # is.system -> "system_changed"
             [] was.system = is.system /\ was.memory # is.memory -> "memory_changed"
             [] was.system = is.system /\ was.memory = is.memory /\ was.rag # is.rag
                  -> "rag_changed"
             [] OTHER -> IF was.norm # is.norm THEN "normalization_changed"
                         ELSE "combined_changed"

TTL(hits) == IF hits >= HotThreshold THEN HotTTL ELSE DefaultTTL

----------------------------------------------------------------------------
VARIABLES
  now,           \* the clock
  record,        \* record[id]: [hits, exp]
  session,       \* session[scope]: [id, exp], what was registered there last
  hot,           \* hot[namespace]: [score, exp], the sorted set of hot prefixes
  call,          \* call[c]: see TypeOK
  calls,         \* how many registrations were started (bound)
  last,          \* history: last[s], what session s registered last, and until when
                 \* the session key it was stored under lasts
  seen,          \* history: seen[scope], all that was ever registered there
  sets           \* history: sets[id]: how often the record was set, in its
                 \* present life and in all

vars == <<now, record, session, hot, call, calls, last, seen, sets>>
history == <<last, seen, sets>>

Lives(key) == now < key.exp
Hot(id) == record[id].hits >= HotThreshold
Never == MaxTime + 1            \* a key without a time to live

Busy == {"session", "record", "remember", "score", "expire"}
NewCall == [pc |-> "done", s |-> CHOOSE s \in Session : TRUE, id |-> None,
            found |-> FALSE, hits |-> 0, reason |-> "none", at |-> 0,
            was |-> [id |-> None, exp |-> 0]]

Init ==
  /\ now = 1
  /\ record = [id \in Identity |-> [hits |-> 0, exp |-> 0]]
  /\ session = [k \in Scopes |-> [id |-> None, exp |-> 0]]
  /\ hot = [n \in Namespaces |-> [score |-> [id \in Identity |-> 0], exp |-> 0]]
  /\ call = [c \in Call |-> NewCall]
  /\ calls = 0
  /\ last = [s \in Session |-> [id |-> None, exp |-> 0]]
  /\ seen = [k \in Scopes |-> {}]
  /\ sets = [id \in Identity |-> [life |-> 0, ever |-> 0]]

Tick ==
  /\ now < MaxTime
  /\ now' = now + 1
  /\ UNCHANGED <<record, session, hot, call, calls, history>>

----------------------------------------------------------------------------
(* RegisterPrefix, one action per Redis command *)

MyScope(c) == Scope(call[c].s, call[c].id)

\* Mutation of LookUp: a hit is not counted.
LookUpUncounted(c, s, id) ==
  /\ call[c].pc \notin Busy
  /\ calls < MaxCalls
  /\ s \in Template \/ Admitted(id.prefix)
  /\ calls' = calls + 1
  /\ call' = [call EXCEPT ![c] =
                [NewCall EXCEPT !.pc = "session", !.s = s, !.id = id,
                                !.found = Lives(record[id]),
                                !.hits = IF Lives(record[id])
                                         THEN record[id].hits ELSE 1]]
  /\ UNCHANGED <<now, record, session, hot, history>>

\* GET of the record, by a request whose prefix is admitted or by a prewarm,
\* which asks nobody.
LookUp(c, s, id) ==
  /\ call[c].pc \notin Busy
  /\ calls < MaxCalls
  /\ s \in Template \/ Admitted(id.prefix)
  /\ calls' = calls + 1
  /\ call' = [call EXCEPT ![c] =
                [NewCall EXCEPT !.pc = "session", !.s = s, !.id = id,
                                !.found = Lives(record[id]),
                                !.hits = IF Lives(record[id])
                                         THEN record[id].hits + 1 ELSE 1]]
  /\ UNCHANGED <<now, record, session, hot, history>>

\* GET of what the session used before, and the diagnosis.
LoadSession(c) ==
  /\ call[c].pc = "session"
  /\ LET key == session[MyScope(c)]
         previous == IF Lives(key) THEN key.id ELSE None
     IN  call' = [call EXCEPT ![c].pc = "record",
                    ![c].reason = IF call[c].found THEN "none"
                                  ELSE DiagnoseMiss(previous, call[c].id),
                    ![c].was = [id |-> last[call[c].s].id,
                                exp |-> IF now < last[call[c].s].exp
                                        THEN last[call[c].s].exp ELSE 0]]
  /\ UNCHANGED <<now, record, session, hot, calls, history>>

\* Mutation of SetRecord: a record that is there keeps its time to live.
SetRecordKeepTTL(c) ==
  /\ call[c].pc = "record"
  /\ LET id == call[c].id
     IN  /\ record' = [record EXCEPT ![id] =
                         [hits |-> call[c].hits,
                          exp |-> IF Lives(@) THEN @.exp ELSE now + TTL(call[c].hits)]]
         /\ sets' = [sets EXCEPT ![id] =
                       [life |-> IF Lives(record[id]) THEN @.life + 1 ELSE 1,
                        ever |-> @.ever + 1]]
  /\ call' = [call EXCEPT ![c].pc = "remember", ![c].at = now]
  /\ UNCHANGED <<now, session, hot, calls, last, seen>>

\* Mutation of SetRecord: the hit counted by the lookup is counted again.
SetRecordTwice(c) ==
  /\ call[c].pc = "record"
  /\ LET id == call[c].id
     IN  /\ record' = [record EXCEPT ![id] = [hits |-> call[c].hits + 1,
                                              exp |-> now + TTL(call[c].hits + 1)]]
         /\ sets' = [sets EXCEPT ![id] =
                       [life |-> IF Lives(record[id]) THEN @.life + 1 ELSE 1,
                        ever |-> @.ever + 1]]
  /\ call' = [call EXCEPT ![c].pc = "remember", ![c].at = now]
  /\ UNCHANGED <<now, session, hot, calls, last, seen>>

\* SET of the record with the TTL of its tier.
SetRecord(c) ==
  /\ call[c].pc = "record"
  /\ LET id == call[c].id
     IN  /\ record' = [record EXCEPT ![id] = [hits |-> call[c].hits,
                                              exp |-> now + TTL(call[c].hits)]]
         /\ sets' = [sets EXCEPT ![id] =
                       [life |-> IF Lives(record[id]) THEN @.life + 1 ELSE 1,
                        ever |-> @.ever + 1]]
  /\ call' = [call EXCEPT ![c].pc = "remember", ![c].at = now]
  /\ UNCHANGED <<now, session, hot, calls, last, seen>>

\* SET of the session key, with the same TTL.
SetSession(c) ==
  /\ call[c].pc = "remember"
  /\ LET entry == [id |-> call[c].id, exp |-> now + TTL(call[c].hits)]
     IN  /\ session' = [session EXCEPT ![MyScope(c)] = entry]
         /\ last' = [last EXCEPT ![call[c].s] = entry]
  /\ seen' = [seen EXCEPT ![MyScope(c)] = @ \cup {call[c].id}]
  /\ call' = [call EXCEPT ![c].pc = "score"]
  /\ UNCHANGED <<now, record, hot, calls, sets>>

\* ZINCRBY: a set that is not there is created, without a time to live.
Score(c) ==
  /\ call[c].pc = "score"
  /\ LET id == call[c].id
         set == hot[Namespace(id)]
         scored == IF Lives(set)
                   THEN [set EXCEPT !.score = [@ EXCEPT ![id] = set.score[id] + 1]]
                   ELSE [score |-> [i \in Identity |-> IF i = id THEN 1 ELSE 0],
                         exp |-> Never]
     IN  hot' = [hot EXCEPT ![Namespace(id)] = scored]
  /\ call' = [call EXCEPT ![c].pc = "expire"]
  /\ UNCHANGED <<now, record, session, calls, history>>

\* EXPIRE of the whole set with the TTL of this one prefix.
ExpireHot(c) ==
  /\ call[c].pc = "expire"
  /\ hot' = [hot EXCEPT ![Namespace(call[c].id)] =
               IF Lives(@) THEN [@ EXCEPT !.exp = now + TTL(call[c].hits)] ELSE @]
  /\ call' = [call EXCEPT ![c].pc = "done"]
  /\ UNCHANGED <<now, record, session, calls, history>>

\* Any command may fail, and the request with it; what the earlier ones did
\* stays.  (A command that was carried out but not answered leaves Redis as
\* the failure of the next command does.)
Fails(c) ==
  /\ Faults
  /\ call[c].pc \in Busy
  /\ call' = [call EXCEPT ![c].pc = "failed"]
  /\ UNCHANGED <<now, record, session, hot, calls, history>>

Step(c) ==
  \/ \E s \in Session, id \in Identity : LookUp(c, s, id)
  \/ LoadSession(c) \/ SetRecord(c) \/ SetSession(c) \/ Score(c) \/ ExpireHot(c)
  \/ Fails(c)

Next == Tick \/ \E c \in Call : Step(c)

Spec == Init /\ [][Next]_vars

\* The deployment in which the commands of a registration take no time on a
\* clock that counts in TTLs.
Idle == \A c \in Call : call[c].pc \notin Busy
BriefNext == (Tick /\ Idle) \/ \E c \in Call : Step(c)
BriefSpec == Init /\ [][BriefNext]_vars

----------------------------------------------------------------------------
(* Properties *)

Reasons == {"none", "created", "model_changed", "ttl_expired", "system_changed",
            "memory_changed", "rag_changed", "normalization_changed",
            "combined_changed"}
Used == [id : Identity \cup {None}, exp : Nat]

TypeOK ==
  /\ now \in Nat
  /\ record \in [Identity -> [hits : Nat, exp : Nat]]
  /\ session \in [Scopes -> Used]
  /\ hot \in [Namespaces -> [score : [Identity -> Nat], exp : Nat]]
  /\ call \in [Call -> [pc : Busy \cup {"done", "failed"}, s : Session,
                        id : Identity \cup {None}, found : BOOLEAN, hits : Nat,
                        reason : Reasons, at : Nat, was : Used]]
  /\ calls \in Nat
  /\ last \in [Session -> Used]
  /\ seen \in [Scopes -> SUBSET Identity]
  /\ sets \in [Identity -> [life : Nat, ever : Nat]]

\* Whatever other registrations do to the same prefix, and whatever fails after
\* it, a prefix that was registered stays registered for the default TTL at
\* least (RegisterPrefix; the hot TTL is the longer one).
RegistrationLives ==
  \A c \in Call :
    (call[c].at > 0 /\ now < call[c].at + DefaultTTL) => Lives(record[call[c].id])

\* Concurrent registrations can lose hits but never make one up: a hot record
\* was stored at least threshold times (RegisterPrefix, resolvePrefixTTL).
HotIsEarned == \A id \in Identity : Hot(id) => sets[id].ever >= HotThreshold

\* The miss a caller is told about is explained by something its own session
\* registered in that namespace before (SessionScope, diagnoseMiss), and names
\* the first segment that differs from it; the fallback that names no segment
\* is never needed.
ReasonsAreTrue ==
  \A c \in Call : call[c].pc \in {"record", "remember"} =>
    LET id == call[c].id
        before == seen[MyScope(c)]
        FirstDifference(s, earlier) ==
          \E b \in before : /\ b.model = id.model
                            /\ b.prefix[s] # id.prefix[s]
                            /\ \A e \in earlier : b.prefix[e] = id.prefix[e]
    IN  CASE call[c].reason = "model_changed" -> \E b \in before : b.model # id.model
          [] call[c].reason = "ttl_expired" -> id \in before
          [] call[c].reason = "system_changed" -> FirstDifference("system", {})
          [] call[c].reason = "memory_changed" -> FirstDifference("memory", {"system"})
          [] call[c].reason = "rag_changed" -> FirstDifference("rag", {"system", "memory"})
          [] call[c].reason = "normalization_changed" ->
               FirstDifference("norm", {"system", "memory", "rag"})
          [] OTHER -> call[c].reason \in {"none", "created"}

\* docs/context-refiner-design.md:411: a prefix that was registered as often as
\* the threshold says is hot.  Holds when one registration ends before the next
\* begins.
OftenMeansHot ==
  \A id \in Identity :
    (Lives(record[id]) /\ sets[id].life >= HotThreshold) => Hot(id)

\* docs/context-refiner-design.md:385: a miss that follows a change of the model
\* is reported as one.  Holds when the model is not part of the namespace.
ModelChangeIsDiagnosed ==
  \A c \in Call :
    (/\ call[c].pc = "done"
     /\ call[c].reason # "none"
     /\ call[c].was.exp # 0
     /\ call[c].was.id.model # call[c].id.model)
      => call[c].reason = "model_changed"
=============================================================================
