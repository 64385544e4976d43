----------------------------- MODULE PageStore ------------------------------
(***************************************************************************)
(* Pages and the summaries that stand for them: SavePage, LoadResolvedPage *)
(* and SaveSummary of redis_repository.go, each a sequence of Redis        *)
(* commands that other callers interleave with, and the PageIn loop of     *)
(* refine_service.go over LoadResolvedPage.                                *)
(*                                                                         *)
(* Redis is modelled by what its commands do to two families of keys with  *)
(* a time to live: the page keys and the summary keys next to them.  A key *)
(* exists as long as the clock has not reached its expiry.                 *)
(***************************************************************************)
EXTENDS Naturals, Sequences

CONSTANTS
  Key,           \* page keys: [hash, page]; hash is the part after ":hash:"
  Hash,          \* content hashes of chunks
  Text,          \* what a page may hold
  Saver,         \* calls of SavePage
  Reader,        \* calls of PageIn
  Asked,         \* lists of page keys a PageIn may ask for
  Writer,        \* summary workers
  OldSummary,    \* summaries an earlier release may have left behind
  PageTTL,       \* pageTTL
  MaxTime,       \* bound: the clock
  Faults         \* TRUE when Redis commands may fail

ASSUME NonEmptyAssumption == Key # {} /\ Text # {} /\ Hash # {}
ASSUME KeyAssumption == \A k \in Key : k.hash \in Hash
ASSUME AskedAssumption == Asked \subseteq Seq(Key)
ASSUME TTLAssumption == PageTTL \in Nat \ {0}
ASSUME TimeAssumption == MaxTime \in Nat
ASSUME FaultsAssumption == Faults \in BOOLEAN

----------------------------------------------------------------------------
(* Summary payloads *)

\* form: "artifact", or "legacy" for the payload before artifacts existed, or
\* "none" for no payload; release: "this" when schema and provider version are
\* the current ones; a time of 0 is the zero time.
Contents == [form : {"artifact", "legacy"}, hash : Hash, release : {"this", "old"},
             created : Nat, expires : Nat]
NoPayload == [form |-> "none"]

\* "origin" is history that no step looks at: under which key, and as what, the
\* payload was first stored.  It stays the same when the payload is decoded,
\* prepared and written back.
Payload == [form : {"artifact", "legacy"}, hash : Hash, release : {"this", "old"},
            created : Nat, expires : Nat, origin : [key : Key, first : Contents]]
Put(k, c) == [form |-> c.form, hash |-> c.hash, release |-> c.release,
              created |-> c.created, expires |-> c.expires,
              origin |-> [key |-> k, first |-> c]]

\* A legacy payload has no time to expire at.
ASSUME OldSummaryAssumption ==
  /\ OldSummary \subseteq Contents
  /\ \A c \in OldSummary : c.form = "legacy" => c.expires = 0

\* An artifact whose hash is not the one of the page key cannot be prepared.
Preparable(k, a) == a.hash = k.hash

\* prepareSummaryArtifact at time t, when it returns no error.
Prepared(a, t) ==
  LET created == IF a.created = 0 THEN t ELSE a.created
  IN  [a EXCEPT !.created = created,
                !.expires = IF @ = 0 THEN created + PageTTL ELSE @]

\* decodeSummaryArtifact: an artifact is prepared again, a legacy payload is
\* turned into an artifact of this release.
Decodes(k, a) == a.form = "legacy" \/ Preparable(k, a)

\* Mutation of Decoded: a legacy payload is as new as its reading.
DecodedAnew(k, a, t) ==
  IF a.form = "artifact"
  THEN Prepared(a, t)
  ELSE Prepared([form |-> "artifact", hash |-> k.hash, release |-> "this",
                 created |-> 0, expires |-> 0, origin |-> a.origin], t)

Decoded(k, a, t) ==
  IF a.form = "artifact"
  THEN Prepared(a, t)
  ELSE Prepared([form |-> "artifact", hash |-> k.hash, release |-> "this",
                 created |-> a.created, expires |-> 0, origin |-> a.origin], t)

\* validateSummaryArtifact
Valid(k, a, t) ==
  /\ a.form = "artifact"
  /\ a.release = "this"
  /\ a.hash = k.hash
  /\ t < a.expires

----------------------------------------------------------------------------
VARIABLES
  now,           \* the clock
  page,          \* page[k]: [text, exp]
  summary,       \* summary[k]: [payload, exp]
  saver,         \* saver[s]: [pc, key, text, at, served]
  reader,        \* reader[r]: [pc, asked, got, held, at]
  writer         \* writer[w]: [pc, key, hash, created]

vars == <<now, page, summary, saver, reader, writer>>

PageLives(k) == now < page[k].exp
SummaryLives(k) == now < summary[k].exp
\* The summary that PageIn could answer with for key k.
HasValidSummary(k) == SummaryLives(k) /\ Valid(k, summary[k].payload, now)

SomeKey == CHOOSE k \in Key : TRUE
SomeText == CHOOSE t \in Text : TRUE
SomeHash == CHOOSE h \in Hash : TRUE
\* A writer between two summaries, or after its last.
NoWork(pc) == [pc |-> pc, key |-> SomeKey, hash |-> SomeHash, created |-> 0]

Init ==
  /\ now = 2             \* there was a time before
  /\ page = [k \in Key |-> [text |-> SomeText, exp |-> 0]]
  /\ \E old \in [Key -> OldSummary \cup {NoPayload}] :
       summary = [k \in Key |-> IF old[k] = NoPayload THEN [payload |-> NoPayload, exp |-> 0]
                                ELSE [payload |-> Put(k, old[k]), exp |-> 2 + PageTTL]]
  /\ saver = [s \in Saver |-> [pc |-> "new", key |-> SomeKey, text |-> SomeText,
                               at |-> 0, served |-> FALSE]]
  /\ reader = [r \in Reader |-> [pc |-> "new", asked |-> << >>, got |-> << >>,
                                 held |-> NoPayload, at |-> 0]]
  /\ writer = [w \in Writer |-> NoWork("idle")]

Tick ==
  /\ now < MaxTime
  /\ now' = now + 1
  /\ UNCHANGED <<page, summary, saver, reader, writer>>

----------------------------------------------------------------------------
(* SavePage *)

\* SETNX with the TTL: a new page is stored, an existing one is left alone.
SetNX(s, k, t) ==
  /\ saver[s].pc = "new"
  /\ IF PageLives(k)
     THEN /\ saver' = [saver EXCEPT ![s] = [pc |-> "expire", key |-> k, text |-> t,
                                            at |-> now, served |-> FALSE]]
          /\ UNCHANGED page
     ELSE /\ page' = [page EXCEPT ![k] = [text |-> t, exp |-> now + PageTTL]]
          /\ saver' = [saver EXCEPT ![s] = [pc |-> "ok", key |-> k, text |-> t,
                                            at |-> now, served |-> TRUE]]
  /\ UNCHANGED <<now, summary, reader, writer>>

\* Mutation of Refresh: the TTL of a page that is reused is left as it is.
RefreshNothing(s) ==
  /\ saver[s].pc = "expire"
  /\ saver' = [saver EXCEPT ![s].pc = "ok", ![s].at = now,
                            ![s].served = PageLives(saver[s].key)]
  /\ UNCHANGED <<now, page, summary, reader, writer>>

\* EXPIRE of the page found by SETNX; that there may be none any more is not
\* looked at ("served" is history: whether there was one).
Refresh(s) ==
  /\ saver[s].pc = "expire"
  /\ LET k == saver[s].key
     IN  /\ page' = IF PageLives(k)
                    THEN [page EXCEPT ![k].exp = now + PageTTL] ELSE page
         /\ saver' = [saver EXCEPT ![s].pc = "ok", ![s].at = now,
                                   ![s].served = PageLives(k)]
  /\ UNCHANGED <<now, summary, reader, writer>>

SavePageFails(s) ==
  /\ Faults
  /\ saver[s].pc \in {"new", "expire"}
  /\ saver' = [saver EXCEPT ![s].pc = "failed", ![s].at = 0]
  /\ UNCHANGED <<now, page, summary, reader, writer>>

\* The reply is lost and the call fails; its effect is there all the same.
SetNXReplyLost(s, k, t) ==
  /\ Faults
  /\ saver[s].pc = "new"
  /\ ~PageLives(k)
  /\ page' = [page EXCEPT ![k] = [text |-> t, exp |-> now + PageTTL]]
  /\ saver' = [saver EXCEPT ![s] = [pc |-> "failed", key |-> k, text |-> t,
                                    at |-> 0, served |-> FALSE]]
  /\ UNCHANGED <<now, summary, reader, writer>>

RefreshReplyLost(s) ==
  /\ Faults
  /\ saver[s].pc = "expire"
  /\ PageLives(saver[s].key)
  /\ page' = [page EXCEPT ![saver[s].key].exp = now + PageTTL]
  /\ saver' = [saver EXCEPT ![s].pc = "failed", ![s].at = 0]
  /\ UNCHANGED <<now, summary, reader, writer>>

----------------------------------------------------------------------------
(* PageIn *)

\* The key the loop is at, and what it does once that key is resolved.
Wanted(r) == reader[r].asked[Len(reader[r].got) + 1]
Resolved(r, result) ==
  LET got == Append(reader[r].got, result)
  IN  reader' = [reader EXCEPT
                   ![r].got = got, ![r].held = NoPayload, ![r].at = 0,
                   ![r].pc = IF Len(got) = Len(reader[r].asked) THEN "done" ELSE "summary"]

PageIn(r, keys) ==
  /\ reader[r].pc = "new"
  /\ reader' = [reader EXCEPT ![r].asked = keys,
                              ![r].pc = IF keys = << >> THEN "done" ELSE "summary"]
  /\ UNCHANGED <<now, page, summary, saver, writer>>

\* GET of the summary key.  Without a payload, or when the command fails, the
\* page itself is next; the error is not looked at.
GetSummary(r) ==
  /\ reader[r].pc = "summary"
  /\ \/ /\ SummaryLives(Wanted(r))
        /\ reader' = [reader EXCEPT ![r].pc = "check", ![r].at = now,
                                    ![r].held = summary[Wanted(r)].payload]
     \/ /\ ~SummaryLives(Wanted(r)) \/ Faults
        /\ reader' = [reader EXCEPT ![r].pc = "page"]
  /\ UNCHANGED <<now, page, summary, saver, writer>>

\* What the reader made of the payload it holds, at the time it got it.
Candidate(r) == Decoded(Wanted(r), reader[r].held, reader[r].at)
Usable(r) == /\ Decodes(Wanted(r), reader[r].held)
             /\ Valid(Wanted(r), Candidate(r), reader[r].at)

UseSummary(r) ==
  /\ reader[r].pc = "check"
  /\ reader[r].held.form = "artifact"
  /\ Usable(r)
  /\ Resolved(r, [key |-> Wanted(r), kind |-> "summary", from |-> Candidate(r),
                at |-> reader[r].at])
  /\ UNCHANGED <<now, page, summary, saver, writer>>

\* A payload of this form is written back as an artifact before it is checked.
Migrate(r) ==
  /\ reader[r].pc = "check"
  /\ reader[r].held.form = "legacy"
  /\ \/ summary' = [summary EXCEPT ![Wanted(r)] = [payload |-> Candidate(r),
                                                   exp |-> now + PageTTL]]
     \/ Faults /\ UNCHANGED summary
  /\ IF Usable(r)
     THEN Resolved(r, [key |-> Wanted(r), kind |-> "summary", from |-> Candidate(r),
                at |-> reader[r].at])
     ELSE reader' = [reader EXCEPT ![r].pc = "drop"]
  /\ UNCHANGED <<now, page, saver, writer>>

\* Mutation of DropSummary: a summary that cannot be used ends the call.
DropAndFail(r) ==
  /\ \/ reader[r].pc = "drop"
     \/ reader[r].pc = "check" /\ reader[r].held.form = "artifact" /\ ~Usable(r)
  /\ summary' = [summary EXCEPT ![Wanted(r)] = [payload |-> NoPayload, exp |-> 0]]
  /\ reader' = [reader EXCEPT ![r].pc = "missing", ![r].at = now,
                              ![r].held = NoPayload]
  /\ UNCHANGED <<now, page, saver, writer>>

\* DEL of the summary key, whatever it holds by now.
DropSummary(r) ==
  /\ \/ reader[r].pc = "drop"
     \/ reader[r].pc = "check" /\ reader[r].held.form = "artifact" /\ ~Usable(r)
  /\ \/ summary' = [summary EXCEPT ![Wanted(r)] = [payload |-> NoPayload, exp |-> 0]]
     \/ Faults /\ UNCHANGED summary
  /\ reader' = [reader EXCEPT ![r].pc = "page", ![r].held = NoPayload, ![r].at = 0]
  /\ UNCHANGED <<now, page, saver, writer>>

\* Mutation of GetPage: the payload of the summary key is answered with.
GetPayload(r) ==
  /\ reader[r].pc = "page"
  /\ PageLives(Wanted(r))
  /\ Resolved(r, [key |-> Wanted(r), kind |-> "page", from |-> reader[r].held,
                 at |-> now])
  /\ UNCHANGED <<now, page, summary, saver, writer>>

\* GET of the page key.
GetPage(r) ==
  /\ reader[r].pc = "page"
  /\ PageLives(Wanted(r))
  /\ Resolved(r, [key |-> Wanted(r), kind |-> "page", from |-> page[Wanted(r)].text,
                 at |-> now])
  /\ UNCHANGED <<now, page, summary, saver, writer>>

\* Mutation of PageMissing: the answer ends where a page is missing.
PageMissingIsTheEnd(r) ==
  /\ reader[r].pc = "page"
  /\ ~PageLives(Wanted(r))
  /\ reader' = [reader EXCEPT ![r].pc = "done"]
  /\ UNCHANGED <<now, page, summary, saver, writer>>

\* One page that is not there fails the whole call, and so does an error.
PageMissing(r) ==
  /\ reader[r].pc = "page"
  /\ ~PageLives(Wanted(r))
  /\ reader' = [reader EXCEPT ![r].pc = "missing", ![r].at = now]
  /\ UNCHANGED <<now, page, summary, saver, writer>>

PageInFails(r) ==
  /\ Faults
  /\ reader[r].pc = "page"
  /\ reader' = [reader EXCEPT ![r].pc = "failed"]
  /\ UNCHANGED <<now, page, summary, saver, writer>>

----------------------------------------------------------------------------
(* The summary worker: HeuristicProvider.Summarize, then SaveSummary *)

Summarize(w, k, h) ==
  /\ writer[w].pc = "idle"
  /\ writer' = [writer EXCEPT ![w] = [pc |-> "save", key |-> k, hash |-> h,
                                      created |-> now]]
  /\ UNCHANGED <<now, page, summary, saver, reader>>

Artifact(w) == [form |-> "artifact", hash |-> writer[w].hash, release |-> "this",
                created |-> writer[w].created, expires |-> 0]

\* The summaries when this one is stored.
Stored(w) == [summary EXCEPT ![writer[w].key] =
                [payload |-> Put(writer[w].key, Prepared(Artifact(w), now)),
                 exp |-> now + PageTTL]]

SaveSummary(w) ==
  /\ writer[w].pc = "save"
  /\ Preparable(writer[w].key, Artifact(w))
  /\ summary' = Stored(w)
  /\ writer' = [writer EXCEPT ![w] = NoWork("idle")]
  /\ UNCHANGED <<now, page, saver, reader>>

\* The artifact is refused, or the command fails with its effect there or not:
\* either way the worker ends.
SaveSummaryRefused(w) ==
  /\ writer[w].pc = "save"
  /\ ~Preparable(writer[w].key, Artifact(w))
  /\ writer' = [writer EXCEPT ![w] = NoWork("stopped")]
  /\ UNCHANGED <<now, page, summary, saver, reader>>

SaveSummaryFails(w) ==
  /\ Faults
  /\ writer[w].pc = "save"
  /\ Preparable(writer[w].key, Artifact(w))
  /\ summary' \in {summary, Stored(w)}
  /\ writer' = [writer EXCEPT ![w] = NoWork("stopped")]
  /\ UNCHANGED <<now, page, saver, reader>>

----------------------------------------------------------------------------
SaverStep(s) ==
  \/ \E k \in Key, t \in Text : SetNX(s, k, t) \/ SetNXReplyLost(s, k, t)
  \/ Refresh(s) \/ RefreshReplyLost(s)
  \/ SavePageFails(s)

ReaderStep(r) ==
  \/ \E keys \in Asked : PageIn(r, keys)
  \/ GetSummary(r) \/ UseSummary(r) \/ Migrate(r) \/ DropSummary(r)
  \/ GetPage(r) \/ PageMissing(r) \/ PageInFails(r)

WriterStep(w) ==
  \/ \E k \in Key, h \in Hash : Summarize(w, k, h)
  \/ SaveSummary(w) \/ SaveSummaryRefused(w) \/ SaveSummaryFails(w)

Next ==
  \/ Tick
  \/ \E s \in Saver : SaverStep(s)
  \/ \E r \in Reader : ReaderStep(r)
  \/ \E w \in Writer : WriterStep(w)

Spec == Init /\ [][Next]_vars

----------------------------------------------------------------------------
(* Properties *)

Result ==
  [key : Key, kind : {"summary"}, from : Payload, at : Nat]
    \cup [key : Key, kind : {"page"}, from : Text, at : Nat]

TypeOK ==
  /\ now \in Nat
  /\ page \in [Key -> [text : Text, exp : Nat]]
  /\ summary \in [Key -> [payload : Payload \cup {NoPayload}, exp : Nat]]
  /\ saver \in [Saver -> [pc : {"new", "expire", "ok", "failed"}, key : Key,
                         text : Text, at : Nat, served : BOOLEAN]]
  /\ reader \in [Reader -> [pc : {"new", "summary", "check", "drop", "page", "done",
                                "missing", "failed"},
                          asked : Asked \cup {<< >>}, got : Seq(Result),
                          held : Payload \cup {NoPayload}, at : Nat]]
  /\ writer \in [Writer -> [pc : {"idle", "save", "stopped"}, key : Key, hash : Hash,
                           created : Nat]]

\* A SavePage that created the page, or found it and refreshed it, holds its
\* promise: from then on, for the whole TTL, nobody takes the page away, whatever
\* else saves, reads, drops a summary or runs into an error (SavePage).  A call
\* that found the page, and lost it before its EXPIRE, has no such promise.
PageOutlivesSave ==
  \A s \in Saver :
    (saver[s].pc = "ok" /\ saver[s].served /\ now < saver[s].at + PageTTL)
      => PageLives(saver[s].key)

\* A PageIn that finds a page missing asked for it when no SavePage of the last
\* TTL had stored or refreshed it; an unusable summary, or an error on the way
\* to it, never turns into a miss (LoadResolvedPage falls back to the page).
MissesAreExpiries ==
  \A r \in Reader, s \in Saver :
    (/\ reader[r].pc = "missing"
     /\ saver[s].pc = "ok" /\ saver[s].served
     /\ saver[s].key = Wanted(r)
     /\ saver[s].at < reader[r].at)
      => saver[s].at + PageTTL <= reader[r].at

\* When a payload that was stored with contents c has had its time: 0 for a legacy
\* payload without a date, which only its TTL in Redis ends.
Deadline(c) == IF c.expires # 0 THEN c.expires
               ELSE IF c.created # 0 THEN c.created + PageTTL ELSE 0

\* What was stored with contents c under key k stood for the page at time t.
StandsFor(k, c, t) ==
  /\ c.form = "artifact" => c.release = "this" /\ c.hash = k.hash
  /\ Deadline(c) # 0 => t < Deadline(c)

\* A summary that was answered with fits by what was first stored, not by what the
\* reader, or another one before it, made of it.
SummaryFits(result) ==
  /\ result.from.origin.key = result.key
  /\ StandsFor(result.key, result.from.origin.first, result.at)

\* What PageIn answers with is what it was asked for, in order: for every key
\* either a text some SavePage stored under that very key, or a summary that was
\* stored under that very key by this release for the content of the key, or by an
\* earlier release before there were artifacts, and whose time by what was stored
\* had not run out when it was read; decoding and writing it back, by this or
\* another reader, gives no summary a new life (loadSummaryArtifact).
AnswersFit ==
  \A r \in Reader :
    /\ reader[r].pc = "done" => Len(reader[r].got) = Len(reader[r].asked)
    /\ \A i \in DOMAIN reader[r].got :
         LET result == reader[r].got[i]
         IN  /\ result.key = reader[r].asked[i]
             /\ result.kind = "summary" => SummaryFits(result)
             /\ result.kind = "page" =>
                  \E s \in Saver : saver[s].key = result.key /\ saver[s].text = result.from

\* As long as a page exists its text does not change: concurrent requests that
\* page out the same content share it (SETNX).
TextsAreKept ==
  [][\A k \in Key : (PageLives(k) /\ PageLives(k)') => page'[k].text = page[k].text]_vars

\* The store does what Pager promises: the Redis commands in between, and
\* whatever happens to summaries, cannot be told from no step at all, but for a
\* summary that is answered with and fits.
OutcomeOf(r) ==
  CASE reader[r].pc = "new" -> "none"
    [] reader[r].pc \in {"summary", "check", "drop", "page"} -> "asking"
    [] reader[r].pc \in {"done", "missing", "failed"} -> reader[r].pc
AnswerOf(result) ==
  IF result.kind = "page"
  THEN [key |-> result.key, kind |-> "page", text |-> result.from]
  ELSE [key |-> result.key, kind |-> "summary",
        fits |-> SummaryFits(result)]
AnswersOf(r) == [i \in DOMAIN reader[r].got |-> AnswerOf(reader[r].got[i])]

askedBar == [r \in Reader |-> reader[r].asked]
gotBar == [r \in Reader |-> AnswersOf(r)]
outcomeBar == [r \in Reader |-> OutcomeOf(r)]

Pages == INSTANCE Pager WITH asked <- askedBar, got <- gotBar, outcome <- outcomeBar
ImplementsPager == Pages!Spec

\* docs/code-design.md:402: what a read deletes is an artifact that is not
\* valid.  A summary that PageIn could serve is not lost because somebody reads
\* it.
ReadersKeepValidSummaries ==
  [][\A k \in Key : (HasValidSummary(k) /\ UNCHANGED <<now, writer>>)
        => HasValidSummary(k)']_vars
=============================================================================
