--------------------------- MODULE PageStoreProofs --------------------------
(***************************************************************************)
(* Proofs about PageStore, for every number of concurrent calls, every TTL *)
(* and whatever earlier releases left behind: the types, that a served     *)
(* SavePage keeps its page alive, that the text of a page stays, that      *)
(* PageIn answers what it was asked and misses only what has expired, and  *)
(* that the store implements Pager.                                        *)
(***************************************************************************)
EXTENDS PageStore, SequenceTheorems, TLAPS

SaverRecord == [pc : {"new", "expire", "ok", "failed"}, key : Key, text : Text,
                at : Nat, served : BOOLEAN]
ReaderRecord == [pc : {"new", "summary", "check", "drop", "page", "done",
                       "missing", "failed"},
                 asked : Asked \cup {<< >>}, got : Seq(Result),
                 held : Payload \cup {NoPayload}, at : Nat]

\* At work: the key the loop is at exists.
Working == {"summary", "check", "drop", "page"}
ReadersAtWork ==
  \A r \in Reader :
    /\ reader[r].pc \in Working => Len(reader[r].got) < Len(reader[r].asked)
    /\ reader[r].pc = "new" => reader[r].got = << >>
    /\ reader[r].pc = "done" => Len(reader[r].got) = Len(reader[r].asked)

\* Preparing what is to be stored, or was, sets its times and no more
\* (prepareSummaryArtifact).
LEMMA PreparedContents ==
  ASSUME NEW c \in Contents, NEW t \in Nat
  PROVE  /\ Prepared(c, t) \in Contents
         /\ Prepared(c, t).form = c.form
<1>1. PageTTL \in Nat /\ c.created \in Nat /\ c.expires \in Nat
  BY TTLAssumption DEF Contents
<1> DEFINE created == IF c.created = 0 THEN t ELSE c.created
           expires == IF c.expires = 0 THEN created + PageTTL ELSE c.expires
<1>2. created \in Nat /\ expires \in Nat
  BY <1>1
<1>3. Prepared(c, t) = [c EXCEPT !.created = created, !.expires = expires]
  BY DEF Prepared, Contents
<1> HIDE DEF created, expires
<1>4. QED
  BY <1>2, <1>3 DEF Contents

LEMMA PreparedType ==
  ASSUME NEW a \in Payload, NEW t \in Nat
  PROVE  /\ Prepared(a, t) \in Payload
         /\ Prepared(a, t).form = a.form
         /\ Prepared(a, t).hash = a.hash
         /\ Prepared(a, t).release = a.release
         /\ Prepared(a, t).origin = a.origin
         /\ Prepared(a, t).created = IF a.created = 0 THEN t ELSE a.created
         /\ Prepared(a, t).expires = IF a.expires = 0 THEN Prepared(a, t).created + PageTTL
                                     ELSE a.expires
<1>1. PageTTL \in Nat
  BY TTLAssumption
<1>2. a.created \in Nat /\ a.expires \in Nat
  BY DEF Payload
<1> DEFINE created == IF a.created = 0 THEN t ELSE a.created
           expires == IF a.expires = 0 THEN created + PageTTL ELSE a.expires
<1>3. created \in Nat /\ expires \in Nat
  BY <1>1, <1>2
<1>4. Prepared(a, t) = [a EXCEPT !.created = created, !.expires = expires]
  BY DEF Prepared, Payload
<1>5. /\ Prepared(a, t).created = created /\ Prepared(a, t).expires = expires
      /\ Prepared(a, t) \in Payload /\ Prepared(a, t).origin = a.origin
      /\ Prepared(a, t).form = a.form /\ Prepared(a, t).hash = a.hash
      /\ Prepared(a, t).release = a.release
  <2> HIDE DEF created, expires
  <2>1. QED
    BY <1>3, <1>4 DEF Payload
<1>6. QED
  BY <1>5

\* What is put in the store is a payload, with its history.
LEMMA PutType ==
  ASSUME NEW k \in Key, NEW c \in Contents
  PROVE  Put(k, c) \in Payload
BY DEF Put, Payload, Contents

\* The artifact a legacy payload is turned into before it is prepared.
Renewed(k, a) == [form |-> "artifact", hash |-> k.hash, release |-> "this",
                  created |-> a.created, expires |-> 0, origin |-> a.origin]

\* What a payload is decoded to is an artifact with the same history
\* (decodeSummaryArtifact).
LEMMA DecodedType ==
  ASSUME NEW k \in Key, NEW a \in Payload, NEW t \in Nat
  PROVE  /\ Decoded(k, a, t) \in Payload /\ Decoded(k, a, t).form = "artifact"
         /\ Decoded(k, a, t).origin = a.origin
         /\ Decoded(k, a, t) = IF a.form = "artifact" THEN Prepared(a, t)
                               ELSE Prepared(Renewed(k, a), t)
         /\ Renewed(k, a) \in Payload
<1>1. k.hash \in Hash
  BY KeyAssumption
<1>2. /\ Renewed(k, a) \in Payload /\ Renewed(k, a).form = "artifact"
      /\ Renewed(k, a).origin = a.origin
  BY <1>1 DEF Payload, Renewed
<1>3. Decoded(k, a, t) = IF a.form = "artifact" THEN Prepared(a, t)
                         ELSE Prepared(Renewed(k, a), t)
  BY DEF Decoded, Renewed
<1>4. QED
  BY <1>2, <1>3, PreparedType

\* The loop of PageIn is at a key it was asked for.
LEMMA WantedType ==
  ASSUME TypeOK, ReadersAtWork, NEW r \in Reader, reader[r].pc \in Working
  PROVE  /\ Wanted(r) \in Key
         /\ reader[r].asked \in Seq(Key)
         /\ Len(reader[r].got) \in Nat
<1>1. reader[r].got \in Seq(Result) /\ reader[r].asked \in Asked \cup {<< >>}
  BY DEF TypeOK
<1>2. reader[r].asked \in Seq(Key)
  <2>1. << >> \in Seq(Key)
    OBVIOUS
  <2>2. QED
    BY <1>1, <2>1, AskedAssumption
<1>3. Len(reader[r].got) \in Nat /\ Len(reader[r].got) < Len(reader[r].asked)
  BY <1>1 DEF ReadersAtWork
<1>4. Len(reader[r].got) + 1 \in 1..Len(reader[r].asked)
  BY <1>2, <1>3
<1>5. QED
  BY <1>2, <1>3, <1>4 DEF Wanted

\* The answer for one key is added, and the loop goes on or ends.
LEMMA ResolvedType ==
  ASSUME TypeOK, ReadersAtWork, NEW r \in Reader, reader[r].pc \in Working,
         NEW result \in Result, Resolved(r, result)
  PROVE  /\ reader' \in [Reader -> ReaderRecord]
         /\ ReadersAtWork'
<1>1. reader[r].got \in Seq(Result) /\ reader[r].asked \in Seq(Key)
      /\ Len(reader[r].got) < Len(reader[r].asked)
  BY WantedType DEF TypeOK, ReadersAtWork
<1> DEFINE got == Append(reader[r].got, result)
           step == IF Len(got) = Len(reader[r].asked) THEN "done" ELSE "summary"
           new == [reader[r] EXCEPT !.got = got, !.held = NoPayload, !.at = 0, !.pc = step]
<1>2. got \in Seq(Result) /\ Len(got) = Len(reader[r].got) + 1 /\ Len(got) <= Len(reader[r].asked)
  BY <1>1
<1>3. reader' = [reader EXCEPT ![r] = new]
  BY DEF Resolved, TypeOK
<1>4. reader \in [Reader -> ReaderRecord]
  BY DEF TypeOK, ReaderRecord
<1>5. /\ new \in ReaderRecord
      /\ new.got = got /\ new.asked = reader[r].asked /\ new.pc = step
  BY <1>2, <1>4 DEF ReaderRecord
<1>6. /\ reader'[r] = new
      /\ \A q \in Reader : q # r => reader'[q] = reader[q]
      /\ reader' \in [Reader -> ReaderRecord]
  BY <1>3, <1>4, <1>5
<1>7. Len(got) \in Nat /\ Len(reader[r].asked) \in Nat
  BY <1>1, <1>2
<1>8. /\ new.pc \in Working => Len(new.got) < Len(new.asked)
      /\ new.pc # "new"
      /\ new.pc = "done" => Len(new.got) = Len(new.asked)
  BY <1>2, <1>5, <1>7 DEF Working
<1> HIDE DEF new
<1>9. ReadersAtWork'
  BY <1>6, <1>8 DEF ReadersAtWork
<1>10. QED
  BY <1>6, <1>9

\* The other steps of the loop leave the answers alone.
LEMMA ReaderGoesOn ==
  ASSUME TypeOK, ReadersAtWork, NEW r \in Reader, reader[r].pc \in Working,
         NEW step \in Working \cup {"missing", "failed"},
         NEW held \in Payload \cup {NoPayload}, NEW at \in Nat,
         reader' = [reader EXCEPT ![r].pc = step, ![r].held = held, ![r].at = at]
  PROVE  /\ reader' \in [Reader -> ReaderRecord]
         /\ ReadersAtWork'
<1> DEFINE new == [reader[r] EXCEPT !.pc = step, !.held = held, !.at = at]
<1>1. reader \in [Reader -> ReaderRecord]
  BY DEF TypeOK, ReaderRecord
<1>2. /\ new \in ReaderRecord
      /\ new.got = reader[r].got /\ new.asked = reader[r].asked /\ new.pc = step
  BY <1>1 DEF ReaderRecord, Working
<1>3. reader' = [reader EXCEPT ![r] = new]
  BY <1>1
<1> HIDE DEF new
<1>4. /\ reader'[r] = new
      /\ \A q \in Reader : q # r => reader'[q] = reader[q]
      /\ reader' \in [Reader -> ReaderRecord]
  <2>1. reader'[r] = new /\ \A q \in Reader : q # r => reader'[q] = reader[q]
    BY <1>1, <1>3
  <2>2. reader' \in [Reader -> ReaderRecord]
    BY <1>1, <1>2, <1>3
  <2>3. QED
    BY <2>1, <2>2
<1>5. ReadersAtWork'
  BY <1>2, <1>4 DEF ReadersAtWork, Working
<1>6. QED
  BY <1>4, <1>5

\* Nothing is under way, and at most old summaries are stored.
LEMMA InitTypeOK == Init => TypeOK /\ ReadersAtWork
<1> SUFFICES ASSUME Init PROVE TypeOK /\ ReadersAtWork
  OBVIOUS
<1>1. SomeKey \in Key /\ SomeText \in Text /\ SomeHash \in Hash
  BY NonEmptyAssumption DEF SomeKey, SomeText, SomeHash
<1>2. page \in [Key -> [text : Text, exp : Nat]]
  BY <1>1 DEF Init
<1>3. summary \in [Key -> [payload : Payload \cup {NoPayload}, exp : Nat]]
  <2>1. PICK old \in [Key -> OldSummary \cup {NoPayload}] :
          summary = [k \in Key |-> IF old[k] = NoPayload THEN [payload |-> NoPayload, exp |-> 0]
                                   ELSE [payload |-> Put(k, old[k]), exp |-> 2 + PageTTL]]
    BY DEF Init
  <2>2. \A k \in Key : old[k] # NoPayload => Put(k, old[k]) \in Payload
    BY OldSummaryAssumption, PutType
  <2>3. QED
    BY <2>1, <2>2, TTLAssumption
<1>4. saver \in [Saver -> SaverRecord]
  BY <1>1 DEF Init, SaverRecord
<1>5. reader \in [Reader -> ReaderRecord]
  <2>1. << >> \in Seq(Result)
    OBVIOUS
  <2>2. QED
    BY <2>1 DEF Init, ReaderRecord
<1>6. writer \in [Writer -> [pc : {"idle", "save", "stopped"}, key : Key, hash : Hash,
                           created : Nat]]
  BY <1>1 DEF Init, NoWork
<1>7. ReadersAtWork
  BY DEF Init, ReadersAtWork, Working
<1>8. now \in Nat
  BY DEF Init
<1>9. QED
  BY <1>2, <1>3, <1>4, <1>5, <1>6, <1>7, <1>8 DEF TypeOK, SaverRecord, ReaderRecord

\* SavePage.
LEMMA SaverTypeOK ==
  ASSUME TypeOK, ReadersAtWork, NEW s \in Saver, SaverStep(s)
  PROVE  TypeOK' /\ ReadersAtWork'
<1>0. now \in Nat /\ now + PageTTL \in Nat /\ saver \in [Saver -> SaverRecord]
  BY TTLAssumption DEF TypeOK, SaverRecord
<1>1. UNCHANGED <<now, summary, reader, writer>>
  BY DEF SaverStep, SetNX, SetNXReplyLost, Refresh, RefreshReplyLost, SavePageFails
<1>2. page' \in [Key -> [text : Text, exp : Nat]] /\ saver' \in [Saver -> SaverRecord]
  <2>1. ASSUME NEW k \in Key, NEW t \in Text, SetNX(s, k, t)
        PROVE  page' \in [Key -> [text : Text, exp : Nat]] /\ saver' \in [Saver -> SaverRecord]
    <3>1. PICK step \in {"expire", "ok"}, served \in BOOLEAN :
            saver' = [saver EXCEPT ![s] = [pc |-> step, key |-> k, text |-> t,
                                           at |-> now, served |-> served]]
      BY <2>1 DEF SetNX
    <3>2. [pc |-> step, key |-> k, text |-> t, at |-> now, served |-> served] \in SaverRecord
      BY <1>0 DEF SaverRecord
    <3>3. saver' \in [Saver -> SaverRecord]
      BY <1>0, <3>1, <3>2
    <3>4. page' \in [Key -> [text : Text, exp : Nat]]
      <4>1. [text |-> t, exp |-> now + PageTTL] \in [text : Text, exp : Nat]
        BY <1>0
      <4>2. \/ page' = page
            \/ page' = [page EXCEPT ![k] = [text |-> t, exp |-> now + PageTTL]]
        BY <2>1 DEF SetNX
      <4>3. page \in [Key -> [text : Text, exp : Nat]]
        BY DEF TypeOK
      <4>4. QED
        BY <4>1, <4>2, <4>3
    <3>5. QED
      BY <3>3, <3>4
  <2>2. ASSUME Refresh(s)
        PROVE  page' \in [Key -> [text : Text, exp : Nat]] /\ saver' \in [Saver -> SaverRecord]
    <3>1. saver[s].key \in Key /\ PageLives(saver[s].key) \in BOOLEAN
      BY <1>0 DEF SaverRecord, PageLives
    <3>2. page' \in [Key -> [text : Text, exp : Nat]]
      <4> DEFINE new == [page[saver[s].key] EXCEPT !.exp = now + PageTTL]
      <4>1. new \in [text : Text, exp : Nat]
        <5>1. page[saver[s].key] \in [text : Text, exp : Nat]
          BY <3>1 DEF TypeOK
        <5>2. QED
          BY <1>0, <5>1
      <4>2. page' = page \/ page' = [page EXCEPT ![saver[s].key] = new]
        BY <2>2 DEF Refresh
      <4> HIDE DEF new
      <4>3. QED
        BY <3>1, <4>1, <4>2 DEF TypeOK
    <3>3. saver' \in [Saver -> SaverRecord]
      <4> DEFINE new == [saver[s] EXCEPT !.pc = "ok", !.at = now,
                                         !.served = PageLives(saver[s].key)]
      <4>1. new \in SaverRecord
        BY <1>0, <3>1 DEF SaverRecord
      <4>2. saver' = [saver EXCEPT ![s] = new]
        BY <1>0, <2>2 DEF Refresh, SaverRecord
      <4> HIDE DEF new
      <4>3. QED
        BY <1>0, <4>1, <4>2
    <3>4. QED
      BY <3>2, <3>3
  <2>3. ASSUME SavePageFails(s)
        PROVE  page' \in [Key -> [text : Text, exp : Nat]] /\ saver' \in [Saver -> SaverRecord]
    <3> DEFINE new == [saver[s] EXCEPT !.pc = "failed", !.at = 0]
    <3>1. new \in SaverRecord /\ saver' = [saver EXCEPT ![s] = new]
      BY <1>0, <2>3 DEF SavePageFails, SaverRecord
    <3> HIDE DEF new
    <3>2. QED
      <4>1. saver' \in [Saver -> SaverRecord]
        BY <1>0, <3>1
      <4>2. page' = page /\ page \in [Key -> [text : Text, exp : Nat]]
        BY <2>3 DEF SavePageFails, TypeOK
      <4>3. QED
        BY <4>1, <4>2
  <2>4. ASSUME NEW k \in Key, NEW t \in Text, SetNXReplyLost(s, k, t)
        PROVE  page' \in [Key -> [text : Text, exp : Nat]] /\ saver' \in [Saver -> SaverRecord]
    <3>1. [pc |-> "failed", key |-> k, text |-> t, at |-> 0, served |-> FALSE] \in SaverRecord
      BY DEF SaverRecord
    <3>2. saver' \in [Saver -> SaverRecord]
      BY <1>0, <2>4, <3>1 DEF SetNXReplyLost
    <3>3. [text |-> t, exp |-> now + PageTTL] \in [text : Text, exp : Nat]
      BY <1>0
    <3>4. page' \in [Key -> [text : Text, exp : Nat]]
      BY <2>4, <3>3 DEF SetNXReplyLost, TypeOK
    <3>5. QED
      BY <3>2, <3>4
  <2>5. ASSUME RefreshReplyLost(s)
        PROVE  page' \in [Key -> [text : Text, exp : Nat]] /\ saver' \in [Saver -> SaverRecord]
    <3> DEFINE failed == [saver[s] EXCEPT !.pc = "failed", !.at = 0]
               kept == [page[saver[s].key] EXCEPT !.exp = now + PageTTL]
    <3>1. failed \in SaverRecord /\ saver' = [saver EXCEPT ![s] = failed]
      BY <1>0, <2>5 DEF RefreshReplyLost, SaverRecord
    <3>2. saver[s].key \in Key
      BY <1>0 DEF SaverRecord
    <3>3. kept \in [text : Text, exp : Nat] /\ page' = [page EXCEPT ![saver[s].key] = kept]
      <4>1. page[saver[s].key] \in [text : Text, exp : Nat]
        BY <3>2 DEF TypeOK
      <4>2. QED
        BY <1>0, <2>5, <4>1 DEF RefreshReplyLost
    <3> HIDE DEF failed, kept
    <3>4. QED
      BY <1>0, <3>1, <3>2, <3>3 DEF TypeOK
  <2>6. QED
    BY <2>1, <2>2, <2>3, <2>4, <2>5 DEF SaverStep
<1>3. QED
  BY <1>1, <1>2 DEF TypeOK, ReadersAtWork, SaverRecord

\* The worker.
LEMMA WriterTypeOK ==
  ASSUME TypeOK, ReadersAtWork, NEW w \in Writer, WriterStep(w)
  PROVE  TypeOK' /\ ReadersAtWork'
<1>1. UNCHANGED <<now, page, saver, reader>>
  BY DEF WriterStep, Summarize, SaveSummary, SaveSummaryRefused, SaveSummaryFails
<1>2. writer' \in [Writer -> [pc : {"idle", "save", "stopped"}, key : Key, hash : Hash,
                            created : Nat]]
  <2>0. writer \in [Writer -> [pc : {"idle", "save", "stopped"}, key : Key, hash : Hash,
                              created : Nat]]
        /\ now \in Nat
    BY DEF TypeOK
  <2>1. ASSUME NEW k \in Key, NEW h \in Hash, Summarize(w, k, h)
        PROVE  writer' \in [Writer -> [pc : {"idle", "save", "stopped"}, key : Key, hash : Hash,
                                     created : Nat]]
    BY <2>0, <2>1 DEF Summarize
  <2>2. ASSUME NEW step \in {"idle", "stopped"}, writer' = [writer EXCEPT ![w] = NoWork(step)]
        PROVE  writer' \in [Writer -> [pc : {"idle", "save", "stopped"}, key : Key, hash : Hash,
                                     created : Nat]]
    <3>1. SomeKey \in Key /\ SomeHash \in Hash
      BY NonEmptyAssumption DEF SomeKey, SomeHash
    <3>2. QED
      BY <2>0, <2>2, <3>1 DEF NoWork
  <2>3. QED
    BY <2>1, <2>2 DEF WriterStep, SaveSummary, SaveSummaryRefused, SaveSummaryFails
<1>3. summary' \in [Key -> [payload : Payload \cup {NoPayload}, exp : Nat]]
  <2>1. CASE summary' = Stored(w)
    <3>1. /\ Artifact(w) \in Contents /\ now \in Nat /\ now + PageTTL \in Nat
          /\ writer[w].key \in Key
      BY TTLAssumption DEF Artifact, Contents, TypeOK
    <3>2. Put(writer[w].key, Prepared(Artifact(w), now)) \in Payload
      BY <3>1, PreparedContents, PutType
    <3>3. QED
      BY <2>1, <3>1, <3>2 DEF Stored, TypeOK
  <2>2. CASE UNCHANGED summary
    BY <2>2 DEF TypeOK
  <2>3. QED
    BY <2>1, <2>2 DEF WriterStep, Summarize, SaveSummary, SaveSummaryRefused, SaveSummaryFails
<1>4. QED
  BY <1>1, <1>2, <1>3 DEF TypeOK, ReadersAtWork

\* PageIn.
LEMMA ReaderTypeOK ==
  ASSUME TypeOK, ReadersAtWork, NEW r \in Reader, ReaderStep(r)
  PROVE  TypeOK' /\ ReadersAtWork'
<1>0. reader \in [Reader -> ReaderRecord] /\ now \in Nat /\ now + PageTTL \in Nat
  BY TTLAssumption DEF TypeOK, ReaderRecord
<1>1. UNCHANGED <<now, page, saver, writer>>
  BY DEF ReaderStep, PageIn, GetSummary, UseSummary, Migrate, DropSummary, GetPage,
         PageMissing, PageInFails
<1> SUFFICES /\ reader' \in [Reader -> ReaderRecord]
             /\ ReadersAtWork'
             /\ summary' \in [Key -> [payload : Payload \cup {NoPayload}, exp : Nat]]
  BY <1>1 DEF TypeOK, ReaderRecord
<1>2. CASE \E keys \in Asked : PageIn(r, keys)
  <2>1. PICK keys \in Asked : PageIn(r, keys)
    BY <1>2
  <2>2. reader[r].got = << >> /\ keys \in Seq(Key)
    BY <2>1, AskedAssumption DEF PageIn, ReadersAtWork
  <2> DEFINE new == [reader[r] EXCEPT !.asked = keys,
                                      !.pc = IF keys = << >> THEN "done" ELSE "summary"]
  <2>3. /\ reader' = [reader EXCEPT ![r] = new]
        /\ new \in ReaderRecord
        /\ new.got = << >> /\ new.asked = keys
        /\ new.pc = IF keys = << >> THEN "done" ELSE "summary"
    BY <1>0, <2>1, <2>2 DEF PageIn, ReaderRecord
  <2> HIDE DEF new
  <2>4. Len(<< >>) = 0 /\ Len(keys) \in Nat /\ (Len(keys) = 0 <=> keys = << >>)
    BY <2>2
  <2>5. /\ new.pc \in Working => Len(new.got) < Len(new.asked)
        /\ new.pc # "new"
        /\ new.pc = "done" => Len(new.got) = Len(new.asked)
    BY <2>3, <2>4 DEF Working
  <2>6. reader'[r] = new /\ \A q \in Reader : q # r => reader'[q] = reader[q]
    BY <1>0, <2>3
  <2>7. ReadersAtWork'
    BY <2>5, <2>6 DEF ReadersAtWork
  <2>8. reader' \in [Reader -> ReaderRecord]
    BY <1>0, <2>3
  <2>9. QED
    BY <2>1, <2>7, <2>8 DEF PageIn, TypeOK
<1>3. CASE GetSummary(r)
  <2>1. reader[r].pc \in Working /\ UNCHANGED summary
    BY <1>3 DEF GetSummary, Working
  <2>2. Wanted(r) \in Key
    BY <2>1, WantedType
  <2>3. PICK step \in Working, held \in Payload \cup {NoPayload}, at \in Nat :
          reader' = [reader EXCEPT ![r].pc = step, ![r].held = held, ![r].at = at]
    <3>1. summary[Wanted(r)].payload \in Payload \cup {NoPayload}
      BY <2>2 DEF TypeOK
    <3>2. CASE reader' = [reader EXCEPT ![r].pc = "check", ![r].at = now,
                                        ![r].held = summary[Wanted(r)].payload]
      <4> DEFINE held == summary[Wanted(r)].payload
      <4>1. reader' = [reader EXCEPT ![r].pc = "check", ![r].held = held, ![r].at = now]
        BY <1>0, <3>2 DEF ReaderRecord
      <4>2. "check" \in Working
        BY DEF Working
      <4> HIDE DEF held
      <4>3. QED
        BY <1>0, <3>1, <4>1, <4>2 DEF held
    <3>3. CASE reader' = [reader EXCEPT ![r].pc = "page"]
      <4>1. reader[r].held \in Payload \cup {NoPayload} /\ reader[r].at \in Nat
        BY <1>0 DEF ReaderRecord
      <4>2. reader' = [reader EXCEPT ![r].pc = "page", ![r].held = reader[r].held,
                                     ![r].at = reader[r].at]
        BY <1>0, <3>3 DEF ReaderRecord
      <4>3. QED
        BY <4>1, <4>2 DEF Working
    <3>4. QED
      BY <1>3, <3>2, <3>3 DEF GetSummary
  <2>4. QED
    BY <2>1, <2>3, ReaderGoesOn DEF TypeOK
<1>4. ASSUME reader[r].pc = "check", reader[r].held.form \in {"artifact", "legacy"}
      PROVE  /\ Candidate(r) \in Payload
             /\ [key |-> Wanted(r), kind |-> "summary", from |-> Candidate(r),
                 at |-> reader[r].at] \in Result
  <2>1. Wanted(r) \in Key
    BY <1>4, WantedType DEF Working
  <2>2. reader[r].held \in Payload /\ reader[r].at \in Nat
    BY <1>0, <1>4 DEF ReaderRecord, NoPayload
  <2>3. Candidate(r) \in Payload
    BY <2>1, <2>2, DecodedType DEF Candidate
  <2>4. QED
    BY <2>1, <2>2, <2>3 DEF Result
<1>5. CASE UseSummary(r)
  <2>1. reader[r].pc \in Working /\ UNCHANGED summary
    BY <1>5 DEF UseSummary, Working
  <2>2. QED
    BY <1>4, <1>5, <2>1, ResolvedType DEF UseSummary, TypeOK
<1>6. CASE Migrate(r)
  <2>1. reader[r].pc \in Working /\ Candidate(r) \in Payload
    BY <1>4, <1>6 DEF Migrate, Working
  <2>2. Wanted(r) \in Key
    BY <2>1, WantedType
  <2>3. summary' \in [Key -> [payload : Payload \cup {NoPayload}, exp : Nat]]
    <3>1. CASE summary' = [summary EXCEPT ![Wanted(r)] = [payload |-> Candidate(r),
                                                          exp |-> now + PageTTL]]
      BY <1>0, <2>1, <2>2, <3>1 DEF TypeOK
    <3>2. CASE UNCHANGED summary
      BY <3>2 DEF TypeOK
    <3>3. QED
      BY <1>6, <3>1, <3>2 DEF Migrate
  <2>4. reader' \in [Reader -> ReaderRecord] /\ ReadersAtWork'
    <3>1. CASE Usable(r)
      BY <1>4, <1>6, <2>1, <3>1, ResolvedType DEF Migrate
    <3>2. CASE ~Usable(r)
      <4>1. reader[r].held \in Payload \cup {NoPayload} /\ reader[r].at \in Nat
        BY <1>0 DEF ReaderRecord
      <4>2. reader' = [reader EXCEPT ![r].pc = "drop", ![r].held = reader[r].held,
                                     ![r].at = reader[r].at]
        BY <1>0, <1>6, <3>2 DEF Migrate, ReaderRecord
      <4>3. "drop" \in Working
        BY DEF Working
      <4>4. QED
        BY <2>1, <4>1, <4>2, <4>3, ReaderGoesOn
    <3>3. QED
      BY <3>1, <3>2
  <2>5. QED
    BY <2>3, <2>4
<1>7. CASE DropSummary(r)
  <2>1. reader[r].pc \in Working
    BY <1>7 DEF DropSummary, Working
  <2>2. Wanted(r) \in Key
    BY <2>1, WantedType
  <2>3. summary' \in [Key -> [payload : Payload \cup {NoPayload}, exp : Nat]]
    <3>1. CASE summary' = [summary EXCEPT ![Wanted(r)] = [payload |-> NoPayload, exp |-> 0]]
      BY <2>2, <3>1 DEF TypeOK
    <3>2. CASE UNCHANGED summary
      BY <3>2 DEF TypeOK
    <3>3. QED
      BY <1>7, <3>1, <3>2 DEF DropSummary
  <2>4. 0 \in Nat
    OBVIOUS
  <2>5. reader' = [reader EXCEPT ![r].pc = "page", ![r].held = NoPayload, ![r].at = 0]
    BY <1>0, <1>7 DEF DropSummary, ReaderRecord
  <2>6. "page" \in Working
    BY DEF Working
  <2>7. QED
    BY <2>1, <2>3, <2>4, <2>5, <2>6, ReaderGoesOn
<1>8. CASE GetPage(r)
  <2>1. reader[r].pc \in Working /\ UNCHANGED summary
    BY <1>8 DEF GetPage, Working
  <2>2. Wanted(r) \in Key
    BY <2>1, WantedType
  <2>3. [key |-> Wanted(r), kind |-> "page", from |-> page[Wanted(r)].text, at |-> now] \in Result
    BY <1>0, <2>2 DEF Result, TypeOK
  <2>4. QED
    BY <1>8, <2>1, <2>3, ResolvedType DEF GetPage, TypeOK
<1>9. CASE PageMissing(r)
  <2>1. reader[r].pc \in Working /\ UNCHANGED summary
    BY <1>9 DEF PageMissing, Working
  <2>2. reader[r].held \in Payload \cup {NoPayload}
    BY <1>0 DEF ReaderRecord
  <2>3. reader' = [reader EXCEPT ![r].pc = "missing", ![r].held = reader[r].held, ![r].at = now]
    BY <1>0, <1>9 DEF PageMissing, ReaderRecord
  <2>4. QED
    BY <1>0, <2>1, <2>2, <2>3, ReaderGoesOn DEF TypeOK
<1>10. CASE PageInFails(r)
  <2>1. reader[r].pc \in Working /\ UNCHANGED summary
    BY <1>10 DEF PageInFails, Working
  <2>2. reader[r].held \in Payload \cup {NoPayload} /\ reader[r].at \in Nat
    BY <1>0 DEF ReaderRecord
  <2>3. reader' = [reader EXCEPT ![r].pc = "failed", ![r].held = reader[r].held,
                                 ![r].at = reader[r].at]
    BY <1>0, <1>10 DEF PageInFails, ReaderRecord
  <2>4. QED
    BY <2>1, <2>2, <2>3, ReaderGoesOn DEF TypeOK
<1>11. QED
  BY <1>2, <1>3, <1>5, <1>6, <1>7, <1>8, <1>9, <1>10 DEF ReaderStep

\* Every step keeps the types.
LEMMA NextTypeOK ==
  ASSUME TypeOK, ReadersAtWork, [Next]_vars
  PROVE  TypeOK' /\ ReadersAtWork'
<1>1. CASE Tick
  BY <1>1 DEF Tick, TypeOK, ReadersAtWork
<1>2. CASE UNCHANGED vars
  BY <1>2 DEF vars, TypeOK, ReadersAtWork
<1>3. QED
  BY <1>1, <1>2, SaverTypeOK, ReaderTypeOK, WriterTypeOK DEF Next

\* Every variable of the page store keeps its type, and the PageIn loop never
\* runs past the keys it was asked for.
THEOREM TypeCorrect == Spec => [](TypeOK /\ ReadersAtWork)
<1>1. Init => TypeOK /\ ReadersAtWork
  BY InitTypeOK
<1>2. TypeOK /\ ReadersAtWork /\ [Next]_vars => TypeOK' /\ ReadersAtWork'
  BY NextTypeOK
<1>3. QED
  BY <1>1, <1>2, PTL DEF Spec

----------------------------------------------------------------------------
(* Pages outlive the call that saved them *)

\* A served call wrote the page's expiry, and nobody has moved it back.
ServedInv ==
  \A s \in Saver :
    /\ saver[s].at <= now
    /\ (saver[s].pc = "ok" /\ saver[s].served)
         => saver[s].at + PageTTL <= page[saver[s].key].exp

\* No page expires later than a page written now would, so that writing one now
\* moves no expiry back.
LEMMA NextServed ==
  ASSUME TypeOK, ServedInv, [Next]_vars
  PROVE  ServedInv'
<1>0. /\ now \in Nat /\ PageTTL \in Nat
      /\ saver \in [Saver -> SaverRecord]
      /\ page \in [Key -> [text : Text, exp : Nat]]
  BY TTLAssumption DEF TypeOK, SaverRecord
<1>1. \A s \in Saver : saver[s].at \in Nat /\ saver[s].key \in Key
  BY <1>0 DEF SaverRecord
<1>2. \A k \in Key : page[k].exp \in Nat
  BY <1>0
\* A step that writes the page of call s now, or writes none.
<1>3. ASSUME NEW s \in Saver, NEW new, (new.at = 0 \/ new.at = now), new.key \in Key,
             saver' = [saver EXCEPT ![s] = new], now' = now,
             \A k \in Key : page'[k].exp \in {page[k].exp, now + PageTTL},
             (new.pc = "ok" /\ new.served) => page'[new.key].exp = now + PageTTL
      PROVE  ServedInv'
  <2>1. ASSUME NEW q \in Saver
        PROVE  /\ saver'[q].at <= now'
               /\ (saver'[q].pc = "ok" /\ saver'[q].served)
                    => saver'[q].at + PageTTL <= page'[saver'[q].key].exp
    <3>1. CASE q = s
      <4>1. saver'[q] = new
        BY <1>0, <1>3, <3>1
      <4>2. QED
        BY <1>0, <1>3, <4>1
    <3>2. CASE q # s
      <4>1. saver'[q] = saver[q] /\ saver[q].key \in Key /\ saver[q].at \in Nat
        BY <1>0, <1>1, <1>3, <3>2
      <4>2. saver[q].at <= now
        BY DEF ServedInv
      <4>3. ASSUME saver[q].pc = "ok", saver[q].served
            PROVE  saver[q].at + PageTTL <= page'[saver[q].key].exp
        <5>1. saver[q].at + PageTTL <= page[saver[q].key].exp
          BY <4>3 DEF ServedInv
        <5>2. page'[saver[q].key].exp \in {page[saver[q].key].exp, now + PageTTL}
          BY <1>3, <4>1
        <5>3. QED
          BY <1>0, <1>2, <4>1, <4>2, <5>1, <5>2
      <4>4. QED
        BY <1>3, <4>1, <4>2, <4>3
    <3>3. QED
      BY <3>1, <3>2
  <2>2. QED
    BY <2>1 DEF ServedInv
<1>4. ASSUME NEW s \in Saver, NEW k \in Key, NEW t \in Text, SetNX(s, k, t)
      PROVE  ServedInv'
  <2>1. CASE PageLives(k)
    <3> DEFINE new == [pc |-> "expire", key |-> k, text |-> t, at |-> now, served |-> FALSE]
    <3>1. /\ saver' = [saver EXCEPT ![s] = new] /\ page' = page /\ now' = now
          /\ (new.at = 0 \/ new.at = now) /\ new.key \in Key /\ new.pc # "ok"
      BY <1>4, <2>1 DEF SetNX
    <3> HIDE DEF new
    <3>2. QED
      BY <1>3, <3>1
  <2>2. CASE ~PageLives(k)
    <3> DEFINE new == [pc |-> "ok", key |-> k, text |-> t, at |-> now, served |-> TRUE]
    <3>1. /\ saver' = [saver EXCEPT ![s] = new] /\ now' = now
          /\ page' = [page EXCEPT ![k] = [text |-> t, exp |-> now + PageTTL]]
          /\ (new.at = 0 \/ new.at = now) /\ new.key = k
      BY <1>4, <2>2 DEF SetNX
    <3> HIDE DEF new
    <3>2. /\ page'[k].exp = now + PageTTL
          /\ \A j \in Key : page'[j].exp \in {page[j].exp, now + PageTTL}
      BY <1>0, <3>1
    <3>3. QED
      BY <1>3, <3>1, <3>2
  <2>3. QED
    BY <2>1, <2>2
<1>5. ASSUME NEW s \in Saver, Refresh(s)
      PROVE  ServedInv'
  <2> DEFINE new == [saver[s] EXCEPT !.pc = "ok", !.at = now, !.served = PageLives(saver[s].key)]
  <2>1. /\ saver' = [saver EXCEPT ![s] = new] /\ now' = now
        /\ (new.at = 0 \/ new.at = now) /\ new.key = saver[s].key /\ new.served = PageLives(saver[s].key)
    BY <1>0, <1>5 DEF Refresh, SaverRecord
  <2> HIDE DEF new
  <2>2. /\ new.served => page'[new.key].exp = now + PageTTL
        /\ \A j \in Key : page'[j].exp \in {page[j].exp, now + PageTTL}
    <3>1. CASE PageLives(saver[s].key)
      <4>1. page' = [page EXCEPT ![saver[s].key] = [page[saver[s].key] EXCEPT !.exp = now + PageTTL]]
        BY <1>0, <1>1, <1>5, <3>1 DEF Refresh
      <4>2. page[saver[s].key] \in [text : Text, exp : Nat]
        BY <1>0, <1>1
      <4>3. QED
        BY <1>0, <1>1, <2>1, <4>1, <4>2
    <3>2. CASE ~PageLives(saver[s].key)
      <4>1. page' = page
        BY <1>5, <3>2 DEF Refresh
      <4>2. QED
        BY <2>1, <3>2, <4>1
    <3>3. QED
      BY <3>1, <3>2
  <2>3. QED
    BY <1>1, <1>3, <2>1, <2>2
<1>6. ASSUME NEW s \in Saver, SavePageFails(s) \/ RefreshReplyLost(s)
      PROVE  ServedInv'
  <2> DEFINE new == [saver[s] EXCEPT !.pc = "failed", !.at = 0]
  <2>1. /\ saver' = [saver EXCEPT ![s] = new] /\ now' = now
        /\ (new.at = 0 \/ new.at = now) /\ new.pc = "failed" /\ new.key = saver[s].key
    BY <1>0, <1>6 DEF SavePageFails, RefreshReplyLost, SaverRecord
  <2> HIDE DEF new
  <2>2. \A j \in Key : page'[j].exp \in {page[j].exp, now + PageTTL}
    <3>1. CASE page' = page
      BY <3>1
    <3>2. CASE RefreshReplyLost(s)
      <4>1. page' = [page EXCEPT ![saver[s].key] = [page[saver[s].key] EXCEPT !.exp = now + PageTTL]]
        BY <1>0, <1>1, <3>2 DEF RefreshReplyLost
      <4>2. page[saver[s].key] \in [text : Text, exp : Nat]
        BY <1>0, <1>1
      <4>3. QED
        BY <1>0, <1>1, <4>1, <4>2
    <3>3. QED
      BY <1>6, <3>1, <3>2 DEF SavePageFails
  <2>3. QED
    BY <1>0, <1>1, <1>3, <2>1, <2>2
<1>7. ASSUME NEW s \in Saver, NEW k \in Key, NEW t \in Text, SetNXReplyLost(s, k, t)
       PROVE  ServedInv'
  <2> DEFINE new == [pc |-> "failed", key |-> k, text |-> t, at |-> 0, served |-> FALSE]
  <2>1. /\ saver' = [saver EXCEPT ![s] = new] /\ now' = now
        /\ page' = [page EXCEPT ![k] = [text |-> t, exp |-> now + PageTTL]]
        /\ (new.at = 0 \/ new.at = now) /\ new.key = k /\ new.pc = "failed"
    BY <1>7 DEF SetNXReplyLost
  <2> HIDE DEF new
  <2>2. \A j \in Key : page'[j].exp \in {page[j].exp, now + PageTTL}
    BY <1>0, <2>1
  <2>3. QED
    BY <1>0, <1>3, <2>1, <2>2
<1>8. CASE Tick
  BY <1>0, <1>1, <1>8 DEF Tick, ServedInv
<1>9. CASE UNCHANGED <<now, page, saver>>
  BY <1>9 DEF ServedInv
<1>10. ASSUME NEW r \in Reader, ReaderStep(r)
      PROVE  UNCHANGED <<now, page, saver>>
  BY <1>10 DEF ReaderStep, PageIn, GetSummary, UseSummary, Migrate, DropSummary, GetPage,
              PageMissing, PageInFails
<1>11. ASSUME NEW w \in Writer, WriterStep(w)
       PROVE  UNCHANGED <<now, page, saver>>
  BY <1>11 DEF WriterStep, Summarize, SaveSummary, SaveSummaryRefused, SaveSummaryFails
<1>12. CASE UNCHANGED vars
  BY <1>9, <1>12 DEF vars
<1>13. QED
  BY <1>4, <1>5, <1>6, <1>8, <1>9, <1>10, <1>11, <1>12, <1>7 DEF Next, SaverStep

\* A page that SavePage created, or found and refreshed, is there for the TTL,
\* whatever the other callers do.
THEOREM PagesOutliveSaves == Spec => []PageOutlivesSave
<1>1. Init => ServedInv
  <2> SUFFICES ASSUME Init PROVE ServedInv
    OBVIOUS
  <2>1. now = 2 /\ \A s \in Saver : saver[s].at = 0 /\ saver[s].pc = "new"
    BY DEF Init
  <2>2. QED
    BY <2>1 DEF ServedInv
<1>2. TypeOK /\ ServedInv /\ [Next]_vars => ServedInv'
  BY NextServed
<1>3. TypeOK /\ ServedInv => PageOutlivesSave
  <2> SUFFICES ASSUME TypeOK, ServedInv, NEW s \in Saver,
                      saver[s].pc = "ok", saver[s].served, now < saver[s].at + PageTTL
               PROVE  now < page[saver[s].key].exp
    BY DEF PageOutlivesSave, PageLives
  <2>1. saver[s].at + PageTTL <= page[saver[s].key].exp
    BY DEF ServedInv
  <2>2. saver[s].key \in Key /\ saver[s].at \in Nat /\ now \in Nat /\ PageTTL \in Nat
    BY TTLAssumption DEF TypeOK
  <2>3. page[saver[s].key].exp \in Nat
    BY <2>2 DEF TypeOK
  <2>4. QED
    BY <2>1, <2>2, <2>3
<1>4. QED
  BY <1>1, <1>2, <1>3, TypeCorrect, PTL DEF Spec

----------------------------------------------------------------------------
(* Texts are kept *)

\* A step that writes a text writes it where no page is.
LEMMA WritesOnlyTheDead ==
  ASSUME TypeOK, [Next]_vars, NEW k \in Key, PageLives(k)
  PROVE  page'[k].text = page[k].text
<1>0. page \in [Key -> [text : Text, exp : Nat]]
  BY DEF TypeOK
<1>1. ASSUME NEW s \in Saver, NEW j \in Key, NEW t \in Text,
             SetNX(s, j, t) \/ SetNXReplyLost(s, j, t)
      PROVE  page'[k].text = page[k].text
  <2>1. page' = page \/ (~PageLives(j) /\ page' = [page EXCEPT ![j] = [text |-> t, exp |-> now + PageTTL]])
    BY <1>1 DEF SetNX, SetNXReplyLost
  <2>2. QED
    BY <1>0, <2>1
<1>2. ASSUME NEW s \in Saver, Refresh(s) \/ RefreshReplyLost(s)
      PROVE  page'[k].text = page[k].text
  <2>1. \/ page' = page
        \/ page' = [page EXCEPT ![saver[s].key] = [page[saver[s].key] EXCEPT !.exp = now + PageTTL]]
    BY <1>0, <1>2 DEF Refresh, RefreshReplyLost
  <2>2. QED
    BY <1>0, <2>1
<1>3. CASE UNCHANGED page
  BY <1>3
<1>4. ASSUME NEW r \in Reader, ReaderStep(r) PROVE UNCHANGED page
  BY <1>4 DEF ReaderStep, PageIn, GetSummary, UseSummary, Migrate, DropSummary, GetPage,
              PageMissing, PageInFails
<1>5. ASSUME NEW w \in Writer, WriterStep(w) PROVE UNCHANGED page
  BY <1>5 DEF WriterStep, Summarize, SaveSummary, SaveSummaryRefused, SaveSummaryFails
<1>6. QED
  BY <1>1, <1>2, <1>3, <1>4, <1>5 DEF Next, SaverStep, SavePageFails, Tick, vars

\* The text of a page that lives is never replaced, however many requests page
\* out under its key.
THEOREM TextsRemain == Spec => TextsAreKept
<1>1. TypeOK /\ [Next]_vars
        => [\A k \in Key : (PageLives(k) /\ PageLives(k)') => page'[k].text = page[k].text]_vars
  BY WritesOnlyTheDead
<1>2. QED
  BY <1>1, TypeCorrect, PTL DEF Spec, TextsAreKept

----------------------------------------------------------------------------
(* A miss is an expiry *)

\* Nobody has looked at the store later than now.
ReadersInTime == \A r \in Reader : reader[r].at <= now

\* What any step does to the call of one reader, as far as misses go.
LEMMA ReaderFrame ==
  ASSUME TypeOK, NEW r \in Reader, ReaderStep(r)
  PROVE  /\ UNCHANGED <<now, page, saver, writer>>
         /\ \A q \in Reader : q # r => reader'[q] = reader[q]
         /\ reader'[r].at \in {0, now, reader[r].at}
         /\ reader[r].pc \notin {"done", "missing", "failed"}
         /\ reader'[r].pc = "missing" => PageMissing(r)
<1>0. reader \in [Reader -> ReaderRecord]
  BY DEF TypeOK, ReaderRecord
<1>1. ASSUME NEW keys \in Asked, PageIn(r, keys)
      PROVE  /\ UNCHANGED <<now, page, saver, writer>>
             /\ \A q \in Reader : q # r => reader'[q] = reader[q]
             /\ reader'[r].at = reader[r].at
             /\ reader[r].pc = "new" /\ reader'[r].pc \in {"done", "summary"}
  BY <1>0, <1>1 DEF PageIn, ReaderRecord
<1>2. ASSUME NEW result, Resolved(r, result)
      PROVE  /\ \A q \in Reader : q # r => reader'[q] = reader[q]
             /\ reader'[r].at = 0 /\ reader'[r].pc \in {"done", "summary"}
  BY <1>0, <1>2 DEF Resolved, ReaderRecord
<1>3. CASE UseSummary(r) \/ GetPage(r)
  BY <1>2, <1>3 DEF UseSummary, GetPage
<1>4. CASE Migrate(r)
  <2>1. UNCHANGED <<now, page, saver, writer>> /\ reader[r].pc = "check"
    BY <1>4 DEF Migrate
  <2>2. CASE Usable(r)
    BY <1>2, <1>4, <2>1, <2>2 DEF Migrate
  <2>3. CASE ~Usable(r)
    <3>1. reader' = [reader EXCEPT ![r].pc = "drop"]
      BY <1>4, <2>3 DEF Migrate
    <3>2. QED
      BY <1>0, <2>1, <3>1 DEF ReaderRecord
  <2>4. QED
    BY <2>2, <2>3
<1>5. CASE GetSummary(r)
  BY <1>0, <1>5 DEF GetSummary, ReaderRecord
<1>6. CASE DropSummary(r)
  BY <1>0, <1>6 DEF DropSummary, ReaderRecord
<1>7. CASE PageMissing(r)
  BY <1>0, <1>7 DEF PageMissing, ReaderRecord
<1>8. CASE PageInFails(r)
  BY <1>0, <1>8 DEF PageInFails, ReaderRecord
<1>9. QED
  BY <1>1, <1>3, <1>4, <1>5, <1>6, <1>7, <1>8 DEF ReaderStep

\* What any step does to one call of SavePage.
LEMMA SaverFrame ==
  ASSUME TypeOK, NEW s \in Saver, SaverStep(s)
  PROVE  /\ UNCHANGED <<now, summary, reader, writer>>
         /\ \A q \in Saver : q # s => saver'[q] = saver[q]
         /\ saver'[s].pc # "new"
         /\ saver'[s].pc = "ok" => saver'[s].at = now
         /\ saver[s].pc # "new" =>
              saver'[s].key = saver[s].key /\ saver'[s].text = saver[s].text
<1>0. saver \in [Saver -> SaverRecord]
  BY DEF TypeOK, SaverRecord
<1>1. ASSUME NEW k \in Key, NEW t \in Text, SetNX(s, k, t)
      PROVE  /\ UNCHANGED <<now, summary, reader, writer>>
             /\ \A q \in Saver : q # s => saver'[q] = saver[q]
             /\ saver'[s].pc \in {"ok", "expire"} /\ saver'[s].at = now
             /\ saver[s].pc = "new"
  <2>1. PICK step \in {"ok", "expire"}, served \in BOOLEAN :
          saver' = [saver EXCEPT ![s] = [pc |-> step, key |-> k, text |-> t,
                                         at |-> now, served |-> served]]
    BY <1>1 DEF SetNX
  <2>2. QED
    BY <1>0, <1>1, <2>1 DEF SetNX
<1>2. ASSUME NEW k \in Key, NEW t \in Text, SetNXReplyLost(s, k, t)
      PROVE  /\ UNCHANGED <<now, summary, reader, writer>>
             /\ \A q \in Saver : q # s => saver'[q] = saver[q]
             /\ saver'[s].pc = "failed" /\ saver[s].pc = "new"
  BY <1>0, <1>2 DEF SetNXReplyLost
<1>3. CASE Refresh(s)
  <2>1. saver' = [saver EXCEPT ![s] = [saver[s] EXCEPT !.pc = "ok", !.at = now,
                                                     !.served = PageLives(saver[s].key)]]
    BY <1>0, <1>3 DEF Refresh
  <2>2. UNCHANGED <<now, summary, reader, writer>>
    BY <1>3 DEF Refresh
  <2>3. QED
    BY <1>0, <2>1, <2>2 DEF SaverRecord
<1>4. CASE SavePageFails(s) \/ RefreshReplyLost(s)
  <2>1. saver' = [saver EXCEPT ![s] = [saver[s] EXCEPT !.pc = "failed", !.at = 0]]
    BY <1>0, <1>4 DEF SavePageFails, RefreshReplyLost
  <2>2. UNCHANGED <<now, summary, reader, writer>>
    BY <1>4 DEF SavePageFails, RefreshReplyLost
  <2>3. QED
    BY <1>0, <2>1, <2>2 DEF SaverRecord
<1>5. QED
  BY <1>1, <1>2, <1>3, <1>4 DEF SaverStep

\* The clock of the readers never runs ahead.
LEMMA NextInTime ==
  ASSUME TypeOK, ReadersInTime, [Next]_vars
  PROVE  ReadersInTime'
<1>0. now \in Nat /\ \A r \in Reader : reader[r].at \in Nat
  BY DEF TypeOK
<1>1. ASSUME NEW r \in Reader, ReaderStep(r) PROVE ReadersInTime'
  BY <1>0, <1>1, ReaderFrame DEF ReadersInTime
<1>2. ASSUME NEW s \in Saver, SaverStep(s) PROVE ReadersInTime'
  BY <1>2, SaverFrame DEF ReadersInTime
<1>3. CASE Tick
  BY <1>0, <1>3 DEF Tick, ReadersInTime
<1>4. CASE UNCHANGED <<now, reader>>
  BY <1>4 DEF ReadersInTime
<1>5. ASSUME NEW w \in Writer, WriterStep(w) PROVE UNCHANGED <<now, reader>>
  BY <1>5 DEF WriterStep, Summarize, SaveSummary, SaveSummaryRefused, SaveSummaryFails
<1>6. QED
  BY <1>1, <1>2, <1>3, <1>4, <1>5 DEF Next, vars

\* A reader misses what is expired by then; a SavePage served later on comes
\* after the miss.
LEMMA NextMisses ==
  ASSUME TypeOK, ServedInv, ReadersInTime, MissesAreExpiries, [Next]_vars
  PROVE  MissesAreExpiries'
<1>0. now \in Nat /\ PageTTL \in Nat
  BY TTLAssumption DEF TypeOK
<1>1. ASSUME NEW r \in Reader, ReaderStep(r) PROVE MissesAreExpiries'
  <2> SUFFICES ASSUME NEW q \in Reader, NEW s \in Saver,
                      reader'[q].pc = "missing", saver'[s].pc = "ok", saver'[s].served,
                      saver'[s].key = Wanted(q)', saver'[s].at < reader'[q].at
               PROVE  saver'[s].at + PageTTL <= reader'[q].at
    BY DEF MissesAreExpiries
  <2>1. saver' = saver
    BY <1>1, ReaderFrame
  <2>2. CASE q # r
    <3>1. reader'[q] = reader[q]
      BY <1>1, <2>2, ReaderFrame
    <3>2. Wanted(q)' = Wanted(q)
      BY <3>1 DEF Wanted
    <3>3. QED
      BY <2>1, <3>1, <3>2 DEF MissesAreExpiries
  <2>3. CASE q = r
    <3>1. PageMissing(q)
      BY <1>1, <2>3, ReaderFrame
    <3>2. reader'[q].at = now /\ Wanted(q)' = Wanted(q)
      BY <3>1 DEF PageMissing, TypeOK, Wanted
    <3>3. saver[s].key \in Key /\ saver[s].at \in Nat
      BY DEF TypeOK
    <3>4. page[saver[s].key].exp \in Nat /\ ~(now < page[saver[s].key].exp)
      BY <2>1, <3>1, <3>2, <3>3 DEF PageMissing, PageLives, TypeOK
    <3>5. saver[s].at + PageTTL <= page[saver[s].key].exp
      BY <2>1 DEF ServedInv
    <3>6. QED
      BY <1>0, <2>1, <3>2, <3>3, <3>4, <3>5
  <2>4. QED
    BY <2>2, <2>3
<1>2. ASSUME NEW s \in Saver, SaverStep(s) PROVE MissesAreExpiries'
  <2> SUFFICES ASSUME NEW q \in Reader, NEW u \in Saver,
                      reader'[q].pc = "missing", saver'[u].pc = "ok", saver'[u].served,
                      saver'[u].key = Wanted(q)', saver'[u].at < reader'[q].at
               PROVE  saver'[u].at + PageTTL <= reader'[q].at
    BY DEF MissesAreExpiries
  <2>1. reader' = reader /\ Wanted(q)' = Wanted(q)
    BY <1>2, SaverFrame DEF Wanted
  <2>2. CASE u # s
    BY <1>2, <2>1, <2>2, SaverFrame DEF MissesAreExpiries
  <2>3. CASE u = s
    <3>1. saver'[u].at = now
      BY <1>2, <2>3, SaverFrame
    <3>2. reader[q].at \in Nat /\ reader[q].at <= now
      BY DEF TypeOK, ReadersInTime
    <3>3. QED
      BY <1>0, <2>1, <3>1, <3>2
  <2>4. QED
    BY <2>2, <2>3
<1>3. CASE UNCHANGED <<saver, reader>>
  BY <1>3 DEF MissesAreExpiries, Wanted
<1>4. ASSUME NEW w \in Writer, WriterStep(w) PROVE UNCHANGED <<saver, reader>>
  BY <1>4 DEF WriterStep, Summarize, SaveSummary, SaveSummaryRefused, SaveSummaryFails
<1>5. QED
  BY <1>1, <1>2, <1>3, <1>4 DEF Next, Tick, vars

\* PageIn misses a page only when no SavePage of the last TTL was served for it;
\* whatever is wrong with its summary, or with the way there, is no miss.
THEOREM MissesExpired == Spec => []MissesAreExpiries
<1>1. Init => ServedInv /\ ReadersInTime /\ MissesAreExpiries
  <2> SUFFICES ASSUME Init PROVE ServedInv /\ ReadersInTime /\ MissesAreExpiries
    OBVIOUS
  <2>1. /\ now = 2 /\ \A s \in Saver : saver[s].at = 0 /\ saver[s].pc = "new"
        /\ \A r \in Reader : reader[r].at = 0 /\ reader[r].pc = "new"
    BY DEF Init
  <2>2. QED
    BY <2>1 DEF ServedInv, ReadersInTime, MissesAreExpiries
<1>2. TypeOK /\ ServedInv /\ ReadersInTime /\ MissesAreExpiries /\ [Next]_vars
        => ServedInv' /\ ReadersInTime' /\ MissesAreExpiries'
  BY NextServed, NextInTime, NextMisses
<1>3. QED
  BY <1>1, <1>2, TypeCorrect, PTL DEF Spec

----------------------------------------------------------------------------
(* A summary stays what was stored *)

\* The payload x under key k is what was first stored there, or what a legacy payload
\* that was first stored there was turned into.
Kept(k, x) ==
  LET first == x.origin.first
  IN  /\ x.origin.key = k
      /\ first.form = "legacy" => first.expires = 0
      /\ \/ /\ x.form = first.form /\ x.hash = first.hash /\ x.release = first.release
            /\ x.created = first.created /\ x.expires = first.expires
         \/ /\ first.form = "legacy" /\ x.form = "artifact"
            /\ x.release = "this" /\ x.hash = k.hash
            /\ first.created # 0 => x.created = first.created
            /\ x.expires = x.created + PageTTL

HistoryInv ==
  /\ \A k \in Key : summary[k].payload # NoPayload => Kept(k, summary[k].payload)
  /\ \A r \in Reader : (reader[r].pc = "check" /\ reader[r].held # NoPayload)
                         => Kept(Wanted(r), reader[r].held)

\* What is put under a key is kept there.
LEMMA PutIsKept ==
  ASSUME NEW k \in Key, NEW c \in Contents, c.form = "legacy" => c.expires = 0
  PROVE  Kept(k, Put(k, c))
BY DEF Put, Kept

\* So is what a reader makes of a legacy payload.
LEMMA DecodedIsKept ==
  ASSUME NEW k \in Key, NEW x \in Payload, NEW t \in Nat, Kept(k, x), x.form = "legacy"
  PROVE  Kept(k, Decoded(k, x, t))
<1>1. /\ Decoded(k, x, t) = Prepared(Renewed(k, x), t) /\ Renewed(k, x) \in Payload
      /\ Decoded(k, x, t).origin = x.origin /\ Decoded(k, x, t).form = "artifact"
  BY DecodedType
<1>2. /\ Renewed(k, x).hash = k.hash /\ Renewed(k, x).release = "this"
      /\ Renewed(k, x).created = x.created /\ Renewed(k, x).expires = 0
  BY DEF Renewed
<1>3. /\ Decoded(k, x, t).hash = k.hash /\ Decoded(k, x, t).release = "this"
      /\ x.created # 0 => Decoded(k, x, t).created = x.created
      /\ Decoded(k, x, t).expires = Decoded(k, x, t).created + PageTTL
  BY <1>1, <1>2, PreparedType
<1>4. QED
  BY <1>1, <1>3 DEF Kept

\* What a reader finds valid stood for the page by what was first stored.
LEMMA KeptStandsFor ==
  ASSUME NEW k \in Key, NEW x \in Payload, NEW t \in Nat, Kept(k, x),
         Valid(k, Decoded(k, x, t), t)
  PROVE  StandsFor(k, x.origin.first, t)
<1>1. PageTTL \in Nat /\ PageTTL > 0 /\ x.created \in Nat /\ x.expires \in Nat
  BY TTLAssumption DEF Payload
<1>2. /\ x.origin.first.created \in Nat /\ x.origin.first.expires \in Nat
      /\ x.origin.first.form \in {"artifact", "legacy"} /\ x.form \in {"artifact", "legacy"}
  BY DEF Payload, Contents
<1>3. /\ Decoded(k, x, t).release = "this" /\ Decoded(k, x, t).hash = k.hash
      /\ t < Decoded(k, x, t).expires
  BY DEF Valid
<1>4. CASE x.form = "artifact"
  <2>1. /\ x.release = "this" /\ x.hash = k.hash
        /\ t < IF x.expires = 0 THEN (IF x.created = 0 THEN t ELSE x.created) + PageTTL
               ELSE x.expires
    <3>1. Decoded(k, x, t) = Prepared(x, t)
      BY <1>4, DecodedType
    <3>2. /\ Prepared(x, t).release = x.release /\ Prepared(x, t).hash = x.hash
          /\ Prepared(x, t).created = IF x.created = 0 THEN t ELSE x.created
          /\ Prepared(x, t).expires = IF x.expires = 0 THEN Prepared(x, t).created + PageTTL
                                      ELSE x.expires
      BY PreparedType
    <3>3. QED
      BY <1>3, <3>1, <3>2
  <2>2. QED
    BY <1>1, <1>2, <1>4, <2>1 DEF Kept, StandsFor, Deadline
<1>5. CASE x.form = "legacy"
  <2>1. Kept(k, Decoded(k, x, t)) /\ Decoded(k, x, t).origin = x.origin
    BY <1>5, DecodedIsKept, DecodedType
  <2>2. x.origin.first.form = "legacy" /\ x.origin.first.expires = 0
    BY <1>5 DEF Kept
  <2>3. /\ x.origin.first.created # 0 => Decoded(k, x, t).created = x.origin.first.created
        /\ Decoded(k, x, t).expires = Decoded(k, x, t).created + PageTTL
    <3>1. Decoded(k, x, t).form = "artifact"
      BY DecodedType
    <3>2. QED
      BY <2>1, <2>2, <3>1 DEF Kept
  <2>4. QED
    BY <1>3, <2>2, <2>3 DEF StandsFor, Deadline
<1>6. QED
  BY <1>2, <1>4, <1>5

\* A summary that can be used fits.
LEMMA UsableFits ==
  ASSUME TypeOK, ReadersAtWork, HistoryInv, NEW r \in Reader, reader[r].pc = "check",
         reader[r].held \in Payload, Usable(r)
  PROVE  SummaryFits([key |-> Wanted(r), kind |-> "summary", from |-> Candidate(r),
                      at |-> reader[r].at])
<1>1. Wanted(r) \in Key /\ reader[r].at \in Nat
  BY WantedType DEF Working, TypeOK
<1>2. reader[r].held # NoPayload
  BY DEF NoPayload, Payload
<1>3. Kept(Wanted(r), reader[r].held)
  BY <1>2 DEF HistoryInv
<1>4. /\ StandsFor(Wanted(r), reader[r].held.origin.first, reader[r].at)
      /\ Candidate(r).origin = reader[r].held.origin
  BY <1>1, <1>3, KeptStandsFor, DecodedType DEF Usable, Candidate
<1>5. QED
  BY <1>3, <1>4 DEF SummaryFits, Kept

\* A reader keeps the history of what it reads and writes back.
LEMMA ReaderHistory ==
  ASSUME TypeOK, ReadersAtWork, HistoryInv, NEW r \in Reader, ReaderStep(r)
  PROVE  HistoryInv'
<1>0. /\ reader \in [Reader -> ReaderRecord]
      /\ summary \in [Key -> [payload : Payload \cup {NoPayload}, exp : Nat]]
      /\ \A q \in Reader : q # r => reader'[q] = reader[q]
  BY ReaderFrame DEF TypeOK, ReaderRecord
<1>1. \A q \in Reader : q # r => Wanted(q)' = Wanted(q)
  BY <1>0 DEF Wanted
\* Nothing is stored but what is kept, and what is held was held, or stored.
<1>2. ASSUME \A k \in Key : \/ summary'[k].payload = summary[k].payload
                            \/ summary'[k].payload = NoPayload
                            \/ Kept(k, summary'[k].payload),
             reader'[r].pc = "check" =>
               /\ Wanted(r)' \in Key
               /\ reader'[r].held = summary[Wanted(r)'].payload
      PROVE  HistoryInv'
  BY <1>0, <1>1, <1>2 DEF HistoryInv
<1>3. ASSUME NEW result, Resolved(r, result) PROVE reader'[r].pc # "check"
  BY <1>0, <1>3 DEF Resolved, ReaderRecord
<1>4. CASE GetSummary(r)
  <2>1. reader[r].pc \in Working /\ summary' = summary
    BY <1>4 DEF GetSummary, Working
  <2>2. Wanted(r) \in Key
    BY <2>1, WantedType
  <2>3. Wanted(r)' = Wanted(r)
    <3>1. reader'[r].asked = reader[r].asked /\ reader'[r].got = reader[r].got
      BY <1>0, <1>4 DEF GetSummary, ReaderRecord
    <3>2. QED
      BY <3>1 DEF Wanted
  <2>4. reader'[r].pc = "check" => reader'[r].held = summary[Wanted(r)].payload
    BY <1>0, <1>4 DEF GetSummary, ReaderRecord
  <2>5. QED
    BY <1>2, <2>1, <2>2, <2>3, <2>4
<1>5. CASE Migrate(r)
  <2>1. reader[r].pc = "check" /\ reader[r].held.form = "legacy"
    BY <1>5 DEF Migrate
  <2>2. Wanted(r) \in Key
    BY <2>1, WantedType DEF Working
  <2>3. reader[r].held \in Payload /\ reader[r].held # NoPayload /\ reader[r].at \in Nat
    BY <1>0, <2>1 DEF ReaderRecord, NoPayload
  <2>4. Kept(Wanted(r), Candidate(r))
    BY <2>1, <2>2, <2>3, DecodedIsKept DEF HistoryInv, Candidate
  <2>5. \A k \in Key : summary'[k].payload = summary[k].payload \/ Kept(k, summary'[k].payload)
    BY <1>0, <1>5, <2>2, <2>4 DEF Migrate
  <2>6. reader'[r].pc # "check"
    <3>1. CASE Usable(r)
      BY <1>3, <1>5, <3>1 DEF Migrate
    <3>2. CASE ~Usable(r)
      BY <1>0, <1>5, <3>2 DEF Migrate, ReaderRecord
    <3>3. QED
      BY <3>1, <3>2
  <2>7. QED
    BY <1>2, <2>5, <2>6
<1>6. CASE DropSummary(r)
  <2>1. reader[r].pc \in Working
    BY <1>6 DEF DropSummary, Working
  <2>2. Wanted(r) \in Key
    BY <2>1, WantedType
  <2>3. \A k \in Key : summary'[k].payload = summary[k].payload \/ summary'[k].payload = NoPayload
    BY <1>0, <1>6, <2>2 DEF DropSummary
  <2>4. reader'[r].pc # "check"
    BY <1>0, <1>6 DEF DropSummary, ReaderRecord
  <2>5. QED
    BY <1>2, <2>3, <2>4
<1>7. CASE UseSummary(r) \/ GetPage(r)
  BY <1>2, <1>3, <1>7 DEF UseSummary, GetPage
<1>8. CASE PageMissing(r) \/ PageInFails(r)
  <2>1. summary' = summary /\ reader'[r].pc # "check"
    BY <1>0, <1>8 DEF PageMissing, PageInFails, ReaderRecord
  <2>2. QED
    BY <1>2, <2>1
<1>9. ASSUME NEW keys \in Asked, PageIn(r, keys) PROVE HistoryInv'
  <2>1. summary' = summary /\ reader'[r].pc # "check"
    BY <1>0, <1>9 DEF PageIn, ReaderRecord
  <2>2. QED
    BY <1>2, <2>1
<1>10. QED
  BY <1>4, <1>5, <1>6, <1>7, <1>8, <1>9 DEF ReaderStep

\* Every payload keeps its history, whoever wrote it and whoever writes it back.
LEMMA HistoryIsKept == Spec => []HistoryInv
<1>1. Init => HistoryInv
  <2> SUFFICES ASSUME Init PROVE HistoryInv
    OBVIOUS
  <2>1. PICK old \in [Key -> OldSummary \cup {NoPayload}] :
          summary = [k \in Key |-> IF old[k] = NoPayload THEN [payload |-> NoPayload, exp |-> 0]
                                   ELSE [payload |-> Put(k, old[k]), exp |-> 2 + PageTTL]]
    BY DEF Init
  <2>2. \A k \in Key : old[k] # NoPayload => Kept(k, Put(k, old[k]))
    BY OldSummaryAssumption, PutIsKept
  <2>3. \A r \in Reader : reader[r].pc = "new"
    BY DEF Init
  <2>4. QED
    BY <2>1, <2>2, <2>3 DEF HistoryInv
<1>2. TypeOK /\ ReadersAtWork /\ HistoryInv /\ [Next]_vars => HistoryInv'
  <2> SUFFICES ASSUME TypeOK, ReadersAtWork, HistoryInv, [Next]_vars
               PROVE  HistoryInv'
    OBVIOUS
  <2>1. CASE UNCHANGED <<summary, reader>>
    BY <2>1 DEF HistoryInv, Wanted
  <2>2. ASSUME NEW s \in Saver, SaverStep(s) PROVE UNCHANGED <<summary, reader>>
    BY <2>2, SaverFrame
  <2>3. ASSUME NEW w \in Writer, WriterStep(w) PROVE HistoryInv'
    <3>1. reader' = reader
      BY <2>3 DEF WriterStep, Summarize, SaveSummary, SaveSummaryRefused, SaveSummaryFails
    <3>2. CASE summary' = Stored(w)
      <4>1. Artifact(w) \in Contents /\ now \in Nat /\ writer[w].key \in Key
            /\ Artifact(w).form = "artifact"
        BY DEF Artifact, Contents, TypeOK
      <4>2. Kept(writer[w].key, Put(writer[w].key, Prepared(Artifact(w), now)))
        BY <4>1, PreparedContents, PutIsKept
      <4>3. \A k \in Key : summary'[k].payload = summary[k].payload \/ Kept(k, summary'[k].payload)
        BY <3>2, <4>1, <4>2 DEF Stored, TypeOK
      <4>4. QED
        BY <3>1, <4>3 DEF HistoryInv, Wanted
    <3>3. CASE summary' = summary
      BY <2>1, <3>1, <3>3
    <3>4. QED
      BY <2>3, <3>2, <3>3 DEF WriterStep, Summarize, SaveSummary, SaveSummaryRefused,
                              SaveSummaryFails
  <2>4. QED
    BY <2>1, <2>2, <2>3, ReaderHistory DEF Next, Tick, vars
<1>3. QED
  BY <1>1, <1>2, TypeCorrect, PTL DEF Spec

----------------------------------------------------------------------------
(* Answers fit *)

\* Among these calls of SavePage is one that was given text t for key k.
SavedBy(calls, k, t) ==
  \E s \in Saver : calls[s].pc # "new" /\ calls[s].key = k /\ calls[s].text = t
Saved(k, t) == SavedBy(saver, k, t)

\* A page that lives was stored by somebody, for this key.
PagesAreSaved == \A k \in Key : PageLives(k) => Saved(k, page[k].text)

Fits(result, calls) ==
  /\ result.kind = "summary" => SummaryFits(result)
  /\ result.kind = "page" => SavedBy(calls, result.key, result.from)

AnswersInv ==
  \A r \in Reader : \A i \in DOMAIN reader[r].got :
    /\ reader[r].got[i].key = reader[r].asked[i]
    /\ Fits(reader[r].got[i], saver)

\* What was saved is not forgotten.
LEMMA SavedStays ==
  ASSUME TypeOK, NEW s \in Saver, SaverStep(s), NEW k, NEW t, Saved(k, t)
  PROVE  Saved(k, t)'
<1>1. PICK q \in Saver : saver[q].pc # "new" /\ saver[q].key = k /\ saver[q].text = t
  BY DEF Saved, SavedBy
<1>2. CASE q = s
  BY <1>1, <1>2, SaverFrame DEF Saved, SavedBy
<1>3. CASE q # s
  BY <1>1, <1>3, SaverFrame DEF Saved, SavedBy
<1>4. QED
  BY <1>2, <1>3

\* SavePage stores only what it was given, under the key it was given.
LEMMA NextPagesAreSaved ==
  ASSUME TypeOK, PagesAreSaved, [Next]_vars
  PROVE  PagesAreSaved'
<1>0. now \in Nat /\ page \in [Key -> [text : Text, exp : Nat]]
      /\ saver \in [Saver -> SaverRecord]
  BY DEF TypeOK, SaverRecord
<1>1. ASSUME NEW s \in Saver, NEW k \in Key, NEW t \in Text,
             SetNX(s, k, t) \/ SetNXReplyLost(s, k, t), NEW j \in Key, PageLives(j)'
      PROVE  Saved(j, page[j].text)'
  <2>0. SaverStep(s)
    BY <1>1 DEF SaverStep
  <2>1. CASE page' = page
    <3>1. PageLives(j)
      BY <1>1, <2>0, <2>1, SaverFrame DEF PageLives
    <3>2. Saved(j, page[j].text)
      BY <3>1 DEF PagesAreSaved
    <3>3. Saved(j, page'[j].text)
      BY <2>1, <3>2
    <3>4. QED
      BY <2>0, <2>1, <3>2, SavedStays DEF Saved, SavedBy
  <2>2. CASE page' = [page EXCEPT ![k] = [text |-> t, exp |-> now + PageTTL]] /\ ~PageLives(k)
    <3>1. CASE j = k
      <4>1. page'[j].text = t
        BY <1>0, <2>2, <3>1
      <4>2. saver'[s].key = k /\ saver'[s].text = t /\ saver'[s].pc # "new"
        <5>1. CASE SetNX(s, k, t)
          <6>1. saver' = [saver EXCEPT ![s] = [pc |-> "ok", key |-> k, text |-> t,
                                               at |-> now, served |-> TRUE]]
            BY <2>2, <5>1 DEF SetNX
          <6>2. QED
            BY <1>0, <6>1
        <5>2. CASE SetNXReplyLost(s, k, t)
          BY <1>0, <5>2 DEF SetNXReplyLost
        <5>3. QED
          BY <1>1, <5>1, <5>2
      <4>3. QED
        BY <3>1, <4>1, <4>2 DEF Saved, SavedBy
    <3>2. CASE j # k
      <4>1. page'[j] = page[j]
        BY <1>0, <2>2, <3>2
      <4>2. PageLives(j)
        BY <1>1, <2>0, <4>1, SaverFrame DEF PageLives
      <4>3. Saved(j, page[j].text)
        BY <4>2 DEF PagesAreSaved
      <4>4. QED
        BY <2>0, <4>1, <4>3, SavedStays DEF Saved, SavedBy
    <3>3. QED
      BY <3>1, <3>2
  <2>3. QED
    BY <1>1, <2>1, <2>2 DEF SetNX, SetNXReplyLost
<1>2. ASSUME NEW s \in Saver, Refresh(s) \/ RefreshReplyLost(s) \/ SavePageFails(s),
             NEW j \in Key, PageLives(j)'
      PROVE  Saved(j, page[j].text)'
  <2>0. SaverStep(s)
    BY <1>2 DEF SaverStep
  <2>1. \/ page' = page
        \/ /\ PageLives(saver[s].key)
           /\ page' = [page EXCEPT ![saver[s].key] = [page[saver[s].key] EXCEPT !.exp = now + PageTTL]]
    BY <1>0, <1>2 DEF Refresh, RefreshReplyLost, SavePageFails
  <2>2. page'[j].text = page[j].text /\ PageLives(j)
    <3>1. now' = now
      BY <2>0, SaverFrame
    <3>2. CASE page' = page
      BY <1>2, <3>1, <3>2 DEF PageLives
    <3>3. CASE page' # page
      <4>1. saver[s].key \in Key
        BY <1>0 DEF SaverRecord
      <4>2. CASE j = saver[s].key
        BY <1>0, <2>1, <3>3, <4>1, <4>2
      <4>3. CASE j # saver[s].key
        <5>1. page'[j] = page[j]
          BY <1>0, <2>1, <3>3, <4>3
        <5>2. QED
          BY <1>2, <3>1, <5>1 DEF PageLives
      <4>4. QED
        BY <4>2, <4>3
    <3>4. QED
      BY <3>2, <3>3
  <2>3. Saved(j, page[j].text)
    BY <2>2 DEF PagesAreSaved
  <2>4. QED
    BY <2>0, <2>2, <2>3, SavedStays DEF Saved, SavedBy
<1>3. CASE Tick
  <2> SUFFICES ASSUME NEW j \in Key, PageLives(j)' PROVE Saved(j, page[j].text)'
    BY DEF PagesAreSaved
  <2>1. now' = now + 1 /\ page' = page /\ saver' = saver
    BY <1>3 DEF Tick
  <2>2. PageLives(j)
    BY <1>0, <2>1 DEF PageLives
  <2>3. QED
    BY <2>1, <2>2 DEF PagesAreSaved, Saved, SavedBy
<1>4. CASE UNCHANGED <<now, page, saver>>
  BY <1>4 DEF PagesAreSaved, PageLives, Saved, SavedBy
<1>5. ASSUME NEW r \in Reader, ReaderStep(r) PROVE UNCHANGED <<now, page, saver>>
  BY <1>5, ReaderFrame
<1>6. ASSUME NEW w \in Writer, WriterStep(w) PROVE UNCHANGED <<now, page, saver>>
  BY <1>6 DEF WriterStep, Summarize, SaveSummary, SaveSummaryRefused, SaveSummaryFails
<1>7. QED
  BY <1>1, <1>2, <1>3, <1>4, <1>5, <1>6 DEF Next, SaverStep, PagesAreSaved, vars

\* The answer for one key is added to answers that fit.
LEMMA ResolvedAnswers ==
  ASSUME TypeOK, ReadersAtWork, AnswersInv, NEW r \in Reader, reader[r].pc \in Working,
         NEW result \in Result, result.key = Wanted(r), Fits(result, saver),
         Resolved(r, result), saver' = saver
  PROVE  AnswersInv'
<1>1. reader[r].got \in Seq(Result)
  BY DEF TypeOK
<1>2. reader \in [Reader -> ReaderRecord]
  BY DEF TypeOK, ReaderRecord
<1> DEFINE got == Append(reader[r].got, result)
<1>3. /\ reader'[r].got = got /\ reader'[r].asked = reader[r].asked
      /\ \A q \in Reader : q # r => reader'[q] = reader[q]
  BY <1>2 DEF Resolved, ReaderRecord
<1>5. ASSUME NEW i \in DOMAIN got
      PROVE  got[i].key = reader[r].asked[i] /\ Fits(got[i], saver)
  <2>1. CASE i \in DOMAIN reader[r].got
    <3>1. got[i] = reader[r].got[i]
      BY <1>1, <2>1
    <3>2. QED
      BY <2>1, <3>1 DEF AnswersInv
  <2>2. CASE i \notin DOMAIN reader[r].got
    <3>1. i = Len(reader[r].got) + 1 /\ got[i] = result
      BY <1>1, <1>5, <2>2
    <3>2. QED
      BY <3>1 DEF Wanted
  <2>3. QED
    BY <2>1, <2>2
<1> HIDE DEF got
<1>6. ASSUME NEW q \in Reader, NEW i \in DOMAIN reader'[q].got
      PROVE  reader'[q].got[i].key = reader'[q].asked[i] /\ Fits(reader'[q].got[i], saver')
  <2>1. CASE q = r
    BY <1>3, <1>5, <1>6, <2>1
  <2>2. CASE q # r
    BY <1>3, <1>6, <2>2 DEF AnswersInv
  <2>3. QED
    BY <2>1, <2>2
<1>7. QED
  BY <1>6 DEF AnswersInv

\* One step of PageIn.
LEMMA ReaderAnswers ==
  ASSUME TypeOK, ReadersAtWork, HistoryInv, PagesAreSaved, AnswersInv,
         NEW r \in Reader, ReaderStep(r)
  PROVE  AnswersInv'
<1>0. /\ reader \in [Reader -> ReaderRecord] /\ now \in Nat /\ saver' = saver
      /\ \A q \in Reader : q # r => reader'[q] = reader[q]
  BY ReaderFrame DEF TypeOK, ReaderRecord
<1>1. ASSUME reader[r].pc = "check", Usable(r),
             Resolved(r, [key |-> Wanted(r), kind |-> "summary", from |-> Candidate(r),
                          at |-> reader[r].at]),
             reader[r].held \in Payload
      PROVE  AnswersInv'
  <2>1. Wanted(r) \in Key /\ reader[r].at \in Nat
    BY <1>0, <1>1, WantedType DEF ReaderRecord, Working
  <2>2. Candidate(r) \in Payload
    BY <1>1, <2>1, DecodedType DEF Candidate
  <2> DEFINE result == [key |-> Wanted(r), kind |-> "summary", from |-> Candidate(r),
                        at |-> reader[r].at]
  <2>3. result \in Result /\ result.key = Wanted(r)
    BY <2>1, <2>2 DEF Result
  <2>4. Fits(result, saver)
    BY <1>1, UsableFits DEF Fits
  <2> HIDE DEF result
  <2>5. Resolved(r, result)
    BY <1>1 DEF result
  <2>6. QED
    BY <1>0, <1>1, <2>3, <2>4, <2>5, ResolvedAnswers DEF Working
<1>2. CASE UseSummary(r)
  <2>1. reader[r].pc = "check" /\ reader[r].held \in Payload
    <3>1. reader[r].held \in Payload \cup {NoPayload} /\ reader[r].held.form = "artifact"
      BY <1>0, <1>2 DEF UseSummary, ReaderRecord
    <3>2. QED
      BY <1>2, <3>1 DEF UseSummary, NoPayload
  <2>2. QED
    BY <1>1, <1>2, <2>1 DEF UseSummary
<1>3. CASE Migrate(r) /\ Usable(r)
  <2>1. reader[r].pc = "check" /\ reader[r].held \in Payload
    <3>1. reader[r].held \in Payload \cup {NoPayload} /\ reader[r].held.form = "legacy"
      BY <1>0, <1>3 DEF Migrate, ReaderRecord
    <3>2. QED
      BY <1>3, <3>1 DEF Migrate, NoPayload
  <2>2. QED
    BY <1>1, <1>3, <2>1 DEF Migrate
<1>4. CASE GetPage(r)
  <2>1. reader[r].pc \in Working /\ PageLives(Wanted(r))
    BY <1>4 DEF GetPage, Working
  <2>2. Wanted(r) \in Key
    BY <2>1, WantedType
  <2> DEFINE result == [key |-> Wanted(r), kind |-> "page", from |-> page[Wanted(r)].text,
                        at |-> now]
  <2>3. result \in Result /\ result.key = Wanted(r)
    BY <1>0, <2>2 DEF Result, TypeOK
  <2>4. Saved(Wanted(r), page[Wanted(r)].text)
    BY <2>1, <2>2 DEF PagesAreSaved
  <2>5. Fits(result, saver)
    BY <2>4 DEF Fits, Saved
  <2>6. Resolved(r, result)
    BY <1>4 DEF GetPage
  <2> HIDE DEF result
  <2>7. QED
    BY <1>0, <2>1, <2>3, <2>5, <2>6, ResolvedAnswers
\* Nothing is answered.
<1>5. ASSUME reader'[r].got = reader[r].got,
             reader'[r].asked = reader[r].asked \/ reader[r].got = << >>
      PROVE  AnswersInv'
  <2>2. ASSUME NEW q \in Reader, NEW i \in DOMAIN reader'[q].got
        PROVE  reader'[q].got[i].key = reader'[q].asked[i] /\ Fits(reader'[q].got[i], saver')
    <3>1. CASE q = r
      <4>1. i \in DOMAIN reader[r].got /\ reader[r].got # << >>
        BY <1>5, <2>2, <3>1
      <4>2. QED
        BY <1>0, <1>5, <3>1, <4>1 DEF AnswersInv
    <3>2. CASE q # r
      BY <1>0, <2>2, <3>2 DEF AnswersInv
    <3>3. QED
      BY <3>1, <3>2
  <2>3. QED
    BY <2>2 DEF AnswersInv
<1>6. ASSUME NEW keys \in Asked, PageIn(r, keys)
      PROVE  reader'[r].got = reader[r].got /\ reader[r].got = << >>
  BY <1>0, <1>6 DEF PageIn, ReaderRecord, ReadersAtWork
<1>7. CASE GetSummary(r) \/ DropSummary(r) \/ PageMissing(r) \/ PageInFails(r)
  <2>1. reader'[r].got = reader[r].got /\ reader'[r].asked = reader[r].asked
    BY <1>0, <1>7 DEF GetSummary, DropSummary, PageMissing, PageInFails, ReaderRecord
  <2>2. QED
    BY <1>5, <2>1
<1>8. CASE Migrate(r) /\ ~Usable(r)
  <2>1. reader' = [reader EXCEPT ![r].pc = "drop"]
    BY <1>8 DEF Migrate
  <2>2. reader'[r].got = reader[r].got /\ reader'[r].asked = reader[r].asked
    BY <1>0, <2>1 DEF ReaderRecord
  <2>3. QED
    BY <1>5, <2>2
<1>9. QED
  BY <1>2, <1>3, <1>4, <1>5, <1>6, <1>7, <1>8 DEF ReaderStep

\* PageIn answers with what it was asked for, key by key; a page it answers with was
\* saved under that key, and a summary was stored under it and fits by what was stored,
\* whoever decoded it and wrote it back since.
THEOREM AnswersAreFit == Spec => []AnswersFit
<1>1. Init => PagesAreSaved /\ AnswersInv
  BY DEF Init, PagesAreSaved, PageLives, AnswersInv
<1>2. TypeOK /\ ReadersAtWork /\ HistoryInv /\ PagesAreSaved /\ AnswersInv /\ [Next]_vars
        => AnswersInv'
  <2> SUFFICES ASSUME TypeOK, ReadersAtWork, HistoryInv, PagesAreSaved, AnswersInv, [Next]_vars
               PROVE  AnswersInv'
    OBVIOUS
  <2>1. ASSUME NEW s \in Saver, SaverStep(s) PROVE AnswersInv'
    <3>1. reader' = reader
      BY <2>1, SaverFrame
    <3>2. \A k, t : SavedBy(saver, k, t) => SavedBy(saver', k, t)
      BY <2>1, SavedStays DEF Saved
    <3>3. \A x : Fits(x, saver) => Fits(x, saver')
      BY <3>2 DEF Fits
    <3>4. QED
      BY <3>1, <3>3 DEF AnswersInv
  <2>2. CASE UNCHANGED <<saver, reader>>
    BY <2>2 DEF AnswersInv
  <2>3. ASSUME NEW w \in Writer, WriterStep(w) PROVE UNCHANGED <<saver, reader>>
    BY <2>3 DEF WriterStep, Summarize, SaveSummary, SaveSummaryRefused, SaveSummaryFails
  <2>4. QED
    BY <2>1, <2>2, <2>3, ReaderAnswers DEF Next, Tick, vars
<1>3. TypeOK /\ ReadersAtWork /\ AnswersInv => AnswersFit
  BY DEF AnswersInv, Fits, SavedBy, AnswersFit, ReadersAtWork
<1>4. QED
  BY <1>1, <1>2, <1>3, NextPagesAreSaved, HistoryIsKept, TypeCorrect, PTL DEF Spec

----------------------------------------------------------------------------
(* The store keeps the promises of Pager *)

readerBars == <<askedBar, gotBar, outcomeBar>>

\* The store starts as Pager does.
LEMMA PagesInit == Init => Pages!Init
<1> SUFFICES ASSUME Init PROVE Pages!Init
  OBVIOUS
<1>1. SomeText \in Text
  BY NonEmptyAssumption DEF SomeText
<1>2. now \in Nat /\ page \in [Key -> [text : Text, exp : {0}]]
  BY <1>1 DEF Init
<1>3. ASSUME NEW r \in Reader
      PROVE  reader[r].pc = "new" /\ reader[r].asked = << >> /\ reader[r].got = << >>
  BY DEF Init
<1>4. ASSUME NEW r \in Reader PROVE AnswersOf(r) = << >>
  <2>1. DOMAIN reader[r].got = {}
    BY <1>3
  <2>2. QED
    BY <2>1 DEF AnswersOf
<1>5. QED
  BY <1>2, <1>3, <1>4 DEF Pages!Init, askedBar, gotBar, outcomeBar, OutcomeOf

\* The bars of the readers whose call does not change do not change.
LEMMA BarsFrame ==
  ASSUME NEW r \in Reader, \A q \in Reader : q # r => reader'[q] = reader[q]
  PROVE  /\ askedBar' = [askedBar EXCEPT ![r] = reader'[r].asked]
         /\ gotBar' = [gotBar EXCEPT ![r] = AnswersOf(r)']
         /\ outcomeBar' = [outcomeBar EXCEPT ![r] = OutcomeOf(r)']
<1>1. \A q \in Reader : q # r => AnswersOf(q)' = AnswersOf(q) /\ OutcomeOf(q)' = OutcomeOf(q)
  BY DEF AnswersOf, OutcomeOf
<1>2. askedBar' = [askedBar EXCEPT ![r] = reader'[r].asked]
  BY DEF askedBar
<1>3. gotBar' = [gotBar EXCEPT ![r] = AnswersOf(r)']
  BY <1>1 DEF gotBar
<1>4. outcomeBar' = [outcomeBar EXCEPT ![r] = OutcomeOf(r)']
  BY <1>1 DEF outcomeBar
<1>5. QED
  BY <1>2, <1>3, <1>4

\* A step of one call that answers nothing and does not end it.
LEMMA BarsStutter ==
  ASSUME NEW r \in Reader, \A q \in Reader : q # r => reader'[q] = reader[q],
         reader'[r].asked = reader[r].asked, reader'[r].got = reader[r].got,
         OutcomeOf(r)' = OutcomeOf(r)
  PROVE  readerBars' = readerBars
<1>1. AnswersOf(r)' = AnswersOf(r)
  BY DEF AnswersOf
<1>2. askedBar' = askedBar
  BY BarsFrame DEF askedBar
<1>3. gotBar' = gotBar
  BY <1>1, BarsFrame DEF gotBar
<1>4. outcomeBar' = outcomeBar
  BY BarsFrame DEF outcomeBar
<1>5. QED
  BY <1>2, <1>3, <1>4 DEF readerBars

\* An answer is an answer.
LEMMA BarsAnswer ==
  ASSUME TypeOK, ReadersAtWork, NEW r \in Reader, reader[r].pc \in Working,
         NEW result \in Result, Resolved(r, result), UNCHANGED <<now, page>>
  PROVE  Pages!Answer(r, AnswerOf(result)) /\ outcomeBar[r] = "asking"
         /\ Pages!Wanted(r) = Wanted(r)
<1>1. reader \in [Reader -> ReaderRecord] /\ reader[r].got \in Seq(Result)
  BY DEF TypeOK, ReaderRecord
<1> DEFINE got == Append(reader[r].got, result)
<1>2. /\ reader'[r].got = got /\ reader'[r].asked = reader[r].asked
      /\ reader'[r].pc = IF Len(got) = Len(reader[r].asked) THEN "done" ELSE "summary"
      /\ \A q \in Reader : q # r => reader'[q] = reader[q]
  BY <1>1 DEF Resolved, ReaderRecord
<1>3. /\ Len(got) = Len(reader[r].got) + 1 /\ DOMAIN got = 1..Len(got)
      /\ DOMAIN reader[r].got = 1..Len(reader[r].got) /\ Len(reader[r].got) \in Nat
      /\ \A i \in 1..Len(reader[r].got) : got[i] = reader[r].got[i]
      /\ got[Len(reader[r].got) + 1] = result
  BY <1>1
<1> HIDE DEF got
<1>4. AnswersOf(r)' = [i \in 1..(Len(reader[r].got) + 1) |-> AnswerOf(got[i])]
  BY <1>2, <1>3 DEF AnswersOf
<1>5. /\ AnswersOf(r) = [i \in 1..Len(reader[r].got) |-> AnswerOf(reader[r].got[i])]
      /\ Len(AnswersOf(r)) = Len(reader[r].got)
  <2>1. AnswersOf(r) = [i \in 1..Len(reader[r].got) |-> AnswerOf(reader[r].got[i])]
    BY <1>3 DEF AnswersOf
  <2>2. QED
    BY <1>3, <2>1
<1>6. AnswersOf(r)' = Append(AnswersOf(r), AnswerOf(result))
  BY <1>3, <1>4, <1>5
<1>7. gotBar[r] = AnswersOf(r) /\ askedBar[r] = reader[r].asked
  BY DEF gotBar, askedBar
<1>8. OutcomeOf(r)' = IF Len(gotBar[r]) + 1 = Len(askedBar[r]) THEN "done" ELSE "asking"
  BY <1>2, <1>3, <1>5, <1>7 DEF OutcomeOf
<1>9. /\ gotBar' = [gotBar EXCEPT ![r] = Append(@, AnswerOf(result))]
      /\ outcomeBar' = [outcomeBar EXCEPT ![r] =
                          IF Len(gotBar[r]) + 1 = Len(askedBar[r]) THEN "done" ELSE "asking"]
      /\ askedBar' = askedBar
  <2>1. askedBar' = askedBar
    BY <1>2, BarsFrame DEF askedBar
  <2>2. QED
    BY <1>2, <1>6, <1>7, <1>8, <2>1, BarsFrame
<1>10. outcomeBar[r] = "asking"
  BY DEF outcomeBar, OutcomeOf, Working
<1>11. Pages!Wanted(r) = Wanted(r)
  BY <1>5, <1>7 DEF Pages!Wanted, Wanted
<1>12. QED
  BY <1>9, <1>10, <1>11 DEF Pages!Answer

\* A summary that is usable is an answer that fits.
LEMMA SummaryAnswers ==
  ASSUME TypeOK, ReadersAtWork, HistoryInv, NEW r \in Reader, reader[r].pc = "check",
         reader[r].held \in Payload, Usable(r),
         Resolved(r, [key |-> Wanted(r), kind |-> "summary", from |-> Candidate(r),
                      at |-> reader[r].at]),
         UNCHANGED <<now, page>>
  PROVE  Pages!AnswerSummary(r)
<1>1. Wanted(r) \in Key /\ reader[r].at \in Nat
  BY WantedType DEF TypeOK, Working
<1>2. Candidate(r) \in Payload
  BY <1>1, DecodedType DEF Candidate
<1> DEFINE result == [key |-> Wanted(r), kind |-> "summary", from |-> Candidate(r),
                      at |-> reader[r].at]
<1>3. result \in Result
  BY <1>1, <1>2 DEF Result
<1>4. AnswerOf(result) = Pages!FromSummary(Wanted(r))
  BY UsableFits DEF AnswerOf, Pages!FromSummary
<1>5. Resolved(r, result)
  OBVIOUS
<1> HIDE DEF result
<1>6. QED
  BY <1>3, <1>4, <1>5, BarsAnswer DEF Pages!AnswerSummary, Working

\* Every step of PageIn is a step of a reader of Pager, or none.
LEMMA ReaderStepPages ==
  ASSUME TypeOK, ReadersAtWork, HistoryInv, NEW r \in Reader, ReaderStep(r)
  PROVE  [Pages!Next]_(Pages!vars)
<1>0. /\ reader \in [Reader -> ReaderRecord]
      /\ UNCHANGED <<now, page>>
      /\ \A q \in Reader : q # r => reader'[q] = reader[q]
  BY ReaderFrame DEF TypeOK, ReaderRecord
<1>1. ASSUME NEW keys \in Asked, PageIn(r, keys) PROVE Pages!Ask(r, keys)
  <2>1. /\ reader[r].pc = "new" /\ reader'[r].asked = keys /\ reader'[r].got = reader[r].got
        /\ reader'[r].pc = IF keys = << >> THEN "done" ELSE "summary"
    BY <1>0, <1>1 DEF PageIn, ReaderRecord
  <2>2. /\ outcomeBar[r] = "none"
        /\ OutcomeOf(r)' = IF keys = << >> THEN "done" ELSE "asking"
    BY <2>1 DEF outcomeBar, OutcomeOf
  <2>3. gotBar' = gotBar
    <3>1. AnswersOf(r)' = AnswersOf(r)
      BY <2>1 DEF AnswersOf
    <3>2. QED
      BY <1>0, <3>1, BarsFrame DEF gotBar
  <2>4. QED
    BY <1>0, <2>1, <2>2, <2>3, BarsFrame DEF Pages!Ask
<1>2. CASE UseSummary(r) \/ (Migrate(r) /\ Usable(r))
  <2>1. /\ reader[r].pc = "check" /\ Usable(r)
        /\ reader[r].held.form \in {"artifact", "legacy"}
        /\ Resolved(r, [key |-> Wanted(r), kind |-> "summary", from |-> Candidate(r),
                        at |-> reader[r].at])
    BY <1>2 DEF UseSummary, Migrate
  <2>2. reader[r].held \in Payload
    <3>1. reader[r].held \in Payload \cup {NoPayload}
      BY <1>0 DEF ReaderRecord
    <3>2. QED
      BY <2>1, <3>1 DEF NoPayload
  <2>3. QED
    BY <1>0, <2>1, <2>2, SummaryAnswers DEF Pages!Next
<1>3. CASE GetPage(r)
  <2>1. reader[r].pc \in Working /\ PageLives(Wanted(r))
    BY <1>3 DEF GetPage, Working
  <2>2. Wanted(r) \in Key
    BY <2>1, WantedType
  <2> DEFINE result == [key |-> Wanted(r), kind |-> "page", from |-> page[Wanted(r)].text,
                        at |-> now]
  <2>3. result \in Result /\ AnswerOf(result) = Pages!FromPage(Wanted(r))
    BY <2>2 DEF Result, TypeOK, AnswerOf, Pages!FromPage
  <2>4. Resolved(r, result)
    BY <1>3 DEF GetPage
  <2> HIDE DEF result
  <2>5. Pages!Lives(Wanted(r))
    BY <2>1 DEF PageLives, Pages!Lives
  <2>6. QED
    BY <1>0, <2>1, <2>3, <2>4, <2>5, BarsAnswer DEF Pages!AnswerPage, Pages!Next
<1>4. CASE PageMissing(r) \/ PageInFails(r)
  <2>1. /\ reader[r].pc = "page" /\ reader'[r].asked = reader[r].asked
        /\ reader'[r].got = reader[r].got
        /\ reader'[r].pc \in {"missing", "failed"}
        /\ reader'[r].pc = "missing" => ~PageLives(Wanted(r))
    BY <1>0, <1>4 DEF PageMissing, PageInFails, ReaderRecord
  <2>2. askedBar' = askedBar /\ gotBar' = gotBar
    <3>1. AnswersOf(r)' = AnswersOf(r)
      BY <2>1 DEF AnswersOf
    <3>2. QED
      BY <1>0, <2>1, <3>1, BarsFrame DEF gotBar, askedBar
  <2>3. outcomeBar[r] = "asking" /\ OutcomeOf(r)' = reader'[r].pc
    BY <2>1 DEF outcomeBar, OutcomeOf
  <2>4. outcomeBar' = [outcomeBar EXCEPT ![r] = reader'[r].pc]
    BY <1>0, <2>3, BarsFrame
  <2>5. Pages!Wanted(r) = Wanted(r)
    <3>1. askedBar[r] = reader[r].asked
      BY DEF askedBar
    <3>2. Len(gotBar[r]) = Len(reader[r].got)
      <4>1. reader[r].got \in Seq(Result)
        BY DEF TypeOK
      <4>2. gotBar[r] = [i \in 1..Len(reader[r].got) |-> AnswerOf(reader[r].got[i])]
        BY <4>1 DEF gotBar, AnswersOf
      <4>3. QED
        BY <4>1, <4>2
    <3>3. QED
      BY <3>1, <3>2 DEF Pages!Wanted, Wanted
  <2>6. Pages!Lives(Wanted(r)) <=> PageLives(Wanted(r))
    BY DEF Pages!Lives, PageLives
  <2>7. CASE reader'[r].pc = "missing"
    BY <1>0, <2>1, <2>2, <2>3, <2>4, <2>5, <2>6, <2>7 DEF Pages!Miss, Pages!Next
  <2>8. CASE reader'[r].pc = "failed"
    BY <1>0, <2>2, <2>3, <2>4, <2>8 DEF Pages!Fail, Pages!Next
  <2>9. QED
    BY <2>1, <2>7, <2>8
<1>5. CASE GetSummary(r) \/ DropSummary(r) \/ (Migrate(r) /\ ~Usable(r))
  <2>1. /\ reader[r].pc \in Working /\ reader'[r].pc \in Working
        /\ reader'[r].asked = reader[r].asked /\ reader'[r].got = reader[r].got
    <3>1. CASE GetSummary(r)
      BY <1>0, <3>1 DEF GetSummary, ReaderRecord, Working
    <3>2. CASE DropSummary(r)
      BY <1>0, <3>2 DEF DropSummary, ReaderRecord, Working
    <3>3. CASE Migrate(r) /\ ~Usable(r)
      <4>1. reader[r].pc = "check" /\ reader' = [reader EXCEPT ![r].pc = "drop"]
        BY <3>3 DEF Migrate
      <4>2. QED
        BY <1>0, <4>1 DEF ReaderRecord, Working
    <3>4. QED
      BY <1>5, <3>1, <3>2, <3>3
  <2>2. OutcomeOf(r)' = OutcomeOf(r)
    BY <2>1 DEF OutcomeOf, Working
  <2>3. readerBars' = readerBars
    BY <1>0, <2>1, <2>2, BarsStutter
  <2>4. QED
    BY <1>0, <2>3 DEF readerBars, Pages!vars, Pages!readerVars
<1>6. QED
  BY <1>1, <1>2, <1>3, <1>4, <1>5 DEF ReaderStep, Pages!Next

\* SETNX and EXPIRE that find what they look for are Store and Extend, whether
\* their reply arrives or not.
LEMMA SaverStepPages ==
  ASSUME TypeOK, NEW s \in Saver, SaverStep(s)
  PROVE  [Pages!Next]_(Pages!vars)
<1>0. now' = now /\ readerBars' = readerBars
  <2>1. reader' = reader /\ now' = now
    BY SaverFrame
  <2>2. QED
    BY <2>1 DEF readerBars, askedBar, gotBar, outcomeBar, AnswersOf, OutcomeOf
<1>1. CASE page' = page
  BY <1>0, <1>1 DEF readerBars, Pages!vars, Pages!readerVars
<1>2. ASSUME NEW k \in Key, NEW t \in Text, SetNX(s, k, t) \/ SetNXReplyLost(s, k, t),
             page' # page
      PROVE  Pages!Store(k, t)
  BY <1>0, <1>2 DEF SetNX, SetNXReplyLost, PageLives, Pages!Store, Pages!Lives, readerBars,
                    Pages!readerVars
<1>3. ASSUME Refresh(s) \/ RefreshReplyLost(s), page' # page
      PROVE  saver[s].key \in Key /\ Pages!Extend(saver[s].key)
  <2>1. saver[s].key \in Key
    BY DEF TypeOK
  <2>2. /\ PageLives(saver[s].key)
        /\ page' = [page EXCEPT ![saver[s].key].exp = now + PageTTL]
    BY <1>3 DEF Refresh, RefreshReplyLost
  <2>3. QED
    BY <1>0, <2>1, <2>2 DEF PageLives, Pages!Extend, Pages!Lives, readerBars, Pages!readerVars
<1>4. QED
  BY <1>1, <1>2, <1>3 DEF SaverStep, SavePageFails, Pages!Next

\* The page store keeps the promises of Pager: a page keeps its text while it
\* lives, every use lets it live for a TTL, and a reader gets, in order, pages
\* and summaries that fit, and misses only what is not there.
THEOREM Implementation == Spec => ImplementsPager
<1>1. ASSUME TypeOK, ReadersAtWork, HistoryInv, Next PROVE [Pages!Next]_(Pages!vars)
  <2>1. CASE Tick
    <3>1. readerBars' = readerBars
      BY <2>1 DEF Tick, readerBars, askedBar, gotBar, outcomeBar, AnswersOf, OutcomeOf
    <3>2. Pages!Tick
      BY <2>1, <3>1 DEF Tick, Pages!Tick, readerBars, Pages!readerVars
    <3>3. QED
      BY <3>2 DEF Pages!Next
  <2>2. ASSUME NEW w \in Writer, WriterStep(w) PROVE UNCHANGED Pages!vars
    <3>1. UNCHANGED <<now, page, reader>>
      BY <2>2 DEF WriterStep, Summarize, SaveSummary, SaveSummaryRefused, SaveSummaryFails
    <3>2. QED
      BY <3>1 DEF Pages!vars, Pages!readerVars, askedBar, gotBar, outcomeBar, AnswersOf,
                  OutcomeOf
  <2>3. QED
    BY <1>1, <2>1, <2>2, SaverStepPages, ReaderStepPages DEF Next
<1>2. ASSUME UNCHANGED vars PROVE UNCHANGED Pages!vars
  BY <1>2 DEF vars, Pages!vars, Pages!readerVars, askedBar, gotBar, outcomeBar, AnswersOf,
              OutcomeOf
<1>3. TypeOK /\ ReadersAtWork /\ HistoryInv /\ [Next]_vars => [Pages!Next]_(Pages!vars)
  BY <1>1, <1>2
<1>4. QED
  BY <1>3, PagesInit, TypeCorrect, HistoryIsKept, PTL DEF Spec, ImplementsPager, Pages!Spec
=============================================================================
