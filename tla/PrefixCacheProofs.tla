-------------------------- MODULE PrefixCacheProofs -------------------------
(***************************************************************************)
(* Proofs about PrefixCache, for every number of concurrent registrations, *)
(* every clock bound and every threshold: the types, that hits are never   *)
(* made up, that a registration lives for the default TTL, that the reason *)
(* of a miss is true; and, with one call at a time or without the model in *)
(* the namespace, that hits are counted and changes of the model named.    *)
(***************************************************************************)
EXTENDS PrefixCache, TLAPS

\* diagnoseMiss always has an answer.
LEMMA DiagnosisType ==
  ASSUME NEW previous, NEW id
  PROVE  DiagnoseMiss(previous, id) \in Reasons
BY DEF DiagnoseMiss, Reasons

\* resolvePrefixTTL gives one of the two TTLs.
LEMMA TTLType ==
  ASSUME NEW hits \in Nat
  PROVE  TTL(hits) \in Nat
BY TTLAssumption DEF TTL

\* The keys a registration touches are keys of the model.
LEMMA ScopeType ==
  ASSUME NEW s \in Session, NEW id \in Identity
  PROVE  Scope(s, id) \in Scopes /\ Namespace(id) \in Namespaces
BY DEF Scopes, Namespaces

----------------------------------------------------------------------------
(* Types *)

CallRecord == [pc : Busy \cup {"done", "failed"}, s : Session,
               id : Identity \cup {None}, found : BOOLEAN, hits : Nat,
               reason : Reasons, at : Nat, was : Used]

\* A goroutine inside RegisterPrefix has an entry with an identity.
BusyHasIdentity == \A c \in Call : call[c].pc \in Busy => call[c].id \in Identity

\* A call that has not started anything.
LEMMA NewCallType == NewCall \in CallRecord
<1>1. (CHOOSE s \in Session : TRUE) \in Session
  BY SessionAssumption
<1>2. [id |-> None, exp |-> 0] \in Used
  BY DEF Used
<1>3. QED
  BY <1>1, <1>2 DEF NewCall, CallRecord, Reasons

\* An empty registry.
LEMMA InitTypeOK == Init => TypeOK /\ BusyHasIdentity
<1> SUFFICES ASSUME Init PROVE TypeOK /\ BusyHasIdentity
  OBVIOUS
<1>1. call \in [Call -> CallRecord]
  BY NewCallType DEF Init
<1>2. [id |-> None, exp |-> 0] \in Used
  BY DEF Used
<1>3. session \in [Scopes -> Used] /\ last \in [Session -> Used]
  BY <1>2 DEF Init
<1>4. BusyHasIdentity
  BY DEF Init, NewCall, Busy, BusyHasIdentity
<1>5. hot \in [Namespaces -> [score : [Identity -> Nat], exp : Nat]]
  BY DEF Init
<1>6. /\ record \in [Identity -> [hits : Nat, exp : Nat]]
      /\ sets \in [Identity -> [life : Nat, ever : Nat]]
      /\ seen \in [Scopes -> SUBSET Identity]
      /\ now \in Nat /\ calls \in Nat
  BY DEF Init
<1>7. QED
  BY <1>1, <1>3, <1>4, <1>5, <1>6 DEF TypeOK, CallRecord

\* A registration that goes on keeps its entry.
LEMMA CallGoesOn ==
  ASSUME call \in [Call -> CallRecord], BusyHasIdentity,
         NEW c \in Call, NEW new \in CallRecord,
         new.pc \in Busy => new.id \in Identity,
         call' = [call EXCEPT ![c] = new]
  PROVE  call' \in [Call -> CallRecord] /\ BusyHasIdentity'
BY DEF BusyHasIdentity

\* Every step of the registry keeps the types.
LEMMA NextTypeOK ==
  ASSUME TypeOK, BusyHasIdentity, [Next]_vars
  PROVE  TypeOK' /\ BusyHasIdentity'
<1>0. call \in [Call -> CallRecord]
  BY DEF TypeOK, CallRecord
<1>1. CASE Tick
  BY <1>1 DEF Tick, TypeOK, history, BusyHasIdentity
<1>2. ASSUME NEW c \in Call, NEW s \in Session, NEW id \in Identity, LookUp(c, s, id)
      PROVE  TypeOK' /\ BusyHasIdentity'
  <2>1. record[id].hits + 1 \in Nat
    BY DEF TypeOK
  <2> DEFINE new == [NewCall EXCEPT !.pc = "session", !.s = s, !.id = id,
                                !.found = Lives(record[id]),
                                !.hits = IF Lives(record[id])
                                         THEN record[id].hits + 1 ELSE 1]
  <2>2. Lives(record[id]) \in BOOLEAN
    BY DEF Lives
  <2>3. new \in CallRecord /\ new.id = id
    BY <2>1, <2>2, NewCallType DEF CallRecord, Busy
  <2>4. call' = [call EXCEPT ![c] = new]
    BY <1>2 DEF LookUp
  <2>5. call \in [Call -> CallRecord]
    BY DEF TypeOK, CallRecord
  <2> HIDE DEF new
  <2>6. call' \in [Call -> CallRecord] /\ BusyHasIdentity'
    BY <2>3, <2>4, <2>5, CallGoesOn
  <2>7. UNCHANGED <<now, record, session, hot, last, seen, sets>> /\ calls' \in Nat
    BY <1>2 DEF LookUp, history, TypeOK
  <2>8. QED
    BY <2>6, <2>7 DEF TypeOK, CallRecord
<1>3. ASSUME NEW c \in Call, LoadSession(c)
      PROVE  TypeOK' /\ BusyHasIdentity'
  <2>1. call[c].id \in Identity /\ call[c].s \in Session
    BY <1>3 DEF LoadSession, TypeOK, Busy, BusyHasIdentity
  <2>2. last[call[c].s] \in Used
    BY <2>1 DEF TypeOK
  <2>3. PICK reason, was :
          /\ reason \in Reasons /\ was \in Used
          /\ call' = [call EXCEPT ![c].pc = "record", ![c].reason = reason, ![c].was = was]
    <3> DEFINE key == session[MyScope(c)]
               previous == IF Lives(key) THEN key.id ELSE None
               reason == IF call[c].found THEN "none" ELSE DiagnoseMiss(previous, call[c].id)
               was == [id |-> last[call[c].s].id,
                       exp |-> IF now < last[call[c].s].exp THEN last[call[c].s].exp ELSE 0]
    <3>1. reason \in Reasons
      BY DiagnosisType DEF Reasons
    <3>2. was \in Used
      BY <2>2 DEF Used
    <3>3. call' = [call EXCEPT ![c].pc = "record", ![c].reason = reason, ![c].was = was]
      BY <1>3 DEF LoadSession
    <3> HIDE DEF reason, was
    <3>4. QED
      BY <3>1, <3>2, <3>3
  <2>4. call' \in [Call -> CallRecord] /\ BusyHasIdentity'
    <3> DEFINE new == [call[c] EXCEPT !.pc = "record", !.reason = reason, !.was = was]
    <3>1. new \in CallRecord /\ new.id = call[c].id
      BY <1>0, <2>3 DEF CallRecord, Busy
    <3>2. call' = [call EXCEPT ![c] = new]
      BY <1>0, <2>3
    <3> HIDE DEF new
    <3>3. QED
      BY <1>0, <2>1, <3>1, <3>2, CallGoesOn
  <2>5. UNCHANGED <<now, record, session, hot, calls, last, seen, sets>>
    BY <1>3 DEF LoadSession, history
  <2>6. QED
    BY <2>4, <2>5 DEF TypeOK, CallRecord
<1>4. ASSUME NEW c \in Call, SetRecord(c)
      PROVE  TypeOK' /\ BusyHasIdentity'
  <2>1. call[c].id \in Identity /\ call[c].hits \in Nat /\ now \in Nat
    BY <1>4 DEF SetRecord, TypeOK, Busy, BusyHasIdentity
  <2>2. now + TTL(call[c].hits) \in Nat
    BY <2>1, TTLType
  <2>3. record' \in [Identity -> [hits : Nat, exp : Nat]]
    BY <1>4, <2>1, <2>2 DEF SetRecord, TypeOK
  <2>4. sets' \in [Identity -> [life : Nat, ever : Nat]]
    BY <1>4, <2>1 DEF SetRecord, TypeOK
  <2>5. call' \in [Call -> CallRecord] /\ BusyHasIdentity'
    <3> DEFINE new == [call[c] EXCEPT !.pc = "remember", !.at = now]
    <3>1. new \in CallRecord /\ new.id = call[c].id
      BY <1>0, <2>1 DEF CallRecord, Busy
    <3>2. call' = [call EXCEPT ![c] = new]
      BY <1>0, <1>4 DEF SetRecord
    <3> HIDE DEF new
    <3>3. QED
      BY <1>0, <2>1, <3>1, <3>2, CallGoesOn
  <2>6. QED
    BY <1>4, <2>3, <2>4, <2>5 DEF SetRecord, TypeOK, CallRecord
<1>5. ASSUME NEW c \in Call, SetSession(c)
      PROVE  TypeOK' /\ BusyHasIdentity'
  <2>1. call[c].id \in Identity /\ call[c].s \in Session /\ call[c].hits \in Nat /\ now \in Nat
    BY <1>5 DEF SetSession, TypeOK, Busy, BusyHasIdentity
  <2>2. MyScope(c) \in Scopes
    BY <2>1, ScopeType DEF MyScope
  <2>3. [id |-> call[c].id, exp |-> now + TTL(call[c].hits)] \in Used
    BY <2>1, TTLType DEF Used
  <2>4. session' \in [Scopes -> Used] /\ last' \in [Session -> Used]
    BY <1>5, <2>1, <2>2, <2>3 DEF SetSession, TypeOK
  <2>5. seen' \in [Scopes -> SUBSET Identity]
    BY <1>5, <2>1, <2>2 DEF SetSession, TypeOK
  <2>6. call' \in [Call -> CallRecord] /\ BusyHasIdentity'
    <3> DEFINE new == [call[c] EXCEPT !.pc = "score"]
    <3>1. new \in CallRecord /\ new.id = call[c].id
      BY <1>0, <2>1 DEF CallRecord, Busy
    <3>2. call' = [call EXCEPT ![c] = new]
      BY <1>0, <1>5 DEF SetSession
    <3> HIDE DEF new
    <3>3. QED
      BY <1>0, <2>1, <3>1, <3>2, CallGoesOn
  <2>7. QED
    BY <1>5, <2>4, <2>5, <2>6 DEF SetSession, TypeOK, CallRecord
<1>6. ASSUME NEW c \in Call, Score(c) \/ ExpireHot(c)
      PROVE  TypeOK' /\ BusyHasIdentity'
  <2>1. call[c].id \in Identity /\ call[c].hits \in Nat /\ now \in Nat
    BY <1>6 DEF Score, ExpireHot, TypeOK, Busy, BusyHasIdentity
  <2>2. Namespace(call[c].id) \in Namespaces /\ now + TTL(call[c].hits) \in Nat
    BY <2>1, TTLType, ScopeType, SessionAssumption
  <2>3. hot' \in [Namespaces -> [score : [Identity -> Nat], exp : Nat]]
    <3>1. CASE Score(c)
      <4>1. Never \in Nat
        BY BoundAssumption DEF Never
      <4>2. [i \in Identity |-> IF i = call[c].id THEN 1 ELSE 0] \in [Identity -> Nat]
        OBVIOUS
      <4> DEFINE id == call[c].id
                 set == hot[Namespace(id)]
                 more == [set.score EXCEPT ![id] = set.score[id] + 1]
                 new == IF Lives(set) THEN [set EXCEPT !.score = more]
                        ELSE [score |-> [i \in Identity |-> IF i = id THEN 1 ELSE 0],
                              exp |-> Never]
      <4>3. hot' = [hot EXCEPT ![Namespace(id)] = new]
        BY <3>1 DEF Score
      <4>4. set \in [score : [Identity -> Nat], exp : Nat]
        BY <2>2 DEF TypeOK
      <4> HIDE DEF set
      <4>5. set.score[id] + 1 \in Nat
        BY <2>1, <4>4
      <4>6. more \in [Identity -> Nat]
        BY <4>4, <4>5
      <4> HIDE DEF more
      <4>7. new \in [score : [Identity -> Nat], exp : Nat]
        BY <4>1, <4>2, <4>4, <4>6
      <4> HIDE DEF new
      <4>8. QED
        BY <2>2, <4>3, <4>7 DEF TypeOK
    <3>2. CASE ExpireHot(c)
      <4> DEFINE set == hot[Namespace(call[c].id)]
                 end == now + TTL(call[c].hits)
      <4>1. hot' = [hot EXCEPT ![Namespace(call[c].id)] = IF Lives(set) THEN [set EXCEPT !.exp = end] ELSE set]
        BY <3>2 DEF ExpireHot
      <4>2. end \in Nat
        BY <2>2 DEF TypeOK
      <4>3. set \in [score : [Identity -> Nat], exp : Nat]
        BY <2>2 DEF TypeOK
      <4> HIDE DEF end
      <4>4. [set EXCEPT !.exp = end] \in [score : [Identity -> Nat], exp : Nat]
        BY <4>2, <4>3
      <4> HIDE DEF set
      <4>5. QED
        BY <2>2, <4>1, <4>3, <4>4 DEF TypeOK
    <3>3. QED
      BY <1>6, <3>1, <3>2
  <2>4. call' \in [Call -> CallRecord] /\ BusyHasIdentity'
    <3>1. PICK step \in {"expire", "done"} : call' = [call EXCEPT ![c].pc = step]
      BY <1>6 DEF Score, ExpireHot
    <3> DEFINE new == [call[c] EXCEPT !.pc = step]
    <3>2. new \in CallRecord /\ new.id = call[c].id
      BY <1>0 DEF CallRecord, Busy
    <3>3. call' = [call EXCEPT ![c] = new]
      BY <1>0, <3>1
    <3> HIDE DEF new
    <3>4. QED
      BY <1>0, <2>1, <3>2, <3>3, CallGoesOn
  <2>5. UNCHANGED <<now, record, session, calls, last, seen, sets>>
    BY <1>6 DEF Score, ExpireHot, history
  <2>6. QED
    BY <2>3, <2>4, <2>5 DEF TypeOK, CallRecord
<1>7. ASSUME NEW c \in Call, Fails(c)
      PROVE  TypeOK' /\ BusyHasIdentity'
  <2> DEFINE new == [call[c] EXCEPT !.pc = "failed"]
  <2>1. new \in CallRecord /\ (new.pc \notin Busy)
    BY <1>0 DEF CallRecord, Busy
  <2>2. call' = [call EXCEPT ![c] = new]
    BY <1>0, <1>7 DEF Fails
  <2> HIDE DEF new
  <2>3. call' \in [Call -> CallRecord] /\ BusyHasIdentity'
    BY <1>0, <2>1, <2>2, CallGoesOn
  <2>4. QED
    BY <1>7, <2>3 DEF Fails, TypeOK, history, CallRecord
<1>8. CASE UNCHANGED vars
  BY <1>8 DEF vars, history, TypeOK, BusyHasIdentity
<1>9. QED
  BY <1>1, <1>2, <1>3, <1>4, <1>5, <1>6, <1>7, <1>8 DEF Next, Step

\* Every variable of the registry keeps its type.
THEOREM TypeCorrect == Spec => [](TypeOK /\ BusyHasIdentity)
<1>1. Init => TypeOK /\ BusyHasIdentity
  BY InitTypeOK
<1>2. TypeOK /\ BusyHasIdentity /\ [Next]_vars => TypeOK' /\ BusyHasIdentity'
  BY NextTypeOK
<1>3. QED
  BY <1>1, <1>2, PTL DEF Spec

----------------------------------------------------------------------------
(* Hits *)

\* No record counts more hits than it was stored, and a registration that is
\* about to store one adds at most one.
CountInv ==
  /\ \A id \in Identity : record[id].hits <= sets[id].ever
  /\ \A c \in Call : call[c].pc \in {"session", "record"} =>
       call[c].hits <= sets[call[c].id].ever + 1

\* Nothing was stored yet.
LEMMA InitCount == Init => CountInv
BY DEF Init, CountInv, NewCall

\* A SET stores at most one hit more than the sets before it.
LEMMA NextCount ==
  ASSUME TypeOK, BusyHasIdentity, CountInv, [Next]_vars
  PROVE  CountInv'
<1>1. ASSUME NEW c \in Call, NEW s \in Session, NEW id \in Identity, LookUp(c, s, id)
      PROVE  CountInv'
  <2>1. record[id].hits \in Nat /\ sets[id].ever \in Nat /\ record[id].hits <= sets[id].ever
    BY DEF TypeOK, CountInv
  <2>2. UNCHANGED <<record, sets>>
    BY <1>1 DEF LookUp, history
  <2>3. /\ call'[c].id = id
        /\ call'[c].hits \in {record[id].hits + 1, 1}
        /\ \A d \in Call : d # c => call'[d] = call[d]
    BY <1>1, <2>1 DEF LookUp, TypeOK, NewCall
  <2>4. call'[c].hits <= sets'[call'[c].id].ever + 1
    <3>1. record[id].hits + 1 <= sets[id].ever + 1 /\ 1 <= sets[id].ever + 1
      BY <2>1
    <3>2. QED
      BY <2>2, <2>3, <3>1
  <2>5. QED
    BY <2>2, <2>3, <2>4 DEF CountInv
<1>2. ASSUME NEW c \in Call, SetRecord(c)
      PROVE  CountInv'
  <2> DEFINE id == call[c].id
  <2>1. id \in Identity /\ call[c].hits \in Nat /\ call[c].hits <= sets[id].ever + 1
    BY <1>2 DEF SetRecord, TypeOK, Busy, BusyHasIdentity, CountInv
  <2>2. /\ record'[id].hits = call[c].hits
        /\ sets'[id].ever = sets[id].ever + 1
        /\ \A i \in Identity : i # id => record'[i] = record[i] /\ sets'[i] = sets[i]
    BY <1>2, <2>1 DEF SetRecord, TypeOK
  <2>3. /\ call'[c].pc = "remember"
        /\ \A d \in Call : d # c => call'[d] = call[d]
    BY <1>2 DEF SetRecord, TypeOK
  <2>4. \A i \in Identity : record'[i].hits <= sets'[i].ever
    BY <2>1, <2>2 DEF CountInv
  <2>5. ASSUME NEW d \in Call, call'[d].pc \in {"session", "record"}
        PROVE  call'[d].hits <= sets'[call'[d].id].ever + 1
    <3>1. d # c /\ call'[d] = call[d]
      BY <2>3, <2>5
    <3>2. call[d].id \in Identity /\ call[d].hits \in Nat
          /\ call[d].hits <= sets[call[d].id].ever + 1
      BY <2>5, <3>1 DEF TypeOK, Busy, BusyHasIdentity, CountInv
    <3>3. sets[call[d].id].ever \in Nat
          /\ sets'[call[d].id].ever \in {sets[call[d].id].ever, sets[call[d].id].ever + 1}
      BY <2>2, <3>2 DEF TypeOK
    <3>4. QED
      BY <3>1, <3>2, <3>3
  <2>6. QED
    BY <2>4, <2>5 DEF CountInv
<1>3. ASSUME NEW c \in Call,
             LoadSession(c) \/ SetSession(c) \/ Score(c) \/ ExpireHot(c) \/ Fails(c)
      PROVE  CountInv'
  <2>1. UNCHANGED <<record, sets>>
    BY <1>3 DEF LoadSession, SetSession, Score, ExpireHot, Fails, history
  <2>2. \A d \in Call : /\ call'[d].id = call[d].id /\ call'[d].hits = call[d].hits
                        /\ call'[d].pc \in {"session", "record"} =>
                             call[d].pc \in {"session", "record"}
    <3>1. CASE LoadSession(c)
      BY <3>1 DEF LoadSession, TypeOK
    <3>2. CASE SetSession(c) \/ Score(c) \/ ExpireHot(c) \/ Fails(c)
      <4>1. PICK step \in {"score", "expire", "done", "failed"} :
              call' = [call EXCEPT ![c].pc = step]
        BY <3>2 DEF SetSession, Score, ExpireHot, Fails
      <4>2. call \in [Call -> CallRecord]
        BY DEF TypeOK, CallRecord
      <4>3. QED
        BY <4>1, <4>2 DEF CallRecord
    <3>3. QED
      BY <1>3, <3>1, <3>2
  <2>3. QED
    BY <2>1, <2>2 DEF CountInv
<1>4. CASE Tick \/ UNCHANGED vars
  BY <1>4 DEF Tick, vars, history, CountInv
<1>5. QED
  BY <1>1, <1>2, <1>3, <1>4 DEF Next, Step

\* A prefix is hot only if it was stored as often as the threshold asks for,
\* however many registrations run at a time and whichever of them fail.
THEOREM HitsAreEarned == Spec => []HotIsEarned
<1>1. Init => TypeOK /\ BusyHasIdentity /\ CountInv
  BY InitTypeOK, InitCount
<1>2. TypeOK /\ BusyHasIdentity /\ CountInv /\ [Next]_vars
        => TypeOK' /\ BusyHasIdentity' /\ CountInv'
  BY NextTypeOK, NextCount
<1>3. TypeOK /\ CountInv => HotIsEarned
  <2> SUFFICES ASSUME TypeOK, CountInv, NEW id \in Identity, Hot(id)
               PROVE  sets[id].ever >= HotThreshold
    BY DEF HotIsEarned
  <2>1. record[id].hits \in Nat /\ sets[id].ever \in Nat /\ HotThreshold \in Nat
    BY HotAssumption DEF TypeOK
  <2>2. QED
    BY <2>1 DEF Hot, CountInv
<1>4. QED
  BY <1>1, <1>2, <1>3, PTL DEF Spec

----------------------------------------------------------------------------
(* The time to live of a registration *)

\* What was stored at some time lasts from then for the default TTL at least.
LifeInv ==
  \A c \in Call : call[c].at > 0 =>
    /\ call[c].id \in Identity
    /\ call[c].at <= now
    /\ call[c].at + DefaultTTL <= record[call[c].id].exp

\* Storing a record again never shortens that.
LEMMA NextLife ==
  ASSUME DefaultTTL <= HotTTL, TypeOK, BusyHasIdentity, LifeInv, [Next]_vars
  PROVE  LifeInv'
<1>0. now \in Nat /\ DefaultTTL \in Nat /\ HotTTL \in Nat
      /\ \A d \in Call : call[d].at \in Nat
      /\ \A id \in Identity : record[id].exp \in Nat
  BY TTLAssumption DEF TypeOK
<1>1. ASSUME NEW c \in Call, NEW s \in Session, NEW id \in Identity, LookUp(c, s, id)
      PROVE  LifeInv'
  <2>1. call'[c].at = 0 /\ \A d \in Call : d # c => call'[d] = call[d]
    BY <1>1 DEF LookUp, TypeOK, NewCall
  <2>2. UNCHANGED <<now, record>>
    BY <1>1 DEF LookUp
  <2>3. QED
    BY <2>1, <2>2 DEF LifeInv
<1>2. ASSUME NEW c \in Call, SetRecord(c)
      PROVE  LifeInv'
  <2> DEFINE id == call[c].id
  <2>1. id \in Identity /\ call[c].hits \in Nat
    BY <1>2 DEF SetRecord, TypeOK, Busy, BusyHasIdentity
  <2>2. TTL(call[c].hits) \in Nat /\ TTL(call[c].hits) >= DefaultTTL
    BY <1>0 DEF TTL
  <2>3. /\ record'[id].exp = now + TTL(call[c].hits)
        /\ \A i \in Identity : i # id => record'[i] = record[i]
        /\ now' = now
    BY <1>2, <2>1 DEF SetRecord, TypeOK
  <2>4. /\ call'[c].at = now /\ call'[c].id = id
        /\ \A d \in Call : d # c => call'[d] = call[d]
    BY <1>2 DEF SetRecord, TypeOK
  <2>5. ASSUME NEW d \in Call, call'[d].at > 0
        PROVE  /\ call'[d].id \in Identity
               /\ call'[d].at <= now'
               /\ call'[d].at + DefaultTTL <= record'[call'[d].id].exp
    <3>1. call'[d].id \in Identity /\ call'[d].at \in Nat /\ call'[d].at <= now
      BY <1>0, <2>1, <2>4, <2>5 DEF LifeInv
    <3>2. CASE call'[d].id = id
      <4>1. record'[call'[d].id].exp = now + TTL(call[c].hits)
        BY <2>3, <3>2
      <4>2. QED
        BY <1>0, <2>2, <2>3, <3>1, <4>1
    <3>3. CASE call'[d].id # id
      BY <1>0, <2>3, <2>4, <2>5, <3>1, <3>3 DEF LifeInv
    <3>4. QED
      BY <3>2, <3>3
  <2>6. QED
    BY <2>5 DEF LifeInv
<1>3. ASSUME NEW c \in Call,
             LoadSession(c) \/ SetSession(c) \/ Score(c) \/ ExpireHot(c) \/ Fails(c)
      PROVE  LifeInv'
  <2>1. UNCHANGED <<now, record>>
    BY <1>3 DEF LoadSession, SetSession, Score, ExpireHot, Fails
  <2>2. \A d \in Call : call'[d].id = call[d].id /\ call'[d].at = call[d].at
    <3>1. CASE LoadSession(c)
      BY <3>1 DEF LoadSession, TypeOK
    <3>2. CASE SetSession(c) \/ Score(c) \/ ExpireHot(c) \/ Fails(c)
      <4>1. PICK step \in {"score", "expire", "done", "failed"} :
              call' = [call EXCEPT ![c].pc = step]
        BY <3>2 DEF SetSession, Score, ExpireHot, Fails
      <4>2. call \in [Call -> CallRecord]
        BY DEF TypeOK, CallRecord
      <4>3. QED
        BY <4>1, <4>2 DEF CallRecord
    <3>3. QED
      BY <1>3, <3>1, <3>2
  <2>3. QED
    BY <2>1, <2>2 DEF LifeInv
<1>4. CASE Tick
  BY <1>0, <1>4 DEF Tick, LifeInv
<1>5. CASE UNCHANGED vars
  BY <1>5 DEF vars, LifeInv
<1>6. QED
  BY <1>1, <1>2, <1>3, <1>4, <1>5 DEF Next, Step

\* As long as the hot TTL is not the shorter one, whoever registered a prefix
\* finds it registered for the default TTL, whatever runs or fails meanwhile.
THEOREM RegistrationsLive ==
  ASSUME DefaultTTL <= HotTTL
  PROVE  Spec => []RegistrationLives
<1>1. Init => LifeInv
  BY DEF Init, NewCall, LifeInv
<1>2. TypeOK /\ BusyHasIdentity /\ LifeInv /\ [Next]_vars => LifeInv'
  BY NextLife
<1>3. TypeOK /\ LifeInv => RegistrationLives
  <2> SUFFICES ASSUME TypeOK, LifeInv, NEW c \in Call,
                      call[c].at > 0, now < call[c].at + DefaultTTL
               PROVE  now < record[call[c].id].exp
    BY DEF RegistrationLives, Lives
  <2>1. call[c].id \in Identity /\ call[c].at + DefaultTTL <= record[call[c].id].exp
    BY DEF LifeInv
  <2>2. /\ now \in Nat /\ DefaultTTL \in Nat /\ call[c].at \in Nat
        /\ record[call[c].id].exp \in Nat
    BY <2>1, TTLAssumption DEF TypeOK
  <2>3. QED
    BY <2>1, <2>2
<1>4. QED
  BY <1>1, <1>2, <1>3, TypeCorrect, PTL DEF Spec

----------------------------------------------------------------------------
(* The reason of a miss *)

\* A reason is true of an identity and of what was registered before it.
Explains(reason, id, before) ==
  LET FirstDifference(s, earlier) ==
        \E b \in before : /\ b.model = id.model
                          /\ b.prefix[s] # id.prefix[s]
                          /\ \A e \in earlier : b.prefix[e] = id.prefix[e]
  IN  CASE reason = "model_changed" -> \E b \in before : b.model # id.model
        [] reason = "ttl_expired" -> id \in before
        [] reason = "system_changed" -> FirstDifference("system", {})
        [] reason = "memory_changed" -> FirstDifference("memory", {"system"})
        [] reason = "rag_changed" -> FirstDifference("rag", {"system", "memory"})
        [] reason = "normalization_changed" ->
             FirstDifference("norm", {"system", "memory", "rag"})
        [] OTHER -> reason \in {"none", "created"}

\* Prefixes differ in a segment or in the normalisation, so that a miss after
\* another prefix names one of them (diagnoseMiss).
LEMMA DiagnosisExplains ==
  ASSUME NEW id \in Identity, NEW before \in SUBSET Identity,
         NEW previous, previous = None \/ previous \in before
  PROVE  Explains(DiagnoseMiss(previous, id), id, before)
<1>1. CASE previous = None
  <2>0. None # id
    BY DEF None, Identity
  <2>1. DiagnoseMiss(previous, id) = "created"
    BY <1>1, <2>0 DEF DiagnoseMiss
  <2>2. Explains("created", id, before)
    BY DEF Explains
  <2>3. QED
    BY <2>1, <2>2
<1>2. CASE previous # None /\ previous.model # id.model
  BY <1>2 DEF DiagnoseMiss, Explains
<1>3. CASE previous # None /\ previous = id
  BY <1>3 DEF DiagnoseMiss, Explains
<1>4. CASE previous # None /\ previous.model = id.model /\ previous # id
  <2> DEFINE was == previous.prefix
             is == id.prefix
  <2>1. previous \in before /\ previous \in Identity
    BY <1>4
  <2>2. was \in Prefix /\ is \in Prefix /\ was # is
    BY <1>4, <2>1 DEF Identity
  <2>3. \E f \in {"system", "memory", "rag", "norm"} : was[f] # is[f]
    BY <2>2, PrefixAssumption
  <2>4. CASE was.system # is.system
    <3>1. DiagnoseMiss(previous, id) = "system_changed"
      BY <1>4, <2>4 DEF DiagnoseMiss
    <3>2. QED
      BY <1>4, <2>1, <2>4, <3>1 DEF Explains
  <2>5. CASE was.system = is.system /\ was.memory # is.memory
    <3>1. DiagnoseMiss(previous, id) = "memory_changed"
      BY <1>4, <2>5 DEF DiagnoseMiss
    <3>2. QED
      BY <1>4, <2>1, <2>5, <3>1 DEF Explains
  <2>6. CASE was.system = is.system /\ was.memory = is.memory /\ was.rag # is.rag
    <3>1. DiagnoseMiss(previous, id) = "rag_changed"
      BY <1>4, <2>6 DEF DiagnoseMiss
    <3>2. QED
      BY <1>4, <2>1, <2>6, <3>1 DEF Explains
  <2>7. CASE was.system = is.system /\ was.memory = is.memory /\ was.rag = is.rag
    <3>1. was.norm # is.norm
      BY <2>3, <2>7
    <3>2. DiagnoseMiss(previous, id) = "normalization_changed"
      BY <1>4, <2>7, <3>1 DEF DiagnoseMiss
    <3>3. QED
      BY <1>4, <2>1, <2>7, <3>1, <3>2 DEF Explains
  <2>8. QED
    BY <2>4, <2>5, <2>6, <2>7
<1>5. QED
  BY <1>1, <1>2, <1>3, <1>4

\* What was registered before is not forgotten.
LEMMA ExplainsMore ==
  ASSUME NEW reason, NEW id, NEW before, NEW more, before \subseteq more,
         Explains(reason, id, before)
  PROVE  Explains(reason, id, more)
BY DEF Explains

\* What a session key holds was registered under it, and the reason a call has
\* found is true of what was.
ReasonInv ==
  /\ \A k \in Scopes : session[k].id \in {None} \cup seen[k]
  /\ \A c \in Call : call[c].pc \in {"record", "remember"} =>
       Explains(call[c].reason, call[c].id, seen[MyScope(c)])

\* Nothing was registered yet.
LEMMA InitReason == Init => ReasonInv
BY DEF Init, ReasonInv, NewCall

\* Calls that are in neither state, or that keep what they found, disturb nothing.
LEMMA ReasonStays ==
  ASSUME ReasonInv, TypeOK, BusyHasIdentity,
         \A k \in Scopes : seen[k] \subseteq seen'[k],
         \A k \in Scopes : session'[k].id \in {None} \cup seen'[k],
         \A c \in Call :
           call'[c].pc \in {"record", "remember"} =>
             /\ call[c].pc \in {"record", "remember"}
             /\ call'[c].reason = call[c].reason
             /\ call'[c].id = call[c].id /\ call'[c].s = call[c].s
  PROVE  ReasonInv'
<1> SUFFICES ASSUME NEW c \in Call, call'[c].pc \in {"record", "remember"}
             PROVE  Explains(call'[c].reason, call'[c].id, seen'[MyScope(c)'])
  BY DEF ReasonInv
<1>1. /\ Explains(call[c].reason, call[c].id, seen[MyScope(c)])
      /\ call[c].id \in Identity /\ call[c].s \in Session
  BY DEF ReasonInv, BusyHasIdentity, Busy, TypeOK
<1>2. MyScope(c)' = MyScope(c) /\ MyScope(c) \in Scopes
  BY <1>1, ScopeType DEF MyScope
<1>3. QED
  BY <1>1, <1>2, ExplainsMore

\* Every step keeps the reasons true.
LEMMA NextReason ==
  ASSUME TypeOK, BusyHasIdentity, ReasonInv, [Next]_vars
  PROVE  ReasonInv'
<1>0. call \in [Call -> CallRecord]
  BY DEF TypeOK, CallRecord
<1>1. ASSUME NEW c \in Call, NEW s \in Session, NEW id \in Identity, LookUp(c, s, id)
      PROVE  ReasonInv'
  <2>1. call'[c].pc = "session" /\ \A d \in Call : d # c => call'[d] = call[d]
    BY <1>0, <1>1 DEF LookUp, NewCall
  <2>2. UNCHANGED <<session, seen>>
    BY <1>1 DEF LookUp, history
  <2>3. QED
    BY <2>1, <2>2, ReasonStays DEF ReasonInv
<1>2. ASSUME NEW c \in Call, LoadSession(c)
      PROVE  ReasonInv'
  <2> DEFINE id == call[c].id
             key == session[MyScope(c)]
             previous == IF Lives(key) THEN key.id ELSE None
             reason == IF call[c].found THEN "none" ELSE DiagnoseMiss(previous, id)
  <2>1. id \in Identity /\ call[c].s \in Session
    BY <1>2 DEF LoadSession, TypeOK, Busy, BusyHasIdentity
  <2>2. MyScope(c) \in Scopes
    BY <2>1, ScopeType DEF MyScope
  <2>3. previous = None \/ previous \in seen[MyScope(c)]
    BY <2>2 DEF ReasonInv
  <2>4. seen[MyScope(c)] \in SUBSET Identity
    BY <2>2 DEF TypeOK
  <2> HIDE DEF previous
  <2>5. Explains("none", id, seen[MyScope(c)])
    BY DEF Explains
  <2>6. Explains(reason, id, seen[MyScope(c)])
    BY <2>1, <2>3, <2>4, <2>5, DiagnosisExplains
  <2>7. /\ call'[c].reason = reason /\ call'[c].id = id /\ call'[c].s = call[c].s
        /\ \A d \in Call : d # c => call'[d] = call[d]
    BY <1>0, <1>2 DEF LoadSession, CallRecord, previous
  <2> HIDE DEF reason
  <2>8. UNCHANGED <<session, seen>>
    BY <1>2 DEF LoadSession, history
  <2>9. ASSUME NEW d \in Call, call'[d].pc \in {"record", "remember"}
        PROVE  Explains(call'[d].reason, call'[d].id, seen'[MyScope(d)'])
    <3>1. CASE d = c
      BY <2>6, <2>7, <2>8, <3>1 DEF MyScope
    <3>2. CASE d # c
      BY <2>7, <2>8, <2>9, <3>2 DEF MyScope, ReasonInv
    <3>3. QED
      BY <3>1, <3>2
  <2>10. QED
    BY <2>8, <2>9 DEF ReasonInv
<1>3. ASSUME NEW c \in Call, SetRecord(c)
      PROVE  ReasonInv'
  <2>1. UNCHANGED <<session, seen>>
    BY <1>3 DEF SetRecord
  <2>2. /\ call[c].pc = "record"
        /\ call'[c].reason = call[c].reason /\ call'[c].id = call[c].id
        /\ call'[c].s = call[c].s
        /\ \A d \in Call : d # c => call'[d] = call[d]
    BY <1>0, <1>3 DEF SetRecord, CallRecord
  <2>3. QED
    BY <2>1, <2>2, ReasonStays DEF ReasonInv
<1>4. ASSUME NEW c \in Call, SetSession(c)
      PROVE  ReasonInv'
  <2>1. call[c].id \in Identity /\ call[c].s \in Session
    BY <1>4 DEF SetSession, TypeOK, Busy, BusyHasIdentity
  <2>2. MyScope(c) \in Scopes
    BY <2>1, ScopeType DEF MyScope
  <2>3. /\ seen'[MyScope(c)] = seen[MyScope(c)] \cup {call[c].id}
        /\ session'[MyScope(c)].id = call[c].id
        /\ \A k \in Scopes : k # MyScope(c) =>
             seen'[k] = seen[k] /\ session'[k] = session[k]
    BY <1>4, <2>2 DEF SetSession, TypeOK
  <2>4. call'[c].pc = "score" /\ \A d \in Call : d # c => call'[d] = call[d]
    BY <1>0, <1>4 DEF SetSession, CallRecord
  <2>5. \A k \in Scopes : seen[k] \subseteq seen'[k]
    BY <2>3
  <2>6. \A k \in Scopes : session'[k].id \in {None} \cup seen'[k]
    BY <2>3 DEF ReasonInv
  <2>7. QED
    BY <2>4, <2>5, <2>6, ReasonStays
<1>5. ASSUME NEW c \in Call, Score(c) \/ ExpireHot(c) \/ Fails(c)
      PROVE  ReasonInv'
  <2>1. UNCHANGED <<session, seen>>
    BY <1>5 DEF Score, ExpireHot, Fails, history
  <2>2. PICK step \in {"expire", "done", "failed"} : call' = [call EXCEPT ![c].pc = step]
    BY <1>5 DEF Score, ExpireHot, Fails
  <2>3. call'[c].pc = step /\ \A d \in Call : d # c => call'[d] = call[d]
    BY <1>0, <2>2 DEF CallRecord
  <2>4. QED
    BY <2>1, <2>3, ReasonStays DEF ReasonInv
<1>6. CASE Tick \/ UNCHANGED vars
  <2>1. UNCHANGED <<session, seen, call>>
    BY <1>6 DEF Tick, vars, history
  <2>2. QED
    BY <2>1, ReasonStays DEF ReasonInv
<1>7. QED
  BY <1>1, <1>2, <1>3, <1>4, <1>5, <1>6 DEF Next, Step

\* The reason of a miss is explained by what the session registered before, names
\* the first segment that differs, and never falls back to naming none.
THEOREM ReasonsExplain == Spec => []ReasonsAreTrue
<1>1. Init => ReasonInv
  BY InitReason
<1>2. TypeOK /\ BusyHasIdentity /\ ReasonInv /\ [Next]_vars => ReasonInv'
  BY NextReason
<1>3. ReasonInv => ReasonsAreTrue
  BY DEF ReasonInv, ReasonsAreTrue, Explains
<1>4. QED
  BY <1>1, <1>2, <1>3, TypeCorrect, PTL DEF Spec

----------------------------------------------------------------------------
(* Without the model in the namespace *)

\* A session has one key, which holds what it registered last; a call whose session
\* had registered with another model says so.
ModelInv ==
  /\ \A s \in Session, id \in Identity : session[Scope(s, id)] = last[s]
  /\ \A s \in Session : last[s].id = None => last[s].exp = 0
  /\ \A c \in Call :
       (call[c].reason # "none" /\ call[c].was.exp # 0
          /\ call[c].was.id.model # call[c].id.model)
         => call[c].reason = "model_changed"

\* Every step of every registration keeps it so.
LEMMA NextModel ==
  ASSUME ~IncludeModel, TypeOK, BusyHasIdentity, ModelInv, [Next]_vars
  PROVE  ModelInv'
<1>0. call \in [Call -> CallRecord]
  BY DEF TypeOK, CallRecord
<1>1. ASSUME NEW c \in Call, NEW s \in Session, NEW id \in Identity, LookUp(c, s, id)
      PROVE  ModelInv'
  <2>1. call'[c].reason = "none" /\ \A d \in Call : d # c => call'[d] = call[d]
    BY <1>0, <1>1 DEF LookUp, NewCall
  <2>2. UNCHANGED <<session, last>>
    BY <1>1 DEF LookUp, history
  <2>3. QED
    BY <2>1, <2>2 DEF ModelInv
<1>2. ASSUME NEW c \in Call, LoadSession(c)
      PROVE  ModelInv'
  <2> DEFINE id == call[c].id
             key == session[MyScope(c)]
             previous == IF Lives(key) THEN key.id ELSE None
             reason == IF call[c].found THEN "none" ELSE DiagnoseMiss(previous, id)
             was == [id |-> last[call[c].s].id,
                     exp |-> IF now < last[call[c].s].exp THEN last[call[c].s].exp ELSE 0]
  <2>1. id \in Identity /\ call[c].s \in Session
    BY <1>2 DEF LoadSession, TypeOK, Busy, BusyHasIdentity
  <2>2. key = last[call[c].s] /\ key.exp \in Nat /\ now \in Nat
        /\ (key.id = None => key.exp = 0)
    BY <2>1, SessionAssumption DEF MyScope, ModelInv, TypeOK, Used
  <2>3. /\ call'[c].reason = reason /\ call'[c].id = id /\ call'[c].was = was
        /\ \A d \in Call : d # c => call'[d] = call[d]
    BY <1>0, <1>2 DEF LoadSession, CallRecord
  <2>4. UNCHANGED <<session, last>>
    BY <1>2 DEF LoadSession, history
  <2>5. ASSUME reason # "none", was.exp # 0, was.id.model # id.model
        PROVE  reason = "model_changed"
    <3>1. now < key.exp /\ was.id = key.id /\ key.id # None
      BY <2>2, <2>5
    <3>2. previous = key.id
      BY <3>1 DEF Lives
    <3>3. previous # None /\ previous # id /\ previous.model # id.model
      BY <2>5, <3>1, <3>2
    <3> HIDE DEF previous, was
    <3>4. DiagnoseMiss(previous, id) = "model_changed"
      BY <3>3 DEF DiagnoseMiss
    <3>5. QED
      BY <2>5, <3>4
  <2> HIDE DEF reason, was, key
  <2>6. ASSUME NEW d \in Call, call'[d].reason # "none", call'[d].was.exp # 0,
               call'[d].was.id.model # call'[d].id.model
        PROVE  call'[d].reason = "model_changed"
    <3>1. CASE d = c
      BY <2>3, <2>5, <2>6, <3>1
    <3>2. CASE d # c
      BY <2>3, <2>6, <3>2 DEF ModelInv
    <3>3. QED
      BY <3>1, <3>2
  <2>7. QED
    BY <2>4, <2>6 DEF ModelInv
<1>3. ASSUME NEW c \in Call, SetSession(c)
      PROVE  ModelInv'
  <2> DEFINE entry == [id |-> call[c].id, exp |-> now + TTL(call[c].hits)]
  <2>1. call[c].id \in Identity /\ call[c].s \in Session
    BY <1>3 DEF SetSession, TypeOK, Busy, BusyHasIdentity
  <2>2. MyScope(c) = <<Blank, call[c].s>> /\ MyScope(c) \in Scopes
    BY <2>1, ScopeType DEF MyScope, Scope, Namespace
  <2>3. entry.id # None
    BY <2>1 DEF None, Identity
  <2>4. /\ last' = [last EXCEPT ![call[c].s] = entry]
        /\ session' = [session EXCEPT ![MyScope(c)] = entry]
    BY <1>3 DEF SetSession
  <2> HIDE DEF entry
  <2>5. ASSUME NEW s \in Session, NEW id \in Identity
        PROVE  session'[Scope(s, id)] = last'[s]
    <3>1. Scope(s, id) = <<Blank, s>> /\ Scope(s, id) \in Scopes
      BY ScopeType DEF Scope, Namespace
    <3>2. Scope(s, id) = MyScope(c) <=> s = call[c].s
      BY <2>2, <3>1
    <3>3. session[Scope(s, id)] = last[s]
      BY DEF ModelInv
    <3>4. QED
      BY <2>1, <2>2, <2>4, <3>1, <3>2, <3>3 DEF TypeOK
  <2>6. \A s \in Session : last'[s].id = None => last'[s].exp = 0
    BY <2>1, <2>3, <2>4 DEF ModelInv, TypeOK
  <2>7. \A d \in Call : /\ call'[d].reason = call[d].reason /\ call'[d].was = call[d].was
                        /\ call'[d].id = call[d].id
    BY <1>0, <1>3 DEF SetSession, CallRecord
  <2>8. QED
    BY <2>5, <2>6, <2>7 DEF ModelInv
<1>4. ASSUME NEW c \in Call, SetRecord(c) \/ Score(c) \/ ExpireHot(c) \/ Fails(c)
      PROVE  ModelInv'
  <2>1. UNCHANGED <<session, last>>
    BY <1>4 DEF SetRecord, Score, ExpireHot, Fails, history
  <2>2. \A d \in Call : /\ call'[d].reason = call[d].reason /\ call'[d].was = call[d].was
                        /\ call'[d].id = call[d].id
    <3>1. CASE SetRecord(c)
      BY <1>0, <3>1 DEF SetRecord, CallRecord
    <3>2. CASE Score(c) \/ ExpireHot(c) \/ Fails(c)
      <4>1. PICK step \in {"expire", "done", "failed"} : call' = [call EXCEPT ![c].pc = step]
        BY <3>2 DEF Score, ExpireHot, Fails
      <4>2. QED
        BY <1>0, <4>1 DEF CallRecord
    <3>3. QED
      BY <1>4, <3>1, <3>2
  <2>3. QED
    BY <2>1, <2>2 DEF ModelInv
<1>5. CASE Tick \/ UNCHANGED vars
  BY <1>5 DEF Tick, vars, history, ModelInv
<1>6. QED
  BY <1>1, <1>2, <1>3, <1>4, <1>5 DEF Next, Step

\* When the namespace is without the model, whoever misses after the session's
\* model changed is told so, however many registrations run at a time.
THEOREM ModelChangesShow ==
  ASSUME ~IncludeModel
  PROVE  Spec => []ModelChangeIsDiagnosed
<1>1. Init => ModelInv
  <2> SUFFICES ASSUME Init PROVE ModelInv
    OBVIOUS
  <2>1. \A s \in Session, id \in Identity : Scope(s, id) \in Scopes
    BY ScopeType
  <2>2. QED
    BY <2>1 DEF Init, NewCall, ModelInv
<1>2. TypeOK /\ BusyHasIdentity /\ ModelInv /\ [Next]_vars => ModelInv'
  BY NextModel
<1>3. ModelInv => ModelChangeIsDiagnosed
  BY DEF ModelInv, ModelChangeIsDiagnosed
<1>4. QED
  BY <1>1, <1>2, <1>3, TypeCorrect, PTL DEF Spec

----------------------------------------------------------------------------
(* One registration at a time *)

\* A record that lives has counted every time it was stored, and a call that is
\* about to store it will have.
EveryHitCounts ==
  /\ \A id \in Identity : Lives(record[id]) => record[id].hits = sets[id].life
  /\ \A c \in Call : call[c].pc \in {"session", "record"} =>
       call[c].hits = IF Lives(record[call[c].id])
                      THEN sets[call[c].id].life + 1 ELSE 1

\* With one call at work nobody stores the record between its GET and its SET, nor
\* does it expire there.
LEMMA NextCounts ==
  ASSUME NEW only, Call = {only}, TypeOK, BusyHasIdentity, EveryHitCounts,
         [BriefNext]_vars
  PROVE  EveryHitCounts'
<1>0. call \in [Call -> CallRecord]
  BY DEF TypeOK, CallRecord
<1>1. ASSUME NEW c \in Call, NEW s \in Session, NEW id \in Identity, LookUp(c, s, id)
      PROVE  EveryHitCounts'
  <2>1. UNCHANGED <<now, record, sets>>
    BY <1>1 DEF LookUp, history
  <2>2. /\ call'[c].id = id
        /\ call'[c].hits = IF Lives(record[id]) THEN record[id].hits + 1 ELSE 1
    BY <1>0, <1>1 DEF LookUp, NewCall
  <2>3. \A d \in Call : d = c
    OBVIOUS
  <2>4. QED
    BY <2>1, <2>2, <2>3 DEF EveryHitCounts, Lives
<1>2. ASSUME NEW c \in Call, SetRecord(c)
      PROVE  EveryHitCounts'
  <2> DEFINE id == call[c].id
  <2>1. id \in Identity /\ now' = now
    BY <1>2 DEF SetRecord, TypeOK, Busy, BusyHasIdentity
  <2>2. call[c].hits = IF Lives(record[id]) THEN sets[id].life + 1 ELSE 1
    BY <1>2 DEF SetRecord, EveryHitCounts
  <2>3. /\ record'[id].hits = call[c].hits
        /\ sets'[id].life = IF Lives(record[id]) THEN sets[id].life + 1 ELSE 1
        /\ \A i \in Identity : i # id => record'[i] = record[i] /\ sets'[i] = sets[i]
    BY <1>2, <2>1 DEF SetRecord, TypeOK
  <2>4. \A d \in Call : call'[d].pc = "remember"
    BY <1>0, <1>2 DEF SetRecord, CallRecord
  <2>5. QED
    BY <2>1, <2>2, <2>3, <2>4 DEF EveryHitCounts, Lives
<1>3. ASSUME NEW c \in Call,
             LoadSession(c) \/ SetSession(c) \/ Score(c) \/ ExpireHot(c) \/ Fails(c)
      PROVE  EveryHitCounts'
  <2>1. UNCHANGED <<now, record, sets>>
    BY <1>3 DEF LoadSession, SetSession, Score, ExpireHot, Fails, history
  <2>2. \A d \in Call : /\ call'[d].id = call[d].id /\ call'[d].hits = call[d].hits
                        /\ call'[d].pc \in {"session", "record"} =>
                             call[d].pc \in {"session", "record"}
    <3>1. CASE LoadSession(c)
      BY <3>1 DEF LoadSession, TypeOK
    <3>2. CASE SetSession(c) \/ Score(c) \/ ExpireHot(c) \/ Fails(c)
      <4>1. PICK step \in {"score", "expire", "done", "failed"} :
              call' = [call EXCEPT ![c].pc = step]
        BY <3>2 DEF SetSession, Score, ExpireHot, Fails
      <4>2. QED
        BY <1>0, <4>1 DEF CallRecord
    <3>3. QED
      BY <1>3, <3>1, <3>2
  <2>3. QED
    BY <2>1, <2>2 DEF EveryHitCounts, Lives
<1>4. CASE Tick /\ Idle
  <2>1. UNCHANGED <<record, sets, call>> /\ now' = now + 1 /\ now \in Nat
        /\ \A id \in Identity : record[id].exp \in Nat
    BY <1>4 DEF Tick, history, TypeOK
  <2>2. \A d \in Call : call'[d].pc \notin {"session", "record"}
    BY <1>4, <2>1 DEF Idle, Busy
  <2>3. \A id \in Identity : Lives(record[id])' => Lives(record[id])
    BY <2>1 DEF Lives
  <2>4. QED
    BY <2>1, <2>2, <2>3 DEF EveryHitCounts
<1>5. CASE UNCHANGED vars
  BY <1>5 DEF vars, history, EveryHitCounts, Lives
<1>6. QED
  BY <1>1, <1>2, <1>3, <1>4, <1>5 DEF BriefNext, Step

\* Without concurrency a prefix that was stored as often as the threshold says in
\* one life is hot, whatever fails.
THEOREM OftenIsHot ==
  ASSUME NEW only, Call = {only}
  PROVE  BriefSpec => []OftenMeansHot
<1>1. Init => TypeOK /\ BusyHasIdentity /\ EveryHitCounts
  <2>1. Init => EveryHitCounts
    BY DEF Init, NewCall, EveryHitCounts, Lives
  <2>2. QED
    BY <2>1, InitTypeOK
<1>2. TypeOK /\ BusyHasIdentity /\ EveryHitCounts /\ [BriefNext]_vars
        => TypeOK' /\ BusyHasIdentity' /\ EveryHitCounts'
  <2>1. BriefNext => Next
    BY DEF BriefNext, Next
  <2>2. QED
    BY <2>1, NextTypeOK, NextCounts
<1>3. EveryHitCounts => OftenMeansHot
  BY DEF EveryHitCounts, OftenMeansHot, Hot
<1>4. QED
  BY <1>1, <1>2, <1>3, PTL DEF BriefSpec
=============================================================================
