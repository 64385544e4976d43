------------------------------- MODULE Pager --------------------------------
(***************************************************************************)
(* What the page store promises, without Redis commands, SETNX and EXPIRE, *)
(* summary keys, old payloads or workers: a page holds one text for as     *)
(* long as it lives, and every use of it lets it live for a whole TTL; a   *)
(* reader gets, key by key and in order, the page or a summary that fits   *)
(* it, and misses only what is not there.                                  *)
(***************************************************************************)
EXTENDS Naturals, Sequences

CONSTANTS
  Key,           \* page keys
  Text,          \* what a page may hold
  Reader,        \* who reads
  Asked,         \* lists of keys a reader may ask for
  PageTTL

VARIABLES
  now,           \* the clock
  page,          \* page[k]: [text, exp]; it lives until the clock is at exp
  asked,         \* asked[r]: the keys reader r asked for
  got,           \* got[r]: the answers so far
  outcome        \* outcome[r]: "none", "asking", "done", "missing" or "failed"

readerVars == <<asked, got, outcome>>
vars == <<now, page, readerVars>>

Lives(k) == now < page[k].exp
Wanted(r) == asked[r][Len(got[r]) + 1]

FromPage(k) == [key |-> k, kind |-> "page", text |-> page[k].text]
FromSummary(k) == [key |-> k, kind |-> "summary", fits |-> TRUE]

Init ==
  /\ now \in Nat
  /\ page \in [Key -> [text : Text, exp : {0}]]
  /\ asked = [r \in Reader |-> << >>]
  /\ got = [r \in Reader |-> << >>]
  /\ outcome = [r \in Reader |-> "none"]

Tick ==
  /\ now' = now + 1
  /\ UNCHANGED <<page, readerVars>>

Store(k, t) ==
  /\ ~Lives(k)
  /\ page' = [page EXCEPT ![k] = [text |-> t, exp |-> now + PageTTL]]
  /\ UNCHANGED <<now, readerVars>>

Extend(k) ==
  /\ Lives(k)
  /\ page' = [page EXCEPT ![k].exp = now + PageTTL]
  /\ UNCHANGED <<now, readerVars>>

Ask(r, keys) ==
  /\ outcome[r] = "none"
  /\ asked' = [asked EXCEPT ![r] = keys]
  /\ outcome' = [outcome EXCEPT ![r] = IF keys = << >> THEN "done" ELSE "asking"]
  /\ UNCHANGED <<now, page, got>>

Answer(r, answer) ==
  /\ got' = [got EXCEPT ![r] = Append(@, answer)]
  /\ outcome' = [outcome EXCEPT ![r] =
                   IF Len(got[r]) + 1 = Len(asked[r]) THEN "done" ELSE "asking"]
  /\ UNCHANGED <<now, page, asked>>

AnswerPage(r) ==
  /\ outcome[r] = "asking"
  /\ Lives(Wanted(r))
  /\ Answer(r, FromPage(Wanted(r)))

AnswerSummary(r) ==
  /\ outcome[r] = "asking"
  /\ Answer(r, FromSummary(Wanted(r)))

Miss(r) ==
  /\ outcome[r] = "asking"
  /\ ~Lives(Wanted(r))
  /\ outcome' = [outcome EXCEPT ![r] = "missing"]
  /\ UNCHANGED <<now, page, asked, got>>

Fail(r) ==
  /\ outcome[r] = "asking"
  /\ outcome' = [outcome EXCEPT ![r] = "failed"]
  /\ UNCHANGED <<now, page, asked, got>>

Next ==
  \/ Tick
  \/ \E k \in Key : Extend(k) \/ \E t \in Text : Store(k, t)
  \/ \E r \in Reader :
       \/ \E keys \in Asked : Ask(r, keys)
       \/ AnswerPage(r) \/ AnswerSummary(r) \/ Miss(r) \/ Fail(r)

Spec == Init /\ [][Next]_vars
=============================================================================
