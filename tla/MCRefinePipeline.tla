-------------------------- MODULE MCRefinePipeline --------------------------
(* Instances of RefinePipeline for model checking. *)
EXTENDS Exchange, TLC

CONSTANTS r1, r2

Units == {"a", "b", "c", "d", "e", "t1", "t2", "time", "nav", "ok", "tag", "main", "x", "y", "head",
          "--", "~"}
Placeholders ==
  [u \in Units |-> IF u \in {"t1", "t2"} THEN "time" ELSE u]
\* Sources: 11 is the URL of 1 with a query, 12 is 2 in capitals.
Names == 0..4 \cup {11, 12, External}
Titles == [s \in Names |-> IF s = 11 THEN 1 ELSE s]
LowerCase == [s \in Names |-> IF s = 12 THEN 2 ELSE s]
Kept == [x \in {"json", "table", "outline"} |-> 1]

\* Paging wants more than a page; the transforms and snip have triggers too.
Triggers ==
  [p \in Processor |->
     CASE p = "paging" -> PageLimit + 1
       [] p \in DOMAIN Target -> 4
       [] p = "snip" -> 5
       [] OTHER -> 0]

\* policies.yaml, and a policy that leaves the prompt to the pipeline.
Strict ==
  [steps |-> <<"paging", "collapse", "compact", "canonicalize", "json_trim",
               "table_reduce", "code_outline", "error_stack_focus", "snip",
               "auto_compact_sync", "auto_compact_async", "prefix_cache", "assemble">>,
   threshold |-> 0, head |-> 1, tail |-> 1, ratio |-> 90]
Creative ==
  [steps |-> <<"collapse", "compact", "canonicalize", "table_reduce",
               "auto_compact_sync", "auto_compact_async", "prefix_cache", "assemble">>,
   threshold |-> 8, head |-> 0, tail |-> 0, ratio |-> 100]
Bare == [steps |-> <<"paging", "sanitize", "compact">>, threshold |-> 0, head |-> 1, tail |-> 1,
         ratio |-> 0]
Labels == [steps |-> <<"canonicalize", "snip", "assemble">>, threshold |-> 0, head |-> 1,
           tail |-> 1, ratio |-> 0]
Policies == [strict |-> Strict, creative |-> Creative, bare |-> Bare, labels |-> Labels]

Chunk(id, sources, frags) ==
  [id |-> id, source |-> 0, sources |-> sources, frags |-> frags, text |-> << >>, type |-> ""]
Item(id, source, type, text) ==
  [id |-> id, source |-> source, sources |-> << >>, frags |-> << >>, text |-> text, type |-> type]
Frag(type, text) == [type |-> type, text |-> text]
Body(text) == Frag("body", text)
Say(role, text) == [role |-> role, text |-> text]
Ask(chunks, messages, budget, policy) ==
  [via |-> "grpc", system |-> << >>, messages |-> messages, rag |-> chunks,
   window |-> 0, budget |-> budget, policy |-> policy]
Post(system, messages, items, window, policy) ==
  [via |-> "http", system |-> system, messages |-> messages, rag |-> items,
   window |-> window, budget |-> 0, policy |-> policy]

\* One document that is cut in three pages, time stamps and all.
LongFrom(id, S, t) == Chunk(id, S, <<Body(<<"a", t, "b">>), Frag("log", <<"c", "c", "~", "d">>)>>)
Long(id, t) == LongFrom(id, <<1>>, t)
Noisy(id) == Chunk(id, <<2>>, <<Body(<<"nav", "ok", "e", "~", "tag", "ok">>)>>)
Copy(id, S) == Chunk(id, S, <<Body(<<"e">>)>>)
Other(S) == Chunk(3, S, <<Body(<<"d">>)>>)
\* One source: in place of a list, of a list of blanks, and next to a list.
From(c, s) == [c EXCEPT !.source = s]
Typed == Chunk(7, <<2>>, <<Frag("json", <<"a", "t1", "b">>), Frag("table", <<"a", "x", "y">>),
                         Frag("code", <<"main", "t2">>)>>)
\* Blank lines before a text, and nothing but a blank one.
Stack == Chunk(8, <<3>>, <<Frag("error-stack", <<"~", "a", "main", "b">>), Frag("log", <<"~">>)>>)
Hollow == Chunk(9, <<3>>, << >>)
\* A title, a section with a marked heading and one with an underlined one.
Manual == Chunk(1, <<2>>, <<Frag("title", <<"t1">>),
                          Body(<<"a", "head", "b", "~", "c", "--", "ok", "d">>)>>)

Talk(t) == <<Say("user", <<"b">>), Say("system", <<"a", t>>), Say("user", <<"c", "~">>)>>

Tight == Ask(<<Long(1, "t1"), Noisy(2), Stack>>, Talk("t1"), 6, "strict")
Reordered == Ask(<<Stack, Noisy(2), LongFrom(1, <<11>>, "t2")>>, Talk("t2"), 6, "strict")
Loose == Ask(<<Long(1, "t2"), Noisy(2), Typed>>, Talk("t1"), 40, "strict")
Reduced4 == Ask(<<Typed, Stack>>, <<Say("user", <<"t1">>)>>, 4, "strict")
Duplicates == Ask(<<Copy(1, <<3>>), Copy(5, <<2, 11>>), Other(<<3, 2, 1, 12>>), Copy(6, <<12>>)>>,
                  Talk("t1"), 6, "creative")
Shuffled == Ask(<<Copy(6, <<12, 0>>), Copy(5, <<1, 11, 2>>), Other(<<11, 3, 2>>), Copy(1, <<3>>)>>,
                Talk("t2"), 6, "creative")
Chat == Ask(<<Typed, Long(1, "t1"), From(Copy(4, <<0>>), 4), From(Copy(5, <<3>>), 2)>>,
            Talk("t2"), 6, "creative")
ChatLoose == Ask(<<Long(1, "t1"), Noisy(3), Typed>>, Talk("t2"), 40, "creative")
Silent == Ask(<<Hollow>>, << >>, 6, "bare")
Unprepared == Ask(<<Long(4, "t1"), Noisy(5), Hollow>>,
                  <<Say("user", <<"tag", "b">>), Say("system", <<"a", "tag">>)>>, 6, "bare")
\* Headings with room for their labels, and with none: then snip runs after all.
Roomy == Ask(<<Manual>>, <<Say("user", <<"b">>)>>, 40, "creative")
Crowded == Ask(<<Chunk(1, <<2>>, <<Body(<<"head", "--", "a", "head">>),
                                 Frag("log", <<"b", "c", "d">>)>>)>>,
               << >>, 9, "labels")

\* From outside: texts without IDs, sources or types, one of them blank; types that
\* are known and one that is not; the system apart from the messages or alone; a
\* budget that is derived from the model's window.
Outside == Post(<<"a", "t1">>, Talk("t1"),
                <<Item(0, 0, "", <<"e">>), Item(0, 0, "", <<"~">>), Item(0, 11, "log", <<"b", "t1", "c", "d">>),
                  Item(4, 0, "error-stack", <<"~", "a", "main", "b">>), Item(5, 0, "LOG", <<"t1", "x">>)>>,
                7, "")
Alone == Post(<<"a", "~">>, << >>, << >>, 6, "creative")
\* A text in place of fragments, and a source in place of sources.
Plain == [Ask(<<Item(2, 3, "", <<"a", "t1">>)>>, <<>>, 0, "creative")
            EXCEPT !.system = <<"b">>, !.window = 4]
\* Refused: no policy, no budget, nothing said.
Unknown == Ask(<< >>, Talk("t1"), 6, "lenient")
Unbounded == Ask(<< >>, Talk("t1"), 0, "strict")
Mute == Post(<<"~">>, << >>, << >>, 6, "")

Clients == {Tight, Reordered, Loose, Reduced4, Duplicates, Shuffled, Chat, ChatLoose,
            Silent, Unprepared, Roomy, Crowded, Outside, Alone, Plain, Unknown, Unbounded, Mute}

\* Two editions of a document that part after their first page.
TwoEditions == {Ask(<<Chunk(1, <<1>>, <<Body(<<"a", "b", "c", "d">>)>>),
                   Chunk(2, <<1>>, <<Body(<<"a", "b", "c", "e">>)>>)>>,
                 Talk("t1"), b, "strict") : b \in {6, 40}}

\* What paging takes holds of Clients; the two editions have the same first page, and
\* not the same pages.
ASSUME ClientsAssumption ==
  Sent = Clients => LabelsApart /\ PagesFirst /\ KeysTell /\ CopiesTell
ASSUME EditionsAssumption ==
  Sent = TwoEditions => LabelsApart /\ PagesFirst /\ KeysTell /\ ~CopiesTell

RequestSymmetry == Permutations(Request)
=============================================================================
