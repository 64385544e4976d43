------------------------------ MODULE JobBoard ------------------------------
(***************************************************************************)
(* What the asynchronous summary queue promises, without streams, cursors, *)
(* consumer groups or worker goroutines: a job is submitted once, taken at *)
(* most once, in submission order; a page of a taken job may get the       *)
(* summary only if the content hash in the page key is the job's; the      *)
(* pages are written in the order of the job's page_refs; and a job counts *)
(* as done only when every page it names has been written.                 *)
(***************************************************************************)
EXTENDS Naturals, Sequences

CONSTANT Job          \* the jobs that may be submitted: [hash, refs, ...]

VARIABLES
  jobs,               \* every job ever submitted, in order
  phase,              \* phase[i] of jobs[i]: "queued", "taken" or "done"
  written             \* pairs <<i, page key>>: job i stored its summary there

vars == <<jobs, phase, written>>

Written(i, refs, n) == \A k \in 1..n : <<i, refs[k]>> \in written

Init ==
  /\ jobs = << >>
  /\ phase = << >>
  /\ written = {}

Submit(job) ==
  /\ jobs' = Append(jobs, job)
  /\ phase' = Append(phase, "queued")
  /\ UNCHANGED written

\* The jobs up to n are taken: at least one of them is new, none is skipped.
Take(n) ==
  /\ n \in DOMAIN phase
  /\ phase[n] = "queued"
  /\ phase' = [i \in DOMAIN phase |->
                 IF i <= n /\ phase[i] = "queued" THEN "taken" ELSE phase[i]]
  /\ UNCHANGED <<jobs, written>>

Write(i, k) ==
  /\ phase[i] = "taken"
  /\ jobs[i].refs[k].hash = jobs[i].hash
  /\ Written(i, jobs[i].refs, k - 1)
  /\ written' = written \cup {<<i, jobs[i].refs[k]>>}
  /\ UNCHANGED <<jobs, phase>>

Finish(i) ==
  /\ phase[i] = "taken"
  /\ Written(i, jobs[i].refs, Len(jobs[i].refs))
  /\ phase' = [phase EXCEPT ![i] = "done"]
  /\ UNCHANGED <<jobs, written>>

Next ==
  \/ \E job \in Job : Submit(job)
  \/ \E i \in DOMAIN jobs : \/ Take(i)
                            \/ \E k \in DOMAIN jobs[i].refs : Write(i, k)
                            \/ Finish(i)

Spec == Init /\ [][Next]_vars
=============================================================================
