----------------------------- MODULE Dashboard ------------------------------
(***************************************************************************)
(* The dashboard (dashboard_service.go): a page of the browser shows a     *)
(* snapshot of Redis or the traces in Tempo.                               *)
(***************************************************************************)
EXTENDS Snapshot, Traces

VARIABLE open    \* what the browser shows: "store" or "traces"

vars == <<snapVars, traceVars, open>>

SomeStore == CHOOSE s \in Stores : TRUE
SomeTrace == CHOOSE t \in Trace : TRUE

\* What is not looked at stays as it is.
Init ==
  \/ open = "store" /\ SnapInit /\ trace = SomeTrace /\ NothingYet
  \/ open = "traces" /\ TraceInit /\ Holds(SomeStore) /\ Idle /\ resizing = FALSE

Next ==
  \/ open = "store" /\ SnapNext /\ UNCHANGED <<traceVars, open>>
  \/ open = "traces" /\ TraceNext /\ UNCHANGED <<snapVars, open>>

Spec == Init /\ [][Next]_vars

\* The types.
TypeOK == SnapTypeOK /\ TraceTypeOK
=============================================================================
