------------------------------- MODULE Metrics -------------------------------
(***************************************************************************)
(* The counters of src/metrics.rs: one family, `procedure`, with a counter *)
(* for every label that was counted at least once.                         *)
(***************************************************************************)
EXTENDS Integers, FiniteSets

\* The variants of MetricEvent, and of Procedure.
Procedures ==
  {"Scheduled", "Polled", "Transmitted", "ScheduleStateSaved", "Rescheduled"}

MetricEvent == Procedures \X BOOLEAN

Event(procedure, success) == <<procedure, success>>

\* Mutant: a failure is labelled a success.
AlwaysSuccess(event) == <<event[1], "Success">>

\* ResultLabel::from
LabelOf(event) == <<event[1], IF event[2] THEN "Success" ELSE "Failure">>

\* The family before anything was counted.
NoCounters == [l \in {} |-> 0]

Value(counters, label) ==
  IF label \in DOMAIN counters THEN counters[label] ELSE 0

\* count, for all of a set of events: get_or_create and inc.
Counted(counters, events) ==
  LET labels == {LabelOf(e) : e \in events}
  IN  [l \in DOMAIN counters \cup labels |->
         Value(counters, l) + Cardinality({e \in events : LabelOf(e) = l})]

HasFailure(counters) == \E l \in DOMAIN counters : l[2] = "Failure"
=============================================================================
