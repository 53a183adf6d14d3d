------------------------ MODULE MCMonitoredScheduler ------------------------
(***************************************************************************)
(* Instances of MonitoredScheduler for TLC.                                *)
(***************************************************************************)
EXTENDS MonitoredScheduler, TLC

IntervalFrom(t, interval, iterate) ==
  [kind |-> "Interval", first_transmission |-> t, interval |-> interval,
   iterate |-> iterate]

\* Two that never end; the second has one occurrence within the calendar.
EndlessOnes == {IntervalFrom(0, 1, Infinitely), IntervalFrom(1, 2, Infinitely)}

Symmetry == Permutations(Ids) \cup Permutations(Replicas)

ForwardClock == {0, 1}
=============================================================================
