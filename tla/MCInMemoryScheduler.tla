------------------------- MODULE MCInMemoryScheduler -------------------------
(***************************************************************************)
(* Instances of InMemoryScheduler for TLC.                                 *)
(***************************************************************************)
EXTENDS InMemoryScheduler, TLC

IntervalFrom(t, interval, iterate) ==
  [kind |-> "Interval", first_transmission |-> t, interval |-> interval,
   iterate |-> iterate]

CronAfter(t, expression, iterate) ==
  [kind |-> "Cron", first_transmission_after |-> t,
   expression |-> expression, iterate |-> iterate]

\* Ended by the calendar, ended by its count, and planned zero times.
Mixed ==
  {IntervalFrom(0, 1, Infinitely), CronAfter(0, {1, 2}, 2),
   IntervalFrom(0, 1, 0)}
=============================================================================
