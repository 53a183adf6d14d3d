------------------------- MODULE MCPostgresScheduler -------------------------
(***************************************************************************)
(* Instances of PostgresScheduler for TLC.                                 *)
(***************************************************************************)
EXTENDS PostgresScheduler, TLC

DelayedAt(t) == [kind |-> "Delayed", transmit_at |-> t]

IntervalFrom(t, interval, iterate) ==
  [kind |-> "Interval", first_transmission |-> t, interval |-> interval,
   iterate |-> iterate]

CronAfter(t, expression, iterate) ==
  [kind |-> "Cron", first_transmission_after |-> t,
   expression |-> expression, iterate |-> iterate]

\* One that ends after one message, one that never ends.
OneOffAndEndless == {DelayedAt(1), IntervalFrom(0, 1, Infinitely)}

OneDelayed == {DelayedAt(0)}

\* Every kind, ended by its count, by its expression, by the calendar or not
\* at all; planned zero times; matching nothing; and beyond the bound.
AllSchedules ==
  {DelayedAt(t) : t \in 0 .. 2}
    \cup {IntervalFrom(t, d, n) : t \in 0 .. 1, d \in 1 .. 3,
                                  n \in {0, 1, 2, Infinitely}}
    \cup {CronAfter(0, e, n) : e \in {{}, {0, 2}, {1, 2, 3}},
                               n \in {0, 2, Infinitely}}

Symmetry == Permutations(Ids) \cup Permutations(Replicas)

ForwardClock == {0, 1}

AnyClock == {-1, 0, 1}
=============================================================================
