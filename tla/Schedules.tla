------------------------------ MODULE Schedules ------------------------------
(***************************************************************************)
(* The pure part of src/model.rs and src/scheduler.rs: schedules, when     *)
(* their next occurrence falls, how a transmission advances after one of   *)
(* its messages was sent, and which schedules a request may carry.         *)
(*                                                                         *)
(* Time is counted in ticks.  A cron expression is the set of instants it  *)
(* matches: parsing one is the business of the cron crate.                 *)
(***************************************************************************)
EXTENDS Integers, FiniteSets

CONSTANTS
  NoTime,         \* Option::None where a next datetime is expected
  Infinitely,     \* Iterate::Infinitely
  Panic,          \* the computation of a datetime overflowed and panicked
  MaxInstant,     \* the last instant DateTime<Utc> represents
  ClockCycle,     \* clock_cycle_interval, in ticks
  MaxDelayedAge   \* MAX_DELAYED_AGE, in ticks

ASSUME InstantAssumption == MaxInstant \in Nat

ASSUME ValidationAssumption ==
  /\ ClockCycle \in Nat \ {0}      \* config::validate refuses zero
  /\ MaxDelayedAge \in Nat

ASSUME SentinelAssumption ==
  /\ NoTime \notin Nat
  /\ Panic \notin Nat
  /\ Infinitely \notin Nat
  /\ NoTime # Panic

Instant == 0 .. MaxInstant

Iterate == Nat \cup {Infinitely}

Delayed == [kind : {"Delayed"}, transmit_at : Instant]

Interval ==
  [kind : {"Interval"}, first_transmission : Instant, interval : Nat,
   iterate : Iterate]

Cron ==
  [kind : {"Cron"}, first_transmission_after : Instant,
   expression : SUBSET Instant, iterate : Iterate]

AnySchedule == Delayed \cup Interval \cup Cron

-----------------------------------------------------------------------------
(***************************************************************************)
(* Schedule::next.                                                         *)
(***************************************************************************)

\* Mutant: one message more than planned.
ExhaustedLate(iterate, count) == iterate # Infinitely /\ count > iterate

\* `match transmission_count >= repetitions` of Iterate::Times.
IsExhausted(iterate, count) == iterate # Infinitely /\ count >= iterate

\* Adding to a datetime panics past the last one that can be represented.
CheckedInstant(t) == IF t <= MaxInstant THEN t ELSE Panic

\* expression.after(&first_transmission_after), strictly later.
FiringTimes(cron) ==
  {t \in cron.expression : t > cron.first_transmission_after}

\* Iterator::nth, counting from zero, over the elements of S in time order.
IsNth(S, n, t) == t \in S /\ Cardinality({u \in S : u < t}) = n

NthInstant(S, n) ==
  IF \E t \in S : IsNth(S, n, t) THEN CHOOSE t \in S : IsNth(S, n, t)
                                 ELSE NoTime

DelayedNext(s, count) == IF count = 0 THEN s.transmit_at ELSE NoTime

IntervalNext(s, count) ==
  IF IsExhausted(s.iterate, count)
  THEN NoTime
  ELSE CheckedInstant(s.first_transmission + s.interval * count)

CronNext(s, count) ==
  IF IsExhausted(s.iterate, count)
  THEN NoTime
  ELSE NthInstant(FiringTimes(s), count)

ScheduleNext(s, count) ==
  CASE s.kind = "Delayed"  -> DelayedNext(s, count)
    [] s.kind = "Interval" -> IntervalNext(s, count)
    [] s.kind = "Cron"     -> CronNext(s, count)

-----------------------------------------------------------------------------
(***************************************************************************)
(* Transmission.  The message is left out: it is carried along unchanged,  *)
(* so the id of the transmission stands for it.                            *)
(***************************************************************************)

\* Transmission::new computes `next` from the start of the schedule, without
\* asking Schedule::next: an iterate of zero does not show here.
InitialNext(s) ==
  CASE s.kind = "Delayed"  -> s.transmit_at
    [] s.kind = "Interval" -> s.first_transmission
    [] s.kind = "Cron"     -> NthInstant(FiringTimes(s), 0)

NewTransmission(i, s) ==
  [id |-> i, schedule |-> s, next |-> InitialNext(s), transmission_count |-> 0]

\* Mutant: the next datetime is that of the message just sent.
TransmittedStale(t) ==
  [t EXCEPT !.transmission_count = @ + 1,
            !.next = ScheduleNext(t.schedule, t.transmission_count)]

\* Mutant: the message is not counted.
TransmittedUncounted(t) ==
  [t EXCEPT !.next = ScheduleNext(t.schedule, t.transmission_count + 1)]

\* Transmission::transmitted.  The caller treats next = NoTime as its error.
Transmitted(t) ==
  [t EXCEPT !.transmission_count = @ + 1,
            !.next = ScheduleNext(t.schedule, t.transmission_count + 1)]

\* Mutant: the stored datetime is believed.
RelevantByNext(t, now) == t.next \in Instant /\ t.next <= now

\* The filter of process_batch.
IsRelevant(t, now) ==
  LET due == ScheduleNext(t.schedule, t.transmission_count)
  IN  due \in Instant /\ due <= now

-----------------------------------------------------------------------------
(***************************************************************************)
(* validate_schedule.                                                      *)
(***************************************************************************)

StartOf(s) ==
  CASE s.kind = "Delayed"  -> s.transmit_at
    [] s.kind = "Interval" -> s.first_transmission
    [] s.kind = "Cron"     -> s.first_transmission_after

IsValidSchedule(now, s) ==
  /\ StartOf(s) >= now - MaxDelayedAge
  /\ s.kind = "Interval" => s.interval >= ClockCycle
=============================================================================
