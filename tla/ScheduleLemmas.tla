---------------------------- MODULE ScheduleLemmas ----------------------------
(***************************************************************************)
(* What Schedules computes, for every value of its constants: types, and   *)
(* the facts about next datetimes that the program relies on.              *)
(***************************************************************************)
EXTENDS Schedules, FiniteSetTheorems, TLAPS

\* Whatever is asked of a schedule is an instant it can represent, nothing,
\* or a panic: Schedule::next has no other outcome.
LEMMA NextType ==
  ASSUME NEW s \in AnySchedule, NEW n \in Nat
  PROVE  ScheduleNext(s, n) \in Instant \cup {NoTime, Panic}
<1>1. CASE s \in Delayed
  BY <1>1 DEF Delayed, ScheduleNext, DelayedNext
<1>2. CASE s \in Interval
  <2>1. /\ s.kind = "Interval"
        /\ s.first_transmission \in Nat
        /\ s.interval \in Nat
    BY <1>2 DEF Interval, Instant
  <2>2. s.interval * n \in Nat
    BY <2>1
  <2>3. s.first_transmission + s.interval * n \in Nat
    BY <2>1, <2>2
  <2>4. CheckedInstant(s.first_transmission + s.interval * n)
          \in Instant \cup {Panic}
    BY <2>3, InstantAssumption DEF CheckedInstant, Instant
  <2> QED
    BY <2>1, <2>4 DEF ScheduleNext, IntervalNext
<1>3. CASE s \in Cron
  <2>1. /\ s.kind = "Cron"
        /\ s.expression \subseteq Instant
    BY <1>3 DEF Cron
  <2>2. NthInstant(FiringTimes(s), n) \in Instant \cup {NoTime}
    BY <2>1 DEF NthInstant, IsNth, FiringTimes
  <2> QED
    BY <2>1, <2>2 DEF ScheduleNext, CronNext
<1> QED
  BY <1>1, <1>2, <1>3 DEF AnySchedule

\* Transmission::new never panics.
LEMMA InitialNextType ==
  ASSUME NEW s \in AnySchedule
  PROVE  InitialNext(s) \in Instant \cup {NoTime}
<1>1. CASE s \in Delayed
  BY <1>1 DEF Delayed, InitialNext
<1>2. CASE s \in Interval
  BY <1>2 DEF Interval, InitialNext
<1>3. CASE s \in Cron
  <2>1. /\ s.kind = "Cron"
        /\ s.expression \subseteq Instant
    BY <1>3 DEF Cron
  <2>2. NthInstant(FiringTimes(s), 0) \in Instant \cup {NoTime}
    BY <2>1 DEF NthInstant, IsNth, FiringTimes
  <2> QED
    BY <2>1, <2>2 DEF InitialNext
<1> QED
  BY <1>1, <1>2, <1>3 DEF AnySchedule

\* The datetime in the first row of a transmission is the one Schedule::next
\* gives for its first message, unless the schedule is planned zero times.
THEOREM InitialNextAgrees ==
  ASSUME NEW s \in AnySchedule,
         s.kind # "Delayed" => s.iterate # 0
  PROVE  InitialNext(s) = ScheduleNext(s, 0)
<1>1. CASE s \in Delayed
  BY <1>1 DEF Delayed, InitialNext, ScheduleNext, DelayedNext
<1>2. CASE s \in Interval
  <2>1. /\ s.kind = "Interval"
        /\ s.first_transmission \in 0 .. MaxInstant
        /\ s.interval \in Nat
        /\ s.iterate = Infinitely \/ s.iterate \in Nat \ {0}
    BY <1>2 DEF Interval, Instant, Iterate
  <2>2. ~IsExhausted(s.iterate, 0)
    BY <2>1 DEF IsExhausted
  <2>3. s.first_transmission + s.interval * 0 = s.first_transmission
    BY <2>1
  <2>4. CheckedInstant(s.first_transmission) = s.first_transmission
    BY <2>1, InstantAssumption DEF CheckedInstant
  <2> QED
    BY <2>1, <2>2, <2>3, <2>4 DEF InitialNext, ScheduleNext, IntervalNext
<1>3. CASE s \in Cron
  <2>1. /\ s.kind = "Cron"
        /\ s.iterate = Infinitely \/ s.iterate \in Nat \ {0}
    BY <1>3 DEF Cron, Iterate
  <2>2. ~IsExhausted(s.iterate, 0)
    BY <2>1 DEF IsExhausted
  <2> QED
    BY <2>1, <2>2 DEF InitialNext, ScheduleNext, CronNext
<1> QED
  BY <1>1, <1>2, <1>3 DEF AnySchedule

\* An instant that NthInstant answers has the number asked for.
LEMMA NthIsNth ==
  ASSUME NEW S, NEW m \in Nat, NthInstant(S, m) \in Instant
  PROVE  IsNth(S, m, NthInstant(S, m))
<1>1. NoTime \notin Instant
  BY SentinelAssumption DEF Instant
<1>2. \E t \in S : IsNth(S, m, t)
  BY <1>1, Zenon DEF NthInstant
<1> QED
  BY <1>2, Zenon DEF NthInstant

\* The elements of a set of instants are counted off in time order.
LEMMA NthIncreases ==
  ASSUME NEW S \in SUBSET Instant, NEW n \in Nat,
         NthInstant(S, n) \in Instant, NthInstant(S, n + 1) \in Instant
  PROVE  NthInstant(S, n) < NthInstant(S, n + 1)
<1> DEFINE t == NthInstant(S, n)
           u == NthInstant(S, n + 1)
           Earlier(x) == {v \in S : v < x}
<1>1. /\ t \in S
      /\ Cardinality(Earlier(t)) = n
  BY NthIsNth, Zenon DEF IsNth
<1>2. /\ u \in S
      /\ Cardinality(Earlier(u)) = n + 1
  <2>1. n + 1 \in Nat
    OBVIOUS
  <2> QED
    BY <2>1, NthIsNth, Zenon DEF IsNth
<1>3. SUFFICES ASSUME ~(t < u) PROVE FALSE
  OBVIOUS
<1>4. Earlier(u) \subseteq Earlier(t)
  <2>1. S \subseteq Int /\ t \in Int /\ u \in Int
    BY <1>1, <1>2, InstantAssumption DEF Instant
  <2>2. ASSUME NEW x \in Int, NEW y \in Int, NEW v \in Int, ~(x < y), v < y
        PROVE  v < x
    BY <2>2
  <2> QED
    BY <1>3, <2>1, <2>2, Zenon
<1>5. IsFiniteSet(Earlier(t))
  <2>1. IsFiniteSet(Instant)
    BY FS_Interval, InstantAssumption DEF Instant
  <2> QED
    BY <2>1, FS_Subset
<1>6. Cardinality(Earlier(u)) <= Cardinality(Earlier(t))
  BY <1>4, <1>5, FS_Subset
<1> QED
  BY <1>1, <1>2, <1>6

\* The occurrences of a schedule that passed validation come strictly later
\* one after the other.  It is the bound on the interval in validate_schedule
\* that keeps an interval from firing again at the same instant.
THEOREM OccurrencesIncrease ==
  ASSUME NEW s \in AnySchedule, NEW now \in Int, IsValidSchedule(now, s),
         NEW n \in Nat,
         ScheduleNext(s, n) \in Instant, ScheduleNext(s, n + 1) \in Instant
  PROVE  ScheduleNext(s, n) < ScheduleNext(s, n + 1)
<1>1. CASE s \in Delayed
  <2>1. ScheduleNext(s, n + 1) = NoTime
    BY <1>1 DEF Delayed, ScheduleNext, DelayedNext
  <2> QED
    BY <2>1, SentinelAssumption DEF Instant
<1>2. CASE s \in Interval
  <2> DEFINE at(k) == s.first_transmission + s.interval * k
  <2>1. /\ s.kind = "Interval"
        /\ s.first_transmission \in Nat
        /\ s.interval \in Nat \ {0}
    BY <1>2, ValidationAssumption DEF Interval, Instant, IsValidSchedule
  <2>2. ASSUME NEW k \in Nat, ScheduleNext(s, k) \in Instant
        PROVE  ScheduleNext(s, k) = at(k)
    BY <2>1, <2>2, SentinelAssumption
       DEF ScheduleNext, IntervalNext, CheckedInstant, Instant
  <2>3. at(n + 1) = at(n) + s.interval
    <3>1. s.interval * (n + 1) = s.interval * n + s.interval
      BY <2>1
    <3>2. s.interval * n \in Nat
      BY <2>1
    <3> QED
      BY <2>1, <3>1, <3>2
  <2>4. at(n) \in Int
    BY <2>1
  <2> QED
    BY <2>1, <2>2, <2>3, <2>4
<1>3. CASE s \in Cron
  <2>1. /\ s.kind = "Cron"
        /\ FiringTimes(s) \subseteq Instant
    BY <1>3 DEF Cron, FiringTimes
  <2>2. ASSUME NEW k \in Nat, ScheduleNext(s, k) \in Instant
        PROVE  ScheduleNext(s, k) = NthInstant(FiringTimes(s), k)
    BY <2>1, <2>2, SentinelAssumption DEF ScheduleNext, CronNext, Instant
  <2> QED
    BY <2>1, <2>2, NthIncreases
<1> QED
  BY <1>1, <1>2, <1>3 DEF AnySchedule
=============================================================================
