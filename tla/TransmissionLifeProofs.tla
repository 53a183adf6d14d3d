------------------------ MODULE TransmissionLifeProofs ------------------------
(***************************************************************************)
(* A transmission goes through the occurrences of its schedule, each once  *)
(* and in order, and ends after the last: for every schedule, calendar and *)
(* number of repetitions but zero.                                         *)
(***************************************************************************)
EXTENDS TransmissionLife, ScheduleLemmas

-----------------------------------------------------------------------------
(***************************************************************************)
(* Counting instants.                                                      *)
(***************************************************************************)

\* There is a first among natural numbers.
LEMMA Smallest ==
  ASSUME NEW T, T \subseteq Nat, T # {}
  PROVE  \E x \in T : \A y \in T : x <= y
<1> DEFINE I == {0 .. x : x \in T}
           R == StrictSubsetOrdering(Nat)
<1>1. I \subseteq FiniteSubsetsOf(Nat) /\ I # {}
  <2>1. ASSUME NEW x \in T
        PROVE  0 .. x \in FiniteSubsetsOf(Nat)
    <3>1. IsFiniteSet(0 .. x)
      BY FS_Interval
    <3>2. 0 .. x \subseteq Nat
      OBVIOUS
    <3> QED
      BY <3>1, <3>2 DEF FiniteSubsetsOf
  <2> QED
    BY <2>1
<1>2. PICK i \in I : \A j \in I : <<j, i>> \notin R
  BY <1>1, FS_StrictSubsetOrderingWellFounded, WFMin
<1>3. PICK x \in T : i = 0 .. x
  OBVIOUS
<1>4. ASSUME NEW y \in T, y < x
      PROVE  FALSE
  <2>1. 0 .. y \in SUBSET Nat /\ 0 .. x \in SUBSET Nat
    OBVIOUS
  <2>2. 0 .. y \subseteq 0 .. x /\ 0 .. y # 0 .. x
    <3>1. x \in 0 .. x /\ x \notin 0 .. y
      BY <1>4
    <3> QED
      BY <1>4, <3>1
  <2>3. <<0 .. y, 0 .. x>> \in R
    BY <2>1, <2>2 DEF StrictSubsetOrdering
  <2> QED
    BY <1>2, <1>3, <2>3
<1> QED
  BY <1>4

\* A set of instants can be counted.
LEMMA InstantsFinite ==
  ASSUME NEW S \in SUBSET Instant
  PROVE  /\ S \subseteq Nat
         /\ IsFiniteSet(S) /\ Cardinality(S) \in Nat
         /\ \A t : /\ Before(S, t) \in SUBSET Instant
                   /\ IsFiniteSet(Before(S, t))
                   /\ Cardinality(Before(S, t)) \in Nat
<1>1. IsFiniteSet(Instant) /\ Instant \subseteq Nat
  BY FS_Interval, InstantAssumption DEF Instant
<1>2. \A U \in SUBSET Instant : IsFiniteSet(U) /\ Cardinality(U) \in Nat
  BY <1>1, FS_Subset, FS_CardinalityType
<1>3. \A t : Before(S, t) \in SUBSET Instant
  BY DEF Before
<1> QED
  BY <1>1, <1>2, <1>3

\* As many lie before a later instant, and the earlier one besides.
LEMMA LaterCounts ==
  ASSUME NEW S \in SUBSET Instant, NEW t \in S, NEW u \in S, t < u
  PROVE  Cardinality(Before(S, t)) + 1 <= Cardinality(Before(S, u))
<1>1. S \subseteq Nat /\ t \in Nat /\ u \in Nat
  BY InstantsFinite
<1>2. t \notin Before(S, t)
  BY <1>1 DEF Before
<1>3. Before(S, t) \cup {t} \subseteq Before(S, u)
  <2>1. ASSUME NEW w \in S, w < t
        PROVE  w < u
    <3>1. w \in Nat
      BY <1>1
    <3> QED
      BY <1>1, <2>1, <3>1
  <2> QED
    BY <2>1 DEF Before
<1>4. Cardinality(Before(S, t) \cup {t}) = Cardinality(Before(S, t)) + 1
  BY <1>2, FS_AddElement, InstantsFinite
<1> QED
  BY <1>3, <1>4, FS_Subset, InstantsFinite

\* What follows the n-th is the one of the next number.
LEMMA NthFollows ==
  ASSUME NEW S \in SUBSET Instant, NEW n \in Nat, NEW t, IsNth(S, n, t),
         NEW u \in S, t < u
  PROVE  \E v \in S : IsNth(S, n + 1, v)
<1> DEFINE Later == {v \in S : t < v}
<1>1. t \in S /\ S \subseteq Nat
  BY InstantsFinite DEF IsNth
<1>2. Later \subseteq Nat /\ u \in Later
  BY <1>1
<1>3. PICK v \in Later : \A w \in Later : v <= w
  BY <1>2, Smallest
<1>4. Before(S, v) = Before(S, t) \cup {t}
  <2>1. ASSUME NEW w \in S
        PROVE  w < v <=> w < t \/ w = t
    BY <1>1, <1>3
  <2> QED
    BY <1>1, <2>1 DEF Before
<1>5. t \notin Before(S, t) /\ IsFiniteSet(Before(S, t))
  BY <1>1, InstantsFinite DEF Before
<1>6. Cardinality(Before(S, v)) = Cardinality(Before(S, t)) + 1
  BY <1>4, <1>5, FS_AddElement
<1>7. Cardinality(Before(S, t)) = n
  BY DEF IsNth, Before
<1>8. Cardinality({w \in S : w < v}) = n + 1
  BY <1>6, <1>7 DEF Before
<1> QED
  BY <1>3, <1>8 DEF IsNth

-----------------------------------------------------------------------------
(***************************************************************************)
(* The planned ones.                                                       *)
(***************************************************************************)

\* Those before one that is planned are all planned.
LEMMA PlannedNth ==
  ASSUME NEW S \in SUBSET Instant, NEW n \in Nat, NEW iterate \in Iterate,
         ~IsExhausted(iterate, n), NEW t, IsNth(S, n, t)
  PROVE  /\ t \in Planned(S, iterate)
         /\ Before(Planned(S, iterate), t) = Before(S, t)
         /\ Cardinality(Before(Planned(S, iterate), t)) = n
<1>1. t \in S /\ Cardinality(Before(S, t)) = n
  BY DEF IsNth, Before
<1>2. iterate = Infinitely \/ (iterate \in Nat /\ n < iterate)
  BY DEF IsExhausted, Iterate
<1>3. t \in Planned(S, iterate)
  BY <1>1, <1>2 DEF Planned
<1>4. ASSUME NEW w \in S, w < t
      PROVE  w \in Planned(S, iterate)
  <2>1. Cardinality(Before(S, w)) + 1 <= n
    BY <1>1, <1>4, LaterCounts
  <2>2. Cardinality(Before(S, w)) \in Nat
    BY InstantsFinite
  <2>3. iterate = Infinitely \/ Cardinality(Before(S, w)) < iterate
    BY <1>2, <2>1, <2>2
  <2> QED
    BY <2>3 DEF Planned
<1>5. Before(Planned(S, iterate), t) = Before(S, t)
  BY <1>4 DEF Before, Planned
<1> QED
  BY <1>1, <1>3, <1>5

\* When the n-th is the last one planned, or the last one, n + 1 are planned.
LEMMA LastPlanned ==
  ASSUME NEW S \in SUBSET Instant, NEW n \in Nat, NEW iterate \in Iterate,
         ~IsExhausted(iterate, n), NEW t, IsNth(S, n, t),
         IsExhausted(iterate, n + 1) \/ \A u \in S : ~(t < u)
  PROVE  Cardinality(Planned(S, iterate)) = n + 1
<1> DEFINE P == Planned(S, iterate)
<1>1. /\ t \in P /\ Before(P, t) = Before(S, t)
      /\ Cardinality(Before(P, t)) = n
  BY PlannedNth
<1>2. /\ t \in S /\ S \subseteq Nat /\ Cardinality(Before(S, t)) = n
  BY InstantsFinite DEF IsNth, Before
<1>3. P \in SUBSET S
  BY DEF Planned
<1>4. ASSUME NEW u \in P, t < u
      PROVE  FALSE
  <2>1. n + 1 <= Cardinality(Before(S, u))
    BY <1>2, <1>3, <1>4, LaterCounts
  <2>2. Cardinality(Before(S, u)) \in Nat
    BY InstantsFinite
  <2>3. iterate # Infinitely /\ n + 1 >= iterate /\ iterate \in Nat
    BY <1>3, <1>4 DEF IsExhausted, Iterate
  <2>4. Cardinality(Before(S, u)) < iterate
    BY <2>3 DEF Planned
  <2> QED
    BY <2>1, <2>2, <2>3, <2>4
<1>5. P = Before(P, t) \cup {t}
  <2>1. ASSUME NEW w \in P
        PROVE  w < t \/ w = t
    <3>1. w \in Nat /\ t \in Nat
      BY <1>2, <1>3
    <3>2. ~(t < w)
      BY <1>4, <2>1
    <3> QED
      BY <3>1, <3>2
  <2> QED
    BY <1>1, <2>1 DEF Before
<1>6. t \notin Before(P, t) /\ IsFiniteSet(Before(P, t))
  BY <1>1, <1>2, InstantsFinite DEF Before
<1> HIDE DEF P
<1>7. Cardinality(P) = n + 1
  BY <1>1, <1>5, <1>6, FS_AddElement
<1> QED
  BY <1>7 DEF P

-----------------------------------------------------------------------------
(***************************************************************************)
(* Intervals.                                                              *)
(***************************************************************************)

\* What leaves no remainder is a multiple.
LEMMA Multiple ==
  ASSUME NEW d \in Nat \ {0}, NEW x \in Nat, x % d = 0
  PROVE  \E q \in Nat : x = d * q
<1>1. x \div d \in Nat
  OBVIOUS
<1>2. x = d * (x \div d) + (x % d)
  OBVIOUS
<1>3. x = d * (x \div d)
  BY <1>1, <1>2
<1> QED
  BY <1>1, <1>3

\* The instants an interval fires at, were it not for its iterate.
Grid(s) ==
  {t \in Instant : /\ t >= s.first_transmission
                   /\ (t - s.first_transmission) % s.interval = 0}

\* The n-th of them is n intervals after the first.
LEMMA GridNth ==
  ASSUME NEW s \in Interval, s.interval # 0, NEW n \in Nat,
         s.first_transmission + s.interval * n \in Instant
  PROVE  IsNth(Grid(s), n, s.first_transmission + s.interval * n)
<1> DEFINE f == s.first_transmission
           d == s.interval
           t == f + d * n
           Earlier == {u \in Grid(s) : u < t}
           at == [k \in 1 .. n |-> f + d * (k - 1)]
<1>1. f \in Nat /\ d \in Nat \ {0} /\ Instant = 0 .. MaxInstant /\ MaxInstant \in Nat
  BY InstantAssumption DEF Interval, Instant
<1>2. Grid(s) = {u \in Instant : u >= f /\ (u - f) % d = 0}
  BY DEF Grid
<1> HIDE DEF f, d
<1>3. \A k \in Nat : d * k \in Nat /\ (d * k) % d = 0
  BY <1>1
<1>4. \A j, k \in Nat : (j < k <=> d * j < d * k) /\ (d * j = d * k => j = k)
  <2>1. ASSUME NEW j \in Nat, NEW k \in Nat
        PROVE  (j < k <=> d * j < d * k) /\ (d * j = d * k => j = k)
    BY <1>1
  <2> QED
    BY <2>1
<1>5. \A x \in Nat : x % d = 0 => \E k \in Nat : x = d * k
  BY <1>1, Multiple
<1>6. \A k \in Nat : f + d * k \in Nat /\ (f + d * k) - f = d * k /\ f + d * k >= f
  <2>1. ASSUME NEW x \in Nat
        PROVE  f + x \in Nat /\ (f + x) - f = x /\ f + x >= f
    BY <1>1
  <2> QED
    BY <1>3, <2>1
<1>7. \A k \in Nat : f + d * k \in Instant => f + d * k \in Grid(s)
  BY <1>2, <1>3, <1>6
<1>8. ASSUME NEW k \in 1 .. n
      PROVE  k - 1 \in Nat /\ at[k] = f + d * (k - 1) /\ at[k] \in Earlier
  <2>1. k - 1 \in Nat /\ k - 1 < n
    OBVIOUS
  <2>2. d * (k - 1) < d * n /\ d * (k - 1) \in Nat /\ d * n \in Nat
    BY <1>3, <1>4, <2>1
  <2>3. f + d * (k - 1) < t /\ t \in Instant
    BY <1>1, <2>2 DEF f, d
  <2>4. f + d * (k - 1) \in Instant
    BY <1>1, <1>6, <2>1, <2>3
  <2> QED
    BY <1>7, <2>1, <2>3, <2>4
<1>9. at \in Injection(1 .. n, Earlier)
  <2>1. at \in [1 .. n -> Earlier]
    BY <1>8
  <2>2. ASSUME NEW j \in 1 .. n, NEW k \in 1 .. n, at[j] = at[k]
        PROVE  j = k
    <3>1. /\ j - 1 \in Nat /\ k - 1 \in Nat
          /\ f + d * (j - 1) = f + d * (k - 1)
      BY <1>8, <2>2
    <3>2. d * (j - 1) = d * (k - 1)
      BY <1>1, <1>3, <3>1
    <3>3. j - 1 = k - 1
      BY <1>4, <3>1, <3>2
    <3> QED
      BY <3>3
  <2> QED
    BY <2>1, <2>2 DEF Injection, IsInjective
<1>10. at \in Surjection(1 .. n, Earlier)
  <2>1. ASSUME NEW u \in Earlier
        PROVE  \E k \in 1 .. n : at[k] = u
    <3>1. u \in Nat /\ u >= f /\ (u - f) % d = 0 /\ u < f + d * n
      BY <1>1, <1>2
    <3>2. PICK q \in Nat : u - f = d * q
      <4>1. u - f \in Nat
        BY <1>1, <3>1
      <4> QED
        BY <1>5, <3>1, <4>1
    <3>3. u = f + d * q /\ d * q < d * n
      BY <1>1, <1>3, <3>1, <3>2
    <3>4. q < n
      BY <1>4, <3>3
    <3>5. q + 1 \in 1 .. n /\ (q + 1) - 1 = q
      BY <3>4
    <3> QED
      BY <3>3, <3>5
  <2> QED
    BY <1>9, <2>1 DEF Surjection, Injection
<1>11. Cardinality(Earlier) = n
  <2>1. ExistsBijection(1 .. n, Earlier)
    BY <1>9, <1>10 DEF ExistsBijection, Bijection
  <2> QED
    BY <2>1, FS_CountingElements
<1>12. t \in Grid(s)
  BY <1>7 DEF f, d
<1> QED
  BY <1>11, <1>12 DEF IsNth, f, d

\* After the last one the calendar represents, there is none.
LEMMA GridEnds ==
  ASSUME NEW s \in Interval, s.interval # 0, NEW n \in Nat,
         s.first_transmission + s.interval * (n + 1) \notin Instant,
         NEW u \in Grid(s)
  PROVE  ~(s.first_transmission + s.interval * n < u)
<1> DEFINE f == s.first_transmission
           d == s.interval
<1>1. f \in Nat /\ d \in Nat \ {0} /\ Instant = 0 .. MaxInstant /\ MaxInstant \in Nat
  BY InstantAssumption DEF Interval, Instant
<1>2. u \in Instant /\ u >= f /\ (u - f) % d = 0
  BY DEF Grid
<1>3. f + d * (n + 1) \notin Instant
  OBVIOUS
<1> SUFFICES ASSUME f + d * n < u PROVE FALSE
  OBVIOUS
<1> HIDE DEF f, d
<1>4. PICK q \in Nat : u - f = d * q
  <2>1. u - f \in Nat
    BY <1>1, <1>2
  <2> QED
    BY <1>1, <1>2, <2>1, Multiple
<1>5. d * n < d * q /\ d * n \in Nat /\ d * q \in Nat
  BY <1>1, <1>2, <1>4
<1>6. n + 1 <= q
  BY <1>1, <1>5
<1>7. d * (n + 1) <= d * q /\ d * (n + 1) \in Nat
  BY <1>1, <1>6
<1>8. f + d * (n + 1) \in Nat /\ f + d * (n + 1) <= u
  BY <1>1, <1>2, <1>4, <1>5, <1>7
<1> QED
  BY <1>1, <1>2, <1>3, <1>8

-----------------------------------------------------------------------------
(***************************************************************************)
(* Occurrences and Schedule::next.                                         *)
(***************************************************************************)

\* What NthInstant does not find is not there.
LEMMA NoNth ==
  ASSUME NEW S \in SUBSET Instant, NEW n \in Nat, NthInstant(S, n) \notin Instant,
         NEW v \in S
  PROVE  ~IsNth(S, n, v)
<1> SUFFICES ASSUME IsNth(S, n, v) PROVE FALSE
  OBVIOUS
<1>1. IsNth(S, n, NthInstant(S, n))
  BY Zenon DEF NthInstant
<1> QED
  BY <1>1 DEF IsNth

\* What a schedule draws its occurrences from, and how many times.
Base(s) == IF s.kind = "Interval" THEN Grid(s) ELSE FiringTimes(s)

\* Schedule::next answers the n-th occurrence, as long as n were not planned.
LEMMA NextIsNth ==
  ASSUME NEW s \in Interval \cup Cron, IsValidSchedule(0, s), NEW n \in Nat,
         ScheduleNext(s, n) \in Instant
  PROVE  ~IsExhausted(s.iterate, n) /\ IsNth(Base(s), n, ScheduleNext(s, n))
<1>0. NoTime \notin Instant /\ Panic \notin Instant
  BY SentinelAssumption, InstantAssumption DEF Instant
<1>1. CASE s \in Interval
  <2>1. s.kind = "Interval" /\ s.interval \in Nat \ {0}
    BY <1>1, ValidationAssumption DEF Interval, IsValidSchedule
  <2>2. ScheduleNext(s, n) = IntervalNext(s, n)
    BY <2>1 DEF ScheduleNext
  <2>3. /\ ~IsExhausted(s.iterate, n)
        /\ ScheduleNext(s, n) = CheckedInstant(s.first_transmission + s.interval * n)
    BY <1>0, <2>2 DEF IntervalNext
  <2>4. ScheduleNext(s, n) = s.first_transmission + s.interval * n
    BY <1>0, <2>3 DEF CheckedInstant
  <2> QED
    BY <1>1, <2>1, <2>3, <2>4, GridNth DEF Base
<1>2. CASE s \in Cron
  <2>1. s.kind = "Cron"
    BY <1>2 DEF Cron
  <2>2. ScheduleNext(s, n) = CronNext(s, n)
    BY <2>1 DEF ScheduleNext
  <2>3. /\ ~IsExhausted(s.iterate, n)
        /\ ScheduleNext(s, n) = NthInstant(FiringTimes(s), n)
    BY <1>0, <2>2 DEF CronNext
  <2> QED
    BY <2>1, <2>3, NthIsNth DEF Base
<1> QED
  BY <1>1, <1>2

\* And answers none only when they were: by count, calendar or expression.
LEMMA NoNextIsLast ==
  ASSUME NEW s \in Interval \cup Cron, IsValidSchedule(0, s), NEW n \in Nat,
         ScheduleNext(s, n) \in Instant, ScheduleNext(s, n + 1) \notin Instant
  PROVE  \/ IsExhausted(s.iterate, n + 1)
         \/ \A u \in Base(s) : ~(ScheduleNext(s, n) < u)
<1> SUFFICES ASSUME ~IsExhausted(s.iterate, n + 1), NEW u \in Base(s)
             PROVE  ~(ScheduleNext(s, n) < u)
  OBVIOUS
<1>1. CASE s \in Interval
  <2>1. s.kind = "Interval" /\ s.interval \in Nat \ {0}
    BY <1>1, ValidationAssumption DEF Interval, IsValidSchedule
  <2>2. ScheduleNext(s, n + 1) = CheckedInstant(s.first_transmission + s.interval * (n + 1))
    BY <2>1 DEF ScheduleNext, IntervalNext
  <2>3. s.first_transmission + s.interval * (n + 1) \notin Instant
    BY <2>2, InstantAssumption DEF CheckedInstant, Instant
  <2>4. ScheduleNext(s, n) = s.first_transmission + s.interval * n
    <3>1. NoTime \notin Instant /\ Panic \notin Instant
      BY SentinelAssumption, InstantAssumption DEF Instant
    <3> QED
      BY <2>1, <3>1 DEF ScheduleNext, IntervalNext, CheckedInstant
  <2>5. u \in Grid(s)
    BY <2>1 DEF Base
  <2> QED
    BY <1>1, <2>1, <2>3, <2>4, <2>5, GridEnds
<1>2. CASE s \in Cron
  <2>1. s.kind = "Cron" /\ FiringTimes(s) \in SUBSET Instant
    BY <1>2 DEF Cron, FiringTimes
  <2>2. NthInstant(FiringTimes(s), n + 1) \notin Instant
    BY <2>1 DEF ScheduleNext, CronNext
  <2>3. \A v \in FiringTimes(s) : ~IsNth(FiringTimes(s), n + 1, v)
    BY <2>1, <2>2, NoNth
  <2>4. IsNth(FiringTimes(s), n, ScheduleNext(s, n)) /\ u \in FiringTimes(s)
    BY <2>1, NextIsNth DEF Base
  <2> QED
    BY <2>1, <2>3, <2>4, NthFollows
<1> QED
  BY <1>1, <1>2

\* The occurrences are the planned ones of these.
LEMMA OccurrencesArePlanned ==
  ASSUME NEW s \in Interval \cup Cron
  PROVE  /\ Base(s) \in SUBSET Instant
         /\ s.iterate \in Iterate
         /\ Occurrences(s) = Planned(Base(s), s.iterate)
<1>1. CASE s \in Interval
  BY <1>1 DEF Interval, Base, Grid, Occurrences
<1>2. CASE s \in Cron
  BY <1>2 DEF Cron, Base, FiringTimes, Occurrences
<1> QED
  BY <1>1, <1>2

\* A schedule that is planned at least once and has no first occurrence has none.
LEMMA NoFirstIsNone ==
  ASSUME NEW s \in AnySchedule, IsValidSchedule(0, s),
         s.kind # "Delayed" => s.iterate # 0, ScheduleNext(s, 0) \notin Instant
  PROVE  Cardinality(Occurrences(s)) = 0
<1>1. InitialNext(s) \notin Instant
  BY InitialNextAgrees
<1>2. s \in Cron
  BY <1>1 DEF AnySchedule, Delayed, Interval, InitialNext
<1>3. /\ s.kind = "Cron"
      /\ FiringTimes(s) \in SUBSET Instant
      /\ NthInstant(FiringTimes(s), 0) \notin Instant
  BY <1>1, <1>2 DEF Cron, FiringTimes, InitialNext
<1>4. FiringTimes(s) = {}
  <2> SUFFICES ASSUME FiringTimes(s) # {} PROVE FALSE
    OBVIOUS
  <2>1. FiringTimes(s) \subseteq Nat
    BY <1>3, InstantsFinite
  <2>2. PICK x \in FiringTimes(s) : \A y \in FiringTimes(s) : x <= y
    BY <2>1, Smallest
  <2>3. {u \in FiringTimes(s) : u < x} = {}
    BY <2>1, <2>2
  <2>4. IsNth(FiringTimes(s), 0, x)
    BY <2>3, FS_EmptySet DEF IsNth
  <2> QED
    BY <1>3, <2>4, NoNth
<1>5. Occurrences(s) = {}
  BY <1>2, <1>3, <1>4, OccurrencesArePlanned DEF Base, Planned
<1> QED
  BY <1>5, FS_EmptySet

-----------------------------------------------------------------------------
(***************************************************************************)
(* The theorems.                                                           *)
(***************************************************************************)

\* Every schedule asked for is planned at least once.  Schedule::next knows
\* an iterate of zero, Transmission::new does not.
PlannedRequests == \A s \in Requests : s.kind # "Delayed" => s.iterate # 0

\* Transmission::new agrees with Schedule::next.
LEMMA InitIInv == ASSUME PlannedRequests PROVE Init => IInv
<1> SUFFICES ASSUME NEW s \in Requests, IsValidSchedule(0, s),
                    transmission = NewTransmission(Id, s)
             PROVE  IInv
  BY DEF Init
<1>1. transmission =
        [id |-> Id, schedule |-> s, next |-> InitialNext(s),
         transmission_count |-> 0]
  BY DEF NewTransmission
<1>2. /\ InitialNext(s) = ScheduleNext(s, 0)
      /\ InitialNext(s) \in Instant \cup {NoTime, Panic}
  BY InitialNextAgrees, InitialNextType, RequestsAssumption DEF PlannedRequests
<1> QED
  BY <1>1, <1>2 DEF IInv, TypeOK

\* transmitted() keeps the invariant.
LEMMA NextIInv == IInv /\ [Next]_transmission => IInv'
<1> SUFFICES ASSUME IInv, Transmit PROVE IInv'
  BY DEF Next, IInv, TypeOK
<1> DEFINE s == transmission.schedule
           n == transmission.transmission_count
<1>1. /\ TypeOK /\ IsValidSchedule(0, s) /\ s \in AnySchedule /\ n \in Nat
      /\ ScheduleNext(s, n) \in Instant
  BY RequestsAssumption DEF IInv, TypeOK, Transmit
<1>2. transmission' =
        [transmission EXCEPT !.transmission_count = n + 1,
                             !.next = ScheduleNext(s, n + 1)]
  BY DEF Transmit, Transmitted
<1>3. ScheduleNext(s, n + 1) \in Instant \cup {NoTime, Panic}
  BY <1>1, NextType
<1>4. /\ transmission'.schedule = s
      /\ transmission'.transmission_count = n + 1
      /\ transmission'.next = ScheduleNext(s, n + 1)
      /\ TypeOK'
  <2>1. transmission \in [id : {Id}, schedule : Requests,
                          next : Instant \cup {NoTime, Panic},
                          transmission_count : Nat]
    BY <1>1 DEF TypeOK
  <2>2. n + 1 \in Nat
    BY <1>1
  <2> HIDE DEF n
  <2>3. transmission' =
          [id |-> transmission.id, schedule |-> transmission.schedule,
           next |-> ScheduleNext(s, n + 1), transmission_count |-> n + 1]
    BY <1>2, <2>1
  <2> QED
    BY <1>3, <2>1, <2>2, <2>3 DEF TypeOK
<1>5. (n + 1) - 1 = n
  BY <1>1
<1> QED
  BY <1>1, <1>4, <1>5 DEF IInv

\* What a transmission stores is what its schedule answers for the messages
\* sent so far, and it was never moved on past its end.
THEOREM Invariance == ASSUME PlannedRequests PROVE Spec => []IInv
BY InitIInv, NextIInv, PTL DEF Spec

\* The invariant, and the counting of occurrences.
LEMMA IInvGivesNth == IInv => NextIsNthOccurrence
<1> DEFINE s == transmission.schedule
           n == transmission.transmission_count
<1> SUFFICES ASSUME IInv, transmission.next \in Instant
             PROVE  /\ transmission.next \in Occurrences(s)
                    /\ Cardinality(Before(Occurrences(s), transmission.next)) = n
  BY DEF NextIsNthOccurrence
<1>1. /\ s \in AnySchedule /\ n \in Nat /\ IsValidSchedule(0, s)
      /\ transmission.next = ScheduleNext(s, n) /\ ScheduleNext(s, n) \in Instant
  BY RequestsAssumption DEF IInv, TypeOK
<1> HIDE DEF s, n
<1>2. CASE s \in Delayed
  <2>1. s.kind = "Delayed" /\ s.transmit_at \in Nat
    BY <1>2, InstantAssumption DEF Delayed, Instant
  <2>2. n = 0 /\ ScheduleNext(s, n) = s.transmit_at
    BY <1>1, <2>1, SentinelAssumption, InstantAssumption
       DEF ScheduleNext, DelayedNext, Instant
  <2>3. Occurrences(s) = {s.transmit_at}
    BY <2>1 DEF Occurrences
  <2>4. Before(Occurrences(s), s.transmit_at) = {}
    BY <2>1, <2>3 DEF Before
  <2> QED
    BY <1>1, <2>2, <2>3, <2>4, FS_EmptySet
<1>3. CASE s \in Interval \cup Cron
  BY <1>1, <1>3, NextIsNth, OccurrencesArePlanned, PlannedNth
<1> QED
  BY <1>1, <1>2, <1>3 DEF AnySchedule

\* The last one sent is the last one there is.
LEMMA IInvGivesEnd == ASSUME PlannedRequests PROVE IInv => EndsWhenAllSent
<1> DEFINE s == transmission.schedule
           n == transmission.transmission_count
<1> SUFFICES ASSUME IInv, transmission.next \notin Instant
             PROVE  n = Cardinality(Occurrences(s))
  BY DEF EndsWhenAllSent
<1>1. /\ s \in AnySchedule /\ n \in Nat /\ IsValidSchedule(0, s)
      /\ s.kind # "Delayed" => s.iterate # 0
      /\ ScheduleNext(s, n) \notin Instant
      /\ n > 0 => ScheduleNext(s, n - 1) \in Instant
  BY RequestsAssumption DEF IInv, TypeOK, PlannedRequests
<1> HIDE DEF s, n
<1>2. CASE n = 0
  BY <1>1, <1>2, NoFirstIsNone
<1>3. CASE n # 0
  <2>1. /\ n - 1 \in Nat /\ (n - 1) + 1 = n
        /\ ScheduleNext(s, n - 1) \in Instant
    BY <1>1, <1>3
  <2>2. CASE s \in Delayed
    <3>1. s.kind = "Delayed"
      BY <2>2 DEF Delayed
    <3>2. n - 1 = 0
      BY <2>1, <3>1, SentinelAssumption, InstantAssumption
         DEF ScheduleNext, DelayedNext, Instant
    <3>3. Occurrences(s) = {s.transmit_at}
      BY <3>1 DEF Occurrences
    <3>4. n = 1
      BY <1>1, <3>2
    <3>5. Cardinality(Occurrences(s)) = 1
      BY <3>3, FS_Singleton
    <3> QED
      BY <3>4, <3>5
  <2>3. CASE s \in Interval \cup Cron
    <3>1. /\ ~IsExhausted(s.iterate, n - 1)
          /\ IsNth(Base(s), n - 1, ScheduleNext(s, n - 1))
      BY <1>1, <2>1, <2>3, NextIsNth
    <3>2. \/ IsExhausted(s.iterate, n)
          \/ \A u \in Base(s) : ~(ScheduleNext(s, n - 1) < u)
      BY <1>1, <2>1, <2>3, NoNextIsLast
    <3>3. Cardinality(Planned(Base(s), s.iterate)) = (n - 1) + 1
      BY <2>1, <2>3, <3>1, <3>2, OccurrencesArePlanned, LastPlanned
    <3> QED
      BY <2>1, <2>3, <3>3, OccurrencesArePlanned
  <2> QED
    BY <1>1, <2>2, <2>3 DEF AnySchedule
<1> QED
  BY <1>2, <1>3

\* The datetime a message waits for is an instant its schedule fires at, and as
\* many lie before it as were sent: none is skipped, repeated or out of order.
THEOREM NoneIsSkipped ==
  ASSUME PlannedRequests
  PROVE  Spec => []NextIsNthOccurrence
BY Invariance, IInvGivesNth, PTL

\* When transmitted() finds no next datetime, or panics past the end of the
\* calendar, every occurrence was sent.
THEOREM EndIsComplete ==
  ASSUME PlannedRequests
  PROVE  Spec => []EndsWhenAllSent
BY Invariance, IInvGivesEnd, PTL
=============================================================================
