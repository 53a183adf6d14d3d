----------------------- MODULE RepositoryPostgresLemmas -----------------------
(***************************************************************************)
(* What the SQL statements do to the table, as the scheduler's proofs use  *)
(* it.                                                                     *)
(***************************************************************************)
EXTENDS RepositoryPostgres, ScheduleLemmas

\* The microsecond an instant lies in: no later than the instant, and less
\* than a microsecond before it.
LEMMA TruncatedBounds ==
  ASSUME NEW t \in Nat
  PROVE  /\ Truncated(t) \in 0 .. t
         /\ t < Truncated(t) + Precision
<1> DEFINE q == t \div Precision
<1>1. Precision \in Nat \ {0}
  BY PrecisionAssumption
<1>2. /\ q \in Nat
      /\ t = (Precision * q) + (t % Precision)
      /\ t % Precision \in 0 .. Precision - 1
  BY <1>1
<1>3. Precision * q \in Nat
  BY <1>1, <1>2
<1> QED
  BY <1>1, <1>2, <1>3 DEF Truncated

\* What fits into a DateTime fits into the column.
LEMMA TruncatedType ==
  ASSUME NEW t \in Instant
  PROVE  Truncated(t) \in Instant
<1>1. t \in Nat /\ Truncated(t) \in 0 .. t
  BY TruncatedBounds, InstantAssumption DEF Instant
<1> QED
  BY <1>1, InstantAssumption DEF Instant

\* poll_transmissions compares microseconds, process_batch the datetimes
\* themselves: because the former compares by `<`, what it picks is past for
\* the latter too, and rounding never makes the filter drop a locked row.
THEOREM PickedIsPast ==
  ASSUME NEW t \in Instant, NEW before \in Instant,
         Truncated(t) < Truncated(before)
  PROVE  t < before
<1> DEFINE q == t \div Precision
           r == before \div Precision
<1>1. /\ Precision \in Nat \ {0}
      /\ t \in Nat
      /\ before \in Nat
  BY PrecisionAssumption, InstantAssumption DEF Instant
<1>2. q \in Nat /\ r \in Nat
  BY <1>1
<1>3. /\ Truncated(t) = Precision * q
      /\ Truncated(before) = Precision * r
  BY DEF Truncated
<1>4. q + 1 <= r
  <2>1. Precision * q < Precision * r
    BY <1>3
  <2>2. ASSUME r <= q PROVE FALSE
    <3>1. Precision * r <= Precision * q
      BY <1>1, <1>2, <2>2
    <3> QED
      BY <1>1, <1>2, <2>1, <3>1
  <2> QED
    BY <1>2, <2>2
<1>5. Truncated(t) + Precision <= Truncated(before)
  <2>1. Precision * (q + 1) <= Precision * r
    BY <1>1, <1>2, <1>4
  <2>2. Precision * (q + 1) = Precision * q + Precision
    BY <1>1, <1>2
  <2> QED
    BY <1>3, <2>1, <2>2
<1>6. /\ t < Truncated(t) + Precision
      /\ Truncated(before) \in 0 .. before
      /\ Truncated(t) \in 0 .. t
  BY <1>1, TruncatedBounds
<1> QED
  BY <1>1, <1>5, <1>6

\* now() gives an integer stamp.
LEMMA StampsType ==
  ASSUME TableOK, NEW i
  PROVE  Stamps(i) \subseteq Int
<1>1. ASSUME NEW k \in DOMAIN table, NEW d \in ClockSteps
      PROVE  table[k].inserted_at + d \in Int
  <2>1. table[k].inserted_at \in Int /\ d \in Int
    BY <1>1, ClockStepsAssumption DEF TableOK, Row
  <2> QED
    BY <2>1
<1> QED
  BY <1>1 DEF Stamps, RowsOf

\* An INSERT adds its row if the key is free, and touches no other.
LEMMA InsertedEffect ==
  ASSUME TableOK, NEW t \in Transmission, NEW stamp \in Int,
         NEW new, new = Inserted(t, stamp)
  PROVE  /\ DOMAIN new = DOMAIN table \cup {KeyOf(t)}
         /\ DOMAIN new \subseteq Keys
         /\ new \in [DOMAIN new -> Row]
         /\ \A k \in DOMAIN table : new[k] = table[k]
         /\ KeyOf(t) \notin DOMAIN table => new[KeyOf(t)] = NewRow(t, stamp)
<1>1. NewRow(t, stamp) \in Row
  <2>1. /\ t.schedule \in AnySchedule
        /\ t.next \in Instant \cup {NoTime}
    BY DEF Transmission
  <2>2. (IF t.next = NoTime THEN NoTime ELSE Truncated(t.next))
          \in Instant \cup {NoTime}
    BY <2>1, TruncatedType
  <2> QED
    BY <2>1, <2>2 DEF NewRow, Row
<1>2. KeyOf(t) \in Keys
  BY DEF KeyOf, Keys, Transmission
<1>3. /\ DOMAIN new = DOMAIN table \cup {KeyOf(t)}
      /\ \A k \in DOMAIN table : new[k] = table[k]
      /\ KeyOf(t) \notin DOMAIN table => new[KeyOf(t)] = NewRow(t, stamp)
  BY DEF Inserted
<1>4. \A k \in DOMAIN new : new[k] \in Row
  BY <1>1, <1>3, Zenon DEF TableOK
<1>5. new = [k \in DOMAIN new |-> new[k]]
  BY DEF Inserted
<1> QED
  BY <1>2, <1>3, <1>4, <1>5 DEF TableOK

\* Locking keeps the rows, and all they say but is_locked.
LEMMA LockedEffect ==
  ASSUME TableOK, NEW keys, NEW new, new = Locked(keys)
  PROVE  /\ DOMAIN new = DOMAIN table
         /\ new \in [DOMAIN new -> Row]
         /\ \A k \in DOMAIN table :
              /\ new[k].schedule = table[k].schedule
              /\ new[k].next = table[k].next
              /\ new[k].is_locked = (table[k].is_locked \/ k \in keys)
              /\ new[k] \in {table[k], [table[k] EXCEPT !.is_locked = TRUE]}
<1>1. \A k \in DOMAIN table : table[k] \in Row
  BY DEF TableOK
<1>2. /\ DOMAIN new = DOMAIN table
      /\ new = [k \in DOMAIN table |-> new[k]]
      /\ \A k \in DOMAIN table :
           new[k] = IF k \in keys THEN [table[k] EXCEPT !.is_locked = TRUE]
                                  ELSE table[k]
  BY DEF Locked
<1>3. ASSUME NEW k \in DOMAIN table
      PROVE  /\ new[k] \in Row
             /\ new[k].schedule = table[k].schedule
             /\ new[k].next = table[k].next
             /\ new[k].is_locked = (table[k].is_locked \/ k \in keys)
  <2>1. CASE k \in keys
    BY <1>1, <1>2, <2>1 DEF Row
  <2>2. CASE k \notin keys
    BY <1>1, <1>2, <2>2 DEF Row
  <2> QED
    BY <2>1, <2>2
<1> QED
  BY <1>2, <1>3

\* A new transmission, and one moved on without a panic, can be stored.
LEMMA NewTransmissionType ==
  ASSUME NEW i \in Ids, NEW s \in AnySchedule
  PROVE  NewTransmission(i, s) \in Transmission
BY InitialNextType DEF NewTransmission, Transmission

\* A transmission moved on is one a row can hold.
LEMMA TransmittedType ==
  ASSUME NEW t \in Transmission, Transmitted(t).next # Panic
  PROVE  /\ Transmitted(t) \in Transmission
         /\ Transmitted(t).id = t.id
         /\ Transmitted(t).schedule = t.schedule
         /\ Transmitted(t).transmission_count = t.transmission_count + 1
<1>1. /\ t.schedule \in AnySchedule
      /\ t.transmission_count + 1 \in Nat
  BY DEF Transmission
<1>2. ScheduleNext(t.schedule, t.transmission_count + 1)
        \in Instant \cup {NoTime, Panic}
  BY <1>1, NextType
<1> QED
  BY <1>1, <1>2 DEF Transmitted, Transmission

\* A polled row becomes a transmission that says what the row says.
LEMMA AsTransmissionType ==
  ASSUME TableOK, NEW k \in DOMAIN table
  PROVE  /\ AsTransmission(k) \in Transmission
         /\ AsTransmission(k).id = k[1]
         /\ AsTransmission(k).transmission_count = k[2]
         /\ AsTransmission(k).schedule = table[k].schedule
BY DEF TableOK, Keys, Row, AsTransmission, Transmission
=============================================================================
