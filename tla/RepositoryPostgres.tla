-------------------------- MODULE RepositoryPostgres --------------------------
(***************************************************************************)
(* src/repository_postgres.rs and its migration: the table of              *)
(* transmissions and what each SQL statement does to it.                   *)
(*                                                                         *)
(* Every occurrence of a schedule has a row of its own; save inserts the   *)
(* row of the next one and leaves the rows before it.  The primary key is  *)
(* (id, transmission_count), so the table is a partial function from such  *)
(* pairs.  The statements run at READ COMMITTED, PostgreSQL's default: an  *)
(* UPDATE picks its rows in a snapshot and, when it comes to lock one that *)
(* changed since, evaluates the WHERE clause again on the present row.     *)
(*                                                                         *)
(* inserted_at is only ever compared among the rows of one id, so it is a  *)
(* rank: ClockSteps says by how much now() can differ from the stamp that  *)
(* is the latest of the id so far.                                         *)
(***************************************************************************)
EXTENDS Schedules

CONSTANTS
  Ids,         \* ids of transmissions (Uuid::new_v4)
  ClockSteps,  \* how the database clock may move between two insertions
  Precision    \* how many ticks of a DateTime a microsecond has

ASSUME ClockStepsAssumption == ClockSteps \subseteq Int

ASSUME PrecisionAssumption == Precision \in Nat \ {0}

VARIABLE table

Keys == Ids \X Nat

Row == [schedule    : AnySchedule,
        next        : Instant \cup {NoTime},
        inserted_at : Int,
        is_locked   : BOOLEAN]

Transmission == [id                 : Ids,
                 schedule           : AnySchedule,
                 next               : Instant \cup {NoTime},
                 transmission_count : Nat]

TableOK ==
  /\ DOMAIN table \subseteq Keys
  /\ table \in [DOMAIN table -> Row]

RowsOf(i) == {k \in DOMAIN table : k[1] = i}

\* Mutant: the driver rounds up.
RoundedUp(t) == Precision * ((t + Precision - 1) \div Precision)

\* A TIMESTAMPTZ holds whole microseconds: the driver drops the rest.
Truncated(t) == Precision * (t \div Precision)

IsUnlocked(k) == k \in DOMAIN table /\ ~table[k].is_locked

\* Mutant: MIN(inserted_at).
IsEarliest(k) ==
  \A j \in RowsOf(k[1]) : table[j].inserted_at >= table[k].inserted_at

\* The row carries MAX(inserted_at) of its id.  Two rows can tie.
IsLatest(k) ==
  \A j \in RowsOf(k[1]) : table[j].inserted_at <= table[k].inserted_at

-----------------------------------------------------------------------------
(***************************************************************************)
(* store_transmission, and save, which calls it.                           *)
(***************************************************************************)

\* The values now() can have when a row of i is inserted.
Stamps(i) ==
  IF RowsOf(i) = {}
  THEN {0}
  ELSE {table[k].inserted_at + d : k \in {j \in RowsOf(i) : IsLatest(j)},
                                   d \in ClockSteps}

KeyOf(t) == <<t.id, t.transmission_count>>

NewRow(t, stamp) ==
  [schedule |-> t.schedule,
   next |-> IF t.next = NoTime THEN NoTime ELSE Truncated(t.next),
   inserted_at |-> stamp,
   is_locked |-> FALSE]

\* Mutant: the rows of the occurrences before are removed.
Replaced(t, stamp) ==
  [k \in {j \in DOMAIN table : j[1] # t.id} \cup {KeyOf(t)} |->
     IF k \in DOMAIN table THEN table[k] ELSE NewRow(t, stamp)]

\* The table after INSERT; a duplicate key is an error that changes nothing.
Inserted(t, stamp) ==
  [k \in DOMAIN table \cup {KeyOf(t)} |->
     IF k \in DOMAIN table THEN table[k] ELSE NewRow(t, stamp)]

-----------------------------------------------------------------------------
(***************************************************************************)
(* poll_transmissions, in the two steps other statements can come between. *)
(***************************************************************************)

\* Mutant: `next <= $1`.
CandidatesUpTo(before) ==
  {k \in DOMAIN table : /\ IsLatest(k)
                        /\ table[k].next # NoTime
                        /\ table[k].next <= Truncated(before)
                        /\ IsUnlocked(k)}

\* The rows the WHERE clause picks in the snapshot.
Candidates(before) ==
  {k \in DOMAIN table : /\ IsLatest(k)
                        /\ table[k].next # NoTime
                        /\ table[k].next < Truncated(before)
                        /\ IsUnlocked(k)}

\* Mutant: the snapshot is believed.
PickedInSnapshot(candidates) == candidates

\* Those it picks again on the rows as they are now.
StillUnlocked(candidates) == {k \in candidates : IsUnlocked(k)}

\* Mutant: a SELECT in place of the UPDATE.
Selected(keys) == table

\* The table after SET is_locked = true.
Locked(keys) ==
  [k \in DOMAIN table |->
     IF k \in keys THEN [table[k] EXCEPT !.is_locked = TRUE] ELSE table[k]]

\* The UPDATE stands in a WITH clause: it locks all its rows, and LIMIT cuts
\* only what SELECT returns of them, in no particular order.
Limited(keys, batch_size) ==
  {returned \in SUBSET keys :
     Cardinality(returned) = IF Cardinality(keys) <= batch_size
                             THEN Cardinality(keys)
                             ELSE batch_size}

AsTransmission(k) ==
  [id |-> k[1], schedule |-> table[k].schedule, next |-> table[k].next,
   transmission_count |-> k[2]]

-----------------------------------------------------------------------------
(***************************************************************************)
(* reschedule and clear_all.                                               *)
(***************************************************************************)

\* The rows reschedule updates: unlocked ones with the latest stamp among
\* the unlocked rows of i.
Reschedulable(i) ==
  {k \in RowsOf(i) :
     /\ IsUnlocked(k)
     /\ \A j \in RowsOf(i) :
          IsUnlocked(j) => table[j].inserted_at <= table[k].inserted_at}

\* Mutant: every row of i is unlocked, not the latest alone.
ReleasedRows(i) ==
  [k \in DOMAIN table |->
     IF k[1] = i THEN [table[k] EXCEPT !.is_locked = FALSE] ELSE table[k]]

Rescheduled(i) == Locked(Reschedulable(i))

EmptyTable == [k \in {} |-> {}]
=============================================================================
