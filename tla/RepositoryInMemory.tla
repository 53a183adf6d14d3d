-------------------------- MODULE RepositoryInMemory --------------------------
(***************************************************************************)
(* The vector behind a mutex of src/repository_in_memory.rs.  Every method *)
(* holds the mutex from beginning to end, so each is one step.  Entries    *)
(* are pushed and overwritten, never removed or moved: the position of an  *)
(* entry identifies it.                                                    *)
(***************************************************************************)
EXTENDS Schedules, Sequences

CONSTANT Ids   \* Uuid::new_v4 gives one that is new

VARIABLE transmissions

Transmission ==
  [id : Ids, schedule : AnySchedule, next : Instant \cup {NoTime},
   transmission_count : Nat]

Positions == DOMAIN transmissions

DuePositions(before) ==
  {n \in Positions : /\ transmissions[n].next \in Instant
                     /\ transmissions[n].next <= before}

\* `take`: the first ones, in the order they were stored.
First(S, size) == {n \in S : Cardinality({m \in S : m < n}) < size}

\* poll_transmissions, as copies of the entries by position.
Polled(before, size) ==
  [n \in First(DuePositions(before), size) |-> transmissions[n]]

\* store_transmission
Pushed(t) == Append(transmissions, t)

\* Mutant: what is saved is pushed, the old entry stays.
PushedAgain(t) == Pushed(t)

\* Mutant: entries are told apart by their schedule.
SavedBySchedule(t) ==
  [n \in Positions |->
     IF transmissions[n].schedule = t.schedule THEN t ELSE transmissions[n]]

\* save: every entry with the id is replaced.
Saved(t) ==
  [n \in Positions |->
     IF transmissions[n].id = t.id THEN t ELSE transmissions[n]]
=============================================================================
