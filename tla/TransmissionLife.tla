--------------------------- MODULE TransmissionLife ---------------------------
(***************************************************************************)
(* The life of one transmission (src/model.rs): created for a schedule     *)
(* that passed validation, then moved on by Transmission::transmitted once *)
(* per message sent, until no next datetime is left.  The properties       *)
(* compare it with a plain definition of when a schedule fires.            *)
(***************************************************************************)
EXTENDS Schedules

CONSTANTS
  Requests,   \* the schedules clients ask for
  Id          \* the id of the transmission

ASSUME RequestsAssumption == Requests \subseteq AnySchedule

VARIABLE transmission

Init ==
  \E s \in Requests :
    /\ IsValidSchedule(0, s)
    /\ transmission = NewTransmission(Id, s)

Transmit ==
  /\ transmission.next \in Instant
  /\ transmission' = Transmitted(transmission)

Next == Transmit

Spec == Init /\ [][Next]_transmission

-----------------------------------------------------------------------------
(***************************************************************************)
(* When a schedule fires, said without counting transmissions.             *)
(***************************************************************************)

Before(S, t) == {u \in S : u < t}

\* The first ones of S, as many as iterate allows.
Planned(S, iterate) ==
  {t \in S : iterate = Infinitely \/ Cardinality(Before(S, t)) < iterate}

Occurrences(s) ==
  CASE s.kind = "Delayed"  -> {s.transmit_at}
    [] s.kind = "Interval" ->
         Planned({t \in Instant : /\ t >= s.first_transmission
                                  /\ (t - s.first_transmission) % s.interval = 0},
                 s.iterate)
    [] s.kind = "Cron"     ->
         Planned({t \in s.expression : t > s.first_transmission_after},
                 s.iterate)

\* The next datetime is an instant at which the schedule fires, and as many
\* instants lie before it as messages were sent: none is skipped, repeated or
\* out of order, though each is computed from the start of the schedule.
NextIsNthOccurrence ==
  LET occurrences == Occurrences(transmission.schedule)
  IN  transmission.next \in Instant =>
        /\ transmission.next \in occurrences
        /\ Cardinality(Before(occurrences, transmission.next))
             = transmission.transmission_count

\* A transmission comes to its end when every occurrence was sent, no sooner
\* and no later: by its count, its expression or the end of the calendar.
EndsWhenAllSent ==
  transmission.next \notin Instant =>
    transmission.transmission_count
      = Cardinality(Occurrences(transmission.schedule))

TypeOK ==
  transmission \in [id : {Id}, schedule : Requests,
                    next : Instant \cup {NoTime, Panic},
                    transmission_count : Nat]

\* The strengthening behind both, for schedules that are planned at least
\* once: the datetime kept is the one Schedule::next answers for the count
\* kept, and the message counted last had an instant.
IInv ==
  LET schedule == transmission.schedule
      count    == transmission.transmission_count
  IN  /\ TypeOK
      /\ IsValidSchedule(0, schedule)
      /\ transmission.next = ScheduleNext(schedule, count)
      /\ count > 0 => ScheduleNext(schedule, count - 1) \in Instant
=============================================================================
