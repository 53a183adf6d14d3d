-------------------------- MODULE MCTransmissionLife --------------------------
(***************************************************************************)
(* Instances of TransmissionLife for TLC.                                  *)
(***************************************************************************)
EXTENDS TransmissionLife

\* Every schedule over the instants, up to three times or without end.
SchedulesOf(iterates) ==
  [kind : {"Delayed"}, transmit_at : Instant]
    \cup [kind : {"Interval"}, first_transmission : Instant,
          interval : 0 .. MaxInstant, iterate : iterates]
    \cup [kind : {"Cron"}, first_transmission_after : Instant,
          expression : SUBSET Instant, iterate : iterates]

PlannedSchedules == SchedulesOf({1, 2, 3, Infinitely})
=============================================================================
