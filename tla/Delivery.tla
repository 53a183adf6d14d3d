------------------------------ MODULE Delivery ------------------------------
(***************************************************************************)
(* What a user of the program may rely on, whatever stores the schedules   *)
(* and however many processes run: the occurrences of an accepted schedule *)
(* are handed to the message broker one by one, in order, none of them     *)
(* twice and none before it is due.  FairSpec adds that an overdue         *)
(* occurrence is handed over in the end.                                   *)
(***************************************************************************)
EXTENDS Schedules

CONSTANTS
  Ids,        \* ids of transmissions (Uuid::new_v4)
  Requests,   \* the schedules clients ask for
  Unused,     \* an id no request has been given yet
  MaxClock,   \* bound on the clock
  Precision   \* how many ticks are told apart in saying what is overdue

VARIABLES
  clock,      \* the current time
  accepted,   \* the schedule each id was accepted with, or Unused
  done        \* how many occurrences of each id were handed over

vars == <<clock, accepted, done>>

Init ==
  /\ clock = 0
  /\ accepted = [i \in Ids |-> Unused]
  /\ done = [i \in Ids |-> 0]

Due(i) == ScheduleNext(accepted[i], done[i])

Accept(i, s) ==
  /\ accepted[i] = Unused
  /\ IsValidSchedule(clock, s)
  /\ accepted' = [accepted EXCEPT ![i] = s]
  /\ UNCHANGED <<clock, done>>

Deliver(i) ==
  /\ accepted[i] # Unused
  /\ Due(i) \in Instant
  /\ Due(i) <= clock
  /\ done' = [done EXCEPT ![i] = @ + 1]
  /\ UNCHANGED <<clock, accepted>>

Tick ==
  /\ clock < MaxClock
  /\ clock' = clock + 1
  /\ UNCHANGED <<accepted, done>>

Next ==
  \/ \E i \in Ids, s \in Requests : Accept(i, s)
  \/ \E i \in Ids : Deliver(i)
  \/ Tick

Spec == Init /\ [][Next]_vars

\* Overdue means the due time has passed, not merely been reached.
DeliverOverdue(i) ==
  /\ Deliver(i)
  /\ Due(i) \div Precision < clock \div Precision

FairSpec == Spec /\ \A i \in Ids : WF_vars(DeliverOverdue(i))
=============================================================================
