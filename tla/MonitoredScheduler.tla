-------------------------- MODULE MonitoredScheduler --------------------------
(***************************************************************************)
(* PostgresScheduler together with what every process counts of its own    *)
(* doings (the calls of metrics.count in src/scheduler.rs).  An event is   *)
(* counted right after the call it reports on, before the next await.      *)
(***************************************************************************)
EXTENDS PostgresScheduler, Metrics

CONSTANT MaxPolls   \* bound on the polls a process counts

ASSUME MonitoringAssumption == MaxPolls \in Nat

VARIABLES
  counters,   \* the counters of each process
  handed,     \* how many messages a process has handed over since it started
  died        \* whether some process has ended

monitorVars == <<counters, handed, died>>
mvars == <<vars, monitorVars>>

MInit ==
  /\ Init
  /\ counters = [p \in Replicas |-> NoCounters]
  /\ handed = [p \in Replicas |-> 0]
  /\ died = FALSE

Count(p, events) ==
  /\ counters' = [counters EXCEPT ![p] = Counted(@, events)]
  /\ UNCHANGED <<handed, died>>

\* Mutant: the end of transmit is counted as a success.
RoundOk(procedure, success, transmitted) ==
  {Event(procedure, success), Event("Transmitted", TRUE)}

\* The two events of a round of process_batch: that of the call that ends
\* transmit, and transmit's own.
Round(procedure, success, transmitted) ==
  {Event(procedure, success), Event("Transmitted", transmitted)}

\* schedule counts what became of the storing; a refusal is not counted.
MSchedule ==
  \/ /\ \E p \in Replicas, i \in Ids, s \in Requests : Validate(p, i, s)
     /\ UNCHANGED monitorVars
  \/ \E i \in Ids : /\ Store(i)
                    /\ Count(handler[i], {Event("Scheduled", TRUE)})
  \/ \E i \in Ids : /\ StoreFails(i)
                    /\ Count(handler[i], {Event("Scheduled", FALSE)})

PollsOf(p) ==
  Value(counters[p], LabelOf(Event("Polled", TRUE)))
    + Value(counters[p], LabelOf(Event("Polled", FALSE)))

MPoll(p) ==
  \/ /\ PollsOf(p) < MaxPolls
     /\ StartBatch(p)
     /\ UNCHANGED monitorVars
  \/ TakeSnapshot(p) /\ UNCHANGED monitorVars
  \/ Poll(p) /\ Count(p, {Event("Polled", TRUE)})
  \/ PollFails(p) /\ Count(p, {Event("Polled", FALSE)})

\* A panic is counted nowhere.
MTransmit(p) ==
  \/ /\ TransmitOk(p)
     /\ handed' = [handed EXCEPT ![p] = @ + 1]
     /\ UNCHANGED <<counters, died>>
  \/ TransmitErr(p) /\ UNCHANGED monitorVars
  \/ Save(p) /\ Count(p, Round("ScheduleStateSaved", TRUE, TRUE))
  \/ SaveFails(p) /\ Count(p, Round("ScheduleStateSaved", FALSE, FALSE))
  \/ Reschedule(p) /\ Count(p, Round("Rescheduled", TRUE, FALSE))
  \/ RescheduleFails(p) /\ Count(p, Round("Rescheduled", FALSE, FALSE))
  \/ SchedulerPanics(p) /\ UNCHANGED monitorVars

\* The counters live in the memory of the process.
MStop(p) ==
  /\ Stop(p)
  /\ counters' = [counters EXCEPT ![p] = NoCounters]
  /\ handed' = [handed EXCEPT ![p] = 0]
  /\ died' = TRUE

MNext ==
  \/ MSchedule
  \/ \E p \in Replicas : MPoll(p) \/ MTransmit(p) \/ MStop(p)
  \/ \E p \in Replicas : Boot(p) /\ UNCHANGED monitorVars
  \/ Tick /\ UNCHANGED monitorVars

MSpec == MInit /\ [][MNext]_mvars

-----------------------------------------------------------------------------
(***************************************************************************)
(* Properties.                                                             *)
(***************************************************************************)

Successful(p, procedure) == Value(counters[p], <<procedure, "Success">>)
Failed(p, procedure) == Value(counters[p], <<procedure, "Failure">>)

\* Every message handed to the broker shows in the counters once: as a
\* transmission, or as a save that failed after it - unless it is about to be
\* saved, or the scheduler task died of computing its next datetime.
MessagesAreCounted ==
  \A p \in Replicas :
    handed[p] = Successful(p, "Transmitted")
                  + Failed(p, "ScheduleStateSaved")
                  + IF pc[p] \in {"save", "dead"} THEN 1 ELSE 0

\* A transmission that was confirmed to a client and has got stuck leaves a
\* failure in the counters of some process: nothing is lost silently but by
\* the death of a process or of its scheduler task.
LossIsCounted ==
  \A i \in Ids :
    /\ request[i] = "stored"
    /\ ScheduleNext(accepted[i], sent[i]) \in Instant
    /\ ~InProgress(i)
    => \/ died
       \/ \E p \in Replicas : HasFailure(counters[p]) \/ pc[p] = "dead"
=============================================================================
