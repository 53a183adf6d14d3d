---------------------- MODULE MonitoredSchedulerProofs ----------------------
(***************************************************************************)
(* What the counters of MonitoredScheduler say holds for every number of   *)
(* replicas, requests and faults.  The specification implements            *)
(* PostgresScheduler, so that what is proved of that holds here.           *)
(***************************************************************************)
EXTENDS MonitoredScheduler, PostgresSchedulerProofs

-----------------------------------------------------------------------------
(***************************************************************************)
(* The counters.                                                           *)
(***************************************************************************)

Labels == Procedures \X {"Success", "Failure"}

IsFamily(c) == DOMAIN c \subseteq Labels /\ \A l \in DOMAIN c : c[l] \in Nat

\* No two events share a label.
LEMMA LabelsDiffer ==
  ASSUME NEW d \in MetricEvent, NEW e \in MetricEvent, LabelOf(d) = LabelOf(e)
  PROVE  d = e
BY DEF MetricEvent, LabelOf

\* Counting adds one to the counter of each event and leaves the others.
LEMMA CountedEffect ==
  ASSUME NEW c, IsFamily(c), NEW events \in SUBSET MetricEvent
  PROVE  /\ IsFamily(Counted(c, events))
         /\ DOMAIN Counted(c, events) =
              DOMAIN c \cup {LabelOf(e) : e \in events}
         /\ \A l : Value(Counted(c, events), l) =
                     Value(c, l)
                       + IF \E e \in events : LabelOf(e) = l THEN 1 ELSE 0
<1> DEFINE new == Counted(c, events)
           With(l) == {e \in events : LabelOf(e) = l}
           labels == {LabelOf(e) : e \in events}
<1>1. \A d, e \in MetricEvent : LabelOf(d) = LabelOf(e) => d = e
  BY LabelsDiffer
<1>2. \A l : Cardinality(With(l)) =
               IF \E e \in events : LabelOf(e) = l THEN 1 ELSE 0
  <2>1. ASSUME NEW l, NEW e \in events, LabelOf(e) = l
        PROVE  Cardinality(With(l)) = 1
    <3>1. With(l) = {e}
      BY <1>1, <2>1
    <3> QED
      BY <3>1, FS_Singleton
  <2>2. ASSUME NEW l, ~\E e \in events : LabelOf(e) = l
        PROVE  Cardinality(With(l)) = 0
    <3>1. With(l) = {}
      BY <2>2
    <3> QED
      BY <3>1, FS_EmptySet
  <2> QED
    BY <2>1, <2>2
<1>3. /\ DOMAIN new = DOMAIN c \cup labels
      /\ \A l \in DOMAIN new : new[l] = Value(c, l) + Cardinality(With(l))
  BY DEF Counted
<1>4. labels \subseteq Labels
  BY DEF LabelOf, MetricEvent, Labels
<1>5. \A l : Value(c, l) \in Nat
  BY DEF Value, IsFamily
<1> HIDE DEF With, new
<1>6. IsFamily(new)
  BY <1>2, <1>3, <1>4, <1>5 DEF IsFamily
<1>7. \A l : Value(new, l) =
               Value(c, l)
                 + IF \E e \in events : LabelOf(e) = l THEN 1 ELSE 0
  <2> SUFFICES ASSUME NEW l
               PROVE  Value(new, l) =
                        Value(c, l)
                          + IF \E e \in events : LabelOf(e) = l THEN 1 ELSE 0
    OBVIOUS
  <2>1. CASE l \in DOMAIN new
    BY <1>2, <1>3, <2>1 DEF Value
  <2>2. CASE l \notin DOMAIN new
    BY <1>3, <2>2 DEF Value
  <2> QED
    BY <2>1, <2>2
<1> QED
  BY <1>3, <1>6, <1>7 DEF new

\* A failure that is counted shows, and none is ever taken back.
LEMMA FailuresShow ==
  ASSUME NEW c, IsFamily(c), NEW events \in SUBSET MetricEvent,
         HasFailure(c) \/ \E procedure : Event(procedure, FALSE) \in events
  PROVE  HasFailure(Counted(c, events))
<1> DEFINE new == Counted(c, events)
<1>1. DOMAIN new = DOMAIN c \cup {LabelOf(e) : e \in events}
  BY CountedEffect
<1> HIDE DEF new
<1>2. ASSUME NEW procedure, Event(procedure, FALSE) \in events
      PROVE  HasFailure(new)
  <2>1. LabelOf(Event(procedure, FALSE)) = <<procedure, "Failure">>
    BY DEF LabelOf, Event
  <2>2. <<procedure, "Failure">> \in DOMAIN new
    BY <1>1, <1>2, <2>1
  <2> QED
    BY <2>2 DEF HasFailure
<1>3. ASSUME HasFailure(c) PROVE HasFailure(new)
  BY <1>1, <1>3 DEF HasFailure
<1>4. HasFailure(new)
  BY <1>2, <1>3
<1> QED
  BY <1>4 DEF new

\* The events a round of process_batch ends with.
LEMMA RoundType ==
  ASSUME NEW procedure \in Procedures, NEW success \in BOOLEAN,
         NEW transmitted \in BOOLEAN
  PROVE  Round(procedure, success, transmitted) \in SUBSET MetricEvent
BY DEF Round, Event, MetricEvent, Procedures

-----------------------------------------------------------------------------
(***************************************************************************)
(* The specification implements PostgresScheduler.                         *)
(***************************************************************************)

\* A step that counts is a step of the scheduler.
LEMMA MStepIsStep == [MNext]_mvars => [Next]_vars
<1>1. ASSUME MNext PROVE Next
  BY <1>1, Zenon DEF MNext, MSchedule, MPoll, MTransmit, MStop, Next,
     SchedulerStep, CallFails
<1>2. ASSUME UNCHANGED mvars PROVE UNCHANGED vars
  BY <1>2 DEF mvars
<1> QED
  BY <1>1, <1>2

\* Counting changes nothing of what the scheduler does.
THEOREM CountingOnlyWatches == MSpec => Spec
<1>1. MInit => Init
  BY DEF MInit
<1> QED
  BY <1>1, MStepIsStep, PTL DEF MSpec, Spec

-----------------------------------------------------------------------------
(***************************************************************************)
(* Every message handed over is counted.                                   *)
(***************************************************************************)

MTypeOK ==
  /\ DOMAIN counters = Replicas /\ \A p \in Replicas : IsFamily(counters[p])
  /\ counters = [p \in Replicas |-> counters[p]]
  /\ handed \in [Replicas -> Nat]
  /\ died \in BOOLEAN

\* How a step changes the monitoring of a process.
CountsFor(p, events) ==
  /\ events \in SUBSET MetricEvent
  /\ counters'[p] = Counted(counters[p], events)
  /\ handed'[p] = handed[p]

KeepsCounters(p) == counters'[p] = counters[p] /\ handed'[p] = handed[p]

\* Count touches the counters of one process.
LEMMA CountEffect ==
  ASSUME MTypeOK, NEW p, NEW events \in SUBSET MetricEvent, Count(p, events)
  PROVE  /\ MTypeOK'
         /\ \A q \in Replicas : q # p => KeepsCounters(q)
         /\ p \in Replicas => CountsFor(p, events)
<1>1. \A q \in Replicas :
        counters'[q] = IF q = p THEN Counted(counters[q], events)
                                ELSE counters[q]
  BY DEF Count, MTypeOK
<1>2. \A q \in Replicas : IsFamily(counters'[q])
  <2>1. \A q \in Replicas : IsFamily(Counted(counters[q], events))
    BY CountedEffect DEF MTypeOK
  <2> QED
    BY <1>1, <2>1 DEF MTypeOK
<1>3. MTypeOK'
  <2>1. DOMAIN counters' = Replicas
    BY DEF Count, MTypeOK
  <2>2. counters' = [q \in Replicas |-> counters'[q]]
    BY DEF Count, MTypeOK
  <2> QED
    BY <1>2, <2>1, <2>2 DEF Count, MTypeOK
<1> QED
  BY <1>1, <1>3 DEF Count, CountsFor, KeepsCounters

\* What a process has handed over and not counted.
Uncounted(p) == IF pc[p] \in {"save", "dead"} THEN 1 ELSE 0

Balanced(p) ==
  handed[p] = Successful(p, "Transmitted") + Failed(p, "ScheduleStateSaved")
                + Uncounted(p)

\* The two events that stand for a message.
Accounted(events) ==
  (IF Event("Transmitted", TRUE) \in events THEN 1 ELSE 0)
    + (IF Event("ScheduleStateSaved", FALSE) \in events THEN 1 ELSE 0)

\* Counting what happened keeps the balance of a process.
LEMMA CountedBalance ==
  ASSUME MTypeOK, NEW p \in Replicas, NEW events, CountsFor(p, events),
         Balanced(p), Uncounted(p) = Uncounted(p)' + Accounted(events)
  PROVE  Balanced(p)'
<1> DEFINE sent_ == <<"Transmitted", "Success">>
           lost == <<"ScheduleStateSaved", "Failure">>
<1>1. /\ IsFamily(counters[p])
      /\ events \in SUBSET MetricEvent
      /\ counters'[p] = Counted(counters[p], events)
      /\ handed'[p] = handed[p]
  BY DEF MTypeOK, CountsFor
<1>2. \A l : Value(counters'[p], l) =
               Value(counters[p], l)
                 + IF \E e \in events : LabelOf(e) = l THEN 1 ELSE 0
  <2>1. \A l : Value(Counted(counters[p], events), l) =
                 Value(counters[p], l)
                   + IF \E e \in events : LabelOf(e) = l THEN 1 ELSE 0
    BY <1>1, CountedEffect, Zenon
  <2> QED
    BY <1>1, <2>1
<1>3. /\ (\E e \in events : LabelOf(e) = sent_)
           <=> Event("Transmitted", TRUE) \in events
      /\ (\E e \in events : LabelOf(e) = lost)
           <=> Event("ScheduleStateSaved", FALSE) \in events
  <2>1. /\ Event("Transmitted", TRUE) \in MetricEvent
        /\ Event("ScheduleStateSaved", FALSE) \in MetricEvent
    BY DEF Event, MetricEvent, Procedures
  <2>2. /\ LabelOf(Event("Transmitted", TRUE)) = sent_
        /\ LabelOf(Event("ScheduleStateSaved", FALSE)) = lost
    BY DEF Event, LabelOf
  <2> HIDE DEF sent_, lost
  <2> QED
    BY <1>1, <2>1, <2>2, LabelsDiffer
<1>4. /\ Successful(p, "Transmitted") = Value(counters[p], sent_)
      /\ Successful(p, "Transmitted")' = Value(counters'[p], sent_)
      /\ Failed(p, "ScheduleStateSaved") = Value(counters[p], lost)
      /\ Failed(p, "ScheduleStateSaved")' = Value(counters'[p], lost)
  BY DEF Successful, Failed, Value
<1>5. /\ Value(counters[p], sent_) \in Nat
      /\ Value(counters[p], lost) \in Nat
  BY <1>1 DEF Value, IsFamily
<1>6. Uncounted(p) \in Nat /\ Uncounted(p)' \in Nat
  BY DEF Uncounted
<1> HIDE DEF sent_, lost
<1> DEFINE m == IF Event("Transmitted", TRUE) \in events THEN 1 ELSE 0
           n == IF Event("ScheduleStateSaved", FALSE) \in events THEN 1 ELSE 0
<1>7. /\ Value(counters'[p], sent_) = Value(counters[p], sent_) + m
      /\ Value(counters'[p], lost) = Value(counters[p], lost) + n
  BY <1>2, <1>3
<1>8. m \in Nat /\ n \in Nat /\ Uncounted(p) = Uncounted(p)' + (m + n)
  BY DEF Accounted
<1> HIDE DEF m, n
<1>9. handed[p] = Value(counters[p], sent_) + Value(counters[p], lost)
                    + Uncounted(p)
  BY <1>4 DEF Balanced
<1>10. handed'[p] = Value(counters'[p], sent_) + Value(counters'[p], lost)
                      + Uncounted(p)'
  BY <1>1, <1>5, <1>6, <1>7, <1>8, <1>9
<1> QED
  BY <1>4, <1>10 DEF Balanced

\* A process that counts nothing, and hands nothing over.
LEMMA KeptBalance ==
  ASSUME NEW p, KeepsCounters(p), Balanced(p), Uncounted(p)' = Uncounted(p)
  PROVE  Balanced(p)'
BY DEF KeepsCounters, Balanced, Successful, Failed, Value

\* A step that counts the events of one process.
LEMMA CountStep ==
  ASSUME MTypeOK, MessagesAreCounted,
         NEW p, NEW events \in SUBSET MetricEvent, Count(p, events),
         \A q \in Replicas : q # p => Uncounted(q)' = Uncounted(q),
         p \in Replicas => Uncounted(p) = Uncounted(p)' + Accounted(events)
  PROVE  MTypeOK' /\ MessagesAreCounted'
<1>1. \A q \in Replicas : Balanced(q)
  BY DEF MessagesAreCounted, Balanced, Uncounted
<1>2. ASSUME NEW q \in Replicas PROVE Balanced(q)'
  BY <1>1, CountEffect, KeptBalance, CountedBalance
<1> QED
  BY <1>2, CountEffect DEF MessagesAreCounted, Balanced, Uncounted

\* A step that counts nothing.
LEMMA SilentStep ==
  ASSUME MTypeOK, MessagesAreCounted, UNCHANGED monitorVars,
         \A q \in Replicas : Uncounted(q)' = Uncounted(q)
  PROVE  MTypeOK' /\ MessagesAreCounted'
<1>1. \A q \in Replicas : KeepsCounters(q) /\ Balanced(q)
  BY DEF monitorVars, KeepsCounters, MessagesAreCounted, Balanced, Uncounted
<1>2. \A q \in Replicas : Balanced(q)'
  BY <1>1, KeptBalance
<1> QED
  BY <1>2 DEF monitorVars, MTypeOK, MessagesAreCounted, Balanced, Uncounted

\* What the end of a round of process_batch accounts for.
LEMMA RoundAccounts ==
  /\ Accounted(Round("ScheduleStateSaved", TRUE, TRUE)) = 1
  /\ Accounted(Round("ScheduleStateSaved", FALSE, FALSE)) = 1
  /\ Accounted(Round("Rescheduled", TRUE, FALSE)) = 0
  /\ Accounted(Round("Rescheduled", FALSE, FALSE)) = 0
BY DEF Accounted, Round, Event

\* No step upsets the balance of counters and messages.
LEMMA MessagesStep ==
  ASSUME IInv, MTypeOK, MessagesAreCounted, [MNext]_mvars
  PROVE  MTypeOK' /\ MessagesAreCounted'
<1> USE DEF Uncounted
<1>1. CASE MSchedule
  <2>1. UNCHANGED pc
    BY <1>1 DEF MSchedule, Validate, Store, StoreFails, Answer
  <2>2. ASSUME NEW i \in Ids, NEW success \in BOOLEAN,
               Count(handler[i], {Event("Scheduled", success)})
        PROVE  MTypeOK' /\ MessagesAreCounted'
    <3> DEFINE events == {Event("Scheduled", success)}
    <3>1. events \in SUBSET MetricEvent /\ Accounted(events) = 0
      BY DEF Event, MetricEvent, Procedures, Accounted
    <3>2. \A q \in Replicas : Uncounted(q)' = Uncounted(q)
                             /\ Uncounted(q) = Uncounted(q)' + 0
      BY <2>1
    <3> HIDE DEF events
    <3> QED
      BY <2>2, <3>1, <3>2, CountStep DEF events
  <2>3. CASE UNCHANGED monitorVars
    BY <2>1, <2>3, SilentStep
  <2> QED
    BY <1>1, <2>2, <2>3 DEF MSchedule
<1>2. ASSUME NEW p \in Replicas, MPoll(p)
      PROVE  MTypeOK' /\ MessagesAreCounted'
  <2>1. \A q \in Replicas : Uncounted(q)' = Uncounted(q)
                           /\ Uncounted(q) = Uncounted(q)' + 0
    BY <1>2 DEF MPoll, StartBatch, TakeSnapshot, Poll, PollFails, Move,
       NextOf, IInv, TypeOK
  <2>2. ASSUME NEW success \in BOOLEAN, Count(p, {Event("Polled", success)})
        PROVE  MTypeOK' /\ MessagesAreCounted'
    <3> DEFINE events == {Event("Polled", success)}
    <3>1. events \in SUBSET MetricEvent /\ Accounted(events) = 0
      BY DEF Event, MetricEvent, Procedures, Accounted
    <3> HIDE DEF events
    <3> QED
      BY <2>1, <2>2, <3>1, CountStep DEF events
  <2>3. CASE UNCHANGED monitorVars
    BY <2>1, <2>3, SilentStep
  <2> QED
    BY <1>2, <2>2, <2>3 DEF MPoll
<1>3. ASSUME NEW p \in Replicas, MTransmit(p)
      PROVE  MTypeOK' /\ MessagesAreCounted'
  <2>1. ASSUME TransmitOk(p),
               handed' = [handed EXCEPT ![p] = @ + 1],
               UNCHANGED <<counters, died>>
        PROVE  MTypeOK' /\ MessagesAreCounted'
    <3>1. MTypeOK'
      BY <2>1 DEF MTypeOK
    <3>2. ASSUME NEW q \in Replicas PROVE Balanced(q)'
      <4>1. Balanced(q)
        BY DEF MessagesAreCounted, Balanced
      <4>2. CASE q = p
        <5>1. pc[p] = "transmit" /\ pc'[p] = "save"
          BY <2>1 DEF TransmitOk, Move, IInv, TypeOK
        <5>2. /\ Successful(p, "Transmitted") \in Nat
              /\ Failed(p, "ScheduleStateSaved") \in Nat
          BY DEF Successful, Failed, Value, MTypeOK, IsFamily
        <5>3. /\ Successful(p, "Transmitted")' = Successful(p, "Transmitted")
              /\ Failed(p, "ScheduleStateSaved")' =
                   Failed(p, "ScheduleStateSaved")
          BY <2>1 DEF Successful, Failed, Value
        <5>4. handed'[p] = handed[p] + 1 /\ handed[p] \in Nat
          BY <2>1 DEF MTypeOK
        <5> QED
          BY <4>1, <4>2, <5>1, <5>2, <5>3, <5>4 DEF Balanced
      <4>3. CASE q # p
        <5>1. Uncounted(q)' = Uncounted(q) /\ KeepsCounters(q)
          BY <2>1, <4>3 DEF TransmitOk, Move, KeepsCounters, MTypeOK,
             IInv, TypeOK
        <5> QED
          BY <4>1, <5>1, KeptBalance
      <4> QED
        BY <4>2, <4>3
    <3> QED
      BY <3>1, <3>2 DEF MessagesAreCounted, Balanced
  <2>2. ASSUME TransmitErr(p) \/ SchedulerPanics(p), UNCHANGED monitorVars
        PROVE  MTypeOK' /\ MessagesAreCounted'
    <3>1. \A q \in Replicas : Uncounted(q)' = Uncounted(q)
      BY <2>2 DEF TransmitErr, SchedulerPanics, Move, IInv, TypeOK
    <3> QED
      BY <2>2, <3>1, SilentStep
  <2>3. ASSUME NEW procedure \in {"ScheduleStateSaved", "Rescheduled"},
               NEW success \in BOOLEAN, NEW transmitted \in BOOLEAN,
               Count(p, Round(procedure, success, transmitted)),
               FinishCurrent(p, IF procedure = "Rescheduled"
                                THEN "reschedule" ELSE "save"),
               Accounted(Round(procedure, success, transmitted)) =
                 IF procedure = "Rescheduled" THEN 0 ELSE 1
        PROVE  MTypeOK' /\ MessagesAreCounted'
    <3> DEFINE events == Round(procedure, success, transmitted)
    <3>1. events \in SUBSET MetricEvent
      BY RoundType DEF Procedures
    <3>2. \A q \in Replicas : q # p => Uncounted(q)' = Uncounted(q)
      BY <2>3 DEF FinishCurrent, Move, IInv, TypeOK
    <3>3. Uncounted(p) = Uncounted(p)' + Accounted(events)
      BY <2>3 DEF FinishCurrent, Move, NextOf, IInv, TypeOK
    <3> HIDE DEF events
    <3> QED
      BY <2>3, <3>1, <3>2, <3>3, CountStep DEF events
  <2>4. CASE /\ Save(p) \/ SaveFails(p)
             /\ \/ Count(p, Round("ScheduleStateSaved", TRUE, TRUE))
                \/ Count(p, Round("ScheduleStateSaved", FALSE, FALSE))
    BY <2>3, <2>4, RoundAccounts DEF Save, SaveFails
  <2>5. CASE /\ Reschedule(p) \/ RescheduleFails(p)
             /\ \/ Count(p, Round("Rescheduled", TRUE, FALSE))
                \/ Count(p, Round("Rescheduled", FALSE, FALSE))
    BY <2>3, <2>5, RoundAccounts DEF Reschedule, RescheduleFails
  <2> QED
    BY <1>3, <2>1, <2>2, <2>4, <2>5 DEF MTransmit
<1>4. ASSUME NEW p \in Replicas, MStop(p)
      PROVE  MTypeOK' /\ MessagesAreCounted'
  <2>1. IsFamily(NoCounters)
    BY DEF IsFamily, NoCounters
  <2>2. MTypeOK'
    BY <1>4, <2>1 DEF MStop, MTypeOK
  <2>3. ASSUME NEW q \in Replicas PROVE Balanced(q)'
    <3>1. CASE q = p
      <4>1. counters'[p] = NoCounters /\ handed'[p] = 0 /\ pc'[p] = "off"
        BY <1>4 DEF MStop, Stop, MTypeOK, IInv, TypeOK
      <4>2. Successful(p, "Transmitted")' = 0
            /\ Failed(p, "ScheduleStateSaved")' = 0
        BY <4>1 DEF Successful, Failed, Value, NoCounters
      <4> QED
        BY <3>1, <4>1, <4>2 DEF Balanced
    <3>2. CASE q # p
      <4>1. /\ Uncounted(q)' = Uncounted(q)
            /\ KeepsCounters(q)
            /\ Balanced(q)
        BY <1>4, <3>2 DEF MStop, Stop, KeepsCounters, MTypeOK, IInv, TypeOK,
           MessagesAreCounted, Balanced
      <4> QED
        BY <4>1, KeptBalance
    <3> QED
      BY <3>1, <3>2
  <2> QED
    BY <2>2, <2>3 DEF MessagesAreCounted, Balanced
<1>5. CASE \/ \E p \in Replicas : Boot(p) /\ UNCHANGED monitorVars
           \/ Tick /\ UNCHANGED monitorVars
           \/ UNCHANGED mvars
  <2>1. \A q \in Replicas : Uncounted(q)' = Uncounted(q)
    BY <1>5 DEF Boot, Move, Tick, mvars, vars, IInv, TypeOK
  <2> QED
    BY <1>5, <2>1, SilentStep DEF mvars
<1> QED
  BY <1>1, <1>2, <1>3, <1>4, <1>5 DEF MNext

\* Nothing is counted at the start.
LEMMA MInitCounts == MInit => MTypeOK /\ MessagesAreCounted
<1> SUFFICES ASSUME MInit PROVE MTypeOK /\ MessagesAreCounted
  OBVIOUS
<1>1. MTypeOK
  BY DEF MInit, NoCounters, MTypeOK, IsFamily
<1>2. MessagesAreCounted
  BY DEF MInit, Init, NoCounters, MessagesAreCounted, Successful, Failed,
     Value
<1> QED
  BY <1>1, <1>2

\* Every message handed to the broker shows in the counters once, unless it is
\* about to be saved or the scheduler task died of computing its next datetime.
THEOREM EveryMessageIsCounted == MSpec => []MessagesAreCounted
<1>1. MSpec => []IInv
  BY CountingOnlyWatches, Invariance
<1> QED
  BY <1>1, MInitCounts, MessagesStep, PTL DEF MSpec

-----------------------------------------------------------------------------
(***************************************************************************)
(* Nothing is lost silently.                                               *)
(***************************************************************************)

\* What an operator can see, if only after the fact.
Seen ==
  \/ died
  \/ \E p \in Replicas : HasFailure(counters[p]) \/ pc[p] = "dead"

\* A failure that is counted is seen, and what was seen stays so.
LEMMA CountSeen ==
  ASSUME MTypeOK, NEW p \in Replicas, NEW events \in SUBSET MetricEvent,
         Count(p, events),
         \E procedure : Event(procedure, FALSE) \in events
  PROVE  Seen'
<1>1. IsFamily(counters[p]) /\ counters'[p] = Counted(counters[p], events)
  BY CountEffect DEF CountsFor, MTypeOK
<1>2. HasFailure(counters'[p])
  BY <1>1, FailuresShow
<1> QED
  BY <1>2 DEF Seen, HasFailure

\* A trace of a failure does not vanish while processes go on.
LEMMA CountKeepsSeen ==
  ASSUME MTypeOK, NEW p, NEW events \in SUBSET MetricEvent, Count(p, events),
         \A q \in Replicas : pc[q] = "dead" => pc'[q] = "dead",
         Seen
  PROVE  Seen'
<1>1. ASSUME NEW q \in Replicas, HasFailure(counters[q])
      PROVE  HasFailure(counters'[q])
  <2>1. IsFamily(counters[q])
    BY DEF MTypeOK
  <2>2. CASE q = p
    <3>1. counters'[q] = Counted(counters[q], events)
      BY <2>2, CountEffect DEF CountsFor
    <3> QED
      BY <1>1, <2>1, <3>1, FailuresShow
  <2>3. CASE q # p
    BY <1>1, <2>3, CountEffect DEF KeepsCounters
  <2> QED
    BY <2>2, <2>3
<1>2. died' = died
  BY DEF Count
<1> QED
  BY <1>1, <1>2 DEF Seen, HasFailure

\* Every step leaves what is in progress so, or something to be seen.
LEMMA SeenStep ==
  ASSUME IInv, MTypeOK, [MNext]_mvars
  PROVE  /\ Proceeds \/ Seen'
         /\ Seen => Seen'
<1>1. CASE MSchedule
  <2>1. UNCHANGED pc
    BY <1>1 DEF MSchedule, Validate, Store, StoreFails, Answer
  <2>2. Proceeds
    BY <1>1, Zenon DEF MSchedule, Proceeds
  <2>3. ASSUME NEW i \in Ids, NEW success \in BOOLEAN,
               Count(handler[i], {Event("Scheduled", success)})
        PROVE  Seen => Seen'
    <3> DEFINE events == {Event("Scheduled", success)}
    <3>1. events \in SUBSET MetricEvent
      BY DEF Event, MetricEvent, Procedures
    <3> HIDE DEF events
    <3> QED
      BY <2>1, <2>3, <3>1, CountKeepsSeen DEF events
  <2>4. ASSUME UNCHANGED monitorVars PROVE Seen => Seen'
    BY <2>1, <2>4 DEF monitorVars, Seen, HasFailure
  <2> QED
    BY <1>1, <2>2, <2>3, <2>4 DEF MSchedule
<1>2. ASSUME NEW p \in Replicas, MPoll(p)
      PROVE  (Proceeds \/ Seen') /\ (Seen => Seen')
  <2>1. \A q \in Replicas : pc[q] = "dead" => pc'[q] = "dead"
    BY <1>2 DEF MPoll, StartBatch, TakeSnapshot, Poll, PollFails, Move,
       IInv, TypeOK
  <2>2. ASSUME NEW success \in BOOLEAN, Count(p, {Event("Polled", success)})
        PROVE  (~success => Seen') /\ (Seen => Seen')
    <3> DEFINE events == {Event("Polled", success)}
    <3>1. events \in SUBSET MetricEvent
      BY DEF Event, MetricEvent, Procedures
    <3>2. ~success => Event("Polled", FALSE) \in events
      OBVIOUS
    <3> HIDE DEF events
    <3>3. Count(p, events)
      BY <2>2 DEF events
    <3> QED
      BY <2>1, <3>1, <3>2, <3>3, CountSeen, CountKeepsSeen
  <2>3. ASSUME UNCHANGED monitorVars PROVE Seen => Seen'
    BY <2>1, <2>3 DEF monitorVars, Seen, HasFailure
  <2> QED
    BY <1>2, <2>2, <2>3 DEF MPoll, Proceeds
<1>3. ASSUME NEW p \in Replicas, MTransmit(p)
      PROVE  (Proceeds \/ Seen') /\ (Seen => Seen')
  <2>1. \A q \in Replicas : pc[q] = "dead" => pc'[q] = "dead"
    BY <1>3 DEF MTransmit, TransmitOk, TransmitErr, Save, SaveFails,
       Reschedule, RescheduleFails, SchedulerPanics, FinishCurrent, Move,
       IInv, TypeOK
  <2>2. ASSUME NEW procedure \in {"ScheduleStateSaved", "Rescheduled"},
               NEW success \in BOOLEAN, NEW transmitted \in BOOLEAN,
               Count(p, Round(procedure, success, transmitted))
        PROVE  (~transmitted => Seen') /\ (Seen => Seen')
    <3> DEFINE events == Round(procedure, success, transmitted)
    <3>1. events \in SUBSET MetricEvent
      BY RoundType DEF Procedures
    <3>2. ~transmitted => Event("Transmitted", FALSE) \in events
      BY DEF Round
    <3> HIDE DEF events
    <3>3. Count(p, events)
      BY <2>2 DEF events
    <3> QED
      BY <2>1, <3>1, <3>2, <3>3, CountSeen, CountKeepsSeen
  <2>3. CASE Save(p) /\ Count(p, Round("ScheduleStateSaved", TRUE, TRUE))
    BY <2>2, <2>3 DEF Proceeds
  <2>4. CASE \/ Count(p, Round("ScheduleStateSaved", FALSE, FALSE))
             \/ Count(p, Round("Rescheduled", TRUE, FALSE))
             \/ Count(p, Round("Rescheduled", FALSE, FALSE))
    BY <2>2, <2>4
  <2>5. CASE SchedulerPanics(p) /\ UNCHANGED monitorVars
    BY <2>5 DEF SchedulerPanics, Move, IInv, TypeOK, Seen
  <2>6. CASE /\ TransmitOk(p) \/ TransmitErr(p)
             /\ UNCHANGED <<counters, died>>
    <3>1. Proceeds
      BY <2>6 DEF Proceeds
    <3>2. Seen => Seen'
      BY <2>1, <2>6 DEF Seen, HasFailure
    <3> QED
      BY <3>1, <3>2
  <2> QED
    BY <1>3, <2>3, <2>4, <2>5, <2>6 DEF MTransmit, monitorVars
<1>4. ASSUME NEW p \in Replicas, MStop(p) PROVE Seen'
  BY <1>4 DEF MStop, Seen
<1>5. CASE \/ \E p \in Replicas : Boot(p) /\ UNCHANGED monitorVars
           \/ Tick /\ UNCHANGED monitorVars
           \/ UNCHANGED mvars
  <2>1. Proceeds
    BY <1>5 DEF Proceeds, mvars
  <2>2. \A q \in Replicas : pc[q] = "dead" => pc'[q] = "dead"
    BY <1>5 DEF Boot, Move, Tick, mvars, vars, IInv, TypeOK
  <2>3. UNCHANGED <<counters, died>>
    BY <1>5 DEF monitorVars, mvars
  <2> QED
    BY <2>1, <2>2, <2>3 DEF Seen, HasFailure
<1> QED
  BY <1>1, <1>2, <1>3, <1>4, <1>5 DEF MNext

\* A transmission is in progress from the moment its client is told so, and an
\* occurrence to be sent next comes about only by sending the one before.
LEMMA StoredIsInProgress ==
  ASSUME IInv, [Next]_vars, NEW i \in Ids, request'[i] = "stored",
         ScheduleNext(accepted[i], sent[i])' \in Instant
  PROVE  \/ /\ request[i] = "stored"
            /\ ScheduleNext(accepted[i], sent[i]) \in Instant
         \/ InProgress(i)
         \/ InProgress(i)'
<1> USE DEF clientVars, pollVars
<1>1. CASE /\ UNCHANGED <<accepted, sent>>
           /\ request'[i] = "stored" => request[i] = "stored"
  BY <1>1
<1>2. ASSUME NEW j \in Ids, Store(j) PROVE InProgress(i)' \/ request[i] = "stored"
  <2> DEFINE n == NewTransmission(j, accepted[j])
  <2>1. j # i => request[i] = "stored"
    BY <1>2 DEF Store, Answer, IInv, TypeOK
  <2>2. CASE j = i
    <3>1. request[i] = "validated"
      BY <1>2, <2>2 DEF Store, Answer
    <3>2. accepted[i] \in AnySchedule
      BY <3>1, SchedulerAssumption DEF IInv, TypeOK, RequestsMatch
    <3>3. n \in Transmission /\ KeyOf(n) = <<i, 0>>
      BY <2>2, <3>2, NewTransmissionType DEF NewTransmission, KeyOf
    <3>4. KeyOf(n) \notin DOMAIN table
      BY <3>1, <3>3 DEF IInv, RowsMatch
    <3>5. PICK stamp \in Stamps(i) : table' = Inserted(n, stamp)
      BY <1>2, <2>2 DEF Store, NewRowStored
    <3>6. stamp \in Int /\ TableOK
      BY StampsType DEF IInv, TypeOK
    <3> HIDE DEF n
    <3>7. /\ DOMAIN table' = DOMAIN table \cup {KeyOf(n)}
          /\ KeyOf(n) \notin DOMAIN table =>
               table'[KeyOf(n)] = NewRow(n, stamp)
      BY <3>3, <3>5, <3>6, InsertedEffect
    <3> QED
      BY <3>3, <3>4, <3>7 DEF InProgress, RowsOf, IsUnlocked, NewRow
  <2> QED
    BY <2>1, <2>2
<1>3. ASSUME NEW p \in Replicas, TransmitOk(p)
      PROVE  \/ InProgress(i)
             \/ UNCHANGED request /\ UNCHANGED accepted /\ sent'[i] = sent[i]
  <2>1. PICK t \in batch[p] : sent' = [sent EXCEPT ![t.id] = @ + 1]
    BY <1>3 DEF TransmitOk
  <2>2. CASE t.id = i
    BY <2>2 DEF InProgress, Held
  <2>3. CASE t.id # i
    BY <1>3, <2>1, <2>3 DEF TransmitOk, IInv, TypeOK
  <2> QED
    BY <2>2, <2>3
<1>4. ASSUME NEW p \in Replicas, NEW j \in Ids, NEW s \in Requests,
             Validate(p, j, s)
      PROVE  request[i] = "stored" /\ accepted'[i] = accepted[i]
                                   /\ UNCHANGED sent
  BY <1>4 DEF Validate, IInv, TypeOK
<1>5. CASE \/ \E j \in Ids : StoreFails(j)
           \/ \E p \in Replicas : \/ StartBatch(p) \/ TakeSnapshot(p)
                                  \/ Poll(p) \/ PollFails(p)
                                  \/ TransmitErr(p)
                                  \/ Save(p) \/ SaveFails(p)
                                  \/ SchedulerPanics(p)
                                  \/ Reschedule(p) \/ RescheduleFails(p)
                                  \/ Stop(p) \/ Boot(p)
           \/ Tick
           \/ UNCHANGED vars
  <2>1. /\ UNCHANGED <<accepted, sent>>
        /\ request'[i] = "stored" => request[i] = "stored"
    BY <1>5 DEF StoreFails, Answer, StartBatch, TakeSnapshot, Poll,
       PollFails, TransmitErr, Save, SaveFails, SchedulerPanics, Reschedule,
       RescheduleFails, FinishCurrent, Stop, Boot, Tick, vars, IInv, TypeOK
  <2> QED
    BY <1>1, <2>1
<1> QED
  <2>1. ASSUME NEW j \in Ids, Store(j) PROVE UNCHANGED <<accepted, sent>>
    BY <2>1 DEF Store, Answer
  <2> QED
    BY <1>2, <1>3, <1>4, <1>5, <2>1 DEF Next, SchedulerStep, CallFails

\* No step loses a message without a trace.
LEMMA LossStep ==
  ASSUME ~ResetState, BatchHoldsAll, IInv, LockedIsPast, MTypeOK,
         LossIsCounted, [MNext]_mvars
  PROVE  LossIsCounted'
<1> SUFFICES ASSUME NEW i \in Ids,
                    request'[i] = "stored",
                    ScheduleNext(accepted[i], sent[i])' \in Instant,
                    ~InProgress(i)',
                    ~Seen'
             PROVE  FALSE
  BY DEF LossIsCounted, Seen, HasFailure
<1>1. Proceeds /\ ~Seen
  BY SeenStep
<1>2. InProgress(i)
  <2>1. \/ /\ request[i] = "stored"
           /\ ScheduleNext(accepted[i], sent[i]) \in Instant
        \/ InProgress(i)
    BY StoredIsInProgress, MStepIsStep
  <2> QED
    BY <1>1, <2>1 DEF LossIsCounted, Seen
<1> QED
  BY <1>1, <1>2, ProgressStep

\* A transmission confirmed to a client that has got stuck leaves a failure in
\* the counters of some process, unless a process or its scheduler task died.
THEOREM NothingIsLostSilently ==
  ASSUME ~ResetState, BatchHoldsAll
  PROVE  MSpec => []LossIsCounted
<1>1. MSpec => [](IInv /\ LockedIsPast)
  BY CountingOnlyWatches, Invariance, NothingIsLockedEarly, PTL
<1>2. MInit => LossIsCounted
  BY DEF MInit, Init, LossIsCounted
<1> QED
  BY <1>1, <1>2, MInitCounts, MessagesStep, EveryMessageIsCounted, LossStep,
     PTL DEF MSpec

=============================================================================
