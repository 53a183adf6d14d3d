----------------------- MODULE InMemorySchedulerProofs -----------------------
(***************************************************************************)
(* The safety properties of InMemoryScheduler hold for every set of ids    *)
(* and requests, every batch size and every bound on faults and clock:     *)
(* IInv is inductive and implies them.                                     *)
(***************************************************************************)
EXTENDS InMemoryScheduler, ScheduleLemmas

\* A sequence is a function on its positions, numbered from one.
LEMMA PositionsType ==
  ASSUME transmissions \in Seq(Transmission)
  PROVE  /\ Len(transmissions) \in Nat
         /\ Positions = 1 .. Len(transmissions)
         /\ \A n \in Positions : transmissions[n] \in Transmission
BY DEF Positions

\* A new transmission, and one moved on without a panic, can be stored.
LEMMA NewEntryType ==
  ASSUME NEW i \in Ids, NEW s \in AnySchedule
  PROVE  NewTransmission(i, s) \in Transmission
BY InitialNextType DEF NewTransmission, Transmission

\* An entry after its message was sent is one the repository can hold.
LEMMA SavedEntryType ==
  ASSUME NEW t \in Transmission, IsComputable(t)
  PROVE  /\ Transmitted(t) \in Transmission
         /\ Transmitted(t).id = t.id
         /\ Transmitted(t).schedule = t.schedule
         /\ Transmitted(t).transmission_count = t.transmission_count + 1
<1>1. /\ t.schedule \in AnySchedule
      /\ t.transmission_count + 1 \in Nat
  BY DEF Transmission
<1>2. ScheduleNext(t.schedule, t.transmission_count + 1)
        \in Instant \cup {NoTime, Panic}
  BY <1>1, NextType
<1> QED
  BY <1>1, <1>2 DEF IsComputable, Transmitted, Transmission

\* store_transmission adds one entry behind the others.
LEMMA PushedEffect ==
  ASSUME transmissions \in Seq(Transmission), NEW t \in Transmission,
         transmissions' = Pushed(t)
  PROVE  /\ transmissions' \in Seq(Transmission)
         /\ Positions' = Positions \cup {Len(transmissions) + 1}
         /\ Len(transmissions) + 1 \notin Positions
         /\ transmissions'[Len(transmissions) + 1] = t
         /\ \A n \in Positions : transmissions'[n] = transmissions[n]
BY PositionsType DEF Pushed, Positions

\* save overwrites the entries of its id in place.
LEMMA SavedEffect ==
  ASSUME transmissions \in Seq(Transmission), NEW t \in Transmission,
         transmissions' = Saved(t)
  PROVE  /\ transmissions' \in Seq(Transmission)
         /\ Positions' = Positions
         /\ \A n \in Positions :
              transmissions'[n] = IF transmissions[n].id = t.id
                                  THEN t ELSE transmissions[n]
<1>1. /\ Len(transmissions) \in Nat
      /\ Positions = 1 .. Len(transmissions)
      /\ \A n \in Positions : transmissions[n] \in Transmission
  BY PositionsType
<1>2. \A n \in 1 .. Len(transmissions) :
        (IF transmissions[n].id = t.id THEN t ELSE transmissions[n])
          \in Transmission
  BY <1>1
<1>3. transmissions' =
        [n \in 1 .. Len(transmissions) |->
           IF transmissions[n].id = t.id THEN t ELSE transmissions[n]]
  BY <1>1 DEF Saved
<1>4. transmissions' \in Seq(Transmission)
  BY <1>1, <1>2, <1>3
<1> QED
  BY <1>1, <1>3, <1>4 DEF Positions

\* What is relevant stays relevant.
LEMMA RelevantLater ==
  ASSUME NEW t, NEW c \in Int, NEW d \in Int, c <= d, IsRelevant(t, c)
  PROVE  IsRelevant(t, d)
BY InstantAssumption DEF IsRelevant, Instant

\* Between two steps of the loop a transmission is in hand exactly in the
\* phases that handle it, and its entry is known.
LEMMA CurrentEntry ==
  ASSUME IInv, pc \in {"save", "reschedule"}
  PROVE  /\ current \in Transmission
         /\ \E n \in Positions \ DOMAIN batch : transmissions[n] = current
         /\ \A n \in DOMAIN batch : transmissions[n].id # current.id
<1>1. current \in Transmission /\ current # None
  BY DEF IInv, TypeOK, HeldIsDue
<1> QED
  BY <1>1 DEF IInv, TypeOK, BatchIsFresh, EntriesMatchSent

-----------------------------------------------------------------------------
(***************************************************************************)
(* The initial states, and the steps.                                      *)
(***************************************************************************)

\* The invariant holds of a process that starts.
LEMMA InitIInv == Init => IInv
<1> SUFFICES ASSUME Init PROVE IInv
  OBVIOUS
<1>1. transmissions \in Seq(Transmission) /\ Positions = {}
  BY DEF Init, Positions
<1>2. DOMAIN batch = {}
  BY DEF Init, EmptyBatch
<1>3. batch \in [DOMAIN batch -> Transmission]
  BY <1>2 DEF Init, EmptyBatch
<1>4. TypeOK
  BY <1>1, <1>2, <1>3, InMemoryAssumption DEF Init, TypeOK, Phases, Instant
<1>5. EntriesMatchSent /\ BatchIsFresh
  BY <1>1, <1>2 DEF Init, EntriesMatchSent, BatchIsFresh
<1>6. RequestsMatch
  BY <1>1 DEF Init, RequestsMatch
<1>7. HeldIsDue
  BY <1>2 DEF Init, HeldIsDue
<1> QED
  BY <1>4, <1>5, <1>6, <1>7 DEF IInv

\* A request that passes validation takes a free id.
LEMMA ValidateStep ==
  ASSUME IInv, NEW i \in Ids, NEW s \in Requests, Validate(i, s)
  PROVE  IInv'
<1> USE DEF Validate, taskVars
<1>1. accepted[i] = Unused /\ s # Unused
  BY InMemoryAssumption DEF IInv, RequestsMatch
<1>2. \A n \in Positions : transmissions[n].id # i
  BY DEF IInv, RequestsMatch
<1>3. Positions' = Positions
  BY DEF Positions
<1>4. TypeOK'
  BY <1>3 DEF IInv, TypeOK
<1>5. EntriesMatchSent'
  BY <1>2, <1>3, PositionsType
     DEF IInv, TypeOK, EntriesMatchSent, Unrecorded, Transmission
<1>6. BatchIsFresh'
  BY <1>3 DEF IInv, BatchIsFresh
<1>7. RequestsMatch'
  BY <1>1, <1>3 DEF IInv, TypeOK, RequestsMatch
<1>8. HeldIsDue'
  BY DEF IInv, HeldIsDue
<1> QED
  BY <1>4, <1>5, <1>6, <1>7, <1>8 DEF IInv

\* The new entry is the only one of its id, and nothing of it was sent.
LEMMA StoreStep ==
  ASSUME IInv, NEW i \in Ids, Store(i)
  PROVE  IInv'
<1> USE DEF Store, taskVars
<1> DEFINE t == NewTransmission(i, accepted[i])
           new == Len(transmissions) + 1
<1>1. /\ accepted[i] \in AnySchedule
      /\ sent[i] = 0
      /\ \A n \in Positions : transmissions[n].id # i
  BY InMemoryAssumption DEF IInv, TypeOK, RequestsMatch
<1>2. /\ t \in Transmission
      /\ t.id = i
      /\ t.schedule = accepted[i]
      /\ t.transmission_count = 0
  BY <1>1, NewEntryType DEF NewTransmission
<1>3. /\ transmissions' \in Seq(Transmission)
      /\ Positions' = Positions \cup {new}
      /\ new \notin Positions
      /\ transmissions'[new] = t
      /\ \A n \in Positions : transmissions'[n] = transmissions[n]
  <2> HIDE DEF t
  <2> QED
    BY <1>2, PushedEffect DEF IInv, TypeOK, t
<1> HIDE DEF t, new
<1>4. TypeOK'
  BY <1>3 DEF IInv, TypeOK
<1>5. pc = "save" => current.id # i
  BY <1>1, CurrentEntry
<1>6. EntriesMatchSent'
  BY <1>1, <1>2, <1>3, <1>5 DEF IInv, EntriesMatchSent, Unrecorded
<1>7. BatchIsFresh'
  BY <1>3 DEF IInv, TypeOK, BatchIsFresh
<1>8. RequestsMatch'
  BY <1>2, <1>3 DEF IInv, TypeOK, RequestsMatch
<1>9. HeldIsDue'
  BY DEF IInv, TypeOK, HeldIsDue
<1> QED
  BY <1>4, <1>6, <1>7, <1>8, <1>9 DEF IInv

\* What a poll hands to the loop are copies of entries that are due.
LEMMA PollStep ==
  ASSUME IInv, Poll
  PROVE  IInv'
<1> USE DEF Poll, Move, clientVars
<1> DEFINE polled == Polled(now, BatchSize)
<1>1. /\ now \in Int /\ clock \in Int /\ now <= clock
      /\ current = None
      /\ pc = "poll"
  BY DEF IInv, TypeOK, HeldIsDue
<1>2. /\ DOMAIN polled \subseteq Positions
      /\ \A n \in DOMAIN polled : polled[n] = transmissions[n]
  BY DEF Polled, First, DuePositions
<1>3. /\ DOMAIN batch' \subseteq Positions
      /\ batch' = [n \in DOMAIN batch' |-> batch'[n]]
      /\ \A n \in DOMAIN batch' : /\ batch'[n] = transmissions[n]
                                  /\ IsRelevant(batch'[n], now)
  <2> HIDE DEF polled
  <2> QED
    BY <1>2 DEF Relevant, polled
<1>4. pc' = IF DOMAIN batch' = {} THEN "idle" ELSE "transmit"
  BY DEF NextOf
<1>5. Positions' = Positions
  BY DEF Positions
<1>6. TypeOK'
  <2>1. batch' \in [DOMAIN batch' -> Transmission]
    BY <1>3, PositionsType DEF IInv, TypeOK
  <2>2. now' \in 0 .. MaxClock
    BY InMemoryAssumption DEF Instant
  <2> QED
    BY <1>3, <1>4, <1>5, <2>1, <2>2 DEF IInv, TypeOK, Phases
<1>7. EntriesMatchSent'
  BY <1>1, <1>4, <1>5 DEF IInv, EntriesMatchSent, Unrecorded
<1>8. BatchIsFresh'
  BY <1>1, <1>3, <1>5 DEF BatchIsFresh
<1>9. RequestsMatch'
  BY <1>5 DEF IInv, RequestsMatch
<1>10. HeldIsDue'
  <2>1. \A n \in DOMAIN batch' : IsRelevant(batch'[n], clock)
    BY <1>1, <1>3, RelevantLater
  <2>2. 0 <= clock
    BY DEF IInv, TypeOK
  <2> QED
    BY <1>1, <1>4, <2>1, <2>2 DEF HeldIsDue
<1> QED
  BY <1>6, <1>7, <1>8, <1>9, <1>10 DEF IInv

\* What the loop takes out of the batch is an entry that no other copy of the
\* batch stands for.
LEMMA TakeEffect ==
  ASSUME IInv, NEW n, Take(n), pc = "transmit"
  PROVE  /\ n \in Positions
         /\ batch[n] = transmissions[n]
         /\ current' = transmissions[n]
         /\ current' \in Transmission
         /\ current' # None
         /\ IsRelevant(current', clock)
         /\ DOMAIN batch' = DOMAIN batch \ {n}
         /\ batch' \in [DOMAIN batch' -> Transmission]
         /\ \A m \in DOMAIN batch' : batch'[m] = batch[m]
<1>1. /\ n \in DOMAIN batch
      /\ n \in Positions
      /\ batch[n] = transmissions[n]
      /\ batch[n] \in Transmission
  BY PositionsType DEF Take, IInv, TypeOK, BatchIsFresh
<1>2. /\ batch' = [m \in DOMAIN batch \ {n} |-> batch[m]]
      /\ current' = batch[n]
  BY DEF Take
<1>3. \A m \in DOMAIN batch : batch[m] \in Transmission
  BY DEF IInv, TypeOK
<1> QED
  BY <1>1, <1>2, <1>3, InMemoryAssumption DEF IInv, HeldIsDue

\* The message of the entry taken goes out; the entry is one behind until it
\* is saved.
LEMMA TransmitOkStep ==
  ASSUME IInv, TransmitOk
  PROVE  IInv'
<1> USE DEF TransmitOk, Move, clientVars
<1>1. PICK n \in Positions : Take(n) /\ sent' = [sent EXCEPT ![batch[n].id] = @ + 1]
  OBVIOUS
<1>2. /\ batch[n] = transmissions[n]
      /\ current' = transmissions[n]
      /\ current' \in Transmission
      /\ current' # None
      /\ IsRelevant(current', clock)
      /\ DOMAIN batch' = DOMAIN batch \ {n}
      /\ batch' \in [DOMAIN batch' -> Transmission]
      /\ \A m \in DOMAIN batch' : batch'[m] = batch[m]
  BY <1>1, TakeEffect
<1>3. Positions' = Positions /\ pc = "transmit" /\ pc' = "save"
  BY DEF Positions
<1>4. /\ current'.id \in Ids
      /\ sent' = [sent EXCEPT ![current'.id] = @ + 1]
      /\ sent[current'.id] \in Nat
  BY <1>1, <1>2 DEF IInv, TypeOK, Transmission
<1>5. TypeOK'
  <2>1. sent' \in [Ids -> Nat]
    BY <1>4 DEF IInv, TypeOK
  <2> QED
    BY <1>2, <1>3, <2>1 DEF IInv, TypeOK, Phases
<1>6. EntriesMatchSent'
  <2>1. \A m \in Positions :
          /\ transmissions[m].id \in Ids
          /\ transmissions[m].transmission_count \in Nat
    BY PositionsType DEF IInv, TypeOK, Transmission
  <2>2. \A m \in Positions :
          sent[transmissions[m].id] - transmissions[m].transmission_count = 0
    BY <1>3 DEF IInv, EntriesMatchSent, Unrecorded
  <2>3. ASSUME NEW m \in Positions
        PROVE  sent'[transmissions[m].id] - transmissions[m].transmission_count
                 \in IF current'.id = transmissions[m].id THEN {1} ELSE {0}
    BY <1>4, <2>1, <2>2 DEF IInv, TypeOK
  <2> QED
    BY <1>3, <2>3 DEF IInv, EntriesMatchSent, Unrecorded
<1>7. BatchIsFresh'
  BY <1>2, <1>3 DEF IInv, BatchIsFresh
<1>8. RequestsMatch'
  <2>1. request[current'.id] \notin {"none", "validated"}
    BY <1>2, <1>4 DEF IInv, RequestsMatch
  <2> QED
    BY <1>3, <1>4, <2>1 DEF IInv, TypeOK, RequestsMatch
<1>9. HeldIsDue'
  BY <1>2, <1>3 DEF IInv, HeldIsDue
<1> QED
  BY <1>5, <1>6, <1>7, <1>8, <1>9 DEF IInv

\* A fault is counted, and within its bound.
LEMMA FaultType ==
  ASSUME faults \in 0 .. MaxFaults, NEW kind, Fault(kind)
  PROVE  faults' \in 0 .. MaxFaults
BY InMemoryAssumption DEF Fault

\* The broker refuses the message: nothing was sent, the entry is in hand.
LEMMA TransmitErrStep ==
  ASSUME IInv, TransmitErr
  PROVE  IInv'
<1> USE DEF TransmitErr, Move, clientVars
<1>1. PICK n \in Positions : Take(n)
  OBVIOUS
<1>2. /\ batch[n] = transmissions[n]
      /\ current' = transmissions[n]
      /\ current' \in Transmission
      /\ current' # None
      /\ IsRelevant(current', clock)
      /\ DOMAIN batch' = DOMAIN batch \ {n}
      /\ batch' \in [DOMAIN batch' -> Transmission]
      /\ \A m \in DOMAIN batch' : batch'[m] = batch[m]
  BY <1>1, TakeEffect
<1>3. Positions' = Positions /\ pc = "transmit" /\ pc' = "reschedule"
  BY DEF Positions
<1>4. TypeOK'
  BY <1>2, <1>3, FaultType DEF IInv, TypeOK, Phases
<1>5. EntriesMatchSent'
  BY <1>3 DEF IInv, EntriesMatchSent, Unrecorded
<1>6. BatchIsFresh'
  BY <1>2, <1>3 DEF IInv, BatchIsFresh
<1>7. RequestsMatch'
  BY <1>3 DEF IInv, RequestsMatch
<1>8. HeldIsDue'
  BY <1>2, <1>3 DEF IInv, HeldIsDue
<1> QED
  BY <1>4, <1>5, <1>6, <1>7, <1>8 DEF IInv

\* Saving the message just sent makes its entry stand for the next one.
LEMMA SaveStep ==
  ASSUME IInv, Save
  PROVE  IInv'
<1> USE DEF Save, FinishCurrent, Move, clientVars
<1> DEFINE t == Transmitted(current)
<1>1. /\ current \in Transmission
      /\ pc = "save"
      /\ \E n \in Positions \ DOMAIN batch : transmissions[n] = current
      /\ \A n \in DOMAIN batch : transmissions[n].id # current.id
  BY CurrentEntry
<1>2. /\ t \in Transmission
      /\ t.id = current.id
      /\ t.schedule = current.schedule
      /\ t.transmission_count = current.transmission_count + 1
  BY <1>1, SavedEntryType
<1> HIDE DEF t
<1>3. /\ transmissions' \in Seq(Transmission)
      /\ Positions' = Positions
      /\ \A n \in Positions :
           transmissions'[n] = IF transmissions[n].id = current.id
                               THEN t ELSE transmissions[n]
  BY <1>2, SavedEffect DEF IInv, TypeOK, t
<1>4. \A n \in Positions : transmissions'[n].id = transmissions[n].id
  BY <1>2, <1>3
<1>5. pc' = IF DOMAIN batch = {} THEN "idle" ELSE "transmit"
  BY DEF NextOf
<1>6. TypeOK'
  BY <1>3, <1>5 DEF IInv, TypeOK, Phases
<1>7. EntriesMatchSent'
  <2>1. ASSUME NEW n \in Positions
        PROVE  /\ transmissions'[n].schedule = accepted[transmissions[n].id]
               /\ sent[transmissions[n].id]
                    - transmissions'[n].transmission_count = 0
    <3>1. /\ transmissions[n].schedule = accepted[transmissions[n].id]
          /\ sent[transmissions[n].id] - transmissions[n].transmission_count
               \in IF current.id = transmissions[n].id THEN {1} ELSE {0}
      BY <1>1 DEF IInv, EntriesMatchSent, Unrecorded
    <3>2. CASE transmissions[n].id = current.id
      <4>1. transmissions[n] = current
        BY <1>1, <3>2 DEF IInv, EntriesMatchSent
      <4>2. /\ sent[current.id] \in Nat
            /\ current.transmission_count \in Nat
        BY <1>1 DEF IInv, TypeOK, Transmission
      <4> QED
        BY <1>2, <1>3, <3>1, <3>2, <4>1, <4>2
    <3>3. CASE transmissions[n].id # current.id
      BY <1>3, <3>1, <3>3
    <3> QED
      BY <3>2, <3>3
  <2> QED
    BY <1>3, <1>4, <1>5, <2>1 DEF IInv, EntriesMatchSent, Unrecorded
<1>8. BatchIsFresh'
  BY <1>1, <1>3 DEF IInv, TypeOK, BatchIsFresh
<1>9. RequestsMatch'
  BY <1>3, <1>4 DEF IInv, RequestsMatch
<1>10. HeldIsDue'
  BY <1>1, <1>5 DEF IInv, HeldIsDue
<1> QED
  BY <1>6, <1>7, <1>8, <1>9, <1>10 DEF IInv

\* reschedule changes nothing, and nothing was sent.
LEMMA RescheduleStep ==
  ASSUME IInv, Reschedule
  PROVE  IInv'
<1> USE DEF Reschedule, FinishCurrent, Move, clientVars
<1>1. /\ pc' = IF DOMAIN batch = {} THEN "idle" ELSE "transmit"
      /\ Positions' = Positions
  BY DEF NextOf, Positions
<1>2. TypeOK'
  BY <1>1 DEF IInv, TypeOK, Phases
<1>3. EntriesMatchSent' /\ RequestsMatch'
  BY <1>1 DEF IInv, EntriesMatchSent, Unrecorded, RequestsMatch
<1>4. BatchIsFresh'
  BY <1>1 DEF IInv, BatchIsFresh
<1>5. HeldIsDue'
  BY <1>1 DEF IInv, HeldIsDue
<1> QED
  BY <1>2, <1>3, <1>4, <1>5 DEF IInv

\* The steps that drop the locals of the scheduler task, a process that ends
\* among them.
LEMMA EndStep ==
  ASSUME IInv, SchedulerPanics \/ Stop
  PROVE  IInv'
<1>1. /\ DOMAIN batch' = {}
      /\ batch' \in [DOMAIN batch' -> Transmission]
      /\ current' = None
  <2>1. DOMAIN EmptyBatch = {} /\ EmptyBatch \in [DOMAIN EmptyBatch -> Transmission]
    BY DEF EmptyBatch
  <2> QED
    BY <2>1 DEF SchedulerPanics, Stop
<1>2. ASSUME SchedulerPanics PROVE IInv'
  <2> USE <1>2 DEF SchedulerPanics, Move, clientVars
  <2>1. Positions' = Positions
    BY DEF Positions
  <2>2. TypeOK'
    BY <1>1 DEF IInv, TypeOK, Phases
  <2>3. EntriesMatchSent'
    <3>1. \A n \in Positions :
            sent[transmissions[n].id] - transmissions[n].transmission_count
              \in {0, 1}
      BY DEF IInv, EntriesMatchSent, Unrecorded
    <3> QED
      BY <2>1, <3>1 DEF IInv, EntriesMatchSent, Unrecorded
  <2>4. BatchIsFresh' /\ RequestsMatch'
    BY <1>1, <2>1 DEF IInv, BatchIsFresh, RequestsMatch
  <2>5. HeldIsDue'
    BY <1>1 DEF IInv, HeldIsDue
  <2> QED
    BY <2>2, <2>3, <2>4, <2>5 DEF IInv
<1>3. ASSUME Stop PROVE IInv'
  <2> USE <1>3 DEF Stop
  <2>1. Positions' = {} /\ transmissions' \in Seq(Transmission)
    BY DEF Positions
  <2>2. TypeOK'
    <3>1. faults' \in 0 .. MaxFaults
      BY FaultType DEF IInv, TypeOK
    <3>2. request' \in [Ids -> {"none", "validated", "stored", "failed"}]
      BY DEF IInv, TypeOK
    <3>3. now' \in 0 .. MaxClock
      BY InMemoryAssumption DEF Instant
    <3> QED
      BY <1>1, <2>1, <3>1, <3>2, <3>3 DEF IInv, TypeOK, Phases
  <2>3. EntriesMatchSent' /\ BatchIsFresh'
    BY <1>1, <2>1 DEF EntriesMatchSent, BatchIsFresh
  <2>4. RequestsMatch'
    BY <2>1 DEF IInv, RequestsMatch
  <2>5. HeldIsDue'
    BY <1>1 DEF IInv, TypeOK, HeldIsDue
  <2> QED
    BY <2>2, <2>3, <2>4, <2>5 DEF IInv
<1> QED
  BY <1>2, <1>3

\* A wake-up, a restart and the clock touch no entry.
LEMMA QuietStep ==
  ASSUME IInv, StartBatch \/ Boot \/ Tick \/ UNCHANGED vars
  PROVE  IInv'
<1> USE DEF clientVars, taskVars, vars, Move, StartBatch, Boot, Tick
<1>1. Positions' = Positions
  BY DEF Positions
<1>2. /\ clock \in Int /\ clock' \in Int /\ clock <= clock'
      /\ clock' \in 0 .. MaxClock
  BY InMemoryAssumption DEF IInv, TypeOK, Instant
<1>3. TypeOK'
  BY <1>1, <1>2 DEF IInv, TypeOK, Phases
<1>4. EntriesMatchSent'
  BY <1>1 DEF IInv, EntriesMatchSent, Unrecorded
<1>5. BatchIsFresh' /\ RequestsMatch'
  BY <1>1 DEF IInv, BatchIsFresh, RequestsMatch
<1>6. HeldIsDue'
  <2>1. \A t : IsRelevant(t, clock) => IsRelevant(t, clock')
    BY <1>2, RelevantLater
  <2>2. now' <= clock'
    BY <1>2 DEF IInv, TypeOK, HeldIsDue
  <2> QED
    BY <2>1, <2>2 DEF IInv, HeldIsDue
<1> QED
  BY <1>3, <1>4, <1>5, <1>6 DEF IInv

\* Every step keeps it.
LEMMA NextIInv == IInv /\ [Next]_vars => IInv'
BY ValidateStep, StoreStep, PollStep, TransmitOkStep, TransmitErrStep,
   SaveStep, RescheduleStep, EndStep, QuietStep, Zenon
   DEF Next, SchedulerStep

\* The invariant the properties follow from.
THEOREM Invariance == Spec => []IInv
BY InitIInv, NextIInv, PTL DEF Spec

\* Every id has one entry at most, which stands for the next occurrence to be
\* sent: no poll hands out an occurrence again, and none is skipped.
THEOREM EntriesStandForTheNext == Spec => []EntriesMatchSent
<1>1. IInv => EntriesMatchSent
  BY DEF IInv
<1> QED
  BY <1>1, Invariance, PTL

\* The copies poll_transmissions has returned equal their entries for as long
\* as the batch is worked off, though the mutex was released.
THEOREM CopiesAreFresh == Spec => []BatchIsFresh
<1>1. IInv => BatchIsFresh
  BY DEF IInv
<1> QED
  BY <1>1, Invariance, PTL

-----------------------------------------------------------------------------
(***************************************************************************)
(* The program does what Delivery promises.                                *)
(***************************************************************************)

\* Delivery has its own copy of Schedules, which says the same.
LEMMA SameSchedules ==
  /\ Delivered!Instant = Instant
  /\ \A s, n : Delivered!ScheduleNext(s, n) = ScheduleNext(s, n)
  /\ \A t, s : Delivered!IsValidSchedule(t, s) <=> IsValidSchedule(t, s)
<1>1. \A S, n, t : Delivered!IsNth(S, n, t) <=> IsNth(S, n, t)
  BY Zenon DEF Delivered!IsNth, IsNth, Delivered!Cardinality, Cardinality
<1>2. \A S, n : Delivered!NthInstant(S, n) = NthInstant(S, n)
  BY <1>1, Zenon DEF Delivered!NthInstant, NthInstant
<1>3. \A s, n : Delivered!CronNext(s, n) = CronNext(s, n)
  BY <1>2 DEF Delivered!CronNext, CronNext, Delivered!FiringTimes, FiringTimes,
              Delivered!IsExhausted, IsExhausted
<1>4. \A s, n : Delivered!IntervalNext(s, n) = IntervalNext(s, n)
  BY DEF Delivered!IntervalNext, IntervalNext, Delivered!IsExhausted,
         IsExhausted, Delivered!CheckedInstant, CheckedInstant
<1>5. \A s, n : Delivered!ScheduleNext(s, n) = ScheduleNext(s, n)
  BY <1>3, <1>4 DEF Delivered!ScheduleNext, ScheduleNext,
                    Delivered!DelayedNext, DelayedNext
<1>6. \A t, s : Delivered!IsValidSchedule(t, s) <=> IsValidSchedule(t, s)
  BY DEF Delivered!IsValidSchedule, IsValidSchedule, Delivered!StartOf, StartOf
<1> QED
  BY <1>5, <1>6 DEF Delivered!Instant, Instant

\* Nothing sent yet is nothing delivered yet.
LEMMA InitRefines == Init => Delivered!Init
BY DEF Init, Delivered!Init

\* TransmitOk delivers the next occurrence of the entry it takes, which is
\* due; Validate and Tick are themselves, and nothing else shows.
LEMMA NextRefines == IInv /\ [Next]_vars => [Delivered!Next]_(Delivered!vars)
<1> SUFFICES ASSUME IInv, [Next]_vars
             PROVE  [Delivered!Next]_(Delivered!vars)
  OBVIOUS
<1> USE DEF clientVars, taskVars, Delivered!vars
<1>1. ASSUME NEW i \in Ids, NEW s \in Requests, Validate(i, s)
      PROVE  Delivered!Next
  <2>1. accepted[i] = Unused
    BY <1>1 DEF Validate, IInv, RequestsMatch
  <2> QED
    BY <1>1, <2>1, SameSchedules DEF Validate, Delivered!Next, Delivered!Accept
<1>2. ASSUME TransmitOk PROVE Delivered!Next
  <2>1. pc = "transmit"
    BY <1>2 DEF TransmitOk, Move
  <2>2. PICK n \in Positions : Take(n) /\ sent' = [sent EXCEPT ![batch[n].id] = @ + 1]
    BY <1>2 DEF TransmitOk
  <2> DEFINE t == transmissions[n]
  <2>3. /\ batch[n] = t
        /\ t \in Transmission
        /\ IsRelevant(t, clock)
    BY <2>1, <2>2, TakeEffect
  <2>4. /\ t.id \in Ids
        /\ t.schedule = accepted[t.id]
        /\ t.schedule \in AnySchedule
        /\ t.transmission_count = sent[t.id]
    BY <2>1, <2>3 DEF IInv, TypeOK, EntriesMatchSent, Unrecorded, Transmission
  <2>5. Delivered!Deliver(t.id)
    BY <1>2, <2>2, <2>3, <2>4, SameSchedules, InMemoryAssumption
       DEF TransmitOk, Delivered!Deliver, Delivered!Due, IsRelevant
  <2> QED
    BY <2>4, <2>5 DEF Delivered!Next
<1>3. ASSUME Tick PROVE Delivered!Next
  BY <1>3 DEF Tick, Delivered!Next, Delivered!Tick
<1>4. CASE \/ \E i \in Ids : Store(i)
           \/ StartBatch \/ Poll \/ TransmitErr \/ Save \/ SchedulerPanics
           \/ Reschedule \/ Stop \/ Boot
           \/ UNCHANGED vars
  BY <1>4 DEF Store, StartBatch, Poll, TransmitErr, Save, SchedulerPanics,
     Reschedule, FinishCurrent, Stop, Boot, vars
<1> QED
  BY <1>1, <1>2, <1>3, <1>4 DEF Next, SchedulerStep

\* Messages are handed to the broker in order, none twice and none early,
\* across restarts too.
THEOREM Refinement == Spec => ImplementsDelivery
<1>1. ImplementsDelivery <=> Delivered!Init /\ [][Delivered!Next]_(Delivered!vars)
  BY DEF ImplementsDelivery, Delivered!Spec
<1> QED
  BY <1>1, InitRefines, NextRefines, Invariance, PTL DEF Spec
=============================================================================
