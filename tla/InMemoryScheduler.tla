-------------------------- MODULE InMemoryScheduler --------------------------
(***************************************************************************)
(* The program configured with the in-memory repository: one process, its  *)
(* requests and its scheduler task (src/scheduler.rs) on the vector of     *)
(* RepositoryInMemory.  Requests are handled on other threads than the     *)
(* scheduler, so they come between any two of its accesses to the vector.  *)
(* A process that ends takes the vector with it.                           *)
(***************************************************************************)
EXTENDS RepositoryInMemory

CONSTANTS
  Requests,     \* the schedules clients ask for
  BatchSize,    \* BATCH_SIZE
  FaultKinds,   \* the faults considered: "crash", "publish"
  MaxFaults,    \* bound on the number of faults
  MaxClock,     \* bound on the clock
  Unused,       \* an id no request has been given yet
  None          \* no transmission

ASSUME InMemoryAssumption ==
  /\ Requests \subseteq AnySchedule
  /\ Unused \notin AnySchedule
  /\ None \notin Transmission
  /\ BatchSize \in Nat \ {0}
  /\ MaxFaults \in Nat
  /\ MaxClock \in Instant

VARIABLES
  clock,      \* what Utc::now returns
  request,    \* how far the request that was given the id has come
  accepted,   \* the schedule of that request, once validated
  sent,       \* how often the message of the id was handed to the broker
  pc,         \* where the process and its scheduler task are
  now,        \* `now` of process_batch
  batch,      \* relevant_schedules not handled yet, by position
  current,    \* the transmission being handled
  faults      \* how many faults happened so far

clientVars == <<request, accepted>>
taskVars == <<pc, now, batch, current>>
vars == <<clock, clientVars, sent, transmissions, taskVars, faults>>

Phases == {"off", "idle", "poll", "transmit", "save", "reschedule", "dead"}

EmptyBatch == [n \in {} |-> None]

Init ==
  /\ clock = 0
  /\ request = [i \in Ids |-> "none"]
  /\ accepted = [i \in Ids |-> Unused]
  /\ sent = [i \in Ids |-> 0]
  /\ transmissions = <<>>
  /\ pc = "off"
  /\ now = 0
  /\ batch = EmptyBatch
  /\ current = None
  /\ faults = 0

Fault(kind) ==
  /\ kind \in FaultKinds
  /\ faults < MaxFaults
  /\ faults' = faults + 1

Move(from, to) == pc = from /\ pc' = to

-----------------------------------------------------------------------------
(***************************************************************************)
(* TransmissionScheduler::schedule.  Storing cannot fail.                  *)
(***************************************************************************)

Validate(i, s) ==
  /\ pc # "off"
  /\ request[i] = "none"
  /\ IsValidSchedule(clock, s)
  /\ request' = [request EXCEPT ![i] = "validated"]
  /\ accepted' = [accepted EXCEPT ![i] = s]
  /\ UNCHANGED <<clock, sent, transmissions, taskVars, faults>>

Store(i) ==
  /\ request[i] = "validated"
  /\ request' = [request EXCEPT ![i] = "stored"]
  /\ transmissions' = Pushed(NewTransmission(i, accepted[i]))
  /\ UNCHANGED <<clock, accepted, sent, taskVars, faults>>

-----------------------------------------------------------------------------
(***************************************************************************)
(* run, process_batch and transmit.                                        *)
(***************************************************************************)

StartBatch ==
  /\ Move("idle", "poll")
  /\ now' = clock
  /\ UNCHANGED <<clock, clientVars, sent, transmissions, batch, current,
                 faults>>

\* With nothing left to do the loop goes to sleep.
NextOf(todo) == IF DOMAIN todo = {} THEN "idle" ELSE "transmit"

\* Mutant: what a poll returns is not filtered.
Unfiltered(polled) == polled

\* The filter of process_batch.
Relevant(polled) ==
  [n \in {m \in DOMAIN polled : IsRelevant(polled[m], now)} |-> polled[n]]

Poll ==
  /\ batch' = Relevant(Polled(now, BatchSize))
  /\ Move("poll", NextOf(batch'))
  /\ now' = 0
  /\ UNCHANGED <<clock, clientVars, sent, transmissions, current, faults>>

\* The loop takes the copies in the order of the vector.
Take(n) ==
  /\ n \in DOMAIN batch
  /\ \A m \in DOMAIN batch : n <= m
  /\ batch' = [m \in DOMAIN batch \ {n} |-> batch[m]]
  /\ current' = batch[n]

TransmitOk ==
  /\ Move("transmit", "save")
  /\ \E n \in Positions :
       /\ Take(n)
       /\ sent' = [sent EXCEPT ![batch[n].id] = @ + 1]
  /\ UNCHANGED <<clock, clientVars, transmissions, now, faults>>

TransmitErr ==
  /\ Move("transmit", "reschedule")
  /\ Fault("publish")
  /\ \E n \in Positions : Take(n)
  /\ UNCHANGED <<clock, clientVars, sent, transmissions, now>>

\* The end of one round of the loop over relevant_schedules.
FinishCurrent(from) ==
  /\ Move(from, NextOf(batch))
  /\ current' = None
  /\ UNCHANGED <<clock, clientVars, sent, now, batch, faults>>

IsComputable(t) == Transmitted(t).next # Panic

Save ==
  /\ FinishCurrent("save")
  /\ IsComputable(current)
  /\ transmissions' = Saved(Transmitted(current))

\* transmitted() panics, outside the mutex: the task is gone, the process
\* serves requests still.
SchedulerPanics ==
  /\ Move("save", "dead")
  /\ ~IsComputable(current)
  /\ batch' = EmptyBatch
  /\ current' = None
  /\ UNCHANGED <<clock, clientVars, sent, transmissions, now, faults>>

\* Mutant: a message that could not be sent is given up.
RescheduleGivesUp ==
  /\ FinishCurrent("reschedule")
  /\ transmissions' = Saved([current EXCEPT !.next = NoTime])

\* reschedule has nothing to do: the entry was never marked.
Reschedule ==
  /\ FinishCurrent("reschedule")
  /\ UNCHANGED transmissions

-----------------------------------------------------------------------------
(***************************************************************************)
(* The process and its surroundings.                                       *)
(***************************************************************************)

\* Killed or told to stop, at whatever step the tasks have reached.
Stop ==
  /\ pc # "off"
  /\ Fault("crash")
  /\ pc' = "off"
  /\ now' = 0
  /\ batch' = EmptyBatch
  /\ current' = None
  /\ transmissions' = <<>>
  /\ request' =
       [i \in Ids |-> IF request[i] = "validated" THEN "failed" ELSE request[i]]
  /\ UNCHANGED <<clock, accepted, sent>>

Boot ==
  /\ Move("off", "idle")
  /\ UNCHANGED <<clock, clientVars, sent, transmissions, now, batch, current,
                 faults>>

Tick ==
  /\ clock < MaxClock
  /\ clock' = clock + 1
  /\ UNCHANGED <<clientVars, sent, transmissions, taskVars, faults>>

\* What the scheduler task does when the broker takes its messages.
SchedulerStep ==
  \/ StartBatch
  \/ Poll
  \/ TransmitOk
  \/ Save
  \/ SchedulerPanics
  \/ Reschedule

Next ==
  \/ \E i \in Ids, s \in Requests : Validate(i, s)
  \/ \E i \in Ids : Store(i)
  \/ SchedulerStep
  \/ TransmitErr
  \/ Stop
  \/ Boot
  \/ Tick

Spec == Init /\ [][Next]_vars

\* As in PostgresScheduler: tasks run, and a process that ended is restarted.
Fairness ==
  /\ WF_vars(Tick)
  /\ \A i \in Ids : WF_vars(Store(i))
  /\ WF_vars(SchedulerStep)
  /\ WF_vars(Boot)

FairSpec == Spec /\ Fairness

-----------------------------------------------------------------------------
(***************************************************************************)
(* Safety.                                                                 *)
(***************************************************************************)

TypeOK ==
  /\ clock \in 0 .. MaxClock
  /\ request \in [Ids -> {"none", "validated", "stored", "failed"}]
  /\ accepted \in [Ids -> Requests \cup {Unused}]
  /\ sent \in [Ids -> Nat]
  /\ transmissions \in Seq(Transmission)
  /\ pc \in Phases
  /\ now \in 0 .. MaxClock
  /\ DOMAIN batch \subseteq Positions
  /\ batch \in [DOMAIN batch -> Transmission]
  /\ current \in Transmission \cup {None}
  /\ faults \in 0 .. MaxFaults

\* How many messages of t were sent that its entry does not count: the one
\* about to be saved, or the one a panic kept from being saved.
Unrecorded(t) ==
  IF pc = "save" /\ current.id = t.id THEN {1}
  ELSE IF pc = "dead" THEN {0, 1}
  ELSE {0}

\* Every id has one entry at most, and it stands for the next occurrence to
\* be sent, save for the moment between sending a message and saving that:
\* a poll can never hand out an occurrence again, and none is skipped.
EntriesMatchSent ==
  \A n \in Positions :
    LET t == transmissions[n]
    IN  /\ \A m \in Positions : transmissions[m].id = t.id => m = n
        /\ t.schedule = accepted[t.id]
        /\ sent[t.id] - t.transmission_count \in Unrecorded(t)

\* The copies a poll has returned do not grow stale while the batch is
\* worked off, though the mutex was released: requests only push, and save
\* touches no other entry than that of the message just sent.
BatchIsFresh ==
  /\ \A n \in DOMAIN batch : batch[n] = transmissions[n]
  /\ current # None => \E n \in Positions \ DOMAIN batch :
                         transmissions[n] = current

\* An id is free until a request is validated, and untouched until stored.
RequestsMatch ==
  \A i \in Ids :
    /\ request[i] = "none" <=> accepted[i] = Unused
    /\ request[i] \in {"none", "validated"} =>
         /\ sent[i] = 0
         /\ \A n \in Positions : transmissions[n].id # i

\* What is in hand is due, and the locals fit the place in the code.
HeldIsDue ==
  /\ \A n \in DOMAIN batch : IsRelevant(batch[n], clock)
  /\ current # None => IsRelevant(current, clock)
  /\ current # None <=> pc \in {"save", "reschedule"}
  /\ DOMAIN batch # {} => pc \in {"transmit", "save", "reschedule"}
  /\ pc = "transmit" => DOMAIN batch # {}
  /\ pc = "off" => /\ transmissions = <<>>
                   /\ \A i \in Ids : request[i] # "validated"
  /\ now <= clock

\* The strengthening of the safety properties that is inductive.
IInv ==
  /\ TypeOK
  /\ EntriesMatchSent
  /\ BatchIsFresh
  /\ RequestsMatch
  /\ HeldIsDue

-----------------------------------------------------------------------------
(***************************************************************************)
(* Liveness, and what the program promises.                                *)
(***************************************************************************)

\* Planned zero times, or without an end.
NeverDone(s) == s.kind # "Delayed" /\ s.iterate \in {0, Infinitely}

\* Entries before n that can be in every batch: those planned zero times are
\* returned and dropped by every poll, and those without an end are due at
\* every poll if their interval is as short as the clock cycle, which
\* validate_schedule allows.
Obstacles(n) == {m \in Positions : m < n /\ NeverDone(transmissions[m].schedule)}

\* The message of an overdue occurrence in the vector is sent in the end, one
\* the broker refused included: it is polled again, as long as the process
\* and its scheduler task live, and as fewer entries that never come to an
\* end are before it than a batch holds.  Those that do, however many they
\* are and however often due, only delay it.
OverdueIsSent ==
  \A i \in Ids : \A c \in 0 .. MaxClock - 1 :
    /\ \E n \in Positions : /\ transmissions[n].id = i
                           /\ Cardinality(Obstacles(n)) < BatchSize
    /\ sent[i] = c
    /\ ScheduleNext(accepted[i], c) \in 0 .. clock - 1
    ~> sent[i] > c \/ pc \in {"off", "dead"}

Delivered == INSTANCE Delivery WITH done <- sent, Precision <- 1

\* The messages of every accepted schedule are handed to the broker in
\* order, none twice, none early - across restarts too, since nothing is
\* left of what was stored.
ImplementsDelivery == Delivered!Spec
=============================================================================
