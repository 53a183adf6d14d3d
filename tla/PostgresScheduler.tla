-------------------------- MODULE PostgresScheduler --------------------------
(***************************************************************************)
(* The program as it is deployed: replicas of one process, each with a     *)
(* gRPC server that accepts schedules and a scheduler task that hands the  *)
(* due messages to the broker (src/scheduler.rs), all working on the one   *)
(* PostgreSQL table of RepositoryPostgres.                                 *)
(*                                                                         *)
(* An action is what happens between two awaits of the code.  At every     *)
(* await other replicas and requests can run, the process can die, and the *)
(* awaited call can fail.                                                  *)
(***************************************************************************)
EXTENDS RepositoryPostgres

CONSTANTS
  Replicas,     \* the processes
  Requests,     \* the schedules clients ask for
  BatchSize,    \* BATCH_SIZE
  ResetState,   \* reset_state of the configuration
  FaultKinds,   \* the faults considered: "crash", "publish", "database"
  MaxFaults,    \* bound on the number of faults
  MaxClock,     \* bound on the clock
  Unused,       \* an id no request has been given yet
  None          \* no transmission, no process

ASSUME SchedulerAssumption ==
  /\ Requests \subseteq AnySchedule
  /\ Unused \notin AnySchedule
  /\ None \notin Transmission \cup Replicas
  /\ BatchSize \in Nat \ {0}
  /\ ResetState \in BOOLEAN
  /\ MaxFaults \in Nat
  /\ MaxClock \in Instant

VARIABLES
  clock,       \* what Utc::now returns
  request,     \* how far the request that was given the id has come
  accepted,    \* the schedule of that request, once validated
  handler,     \* the process that is storing it
  sent,        \* how often the message of the id was handed to the broker
  pc,          \* where the process and its scheduler task are
  now,         \* `now` of process_batch
  candidates,  \* the rows the poll in progress picked in its snapshot
  batch,       \* relevant_schedules not handled yet
  current,     \* the transmission being handled
  faults       \* how many faults happened so far

clientVars == <<request, accepted, handler>>
pollVars == <<now, candidates>>
vars == <<clock, clientVars, sent, table, pc, pollVars, batch, current, faults>>

Phases == {"off", "idle", "snapshot", "lock", "transmit", "save",
           "reschedule", "dead"}

Init ==
  /\ clock = 0
  /\ request = [i \in Ids |-> "none"]
  /\ accepted = [i \in Ids |-> Unused]
  /\ handler = [i \in Ids |-> None]
  /\ sent = [i \in Ids |-> 0]
  /\ table = EmptyTable
  /\ pc = [p \in Replicas |-> "off"]
  /\ now = [p \in Replicas |-> 0]
  /\ candidates = [p \in Replicas |-> {}]
  /\ batch = [p \in Replicas |-> {}]
  /\ current = [p \in Replicas |-> None]
  /\ faults = 0

Fault(kind) ==
  /\ kind \in FaultKinds
  /\ faults < MaxFaults
  /\ faults' = faults + 1

Move(p, from, to) == pc[p] = from /\ pc' = [pc EXCEPT ![p] = to]

-----------------------------------------------------------------------------
(***************************************************************************)
(* TransmissionScheduler::schedule, by the process p.                      *)
(***************************************************************************)

\* Only validation refuses a request, and a refusal leaves no trace.
Validate(p, i, s) ==
  /\ pc[p] # "off"
  /\ request[i] = "none"
  /\ IsValidSchedule(clock, s)
  /\ request' = [request EXCEPT ![i] = "validated"]
  /\ accepted' = [accepted EXCEPT ![i] = s]
  /\ handler' = [handler EXCEPT ![i] = p]
  /\ UNCHANGED <<clock, sent, table, pc, pollVars, batch, current, faults>>

Answer(i, outcome) ==
  /\ request[i] = "validated"
  /\ request' = [request EXCEPT ![i] = outcome]
  /\ handler' = [handler EXCEPT ![i] = None]
  /\ UNCHANGED <<clock, accepted, sent, pc, pollVars, batch, current>>

NewRowStored(i) ==
  \E stamp \in Stamps(i) :
    table' = Inserted(NewTransmission(i, accepted[i]), stamp)

Store(i) ==
  /\ Answer(i, "stored")
  /\ NewRowStored(i)
  /\ UNCHANGED faults

\* The client is told of an error, though the row may be there.
StoreFails(i) ==
  /\ Answer(i, "failed")
  /\ Fault("database")
  /\ UNCHANGED table \/ NewRowStored(i)

-----------------------------------------------------------------------------
(***************************************************************************)
(* run and process_batch.                                                  *)
(***************************************************************************)

StartBatch(p) ==
  /\ Move(p, "idle", "snapshot")
  /\ now' = [now EXCEPT ![p] = clock]
  /\ UNCHANGED <<clock, clientVars, sent, table, candidates, batch, current,
                 faults>>

TakeSnapshot(p) ==
  /\ Move(p, "snapshot", "lock")
  /\ candidates' = [candidates EXCEPT ![p] = Candidates(now[p])]
  /\ UNCHANGED <<clock, clientVars, sent, table, now, batch, current, faults>>

ForgetPoll(p) ==
  /\ now' = [now EXCEPT ![p] = 0]
  /\ candidates' = [candidates EXCEPT ![p] = {}]

\* With an empty batch the loop goes to sleep at once.
NextOf(todo) == IF todo = {} THEN "idle" ELSE "transmit"

\* The poll commits and its rows are filtered.
Relevant(p, keys) ==
  {t \in {AsTransmission(k) : k \in keys} : IsRelevant(t, now[p])}

Poll(p) ==
  LET picked == StillUnlocked(candidates[p])
  IN  /\ table' = Locked(picked)
      /\ \E returned \in Limited(picked, BatchSize) :
           /\ batch' = [batch EXCEPT ![p] = Relevant(p, returned)]
           /\ Move(p, "lock", NextOf(Relevant(p, returned)))
      /\ ForgetPoll(p)
      /\ UNCHANGED <<clock, clientVars, sent, current, faults>>

\* An error sends the loop to sleep, whether or not the rows were locked.
PollFails(p) ==
  /\ Move(p, "lock", "idle")
  /\ Fault("database")
  /\ \/ UNCHANGED table
     \/ table' = Locked(StillUnlocked(candidates[p]))
  /\ ForgetPoll(p)
  /\ UNCHANGED <<clock, clientVars, sent, batch, current>>

-----------------------------------------------------------------------------
(***************************************************************************)
(* transmit.                                                               *)
(***************************************************************************)

Take(p, t) ==
  /\ t \in batch[p]
  /\ batch' = [batch EXCEPT ![p] = @ \ {t}]
  /\ current' = [current EXCEPT ![p] = t]

TransmitOk(p) ==
  /\ Move(p, "transmit", "save")
  /\ \E t \in batch[p] :
       /\ Take(p, t)
       /\ sent' = [sent EXCEPT ![t.id] = @ + 1]
  /\ UNCHANGED <<clock, clientVars, table, pollVars, faults>>

TransmitErr(p) ==
  /\ Move(p, "transmit", "reschedule")
  /\ Fault("publish")
  /\ \E t \in batch[p] : Take(p, t)
  /\ UNCHANGED <<clock, clientVars, sent, table, pollVars>>

\* The end of one round of the loop over relevant_schedules.
FinishCurrent(p, from) ==
  /\ Move(p, from, NextOf(batch[p]))
  /\ current' = [current EXCEPT ![p] = None]
  /\ UNCHANGED <<clock, clientVars, sent, pollVars, batch>>

\* transmitted() does not return its error here: no polled row has next NULL.
SavedRow(p) ==
  \E stamp \in Stamps(current[p].id) :
    table' = Inserted(Transmitted(current[p]), stamp)

IsComputable(t) == Transmitted(t).next # Panic

Save(p) ==
  /\ FinishCurrent(p, "save")
  /\ IsComputable(current[p])
  /\ SavedRow(p)
  /\ UNCHANGED faults

SaveFails(p) ==
  /\ FinishCurrent(p, "save")
  /\ IsComputable(current[p])
  /\ Fault("database")
  /\ UNCHANGED table \/ SavedRow(p)

\* transmitted() panics: the task is gone, the process serves requests still.
SchedulerPanics(p) ==
  /\ Move(p, "save", "dead")
  /\ ~IsComputable(current[p])
  /\ batch' = [batch EXCEPT ![p] = {}]
  /\ current' = [current EXCEPT ![p] = None]
  /\ UNCHANGED <<clock, clientVars, sent, table, pollVars, faults>>

Reschedule(p) ==
  /\ FinishCurrent(p, "reschedule")
  /\ table' = Rescheduled(current[p].id)
  /\ UNCHANGED faults

RescheduleFails(p) ==
  /\ FinishCurrent(p, "reschedule")
  /\ Fault("database")
  /\ UNCHANGED table \/ table' = Rescheduled(current[p].id)

-----------------------------------------------------------------------------
(***************************************************************************)
(* The process and its surroundings.                                       *)
(***************************************************************************)

\* Killed, or told to stop: main waits for the gRPC server alone, so the
\* runtime drops the scheduler task at whatever await it has reached.
Stop(p) ==
  /\ pc[p] # "off"
  /\ Fault("crash")
  /\ pc' = [pc EXCEPT ![p] = "off"]
  /\ ForgetPoll(p)
  /\ batch' = [batch EXCEPT ![p] = {}]
  /\ current' = [current EXCEPT ![p] = None]
  /\ request' = [i \in Ids |-> IF handler[i] = p THEN "failed" ELSE request[i]]
  /\ handler' = [i \in Ids |-> IF handler[i] = p THEN None ELSE handler[i]]
  /\ UNCHANGED <<clock, accepted, sent, table>>

\* Mutant: a process that starts releases what it finds locked.
BootReleasing(p) ==
  /\ Move(p, "off", "idle")
  /\ table' = [k \in DOMAIN table |-> [table[k] EXCEPT !.is_locked = FALSE]]
  /\ UNCHANGED <<clock, clientVars, sent, pollVars, batch, current, faults>>

Boot(p) ==
  /\ Move(p, "off", "idle")
  /\ table' = IF ResetState THEN EmptyTable ELSE table
  /\ UNCHANGED <<clock, clientVars, sent, pollVars, batch, current, faults>>

Tick ==
  /\ clock < MaxClock
  /\ clock' = clock + 1
  /\ UNCHANGED <<clientVars, sent, table, pc, pollVars, batch, current, faults>>

\* What a scheduler task does when nothing fails.
SchedulerStep(p) ==
  \/ StartBatch(p)
  \/ TakeSnapshot(p)
  \/ Poll(p)
  \/ TransmitOk(p)
  \/ Save(p)
  \/ SchedulerPanics(p)
  \/ Reschedule(p)

CallFails(p) ==
  \/ PollFails(p)
  \/ TransmitErr(p)
  \/ SaveFails(p)
  \/ RescheduleFails(p)

Next ==
  \/ \E p \in Replicas, i \in Ids, s \in Requests : Validate(p, i, s)
  \/ \E i \in Ids : Store(i) \/ StoreFails(i)
  \/ \E p \in Replicas : SchedulerStep(p) \/ CallFails(p)
  \/ \E p \in Replicas : Stop(p) \/ Boot(p)
  \/ Tick

Spec == Init /\ [][Next]_vars

\* The runtime keeps running its tasks and a stopped process is restarted.
Fairness ==
  /\ WF_vars(Tick)
  /\ \A i \in Ids : WF_vars(Store(i))
  /\ \A p \in Replicas : WF_vars(SchedulerStep(p)) /\ WF_vars(Boot(p))

FairSpec == Spec /\ Fairness

-----------------------------------------------------------------------------
(***************************************************************************)
(* Safety.                                                                 *)
(***************************************************************************)

TypeOK ==
  /\ clock \in 0 .. MaxClock
  /\ request \in [Ids -> {"none", "validated", "stored", "failed"}]
  /\ accepted \in [Ids -> Requests \cup {Unused}]
  /\ handler \in [Ids -> Replicas \cup {None}]
  /\ sent \in [Ids -> Nat]
  /\ TableOK
  /\ pc \in [Replicas -> Phases]
  /\ now \in [Replicas -> 0 .. MaxClock]
  /\ candidates \in [Replicas -> SUBSET Keys]
  /\ batch \in [Replicas -> SUBSET Transmission]
  /\ current \in [Replicas -> Transmission \cup {None}]
  /\ faults \in 0 .. MaxFaults

\* The transmissions a replica has polled and not finished.
Held(p) == batch[p] \cup ({current[p]} \ {None})

\* A transmission is in the hands of at most one replica, once, and no row
\* of it can be polled meanwhile: what the UPDATE of poll_transmissions with
\* its is_locked flag is for.
HeldOnce ==
  \A p \in Replicas : \A t \in Held(p) :
    /\ \A q \in Replicas : \A u \in Held(q) : t.id = u.id => p = q /\ t = u
    /\ current[p] \notin batch[p]
    /\ \A k \in RowsOf(t.id) : ~IsUnlocked(k)

\* A row that can be polled is that of the occurrence to be sent next, so
\* handing over what a poll returns never repeats or skips an occurrence,
\* whatever calls failed and whichever replicas died before.
UnlockedMatchesSent ==
  \A k \in DOMAIN table : IsUnlocked(k) => k[2] = sent[k[1]]

\* The row save inserts after a message was sent has a key no row has: save
\* is never refused by the primary key.
SavedKeyIsFresh ==
  \A p \in Replicas :
    pc[p] = "save" => KeyOf(Transmitted(current[p])) \notin DOMAIN table

\* The table is a log: apart from reset_state, no step removes a row or
\* changes one, but for setting is_locked.
TableIsLog ==
  [][~ResetState =>
       \A k \in DOMAIN table :
         /\ k \in DOMAIN table'
         /\ table'[k] \in {table[k], [table[k] EXCEPT !.is_locked = TRUE]}]_vars

\* The instant the row of an occurrence is planned for, if any.
Occurrence(k) ==
  IF k[2] = 0 THEN InitialNext(accepted[k[1]])
              ELSE ScheduleNext(accepted[k[1]], k[2])

\* The next column is that of the row's own occurrence, in microseconds, and
\* no row is locked for a poll before its occurrence is past - by the clock
\* of whichever replica polled, and however long its UPDATE waited.
LockedIsPast ==
  /\ \A k \in DOMAIN table :
       /\ Occurrence(k) \in Instant \cup {NoTime}
       /\ table[k].next = IF Occurrence(k) = NoTime
                          THEN NoTime ELSE Truncated(Occurrence(k))
       /\ table[k].is_locked => Occurrence(k) \in 0 .. clock - 1
  /\ \A p \in Replicas : \A k \in candidates[p] :
       /\ pc[p] = "lock"
       /\ request[k[1]] \in {"stored", "failed"}
       /\ Occurrence(k) \in 0 .. now[p] - 1

\* What is waiting to be sent or in the hands of a replica.
InProgress(i) ==
  \/ \E k \in RowsOf(i) : IsUnlocked(k)
  \/ \E p \in Replicas : \E t \in Held(p) : t.id = i

\* Every row that is locked and not done with belongs to a transmission some
\* replica holds: process_batch takes what it polls through to the end.
LockedRowIsHeld ==
  \A k \in DOMAIN table :
    /\ table[k].is_locked
    /\ k[2] = sent[k[1]]
    => \E p \in Replicas : \E t \in Held(p) : t.id = k[1]

\* A reschedule that succeeds leaves a row of its transmission that can be
\* polled again.
RescheduleReleases ==
  [][\A p \in Replicas :
       Reschedule(p) =>
         \E k \in DOMAIN table' :
           k[1] = current[p].id /\ ~table'[k].is_locked]_vars

-----------------------------------------------------------------------------
(***************************************************************************)
(* The inductive invariant behind the safety properties.                   *)
(***************************************************************************)

\* An id is free until a request is validated, and untouched until stored.
RequestsMatch ==
  \A i \in Ids :
    /\ request[i] = "none" <=> accepted[i] = Unused
    /\ handler[i] # None => request[i] = "validated"
    /\ request[i] \in {"none", "validated"} => sent[i] = 0

RowsMatch ==
  \A k \in DOMAIN table :
    /\ request[k[1]] \in {"stored", "failed"}
    /\ table[k].schedule = accepted[k[1]]
    /\ k[2] <= sent[k[1]]

\* What is held is due, and is the next to be sent or was just sent.
HeldMatches ==
  \A p \in Replicas : \A t \in Held(p) :
    /\ request[t.id] \in {"stored", "failed"}
    /\ t.schedule = accepted[t.id]
    /\ ScheduleNext(t.schedule, t.transmission_count) \in Instant
    /\ ScheduleNext(t.schedule, t.transmission_count) <= clock
    /\ sent[t.id] = IF pc[p] = "save" /\ t = current[p]
                    THEN t.transmission_count + 1
                    ELSE t.transmission_count

PhasesMatch ==
  \A p \in Replicas :
    /\ current[p] # None <=> pc[p] \in {"save", "reschedule"}
    /\ batch[p] # {} => pc[p] \in {"transmit", "save", "reschedule"}
    /\ now[p] <= clock

\* The strengthening: each part leans on the others.
IInv ==
  /\ TypeOK
  /\ RequestsMatch
  /\ RowsMatch
  /\ HeldMatches
  /\ PhasesMatch
  /\ HeldOnce
  /\ UnlockedMatchesSent
  /\ SavedKeyIsFresh

-----------------------------------------------------------------------------
(***************************************************************************)
(* Liveness, and what the program promises.                                *)
(***************************************************************************)

Delivered == INSTANCE Delivery WITH done <- sent

\* The messages of every accepted schedule are handed to the broker in
\* order, none twice, none early.
ImplementsDelivery == Delivered!Spec

\* And those of every overdue occurrence are handed over in the end.
ImplementsFairDelivery == Delivered!FairSpec
=============================================================================
