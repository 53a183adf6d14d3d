----------------------- MODULE PostgresSchedulerProofs -----------------------
(***************************************************************************)
(* The safety properties of PostgresScheduler hold for every number of     *)
(* replicas, requests and faults, every batch size and every behaviour of  *)
(* the database clock: IInv is inductive and implies them.                 *)
(***************************************************************************)
EXTENDS PostgresScheduler, RepositoryPostgresLemmas

\* How a statement other than INSERT leaves the table.
NoRowFreed ==
  /\ TableOK'
  /\ DOMAIN table' \subseteq DOMAIN table
  /\ \A k \in DOMAIN table' :
       /\ table'[k].schedule = table[k].schedule
       /\ ~table'[k].is_locked => ~table[k].is_locked

\* Neither locking rows nor leaving them alone makes a row pollable.
LEMMA KeptByLocking ==
  ASSUME TableOK, NEW keys, UNCHANGED table \/ table' = Locked(keys)
  PROVE  NoRowFreed
<1>1. CASE UNCHANGED table
  BY <1>1 DEF NoRowFreed, TableOK
<1>2. CASE table' = Locked(keys)
  <2>1. /\ DOMAIN table' = DOMAIN table
        /\ table' \in [DOMAIN table' -> Row]
        /\ \A k \in DOMAIN table :
              /\ table'[k].schedule = table[k].schedule
              /\ table'[k].is_locked = (table[k].is_locked \/ k \in keys)
    BY <1>2, LockedEffect
  <2> QED
    BY <2>1 DEF NoRowFreed, TableOK
<1> QED
  BY <1>1, <1>2

\* A fault is counted, and within its bound.
LEMMA FaultType ==
  ASSUME faults \in 0 .. MaxFaults, NEW kind, Fault(kind)
  PROVE  faults' \in 0 .. MaxFaults
BY SchedulerAssumption DEF Fault

-----------------------------------------------------------------------------
(***************************************************************************)
(* The initial states.                                                     *)
(***************************************************************************)

\* The invariant holds of an empty table.
LEMMA InitIInv == Init => IInv
<1> SUFFICES ASSUME Init PROVE IInv
  OBVIOUS
<1>1. DOMAIN table = {} /\ TableOK
  BY DEF Init, EmptyTable, TableOK
<1>2. TypeOK
  BY <1>1, SchedulerAssumption DEF Init, TypeOK, Phases, Instant
<1>3. \A p \in Replicas : Held(p) = {}
  BY DEF Init, Held
<1>4. RequestsMatch /\ RowsMatch /\ UnlockedMatchesSent
  BY <1>1 DEF Init, RequestsMatch, RowsMatch, UnlockedMatchesSent
<1>5. HeldMatches /\ HeldOnce
  BY <1>3 DEF HeldMatches, HeldOnce
<1>6. PhasesMatch /\ SavedKeyIsFresh
  BY DEF Init, PhasesMatch, SavedKeyIsFresh
<1> QED
  BY <1>2, <1>4, <1>5, <1>6 DEF IInv

-----------------------------------------------------------------------------
(***************************************************************************)
(* Steps that neither touch the table nor take or release a transmission.  *)
(***************************************************************************)

\* A step that leaves rows, locks and batches alone.
LEMMA QuietStep ==
  ASSUME IInv,
         \/ \E p \in Replicas, i \in Ids, s \in Requests : Validate(p, i, s)
         \/ \E p \in Replicas : StartBatch(p) \/ TakeSnapshot(p)
         \/ Tick
         \/ UNCHANGED vars
  PROVE  IInv'
<1> USE DEF clientVars, pollVars
<1>1. ASSUME NEW p \in Replicas, NEW i \in Ids, NEW s \in Requests,
             Validate(p, i, s)
      PROVE  IInv'
  <2> USE <1>1 DEF Validate
  <2>1. TypeOK'
    BY DEF IInv, TypeOK, TableOK
  <2>2. RequestsMatch'
    BY SchedulerAssumption DEF IInv, TypeOK, RequestsMatch
  <2>3. RowsMatch'
    BY DEF IInv, TypeOK, TableOK, Keys, RowsMatch
  <2>4. HeldMatches'
    BY DEF IInv, TypeOK, HeldMatches, Held, Transmission
  <2>5. PhasesMatch' /\ HeldOnce' /\ UnlockedMatchesSent' /\ SavedKeyIsFresh'
    BY DEF IInv, PhasesMatch, HeldOnce, Held, RowsOf, IsUnlocked,
           UnlockedMatchesSent, SavedKeyIsFresh
  <2> QED
    BY <2>1, <2>2, <2>3, <2>4, <2>5 DEF IInv
<1>2. ASSUME NEW p \in Replicas, StartBatch(p) \/ TakeSnapshot(p)
      PROVE  IInv'
  <2> USE <1>2 DEF StartBatch, TakeSnapshot, Move
  <2>1. Candidates(now[p]) \subseteq Keys
    BY DEF Candidates, IInv, TypeOK, TableOK
  <2>2. TypeOK'
    BY <2>1 DEF IInv, TypeOK, TableOK, Phases
  <2>3. PhasesMatch'
    BY DEF IInv, TypeOK, PhasesMatch
  <2>4. HeldMatches'
    BY DEF IInv, TypeOK, HeldMatches, Held
  <2>5. RequestsMatch' /\ RowsMatch' /\ HeldOnce' /\ UnlockedMatchesSent'
    BY DEF IInv, RequestsMatch, RowsMatch, HeldOnce, Held, RowsOf,
           IsUnlocked, UnlockedMatchesSent
  <2>6. SavedKeyIsFresh'
    BY DEF IInv, TypeOK, SavedKeyIsFresh
  <2> QED
    BY <2>2, <2>3, <2>4, <2>5, <2>6 DEF IInv
<1>3. ASSUME Tick PROVE IInv'
  <2> USE <1>3 DEF Tick
  <2>1. TypeOK' /\ clock <= clock'
    BY SchedulerAssumption DEF IInv, TypeOK, TableOK, Instant
  <2>2. HeldMatches'
    <3> SUFFICES ASSUME NEW p \in Replicas, NEW t \in Held(p)
                 PROVE  ScheduleNext(t.schedule, t.transmission_count) <= clock'
      BY DEF IInv, HeldMatches, Held
    <3>1. /\ ScheduleNext(t.schedule, t.transmission_count) \in Int
          /\ ScheduleNext(t.schedule, t.transmission_count) <= clock
      BY InstantAssumption DEF IInv, HeldMatches, Instant
    <3>2. clock \in Int /\ clock' \in Int
      BY <2>1 DEF IInv, TypeOK
    <3> QED
      BY <2>1, <3>1, <3>2
  <2>3. PhasesMatch'
    <3>1. \A p \in Replicas : now[p] \in Int /\ now[p] <= clock
      BY DEF IInv, TypeOK, PhasesMatch
    <3>2. clock \in Int /\ clock' \in Int
      BY <2>1 DEF IInv, TypeOK
    <3> QED
      BY <2>1, <3>1, <3>2 DEF IInv, PhasesMatch
  <2>4. RequestsMatch' /\ RowsMatch' /\ HeldOnce' /\ UnlockedMatchesSent'
    BY DEF IInv, RequestsMatch, RowsMatch, HeldOnce, Held, RowsOf,
           IsUnlocked, UnlockedMatchesSent
  <2>5. SavedKeyIsFresh'
    BY DEF IInv, SavedKeyIsFresh
  <2> QED
    BY <2>1, <2>2, <2>3, <2>4, <2>5 DEF IInv
<1>4. ASSUME UNCHANGED vars PROVE IInv'
  BY <1>4 DEF vars, IInv, TypeOK, TableOK, RequestsMatch, RowsMatch,
     HeldMatches, PhasesMatch, HeldOnce, UnlockedMatchesSent,
     SavedKeyIsFresh, Held, RowsOf, IsUnlocked
<1> QED
  BY <1>1, <1>2, <1>3, <1>4

-----------------------------------------------------------------------------
(***************************************************************************)
(* Storing a new transmission.                                             *)
(***************************************************************************)

\* The first row of an id: no row of it was there, nobody holds it.
LEMMA AnswerStep ==
  ASSUME IInv, NEW i \in Ids, NEW outcome \in {"stored", "failed"},
         Answer(i, outcome), faults' \in 0 .. MaxFaults,
         UNCHANGED table \/ NewRowStored(i)
  PROVE  IInv'
<1> USE DEF Answer, pollVars
<1> DEFINE t == NewTransmission(i, accepted[i])
<1>1. /\ request[i] = "validated"
      /\ accepted[i] \in AnySchedule
      /\ sent[i] = 0
  BY SchedulerAssumption DEF IInv, TypeOK, RequestsMatch
<1>2. /\ \A k \in DOMAIN table : k[1] # i
      /\ \A p \in Replicas : \A u \in Held(p) : u.id # i
  BY <1>1 DEF IInv, RowsMatch, HeldMatches
<1>3. /\ t \in Transmission
      /\ KeyOf(t) = <<i, 0>>
      /\ t.schedule = accepted[i]
  BY <1>1, NewTransmissionType DEF NewTransmission, KeyOf
<1>4. /\ TableOK'
      /\ DOMAIN table' \subseteq DOMAIN table \cup {<<i, 0>>}
      /\ \A k \in DOMAIN table : k \in DOMAIN table' /\ table'[k] = table[k]
      /\ <<i, 0>> \in DOMAIN table' => table'[<<i, 0>>].schedule = accepted[i]
  <2>1. CASE UNCHANGED table
    BY <2>1, <1>2 DEF IInv, TypeOK, TableOK
  <2>2. ASSUME NEW stamp \in Stamps(i), table' = Inserted(t, stamp)
        PROVE  <1>4!:
    <3>1. stamp \in Int /\ TableOK
      BY StampsType DEF IInv, TypeOK
    <3>2. <<i, 0>> \notin DOMAIN table
      BY <1>2
    <3> HIDE DEF t
    <3>3. t \in Transmission
      BY <1>3
    <3>4. /\ DOMAIN table' = DOMAIN table \cup {KeyOf(t)}
          /\ DOMAIN table' \subseteq Keys
          /\ table' \in [DOMAIN table' -> Row]
          /\ \A k \in DOMAIN table : table'[k] = table[k]
          /\ KeyOf(t) \notin DOMAIN table => table'[KeyOf(t)] = NewRow(t, stamp)
      BY <2>2, <3>1, <3>3, InsertedEffect
    <3> QED
      BY <1>3, <3>2, <3>4 DEF TableOK, NewRow
  <2> QED
    BY <2>1, <2>2 DEF NewRowStored
<1>5. \A p \in Replicas : Held(p)' = Held(p)
  BY DEF Held
<1>6. TypeOK'
  BY <1>4 DEF IInv, TypeOK
<1>7. RequestsMatch'
  BY <1>1 DEF IInv, TypeOK, RequestsMatch
<1>8. RowsMatch' /\ UnlockedMatchesSent'
  <2>1. ASSUME NEW k \in DOMAIN table
        PROVE  /\ request'[k[1]] \in {"stored", "failed"}
               /\ table'[k].schedule = accepted'[k[1]]
               /\ k[2] <= sent'[k[1]]
               /\ ~table'[k].is_locked => k[2] = sent'[k[1]]
    BY <1>4 DEF IInv, TypeOK, TableOK, Keys, RowsMatch, UnlockedMatchesSent,
                IsUnlocked
  <2>2. ASSUME <<i, 0>> \in DOMAIN table'
        PROVE  /\ request'[i] \in {"stored", "failed"}
               /\ table'[<<i, 0>>].schedule = accepted'[i]
               /\ sent'[i] = 0
    BY <1>1, <1>4, <2>2 DEF IInv, TypeOK
  <2> QED
    BY <1>4, <2>1, <2>2 DEF RowsMatch, UnlockedMatchesSent, IsUnlocked
<1>9. HeldMatches'
  BY <1>2, <1>5 DEF IInv, TypeOK, HeldMatches, Held, Transmission
<1>10. HeldOnce'
  BY <1>2, <1>4, <1>5 DEF IInv, HeldOnce, RowsOf, IsUnlocked
<1>11. PhasesMatch'
  BY DEF IInv, PhasesMatch
<1>12. SavedKeyIsFresh'
  <2> SUFFICES ASSUME NEW p \in Replicas, pc[p] = "save"
               PROVE  KeyOf(Transmitted(current[p])) \notin DOMAIN table'
    BY DEF SavedKeyIsFresh
  <2>1. current[p] \in Held(p)
    BY DEF IInv, PhasesMatch, Held
  <2>2. current[p].id # i
    BY <1>2, <2>1
  <2>3. Transmitted(current[p]).id = current[p].id
    BY <2>1 DEF IInv, TypeOK, Held, Transmission, Transmitted
  <2>4. KeyOf(Transmitted(current[p])) # <<i, 0>>
    BY <2>2, <2>3 DEF KeyOf
  <2> QED
    BY <1>4, <2>4 DEF IInv, SavedKeyIsFresh
<1> QED
  BY <1>6, <1>7, <1>8, <1>9, <1>10, <1>11, <1>12 DEF IInv

-----------------------------------------------------------------------------
(***************************************************************************)
(* Polling.                                                                *)
(***************************************************************************)

\* Of each id at most one row can be polled, that of the next occurrence.
LEMMA OneUnlockedRow ==
  ASSUME IInv, NEW j \in DOMAIN table, NEW k \in DOMAIN table,
         IsUnlocked(j), IsUnlocked(k), j[1] = k[1]
  PROVE  j = k
<1>1. j[2] = k[2]
  BY DEF IInv, UnlockedMatchesSent
<1> QED
  BY <1>1 DEF IInv, TypeOK, TableOK, Keys

\* What a poll hands to the loop is due, next in turn, and nobody else's.
LEMMA PollStep ==
  ASSUME IInv, NEW p \in Replicas, Poll(p)
  PROVE  IInv'
<1> USE DEF Poll, Move, ForgetPoll, clientVars
<1> DEFINE L == StillUnlocked(candidates[p])
<1>1. PICK returned \in Limited(L, BatchSize) :
        /\ batch' = [batch EXCEPT ![p] = Relevant(p, returned)]
        /\ Move(p, "lock", NextOf(Relevant(p, returned)))
  OBVIOUS
<1>2. \A k \in returned : k \in L /\ k \in DOMAIN table /\ IsUnlocked(k)
  BY DEF Limited, StillUnlocked, IsUnlocked
<1>3. /\ NoRowFreed
      /\ \A k \in L : k \in DOMAIN table' => table'[k].is_locked
  <2>1. TableOK /\ table' = Locked(L)
    BY DEF IInv, TypeOK
  <2> HIDE DEF L
  <2>2. NoRowFreed
    BY <2>1, KeptByLocking
  <2>3. \A k \in DOMAIN table' :
          table'[k].is_locked = (table[k].is_locked \/ k \in L)
    BY <2>1, LockedEffect
  <2> QED
    BY <2>2, <2>3
<1>4. batch[p] = {} /\ current[p] = None /\ Held(p) = {}
  BY DEF IInv, PhasesMatch, Held
<1>5. ASSUME NEW t \in Relevant(p, returned)
      PROVE  \E k \in returned :
               /\ t \in Transmission
               /\ t.id = k[1]
               /\ t.transmission_count = k[2]
               /\ t.schedule = table[k].schedule
               /\ t = AsTransmission(k)
               /\ ScheduleNext(t.schedule, t.transmission_count) \in Instant
               /\ ScheduleNext(t.schedule, t.transmission_count) <= now[p]
  <2>1. PICK k \in returned : t = AsTransmission(k) /\ IsRelevant(t, now[p])
    BY <1>5 DEF Relevant
  <2>2. k \in DOMAIN table /\ TableOK
    BY <1>2 DEF IInv, TypeOK
  <2> QED
    BY <2>1, <2>2, AsTransmissionType DEF IsRelevant
<1>6. /\ Held(p)' = Relevant(p, returned)
      /\ \A q \in Replicas \ {p} : Held(q)' = Held(q)
  <2>1. current' = current /\ None \notin Relevant(p, returned)
    BY <1>5, SchedulerAssumption
  <2> QED
    BY <1>1, <1>4, <2>1 DEF IInv, TypeOK, Held
<1>7. TypeOK'
  <2>1. batch' \in [Replicas -> SUBSET Transmission]
    BY <1>1, <1>5 DEF IInv, TypeOK
  <2>2. pc' \in [Replicas -> Phases]
    BY <1>1 DEF IInv, TypeOK, NextOf, Phases
  <2>3. now' \in [Replicas -> 0 .. MaxClock]
    BY SchedulerAssumption DEF IInv, TypeOK, Instant
  <2> QED
    BY <1>3, <2>1, <2>2, <2>3 DEF IInv, TypeOK, NoRowFreed
<1>8. RequestsMatch' /\ RowsMatch' /\ UnlockedMatchesSent'
  BY <1>3 DEF IInv, RequestsMatch, RowsMatch, UnlockedMatchesSent, IsUnlocked,
              NoRowFreed
<1>9. HeldMatches'
  <2>1. ASSUME NEW t \in Held(p)'
        PROVE  /\ request'[t.id] \in {"stored", "failed"}
               /\ t.schedule = accepted'[t.id]
               /\ ScheduleNext(t.schedule, t.transmission_count) \in Instant
               /\ ScheduleNext(t.schedule, t.transmission_count) <= clock'
               /\ sent'[t.id] = t.transmission_count
    <3>1. PICK k \in returned :
               /\ t.id = k[1]
               /\ t.transmission_count = k[2]
               /\ t.schedule = table[k].schedule
               /\ ScheduleNext(t.schedule, t.transmission_count) \in Instant
               /\ ScheduleNext(t.schedule, t.transmission_count) <= now[p]
      BY <1>5, <1>6, <2>1
    <3>2. /\ now[p] \in Int /\ clock \in Int /\ now[p] <= clock
          /\ ScheduleNext(t.schedule, t.transmission_count) \in Int
      BY <3>1, InstantAssumption DEF IInv, TypeOK, PhasesMatch, Instant
    <3>3. ScheduleNext(t.schedule, t.transmission_count) <= clock
      BY <3>1, <3>2
    <3> QED
      BY <1>2, <3>1, <3>3 DEF IInv, RowsMatch, UnlockedMatchesSent
  <2>2. pc'[p] # "save"
    BY <1>1 DEF IInv, TypeOK, NextOf
  <2> QED
    BY <1>1, <1>6, <2>1, <2>2 DEF IInv, TypeOK, HeldMatches
<1>10. PhasesMatch'
  <2>1. now'[p] = 0 /\ 0 <= clock
    BY DEF IInv, TypeOK
  <2> QED
    BY <1>1, <1>4, <2>1 DEF IInv, TypeOK, PhasesMatch, NextOf
<1>11. HeldOnce'
  <2>1. ASSUME NEW t \in Held(p)', NEW q \in Replicas \ {p}, NEW u \in Held(q)
        PROVE  t.id # u.id
    <3>1. PICK k \in returned : t.id = k[1]
      BY <1>5, <1>6, <2>1
    <3>2. k \in RowsOf(k[1]) /\ IsUnlocked(k)
      BY <1>2 DEF RowsOf
    <3> QED
      BY <3>1, <3>2 DEF IInv, HeldOnce
  <2>2. ASSUME NEW t \in Held(p)', NEW u \in Held(p)', t.id = u.id
        PROVE  t = u
    <3>1. PICK j \in returned : t.id = j[1] /\ t = AsTransmission(j)
      BY <1>5, <1>6, <2>2
    <3>2. PICK k \in returned : u.id = k[1] /\ u = AsTransmission(k)
      BY <1>5, <1>6, <2>2
    <3>3. j = k
      BY <1>2, <2>2, <3>1, <3>2, OneUnlockedRow
    <3> QED
      BY <3>1, <3>2, <3>3
  <2>3. ASSUME NEW t \in Held(p)', NEW j \in DOMAIN table', j[1] = t.id,
               ~table'[j].is_locked
        PROVE  FALSE
    <3>1. PICK k \in returned : t.id = k[1]
      BY <1>5, <1>6, <2>3
    <3>2. IsUnlocked(j)
      BY <1>3, <2>3 DEF NoRowFreed, IsUnlocked
    <3>3. j = k
      BY <1>2, <1>3, <2>3, <3>1, <3>2, OneUnlockedRow DEF NoRowFreed
    <3> QED
      BY <1>2, <1>3, <2>3, <3>3
  <2>4. \A q \in Replicas : current'[q] \notin batch'[q]
    <3>1. current'[p] = None /\ None \notin batch'[p]
      BY <1>1, <1>4, <1>5, SchedulerAssumption DEF IInv, TypeOK
    <3>2. ASSUME NEW q \in Replicas \ {p}
          PROVE  current'[q] \notin batch'[q]
      <4>1. CASE current[q] = None
        BY <1>1, <4>1, SchedulerAssumption DEF IInv, TypeOK
      <4>2. CASE current[q] # None
        <5>1. current[q] \in Held(q)
          BY <4>2 DEF Held
        <5> QED
          BY <1>1, <5>1 DEF IInv, TypeOK, HeldOnce
      <4> QED
        BY <4>1, <4>2
    <3> QED
      BY <3>1, <3>2
  <2>5. \A q \in Replicas \ {p} : \A u \in Held(q) : \A k \in RowsOf(u.id)' :
          ~IsUnlocked(k)'
    BY <1>3 DEF IInv, HeldOnce, RowsOf, IsUnlocked, NoRowFreed
  <2>6. \A t \in Held(p)' : \A k \in RowsOf(t.id)' : ~IsUnlocked(k)'
    BY <1>3, <2>3 DEF RowsOf, IsUnlocked, NoRowFreed
  <2>7. \A q, r \in Replicas \ {p} : \A t \in Held(q), u \in Held(r) :
          t.id = u.id => q = r /\ t = u
    BY DEF IInv, HeldOnce
  <2> QED
    BY <1>6, <2>1, <2>2, <2>4, <2>5, <2>6, <2>7 DEF HeldOnce
<1>12. SavedKeyIsFresh'
  BY <1>1, <1>3 DEF IInv, TypeOK, SavedKeyIsFresh, NextOf, NoRowFreed
<1> QED
  BY <1>7, <1>8, <1>9, <1>10, <1>11, <1>12 DEF IInv

-----------------------------------------------------------------------------
(***************************************************************************)
(* Sending.                                                                *)
(***************************************************************************)

\* Taking one of the batch leaves what is held as it is.
LEMMA TakeKeepsHeld ==
  ASSUME IInv, NEW p \in Replicas, pc[p] = "transmit", NEW t \in batch[p],
         Take(p, t)
  PROVE  /\ t \in Held(p)
         /\ t \in Transmission
         /\ current'[p] = t
         /\ \A q \in Replicas : Held(q)' = Held(q)
         /\ \A q \in Replicas : current'[q] \notin batch'[q]
         /\ \A q \in Replicas \ {p} : batch'[q] = batch[q] /\ current'[q] = current[q]
<1>1. /\ t \in Transmission
      /\ t # None
      /\ current[p] = None
  BY SchedulerAssumption DEF IInv, TypeOK, PhasesMatch
<1>2. /\ batch'[p] = batch[p] \ {t}
      /\ current'[p] = t
      /\ \A q \in Replicas \ {p} : batch'[q] = batch[q] /\ current'[q] = current[q]
  BY DEF IInv, TypeOK, Take
<1>3. Held(p) = batch[p] /\ Held(p)' = batch[p]
  BY <1>1, <1>2 DEF Held
<1>4. \A q \in Replicas \ {p} : Held(q)' = Held(q)
  BY <1>2 DEF Held
<1>5. \A q \in Replicas \ {p} : current[q] \notin batch[q]
  <2>1. ASSUME NEW q \in Replicas \ {p}, current[q] \in batch[q]
        PROVE  FALSE
    BY <2>1 DEF IInv, HeldOnce, Held
  <2> QED
    BY <2>1
<1> QED
  BY <1>1, <1>2, <1>3, <1>4, <1>5

\* The message of a held transmission goes out: the next in turn, and no
\* other replica has it, and no row of it can be polled meanwhile.
LEMMA TransmitOkStep ==
  ASSUME IInv, NEW p \in Replicas, TransmitOk(p)
  PROVE  IInv'
<1> USE DEF TransmitOk, Move, clientVars, pollVars
<1>1. PICK t \in batch[p] : Take(p, t) /\ sent' = [sent EXCEPT ![t.id] = @ + 1]
  OBVIOUS
<1>2. /\ t \in Held(p)
      /\ t \in Transmission
      /\ current'[p] = t
      /\ \A q \in Replicas : Held(q)' = Held(q)
      /\ \A q \in Replicas : current'[q] \notin batch'[q]
      /\ \A q \in Replicas \ {p} : batch'[q] = batch[q] /\ current'[q] = current[q]
  BY <1>1, TakeKeepsHeld
<1>3. /\ t.id \in Ids
      /\ t.transmission_count \in Nat
      /\ sent[t.id] = t.transmission_count
      /\ sent'[t.id] = t.transmission_count + 1
      /\ \A i \in Ids \ {t.id} : sent'[i] = sent[i]
      /\ request[t.id] \in {"stored", "failed"}
  BY <1>1, <1>2 DEF IInv, TypeOK, HeldMatches, Transmission
<1>4. \A k \in RowsOf(t.id) : ~IsUnlocked(k)
  BY <1>2 DEF IInv, HeldOnce
<1>5. TypeOK'
  <2>1. sent' \in [Ids -> Nat]
    BY <1>1, <1>3 DEF IInv, TypeOK
  <2>2. batch' \in [Replicas -> SUBSET Transmission]
    BY <1>1 DEF IInv, TypeOK, Take
  <2>3. current' \in [Replicas -> Transmission \cup {None}]
    BY <1>1, <1>2 DEF IInv, TypeOK, Take
  <2> QED
    BY <2>1, <2>2, <2>3 DEF IInv, TypeOK, TableOK, Phases
<1>6. RequestsMatch'
  BY <1>3 DEF IInv, RequestsMatch
<1>7. RowsMatch' /\ UnlockedMatchesSent'
  <2> SUFFICES ASSUME NEW k \in DOMAIN table
               PROVE  /\ k[2] <= sent'[k[1]]
                      /\ IsUnlocked(k) => k[2] = sent'[k[1]]
    BY DEF IInv, RowsMatch, UnlockedMatchesSent, IsUnlocked
  <2>1. k[1] \in Ids /\ k[2] \in Nat
    BY DEF IInv, TypeOK, TableOK, Keys
  <2>2. k[2] <= sent[k[1]] /\ (IsUnlocked(k) => k[2] = sent[k[1]])
    BY DEF IInv, RowsMatch, UnlockedMatchesSent
  <2>3. CASE k[1] = t.id
    BY <1>3, <1>4, <2>1, <2>2, <2>3 DEF RowsOf
  <2>4. CASE k[1] # t.id
    BY <1>3, <2>1, <2>2, <2>4
  <2> QED
    BY <2>3, <2>4
<1>8. HeldMatches'
  <2> SUFFICES ASSUME NEW q \in Replicas, NEW u \in Held(q)
               PROVE  sent'[u.id] = IF pc'[q] = "save" /\ u = current'[q]
                                    THEN u.transmission_count + 1
                                    ELSE u.transmission_count
    BY <1>2 DEF IInv, HeldMatches
  <2>1. u.id \in Ids
    BY DEF IInv, TypeOK, Held, Transmission
  <2>2. CASE u.id = t.id
    <3>1. q = p /\ u = t
      BY <1>2, <2>2 DEF IInv, HeldOnce
    <3> QED
      BY <1>2, <1>3, <3>1 DEF IInv, TypeOK
  <2>3. CASE u.id # t.id
    <3>1. sent'[u.id] = sent[u.id]
      BY <1>3, <2>1, <2>3
    <3>2. CASE q = p
      BY <1>2, <2>3, <3>1, <3>2 DEF IInv, HeldMatches
    <3>3. CASE q # p
      BY <1>2, <3>1, <3>3 DEF IInv, TypeOK, HeldMatches
    <3> QED
      BY <3>2, <3>3
  <2> QED
    BY <2>2, <2>3
<1>9. PhasesMatch'
  <2>1. t # None
    BY <1>2, SchedulerAssumption
  <2> QED
    BY <1>2, <2>1 DEF IInv, TypeOK, PhasesMatch
<1>10. HeldOnce'
  BY <1>2 DEF IInv, HeldOnce, RowsOf, IsUnlocked
<1>11. SavedKeyIsFresh'
  <2>1. KeyOf(Transmitted(t)) \notin DOMAIN table
    <3>1. KeyOf(Transmitted(t)) = <<t.id, t.transmission_count + 1>>
      BY <1>2 DEF KeyOf, Transmitted, Transmission
    <3>2. \A k \in DOMAIN table : k[1] = t.id => k[2] <= t.transmission_count
      BY <1>3 DEF IInv, RowsMatch
    <3> QED
      BY <1>3, <3>1, <3>2
  <2> QED
    BY <1>2, <2>1 DEF IInv, TypeOK, SavedKeyIsFresh
<1> QED
  BY <1>5, <1>6, <1>7, <1>8, <1>9, <1>10, <1>11 DEF IInv

\* A message that did not go out changes nothing but the loop.
LEMMA TransmitErrStep ==
  ASSUME IInv, NEW p \in Replicas, TransmitErr(p)
  PROVE  IInv'
<1> USE DEF TransmitErr, Move, clientVars, pollVars
<1>1. PICK t \in batch[p] : Take(p, t)
  OBVIOUS
<1>2. /\ t \in Transmission
      /\ current'[p] = t
      /\ \A q \in Replicas : Held(q)' = Held(q)
      /\ \A q \in Replicas : current'[q] \notin batch'[q]
      /\ \A q \in Replicas \ {p} : batch'[q] = batch[q] /\ current'[q] = current[q]
  BY <1>1, TakeKeepsHeld
<1>3. TypeOK'
  <2>1. batch' \in [Replicas -> SUBSET Transmission]
    BY <1>1 DEF IInv, TypeOK, Take
  <2>2. current' \in [Replicas -> Transmission \cup {None}]
    BY <1>1, <1>2 DEF IInv, TypeOK, Take
  <2>3. faults' \in 0 .. MaxFaults
    BY FaultType DEF IInv, TypeOK
  <2> QED
    BY <2>1, <2>2, <2>3 DEF IInv, TypeOK, TableOK, Phases
<1>4. RequestsMatch' /\ RowsMatch' /\ UnlockedMatchesSent'
  BY DEF IInv, RequestsMatch, RowsMatch, UnlockedMatchesSent, IsUnlocked
<1>5. HeldMatches'
  BY <1>2 DEF IInv, TypeOK, HeldMatches
<1>6. PhasesMatch'
  <2>1. t # None
    BY <1>2, SchedulerAssumption
  <2> QED
    BY <1>2, <2>1 DEF IInv, TypeOK, PhasesMatch
<1>7. HeldOnce'
  BY <1>2 DEF IInv, HeldOnce, RowsOf, IsUnlocked
<1>8. SavedKeyIsFresh'
  BY <1>2 DEF IInv, TypeOK, SavedKeyIsFresh
<1> QED
  BY <1>3, <1>4, <1>5, <1>6, <1>7, <1>8 DEF IInv

-----------------------------------------------------------------------------
(***************************************************************************)
(* After sending.                                                          *)
(***************************************************************************)

\* Finishing the current transmission releases it and nothing else.
LEMMA FinishReleases ==
  ASSUME IInv, NEW p \in Replicas, NEW from \in {"save", "reschedule"},
         FinishCurrent(p, from)
  PROVE  /\ current[p] \in Held(p)
         /\ current[p] \in Transmission
         /\ pc[p] = from
         /\ pc'[p] \in {"idle", "transmit"}
         /\ batch' = batch
         /\ current'[p] = None
         /\ Held(p)' = Held(p) \ {current[p]}
         /\ \A q \in Replicas \ {p} :
              pc'[q] = pc[q] /\ current'[q] = current[q] /\ Held(q)' = Held(q)
         /\ \A u \in Held(p)' : u.id # current[p].id
         /\ \A q \in Replicas : current'[q] \notin batch'[q]
         /\ PhasesMatch'
<1> USE DEF FinishCurrent, Move, clientVars, pollVars
<1>1. /\ current[p] # None
      /\ current[p] \in Transmission
      /\ current[p] \in Held(p)
      /\ current[p] \notin batch[p]
  BY DEF IInv, TypeOK, PhasesMatch, HeldOnce, Held
<1>2. /\ pc[p] = from
      /\ pc'[p] = NextOf(batch[p])
      /\ current'[p] = None
      /\ \A q \in Replicas \ {p} : pc'[q] = pc[q] /\ current'[q] = current[q]
  BY DEF IInv, TypeOK
<1>3. None \notin batch[p]
  BY SchedulerAssumption DEF IInv, TypeOK
<1>4. /\ Held(p) = batch[p] \cup {current[p]}
      /\ Held(p)' = batch[p]
      /\ \A q \in Replicas \ {p} : Held(q)' = Held(q)
  BY <1>1, <1>2, <1>3 DEF Held
<1>5. \A u \in Held(p)' : u.id # current[p].id
  BY <1>1, <1>4 DEF IInv, HeldOnce
<1>6. ASSUME NEW q \in Replicas \ {p} PROVE current[q] \notin batch[q]
  <2>1. CASE current[q] = None
    BY <2>1, SchedulerAssumption DEF IInv, TypeOK
  <2>2. CASE current[q] # None
    BY <2>2 DEF IInv, HeldOnce, Held
  <2> QED
    BY <2>1, <2>2
<1>7. PhasesMatch'
  BY <1>2 DEF IInv, PhasesMatch, NextOf
<1> QED
  BY <1>1, <1>2, <1>3, <1>4, <1>5, <1>6, <1>7 DEF NextOf

\* The row of the next occurrence comes in when the one before was sent.
LEMMA FinishSaveStep ==
  ASSUME IInv, NEW p \in Replicas, FinishCurrent(p, "save"),
         IsComputable(current[p]), faults' \in 0 .. MaxFaults,
         UNCHANGED table \/ SavedRow(p)
  PROVE  IInv'
<1> DEFINE c == current[p]
           n == Transmitted(current[p])
<1>1. /\ c \in Held(p)
      /\ c \in Transmission
      /\ pc[p] = "save"
      /\ pc'[p] \in {"idle", "transmit"}
      /\ batch' = batch
      /\ current'[p] = None
      /\ Held(p)' = Held(p) \ {c}
      /\ \A q \in Replicas \ {p} :
           pc'[q] = pc[q] /\ current'[q] = current[q] /\ Held(q)' = Held(q)
      /\ \A u \in Held(p)' : u.id # c.id
      /\ \A q \in Replicas : current'[q] \notin batch'[q]
      /\ PhasesMatch'
  BY FinishReleases
<1> USE DEF FinishCurrent, Move, clientVars, pollVars
<1>2. /\ n \in Transmission
      /\ n.id = c.id
      /\ n.schedule = c.schedule
      /\ n.transmission_count = c.transmission_count + 1
      /\ KeyOf(n) = <<c.id, c.transmission_count + 1>>
      /\ KeyOf(n) \notin DOMAIN table
  BY <1>1, TransmittedType DEF IsComputable, KeyOf, IInv, SavedKeyIsFresh
<1>3. /\ c.id \in Ids
      /\ request[c.id] \in {"stored", "failed"}
      /\ c.schedule = accepted[c.id]
      /\ sent[c.id] = c.transmission_count + 1
      /\ sent[c.id] \in Nat
  BY <1>1 DEF IInv, TypeOK, HeldMatches, Transmission
<1>4. /\ TableOK'
      /\ DOMAIN table' \subseteq DOMAIN table \cup {KeyOf(n)}
      /\ \A k \in DOMAIN table : k \in DOMAIN table' /\ table'[k] = table[k]
      /\ KeyOf(n) \in DOMAIN table' => table'[KeyOf(n)].schedule = c.schedule
  <2>1. CASE UNCHANGED table
    BY <1>2, <2>1 DEF IInv, TypeOK, TableOK
  <2>2. ASSUME NEW stamp \in Stamps(c.id), table' = Inserted(n, stamp)
        PROVE  <1>4!:
    <3>1. stamp \in Int /\ TableOK
      BY StampsType DEF IInv, TypeOK
    <3> HIDE DEF n
    <3>2. n \in Transmission
      BY <1>2
    <3>3. /\ DOMAIN table' = DOMAIN table \cup {KeyOf(n)}
          /\ DOMAIN table' \subseteq Keys
          /\ table' \in [DOMAIN table' -> Row]
          /\ \A k \in DOMAIN table : table'[k] = table[k]
          /\ KeyOf(n) \notin DOMAIN table => table'[KeyOf(n)] = NewRow(n, stamp)
      BY <2>2, <3>1, <3>2, InsertedEffect
    <3> QED
      BY <1>2, <3>3 DEF TableOK, NewRow
  <2> QED
    BY <2>1, <2>2 DEF SavedRow
<1>5. TypeOK'
  <2>1. pc' \in [Replicas -> Phases]
    BY <1>1 DEF IInv, TypeOK, Phases
  <2>2. current' \in [Replicas -> Transmission \cup {None}]
    BY DEF IInv, TypeOK
  <2> QED
    BY <1>4, <2>1, <2>2 DEF IInv, TypeOK
<1>6. RequestsMatch'
  BY DEF IInv, RequestsMatch
<1>7. RowsMatch' /\ UnlockedMatchesSent'
  <2>1. ASSUME NEW k \in DOMAIN table
        PROVE  /\ request'[k[1]] \in {"stored", "failed"}
               /\ table'[k].schedule = accepted'[k[1]]
               /\ k[2] <= sent'[k[1]]
               /\ ~table'[k].is_locked => k[2] = sent'[k[1]]
    BY <1>4 DEF IInv, RowsMatch, UnlockedMatchesSent, IsUnlocked
  <2>2. ASSUME NEW k \in DOMAIN table', k = KeyOf(n)
        PROVE  /\ request'[k[1]] \in {"stored", "failed"}
               /\ table'[k].schedule = accepted'[k[1]]
               /\ k[2] <= sent'[k[1]]
               /\ k[2] = sent'[k[1]]
    BY <1>2, <1>3, <1>4, <2>2
  <2> QED
    BY <1>4, <2>1, <2>2 DEF RowsMatch, UnlockedMatchesSent, IsUnlocked
<1>8. HeldMatches'
  <2>1. ASSUME NEW u \in Held(p)' PROVE sent'[u.id] = u.transmission_count
    BY <1>1, <2>1 DEF IInv, HeldMatches
  <2> QED
    BY <1>1, <2>1 DEF IInv, HeldMatches
<1>9. HeldOnce'
  <2>1. ASSUME NEW q \in Replicas, NEW u \in Held(q)'
        PROVE  u \in Held(q) /\ u.id # c.id
    BY <1>1, <2>1 DEF IInv, HeldOnce
  <2>2. ASSUME NEW q \in Replicas, NEW u \in Held(q)', NEW k \in RowsOf(u.id)'
        PROVE  ~IsUnlocked(k)'
    <3>1. k # KeyOf(n)
      BY <1>2, <2>1, <2>2 DEF RowsOf
    <3> QED
      BY <1>4, <2>1, <2>2, <3>1 DEF IInv, HeldOnce, RowsOf, IsUnlocked
  <2> QED
    BY <1>1, <2>1, <2>2 DEF IInv, HeldOnce
<1>10. SavedKeyIsFresh'
  <2> SUFFICES ASSUME NEW q \in Replicas, pc'[q] = "save"
               PROVE  KeyOf(Transmitted(current[q])) \notin DOMAIN table'
                      /\ current'[q] = current[q]
    BY DEF SavedKeyIsFresh
  <2>1. q # p /\ pc[q] = "save" /\ current'[q] = current[q]
    BY <1>1
  <2>2. current[q] \in Held(q)
    BY <2>1 DEF IInv, PhasesMatch, Held
  <2>3. Transmitted(current[q]).id # n.id
    BY <1>1, <1>2, <2>1, <2>2 DEF IInv, HeldOnce, TypeOK, Held, Transmission,
                                  Transmitted
  <2>4. KeyOf(Transmitted(current[q])) # KeyOf(n)
    BY <2>3 DEF KeyOf
  <2> QED
    BY <1>4, <2>1, <2>4 DEF IInv, SavedKeyIsFresh
<1> QED
  BY <1>1, <1>5, <1>6, <1>7, <1>8, <1>9, <1>10 DEF IInv

\* Whoever lets go of a transmission, for whatever reason, leaves no row of
\* it to be polled: nothing is sent twice, though it may never be sent.
LEMMA ReleaseStep ==
  ASSUME IInv, TypeOK', RequestsMatch', PhasesMatch', NoRowFreed,
         clock' = clock, accepted' = accepted, sent' = sent,
         \A i \in Ids : request[i] \in {"stored", "failed"}
                          => request'[i] \in {"stored", "failed"},
         \A q \in Replicas :
           /\ \A u \in Held(q)' :
                /\ u \in Held(q)
                /\ (pc'[q] = "save" /\ u = current'[q])
                     <=> (pc[q] = "save" /\ u = current[q])
           /\ current'[q] \notin batch'[q]
           /\ pc'[q] = "save" => pc[q] = "save" /\ current'[q] = current[q]
  PROVE  IInv'
<1>1. RowsMatch' /\ UnlockedMatchesSent'
  BY DEF IInv, TypeOK, TableOK, Keys, RowsMatch, UnlockedMatchesSent,
         IsUnlocked, NoRowFreed
<1>2. HeldMatches'
  BY DEF IInv, TypeOK, HeldMatches, Held, Transmission
<1>3. HeldOnce'
  BY DEF IInv, HeldOnce, RowsOf, IsUnlocked, NoRowFreed
<1>4. SavedKeyIsFresh'
  BY DEF IInv, SavedKeyIsFresh, NoRowFreed
<1> QED
  BY <1>1, <1>2, <1>3, <1>4 DEF IInv

\* A message whose publication failed is put away, and its row stays locked.
LEMMA FinishRescheduleStep ==
  ASSUME IInv, NEW p \in Replicas, FinishCurrent(p, "reschedule"),
         faults' \in 0 .. MaxFaults,
         UNCHANGED table \/ table' = Rescheduled(current[p].id)
  PROVE  IInv'
<1>1. NoRowFreed
  BY KeptByLocking DEF IInv, TypeOK, Rescheduled
<1>2. /\ pc[p] = "reschedule"
      /\ pc'[p] \in {"idle", "transmit"}
      /\ current'[p] = None
      /\ Held(p)' = Held(p) \ {current[p]}
      /\ \A q \in Replicas \ {p} :
           pc'[q] = pc[q] /\ current'[q] = current[q] /\ Held(q)' = Held(q)
      /\ \A q \in Replicas : current'[q] \notin batch'[q]
      /\ PhasesMatch'
  BY FinishReleases
<1> USE DEF FinishCurrent, Move, clientVars, pollVars
<1>3. TypeOK'
  <2>1. pc' \in [Replicas -> Phases]
    BY <1>2 DEF IInv, TypeOK, Phases
  <2>2. current' \in [Replicas -> Transmission \cup {None}]
    BY DEF IInv, TypeOK
  <2> QED
    BY <1>1, <2>1, <2>2 DEF IInv, TypeOK, NoRowFreed
<1>4. RequestsMatch'
  BY DEF IInv, RequestsMatch
<1>5. \A q \in Replicas :
        /\ \A u \in Held(q)' :
             /\ u \in Held(q)
             /\ (pc'[q] = "save" /\ u = current'[q])
                  <=> (pc[q] = "save" /\ u = current[q])
        /\ pc'[q] = "save" => pc[q] = "save" /\ current'[q] = current[q]
  BY <1>2
<1> QED
  BY <1>1, <1>2, <1>3, <1>4, <1>5, ReleaseStep

\* An error of the poll.
LEMMA PollFailsStep ==
  ASSUME IInv, NEW p \in Replicas, PollFails(p)
  PROVE  IInv'
<1> USE DEF PollFails, Move, ForgetPoll, clientVars
<1>1. NoRowFreed
  BY KeptByLocking DEF IInv, TypeOK
<1>2. TypeOK'
  <2>1. faults' \in 0 .. MaxFaults
    BY FaultType DEF IInv, TypeOK
  <2> QED
    BY <1>1, <2>1, SchedulerAssumption
       DEF IInv, TypeOK, Phases, NoRowFreed, Instant
<1>3. PhasesMatch'
  <2>1. clock >= 0
    BY DEF IInv, TypeOK
  <2> QED
    BY <2>1 DEF IInv, TypeOK, PhasesMatch
<1>4. RequestsMatch'
  BY DEF IInv, RequestsMatch
<1>5. \A q \in Replicas : Held(q)' = Held(q) /\ current'[q] \notin batch'[q]
  BY SchedulerAssumption DEF IInv, TypeOK, HeldOnce, Held
<1>6. \A q \in Replicas : pc'[q] = "save" <=> pc[q] = "save"
  BY DEF IInv, TypeOK
<1> QED
  BY <1>1, <1>2, <1>3, <1>4, <1>5, <1>6, ReleaseStep

\* The scheduler task dies of a panic, or the process with all its requests.
LEMMA StopStep ==
  ASSUME IInv, NEW p \in Replicas, SchedulerPanics(p) \/ Stop(p)
  PROVE  IInv'
<1> USE DEF SchedulerPanics, Stop, Move, ForgetPoll, clientVars, pollVars
<1>1. NoRowFreed
  BY KeptByLocking DEF IInv, TypeOK
<1>2. faults' \in 0 .. MaxFaults
  BY FaultType DEF IInv, TypeOK
<1>3. TypeOK'
  BY <1>1, <1>2, SchedulerAssumption
     DEF IInv, TypeOK, Phases, NoRowFreed, Instant
<1>4. /\ pc'[p] \in {"dead", "off"}
      /\ current'[p] = None
      /\ batch'[p] = {}
      /\ Held(p)' = {}
      /\ \A q \in Replicas \ {p} : /\ pc'[q] = pc[q]
                                   /\ current'[q] = current[q]
                                   /\ batch'[q] = batch[q]
                                   /\ Held(q)' = Held(q)
  BY DEF IInv, TypeOK, Held
<1>5. PhasesMatch'
  <2>1. \A q \in Replicas : now'[q] <= clock
    BY DEF IInv, TypeOK, PhasesMatch
  <2> QED
    BY <1>4, <2>1 DEF IInv, PhasesMatch
<1>6. RequestsMatch'
  BY SchedulerAssumption DEF IInv, TypeOK, RequestsMatch
<1>7. \A i \in Ids : request[i] \in {"stored", "failed"}
                       => request'[i] \in {"stored", "failed"}
  BY DEF IInv, TypeOK
<1>8. \A q \in Replicas : current'[q] \notin batch'[q]
  <2>1. \A q \in Replicas \ {p} : current[q] \notin batch[q]
    BY SchedulerAssumption DEF IInv, TypeOK, HeldOnce, Held
  <2> QED
    BY <1>4, <2>1
<1> QED
  BY <1>1, <1>3, <1>4, <1>5, <1>6, <1>7, <1>8, ReleaseStep

\* A replica that starts holds nothing.
LEMMA BootStep ==
  ASSUME IInv, NEW p \in Replicas, Boot(p)
  PROVE  IInv'
<1> USE DEF Boot, Move, clientVars, pollVars
<1>1. NoRowFreed
  BY DEF IInv, TypeOK, TableOK, NoRowFreed, EmptyTable
<1>2. TypeOK'
  BY <1>1 DEF IInv, TypeOK, Phases, NoRowFreed
<1>3. PhasesMatch'
  BY DEF IInv, TypeOK, PhasesMatch
<1>4. RequestsMatch'
  BY DEF IInv, RequestsMatch
<1>5. \A q \in Replicas : Held(q)' = Held(q) /\ current'[q] \notin batch'[q]
  BY SchedulerAssumption DEF IInv, TypeOK, HeldOnce, Held
<1>6. \A q \in Replicas : pc'[q] = "save" <=> pc[q] = "save"
  BY DEF IInv, TypeOK
<1> QED
  BY <1>1, <1>2, <1>3, <1>4, <1>5, <1>6, ReleaseStep

-----------------------------------------------------------------------------
(***************************************************************************)
(* The invariants.                                                         *)
(***************************************************************************)

\* Every step keeps the invariant.
LEMMA NextIInv == IInv /\ [Next]_vars => IInv'
<1> SUFFICES ASSUME IInv, [Next]_vars PROVE IInv'
  OBVIOUS
<1>1. ASSUME NEW p \in Replicas, NEW i \in Ids, NEW s \in Requests,
             Validate(p, i, s)
      PROVE  IInv'
  BY <1>1, QuietStep
<1>2. ASSUME NEW i \in Ids, Store(i)
      PROVE  IInv'
  BY <1>2, AnswerStep DEF Store, IInv, TypeOK
<1>3. ASSUME NEW i \in Ids, StoreFails(i)
      PROVE  IInv'
  <2>1. faults' \in 0 .. MaxFaults
    BY <1>3, FaultType DEF StoreFails, IInv, TypeOK
  <2> QED
    BY <1>3, <2>1, AnswerStep DEF StoreFails
<1>4. ASSUME NEW p \in Replicas, StartBatch(p) \/ TakeSnapshot(p)
      PROVE  IInv'
  BY <1>4, QuietStep
<1>5. ASSUME NEW p \in Replicas, Poll(p)
      PROVE  IInv'
  BY <1>5, PollStep
<1>6. ASSUME NEW p \in Replicas, PollFails(p)
      PROVE  IInv'
  BY <1>6, PollFailsStep
<1>7. ASSUME NEW p \in Replicas, TransmitOk(p)
      PROVE  IInv'
  BY <1>7, TransmitOkStep
<1>8. ASSUME NEW p \in Replicas, TransmitErr(p)
      PROVE  IInv'
  BY <1>8, TransmitErrStep
<1>9. ASSUME NEW p \in Replicas, Save(p) \/ SaveFails(p)
      PROVE  IInv'
  <2>1. faults' \in 0 .. MaxFaults
    BY <1>9, FaultType DEF Save, SaveFails, IInv, TypeOK
  <2> QED
    BY <1>9, <2>1, FinishSaveStep DEF Save, SaveFails
<1>10. ASSUME NEW p \in Replicas, Reschedule(p) \/ RescheduleFails(p)
       PROVE  IInv'
  <2>1. faults' \in 0 .. MaxFaults
    BY <1>10, FaultType DEF Reschedule, RescheduleFails, IInv, TypeOK
  <2> QED
    BY <1>10, <2>1, FinishRescheduleStep DEF Reschedule, RescheduleFails
<1>11. ASSUME NEW p \in Replicas, SchedulerPanics(p) \/ Stop(p)
       PROVE  IInv'
  BY <1>11, StopStep
<1>12. ASSUME NEW p \in Replicas, Boot(p)
       PROVE  IInv'
  BY <1>12, BootStep
<1>13. ASSUME Tick \/ UNCHANGED vars
       PROVE  IInv'
  BY <1>13, QuietStep
<1> QED
  BY <1>1, <1>2, <1>3, <1>4, <1>5, <1>6, <1>7, <1>8, <1>9, <1>10, <1>11,
     <1>12, <1>13 DEF Next, SchedulerStep, CallFails

\* The strengthened invariant holds in every reachable state.
THEOREM Invariance == Spec => []IInv
BY InitIInv, NextIInv, PTL DEF Spec

\* Every variable keeps its type; in particular no panic is ever stored.
THEOREM TypeCorrectness == Spec => []TypeOK
<1>1. IInv => TypeOK
  BY DEF IInv
<1> QED
  BY <1>1, Invariance, PTL

\* No two replicas ever hold the same transmission: what the lock of
\* poll_transmissions and the check of is_locked on the locked row achieve.
THEOREM MutualExclusion == Spec => []HeldOnce
<1>1. IInv => HeldOnce
  BY DEF IInv
<1> QED
  BY <1>1, Invariance, PTL

\* A row that can be polled is always that of the next unsent occurrence,
\* through lost replies, failed calls and dead processes.
THEOREM PollableIsUnsent == Spec => []UnlockedMatchesSent
<1>1. IInv => UnlockedMatchesSent
  BY DEF IInv
<1> QED
  BY <1>1, Invariance, PTL

\* The INSERT of save never meets the primary key of another row.
THEOREM SaveNeverConflicts == Spec => []SavedKeyIsFresh
<1>1. IInv => SavedKeyIsFresh
  BY DEF IInv
<1> QED
  BY <1>1, Invariance, PTL

-----------------------------------------------------------------------------
(***************************************************************************)
(* The table over time.                                                    *)
(***************************************************************************)

\* A step inserts rows, or locks rows, or resets the table.
LEMMA TableStep ==
  ASSUME IInv, [Next]_vars, ~ResetState, NEW k \in DOMAIN table
  PROVE  /\ k \in DOMAIN table'
         /\ table'[k] \in {table[k], [table[k] EXCEPT !.is_locked = TRUE]}
<1> DEFINE Goal == /\ k \in DOMAIN table'
                   /\ table'[k] \in {table[k],
                                     [table[k] EXCEPT !.is_locked = TRUE]}
<1>1. ASSUME UNCHANGED table PROVE Goal
  BY <1>1
<1>2. ASSUME NEW keys, table' = Locked(keys) PROVE Goal
  BY <1>2 DEF Locked
<1>3. ASSUME NEW t, NEW stamp, table' = Inserted(t, stamp) PROVE Goal
  BY <1>3 DEF Inserted
<1>4. CASE \E i \in Ids : Store(i) \/ StoreFails(i)
  BY <1>1, <1>3, <1>4 DEF Store, StoreFails, NewRowStored
<1>5. CASE \E p \in Replicas : Poll(p) \/ PollFails(p)
  BY <1>1, <1>2, <1>5 DEF Poll, PollFails
<1>6. CASE \E p \in Replicas : Save(p) \/ SaveFails(p)
  BY <1>1, <1>3, <1>6 DEF Save, SaveFails, SavedRow
<1>7. CASE \E p \in Replicas : Reschedule(p) \/ RescheduleFails(p)
  BY <1>1, <1>2, <1>7 DEF Reschedule, RescheduleFails, Rescheduled
<1>8. CASE \E p \in Replicas : Boot(p)
  BY <1>1, <1>8 DEF Boot
<1>9. CASE \/ \E p \in Replicas, i \in Ids, s \in Requests : Validate(p, i, s)
           \/ \E p \in Replicas : \/ StartBatch(p) \/ TakeSnapshot(p)
                                  \/ TransmitOk(p) \/ TransmitErr(p)
                                  \/ SchedulerPanics(p) \/ Stop(p)
           \/ Tick
           \/ UNCHANGED vars
  BY <1>1, <1>9 DEF Validate, StartBatch, TakeSnapshot, TransmitOk,
     TransmitErr, SchedulerPanics, Stop, Tick, vars
<1> QED
  BY <1>4, <1>5, <1>6, <1>7, <1>8, <1>9 DEF Next, SchedulerStep, CallFails

\* Without reset_state the table only grows and its rows only get locked.
THEOREM TableOnlyGrows == Spec => TableIsLog
<1>1. IInv /\ [Next]_vars =>
        [~ResetState =>
           \A k \in DOMAIN table :
             /\ k \in DOMAIN table'
             /\ table'[k] \in {table[k],
                               [table[k] EXCEPT !.is_locked = TRUE]}]_vars
  BY TableStep, Zenon
<1> QED
  BY <1>1, Invariance, PTL DEF Spec, TableIsLog

\* reschedule never changes the table: the rows of the transmission it is
\* called for are locked, and it looks for unlocked ones only.
THEOREM RescheduleIsIdle ==
  Spec => [][\A p \in Replicas : Reschedule(p) => UNCHANGED table]_vars
<1>1. ASSUME IInv, NEW p \in Replicas, Reschedule(p)
      PROVE  UNCHANGED table
  <2>1. current[p] \in Held(p)
    BY <1>1, FinishReleases DEF Reschedule
  <2>2. Reschedulable(current[p].id) = {}
    BY <1>1, <2>1 DEF IInv, HeldOnce, Reschedulable
  <2>3. table' = Locked({})
    BY <1>1, <2>2 DEF Reschedule, Rescheduled
  <2>4. table = [k \in DOMAIN table |-> table[k]]
    BY <1>1 DEF IInv, TypeOK, TableOK
  <2> QED
    BY <2>3, <2>4 DEF Locked
<1>2. IInv /\ [Next]_vars =>
        [\A p \in Replicas : Reschedule(p) => UNCHANGED table]_vars
  BY <1>1
<1> QED
  BY <1>2, Invariance, PTL DEF Spec

-----------------------------------------------------------------------------
(***************************************************************************)
(* What the next column says, and what gets locked.                        *)
(***************************************************************************)

\* Time does not go back, and a request that was answered keeps its schedule.
LEMMA SettledStays ==
  ASSUME IInv, [Next]_vars
  PROVE  /\ clock \in Int /\ clock' \in Int /\ clock <= clock'
         /\ \A i \in Ids :
              request[i] \in {"stored", "failed"} =>
                /\ request'[i] \in {"stored", "failed"}
                /\ accepted'[i] = accepted[i]
<1> DEFINE Goal == /\ clock \in Int /\ clock' \in Int /\ clock <= clock'
                   /\ \A i \in Ids :
                        request[i] \in {"stored", "failed"} =>
                          /\ request'[i] \in {"stored", "failed"}
                          /\ accepted'[i] = accepted[i]
<1> USE DEF clientVars, pollVars
<1>1. clock \in Int
  BY DEF IInv, TypeOK
<1>2. ASSUME NEW p \in Replicas, NEW i \in Ids, NEW s \in Requests,
             Validate(p, i, s)
      PROVE  Goal
  BY <1>1, <1>2 DEF Validate, IInv, TypeOK
<1>3. ASSUME NEW i \in Ids, Store(i) \/ StoreFails(i) PROVE Goal
  BY <1>1, <1>3 DEF Store, StoreFails, Answer, IInv, TypeOK
<1>4. ASSUME NEW p \in Replicas, Stop(p) PROVE Goal
  BY <1>1, <1>4, SchedulerAssumption DEF Stop, IInv, TypeOK, RequestsMatch
<1>5. ASSUME Tick PROVE Goal
  BY <1>1, <1>5 DEF Tick
<1>6. CASE \/ \E p \in Replicas : \/ StartBatch(p) \/ TakeSnapshot(p)
                                  \/ Poll(p) \/ PollFails(p)
                                  \/ TransmitOk(p) \/ TransmitErr(p)
                                  \/ Save(p) \/ SaveFails(p)
                                  \/ SchedulerPanics(p)
                                  \/ Reschedule(p) \/ RescheduleFails(p)
                                  \/ Boot(p)
           \/ UNCHANGED vars
  BY <1>1, <1>6 DEF StartBatch, TakeSnapshot, Poll, PollFails, TransmitOk,
     TransmitErr, Save, SaveFails, SchedulerPanics, Reschedule,
     RescheduleFails, FinishCurrent, Boot, vars
<1> QED
  BY <1>2, <1>3, <1>4, <1>5, <1>6 DEF Next, SchedulerStep, CallFails

\* The row of an occurrence, as INSERT writes it.
IsNewRow(k) ==
  /\ k \in Keys
  /\ Occurrence(k) \in Instant \cup {NoTime}
  /\ table'[k].next = IF Occurrence(k) = NoTime
                      THEN NoTime ELSE Truncated(Occurrence(k))
  /\ ~table'[k].is_locked
  /\ accepted'[k[1]] = accepted[k[1]]

\* A row after a step is new, or it is as it was, or it has been locked by a
\* poll that had picked it.
RowsChange ==
  \A k \in DOMAIN table' :
    \/ /\ k \in DOMAIN table
       /\ table'[k].next = table[k].next
       /\ table'[k].is_locked =>
            table[k].is_locked \/ \E p \in Replicas : k \in candidates[p]
    \/ IsNewRow(k)

\* The INSERT of a transmission that stands for its occurrence.
LEMMA InsertedChange ==
  ASSUME IInv, NEW t \in Transmission, NEW stamp \in Int,
         table' = Inserted(t, stamp),
         t.next = Occurrence(KeyOf(t)), UNCHANGED accepted
  PROVE  RowsChange
<1> DEFINE k == KeyOf(t)
<1>1. /\ DOMAIN table' = DOMAIN table \cup {k}
      /\ \A j \in DOMAIN table : table'[j] = table[j]
      /\ k \notin DOMAIN table => table'[k] = NewRow(t, stamp)
  BY InsertedEffect DEF IInv, TypeOK
<1>2. ASSUME k \notin DOMAIN table PROVE IsNewRow(k)
  <2>1. k \in Keys /\ t.next \in Instant \cup {NoTime}
    BY DEF Transmission, KeyOf, Keys
  <2>2. /\ table'[k].next = IF t.next = NoTime
                            THEN NoTime ELSE Truncated(t.next)
        /\ ~table'[k].is_locked
    BY <1>1, <1>2 DEF NewRow
  <2> HIDE DEF k
  <2> QED
    BY <2>1, <2>2 DEF IsNewRow, k
<1> HIDE DEF k
<1> QED
  BY <1>1, <1>2 DEF RowsChange

\* A lock on candidates changes nothing else of the rows.
LEMMA LockedChange ==
  ASSUME IInv, NEW keys, table' = Locked(keys),
         \A k \in keys : \E p \in Replicas : k \in candidates[p]
  PROVE  RowsChange
<1>1. /\ DOMAIN table' = DOMAIN table
      /\ \A k \in DOMAIN table :
           /\ table'[k].next = table[k].next
           /\ table'[k].is_locked = (table[k].is_locked \/ k \in keys)
  BY LockedEffect DEF IInv, TypeOK
<1> QED
  BY <1>1 DEF RowsChange

\* No step changes the rows otherwise.
LEMMA RowsStep ==
  ASSUME IInv, [Next]_vars
  PROVE  RowsChange
<1>1. ASSUME UNCHANGED table PROVE RowsChange
  BY <1>1 DEF RowsChange
<1>2. ASSUME NEW i \in Ids, Store(i) \/ StoreFails(i) PROVE RowsChange
  <2>1. CASE UNCHANGED table
    BY <1>1, <2>1
  <2>2. ASSUME NEW stamp \in Stamps(i),
               table' = Inserted(NewTransmission(i, accepted[i]), stamp)
        PROVE  RowsChange
    <3> DEFINE t == NewTransmission(i, accepted[i])
    <3>1. request[i] = "validated" /\ UNCHANGED accepted
      BY <1>2 DEF Store, StoreFails, Answer
    <3>2. accepted[i] \in AnySchedule
      BY <3>1, SchedulerAssumption DEF IInv, TypeOK, RequestsMatch
    <3>3. t \in Transmission
      BY <3>2, NewTransmissionType
    <3>4. t.next = Occurrence(KeyOf(t))
      BY DEF NewTransmission, KeyOf, Occurrence
    <3>5. stamp \in Int
      BY StampsType DEF IInv, TypeOK
    <3> HIDE DEF t
    <3> QED
      BY <2>2, <3>1, <3>3, <3>4, <3>5, InsertedChange DEF t
  <2> QED
    BY <1>2, <2>1, <2>2 DEF Store, StoreFails, NewRowStored
<1>3. ASSUME NEW p \in Replicas, Save(p) \/ SaveFails(p) PROVE RowsChange
  <2>1. CASE UNCHANGED table
    BY <1>1, <2>1
  <2>2. ASSUME NEW stamp \in Stamps(current[p].id),
               table' = Inserted(Transmitted(current[p]), stamp)
        PROVE  RowsChange
    <3> DEFINE c == current[p]
               t == Transmitted(current[p])
    <3>1. /\ FinishCurrent(p, "save")
          /\ IsComputable(c)
          /\ UNCHANGED accepted
      BY <1>3 DEF Save, SaveFails, FinishCurrent, clientVars
    <3>2. c \in Held(p) /\ c \in Transmission
      BY <3>1, FinishReleases
    <3>3. /\ t \in Transmission
          /\ t.id = c.id
          /\ t.transmission_count = c.transmission_count + 1
      BY <3>1, <3>2, TransmittedType DEF IsComputable
    <3>4. t.next = ScheduleNext(accepted[c.id], c.transmission_count + 1)
      BY <3>2 DEF Transmitted, Transmission, IInv, HeldMatches
    <3>5. c.transmission_count + 1 # 0
      BY <3>2 DEF Transmission
    <3>6. t.next = Occurrence(KeyOf(t))
      BY <3>3, <3>4, <3>5 DEF KeyOf, Occurrence
    <3>7. stamp \in Int
      BY StampsType DEF IInv, TypeOK
    <3> HIDE DEF t
    <3> QED
      BY <2>2, <3>1, <3>3, <3>6, <3>7, InsertedChange DEF t
  <2> QED
    BY <1>3, <2>1, <2>2 DEF Save, SaveFails, SavedRow
<1>4. ASSUME NEW p \in Replicas, Poll(p) \/ PollFails(p) PROVE RowsChange
  <2>1. CASE UNCHANGED table
    BY <1>1, <2>1
  <2>2. CASE table' = Locked(StillUnlocked(candidates[p]))
    BY <2>2, LockedChange DEF StillUnlocked
  <2> QED
    BY <1>4, <2>1, <2>2 DEF Poll, PollFails
<1>5. ASSUME NEW p \in Replicas, Reschedule(p) \/ RescheduleFails(p)
      PROVE  RowsChange
  <2>1. CASE UNCHANGED table
    BY <1>1, <2>1
  <2>2. CASE table' = Locked(Reschedulable(current[p].id))
    <3>1. current[p] \in Held(p)
      BY <1>5, FinishReleases DEF Reschedule, RescheduleFails
    <3>2. Reschedulable(current[p].id) = {}
      BY <3>1 DEF IInv, HeldOnce, Reschedulable
    <3> QED
      BY <2>2, <3>2, LockedChange
  <2> QED
    BY <1>5, <2>1, <2>2 DEF Reschedule, RescheduleFails, Rescheduled
<1>6. ASSUME NEW p \in Replicas, Boot(p) PROVE RowsChange
  BY <1>1, <1>6 DEF Boot, EmptyTable, RowsChange
<1>7. CASE \/ \E p \in Replicas, i \in Ids, s \in Requests : Validate(p, i, s)
           \/ \E p \in Replicas : \/ StartBatch(p) \/ TakeSnapshot(p)
                                  \/ TransmitOk(p) \/ TransmitErr(p)
                                  \/ SchedulerPanics(p) \/ Stop(p)
           \/ Tick
           \/ UNCHANGED vars
  BY <1>1, <1>7 DEF Validate, StartBatch, TakeSnapshot, TransmitOk,
     TransmitErr, SchedulerPanics, Stop, Tick, vars
<1> QED
  BY <1>2, <1>3, <1>4, <1>5, <1>6, <1>7 DEF Next, SchedulerStep, CallFails

\* What a snapshot picks is past.
LEMMA PicksArePast ==
  ASSUME IInv, LockedIsPast, NEW p \in Replicas, NEW k \in Candidates(now[p])
  PROVE  /\ request[k[1]] \in {"stored", "failed"}
         /\ Occurrence(k) \in 0 .. now[p] - 1
<1>1. /\ k \in DOMAIN table
      /\ table[k].next # NoTime
      /\ table[k].next < Truncated(now[p])
  BY DEF Candidates
<1>2. /\ Occurrence(k) \in Instant
      /\ table[k].next = Truncated(Occurrence(k))
  BY <1>1 DEF LockedIsPast
<1>3. now[p] \in Instant
  <2>1. now[p] \in 0 .. MaxClock
    BY DEF IInv, TypeOK
  <2>2. MaxClock \in 0 .. MaxInstant
    BY SchedulerAssumption DEF Instant
  <2> QED
    BY <2>1, <2>2, InstantAssumption DEF Instant
<1>4. Occurrence(k) < now[p]
  BY <1>1, <1>2, <1>3, PickedIsPast
<1>5. request[k[1]] \in {"stored", "failed"}
  BY <1>1 DEF IInv, RowsMatch
<1> QED
  BY <1>2, <1>3, <1>4, <1>5, InstantAssumption DEF Instant

\* The rows a poll has picked are forgotten when it ends.
LEMMA CandidatesStep ==
  ASSUME IInv, LockedIsPast, [Next]_vars, NEW p \in Replicas,
         NEW k \in candidates'[p]
  PROVE  /\ pc'[p] = "lock"
         /\ request[k[1]] \in {"stored", "failed"}
         /\ Occurrence(k) \in 0 .. now'[p] - 1
<1> DEFINE Goal == /\ pc'[p] = "lock"
                   /\ request[k[1]] \in {"stored", "failed"}
                   /\ Occurrence(k) \in 0 .. now'[p] - 1
<1> USE DEF pollVars, clientVars
<1>1. ASSUME k \in candidates[p]
      PROVE  /\ pc[p] = "lock"
             /\ request[k[1]] \in {"stored", "failed"}
             /\ Occurrence(k) \in 0 .. now[p] - 1
  BY <1>1 DEF LockedIsPast
<1>2. ASSUME UNCHANGED candidates, UNCHANGED now, pc'[p] = pc[p] PROVE Goal
  BY <1>1, <1>2
<1>3. ASSUME NEW q \in Replicas, TakeSnapshot(q) PROVE Goal
  <2>1. CASE p = q
    BY <1>3, <2>1, PicksArePast DEF TakeSnapshot, Move, IInv, TypeOK
  <2>2. CASE p # q
    BY <1>1, <1>3, <2>2 DEF TakeSnapshot, Move, IInv, TypeOK
  <2> QED
    BY <2>1, <2>2
<1>4. ASSUME NEW q \in Replicas, StartBatch(q) PROVE Goal
  BY <1>1, <1>4 DEF StartBatch, Move, IInv, TypeOK
<1>5. ASSUME NEW q \in Replicas, Poll(q) \/ PollFails(q) \/ Stop(q) PROVE Goal
  <2>1. /\ candidates' = [candidates EXCEPT ![q] = {}]
        /\ now' = [now EXCEPT ![q] = 0]
        /\ p # q => pc'[p] = pc[p]
    BY <1>5 DEF Poll, PollFails, Stop, ForgetPoll, Move, IInv, TypeOK
  <2>2. p # q
    BY <2>1 DEF IInv, TypeOK
  <2> QED
    BY <1>1, <2>1, <2>2 DEF IInv, TypeOK
<1>6. ASSUME NEW q \in Replicas,
             \/ TransmitOk(q) \/ TransmitErr(q)
             \/ Save(q) \/ SaveFails(q) \/ SchedulerPanics(q)
             \/ Reschedule(q) \/ RescheduleFails(q)
             \/ Boot(q)
      PROVE  Goal
  <2>1. /\ UNCHANGED candidates /\ UNCHANGED now
        /\ pc[q] \in {"off", "transmit", "save", "reschedule"}
        /\ p # q => pc'[p] = pc[p]
    BY <1>6 DEF TransmitOk, TransmitErr, Save, SaveFails, SchedulerPanics,
       Reschedule, RescheduleFails, FinishCurrent, Boot, Move, IInv, TypeOK
  <2> QED
    BY <1>1, <2>1
<1>7. CASE \/ \E q \in Replicas, i \in Ids, s \in Requests : Validate(q, i, s)
           \/ \E i \in Ids : Store(i) \/ StoreFails(i)
           \/ Tick
           \/ UNCHANGED vars
  BY <1>2, <1>7 DEF Validate, Store, StoreFails, Answer, Tick, vars
<1> QED
  BY <1>3, <1>4, <1>5, <1>6, <1>7 DEF Next, SchedulerStep, CallFails

\* No step locks a row before its time.
LEMMA LockedIsPastStep == IInv /\ LockedIsPast /\ [Next]_vars => LockedIsPast'
<1> SUFFICES ASSUME IInv, LockedIsPast, [Next]_vars PROVE LockedIsPast'
  OBVIOUS
<1>1. /\ clock \in Int /\ clock' \in Int /\ clock <= clock'
      /\ \A i \in Ids :
           request[i] \in {"stored", "failed"} =>
             /\ request'[i] \in {"stored", "failed"}
             /\ accepted'[i] = accepted[i]
  BY SettledStays
<1>2. ASSUME NEW k \in DOMAIN table'
      PROVE  /\ Occurrence(k)' \in Instant \cup {NoTime}
             /\ table'[k].next = IF Occurrence(k)' = NoTime
                                 THEN NoTime ELSE Truncated(Occurrence(k)')
             /\ table'[k].is_locked => Occurrence(k)' \in 0 .. clock' - 1
  <2>1. CASE IsNewRow(k)
    <3>1. Occurrence(k)' = Occurrence(k)
      BY <2>1 DEF IsNewRow, Occurrence
    <3> QED
      BY <2>1, <3>1 DEF IsNewRow
  <2>2. CASE /\ k \in DOMAIN table
             /\ table'[k].next = table[k].next
             /\ table'[k].is_locked =>
                  table[k].is_locked \/ \E p \in Replicas : k \in candidates[p]
    <3>1. k[1] \in Ids /\ request[k[1]] \in {"stored", "failed"}
      BY <2>2 DEF IInv, TypeOK, TableOK, Keys, RowsMatch
    <3>2. Occurrence(k)' = Occurrence(k)
      BY <1>1, <3>1 DEF Occurrence
    <3>3. ASSUME NEW p \in Replicas, k \in candidates[p]
          PROVE  Occurrence(k) \in 0 .. clock - 1
      <4>1. Occurrence(k) \in 0 .. now[p] - 1
        BY <3>3 DEF LockedIsPast
      <4>2. now[p] \in Int /\ now[p] <= clock
        BY DEF IInv, TypeOK, PhasesMatch
      <4> QED
        BY <1>1, <4>1, <4>2
    <3>4. table'[k].is_locked => Occurrence(k) \in 0 .. clock - 1
      BY <2>2, <3>3 DEF LockedIsPast
    <3> QED
      BY <1>1, <2>2, <3>2, <3>4 DEF LockedIsPast
  <2> QED
    BY <2>1, <2>2, RowsStep DEF RowsChange
<1>3. ASSUME NEW p \in Replicas, NEW k \in candidates'[p]
      PROVE  /\ pc'[p] = "lock"
             /\ request'[k[1]] \in {"stored", "failed"}
             /\ Occurrence(k)' \in 0 .. now'[p] - 1
  <2>1. /\ pc'[p] = "lock"
        /\ request[k[1]] \in {"stored", "failed"}
        /\ Occurrence(k) \in 0 .. now'[p] - 1
    BY <1>3, CandidatesStep
  <2>2. k[1] \in Ids
    BY <1>3, NextIInv DEF IInv, TypeOK, Keys
  <2>3. Occurrence(k)' = Occurrence(k)
    BY <1>1, <2>1, <2>2 DEF Occurrence
  <2> QED
    BY <1>1, <2>1, <2>2, <2>3
<1> QED
  BY <1>2, <1>3 DEF LockedIsPast

\* The next column is that of the row's own occurrence, and no row is locked
\* for a poll before that is past, by whatever precision the column has.
THEOREM NothingIsLockedEarly == Spec => []LockedIsPast
<1>1. Init => LockedIsPast
  BY DEF Init, EmptyTable, LockedIsPast
<1> QED
  BY <1>1, Invariance, LockedIsPastStep, PTL DEF Spec

-----------------------------------------------------------------------------
(***************************************************************************)
(* What is waiting to be sent stays in progress, unless something fails.   *)
(***************************************************************************)

\* A poll can lock no more rows than there are ids, since of each at most one
\* can be polled: a batch of that size never cuts a poll short.
BatchHoldsAll == IsFiniteSet(Ids) /\ Cardinality(Ids) <= BatchSize

\* A batch large enough for all ids leaves nothing behind.
LEMMA PollReturnsAll ==
  ASSUME IInv, BatchHoldsAll, NEW p \in Replicas,
         NEW returned \in Limited(StillUnlocked(candidates[p]), BatchSize)
  PROVE  returned = StillUnlocked(candidates[p])
<1> DEFINE picked == StillUnlocked(candidates[p])
           f == [k \in picked |-> k[1]]
<1>1. \A k \in picked : k \in DOMAIN table /\ IsUnlocked(k) /\ k[1] \in Ids
  BY DEF StillUnlocked, IsUnlocked, IInv, TypeOK, TableOK, Keys
<1>2. \A j, k \in picked : j[1] = k[1] => j = k
  BY <1>1, OneUnlockedRow
<1>3. f \in Injection(picked, Ids)
  <2>1. f \in [picked -> Ids]
    BY <1>1
  <2>2. \A j, k \in picked : f[j] = f[k] => j = k
    BY <1>2
  <2> QED
    BY <2>1, <2>2 DEF Injection, IsInjective
<1>4. IsFiniteSet(picked) /\ Cardinality(picked) <= Cardinality(Ids)
  BY <1>3, FS_Injection DEF BatchHoldsAll
<1>5. /\ Cardinality(picked) \in Nat /\ Cardinality(Ids) \in Nat
      /\ BatchSize \in Nat
  BY <1>4, FS_CardinalityType, SchedulerAssumption DEF BatchHoldsAll
<1>6. Cardinality(picked) <= BatchSize
  BY <1>4, <1>5 DEF BatchHoldsAll
<1>7. returned \in SUBSET picked /\ Cardinality(returned) = Cardinality(picked)
  BY <1>6 DEF Limited
<1> QED
  BY <1>4, <1>7, FS_Subset

\* A schedule that has an occurrence at all starts with the one its first row
\* names.
LEMMA OccurrenceIsNext ==
  ASSUME IInv, NEW k \in DOMAIN table,
         ScheduleNext(table[k].schedule, k[2]) \in Instant
  PROVE  Occurrence(k) = ScheduleNext(table[k].schedule, k[2])
<1>1. table[k].schedule = accepted[k[1]] /\ table[k].schedule \in AnySchedule
  BY DEF IInv, TypeOK, TableOK, RowsMatch, Row
<1>2. CASE k[2] = 0
  <2> DEFINE s == table[k].schedule
  <2>1. ASSUME s.kind # "Delayed", s.iterate = 0 PROVE FALSE
    <3>1. IsExhausted(s.iterate, 0)
      BY <2>1, SentinelAssumption DEF IsExhausted
    <3>2. ScheduleNext(s, 0) = NoTime
      BY <1>1, <2>1, <3>1
         DEF ScheduleNext, IntervalNext, CronNext, AnySchedule, Delayed,
             Interval, Cron
    <3> QED
      BY <1>2, <3>2, SentinelAssumption DEF Instant
  <2>2. InitialNext(s) = ScheduleNext(s, 0)
    BY <1>1, <2>1, InitialNextAgrees
  <2> QED
    BY <1>1, <1>2, <2>2 DEF Occurrence
<1>3. CASE k[2] # 0
  BY <1>1, <1>3 DEF Occurrence
<1> QED
  BY <1>2, <1>3

\* A poll takes over every row it locks: the filter of process_batch drops
\* none that stands for an occurrence.
LEMMA PollTakesOver ==
  ASSUME IInv, LockedIsPast, BatchHoldsAll, NEW p \in Replicas, Poll(p),
         NEW k \in DOMAIN table, IsUnlocked(k), k \in candidates[p],
         ScheduleNext(accepted[k[1]], sent[k[1]]) \in Instant
  PROVE  \E t \in Held(p)' : t.id = k[1]
<1> DEFINE picked == StillUnlocked(candidates[p])
           t == AsTransmission(k)
<1>1. PICK returned \in Limited(picked, BatchSize) :
        batch' = [batch EXCEPT ![p] = Relevant(p, returned)]
  BY DEF Poll
<1>2. k \in returned
  BY <1>1, PollReturnsAll DEF StillUnlocked
<1>3. /\ k[2] = sent[k[1]]
      /\ table[k].schedule = accepted[k[1]]
  BY DEF IInv, UnlockedMatchesSent, RowsMatch
<1>4. /\ t \in Transmission
      /\ t.id = k[1]
      /\ t.transmission_count = k[2]
      /\ t.schedule = table[k].schedule
  BY AsTransmissionType DEF IInv, TypeOK
<1>5. Occurrence(k) = ScheduleNext(t.schedule, t.transmission_count)
  BY <1>3, <1>4, OccurrenceIsNext
<1>6. /\ Occurrence(k) \in 0 .. now[p] - 1
      /\ now[p] \in Int
  BY DEF LockedIsPast, IInv, TypeOK
<1>7. IsRelevant(t, now[p])
  BY <1>3, <1>4, <1>5, <1>6 DEF IsRelevant
<1>8. t \in batch'[p]
  BY <1>1, <1>2, <1>7 DEF Relevant, IInv, TypeOK
<1> QED
  BY <1>4, <1>8 DEF Held

\* The steps that leave no transmission behind.
Proceeds ==
  \/ \E p \in Replicas, i \in Ids, s \in Requests : Validate(p, i, s)
  \/ \E i \in Ids : Store(i) \/ StoreFails(i)
  \/ \E p \in Replicas : \/ StartBatch(p) \/ TakeSnapshot(p) \/ Poll(p)
                         \/ TransmitOk(p) \/ TransmitErr(p) \/ Save(p)
                         \/ Boot(p)
  \/ Tick
  \/ UNCHANGED vars

\* What is on its way is still so after a step that does not fail.
LEMMA ProgressStep ==
  ASSUME IInv, LockedIsPast, BatchHoldsAll, Proceeds,
         ResetState => \A p \in Replicas : ~Boot(p),
         NEW i \in Ids, InProgress(i),
         ScheduleNext(accepted[i], sent[i])' \in Instant
  PROVE  InProgress(i)'
<1> USE DEF clientVars, pollVars
<1>1. ASSUME UNCHANGED batch, UNCHANGED current,
             \A k \in RowsOf(i) : IsUnlocked(k) =>
               k \in DOMAIN table' /\ table'[k] = table[k]
      PROVE  InProgress(i)'
  BY <1>1 DEF InProgress, Held, RowsOf, IsUnlocked
<1>2. ASSUME NEW j \in Ids, Store(j) \/ StoreFails(j) PROVE InProgress(i)'
  <2>1. \A k \in DOMAIN table : k \in DOMAIN table' /\ table'[k] = table[k]
    BY <1>2 DEF Store, StoreFails, NewRowStored, Inserted
  <2> QED
    BY <1>1, <1>2, <2>1 DEF Store, StoreFails, Answer, RowsOf
<1>3. ASSUME NEW p \in Replicas, Poll(p) PROVE InProgress(i)'
  <2>1. UNCHANGED <<accepted, sent, current>>
    BY <1>3 DEF Poll
  <2>2. ASSUME NEW q \in Replicas, NEW t \in Held(q), t.id = i
        PROVE  InProgress(i)'
    <3>1. p # q
      BY <1>3, <2>2 DEF Poll, Move, IInv, PhasesMatch, Held
    <3>2. Held(q)' = Held(q)
      BY <1>3, <3>1 DEF Poll, IInv, TypeOK, Held
    <3> QED
      BY <2>2, <3>2 DEF InProgress
  <2>3. ASSUME NEW k \in RowsOf(i), IsUnlocked(k) PROVE InProgress(i)'
    <3>1. k \in DOMAIN table /\ k[1] = i
      BY <2>3 DEF RowsOf
    <3>2. CASE k \in candidates[p]
      <4>1. ScheduleNext(accepted[k[1]], sent[k[1]]) \in Instant
        BY <2>1, <3>1
      <4>2. \E t \in Held(p)' : t.id = k[1]
        BY <1>3, <2>3, <3>1, <3>2, <4>1, PollTakesOver
      <4> QED
        BY <3>1, <4>2 DEF InProgress
    <3>3. CASE k \notin candidates[p]
      <4>1. k \in DOMAIN table' /\ table'[k] = table[k]
        BY <1>3, <3>1, <3>3 DEF Poll, Locked, StillUnlocked
      <4> QED
        BY <2>3, <3>1, <4>1 DEF InProgress, RowsOf, IsUnlocked
    <3> QED
      BY <3>2, <3>3
  <2> QED
    BY <2>2, <2>3 DEF InProgress
<1>4. ASSUME NEW p \in Replicas, TransmitOk(p) \/ TransmitErr(p)
      PROVE  InProgress(i)'
  <2>1. PICK t \in batch[p] : Take(p, t)
    BY <1>4 DEF TransmitOk, TransmitErr
  <2>2. \A q \in Replicas : Held(q)' = Held(q)
    BY <1>4, <2>1, TakeKeepsHeld DEF TransmitOk, TransmitErr, Move
  <2>3. table' = table
    BY <1>4 DEF TransmitOk, TransmitErr
  <2> QED
    BY <2>2, <2>3 DEF InProgress, RowsOf, IsUnlocked
<1>5. ASSUME NEW p \in Replicas, Save(p) PROVE InProgress(i)'
  <2> DEFINE c == current[p]
             n == Transmitted(current[p])
  <2>1. /\ FinishCurrent(p, "save")
        /\ c \in Transmission
        /\ n \in Transmission
        /\ n.id = c.id
        /\ KeyOf(n) \notin DOMAIN table
    BY <1>5, FinishReleases, TransmittedType
       DEF Save, IsComputable, IInv, SavedKeyIsFresh
  <2>2. PICK stamp \in Stamps(c.id) : table' = Inserted(n, stamp)
    BY <1>5 DEF Save, SavedRow
  <2>3. stamp \in Int
    BY StampsType DEF IInv, TypeOK
  <2> HIDE DEF n
  <2>4. /\ \A k \in DOMAIN table : k \in DOMAIN table' /\ table'[k] = table[k]
        /\ KeyOf(n) \in DOMAIN table'
        /\ table'[KeyOf(n)] = NewRow(n, stamp)
    <3>1. TableOK /\ n \in Transmission
      BY <2>1 DEF IInv, TypeOK
    <3>2. /\ DOMAIN table' = DOMAIN table \cup {KeyOf(n)}
          /\ \A k \in DOMAIN table : table'[k] = table[k]
          /\ KeyOf(n) \notin DOMAIN table =>
               table'[KeyOf(n)] = NewRow(n, stamp)
      BY <2>2, <2>3, <3>1, InsertedEffect
    <3> QED
      BY <2>1, <3>2
  <2>5. CASE i = c.id
    BY <2>1, <2>4, <2>5 DEF InProgress, RowsOf, IsUnlocked, KeyOf, NewRow
  <2>6. CASE i # c.id
    <3>1. ASSUME NEW q \in Replicas, NEW t \in Held(q), t.id = i
          PROVE  t \in Held(q)'
      BY <2>1, <2>6, <3>1 DEF FinishCurrent, Held, IInv, TypeOK
    <3> QED
      BY <2>4, <3>1 DEF InProgress, RowsOf, IsUnlocked
  <2> QED
    BY <2>5, <2>6
<1>6. CASE \/ \E p \in Replicas, j \in Ids, s \in Requests : Validate(p, j, s)
           \/ \E p \in Replicas : StartBatch(p) \/ TakeSnapshot(p) \/ Boot(p)
           \/ Tick
           \/ UNCHANGED vars
  <2>1. UNCHANGED <<table, batch, current>>
    BY <1>6 DEF Validate, StartBatch, TakeSnapshot, Boot, Tick, vars
  <2> QED
    BY <1>1, <2>1 DEF RowsOf
<1> QED
  BY <1>2, <1>3, <1>4, <1>5, <1>6 DEF Proceeds

\* Nothing fails, no schedule is planned zero times, and the calendar lasts
\* for the occurrence after every one that is reached.
NothingFails == MaxFaults = 0

NonePlannedZeroTimes ==
  \A s \in Requests : s.kind # "Delayed" => s.iterate # 0

CalendarSuffices ==
  \A s \in Requests, n \in Nat :
    ScheduleNext(s, n) \in 0 .. MaxClock => ScheduleNext(s, n + 1) # Panic

\* No replica has reached what follows a failure only.
TasksAreFine == \A p \in Replicas : pc[p] \notin {"reschedule", "dead"}

\* Where nothing fails, every step is one of these, and no task dies.
LEMMA FailureFreeStep ==
  ASSUME IInv, NothingFails, CalendarSuffices, TasksAreFine, [Next]_vars
  PROVE  Proceeds /\ TasksAreFine'
<1>1. ASSUME NEW kind, Fault(kind) PROVE FALSE
  BY <1>1 DEF Fault, NothingFails, IInv, TypeOK
<1>2. ASSUME NEW p \in Replicas, SchedulerPanics(p) PROVE FALSE
  <2> DEFINE c == current[p]
  <2>1. /\ pc[p] = "save" /\ ~IsComputable(c)
        /\ c \in Transmission /\ c \in Held(p)
    BY <1>2 DEF SchedulerPanics, Move, IInv, TypeOK, PhasesMatch, Held
  <2>2. /\ c.schedule \in AnySchedule
        /\ c.transmission_count \in Nat
        /\ c.id \in Ids
    BY <2>1 DEF Transmission
  <2>3. /\ c.schedule = accepted[c.id]
        /\ ScheduleNext(c.schedule, c.transmission_count) \in Instant
        /\ ScheduleNext(c.schedule, c.transmission_count) <= clock
    BY <2>1 DEF IInv, HeldMatches
  <2>4. accepted[c.id] \in Requests
    BY <2>2, <2>3, SchedulerAssumption DEF IInv, TypeOK
  <2>5. ScheduleNext(c.schedule, c.transmission_count) \in 0 .. MaxClock
    <3>1. clock \in 0 .. MaxClock /\ MaxClock \in Int
      BY SchedulerAssumption DEF IInv, TypeOK, Instant
    <3> QED
      BY <2>3, <3>1, InstantAssumption DEF Instant
  <2>6. ScheduleNext(c.schedule, c.transmission_count + 1) # Panic
    BY <2>2, <2>3, <2>4, <2>5 DEF CalendarSuffices
  <2> QED
    BY <2>1, <2>6 DEF IsComputable, Transmitted, Transmission
<1>3. ASSUME NEW p \in Replicas,
             \/ PollFails(p) \/ SaveFails(p) \/ Stop(p)
             \/ Reschedule(p) \/ RescheduleFails(p)
      PROVE  FALSE
  BY <1>1, <1>3 DEF PollFails, SaveFails, RescheduleFails, Stop,
     Reschedule, FinishCurrent, Move, TasksAreFine
<1>4. Proceeds
  BY <1>2, <1>3 DEF Proceeds, Next, SchedulerStep, CallFails
<1>5. TasksAreFine'
  <2>1. CASE \E p \in Replicas : \/ StartBatch(p) \/ TakeSnapshot(p)
                                  \/ Poll(p) \/ TransmitOk(p) \/ Save(p)
                                  \/ Boot(p)
    BY <2>1 DEF StartBatch, TakeSnapshot, Poll, TransmitOk, Save,
       FinishCurrent, Boot, Move, NextOf, TasksAreFine, IInv, TypeOK
  <2>2. CASE \/ \E p \in Replicas, i \in Ids, s \in Requests :
                  Validate(p, i, s)
             \/ \E i \in Ids : Store(i) \/ StoreFails(i)
             \/ Tick
             \/ UNCHANGED vars
    BY <2>2 DEF Validate, Store, StoreFails, Answer, Tick, vars, TasksAreFine
  <2>3. ASSUME NEW p \in Replicas, TransmitErr(p) PROVE FALSE
    BY <1>1, <2>3 DEF TransmitErr
  <2> QED
    BY <1>4, <2>1, <2>2, <2>3 DEF Proceeds
<1> QED
  BY <1>4, <1>5

\* A row that is locked and not done with was in progress, and so it is held:
\* what could be polled would be that row itself.
LEMMA LockedRowIsHeldStep ==
  ASSUME IInv, IInv', LockedIsPast, LockedIsPast', LockedRowIsHeld,
         BatchHoldsAll, NothingFails, NonePlannedZeroTimes, CalendarSuffices,
         TasksAreFine, [Next]_vars
  PROVE  LockedRowIsHeld'
<1> SUFFICES ASSUME NEW k \in DOMAIN table',
                    table'[k].is_locked,
                    k[2] = sent'[k[1]]
             PROVE  \E p \in Replicas : \E t \in Held(p)' : t.id = k[1]
  BY DEF LockedRowIsHeld
<1> DEFINE i == k[1]
<1>1. /\ i \in Ids
      /\ k[2] \in Nat
      /\ k = <<i, k[2]>>
  BY DEF IInv, TypeOK, TableOK, Keys
<1>2. k \in DOMAIN table
  BY RowsStep DEF RowsChange, IsNewRow
<1>3. InProgress(i)
  <2>1. CASE IsUnlocked(k)
    BY <1>2, <2>1 DEF InProgress, RowsOf
  <2>2. CASE table[k].is_locked
    <3>1. k[2] <= sent[i] /\ sent[i] \in Nat
      BY <1>1, <1>2 DEF IInv, TypeOK, RowsMatch
    <3>2. sent'[i] = sent[i] \/ sent'[i] = sent[i] + 1
      BY <1>1 DEF Next, SchedulerStep, CallFails, Validate, Store, StoreFails,
         Answer, StartBatch, TakeSnapshot, Poll, PollFails, TransmitOk,
         TransmitErr, Save, SaveFails, SchedulerPanics, Reschedule,
         RescheduleFails, FinishCurrent, Stop, Boot, Tick, vars, clientVars,
         IInv, TypeOK
    <3>3. k[2] = sent[i]
      BY <3>1, <3>2
    <3> QED
      BY <1>2, <2>2, <3>3 DEF LockedRowIsHeld, InProgress
  <2> QED
    BY <1>2, <2>1, <2>2 DEF IsUnlocked
<1>4. ScheduleNext(accepted[i], sent[i])' \in Instant
  <2>1. Occurrence(k)' \in Instant
    <3>1. Occurrence(k)' \in 0 .. clock' - 1
      BY DEF LockedIsPast
    <3>2. clock' \in 0 .. MaxClock /\ MaxClock \in 0 .. MaxInstant
      BY SchedulerAssumption DEF IInv, TypeOK, Instant
    <3> QED
      BY <3>1, <3>2, InstantAssumption DEF Instant
  <2>2. accepted'[i] \in Requests /\ accepted'[i] \in AnySchedule
    <3>1. request'[i] \in {"stored", "failed"}
      BY DEF IInv, RowsMatch
    <3>2. accepted'[i] # Unused
      BY <1>1, <3>1 DEF IInv, RequestsMatch
    <3> QED
      BY <1>1, <3>2, SchedulerAssumption DEF IInv, TypeOK
  <2>3. CASE k[2] = 0
    BY <2>1, <2>2, <2>3, InitialNextAgrees
       DEF Occurrence, NonePlannedZeroTimes
  <2>4. CASE k[2] # 0
    BY <2>1, <2>4 DEF Occurrence
  <2> QED
    BY <2>3, <2>4
<1>5. CASE ResetState /\ \E p \in Replicas : Boot(p)
  BY <1>5 DEF Boot, EmptyTable
<1>6. CASE ~(ResetState /\ \E p \in Replicas : Boot(p))
  <2>1. InProgress(i)'
    BY <1>1, <1>3, <1>4, <1>6, FailureFreeStep, ProgressStep
  <2>2. ASSUME NEW j \in RowsOf(i)', IsUnlocked(j)' PROVE FALSE
    <3>1. j \in DOMAIN table' /\ j[1] = i
      BY <2>2 DEF RowsOf
    <3>2. j[2] = sent'[j[1]]
      BY <2>2, <3>1 DEF IInv, UnlockedMatchesSent
    <3>3. j = <<j[1], j[2]>>
      BY <3>1 DEF IInv, TypeOK, TableOK, Keys
    <3>4. j = k
      BY <1>1, <3>1, <3>2, <3>3
    <3> QED
      BY <2>2, <3>4 DEF IsUnlocked
  <2> QED
    BY <2>1, <2>2 DEF InProgress
<1> QED
  BY <1>5, <1>6

\* When nothing fails, process_batch takes what it polls through to the end:
\* no row is left locked for good, whichever replicas poll at the same time.
THEOREM NothingGetsStuck ==
  ASSUME NothingFails, BatchHoldsAll, NonePlannedZeroTimes, CalendarSuffices
  PROVE  Spec => []LockedRowIsHeld
<1>1. Init => TasksAreFine /\ LockedRowIsHeld
  BY DEF Init, EmptyTable, TasksAreFine, LockedRowIsHeld
<1>2. IInv /\ IInv' /\ LockedIsPast /\ LockedIsPast'
        /\ TasksAreFine /\ LockedRowIsHeld /\ [Next]_vars
      => TasksAreFine' /\ LockedRowIsHeld'
  BY FailureFreeStep, LockedRowIsHeldStep
<1> QED
  BY <1>1, <1>2, Invariance, NothingIsLockedEarly, PTL DEF Spec

-----------------------------------------------------------------------------
(***************************************************************************)
(* The program does what Delivery promises.                                *)
(***************************************************************************)

\* Delivery has its own copy of Schedules, which says the same.
LEMMA SameSchedules ==
  /\ Delivered!Instant = Instant
  /\ \A s, n : Delivered!ScheduleNext(s, n) = ScheduleNext(s, n)
  /\ \A t, s : Delivered!IsValidSchedule(t, s) <=> IsValidSchedule(t, s)
<1>1. \A S, n, t : Delivered!IsNth(S, n, t) <=> IsNth(S, n, t)
  BY Zenon DEF Delivered!IsNth, IsNth, Delivered!Cardinality, Cardinality
<1>2. \A S, n : Delivered!NthInstant(S, n) = NthInstant(S, n)
  BY <1>1, Zenon DEF Delivered!NthInstant, NthInstant
<1>3. \A s : Delivered!FiringTimes(s) = FiringTimes(s)
  BY DEF Delivered!FiringTimes, FiringTimes
<1>4. \A s, n : Delivered!CronNext(s, n) = CronNext(s, n)
  BY <1>2, <1>3 DEF Delivered!CronNext, CronNext, Delivered!IsExhausted,
                    IsExhausted
<1>5. \A s, n : Delivered!IntervalNext(s, n) = IntervalNext(s, n)
  BY DEF Delivered!IntervalNext, IntervalNext, Delivered!IsExhausted,
         IsExhausted, Delivered!CheckedInstant, CheckedInstant
<1>6. \A s, n : Delivered!DelayedNext(s, n) = DelayedNext(s, n)
  BY DEF Delivered!DelayedNext, DelayedNext
<1>7. \A s, n : Delivered!ScheduleNext(s, n) = ScheduleNext(s, n)
  BY <1>4, <1>5, <1>6 DEF Delivered!ScheduleNext, ScheduleNext
<1>8. \A t, s : Delivered!IsValidSchedule(t, s) <=> IsValidSchedule(t, s)
  BY DEF Delivered!IsValidSchedule, IsValidSchedule, Delivered!StartOf, StartOf
<1> QED
  BY <1>7, <1>8 DEF Delivered!Instant, Instant

\* An empty table is nothing delivered yet.
LEMMA InitRefines == Init => Delivered!Init
BY DEF Init, Delivered!Init

\* TransmitOk is the delivery of the next occurrence, Validate and Tick are
\* themselves, and nothing else shows.
LEMMA NextRefines == IInv /\ [Next]_vars => [Delivered!Next]_(Delivered!vars)
<1> SUFFICES ASSUME IInv, [Next]_vars
             PROVE  [Delivered!Next]_(Delivered!vars)
  OBVIOUS
<1> USE DEF clientVars, pollVars, Delivered!vars
<1>1. ASSUME NEW p \in Replicas, NEW i \in Ids, NEW s \in Requests,
             Validate(p, i, s)
      PROVE  Delivered!Next
  <2>1. accepted[i] = Unused
    BY <1>1 DEF Validate, IInv, RequestsMatch
  <2> QED
    BY <1>1, <2>1, SameSchedules DEF Validate, Delivered!Next, Delivered!Accept
<1>2. ASSUME NEW p \in Replicas, TransmitOk(p)
      PROVE  Delivered!Next
  <2>1. PICK t \in batch[p] : sent' = [sent EXCEPT ![t.id] = @ + 1]
    BY <1>2 DEF TransmitOk
  <2>2. /\ t \in Held(p)
        /\ t \in Transmission
        /\ t # current[p]
    BY <1>2, SchedulerAssumption
       DEF TransmitOk, Move, IInv, TypeOK, PhasesMatch, Held
  <2>3. /\ t.id \in Ids
        /\ t.schedule = accepted[t.id]
        /\ t.transmission_count = sent[t.id]
        /\ ScheduleNext(t.schedule, t.transmission_count) \in Instant
        /\ ScheduleNext(t.schedule, t.transmission_count) <= clock
    BY <2>2 DEF IInv, HeldMatches, Transmission
  <2>4. accepted[t.id] # Unused
    BY <2>2, <2>3, SchedulerAssumption DEF Transmission
  <2>5. Delivered!Deliver(t.id)
    BY <1>2, <2>1, <2>3, <2>4, SameSchedules
       DEF TransmitOk, Delivered!Deliver, Delivered!Due
  <2> QED
    BY <2>3, <2>5 DEF Delivered!Next
<1>3. ASSUME Tick PROVE Delivered!Next
  BY <1>3 DEF Tick, Delivered!Next, Delivered!Tick
<1>4. CASE \/ \E i \in Ids : Store(i) \/ StoreFails(i)
           \/ \E p \in Replicas : \/ StartBatch(p) \/ TakeSnapshot(p)
                                  \/ Poll(p) \/ PollFails(p)
                                  \/ TransmitErr(p)
                                  \/ Save(p) \/ SaveFails(p)
                                  \/ SchedulerPanics(p)
                                  \/ Reschedule(p) \/ RescheduleFails(p)
                                  \/ Stop(p) \/ Boot(p)
           \/ UNCHANGED vars
  BY <1>4 DEF Store, StoreFails, Answer, StartBatch, TakeSnapshot, Poll,
     PollFails, TransmitErr, Save, SaveFails, SchedulerPanics, Reschedule,
     RescheduleFails, FinishCurrent, Stop, Boot, vars
<1> QED
  BY <1>1, <1>2, <1>3, <1>4 DEF Next, SchedulerStep, CallFails

\* Messages are handed to the broker in order, none twice and none early,
\* whatever fails and however many replicas run.
THEOREM Refinement == Spec => ImplementsDelivery
<1>1. ImplementsDelivery <=> Delivered!Init /\ [][Delivered!Next]_(Delivered!vars)
  BY DEF ImplementsDelivery, Delivered!Spec
<1> QED
  BY <1>1, InitRefines, NextRefines, Invariance, PTL DEF Spec
=============================================================================
