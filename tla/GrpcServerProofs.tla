--------------------------- MODULE GrpcServerProofs ---------------------------
(***************************************************************************)
(* What GrpcServer tells its clients is true, for every set of clients,    *)
(* calls and requests that the protocol can express: IInv is inductive.    *)
(***************************************************************************)
EXTENDS GrpcServer, TLAPS

-----------------------------------------------------------------------------
(***************************************************************************)
(* Reading a request.                                                      *)
(***************************************************************************)

\* A start that is read without a problem is an instant.
LEMMA TimeIsInstant ==
  ASSUME NEW t \in RequestedTime, TimeProblem(t) = NoProblem
  PROVE  t \in Instant
BY InstantAssumption DEF TimeProblem, NoProblem, InvalidArgument,
   HandlerPanics, RequestedTime, Instant

\* An iterate that is not refused is read, and would be written down again as
\* it was.
LEMMA IterateIsRead ==
  ASSUME NEW iterate \in RequestedIterate, ~IsBadIterate(iterate)
  PROVE  /\ IterateOf(iterate) \in Iterate
         /\ EncodedIterate(IterateOf(iterate)) = iterate
<1>1. CASE iterate \in [case : {"times"}, times : Nat]
  <2>1. /\ iterate.times \in Nat
        /\ iterate.times # Infinitely
        /\ iterate = [case |-> "times", times |-> iterate.times]
    BY <1>1, SentinelAssumption
  <2>2. IterateOf(iterate) = iterate.times
    BY <1>1 DEF IterateOf
  <2> QED
    BY <2>1, <2>2 DEF Iterate, EncodedIterate
<1>2. CASE iterate \in [case : {"infinitely"}, infinitely : BOOLEAN]
  <2>1. iterate.infinitely /\ iterate.case = "infinitely"
    BY <1>2 DEF IsBadIterate
  <2>2. iterate = [case |-> "infinitely", infinitely |-> TRUE]
    BY <1>2, <2>1
  <2>3. IterateOf(iterate) = Infinitely
    BY <2>1 DEF IterateOf
  <2> QED
    BY <2>2, <2>3 DEF Iterate, EncodedIterate
<1> QED
  BY <1>1, <1>2 DEF IsBadIterate, RequestedIterate

\* What is decoded from a request without a problem is a schedule, and the
\* one the client wrote down.
LEMMA DecodedIsAsked ==
  ASSUME NEW r, r.schedule \in RequestedSchedule, Problem(r) = NoProblem
  PROVE  /\ Decoded(r) \in AnySchedule
         /\ Encoded(Decoded(r)) = r.schedule
<1> DEFINE s == r.schedule
<1>1. s # Absent /\ ScheduleProblem(s) = NoProblem
  BY DEF Problem, NoProblem, InvalidArgument
<1>2. CASE s \in [kind : {"Delayed"}, transmit_at : RequestedTime]
  <2>1. TimeProblem(s.transmit_at) = NoProblem
    BY <1>1, <1>2 DEF ScheduleProblem, DelayedProblem
  <2>2. s.transmit_at \in Instant
    BY <1>2, <2>1, TimeIsInstant
  <2>3. s.kind = "Delayed" /\ s \in Delayed
    BY <1>2, <2>2 DEF Delayed
  <2> QED
    BY <2>3 DEF Decoded, Encoded, AnySchedule
<1>3. CASE s \in [kind : {"Interval"}, first_transmission : RequestedTime,
                  interval : RequestedTime, iterate : RequestedIterate]
  <2>1. /\ TimeProblem(s.first_transmission) = NoProblem
        /\ s.interval \notin {Absent, Malformed}
        /\ ~IsBadIterate(s.iterate)
    BY <1>1, <1>3 DEF ScheduleProblem, IntervalProblem, NoProblem,
                      InvalidArgument
  <2>2. /\ s.first_transmission \in Instant
        /\ s.interval \in Nat
    BY <1>3, <2>1, TimeIsInstant DEF RequestedTime
  <2> DEFINE i == IterateOf(s.iterate)
  <2>3. i \in Iterate /\ EncodedIterate(i) = s.iterate
    BY <1>3, <2>1, IterateIsRead
  <2> HIDE DEF i
  <2>4. Decoded(r) = [s EXCEPT !.iterate = i]
    BY <1>3 DEF Decoded, i
  <2>5. Decoded(r) \in Interval
    BY <1>3, <2>2, <2>3, <2>4 DEF Interval
  <2>6. Encoded(Decoded(r)) = [Decoded(r) EXCEPT !.iterate = EncodedIterate(i)]
    BY <1>3, <2>4 DEF Encoded
  <2>7. Encoded(Decoded(r)) = s
    BY <1>3, <2>3, <2>4, <2>6
  <2> QED
    BY <2>5, <2>7 DEF AnySchedule
<1>4. CASE s \in [kind : {"Cron"}, first_transmission_after : RequestedTime,
                  expression : {Malformed} \cup SUBSET Instant,
                  iterate : RequestedIterate]
  <2>1. /\ TimeProblem(s.first_transmission_after) = NoProblem
        /\ s.expression # Malformed
        /\ ~IsBadIterate(s.iterate)
    BY <1>1, <1>4 DEF ScheduleProblem, CronProblem, NoProblem, InvalidArgument
  <2>2. /\ s.first_transmission_after \in Instant
        /\ s.expression \in SUBSET Instant
    BY <1>4, <2>1, TimeIsInstant
  <2> DEFINE i == IterateOf(s.iterate)
  <2>3. i \in Iterate /\ EncodedIterate(i) = s.iterate
    BY <1>4, <2>1, IterateIsRead
  <2> HIDE DEF i
  <2>4. Decoded(r) = [s EXCEPT !.iterate = i]
    BY <1>4 DEF Decoded, i
  <2>5. Decoded(r) \in Cron
    BY <1>4, <2>2, <2>3, <2>4 DEF Cron
  <2>6. Encoded(Decoded(r)) = [Decoded(r) EXCEPT !.iterate = EncodedIterate(i)]
    BY <1>4, <2>4 DEF Encoded
  <2>7. Encoded(Decoded(r)) = s
    BY <1>4, <2>3, <2>4, <2>6
  <2> QED
    BY <2>5, <2>7 DEF AnySchedule
<1> QED
  BY <1>1, <1>2, <1>3, <1>4 DEF RequestedSchedule

-----------------------------------------------------------------------------
(***************************************************************************)
(* The initial states, and the steps.                                      *)
(***************************************************************************)

\* The invariant holds before the first call.
LEMMA InitIInv == Init => IInv
<1> SUFFICES ASSUME Init PROVE IInv
  OBVIOUS
<1>1. DOMAIN stored = {} /\ stored \in [DOMAIN stored -> AnySchedule]
  BY DEF Init
<1>2. TypeOK
  <2>1. handler \in [Calls -> HandlerPhases] /\ answer \in [Calls -> Answers]
    BY DEF Init, HandlerPhases, Answers
  <2>2. clock \in 0 .. MaxClock /\ faults \in 0 .. MaxFaults
    BY ServerAssumption DEF Init, Instant
  <2>3. owner \in [Calls -> Clients \cup {None}]
    BY DEF Init
  <2>4. schedule \in [Calls -> AnySchedule \cup {None}]
    BY DEF Init
  <2> QED
    BY <1>1, <2>1, <2>2, <2>3, <2>4 DEF Init, TypeOK
<1>3. AnswersAreTrue
  BY <1>1 DEF Init, AnswersAreTrue, InvalidArgument
<1>4. HandlersMatch
  BY <1>1 DEF Init, HandlersMatch
<1> QED
  BY <1>2, <1>3, <1>4 DEF IInv

\* A call that has begun is a client's, and is one the protocol can express.
LEMMA OwnerIsClient ==
  ASSUME IInv, NEW c \in Calls, handler[c] # "none"
  PROVE  /\ owner[c] \in Clients
         /\ RequestOf(c) \in Requests
         /\ RequestOf(c).schedule \in RequestedSchedule
BY RequestsAssumption DEF IInv, TypeOK, HandlersMatch, RequestOf

\* A fault is counted, and within its bound.
LEMMA FaultType ==
  ASSUME faults \in 0 .. MaxFaults, NEW kind, Fault(kind)
  PROVE  faults' \in 0 .. MaxFaults
BY ServerAssumption DEF Fault

\* A call that begins has stored nothing and was told nothing.
LEMMA CallStep ==
  ASSUME IInv, NEW k \in Clients, NEW c \in Calls, Call(k, c)
  PROVE  IInv'
<1> USE DEF Call
<1>1. c \notin DOMAIN stored
  BY DEF IInv, HandlersMatch
<1>2. \A d \in Calls \ {c} : RequestOf(d)' = RequestOf(d)
  BY DEF IInv, TypeOK, RequestOf
<1>3. TypeOK'
  BY DEF IInv, TypeOK, HandlerPhases
<1>4. AnswersAreTrue'
  BY <1>1, <1>2 DEF IInv, TypeOK, AnswersAreTrue
<1>5. HandlersMatch'
  BY <1>1, <1>2, ServerAssumption DEF IInv, TypeOK, HandlersMatch
<1> QED
  BY <1>3, <1>4, <1>5 DEF IInv

\* What passes validation is what the client asked for, and publishable.
LEMMA AcceptStep ==
  ASSUME IInv, NEW c \in Calls, Accept(c)
  PROVE  IInv'
<1> USE DEF Accept, Moves
<1> DEFINE s == Decoded(RequestOf(c))
<1>1. /\ s \in AnySchedule
      /\ Encoded(s) = RequestOf(c).schedule
      /\ IsValidSubject(RequestOf(c).message)
  BY OwnerIsClient, DecodedIsAsked DEF IsAcceptable
<1> HIDE DEF s
<1>2. schedule' = [schedule EXCEPT ![c] = s]
  BY DEF s
<1>3. \A d : RequestOf(d)' = RequestOf(d)
  BY DEF RequestOf
<1>4. TypeOK'
  BY <1>1, <1>2 DEF IInv, TypeOK, HandlerPhases
<1>5. AnswersAreTrue'
  BY <1>3 DEF IInv, AnswersAreTrue
<1>6. HandlersMatch'
  BY <1>1, <1>2, <1>3, ServerAssumption DEF IInv, TypeOK, HandlersMatch
<1> QED
  BY <1>4, <1>5, <1>6 DEF IInv

\* A call refused, or one whose handler panicked, has stored nothing.
LEMMA RefuseStep ==
  ASSUME IInv, NEW c \in Calls, Refuse(c) \/ Panics(c)
  PROVE  IInv'
<1> USE DEF Refuse, Panics, Moves
<1>1. c \notin DOMAIN stored
  BY DEF IInv, HandlersMatch
<1>2. \A d : RequestOf(d)' = RequestOf(d)
  BY DEF RequestOf
<1>3. TypeOK'
  BY DEF IInv, TypeOK, HandlerPhases, Answers
<1>4. AnswersAreTrue'
  BY <1>1, <1>2 DEF IInv, TypeOK, AnswersAreTrue, InvalidArgument
<1>5. HandlersMatch'
  BY <1>1, <1>2 DEF IInv, TypeOK, HandlersMatch, InvalidArgument
<1> QED
  BY <1>3, <1>4, <1>5 DEF IInv

\* Inserting the transmissions of calls that were validated.
LEMMA StoredEffect ==
  ASSUME IInv, NEW done \in SUBSET Calls,
         \A c \in done : handler[c] = "storing",
         stored' = Stored(done)
  PROVE  /\ DOMAIN stored' = DOMAIN stored \cup done
         /\ DOMAIN stored' \subseteq Calls
         /\ stored' \in [DOMAIN stored' -> AnySchedule]
         /\ \A c \in DOMAIN stored' :
              /\ RequestOf(c).schedule = Encoded(stored'[c])
              /\ IsValidSubject(RequestOf(c).message)
<1>1. /\ DOMAIN stored' = DOMAIN stored \cup done
      /\ stored' = [c \in DOMAIN stored' |-> stored'[c]]
      /\ \A c \in DOMAIN stored' :
           stored'[c] = IF c \in done THEN schedule[c] ELSE stored[c]
  BY DEF Stored
<1>2. ASSUME NEW c \in done
      PROVE  /\ schedule[c] \in AnySchedule
             /\ RequestOf(c).schedule = Encoded(schedule[c])
             /\ IsValidSubject(RequestOf(c).message)
  BY DEF IInv, TypeOK, HandlersMatch
<1>3. ASSUME NEW c \in DOMAIN stored
      PROVE  /\ stored[c] \in AnySchedule
             /\ RequestOf(c).schedule = Encoded(stored[c])
             /\ IsValidSubject(RequestOf(c).message)
  BY DEF IInv, TypeOK, AnswersAreTrue
<1>4. DOMAIN stored \subseteq Calls
  BY DEF IInv, TypeOK
<1>5. ASSUME NEW c \in DOMAIN stored'
      PROVE  /\ stored'[c] \in AnySchedule
             /\ RequestOf(c).schedule = Encoded(stored'[c])
             /\ IsValidSubject(RequestOf(c).message)
  <2>1. CASE c \in done
    BY <1>1, <1>2, <2>1
  <2>2. CASE c \notin done
    BY <1>1, <1>3, <2>2
  <2> QED
    BY <2>1, <2>2
<1> QED
  BY <1>1, <1>4, <1>5

\* store_transmission is called once for a call, and only its success makes
\* the answer ok.
LEMMA StoreStep ==
  ASSUME IInv, NEW c \in Calls, StoreOk(c) \/ StoreFails(c)
  PROVE  IInv'
<1> USE DEF StoreOk, StoreFails, Moves
<1>1. handler[c] = "storing"
  OBVIOUS
<1>2. \A d : RequestOf(d)' = RequestOf(d)
  BY DEF RequestOf
<1>3. /\ DOMAIN stored \subseteq DOMAIN stored'
      /\ DOMAIN stored' \subseteq DOMAIN stored \cup {c}
      /\ handler'[c] = "ok" => c \in DOMAIN stored'
      /\ DOMAIN stored' \subseteq Calls
      /\ stored' \in [DOMAIN stored' -> AnySchedule]
      /\ \A d \in DOMAIN stored' :
           /\ RequestOf(d).schedule = Encoded(stored'[d])
           /\ IsValidSubject(RequestOf(d).message)
  <2>1. CASE stored' = Stored({c})
    <3>1. {c} \in SUBSET Calls /\ \A d \in {c} : handler[d] = "storing"
      BY <1>1
    <3>2. /\ DOMAIN stored' = DOMAIN stored \cup {c}
          /\ DOMAIN stored' \subseteq Calls
          /\ stored' \in [DOMAIN stored' -> AnySchedule]
          /\ \A d \in DOMAIN stored' :
               /\ RequestOf(d).schedule = Encoded(stored'[d])
               /\ IsValidSubject(RequestOf(d).message)
      BY <2>1, <3>1, StoredEffect, Zenon
    <3> QED
      BY <3>2
  <2>2. CASE StoreFails(c) /\ UNCHANGED stored
    <3>1. handler'[c] = "internal"
      BY <2>2 DEF IInv, TypeOK
    <3> QED
      BY <2>2, <3>1 DEF IInv, TypeOK, AnswersAreTrue
  <2> QED
    BY <2>1, <2>2
<1>4. handler' \in [Calls -> HandlerPhases] /\ handler'[c] \in {"ok", "internal"}
  BY DEF IInv, TypeOK, HandlerPhases
<1>5. faults' \in 0 .. MaxFaults
  BY FaultType DEF IInv, TypeOK
<1>6. \A d \in Calls \ {c} : handler'[d] = handler[d]
  BY DEF IInv, TypeOK
<1>7. TypeOK'
  BY <1>3, <1>4, <1>5 DEF IInv, TypeOK
<1>8. answer[c] = "none"
  BY <1>1 DEF IInv, HandlersMatch
<1>9. AnswersAreTrue'
  BY <1>2, <1>3, <1>8 DEF IInv, AnswersAreTrue, InvalidArgument
<1>10. HandlersMatch'
  BY <1>1, <1>2, <1>3, <1>4, <1>6, <1>8 DEF IInv, HandlersMatch
<1> QED
  BY <1>7, <1>9, <1>10 DEF IInv

\* The answer, or its loss.
LEMMA ReplyStep ==
  ASSUME IInv, NEW c \in Calls, Reply(c) \/ ReplyIsLost(c)
  PROVE  IInv'
<1> USE DEF Reply, ReplyIsLost
<1>1. \A d : RequestOf(d)' = RequestOf(d)
  BY DEF RequestOf
<1>2. /\ handler[c] \in {"ok", "internal", InvalidArgument}
      /\ answer'[c] \in {handler[c], "broken"}
      /\ handler'[c] = "over"
      /\ \A d \in Calls \ {c} : /\ handler'[d] = handler[d]
                                /\ answer'[d] = answer[d]
  BY DEF IInv, TypeOK
<1>3. faults' \in 0 .. MaxFaults
  BY FaultType DEF IInv, TypeOK
<1>4. TypeOK'
  BY <1>3 DEF IInv, TypeOK, HandlerPhases, Answers
<1>5. AnswersAreTrue'
  BY <1>1, <1>2 DEF IInv, HandlersMatch, AnswersAreTrue, InvalidArgument
<1>6. HandlersMatch'
  BY <1>1, <1>2 DEF IInv, HandlersMatch, InvalidArgument
<1> QED
  BY <1>4, <1>5, <1>6 DEF IInv

\* The process ends on whatever handlers are left, the insert of which may
\* still be done: none of those calls gets an answer.
LEMMA ExitStep ==
  ASSUME IInv, Exit
  PROVE  IInv'
<1> USE DEF Exit
<1>1. \A d : RequestOf(d)' = RequestOf(d)
  BY DEF RequestOf
<1>2. PICK done \in SUBSET {c \in Calls : handler[c] = "storing"} :
        stored' = Stored(done)
  OBVIOUS
<1>3. /\ DOMAIN stored' = DOMAIN stored \cup done
      /\ DOMAIN stored' \subseteq Calls
      /\ stored' \in [DOMAIN stored' -> AnySchedule]
      /\ \A c \in DOMAIN stored' :
           /\ RequestOf(c).schedule = Encoded(stored'[c])
           /\ IsValidSubject(RequestOf(c).message)
  BY <1>2, StoredEffect
<1>4. ASSUME NEW c \in Calls
      PROVE  /\ handler'[c] = IF handler[c] = "none" THEN "none" ELSE "over"
             /\ answer'[c] \in {answer[c], "broken"}
             /\ handler[c] \in {"none", "over"} => answer'[c] = answer[c]
  BY DEF IsOpen
<1>5. TypeOK'
  <2>1. handler' \in [Calls -> HandlerPhases]
    BY DEF IInv, TypeOK, HandlerPhases
  <2>2. answer' \in [Calls -> Answers]
    BY DEF IInv, TypeOK, Answers
  <2> QED
    BY <1>3, <2>1, <2>2 DEF IInv, TypeOK
<1>6. AnswersAreTrue'
  <2>1. ASSUME NEW c \in Calls, answer'[c] # "broken"
        PROVE  answer'[c] = answer[c]
    BY <1>4, <2>1
  <2>2. ASSUME NEW c \in done PROVE answer'[c] = "broken"
    BY <1>2 DEF IsOpen
  <2> QED
    BY <1>1, <1>3, <2>1, <2>2 DEF IInv, AnswersAreTrue, InvalidArgument
<1>7. HandlersMatch'
  BY <1>1, <1>2, <1>3, <1>4 DEF IInv, HandlersMatch
<1> QED
  BY <1>5, <1>6, <1>7 DEF IInv

\* Signals, restarts and the clock leave the calls as they are.
LEMMA QuietStep ==
  ASSUME IInv, Cancel \/ ServeEnds \/ Restart \/ Tick \/ UNCHANGED vars
  PROVE  IInv'
<1> USE DEF Cancel, ServeEnds, Restart, Tick, vars, callVars
<1>1. \A d : RequestOf(d)' = RequestOf(d)
  BY DEF RequestOf
<1>2. faults' \in 0 .. MaxFaults /\ clock' \in 0 .. MaxClock
  BY FaultType, ServerAssumption DEF IInv, TypeOK, Instant
<1>3. TypeOK'
  BY <1>2 DEF IInv, TypeOK
<1>4. AnswersAreTrue' /\ HandlersMatch'
  BY <1>1 DEF IInv, AnswersAreTrue, HandlersMatch
<1> QED
  BY <1>3, <1>4 DEF IInv

\* Every step of a client, a handler or the process keeps it.
LEMMA NextIInv == IInv /\ [Next]_vars => IInv'
BY CallStep, AcceptStep, RefuseStep, StoreStep, ReplyStep, ExitStep, QuietStep,
   Zenon DEF Next, HandlerStep

\* The invariant the properties follow from.
THEOREM Invariance == Spec => []IInv
BY InitIInv, NextIInv, PTL DEF Spec

\* No variable leaves its type: what is stored of any request that the
\* protocol can express is a schedule the scheduler can work with.
THEOREM TypeCorrectness == Spec => []TypeOK
<1>1. IInv => TypeOK
  BY DEF IInv
<1> QED
  BY <1>1, Invariance, PTL

\* After ok there is a transmission, after invalid_argument there is none,
\* and what is stored is what was asked for.
THEOREM AnswersHold == Spec => []AnswersAreTrue
<1>1. IInv => AnswersAreTrue
  BY DEF IInv
<1> QED
  BY <1>1, Invariance, PTL
=============================================================================
