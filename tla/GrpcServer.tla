------------------------------ MODULE GrpcServer ------------------------------
(***************************************************************************)
(* Calls of ScheduleTransmission (src/grpc.rs): the handler a call runs,   *)
(* the client that waits for its answer and calls again when it learns     *)
(* nothing of the outcome, and the server that is told to stop while calls *)
(* are being handled.  The call stands for the id of the transmission it   *)
(* stores: each makes a new one.                                           *)
(***************************************************************************)
EXTENDS Transport

CONSTANTS
  Clients,      \* who asks for a transmission
  Calls,        \* the calls they can make between them
  Requests,     \* ScheduleTransmissionRequests
  FaultKinds,   \* the faults considered: "database", "reply", "stop"
  MaxFaults,    \* bound on the number of faults
  MaxClock,     \* bound on the clock
  None          \* no client, no request, no schedule

ASSUME RequestsAssumption ==
  \A r \in Requests : r.schedule \in RequestedSchedule

ASSUME ServerAssumption ==
  /\ None \notin Clients \cup Requests \cup AnySchedule
  /\ MaxFaults \in Nat
  /\ MaxClock \in Instant

VARIABLES
  clock,       \* what Utc::now returns
  server,      \* how far `serve`, and the process with it, has come
  cancelled,   \* the cancellation token
  wanted,      \* what each client asks for
  owner,       \* the client that made the call
  handler,     \* where the handler of the call is
  schedule,    \* the schedule the handler has decoded
  answer,      \* what the client was told
  stored,      \* the schedules in the repository, by the call they are of
  faults       \* how many faults happened so far

callVars == <<owner, handler, schedule, answer>>
vars == <<clock, server, cancelled, wanted, callVars, stored, faults>>

HandlerPhases == {"none", "received", "storing", "ok", "internal",
                  InvalidArgument, "over"}

\* "broken": the connection ended before an answer came.
Answers == {"none", "ok", "internal", InvalidArgument, "broken"}

Init ==
  /\ clock = 0
  /\ server = "serving"
  /\ cancelled = FALSE
  /\ wanted \in [Clients -> Requests]
  /\ owner = [c \in Calls |-> None]
  /\ handler = [c \in Calls |-> "none"]
  /\ schedule = [c \in Calls |-> None]
  /\ answer = [c \in Calls |-> "none"]
  /\ stored = [c \in {} |-> None]
  /\ faults = 0

Fault(kind) ==
  /\ kind \in FaultKinds
  /\ faults < MaxFaults
  /\ faults' = faults + 1

CallsOf(k) == {c \in Calls : owner[c] = k}

\* A client that was told of an error of the server, or nothing at all, does
\* not know whether its transmission is scheduled.
IsAmbiguous(c) == answer[c] \in {"internal", "broken"}

IsOpen(c) == handler[c] \notin {"none", "over"}

-----------------------------------------------------------------------------
(***************************************************************************)
(* Clients.                                                                *)
(***************************************************************************)

\* The first call, or the next one after those before ended ambiguously.
Call(k, c) ==
  /\ server = "serving"
  /\ handler[c] = "none"
  /\ \A d \in CallsOf(k) : IsAmbiguous(d)
  /\ owner' = [owner EXCEPT ![c] = k]
  /\ handler' = [handler EXCEPT ![c] = "received"]
  /\ UNCHANGED <<clock, server, cancelled, wanted, schedule, answer, stored,
                 faults>>

-----------------------------------------------------------------------------
(***************************************************************************)
(* schedule_transmission.  A call that was received is handled to its end  *)
(* whether or not the server still accepts others, as long as the process  *)
(* is there.                                                               *)
(***************************************************************************)

Moves(c, from, to) ==
  /\ handler[c] = from
  /\ handler' = [handler EXCEPT ![c] = to]

RequestOf(c) == wanted[owner[c]]

\* validate_schedule and validate_message.
IsAcceptable(c) ==
  /\ IsValidSchedule(clock, Decoded(RequestOf(c)))
  /\ IsValidSubject(RequestOf(c).message)

Accept(c) ==
  /\ Moves(c, "received", "storing")
  /\ Problem(RequestOf(c)) = NoProblem
  /\ IsAcceptable(c)
  /\ schedule' = [schedule EXCEPT ![c] = Decoded(RequestOf(c))]
  /\ UNCHANGED <<clock, server, cancelled, wanted, owner, answer, stored,
                 faults>>

Refuse(c) ==
  /\ Moves(c, "received", InvalidArgument)
  /\ \/ Problem(RequestOf(c)) = InvalidArgument
     \/ Problem(RequestOf(c)) = NoProblem /\ ~IsAcceptable(c)
  /\ UNCHANGED <<clock, server, cancelled, wanted, owner, schedule, answer,
                 stored, faults>>

\* The panic takes the connection down with it.
Panics(c) ==
  /\ Moves(c, "received", "over")
  /\ Problem(RequestOf(c)) = HandlerPanics
  /\ answer' = [answer EXCEPT ![c] = "broken"]
  /\ UNCHANGED <<clock, server, cancelled, wanted, owner, schedule, stored,
                 faults>>

\* store_transmission
Stored(calls) ==
  [c \in DOMAIN stored \cup calls |->
     IF c \in calls THEN schedule[c] ELSE stored[c]]

\* Mutant: the answer does not wait for the insert.
StoreUnawaited(c) ==
  /\ Moves(c, "storing", "ok")
  /\ UNCHANGED stored \/ stored' = Stored({c})
  /\ UNCHANGED <<clock, server, cancelled, wanted, owner, schedule, answer,
                 faults>>

StoreOk(c) ==
  /\ Moves(c, "storing", "ok")
  /\ stored' = Stored({c})
  /\ UNCHANGED <<clock, server, cancelled, wanted, owner, schedule, answer,
                 faults>>

\* The insert was refused, or done and its reply lost.
StoreFails(c) ==
  /\ Moves(c, "storing", "internal")
  /\ Fault("database")
  /\ UNCHANGED stored \/ stored' = Stored({c})
  /\ UNCHANGED <<clock, server, cancelled, wanted, owner, schedule, answer>>

\* Mutant: an error of the repository is not answered.
ReplyUnlessInternal(c) ==
  /\ handler[c] \in {"ok", InvalidArgument}
  /\ answer' = [answer EXCEPT ![c] = handler[c]]
  /\ handler' = [handler EXCEPT ![c] = "over"]
  /\ UNCHANGED <<clock, server, cancelled, wanted, owner, schedule, stored,
                 faults>>

Reply(c) ==
  /\ handler[c] \in {"ok", "internal", InvalidArgument}
  /\ answer' = [answer EXCEPT ![c] = handler[c]]
  /\ handler' = [handler EXCEPT ![c] = "over"]
  /\ UNCHANGED <<clock, server, cancelled, wanted, owner, schedule, stored,
                 faults>>

ReplyIsLost(c) ==
  /\ handler[c] \in {"ok", "internal", InvalidArgument}
  /\ Fault("reply")
  /\ answer' = [answer EXCEPT ![c] = "broken"]
  /\ handler' = [handler EXCEPT ![c] = "over"]
  /\ UNCHANGED <<clock, server, cancelled, wanted, owner, schedule, stored>>

-----------------------------------------------------------------------------
(***************************************************************************)
(* serve, and the process.                                                 *)
(***************************************************************************)

\* A signal arrived and main cancels the token.
Cancel ==
  /\ ~cancelled
  /\ server = "serving"
  /\ Fault("stop")
  /\ cancelled' = TRUE
  /\ UNCHANGED <<clock, server, wanted, callVars, stored>>

\* The branch of select! that sees the token ends `serve`.  The other one,
\* serve_with_shutdown, is dropped: no call is accepted any more, nobody
\* waits for those in progress, and shutdown_receiver is gone before
\* anything is sent to it.
ServeEnds ==
  /\ server = "serving"
  /\ cancelled
  /\ server' = "ended"
  /\ UNCHANGED <<clock, cancelled, wanted, callVars, stored, faults>>

\* main returns, the runtime drops the handlers that are left: an insert
\* that was sent to the database may be done there.
Exit ==
  /\ server = "ended"
  /\ server' = "exited"
  /\ \E done \in SUBSET {c \in Calls : handler[c] = "storing"} :
       stored' = Stored(done)
  /\ answer' =
       [c \in Calls |-> IF IsOpen(c) THEN "broken" ELSE answer[c]]
  /\ handler' = [c \in Calls |-> IF IsOpen(c) THEN "over" ELSE handler[c]]
  /\ UNCHANGED <<clock, cancelled, wanted, owner, schedule, faults>>

\* Another process takes its place.
Restart ==
  /\ server = "exited"
  /\ server' = "serving"
  /\ cancelled' = FALSE
  /\ UNCHANGED <<clock, wanted, callVars, stored, faults>>

Tick ==
  /\ clock < MaxClock
  /\ clock' = clock + 1
  /\ UNCHANGED <<server, cancelled, wanted, callVars, stored, faults>>

\* What a handler does when nothing fails.
HandlerStep(c) ==
  \/ Accept(c)
  \/ Refuse(c)
  \/ Panics(c)
  \/ StoreOk(c)
  \/ Reply(c)

Next ==
  \/ \E k \in Clients, c \in Calls : Call(k, c)
  \/ \E c \in Calls : HandlerStep(c) \/ StoreFails(c) \/ ReplyIsLost(c)
  \/ Cancel
  \/ ServeEnds
  \/ Exit
  \/ Restart
  \/ Tick

Spec == Init /\ [][Next]_vars

\* The runtime polls what is ready, and an ended process is replaced.
Fairness ==
  /\ \A c \in Calls : WF_vars(HandlerStep(c))
  /\ WF_vars(ServeEnds)
  /\ WF_vars(Exit)
  /\ WF_vars(Restart)

\* A client that does not know calls again.
FairSpec ==
  /\ Spec
  /\ Fairness
  /\ \A k \in Clients : WF_vars(\E c \in Calls : Call(k, c))

-----------------------------------------------------------------------------
(***************************************************************************)
(* Properties.                                                             *)
(***************************************************************************)

TypeOK ==
  /\ clock \in 0 .. MaxClock
  /\ server \in {"serving", "ended", "exited"}
  /\ cancelled \in BOOLEAN
  /\ wanted \in [Clients -> Requests]
  /\ owner \in [Calls -> Clients \cup {None}]
  /\ handler \in [Calls -> HandlerPhases]
  /\ schedule \in [Calls -> AnySchedule \cup {None}]
  /\ answer \in [Calls -> Answers]
  /\ DOMAIN stored \subseteq Calls
  /\ stored \in [DOMAIN stored -> AnySchedule]
  /\ faults \in 0 .. MaxFaults

\* How a client writes a schedule down in a request.
EncodedIterate(iterate) ==
  IF iterate = Infinitely THEN [case |-> "infinitely", infinitely |-> TRUE]
                          ELSE [case |-> "times", times |-> iterate]

Encoded(s) ==
  IF s.kind = "Delayed" THEN s
  ELSE [s EXCEPT !.iterate = EncodedIterate(@)]

\* The answer and the repository agree, however the call was interleaved
\* with the end of the server: after ok there is a transmission, after
\* invalid_argument there is none, and what is stored is what the request
\* asked for and may be published.
AnswersAreTrue ==
  /\ \A c \in Calls :
       /\ answer[c] = "ok" => c \in DOMAIN stored
       /\ answer[c] = InvalidArgument => c \notin DOMAIN stored
  /\ \A c \in DOMAIN stored :
       /\ RequestOf(c).schedule = Encoded(stored[c])
       /\ IsValidSubject(RequestOf(c).message)

\* What the handler has found out by the place it has come to.
HandlersMatch ==
  \A c \in Calls :
    /\ handler[c] = "none" <=> owner[c] = None
    /\ handler[c] # "over" => answer[c] = "none"
    /\ handler[c] = "storing" =>
         /\ schedule[c] # None
         /\ RequestOf(c).schedule = Encoded(schedule[c])
         /\ IsValidSubject(RequestOf(c).message)
    /\ handler[c] = "ok" => c \in DOMAIN stored
    /\ c \in DOMAIN stored => handler[c] \in {"ok", "internal", "over"}

\* The strengthening of the safety properties that is inductive.
IInv ==
  /\ TypeOK
  /\ AnswersAreTrue
  /\ HandlersMatch

\* Every client is given a definite answer in the end, that its schedule is
\* accepted or that it is refused, when it can call once more than there are
\* failures and the database replies; unless it asks for an instant the
\* handler panics on.  The answer is about the call that gets it: what became
\* of the calls before, the client does not learn.
ClientsGetToKnow ==
  \A k \in Clients :
    <>(\/ \E c \in CallsOf(k) : answer[c] \in {"ok", InvalidArgument}
       \/ Problem(wanted[k]) = HandlerPanics)
=============================================================================
