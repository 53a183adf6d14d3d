------------------------------ MODULE Transport ------------------------------
(***************************************************************************)
(* How src/grpc.rs reads a ScheduleTransmissionRequest, and how            *)
(* validate_message of src/scheduler.rs judges its message.  A protobuf    *)
(* field that may be left out is Absent; a value its conversion refuses is *)
(* Malformed.                                                              *)
(***************************************************************************)
EXTENDS Schedules, Sequences

CONSTANTS
  Absent,            \* a field that is not set
  Malformed,         \* a timestamp, duration or expression without meaning
  MaxSubjectLength   \* MAX_NATS_SUBJECT_LENGTH

ASSUME TransportAssumption ==
  /\ MaxSubjectLength \in Nat
  /\ {Absent, Malformed} \cap Nat = {}

-----------------------------------------------------------------------------
(***************************************************************************)
(* What a request can say of its schedule.                                 *)
(***************************************************************************)

RequestedTime == Nat \cup {Absent, Malformed}

RequestedIterate ==
  {Absent} \cup [case : {"times"}, times : Nat]
           \cup [case : {"infinitely"}, infinitely : BOOLEAN]

RequestedSchedule ==
  {Absent}
    \cup [kind : {"Delayed"}, transmit_at : RequestedTime]
    \cup [kind : {"Interval"}, first_transmission : RequestedTime,
          interval : RequestedTime, iterate : RequestedIterate]
    \cup [kind : {"Cron"}, first_transmission_after : RequestedTime,
          expression : {Malformed} \cup SUBSET Instant,
          iterate : RequestedIterate]

-----------------------------------------------------------------------------
(***************************************************************************)
(* schedule_transmission.  A request is read without a problem, refused as *)
(* an invalid argument, or makes the handler panic.                        *)
(***************************************************************************)

NoProblem == "none"
InvalidArgument == "invalid_argument"
HandlerPanics == "panic"

\* Mutant: DateTime takes whatever SystemTime represents.
AnyTimeProblem(timestamp) ==
  IF timestamp \in {Absent, Malformed} THEN InvalidArgument ELSE NoProblem

\* SystemTime::try_from refuses what it cannot represent.  DateTime::from
\* panics on what SystemTime can represent and DateTime cannot.
TimeProblem(timestamp) ==
  IF timestamp \in {Absent, Malformed} THEN InvalidArgument
  ELSE IF timestamp > MaxInstant THEN HandlerPanics
  ELSE NoProblem

\* Mutant: what was said of infinitely is not looked at.
IsNoIterate(iterate) == iterate = Absent

\* The oneof Iterate: `infinitely` has to be true if it is there.
IsBadIterate(iterate) ==
  \/ iterate = Absent
  \/ iterate.case = "infinitely" /\ ~iterate.infinitely

IterateOf(iterate) ==
  IF iterate.case = "times" THEN iterate.times ELSE Infinitely

DelayedProblem(delayed) == TimeProblem(delayed.transmit_at)

IntervalProblem(interval) ==
  LET start == TimeProblem(interval.first_transmission)
  IN  IF start # NoProblem THEN start
      ELSE IF \/ interval.interval \in {Absent, Malformed}
              \/ IsBadIterate(interval.iterate)
      THEN InvalidArgument
      ELSE NoProblem

CronProblem(cron) ==
  LET start == TimeProblem(cron.first_transmission_after)
  IN  IF start # NoProblem THEN start
      ELSE IF cron.expression = Malformed \/ IsBadIterate(cron.iterate)
      THEN InvalidArgument
      ELSE NoProblem

ScheduleProblem(schedule) ==
  CASE schedule.kind = "Delayed"  -> DelayedProblem(schedule)
    [] schedule.kind = "Interval" -> IntervalProblem(schedule)
    [] schedule.kind = "Cron"     -> CronProblem(schedule)

\* The schedule is read before it is seen that the message is missing.
Problem(request) ==
  IF request.schedule = Absent THEN InvalidArgument
  ELSE IF ScheduleProblem(request.schedule) # NoProblem
  THEN ScheduleProblem(request.schedule)
  ELSE IF request.message = Absent THEN InvalidArgument
  ELSE NoProblem

\* The schedule a request without a problem asks for.
Decoded(request) ==
  IF request.schedule.kind = "Delayed" THEN request.schedule
  ELSE [request.schedule EXCEPT !.iterate = IterateOf(@)]

-----------------------------------------------------------------------------
(***************************************************************************)
(* validate_message.  A subject is a sequence of characters.               *)
(***************************************************************************)

Forbidden == {"NUL", " ", ">", "*"}

IsValidSubject(subject) ==
  /\ Len(subject) <= MaxSubjectLength
  /\ Len(subject) > 0 => Head(subject) # "$"
  /\ \A n \in DOMAIN subject : subject[n] \notin Forbidden
=============================================================================
