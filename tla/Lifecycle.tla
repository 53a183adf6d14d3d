------------------------------ MODULE Lifecycle ------------------------------
(***************************************************************************)
(* The process from its start to its end (src/main.rs): the configuration, *)
(* the connections, the tasks of the scheduler, of the gRPC server and of  *)
(* the metrics server, signals, and the process that takes the place of    *)
(* one that ended.  Every message is due from the moment its transmission  *)
(* is stored, once; clock and schedules are those of PostgresScheduler and *)
(* InMemoryScheduler, calls those of GrpcServer.                           *)
(***************************************************************************)
EXTENDS Configuration, NatsPublisher, FiniteSets

CONSTANTS
  Deployments,   \* what the process is started with
  BatchSize,     \* BATCH_SIZE
  FaultKinds,    \* the faults considered: "start", "bind", "metrics",
                 \* "signal", "crash", "break", "publish", "database", "panic"
  MaxFaults,     \* bound on the number of faults
  None           \* no message

ASSUME LifecycleAssumption ==
  /\ \A d \in Deployments :
       /\ d.file \in File \cup {Malformed}
       /\ d.password \in Passwords \cup {Absent}
  /\ BatchSize \in Nat \ {0}
  /\ MaxFaults \in Nat
  /\ None \notin Messages

VARIABLES
  deployment,   \* the file and the environment of the process
  main,         \* where `main` is
  exit,         \* how the process ended
  config,       \* what load_config returned
  token,        \* whether the CancellationToken is cancelled
  signalled,    \* whether a signal waits to be seen by main
  scheduler,    \* where the scheduler task is
  batch,        \* messages polled and not published
  current,      \* the message being handled
  grpc,         \* the gRPC server
  rows,         \* what the repository says of the message
  faults,       \* how many faults happened so far
  disturbed     \* whether one of them was no broken connection

mainVars == <<deployment, exit, config, token, signalled>>
taskVars == <<batch, current, rows>>
faultVars == <<faults, disturbed>>
vars == <<main, mainVars, scheduler, taskVars, grpc, natsVars, faultVars>>

MainPhases ==
  {"load", "nats", "repository", "migrate", "reset", "spawn",
   "listen", "waiting", "stopping", "exited"}

SchedulerPhases ==
  {"none", "poll", "publish", "save", "reschedule", "sleep", "finished",
   "dead"}

Init ==
  /\ deployment \in Deployments
  /\ main = "load"
  /\ exit = "none"
  /\ config = NoConfig
  /\ token = FALSE
  /\ signalled = FALSE
  /\ scheduler = "none"
  /\ batch = {}
  /\ current = None
  /\ grpc = "none"
  /\ rows = [m \in Messages |-> "never"]
  /\ NatsInit
  /\ faults = 0
  /\ disturbed = FALSE

Fault(kind) ==
  /\ kind \in FaultKinds
  /\ faults < MaxFaults
  /\ faults' = faults + 1
  /\ disturbed' = (disturbed \/ kind # "break")

Running == main # "exited"
Started == main \in {"listen", "waiting", "stopping"}
IsPostgres == config.repository.kind = "Postgres"

Due == {m \in Messages : rows[m] = "due"}
Forgotten == [m \in Messages |-> IF rows[m] = "never" THEN "never" ELSE "gone"]

-----------------------------------------------------------------------------
(***************************************************************************)
(* The scheduler task: run, process_batch and transmit, as the detailed    *)
(* modules have them.                                                      *)
(***************************************************************************)

Moves(from, to) ==
  /\ Running
  /\ scheduler = from
  /\ scheduler' = to

Locked == [m \in Messages |-> IF rows[m] = "due" THEN "locked" ELSE rows[m]]

\* Mutant: a poll leaves what it returns to be polled again.
PolledUnlocked == rows

\* The rows as poll_transmissions leaves them: all that are due are locked,
\* those the LIMIT keeps from being returned too.
PolledRows == IF IsPostgres THEN Locked ELSE rows

Recorded(m) == [rows EXCEPT ![m] = "sent"]

NextOf(todo) == IF todo = {} THEN "sleep" ELSE "publish"

\* The batches a poll may return, in memory the first that were stored.
Batches ==
  IF Cardinality(Due) <= BatchSize
  THEN {Due}
  ELSE {b \in SUBSET Due : Cardinality(b) = BatchSize}

Poll ==
  /\ batch' \in Batches
  /\ Moves("poll", NextOf(batch'))
  /\ rows' = PolledRows
  /\ UNCHANGED <<main, mainVars, current, grpc, natsVars, faultVars>>

\* Refused, or done and its answer lost.
PollFails ==
  /\ Moves("poll", "sleep")
  /\ IsPostgres
  /\ Fault("database")
  /\ rows' \in {rows, PolledRows}
  /\ UNCHANGED <<main, mainVars, batch, current, grpc, natsVars>>

Take(m) ==
  /\ m \in batch
  /\ batch' = batch \ {m}
  /\ current' = m

PublishOk ==
  /\ Moves("publish", "save")
  /\ \E m \in Messages : Take(m) /\ Publish(m)
  /\ UNCHANGED <<main, mainVars, grpc, rows, faultVars>>

PublishErr ==
  /\ Moves("publish", "reschedule")
  /\ Fault("publish")
  /\ \E m \in Messages : Take(m)
  /\ UNCHANGED <<main, mainVars, grpc, rows, natsVars>>

Save ==
  /\ Moves("save", NextOf(batch))
  /\ rows' = Recorded(current)
  /\ current' = None
  /\ UNCHANGED <<main, mainVars, batch, grpc, natsVars, faultVars>>

SaveFails ==
  /\ Moves("save", NextOf(batch))
  /\ IsPostgres
  /\ Fault("database")
  /\ rows' \in {rows, Recorded(current)}
  /\ current' = None
  /\ UNCHANGED <<main, mainVars, batch, grpc, natsVars>>

\* transmitted() panics on a next occurrence beyond what a DateTime
\* represents.  main has dropped the handle of the task.
SchedulerPanics ==
  /\ Moves("save", "dead")
  /\ Fault("panic")
  /\ batch' = {}
  /\ current' = None
  /\ UNCHANGED <<main, mainVars, grpc, rows, natsVars>>

\* Neither repository changes anything, and an error is logged only.
Reschedule ==
  /\ Moves("reschedule", NextOf(batch))
  /\ current' = None
  /\ UNCHANGED <<main, mainVars, batch, grpc, rows, natsVars, faultVars>>

\* The select! of `run`.  A sleep that is over may be taken though the token
\* is cancelled too.
Wake ==
  /\ Moves("sleep", "poll")
  /\ UNCHANGED <<main, mainVars, taskVars, grpc, natsVars, faultVars>>

Finish ==
  /\ Moves("sleep", "finished")
  /\ token
  /\ UNCHANGED <<main, mainVars, taskVars, grpc, natsVars, faultVars>>

-----------------------------------------------------------------------------
(***************************************************************************)
(* The gRPC task.                                                          *)
(***************************************************************************)

Serves(from, to) ==
  /\ Running
  /\ grpc = from
  /\ grpc' = to
  /\ UNCHANGED <<main, mainVars, scheduler, taskVars, natsVars>>

Bind == Serves("starting", "serving") /\ UNCHANGED faultVars

\* The error of serve_with_shutdown is matched by `_`: the task ends well.
BindFails == Serves("starting", "over") /\ Fault("bind")

SeesToken ==
  /\ token
  /\ Serves("starting", "over") \/ Serves("serving", "over")
  /\ UNCHANGED faultVars

Schedule(m) ==
  /\ Running
  /\ grpc = "serving"
  /\ rows[m] = "never"
  /\ rows' = [rows EXCEPT ![m] = "due"]
  /\ UNCHANGED <<main, mainVars, scheduler, batch, current, grpc, natsVars,
                 faultVars>>

\* check and watch: what a health probe is told.
Health == IF Running /\ grpc = "serving" THEN "Serving" ELSE "unreachable"

-----------------------------------------------------------------------------
(***************************************************************************)
(* The end of the process.  A statement that was sent to the database may  *)
(* be done there; memory and the client's channel are gone.                *)
(***************************************************************************)

RowsAfterwards ==
  IF config = NoConfig THEN {rows}
  ELSE IF ~IsPostgres THEN {Forgotten}
  ELSE {rows} \cup (CASE scheduler = "poll" -> {PolledRows}
                      [] scheduler = "save" -> {Recorded(current)}
                      [] main = "reset"     -> {Forgotten}
                      [] OTHER              -> {})

\* What the tasks were doing is left as it was, for the properties to see.
End(how) ==
  /\ main' = "exited"
  /\ exit' = how
  /\ rows' \in RowsAfterwards
  /\ Disconnect
  /\ UNCHANGED <<deployment, config, token, signalled,
                 scheduler, batch, current, grpc>>

-----------------------------------------------------------------------------
(***************************************************************************)
(* main.                                                                   *)
(***************************************************************************)

Advance(from, to) ==
  /\ main = from
  /\ main' = to
  /\ UNCHANGED <<deployment, exit, scheduler, batch, current, grpc, faultVars>>

\* load_config
Load ==
  /\ Advance("load", "nats")
  /\ config' = Loaded(deployment.file, deployment.password)
  /\ config' # NoConfig
  /\ UNCHANGED <<token, signalled, rows, natsVars>>

LoadFails ==
  /\ main = "load"
  /\ Loaded(deployment.file, deployment.password) = NoConfig
  /\ End("error")
  /\ UNCHANGED faultVars

ConnectToNats ==
  /\ Advance("nats", "repository")
  /\ Connect
  /\ UNCHANGED <<config, token, signalled, rows>>

AfterMigrate == IF config.reset_state THEN "reset" ELSE "spawn"

AfterConnect ==
  IF ~IsPostgres THEN "spawn"
  ELSE IF config.automigrate THEN "migrate"
  ELSE AfterMigrate

\* Construct repository.
ConnectToDatabase ==
  /\ Advance("repository", AfterConnect)
  /\ UNCHANGED <<config, token, signalled, rows, natsVars>>

Migrate ==
  /\ Advance("migrate", AfterMigrate)
  /\ UNCHANGED <<config, token, signalled, rows, natsVars>>

\* clear_all
Reset ==
  /\ Advance("reset", "spawn")
  /\ rows' = Forgotten
  /\ UNCHANGED <<config, token, signalled, natsVars>>

\* Any of these may fail, the construction of the in-memory repository may not.
StartFails ==
  /\ \/ main \in {"nats", "migrate", "reset", "listen"}
     \/ main = "repository" /\ IsPostgres
  /\ Fault("start")
  /\ End("error")

\* The metrics server is spawned, then the scheduler, then the gRPC server.
Spawn ==
  /\ main = "spawn"
  /\ main' = "listen"
  /\ scheduler' = "poll"
  /\ grpc' = "starting"
  /\ UNCHANGED <<mainVars, taskVars, natsVars, faultVars>>

\* The streams of SIGINT and SIGTERM.
ListenForSignals ==
  /\ Advance("listen", "waiting")
  /\ UNCHANGED <<config, token, signalled, rows, natsVars>>

Cancel ==
  /\ signalled
  /\ Advance("waiting", "stopping")
  /\ token' = TRUE
  /\ UNCHANGED <<config, signalled, rows, natsVars>>

\* Mutant: main waits for the scheduler too.
ReturnAfterAll ==
  /\ main = "stopping"
  /\ grpc = "over"
  /\ scheduler \in {"finished", "dead"}
  /\ End("ok")
  /\ UNCHANGED faultVars

\* grpc_handle is all that is awaited.
Return ==
  /\ main = "stopping"
  /\ grpc = "over"
  /\ End("ok")
  /\ UNCHANGED faultVars

-----------------------------------------------------------------------------
(***************************************************************************)
(* What happens to the process.                                            *)
(***************************************************************************)

\* The task of the metrics server ends the process when it cannot listen,
\* or accept one connection.
MetricsServerFails ==
  /\ Started
  /\ Fault("metrics")
  /\ End("error")

Signal ==
  /\ main \in {"waiting", "stopping"}
  /\ ~signalled
  /\ Fault("signal")
  /\ signalled' = TRUE
  /\ UNCHANGED <<main, deployment, exit, config, token,
                 scheduler, taskVars, grpc, natsVars>>

\* SIGKILL; and any signal before main listens.
Kill ==
  /\ Running
  /\ \/ Fault("crash")
     \/ main \notin {"waiting", "stopping"} /\ Fault("signal")
  /\ End("killed")

Restart ==
  /\ main = "exited"
  /\ main' = "load"
  /\ exit' = "none"
  /\ config' = NoConfig
  /\ token' = FALSE
  /\ signalled' = FALSE
  /\ scheduler' = "none"
  /\ batch' = {}
  /\ current' = None
  /\ grpc' = "none"
  /\ UNCHANGED <<deployment, rows, natsVars, faultVars>>

NatsStep ==
  /\ \/ Running /\ (Write \/ Reconnect)
     \/ Receive
  /\ UNCHANGED <<main, mainVars, scheduler, taskVars, grpc, faultVars>>

ConnectionBreaks ==
  /\ Break
  /\ Fault("break")
  /\ UNCHANGED <<main, mainVars, scheduler, taskVars, grpc>>

-----------------------------------------------------------------------------
MainStep ==
  \/ Load
  \/ LoadFails
  \/ ConnectToNats
  \/ ConnectToDatabase
  \/ Migrate
  \/ Reset
  \/ Spawn
  \/ ListenForSignals
  \/ Cancel
  \/ Return

SchedulerStep == Poll \/ PublishOk \/ Save \/ Reschedule \/ Wake \/ Finish

GrpcStep == Bind \/ SeesToken

Next ==
  \/ MainStep
  \/ SchedulerStep
  \/ PollFails \/ PublishErr \/ SaveFails \/ SchedulerPanics
  \/ GrpcStep \/ BindFails
  \/ \E m \in Messages : Schedule(m)
  \/ StartFails \/ MetricsServerFails
  \/ Signal \/ Kill \/ Restart
  \/ NatsStep \/ ConnectionBreaks

Spec == Init /\ [][Next]_vars

\* The runtime runs its tasks.  Nothing is assumed of the broker.
FairSpec ==
  /\ Spec
  /\ WF_vars(MainStep)
  /\ WF_vars(SchedulerStep)
  /\ WF_vars(GrpcStep)

\* The broker can be reached again, and what is written arrives.
BrokerIsFair == WF_vars(NatsStep)

\* A process that ended is replaced.
FairRestartSpec == FairSpec /\ BrokerIsFair /\ WF_vars(Restart)

-----------------------------------------------------------------------------
(***************************************************************************)
(* Properties.                                                             *)
(***************************************************************************)

TypeOK ==
  /\ deployment \in Deployments
  /\ main \in MainPhases
  /\ exit \in {"none", "ok", "error", "killed"}
  /\ config \in Config \cup {NoConfig}
  /\ token \in BOOLEAN
  /\ signalled \in BOOLEAN
  /\ scheduler \in SchedulerPhases
  /\ batch \subseteq Messages
  /\ current \in Messages \cup {None}
  /\ grpc \in {"none", "starting", "serving", "over"}
  /\ rows \in [Messages -> {"never", "due", "locked", "sent", "gone"}]
  /\ NatsTypeOK
  /\ faults \in 0 .. MaxFaults
  /\ disturbed \in BOOLEAN

\* Published, and perhaps not recorded: the row is locked, or held in the
\* memory of a process whose scheduler got no further, or gone with it.
MayBePublished(m) ==
  \/ rows[m] \in {"sent", "locked", "gone"}
  \/ rows[m] = "due" /\ (current = m \/ scheduler = "dead")

\* The repository and the broker agree from end to end, whichever process
\* ended wherever and however often: no message is at two places on its way
\* or received twice, one recorded as sent was published, and one that can be
\* polled was not.
OnePlace ==
  /\ IsInjective(Pipeline)
  /\ Range(Pipeline) \cap lost = {}
  /\ \A m \in Messages :
       /\ rows[m] = "sent" => m \in Range(Pipeline) \cup lost
       /\ m \in Range(Pipeline) \cup lost => MayBePublished(m)

\* The strengthening behind it.
PhasesMatch ==
  /\ config = NoConfig => main \in {"load", "exited"} /\ scheduler = "none"
  /\ scheduler # "none" => main \in {"listen", "waiting", "stopping", "exited"}
  /\ current # None <=> scheduler \in {"save", "reschedule"}
  /\ batch # {} => scheduler \in {"publish", "save", "reschedule"}

\* The row of a message a running process has polled and not finished.
HeldRow == IF IsPostgres THEN "locked" ELSE "due"

HeldMatches ==
  Running =>
    /\ current \notin batch
    /\ \A m \in batch \cup ({current} \ {None}) :
         /\ rows[m] = HeldRow
         /\ m \in Range(Pipeline) \cup lost
              <=> m = current /\ scheduler = "save"

\* Only memory holds a row that looks due when its message is out.
DueMatches ==
  \A m \in Messages :
    rows[m] = "due" /\ m \in Range(Pipeline) \cup lost =>
      /\ Running
      /\ ~IsPostgres
      /\ scheduler = "dead" \/ (scheduler = "save" /\ current = m)

IInv ==
  /\ TypeOK
  /\ OnePlace
  /\ PhasesMatch
  /\ HeldMatches
  /\ DueMatches

\* A signal main listens for ends the process, though the broker be away for
\* ever and the scheduler wait for room in a channel nobody empties.
SignalEndsProcess == signalled ~> ~Running

\* A poll of PostgreSQL is about to lock more than it returns.
LimitCuts == scheduler = "poll" /\ IsPostgres /\ Cardinality(Due) > BatchSize

\* As long as nothing fails but connections, and the broker can be reached
\* again, a message is received once its transmission is stored, or was on
\* a connection that broke: the scheduler that waited for a channel goes on
\* when the connection is back.  On PostgreSQL this holds only until what
\* came due meanwhile is more than a batch: then the poll locks it all,
\* returns a part, and the rest is never sent.  In memory it holds however
\* much is due.
DueIsReceived ==
  BrokerIsFair =>
    \A m \in Messages :
      rows[m] = "due" ~> \/ m \in Range(received) \cup lost
                         \/ disturbed
                         \/ LimitCuts

-----------------------------------------------------------------------------
(***************************************************************************)
(* What a comment and the README say, and the code does not do.            *)
(***************************************************************************)

\* "Exactly-once delivery" and "graceful shutdown": a process that is told to
\* stop, and replaced, costs no message.
StopLosesNothing ==
  \A m \in Messages : rows[m] = "due" ~> m \in Range(received)

\* "the appropriate status": a process that says it is Serving transmits.
HealthIsTrue == Health = "Serving" => scheduler # "dead"
=============================================================================
