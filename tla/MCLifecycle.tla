----------------------------- MODULE MCLifecycle -----------------------------
(***************************************************************************)
(* Instances of Lifecycle for TLC.                                         *)
(***************************************************************************)
EXTENDS Lifecycle

GoodFile(repository) ==
  [automigrate |-> FALSE, reset_state |-> FALSE, log_level |-> "info",
   clock_cycle_interval |-> 1, repository |-> repository]

Deployed(file) == [file |-> file, password |-> "secret"]

PostgresFile == GoodFile("Postgres")

\* The two repositories as they are run.
TwoDeployments == {Deployed(GoodFile(r)) : r \in Repositories}

\* And every start that goes another way.
AllDeployments ==
  TwoDeployments
    \cup {Deployed([PostgresFile EXCEPT !.automigrate = TRUE]),
          Deployed([PostgresFile EXCEPT !.automigrate = TRUE,
                                        !.reset_state = TRUE]),
          Deployed([PostgresFile EXCEPT !.clock_cycle_interval = 0]),
          Deployed([PostgresFile EXCEPT !.clock_cycle_interval = Malformed]),
          Deployed([PostgresFile EXCEPT !.clock_cycle_interval = Absent]),
          Deployed([PostgresFile EXCEPT !.log_level = Malformed]),
          Deployed(Malformed),
          [Deployed(GoodFile("InMemory")) EXCEPT !.password = Absent]}

OnePostgres == {Deployed(PostgresFile)}
=============================================================================
