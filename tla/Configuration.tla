---------------------------- MODULE Configuration ----------------------------
(***************************************************************************)
(* From the configuration file and POSTGRES_PASSWORD to the Config the     *)
(* program runs with (src/load_config.rs, src/config.rs).  Ports, hosts    *)
(* and names are left out: nothing is decided on them before they are used *)
(* to connect or to listen.                                                *)
(***************************************************************************)
EXTENDS Naturals

CONSTANTS
  LogLevels,    \* what log::Level::from_str understands
  Passwords,    \* values of POSTGRES_PASSWORD
  Absent,       \* a variable that is not set, a field that is missing
  Malformed,    \* text that does not parse
  NoConfig      \* load_config returned an error

ASSUME ConfigurationAssumption ==
  /\ Absent \notin LogLevels \cup Passwords \cup Nat
  /\ Malformed \notin LogLevels \cup Nat

Repositories == {"Postgres", "InMemory"}

\* What a file may say, if it can be read at all (Malformed if not).
File ==
  [automigrate : BOOLEAN \cup {Absent},
   reset_state : BOOLEAN \cup {Absent},
   log_level : LogLevels \cup {Absent, Malformed},
   clock_cycle_interval : Nat \cup {Absent, Malformed},
   repository : Repositories \cup {Absent}]

Config ==
  [automigrate : BOOLEAN,
   reset_state : BOOLEAN,
   log_level : LogLevels,
   clock_cycle_interval : Nat \ {0},
   repository : [kind : {"Postgres"}, password : Passwords]
                  \cup [kind : {"InMemory"}]]

\* load_config_from_file: no field of FileConfig has a default.
IsParsed(file) ==
  /\ file # Malformed
  /\ \A field \in DOMAIN file : file[field] # Absent

\* derive_config: a level, and a duration as humantime writes them.
IsDerivable(file) ==
  /\ file.log_level # Malformed
  /\ file.clock_cycle_interval # Malformed

\* The password is asked for whatever the repository, and used for one.
Derived(file, password) ==
  [file EXCEPT !.repository =
     IF @ = "Postgres" THEN [kind |-> "Postgres", password |-> password]
                       ELSE [kind |-> "InMemory"]]

\* Mutant: the configuration is not validated.
IsAnything(config) == TRUE

\* validate
IsValid(config) == config.clock_cycle_interval # 0

\* load_config
Loaded(file, password) ==
  IF /\ IsParsed(file)
     /\ password # Absent
     /\ IsDerivable(file)
     /\ IsValid(Derived(file, password))
  THEN Derived(file, password)
  ELSE NoConfig
=============================================================================
