----------------------------- MODULE MCGrpcServer -----------------------------
(***************************************************************************)
(* Instances of GrpcServer for TLC.                                        *)
(***************************************************************************)
EXTENDS GrpcServer

Times(n) == [case |-> "times", times |-> n]

Endless(flag) == [case |-> "infinitely", infinitely |-> flag]

\* Timestamps: there or not, without meaning, past, near, and beyond what a
\* DateTime represents.
Timestamps == {Absent, Malformed, 0, 1, MaxInstant + 1}

Schedules_ ==
  {Absent}
    \cup {[kind |-> "Delayed", transmit_at |-> t] : t \in Timestamps}
    \cup {[kind |-> "Interval", first_transmission |-> t, interval |-> d,
           iterate |-> n] :
            t \in {0, MaxInstant + 1}, d \in {Absent, Malformed, 0, 1},
            n \in {Absent, Times(2), Endless(TRUE), Endless(FALSE)}}
    \cup {[kind |-> "Cron", first_transmission_after |-> t,
           expression |-> e, iterate |-> n] :
            t \in {Absent, 1}, e \in {Malformed, {2}},
            n \in {Absent, Times(0), Endless(TRUE), Endless(FALSE)}}

Subjects == {<<"a">>, <<"a", ">">>, <<"$", "a">>, <<"a", "a", "a">>}

\* Everything that can be said, with a good subject; and a good schedule with
\* every subject.
AllRequests ==
  {[schedule |-> s, message |-> <<"a">>] : s \in Schedules_}
    \cup {[schedule |-> [kind |-> "Delayed", transmit_at |-> t],
           message |-> m] : t \in {0, MaxInstant + 1},
                            m \in Subjects \cup {Absent}}
=============================================================================
