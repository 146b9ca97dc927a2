-------------------------- MODULE MCScheduleRecord --------------------------
(* A record whose seconds are "*", as in the first line of the table of       *)
(* Scheduler.h, on a clock that is never late.                               *)
EXTENDS ScheduleRecord

EverySecond ==
    {<<[nickname |-> "none", items |-> [f \in 1..7 |-> Every], service |-> TRUE]>>}

\* 9 o'clock on Thursday, 19 November 2026.
SomeDay == [f \in 3..7 |-> <<0, 0, 9, 19, 10, 126, 4>>[f]]
=============================================================================
