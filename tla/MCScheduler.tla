----------------------------- MODULE MCScheduler -----------------------------
(* Scheduler with a few records and a short clock. *)
EXTENDS Scheduler

At(d) == [kind |-> "at", delay |-> d, period |-> 0]
Every(d, p) == [kind |-> "periodic", delay |-> d, period |-> p]
Cron(p) == [kind |-> "cron", delay |-> 0, period |-> p]

\* A task now or later, one at every unit of time, and a time pattern.
AllPlans == {At(0), At(1), Every(0, 1), Cron(2)}

\* A task due at once or in one unit, planned while another is being fired.
SoonPlans == {At(0), At(1)}
=============================================================================
