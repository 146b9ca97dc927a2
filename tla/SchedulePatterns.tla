-------------------------- MODULE SchedulePatterns --------------------------
(* The items of a time pattern, one per field of a std::tm, and the patterns *)
(* that have a name.                                                         *)
EXTENDS Integers, Sequences

\* Where an item's number lies, and what parseItem adds to it.
Fields == <<"sec", "mnt", "hrs", "day", "mon", "yer", "dow">>
Mnm == <<0, 0, 0, 1, 1, 0, 0>>
Mxm == <<59, 59, 23, 31, 12, 9000, 6>>
Offset == <<0, 0, 0, 0, -1, 0, 0>>

Every == [kind |-> "every"]
Step(n) == [kind |-> "step", divid |-> n]
List(values) == [kind |-> "list", values |-> values]
One(value) == List(<<value>>)
IsItem(item) ==
    \/ item.kind = "every"
    \/ item.kind = "step" /\ item.divid \in Int
    \/ item.kind = "list" /\ item.values \in Seq(Int) /\ item.values # <<>>

\* NICKNAMES; @reboot stands for the time of its construction.
Nicknames == [
    yearly |-> <<One(0), One(0), One(0), One(0), One(1), One(1), Every>>,
    annually |-> <<One(0), One(0), One(0), One(0), One(1), One(1), Every>>,
    monthly |-> <<One(0), One(0), One(0), One(0), One(1), Every, Every>>,
    weekly |-> <<One(0), One(0), One(0), Every, Every, Every, One(0)>>,
    daily |-> <<One(0), One(0), One(0), Every, Every, Every, Every>>,
    hourly |-> <<One(0), One(0), Every, Every, Every, Every, Every>>,
    minutely |-> <<One(0), Every, Every, Every, Every, Every, Every>>]
=============================================================================
