--------------------------- MODULE ScheduleRecord ---------------------------
(***************************************************************************)
(* The time patterns of src/daemon/Scheduler/Scheduler.cpp: how the table  *)
(* of the configuration becomes records (ScheduleRecord's constructors,    *)
(* solveNickname, parseItem, updateConfiguration), and when the timer      *)
(* fires such a record (getNext, verifyTimePattern).                       *)
(*                                                                         *)
(* A pattern's item is what its characters say: every ("*"), a step        *)
(* ("*/n"), or a list of numbers; one number is a list of one, and a       *)
(* comma at the end of a list is of no effect. A text that std::stoi       *)
(* refuses is a list with a number out of range. The vector of an item is  *)
(* sorted before it is used, so that a set stands for it: its first        *)
(* element is the least of the set. The form n/"*" of Scheduler.h:53 is    *)
(* refused by std::stoi too. Time counts in Ticks to                       *)
(* the second from the beginning of an hour; the hour, date and day of     *)
(* the week do not change while a record is watched. How many records      *)
(* share the timer is the subject of module Scheduler.                     *)
(***************************************************************************)
EXTENDS Integers, Sequences, SchedulePatterns

CONSTANTS
    Tables,   \* the tables a configuration may hold: sequences of texts
    Ticks,    \* the fraction of a second the clock tells apart
    Starts,   \* seconds at which the daemon may start
    MaxLate,  \* ticks that a wake-up may be late
    Horizon,  \* bound on the seconds watched
    Today     \* tm_hour, tm_mday, tm_mon, tm_year and tm_wday

\* A text of the table: a nickname (or "none") or its items, and the rest of the
\* record, which names the service.
IsText(t) ==
    /\ DOMAIN t = {"nickname", "items", "service"}
    /\ t.nickname \in {"none", "reboot"} \union DOMAIN Nicknames
    /\ DOMAIN t.items = 1..7 /\ (\A f \in 1..7 : IsItem(t.items[f])) /\ t.service \in BOOLEAN

ASSUME ScheduleRecordAssumption ==
    /\ \A texts \in Tables :
         /\ Len(texts) \in Nat /\ DOMAIN texts = 1..Len(texts)
         /\ \A i \in 1..Len(texts) : IsText(texts[i])
    /\ Ticks \in Nat \ {0} /\ MaxLate \in Nat /\ Horizon \in Nat /\ Starts \subseteq 0..Horizon
    /\ Today \in [3..7 -> Nat] /\ \A f \in 3..7 : Today[f] - Offset[f] \in Mnm[f]..Mxm[f]

VARIABLES
    state,   \* "configured", "loaded", "watched"
    form,    \* "Tasks" (text) or "TasksJson"
    table,   \* the texts
    records, \* indexes of the texts that became records
    watched, \* the index of the record watched
    now,     \* the timer's last actual time, in ticks
    next,    \* when the record is planned
    fired,   \* whether the last round fired it
    late,    \* history: the lateness of the wake-ups, and the fraction at the start
    passed   \* history: seconds by which rounds began behind the planned second

recordVars == <<state, form, table, records, watched, now, next, fired, late, passed>>

-----------------------------------------------------------------------------
(* parseItem and the constructors.                                         *)

Bad == [ok |-> FALSE, vec |-> {}]
Good(vec) == [ok |-> TRUE, vec |-> vec]

FirstMultiple(mnm, divid) ==
    IF mnm % divid = 0 THEN mnm ELSE mnm - (mnm % divid) + divid

Multiples(mnm, mxm, divid) ==
    LET first == FirstMultiple(mnm, divid)
        size == IF first > mxm THEN 0 ELSE (mxm - first) \div divid + 1
    IN  {first + (i - 1) * divid : i \in 1..size}

Numbers(list) == {list[i] : i \in 1..Len(list)}

ParseItem(item, mnm, mxm, offset) ==
    LET shifted(vec) == {v + offset : v \in vec}
    IN  IF item.kind = "every" THEN Good({-1})
        ELSE IF item.kind = "step"
          THEN IF item.divid > 0 THEN Good(shifted(Multiples(mnm, mxm, item.divid))) ELSE Bad
        ELSE IF Numbers(item.values) \subseteq mnm..mxm THEN Good(shifted(Numbers(item.values))) ELSE Bad

Items(text) == IF text.nickname = "none" THEN text.items ELSE Nicknames[text.nickname]
Parsed(text, f) == ParseItem(Items(text)[f], Mnm[f], Mxm[f], Offset[f])

\* In the textual form solveNickname is given the whole record, so that a
\* nickname stands alone. In JSON, the service is a member that must be there.
Constructed(text) ==
    /\ IF form = "Tasks" THEN text.nickname = "none" \/ ~text.service ELSE text.service
    /\ text.nickname = "reboot" \/ \A f \in 1..7 : Parsed(text, f).ok

-----------------------------------------------------------------------------
(* getNext and verifyTimePattern of a record with a pattern.               *)

Vec(i, f) == Parsed(table[i], f).vec
Second(time) == time \div Ticks
TmSec(time) == Second(time) % 60

Least(vec) == CHOOSE v \in vec : \A w \in vec : v <= w

\* Mutant: the actual second counts as a later one.
MutantLater(vec, asec) == {v \in vec : v >= asec}

Later(vec, asec) == {v \in vec : v > asec}

\* The second after asec; for "*" the code takes second 0.
NextSec(vec, asec) ==
    IF \E v \in vec : v < 0 THEN 0
    ELSE Least(IF Later(vec, asec) = {} THEN vec ELSE Later(vec, asec))

\* The fraction of the actual time is kept.
GetNext(i, time) ==
    LET fsec == NextSec(Vec(i, 1), TmSec(time))
        dsec == fsec - TmSec(time) + IF fsec <= TmSec(time) THEN 60 ELSE 0
    IN  time + dsec * Ticks

Tm(time) == [f \in 2..7 |-> IF f = 2 THEN (Second(time) \div 60) % 60 ELSE Today[f]]

VerifyItem(cval, vec) == vec # {} /\ (\A v \in vec : v >= 0) => cval \in vec

VerifyTimePattern(i, time) == \A f \in 2..7 : VerifyItem(Tm(time)[f], Vec(i, f))

-----------------------------------------------------------------------------
RecordInit ==
    /\ state = "configured" /\ form \in {"Tasks", "TasksJson"} /\ table \in Tables
    /\ records = {} /\ watched = 0 /\ now = 0 /\ next = 0 /\ fired = FALSE
    /\ late = 0 /\ passed = 0

\* Mutant: the first record that cannot be made ends the table in both forms.
MutantUpdateConfiguration ==
    /\ state = "configured" /\ state' = "loaded"
    /\ records' = {i \in DOMAIN table : \A j \in 1..i : Constructed(table[j])}
    /\ UNCHANGED <<form, table, watched, now, next, fired, late, passed>>

\* The exception of a record is caught for each text, or for the whole array.
UpdateConfiguration ==
    /\ state = "configured" /\ state' = "loaded"
    /\ records' = IF form = "Tasks"
                    THEN {i \in DOMAIN table : Constructed(table[i])}
                    ELSE {i \in DOMAIN table : \A j \in 1..i : Constructed(table[j])}
    /\ UNCHANGED <<form, table, watched, now, next, fired, late, passed>>

\* addScheduleRecords plans the records; one with a pattern is watched.
AddScheduleRecord ==
    /\ state = "loaded" /\ state' = "watched"
    /\ watched' \in {i \in records : table[i].nickname # "reboot"}
    /\ \E s \in Starts, fraction \in 0..(Ticks - 1) : now' = s * Ticks + fraction /\ late' = fraction
    /\ next' = GetNext(watched', now') /\ fired' = FALSE /\ passed' = 0
    /\ UNCHANGED <<form, table, records>>

\* A round of the timer fires the record, or not, and plans it again.
Round ==
    /\ state = "watched" /\ Second(next) <= Horizon
    /\ \E by \in 0..MaxLate : now' = next + by /\ late' = late + by
    /\ passed' = passed + (Second(now') - Second(next))
    /\ next' = GetNext(watched, now') /\ fired' = VerifyTimePattern(watched, now')
    /\ UNCHANGED <<state, form, table, records, watched>>

RecordNext == UpdateConfiguration \/ AddScheduleRecord \/ Round

RecordSpec == RecordInit /\ [][RecordNext]_recordVars

-----------------------------------------------------------------------------
RecordTypeOK ==
    /\ state \in {"configured", "loaded", "watched"}
    /\ form \in {"Tasks", "TasksJson"} /\ table \in Tables
    /\ records \subseteq DOMAIN table
    /\ watched \in records \union {0} /\ (state = "watched" => watched \in records)
    /\ now \in Nat /\ next \in Nat /\ fired \in BOOLEAN /\ late \in Nat /\ passed \in Nat

\* What Scheduler.h:46-61 says that an item stands for, and whether it is one.
StandsFor(item, f) ==
    IF item.kind = "list" THEN Numbers(item.values)
    ELSE {v \in Mnm[f]..Mxm[f] : item.kind = "step" => v % item.divid = 0}
Proper(item, f) ==
    IF item.kind = "step" THEN item.divid > 0
    ELSE item.kind = "list" => StandsFor(item, f) \subseteq Mnm[f]..Mxm[f]

\* What the watched pattern says of the minute to the day of the week of a second,
\* and of the second as well.
Allows(second) ==
    \A f \in 2..7 : Tm(second * Ticks)[f] - Offset[f] \in StandsFor(Items(table[watched])[f], f)
IsDue(second) ==
    second % 60 \in StandsFor(Items(table[watched])[1], 1) /\ Allows(second)

\* The texts that Scheduler.h documents: proper items, or a nickname, which stands alone.
Documented(text) ==
    IF text.nickname = "none"
      THEN (\A f \in 1..7 : Proper(text.items[f], f)) /\ (form = "TasksJson" => text.service)
      ELSE text.service <=> form = "TasksJson"

\* Three nicknames are documented (Scheduler.h:57-59), but NICKNAMES gives them the day 0,
\* which parseItem refuses.
OfDayZero(text) == text.nickname \in {"yearly", "annually", "monthly"}

\* Of the textual form, a table keeps every documented text but those of the day 0: one
\* that is refused costs no other its place. Of TasksJson it keeps those before the first
\* that is refused.
RecordsAreProper ==
    state # "configured" =>
        LET proper == {i \in DOMAIN table : Documented(table[i]) /\ ~OfDayZero(table[i])}
        IN  records = IF form = "Tasks" THEN proper ELSE {i \in proper : 1..i \subseteq proper}

\* A record is always planned for a second of its pattern, after the actual time
\* and within a minute: one late wake-up does not make the next ones late.
NextIsInPattern ==
    state = "watched" =>
        /\ next > now /\ next <= now + 60 * Ticks
        /\ TmSec(next) \in StandsFor(Items(table[watched])[1], 1)

\* What is parsed into a record and what is planned from it, for both forms of tables.
RecordsAreRight == RecordTypeOK /\ RecordsAreProper /\ NextIsInPattern

\* "* | every" (Scheduler.h:50), "1,2,3 | 1st, 2nd, 3rd": no second that the pattern stands
\* for lies between a round and the second that is planned.
PlansEverySecond ==
    [][state = "watched" =>
        \A s \in (Second(now) + 1)..(Second(next) - 1) : ~IsDue(s)]_recordVars

\* The patterns that the code takes as documented. Of the others, "*" seconds are fired once
\* a minute, a year is compared with the years since 1900, and a step above the maximum of
\* its item is no restriction.
TakenAsDocumented(items) ==
    /\ items[1].kind # "every" /\ items[6].kind = "every"
    /\ \A f \in 2..7 : StandsFor(items[f], f) # {}

\* Of a pattern that is taken as documented no second is planned over, and each round fires
\* exactly if the minute to the day of the week of its second are the pattern's. Of any
\* pattern a planned second is passed over, before its round begins, only when the lateness
\* of the wake-ups has added up in the fraction to another whole second.
FiresWhenDue ==
    [][state = "watched" =>
        /\ passed' * Ticks <= late'
        /\ TakenAsDocumented(Items(table[watched])) =>
             /\ \A s \in (Second(now) + 1)..(Second(next) - 1) : ~IsDue(s)
             /\ fired' = Allows(Second(now'))]_recordVars
=============================================================================
