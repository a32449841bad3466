-------------------------------- MODULE Cron --------------------------------
(***************************************************************************)
(* The cron expressions of scheduled tasks (panel/cron): which minutes one *)
(* stands for, and the searches for the next and for the latest of them.   *)
(*                                                                         *)
(* A minute is a number, counted from the start of some year.  The         *)
(* calendar's sizes are parameters, and all months and years are equally   *)
(* long, so that whole years can be looked through.  Splitting the text    *)
(* into fields and items, and its description in words, are left out.      *)
(***************************************************************************)
EXTENDS Integers

CONSTANTS MinutesPerHour, HoursPerDay, DaysPerWeek, DaysPerMonth, MonthsPerYear

Day == MinutesPerHour * HoursPerDay
Month == Day * DaysPerMonth
Year == Month * MonthsPerYear

MinuteOf(t) == t % MinutesPerHour
HourOf(t) == (t \div MinutesPerHour) % HoursPerDay
DayOf(t) == 1 + ((t \div Day) % DaysPerMonth)
MonthOf(t) == 1 + ((t \div Month) % MonthsPerYear)
WeekdayOf(t) == (t \div Day) % DaysPerWeek
StartOfHour(t) == t - MinuteOf(t)

\* ---------------------------------------------------------------- expressions

\* One item of a field: from lo to hi (the whole range for a star, one value for a number).
ItemAllowed(item, least, most) ==
  item.step > 0 /\ item.lo >= least /\ item.hi <= most /\ item.lo <= item.hi
ItemValues(item) == {v \in item.lo..item.hi : (v - item.lo) % item.step = 0}

\* parseField: the values of all items, or nothing if the field is refused.
FieldValues(items, least, most) ==
  IF \A item \in items : ItemAllowed(item, least, most) THEN UNION {ItemValues(i) : i \in items} ELSE {}

\* In the field of weekdays 7 is Sunday, as 0 is.
Weekdays(values) == (values \ {DaysPerWeek}) \cup (IF DaysPerWeek \in values THEN {0} ELSE {})

\* Days and weekdays restrict each other only if one of them is a star; otherwise either will do.
Match(s, t) ==
  LET dom == DayOf(t) \in s.day  dow == WeekdayOf(t) \in s.week IN
  /\ MinuteOf(t) \in s.minute /\ HourOf(t) \in s.hour /\ MonthOf(t) \in s.month
  /\ CASE s.dayAny /\ s.weekAny -> TRUE
       [] s.dayAny /\ ~s.weekAny -> dow
       [] s.weekAny /\ ~s.dayAny -> dom
       [] OTHER -> dom \/ dow

\* ------------------------------------------------------------------- searches

None == -1

\* Next: forward for a year and a day, over hours that do not match at once.
NextMatch(s, after) ==
  LET limit == after + 1 + Year + Day
      search[t \in after..limit + MinutesPerHour] ==
        IF t >= limit THEN None
        ELSE IF Match(s, t) THEN t
        ELSE IF HourOf(t) \notin s.hour THEN search[StartOfHour(t) + MinutesPerHour]
        ELSE search[t + 1]
  IN  search[after + 1]

\* Prev: backward for a year, this minute included.
PrevMatch(s, before) ==
  LET limit == before - Year
      search[t \in limit - MinutesPerHour..before] ==
        IF t <= limit THEN None
        ELSE IF Match(s, t) THEN t
        ELSE IF HourOf(t) \notin s.hour THEN search[StartOfHour(t) - 1]
        ELSE search[t - 1]
  IN  search[before]

\* ----------------------------------------------------------------- references

\* What the searches are to find: the nearest matching minute, if there is one.
NextIsNearest(s, after) ==
  LET later == {t \in after + 1..after + Year + Day : Match(s, t)}  found == NextMatch(s, after)
  IN  IF later = {} THEN found = None ELSE found \in later /\ \A t \in later : found <= t

PrevIsNearest(s, before) ==
  LET earlier == {t \in before - Year + 1..before : Match(s, t)}  found == PrevMatch(s, before)
  IN  IF earlier = {} THEN found = None ELSE found \in earlier /\ \A t \in earlier : found >= t

\* A run at the latest slot is followed by the next one: no slot lies between the two.
SlotsAdjoin(s, t) ==
  LET prev == PrevMatch(s, t)  next == NextMatch(s, t)
  IN  prev # None /\ next # None => NextMatch(s, prev) = next /\ PrevMatch(s, next) = next
=============================================================================
