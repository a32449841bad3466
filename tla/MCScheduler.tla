---------------------------- MODULE MCScheduler ----------------------------
(* Scheduler on a small instance: every task belongs to one instance.      *)
EXTENDS Scheduler

MCTaskInst == [t \in Tasks |-> CHOOSE i \in Insts : TRUE]
MCCrons == {{1, 2}, {3}}

\* The searches over cron expressions, on a calendar of 32 minutes.
SmallCron == INSTANCE Cron WITH
  MinutesPerHour <- 2, HoursPerDay <- 2, DaysPerWeek <- 3, DaysPerMonth <- 4, MonthsPerYear <- 2

SmallFields(least, most) ==
  {SmallCron!FieldValues({item}, least, most) :
     item \in [lo : {least, least + 1}, hi : {least + 1, most}, step : {1, 2}]}
SmallSchedules ==
  [minute : {{0}, {0, 1}}, hour : {{1}, {0, 1}}, month : {{2}, {1, 2}}, day : SmallFields(1, 4),
   week : {SmallCron!Weekdays(v) : v \in SmallFields(0, 3)}, dayAny : BOOLEAN, weekAny : BOOLEAN]

\* Next and Prev skip no match, and what they find adjoins (cron.go, Next and Prev).
ASSUME CronSearchesAreExact ==
  \A s \in SmallSchedules : \A t \in {32, 37, 45, 52, 63} :
    /\ SmallCron!NextIsNearest(s, t) /\ SmallCron!PrevIsNearest(s, t) /\ SmallCron!SlotsAdjoin(s, t)
=============================================================================
