----------------------------- MODULE PolicySchedule -----------------------------
(***************************************************************************)
(* When the scheduler fires a plan: the next time of a policy is computed  *)
(* on the calendar from the moment of the tick, kept in the schedule, and  *)
(* compared with the policy again on later ticks.  The platform may be     *)
(* down while times pass, and the policy may be edited.  A day has two     *)
(* hours; the months are those of a common year; the location is UTC, the  *)
(* only one the scheduler passes.                                          *)
(***************************************************************************)
EXTENDS Integers, Sequences, FiniteSetsExt

CONSTANTS Policies,   \* the policies a plan may be given
          Span,       \* the hours to look at, none after April
          Outage,     \* how long the platform may be down after a time came
          Edits       \* how often the policy is edited

Days   == <<31, 28, 31, 30, 31, 30>>     \* January to June
Months == 1..Len(Days)

\* Fields that a type does not use are 0; a month's day is 1..31, a week's 0..6.
ASSUME PolicyAssumption ==
  /\ Policies \subseteq [type : {"interval", "daily", "weekly", "monthly"}, value : 0..8, hour : 0..1, day : 0..31]
  /\ Span \subseteq 0..239 /\ Outage \in Nat /\ Edits \in Nat

VARIABLES
  clock,    \* now, in hours since the year began
  policy,   \* the policy of the plan
  nextFire, \* protection_plan_schedules.next_fire_at
  base,     \* when nextFire was computed and for which policy (not in the code)
  looked,   \* has a tick seen the policy as it is? (not in the code)
  lastFire, \* last_fired_at
  edits

dateVars == <<clock, policy, nextFire, base, looked, lastFire, edits>>

Before == [m \in Months |-> MapThenSumSet(LAMBDA k : Days[k], 1..(m - 1))]
TimeAt(m, d, h) == (Before[m] + d - 1) * 2 + h
HourOf(t)  == t % 2
DateOf(t)  == t \div 2                    \* days since the year began
MonthOf(t) == CHOOSE m \in Months : Before[m] <= DateOf(t) /\ DateOf(t) < Before[m] + Days[m]
DayOf(t)   == DateOf(t) - Before[MonthOf(t)] + 1
WeekdayOf(t) == DateOf(t) % 7

-----------------------------------------------------------------------------
(* NextPolicyFireAt *)

\* The last day of a month stands for the days it does not have.
monthlyTime_Bug(m, d, h) == TimeAt(m, d, h)
monthlyTime(m, d, h) == TimeAt(m, IF d > Days[m] THEN Days[m] ELSE d, h)

\* AddDate(0, 1, 0): a day that the next month does not have falls into the month after it.
MonthLater(t) == MonthOf(t) + IF DayOf(t) > Days[MonthOf(t) + 1] THEN 2 ELSE 1

Today(p, t) == DateOf(t) * 2 + p.hour
NextDaily(p, t) == IF Today(p, t) > t THEN Today(p, t) ELSE Today(p, t) + 2
NextWeekly(p, t) ==
  LET next == Today(p, t) + 2 * ((p.day - WeekdayOf(t) + 7) % 7)
  IN IF next > t THEN next ELSE next + 14
NextMonthly(p, t) ==
  LET next == monthlyTime(MonthOf(t), p.day, p.hour)
  IN IF next > t THEN next ELSE monthlyTime(MonthLater(t), p.day, p.hour)
NextPolicyFireAt(p, t) ==
  CASE p.type = "interval" -> t + p.value
    [] p.type = "daily"    -> NextDaily(p, t)
    [] p.type = "weekly"   -> NextWeekly(p, t)
    [] p.type = "monthly"  -> NextMonthly(p, t)

\* Only hour and day are compared: an interval fits always, a daily policy each day.
ScheduleMatchesPolicy_Bug(t, p) == p.type = "interval" \/ HourOf(t) = p.hour
ScheduleMatchesPolicy(t, p) ==
  \/ p.type = "interval"
  \/ /\ HourOf(t) = p.hour
     /\ p.type = "weekly" => WeekdayOf(t) = p.day
     /\ p.type = "monthly" => t = monthlyTime(MonthOf(t), p.day, HourOf(t))

-----------------------------------------------------------------------------
DateInit ==
  /\ clock = Min(Span) /\ policy \in Policies
  /\ nextFire = NextPolicyFireAt(policy, clock) /\ base = [at |-> clock, policy |-> policy]
  /\ looked = TRUE /\ lastFire = -1 /\ edits = Edits

Pass ==
  /\ clock + 1 \in Span /\ clock < nextFire + Outage
  /\ clock' = clock + 1 /\ UNCHANGED <<policy, nextFire, base, looked, lastFire, edits>>

EditPolicy ==
  /\ edits > 0 /\ edits' = edits - 1 /\ policy' \in Policies \ {policy}
  /\ looked' = FALSE /\ UNCHANGED <<clock, nextFire, base, lastFire>>

SetNext(t) == nextFire' = NextPolicyFireAt(policy, t) /\ base' = [at |-> t, policy |-> policy]

\* A tick repairs a schedule that does not fit its policy, then fires what is due.
reconcileSchedule ==
  /\ ~ScheduleMatchesPolicy(nextFire, policy) /\ SetNext(clock) /\ looked' = TRUE
  /\ UNCHANGED <<clock, policy, lastFire, edits>>
FireDue_Bug == SetNext(nextFire) /\ lastFire' = clock
FireDue == SetNext(clock) /\ lastFire' = clock
runScheduledBackups ==
  /\ ScheduleMatchesPolicy(nextFire, policy) /\ looked' = TRUE
  /\ IF nextFire <= clock THEN FireDue ELSE UNCHANGED <<nextFire, base, lastFire>>
  /\ UNCHANGED <<clock, policy, edits>>

DateNext == Pass \/ EditPolicy \/ reconcileSchedule \/ runScheduledBackups
DateSpec == DateInit /\ [][DateNext]_dateVars

DateTypeOK ==
  /\ clock \in Span /\ policy \in Policies /\ nextFire \in Nat /\ base.at \in Span
  /\ looked \in BOOLEAN /\ lastFire \in Span \cup {-1} /\ edits \in 0..Edits

-----------------------------------------------------------------------------
(* Properties *)

\* The times a policy means: each day, each week's day, each month's day or its last day.
Means(p, t) ==
  /\ p.type # "interval" /\ HourOf(t) = p.hour
  /\ p.type = "weekly" => WeekdayOf(t) = p.day
  /\ p.type = "monthly" => DayOf(t) = Min({p.day, Days[MonthOf(t)]})
Skipped == \E t \in (clock + 1)..(nextFire - 1) : t <= TimeAt(6, 30, 1) /\ Means(policy, t)

\* Computed on a day that the next month does not have.
EndOfMonth == policy.type = "monthly" /\ DayOf(base.at) > Days[MonthOf(base.at) + 1]

\* No time the policy means lies between now and the schedule's next time, after outages and
\* edits too, once a tick has seen the policy.  Not so when the policy's type was changed
\* (a schedule of another type may fit by chance), nor at the end of a long month.
SkipsNothing == looked /\ base.policy.type = policy.type /\ ~EndOfMonth => ~Skipped

\* However long the platform was down, the times it missed give one task: a schedule that
\* has fired is not due at the same moment.
OneCatchUp == lastFire = clock => nextFire > clock

\* A monthly policy fires in each month, "the last day of month" being what its day 31
\* stands for.
EveryMonthFires == looked /\ base.policy = policy /\ policy.type = "monthly" => ~Skipped

\* No time is left out and none is caught up twice.
ScheduleSafety == DateTypeOK /\ SkipsNothing /\ OneCatchUp
=============================================================================
