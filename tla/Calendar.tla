------------------------------ MODULE Calendar ------------------------------
(***************************************************************************)
(* The calendar of the scheduler (schedule.rs): days since 1970-01-01 to   *)
(* dates (civil_from_days), the next minute (increment_minute), the day of *)
(* the week (weekday_index) and the days that a cron expression matches.   *)
(* Three routines count days, each in its own way; plan_tick compares what *)
(* they say.                                                               *)
(***************************************************************************)
EXTENDS Integers, FiniteSets

CONSTANTS
  StartDays, \* bound: where the walk begins, in days since 1970-01-01
  WalkDays   \* bound: its length

ASSUME CalendarAssumption == StartDays \subseteq Nat /\ WalkDays \in Nat

VARIABLES day, walked

calendarVars == <<day, walked>>

CalendarInit == day \in StartDays /\ walked = 0
NextDay == walked < WalkDays /\ walked' = walked + 1 /\ day' = day + 1

-----------------------------------------------------------------------------
Leap(y) == (y % 4 = 0 /\ y % 100 # 0) \/ y % 400 = 0

DaysInMonth(y, m) ==
  CASE m \in {1, 3, 5, 7, 8, 10, 12} -> 31
    [] m \in {4, 6, 9, 11} -> 30
    [] m = 2 -> IF Leap(y) THEN 29 ELSE 28

\* weekday_index, from 1970 on: 0 is Sunday.
WeekdayIndex(y, m, d) ==
  LET years  == 365 * (y - 1970) + Cardinality({x \in 1970 .. y - 1 : Leap(x)})
      months == Cardinality({p \in (1 .. m - 1) \X (1 .. 31) : p[2] <= DaysInMonth(y, p[1])})
  IN (years + months + d - 1 + 4) % 7

\* Mutant: the step of a century is forgotten.
YearOfEraJulian(doe) == (doe - doe \div 1460) \div 365

\* civil_from_days, for days since 1970: the days are counted from the 1st of
\* March of the year 0, in eras of 400 years, whose years begin in March.
Era(days) == (days + 719468) \div 146097
DayOfEra(days) == days + 719468 - Era(days) * 146097
YearOfEra(doe) == (doe - doe \div 1460 + doe \div 36524 - doe \div 146096) \div 365
DayOfYear(doe) ==
  LET yoe == YearOfEra(doe) IN doe - (365 * yoe + yoe \div 4 - yoe \div 100)

Civil(days) ==
  LET yoe == YearOfEra(DayOfEra(days))
      doy == DayOfYear(DayOfEra(days))
      mp  == (5 * doy + 2) \div 153
      m   == IF mp < 10 THEN mp + 3 ELSE mp - 9
  IN <<yoe + Era(days) * 400 + (IF m <= 2 THEN 1 ELSE 0), m, doy - (153 * mp + 2) \div 5 + 1>>

\* increment_minute, at the last minute of a day.
Tomorrow(date) ==
  LET y == date[1]  m == date[2]  d == date[3]
  IN IF d < DaysInMonth(y, m) THEN <<y, m, d + 1>>
     ELSE IF m < 12 THEN <<y, m + 1, 1>> ELSE <<y + 1, 1, 1>>

\* Mutant: 7 is no day.
DayMatchesTo6(dom, dow, y, m, d) ==
  LET wd == WeekdayIndex(y, m, d)
  IN IF dom # 1 .. 31 /\ dow # 0 .. 7 THEN d \in dom \/ wd \in dow ELSE d \in dom /\ wd \in dow

\* CronExpr::matches, the fields of the day: the values a field admits.
DayMatches(dom, dow, y, m, d) ==
  LET wd == WeekdayIndex(y, m, d)
      domOk == d \in dom
      dowOk == wd \in dow \/ (wd = 0 /\ 7 \in dow)
  IN IF dom # 1 .. 31 /\ dow # 0 .. 7 THEN domOk \/ dowOk ELSE domOk /\ dowOk

CalendarSpec == CalendarInit /\ [][NextDay]_calendarVars

-----------------------------------------------------------------------------
(* Properties *)

\* The three routines agree: the day after a date is the date of the next day,
\* and every date has the weekday that its number of days gives.
CalendarAgrees ==
  /\ Civil(day + 1) = Tomorrow(Civil(day))
  /\ WeekdayIndex(Civil(day)[1], Civil(day)[2], Civil(day)[3]) = (day + 4) % 7

\* 0 and 7 are the same day, alone, together with a day of the month, and in a
\* range (CronExpr: both mean Sunday).
SundayEither ==
  LET y == Civil(day)[1]  m == Civil(day)[2]  d == Civil(day)[3]
  IN \A dom \in {1 .. 31, {13}, {1, 31}} : \A rest \in {{}, {1}, 4 .. 6} :
       DayMatches(dom, rest \cup {0}, y, m, d) = DayMatches(dom, rest \cup {7}, y, m, d)

\* The arithmetic of dates, and the days an expression selects.
CalendarInv == CalendarAgrees /\ SundayEither

\* A field that admits every day does not restrict the other one.  It does when
\* it is written 0-6: is_full asks for all of 0..7.
FullWeekFree ==
  LET y == Civil(day)[1]  m == Civil(day)[2]  d == Civil(day)[3]
  IN \A dom \in {{13}, {1, 31}} : DayMatches(dom, 0 .. 6, y, m, d) = (d \in dom)
=============================================================================
