---------------------------- MODULE RtcCalendar ----------------------------
(***************************************************************************)
(* The calendar of Drivers/BSP/src/ibox_rtc.c beside a civil calendar that *)
(* goes on day by day from the first of January 1970.  The counter of the  *)
(* RTC counts seconds; here a step is a day.                               *)
(***************************************************************************)
EXTENDS Integers, Sequences, FiniteSetsExt

CONSTANTS
    MaxDays,     \* bound: the days looked at
    Seconds      \* the seconds of the day looked at

SECONDS_IN_A_DAY == 86400
LastDay == 47481     \* 2099-12-31, the end of the range of RTC_DateTime_Type

ASSUME CalendarAssumption ==
    /\ MaxDays \in Nat /\ MaxDays <= LastDay
    /\ \A s \in Seconds : s \in Nat /\ s < SECONDS_IN_A_DAY

VARIABLES
    days,        \* since 1970-01-01
    today        \* [year, month, day] of the civil calendar

calendarVars == <<days, today>>
------------------------------------------------------------------------------
(* The code.  Every fourth year is a leap year, which is true up to 2099. *)

ULY == <<31, 28, 31, 30, 31, 30, 31, 31, 30, 31, 30, 31>>
LY == [ULY EXCEPT ![2] = 29]
MONTH_DAYS == <<0, 31, 59, 90, 120, 151, 181, 212, 243, 273, 304, 334>>
DaysInYear(y) == IF y % 4 = 0 THEN 366 ELSE 365

RTC_GetWeek(year, month, day) ==
    LET y == year - 1
        leap == month > 2 /\ (year % 400 = 0 \/ (year % 4 = 0 /\ year % 100 # 0))
    IN (y + y \div 4 - y \div 100 + y \div 400 + day + MONTH_DAYS[month] + IF leap THEN 1 ELSE 0) % 7

RTC_DateTimeToSecond(d, s) ==
    ((d.year - 1970) * 365 + (d.year \div 4 - 1970 \div 4) + MONTH_DAYS[d.month] + d.day
        - IF d.year % 4 = 0 /\ d.month <= 2 THEN 1 ELSE 0)
    * SECONDS_IN_A_DAY + s + 1

\* Fault: a year that is used up is left one day too late.
YearEndsLate(left, y) == left <= DaysInYear(y) + 1

\* The year loop goes on while Days > Days_in_year, the month loop likewise.
YearEnds(left, y) == left <= DaysInYear(y)

\* The year the loop ends in and the days that are left of it.
ByYear(left) ==
    LET loop[p \in Nat \X Nat] ==
            IF YearEnds(p[2], p[1]) THEN p ELSE loop[<<p[1] + 1, p[2] - DaysInYear(p[1])>>]
    IN loop[<<1970, left>>]

\* The same for the month, with Days_in_month.
ByMonth(length, left) ==
    LET loop[p \in (1..12) \X (0..366)] ==
            IF p[2] <= length[p[1]] \/ p[1] = 12 THEN p ELSE loop[<<p[1] + 1, p[2] - length[p[1]]>>]
    IN loop[<<1, left>>]

RTC_SecondToDateTime(counter) ==
    LET s == counter % SECONDS_IN_A_DAY
        year == ByYear(counter \div SECONDS_IN_A_DAY)
        month == ByMonth(IF year[1] % 4 = 0 THEN LY ELSE ULY, year[2])
    IN [year |-> year[1], month |-> month[1], day |-> month[2] + 1,
        hour |-> s \div 3600, minute |-> (s % 3600) \div 60, second |-> s % 60]
------------------------------------------------------------------------------
(* The civil calendar. *)

Leap(y) == y % 4 = 0 /\ (y % 100 # 0 \/ y % 400 = 0)
MonthLength(y, m) == IF m = 2 THEN (IF Leap(y) THEN 29 ELSE 28) ELSE IF m \in {4, 6, 9, 11} THEN 30 ELSE 31
DayAfter(d) ==
    IF d.day < MonthLength(d.year, d.month) THEN [d EXCEPT !.day = @ + 1]
    ELSE IF d.month < 12 THEN [d EXCEPT !.month = @ + 1, !.day = 1]
    ELSE [year |-> d.year + 1, month |-> 1, day |-> 1]

CalendarInit == days = 0 /\ today = [year |-> 1970, month |-> 1, day |-> 1]
NextDay == days < MaxDays /\ days' = days + 1 /\ today' = DayAfter(today)
CalendarSpec == CalendarInit /\ [][NextDay]_calendarVars
------------------------------------------------------------------------------
\* The time that RTC_SecondToDateTime makes of the counter is the second of the day, and
\* so is the date the day, unless that is the first of a month (DayInMonth): the loops
\* leave no day out and count none twice, over leap years and the ends of months.
NamesTheDay ==
    \A s \in Seconds :
        LET d == RTC_SecondToDateTime(days * SECONDS_IN_A_DAY + s)
        IN /\ today.day # 1 => [year |-> d.year, month |-> d.month, day |-> d.day] = today
           /\ d.hour * 3600 + d.minute * 60 + d.second = s /\ d.minute < 60 /\ d.second < 60

\* RTC_GetWeek gives the day of the week; 1970-01-01 was a Thursday.
WeekIsRight == RTC_GetWeek(today.year, today.month, today.day) = (days + 4) % 7

\* Two dates that follow each other are set to counters a day apart.
DaysFollow ==
    \A s \in Seconds :
        RTC_DateTimeToSecond(DayAfter(today), s) = RTC_DateTimeToSecond(today, s) + SECONDS_IN_A_DAY

\* Day after day the three conversions of ibox_rtc.c agree with the calendar, but for
\* the date read on the first of a month, which is wrong.
RightButOnFirsts == NamesTheDay /\ WeekIsRight /\ DaysFollow

\* RTC_DateTime_Type (ibox_rtc.h:26): the day is one of the month.  It does not hold on
\* the first of any month but January 1970, which is read as the 32nd (31st, 30th, 29th)
\* of the month before.
DayInMonth ==
    \A s \in Seconds :
        LET d == RTC_SecondToDateTime(days * SECONDS_IN_A_DAY + s)
        IN d.day \in 1..MonthLength(d.year, d.month)

\* What was set is what is read.  It does not hold: RTC_DateTimeToSecond counts
\* days from one and adds a second, RTC_SecondToDateTime counts from zero.
ReadsWhatWasSet ==
    \A s \in Seconds :
        LET d == RTC_SecondToDateTime(RTC_DateTimeToSecond(today, s))
        IN [year |-> d.year, month |-> d.month, day |-> d.day] = today
=============================================================================
