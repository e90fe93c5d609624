------------------------------- MODULE Dates -------------------------------
(***************************************************************************)
(* The due date of a recurring task: nextDate, Snooze and the date part of  *)
(* Update and List (backend/internal/handlers/tasks.go), and the page's date *)
(* filter, dateWindowEnd of frontend/src/pages/Tasks.tsx.                   *)
(*                                                                          *)
(* One chain of occurrences, on one day. A date is a month, counted from    *)
(* January of FirstYear, and a day; its text is a date or, once the SQLite   *)
(* driver has read a DATE column as a time, a timestamp, which compares as  *)
(* just after its date. The server's day is UTC's, the page's the browser's. *)
(***************************************************************************)
EXTENDS Integers

CONSTANTS
  FirstYear, Months,   \* bound: the calendar's first year, and its months
  FirstWeekday,        \* the weekday of its first day, Sunday being 0
  Starts,              \* due dates that are typed in
  Recs,                \* recurrences: a unit and how many of it
  Todays,              \* dates the browser may show
  StampModes           \* does the driver turn a DATE into a timestamp?

Leap(y) == y % 4 = 0 /\ (y % 100 # 0 \/ y % 400 = 0)

MonthLength(k) ==
  CASE k % 12 = 1 -> IF Leap(FirstYear + k \div 12) THEN 29 ELSE 28
    [] k % 12 \in {3, 5, 8, 10} -> 30
    [] OTHER -> 31

Dates == {d \in [month : 0..(Months - 1), day : 1..31] : d.day <= MonthLength(d.month)}
InCalendar(d) == d.month \in 0..(Months - 1)
Rec == [unit : {"day", "week", "month"}, every : Int]

ASSUME CalendarAssumption ==
  /\ FirstYear \in Nat /\ Months \in Nat \ {0} /\ FirstWeekday \in 0..6
  /\ Starts \subseteq Dates /\ Todays \subseteq Dates
  /\ Recs \subseteq Rec /\ StampModes \subseteq BOOLEAN

VARIABLES
  due, form,  \* due_date: the date, and whether its text is a "date" or a "stamp"
  status,     \* of the last task of the chain
  rec,        \* its recurrence
  anchor,     \* history: the date last typed in, or set by Snooze
  stamps,     \* does the driver turn a DATE into a timestamp?
  today,      \* the browser's date
  zone        \* where it is, and how its date differs from UTC's

vars == <<due, form, status, rec, anchor, stamps, today, zone>>

\* East of UTC the night is still the day before there, west the evening the day after.
Zones == {[place |-> "utc", ahead |-> 0], [place |-> "east", ahead |-> 0],
          [place |-> "east", ahead |-> 1], [place |-> "west", ahead |-> 0],
          [place |-> "west", ahead |-> -1]}

-----------------------------------------------------------------------------
(* The calendar: package time, and Date of the browser.                     *)

StartOf[k \in 0..Months] == IF k = 0 THEN 0 ELSE StartOf[k - 1] + MonthLength(k - 1)

Number(d) == StartOf[d.month] + d.day

\* The date of a day's number; outside the calendar, month -1.
OfNumber(n) ==
  LET Holds(k) == n - StartOf[k] \in 1..MonthLength(k)
      month == CHOOSE k \in 0..(Months - 1) : Holds(k)
  IN IF \E k \in 0..(Months - 1) : Holds(k)
     THEN [month |-> month, day |-> n - StartOf[month]]
     ELSE [month |-> -1, day |-> 1]

\* Mutant: a day the month does not have is kept.
AddMonthsPlain(d, n) == [d EXCEPT !.month = @ + n]

\* AddDate normalises: a day the month does not have runs into the next month.
AddMonths(d, n) ==
  IF d.day <= MonthLength(d.month + n)
  THEN [d EXCEPT !.month = @ + n]
  ELSE [month |-> d.month + n + 1, day |-> d.day - MonthLength(d.month + n)]

AddDays(d, n) == OfNumber(Number(d) + n)

\* Bound: the calendar goes on around every date of the browser, so UTC's is in it.
ASSUME TodayAssumption ==
  \A d \in Todays : InCalendar(AddDays(d, -1)) /\ InCalendar(AddDays(d, 1))

-----------------------------------------------------------------------------
(* The handlers.                                                            *)

\* The text of due_date as scanTask and the page get it.
ReadForm == IF stamps THEN "stamp" ELSE form

\* Mutant: a month is taken for thirty days.
NextDateThirty(d, r) ==
  CASE r.unit = "day" -> AddDays(d, r.every)
    [] r.unit = "week" -> AddDays(d, 7 * r.every)
    [] r.unit = "month" -> AddDays(d, 30 * r.every)

NextDate(d, r) ==
  CASE r.unit = "day" -> AddDays(d, r.every)
    [] r.unit = "week" -> AddDays(d, 7 * r.every)
    [] r.unit = "month" -> AddMonths(d, r.every)

\* Done: a timestamp is not parsed, and the chain ends without a word.
Done ==
  /\ status # "done"
  /\ IF ReadForm = "date"
     THEN /\ due' = NextDate(due, rec) /\ InCalendar(due') /\ form' = "date"
          /\ status' = "pending"
     ELSE status' = "done" /\ UNCHANGED <<due, form>>
  /\ UNCHANGED <<rec, anchor, stamps, today, zone>>

UTCToday == AddDays(today, -zone.ahead)

\* Snooze: tomorrow, 3days, week, month, from the server's day.
Snooze ==
  /\ status = "pending"
  /\ due' \in {AddDays(UTCToday, n) : n \in {1, 3, 7}} \cup {AddMonths(UTCToday, 1)}
  /\ InCalendar(due') /\ form' = "date" /\ anchor' = due' /\ status' = "snoozed"
  /\ UNCHANGED <<rec, stamps, today, zone>>

\* Update from the form: a date typed in, or the text it was given sent back, and
\* the recurrence.
Update ==
  /\ \/ due' \in Starts /\ form' = "date"
     \/ due' = due /\ form' = ReadForm
  /\ anchor' = due' /\ rec' \in Recs
  /\ UNCHANGED <<status, stamps, today, zone>>

Init ==
  /\ due \in Starts /\ form = "date" /\ status = "pending" /\ rec \in Recs /\ anchor = due
  /\ stamps \in StampModes /\ today \in Todays /\ zone \in Zones

Next == Done \/ Snooze \/ Update

Spec == Init /\ [][Next]_vars

-----------------------------------------------------------------------------
(* What List and the page show.                                             *)

\* The order of the texts of a date, in a form, and of a plain date.
AtMost(d, f, n) == Number(d) < n \/ (Number(d) = n /\ f = "date")

\* view=today and view=upcoming, on the stored text.
InToday == status = "pending" /\ AtMost(due, form, Number(UTCToday))

\* Mutant: upcoming starts tomorrow.
InUpcomingFromTomorrow ==
  /\ status = "pending" /\ Number(due) >= Number(UTCToday) + 1
  /\ AtMost(due, form, Number(UTCToday) + 7)

InUpcoming ==
  /\ status = "pending" /\ Number(due) >= Number(UTCToday)
  /\ AtMost(due, form, Number(UTCToday) + 7)

Weekday(n) == (n - 1 + FirstWeekday) % 7

\* Where a filter of the page ends, by the browser's calendar: today, the Sunday
\* after today, the last day of the month.
Ends == [today |-> Number(today),
         week |-> Number(today) + 7 - Weekday(Number(today)),
         month |-> StartOf[today.month + 1]]

\* Mutant: the month's last day is taken for that of the month before.
WindowEndMonthBefore ==
  [today |-> Ends.today - zone.ahead,
   week |-> Ends.week - zone.ahead,
   month |-> StartOf[today.month]]

\* dateWindowEnd: toISOString turns now, or midnight of the month's last day, to UTC.
WindowEnd ==
  [today |-> Ends.today - zone.ahead,
   week |-> Ends.week - zone.ahead,
   month |-> Ends.month - IF zone.place = "east" THEN 1 ELSE 0]

\* The page compares the text it was given.
InWindow(filter) == AtMost(due, ReadForm, WindowEnd[filter])

-----------------------------------------------------------------------------
(* Properties.                                                              *)

\* Every variable holds values of its kind; every due date is one of the calendar.
TypeOK ==
  /\ due \in Dates /\ anchor \in Dates /\ today \in Todays
  /\ form \in {"date", "stamp"} /\ status \in {"pending", "snoozed", "done"}
  /\ rec \in Recs /\ stamps \in BOOLEAN /\ zone \in Zones

\* A chain that repeats by months keeps the day of the month it was given, or, when
\* that is past the 28th, falls once into the first three days of a month and stays
\* on that day for good.
MonthlyDrift ==
  rec.unit = "month" =>
    due.day = anchor.day \/ (anchor.day > 28 /\ due.day <= 3)

\* Between them the views today and upcoming show every pending task that is due
\* by the sixth day from now, though a timestamp compares as later than its date
\* and falls out of one view or the other.
NoneBetweenViews ==
  status = "pending" /\ Number(due) <= Number(UTCToday) + 6 => InToday \/ InUpcoming

\* A filter of the page is right for plain dates at UTC. A timestamp hides what is
\* due on the last day, and a browser away from UTC moves the end by one day: so no
\* filter shows a task due two days after its end or hides one due two before it.
WindowsNearlyRight ==
  \A filter \in DOMAIN Ends :
    LET end == Ends[filter]
    IN /\ ReadForm = "date" /\ zone.place = "utc" => (InWindow(filter) <=> Number(due) <= end)
       /\ Number(due) <= end - 2 => InWindow(filter)
       /\ Number(due) >= end + 2 => ~InWindow(filter)

=============================================================================
