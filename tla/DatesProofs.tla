---------------------------- MODULE DatesProofs ----------------------------
(***************************************************************************)
(* Proofs about Dates: what its calendar computes, for any first year and   *)
(* any number of months, and what a chain of dates and the page's filters   *)
(* then do. StartOf is a recursive function; that its recursion has a       *)
(* solution, and what the solution is like, is proved by induction over     *)
(* sets of numbers (SetInduction).                                          *)
(***************************************************************************)
EXTENDS Dates, WellFoundedInduction, TLAPS

LEMMA MonthLengths ==
  ASSUME NEW k \in Int
  PROVE  MonthLength(k) \in 28..31
BY DEF MonthLength

-----------------------------------------------------------------------------
(* The numbers of days.                                                     *)

\* A set that holds 0, and with a number the next one, holds every number: induction
\* for a set, where the library's theorem is for an operator.
LEMMA SetInduction ==
  ASSUME NEW T, 0 \in T, \A n \in Nat : n \in T => n + 1 \in T
  PROVE  Nat \subseteq T
<1> SUFFICES ASSUME Nat \ T # {} PROVE FALSE
  OBVIOUS
<1> DEFINE Less == {p \in Nat \X Nat : p[1] < p[2]}
<1>1. IsWellFoundedOn(Less, Nat)
  BY NatLessThanWellFounded DEF OpToRel
<1>2. \A y, x \in Nat : y < x => <<y, x>> \in Less
  OBVIOUS
<1> HIDE DEF Less
<1>3. PICK x \in Nat \ T : \A y \in Nat \ T : <<y, x>> \notin Less
  BY <1>1, WFMin
<1>4. \A y \in Nat \ T : ~(y < x)
  BY <1>2, <1>3
<1>5. x # 0 /\ x - 1 \in Nat /\ x - 1 < x /\ (x - 1) + 1 = x
  OBVIOUS
<1>6. x - 1 \in T
  BY <1>4, <1>5
<1> QED
  BY <1>5, <1>6

\* A month's start, in terms of the month before.
StartFrom(f, k) == IF k = 0 THEN 0 ELSE f[k - 1] + MonthLength(k - 1)

\* The recursion has a solution, as far as the calendar goes ...
LEMMA StartsExist ==
  ASSUME NEW n \in Nat
  PROVE  \E f : f = [k \in 0..n |-> StartFrom(f, k)]
<1> DEFINE Solved == {i \in Nat : \E f : f = [k \in 0..i |-> StartFrom(f, k)]}
<1>1. 0 \in Solved
  <2> DEFINE f == [k \in 0..0 |-> 0]
  <2>1. \A k \in 0..0 : StartFrom(f, k) = 0
    BY DEF StartFrom
  <2>2. f = [k \in 0..0 |-> StartFrom(f, k)]
    BY <2>1
  <2> QED
    BY <2>2
<1>2. ASSUME NEW i \in Nat, i \in Solved PROVE i + 1 \in Solved
  <2> PICK f : f = [k \in 0..i |-> StartFrom(f, k)]
    BY <1>2
  <2> DEFINE g == [k \in 0..(i + 1) |-> IF k = i + 1 THEN f[i] + MonthLength(i) ELSE f[k]]
  <2>1. ASSUME NEW k \in 0..(i + 1) PROVE g[k] = StartFrom(g, k)
    <3>1. CASE k = i + 1
      BY <3>1 DEF StartFrom
    <3>2. CASE k # i + 1
      <4>1. k \in 0..i /\ g[k] = f[k] /\ f[k] = StartFrom(f, k)
        BY <3>2
      <4>2. k # 0 => k - 1 \in 0..i /\ g[k - 1] = f[k - 1]
        BY <4>1
      <4> HIDE DEF g
      <4> QED
        BY <4>1, <4>2 DEF StartFrom
    <3> QED
      BY <3>1, <3>2
  <2>2. DOMAIN g = 0..(i + 1) /\ g = [k \in 0..(i + 1) |-> g[k]]
    OBVIOUS
  <2> HIDE DEF g
  <2>3. g = [k \in 0..(i + 1) |-> StartFrom(g, k)]
    BY <2>1, <2>2
  <2> QED
    BY <2>3
<1> HIDE DEF Solved
<1>3. n \in Solved
  BY <1>1, <1>2, SetInduction
<1> QED
  BY <1>3 DEF Solved

\* ... which is what StartOf is.
LEMMA StartOfDef ==
  StartOf = [k \in 0..Months |-> StartFrom(StartOf, k)]
<1>1. \E f : f = [k \in 0..Months |-> StartFrom(f, k)]
  BY StartsExist, CalendarAssumption
<1>2. StartOf = CHOOSE f : f = [k \in 0..Months |-> StartFrom(f, k)]
  BY DEF StartOf, StartFrom
<1> QED
  BY <1>1, <1>2

LEMMA StartOfStep ==
  /\ StartOf[0] = 0
  /\ \A k \in 0..(Months - 1) : StartOf[k + 1] = StartOf[k] + MonthLength(k)
<1>1. \A k \in 0..Months : StartOf[k] = StartFrom(StartOf, k)
  BY StartOfDef
<1> QED
  BY <1>1, CalendarAssumption DEF StartFrom

LEMMA StartOfType == \A k \in 0..Months : StartOf[k] \in Nat
<1> DEFINE Typed == {k \in Nat : k <= Months => StartOf[k] \in Nat}
<1>1. 0 \in Typed
  BY StartOfStep
<1>2. ASSUME NEW k \in Nat, k \in Typed PROVE k + 1 \in Typed
  BY <1>2, StartOfStep, MonthLengths, CalendarAssumption
<1> HIDE DEF Typed
<1>3. Nat \subseteq Typed
  BY <1>1, <1>2, SetInduction
<1> QED
  BY <1>3, CalendarAssumption DEF Typed

\* A month ends before a later one starts.
LEMMA MonthsInOrder ==
  \A k \in 0..Months : \A j \in 0..(k - 1) : StartOf[j] + MonthLength(j) <= StartOf[k]
<1> DEFINE Later == {k \in Nat : k <= Months =>
                       \A j \in 0..(k - 1) : StartOf[j] + MonthLength(j) <= StartOf[k]}
<1>1. 0 \in Later
  OBVIOUS
<1>2. ASSUME NEW k \in Nat, k \in Later PROVE k + 1 \in Later
  <2> SUFFICES ASSUME k + 1 <= Months, NEW j \in 0..k
               PROVE  StartOf[j] + MonthLength(j) <= StartOf[k + 1]
    OBVIOUS
  <2>1. StartOf[k + 1] = StartOf[k] + MonthLength(k)
    BY StartOfStep, CalendarAssumption
  <2>2. StartOf[k] \in Nat /\ StartOf[j] \in Nat /\ MonthLength(k) \in 28..31 /\ MonthLength(j) \in 28..31
    BY StartOfType, MonthLengths, CalendarAssumption
  <2>3. CASE j = k
    BY <2>1, <2>2, <2>3
  <2>4. CASE j # k
    <3>1. StartOf[j] + MonthLength(j) <= StartOf[k]
      BY <1>2, <2>4, CalendarAssumption
    <3> QED
      BY <2>1, <2>2, <3>1
  <2> QED
    BY <2>3, <2>4
<1> HIDE DEF Later
<1>3. Nat \subseteq Later
  BY <1>1, <1>2, SetInduction
<1> QED
  BY <1>3, CalendarAssumption DEF Later

\* No day is left out: every number up to the last has its month.
LEMMA MonthsCover ==
  \A k \in 0..Months : \A n \in 1..StartOf[k] :
    \E j \in 0..(k - 1) : n - StartOf[j] \in 1..MonthLength(j)
<1> DEFINE Covered == {k \in Nat : k <= Months =>
                         \A n \in 1..StartOf[k] :
                           \E j \in 0..(k - 1) : n - StartOf[j] \in 1..MonthLength(j)}
<1>1. 0 \in Covered
  BY StartOfStep
<1>2. ASSUME NEW k \in Nat, k \in Covered PROVE k + 1 \in Covered
  <2> SUFFICES ASSUME k + 1 <= Months, NEW n \in 1..StartOf[k + 1]
               PROVE  \E j \in 0..k : n - StartOf[j] \in 1..MonthLength(j)
    OBVIOUS
  <2>1. StartOf[k + 1] = StartOf[k] + MonthLength(k)
    BY StartOfStep, CalendarAssumption
  <2>2. StartOf[k] \in Nat /\ MonthLength(k) \in 28..31
    BY StartOfType, MonthLengths, CalendarAssumption
  <2>3. CASE n <= StartOf[k]
    <3>1. \E j \in 0..(k - 1) : n - StartOf[j] \in 1..MonthLength(j)
      BY <1>2, <2>2, <2>3, CalendarAssumption
    <3> QED
      BY <3>1
  <2>4. CASE n > StartOf[k]
    BY <2>1, <2>2, <2>4
  <2> QED
    BY <2>2, <2>3, <2>4
<1> HIDE DEF Covered
<1>3. Nat \subseteq Covered
  BY <1>1, <1>2, SetInduction
<1> QED
  BY <1>3, CalendarAssumption DEF Covered

-----------------------------------------------------------------------------
(* Dates and their numbers.                                                 *)

LEMMA NumberType ==
  ASSUME NEW d \in Dates
  PROVE  /\ d.month \in 0..(Months - 1) /\ d.day \in 1..MonthLength(d.month)
         /\ d = [month |-> d.month, day |-> d.day]
         /\ StartOf[d.month] \in Nat /\ Number(d) = StartOf[d.month] + d.day
         /\ Number(d) \in Nat
<1>1. /\ d.month \in 0..(Months - 1) /\ d.day \in 1..31 /\ d.day <= MonthLength(d.month)
      /\ d = [month |-> d.month, day |-> d.day]
  BY DEF Dates
<1>2. MonthLength(d.month) \in 28..31 /\ StartOf[d.month] \in Nat
  BY <1>1, MonthLengths, StartOfType, CalendarAssumption
<1> QED
  BY <1>1, <1>2 DEF Number

Before(d, e) == d.month < e.month \/ (d.month = e.month /\ d.day < e.day)

\* A later date has a greater number ...
LEMMA NumberGrows ==
  ASSUME NEW d \in Dates, NEW e \in Dates, Before(d, e)
  PROVE  Number(d) < Number(e)
<1> DEFINE j == d.month
           k == e.month
<1>1. /\ j \in 0..(Months - 1) /\ k \in 0..(Months - 1)
      /\ d.day \in 1..MonthLength(j) /\ e.day \in 1..MonthLength(k)
      /\ StartOf[j] \in Nat /\ StartOf[k] \in Nat
      /\ Number(d) = StartOf[j] + d.day /\ Number(e) = StartOf[k] + e.day
  BY NumberType
<1>2. MonthLength(j) \in 28..31 /\ MonthLength(k) \in 28..31
  BY <1>1, MonthLengths, CalendarAssumption
<1>3. CASE j < k
  <2>1. StartOf[j] + MonthLength(j) <= StartOf[k]
    BY <1>1, <1>3, MonthsInOrder, CalendarAssumption
  <2> QED
    BY <1>1, <1>2, <2>1
<1>4. CASE j = k /\ d.day < e.day
  BY <1>1, <1>2, <1>4
<1> QED
  BY <1>3, <1>4 DEF Before

\* ... so a date is known by its number.
LEMMA NumberOnce ==
  ASSUME NEW d \in Dates, NEW e \in Dates, Number(d) = Number(e)
  PROVE  d = e
<1>1. ~Before(d, e) /\ ~Before(e, d) /\ Number(d) \in Nat /\ Number(e) \in Nat
  BY NumberGrows, NumberType
<1>2. d.month \in Int /\ e.month \in Int /\ d.day \in Int /\ e.day \in Int
  BY DEF Dates
<1>3. d.month = e.month /\ d.day = e.day
  BY <1>1, <1>2 DEF Before
<1> QED
  BY <1>3, NumberType

\* The date OfNumber finds in the calendar is the one with that number ...
LEMMA OfNumberRight ==
  ASSUME NEW n \in Int, InCalendar(OfNumber(n))
  PROVE  OfNumber(n) \in Dates /\ Number(OfNumber(n)) = n
<1> DEFINE Holds(k) == n - StartOf[k] \in 1..MonthLength(k)
           m == CHOOSE k \in 0..(Months - 1) : Holds(k)
<1>1. OfNumber(n) = IF \E k \in 0..(Months - 1) : Holds(k)
                    THEN [month |-> m, day |-> n - StartOf[m]]
                    ELSE [month |-> -1, day |-> 1]
  BY DEF OfNumber
<1>2. \E k \in 0..(Months - 1) : Holds(k)
  BY <1>1, CalendarAssumption DEF InCalendar
<1>3. m \in 0..(Months - 1) /\ Holds(m)
  BY <1>2
<1>4. OfNumber(n) = [month |-> m, day |-> n - StartOf[m]]
  BY <1>1, <1>2
<1> HIDE DEF m
<1>5. MonthLength(m) \in 28..31 /\ StartOf[m] \in Nat
  BY <1>3, MonthLengths, StartOfType, CalendarAssumption
<1> DEFINE day == n - StartOf[m]
<1>6. day \in 1..31 /\ day <= MonthLength(m) /\ StartOf[m] + day = n
  BY <1>3, <1>5
<1>7. OfNumber(n) = [month |-> m, day |-> day]
  BY <1>4
<1> HIDE DEF day
<1>8. OfNumber(n) \in Dates
  BY <1>3, <1>6, <1>7 DEF Dates
<1> QED
  BY <1>6, <1>7, <1>8 DEF Number

\* ... and it finds one for every number of a day of the calendar.
LEMMA OfNumberFinds ==
  ASSUME NEW n \in 1..StartOf[Months]
  PROVE  InCalendar(OfNumber(n))
<1> DEFINE Holds(k) == n - StartOf[k] \in 1..MonthLength(k)
           m == CHOOSE k \in 0..(Months - 1) : Holds(k)
<1>1. OfNumber(n) = IF \E k \in 0..(Months - 1) : Holds(k)
                    THEN [month |-> m, day |-> n - StartOf[m]]
                    ELSE [month |-> -1, day |-> 1]
  BY DEF OfNumber
<1>2. \E k \in 0..(Months - 1) : Holds(k)
  BY MonthsCover, CalendarAssumption
<1>3. m \in 0..(Months - 1)
  BY <1>2
<1>4. OfNumber(n).month = m
  BY <1>1, <1>2
<1> QED
  BY <1>3, <1>4 DEF InCalendar

\* AddDays adds days: the date it returns, if the calendar has it, is n days on.
LEMMA AddDaysExact ==
  ASSUME NEW d \in Dates, NEW n \in Int, InCalendar(AddDays(d, n))
  PROVE  AddDays(d, n) \in Dates /\ Number(AddDays(d, n)) = Number(d) + n
<1>1. Number(d) + n \in Int
  BY NumberType
<1> QED
  BY <1>1, OfNumberRight DEF AddDays

LEMMA AddNoDays ==
  ASSUME NEW d \in Dates
  PROVE  AddDays(d, 0) = d
<1>1. Number(d) \in 1..StartOf[Months]
  <2>1. d.month \in 0..(Months - 1) /\ MonthLength(d.month) \in 28..31
    BY NumberType, MonthLengths, CalendarAssumption
  <2>2. StartOf[d.month] + MonthLength(d.month) <= StartOf[Months] /\ StartOf[Months] \in Nat
    BY <2>1, MonthsInOrder, StartOfType, CalendarAssumption
  <2> QED
    BY <2>1, <2>2, NumberType
<1>2. AddDays(d, 0) = OfNumber(Number(d))
  BY <1>1, StartOfType, CalendarAssumption DEF AddDays
<1>3. OfNumber(Number(d)) \in Dates /\ Number(OfNumber(Number(d))) = Number(d)
  BY <1>1, OfNumberFinds, OfNumberRight, StartOfType, CalendarAssumption
<1> QED
  BY <1>2, <1>3, NumberOnce

\* What AddDate returns for months: the same day, or one of the first three days of
\* the month after; either way a day that its month has.
LEMMA AddMonthsShape ==
  ASSUME NEW d, d \in Dates, NEW n \in Int,
         NEW e, e = AddMonths(d, n), InCalendar(e)
  PROVE  /\ e \in Dates
         /\ e.day = d.day \/ (d.day > 28 /\ e.day \in 1..3)
<1>1. d.month \in Int /\ d.day \in 1..31 /\ d = [month |-> d.month, day |-> d.day]
  BY DEF Dates
<1>2. MonthLength(d.month + n) \in 28..31 /\ MonthLength(d.month + n + 1) \in 28..31
  BY <1>1, MonthLengths
<1>3. CASE d.day <= MonthLength(d.month + n)
  <2>1. e = [month |-> d.month + n, day |-> d.day]
    BY <1>1, <1>3 DEF AddMonths, Dates
  <2>2. QED
    BY <1>1, <1>2, <1>3, <2>1, CalendarAssumption DEF Dates, InCalendar
<1>4. CASE ~(d.day <= MonthLength(d.month + n))
  <2>1. e = [month |-> d.month + n + 1, day |-> d.day - MonthLength(d.month + n)]
    BY <1>4 DEF AddMonths
  <2>2. d.day > 28 /\ e.day \in 1..3
    BY <1>1, <1>2, <1>4, <2>1
  <2>3. QED
    BY <1>1, <1>2, <2>1, <2>2, CalendarAssumption DEF Dates, InCalendar
<1>5. QED
  BY <1>3, <1>4

\* The next occurrence of a valid date is a valid date, and with a positive interval
\* it is later: by days and weeks exactly that many days, by months in a later month.
LEMMA NextDateValid ==
  ASSUME NEW d \in Dates, NEW r \in Rec, InCalendar(NextDate(d, r))
  PROVE  /\ NextDate(d, r) \in Dates
         /\ r.unit = "day" => Number(NextDate(d, r)) = Number(d) + r.every
         /\ r.unit = "week" => Number(NextDate(d, r)) = Number(d) + 7 * r.every
         /\ r.every > 0 => Number(NextDate(d, r)) > Number(d)
<1>1. r.unit \in {"day", "week", "month"} /\ r.every \in Int /\ 7 * r.every \in Int
  BY DEF Rec
<1>2. Number(d) \in Nat
  BY NumberType
<1>3. CASE r.unit = "day"
  <2>1. NextDate(d, r) = AddDays(d, r.every)
    BY <1>3 DEF NextDate
  <2>2. AddDays(d, r.every) \in Dates /\ Number(AddDays(d, r.every)) = Number(d) + r.every
    BY <1>1, <2>1, AddDaysExact
  <2> QED
    BY <1>1, <1>2, <1>3, <2>1, <2>2
<1>4. CASE r.unit = "week"
  <2>1. NextDate(d, r) = AddDays(d, 7 * r.every)
    BY <1>4 DEF NextDate
  <2>2. AddDays(d, 7 * r.every) \in Dates /\ Number(AddDays(d, 7 * r.every)) = Number(d) + 7 * r.every
    BY <1>1, <2>1, AddDaysExact
  <2> QED
    BY <1>1, <1>2, <1>4, <2>1, <2>2
<1>5. CASE r.unit = "month"
  <2>1. NextDate(d, r) = AddMonths(d, r.every)
    BY <1>5 DEF NextDate
  <2>2. AddMonths(d, r.every) \in Dates
    BY <1>1, <2>1, AddMonthsShape
  <2>3. AddMonths(d, r.every).month \in {d.month + r.every, d.month + r.every + 1}
    BY NumberType DEF AddMonths
  <2>4. r.every > 0 => Before(d, AddMonths(d, r.every))
    BY <1>1, <2>3, NumberType DEF Before
  <2> QED
    BY <1>5, <2>1, <2>2, <2>4, NumberGrows
<1> QED
  BY <1>1, <1>3, <1>4, <1>5

-----------------------------------------------------------------------------
(* Type correctness.                                                        *)

LEMMA TypeInit == Init => TypeOK
BY CalendarAssumption DEF Init, TypeOK

LEMMA RecTyped == TypeOK => rec \in Rec
BY CalendarAssumption DEF TypeOK

\* The server's day is the browser's, or the one before or after it.
LEMMA UTCTodayExact ==
  ASSUME TypeOK
  PROVE  /\ UTCToday \in Dates /\ today \in Dates /\ zone.ahead \in {-1, 0, 1}
         /\ Number(UTCToday) = Number(today) - zone.ahead
<1>1. today \in Dates /\ today \in Todays /\ zone.ahead \in {-1, 0, 1}
  BY CalendarAssumption DEF TypeOK, Zones
<1>2. InCalendar(AddDays(today, 0))
  BY <1>1, AddNoDays, NumberType DEF InCalendar
<1>3. InCalendar(AddDays(today, -zone.ahead)) /\ -zone.ahead \in Int
  BY <1>1, <1>2, TodayAssumption
<1>4. Number(today) \in Nat
  BY <1>1, NumberType
<1> QED
  BY <1>1, <1>3, <1>4, AddDaysExact DEF UTCToday

LEMMA TypeStep == TypeOK /\ [Next]_vars => TypeOK'
<1> SUFFICES ASSUME TypeOK, [Next]_vars PROVE TypeOK'
  OBVIOUS
<1>1. CASE Done
  <2>1. CASE ReadForm = "date"
    <3>1. due' = NextDate(due, rec) /\ InCalendar(due') /\ form' = "date" /\ status' = "pending"
      BY <1>1, <2>1 DEF Done
    <3>2. due' \in Dates
      BY <3>1, NextDateValid, RecTyped DEF TypeOK
    <3>3. QED
      BY <1>1, <3>1, <3>2 DEF Done, TypeOK
  <2>2. CASE ReadForm # "date"
    BY <1>1, <2>2 DEF Done, TypeOK
  <2>3. QED
    BY <2>1, <2>2
<1>2. CASE Snooze
  <2>1. due' \in {AddDays(UTCToday, n) : n \in {1, 3, 7}} \cup {AddMonths(UTCToday, 1)}
    BY <1>2 DEF Snooze
  <2>2. InCalendar(due')
    BY <1>2 DEF Snooze
  <2>3. due' \in Dates
    <3>1. (\E n \in {1, 3, 7} : due' = AddDays(UTCToday, n)) \/ due' = AddMonths(UTCToday, 1)
      BY <2>1
    <3>2. ASSUME NEW n \in {1, 3, 7}, due' = AddDays(UTCToday, n) PROVE due' \in Dates
      <4>1. InCalendar(AddDays(UTCToday, n))
        BY <2>2, <3>2
      <4>2. QED
        BY <3>2, <4>1, UTCTodayExact, AddDaysExact
    <3>3. ASSUME due' = AddMonths(UTCToday, 1) PROVE due' \in Dates
      <4>1. InCalendar(AddMonths(UTCToday, 1))
        BY <2>2, <3>3
      <4>2. QED
        BY <3>3, <4>1, UTCTodayExact, AddMonthsShape
    <3>4. QED
      BY <3>1, <3>2, <3>3
  <2>4. QED
    BY <1>2, <2>3 DEF Snooze, TypeOK
<1>3. CASE Update
  <2>1. due' \in Dates
    BY <1>3, CalendarAssumption DEF Update, TypeOK
  <2>2. form' \in {"date", "stamp"}
    BY <1>3 DEF Update, ReadForm, TypeOK
  <2>3. QED
    BY <1>3, <2>1, <2>2 DEF Update, TypeOK
<1>4. CASE UNCHANGED vars
  BY <1>4 DEF vars, TypeOK
<1>5. QED
  BY <1>1, <1>2, <1>3, <1>4 DEF Next

\* Every date the program comes up with is one of the calendar: Done, Snooze and
\* Update write no other.
THEOREM TypeCorrect == Spec => []TypeOK
<1>1. Init => TypeOK
  BY TypeInit
<1>2. TypeOK /\ [Next]_vars => TypeOK'
  BY TypeStep
<1>3. QED
  BY <1>1, <1>2, PTL DEF Spec

-----------------------------------------------------------------------------
LEMMA DriftStep == TypeOK /\ MonthlyDrift /\ [Next]_vars => MonthlyDrift'
<1> SUFFICES ASSUME TypeOK, MonthlyDrift, [Next]_vars PROVE MonthlyDrift'
  OBVIOUS
<1>1. CASE Done
  <2>1. rec' = rec /\ anchor' = anchor
    BY <1>1 DEF Done
  <2>2. CASE rec.unit = "month" /\ ReadForm = "date"
    <3>1. due' = NextDate(due, rec) /\ InCalendar(due')
      BY <1>1, <2>2 DEF Done
    <3>2. rec.every \in Int
      BY RecTyped DEF Rec
    <3>3. due' = AddMonths(due, rec.every)
      BY <2>2, <3>1 DEF NextDate
    <3>4. due'.day = due.day \/ (due.day > 28 /\ due'.day \in 1..3)
      BY <3>1, <3>2, <3>3, AddMonthsShape DEF TypeOK
    <3>5. due.day \in 1..31 /\ anchor.day \in 1..31
      BY DEF TypeOK, Dates
    <3>6. QED
      BY <2>1, <2>2, <3>4, <3>5 DEF MonthlyDrift
  <2>3. CASE rec.unit # "month"
    BY <2>1, <2>3 DEF MonthlyDrift
  <2>4. CASE ReadForm # "date"
    BY <1>1, <2>1, <2>4 DEF Done, MonthlyDrift
  <2>5. QED
    BY <2>2, <2>3, <2>4
<1>2. CASE Snooze
  BY <1>2 DEF Snooze, MonthlyDrift
<1>3. CASE Update
  BY <1>3 DEF Update, MonthlyDrift
<1>4. CASE UNCHANGED vars
  BY <1>4 DEF vars, MonthlyDrift
<1>5. QED
  BY <1>1, <1>2, <1>3, <1>4 DEF Next

\* A monthly chain leaves the day it was given at most once, for one of the first
\* three days of a month, and only if the day was past the 28th: however long the
\* chain, whatever the interval.
THEOREM DriftsOnce == Spec => []MonthlyDrift
<1>1. Init => MonthlyDrift
  BY DEF Init, MonthlyDrift
<1>2. TypeOK /\ MonthlyDrift /\ [Next]_vars => MonthlyDrift'
  BY DriftStep
<1>3. QED
  BY <1>1, <1>2, TypeCorrect, PTL DEF Spec

\* Done, with a positive interval, makes the next occurrence later than the last.
THEOREM NextOccurrenceLater ==
  Spec => [][Done /\ status' = "pending" /\ rec.every > 0 => Number(due') > Number(due)]_vars
<1>1. ASSUME TypeOK, Done, status' = "pending", rec.every > 0
      PROVE  Number(due') > Number(due)
  <2>1. due' = NextDate(due, rec) /\ InCalendar(due')
    BY <1>1 DEF Done
  <2> QED
    BY <1>1, <2>1, RecTyped, NextDateValid DEF TypeOK
<1>2. TypeOK => [Done /\ status' = "pending" /\ rec.every > 0 => Number(due') > Number(due)]_vars
  BY <1>1
<1> QED
  BY <1>2, TypeCorrect, PTL DEF Spec

-----------------------------------------------------------------------------
(* The views of the server and the filters of the page.                     *)

LEMMA DueNumber == TypeOK => Number(due) \in Nat /\ Number(UTCToday) \in Nat
  BY UTCTodayExact, NumberType DEF TypeOK

\* The views today and upcoming leave no gap between them, whatever form the due
\* date is read in, and wherever the browser is.
THEOREM NoGapBetweenViews == Spec => []NoneBetweenViews
<1>1. TypeOK => NoneBetweenViews
  <2> SUFFICES ASSUME TypeOK, status = "pending", Number(due) <= Number(UTCToday) + 6
               PROVE  InToday \/ InUpcoming
    BY DEF NoneBetweenViews
  <2> DEFINE n == Number(due)
             u == Number(UTCToday)
  <2>1. n \in Nat /\ u \in Nat
    BY DueNumber
  <2>2. n < u \/ (n >= u /\ n < u + 7)
    BY <2>1
  <2> QED
    BY <2>2 DEF InToday, InUpcoming, AtMost
<1> QED
  BY <1>1, TypeCorrect, PTL

\* What a window is off by: nothing at UTC, a day at most elsewhere.
LEMMA WindowsShape ==
  ASSUME TypeOK, NEW filter \in DOMAIN Ends
  PROVE  /\ Ends[filter] \in Int /\ WindowEnd[filter] \in Int
         /\ WindowEnd[filter] - Ends[filter] \in {-1, 0, 1}
         /\ zone.place = "utc" => WindowEnd[filter] = Ends[filter]
<1>1. today \in Dates /\ Number(today) \in Nat
  BY UTCTodayExact, NumberType
<1>2. Weekday(Number(today)) \in 0..6
  BY <1>1, CalendarAssumption DEF Weekday
<1>3. StartOf[today.month + 1] \in Nat
  BY <1>1, NumberType, StartOfType, CalendarAssumption
<1>4. zone.ahead \in {-1, 0, 1} /\ (zone.place = "utc" => zone.ahead = 0)
  BY DEF TypeOK, Zones
<1>5. filter \in {"today", "week", "month"}
  BY DEF Ends
<1>6. CASE filter = "today"
  BY <1>1, <1>4, <1>6 DEF Ends, WindowEnd
<1>7. CASE filter = "week"
  <2> DEFINE e == Number(today) + 7 - Weekday(Number(today))
  <2>1. e \in Int
    BY <1>1, <1>2
  <2>2. Ends[filter] = e /\ WindowEnd[filter] = e - zone.ahead
    BY <1>7 DEF Ends, WindowEnd
  <2> HIDE DEF e
  <2> QED
    BY <1>4, <2>1, <2>2
<1>8. CASE filter = "month"
  <2> DEFINE e == StartOf[today.month + 1]
  <2>1. Ends[filter] = e /\ WindowEnd[filter] = e - IF zone.place = "east" THEN 1 ELSE 0
    BY <1>8 DEF Ends, WindowEnd
  <2> HIDE DEF e
  <2> QED
    BY <1>3, <2>1 DEF e
<1> QED
  BY <1>5, <1>6, <1>7, <1>8

\* Every filter of the page is right at UTC for plain dates, and elsewhere, or for
\* timestamps, is off by one day and no more.
THEOREM WindowsOffByADay == Spec => []WindowsNearlyRight
<1>1. TypeOK => WindowsNearlyRight
  <2> SUFFICES ASSUME TypeOK, NEW filter \in DOMAIN Ends
               PROVE  /\ ReadForm = "date" /\ zone.place = "utc"
                           => (InWindow(filter) <=> Number(due) <= Ends[filter])
                      /\ Number(due) <= Ends[filter] - 2 => InWindow(filter)
                      /\ Number(due) >= Ends[filter] + 2 => ~InWindow(filter)
    BY DEF WindowsNearlyRight
  <2> DEFINE n == Number(due)
             end == Ends[filter]
             w == WindowEnd[filter]
  <2>1. /\ n \in Int /\ end \in Int /\ w \in Int /\ w - end \in {-1, 0, 1}
        /\ zone.place = "utc" => w = end
    BY DueNumber, WindowsShape
  <2>2. InWindow(filter) <=> n < w \/ (n = w /\ ReadForm = "date")
    BY DEF InWindow, AtMost
  <2> HIDE DEF n, end, w
  <2>3. /\ ReadForm = "date" /\ zone.place = "utc" => (InWindow(filter) <=> n <= end)
        /\ n <= end - 2 => InWindow(filter)
        /\ n >= end + 2 => ~InWindow(filter)
    BY <2>1, <2>2
  <2> QED
    BY <2>3 DEF n, end, w
<1> QED
  BY <1>1, TypeCorrect, PTL
=============================================================================
