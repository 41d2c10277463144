--------------------------- MODULE PaymentSchedule ---------------------------
(***************************************************************************)
(* paymentSchedule.ts: the instalments a lease is billed in, as a function *)
(* of its terms, with the calendar that Date.UTC and setUTCMonth keep.     *)
(*                                                                         *)
(* An instant is a number of half days, so that a term may begin later     *)
(* than midnight; even instants are midnights. Months are counted from a   *)
(* January of a leap year, and every fourth year is one, as they are from  *)
(* 1904 to 2096. Amounts are numbers; descriptions are left out.           *)
(***************************************************************************)
EXTENDS Naturals, Sequences

Instant == Nat

\* What leases_term_order_check and leases_rent_due_date_check let be stored.
Term == {t \in [start : Instant, end : Instant, dueDay : 1..31,
                rent : Nat, deposit : Nat] : t.start < t.end}

Instalment == [due : Instant, amount : Nat, type : {"rent", "deposit"}]

-----------------------------------------------------------------------------
(***************************************************************************)
(* The calendar.                                                           *)
(***************************************************************************)
LeapYear(month) == (month \div 12) % 4 = 0

DaysIn(month) ==
    IF month % 12 = 1 /\ LeapYear(month) THEN 29
    ELSE <<31, 28, 31, 30, 31, 30, 31, 31, 30, 31, 30, 31>>[(month % 12) + 1]

\* The days before a month.
DaysBefore[month \in Nat] ==
    IF month = 0 THEN 0 ELSE DaysBefore[month - 1] + DaysIn(month - 1)

\* Date.UTC: a day past the end of its month is one of the next.
UTC(month, day) == 2 * (DaysBefore[month] + day - 1)

\* No month has fewer than 28 days.
MonthOf(instant) ==
    CHOOSE month \in 0..(instant \div 56) :
        /\ DaysBefore[month] <= instant \div 2
        /\ instant \div 2 < DaysBefore[month + 1]

DayOf(instant) == (instant \div 2) - DaysBefore[MonthOf(instant)] + 1

\* setUTCMonth(getUTCMonth() + 1) of a midnight.
MonthLater(instant) == UTC(MonthOf(instant) + 1, DayOf(instant))

-----------------------------------------------------------------------------
(***************************************************************************)
(* The schedule.                                                           *)
(***************************************************************************)
Deposit(t) ==
    IF t.deposit > 0 THEN <<[due |-> t.start, amount |-> t.deposit, type |-> "deposit"]>>
    ELSE <<>>

FirstDue(t) ==
    LET cursor == UTC(MonthOf(t.start), t.dueDay)
    IN  IF cursor < t.start THEN MonthLater(cursor) ELSE cursor

Days(n) == 2 * n

\* currentDate as each round of the loop begins.
Cursor(t) ==
    LET at[n \in Nat] == IF n = 0 THEN FirstDue(t) ELSE MonthLater(at[n - 1])
    IN  at

\* The rounds the loop makes: each takes the cursor on by 28 days at least.
Rounds(t) ==
    CHOOSE n \in 0..(t.end \div Days(28) + 1) :
        /\ t.end < Cursor(t)[n]
        /\ \A k \in 1..n : Cursor(t)[k - 1] <= t.end

Rents(t) ==
    [n \in 1..Rounds(t) |-> [due |-> Cursor(t)[n - 1], amount |-> t.rent, type |-> "rent"]]

\* generatePaymentSchedule
Instalments(t) == Deposit(t) \o Rents(t)

-----------------------------------------------------------------------------
(***************************************************************************)
(* What the schedule is to be, without a cursor.                           *)
(***************************************************************************)
\* The due day of every month, for the months that have one.
DueDays(t) ==
    {d \in {UTC(month, t.dueDay) : month \in MonthOf(t.start)..MonthOf(t.end)} :
        t.start <= d /\ d <= t.end}

\* Rent falls due inside the term, never twice in a month, and no 31 days of the
\* term go by without it; on the due day itself when every month has that day.
BilledThroughout(t) ==
    LET rents == Rents(t)
        due(i) == rents[i].due
        n == Len(rents)
    IN  /\ \A i \in 1..n : t.start <= due(i) /\ due(i) <= t.end
        /\ \A i \in 1..(n - 1) :
              /\ due(i) < due(i + 1) /\ due(i + 1) <= due(i) + Days(31)
              /\ MonthOf(due(i)) < MonthOf(due(i + 1))
        /\ t.end < (IF n = 0 THEN t.start ELSE due(n)) + Days(31)
        /\ n > 0 => due(1) <= t.start + Days(31)
        /\ t.dueDay <= 28 => {due(i) : i \in 1..n} = DueDays(t)
=============================================================================
