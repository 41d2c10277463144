----------------------------- MODULE LeasesProofs -----------------------------
(***************************************************************************)
(* Theorems about Leases, for any leases, terms and any number of          *)
(* requests.                                                               *)
(*                                                                         *)
(* The inductive invariant LeasesInv says what a signature under way still *)
(* knows of the row it selected: a counterparty who had signed has signed, *)
(* one who had not has signed since, and the terms are the ones selected   *)
(* unless they were edited since. With it a lease nothing was missed of is *)
(* active, or terminated, as soon as both have signed, which is what keeps *)
(* its terms from changing once they are billed.                           *)
(*                                                                         *)
(* First, what generatePaymentSchedule computes for every term: a loop is  *)
(* a recursion on the number of its rounds, and what every round preserves *)
(* is shown with the least number that would not have it.                  *)
(***************************************************************************)
EXTENDS Leases, WellFoundedInduction, TLAPS

(* Induction and recursion on the natural numbers, about sets and functions. *)

LEMMA LeastNat ==
    ASSUME NEW T, T \subseteq Nat, T # {}
    PROVE  \E n \in T : \A m \in T : n <= m
<1>1. PICK n \in T : \A m \in T : ~(<<m, n>> \in OpToRel(<, Nat))
  BY NatLessThanWellFounded, WFMin
<1>2. \A m \in T : m \in Nat /\ n \in Nat /\ ~(m < n) BY <1>1 DEF OpToRel
<1>3. \A m \in T : n <= m BY <1>2
<1>4. QED BY <1>3

LEMMA Induction ==
    ASSUME NEW S, 0 \in S, \A n \in Nat : n \in S => n + 1 \in S
    PROVE  Nat \subseteq S
<1> SUFFICES ASSUME Nat \ S # {} PROVE FALSE OBVIOUS
<1> DEFINE T == Nat \ S
<1>1. PICK n \in T : \A m \in T : n <= m
  <2> T \subseteq Nat /\ T # {} OBVIOUS
  <2> HIDE DEF T
  <2> QED BY LeastNat
<1>2. n \in Nat /\ n # 0 /\ n - 1 \in Nat BY <1>1
<1>3. n - 1 \in S BY <1>1, <1>2
<1>4. n - 1 + 1 = n BY <1>2
<1>5. QED BY <1>1, <1>2, <1>3, <1>4

\* f holds the values up to n of the recursion that begins at x and makes its
\* k-th step by g[k].
Defines(f, n, S, x, g) ==
    /\ f \in [0..n -> S] /\ f[0] = x
    /\ \A k \in 0..(n - 1) : f[k + 1] = g[k][f[k]]

\* Such a function is the only one, and there is one for every n,
LEMMA DefinesOnce ==
    ASSUME NEW S, NEW x \in S, NEW g \in [Nat -> [S -> S]],
           NEW n \in Nat, NEW f, Defines(f, n, S, x, g),
           NEW m \in Nat, NEW h, Defines(h, m, S, x, g), n <= m
    PROVE  \A k \in 0..n : f[k] = h[k]
<1> DEFINE Same == {k \in Nat : k <= n => f[k] = h[k]}
<1>1. 0 \in Same BY DEF Defines
<1>2. ASSUME NEW k \in Nat, k \in Same PROVE k + 1 \in Same
  <2> SUFFICES ASSUME k + 1 <= n PROVE f[k + 1] = h[k + 1] OBVIOUS
  <2>1. k \in 0..(n - 1) /\ k \in 0..(m - 1) /\ f[k] = h[k] BY <1>2
  <2>2. QED BY <2>1 DEF Defines
<1> HIDE DEF Same
<1>3. Nat \subseteq Same BY <1>1, <1>2, Induction
<1>4. QED BY <1>3 DEF Same

LEMMA DefinesSome ==
    ASSUME NEW S, NEW x \in S, NEW g \in [Nat -> [S -> S]]
    PROVE  \A n \in Nat : \E f : Defines(f, n, S, x, g)
<1> DEFINE There == {n \in Nat : \E f : Defines(f, n, S, x, g)}
<1>1. 0 \in There
  <2>1. Defines([k \in 0..0 |-> x], 0, S, x, g) BY DEF Defines
  <2>2. QED BY <2>1
<1>2. ASSUME NEW n \in Nat, n \in There PROVE n + 1 \in There
  <2>1. PICK f : Defines(f, n, S, x, g) BY <1>2
  <2> DEFINE h == [k \in 0..(n + 1) |-> IF k <= n THEN f[k] ELSE g[n][f[n]]]
  <2>2. \A k \in 0..n : f[k] \in S /\ h[k] = f[k] BY <2>1 DEF Defines
  <2>3. h[n + 1] = g[n][f[n]] /\ g[n][f[n]] \in S BY <2>2
  <2>4. h \in [0..(n + 1) -> S]
    <3>1. ASSUME NEW k \in 0..(n + 1) PROVE h[k] \in S
      <4>1. k \in 0..n \/ k = n + 1 BY <3>1
      <4>2. QED BY <4>1, <2>2, <2>3
    <3>2. QED BY <3>1
  <2>5. h[0] = x BY <2>1, <2>2 DEF Defines
  <2>6. ASSUME NEW k \in 0..n PROVE h[k + 1] = g[k][h[k]]
    <3>1. CASE k = n BY <3>1, <2>2, <2>3
    <3>2. CASE k # n
      <4>1. k \in 0..(n - 1) /\ k + 1 \in 0..n BY <3>2
      <4>2. QED BY <4>1, <2>1, <2>2 DEF Defines
    <3>3. QED BY <3>1, <3>2
  <2>7. (n + 1) - 1 = n OBVIOUS
  <2> HIDE DEF h
  <2>8. Defines(h, n + 1, S, x, g) BY <2>4, <2>5, <2>6, <2>7 DEF Defines
  <2>9. QED BY <2>8
<1> HIDE DEF There
<1>3. Nat \subseteq There BY <1>1, <1>2, Induction
<1>4. QED BY <1>3 DEF There

\* so there is one for all of them.
Recurs(f, S, x, g) ==
    /\ f \in [Nat -> S] /\ f[0] = x
    /\ \A n \in Nat : f[n + 1] = g[n][f[n]]

LEMMA Recursion ==
    ASSUME NEW S, NEW x \in S, NEW g \in [Nat -> [S -> S]]
    PROVE  \E f : Recurs(f, S, x, g)
<1> DEFINE part == [n \in Nat |-> CHOOSE f : Defines(f, n, S, x, g)]
           f == [n \in Nat |-> part[n][n]]
<1>1. \A n \in Nat : Defines(part[n], n, S, x, g) BY DefinesSome
<1>2. \A n \in Nat : f[n] = part[n][n] OBVIOUS
<1> HIDE DEF part, f
<1>3. f \in [Nat -> S] BY <1>1, <1>2 DEF Defines, f
<1>4. f[0] = x BY <1>1, <1>2 DEF Defines
<1>5. ASSUME NEW n \in Nat PROVE f[n + 1] = g[n][f[n]]
  <2>1. n + 1 \in Nat /\ n \in 0..((n + 1) - 1) /\ n <= n + 1 OBVIOUS
  <2>2. part[n + 1][n + 1] = g[n][part[n + 1][n]] BY <1>1, <2>1 DEF Defines
  <2>3. part[n][n] = part[n + 1][n]
    <3>1. \A k \in 0..n : part[n][k] = part[n + 1][k]
      BY <1>1, <2>1, DefinesOnce
    <3>2. QED BY <3>1
  <2>4. QED BY <1>2, <2>1, <2>2, <2>3
<1>6. Recurs(f, S, x, g) BY <1>3, <1>4, <1>5 DEF Recurs
<1>7. QED BY <1>6

-----------------------------------------------------------------------------
(* The calendar.                                                           *)

LEMMA DaysInBounds ==
    ASSUME NEW m \in Nat PROVE DaysIn(m) \in 28..31
<1> DEFINE k == m % 12
<1>1. k \in 0..11 OBVIOUS
<1>2. \/ k = 0 \/ k = 1 \/ k = 2 \/ k = 3 \/ k = 4 \/ k = 5
      \/ k = 6 \/ k = 7 \/ k = 8 \/ k = 9 \/ k = 10 \/ k = 11
  BY <1>1
<1> HIDE DEF k
<1>3. DaysIn(m) = IF k = 1 /\ LeapYear(m) THEN 29
                  ELSE <<31, 28, 31, 30, 31, 30, 31, 31, 30, 31, 30, 31>>[k + 1]
  BY DEF DaysIn, k
<1>4. QED BY <1>2, <1>3

LEMMA DaysBeforeIs ==
    /\ DaysBefore[0] = 0
    /\ \A m \in Nat : /\ DaysBefore[m] \in Nat
                       /\ DaysBefore[m + 1] = DaysBefore[m] + DaysIn(m)
<1> DEFINE g == [m \in Nat |-> [s \in Nat |-> s + DaysIn(m)]]
<1>1. g \in [Nat -> [Nat -> Nat]] BY DaysInBounds
<1>2. PICK f : Recurs(f, Nat, 0, g)
  <2> HIDE DEF g
  <2>1. 0 \in Nat OBVIOUS
  <2>2. QED BY <1>1, <2>1, Recursion
<1>3. \A m \in Nat : m # 0 => f[m] = f[m - 1] + DaysIn(m - 1)
  <2> TAKE m \in Nat
  <2> HAVE m # 0
  <2>1. m - 1 \in Nat /\ m - 1 + 1 = m OBVIOUS
  <2>2. f[m - 1] \in Nat /\ f[m] = g[m - 1][f[m - 1]] BY <1>2, <2>1 DEF Recurs
  <2>3. QED BY <2>1, <2>2
<1>4. f = [m \in Nat |-> IF m = 0 THEN 0 ELSE f[m - 1] + DaysIn(m - 1)]
  <2> HIDE DEF g
  <2> QED BY <1>2, <1>3 DEF Recurs
<1> HIDE DEF g
<1>5. DaysBefore = [m \in Nat |-> IF m = 0 THEN 0 ELSE DaysBefore[m - 1] + DaysIn(m - 1)]
  BY <1>4 DEF DaysBefore
<1> HIDE DEF DaysBefore
<1> DEFINE Typed == {m \in Nat : DaysBefore[m] \in Nat}
<1>6. DaysBefore[0] = 0 BY <1>5
<1>7. \A m \in Nat : DaysBefore[m + 1] = DaysBefore[m] + DaysIn(m)
  <2> TAKE m \in Nat
  <2>1. m + 1 \in Nat /\ m + 1 # 0 /\ m + 1 - 1 = m OBVIOUS
  <2>2. QED BY <2>1, <1>5
<1>8. \A m \in Nat : m \in Typed => m + 1 \in Typed BY <1>7, DaysInBounds
<1>9. 0 \in Typed BY <1>6
<1> HIDE DEF Typed
<1>10. Nat \subseteq Typed BY <1>8, <1>9, Induction
<1>11. QED BY <1>6, <1>7, <1>10 DEF Typed

\* No month has fewer than 28 days.
LEMMA DaysBeforeGrows ==
    ASSUME NEW m \in Nat
    PROVE  \A k \in Nat : DaysBefore[m] + 28 * k <= DaysBefore[m + k]
<1> DEFINE Grows == {k \in Nat : DaysBefore[m] + 28 * k <= DaysBefore[m + k]}
<1>1. 0 \in Grows BY DaysBeforeIs
<1>2. ASSUME NEW k \in Nat, k \in Grows PROVE k + 1 \in Grows
  <2>1. m + k \in Nat /\ m + k + 1 = m + (k + 1) OBVIOUS
  <2>2. DaysBefore[m + (k + 1)] = DaysBefore[m + k] + DaysIn(m + k)
    BY <2>1, DaysBeforeIs
  <2>3. DaysIn(m + k) \in 28..31 BY <2>1, DaysInBounds
  <2>4. /\ DaysBefore[m] \in Nat /\ DaysBefore[m + k] \in Nat
        /\ DaysBefore[m] + 28 * k <= DaysBefore[m + k]
    BY <1>2, <2>1, DaysBeforeIs
  <2>5. DaysBefore[m] + 28 * (k + 1) <= DaysBefore[m + (k + 1)]
    BY <2>2, <2>3, <2>4
  <2>6. QED BY <2>5
<1> HIDE DEF Grows
<1>3. Nat \subseteq Grows BY <1>1, <1>2, Induction
<1>4. QED BY <1>3 DEF Grows

LEMMA MonthsAreLong ==
    \A m \in Nat : 28 * m <= DaysBefore[m]
<1> TAKE m \in Nat
<1>1. DaysBefore[0] + 28 * m <= DaysBefore[0 + m] BY DaysBeforeGrows
<1>2. QED BY <1>1, DaysBeforeIs

LEMMA MonthsInOrder ==
    ASSUME NEW m \in Nat, NEW n \in Nat, m <= n
    PROVE  DaysBefore[m] <= DaysBefore[n]
<1>1. n - m \in Nat /\ m + (n - m) = n OBVIOUS
<1>2. DaysBefore[m] + 28 * (n - m) <= DaysBefore[n] BY <1>1, DaysBeforeGrows
<1>3. DaysBefore[m] \in Nat /\ DaysBefore[n] \in Nat BY DaysBeforeIs
<1>4. QED BY <1>1, <1>2, <1>3

\* Instant c is in month m; every instant is in one month only.
InMonth(c, m) ==
    /\ m \in Nat
    /\ DaysBefore[m] <= c \div 2
    /\ c \div 2 < DaysBefore[m + 1]

LEMMA InOneMonth ==
    ASSUME NEW c \in Nat, NEW d \in Nat, c <= d,
           NEW m, NEW n, InMonth(c, m), InMonth(d, n)
    PROVE  m <= n
<1>1. c \div 2 <= d \div 2 /\ c \div 2 \in Nat /\ d \div 2 \in Nat OBVIOUS
<1>2. SUFFICES ASSUME n + 1 <= m PROVE FALSE BY DEF InMonth
<1>3. n + 1 \in Nat /\ m \in Nat BY DEF InMonth
<1>4. DaysBefore[n + 1] <= DaysBefore[m] BY <1>2, <1>3, MonthsInOrder
<1>5. DaysBefore[n + 1] \in Nat /\ DaysBefore[m] \in Nat BY <1>3, DaysBeforeIs
<1>6. QED BY <1>1, <1>4, <1>5 DEF InMonth

LEMMA MonthOfIs ==
    ASSUME NEW c \in Nat PROVE InMonth(c, MonthOf(c))
<1> DEFINE d == c \div 2
           Past == {m \in Nat : d < DaysBefore[m]}
<1>1. d \in Nat OBVIOUS
<1> HIDE DEF d
<1>2. 28 * (d + 1) <= DaysBefore[d + 1] BY <1>1, MonthsAreLong
<1>3. d + 1 \in Past
  <2>1. DaysBefore[d + 1] \in Nat BY <1>1, DaysBeforeIs
  <2>2. QED BY <1>1, <1>2, <2>1
<1>4. PICK n \in Past : \A m \in Past : n <= m
  <2>1. Past \subseteq Nat /\ Past # {} BY <1>3
  <2> HIDE DEF Past
  <2>2. QED BY <2>1, LeastNat
<1> DEFINE m == n - 1
<1>5. n # 0 BY <1>1, <1>4, DaysBeforeIs
<1>6. m \in Nat /\ m + 1 = n /\ ~(n <= m) BY <1>4, <1>5
<1>7. m \notin Past BY <1>4, <1>6
<1>8. DaysBefore[m] <= d /\ d < DaysBefore[m + 1]
  BY <1>1, <1>4, <1>6, <1>7, DaysBeforeIs
<1> HIDE DEF m
<1>9. m \in 0..(c \div 56)
  <2>1. 28 * m <= DaysBefore[m] BY <1>6, MonthsAreLong
  <2>2. DaysBefore[m] \in Nat BY <1>6, DaysBeforeIs
  <2>3. 28 * m <= d BY <1>1, <1>6, <1>8, <2>1, <2>2
  <2>4. 56 * m <= c BY <2>3, <1>6 DEF d
  <2>5. m <= c \div 56 BY <2>4, <1>6
  <2>6. QED BY <2>5, <1>6
<1>10. \E k \in 0..(c \div 56) : DaysBefore[k] <= c \div 2 /\ c \div 2 < DaysBefore[k + 1]
  BY <1>8, <1>9 DEF d
<1>11. /\ MonthOf(c) \in 0..(c \div 56)
       /\ DaysBefore[MonthOf(c)] <= c \div 2 /\ c \div 2 < DaysBefore[MonthOf(c) + 1]
  BY <1>10 DEF MonthOf
<1>12. MonthOf(c) \in Nat BY <1>11
<1>13. QED BY <1>11, <1>12 DEF InMonth

LEMMA MonthIs ==
    ASSUME NEW c \in Nat, NEW m, InMonth(c, m) PROVE MonthOf(c) = m
<1>1. InMonth(c, MonthOf(c)) BY MonthOfIs
<1>2. MonthOf(c) <= m /\ m <= MonthOf(c) BY <1>1, InOneMonth
<1>3. MonthOf(c) \in Nat /\ m \in Nat BY <1>1 DEF InMonth
<1>4. QED BY <1>2, <1>3

LEMMA MonthsPass ==
    ASSUME NEW c \in Nat, NEW d \in Nat, c <= d
    PROVE  MonthOf(c) \in Nat /\ MonthOf(d) \in Nat /\ MonthOf(c) <= MonthOf(d)
<1>1. InMonth(c, MonthOf(c)) /\ InMonth(d, MonthOf(d)) BY MonthOfIs
<1>2. QED BY <1>1, InOneMonth DEF InMonth

Midnight == {c \in Nat : c % 2 = 0}

LEMMA UTCIs ==
    ASSUME NEW m \in Nat, NEW day \in Nat, 1 <= day
    PROVE  /\ UTC(m, day) \in Midnight
           /\ UTC(m, day) \div 2 = DaysBefore[m] + day - 1
<1> DEFINE d == DaysBefore[m] + day - 1
<1>1. DaysBefore[m] \in Nat BY DaysBeforeIs
<1>2. d \in Nat BY <1>1
<1>3. UTC(m, day) = 2 * d BY DEF UTC
<1> HIDE DEF d
<1>4. 2 * d \in Nat /\ (2 * d) % 2 = 0 /\ (2 * d) \div 2 = d BY <1>2
<1>5. QED BY <1>3, <1>4 DEF Midnight, d

\* setUTCMonth takes a midnight on by the days of its month, into a later month.
LEMMA MonthLaterIs ==
    ASSUME NEW c \in Midnight
    PROVE  /\ MonthLater(c) \in Midnight
           /\ MonthLater(c) = c + 2 * DaysIn(MonthOf(c))
           /\ MonthOf(c) < MonthOf(MonthLater(c))
<1> DEFINE m == MonthOf(c)
<1>1. c \in Nat /\ c % 2 = 0 BY DEF Midnight
<1>2. InMonth(c, m) BY <1>1, MonthOfIs
<1>3. m \in Nat /\ m + 1 \in Nat BY <1>2 DEF InMonth
<1> DEFINE day == (c \div 2) - DaysBefore[m] + 1
<1>4. day \in Nat /\ 1 <= day
  BY <1>1, <1>2, <1>3, DaysBeforeIs DEF InMonth
<1>5. DayOf(c) = day BY DEF DayOf
<1>6. DaysBefore[m] \in Nat /\ DaysBefore[m + 1] = DaysBefore[m] + DaysIn(m)
      /\ DaysIn(m) \in 28..31
  BY <1>3, DaysBeforeIs, DaysInBounds
<1>7. MonthLater(c) = UTC(m + 1, day) BY <1>5 DEF MonthLater
<1>8. c = 2 * (c \div 2) /\ c \div 2 \in Nat BY <1>1
<1>9. MonthLater(c) = c + 2 * DaysIn(m)
  BY <1>6, <1>7, <1>8 DEF UTC
<1> HIDE DEF day
<1>10. MonthLater(c) \in Midnight /\ MonthLater(c) \div 2 = DaysBefore[m + 1] + day - 1
  BY <1>3, <1>4, <1>7, UTCIs
<1>11. m < MonthOf(MonthLater(c))
  <2> DEFINE later == MonthLater(c)
  <2>1. InMonth(later, MonthOf(later)) BY <1>10, MonthOfIs DEF Midnight
  <2> DEFINE n == MonthOf(later)
  <2>2. n \in Nat /\ later \div 2 < DaysBefore[n + 1] BY <2>1 DEF InMonth
  <2>3. DaysBefore[m + 1] <= later \div 2 BY <1>3, <1>4, <1>10, DaysBeforeIs
  <2> HIDE DEF n
  <2>4. SUFFICES ASSUME n + 1 <= m + 1 PROVE FALSE BY <1>3, <2>2 DEF n
  <2>5. DaysBefore[n + 1] <= DaysBefore[m + 1] BY <1>3, <2>2, <2>4, MonthsInOrder
  <2>6. DaysBefore[n + 1] \in Nat /\ DaysBefore[m + 1] \in Nat
    BY <1>3, <2>2, DaysBeforeIs
  <2> HIDE DEF later
  <2>7. later \div 2 \in Nat BY <1>10 DEF later, Midnight
  <2>8. QED BY <2>2, <2>3, <2>5, <2>6, <2>7
<1>12. QED BY <1>9, <1>10, <1>11

-----------------------------------------------------------------------------
(* The schedule.                                                           *)

\* Rolled over or not, the first due day is in the first 31 days of the term.
LEMMA FirstDueIs ==
    ASSUME NEW t \in Term
    PROVE  /\ FirstDue(t) \in Midnight
           /\ t.start <= FirstDue(t) /\ FirstDue(t) <= t.start + 62
<1> DEFINE m == MonthOf(t.start)
           c == UTC(m, t.dueDay)
<1>1. t.start \in Nat /\ t.dueDay \in 1..31 BY DEF Term, Instant
<1>2. InMonth(t.start, m) BY <1>1, MonthOfIs
<1>3. m \in Nat BY <1>2 DEF InMonth
<1>4. c \in Midnight /\ c \div 2 = DaysBefore[m] + t.dueDay - 1
  BY <1>1, <1>3, UTCIs
<1>5. DaysBefore[m] \in Nat /\ DaysBefore[m + 1] = DaysBefore[m] + DaysIn(m)
  BY <1>3, DaysBeforeIs
<1>6. c \in Nat /\ c = 2 * (c \div 2) BY <1>4 DEF Midnight
<1>7. FirstDue(t) = IF c < t.start THEN MonthLater(c) ELSE c BY DEF FirstDue
<1>8. CASE c < t.start
  <2>1. InMonth(c, m)
    <3>1. c \div 2 <= t.start \div 2 BY <1>1, <1>6, <1>8
    <3>2. DaysBefore[m] <= c \div 2 BY <1>1, <1>4, <1>5
    <3>3. DaysBefore[m + 1] \in Nat /\ c \div 2 \in Nat /\ t.start \div 2 \in Nat
      BY <1>1, <1>3, <1>6, DaysBeforeIs
    <3>4. t.start \div 2 < DaysBefore[m + 1] BY <1>2 DEF InMonth
    <3>5. c \div 2 < DaysBefore[m + 1] BY <3>1, <3>3, <3>4
    <3>6. QED BY <1>3, <3>2, <3>5 DEF InMonth
  <2>2. MonthOf(c) = m BY <1>6, <2>1, MonthIs
  <2>3. MonthLater(c) \in Midnight /\ MonthLater(c) = c + 2 * DaysIn(m)
    BY <1>4, <2>2, MonthLaterIs
  <2>4. DaysIn(m) \in 28..31 BY <1>3, DaysInBounds
  <2>5. t.start \div 2 < DaysBefore[m] + DaysIn(m) BY <1>2, <1>5 DEF InMonth
  <2>6. t.start <= 2 * (t.start \div 2) + 1 BY <1>1
  <2>7. c \div 2 = DaysBefore[m] + t.dueDay - 1 BY <1>4
  <2> HIDE DEF m, c
  <2>8. t.start <= MonthLater(c)
    BY <1>1, <1>5, <1>6, <2>3, <2>4, <2>5, <2>6, <2>7
  <2>9. MonthLater(c) <= t.start + 62 BY <1>1, <1>6, <1>8, <2>3, <2>4
  <2>10. QED BY <1>7, <1>8, <2>3, <2>8, <2>9
<1>9. CASE ~(c < t.start)
  <2>1. DaysBefore[m] <= t.start \div 2 BY <1>2 DEF InMonth
  <2>2. 2 * (t.start \div 2) <= t.start BY <1>1
  <2>3. c \div 2 = DaysBefore[m] + t.dueDay - 1 BY <1>4
  <2> HIDE DEF m, c
  <2>4. c <= t.start + 62 BY <1>1, <1>5, <1>6, <2>1, <2>2, <2>3
  <2>5. t.start <= c BY <1>1, <1>6, <1>9
  <2>6. QED BY <1>4, <1>7, <1>9, <2>4, <2>5
<1>10. QED BY <1>8, <1>9

\* The cursor is what the rounds before made of it.
LEMMA CursorIs ==
    ASSUME NEW t \in Term
    PROVE  /\ Cursor(t)[0] = FirstDue(t)
           /\ \A n \in Nat : /\ Cursor(t)[n] \in Midnight
                             /\ Cursor(t)[n + 1] = MonthLater(Cursor(t)[n])
<1> DEFINE g == [n \in Nat |-> [c \in Midnight |-> MonthLater(c)]]
<1>1. g \in [Nat -> [Midnight -> Midnight]] BY MonthLaterIs
<1>2. FirstDue(t) \in Midnight BY FirstDueIs
<1>3. PICK f : Recurs(f, Midnight, FirstDue(t), g)
  <2> HIDE DEF g
  <2>1. QED BY <1>1, <1>2, Recursion
<1>4. \A n \in Nat : n # 0 => f[n] = MonthLater(f[n - 1])
  <2> TAKE n \in Nat
  <2> HAVE n # 0
  <2>1. n - 1 \in Nat /\ n - 1 + 1 = n OBVIOUS
  <2>2. f[n - 1] \in Midnight /\ f[n] = g[n - 1][f[n - 1]] BY <1>3, <2>1 DEF Recurs
  <2>3. QED BY <2>1, <2>2
<1>5. f = [n \in Nat |-> IF n = 0 THEN FirstDue(t) ELSE MonthLater(f[n - 1])]
  <2> HIDE DEF g
  <2> QED BY <1>3, <1>4 DEF Recurs
<1> HIDE DEF g
<1> DEFINE at == Cursor(t)
<1>6. at = [n \in Nat |-> IF n = 0 THEN FirstDue(t) ELSE MonthLater(at[n - 1])]
  BY <1>5 DEF Cursor
<1> HIDE DEF at
<1>7. at[0] = FirstDue(t) BY <1>6
<1>8. \A n \in Nat : at[n + 1] = MonthLater(at[n])
  <2> TAKE n \in Nat
  <2>1. n + 1 \in Nat /\ n + 1 # 0 /\ n + 1 - 1 = n OBVIOUS
  <2>2. QED BY <2>1, <1>6
<1> DEFINE Typed == {n \in Nat : at[n] \in Midnight}
<1>9. 0 \in Typed BY <1>2, <1>7
<1>10. \A n \in Nat : n \in Typed => n + 1 \in Typed BY <1>8, MonthLaterIs
<1> HIDE DEF Typed
<1>11. Nat \subseteq Typed BY <1>9, <1>10, Induction
<1>12. QED BY <1>7, <1>8, <1>11 DEF Typed, at

\* A round takes the cursor on by a month, 28 to 31 days, into a later month.
LEMMA RoundStep ==
    ASSUME NEW t \in Term, NEW n \in Nat
    PROVE  /\ Cursor(t)[n] \in Nat /\ Cursor(t)[n + 1] \in Nat
           /\ Cursor(t)[n] + 56 <= Cursor(t)[n + 1]
           /\ Cursor(t)[n + 1] <= Cursor(t)[n] + 62
           /\ MonthOf(Cursor(t)[n]) < MonthOf(Cursor(t)[n + 1])
<1> DEFINE c == Cursor(t)[n]
<1>1. c \in Midnight /\ Cursor(t)[n + 1] = MonthLater(c) BY CursorIs
<1> HIDE DEF c
<1>2. /\ MonthLater(c) \in Midnight /\ MonthLater(c) = c + 2 * DaysIn(MonthOf(c))
      /\ MonthOf(c) < MonthOf(MonthLater(c))
  BY <1>1, MonthLaterIs
<1>3. c \in Nat /\ MonthLater(c) \in Nat BY <1>1, <1>2 DEF Midnight
<1>4. MonthOf(c) \in Nat BY <1>3, MonthOfIs DEF InMonth
<1>5. DaysIn(MonthOf(c)) \in 28..31 BY <1>4, DaysInBounds
<1>6. c + 56 <= MonthLater(c) /\ MonthLater(c) <= c + 62 BY <1>2, <1>3, <1>5
<1>7. QED BY <1>1, <1>2, <1>3, <1>6 DEF c

LEMMA RoundsGrow ==
    ASSUME NEW t \in Term, NEW n \in Nat
    PROVE  \A k \in Nat : Cursor(t)[n] + 56 * k <= Cursor(t)[n + k]
<1> DEFINE Grows == {k \in Nat : Cursor(t)[n] + 56 * k <= Cursor(t)[n + k]}
<1>1. 0 \in Grows BY RoundStep
<1>2. ASSUME NEW k \in Nat, k \in Grows PROVE k + 1 \in Grows
  <2>1. n + k \in Nat /\ n + k + 1 = n + (k + 1) OBVIOUS
  <2>2. /\ Cursor(t)[n] \in Nat /\ Cursor(t)[n + k] \in Nat
        /\ Cursor(t)[n + (k + 1)] \in Nat
        /\ Cursor(t)[n + k] + 56 <= Cursor(t)[n + (k + 1)]
    BY <2>1, RoundStep
  <2>3. Cursor(t)[n] + 56 * k <= Cursor(t)[n + k] BY <1>2
  <2>4. Cursor(t)[n] + 56 * (k + 1) <= Cursor(t)[n + (k + 1)] BY <2>2, <2>3
  <2>5. QED BY <2>4
<1> HIDE DEF Grows
<1>3. Nat \subseteq Grows BY <1>1, <1>2, Induction
<1>4. QED BY <1>3 DEF Grows

LEMMA RoundsInOrder ==
    ASSUME NEW t \in Term, NEW m \in Nat, NEW n \in Nat, m <= n
    PROVE  Cursor(t)[m] <= Cursor(t)[n]
<1>1. n - m \in Nat /\ m + (n - m) = n OBVIOUS
<1>2. Cursor(t)[m] + 56 * (n - m) <= Cursor(t)[n] BY <1>1, RoundsGrow
<1>3. Cursor(t)[m] \in Nat /\ Cursor(t)[n] \in Nat BY RoundStep
<1>4. QED BY <1>1, <1>2, <1>3

\* The loop ends, within the bound Rounds looks in, with the first cursor past
\* the end of the term.
LEMMA RoundsIs ==
    ASSUME NEW t \in Term
    PROVE  /\ Rounds(t) \in Nat
           /\ t.end < Cursor(t)[Rounds(t)]
           /\ \A n \in 1..Rounds(t) : Cursor(t)[n - 1] <= t.end
<1> DEFINE Past == {n \in Nat : t.end < Cursor(t)[n]}
<1>1. t.end \in Nat BY DEF Term, Instant
<1>2. \A n \in Nat : Cursor(t)[n] \in Nat /\ 56 * n <= Cursor(t)[n]
  <2> TAKE n \in Nat
  <2>1. Cursor(t)[0] \in Nat /\ Cursor(t)[n] \in Nat BY RoundStep
  <2>2. Cursor(t)[0] + 56 * n <= Cursor(t)[0 + n] BY RoundsGrow
  <2>3. QED BY <2>1, <2>2
<1>3. t.end + 1 \in Past
  <2>1. t.end + 1 \in Nat BY <1>1
  <2>2. Cursor(t)[t.end + 1] \in Nat /\ 56 * (t.end + 1) <= Cursor(t)[t.end + 1]
    BY <1>2, <2>1
  <2>3. QED BY <1>1, <2>2
<1>4. PICK n \in Past : \A m \in Past : n <= m
  <2>1. Past \subseteq Nat /\ Past # {} BY <1>3
  <2> HIDE DEF Past
  <2>2. QED BY <2>1, LeastNat
<1>5. n \in Nat /\ t.end < Cursor(t)[n] BY <1>4
<1>6. \A k \in 1..n : Cursor(t)[k - 1] <= t.end
  <2> TAKE k \in 1..n
  <2>1. k - 1 \in Nat /\ ~(n <= k - 1) BY <1>5
  <2>2. k - 1 \notin Past BY <1>4, <2>1
  <2>3. QED BY <1>1, <1>2, <2>1, <2>2
<1> HIDE DEF Past
<1>7. n \in 0..(t.end \div Days(28) + 1)
  <2>1. CASE n = 0 BY <1>1, <2>1 DEF Days
  <2>2. CASE n # 0
    <3>1. n - 1 \in Nat /\ n \in 1..n BY <1>5, <2>2
    <3>2. 56 * (n - 1) <= Cursor(t)[n - 1] BY <1>2, <3>1
    <3>3. Cursor(t)[n - 1] <= t.end BY <1>6, <3>1
    <3>4. Cursor(t)[n - 1] \in Nat BY <1>2, <3>1
    <3>5. 56 * (n - 1) <= t.end BY <1>1, <3>1, <3>2, <3>3, <3>4
    <3>6. n - 1 <= t.end \div 56 BY <1>1, <3>1, <3>5
    <3>7. t.end \div 56 \in Nat BY <1>1
    <3>8. Days(28) = 56 BY DEF Days
    <3>9. QED BY <1>5, <3>6, <3>7, <3>8
  <2>3. QED BY <2>1, <2>2
<1> DEFINE All == 0..(t.end \div Days(28) + 1)
<1>8. Rounds(t) \in All /\ t.end < Cursor(t)[Rounds(t)]
      /\ \A k \in 1..Rounds(t) : Cursor(t)[k - 1] <= t.end
  <2>1. Rounds(t) = CHOOSE k \in All : /\ t.end < Cursor(t)[k]
                                     /\ \A i \in 1..k : Cursor(t)[i - 1] <= t.end
    BY DEF Rounds
  <2>2. n \in All BY <1>7
  <2> HIDE DEF All
  <2>3. QED BY <1>5, <1>6, <2>1, <2>2
<1>9. QED BY <1>8

\* A day every month has is that day of the next month a round later.
LEMMA DueDayOfMonth ==
    ASSUME NEW m \in Nat, NEW day \in 1..28
    PROVE  /\ UTC(m, day) \in Nat /\ MonthOf(UTC(m, day)) = m
           /\ MonthLater(UTC(m, day)) = UTC(m + 1, day)
<1> DEFINE c == UTC(m, day)
<1>1. c \in Midnight /\ c \div 2 = DaysBefore[m] + day - 1 BY UTCIs
<1>2. /\ DaysBefore[m] \in Nat /\ DaysIn(m) \in 28..31
      /\ DaysBefore[m + 1] = DaysBefore[m] + DaysIn(m)
  BY DaysBeforeIs, DaysInBounds
<1>3. c \in Nat BY <1>1 DEF Midnight
<1>4. InMonth(c, m) BY <1>1, <1>2 DEF InMonth
<1>5. MonthOf(c) = m BY <1>3, <1>4, MonthIs
<1>6. MonthLater(c) = c + 2 * DaysIn(m) BY <1>1, <1>5, MonthLaterIs
<1>7. c + 2 * DaysIn(m) = UTC(m + 1, day) BY <1>2 DEF UTC
<1>8. QED BY <1>3, <1>5, <1>6, <1>7

\* On a day every month has, each round is at that day of the next month.
LEMMA EveryMonthHasItsRound ==
    ASSUME NEW t \in Term, t.dueDay <= 28
    PROVE  \E m \in Nat :
              /\ m >= MonthOf(t.start)
              /\ \A n \in Nat : Cursor(t)[n] = UTC(m + n, t.dueDay)
              /\ \A k \in Nat : k >= MonthOf(t.start) /\ k < m => UTC(k, t.dueDay) < t.start
<1> DEFINE first == MonthOf(t.start)
           day == t.dueDay
<1>1. t.start \in Nat /\ day \in 1..28 BY DEF Term, Instant
<1>2. first \in Nat BY <1>1, MonthOfIs DEF InMonth
<1> HIDE DEF first, day
<1>3. \A k \in Nat : UTC(k, day) \in Nat /\ MonthOf(UTC(k, day)) = k
                     /\ MonthLater(UTC(k, day)) = UTC(k + 1, day)
  BY <1>1, DueDayOfMonth
<1>4. PICK m \in Nat : /\ m >= first /\ FirstDue(t) = UTC(m, day)
                       /\ \A k \in Nat : k >= first /\ k < m => UTC(k, day) < t.start
  <2>1. FirstDue(t) = IF UTC(first, day) < t.start THEN MonthLater(UTC(first, day))
                      ELSE UTC(first, day)
    BY DEF FirstDue, first, day
  <2>2. CASE UTC(first, day) < t.start
    <3>1. first + 1 \in Nat /\ FirstDue(t) = UTC(first + 1, day) BY <1>2, <1>3, <2>1, <2>2
    <3>2. \A k \in Nat : k >= first /\ k < first + 1 => k = first BY <1>2
    <3>3. QED BY <1>2, <2>2, <3>1, <3>2
  <2>3. CASE ~(UTC(first, day) < t.start)
    <3>1. FirstDue(t) = UTC(first, day) BY <2>1, <2>3
    <3>2. \A k \in Nat : ~(k >= first /\ k < first) BY <1>2
    <3>3. QED BY <1>2, <3>1, <3>2
  <2>4. QED BY <2>2, <2>3
<1> DEFINE OnDay == {n \in Nat : Cursor(t)[n] = UTC(m + n, day)}
<1>5. 0 \in OnDay BY <1>4, CursorIs
<1>6. ASSUME NEW n \in Nat, n \in OnDay PROVE n + 1 \in OnDay
  <2>1. m + n \in Nat /\ m + n + 1 = m + (n + 1) OBVIOUS
  <2>2. Cursor(t)[n + 1] = MonthLater(UTC(m + n, day)) BY <1>6, CursorIs
  <2>3. Cursor(t)[n + 1] = UTC(m + (n + 1), day) BY <1>3, <2>1, <2>2
  <2>4. QED BY <2>3
<1> HIDE DEF OnDay
<1>7. Nat \subseteq OnDay BY <1>5, <1>6, Induction
<1>8. QED BY <1>4, <1>7 DEF OnDay, first, day

\* Then the loop meets every due day in the term.
LEMMA DueDaysAreRounds ==
    ASSUME NEW t \in Term, t.dueDay <= 28
    PROVE  {Cursor(t)[i - 1] : i \in 1..Rounds(t)} = DueDays(t)
<1> DEFINE day == t.dueDay
           months == MonthOf(t.start)..MonthOf(t.end)
<1>1. /\ t.start \in Nat /\ t.end \in Nat /\ t.start <= t.end /\ day \in 1..28
      /\ MonthOf(t.start) \in Nat /\ MonthOf(t.end) \in Nat
  BY MonthsPass DEF Term, Instant
<1>2. PICK m \in Nat :
         /\ m >= MonthOf(t.start)
         /\ \A n \in Nat : Cursor(t)[n] = UTC(m + n, day)
         /\ \A k \in Nat : k >= MonthOf(t.start) /\ k < m => UTC(k, day) < t.start
  BY EveryMonthHasItsRound
<1>3. \A k \in Nat : UTC(k, day) \in Nat /\ MonthOf(UTC(k, day)) = k
  BY <1>1, DueDayOfMonth
<1>4. /\ Rounds(t) \in Nat /\ t.end < Cursor(t)[Rounds(t)]
      /\ \A i \in 1..Rounds(t) : Cursor(t)[i - 1] <= t.end
  BY RoundsIs
<1> HIDE DEF day
<1>5. ASSUME NEW i \in 1..Rounds(t) PROVE Cursor(t)[i - 1] \in DueDays(t)
  <2> DEFINE k == m + (i - 1)
  <2>1. i - 1 \in Nat /\ k \in Nat /\ k >= MonthOf(t.start) BY <1>1, <1>2, <1>4
  <2>2. Cursor(t)[i - 1] = UTC(k, day) BY <1>2, <2>1
  <2>3. UTC(k, day) \in Nat /\ MonthOf(UTC(k, day)) = k BY <1>3, <2>1
  <2> HIDE DEF k
  <2>4. UTC(k, day) <= t.end BY <1>4, <2>2
  <2>5. k <= MonthOf(t.end) BY <1>1, <2>3, <2>4, MonthsPass
  <2>6. k \in months BY <1>1, <2>1, <2>5
  <2>7. t.start <= UTC(k, day)
    <3>1. t.start <= Cursor(t)[0] BY FirstDueIs, CursorIs
    <3>2. Cursor(t)[0] <= Cursor(t)[i - 1] BY <2>1, RoundsInOrder
    <3>3. Cursor(t)[0] \in Nat BY RoundStep
    <3>4. QED BY <1>1, <2>2, <2>3, <3>1, <3>2, <3>3
  <2>8. QED BY <2>2, <2>4, <2>6, <2>7 DEF DueDays, day
<1>6. ASSUME NEW d \in DueDays(t) PROVE \E i \in 1..Rounds(t) : d = Cursor(t)[i - 1]
  <2>1. PICK k \in months : d = UTC(k, day) BY DEF DueDays, day
  <2>2. t.start <= d /\ d <= t.end BY DEF DueDays
  <2>3. k \in Nat /\ k >= MonthOf(t.start) BY <1>1
  <2>4. UTC(k, day) \in Nat BY <1>3, <2>3
  <2>5. k >= m BY <1>1, <1>2, <2>1, <2>2, <2>3, <2>4
  <2>6. k - m \in Nat /\ m + (k - m) = k BY <2>3, <2>5
  <2>7. d = Cursor(t)[k - m] BY <1>2, <2>1, <2>6
  <2>8. k - m < Rounds(t)
    <3>1. SUFFICES ASSUME Rounds(t) <= k - m PROVE FALSE BY <1>4, <2>6
    <3>2. Cursor(t)[Rounds(t)] <= Cursor(t)[k - m] BY <1>4, <2>6, <3>1, RoundsInOrder
    <3>3. Cursor(t)[Rounds(t)] \in Nat /\ Cursor(t)[k - m] \in Nat
      BY <1>4, <2>6, RoundStep
    <3>4. QED BY <1>1, <1>4, <2>2, <2>7, <3>2, <3>3
  <2>9. k - m + 1 \in 1..Rounds(t) /\ (k - m + 1) - 1 = k - m BY <1>4, <2>6, <2>8
  <2>10. QED BY <2>7, <2>9
<1>7. QED BY <1>5, <1>6

\* Whatever the terms, rent falls due inside them, never twice in a month, no 31 days
\* go by without it, and on the due day itself when every month has that day
\* (generatePaymentSchedule, its two roll-overs included).
THEOREM EveryTermIsBilledThroughout == \A t \in Term : BilledThroughout(t)
<1> TAKE t \in Term
<1> DEFINE n == Rounds(t)
           due(i) == Rents(t)[i].due
<1>1. t.start \in Nat /\ t.end \in Nat /\ t.start < t.end /\ t.dueDay \in 1..31
  BY DEF Term, Instant
<1>2. /\ n \in Nat /\ t.end < Cursor(t)[n]
      /\ \A i \in 1..n : Cursor(t)[i - 1] <= t.end
  BY RoundsIs
<1> HIDE DEF n
<1>3. /\ Len(Rents(t)) = n
      /\ \A i \in 1..n : due(i) = Cursor(t)[i - 1]
  BY <1>2 DEF Rents, n
<1> HIDE DEF due
<1>4. t.start <= Cursor(t)[0] /\ Cursor(t)[0] <= t.start + 62 /\ Cursor(t)[0] \in Nat
  BY FirstDueIs, CursorIs, RoundStep
<1>5. \A i \in 1..n : t.start <= due(i) /\ due(i) <= t.end
  <2> TAKE i \in 1..n
  <2>1. i - 1 \in Nat BY <1>2
  <2>2. Cursor(t)[0] <= Cursor(t)[i - 1] BY <2>1, RoundsInOrder
  <2>3. Cursor(t)[i - 1] \in Nat BY <2>1, RoundStep
  <2>4. QED BY <1>1, <1>2, <1>3, <1>4, <2>2, <2>3
<1>6. \A i \in 1..(n - 1) :
         /\ due(i) < due(i + 1) /\ due(i + 1) <= due(i) + Days(31)
         /\ MonthOf(due(i)) < MonthOf(due(i + 1))
  <2> TAKE i \in 1..(n - 1)
  <2>1. i - 1 \in Nat /\ i \in 1..n /\ i + 1 \in 1..n /\ i + 1 - 1 = (i - 1) + 1
    BY <1>2
  <2>2. due(i) = Cursor(t)[i - 1] /\ due(i + 1) = Cursor(t)[(i - 1) + 1] BY <1>3, <2>1
  <2>3. QED BY <2>1, <2>2, RoundStep DEF Days
<1>7. t.end < (IF n = 0 THEN t.start ELSE due(n)) + Days(31)
  <2>1. CASE n = 0 BY <1>1, <1>2, <1>4, <2>1 DEF Days
  <2>2. CASE n # 0
    <3>1. n - 1 \in Nat /\ n \in 1..n /\ n - 1 + 1 = n BY <1>2, <2>2
    <3>2. /\ Cursor(t)[n] <= Cursor(t)[n - 1] + 62
          /\ Cursor(t)[n] \in Nat /\ Cursor(t)[n - 1] \in Nat
      BY <3>1, RoundStep
    <3>3. QED BY <1>1, <1>2, <1>3, <2>2, <3>1, <3>2 DEF Days
  <2>3. QED BY <2>1, <2>2
<1>8. n > 0 => due(1) <= t.start + Days(31) BY <1>2, <1>3, <1>4 DEF Days
<1>9. t.dueDay <= 28 => {due(i) : i \in 1..n} = DueDays(t)
  <2>1. {due(i) : i \in 1..n} = {Cursor(t)[i - 1] : i \in 1..n} BY <1>3
  <2>2. QED BY <2>1, DueDaysAreRounds DEF n
<1>10. QED BY <1>3, <1>5, <1>6, <1>7, <1>8, <1>9 DEF BilledThroughout, due

\* There is no instalment only in short terms without a deposit.
LEMMA NothingToBill ==
    ASSUME NEW t \in Term, Instalments(t) = <<>>
    PROVE  Short(t) /\ t.deposit = 0
<1>1. Rounds(t) \in Nat /\ BilledThroughout(t) BY RoundsIs, EveryTermIsBilledThroughout
<1>2. Len(Rents(t)) = Rounds(t) BY <1>1 DEF Rents
<1>3. t.deposit \in Nat BY DEF Term
<1>4. Deposit(t) = <<>> /\ Rents(t) = <<>>
  BY <1>1 DEF Instalments, Deposit, Rents
<1>5. t.deposit = 0 BY <1>3, <1>4 DEF Deposit
<1>6. Short(t) BY <1>1, <1>2, <1>4 DEF BilledThroughout, Short
<1>7. QED BY <1>5, <1>6

-----------------------------------------------------------------------------
(* The inductive invariant.                                                *)

\* What a request knows of its lease, in these rows.
Knows(rows, r) ==
    LET lease == rows[r.lease]
    IN  /\ r.terms \in Terms
        /\ r.counterparty => Counterparty(r.party) \in lease.signed
        /\ ~r.counterparty /\ "signature" \notin r.since =>
               Counterparty(r.party) \notin lease.signed
        /\ "edit" \notin r.since => r.terms = lease.terms

There(rows, l) == rows[l].status \notin {"none", "deleted"}

RequestInv(rows, r) == r.at # "idle" =>
    /\ r.lease \in Lease
    /\ rows[r.lease].status # "none"
    /\ r.at = "selected" /\ There(rows, r.lease) => Knows(rows, r)

\* A lease, its generated schedule, whether payments were added and what its
\* signatures missed.
LeaseInv(lease, bill, added, gone) ==
    /\ bill = <<>> \/ \E t \in Terms : bill = <<t>>
    /\ lease.status = "active" => lease.signed = Party
    /\ lease.signed = Party /\ lease.status \in EDITABLE_STATUSES => "signature" \in gone
    /\ gone = {} /\ bill # <<>> => bill = <<lease.terms>> /\ lease.signed = Party
    /\ gone = {} /\ bill = <<>> /\ lease.status = "active" =>
           added \/ Instalments(lease.terms) = <<>>

LeasesInv ==
    /\ TypeOK
    /\ \A h \in Request : RequestInv(row, signing[h])
    /\ \A l \in Lease : LeaseInv(row[l], generated[l], l \in extra, missed[l])

-----------------------------------------------------------------------------
(* Facts the steps below share.                                            *)

\* What a statement on lease l leaves alone.
LEMMA OthersStay ==
    ASSUME LeasesInv, NEW l \in Lease,
           \A k \in Lease \ {l} :
               /\ row'[k] = row[k] /\ generated'[k] = generated[k]
               /\ (k \in extra') = (k \in extra) /\ missed'[k] = missed[k],
           LeaseInv(row'[l], generated'[l], l \in extra', missed'[l])
    PROVE  \A k \in Lease : LeaseInv(row'[k], generated'[k], k \in extra', missed'[k])
<1> SUFFICES ASSUME NEW k \in Lease
             PROVE  LeaseInv(row'[k], generated'[k], k \in extra', missed'[k])
  OBVIOUS
<1>1. CASE k = l BY <1>1
<1>2. CASE k # l
  <2>1. LeaseInv(row[k], generated[k], k \in extra, missed[k]) BY DEF LeasesInv
  <2>2. QED BY <1>2, <2>1
<1>3. QED BY <1>1, <1>2

\* Writes to other leases change nothing a request knows.
LEMMA KnowsOfItsLease ==
    ASSUME NEW rows, NEW next, NEW r, RequestInv(rows, r),
           r.at # "idle" => next[r.lease] = rows[r.lease]
    PROVE  RequestInv(next, r)
  BY DEF RequestInv, Knows, There

LEMMA MissingType ==
    ASSUME LeasesInv, NEW l \in Lease, NEW k \in Write
    PROVE  /\ Missing(l, k) \in [Request -> Signing]
           /\ \A h \in Request :
                 \/ Missing(l, k)[h] = signing[h]
                    /\ (signing[h].at # "selected" \/ signing[h].lease # l)
                 \/ /\ signing[h].at = "selected" /\ signing[h].lease = l
                    /\ Missing(l, k)[h] = [signing[h] EXCEPT !.since = @ \cup {k}]
  BY DEF LeasesInv, TypeOK, Missing, Signing

-----------------------------------------------------------------------------
(* One lemma per operation.                                                *)

LEMMA DraftStep ==
    ASSUME LeasesInv, Asked, NEW l \in Lease, NEW t \in Terms, Draft(l, t),
           UNCHANGED <<extra, generated, signing, missed>>
    PROVE  LeasesInv'
<1>1. row' = [row EXCEPT ![l] = [status |-> "draft", signed |-> {}, terms |-> t]]
  BY DEF Draft
<1>2. row \in [Lease -> Row] /\ row[l].status = "none" BY DEF Draft, LeasesInv, TypeOK
<1>3. row'[l] = [status |-> "draft", signed |-> {}, terms |-> t] BY <1>1, <1>2
<1>4. \A k \in Lease \ {l} : row'[k] = row[k] BY <1>1, <1>2
<1>5. l \notin extra /\ generated[l] = <<>> /\ row' \in [Lease -> Row]
  BY <1>1, <1>2 DEF LeasesInv, TypeOK, Exists, Row, Status
<1>6. TypeOK'
  <2>1. \A k \in Lease : /\ Exists(k)' <=> row'[k].terms # NoTerms
                         /\ ~Exists(k)' => k \notin extra' /\ generated'[k] = <<>>
    <3> TAKE k \in Lease
    <3>1. CASE k = l
      BY <1>3, <1>5, <3>1, LeasesAssumption DEF Exists
    <3>2. CASE k # l
      BY <1>4, <3>2 DEF LeasesInv, TypeOK, Exists
    <3>3. QED BY <3>1, <3>2
  <2>2. requests' \in 0..MaxRequests
    BY LeasesAssumption DEF LeasesInv, TypeOK, Asked
  <2>3. QED BY <1>5, <2>1, <2>2 DEF LeasesInv, TypeOK
<1>7. \A h \in Request : RequestInv(row', signing'[h])
  <2> TAKE h \in Request
  <2>1. RequestInv(row, signing[h]) BY DEF LeasesInv
  <2>2. signing[h].at # "idle" => row'[signing[h].lease] = row[signing[h].lease]
    BY <2>1, <1>2, <1>4 DEF RequestInv
  <2>3. QED BY <2>1, <2>2, KnowsOfItsLease
<1>8. LeaseInv(row'[l], generated'[l], l \in extra', missed'[l])
  BY <1>3, <1>5 DEF LeaseInv, Party
<1>9. \A k \in Lease : LeaseInv(row'[k], generated'[k], k \in extra', missed'[k])
  BY <1>4, <1>8, OthersStay
<1>10. QED BY <1>6, <1>7, <1>9 DEF LeasesInv

LEMMA EditStep ==
    ASSUME LeasesInv, NEW l \in Lease, NEW t \in Terms, Edit(l, t)
    PROVE  LeasesInv'
<1>1. /\ row[l].status \in EDITABLE_STATUSES
      /\ row' = [row EXCEPT ![l].terms = t] /\ signing' = Missing(l, "edit")
      /\ UNCHANGED <<extra, generated, missed>> /\ Asked
  BY DEF Edit, Editable
<1>2. row \in [Lease -> Row] BY DEF LeasesInv, TypeOK
<1>3. /\ row'[l].status = row[l].status /\ row'[l].signed = row[l].signed
      /\ row'[l].terms = t /\ row' \in [Lease -> Row]
      /\ \A k \in Lease \ {l} : row'[k] = row[k]
  BY <1>1, <1>2 DEF Row
<1>4. signing' \in [Request -> Signing] BY <1>1, MissingType DEF Write
<1>5. TypeOK'
  BY <1>1, <1>3, <1>4, LeasesAssumption
  DEF LeasesInv, TypeOK, Exists, Asked, EDITABLE_STATUSES
<1>6. \A h \in Request : RequestInv(row', signing'[h])
  <2> TAKE h \in Request
  <2>1. RequestInv(row, signing[h]) BY DEF LeasesInv
  <2>2. CASE signing'[h] = signing[h] /\ signing[h].lease # l
    <3>1. QED BY <1>3, <2>1, <2>2, KnowsOfItsLease DEF RequestInv
  <2>3. CASE signing'[h] = signing[h] /\ signing[h].at # "selected"
    BY <1>3, <2>1, <2>3 DEF RequestInv
  <2>4. CASE /\ signing[h].at = "selected" /\ signing[h].lease = l
             /\ signing'[h] = [signing[h] EXCEPT !.since = @ \cup {"edit"}]
    <3>1. signing[h] \in Signing BY DEF LeasesInv, TypeOK
    <3>2. Knows(row, signing[h])
      BY <1>1, <2>1, <2>4 DEF RequestInv, There, EDITABLE_STATUSES
    <3>3. /\ signing'[h].at = "selected" /\ signing'[h].lease = l
          /\ signing'[h].since = signing[h].since \cup {"edit"}
          /\ signing'[h].party = signing[h].party
          /\ signing'[h].counterparty = signing[h].counterparty
          /\ signing'[h].terms = signing[h].terms
      BY <2>4, <3>1 DEF Signing
    <3>4. Knows(row', signing'[h])
      BY <1>3, <2>4, <3>2, <3>3 DEF Knows
    <3>5. QED BY <1>1, <1>3, <3>3, <3>4 DEF RequestInv, EDITABLE_STATUSES
  <2>5. QED BY <1>1, <2>2, <2>3, <2>4, MissingType DEF Write
<1>7. LeaseInv(row'[l], generated'[l], l \in extra', missed'[l])
  <2>1. LeaseInv(row[l], generated[l], l \in extra, missed[l]) BY DEF LeasesInv
  <2>2. QED BY <1>1, <1>3, <2>1 DEF LeaseInv, EDITABLE_STATUSES
<1>8. \A k \in Lease : LeaseInv(row'[k], generated'[k], k \in extra', missed'[k])
  BY <1>1, <1>3, <1>7, OthersStay
<1>9. QED BY <1>5, <1>6, <1>8 DEF LeasesInv

LEMMA DeleteStep ==
    ASSUME LeasesInv, NEW l \in Lease, Delete(l)
    PROVE  LeasesInv'
<1>1. /\ row' = [row EXCEPT ![l] = [NoRow EXCEPT !.status = "deleted"]]
      /\ extra' = extra \ {l} /\ generated' = [generated EXCEPT ![l] = <<>>]
      /\ UNCHANGED <<signing, missed>> /\ Asked
  BY DEF Delete, Cascade
<1>2. row \in [Lease -> Row] /\ generated \in [Lease -> Seq(Terms)]
  BY DEF LeasesInv, TypeOK
<1>3. /\ row'[l] = [status |-> "deleted", signed |-> {}, terms |-> NoTerms]
      /\ generated'[l] = <<>> /\ l \notin extra'
      /\ \A k \in Lease \ {l} : /\ row'[k] = row[k] /\ generated'[k] = generated[k]
                                /\ (k \in extra') = (k \in extra)
  <2>1. [NoRow EXCEPT !.status = "deleted"] =
            [status |-> "deleted", signed |-> {}, terms |-> NoTerms]
    BY DEF NoRow
  <2>2. \A k \in Lease \ {l} : (k \in extra') = (k \in extra) BY <1>1
  <2>3. QED BY <1>1, <1>2, <2>1, <2>2
<1>4. row' \in [Lease -> Row] /\ generated' \in [Lease -> Seq(Terms)] /\ extra' \subseteq Lease
  <2>1. <<>> \in Seq(Terms) OBVIOUS
  <2>2. [status |-> "deleted", signed |-> {}, terms |-> NoTerms] \in Row
    BY DEF Row, Status
  <2>3. QED BY <1>1, <1>2, <1>3, <2>1, <2>2 DEF LeasesInv, TypeOK, NoRow
<1>5. TypeOK'
  BY <1>1, <1>3, <1>4, LeasesAssumption DEF LeasesInv, TypeOK, Exists, Asked
<1>6. \A h \in Request : RequestInv(row', signing'[h])
  <2> TAKE h \in Request
  <2>1. RequestInv(row, signing[h]) BY DEF LeasesInv
  <2>2. QED BY <1>1, <1>3, <2>1 DEF RequestInv, Knows, There
<1>7. LeaseInv(row'[l], generated'[l], l \in extra', missed'[l])
  BY <1>3 DEF LeaseInv, Party, EDITABLE_STATUSES
<1>8. \A k \in Lease : LeaseInv(row'[k], generated'[k], k \in extra', missed'[k])
  BY <1>1, <1>3, <1>7, OthersStay
<1>9. QED BY <1>5, <1>6, <1>8 DEF LeasesInv

LEMMA TerminateStep ==
    ASSUME LeasesInv, NEW l \in Lease, Terminate(l)
    PROVE  LeasesInv'
<1>1. /\ row' = [row EXCEPT ![l].status = "terminated"] /\ Exists(l)
      /\ UNCHANGED <<extra, generated, signing, missed>> /\ Asked
  BY DEF Terminate
<1>2. row \in [Lease -> Row] BY DEF LeasesInv, TypeOK
<1>3. /\ row'[l].status = "terminated" /\ row'[l].signed = row[l].signed
      /\ row'[l].terms = row[l].terms /\ row' \in [Lease -> Row]
      /\ \A k \in Lease \ {l} : row'[k] = row[k]
  BY <1>1, <1>2 DEF Row, Status
<1>4. TypeOK'
  BY <1>1, <1>3, LeasesAssumption DEF LeasesInv, TypeOK, Exists, Asked
<1>5. \A h \in Request : RequestInv(row', signing'[h])
  <2> TAKE h \in Request
  <2>1. RequestInv(row, signing[h]) BY DEF LeasesInv
  <2>2. QED BY <1>1, <1>3, <2>1 DEF RequestInv, Knows, There, Exists
<1>6. LeaseInv(row'[l], generated'[l], l \in extra', missed'[l])
  <2>1. LeaseInv(row[l], generated[l], l \in extra, missed[l]) BY DEF LeasesInv
  <2>2. QED BY <1>1, <1>3, <2>1 DEF LeaseInv, EDITABLE_STATUSES
<1>7. \A k \in Lease : LeaseInv(row'[k], generated'[k], k \in extra', missed'[k])
  BY <1>1, <1>3, <1>6, OthersStay
<1>8. QED BY <1>4, <1>5, <1>7 DEF LeasesInv

LEMMA AddPaymentStep ==
    ASSUME LeasesInv, NEW l \in Lease, AddPayment(l)
    PROVE  LeasesInv'
<1>1. /\ extra' = extra \cup {l} /\ Exists(l)
      /\ UNCHANGED <<row, generated, signing, missed>> /\ Asked
  BY DEF AddPayment
<1>2. TypeOK' BY <1>1, LeasesAssumption DEF LeasesInv, TypeOK, Exists, Asked
<1>3. LeaseInv(row'[l], generated'[l], l \in extra', missed'[l])
  <2>1. LeaseInv(row[l], generated[l], l \in extra, missed[l]) BY DEF LeasesInv
  <2>2. QED BY <1>1, <2>1 DEF LeaseInv
<1>4. \A k \in Lease : LeaseInv(row'[k], generated'[k], k \in extra', missed'[k])
  BY <1>1, <1>3, OthersStay
<1>5. QED BY <1>1, <1>2, <1>4 DEF LeasesInv

LEMMA AskToSignStep ==
    ASSUME LeasesInv, NEW h \in Request, NEW l \in Lease, NEW p \in Party, AskToSign(h, l, p)
    PROVE  LeasesInv'
<1>1. /\ signing' = [signing EXCEPT ![h] =
             [NotSigning EXCEPT !.at = "asked", !.lease = l, !.party = p]]
      /\ Exists(l) /\ UNCHANGED <<row, extra, generated, missed>> /\ Asked
  BY DEF AskToSign, SetSigning
<1>2. signing \in [Request -> Signing] BY DEF LeasesInv, TypeOK
<1>3. /\ signing'[h] = [at |-> "asked", lease |-> l, party |-> p,
                        counterparty |-> FALSE, terms |-> NoTerms, since |-> {}]
      /\ \A g \in Request \ {h} : signing'[g] = signing[g]
  BY <1>1, <1>2 DEF NotSigning
<1>4. signing' \in [Request -> Signing]
  <2>1. [at |-> "asked", lease |-> l, party |-> p, counterparty |-> FALSE,
         terms |-> NoTerms, since |-> {}] \in Signing
    BY DEF Signing
  <2>2. QED BY <1>1, <1>2, <2>1 DEF NotSigning
<1>5. TypeOK' BY <1>1, <1>4, LeasesAssumption DEF LeasesInv, TypeOK, Exists, Asked
<1>6. \A g \in Request : RequestInv(row', signing'[g])
  <2> TAKE g \in Request
  <2>1. CASE g = h BY <1>1, <1>3, <2>1 DEF RequestInv, Exists
  <2>2. CASE g # h BY <1>1, <1>3, <2>2 DEF LeasesInv
  <2>3. QED BY <2>1, <2>2
<1>7. QED BY <1>1, <1>5, <1>6 DEF LeasesInv

LEMMA SelectLeaseStep ==
    ASSUME LeasesInv, NEW h \in Request, SelectLease(h)
    PROVE  LeasesInv'
<1> DEFINE r == signing[h]
           l == r.lease
           seen == [r EXCEPT !.at = "selected", !.terms = row[l].terms,
                             !.counterparty = CounterpartySigned(l, r.party)]
<1>1. /\ r.at = "asked" /\ Exists(l) /\ signing' = [signing EXCEPT ![h] = seen]
      /\ UNCHANGED <<row, extra, generated, requests, missed>>
  BY DEF SelectLease, SetSigning
<1>2. signing \in [Request -> Signing] /\ row \in [Lease -> Row] BY DEF LeasesInv, TypeOK
<1>3. l \in Lease /\ row[l].status # "none" BY <1>1 DEF LeasesInv, RequestInv
<1>4. row[l].terms \in Terms
  BY <1>1, <1>2, <1>3 DEF LeasesInv, TypeOK, Row
<1>5. seen \in Signing
  <2>1. CounterpartySigned(l, r.party) \in BOOLEAN BY DEF CounterpartySigned
  <2>2. r \in Signing BY <1>2
  <2>3. QED BY <1>4, <2>1, <2>2 DEF Signing
<1>6. /\ seen.at = "selected" /\ seen.lease = l /\ seen.party = r.party
      /\ seen.counterparty = CounterpartySigned(l, r.party) /\ seen.terms = row[l].terms
  BY <1>2 DEF Signing
<1>7. signing'[h] = seen /\ \A g \in Request \ {h} : signing'[g] = signing[g]
  BY <1>1, <1>2
<1>8. TypeOK'
  <2>1. signing' \in [Request -> Signing] BY <1>1, <1>2, <1>5
  <2>2. QED BY <1>1, <2>1 DEF LeasesInv, TypeOK, Exists
<1>9. \A g \in Request : RequestInv(row', signing'[g])
  <2> TAKE g \in Request
  <2>1. CASE g = h
    <3>1. Knows(row, seen) BY <1>4, <1>6 DEF Knows, CounterpartySigned
    <3>2. RequestInv(row, seen) BY <1>3, <1>6, <3>1 DEF RequestInv
    <3>3. QED BY <1>1, <1>7, <2>1, <3>2
  <2>2. CASE g # h BY <1>1, <1>7, <2>2 DEF LeasesInv
  <2>3. QED BY <2>1, <2>2
<1>10. QED BY <1>1, <1>8, <1>9 DEF LeasesInv

\* What the lease that is written becomes: what the request missed is remembered,
\* and if it missed nothing it billed what the row says.
LEMMA SignedLease ==
    ASSUME NEW lease \in Row, NEW next, NEW r \in Signing, NEW bill, NEW bill2, NEW gone,
           NEW l, NEW adds,
           LeaseInv(lease, bill, l \in adds, gone),
           r.terms \in Terms,
           r.counterparty => Counterparty(r.party) \in lease.signed,
           ~r.counterparty /\ "signature" \notin r.since =>
               Counterparty(r.party) \notin lease.signed,
           "edit" \notin r.since => r.terms = lease.terms,
           next.signed = lease.signed \cup {r.party}, next.terms = lease.terms,
           next.status = IF r.counterparty THEN "active" ELSE "pending_signatures",
           bill2 = IF r.counterparty /\ l \notin adds /\ bill = <<>> /\ Instalments(r.terms) # <<>>
                   THEN <<r.terms>> ELSE bill
    PROVE  LeaseInv(next, bill2, l \in adds, gone \cup r.since)
<1>1. lease.signed \subseteq Party /\ r.party \in Party /\ r.counterparty \in BOOLEAN
  BY DEF Row, Signing
<1>2. next.signed \subseteq Party BY <1>1
<1>3. r.counterparty => next.signed = Party
  BY <1>1, <1>2 DEF Party, Counterparty
<1>4. "signature" \notin r.since /\ next.signed = Party => r.counterparty
  BY <1>1 DEF Party, Counterparty
<1>5. lease.signed = Party => next.signed = Party BY <1>1
<1>6. bill2 = <<>> \/ \E t \in Terms : bill2 = <<t>> BY DEF LeaseInv
<1>7. next.status = "active" => next.signed = Party BY <1>3
<1>8. next.signed = Party /\ next.status \in EDITABLE_STATUSES =>
          "signature" \in gone \cup r.since
  BY <1>4 DEF EDITABLE_STATUSES
<1>9. gone \cup r.since = {} => gone = {} /\ r.terms = lease.terms OBVIOUS
<1>10. gone \cup r.since = {} /\ bill2 # <<>> =>
           bill2 = <<next.terms>> /\ next.signed = Party
  BY <1>3, <1>5, <1>9 DEF LeaseInv
<1>11. gone \cup r.since = {} /\ bill2 = <<>> /\ next.status = "active" =>
           l \in adds \/ Instalments(next.terms) = <<>>
  <2> SUFFICES ASSUME gone \cup r.since = {}, bill2 = <<>>, next.status = "active", l \notin adds
               PROVE  Instalments(next.terms) = <<>>
    OBVIOUS
  <2>1. r.counterparty /\ r.terms = next.terms BY <1>1, <1>9
  <2>2. <<r.terms>> # <<>> OBVIOUS
  <2>3. QED BY <2>1, <2>2
<1>12. QED BY <1>6, <1>7, <1>8, <1>10, <1>11 DEF LeaseInv

LEMMA WriteSignatureStep ==
    ASSUME LeasesInv, NEW h \in Request, WriteSignature(h)
    PROVE  LeasesInv'
<1> DEFINE r == signing[h]
           l == r.lease
           next == [row[l] EXCEPT
                       !.signed = @ \cup {r.party},
                       !.status = IF r.counterparty THEN "active" ELSE "pending_signatures"]
<1>1. /\ r.at = "selected" /\ Exists(l)
      /\ row' = [row EXCEPT
             ![l].signed = @ \cup {r.party},
             ![l].status = IF r.counterparty THEN "active" ELSE "pending_signatures"]
      /\ Bill(l, r) /\ signing' = Forget(h, Missing(l, "signature"))
      /\ missed' = [missed EXCEPT ![l] = @ \cup r.since]
      /\ UNCHANGED <<extra, requests>>
  BY DEF WriteSignature
<1>2. /\ signing \in [Request -> Signing] /\ row \in [Lease -> Row]
      /\ generated \in [Lease -> Seq(Terms)] /\ missed \in [Lease -> SUBSET Write]
  BY DEF LeasesInv, TypeOK
<1>3. r \in Signing BY <1>2
<1>4. l \in Lease /\ Knows(row, r) BY <1>1 DEF LeasesInv, RequestInv, There, Exists
<1>5. row[l] \in Row /\ r.party \in Party /\ r.since \subseteq Write
  BY <1>2, <1>3, <1>4 DEF Signing
<1>6. /\ row'[l].signed = row[l].signed \cup {r.party} /\ row'[l].terms = row[l].terms
      /\ row'[l].status = IF r.counterparty THEN "active" ELSE "pending_signatures"
      /\ row'[l] \in Row
      /\ \A k \in Lease \ {l} : row'[k] = row[k]
  BY <1>1, <1>2, <1>4, <1>5 DEF Row, Status
<1>7. row' \in [Lease -> Row] BY <1>1, <1>2, <1>6
<1>8. LeaseInv(row[l], generated[l], l \in extra, missed[l]) BY <1>4 DEF LeasesInv
<1>9. /\ generated'[l] = IF r.counterparty /\ l \notin extra /\ generated[l] = <<>>
                            /\ Instalments(r.terms) # <<>>
                         THEN <<r.terms>> ELSE generated[l]
      /\ \A k \in Lease \ {l} : generated'[k] = generated[k]
      /\ generated' \in [Lease -> Seq(Terms)]
  <2>1. CASE r.counterparty /\ Unbilled(l) /\ Instalments(r.terms) # <<>>
    <3>1. generated' = [generated EXCEPT ![l] = Append(@, r.terms)] BY <1>1, <2>1 DEF Bill
    <3>2. generated[l] = <<>> /\ l \notin extra BY <2>1 DEF Unbilled
    <3>3. r.terms \in Terms BY <1>4 DEF Knows
    <3>4. Append(generated[l], r.terms) = <<r.terms>> /\ <<r.terms>> \in Seq(Terms)
      BY <3>2, <3>3
    <3>5. generated' = [generated EXCEPT ![l] = <<r.terms>>] BY <3>1, <3>4
    <3>6. QED BY <1>2, <1>4, <2>1, <3>2, <3>4, <3>5
  <2>2. CASE ~(r.counterparty /\ Unbilled(l) /\ Instalments(r.terms) # <<>>)
    BY <1>1, <1>2, <2>2 DEF Bill, Unbilled
  <2>3. QED BY <2>1, <2>2
<1>10. /\ missed'[l] = missed[l] \cup r.since /\ missed' \in [Lease -> SUBSET Write]
       /\ \A k \in Lease \ {l} : missed'[k] = missed[k]
  BY <1>1, <1>2, <1>4, <1>5
<1>11. NotSigning \in Signing /\ Missing(l, "signature") \in [Request -> Signing]
  BY <1>4, MissingType DEF Write, NotSigning, Signing, Party
<1>12. /\ signing' \in [Request -> Signing] /\ signing'[h] = NotSigning
       /\ \A g \in Request \ {h} : signing'[g] = Missing(l, "signature")[g]
  BY <1>1, <1>11 DEF Forget
<1>13. TypeOK'
  <2>1. \A k \in Lease : /\ Exists(k)' <=> row'[k].terms # NoTerms
                         /\ ~Exists(k)' => k \notin extra' /\ generated'[k] = <<>>
    <3> TAKE k \in Lease
    <3>1. CASE k = l
      BY <1>1, <1>4, <1>6, <3>1 DEF LeasesInv, TypeOK, Exists
    <3>2. CASE k # l
      BY <1>1, <1>6, <1>9, <3>2 DEF LeasesInv, TypeOK, Exists
    <3>3. QED BY <3>1, <3>2
  <2>2. QED BY <1>1, <1>7, <1>9, <1>10, <1>12, <2>1 DEF LeasesInv, TypeOK
<1>14. \A g \in Request : RequestInv(row', signing'[g])
  <2> TAKE g \in Request
  <2>1. CASE g = h BY <1>12, <2>1 DEF RequestInv, NotSigning
  <2>2. CASE g # h
    <3> DEFINE q == signing[g]
               q2 == signing'[g]
    <3>1. RequestInv(row, q) /\ q \in Signing BY <1>2 DEF LeasesInv
    <3>2. CASE q2 = q /\ q.lease # l
      BY <1>6, <3>1, <3>2, KnowsOfItsLease DEF RequestInv
    <3>3. CASE q2 = q /\ q.at # "selected"
      BY <1>6, <3>1, <3>3 DEF RequestInv
    <3>4. CASE q.at = "selected" /\ q.lease = l
               /\ q2 = [q EXCEPT !.since = @ \cup {"signature"}]
      <4>1. Knows(row, q) BY <1>1, <3>1, <3>4 DEF RequestInv, There, Exists
      <4>2. /\ q2.at = "selected" /\ q2.lease = l /\ q2.party = q.party
            /\ q2.since = q.since \cup {"signature"}
            /\ q2.counterparty = q.counterparty /\ q2.terms = q.terms
        BY <3>1, <3>4 DEF Signing
      <4>3. Knows(row', q2) BY <1>6, <3>4, <4>1, <4>2 DEF Knows
      <4>4. QED BY <1>4, <1>6, <4>2, <4>3 DEF RequestInv
    <3>5. q2 = Missing(l, "signature")[g] BY <1>12, <2>2
    <3>6. "signature" \in Write BY DEF Write
    <3>7. \/ q2 = q /\ (q.at # "selected" \/ q.lease # l)
          \/ /\ q.at = "selected" /\ q.lease = l
             /\ q2 = [q EXCEPT !.since = @ \cup {"signature"}]
      BY <1>4, <3>5, <3>6, MissingType
    <3>8. QED BY <3>2, <3>3, <3>4, <3>7
  <2>3. QED BY <2>1, <2>2
<1>15. LeaseInv(row'[l], generated'[l], l \in extra', missed'[l])
  <2>1. /\ r.terms \in Terms
        /\ r.counterparty => Counterparty(r.party) \in row[l].signed
        /\ ~r.counterparty /\ "signature" \notin r.since =>
               Counterparty(r.party) \notin row[l].signed
        /\ "edit" \notin r.since => r.terms = row[l].terms
    BY <1>4 DEF Knows
  <2>2. LeaseInv(row'[l], generated'[l], l \in extra, missed[l] \cup r.since)
    <3> HIDE DEF r, l
    <3>1. QED BY <1>3, <1>5, <1>6, <1>8, <1>9, <2>1, SignedLease
  <2>3. QED BY <1>1, <1>10, <2>2
<1>16. \A k \in Lease : LeaseInv(row'[k], generated'[k], k \in extra', missed'[k])
  <2>1. \A k \in Lease \ {l} :
            /\ row'[k] = row[k] /\ generated'[k] = generated[k]
            /\ (k \in extra') = (k \in extra) /\ missed'[k] = missed[k]
    BY <1>1, <1>6, <1>9, <1>10
  <2>2. l \in Lease BY <1>4
  <2> HIDE DEF r, l
  <2>3. QED BY <1>15, <2>1, <2>2, OthersStay
<1>17. QED BY <1>13, <1>14, <1>16 DEF LeasesInv

LEMMA FindNoLeaseStep ==
    ASSUME LeasesInv, NEW h \in Request, FindNoLease(h)
    PROVE  LeasesInv'
<1>1. /\ signing' = [signing EXCEPT ![h] = NotSigning]
      /\ UNCHANGED <<row, extra, generated, requests, missed>>
  BY DEF FindNoLease, SetSigning
<1>2. NotSigning \in Signing /\ signing \in [Request -> Signing]
  BY DEF NotSigning, Signing, Party, LeasesInv, TypeOK
<1>3. TypeOK' BY <1>1, <1>2 DEF LeasesInv, TypeOK, Exists
<1>4. \A g \in Request : RequestInv(row', signing'[g])
  BY <1>1, <1>2 DEF LeasesInv, RequestInv, NotSigning
<1>5. QED BY <1>1, <1>3, <1>4 DEF LeasesInv

-----------------------------------------------------------------------------
\* The inductive invariant: whatever is requested in whatever order, a request
\* that selected a lease (signLease) knows of it all that was not written since.
THEOREM LeasesInvariant == Spec => []LeasesInv
<1>1. Init => LeasesInv
  <2> SUFFICES ASSUME Init PROVE LeasesInv OBVIOUS
  <2>1. TypeOK
    BY LeasesAssumption
    DEF Init, TypeOK, NoRow, Row, Status, NotSigning, Signing, Party, Exists
  <2>2. \A h \in Request : RequestInv(row, signing[h])
    BY DEF Init, NotSigning, RequestInv
  <2>3. \A l \in Lease : LeaseInv(row[l], generated[l], l \in extra, missed[l])
    BY DEF Init, NoRow, LeaseInv, EDITABLE_STATUSES
  <2>4. QED BY <2>1, <2>2, <2>3 DEF LeasesInv
<1>2. LeasesInv /\ [Next]_vars => LeasesInv'
  <2> SUFFICES ASSUME LeasesInv, [Next]_vars PROVE LeasesInv' OBVIOUS
  <2>1. ASSUME NEW l \in Lease, NEW t \in Terms, Create(l, t) PROVE LeasesInv'
    BY <2>1, DraftStep DEF Create
  <2>2. ASSUME NEW l \in Lease, NEW n \in Lease, NEW t \in Terms, Renew(l, n, t)
        PROVE  LeasesInv'
    BY <2>2, DraftStep DEF Renew
  <2>3. CASE UNCHANGED vars
    BY <2>3 DEF vars, LeasesInv, TypeOK, Exists
  <2>4. QED
    BY <2>1, <2>2, <2>3, EditStep, DeleteStep, TerminateStep, AddPaymentStep,
       AskToSignStep, SelectLeaseStep, WriteSignatureStep, FindNoLeaseStep
    DEF Next
<1>3. QED BY <1>1, <1>2, PTL DEF Spec

\* Every reachable state is well typed: a lease that is deleted (deleteLease)
\* leaves no payments behind, for any number of requests.
THEOREM TypeCorrect == Spec => []TypeOK
<1>1. LeasesInv => TypeOK BY DEF LeasesInv
<1>2. QED BY <1>1, LeasesInvariant, PTL

\* A lease both have signed is not left waiting for signatures, unless two
\* requests to sign it overlapped (signLease reads the other's signature first).
THEOREM SignaturesActivate == Spec => []BothSignedIsActive
<1>1. LeasesInv => BothSignedIsActive BY DEF LeasesInv, LeaseInv, BothSignedIsActive
<1>2. QED BY <1>1, LeasesInvariant, PTL

\* An active lease has one schedule at most, and unless a signature overlapped
\* another write it is the one for what the lease says (signLease).
THEOREM ActiveLeasesAreBilledOnce == Spec => []ActiveIsBilledOnce
<1>1. LeasesInv => ActiveIsBilledOnce
  <2> SUFFICES ASSUME LeasesInv, NEW l \in Lease, row[l].status = "active"
               PROVE  /\ row[l].signed = Party
                      /\ Len(generated[l]) <= 1
                      /\ missed[l] = {} =>
                            \/ /\ generated[l] = <<row[l].terms>>
                               /\ BilledThroughout(row[l].terms)
                            \/ /\ generated[l] = <<>>
                               /\ \/ l \in extra
                                  \/ Short(row[l].terms) /\ row[l].terms.deposit = 0
    BY DEF ActiveIsBilledOnce
  <2>1. LeaseInv(row[l], generated[l], l \in extra, missed[l]) BY DEF LeasesInv
  <2>2. Len(generated[l]) <= 1
    <3>1. CASE generated[l] = <<>> BY <3>1
    <3>2. CASE \E t \in Terms : generated[l] = <<t>> BY <3>2
    <3>3. QED BY <2>1, <3>1, <3>2 DEF LeaseInv
  <2>3. \A t \in Terms : BilledThroughout(t)
    BY EveryTermIsBilledThroughout, LeasesAssumption
  <2>4. row[l].terms \in Terms
    BY DEF LeasesInv, TypeOK, Row, Exists
  <2>5. Instalments(row[l].terms) = <<>> =>
            Short(row[l].terms) /\ row[l].terms.deposit = 0
    BY <2>4, LeasesAssumption, NothingToBill
  <2>6. QED BY <2>1, <2>2, <2>3, <2>4, <2>5 DEF LeaseInv
<1>2. QED BY <1>1, LeasesInvariant, PTL
=============================================================================
