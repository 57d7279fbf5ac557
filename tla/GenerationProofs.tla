--------------------------- MODULE GenerationProofs ---------------------------
(***************************************************************************)
(* Proofs about Generation, for every set of setups, every amount of time  *)
(* that passes and every kind of damage: what a responder admits is what   *)
(* the producer built, and what the producer built answers for every       *)
(* serial of its source, with the CA's status and within the source's      *)
(* validity.                                                               *)
(***************************************************************************)
EXTENDS Generation, AhuProofs

-----------------------------------------------------------------------------
(* Dates *)

\* The leap years up to n, in closed form.
LeapsTo(n) == n \div 4 - n \div 100 + n \div 400

\* One year more.
LEMMA LeapStep ==
  ASSUME NEW y \in Nat, y # 0
  PROVE  LeapsTo(y) = LeapsTo(y - 1) + (IF IsLeap(y) THEN 1 ELSE 0)
<1> DEFINE a == y \div 4
           b == y \div 100
           c == y \div 400
           p == (y - 1) \div 4
           q == (y - 1) \div 100
           r == (y - 1) \div 400
<1>1. y = 4 * a + (y % 4) /\ 0 <= y % 4 /\ y % 4 < 4 /\ a \in Int
  OBVIOUS
<1>2. y = 100 * b + (y % 100) /\ 0 <= y % 100 /\ y % 100 < 100 /\ b \in Int
  OBVIOUS
<1>3. y = 400 * c + (y % 400) /\ 0 <= y % 400 /\ y % 400 < 400 /\ c \in Int
  OBVIOUS
<1>4. p = IF y % 4 = 0 THEN a - 1 ELSE a
  OBVIOUS
<1>5. q = IF y % 100 = 0 THEN b - 1 ELSE b
  OBVIOUS
<1>6. r = IF y % 400 = 0 THEN c - 1 ELSE c
  OBVIOUS
<1>7. (y % 400 = 0 => y % 100 = 0) /\ (y % 100 = 0 => y % 4 = 0)
  OBVIOUS
<1>8. LeapsTo(y) = a - b + c /\ LeapsTo(y - 1) = p - q + r
  BY DEF LeapsTo
<1>9. IsLeap(y) <=> y % 4 = 0 /\ (y % 100 # 0 \/ y % 400 = 0)
  BY DEF IsLeap
<1>10. p \in Int /\ q \in Int /\ r \in Int
  BY <1>1, <1>2, <1>3, <1>4, <1>5, <1>6
<1> HIDE DEF a, b, c, p, q, r
<1> QED
  BY <1>1, <1>2, <1>3, <1>4, <1>5, <1>6, <1>7, <1>8, <1>9, <1>10

\* The loop over the years counts the leap years.
LEMMA LeapCount ==
  ASSUME NEW k \in Nat
  PROVE  Cardinality({y \in 1970..(1970 + k - 1) : IsLeap(y)}) = LeapsTo(1970 + k - 1) - 477
<1> DEFINE L(n) == {y \in 1970..(1970 + n - 1) : IsLeap(y)}
           S == {n \in Nat : IsFiniteSet(L(n)) /\ Cardinality(L(n)) = LeapsTo(1970 + n - 1) - 477}
<1>1. 0 \in S
  <2>1. L(0) = {}
    OBVIOUS
  <2>2. IsFiniteSet(L(0)) /\ Cardinality(L(0)) = 0
    BY <2>1, FS_EmptySet
  <2>3. LeapsTo(1970 + 0 - 1) = 477
    BY DEF LeapsTo
  <2> HIDE DEF L
  <2> QED
    BY <2>2, <2>3
<1>2. ASSUME NEW n \in Nat, n \in S PROVE n + 1 \in S
  <2> DEFINE z == 1970 + n
  <2>1. z \in Nat /\ z # 0 /\ 1970 + (n + 1) - 1 = z /\ 1970 + n - 1 = z - 1
    OBVIOUS
  <2>2. LeapsTo(z) = LeapsTo(z - 1) + (IF IsLeap(z) THEN 1 ELSE 0)
    BY <2>1, LeapStep
  <2>3. LeapsTo(z - 1) \in Int
    BY <2>1 DEF LeapsTo
  <2>4. IsFiniteSet(L(n)) /\ Cardinality(L(n)) = LeapsTo(z - 1) - 477
    BY <1>2, <2>1
  <2>5. z \notin L(n)
    OBVIOUS
  <2>6. CASE IsLeap(z)
    <3>1. L(n + 1) = L(n) \cup {z}
      BY <2>6
    <3> HIDE DEF L
    <3>2. IsFiniteSet(L(n + 1)) /\ Cardinality(L(n + 1)) = Cardinality(L(n)) + 1
      BY <2>4, <2>5, <3>1, FS_AddElement
    <3>3. Cardinality(L(n + 1)) = LeapsTo(1970 + (n + 1) - 1) - 477
      BY <2>1, <2>2, <2>3, <2>4, <2>6, <3>2
    <3> QED
      BY <3>2, <3>3
  <2>7. CASE ~IsLeap(z)
    <3>1. L(n + 1) = L(n)
      BY <2>7
    <3> HIDE DEF L
    <3>3. Cardinality(L(n + 1)) = LeapsTo(1970 + (n + 1) - 1) - 477
      BY <2>1, <2>2, <2>3, <2>4, <2>7, <3>1
    <3> QED
      BY <2>4, <3>1, <3>3
  <2> QED
    BY <2>6, <2>7
<1> HIDE DEF S
<1>3. k \in S
  BY <1>1, <1>2, Induction
<1> QED
  BY <1>3 DEF S

\* The days before a month.
LEMMA DaysBeforeMonth ==
  ASSUME NEW y \in Int, NEW month \in 1..12
  PROVE  DaysBefore(y, month) =
           (IF month > 2 /\ IsLeap(y) THEN 1 ELSE 0)
             + <<0, 31, 59, 90, 120, 151, 181, 212, 243, 273, 304, 334>>[month]
<1> DEFINE T == <<0, 31, 59, 90, 120, 151, 181, 212, 243, 273, 304, 334>>
           P == <<31, 28, 31, 30, 31, 30, 31, 31, 30, 31, 30, 31>>
           G(m) == (IF m > 2 /\ IsLeap(y) THEN 1 ELSE 0) + T[m]
           g == [m \in 1..month |-> G(m)]
           Body(f) == [m \in 1..month |-> IF m = 1 THEN 0 ELSE f[m - 1] + DaysIn(y, m - 1)]
<1>1. ASSUME NEW m \in 2..12 PROVE G(m) = G(m - 1) + DaysIn(y, m - 1)
  <2>1. \/ m = 2 \/ m = 3 \/ m = 4 \/ m = 5 \/ m = 6 \/ m = 7 \/ m = 8 \/ m = 9 \/ m = 10 \/ m = 11 \/ m = 12
    OBVIOUS
  <2> QED
    BY <2>1 DEF DaysIn
<1>2. G(1) = 0
  OBVIOUS
<1>3. ASSUME NEW f, f = Body(f), NEW m \in Nat, m + 1 <= month PROVE f[m + 1] = G(m + 1)
  <2> DEFINE S == {n \in Nat : n + 1 <= month => f[n + 1] = G(n + 1)}
  <2>1. \A n \in 1..month : f[n] = IF n = 1 THEN 0 ELSE f[n - 1] + DaysIn(y, n - 1)
    BY <1>3
  <2> HIDE DEF G
  <2>2. 0 \in S
    BY <1>2, <2>1
  <2>3. ASSUME NEW n \in Nat, n \in S PROVE n + 1 \in S
    <3> SUFFICES ASSUME (n + 1) + 1 <= month PROVE f[(n + 1) + 1] = G((n + 1) + 1)
      OBVIOUS
    <3> DEFINE j == (n + 1) + 1
    <3>1. j \in 2..12 /\ j \in 1..month /\ j # 1 /\ j - 1 = n + 1 /\ n + 1 <= month
      OBVIOUS
    <3>2. f[n + 1] = G(n + 1)
      BY <2>3, <3>1
    <3>3. f[j] = f[j - 1] + DaysIn(y, j - 1)
      BY <2>1, <3>1
    <3>4. G(j) = G(j - 1) + DaysIn(y, j - 1)
      BY <1>1, <3>1
    <3> QED
      BY <3>1, <3>2, <3>3, <3>4
  <2> HIDE DEF S
  <2>4. m \in S
    BY <2>2, <2>3, Induction
  <2> QED
    BY <1>3, <2>4 DEF S
<1>4. g = Body(g)
  <2> SUFFICES ASSUME NEW m \in 1..month PROVE g[m] = IF m = 1 THEN 0 ELSE g[m - 1] + DaysIn(y, m - 1)
    <3>1. g = [m \in 1..month |-> g[m]]
      OBVIOUS
    <3> HIDE DEF g
    <3> QED
      BY <3>1
  <2>1. g[m] = G(m)
    OBVIOUS
  <2>2. CASE m = 1
    BY <1>2, <2>1, <2>2
  <2>3. CASE m # 1
    <3>1. m \in 2..12 /\ m - 1 \in 1..month
      BY <2>3
    <3>2. g[m - 1] = G(m - 1)
      BY <3>1
    <3> HIDE DEF G
    <3> QED
      BY <1>1, <2>1, <2>3, <3>1, <3>2
  <2> QED
    BY <2>2, <2>3
<1> DEFINE h == CHOOSE f : f = Body(f)
<1>5. DaysBefore(y, month) = h[month]
  BY DEF DaysBefore
<1>6. h = Body(h)
  <2> HIDE DEF Body, g
  <2> QED
    BY <1>4
<1>7. h[month] = G(month)
  <2> HIDE DEF h, Body, G
  <2>1. month - 1 \in Nat /\ (month - 1) + 1 = month /\ (month - 1) + 1 <= month
    OBVIOUS
  <2> QED
    BY <1>3, <1>6, <2>1
<1> QED
  BY <1>5, <1>7

\* The month and the day of a year that begins in March.
LEMMA MarchMonths ==
  ASSUME NEW doy \in 0..365, NEW mp, mp = (5 * doy + 2) \div 153
  PROVE  mp \in 0..11
OBVIOUS

\* k is n divided by d.
Splits(n, d, k) == k \in Int /\ d * k <= n /\ n < d * k + d

\* It is what \div gives for the divisors of the calendar.
LEMMA Divisions ==
  ASSUME NEW n \in Int
  PROVE  /\ Splits(n, 4, n \div 4)
         /\ Splits(n, 5, n \div 5)
         /\ Splits(n, 100, n \div 100)
         /\ Splits(n, 153, n \div 153)
         /\ Splits(n, 365, n \div 365)
         /\ Splits(n, 400, n \div 400)
         /\ Splits(n, 1460, n \div 1460)
         /\ Splits(n, 36524, n \div 36524)
         /\ Splits(n, 146096, n \div 146096)
         /\ Splits(n, 146097, n \div 146097)
BY SMT DEF Splits

\* The year within a cycle of 400 years, and the day within the year.
LEMMA DayArithmetic ==
  ASSUME NEW doe \in Int, 0 <= doe, doe <= 146096, NEW a, NEW b, NEW c, NEW y, NEW p, NEW q,
         Splits(doe, 1460, a), Splits(doe, 36524, b), Splits(doe, 146096, c),
         Splits(doe - a + b - c, 365, y), Splits(y, 4, p), Splits(y, 100, q)
  PROVE  y \in 0..399 /\ doe - (365 * y + p - q) \in 0..365
<1>1. a \in Int /\ b \in Int /\ c \in Int /\ y \in Int /\ p \in Int /\ q \in Int
  BY SMT DEF Splits
<1>2. /\ 1460 * a <= doe /\ doe < 1460 * a + 1460
      /\ 36524 * b <= doe /\ doe < 36524 * b + 36524
      /\ 146096 * c <= doe /\ doe < 146096 * c + 146096
      /\ 365 * y <= doe - a + b - c /\ doe - a + b - c < 365 * y + 365
      /\ 4 * p <= y /\ y < 4 * p + 4
      /\ 100 * q <= y /\ y < 100 * q + 100
  BY SMT DEF Splits
<1>3. b \in 0..4 /\ c \in 0..1
  BY <1>1, <1>2, SMT
<1>4. y \in 0..399
  BY <1>1, <1>2, <1>3, SMT
<1>5. 0 <= doe - (365 * y + p - q)
  BY <1>1, <1>2, <1>3, <1>4, SMTT(60)
<1>6. doe - (365 * y + p - q) <= 365
  BY <1>1, <1>2, <1>3, <1>4, SMTT(60)
<1> QED
  BY <1>1, <1>4, <1>5, <1>6, SMT

\* Y is the year yoe of a cycle.
InCycle(Y, era, yoe, p, q) ==
  era \in Int /\ yoe \in 0..399 /\ Y = yoe + era * 400 /\ Splits(yoe, 4, p) /\ Splits(yoe, 100, q)

\* The leap years up to a year of a cycle.
LEMMA CycleLeaps ==
  ASSUME NEW Y, NEW era, NEW yoe, NEW p, NEW q, InCycle(Y, era, yoe, p, q)
  PROVE  LeapsTo(Y) = p - q + 97 * era
<1>0. era \in Int /\ yoe \in 0..399 /\ Y = yoe + era * 400 /\ Splits(yoe, 4, p) /\ Splits(yoe, 100, q)
  BY SMT DEF InCycle
<1>1. Y \in Int /\ p \in Int /\ q \in Int
  BY <1>0, SMT DEF Splits
<1>2. 4 * p <= yoe /\ yoe < 4 * p + 4 /\ 100 * q <= yoe /\ yoe < 100 * q + 100
  BY <1>0, SMT DEF Splits
<1>3. Y \div 4 = p + 100 * era
  BY <1>0, <1>1, <1>2, SMT
<1>4. Y \div 100 = q + 4 * era
  BY <1>0, <1>1, <1>2, SMT
<1>5. Y \div 400 = era
  BY <1>0, <1>1, <1>2, SMT
<1> QED
  BY <1>0, <1>1, <1>3, <1>4, <1>5, SMT DEF LeapsTo

\* The calendar's date of a day of the year Y that begins in March.
MarchDate(Y, doy, mp, y, m, d) ==
  /\ Y \in Int /\ doy \in 0..365 /\ y >= 1970
  /\ mp = (5 * doy + 2) \div 153
  /\ m = IF mp < 10 THEN mp + 3 ELSE mp - 9
  /\ y = Y + (IF m <= 2 THEN 1 ELSE 0)
  /\ d = doy - (153 * mp + 2) \div 5 + 1

\* The days up to this date.
LEMMA MonthArithmetic ==
  ASSUME NEW Y, NEW doy, NEW mp, NEW y, NEW m, NEW d, MarchDate(Y, doy, mp, y, m, d)
  PROVE  datetime_to_epoch(<<y, m, d>>) = 365 * Y + LeapsTo(Y) + doy - 719468
<1> DEFINE k == y - 1970
           T == <<0, 31, 59, 90, 120, 151, 181, 212, 243, 273, 304, 334>>
           e == (153 * mp + 2) \div 5
<1>0. /\ Y \in Int /\ doy \in 0..365 /\ y >= 1970
      /\ mp = (5 * doy + 2) \div 153 /\ m = IF mp < 10 THEN mp + 3 ELSE mp - 9
      /\ y = Y + (IF m <= 2 THEN 1 ELSE 0) /\ d = doy - (153 * mp + 2) \div 5 + 1
  BY SMT DEF MarchDate
<1>1. mp \in 0..11
  BY <1>0, MarchMonths, SMT
<1>2. m \in 1..12 /\ y \in Int /\ k \in Nat /\ 1970 + k = y /\ y \in Nat /\ y # 0 /\ e \in Int /\ d = doy - e + 1
  BY <1>0, <1>1, SMT
<1>3. IF mp < 10 THEN m > 2 /\ T[m] - e = 59 ELSE ~(m > 2) /\ 365 + T[m] - e = 59
  <2>1. \/ mp = 0 \/ mp = 1 \/ mp = 2 \/ mp = 3 \/ mp = 4 \/ mp = 5 \/ mp = 6
        \/ mp = 7 \/ mp = 8 \/ mp = 9 \/ mp = 10 \/ mp = 11
    BY <1>1, SMT
  <2> QED
    BY <1>0, <2>1, SMT
<1>4. T[m] \in Int
  BY <1>2, SMT
<1> DEFINE C == Cardinality({x \in 1970..(y - 1) : IsLeap(x)})
           B == DaysBefore(y, m)
           leap == IF IsLeap(y) THEN 1 ELSE 0
<1>5. C = LeapsTo(y - 1) - 477
  <2>1. 1970 + k - 1 = y - 1
    BY <1>2, SMT
  <2>2. Cardinality({x \in 1970..(1970 + k - 1) : IsLeap(x)}) = LeapsTo(1970 + k - 1) - 477
    <3> HIDE DEF k
    <3> QED
      BY <1>2, LeapCount, SMT
  <2> QED
    BY <1>0, <1>2, <2>1, <2>2, SMT
<1>6. B = (IF m > 2 /\ IsLeap(y) THEN 1 ELSE 0) + T[m]
  BY <1>2, DaysBeforeMonth, SMT
<1>7. LeapsTo(y) = LeapsTo(y - 1) + leap
  BY <1>2, LeapStep, SMT
<1>8. LeapsTo(y - 1) \in Int /\ LeapsTo(Y) \in Int
  BY <1>0, <1>2, SMT DEF LeapsTo
<1> DEFINE date == <<y, m, d>>
<1>9. datetime_to_epoch(date) = 365 * (y - 1970) + C + B + d - 1
  <2>1. date[1] = y /\ date[2] = m /\ date[3] = d
    BY SMT
  <2> HIDE DEF date
  <2> QED
    BY <2>1, SMT DEF datetime_to_epoch
<1> HIDE DEF C, B, T, e, date, k
<1>10. leap \in 0..1
  BY SMT
<1>11. CASE mp < 10
  <2>1. m > 2 /\ y = Y /\ T[m] - e = 59
    BY <1>0, <1>1, <1>2, <1>3, <1>11, SMT
  <2>2. B = leap + T[m]
    BY <1>6, <2>1, SMT
  <2> HIDE DEF leap
  <2>3. 365 * (y - 1970) + C + B + d - 1 = 365 * Y + LeapsTo(Y) + doy - 719468
    BY <1>0, <1>2, <1>4, <1>5, <1>7, <1>8, <1>10, <2>1, <2>2, SMT
  <2> QED
    BY <1>9, <2>3, SMT DEF date
<1>12. CASE ~(mp < 10)
  <2>1. ~(m > 2) /\ y = Y + 1 /\ 365 + T[m] - e = 59 /\ y - 1 = Y
    BY <1>0, <1>1, <1>2, <1>3, <1>12, SMT
  <2>2. B = 0 + T[m]
    BY <1>6, <2>1, SMT
  <2> HIDE DEF leap
  <2>3. 365 * (y - 1970) + C + B + d - 1 = 365 * Y + LeapsTo(Y) + doy - 719468
    BY <1>0, <1>2, <1>4, <1>5, <1>8, <2>1, <2>2, SMT
  <2> QED
    BY <1>9, <2>3, SMT DEF date
<1> QED
  BY <1>11, <1>12, SMT

\* A day is read back from the date that was encoded.
LEMMA DatesSurvive ==
  ASSUME NEW days \in Nat
  PROVE  datetime_to_epoch(ocsp_time(days)) = days
<1> DEFINE z == days + 719468
           era == z \div 146097
           doe == z - era * 146097
           a == doe \div 1460
           b == doe \div 36524
           c == doe \div 146096
           yoe == (doe - a + b - c) \div 365
           p == yoe \div 4
           q == yoe \div 100
           doy == doe - (365 * yoe + p - q)
           mp == (5 * doy + 2) \div 153
           m == IF mp < 10 THEN mp + 3 ELSE mp - 9
           Y == yoe + era * 400
           y == Y + (IF m <= 2 THEN 1 ELSE 0)
           d == doy - (153 * mp + 2) \div 5 + 1
<1>1. ocsp_time(days) = <<y, m, d>>
  BY SMT DEF ocsp_time, days_to_ymd
<1>2. z \in Int /\ Splits(z, 146097, era)
  BY Divisions, SMT
<1> HIDE DEF z, era
<1>3. doe \in Int /\ 0 <= doe /\ doe <= 146096 /\ era \in Int /\ z = doe + 146097 * era
  BY <1>2, SMT DEF Splits
<1> HIDE DEF doe
<1>4. Splits(doe, 1460, a) /\ Splits(doe, 36524, b) /\ Splits(doe, 146096, c)
  BY <1>3, Divisions, SMT
<1> HIDE DEF a, b, c
<1>5. doe - a + b - c \in Int
  BY <1>3, <1>4, SMT DEF Splits
<1>6. Splits(doe - a + b - c, 365, yoe)
  BY <1>5, Divisions, SMT
<1> HIDE DEF yoe
<1>7. yoe \in Int
  BY <1>6, SMT DEF Splits
<1>8. Splits(yoe, 4, p) /\ Splits(yoe, 100, q)
  BY <1>7, Divisions, SMT
<1> HIDE DEF p, q
<1>9. yoe \in 0..399 /\ doy \in 0..365
  BY <1>3, <1>4, <1>6, <1>8, DayArithmetic, SMT
<1>10. p \in Int /\ q \in Int /\ 4 * p <= yoe /\ 100 * q <= yoe /\ yoe < 4 * p + 4 /\ yoe < 100 * q + 100
  BY <1>8, SMT DEF Splits
<1>11. LeapsTo(Y) = p - q + 97 * era
  <2>1. InCycle(Y, era, yoe, p, q)
    BY <1>3, <1>8, <1>9, SMT DEF InCycle
  <2> HIDE DEF Y
  <2> QED
    BY <2>1, CycleLeaps, SMT
<1>12. doe = 365 * yoe + p - q + doy
  BY <1>3, <1>9, <1>10, SMT
<1> HIDE DEF doy
<1>13. y >= 1970
  <2>1. z >= 719468
    BY SMT DEF z
  <2>2. era >= 4
    BY <1>3, <2>1, SMT
  <2>3. mp \in 0..11
    BY <1>9, MarchMonths, SMT
  <2>4. Splits(5 * doy + 2, 153, mp)
    BY <1>9, Divisions, SMT
  <2>5. 153 * mp <= 5 * doy + 2 /\ 5 * doy + 2 < 153 * mp + 153
    BY <2>4, SMT DEF Splits
  <2> HIDE DEF mp
  <2>6. Y >= 1970 \/ (Y >= 1969 /\ doy >= 306)
    BY <1>3, <1>9, <1>10, <1>12, <2>1, <2>2, SMT
  <2>7. doy >= 306 => mp >= 10
    BY <1>9, <2>3, <2>5, SMT
  <2>8. mp >= 10 => m <= 2
    BY <2>3, SMT
  <2>9. Y \in Int
    BY <1>3, <1>9, SMT
  <2> HIDE DEF Y, m
  <2> QED
    BY <2>6, <2>7, <2>8, <2>9, SMT
<1>14. Y \in Int
  BY <1>3, <1>9, SMT
<1>15. datetime_to_epoch(<<y, m, d>>) = 365 * Y + LeapsTo(Y) + doy - 719468
  <2>1. MarchDate(Y, doy, mp, y, m, d)
    BY <1>9, <1>13, <1>14, SMT DEF MarchDate
  <2> HIDE DEF Y, mp, m, y, d
  <2> QED
    BY <2>1, MonthArithmetic, SMT
<1>16. 365 * Y + LeapsTo(Y) + doy - 719468 = days
  <2>1. 365 * Y = 365 * yoe + 146000 * era
    BY <1>3, <1>9, SMT
  <2>2. z - 719468 = days
    BY SMT DEF z
  <2> HIDE DEF Y
  <2> QED
    BY <1>3, <1>9, <1>10, <1>11, <1>12, <2>1, <2>2, SMT
<1> HIDE DEF y, m, d, Y
<1> QED
  BY <1>1, <1>15, <1>16, SMT

-----------------------------------------------------------------------------
(* Flattening *)

\* The member e is in the j-th place of the i-th of the first n sequences.
At(ss, n, i, j, e) == i \in 1..n /\ j \in 1..Len(ss[i]) /\ ss[i][j] = e

\* flat has the members of the first n sequences of ss, each in a place of its own.
FlatOf(flat, ss, n, E) ==
  /\ flat \in Seq(E)
  /\ \A k \in 1..Len(flat) : \E i, j \in Nat : At(ss, n, i, j, flat[k])
  /\ \A i \in 1..n : \A j \in 1..Len(ss[i]) : \E k \in 1..Len(flat) : flat[k] = ss[i][j]
  /\ \A k, l \in 1..Len(flat) : k < l =>
       \E i, j, x, y \in Nat : At(ss, n, i, j, flat[k]) /\ At(ss, n, x, y, flat[l]) /\ (i < x \/ (i = x /\ j < y))

\* One sequence more is appended.
LEMMA FlatStep ==
  ASSUME NEW E, NEW ss, NEW n \in Nat, NEW flat, FlatOf(flat, ss, n, E), ss[n + 1] \in Seq(E)
  PROVE  FlatOf(flat \o ss[n + 1], ss, n + 1, E)
<1> DEFINE a == ss[n + 1]
           t == flat \o a
           L == Len(flat)
<1>1. flat \in Seq(E) /\ L \in Nat /\ Len(a) \in Nat /\ a \in Seq(E)
  BY DEF FlatOf
<1>2. /\ t \in Seq(E) /\ Len(t) = L + Len(a)
      /\ \A k \in 1..L : t[k] = flat[k]
      /\ \A k \in (L + 1)..(L + Len(a)) : t[k] = a[k - L]
  <2> HIDE DEF a
  <2> QED
    BY <1>1, ConcatProperties
<1> HIDE DEF t, L
<1>3. ASSUME NEW i \in Nat, NEW j \in Nat, NEW e, At(ss, n, i, j, e) PROVE At(ss, n + 1, i, j, e)
  BY <1>3 DEF At
<1>4. ASSUME NEW k \in 1..Len(t), k > L PROVE k - L \in Nat /\ k - L \in 1..Len(a) /\ At(ss, n + 1, n + 1, k - L, t[k])
  <2>1. k - L \in 1..Len(a) /\ k \in (L + 1)..(L + Len(a))
    BY <1>1, <1>2, <1>4
  <2>2. t[k] = a[k - L]
    BY <1>2, <2>1
  <2> QED
    BY <2>1, <2>2 DEF At
<1>5. ASSUME NEW k \in 1..Len(t), ~(k > L) PROVE k \in 1..L /\ t[k] = flat[k]
  BY <1>1, <1>2, <1>5
<1>6. ASSUME NEW k \in 1..Len(t) PROVE \E i, j \in Nat : At(ss, n + 1, i, j, t[k])
  <2>1. CASE k > L
    BY <1>4, <2>1
  <2>2. CASE ~(k > L)
    <3>1. PICK i \in Nat, j \in Nat : At(ss, n, i, j, flat[k])
      BY <1>5, <2>2 DEF FlatOf, L
    <3> QED
      BY <1>3, <1>5, <2>2, <3>1
  <2> QED
    BY <2>1, <2>2
<1>7. ASSUME NEW i \in 1..(n + 1), NEW j \in 1..Len(ss[i]) PROVE \E k \in 1..Len(t) : t[k] = ss[i][j]
  <2>1. CASE i = n + 1
    <3> DEFINE k == L + j
    <3>1. j \in 1..Len(a) /\ ss[i][j] = a[j]
      BY <2>1
    <3>2. k \in 1..Len(t) /\ k \in (L + 1)..(L + Len(a)) /\ k - L = j
      BY <1>1, <1>2, <3>1
    <3>3. t[k] = a[j]
      BY <1>2, <3>2
    <3> QED
      BY <3>1, <3>2, <3>3
  <2>2. CASE i # n + 1
    <3>1. i \in 1..n
      BY <2>2
    <3>2. PICK k \in 1..L : flat[k] = ss[i][j]
      BY <3>1 DEF FlatOf, L
    <3>3. k \in 1..Len(t) /\ t[k] = flat[k]
      BY <1>1, <1>2
    <3> QED
      BY <3>2, <3>3
  <2> QED
    BY <2>1, <2>2
<1>8. ASSUME NEW k \in 1..Len(t), NEW l \in 1..Len(t), k < l
      PROVE  \E i, j, x, y \in Nat : At(ss, n + 1, i, j, t[k]) /\ At(ss, n + 1, x, y, t[l]) /\ (i < x \/ (i = x /\ j < y))
  <2>0. k \in Int /\ l \in Int
    OBVIOUS
  <2>1. CASE k > L
    <3>1. l > L
      BY <1>1, <1>8, <2>0, <2>1
    <3>2. k - L < l - L
      BY <1>1, <1>8, <2>0
    <3>3. n + 1 \in Nat
      OBVIOUS
    <3> QED
      BY <1>4, <2>1, <3>1, <3>2, <3>3
  <2>2. CASE ~(k > L) /\ l > L
    <3>1. PICK i \in Nat, j \in Nat : At(ss, n, i, j, flat[k])
      BY <1>5, <2>2 DEF FlatOf, L
    <3>2. At(ss, n + 1, i, j, t[k]) /\ i < n + 1 /\ n + 1 \in Nat
      BY <1>3, <1>5, <2>2, <3>1 DEF At
    <3>3. l - L \in Nat /\ At(ss, n + 1, n + 1, l - L, t[l]) /\ n + 1 \in Nat
      BY <1>4, <2>2
    <3>4. PICK x \in Nat, y \in Nat : At(ss, n + 1, x, y, t[l]) /\ i < x
      BY <3>2, <3>3
    <3> QED
      BY <3>2, <3>4
  <2>3. CASE ~(k > L) /\ ~(l > L)
    <3>1. PICK i \in Nat, j \in Nat, x \in Nat, y \in Nat :
             At(ss, n, i, j, flat[k]) /\ At(ss, n, x, y, flat[l]) /\ (i < x \/ (i = x /\ j < y))
      BY <1>5, <1>8, <2>3 DEF FlatOf, L
    <3> QED
      BY <1>3, <1>5, <2>3, <3>1
  <2> QED
    BY <2>1, <2>2, <2>3
<1>9. FlatOf(t, ss, n + 1, E)
  BY <1>2, <1>6, <1>7, <1>8 DEF FlatOf
<1> QED
  BY <1>9 DEF t

\* FlattenSeq appends one sequence after the other.
LEMMA FlattenSteps ==
  ASSUME NEW E, NEW ss \in Seq(Seq(E)), Len(ss) # 0
  PROVE  \E f : /\ FlattenSeq(ss) = f[Len(ss)]
                /\ \A i \in 1..Len(ss) : f[i] = IF i = 1 THEN ss[i] ELSE f[i - 1] \o ss[i]
<1> DEFINE N == Len(ss)
           Body(f) == [i \in 1..N |-> IF i = 1 THEN ss[i] ELSE f[i - 1] \o ss[i]]
           h == CHOOSE f : f = Body(f)
<1>0. N \in Nat
  OBVIOUS
<1>1. FlattenSeq(ss) = h[N]
  BY DEF FlattenSeq
<1>2. \E f : f = Body(f)
  <2> DEFINE Ext(f, n) == [i \in 1..n |-> IF i = 1 THEN ss[i] ELSE f[i - 1] \o ss[i]]
             S == {n \in Nat : \E f : f = Ext(f, n)}
  <2>1. 0 \in S
    <3>1. <<>> = Ext(<<>>, 0)
      OBVIOUS
    <3> QED
      BY <3>1
  <2>2. ASSUME NEW n \in Nat, n \in S PROVE n + 1 \in S
    <3>1. PICK f : f = Ext(f, n)
      BY <2>2
    <3> DEFINE g == [i \in 1..(n + 1) |-> IF i = 1 THEN ss[i] ELSE f[i - 1] \o ss[i]]
    <3>2. \A i \in 1..n : f[i] = IF i = 1 THEN ss[i] ELSE f[i - 1] \o ss[i]
      BY <3>1
    <3>3. \A i \in 1..n : i \in 1..(n + 1) /\ g[i] = f[i]
      BY <3>2
    <3>4. \A i \in 1..(n + 1) : i # 1 => i - 1 \in 1..n
      OBVIOUS
    <3>5. \A i \in 1..(n + 1) : g[i] = IF i = 1 THEN ss[i] ELSE g[i - 1] \o ss[i]
      BY <3>3, <3>4
    <3>6. g = [i \in 1..(n + 1) |-> g[i]]
      OBVIOUS
    <3> HIDE DEF g
    <3>7. g = Ext(g, n + 1)
      BY <3>5, <3>6
    <3> HIDE DEF Ext
    <3> QED
      BY <3>7
  <2> HIDE DEF S, Ext
  <2>3. N \in S
    BY <1>0, <2>1, <2>2, Induction
  <2> QED
    BY <2>3 DEF S, Ext
<1>3. h = Body(h)
  <2> HIDE DEF Body
  <2> QED
    BY <1>2
<1>4. \A i \in 1..N : h[i] = IF i = 1 THEN ss[i] ELSE h[i - 1] \o ss[i]
  <2> HIDE DEF h
  <2> QED
    BY <1>3
<1> HIDE DEF h
<1> QED
  BY <1>1, <1>4

\* It flattens.
LEMMA Flattened ==
  ASSUME NEW E, NEW ss \in Seq(Seq(E))
  PROVE  FlatOf(FlattenSeq(ss), ss, Len(ss), E)
<1> DEFINE N == Len(ss)
<1>0. N \in Nat /\ \A i \in 1..N : ss[i] \in Seq(E)
  OBVIOUS
<1>1. FlatOf(<<>>, ss, 0, E)
  BY DEF FlatOf
<1>2. CASE N = 0
  <2>1. FlattenSeq(ss) = ss /\ ss = <<>>
    BY <1>2 DEF FlattenSeq
  <2> QED
    BY <1>1, <1>2, <2>1
<1>3. CASE N # 0
  <2>1. PICK f : /\ FlattenSeq(ss) = f[N]
                 /\ \A i \in 1..N : f[i] = IF i = 1 THEN ss[i] ELSE f[i - 1] \o ss[i]
    BY <1>3, FlattenSteps
  <2> DEFINE S == {n \in Nat : n + 1 <= N => FlatOf(f[n + 1], ss, n + 1, E)}
  <2>2. 0 \in S
    <3>1. f[1] = ss[1] /\ ss[1] \in Seq(E) /\ 1 \in 1..N
      BY <1>0, <1>3, <2>1
    <3>2. <<>> \o ss[1] = ss[1]
      BY <3>1
    <3>3. FlatOf(<<>> \o ss[1], ss, 1, E)
      <4> DEFINE z == 0
      <4>1. z \in Nat /\ FlatOf(<<>>, ss, z, E) /\ ss[z + 1] \in Seq(E) /\ z + 1 = 1
        BY <1>1, <3>1
      <4> HIDE DEF z
      <4>2. FlatOf(<<>> \o ss[z + 1], ss, z + 1, E)
        BY <4>1, FlatStep
      <4> QED
        BY <4>1, <4>2
    <3> QED
      BY <3>1, <3>2, <3>3
  <2>3. ASSUME NEW n \in Nat, n \in S PROVE n + 1 \in S
    <3> SUFFICES ASSUME (n + 1) + 1 <= N PROVE FlatOf(f[(n + 1) + 1], ss, (n + 1) + 1, E)
      OBVIOUS
    <3> DEFINE k == n + 1
    <3>1. k \in Nat /\ k + 1 \in 1..N /\ k + 1 # 1 /\ (k + 1) - 1 = k /\ k <= N
      BY <1>0
    <3>2. FlatOf(f[k], ss, k, E)
      BY <2>3, <3>1
    <3>3. f[k + 1] = f[k] \o ss[k + 1]
      BY <2>1, <3>1
    <3> HIDE DEF k
    <3>4. FlatOf(f[k] \o ss[k + 1], ss, k + 1, E)
      BY <1>0, <3>1, <3>2, FlatStep
    <3> QED
      BY <3>3, <3>4 DEF k
  <2> HIDE DEF S
  <2>4. N - 1 \in Nat /\ (N - 1) + 1 = N
    BY <1>0, <1>3
  <2>5. \A n \in Nat : n \in S
    BY <2>2, <2>3, Induction
  <2>6. N - 1 \in S
    BY <2>4, <2>5
  <2> QED
    BY <2>1, <2>4, <2>6 DEF S
<1> QED
  BY <1>2, <1>3
-----------------------------------------------------------------------------
(* Entries that share a response *)

\* The entry e is the one for a key.
EntryAs(e, key, disc, response) ==
  /\ e.record.key = key
  /\ e.record.disc = disc
  /\ e.record.length = Len(response)
  /\ ~IsTombstone(e.record)
  /\ e.payload = response

\* A function on 1 .. n is a sequence.
LEMMA ListIsSeq ==
  ASSUME NEW Z, NEW n \in Nat, NEW s, s = [i \in 1..n |-> s[i]], \A i \in 1..n : s[i] \in Z
  PROVE  s \in Seq(Z) /\ Len(s) = n /\ DOMAIN s = 1..n
<1>1. s \in [1..n -> Z]
  OBVIOUS
<1> QED
  BY <1>1

\* An entry that is added to the builder.
LEMMA AddsEntry ==
  ASSUME NEW X, NEW key \in Int, NEW disc \in Int, NEW response \in Seq(X),
         NEW flags \in {{}, {"ALIAS", "MULTI"}},
         NEW e, e = [record |-> IndexRecord(key, disc, Len(response), flags), payload |-> response]
  PROVE  e \in BuilderEntry(X) /\ EntryAs(e, key, disc, response)
<1> DEFINE L == Len(response)
           r == IndexRecord(key, disc, L, flags)
<1>1. L \in Nat /\ 0 \in Nat
  OBVIOUS
<1>2. flags \in SUBSET {"ALIAS", "MULTI", "TOMBSTONE"} /\ "TOMBSTONE" \notin flags
  OBVIOUS
<1>3. r = [key |-> key, disc |-> disc, offset |-> 0, length |-> L, flags |-> flags]
  BY DEF IndexRecord
<1> HIDE DEF L
<1>4. r \in IndexEntry
  <2> DEFINE F == SUBSET {"ALIAS", "MULTI", "TOMBSTONE"}
  <2>1. flags \in F
    BY <1>2
  <2>2. IndexEntry = [key : Int, disc : Int, offset : Nat, length : Nat, flags : F]
    BY DEF IndexEntry
  <2> HIDE DEF F
  <2> QED
    BY <1>1, <1>3, <2>1, <2>2
<1>5. r.key = key /\ r.disc = disc /\ r.length = L /\ ~IsTombstone(r)
  <2>1. r.key = key /\ r.disc = disc /\ r.length = L /\ r.flags = flags
    BY <1>3
  <2> QED
    BY <1>2, <2>1 DEF IsTombstone
<1> HIDE DEF r
<1>6. e = [record |-> r, payload |-> response]
  BY DEF r, L
<1>7. e.record = r /\ e.payload = response
  BY <1>6
<1>8. e \in BuilderEntry(X)
  <2> DEFINE P == Seq(X)
  <2>1. response \in P
    OBVIOUS
  <2>2. BuilderEntry(X) = [record : IndexEntry, payload : P]
    BY DEF BuilderEntry
  <2> HIDE DEF P
  <2> QED
    BY <1>4, <1>6, <2>1, <2>2
<1> QED
  BY <1>5, <1>7, <1>8 DEF EntryAs, L

\* R is a sequence of entries for the first n keys.
EntriesFor(R, keys, n, disc, response, X) ==
  /\ R \in Seq(BuilderEntry(X))
  /\ Len(R) = n
  /\ \A k \in 1..n : EntryAs(R[k], keys[k], disc, response)

\* A pair.
LEMMA PairOf ==
  ASSUME NEW X, NEW keys \in Seq(Int), NEW disc \in Int, NEW response \in Seq(X),
         NEW i \in Nat, i # 0, 2 * i <= Len(keys)
  PROVE  /\ Pair(keys, i, disc, response) \in Seq(BuilderEntry(X))
         /\ Len(Pair(keys, i, disc, response)) = 2
         /\ EntryAs(Pair(keys, i, disc, response)[1], keys[2 * i - 1], disc, response)
         /\ EntryAs(Pair(keys, i, disc, response)[2], keys[2 * i], disc, response)
<1> DEFINE a == keys[2 * i - 1]
           b == keys[2 * i]
           flags == {"ALIAS", "MULTI"}
           E(key) == [record |-> IndexRecord(key, disc, Len(response), flags), payload |-> response]
           p == Pair(keys, i, disc, response)
           B == BuilderEntry(X)
<1>1. a \in Int /\ b \in Int
  <2>1. 2 * i - 1 \in 1..Len(keys) /\ 2 * i \in 1..Len(keys)
    OBVIOUS
  <2> QED
    BY <2>1
<1>2. flags \in {{}, {"ALIAS", "MULTI"}}
  OBVIOUS
<1>3. p = [k \in 1..2 |-> [record |-> IndexRecord(<<a, b>>[k], disc, Len(response), flags), payload |-> response]]
  BY DEF Pair, add_dual_entry
<1>4. <<a, b>>[1] = a /\ <<a, b>>[2] = b
  OBVIOUS
<1> HIDE DEF a, b
<1>5. E(a) \in B /\ EntryAs(E(a), a, disc, response)
  <2> HIDE DEF flags
  <2> QED
    BY <1>1, <1>2, AddsEntry
<1>6. E(b) \in B /\ EntryAs(E(b), b, disc, response)
  <2> HIDE DEF flags
  <2> QED
    BY <1>1, <1>2, AddsEntry
<1>7. p[1] = E(a) /\ p[2] = E(b) /\ DOMAIN p = 1..2
  BY <1>3, <1>4
<1>8. \A k \in 1..2 : p[k] \in B
  <2>1. \A k \in 1..2 : k = 1 \/ k = 2
    OBVIOUS
  <2> HIDE DEF p, E, B
  <2> QED
    BY <1>5, <1>6, <1>7, <2>1
<1>9. p = [k \in 1..2 |-> p[k]]
  BY <1>3
<1>10. p \in Seq(B) /\ Len(p) = 2
  <2> HIDE DEF p, B
  <2> QED
    BY <1>8, <1>9
<1> HIDE DEF p, E, B
<1> QED
  BY <1>5, <1>6, <1>7, <1>10 DEF p, a, b, B

\* A pair more.
LEMMA PairMore ==
  ASSUME NEW X, NEW keys \in Seq(Int), NEW disc \in Int, NEW response \in Seq(X),
         NEW R, NEW n \in Nat, EntriesFor(R, keys, n, disc, response, X),
         NEW S \in Seq(BuilderEntry(X)), NEW m \in 1..2, Len(S) = m,
         \A k \in 1..m : EntryAs(S[k], keys[n + k], disc, response)
  PROVE  EntriesFor(R \o S, keys, n + m, disc, response, X)
<1> DEFINE B == BuilderEntry(X)
           t == R \o S
<1>1. R \in Seq(B) /\ Len(R) = n /\ S \in Seq(B)
  BY DEF EntriesFor
<1> HIDE DEF B
<1>2. /\ t \in Seq(B) /\ Len(t) = n + m
      /\ \A k \in 1..n : t[k] = R[k]
      /\ \A k \in (n + 1)..(n + m) : t[k] = S[k - n]
  BY <1>1, ConcatProperties
<1> HIDE DEF t
<1>3. ASSUME NEW k \in 1..(n + m) PROVE EntryAs(t[k], keys[k], disc, response)
  <2>1. CASE k <= n
    <3>1. k \in 1..n
      BY <2>1
    <3> QED
      BY <1>2, <3>1 DEF EntriesFor
  <2>2. CASE ~(k <= n)
    <3>1. k - n \in 1..m /\ n + (k - n) = k /\ k \in (n + 1)..(n + m)
      BY <2>2
    <3>2. EntryAs(S[k - n], keys[n + (k - n)], disc, response)
      BY <3>1
    <3> QED
      BY <1>2, <3>1, <3>2
  <2> QED
    BY <2>1, <2>2
<1> QED
  BY <1>2, <1>3 DEF EntriesFor, t, B

\* The pairs of a bucket.
LEMMA PairsFor ==
  ASSUME NEW X, NEW keys \in Seq(Int), NEW disc \in Int, NEW response \in Seq(X),
         NEW N \in Nat, 2 * N <= Len(keys)
  PROVE  EntriesFor(FlattenSeq([i \in 1..N |-> Pair(keys, i, disc, response)]), keys, 2 * N, disc, response, X)
<1> DEFINE ss == [i \in 1..N |-> Pair(keys, i, disc, response)]
           B == BuilderEntry(X)
<1>0. ASSUME NEW i \in 1..N
      PROVE  /\ ss[i] \in Seq(B) /\ Len(ss[i]) = 2
             /\ EntryAs(ss[i][1], keys[2 * i - 1], disc, response)
             /\ EntryAs(ss[i][2], keys[2 * i], disc, response)
  <2>1. i \in Nat /\ i # 0 /\ 2 * i <= Len(keys) /\ ss[i] = Pair(keys, i, disc, response)
    OBVIOUS
  <2> DEFINE p == Pair(keys, i, disc, response)
  <2>2. /\ p \in Seq(B) /\ Len(p) = 2
        /\ EntryAs(p[1], keys[2 * i - 1], disc, response)
        /\ EntryAs(p[2], keys[2 * i], disc, response)
    BY <2>1, PairOf
  <2> HIDE DEF ss, p
  <2> QED
    BY <2>1, <2>2 DEF p
<1>1. ss \in Seq(Seq(B)) /\ Len(ss) = N
  <2>1. ss = [i \in 1..N |-> ss[i]]
    OBVIOUS
  <2> HIDE DEF ss
  <2> DEFINE Z == Seq(B)
  <2>2. \A i \in 1..N : ss[i] \in Z
    BY <1>0
  <2> HIDE DEF Z
  <2> QED
    BY <2>1, <2>2, ListIsSeq DEF Z
<1> HIDE DEF ss
<1>2. CASE N = 0
  <2>1. FlattenSeq(ss) = <<>>
    <3>1. Len(ss) = 0
      BY <1>1, <1>2
    <3>2. ss = <<>>
      BY <1>1, <3>1
    <3> QED
      BY <3>1, <3>2 DEF FlattenSeq
  <2>2. EntriesFor(<<>>, keys, 2 * N, disc, response, X)
    BY <1>2 DEF EntriesFor
  <2> QED
    BY <2>1, <2>2 DEF ss
<1>3. CASE N # 0
  <2>1. PICK f : /\ FlattenSeq(ss) = f[N]
                 /\ \A i \in 1..N : f[i] = IF i = 1 THEN ss[i] ELSE f[i - 1] \o ss[i]
    <3> HIDE DEF B
    <3> QED
      BY <1>1, <1>3, FlattenSteps
  <2> DEFINE S == {n \in Nat : n + 1 <= N => EntriesFor(f[n + 1], keys, 2 * (n + 1), disc, response, X)}
  <2>2. 0 \in S
    <3>1. 1 \in 1..N /\ 2 * 1 = 2 /\ 2 * 1 - 1 = 1 /\ 0 + 1 = 1 /\ 2 * (0 + 1) = 2
      BY <1>3
    <3>2. f[1] = ss[1]
      BY <2>1, <3>1
    <3>3. /\ ss[1] \in Seq(B) /\ Len(ss[1]) = 2
          /\ EntryAs(ss[1][1], keys[2 * 1 - 1], disc, response)
          /\ EntryAs(ss[1][2], keys[2 * 1], disc, response)
      BY <1>0, <3>1
    <3>4. \A k \in 1..2 : k = 1 \/ k = 2
      OBVIOUS
    <3>5. EntriesFor(ss[1], keys, 2, disc, response, X)
      BY <3>1, <3>3, <3>4 DEF EntriesFor
    <3> QED
      BY <3>1, <3>2, <3>5
  <2>3. ASSUME NEW n \in Nat, n \in S PROVE n + 1 \in S
    <3> SUFFICES ASSUME (n + 1) + 1 <= N PROVE EntriesFor(f[(n + 1) + 1], keys, 2 * ((n + 1) + 1), disc, response, X)
      OBVIOUS
    <3> DEFINE k == n + 1
               w == 2 * k
    <3>1. k \in Nat /\ k + 1 \in 1..N /\ k + 1 # 1 /\ (k + 1) - 1 = k /\ k <= N
      OBVIOUS
    <3>2. w \in Nat /\ 2 * (k + 1) = w + 2 /\ 2 * (k + 1) - 1 = w + 1
      OBVIOUS
    <3>3. EntriesFor(f[k], keys, w, disc, response, X)
      BY <2>3, <3>1
    <3>4. f[k + 1] = f[k] \o ss[k + 1]
      BY <2>1, <3>1
    <3>5. /\ ss[k + 1] \in Seq(B) /\ Len(ss[k + 1]) = 2
          /\ EntryAs(ss[k + 1][1], keys[w + 1], disc, response)
          /\ EntryAs(ss[k + 1][2], keys[w + 2], disc, response)
      BY <1>0, <3>1, <3>2
    <3>6. \A j \in 1..2 : j = 1 \/ j = 2
      OBVIOUS
    <3> HIDE DEF w, k
    <3>7. \A j \in 1..2 : EntryAs(ss[k + 1][j], keys[w + j], disc, response)
      BY <3>5, <3>6
    <3>8. EntriesFor(f[k] \o ss[k + 1], keys, w + 2, disc, response, X)
      <4>1. 2 \in 1..2
        OBVIOUS
      <4> QED
        BY <3>2, <3>3, <3>5, <3>7, <4>1, PairMore
    <3> QED
      BY <3>2, <3>4, <3>8 DEF k
  <2> HIDE DEF S
  <2>4. N - 1 \in Nat /\ (N - 1) + 1 = N
    BY <1>3
  <2>5. \A n \in Nat : n \in S
    BY <2>2, <2>3, Induction
  <2>6. N - 1 \in S
    BY <2>4, <2>5
  <2> QED
    BY <2>1, <2>4, <2>6 DEF S, ss
<1> QED
  BY <1>2, <1>3

\* All keys of a bucket get an entry with its response, also the odd one out.
LEMMA SharedFor ==
  ASSUME NEW X, NEW keys \in Seq(Int), NEW disc \in Int, NEW response \in Seq(X)
  PROVE  EntriesFor(add_shared_entries(keys, disc, response), keys, Len(keys), disc, response, X)
<1> DEFINE L == Len(keys)
           N == L \div 2
           pairs == FlattenSeq([i \in 1..N |-> Pair(keys, i, disc, response)])
           B == BuilderEntry(X)
<1>1. L \in Nat /\ N \in Nat /\ 2 * N <= L /\ L = 2 * N + (L % 2) /\ (L % 2 = 0 \/ L % 2 = 1)
  OBVIOUS
<1>2. add_shared_entries(keys, disc, response) =
        pairs \o (IF L % 2 = 1 THEN add_entry(keys[L], disc, response) ELSE <<>>)
  BY DEF add_shared_entries
<1> HIDE DEF N
<1>3. EntriesFor(pairs, keys, 2 * N, disc, response, X)
  BY <1>1, PairsFor
<1> HIDE DEF pairs
<1>4. CASE L % 2 = 1
  <2> DEFINE e == [record |-> IndexRecord(keys[L], disc, Len(response), {}), payload |-> response]
             S == add_entry(keys[L], disc, response)
  <2>1. S = <<e>>
    BY DEF add_entry
  <2>2. L \in 1..L /\ keys[L] \in Int /\ L = 2 * N + 1 /\ 2 * N \in Nat
    BY <1>1, <1>4
  <2>3. e \in B /\ EntryAs(e, keys[L], disc, response)
    <3> DEFINE flags == {}
    <3>1. flags \in {{}, {"ALIAS", "MULTI"}} /\ e = [record |-> IndexRecord(keys[L], disc, Len(response), flags), payload |-> response]
      OBVIOUS
    <3> HIDE DEF flags, e
    <3> QED
      BY <2>2, <3>1, AddsEntry
  <2> HIDE DEF e, B
  <2>4. S \in Seq(B) /\ Len(S) = 1 /\ S[1] = e
    BY <2>1, <2>3
  <2>5. \A k \in 1..1 : EntryAs(S[k], keys[2 * N + k], disc, response)
    <3>1. \A k \in 1..1 : k = 1
      OBVIOUS
    <3> QED
      BY <2>2, <2>3, <2>4, <3>1
  <2> DEFINE w == 2 * N
  <2> HIDE DEF S
  <2>6. EntriesFor(pairs \o S, keys, w + 1, disc, response, X)
    <3>1. 1 \in 1..2 /\ w \in Nat
      BY <2>2
    <3>2. S \in Seq(BuilderEntry(X))
      BY <2>4 DEF B
    <3>3. EntriesFor(pairs, keys, w, disc, response, X) /\ \A k \in 1..1 : EntryAs(S[k], keys[w + k], disc, response)
      BY <1>3, <2>5
    <3> HIDE DEF w
    <3> QED
      BY <2>4, <3>1, <3>2, <3>3, PairMore
  <2> QED
    BY <1>2, <1>4, <2>2, <2>6 DEF S
<1>5. CASE L % 2 # 1
  <2>1. 2 * N = L
    BY <1>1, <1>5
  <2>2. pairs \o <<>> = pairs
    BY <1>3 DEF EntriesFor
  <2> QED
    BY <1>2, <1>3, <1>5, <2>1, <2>2
<1> QED
  BY <1>4, <1>5
-----------------------------------------------------------------------------
(* Buckets *)

\* The buckets lo[b] + 1 .. hi[b] are non-empty and cover 1 .. n, one after the other.
Chopped(lo, hi, count, n) ==
  /\ count \in Nat
  /\ \A b \in 1..count : lo[b] \in Nat /\ hi[b] \in Nat /\ lo[b] < hi[b] /\ hi[b] <= n
  /\ \A u \in 1..n : \E b \in 1..count : lo[b] < u /\ u <= hi[b]
  /\ \A b, c \in 1..count : b < c => hi[b] <= lo[c]

\* Division with remainder.
LEMMA Quotient ==
  ASSUME NEW n \in Nat, NEW size \in Nat, size # 0, NEW q, q = n \div size
  PROVE  q \in Nat /\ q * size <= n /\ n < q * size + size
OBVIOUS

\* Products keep the order.
LEMMA ProductOrder ==
  ASSUME NEW size \in Nat, size # 0, NEW a \in Nat, NEW b \in Nat
  PROVE  /\ a * size \in Nat
         /\ a <= b => a * size <= b * size
         /\ a < b => a * size + size <= b * size
         /\ (a + 1) * size = a * size + size
OBVIOUS

\* Buckets of a size: the last one may be smaller.
LEMMA Buckets ==
  ASSUME NEW n \in Nat, NEW size \in Nat, size # 0, NEW count, count = (n + size - 1) \div size,
         NEW lo, lo = [b \in 1..count |-> (b - 1) * size],
         NEW hi, hi = [b \in 1..count |-> IF b * size < n THEN b * size ELSE n]
  PROVE  Chopped(lo, hi, count, n)
<1>1. n + size - 1 \in Nat
  OBVIOUS
<1>2. count \in Nat /\ count * size <= n + size - 1 /\ n + size - 1 < count * size + size
  BY <1>1, Quotient
<1>3. ASSUME NEW b \in 1..count
      PROVE  /\ b \in Nat /\ b - 1 \in Nat
             /\ (b - 1) * size \in Nat /\ b * size \in Nat /\ b * size = (b - 1) * size + size
             /\ (b - 1) * size < n
  <2> DEFINE a == b - 1
  <2>1. a \in Nat /\ a + 1 = b /\ a < count /\ b \in Nat
    BY <1>2
  <2> HIDE DEF a
  <2>2. a * size \in Nat /\ a * size + size <= count * size /\ (a + 1) * size = a * size + size
    BY <1>2, <2>1, ProductOrder
  <2>3. b * size = a * size + size
    BY <2>1, <2>2
  <2>4. count * size \in Nat
    BY <1>2, ProductOrder
  <2>5. a * size < n
    BY <1>2, <2>2, <2>4
  <2> QED
    BY <2>1, <2>2, <2>3, <2>5 DEF a
<1>4. ASSUME NEW b \in 1..count
      PROVE  lo[b] = (b - 1) * size /\ hi[b] = IF b * size < n THEN b * size ELSE n
  OBVIOUS
<1>5. ASSUME NEW b \in 1..count PROVE lo[b] \in Nat /\ hi[b] \in Nat /\ lo[b] < hi[b] /\ hi[b] <= n
  <2> DEFINE x == (b - 1) * size
             y == b * size
  <2>1. x \in Nat /\ y \in Nat /\ y = x + size /\ x < n
    BY <1>3
  <2>2. lo[b] = x /\ hi[b] = IF y < n THEN y ELSE n
    BY <1>4
  <2> HIDE DEF x, y
  <2> QED
    BY <2>1, <2>2
<1>6. ASSUME NEW u \in 1..n PROVE \E b \in 1..count : lo[b] < u /\ u <= hi[b]
  <2> DEFINE q == (u - 1) \div size
             b == q + 1
  <2>1. u - 1 \in Nat
    OBVIOUS
  <2>2. q \in Nat /\ q * size <= u - 1 /\ u - 1 < q * size + size
    BY <2>1, Quotient
  <2> HIDE DEF q
  <2>3. q * size \in Nat /\ (q + 1) * size = q * size + size
    BY <2>2, ProductOrder
  <2>4. q < count
    <3> SUFFICES ASSUME count <= q PROVE FALSE
      BY <1>2, <2>2
    <3>1. count * size <= q * size /\ count * size \in Nat
      BY <1>2, <2>2, ProductOrder
    <3> QED
      BY <1>2, <2>2, <2>3, <3>1
  <2>5. b \in 1..count /\ b - 1 = q
    BY <1>2, <2>2, <2>4
  <2>6. lo[b] = q * size /\ hi[b] = IF q * size + size < n THEN q * size + size ELSE n
    BY <1>4, <2>3, <2>5
  <2> DEFINE x == q * size
  <2>7. lo[b] < u /\ u <= hi[b]
    <3>1. x \in Nat /\ x <= u - 1 /\ u - 1 < x + size /\ lo[b] = x /\ hi[b] = IF x + size < n THEN x + size ELSE n
      BY <2>2, <2>3, <2>6
    <3> HIDE DEF x, b
    <3> QED
      BY <3>1
  <2> QED
    BY <2>5, <2>7
<1>7. ASSUME NEW b \in 1..count, NEW c \in 1..count, b < c PROVE hi[b] <= lo[c]
  <2> DEFINE d == c - 1
             x == b * size
             y == d * size
  <2>1. b \in Nat /\ d \in Nat /\ b <= d
    BY <1>2, <1>7
  <2>2. x <= y /\ x \in Nat /\ y \in Nat
    <3> HIDE DEF d
    <3> QED
      BY <2>1, ProductOrder
  <2>3. hi[b] = (IF x < n THEN x ELSE n) /\ lo[c] = y
    BY <1>4
  <2> HIDE DEF x, y
  <2> QED
    BY <2>2, <2>3
<1> QED
  BY <1>2, <1>5, <1>6, <1>7 DEF Chopped

\* The member e is in the j-th place of the u-th sequence, one of the bucket.
In(ss, lo, hi, u, j, e) == lo < u /\ u <= hi /\ j \in 1..Len(ss[u]) /\ ss[u][j] = e

\* d and e are in two places of the bucket.
TwoIn(ss, lo, hi, d, e) ==
  \E u, j, x, y \in Nat : In(ss, lo, hi, u, j, d) /\ In(ss, lo, hi, x, y, e) /\ (u # x \/ j # y)

\* flat has the members of the sequences of a bucket, each in a place of its own.
PartOf(flat, ss, lo, hi, E) ==
  /\ flat \in Seq(E)
  /\ \A k \in 1..Len(flat) : \E u, j \in Nat : In(ss, lo, hi, u, j, flat[k])
  /\ \A u \in 1..Len(ss) : \A j \in 1..Len(ss[u]) :
       lo < u /\ u <= hi => \E k \in 1..Len(flat) : flat[k] = ss[u][j]
  /\ \A k, l \in 1..Len(flat) : k < l =>
       TwoIn(ss, lo, hi, flat[k], flat[l])

\* Flattening a bucket.
LEMMA BucketFlat ==
  ASSUME NEW E, NEW ss \in Seq(Seq(E)), NEW lo \in Nat, NEW hi \in Nat, lo < hi, hi <= Len(ss),
         NEW part \in Seq(Seq(E)), Len(part) = hi - lo, \A i \in 1..(hi - lo) : part[i] = ss[lo + i]
  PROVE  PartOf(FlattenSeq(part), ss, lo, hi, E)
<1> DEFINE flat == FlattenSeq(part)
           n == hi - lo
<1>1. FlatOf(flat, part, n, E) /\ n \in Nat
  BY Flattened
<1> HIDE DEF flat
<1>2. ASSUME NEW i \in Nat, NEW j \in Nat, NEW e, At(part, n, i, j, e)
      PROVE  lo + i \in Nat /\ In(ss, lo, hi, lo + i, j, e)
  <2>1. i \in 1..n /\ j \in 1..Len(part[i]) /\ part[i][j] = e
    BY <1>2 DEF At
  <2>2. lo + i \in Nat /\ lo < lo + i /\ lo + i <= hi /\ part[i] = ss[lo + i]
    BY <2>1
  <2> QED
    BY <2>1, <2>2 DEF In
<1>3. ASSUME NEW k \in 1..Len(flat) PROVE \E u, j \in Nat : In(ss, lo, hi, u, j, flat[k])
  <2>1. PICK i \in Nat, j \in Nat : At(part, n, i, j, flat[k])
    BY <1>1 DEF FlatOf
  <2> QED
    BY <1>2, <2>1
<1>4. ASSUME NEW u \in 1..Len(ss), NEW j \in 1..Len(ss[u]), lo < u, u <= hi
      PROVE  \E k \in 1..Len(flat) : flat[k] = ss[u][j]
  <2> DEFINE i == u - lo
  <2>1. i \in 1..n /\ lo + i = u
    BY <1>4
  <2>2. part[i] = ss[u]
    BY <2>1
  <2> HIDE DEF i
  <2>3. j \in 1..Len(part[i])
    BY <2>2
  <2>4. \E k \in 1..Len(flat) : flat[k] = part[i][j]
    BY <1>1, <2>1, <2>3 DEF FlatOf
  <2> QED
    BY <2>2, <2>4
<1>5. ASSUME NEW k \in 1..Len(flat), NEW l \in 1..Len(flat), k < l
      PROVE  TwoIn(ss, lo, hi, flat[k], flat[l])
  <2>1. PICK i \in Nat, j \in Nat, x \in Nat, y \in Nat :
           At(part, n, i, j, flat[k]) /\ At(part, n, x, y, flat[l]) /\ (i < x \/ (i = x /\ j < y))
    BY <1>1, <1>5 DEF FlatOf
  <2>2. lo + i # lo + x \/ j # y
    BY <2>1
  <2>3. lo + i \in Nat /\ In(ss, lo, hi, lo + i, j, flat[k]) /\ lo + x \in Nat /\ In(ss, lo, hi, lo + x, y, flat[l])
    BY <1>2, <2>1
  <2> QED
    BY <2>2, <2>3, SMTT(30) DEF TwoIn
<1> QED
  BY <1>1, <1>3, <1>4, <1>5 DEF PartOf, FlatOf, flat
-----------------------------------------------------------------------------
(* Signing *)

\* The members of a bucket.
LEMMA BucketIs ==
  ASSUME NEW Z, NEW P \in Seq(Z), NEW lo \in Nat, NEW hi \in Nat, lo < hi, hi <= Len(P),
         NEW bucket, bucket = SubSeq(P, lo + 1, hi)
  PROVE  DOMAIN bucket = 1..(hi - lo) /\ \A i \in 1..(hi - lo) : bucket[i] = P[lo + i]
<1> DEFINE n == hi - lo
<1>1. lo + 1 \in 1..(Len(P) + 1) /\ hi \in lo..Len(P)
  OBVIOUS
<1>2. /\ bucket \in Seq(Z)
      /\ Len(bucket) = IF lo + 1 <= hi THEN hi - (lo + 1) + 1 ELSE 0
      /\ \A i \in 1..(hi - (lo + 1) + 1) : bucket[i] = P[(lo + 1) + i - 1]
  BY <1>1, SubSeqProperties
<1>3. Len(bucket) = n
  BY <1>2
<1>4. ASSUME NEW i \in 1..n PROVE bucket[i] = P[lo + i]
  <2>1. i \in 1..(hi - (lo + 1) + 1) /\ (lo + 1) + i - 1 = lo + i
    OBVIOUS
  <2> QED
    BY <1>2, <2>1
<1>5. DOMAIN bucket = 1..n
  BY <1>2, <1>3
<1> QED
  BY <1>4, <1>5

\* part is the bucket's part of K.
PartFor(part, K, lo, hi, E) ==
  /\ K \in Seq(Seq(E))
  /\ lo \in Nat /\ hi \in Nat /\ lo < hi /\ hi <= Len(K)
  /\ part = [i \in 1..(hi - lo) |-> part[i]]
  /\ \A i \in 1..(hi - lo) : part[i] = K[lo + i]

\* It is flattened.
LEMMA BucketPart ==
  ASSUME NEW E, NEW part, NEW K, NEW lo, NEW hi, PartFor(part, K, lo, hi, E)
  PROVE  PartOf(FlattenSeq(part), K, lo, hi, E)
<1> DEFINE n == hi - lo
           Y == Seq(E)
<1>1. /\ K \in Seq(Y) /\ lo \in Nat /\ hi \in Nat /\ lo < hi /\ hi <= Len(K)
      /\ part = [i \in 1..n |-> part[i]]
      /\ \A i \in 1..n : part[i] = K[lo + i]
  BY DEF PartFor
<1>2. n \in Nat /\ Len(K) \in Nat
  BY <1>1
<1> HIDE DEF Y
<1>3. ASSUME NEW i \in 1..n PROVE part[i] \in Y
  <2>1. lo + i \in 1..Len(K)
    BY <1>1, <1>2
  <2> QED
    BY <1>1, <2>1
<1> HIDE DEF n
<1>4. part \in Seq(Y) /\ Len(part) = n
  BY <1>1, <1>2, <1>3, ListIsSeq
<1> QED
  BY <1>1, <1>4, BucketFlat DEF Y, n

\* d and e are in two places.
TwoAt(ss, d, e) ==
  \E u, j, x, y \in Nat : At(ss, Len(ss), u, j, d) /\ At(ss, Len(ss), x, y, e) /\ (u # x \/ j # y)

\* The response p speaks for the u-th entry, and says everything once.
SpeaksFor(p, G, u, signer) ==
  /\ \A y \in DOMAIN p : p[y].signer = signer
  /\ \A g \in 1..Len(G[u]) : \E y \in DOMAIN p : p[y].single = G[u][g]
  /\ \A y, z \in DOMAIN p : y < z =>
       TwoAt(G, p[y].single, p[z].single)

\* A place in a bucket is a place.
LEMMA InIsAt ==
  ASSUME NEW E, NEW ss \in Seq(Seq(E)), NEW lo \in Nat, NEW hi \in Nat, hi <= Len(ss),
         NEW u \in Nat, NEW j \in Nat, NEW e, In(ss, lo, hi, u, j, e)
  PROVE  At(ss, Len(ss), u, j, e)
<1>1. u \in 1..Len(ss)
  BY DEF In
<1> QED
  BY <1>1 DEF In, At

\* Two places in a bucket are two places.
LEMMA TwoInAreTwo ==
  ASSUME NEW E, NEW ss \in Seq(Seq(E)), NEW lo \in Nat, NEW hi \in Nat, hi <= Len(ss),
         NEW d, NEW e, TwoIn(ss, lo, hi, d, e)
  PROVE  TwoAt(ss, d, e)
<1>1. PICK u \in Nat, j \in Nat, x \in Nat, y \in Nat :
         In(ss, lo, hi, u, j, d) /\ In(ss, lo, hi, x, y, e) /\ (u # x \/ j # y)
  BY DEF TwoIn
<1>2. At(ss, Len(ss), u, j, d) /\ At(ss, Len(ss), x, y, e)
  BY <1>1, InIsAt
<1> QED
  BY <1>1, <1>2 DEF TwoAt

\* r signs the members of flat, and Q is signed into X.
Signs(r, flat, signer, at, Q, X) ==
  /\ r = [i \in DOMAIN flat |-> r[i]]
  /\ \A i \in DOMAIN flat : r[i] = [single |-> flat[i], signer |-> signer, produced_at |-> at]
  /\ \A q \in Q : [single |-> q, signer |-> signer, produced_at |-> at] \in X

\* r speaks for all of the bucket.
SpeaksForAll(r, G, lo, hi, signer) ==
  \A u \in 1..Len(G) : lo < u /\ u <= hi => SpeaksFor(r, G, u, signer)

\* The response of a bucket speaks for all of it.
LEMMA SignsBucket ==
  ASSUME NEW Q, NEW G \in Seq(Seq(Q)), NEW lo \in Nat, NEW hi \in Nat, hi <= Len(G),
         NEW flat, PartOf(flat, G, lo, hi, Q), NEW signer, NEW at, NEW X,
         NEW r, Signs(r, flat, signer, at, Q, X)
  PROVE  r \in Seq(X) /\ SpeaksForAll(r, G, lo, hi, signer)
<1> DEFINE N == Len(flat)
<1>1. flat \in Seq(Q) /\ N \in Nat /\ DOMAIN flat = 1..N /\ \A i \in 1..N : flat[i] \in Q
  BY DEF PartOf
<1>2. DOMAIN r = 1..N /\ \A i \in 1..N : r[i] \in X /\ r[i].single = flat[i] /\ r[i].signer = signer
  BY <1>1 DEF Signs
<1>3. r = [i \in 1..N |-> r[i]]
  BY <1>1 DEF Signs
<1> HIDE DEF N
<1>4. r \in Seq(X)
  BY <1>1, <1>2, <1>3, ListIsSeq
<1>5. ASSUME NEW u \in 1..Len(G), lo < u, u <= hi PROVE SpeaksFor(r, G, u, signer)
  <2>1. ASSUME NEW g \in 1..Len(G[u]) PROVE \E y \in DOMAIN r : r[y].single = G[u][g]
    <3>1. PICK y \in 1..N : flat[y] = G[u][g]
      BY <1>5 DEF PartOf, N
    <3> QED
      BY <1>2, <3>1
  <2>2. ASSUME NEW y \in DOMAIN r, NEW z \in DOMAIN r, y < z
        PROVE  TwoAt(G, r[y].single, r[z].single)
    <3>1. y \in 1..N /\ z \in 1..N /\ r[y].single = flat[y] /\ r[z].single = flat[z]
      BY <1>2
    <3>2. TwoIn(G, lo, hi, flat[y], flat[z])
      BY <2>2, <3>1 DEF PartOf, N
    <3>3. TwoAt(G, flat[y], flat[z])
      BY <3>2, TwoInAreTwo
    <3> QED
      BY <3>1, <3>3
  <2>3. \A y \in DOMAIN r : r[y].signer = signer
    BY <1>2
  <2> QED
    BY <2>1, <2>2, <2>3 DEF SpeaksFor
<1> QED
  BY <1>4, <1>5 DEF SpeaksForAll

\* The entries S were signed for the keys K and the single responses G.
SignedAs(S, K, G, signer, disc, X) ==
  /\ S \in Seq(BuilderEntry(X))
  /\ \A k \in 1..Len(S) : EntryAs(S[k], S[k].record.key, disc, S[k].payload)
  /\ \A k \in 1..Len(S) : \E u, j \in Nat : At(K, Len(K), u, j, S[k].record.key)
  /\ \A u \in 1..Len(K) : \A j \in 1..Len(K[u]) :
       \E k \in 1..Len(S) : S[k].record.key = K[u][j] /\ SpeaksFor(S[k].payload, G, u, signer)
  /\ \A k, l \in 1..Len(S) : k < l =>
       TwoAt(K, S[k].record.key, S[l].record.key)

\* Every bucket has its keys and its response, and ss its entries.
BucketsOf(ss, keys, resp, K, G, lo, hi, count, signer, disc, X) ==
  /\ ss = [b \in 1..count |-> ss[b]]
  /\ \A b \in 1..count : /\ PartOf(keys[b], K, lo[b], hi[b], Int)
                         /\ resp[b] \in Seq(X)
                         /\ SpeaksForAll(resp[b], G, lo[b], hi[b], signer)
                         /\ ss[b] = add_shared_entries(keys[b], disc, resp[b])

\* What the entries of the buckets are.
LEMMA SignedBuckets ==
  ASSUME NEW Q, NEW X, NEW K \in Seq(Seq(Int)), NEW G \in Seq(Seq(Q)), Len(G) = Len(K),
         NEW lo, NEW hi, NEW count, Chopped(lo, hi, count, Len(K)),
         NEW signer, NEW disc \in Int, NEW keys, NEW resp, NEW ss,
         BucketsOf(ss, keys, resp, K, G, lo, hi, count, signer, disc, X)
  PROVE  SignedAs(FlattenSeq(ss), K, G, signer, disc, X)
<1> DEFINE B == BuilderEntry(X)
           S == FlattenSeq(ss)
           N == Len(K)
<1>0. count \in Nat /\ N \in Nat
  BY DEF Chopped
<1> USE DEF BucketsOf
<1>a. \A b \in 1..count : PartOf(keys[b], K, lo[b], hi[b], Int)
  OBVIOUS
<1>b. \A b \in 1..count : SpeaksForAll(resp[b], G, lo[b], hi[b], signer)
  OBVIOUS
<1>c. \A b \in 1..count : resp[b] \in Seq(X) /\ ss[b] = add_shared_entries(keys[b], disc, resp[b])
  OBVIOUS
<1>d. ss = [b \in 1..count |-> ss[b]]
  OBVIOUS
<1> HIDE DEF BucketsOf
<1>1. ASSUME NEW b \in 1..count
      PROVE  /\ keys[b] \in Seq(Int)
             /\ EntriesFor(ss[b], keys[b], Len(keys[b]), disc, resp[b], X)
  <2>1. keys[b] \in Seq(Int)
    BY <1>a DEF PartOf
  <2> QED
    BY <1>c, <2>1, SharedFor
<1>2. ss \in Seq(Seq(B)) /\ Len(ss) = count
  <2> DEFINE Z == Seq(B)
  <2>1. \A b \in 1..count : ss[b] \in Z
    BY <1>1 DEF EntriesFor
  <2> HIDE DEF Z, B
  <2>3. ss \in Seq(Z) /\ Len(ss) = count
    BY <1>0, <1>d, <2>1, ListIsSeq
  <2> QED
    BY <2>3 DEF Z
<1>3. FlatOf(S, ss, count, B)
  <2> HIDE DEF B
  <2> QED
    BY <1>2, Flattened
<1> HIDE DEF S
<1>4. ASSUME NEW b \in Nat, NEW x \in Nat, NEW e, At(ss, count, b, x, e)
      PROVE  b \in 1..count /\ x \in 1..Len(keys[b]) /\ EntryAs(e, keys[b][x], disc, resp[b])
  <2>1. b \in 1..count /\ x \in 1..Len(ss[b]) /\ ss[b][x] = e
    BY <1>4 DEF At
  <2>2. EntriesFor(ss[b], keys[b], Len(keys[b]), disc, resp[b], X)
    BY <1>1, <2>1
  <2> QED
    BY <2>1, <2>2 DEF EntriesFor
<1>5. ASSUME NEW b \in 1..count, NEW x \in 1..Len(keys[b])
      PROVE  \E u, j \in Nat : In(K, lo[b], hi[b], u, j, keys[b][x])
  BY <1>a DEF PartOf
<1>6. ASSUME NEW b \in 1..count PROVE lo[b] \in Nat /\ hi[b] \in Nat /\ hi[b] <= N
  BY DEF Chopped
<1>7. ASSUME NEW k \in 1..Len(S)
      PROVE  /\ EntryAs(S[k], S[k].record.key, disc, S[k].payload)
             /\ \E u, j \in Nat : At(K, N, u, j, S[k].record.key)
  <2>1. PICK b \in Nat, x \in Nat : At(ss, count, b, x, S[k])
    BY <1>3 DEF FlatOf
  <2>2. b \in 1..count /\ x \in 1..Len(keys[b]) /\ EntryAs(S[k], keys[b][x], disc, resp[b])
    BY <1>4, <2>1
  <2>3. S[k].record.key = keys[b][x]
    BY <2>2 DEF EntryAs
  <2>4. PICK u \in Nat, j \in Nat : In(K, lo[b], hi[b], u, j, keys[b][x])
    BY <1>5, <2>2
  <2>5. At(K, N, u, j, keys[b][x])
    BY <1>6, <2>2, <2>4, InIsAt
  <2>6. EntryAs(S[k], S[k].record.key, disc, S[k].payload)
    BY <2>2 DEF EntryAs
  <2> QED
    BY <2>3, <2>5, <2>6
<1>8. ASSUME NEW u \in 1..N, NEW j \in 1..Len(K[u])
      PROVE  \E k \in 1..Len(S) : S[k].record.key = K[u][j] /\ SpeaksFor(S[k].payload, G, u, signer)
  <2>1. PICK b \in 1..count : lo[b] < u /\ u <= hi[b]
    BY DEF Chopped
  <2>2. PICK x \in 1..Len(keys[b]) : keys[b][x] = K[u][j]
    BY <1>a, <2>1 DEF PartOf
  <2>3. EntriesFor(ss[b], keys[b], Len(keys[b]), disc, resp[b], X)
    BY <1>1
  <2>4. x \in 1..Len(ss[b]) /\ EntryAs(ss[b][x], keys[b][x], disc, resp[b])
    BY <2>3 DEF EntriesFor
  <2>5. PICK k \in 1..Len(S) : S[k] = ss[b][x]
    BY <1>3, <2>4 DEF FlatOf
  <2>6. S[k].record.key = K[u][j] /\ S[k].payload = resp[b]
    BY <2>2, <2>4, <2>5 DEF EntryAs
  <2>7. SpeaksFor(resp[b], G, u, signer)
    BY <1>b, <2>1 DEF SpeaksForAll
  <2> QED
    BY <2>6, <2>7
<1>9. ASSUME NEW k \in 1..Len(S), NEW l \in 1..Len(S), k < l
      PROVE  TwoAt(K, S[k].record.key, S[l].record.key)
  <2>1. PICK b \in Nat, x \in Nat, c \in Nat, y \in Nat :
           At(ss, count, b, x, S[k]) /\ At(ss, count, c, y, S[l]) /\ (b < c \/ (b = c /\ x < y))
    BY <1>3, <1>9 DEF FlatOf
  <2>2. /\ b \in 1..count /\ x \in 1..Len(keys[b]) /\ S[k].record.key = keys[b][x]
        /\ c \in 1..count /\ y \in 1..Len(keys[c]) /\ S[l].record.key = keys[c][y]
    BY <1>4, <2>1 DEF EntryAs
  <2>3. CASE b < c
    <3>1. PICK u \in Nat, j \in Nat : In(K, lo[b], hi[b], u, j, keys[b][x])
      BY <1>5, <2>2
    <3>2. PICK v \in Nat, i \in Nat : In(K, lo[c], hi[c], v, i, keys[c][y])
      BY <1>5, <2>2
    <3>3. hi[b] <= lo[c]
      BY <2>2, <2>3 DEF Chopped
    <3>4. lo[b] \in Nat /\ hi[b] \in Nat /\ lo[c] \in Nat
      BY <1>6, <2>2
    <3>5. u # v
      BY <3>1, <3>2, <3>3, <3>4 DEF In
    <3>6. At(K, N, u, j, keys[b][x]) /\ At(K, N, v, i, keys[c][y])
      BY <1>6, <2>2, <3>1, <3>2, InIsAt
    <3> QED
      BY <2>2, <3>5, <3>6 DEF TwoAt
  <2>4. CASE b = c /\ x < y
    <3>0. PartOf(keys[b], K, lo[b], hi[b], Int) /\ x \in 1..Len(keys[b]) /\ y \in 1..Len(keys[b])
      BY <1>a, <2>2, <2>4
    <3>1. TwoIn(K, lo[b], hi[b], keys[b][x], keys[b][y])
      BY <2>4, <3>0 DEF PartOf
    <3>2. TwoAt(K, keys[b][x], keys[b][y])
      BY <1>6, <2>2, <3>1, TwoInAreTwo
    <3> QED
      BY <2>2, <2>4, <3>2
  <2> QED
    BY <2>1, <2>3, <2>4
<1>10. S \in Seq(B)
  BY <1>3 DEF FlatOf
<1>11. SignedAs(S, K, G, signer, disc, X)
  BY <1>7, <1>8, <1>9, <1>10 DEF SignedAs
<1> QED
  BY <1>11 DEF S

\* sign_and_add_entries: every key gets an entry, and no place two.
LEMMA SignsAll ==
  ASSUME config.bucket_size \in Nat, NEW Z, NEW P \in Seq(Z), NEW Q, NEW X,
         NEW K, K = [u \in DOMAIN P |-> P[u].keys], K \in Seq(Seq(Int)),
         NEW G, G = [u \in DOMAIN P |-> P[u].singles], G \in Seq(Seq(Q)),
         NEW signer, NEW disc \in Int,
         \A q \in Q : [single |-> q, signer |-> signer, produced_at |-> ocsp_time(produced)] \in X
  PROVE  SignedAs(sign_and_add_entries(P, signer, disc), K, G, signer, disc, X)
<1> DEFINE n == Len(P)
           at == ocsp_time(produced)
           size == IF config.bucket_size = 0 THEN 1 ELSE config.bucket_size
           count == (n + size - 1) \div size
           lo == [b \in 1..count |-> (b - 1) * size]
           hi == [b \in 1..count |-> IF b * size < n THEN b * size ELSE n]
           Bucket(b) == SubSeq(P, (b - 1) * size + 1, IF b * size < n THEN b * size ELSE n)
           Keys(b) == FlattenSeq([i \in DOMAIN Bucket(b) |-> Bucket(b)[i].keys])
           Single(b) == FlattenSeq([i \in DOMAIN Bucket(b) |-> Bucket(b)[i].singles])
           Sign(singles) == [i \in DOMAIN singles |-> [single |-> singles[i], signer |-> signer, produced_at |-> at]]
           keys == [b \in 1..count |-> Keys(b)]
           resp == [b \in 1..count |-> Sign(Single(b))]
           ss == [b \in 1..count |-> add_shared_entries(keys[b], disc, resp[b])]
<1>1. sign_and_add_entries(P, signer, disc) = FlattenSeq([b \in 1..count |-> add_shared_entries(Keys(b), disc, Sign(Single(b)))])
  BY DEF sign_and_add_entries
<1>2. sign_and_add_entries(P, signer, disc) = FlattenSeq(ss)
  <2>1. \A b \in 1..count : keys[b] = Keys(b) /\ resp[b] = Sign(Single(b))
    OBVIOUS
  <2> HIDE DEF keys, resp, Keys, Sign, Single, count
  <2>2. ss = [b \in 1..count |-> add_shared_entries(Keys(b), disc, Sign(Single(b)))]
    BY <2>1
  <2> QED
    BY <1>1, <2>2
<1>3. size \in Nat /\ size # 0 /\ n \in Nat /\ DOMAIN P = 1..n
  OBVIOUS
<1>4. Len(K) = n /\ Len(G) = n
  BY <1>3
<1> HIDE DEF size, n
<1>5. Chopped(lo, hi, count, n)
  <2> HIDE DEF lo, hi, count
  <2> QED
    BY <1>3, Buckets DEF lo, hi, count
<1>6. \A b \in 1..count : lo[b] = (b - 1) * size /\ hi[b] = IF b * size < n THEN b * size ELSE n
  OBVIOUS
<1>7. \A b \in 1..count : lo[b] \in Nat /\ hi[b] \in Nat /\ lo[b] < hi[b] /\ hi[b] <= n
  <2> HIDE DEF lo, hi, count
  <2> QED
    BY <1>5 DEF Chopped
<1> HIDE DEF lo, hi, count
<1>8. ASSUME NEW b \in 1..count
      PROVE  PartOf(Keys(b), K, lo[b], hi[b], Int) /\ PartOf(Single(b), G, lo[b], hi[b], Q)
  <2> DEFINE l == lo[b]
             h == hi[b]
             bucket == Bucket(b)
             k == [i \in DOMAIN bucket |-> bucket[i].keys]
             g == [i \in DOMAIN bucket |-> bucket[i].singles]
  <2>1. bucket = SubSeq(P, l + 1, h)
    BY <1>6
  <2>2. l \in Nat /\ h \in Nat /\ l < h /\ h <= n
    BY <1>7
  <2>3. h <= Len(P)
    BY <2>2 DEF n
  <2> HIDE DEF l, h, bucket
  <2>4. DOMAIN bucket = 1..(h - l) /\ \A i \in 1..(h - l) : bucket[i] = P[l + i]
    BY <2>1, <2>2, <2>3, BucketIs
  <2>5. ASSUME NEW i \in 1..(h - l) PROVE k[i] = K[l + i] /\ g[i] = G[l + i]
    <3>1. l + i \in DOMAIN P
      BY <1>3, <2>2
    <3> QED
      BY <2>4, <3>1
  <2>6. k = [i \in 1..(h - l) |-> k[i]] /\ g = [i \in 1..(h - l) |-> g[i]]
    BY <2>4
  <2> HIDE DEF k, g
  <2>7. PartFor(k, K, l, h, Int) /\ PartFor(g, G, l, h, Q)
    BY <1>4, <2>2, <2>5, <2>6 DEF PartFor
  <2>8. PartOf(FlattenSeq(k), K, l, h, Int) /\ PartOf(FlattenSeq(g), G, l, h, Q)
    BY <2>7, BucketPart
  <2> QED
    BY <2>8 DEF l, h, bucket, k, g
<1> HIDE DEF Bucket, Keys, Single
<1>9. ASSUME NEW b \in 1..count
      PROVE  /\ PartOf(keys[b], K, lo[b], hi[b], Int)
             /\ resp[b] \in Seq(X)
             /\ SpeaksForAll(resp[b], G, lo[b], hi[b], signer)
  <2> DEFINE flat == Single(b)
             r == Sign(flat)
  <2>1. keys[b] = Keys(b) /\ resp[b] = r
    OBVIOUS
  <2>2. Signs(r, flat, signer, at, Q, X)
    BY DEF Signs
  <2>3. PartOf(flat, G, lo[b], hi[b], Q) /\ PartOf(Keys(b), K, lo[b], hi[b], Int)
    BY <1>8
  <2>4. lo[b] \in Nat /\ hi[b] \in Nat /\ hi[b] <= Len(G)
    BY <1>4, <1>7
  <2> HIDE DEF flat, r, keys, resp, at
  <2>6. r \in Seq(X) /\ SpeaksForAll(r, G, lo[b], hi[b], signer)
    BY <2>2, <2>3, <2>4, SignsBucket
  <2> QED
    BY <2>1, <2>3, <2>6
<1> HIDE DEF keys, resp
<1>10. SignedAs(FlattenSeq(ss), K, G, signer, disc, X)
  <2>1. BucketsOf(ss, keys, resp, K, G, lo, hi, count, signer, disc, X)
    BY <1>9 DEF BucketsOf
  <2>2. Chopped(lo, hi, count, Len(K)) /\ Len(G) = Len(K)
    BY <1>4, <1>5
  <2> HIDE DEF ss
  <2> QED
    BY <2>1, <2>2, SignedBuckets
<1> QED
  BY <1>2, <1>10
-----------------------------------------------------------------------------
(* From the source's entries to the builder's *)

\* The snapshot is the source's, and tells the truth about the CA.
Sourced(su, snap) ==
  /\ DOMAIN snap.entries = Serials(su.source)
  /\ snap.this_update \in Nat /\ snap.next_update \in Nat /\ snap.this_update < snap.next_update
  /\ \A n \in DOMAIN snap.not_after : snap.not_after[n] \in Int
  /\ \A n \in DOMAIN snap.entries : /\ snap.entries[n] = Truth[su.ca.name][n]
                                     /\ snap.entries[n] \in {"good", "revoked"}

\* The serials kept, each once.
KeptAs(kept, snap) ==
  /\ kept \in Seq(DOMAIN snap.entries)
  /\ \A u, v \in 1..Len(kept) : kept[u] = kept[v] => u = v
  /\ \A s \in DOMAIN snap.entries : Pruned(snap, s) \/ \E u \in 1..Len(kept) : kept[u] = s

\* prepare_entries takes the serials in ascending order.
LEMMA Keeps ==
  ASSUME setup \in Setups, NEW snap, Sourced(setup, snap),
         NEW kept, kept = InOrder({s \in DOMAIN snap.entries : ~Pruned(snap, s)}, Ascending(DOMAIN snap.entries))
  PROVE  KeptAs(kept, snap)
<1> DEFINE D == DOMAIN snap.entries
           S == {s \in D : ~Pruned(snap, s)}
           R == Ascending(D)
           n == Cardinality(S)
<1>1. D = Serials(setup.source) /\ IsFiniteSet(D) /\ \A x \in D : x \in Int
  BY TypesAssumption DEF Sourced
<1>2. S \subseteq D
  OBVIOUS
<1> HIDE DEF D
<1>3. IsFiniteSet(S)
  <2> HIDE DEF S
  <2> QED
    BY <1>1, <1>2, FS_Subset
<1>4. \A x, y \in S : <<x, y>> \in R <=> x < y
  BY <1>2 DEF Ascending
<1>5. Orders(R, S)
  <2> HIDE DEF R, S
  <2>1. \A x \in S : x \in Int
    BY <1>1, <1>2
  <2> QED
    BY <1>4, <2>1 DEF Orders
<1>6. kept = InOrder(S, R)
  BY DEF D
<1> HIDE DEF S, R
<1>7. /\ n \in Nat
      /\ kept \in [1..n -> S]
      /\ \A x \in S : \E k \in 1..n : kept[k] = x
      /\ \A j, k \in 1..n : j < k => <<kept[j], kept[k]>> \in R
  <2> DEFINE o == InOrder(S, R)
  <2>1. /\ n \in Nat
        /\ o \in [1..n -> S]
        /\ \A x \in S : \E k \in 1..n : o[k] = x
        /\ \A j, k \in 1..n : j < k => <<o[j], o[k]>> \in R
    BY <1>3, <1>5, Sorted
  <2>2. kept = o
    BY <1>6
  <2> HIDE DEF o
  <2> QED
    BY <2>1, <2>2
<1> HIDE DEF n
<1>8. kept \in Seq(D) /\ Len(kept) = n
  <2>1. \A k \in 1..n : kept[k] \in D
    BY <1>2, <1>7
  <2>2. kept = [k \in 1..n |-> kept[k]]
    BY <1>7
  <2> QED
    BY <1>7, <2>1, <2>2, ListIsSeq
<1>9. ASSUME NEW j \in 1..n, NEW k \in 1..n, j < k PROVE kept[j] # kept[k]
  <2>1. kept[j] \in S /\ kept[k] \in S /\ <<kept[j], kept[k]>> \in R
    BY <1>7, <1>9
  <2>2. kept[j] < kept[k] /\ kept[j] \in Int
    BY <1>1, <1>2, <1>4, <2>1
  <2> QED
    BY <2>2
<1>10. \A u, v \in 1..n : kept[u] = kept[v] => u = v
  <2> SUFFICES ASSUME NEW u \in 1..n, NEW v \in 1..n, kept[u] = kept[v], u # v PROVE FALSE
    OBVIOUS
  <2>1. u < v \/ v < u
    BY <1>7
  <2> QED
    BY <1>9, <2>1
<1>11. ASSUME NEW s \in D, ~Pruned(snap, s) PROVE \E u \in 1..n : kept[u] = s
  <2>1. s \in S
    BY <1>11 DEF S
  <2> QED
    BY <1>7, <2>1
<1> QED
  BY <1>8, <1>10, <1>11 DEF KeptAs, D

\* The CertID hashes of a configuration.
LEMMA HashesAre ==
  ASSUME setup \in Setups, NEW hashes, hashes = HashesOf(config.certid_compat)
  PROVE  /\ hashes \in Seq({"sha256", "sha1"})
         /\ Len(hashes) \in 1..2
         /\ \A i, j \in 1..Len(hashes) : hashes[i] = hashes[j] => i = j
         /\ Range(hashes) = {hashes[i] : i \in 1..Len(hashes)}
<1>1. config.certid_compat \in {"sha256", "sha1", "dual"}
  BY TypesAssumption DEF config
<1>2. hashes = <<"sha256">> \/ hashes = <<"sha1">> \/ hashes = <<"sha256", "sha1">>
  BY <1>1 DEF HashesOf
<1>3. CASE hashes = <<"sha256">>
  BY <1>3 DEF Range
<1>4. CASE hashes = <<"sha1">>
  BY <1>4 DEF Range
<1>5. CASE hashes = <<"sha256", "sha1">>
  BY <1>5 DEF Range
<1> QED
  BY <1>2, <1>3, <1>4, <1>5

\* Every kept serial has a key and a single response for every hash.
PreparedAs(P, K, G, kept, hashes, snap, Q) ==
  /\ \E Z : P \in Seq(Z)
  /\ K = [u \in DOMAIN P |-> P[u].keys] /\ K \in Seq(Seq(Int)) /\ Len(K) = Len(kept)
  /\ G = [u \in DOMAIN P |-> P[u].singles] /\ G \in Seq(Seq(Q)) /\ Len(G) = Len(kept)
  /\ \A u \in 1..Len(kept) : /\ Len(K[u]) = Len(hashes) /\ Len(G[u]) = Len(hashes)
                             /\ \A h \in 1..Len(hashes) :
                                  /\ K[u][h] = setup.digest[<<hashes[h], kept[u]>>]
                                  /\ G[u][h] = SingleResponse(snap, hashes[h], kept[u])

\* The single responses of a source.
SinglesOf(snap) == {SingleResponse(snap, c[1], c[2]) : c \in {"sha256", "sha1"} \X DOMAIN snap.entries}

\* prepare_entries.
LEMMA Prepares ==
  ASSUME setup \in Setups, NEW snap, Sourced(setup, snap)
  PROVE  \E K, G, kept : /\ KeptAs(kept, snap)
                         /\ PreparedAs(prepare_entries(snap), K, G, kept, HashesOf(config.certid_compat), snap, SinglesOf(snap))
<1> DEFINE kept == InOrder({s \in DOMAIN snap.entries : ~Pruned(snap, s)}, Ascending(DOMAIN snap.entries))
           hashes == HashesOf(config.certid_compat)
           k == [i \in DOMAIN kept |-> [h \in DOMAIN hashes |-> EntryKey(hashes[h], kept[i])]]
           g == [i \in DOMAIN kept |-> [h \in DOMAIN hashes |-> SingleResponse(snap, hashes[h], kept[i])]]
           P == prepare_entries(snap)
           K == [u \in DOMAIN P |-> P[u].keys]
           G == [u \in DOMAIN P |-> P[u].singles]
           Q == SinglesOf(snap)
           D == DOMAIN snap.entries
           n == Len(kept)
           H == Len(hashes)
<1>1. KeptAs(kept, snap)
  BY Keeps
<1>2. P = [i \in DOMAIN kept |-> [keys |-> k[i], singles |-> g[i]]]
  BY DEF prepare_entries
<1>3. /\ hashes \in Seq({"sha256", "sha1"}) /\ H \in 1..2
  <2> HIDE DEF hashes
  <2> QED
    BY HashesAre DEF hashes
<1> HIDE DEF kept, hashes, P
<1>4. kept \in Seq(D) /\ n \in Nat /\ DOMAIN kept = 1..n /\ H \in Nat /\ DOMAIN hashes = 1..H
  BY <1>1, <1>3 DEF KeptAs
<1>5. ASSUME NEW u \in 1..n, NEW h \in 1..H
      PROVE  /\ k[u][h] = setup.digest[<<hashes[h], kept[u]>>] /\ k[u][h] \in Int
             /\ g[u][h] = SingleResponse(snap, hashes[h], kept[u]) /\ g[u][h] \in Q
  <2>1. hashes[h] \in {"sha256", "sha1"} /\ kept[u] \in D
    BY <1>3, <1>4
  <2>2. kept[u] \in DOMAIN setup.spread
    BY <2>1, TypesAssumption DEF Sourced
  <2>3. <<hashes[h], kept[u]>> \in {"sha256", "sha1"} \X DOMAIN setup.spread
    BY <2>1, <2>2
  <2>4. setup.digest[<<hashes[h], kept[u]>>] \in Int
    BY <2>3, DigestAssumption
  <2>5. k[u][h] = EntryKey(hashes[h], kept[u]) /\ g[u][h] = SingleResponse(snap, hashes[h], kept[u])
    BY <1>4
  <2>6. EntryKey(hashes[h], kept[u]) = setup.digest[<<hashes[h], kept[u]>>]
    BY DEF EntryKey
  <2> DEFINE c == <<hashes[h], kept[u]>>
  <2>7. c \in {"sha256", "sha1"} \X D /\ c[1] = hashes[h] /\ c[2] = kept[u]
    BY <2>1
  <2> HIDE DEF c
  <2>8. SingleResponse(snap, hashes[h], kept[u]) \in Q
    <3>1. SingleResponse(snap, c[1], c[2]) \in Q
      BY <2>7 DEF SinglesOf
    <3> QED
      BY <2>7, <3>1
  <2> QED
    BY <2>4, <2>5, <2>6, <2>8
<1>6. ASSUME NEW u \in 1..n
      PROVE  k[u] \in Seq(Int) /\ Len(k[u]) = H /\ g[u] \in Seq(Q) /\ Len(g[u]) = H
  <2>1. k[u] = [h \in 1..H |-> k[u][h]] /\ g[u] = [h \in 1..H |-> g[u][h]]
    BY <1>4
  <2> HIDE DEF k, g, Q
  <2>2. (\A h \in 1..H : k[u][h] \in Int) /\ (\A h \in 1..H : g[u][h] \in Q)
    BY <1>5
  <2> QED
    BY <1>4, <2>1, <2>2, ListIsSeq
<1>7. DOMAIN P = 1..n /\ \A u \in 1..n : P[u].keys = k[u] /\ P[u].singles = g[u]
  <2> HIDE DEF k, g
  <2> QED
    BY <1>2, <1>4
<1>8. \A u \in 1..n : K[u] = k[u] /\ G[u] = g[u]
  <2> HIDE DEF k, g
  <2> QED
    BY <1>7
<1>9. K = [u \in 1..n |-> K[u]] /\ G = [u \in 1..n |-> G[u]]
  BY <1>7
<1>10. \E Z : P \in Seq(Z)
  <2> DEFINE Z == {P[u] : u \in 1..n}
  <2>1. P = [u \in 1..n |-> P[u]]
    BY <1>2, <1>4
  <2>2. \A u \in 1..n : P[u] \in Z
    OBVIOUS
  <2> HIDE DEF Z
  <2>3. P \in Seq(Z)
    BY <1>4, <2>1, <2>2, ListIsSeq
  <2> QED
    BY <2>3
<1>11. K \in Seq(Seq(Int)) /\ Len(K) = n
  <2> DEFINE Y == Seq(Int)
  <2>1. \A u \in 1..n : K[u] \in Y
    BY <1>6, <1>8
  <2> HIDE DEF K, Y
  <2>2. K \in Seq(Y) /\ Len(K) = n
    BY <1>4, <1>9, <2>1, ListIsSeq
  <2> QED
    BY <2>2 DEF Y
<1>12. G \in Seq(Seq(Q)) /\ Len(G) = n
  <2> DEFINE Y == Seq(Q)
  <2>1. \A u \in 1..n : G[u] \in Y
    BY <1>6, <1>8
  <2> HIDE DEF G, Y, Q
  <2>2. G \in Seq(Y) /\ Len(G) = n
    BY <1>4, <1>9, <2>1, ListIsSeq
  <2> QED
    BY <2>2 DEF Y
<1>13. PreparedAs(P, K, G, kept, hashes, snap, Q)
  <2>1. K = [u \in DOMAIN P |-> P[u].keys] /\ G = [u \in DOMAIN P |-> P[u].singles]
    OBVIOUS
  <2> HIDE DEF K, G, k, g, Q
  <2> QED
    BY <1>5, <1>6, <1>8, <1>10, <1>11, <1>12, <2>1, ZenonT(60) DEF PreparedAs
<1> HIDE DEF K, G, Q
<1> QED
  BY <1>1, <1>13 DEF P, hashes, Q

\* Two places have two keys: CertIDs do not collide.
LEMMA KeysDiffer ==
  ASSUME setup \in Setups, NEW snap, Sourced(setup, snap), NEW P, NEW K, NEW G, NEW kept, NEW Q,
         KeptAs(kept, snap), PreparedAs(P, K, G, kept, HashesOf(config.certid_compat), snap, Q),
         NEW d, NEW e, TwoAt(K, d, e)
  PROVE  d # e
<1> DEFINE hashes == HashesOf(config.certid_compat)
           D == DOMAIN snap.entries
<1>1. /\ hashes \in Seq({"sha256", "sha1"}) /\ Len(hashes) \in 1..2
      /\ \A i, j \in 1..Len(hashes) : hashes[i] = hashes[j] => i = j
  <2> HIDE DEF hashes
  <2> QED
    BY HashesAre DEF hashes
<1>2. PreparedAs(P, K, G, kept, hashes, snap, Q)
  OBVIOUS
<1> HIDE DEF hashes
<1>3. ASSUME NEW u \in Nat, NEW j \in Nat, NEW c, At(K, Len(K), u, j, c)
      PROVE  /\ u \in 1..Len(kept) /\ j \in 1..Len(hashes) /\ c = setup.digest[<<hashes[j], kept[u]>>]
             /\ <<hashes[j], kept[u]>> \in {"sha256", "sha1"} \X DOMAIN setup.spread
  <2>1. u \in 1..Len(kept) /\ j \in 1..Len(hashes) /\ c = setup.digest[<<hashes[j], kept[u]>>]
    BY <1>2, <1>3 DEF At, PreparedAs
  <2>2. hashes[j] \in {"sha256", "sha1"} /\ kept[u] \in D
    BY <1>1, <2>1 DEF KeptAs
  <2>3. kept[u] \in DOMAIN setup.spread
    BY <2>2, TypesAssumption DEF Sourced
  <2> QED
    BY <2>1, <2>2, <2>3
<1>4. PICK u \in Nat, j \in Nat, x \in Nat, y \in Nat :
         At(K, Len(K), u, j, d) /\ At(K, Len(K), x, y, e) /\ (u # x \/ j # y)
  BY DEF TwoAt
<1> SUFFICES ASSUME d = e PROVE FALSE
  OBVIOUS
<1>5. /\ u \in 1..Len(kept) /\ j \in 1..Len(hashes) /\ d = setup.digest[<<hashes[j], kept[u]>>]
      /\ <<hashes[j], kept[u]>> \in {"sha256", "sha1"} \X DOMAIN setup.spread
  BY <1>3, <1>4
<1>6. /\ x \in 1..Len(kept) /\ y \in 1..Len(hashes) /\ e = setup.digest[<<hashes[y], kept[x]>>]
      /\ <<hashes[y], kept[x]>> \in {"sha256", "sha1"} \X DOMAIN setup.spread
  BY <1>3, <1>4
<1>7. <<hashes[j], kept[u]>> = <<hashes[y], kept[x]>>
  <2> DEFINE a == <<hashes[j], kept[u]>>
             b == <<hashes[y], kept[x]>>
  <2>1. setup.digest[a] = setup.digest[b]
    BY <1>5, <1>6
  <2>2. a \in {"sha256", "sha1"} \X DOMAIN setup.spread /\ b \in {"sha256", "sha1"} \X DOMAIN setup.spread
    BY <1>5, <1>6
  <2> HIDE DEF a, b
  <2>3. a = b
    BY <2>1, <2>2, DigestAssumption
  <2> QED
    BY <2>3 DEF a, b
<1>8. hashes[j] = hashes[y] /\ kept[u] = kept[x]
  BY <1>7
<1>9. j = y /\ u = x
  BY <1>1, <1>5, <1>6, <1>8 DEF KeptAs
<1> QED
  BY <1>4, <1>9

\* Two places speak of two CertIDs.
LEMMA CertIdsDiffer ==
  ASSUME setup \in Setups, NEW snap, NEW P, NEW K, NEW G, NEW kept, NEW Q,
         KeptAs(kept, snap), PreparedAs(P, K, G, kept, HashesOf(config.certid_compat), snap, Q),
         NEW d, NEW e, TwoAt(G, d, e)
  PROVE  d.certid # e.certid
<1> DEFINE hashes == HashesOf(config.certid_compat)
<1>1. \A i, j \in 1..Len(hashes) : hashes[i] = hashes[j] => i = j
  <2> HIDE DEF hashes
  <2> QED
    BY HashesAre DEF hashes
<1>2. PreparedAs(P, K, G, kept, hashes, snap, Q)
  OBVIOUS
<1> HIDE DEF hashes
<1>3. ASSUME NEW u \in Nat, NEW j \in Nat, NEW c, At(G, Len(G), u, j, c)
      PROVE  /\ u \in 1..Len(kept) /\ j \in 1..Len(hashes) /\ c.certid = <<hashes[j], kept[u]>>
  <2>1. u \in 1..Len(kept) /\ j \in 1..Len(hashes) /\ c = SingleResponse(snap, hashes[j], kept[u])
    BY <1>2, <1>3 DEF At, PreparedAs
  <2> QED
    BY <2>1 DEF SingleResponse
<1>4. PICK u \in Nat, j \in Nat, x \in Nat, y \in Nat :
         At(G, Len(G), u, j, d) /\ At(G, Len(G), x, y, e) /\ (u # x \/ j # y)
  BY DEF TwoAt
<1> SUFFICES ASSUME d.certid = e.certid PROVE FALSE
  OBVIOUS
<1>5. u \in 1..Len(kept) /\ j \in 1..Len(hashes) /\ d.certid = <<hashes[j], kept[u]>>
  BY <1>3, <1>4
<1>6. x \in 1..Len(kept) /\ y \in 1..Len(hashes) /\ e.certid = <<hashes[y], kept[x]>>
  BY <1>3, <1>4
<1>7. hashes[j] = hashes[y] /\ kept[u] = kept[x]
  <2>1. <<hashes[j], kept[u]>> = <<hashes[y], kept[x]>>
    BY <1>5, <1>6
  <2> QED
    BY <2>1
<1>8. j = y /\ u = x
  BY <1>1, <1>5, <1>6, <1>7 DEF KeptAs
<1> QED
  BY <1>4, <1>8

\* The response p speaks of the CertID once.
Speaks(p, certid, status, signer) ==
  \E j \in DOMAIN p : Singles(p, certid) = {j} /\ p[j].single.status = status /\ p[j].signer = signer

\* So the response of a bucket speaks once of each of its CertIDs.
LEMMA SpeaksOnce ==
  ASSUME setup \in Setups, NEW snap, NEW P, NEW K, NEW G, NEW kept, NEW Q, NEW X,
         KeptAs(kept, snap), PreparedAs(P, K, G, kept, HashesOf(config.certid_compat), snap, Q),
         NEW p \in Seq(X), NEW signer, NEW u \in 1..Len(kept), SpeaksFor(p, G, u, signer),
         NEW h \in 1..Len(HashesOf(config.certid_compat))
  PROVE  Speaks(p, <<HashesOf(config.certid_compat)[h], kept[u]>>, snap.entries[kept[u]], signer)
<1> DEFINE hashes == HashesOf(config.certid_compat)
           certid == <<hashes[h], kept[u]>>
<1>1. PreparedAs(P, K, G, kept, hashes, snap, Q) /\ h \in 1..Len(hashes)
  OBVIOUS
<1>2. DOMAIN p = 1..Len(p) /\ Len(p) \in Nat
  OBVIOUS
<1> HIDE DEF hashes
<1>3. Len(G[u]) = Len(hashes) /\ G[u][h] = SingleResponse(snap, hashes[h], kept[u])
  BY <1>1 DEF PreparedAs
<1>4. PICK j \in DOMAIN p : p[j].single = G[u][h]
  BY <1>1, <1>3 DEF SpeaksFor
<1>5. p[j].single.certid = certid /\ p[j].single.status = snap.entries[kept[u]] /\ p[j].signer = signer
  <2>1. p[j].signer = signer
    BY <1>4 DEF SpeaksFor
  <2>2. G[u][h].certid = certid /\ G[u][h].status = snap.entries[kept[u]]
    BY <1>3 DEF SingleResponse
  <2> QED
    BY <1>4, <2>1, <2>2
<1>6. ASSUME NEW y \in DOMAIN p, NEW z \in DOMAIN p, y < z PROVE p[y].single.certid # p[z].single.certid
  <2>1. TwoAt(G, p[y].single, p[z].single)
    BY <1>6 DEF SpeaksFor
  <2> QED
    BY <1>1, <2>1, CertIdsDiffer DEF hashes
<1> HIDE DEF certid
<1>7. ASSUME NEW i \in DOMAIN p, p[i].single.certid = certid PROVE i = j
  <2> SUFFICES ASSUME i # j PROVE FALSE
    OBVIOUS
  <2>1. i < j \/ j < i
    BY <1>2
  <2> QED
    BY <1>5, <1>6, <1>7, <2>1
<1>8. Singles(p, certid) = {j}
  BY <1>5, <1>7 DEF Singles
<1> QED
  BY <1>5, <1>8 DEF Speaks, certid, hashes

\* The certificate's end is known and lies further back than the cutoff.
Expired(su, snap, s) ==
  /\ s \in DOMAIN snap.not_after
  /\ su.config.archive_cutoff > 0
  /\ snap.this_update > snap.not_after[s] + su.config.archive_cutoff

\* Some entry answers for the CertID: offer is a signer and its discriminator.
Answered(entries, certid, key, status, offer) ==
  \E k \in 1..Len(entries) : /\ entries[k].record.key = key
                             /\ entries[k].record.disc = offer[2]
                             /\ Speaks(entries[k].payload, certid, status, offer[1])

\* The offer answers for every serial that is not long expired.
AnswersAll(entries, offer, su, snap) ==
  \A s \in DOMAIN snap.entries : Expired(su, snap, s) \/
    \A h \in Range(HashesOf(su.config.certid_compat)) :
      Answered(entries, <<h, s>>, su.digest[<<h, s>>], snap.entries[s], offer)

\* One signer's entries.
SignedGood(S, offer, X, su, snap) ==
  /\ S \in Seq(BuilderEntry(X))
  /\ \A k \in 1..Len(S) : EntryAs(S[k], S[k].record.key, offer[2], S[k].payload)
  /\ \A k, l \in 1..Len(S) : k < l => S[k].record.key # S[l].record.key
  /\ AnswersAll(S, offer, su, snap)

\* What is signed from a source.
ResponsesOf(snap) ==
  {[single |-> c[1], signer |-> c[2], produced_at |-> ocsp_time(produced)] : c \in SinglesOf(snap) \X {"classical", "pq"}}

\* A signer's entries have distinct slots and answer for all that is kept.
LEMMA SignerGood ==
  ASSUME setup \in Setups, NEW snap, Sourced(setup, snap), NEW signer \in {"classical", "pq"}, NEW disc \in Int
  PROVE  SignedGood(sign_and_add_entries(prepare_entries(snap), signer, disc), <<signer, disc>>,
                    ResponsesOf(snap), setup, snap)
<1> DEFINE hashes == HashesOf(config.certid_compat)
           P == prepare_entries(snap)
           Q == SinglesOf(snap)
           X == ResponsesOf(snap)
           S == sign_and_add_entries(P, signer, disc)
           D == DOMAIN snap.entries
           offer == <<signer, disc>>
<1>1. PICK K, G, kept : KeptAs(kept, snap) /\ PreparedAs(P, K, G, kept, hashes, snap, Q)
  BY Prepares
<1>2. \A q \in Q : [single |-> q, signer |-> signer, produced_at |-> ocsp_time(produced)] \in X
  <2> SUFFICES ASSUME NEW q \in Q PROVE [single |-> q, signer |-> signer, produced_at |-> ocsp_time(produced)] \in X
    OBVIOUS
  <2> DEFINE c == <<q, signer>>
  <2>1. c \in Q \X {"classical", "pq"} /\ c[1] = q /\ c[2] = signer
    OBVIOUS
  <2> HIDE DEF c, Q
  <2>2. [single |-> c[1], signer |-> c[2], produced_at |-> ocsp_time(produced)] \in X
    BY <2>1 DEF ResponsesOf, Q
  <2> QED
    BY <2>1, <2>2
<1>3. config.bucket_size \in Nat
  BY TypesAssumption DEF config
<1> HIDE DEF P, Q, X
<1>4. PICK Z : P \in Seq(Z)
  BY <1>1 DEF PreparedAs
<1>5. /\ K = [u \in DOMAIN P |-> P[u].keys] /\ K \in Seq(Seq(Int)) /\ Len(K) = Len(kept)
      /\ G = [u \in DOMAIN P |-> P[u].singles] /\ G \in Seq(Seq(Q)) /\ Len(G) = Len(kept)
  BY <1>1 DEF PreparedAs
<1>6. SignedAs(S, K, G, signer, disc, X)
  BY <1>2, <1>3, <1>4, <1>5, SignsAll
<1> HIDE DEF S
<1>7. offer[1] = signer /\ offer[2] = disc
  OBVIOUS
<1> HIDE DEF offer
<1>8. ASSUME NEW k \in 1..Len(S), NEW l \in 1..Len(S), k < l PROVE S[k].record.key # S[l].record.key
  <2>1. TwoAt(K, S[k].record.key, S[l].record.key)
    BY <1>6, <1>8 DEF SignedAs
  <2> QED
    BY <1>1, <2>1, KeysDiffer
<1>9. ASSUME NEW s \in D, ~Expired(setup, snap, s), NEW h \in Range(hashes)
      PROVE  Answered(S, <<h, s>>, setup.digest[<<h, s>>], snap.entries[s], offer)
  <2>1. ~Pruned(snap, s)
    <3>1. snap.this_update \in Nat /\ (s \in DOMAIN snap.not_after => snap.not_after[s] \in Int)
      BY DEF Sourced
    <3>2. config.archive_cutoff \in Nat /\ config = setup.config
      BY TypesAssumption DEF config
    <3> QED
      BY <1>9, <3>1, <3>2 DEF Pruned, Expired
  <2>2. PICK u \in 1..Len(kept) : kept[u] = s
    BY <1>1, <2>1 DEF KeptAs
  <2>3. Range(hashes) = {hashes[i] : i \in 1..Len(hashes)}
    BY HashesAre
  <2>4. PICK i \in 1..Len(hashes) : hashes[i] = h
    BY <1>9, <2>3
  <2> HIDE DEF hashes
  <2>5. Len(K[u]) = Len(hashes) /\ K[u][i] = setup.digest[<<hashes[i], kept[u]>>]
    BY <1>1 DEF PreparedAs
  <2>6. PICK k \in 1..Len(S) : S[k].record.key = K[u][i] /\ SpeaksFor(S[k].payload, G, u, signer)
    <3>1. u \in 1..Len(K) /\ i \in 1..Len(K[u])
      BY <1>5, <2>5
    <3> QED
      BY <1>6, <3>1 DEF SignedAs
  <2>7. EntryAs(S[k], S[k].record.key, disc, S[k].payload) /\ S[k].payload \in Seq(X)
    <3>1. S \in Seq(BuilderEntry(X)) /\ EntryAs(S[k], S[k].record.key, disc, S[k].payload)
      BY <1>6 DEF SignedAs
    <3> QED
      BY <3>1, EntryTypes
  <2>8. Speaks(S[k].payload, <<hashes[i], kept[u]>>, snap.entries[kept[u]], signer)
    BY <1>1, <2>6, <2>7, SpeaksOnce DEF hashes
  <2>9. S[k].record.disc = disc
    BY <2>7 DEF EntryAs
  <2> QED
    BY <1>7, <2>2, <2>4, <2>5, <2>6, <2>8, <2>9 DEF Answered
<1>10. AnswersAll(S, offer, setup, snap)
  BY <1>9 DEF AnswersAll, config
<1>11. SignedGood(S, offer, X, setup, snap)
  BY <1>6, <1>7, <1>8, <1>10 DEF SignedGood, SignedAs
<1> QED
  BY <1>11 DEF S, offer, P, X

\* When the responses of a source end at the earliest, and at the latest.
Earliest(su, snap) ==
  IF snap.this_update + su.config.validity < snap.next_update
  THEN snap.this_update + su.config.validity ELSE snap.next_update

Latest(su, snap) ==
  IF Earliest(su, snap) + su.config.jitter < snap.next_update
  THEN Earliest(su, snap) + su.config.jitter ELSE snap.next_update

\* The response r has the CA's status and is as valid as the source.
IsResponse(r, su, snap) ==
  /\ r \in Response
  /\ r.single.status = Truth[su.ca.name][r.single.certid[2]]
  /\ r.single.this_update = ocsp_time(snap.this_update)
  /\ \E e \in Nat : /\ r.single.next_update = ocsp_time(e)
                    /\ Earliest(su, snap) <= e /\ e <= Latest(su, snap) /\ e <= snap.next_update

\* A share of the jitter.
LEMMA Share ==
  ASSUME NEW part \in 0..4, NEW jitter \in Nat
  PROVE  (part * jitter) \div 4 \in Nat /\ (part * jitter) \div 4 <= jitter
<1>1. part = 0 \/ part = 1 \/ part = 2 \/ part = 3 \/ part = 4
  OBVIOUS
<1> QED
  BY <1>1

\* The jitter stays within the window and the source.
LEMMA NextUpdateBounds ==
  ASSUME setup \in Setups, NEW snap, Sourced(setup, snap), NEW s \in DOMAIN snap.entries
  PROVE  /\ NextUpdate(snap, s) \in Nat
         /\ Earliest(setup, snap) <= NextUpdate(snap, s)
         /\ NextUpdate(snap, s) <= Latest(setup, snap)
         /\ NextUpdate(snap, s) <= snap.next_update
<1> DEFINE j == config.jitter
           x == (setup.spread[s] * j) \div 4
           n == snap.next_update
           b == Earliest(setup, snap)
<1>1. n \in Nat /\ snap.this_update \in Nat
  BY DEF Sourced
<1>2. config.validity \in Nat /\ j \in Nat /\ setup.spread[s] \in 0..4
  BY TypesAssumption DEF config, Sourced
<1>3. next_update_base(snap) = b
  BY DEF next_update_base, Earliest, config
<1>4. b \in Nat /\ b <= n
  BY <1>1, <1>2 DEF Earliest, config
<1>5. x \in Nat /\ x <= j
  <2> DEFINE part == setup.spread[s]
  <2> HIDE DEF j, part
  <2> QED
    BY <1>2, Share DEF part
<1>6. NextUpdate(snap, s) = IF b + x < n THEN b + x ELSE n
  BY <1>3 DEF NextUpdate
<1>7. Latest(setup, snap) = IF b + j < n THEN b + j ELSE n
  BY DEF Latest, config
<1> HIDE DEF b, x, n, j
<1>8. /\ NextUpdate(snap, s) \in Nat
      /\ b <= NextUpdate(snap, s)
      /\ NextUpdate(snap, s) <= Latest(setup, snap)
      /\ NextUpdate(snap, s) <= n
  BY <1>1, <1>2, <1>4, <1>5, <1>6, <1>7
<1> QED
  BY <1>8 DEF b, n

\* A date is three numbers.
LEMMA Dated ==
  ASSUME NEW n \in Nat
  PROVE  ocsp_time(n) \in Date
BY SMT DEF ocsp_time, days_to_ymd, Date

\* Whatever is signed is such a response.
LEMMA ResponsesAre ==
  ASSUME setup \in Setups, produced \in Nat, NEW snap, Sourced(setup, snap), NEW r \in ResponsesOf(snap)
  PROVE  IsResponse(r, setup, snap)
<1>1. PICK c \in SinglesOf(snap) \X {"classical", "pq"} :
         r = [single |-> c[1], signer |-> c[2], produced_at |-> ocsp_time(produced)]
  BY DEF ResponsesOf
<1>2. r.single = c[1] /\ c[1] \in SinglesOf(snap)
  BY <1>1
<1>3. PICK d \in {"sha256", "sha1"} \X DOMAIN snap.entries : c[1] = SingleResponse(snap, d[1], d[2])
  BY <1>2 DEF SinglesOf
<1> DEFINE s == d[2]
           q == r.single
           e == NextUpdate(snap, s)
<1>4. s \in DOMAIN snap.entries
  BY <1>3
<1>5. q = SingleResponse(snap, d[1], s)
  BY <1>2, <1>3
<1>6. /\ q.certid = <<d[1], s>> /\ q.status = snap.entries[s]
      /\ q.this_update = ocsp_time(snap.this_update) /\ q.next_update = ocsp_time(e)
  <2> HIDE DEF q, s, e
  <2> QED
    BY <1>5 DEF SingleResponse, e
<1> HIDE DEF s, e
<1>7. q.certid[2] = s
  BY <1>6
<1>8. q.status = Truth[setup.ca.name][q.certid[2]]
  BY <1>4, <1>6, <1>7 DEF Sourced
<1>9. e \in Nat /\ Earliest(setup, snap) <= e /\ e <= Latest(setup, snap) /\ e <= snap.next_update
  BY <1>4, NextUpdateBounds DEF e
<1>10. r \in Response
  <2>1. /\ ocsp_time(produced) \in Date /\ ocsp_time(snap.this_update) \in Date
        /\ ocsp_time(e) \in Date
    BY <1>9, Dated DEF Sourced
  <2>2. <<d[1], s>> \in {"sha256", "sha1"} \X Int
    <3>1. s \in Int
      BY <1>4, TypesAssumption DEF Sourced
    <3> QED
      BY <1>3, <3>1
  <2>3. q = [certid |-> <<d[1], s>>, status |-> snap.entries[s],
             this_update |-> ocsp_time(snap.this_update), next_update |-> ocsp_time(e)]
    BY <1>5 DEF SingleResponse, e
  <2>4. snap.entries[s] \in {"good", "revoked"}
    BY <1>4 DEF Sourced
  <2>5. r = [single |-> q, signer |-> c[2], produced_at |-> ocsp_time(produced)] /\ c[2] \in {"classical", "pq"}
    BY <1>1, <1>2
  <2> HIDE DEF q
  <2>6. q \in [certid : {"sha256", "sha1"} \X Int, status : {"good", "revoked"},
               this_update : Date, next_update : Date]
    BY <2>1, <2>2, <2>3, <2>4
  <2> QED
    BY <2>1, <2>5, <2>6 DEF Response
<1> QED
  BY <1>6, <1>8, <1>9, <1>10 DEF IsResponse

\* The signers and their discriminators.
Offered(su) == {<<"classical", 0>>} \cup (IF su.config.dual_algorithm THEN {<<"pq", PqDisc>>} ELSE {})

\* The entries of a bundle answer for the source and for nothing else.
Good(entries, X, su, snap) ==
  /\ entries \in Seq(BuilderEntry(X)) /\ Sized(entries) /\ Distinct(entries)
  /\ \A k \in 1..Len(entries) : /\ ~IsTombstone(entries[k].record)
                                /\ \E offer \in Offered(su) : entries[k].record.disc = offer[2]
  /\ \A offer \in Offered(su) : AnswersAll(entries, offer, su, snap)
  /\ \A r \in X : IsResponse(r, su, snap)

\* Entries that answer still do among others.
LEMMA StillAnswers ==
  ASSUME NEW S, NEW T, Len(S) \in Nat, Len(T) \in Nat, NEW d \in Nat,
         \A k \in 1..Len(S) : d + k \in 1..Len(T) /\ T[d + k] = S[k],
         NEW offer, NEW su, NEW snap, AnswersAll(S, offer, su, snap)
  PROVE  AnswersAll(T, offer, su, snap)
<1> SUFFICES ASSUME NEW s \in DOMAIN snap.entries, ~Expired(su, snap, s),
                    NEW h \in Range(HashesOf(su.config.certid_compat))
             PROVE  Answered(T, <<h, s>>, su.digest[<<h, s>>], snap.entries[s], offer)
  BY DEF AnswersAll
<1>1. Answered(S, <<h, s>>, su.digest[<<h, s>>], snap.entries[s], offer)
  BY DEF AnswersAll
<1>2. PICK k \in 1..Len(S) : /\ S[k].record.key = su.digest[<<h, s>>]
                             /\ S[k].record.disc = offer[2]
                             /\ Speaks(S[k].payload, <<h, s>>, snap.entries[s], offer[1])
  BY <1>1 DEF Answered
<1>3. d + k \in 1..Len(T) /\ T[d + k] = S[k]
  OBVIOUS
<1> QED
  BY <1>2, <1>3 DEF Answered

\* What produce_bundle or produce_dual_bundle hands to the builder.
LEMMA EntriesGood ==
  ASSUME setup \in Setups, produced \in Nat, NEW snap, Sourced(setup, snap)
  PROVE  Good(Entries(snap), ResponsesOf(snap), setup, snap)
<1> DEFINE X == ResponsesOf(snap)
           B == BuilderEntry(X)
           P == prepare_entries(snap)
           c == <<"classical", 0>>
           q == <<"pq", PqDisc>>
           S == sign_and_add_entries(P, "classical", 0)
           T == sign_and_add_entries(P, "pq", PqDisc)
           E == Entries(snap)
<1>1. SignedGood(S, c, X, setup, snap)
  BY SignerGood
<1>2. SignedGood(T, q, X, setup, snap)
  BY SignerGood, DigestAssumption
<1>3. E = S \o (IF config.dual_algorithm THEN T ELSE <<>>)
  BY DEF Entries
<1>4. \A r \in X : IsResponse(r, setup, snap)
  BY ResponsesAre
<1>5. c[1] = "classical" /\ c[2] = 0 /\ q[1] = "pq" /\ q[2] = PqDisc /\ PqDisc \in Int /\ PqDisc # 0
  BY DigestAssumption
<1>6. Offered(setup) = {c} \cup (IF config.dual_algorithm THEN {q} ELSE {})
  BY DEF Offered, config
<1> HIDE DEF X, B, P, c, q, S, T, E
<1>7. S \in Seq(B) /\ T \in Seq(B) /\ Len(S) \in Nat /\ Len(T) \in Nat
  BY <1>1, <1>2 DEF SignedGood, B
<1>8. ASSUME NEW k \in 1..Len(S) PROVE EntryAs(S[k], S[k].record.key, 0, S[k].payload)
  BY <1>1, <1>5 DEF SignedGood
<1>9. ASSUME NEW k \in 1..Len(T) PROVE EntryAs(T[k], T[k].record.key, PqDisc, T[k].payload)
  BY <1>2, <1>5 DEF SignedGood
<1>10. CASE ~config.dual_algorithm
  <2>1. E = S
    BY <1>3, <1>7, <1>10
  <2>2. \A offer \in Offered(setup) : offer = c
    BY <1>6, <1>10
  <2>3. c \in Offered(setup)
    BY <1>6
  <2>4. \A k \in 1..Len(S) : /\ S[k].record.disc = 0 /\ ~IsTombstone(S[k].record)
                             /\ S[k].record.length = Len(S[k].payload)
    BY <1>8 DEF EntryAs
  <2>5. Sized(S)
    BY <1>7, <2>4 DEF Sized
  <2>6. Distinct(S)
    <3> SUFFICES ASSUME NEW i \in 1..Len(S), NEW j \in 1..Len(S), i # j PROVE S[i].record.key # S[j].record.key
      BY <1>7 DEF Distinct
    <3>1. i < j \/ j < i
      BY <1>7
    <3> QED
      BY <1>1, <3>1 DEF SignedGood
  <2>7. AnswersAll(S, c, setup, snap)
    BY <1>1 DEF SignedGood
  <2>8. Good(S, X, setup, snap)
    BY <1>4, <1>5, <1>7, <2>2, <2>3, <2>4, <2>5, <2>6, <2>7 DEF Good, B
  <2> QED
    BY <2>1, <2>8 DEF E, X
<1>11. CASE config.dual_algorithm
  <2> DEFINE L == Len(S)
             M == Len(T)
  <2>1. E = S \o T
    BY <1>3, <1>11
  <2>2. /\ E \in Seq(B) /\ Len(E) = L + M
        /\ \A k \in 1..L : E[k] = S[k]
        /\ \A k \in (L + 1)..(L + M) : E[k] = T[k - L]
    BY <1>7, <2>1, ConcatProperties
  <2>3. c \in Offered(setup) /\ q \in Offered(setup) /\ \A offer \in Offered(setup) : offer = c \/ offer = q
    BY <1>6, <1>11
  <2>4. ASSUME NEW k \in 1..Len(E)
        PROVE  \/ k \in 1..L /\ E[k] = S[k] /\ E[k].record.disc = 0
               \/ k - L \in 1..M /\ E[k] = T[k - L] /\ E[k].record.disc = PqDisc
    <3>1. CASE k <= L
      <4>1. k \in 1..L
        BY <1>7, <3>1
      <4>2. E[k] = S[k]
        BY <2>2, <4>1
      <4> QED
        BY <1>8, <4>1, <4>2 DEF EntryAs
    <3>2. CASE ~(k <= L)
      <4>1. k - L \in 1..M /\ k \in (L + 1)..(L + M)
        BY <1>7, <2>2, <3>2
      <4>2. E[k] = T[k - L]
        BY <2>2, <4>1
      <4> QED
        BY <1>9, <4>1, <4>2 DEF EntryAs
    <3> QED
      BY <3>1, <3>2
  <2>5. \A k \in 1..Len(E) : ~IsTombstone(E[k].record) /\ E[k].record.length = Len(E[k].payload)
    BY <1>8, <1>9, <2>4 DEF EntryAs
  <2>6. Sized(E)
    BY <2>2, <2>5 DEF Sized
  <2>7. Distinct(E)
    <3> SUFFICES ASSUME NEW i \in 1..Len(E), NEW j \in 1..Len(E), i < j
                 PROVE  E[i].record.key # E[j].record.key \/ E[i].record.disc # E[j].record.disc
      <4>1. DOMAIN E = 1..Len(E) /\ Len(E) \in Nat
        BY <2>2
      <4>2. \A i, j \in 1..Len(E) : i # j => i < j \/ j < i
        BY <4>1
      <4> QED
        BY <4>1, <4>2 DEF Distinct
    <3>1. CASE i \in 1..L /\ j \in 1..L
      BY <1>1, <2>2, <3>1 DEF SignedGood
    <3>2. CASE i - L \in 1..M /\ j - L \in 1..M /\ E[i] = T[i - L] /\ E[j] = T[j - L]
      <4>1. i - L < j - L
        BY <1>7, <2>2
      <4> QED
        BY <1>2, <3>2, <4>1 DEF SignedGood
    <3>3. CASE E[i].record.disc # E[j].record.disc
      BY <3>3
    <3> QED
      BY <1>5, <2>4, <3>1, <3>2, <3>3
  <2>8. AnswersAll(E, c, setup, snap)
    <3>1. \A k \in 1..Len(S) : 0 + k \in 1..Len(E) /\ E[0 + k] = S[k]
      BY <1>7, <2>2
    <3>2. AnswersAll(S, c, setup, snap)
      BY <1>1 DEF SignedGood
    <3>3. Len(E) \in Nat /\ 0 \in Nat
      BY <2>2
    <3> QED
      BY <1>7, <3>1, <3>2, <3>3, StillAnswers
  <2>9. AnswersAll(E, q, setup, snap)
    <3>1. ASSUME NEW k \in 1..M PROVE L + k \in 1..Len(E) /\ E[L + k] = T[k]
      <4>1. L + k \in 1..Len(E) /\ L + k \in (L + 1)..(L + M) /\ (L + k) - L = k
        BY <1>7, <2>2
      <4> QED
        BY <2>2, <4>1
    <3>2. AnswersAll(T, q, setup, snap)
      BY <1>2 DEF SignedGood
    <3>3. Len(E) \in Nat
      BY <2>2
    <3> QED
      BY <1>7, <3>1, <3>2, <3>3, StillAnswers
  <2>10. \A k \in 1..Len(E) : \E offer \in Offered(setup) : E[k].record.disc = offer[2]
    BY <1>5, <2>3, <2>4
  <2>11. \A offer \in Offered(setup) : AnswersAll(E, offer, setup, snap)
    BY <2>3, <2>8, <2>9
  <2>12. Good(E, X, setup, snap)
    BY <1>4, <2>2, <2>5, <2>6, <2>7, <2>10, <2>11 DEF Good, B
  <2> QED
    BY <2>12 DEF E, X
<1> QED
  BY <1>10, <1>11
-----------------------------------------------------------------------------
(* The manifest of a bundle *)

\* The manifest is that of a full bundle of the CA, with the source's window.
GoodManifest(m, su, snap) ==
  /\ IsManifest(m)
  /\ m.bundle_type = "Full" /\ m.producer_id = "hoike" /\ m.continuity = NoContinuity
  /\ m.shard = None /\ m.compression = None /\ m.extensions = None
  /\ m.window.next_update_min = Earliest(su, snap)
  /\ m.window.next_update_max = Latest(su, snap)
  /\ \A i \in DOMAIN m.ca_scopes : \E h \in {"sha256", "sha1"} :
       m.ca_scopes[i].issuer_key_hash = <<h, su.ca.key>>

\* The scopes are all of the CA.
LEMMA ScopesOf ==
  ASSUME NEW i \in DOMAIN CaScopes
  PROVE  \E h \in {"sha256", "sha1"} : CaScopes[i].issuer_key_hash = <<h, setup.ca.key>>
<1> DEFINE hashes == IF config.certid_compat = "sha256" THEN <<"sha256">> ELSE <<"sha256", "sha1">>
           signers == IF config.dual_algorithm THEN <<"classical", "pq">> ELSE <<"classical">>
           E == {CaScope(c[1], c[2]) : c \in {"sha256", "sha1"} \X {"classical", "pq"}}
           ss == [h \in DOMAIN hashes |-> [g \in DOMAIN signers |-> CaScope(hashes[h], signers[g])]]
           H == Len(hashes)
           N == Len(signers)
<1>1. /\ H \in Nat /\ DOMAIN hashes = 1..H /\ \A h \in 1..H : hashes[h] \in {"sha256", "sha1"}
      /\ N \in Nat /\ DOMAIN signers = 1..N /\ \A g \in 1..N : signers[g] \in {"classical", "pq"}
  <2>1. hashes = <<"sha256">> \/ hashes = <<"sha256", "sha1">>
    OBVIOUS
  <2>2. signers = <<"classical">> \/ signers = <<"classical", "pq">>
    OBVIOUS
  <2>3. \A k \in 1..2 : k = 1 \/ k = 2
    OBVIOUS
  <2>4. \A k \in 1..1 : k = 1
    OBVIOUS
  <2> HIDE DEF hashes, signers
  <2>5. H \in Nat /\ DOMAIN hashes = 1..H /\ \A h \in 1..H : hashes[h] \in {"sha256", "sha1"}
    BY <2>1, <2>3, <2>4
  <2>6. N \in Nat /\ DOMAIN signers = 1..N /\ \A g \in 1..N : signers[g] \in {"classical", "pq"}
    BY <2>2, <2>3, <2>4
  <2> QED
    BY <2>5, <2>6
<1>2. CaScopes = FlattenSeq(ss)
  BY DEF CaScopes
<1> HIDE DEF hashes, signers, H, N
<1>3. ASSUME NEW h \in 1..H, NEW g \in 1..N PROVE CaScope(hashes[h], signers[g]) \in E
  <2> DEFINE c == <<hashes[h], signers[g]>>
  <2>1. c \in {"sha256", "sha1"} \X {"classical", "pq"} /\ c[1] = hashes[h] /\ c[2] = signers[g]
    BY <1>1
  <2> HIDE DEF c
  <2>2. CaScope(c[1], c[2]) \in E
    BY <2>1
  <2> QED
    BY <2>1, <2>2
<1>4. ASSUME NEW e \in E PROVE \E h \in {"sha256", "sha1"} : e.issuer_key_hash = <<h, setup.ca.key>>
  <2>1. PICK c \in {"sha256", "sha1"} \X {"classical", "pq"} : e = CaScope(c[1], c[2])
    OBVIOUS
  <2>2. c[1] \in {"sha256", "sha1"} /\ e.issuer_key_hash = <<c[1], setup.ca.key>>
    BY <2>1 DEF CaScope
  <2> QED
    BY <2>2
<1> HIDE DEF E
<1>5. ss \in Seq(Seq(E))
  <2> DEFINE Y == Seq(E)
  <2>1. ASSUME NEW h \in 1..H PROVE ss[h] \in Y
    <3> DEFINE t == [g \in 1..N |-> CaScope(hashes[h], signers[g])]
    <3>1. ss[h] = t
      BY <1>1
    <3>2. (\A g \in 1..N : t[g] \in E) /\ t = [g \in 1..N |-> t[g]]
      BY <1>3
    <3> HIDE DEF t
    <3> QED
      BY <1>1, <3>1, <3>2, ListIsSeq
  <2>2. ss = [h \in 1..H |-> ss[h]]
    BY <1>1
  <2> HIDE DEF ss, Y
  <2>3. ss \in Seq(Y)
    BY <1>1, <2>1, <2>2, ListIsSeq
  <2> QED
    BY <2>3 DEF Y
<1> HIDE DEF ss
<1>6. FlatOf(FlattenSeq(ss), ss, Len(ss), E)
  BY <1>5, Flattened
<1>7. CaScopes \in Seq(E)
  BY <1>2, <1>6 DEF FlatOf
<1>8. CaScopes[i] \in E
  <2> DEFINE t == CaScopes
  <2> HIDE DEF t
  <2>1. t \in Seq(E) /\ i \in DOMAIN t
    BY <1>7 DEF t
  <2>2. t[i] \in E
    BY <2>1
  <2> QED
    BY <2>2 DEF t
<1> QED
  BY <1>4, <1>8

\* NewManifest is such a manifest.
LEMMA ManifestGood ==
  ASSUME setup \in Setups, NEW snap, Sourced(setup, snap)
  PROVE  GoodManifest(NewManifest(snap), setup, snap)
<1> DEFINE m == NewManifest(snap)
           base == next_update_base(snap)
           last == base + config.jitter
           w == [produced_at |-> now, this_update_min |-> snap.this_update, next_update_min |-> base,
                 next_update_max |-> IF last < snap.next_update THEN last ELSE snap.next_update]
           scopes == CaScopes
<1>1. m = [format_version |-> 1, bundle_id |-> 0, producer_id |-> "hoike", created_at |-> now,
           bundle_type |-> "Full", ca_scopes |-> scopes, window |-> w,
           integrity |-> None, entry_count |-> 0, continuity |-> NoContinuity,
           shard |-> None, compression |-> None, extensions |-> None]
  BY DEF NewManifest
<1>2. base = Earliest(setup, snap)
  BY DEF next_update_base, Earliest, config
<1>3. w.next_update_min = Earliest(setup, snap)
  BY <1>2
<1>4. w.next_update_max = Latest(setup, snap)
  BY <1>2 DEF Latest, config
<1> HIDE DEF w, scopes
<1>5. /\ m.bundle_type = "Full" /\ m.producer_id = "hoike" /\ m.continuity = NoContinuity
      /\ m.shard = None /\ m.compression = None /\ m.extensions = None
      /\ m.window = w /\ m.ca_scopes = scopes
  BY <1>1
<1>6. IsManifest(m)
  <2>1. DOMAIN m = {"format_version", "bundle_id", "producer_id", "created_at", "bundle_type",
                    "ca_scopes", "window", "integrity", "entry_count", "continuity", "shard",
                    "compression", "extensions"}
    BY <1>1
  <2> SUFFICES ASSUME NEW i \in 1..13 PROVE ManifestFields[i] \in DOMAIN m
    BY DEF IsManifest
  <2>2. i = 1 \/ i = 2 \/ i = 3 \/ i = 4 \/ i = 5 \/ i = 6 \/ i = 7 \/ i = 8 \/ i = 9 \/ i = 10 \/ i = 11 \/ i = 12 \/ i = 13
    OBVIOUS
  <2> HIDE DEF m
  <2> QED
    BY <2>1, <2>2 DEF ManifestFields
<1>7. \A i \in DOMAIN scopes : \E h \in {"sha256", "sha1"} : scopes[i].issuer_key_hash = <<h, setup.ca.key>>
  BY ScopesOf DEF scopes
<1> HIDE DEF m
<1>8. GoodManifest(m, setup, snap)
  BY <1>3, <1>4, <1>5, <1>6, <1>7 DEF GoodManifest
<1> QED
  BY <1>8 DEF m
-----------------------------------------------------------------------------
(* Damage *)

\* The shape of a file that was built: its first cell is the manifest, and no
\* other cell is one.
Shaped(f, bytes, C) ==
  /\ f = [header |-> f.header, cells |-> f.cells]
  /\ f.header = [i \in 1..4 |-> [offset |-> f.header[i].offset, length |-> f.header[i].length]]
  /\ f.header[1].offset = 0 /\ f.header[1].length = 1
  /\ f.cells \in Seq(C)
  /\ Len(f.cells) >= 1 /\ f.cells[1].kind = "manifest" /\ f.cells[1].value = bytes
  /\ Len(f.cells) > 1 => f.cells[2].kind # "manifest"
  /\ \A i \in 1..Len(f.cells) : f.cells[i] = [kind |-> f.cells[i].kind, value |-> f.cells[i].value]

\* build writes such a file.
LEMMA BuildsShaped ==
  ASSUME NEW X, NEW entries \in Seq(BuilderEntry(X)), Sized(entries), NEW manifest, NEW sealer,
         NEW f, f = build(manifest, entries, sealer),
         NEW bytes, bytes = to_cbor(FilledIn(manifest, entries))
  PROVE  \E C : Shaped(f, bytes, C)
<1> DEFINE Y == Contents(manifest, entries, sealer, X)
           b == Sealed(bytes, sealer)
           c == Layout(entries).index
           d == Layout(entries).data
           a == <<bytes>>
           C == [kind : CellKinds, value : Y]
<1>1. FileOf(f, a, b, c, d, Y) /\ a \in Seq(Y) /\ b \in Seq(Y) /\ c \in Seq(Y) /\ d \in Seq(Y)
  BY BuildsFile
<1>2. f = Assemble(<<a, b, c, d>>)
  BY DEF build, FilledIn, Sealed
<1>3. /\ f = [header |-> f.header, cells |-> f.cells]
      /\ f.header = [i \in 1..4 |-> [offset |-> f.header[i].offset, length |-> f.header[i].length]]
  <2> DEFINE s == <<a, b, c, d>>
  <2> HIDE DEF s
  <2>1. f = Assemble(s)
    BY <1>2 DEF s
  <2> DEFINE o == <<0, Len(s[1]), Len(s[1]) + Len(s[2]), Len(s[1]) + Len(s[2]) + Len(s[3])>>
             h == [i \in 1..4 |-> [offset |-> o[i], length |-> Len(s[i])]]
             t == Cells(s[1], 1) \o Cells(s[2], 2) \o Cells(s[3], 3) \o Cells(s[4], 4)
  <2>2. f = [header |-> h, cells |-> t]
    BY <2>1 DEF Assemble
  <2> HIDE DEF o, t
  <2>3. \A i \in 1..4 : h[i] = [offset |-> h[i].offset, length |-> h[i].length]
    OBVIOUS
  <2>4. h = [i \in 1..4 |-> [offset |-> h[i].offset, length |-> h[i].length]]
    BY <2>3
  <2> HIDE DEF h
  <2>5. f.header = h /\ f.cells = t
    BY <2>2
  <2> QED
    BY <2>2, <2>4, <2>5
<1>4. Len(a) = 1 /\ a[1] = bytes
  OBVIOUS
<1> HIDE DEF a, b, c, d, Y
<1>5. /\ f.header[1].offset = 0 /\ f.header[1].length = 1
      /\ f.cells \in Seq(C)
      /\ Len(f.cells) = 1 + Len(b) + Len(c) + Len(d)
      /\ \A j \in 1..1 : f.cells[j].kind = "manifest" /\ f.cells[j].value = a[j]
      /\ \A j \in 1..Len(b) : f.cells[1 + j].kind = "seal"
      /\ \A j \in 1..Len(c) : f.cells[1 + Len(b) + j].kind = "record"
      /\ \A j \in 1..Len(d) : f.cells[1 + Len(b) + Len(c) + j].kind = "response"
  <2> DEFINE n == Len(a)
  <2>1. /\ f.header[1].offset = 0 /\ f.header[1].length = n
        /\ f.cells \in Seq(C)
        /\ Len(f.cells) = n + Len(b) + Len(c) + Len(d)
        /\ \A j \in 1..n : f.cells[j].kind = "manifest" /\ f.cells[j].value = a[j]
        /\ \A j \in 1..Len(b) : f.cells[n + j].kind = "seal"
        /\ \A j \in 1..Len(c) : f.cells[n + Len(b) + j].kind = "record"
        /\ \A j \in 1..Len(d) : f.cells[n + Len(b) + Len(c) + j].kind = "response"
    <3> HIDE DEF n, C
    <3> QED
      BY <1>1, Zenon DEF FileOf, n, C
  <2>2. n = 1
    BY <1>4
  <2> HIDE DEF n, C
  <2> QED
    BY <2>1, <2>2
<1>6. Len(b) \in Nat /\ Len(c) \in Nat /\ Len(d) \in Nat
  BY <1>1
<1>7. f.cells[1].kind = "manifest" /\ f.cells[1].value = bytes /\ Len(f.cells) >= 1
  <2>1. 1 \in 1..1
    OBVIOUS
  <2> QED
    BY <1>4, <1>5, <1>6, <2>1
<1>8. ASSUME Len(f.cells) > 1 PROVE f.cells[2].kind # "manifest"
  <2>1. CASE Len(b) # 0
    <3>1. 1 \in 1..Len(b) /\ 1 + 1 = 2
      BY <1>6, <2>1
    <3> QED
      BY <1>5, <3>1
  <2>2. CASE Len(b) = 0 /\ Len(c) # 0
    <3>1. 1 \in 1..Len(c) /\ 1 + Len(b) + 1 = 2
      BY <1>6, <2>2
    <3> QED
      BY <1>5, <3>1
  <2>3. CASE Len(b) = 0 /\ Len(c) = 0
    <3>1. 1 \in 1..Len(d) /\ 1 + Len(b) + Len(c) + 1 = 2
      BY <1>5, <1>6, <1>8, <2>3
    <3> QED
      BY <1>5, <3>1
  <2> QED
    BY <2>1, <2>2, <2>3
<1>9. \A i \in 1..Len(f.cells) : f.cells[i] = [kind |-> f.cells[i].kind, value |-> f.cells[i].value]
  <2> DEFINE t == f.cells
  <2>1. t \in Seq(C)
    BY <1>5
  <2> HIDE DEF t, C
  <2>2. \A i \in 1..Len(t) : t[i] \in C
    BY <2>1
  <2>3. \A i \in 1..Len(t) : t[i] = [kind |-> t[i].kind, value |-> t[i].value]
    BY <2>2 DEF C
  <2> QED
    BY <2>3 DEF t
<1> HIDE DEF C
<1>10. Shaped(f, bytes, C)
  BY <1>3, <1>5, <1>7, <1>8, <1>9 DEF Shaped
<1> QED
  BY <1>10

\* The first cell of g is a manifest with the same fields, and g's header says so.
SameManifest(g, bytes) ==
  /\ g.header[1].offset = 0 /\ g.header[1].length = 1
  /\ g.cells[1].kind = "manifest" /\ g.cells[1].value.fields = bytes.fields

\* The manifest section of a file.
LEMMA ManifestSection ==
  ASSUME NEW g, g.header[1].offset = 0, g.header[1].length = 1
  PROVE  /\ Intact(g, 1) <=> g.cells[1].kind = "manifest"
         /\ g.cells[1].kind = "manifest" => read_section(g, 1)[1] = g.cells[1].value
<1>1. SectionKinds[1] = "manifest"
  BY Kinds
<1>2. 1 \in 1..1 /\ \A j \in 1..1 : j = 1 /\ 0 + j = 1
  OBVIOUS
<1>3. Intact(g, 1) <=> \A j \in 1..1 : g.cells[0 + j].kind = "manifest"
  BY <1>1 DEF Intact
<1>4. read_section(g, 1) = [j \in 1..1 |-> IF g.cells[0 + j].kind = "manifest" THEN g.cells[0 + j].value ELSE Garbled]
  BY <1>1 DEF read_section
<1>5. read_section(g, 1)[1] = IF g.cells[0 + 1].kind = "manifest" THEN g.cells[0 + 1].value ELSE Garbled
  BY <1>2, <1>4
<1> QED
  BY <1>2, <1>3, <1>5

\* A damaged file that can be read has the manifest that was written.
LEMMA DamageShows ==
  ASSUME NEW f, NEW C, NEW bytes, Shaped(f, bytes, C), DOMAIN bytes.fields = 1..10,
         bytes.fields = [i \in 1..10 |-> bytes.fields[i]],
         NEW g \in Damaged(f), Readable(g)
  PROVE  SameManifest(g, bytes)
<1> DEFINE L == Len(f.cells)
           H == f.header
           t == f.cells
<1>1. /\ f = [header |-> H, cells |-> t]
      /\ H = [i \in 1..4 |-> [offset |-> H[i].offset, length |-> H[i].length]]
      /\ H[1].offset = 0 /\ H[1].length = 1
      /\ t \in Seq(C) /\ L \in Nat /\ L >= 1 /\ DOMAIN t = 1..L
      /\ t[1].kind = "manifest" /\ t[1].value = bytes
      /\ L > 1 => t[2].kind # "manifest"
      /\ \A i \in 1..L : t[i] = [kind |-> t[i].kind, value |-> t[i].value]
  BY DEF Shaped
<1>2. /\ \A i \in 1..4 : g.header[i].offset + g.header[i].length <= Len(g.cells)
      /\ g.header[1].length = 1 /\ Intact(g, 1) /\ Decodes(read_section(g, 1)[1])
  BY DEF Readable, validate_bounds
<1>3. \/ g \in {[f EXCEPT !.cells = SubSeq(t, 1, n)] : n \in 0..(L - 1)}
      \/ g \in {[f EXCEPT !.cells[i] = [kind |-> "garbled", value |-> Garbled]] : i \in DOMAIN t}
      \/ g \in {[f EXCEPT !.cells[i].value = t[i + 1].value] : i \in {j \in 1..(L - 1) : t[j].kind = t[j + 1].kind}}
      \/ g \in {[f EXCEPT !.header[i].length = @ - 1] : i \in {j \in 1..4 : H[j].length > 0}}
      \/ g \in {[f EXCEPT !.cells[1].value = garble_field(@, i)] : i \in 1..13}
  BY DEF Damaged
<1> HIDE DEF t, H
<1>4. CASE g \in {[f EXCEPT !.cells = SubSeq(t, 1, n)] : n \in 0..(L - 1)}
  <2>1. PICK n \in 0..(L - 1) : g = [f EXCEPT !.cells = SubSeq(t, 1, n)]
    BY <1>4
  <2>2. g.header = H /\ g.cells = SubSeq(t, 1, n)
    BY <1>1, <2>1
  <2>3. 1 \in 1..4 /\ 0 + 1 <= Len(g.cells)
    BY <1>1, <1>2, <2>2
  <2>4. n >= 1
    BY <1>1, <2>2, <2>3
  <2>5. g.cells[1] = t[1]
    BY <1>1, <2>2, <2>4
  <2> QED
    BY <1>1, <2>2, <2>5 DEF SameManifest
<1>5. CASE g \in {[f EXCEPT !.cells[i] = [kind |-> "garbled", value |-> Garbled]] : i \in DOMAIN t}
  <2>1. PICK i \in DOMAIN t : g = [f EXCEPT !.cells[i] = [kind |-> "garbled", value |-> Garbled]]
    BY <1>5
  <2>2. g.header = H /\ g.cells = [t EXCEPT ![i] = [kind |-> "garbled", value |-> Garbled]]
    BY <1>1, <2>1
  <2>3. g.cells[1].kind = "manifest"
    BY <1>1, <1>2, <2>2, ManifestSection
  <2>4. i # 1
    BY <1>1, <2>2, <2>3
  <2>5. g.cells[1] = t[1]
    BY <1>1, <2>2, <2>4
  <2> QED
    BY <1>1, <2>2, <2>5 DEF SameManifest
<1>6. CASE g \in {[f EXCEPT !.cells[i].value = t[i + 1].value] : i \in {j \in 1..(L - 1) : t[j].kind = t[j + 1].kind}}
  <2>1. PICK i \in {j \in 1..(L - 1) : t[j].kind = t[j + 1].kind} : g = [f EXCEPT !.cells[i].value = t[i + 1].value]
    BY <1>6
  <2>2. i \in 1..(L - 1) /\ t[i].kind = t[i + 1].kind
    BY <2>1
  <2>3. i # 1
    BY <1>1, <2>2
  <2>4. g.header = H /\ g.cells = [t EXCEPT ![i].value = t[i + 1].value]
    BY <1>1, <2>1
  <2>5. g.cells[1] = t[1]
    BY <1>1, <2>3, <2>4
  <2> QED
    BY <1>1, <2>4, <2>5 DEF SameManifest
<1>7. CASE g \in {[f EXCEPT !.header[i].length = @ - 1] : i \in {j \in 1..4 : H[j].length > 0}}
  <2>1. PICK i \in {j \in 1..4 : H[j].length > 0} : g = [f EXCEPT !.header[i].length = @ - 1]
    BY <1>7
  <2>2. g.cells = t /\ g.header = [H EXCEPT ![i].length = @ - 1] /\ i \in 1..4
    BY <1>1, <2>1
  <2>3. H[1] = [offset |-> 0, length |-> 1] /\ DOMAIN H = 1..4
    BY <1>1
  <2>4. i # 1
    BY <1>2, <2>2, <2>3
  <2>5. g.header[1] = H[1]
    BY <2>2, <2>3, <2>4
  <2> QED
    BY <1>1, <2>2, <2>5 DEF SameManifest
<1>8. CASE g \in {[f EXCEPT !.cells[1].value = garble_field(@, i)] : i \in 1..13}
  <2>1. PICK i \in 1..13 : g = [f EXCEPT !.cells[1].value = garble_field(@, i)]
    BY <1>8
  <2> DEFINE v == garble_field(bytes, i)
  <2>2. g.header = H /\ g.cells = [t EXCEPT ![1].value = garble_field(@, i)]
    BY <1>1, <2>1
  <2>3. 1 \in DOMAIN t /\ t[1] = [kind |-> "manifest", value |-> bytes]
    BY <1>1
  <2>4. g.cells[1] = [kind |-> "manifest", value |-> v]
    <3> HIDE DEF v
    <3> QED
      BY <2>2, <2>3 DEF v
  <2>5. g.cells[1].kind = "manifest" /\ g.cells[1].value = v
    <3> HIDE DEF v
    <3> QED
      BY <2>4
  <2>6. v.fields = [j \in (1..10) \ {i} |-> bytes.fields[j]]
    BY DEF garble_field
  <2>7. Decodes(v)
    <3>1. g.header[1].offset = 0 /\ g.header[1].length = 1
      BY <1>1, <2>2
    <3> HIDE DEF v
    <3>2. read_section(g, 1)[1] = v
      BY <2>5, <3>1, ManifestSection
    <3> QED
      BY <1>2, <3>2
  <2>8. i \notin 1..10
    BY <2>6, <2>7 DEF Decodes
  <2>9. (1..10) \ {i} = 1..10
    BY <2>8
  <2>10. v.fields = bytes.fields
    BY <2>6, <2>9
  <2> HIDE DEF v
  <2> QED
    BY <1>1, <2>2, <2>5, <2>10 DEF SameManifest
<1> QED
  BY <1>3, <1>4, <1>5, <1>6, <1>7, <1>8

\* A full bundle's manifest is encoded without optional fields.
LEMMA NoOptional ==
  ASSUME NEW m, IsManifest(m), m.shard = None, m.compression = None, m.extensions = None,
         NEW entries, NEW bytes, bytes = to_cbor(FilledIn(m, entries))
  PROVE  DOMAIN bytes.fields = 1..10 /\ bytes.fields = [i \in 1..10 |-> bytes.fields[i]]
<1> DEFINE M == FilledIn(m, entries)
           d == [index_digest |-> Layout(entries).index, data_digest |-> Layout(entries).data]
           c == Len(Layout(entries).index)
<1>1. M = [m EXCEPT !.integrity = d, !.entry_count = c]
  BY DEF FilledIn
<1> HIDE DEF d, c
<1>2. "shard" \in DOMAIN m /\ "compression" \in DOMAIN m /\ "extensions" \in DOMAIN m
  <2>1. ManifestFields[11] \in DOMAIN m /\ ManifestFields[12] \in DOMAIN m /\ ManifestFields[13] \in DOMAIN m
    BY DEF IsManifest
  <2> QED
    BY <2>1 DEF ManifestFields
<1>3. M.shard = None /\ M.compression = None /\ M.extensions = None
  BY <1>1, <1>2
<1> HIDE DEF M
<1>4. \A i \in 11..13 : M[ManifestFields[i]] = None
  <2>1. \A i \in 11..13 : i = 11 \/ i = 12 \/ i = 13
    OBVIOUS
  <2>2. M[ManifestFields[11]] = None /\ M[ManifestFields[12]] = None /\ M[ManifestFields[13]] = None
    BY <1>3 DEF ManifestFields
  <2> QED
    BY <2>1, <2>2
<1> DEFINE present == (1..10) \cup {i \in 11..13 : M[ManifestFields[i]] # None}
<1>5. present = 1..10
  BY <1>4
<1>6. bytes.fields = [i \in present |-> M[ManifestFields[i]]]
  BY DEF to_cbor, M
<1> HIDE DEF present
<1> QED
  BY <1>5, <1>6

\* What is decoded depends on the fields only.
LEMMA SameFields ==
  ASSUME NEW a, NEW b, a.fields = b.fields
  PROVE  from_cbor(a) = from_cbor(b) /\ (Decodes(a) <=> Decodes(b))
<1> DEFINE F(x) == [f \in Range(ManifestFields) |->
                      LET i == CHOOSE j \in 1 .. 13 : ManifestFields[j] = f
                      IN IF i \in DOMAIN x THEN x[i] ELSE None]
<1>1. from_cbor(a) = F(a.fields) /\ from_cbor(b) = F(b.fields)
  BY DEF from_cbor
<1> HIDE DEF F
<1> QED
  BY <1>1 DEF Decodes

\* b has the manifest of m, and what was laid out for the entries.
BundleOf(b, m, entries, sealer) ==
  LET original == from_bytes(build(m, entries, sealer))
      laid == Layout(entries)
  IN /\ b.manifest = original.manifest /\ b.index = original.index /\ b.data = original.data
     /\ b.index = laid.index /\ b.data = laid.data
     /\ b.manifest.window = m.window

\* Whatever was built, and possibly damaged, and can be read and verified, is
\* what was built.
LEMMA ReadsOriginal ==
  ASSUME NEW X, NEW entries \in Seq(BuilderEntry(X)), Sized(entries), NEW m, NEW sealer,
         IsManifest(m), m.shard = None, m.compression = None, m.extensions = None,
         NEW f, f = build(m, entries, sealer), NEW g, g = f \/ g \in Damaged(f), Readable(g),
         NEW b, b = from_bytes(g), verify_structure(b)
  PROVE  BundleOf(b, m, entries, sealer)
<1> DEFINE bytes == to_cbor(FilledIn(m, entries))
           r == from_cbor(bytes)
           laid == Layout(entries)
           o == from_bytes(f)
<1>1. o = [manifest |-> r, manifest_bytes |-> bytes, seal |-> Sealed(bytes, sealer),
           index |-> laid.index, data |-> laid.data]
  BY ReadsBuilt
<1>2. o.manifest = r /\ o.index = laid.index /\ o.data = laid.data
  <2> HIDE DEF o, r, bytes, laid
  <2> QED
    BY <1>1
<1>3. r.integrity = [index_digest |-> laid.index, data_digest |-> laid.data] /\ r.window = m.window
  <2> HIDE DEF r
  <2> QED
    BY FilledInFields DEF r
<1>4. DOMAIN bytes.fields = 1..10 /\ bytes.fields = [i \in 1..10 |-> bytes.fields[i]]
  <2> HIDE DEF bytes
  <2> QED
    BY NoOptional DEF bytes
<1>5. PICK C : Shaped(f, bytes, C)
  BY BuildsShaped
<1> HIDE DEF bytes, laid, o
<1>6. SameManifest(g, bytes)
  <2>1. CASE g = f
    BY <1>5, <2>1 DEF Shaped, SameManifest
  <2>2. CASE g \in Damaged(f)
    BY <1>4, <1>5, <2>2, DamageShows
  <2> QED
    BY <2>1, <2>2
<1> DEFINE v == read_section(g, 1)[1]
<1>7. v.fields = bytes.fields
  <2> HIDE DEF v
  <2>1. v = g.cells[1].value
    BY <1>6, ManifestSection DEF SameManifest, v
  <2> QED
    BY <1>6, <2>1 DEF SameManifest
<1>8. b.manifest = from_cbor(v) /\ b.manifest_bytes = v
  BY DEF from_bytes
<1> HIDE DEF v
<1>9. from_cbor(v) = r
  BY <1>7, SameFields
<1> HIDE DEF r
<1>10. r.integrity.index_digest = b.index /\ r.integrity.data_digest = b.data
  BY <1>8, <1>9 DEF verify_structure, DigestsMatch
<1>11. b.index = laid.index /\ b.data = laid.data
  BY <1>3, <1>10
<1>12. b.manifest = r
  BY <1>8, <1>9
<1> QED
  BY <1>2, <1>3, <1>11, <1>12 DEF BundleOf, o, laid

-----------------------------------------------------------------------------
(* The invariant *)

\* The stages of a producer that has a snapshot, and of one that has a seal.
Sealable == {"sealable", "signable", "validated", "unexpired", "stamped"}
Snapped == {"snapshot"} \cup Sealable
Finished == {"built", "admitted"}

\* The CRL, if there is one, is the CA's own and complete.
Genuine(su) ==
  su.source.kind = "crl" =>
    LET crl == su.source.crl
    IN crl.signed_by = su.ca.key /\ crl.issuer = su.ca.name /\ crl.unsupported = {}

\* The seal is one that the responder accepts until its certificate ends.
GoodSeal(su, sl, t) ==
  /\ sl # None
  /\ sl.key = sl.cert.key /\ sl.cert.profile
  /\ sl.cert.not_before \in Int /\ sl.cert.not_after \in Int /\ sl.cert.not_before <= t
  /\ OpenStorage(su.storage) \/ Trusts(su.storage, sl.cert)
  /\ su.storage.authorizations # {} =>
       \A h \in {"sha256", "sha1"} : <<"hoike", <<h, su.ca.key>>, sl.cert>> \in su.storage.authorizations

\* The file was built from the snapshot.
BuiltFrom(b, su, snap, sl) ==
  \E X, entries, m : /\ Good(entries, X, su, snap) /\ GoodManifest(m, su, snap)
                     /\ b = build(m, entries, sl)

\* What there is once a file has been written.
Written(b, f, su, snap, sl, t) ==
  /\ Sourced(su, snap) /\ GoodSeal(su, sl, t) /\ BuiltFrom(b, su, snap, sl)
  /\ f = b \/ f \in Damaged(b)

\* The responder has admitted the file.
AdmittedFrom(l, f) ==
  /\ Readable(f) /\ l = from_bytes(f) /\ verify_structure(l)

IndInv ==
  /\ setup \in Setups /\ now \in Nat /\ produced \in Nat
  /\ stage = "authenticated" => Genuine(setup)
  /\ stage \in Snapped => Sourced(setup, snapshot)
  /\ stage \in Sealable => GoodSeal(setup, seal, now)
  /\ stage \in Finished \/ built # None => Written(built, file, setup, snapshot, seal, now)
  /\ built # None => stage \in Finished \cup {"refused"}
  /\ stage = "admitted" => AdmittedFrom(loaded, file)
  /\ stage # "admitted" => loaded = None
  /\ stage = "refused" /\ built # None /\ file = built => now >= seal.cert.not_after

\* An authentic source that is valid gives a snapshot that tells the truth.
LEMMA SnapshotTells ==
  ASSUME setup \in Setups, Genuine(setup), NEW snap,
         snap = IF setup.source.kind = "crl" THEN CrlSnapshot(setup.source.crl) ELSE setup.source.snapshot,
         setup.source.kind = "crl" => Interpretable(setup.source.crl), validate_at(snap, now)
  PROVE  Sourced(setup, snap)
<1>1. CASE setup.source.kind = "crl"
  <2> DEFINE crl == setup.source.crl
             S == Serials(setup.source)
  <2>1. S = {crl.entries[i].serial : i \in DOMAIN crl.entries}
    BY <1>1 DEF Serials
  <2>2. /\ snap.entries = [s \in S |-> "revoked"]
        /\ snap.this_update = crl.this_update /\ snap.next_update = crl.next_update
        /\ snap.not_after = <<>>
    BY <1>1, <2>1 DEF CrlSnapshot
  <2>3. Stated(setup.source) = crl
    BY <1>1 DEF Stated
  <2>4. \A n \in S : Truth[setup.ca.name][n] = "revoked"
    BY <1>1, TruthAssumption DEF Genuine
  <2>5. /\ snap.this_update \in Nat /\ snap.next_update \in Nat /\ snap.this_update < snap.next_update
    BY <2>2, <2>3, TypesAssumption DEF validate_at
  <2> HIDE DEF S
  <2>6. DOMAIN snap.entries = S /\ \A n \in S : snap.entries[n] = "revoked"
    BY <2>2
  <2>7. DOMAIN snap.not_after = {}
    BY <2>2
  <2> QED
    BY <2>4, <2>5, <2>6, <2>7 DEF Sourced, S
<1>2. CASE setup.source.kind # "crl"
  <2>1. snap = setup.source.snapshot /\ Stated(setup.source) = snap /\ Serials(setup.source) = DOMAIN snap.entries
    BY <1>2 DEF Stated, Serials
  <2>2. /\ snap.this_update \in Nat /\ snap.next_update \in Nat /\ snap.this_update < snap.next_update
    BY <2>1, TypesAssumption DEF validate_at
  <2>3. /\ \A n \in DOMAIN snap.not_after : snap.not_after[n] \in Int
        /\ \A n \in DOMAIN snap.entries : snap.entries[n] \in {"good", "revoked"}
    BY <1>2, <2>1, TypesAssumption
  <2>4. \A n \in DOMAIN snap.entries : snap.entries[n] = Truth[setup.ca.name][n]
    BY <1>2, <2>1, TruthAssumption
  <2> QED
    BY <2>1, <2>2, <2>3, <2>4 DEF Sourced
<1> QED
  BY <1>1, <1>2

\* A pair that passes its own proof.
LEMMA PairProven ==
  ASSUME NEW key, NEW cert, NEW t, validate_seal_materials(key, cert, t)
  PROVE  key = cert.key /\ cert.profile /\ cert.not_before <= t
BY DEF validate_seal_materials, verify_seal_with_pins, verify_seal, create_cms_seal, validate_cert_profile

\* A pair that is proven is one that the responder accepts.
LEMMA SealAccepted ==
  ASSUME setup \in Setups, now \in Nat, SealMaterial # None,
         validate_seal_materials(SealMaterial.key, SealMaterial.cert, now)
  PROVE  GoodSeal(setup, SealMaterial, now)
<1> DEFINE sl == SealMaterial
<1>1. sl.key = sl.cert.key /\ sl.cert.profile /\ sl.cert.not_before <= now
  BY PairProven
<1>2. CASE setup.seal_key # None /\ setup.seal_cert # None
  <2>1. sl.cert = setup.seal_cert
    BY <1>2 DEF SealMaterial
  <2> HIDE DEF sl
  <2>2. /\ sl.cert.not_before \in Int /\ sl.cert.not_after \in Int
        /\ OpenStorage(setup.storage) \/ Trusts(setup.storage, sl.cert)
        /\ setup.storage.authorizations # {} =>
             \A h \in {"sha256", "sha1"} :
               <<"hoike", <<h, setup.ca.key>>, sl.cert>> \in setup.storage.authorizations
    BY <1>2, <2>1, TrustAssumption
  <2> QED
    BY <1>1, <2>2 DEF GoodSeal, sl
<1>3. CASE ~(setup.seal_key # None /\ setup.seal_cert # None)
  <2>1. /\ setup.seal_key = None /\ setup.seal_cert = None
        /\ sl = [key |-> "ephemeral", cert |-> generate_seal_cert("ephemeral", now)]
    BY <1>3 DEF SealMaterial
  <2>2. sl.cert.not_before = now /\ sl.cert.not_after = now + 730
    <3> HIDE DEF sl
    <3> QED
      BY <2>1 DEF generate_seal_cert
  <2>3. OpenStorage(setup.storage)
    BY <2>1, TrustAssumption
  <2> HIDE DEF sl
  <2>4. sl.cert.not_before \in Int /\ sl.cert.not_after \in Int
    BY <2>2
  <2> QED
    BY <1>1, <2>3, <2>4 DEF GoodSeal, OpenStorage, sl
<1> QED
  BY <1>2, <1>3

\* A seal that is accepted stays so.
LEMMA StaysAccepted ==
  ASSUME NEW su, NEW sl, NEW t \in Nat, GoodSeal(su, sl, t)
  PROVE  GoodSeal(su, sl, t + 1)
BY DEF GoodSeal

\* What is read of a file that was built and not damaged.
LoadsAs(b, m, sl) ==
  /\ verify_structure(b)
  /\ b.seal = <<create_cms_seal(b.manifest_bytes, sl.key, sl.cert)>>
  /\ b.manifest.producer_id = "hoike" /\ b.manifest.bundle_type = "Full"
  /\ b.manifest.ca_scopes = m.ca_scopes
  /\ b.manifest.continuity = NoContinuity /\ b.manifest.compression = None
  /\ \A i \in DOMAIN b.index : ~IsTombstone(b.index[i])

\* build writes such a file from entries and a manifest of the producer.
LEMMA ReadsGood ==
  ASSUME NEW X, NEW entries, NEW m, NEW su, NEW snap, NEW sl, sl # None,
         Good(entries, X, su, snap), GoodManifest(m, su, snap),
         NEW f, f = build(m, entries, sl)
  PROVE  Readable(f) /\ LoadsAs(from_bytes(f), m, sl)
<1> DEFINE b == from_bytes(f)
<1>1. entries \in Seq(BuilderEntry(X)) /\ Sized(entries) /\ Distinct(entries) /\ IsManifest(m)
  BY DEF Good, GoodManifest
<1>2. /\ m.bundle_type = "Full" /\ m.producer_id = "hoike" /\ m.continuity = NoContinuity
      /\ m.compression = None
  BY DEF GoodManifest
<1>3. Readable(f)
  BY <1>1, ReadsBuilt
<1>4. /\ verify_structure(b)
      /\ IndexOf(b, entries, X)
      /\ b.manifest_bytes = to_cbor(FilledIn(m, entries))
      /\ b.manifest = from_cbor(b.manifest_bytes)
      /\ b.seal = Sealed(b.manifest_bytes, sl)
      /\ b.manifest.producer_id = m.producer_id
      /\ b.manifest.bundle_type = m.bundle_type
      /\ b.manifest.ca_scopes = m.ca_scopes
      /\ b.manifest.continuity = m.continuity
      /\ b.manifest.compression = m.compression
  <2> HIDE DEF b
  <2>1. b = from_bytes(build(m, entries, sl))
    BY DEF b
  <2>2. m.bundle_type = "Delta" => m.continuity.base # {}
    BY <1>2
  <2> QED
    BY <1>1, <2>1, <2>2, BuiltVerifies
<1> HIDE DEF b
<1>6. b.seal = <<create_cms_seal(b.manifest_bytes, sl.key, sl.cert)>>
  BY <1>4 DEF Sealed
<1>7. \A k \in 1..Len(entries) : ~IsTombstone(b.index[k])
  <2> SUFFICES ASSUME NEW k \in 1..Len(entries) PROVE ~IsTombstone(b.index[k])
    OBVIOUS
  <2>1. PICK i \in 1..Len(entries) : Stored(b.data, b.index[k], entries[i])
    BY <1>4 DEF IndexOf
  <2>2. b.data \in Seq(X) /\ entries[i].payload \in Seq(X)
    <3>1. b.data \in Seq(X)
      BY <1>4 DEF IndexOf
    <3>2. entries[i] \in BuilderEntry(X)
      BY <1>1
    <3> QED
      BY <3>1, <3>2 DEF BuilderEntry
  <2>3. ~IsTombstone(entries[i].record)
    BY <2>1 DEF Good
  <2> QED
    BY <2>1, <2>2, <2>3, StoredBytes
<1>8. DOMAIN b.index = 1..Len(entries)
  BY <1>1, <1>4 DEF IndexOf
<1>9. LoadsAs(b, m, sl)
  BY <1>2, <1>4, <1>6, <1>7, <1>8 DEF LoadsAs
<1> QED
  BY <1>3, <1>9 DEF b

\* A file that was not damaged is admitted while the certificate of its seal is valid.
LEMMA UndamagedAdmitted ==
  ASSUME NEW b, NEW m, NEW su, NEW snap, NEW sl, NEW t \in Nat,
         GoodManifest(m, su, snap), GoodSeal(su, sl, t), LoadsAs(b, m, sl),
         t < sl.cert.not_after
  PROVE  admit_bundle(b, su.storage, t)
<1> DEFINE st == su.storage
           bytes == b.manifest_bytes
           c == create_cms_seal(bytes, sl.key, sl.cert)
<1>1. validate_serving_profile(b)
  BY DEF LoadsAs, validate_serving_profile, NoContinuity
<1>2. c.digest = bytes /\ c.signed_by = sl.key /\ c.cert = sl.cert
  BY DEF create_cms_seal
<1>3. b.seal # <<>> /\ b.seal[1] = c
  <2>1. b.seal = <<c>>
    BY DEF LoadsAs
  <2> HIDE DEF c
  <2> QED
    BY <2>1
<1> HIDE DEF c, bytes
<1>4. verify_seal(bytes, b.seal)
  BY <1>2, <1>3 DEF verify_seal, GoodSeal
<1>5. validate_cert_profile(b.seal[1].cert, t)
  BY <1>2, <1>3 DEF GoodSeal, validate_cert_profile
<1>6. CASE OpenStorage(st)
  BY <1>1, <1>6 DEF OpenStorage, admit_bundle, LoadsAs
<1>7. CASE ~OpenStorage(st)
  <2>1. Trusts(st, sl.cert)
    BY <1>7 DEF GoodSeal
  <2>2. Authenticates(b, st, t)
    <3>1. CASE sl.cert \in st.pins
      BY <1>2, <1>3, <1>4, <1>5, <3>1 DEF Authenticates, verify_seal_with_pins, bytes
    <3>2. CASE sl.cert \notin st.pins
      <4>1. /\ \E a \in st.anchors : sl.cert = a \/ sl.cert.issued_by = a.key
            /\ \A a \in st.anchors : /\ a.not_before \in Int /\ a.not_after \in Int /\ a.profile
                                     /\ a.not_before <= sl.cert.not_before /\ sl.cert.not_after <= a.not_after
        BY <2>1, <3>2 DEF Trusts
      <4>2. sl.cert.not_before \in Int /\ sl.cert.not_after \in Int /\ sl.cert.not_before <= t
        BY DEF GoodSeal
      <4>3. \A a \in st.anchors : validate_cert_profile(a, t)
        BY <4>1, <4>2 DEF validate_cert_profile
      <4> QED
        BY <1>2, <1>3, <1>4, <1>5, <4>1, <4>3 DEF Authenticates, verify_seal_with_anchors, bytes
    <3> QED
      BY <3>1, <3>2
  <2>3. ASSUME st.authorizations # {}, NEW i \in DOMAIN b.manifest.ca_scopes
        PROVE  <<b.manifest.producer_id, b.manifest.ca_scopes[i].issuer_key_hash, b.seal[1].cert>> \in st.authorizations
    <3>1. i \in DOMAIN m.ca_scopes /\ b.manifest.ca_scopes[i] = m.ca_scopes[i]
      BY <2>3 DEF LoadsAs
    <3>2. PICK h \in {"sha256", "sha1"} : m.ca_scopes[i].issuer_key_hash = <<h, su.ca.key>>
      BY <3>1 DEF GoodManifest
    <3>3. b.manifest.producer_id = "hoike" /\ b.seal[1].cert = sl.cert
      BY <1>2, <1>3 DEF LoadsAs
    <3>4. <<"hoike", <<h, su.ca.key>>, sl.cert>> \in st.authorizations
      BY <2>3 DEF GoodSeal
    <3> QED
      BY <3>1, <3>2, <3>3, <3>4
  <2>4. authenticate_bundle(b, st, t)
    BY <2>2, <2>3 DEF authenticate_bundle, LoadsAs
  <2> QED
    BY <1>1, <1>7, <2>4 DEF admit_bundle, OpenStorage
<1> QED
  BY <1>6, <1>7

\* Whatever is admitted has passed verify_structure.
LEMMA AdmittedVerified ==
  ASSUME NEW b, NEW st, NEW t, admit_bundle(b, st, t)
  PROVE  verify_structure(b)
BY DEF admit_bundle, authenticate_bundle

\* Initially nothing has been done.
LEMMA InitInv == Init => IndInv
<1> SUFFICES ASSUME Init PROVE IndInv
  OBVIOUS
<1>1. setup \in Setups /\ now \in Nat /\ produced \in Nat
  BY TypesAssumption DEF Init
<1> QED
  BY <1>1 DEF Init, IndInv, Snapped, Sealable, Finished

\* A step that keeps what was written, and everything else but the stage.
LEMMA StageOnly ==
  ASSUME IndInv, UNCHANGED <<setup, now, snapshot, seal, built, file, loaded>>, produced' \in Nat,
         built = None, stage # "admitted", stage \notin Finished,
         stage' \notin Finished,
         stage' = "authenticated" => Genuine(setup),
         stage' \in Snapped => Sourced(setup, snapshot),
         stage' \in Sealable => GoodSeal(setup, seal, now)
  PROVE  IndInv'
BY DEF IndInv, Finished

\* Authenticate.
LEMMA AuthenticateInv == ASSUME IndInv, Authenticate PROVE IndInv'
<1>1. built = None /\ stage = "start"
  BY DEF IndInv, Authenticate, Finished
<1>2. stage' = "authenticated" => Genuine(setup)
  <2> HAVE stage' = "authenticated"
  <2>1. setup.source.kind = "crl" => authenticate(setup.source.crl, setup.source.issuer_cert, setup.ca, now)
    BY DEF Authenticate, Then
  <2> QED
    BY <2>1 DEF authenticate, Genuine
<1>3. stage' \in {"authenticated", "refused"} /\ UNCHANGED <<setup, now, snapshot, seal, produced, built, file, loaded>>
  BY DEF Authenticate, Then
<1>4. produced' \in Nat
  BY <1>3 DEF IndInv
<1> QED
  BY <1>1, <1>2, <1>3, <1>4, StageOnly DEF Finished, Snapped, Sealable

\* Snapshot.
LEMMA SnapshotInv == ASSUME IndInv, Snapshot PROVE IndInv'
<1> DEFINE source == setup.source
           snap == IF source.kind = "crl" THEN CrlSnapshot(source.crl) ELSE source.snapshot
           ok == (source.kind = "crl" => Interpretable(source.crl)) /\ validate_at(snap, now)
<1>1. built = None /\ stage = "authenticated" /\ Genuine(setup)
  BY DEF IndInv, Snapshot, Finished
<1>2. /\ stage' = IF ok /\ CompletenessIsProven THEN "snapshot" ELSE "refused"
      /\ snapshot' = IF ok THEN snap ELSE None
      /\ UNCHANGED <<setup, now, seal, produced, built, file, loaded>>
  BY DEF Snapshot, Then
<1>3. setup \in Setups
  BY DEF IndInv
<1>4. ASSUME stage' = "snapshot" PROVE Sourced(setup, snapshot')
  <2>1. ok /\ snapshot' = snap
    BY <1>2, <1>4
  <2>2. Sourced(setup, snap)
    BY <1>1, <1>3, <2>1, SnapshotTells
  <2> QED
    BY <2>1, <2>2
<1> HIDE DEF ok, snap
<1>5. stage' \in {"snapshot", "refused"}
  BY <1>2
<1> QED
  BY <1>1, <1>2, <1>4, <1>5 DEF IndInv, Finished, Snapped, Sealable

\* LoadSeal.
LEMMA LoadSealInv == ASSUME IndInv, LoadSeal PROVE IndInv'
<1> DEFINE ok == /\ setup.responder_usable
                 /\ SealMaterial # None
                 /\ validate_seal_materials(SealMaterial.key, SealMaterial.cert, now)
<1>1. built = None /\ stage = "snapshot" /\ Sourced(setup, snapshot) /\ setup \in Setups /\ now \in Nat
  BY DEF IndInv, LoadSeal, Finished, Snapped
<1>2. /\ stage' = IF ok THEN "sealable" ELSE "refused"
      /\ seal' = IF ok THEN SealMaterial ELSE None
      /\ UNCHANGED <<setup, now, snapshot, produced, built, file, loaded>>
  BY DEF LoadSeal, Then
<1>3. ASSUME stage' = "sealable" PROVE GoodSeal(setup, seal', now)
  <2>1. ok /\ seal' = SealMaterial
    BY <1>2, <1>3
  <2> QED
    BY <1>1, <2>1, SealAccepted
<1> HIDE DEF ok
<1>4. stage' \in {"sealable", "refused"}
  BY <1>2
<1> QED
  BY <1>1, <1>2, <1>3, <1>4 DEF IndInv, Finished, Snapped, Sealable

\* The steps of a producer that has its seal.
LEMMA SealedStepInv ==
  ASSUME IndInv, LoadSigner \/ ValidateSource \/ CheckExpiry \/ Stamp
  PROVE  IndInv'
<1>1. /\ stage \in Sealable /\ stage' \in Sealable \cup {"refused"}
      /\ UNCHANGED <<setup, now, snapshot, seal, built, file, loaded>>
      /\ produced' = produced \/ produced' = now
  BY DEF LoadSigner, ValidateSource, CheckExpiry, Stamp, Then, Sealable
<1>2. stage \in Snapped /\ stage \notin Finished
  BY <1>1 DEF Snapped, Sealable, Finished
<1>3. built = None /\ Sourced(setup, snapshot) /\ GoodSeal(setup, seal, now) /\ produced' \in Nat
  BY <1>1, <1>2 DEF IndInv, Finished, Sealable
<1>4. stage' \notin Finished /\ stage' # "authenticated" /\ stage # "admitted"
  BY <1>1 DEF Finished, Sealable
<1> QED
  BY <1>1, <1>2, <1>3, <1>4, StageOnly

\* Build.
LEMMA BuildInv == ASSUME IndInv, Build PROVE IndInv'
<1>1. /\ Sourced(setup, snapshot) /\ GoodSeal(setup, seal, now) /\ setup \in Setups
      /\ produced \in Nat /\ stage # "admitted"
  BY DEF IndInv, Build, Snapped, Sealable
<1>2. /\ stage' = "built" /\ built' = build(NewManifest(snapshot), Entries(snapshot), seal) /\ file' = built'
      /\ UNCHANGED <<setup, now, snapshot, seal, produced, loaded>>
  BY DEF Build
<1>3. BuiltFrom(built', setup, snapshot, seal)
  <2>1. Good(Entries(snapshot), ResponsesOf(snapshot), setup, snapshot)
    BY <1>1, EntriesGood
  <2>2. GoodManifest(NewManifest(snapshot), setup, snapshot)
    BY <1>1, ManifestGood
  <2> QED
    BY <1>2, <2>1, <2>2 DEF BuiltFrom
<1>4. Written(built', file', setup, snapshot, seal, now)
  BY <1>1, <1>2, <1>3 DEF Written
<1> QED
  BY <1>1, <1>2, <1>4 DEF IndInv, Snapped, Sealable, Finished

\* Damage.
LEMMA DamageInv == ASSUME IndInv, Damage PROVE IndInv'
<1>1. Written(built, file, setup, snapshot, seal, now) /\ stage = "built"
  BY DEF IndInv, Damage, Finished
<1>2. file' \in Damaged(built) /\ UNCHANGED <<setup, now, stage, snapshot, seal, produced, built, loaded>>
  BY DEF Damage
<1>3. Written(built, file', setup, snapshot, seal, now)
  BY <1>1, <1>2 DEF Written
<1> QED
  BY <1>1, <1>2, <1>3 DEF IndInv, Snapped, Sealable, Finished

\* Admit: a file that was not damaged is refused only after its seal has ended.
LEMMA AdmitInv == ASSUME IndInv, Admit PROVE IndInv'
<1> DEFINE bundle == from_bytes(file)
           ok == Readable(file) /\ admit_bundle(bundle, setup.storage, now)
<1>1. Written(built, file, setup, snapshot, seal, now) /\ stage = "built" /\ now \in Nat
  BY DEF IndInv, Admit, Finished
<1>2. /\ stage' = IF ok THEN "admitted" ELSE "refused"
      /\ loaded' = IF ok THEN bundle ELSE None
      /\ UNCHANGED <<setup, now, snapshot, seal, produced, built, file>>
  BY DEF Admit, Then
<1>3. ASSUME ok PROVE AdmittedFrom(loaded', file)
  BY <1>2, <1>3, AdmittedVerified DEF AdmittedFrom
<1>4. ASSUME ~ok, file = built PROVE now >= seal.cert.not_after
  <2> SUFFICES ASSUME now < seal.cert.not_after PROVE ok
    <3>1. seal.cert.not_after \in Int
      BY <1>1 DEF Written, GoodSeal
    <3> QED
      BY <1>1, <1>4, <3>1
  <2>1. GoodSeal(setup, seal, now) /\ seal # None
    BY <1>1 DEF Written, GoodSeal
  <2>2. PICK X, entries, m : /\ Good(entries, X, setup, snapshot) /\ GoodManifest(m, setup, snapshot)
                             /\ built = build(m, entries, seal)
    BY <1>1 DEF Written, BuiltFrom
  <2>3. Readable(file) /\ LoadsAs(bundle, m, seal)
    BY <1>4, <2>1, <2>2, ReadsGood
  <2> QED
    BY <1>1, <2>1, <2>2, <2>3, UndamagedAdmitted
<1> HIDE DEF ok, bundle
<1>5. CASE ok
  BY <1>1, <1>2, <1>3, <1>5 DEF IndInv, Snapped, Sealable, Finished
<1>6. CASE ~ok
  BY <1>1, <1>2, <1>4, <1>6 DEF IndInv, Snapped, Sealable, Finished
<1> QED
  BY <1>5, <1>6

\* Tick.
LEMMA TickInv == ASSUME IndInv, Tick PROVE IndInv'
<1>1. now' = now + 1 /\ now \in Nat /\ UNCHANGED <<setup, stage, snapshot, seal, produced, built, file, loaded>>
  BY DEF IndInv, Tick
<1>2. GoodSeal(setup, seal, now) => GoodSeal(setup, seal, now')
  BY <1>1, StaysAccepted
<1>3. Written(built, file, setup, snapshot, seal, now) => Written(built, file, setup, snapshot, seal, now')
  BY <1>2 DEF Written
<1>4. ASSUME stage = "refused", built # None, file = built PROVE now' >= seal.cert.not_after
  <2>1. now >= seal.cert.not_after /\ seal.cert.not_after \in Int
    BY <1>4 DEF IndInv, Written, GoodSeal
  <2> QED
    BY <1>1, <2>1
<1> QED
  BY <1>1, <1>2, <1>3, <1>4 DEF IndInv

\* The invariant is inductive.
THEOREM Inductive == Spec => []IndInv
<1>1. ASSUME IndInv, [Next]_vars PROVE IndInv'
  <2>1. CASE UNCHANGED vars
    BY <1>1, <2>1 DEF vars, IndInv
  <2> QED
    BY <1>1, <2>1, AuthenticateInv, SnapshotInv, LoadSealInv, SealedStepInv, BuildInv, DamageInv, AdmitInv,
       TickInv DEF Next
<1> QED
  BY <1>1, InitInv, PTL DEF Spec

-----------------------------------------------------------------------------
(* What an admitted bundle is *)

\* An admitted bundle was built from the source, whatever storage did to its file.
Serves(l, entries, X, m) ==
  /\ Good(entries, X, setup, snapshot) /\ GoodManifest(m, setup, snapshot)
  /\ built = build(m, entries, seal)
  /\ BundleOf(l, m, entries, seal) /\ verify_structure(l)
  /\ IndexOf(l, entries, X)

\* Whatever is loaded is such a bundle.
LEMMA WhatIsLoaded ==
  ASSUME IndInv, loaded # None
  PROVE  \E X, entries, m : Serves(loaded, entries, X, m)
<1>1. AdmittedFrom(loaded, file) /\ Written(built, file, setup, snapshot, seal, now)
  BY DEF IndInv, Finished
<1>2. PICK X, entries, m : /\ Good(entries, X, setup, snapshot) /\ GoodManifest(m, setup, snapshot)
                           /\ built = build(m, entries, seal)
  BY <1>1 DEF Written, BuiltFrom
<1>3. /\ entries \in Seq(BuilderEntry(X)) /\ Sized(entries) /\ Distinct(entries) /\ IsManifest(m)
      /\ m.shard = None /\ m.compression = None /\ m.extensions = None
  BY <1>2 DEF Good, GoodManifest
<1>4. /\ file = built \/ file \in Damaged(built)
      /\ Readable(file) /\ loaded = from_bytes(file) /\ verify_structure(loaded)
  BY <1>1 DEF Written, AdmittedFrom
<1>5. BundleOf(loaded, m, entries, seal)
  BY <1>2, <1>3, <1>4, ReadsOriginal
<1>6. IndexOf(Layout(entries), entries, X)
  BY <1>3, LayoutIndexes
<1>7. loaded.index = Layout(entries).index /\ loaded.data = Layout(entries).data
  BY <1>5 DEF BundleOf
<1>8. IndexOf(loaded, entries, X)
  BY <1>6, <1>7 DEF IndexOf
<1> QED
  BY <1>2, <1>4, <1>5, <1>8 DEF Serves

\* DamageIsRefused follows from the invariant.
LEMMA DamageFollows == IndInv => DamageIsRefused
<1> SUFFICES ASSUME IndInv PROVE DamageIsRefused
  OBVIOUS
<1>1. ASSUME loaded # None
      PROVE  /\ loaded.manifest = from_bytes(built).manifest
             /\ loaded.index = from_bytes(built).index
             /\ loaded.data = from_bytes(built).data
  <2>1. PICK X, entries, m : Serves(loaded, entries, X, m)
    BY <1>1, WhatIsLoaded
  <2> QED
    BY <2>1 DEF Serves, BundleOf
<1>2. stage = "refused" /\ built # None /\ file = built => now >= seal.cert.not_after
  BY DEF IndInv
<1> QED
  BY <1>1, <1>2 DEF DamageIsRefused

\* MappedAgrees follows from the invariant.
LEMMA MappedFollows == IndInv => MappedAgrees
<1> SUFFICES ASSUME IndInv, loaded # None,
                    NEW h \in {"sha256", "sha1"}, NEW s \in DOMAIN setup.spread, NEW p \in Preferences
             PROVE  lookup_mapped(loaded, EntryKey(h, s), p) = lookup_preferred(loaded, EntryKey(h, s), p)
  BY DEF MappedAgrees
<1>1. PICK X, entries, m : Serves(loaded, entries, X, m)
  BY WhatIsLoaded
<1>2. loaded.index \in Seq(IndexEntry) /\ SortedIndex(loaded.index)
  BY <1>1 DEF Serves, IndexOf
<1>3. p \in Seq(Int)
  <2>1. PqDisc \in Int /\ 0 \in Int /\ 9 \in Int
    BY DigestAssumption
  <2>2. /\ <<>> \in Seq(Int) /\ <<0>> \in Seq(Int) /\ <<PqDisc>> \in Seq(Int)
        /\ <<PqDisc, 0>> \in Seq(Int) /\ <<9, PqDisc>> \in Seq(Int)
    BY <2>1
  <2>3. p = <<>> \/ p = <<0>> \/ p = <<PqDisc>> \/ p = <<PqDisc, 0>> \/ p = <<9, PqDisc>>
    BY Zenon DEF Preferences
  <2> QED
    BY <2>2, <2>3
<1>4. EntryKey(h, s) \in Int
  <2>1. <<h, s>> \in {"sha256", "sha1"} \X DOMAIN setup.spread /\ setup \in Setups
    BY DEF IndInv
  <2> QED
    BY <2>1, DigestAssumption DEF EntryKey
<1> QED
  BY <1>2, <1>3, <1>4, MappedLookupAgrees

\* Every response in the data section is one that was signed for the source.
LEMMA ResponsesLoaded ==
  ASSUME IndInv, loaded # None, NEW i \in DOMAIN loaded.data
  PROVE  IsResponse(loaded.data[i], setup, snapshot)
<1>1. PICK X, entries, m : Serves(loaded, entries, X, m)
  BY WhatIsLoaded
<1>2. loaded.data \in Seq(X)
  BY <1>1 DEF Serves, IndexOf
<1>3. loaded.data[i] \in X
  BY <1>2
<1> QED
  BY <1>1, <1>3 DEF Serves, Good

\* StatusIsTheCAs follows from the invariant.
LEMMA StatusFollows == IndInv => StatusIsTheCAs
<1> SUFFICES ASSUME IndInv, loaded # None, NEW i \in DOMAIN loaded.data
             PROVE  LET single == loaded.data[i].single
                    IN single.status = Truth[setup.ca.name][single.certid[2]]
  BY DEF StatusIsTheCAs
<1> QED
  BY ResponsesLoaded DEF IsResponse

\* ValidityIsSourced follows from the invariant.
LEMMA ValidityFollows == IndInv => ValidityIsSourced
<1> SUFFICES ASSUME IndInv, loaded # None, NEW i \in DOMAIN loaded.data
             PROVE  LET single == loaded.data[i].single
                        end == datetime_to_epoch(single.next_update)
                        window == loaded.manifest.window
                    IN /\ datetime_to_epoch(single.this_update) = snapshot.this_update
                       /\ window.next_update_min <= end /\ end <= window.next_update_max
                       /\ end <= snapshot.next_update
  BY DEF ValidityIsSourced
<1> DEFINE q == loaded.data[i].single
<1>1. PICK X, entries, m : Serves(loaded, entries, X, m)
  BY WhatIsLoaded
<1>2. IsResponse(loaded.data[i], setup, snapshot)
  BY ResponsesLoaded
<1>3. PICK e \in Nat : /\ q.next_update = ocsp_time(e)
                       /\ Earliest(setup, snapshot) <= e /\ e <= Latest(setup, snapshot) /\ e <= snapshot.next_update
  BY <1>2 DEF IsResponse
<1>4. q.this_update = ocsp_time(snapshot.this_update)
  BY <1>2 DEF IsResponse
<1>5. snapshot.this_update \in Nat
  BY DEF IndInv, Written, Sourced, Finished
<1>6. datetime_to_epoch(q.this_update) = snapshot.this_update /\ datetime_to_epoch(q.next_update) = e
  BY <1>3, <1>4, <1>5, DatesSurvive
<1>7. loaded.manifest.window = m.window
  BY <1>1 DEF Serves, BundleOf
<1>8. m.window.next_update_min = Earliest(setup, snapshot) /\ m.window.next_update_max = Latest(setup, snapshot)
  BY <1>1 DEF Serves, GoodManifest
<1> QED
  BY <1>3, <1>6, <1>7, <1>8

\* Storage cannot change what an admitted bundle holds, and a file that was
\* not damaged is admitted while the certificate of its seal is valid.
THEOREM Refused == Spec => []DamageIsRefused
BY Inductive, DamageFollows, PTL

\* The mapped reader and the reader in memory agree on every admitted bundle.
THEOREM Agrees == Spec => []MappedAgrees
BY Inductive, MappedFollows, PTL

\* Every response in an admitted bundle has the status that the CA has recorded.
THEOREM Truthful == Spec => []StatusIsTheCAs
BY Inductive, StatusFollows, PTL

\* Every response in an admitted bundle ends within the window and the source.
THEOREM Sound == Spec => []ValidityIsSourced
BY Inductive, ValidityFollows, PTL
-----------------------------------------------------------------------------
(* Lookups *)

\* The first n of three discriminators.
Three(t, n, a, b, c) ==
  /\ DOMAIN t = 1..n
  /\ t[1] = a /\ (n > 1 => t[2] = b) /\ (n > 2 => t[3] = c)

\* The default is appended.
LEMMA AppendsDefault ==
  ASSUME NEW p \in Seq(Int), NEW t, t = Append(p, 0)
  PROVE  /\ DOMAIN t = 1..(Len(p) + 1) /\ t[Len(p) + 1] = 0
         /\ \A k \in 1..Len(p) : t[k] = p[k]
<1>1. /\ t \in Seq(Int) /\ Len(t) = Len(p) + 1
      /\ \A k \in 1..Len(p) : t[k] = p[k]
      /\ t[Len(p) + 1] = 0
  BY AppendProperties
<1> QED
  BY <1>1

\* What is tried: the preferences, and the default unless it is one of them.
LEMMA TriedAre ==
  /\ Three(Tried(<<>>), 1, 0, 0, 0) /\ PqDisc \notin Range(<<>>)
  /\ Three(Tried(<<0>>), 1, 0, 0, 0) /\ PqDisc \notin Range(<<0>>)
  /\ Three(Tried(<<PqDisc>>), 2, PqDisc, 0, 0) /\ PqDisc \in Range(<<PqDisc>>)
  /\ Three(Tried(<<PqDisc, 0>>), 2, PqDisc, 0, 0) /\ PqDisc \in Range(<<PqDisc, 0>>)
  /\ Three(Tried(<<9, PqDisc>>), 3, 9, PqDisc, 0) /\ PqDisc \in Range(<<9, PqDisc>>)
<1> DEFINE x == PqDisc
<1>1. x \in Int /\ x # 0
  BY DigestAssumption
<1> HIDE DEF x
<1>2. /\ Range(<<>>) = {} /\ Range(<<0>>) = {0} /\ Range(<<x>>) = {x}
      /\ Range(<<x, 0>>) = {x, 0} /\ Range(<<9, x>>) = {9, x}
  <2>1. Range(<<>>) = {}
    BY DEF Range
  <2>2. Range(<<0>>) = {0} /\ Range(<<x>>) = {x}
    BY DEF Range
  <2>3. ASSUME NEW y, NEW z PROVE Range(<<y, z>>) = {y, z}
    <3> DEFINE t == <<y, z>>
    <3>1. DOMAIN t = {1, 2} /\ t[1] = y /\ t[2] = z
      OBVIOUS
    <3> HIDE DEF t
    <3>2. Range(t) = {y, z}
      BY <3>1 DEF Range
    <3> QED
      BY <3>2 DEF t
  <2> QED
    BY <2>1, <2>2, <2>3
<1>3. Three(Tried(<<>>), 1, 0, 0, 0)
  <2>1. Tried(<<>>) = Append(<<>>, 0) /\ <<>> \in Seq(Int) /\ Len(<<>>) = 0
    BY <1>2 DEF Tried
  <2> QED
    BY <2>1, AppendsDefault DEF Three
<1>4. Three(Tried(<<0>>), 1, 0, 0, 0)
  <2>1. Tried(<<0>>) = <<0>>
    BY <1>2 DEF Tried
  <2> QED
    BY <2>1 DEF Three
<1>5. Three(Tried(<<x>>), 2, x, 0, 0)
  <2> DEFINE p == <<x>>
             t == Tried(p)
  <2>1. t = Append(p, 0) /\ p \in Seq(Int) /\ Len(p) = 1 /\ p[1] = x
    BY <1>1, <1>2 DEF Tried
  <2> HIDE DEF p, t
  <2>2. DOMAIN t = 1..2 /\ t[2] = 0 /\ t[1] = x
    <3>1. 1 \in 1..Len(p) /\ Len(p) + 1 = 2
      BY <2>1
    <3> QED
      BY <2>1, <3>1, AppendsDefault
  <2>3. Three(t, 2, x, 0, 0)
    BY <2>2 DEF Three
  <2> QED
    BY <2>3 DEF t, p
<1>6. Three(Tried(<<x, 0>>), 2, x, 0, 0)
  <2>1. Tried(<<x, 0>>) = <<x, 0>>
    BY <1>2 DEF Tried
  <2> QED
    BY <2>1 DEF Three
<1>7. Three(Tried(<<9, x>>), 3, 9, x, 0)
  <2> DEFINE p == <<9, x>>
             t == Tried(p)
  <2>1. 0 \notin Range(p)
    BY <1>1, <1>2
  <2>2. t = Append(p, 0) /\ p \in Seq(Int) /\ Len(p) = 2 /\ p[1] = 9 /\ p[2] = x
    BY <1>1, <2>1 DEF Tried
  <2> HIDE DEF p, t
  <2>3. DOMAIN t = 1..3 /\ t[3] = 0 /\ t[2] = x /\ t[1] = 9
    <3>1. 1 \in 1..Len(p) /\ 2 \in 1..Len(p) /\ Len(p) + 1 = 3
      BY <2>2
    <3> QED
      BY <2>2, <3>1, AppendsDefault
  <2>4. Three(t, 3, 9, x, 0)
    BY <2>3 DEF Three
  <2> QED
    BY <2>4 DEF t, p
<1> QED
  BY <1>1, <1>2, <1>3, <1>4, <1>5, <1>6, <1>7 DEF x

\* The first discriminator for which there is a record decides.
LEMMA FirstDecides ==
  ASSUME NEW b, NEW key, NEW p, NEW t, t = Tried(p), NEW n \in Nat, DOMAIN t = 1..n, NEW i \in 1..n,
         binary_search_with_discriminator(b.index, key, t[i]) # 0,
         \A j \in 1..n : j < i => binary_search_with_discriminator(b.index, key, t[j]) = 0
  PROVE  lookup_preferred(b, key, p) =
           entry_bytes(b, b.index[binary_search_with_discriminator(b.index, key, t[i])])
<1> DEFINE F(d) == binary_search_with_discriminator(b.index, key, d)
           found == [j \in DOMAIN t |-> F(t[j])]
<1> HIDE DEF F
<1>1. DOMAIN found = 1..n /\ \A j \in 1..n : found[j] = F(t[j])
  OBVIOUS
<1>2. found[i] # 0 /\ \A j \in 1..n : j < i => found[j] = 0
  BY <1>1 DEF F
<1>3. binary_search_preferred(b.index, key, p) = FirstFound(found)
  BY DEF binary_search_preferred, F
<1> HIDE DEF found
<1>4. FirstFound(found) = found[i]
  BY <1>1, <1>2, FirstFoundAt
<1> QED
  BY <1>1, <1>2, <1>3, <1>4 DEF lookup_preferred, F

\* Which discriminators there are records for.
Offers(b, key, dual) ==
  \A d : binary_search_with_discriminator(b.index, key, d) # 0 <=> d = 0 \/ (dual /\ d = PqDisc)

\* The post-quantum response is returned when it is there and preferred, else the classical one.
LEMMA Preferred ==
  ASSUME NEW b, NEW key, NEW dual \in BOOLEAN, Offers(b, key, dual), NEW p \in Preferences,
         NEW want, want = IF dual /\ PqDisc \in Range(p) THEN PqDisc ELSE 0
  PROVE  /\ binary_search_with_discriminator(b.index, key, want) # 0
         /\ lookup_preferred(b, key, p) =
              entry_bytes(b, b.index[binary_search_with_discriminator(b.index, key, want)])
<1> DEFINE F(d) == binary_search_with_discriminator(b.index, key, d)
           t == Tried(p)
           x == PqDisc
<1>1. x # 0 /\ x \in Int
  BY DigestAssumption
<1>2. \A d : F(d) # 0 <=> d = 0 \/ (dual /\ d = x)
  BY DEF Offers
<1>3. F(want) # 0
  BY <1>2
<1>4. \/ Three(t, 1, 0, 0, 0) /\ want = 0
      \/ Three(t, 2, x, 0, 0) /\ want = IF dual THEN x ELSE 0
      \/ Three(t, 3, 9, x, 0) /\ want = IF dual THEN x ELSE 0
  <2>1. p = <<>> \/ p = <<0>> \/ p = <<PqDisc>> \/ p = <<PqDisc, 0>> \/ p = <<9, PqDisc>>
    BY Zenon DEF Preferences
  <2> QED
    BY <2>1, TriedAre, Zenon
<1> HIDE DEF F, t, x
<1>5. \E n \in Nat : \E i \in 1..n : /\ DOMAIN t = 1..n /\ t[i] = want
                                    /\ \A j \in 1..n : j < i => F(t[j]) = 0
  <2>1. CASE Three(t, 1, 0, 0, 0) /\ want = 0
    <3>1. DOMAIN t = 1..1 /\ t[1] = want
      BY <2>1 DEF Three
    <3>2. 1 \in Nat /\ 1 \in 1..1 /\ \A j \in 1..1 : ~(j < 1)
      OBVIOUS
    <3> QED
      BY <3>1, <3>2
  <2>2. CASE Three(t, 2, x, 0, 0) /\ want = IF dual THEN x ELSE 0
    <3>1. DOMAIN t = 1..2 /\ t[1] = x /\ t[2] = 0
      BY <2>2 DEF Three
    <3>2. 2 \in Nat /\ 1 \in 1..2 /\ 2 \in 1..2
      OBVIOUS
    <3>3. CASE dual
      <4>1. t[1] = want /\ \A j \in 1..2 : ~(j < 1)
        BY <2>2, <3>1, <3>3
      <4> QED
        BY <3>1, <3>2, <4>1
    <3>4. CASE ~dual
      <4>1. t[2] = want /\ F(t[1]) = 0
        BY <1>1, <1>2, <2>2, <3>1, <3>4
      <4>2. \A j \in 1..2 : j < 2 => j = 1
        OBVIOUS
      <4> QED
        BY <3>1, <3>2, <4>1, <4>2
    <3> QED
      BY <3>3, <3>4
  <2>3. CASE Three(t, 3, 9, x, 0) /\ want = IF dual THEN x ELSE 0
    <3>1. DOMAIN t = 1..3 /\ t[1] = 9 /\ t[2] = x /\ t[3] = 0
      BY <2>3 DEF Three
    <3>2. 3 \in Nat /\ 1 \in 1..3 /\ 2 \in 1..3 /\ 3 \in 1..3
      OBVIOUS
    <3>3. CASE dual /\ x = 9
      <4>1. t[1] = want /\ \A j \in 1..3 : ~(j < 1)
        BY <2>3, <3>1, <3>3
      <4> QED
        BY <3>1, <3>2, <4>1
    <3>4. CASE dual /\ x # 9
      <4>1. t[2] = want /\ F(t[1]) = 0
        BY <1>2, <2>3, <3>1, <3>4
      <4>2. \A j \in 1..3 : j < 2 => j = 1
        OBVIOUS
      <4> QED
        BY <3>1, <3>2, <4>1, <4>2
    <3>5. CASE ~dual
      <4>1. t[3] = want /\ F(t[1]) = 0 /\ F(t[2]) = 0
        BY <1>1, <1>2, <2>3, <3>1, <3>5
      <4>2. \A j \in 1..3 : j < 3 => j = 1 \/ j = 2
        OBVIOUS
      <4> QED
        BY <3>1, <3>2, <4>1, <4>2
    <3> QED
      BY <3>3, <3>4, <3>5
  <2> QED
    BY <1>4, <2>1, <2>2, <2>3
<1>6. PICK n \in Nat : \E i \in 1..n : /\ DOMAIN t = 1..n /\ t[i] = want
                                     /\ \A j \in 1..n : j < i => F(t[j]) = 0
  BY <1>5
<1>8. PICK i \in 1..n : DOMAIN t = 1..n /\ t[i] = want /\ \A j \in 1..n : j < i => F(t[j]) = 0
  BY <1>6
<1>9. lookup_preferred(b, key, p) = entry_bytes(b, b.index[F(t[i])])
  <2>1. F(t[i]) # 0
    BY <1>3, <1>8
  <2>2. t = Tried(p)
    BY DEF t
  <2> QED
    BY <1>8, <2>1, <2>2, FirstDecides DEF F
<1> QED
  BY <1>3, <1>8, <1>9 DEF F

\* There are records for the offered discriminators, and for no others.
LEMMA LoadedOffers ==
  ASSUME setup \in Setups, NEW X, NEW entries, NEW b, IndexOf(b, entries, X), Good(entries, X, setup, snapshot),
         NEW s \in DOMAIN snapshot.entries, ~Expired(setup, snapshot, s),
         NEW h \in Range(HashesOf(config.certid_compat)), NEW key, key = setup.digest[<<h, s>>]
  PROVE  Offers(b, key, config.dual_algorithm)
<1> DEFINE F(d) == binary_search_with_discriminator(b.index, key, d)
           dual == config.dual_algorithm
<1>1. ASSUME NEW offer \in Offered(setup) PROVE F(offer[2]) # 0
  <2>1. Answered(entries, <<h, s>>, key, snapshot.entries[s], offer)
    BY DEF Good, AnswersAll, config
  <2>2. PICK k \in 1..Len(entries) : entries[k].record.key = key /\ entries[k].record.disc = offer[2]
    BY <2>1 DEF Answered
  <2> QED
    BY <2>2, SlotFound
<1>2. ASSUME NEW d, \A offer \in Offered(setup) : offer[2] # d PROVE F(d) = 0
  <2>1. \A i \in 1..Len(entries) : ~(entries[i].record.key = key /\ entries[i].record.disc = d)
    BY <1>2 DEF Good
  <2> QED
    BY <2>1, SlotMissing
<1>3. dual \in BOOLEAN
  BY TypesAssumption DEF config
<1>4. \A offer \in Offered(setup) : offer[2] = 0 \/ (dual /\ offer[2] = PqDisc)
  BY DEF Offered, config
<1>5. <<"classical", 0>> \in Offered(setup) /\ <<"classical", 0>>[2] = 0
  BY DEF Offered
<1>6. dual => <<"pq", PqDisc>> \in Offered(setup) /\ <<"pq", PqDisc>>[2] = PqDisc
  BY DEF Offered, config
<1> HIDE DEF F, dual
<1>7. \A d : F(d) # 0 <=> d = 0 \/ (dual /\ d = PqDisc)
  BY <1>1, <1>2, <1>3, <1>4, <1>5, <1>6
<1> QED
  BY <1>7 DEF Offers, F, dual

\* The record of an offered discriminator refers to a response that speaks of the CertID.
LEMMA OfferSpeaks ==
  ASSUME setup \in Setups, NEW X, NEW entries, NEW b, IndexOf(b, entries, X), Good(entries, X, setup, snapshot),
         NEW s \in DOMAIN snapshot.entries, ~Expired(setup, snapshot, s),
         NEW h \in Range(HashesOf(config.certid_compat)), NEW key, key = setup.digest[<<h, s>>],
         NEW offer \in Offered(setup),
         NEW r, r = entry_bytes(b, b.index[binary_search_with_discriminator(b.index, key, offer[2])])
  PROVE  r \in Seq(X) /\ Speaks(r, <<h, s>>, snapshot.entries[s], offer[1])
<1>1. Answered(entries, <<h, s>>, key, snapshot.entries[s], offer)
  BY DEF Good, AnswersAll, config
<1>2. PICK k \in 1..Len(entries) : /\ entries[k].record.key = key /\ entries[k].record.disc = offer[2]
                                   /\ Speaks(entries[k].payload, <<h, s>>, snapshot.entries[s], offer[1])
  BY <1>1 DEF Answered
<1> DEFINE v == binary_search_with_discriminator(b.index, key, offer[2])
<1>3. Stored(b.data, b.index[v], entries[k])
  BY <1>2, SlotFound
<1> HIDE DEF v
<1>4. ~IsTombstone(entries[k].record) /\ entries \in Seq(BuilderEntry(X))
  BY DEF Good
<1>5. entries[k].payload \in Seq(X)
  <2>1. entries[k] \in BuilderEntry(X)
    BY <1>4
  <2> QED
    BY <2>1 DEF BuilderEntry
<1>6. b.data \in Seq(X)
  BY DEF IndexOf
<1>7. entry_bytes(b, b.index[v]) = entries[k].payload
  BY <1>3, <1>4, <1>5, <1>6, StoredBytes
<1> QED
  BY <1>2, <1>5, <1>7 DEF v

\* A response is an answer.
LEMMA Answers ==
  ASSUME NEW X, \A x \in X : x \in Response, NEW r \in Seq(X), NEW certid, NEW status, NEW signer,
         Speaks(r, certid, status, signer)
  PROVE  /\ r # None /\ Cardinality(Singles(r, certid)) = 1
         /\ \A i \in Singles(r, certid) : r[i].single.status = status /\ r[i].signer = signer
<1>1. PICK j \in DOMAIN r : Singles(r, certid) = {j} /\ r[j].single.status = status /\ r[j].signer = signer
  BY DEF Speaks
<1>2. r \in Seq(Response)
  OBVIOUS
<1>3. r # None
  BY <1>2, NoneAssumption
<1>4. Cardinality({j}) = 1
  BY FS_Singleton
<1> QED
  BY <1>1, <1>3, <1>4

\* EveryIssuedSerialIsAnswered follows from the invariant.
LEMMA AnswersFollow == IndInv => EveryIssuedSerialIsAnswered
<1> SUFFICES ASSUME IndInv, loaded # None, NEW s \in Issued, NEW h \in Range(HashesOf(config.certid_compat)),
                    NEW p \in Preferences, ~LongExpired(s)
             PROVE  LET r == lookup_preferred(loaded, EntryKey(h, s), p)
                        wanted == IF config.dual_algorithm /\ PqDisc \in Range(p) THEN "pq" ELSE "classical"
                    IN /\ r # None
                       /\ Cardinality(Singles(r, <<h, s>>)) = 1
                       /\ \A i \in Singles(r, <<h, s>>) : /\ r[i].single.status = snapshot.entries[s]
                                                          /\ r[i].signer = wanted
  BY DEF EveryIssuedSerialIsAnswered
<1> DEFINE key == EntryKey(h, s)
           dual == config.dual_algorithm
           want == IF dual /\ PqDisc \in Range(p) THEN PqDisc ELSE 0
           wanted == IF dual /\ PqDisc \in Range(p) THEN "pq" ELSE "classical"
           r == lookup_preferred(loaded, key, p)
<1>1. PICK X, entries, m : Serves(loaded, entries, X, m)
  BY WhatIsLoaded
<1>2. setup \in Setups /\ IndexOf(loaded, entries, X) /\ Good(entries, X, setup, snapshot)
  BY <1>1 DEF IndInv, Serves
<1>3. s \in DOMAIN snapshot.entries /\ ~Expired(setup, snapshot, s) /\ key = setup.digest[<<h, s>>]
  BY DEF Issued, Expired, LongExpired, config, EntryKey
<1>4. dual \in BOOLEAN
  BY <1>2, TypesAssumption DEF config
<1> HIDE DEF key
<1>5. Offers(loaded, key, dual)
  BY <1>2, <1>3, LoadedOffers
<1>6. <<wanted, want>> \in Offered(setup)
  BY <1>4 DEF Offered, config
<1>7. r = entry_bytes(loaded, loaded.index[binary_search_with_discriminator(loaded.index, key, want)])
  <2> HIDE DEF dual, r, want
  <2> QED
    BY <1>4, <1>5, Preferred DEF r, want
<1> HIDE DEF r, want, wanted, dual
<1>8. r \in Seq(X) /\ Speaks(r, <<h, s>>, snapshot.entries[s], wanted)
  <2> DEFINE offer == <<wanted, want>>
  <2>1. offer[1] = wanted /\ offer[2] = want /\ offer \in Offered(setup)
    BY <1>6
  <2> HIDE DEF offer
  <2>2. r = entry_bytes(loaded, loaded.index[binary_search_with_discriminator(loaded.index, key, offer[2])])
    BY <1>7, <2>1
  <2>3. r \in Seq(X) /\ Speaks(r, <<h, s>>, snapshot.entries[s], offer[1])
    BY <1>2, <1>3, <2>1, <2>2, OfferSpeaks
  <2> QED
    BY <2>1, <2>3
<1>9. \A x \in X : x \in Response
  BY <1>2 DEF Good, IsResponse
<1>10. /\ r # None /\ Cardinality(Singles(r, <<h, s>>)) = 1
       /\ \A i \in Singles(r, <<h, s>>) : r[i].single.status = snapshot.entries[s] /\ r[i].signer = wanted
  BY <1>8, <1>9, Answers
<1> QED
  BY <1>10 DEF r, wanted, key, dual

\* Whoever asks for a serial that the source reports is answered, once, with
\* the source's status and by the signer preferred.
THEOREM AllAnswered == Spec => []EveryIssuedSerialIsAnswered
BY Inductive, AnswersFollow, PTL
=============================================================================
