-------------------------- MODULE FeeScheduleProofs --------------------------
(***************************************************************************)
(* Proofs about FeeSchedule, for schedules of any length, any amounts,     *)
(* dates, payments and days.                                               *)
(***************************************************************************)
EXTENDS FeeScheduleMC, Sums

-----------------------------------------------------------------------------
(***************************************************************************)
(* Induction over the instalments of a schedule.                           *)
(***************************************************************************)

\* A set of naturals that is not empty has a least one.
LEMMA LeastNumber ==
  ASSUME NEW S, S \subseteq Nat, S # {}
  PROVE \E n \in S : \A m \in S : n <= m
<1>1. PICK k \in S : TRUE
  OBVIOUS
<1> DEFINE Segments == {1 .. n : n \in S \cap 0 .. k}
<1>2. PICK T \in Segments : \A U \in SUBSET T : U # T => U \notin Segments
  <2>1. \A n \in S \cap 0 .. k : 1 .. n \subseteq 1 .. k
    OBVIOUS
  <2>2. Segments \subseteq SUBSET (1 .. k) /\ 1 .. k \in Segments
    BY <2>1
  <2>3. IsFiniteSet(1 .. k) /\ Segments # {}
    BY <2>2, FS_Interval
  <2> DEFINE D == 1 .. k
  <2>4. Segments \subseteq SUBSET D /\ IsFiniteSet(D)
    BY <2>2, <2>3
  <2> HIDE DEF D, Segments
  <2> QED BY <2>3, <2>4, MinimalSet
<1>3. PICK n \in S \cap 0 .. k : T = 1 .. n
  OBVIOUS
<1>4. ASSUME NEW m \in S, m < n PROVE FALSE
  <2>1. m \in S \cap 0 .. k
    BY <1>1, <1>3, <1>4
  <2>2. 1 .. m \in Segments /\ 1 .. m \in SUBSET T
    BY <1>3, <1>4, <2>1
  <2>3. n \in T /\ n \notin 1 .. m
    BY <1>3, <1>4
  <2> QED BY <1>2, <2>2, <2>3
<1> QED BY <1>3, <1>4

\* What holds of nothing and passes from each instalment to the next holds
\* of all.
LEMMA UpTo ==
  ASSUME NEW n \in Nat, NEW S, 0 \in S, \A i \in 1 .. n : i - 1 \in S => i \in S
  PROVE \A i \in 0 .. n : i \in S
<1> DEFINE Bad == {i \in 0 .. n : i \notin S}
<1> SUFFICES ASSUME Bad # {} PROVE FALSE
  OBVIOUS
<1>1. PICK b \in Bad : \A m \in Bad : b <= m
  <2>1. Bad \subseteq Nat
    OBVIOUS
  <2> HIDE DEF Bad
  <2> QED BY <2>1, LeastNumber
<1>2. b \in 1 .. n /\ b - 1 \in 0 .. n /\ b - 1 \notin Bad
  BY <1>1
<1> QED BY <1>1, <1>2

\* The last of some instalments is one of them.
LEMMA MaxIn ==
  ASSUME NEW n \in Nat, NEW S \in SUBSET (1 .. n), S # {}
  PROVE Max(S) \in S /\ \A m \in S : m <= Max(S)
<1> DEFINE Gaps == {n - m : m \in S}
<1>1. PICK g \in Gaps : \A h \in Gaps : g <= h
  <2>1. \A m \in S : n - m \in Nat
    OBVIOUS
  <2>2. Gaps \subseteq Nat /\ Gaps # {}
    BY <2>1
  <2> HIDE DEF Gaps
  <2> QED BY <2>2, LeastNumber
<1>2. PICK x \in S : g = n - x
  OBVIOUS
<1>3. \A m \in S : x >= m
  <2> TAKE m \in S
  <2>1. g <= n - m
    BY <1>1
  <2> QED BY <1>2, <2>1
<1> HIDE DEF Gaps
<1> QED BY <1>3 DEF Max

\* The first of some instalments is one of them.
LEMMA MinIn ==
  ASSUME NEW S, S \subseteq Nat, S # {}
  PROVE Min(S) \in S /\ \A m \in S : Min(S) <= m
<1>1. PICK x \in S : \A m \in S : x <= m
  BY LeastNumber
<1> QED BY <1>1 DEF Min

-----------------------------------------------------------------------------
(***************************************************************************)
(* The sum of a schedule.                                                  *)
(***************************************************************************)

\* A schedule: instalments of so many units each, whole numbers.
IsSchedule(s) == Len(s) \in Nat /\ DOMAIN s = 1 .. Len(s) /\ \A i \in 1 .. Len(s) : s[i].amount \in Int

AmountFcn(s) == [i \in 1 .. Len(s) |-> s[i].amount]

\* What the first i instalments ask for.
UpToSum(s, i) == SumFunctionOnSet(AmountFcn(s), 1 .. i)

\* The fold of a schedule's amounts, from the last one to the first.
IsRun(s, g) ==
  g = [d \in SUBSET DOMAIN s |-> IF d = {} THEN 0 ELSE g[d \ {Max(d)}] + s[Max(d)].amount]

LEMMA AmountsIsRun ==
  ASSUME NEW s
  PROVE AmountsOf(s) = (CHOOSE g : IsRun(s, g))[DOMAIN s]
BY DEF AmountsOf, FoldLeft, MapThenFoldSet, IsRun

\* Two runs over one schedule agree.
LEMMA RunsAgree ==
  ASSUME NEW s, IsSchedule(s), NEW g, NEW h, IsRun(s, g), IsRun(s, h)
  PROVE \A d \in SUBSET DOMAIN s : g[d] = h[d]
<1> DEFINE Bad == {d \in SUBSET DOMAIN s : g[d] # h[d]}
<1> SUFFICES ASSUME Bad # {} PROVE FALSE
  OBVIOUS
<1>1. PICK d \in Bad : \A u \in SUBSET d : u # d => u \notin Bad
  <2>1. Bad \subseteq SUBSET DOMAIN s /\ IsFiniteSet(DOMAIN s)
    BY FS_Interval DEF IsSchedule
  <2> HIDE DEF Bad
  <2> QED BY <2>1, MinimalSet
<1>2. /\ g[d] = IF d = {} THEN 0 ELSE g[d \ {Max(d)}] + s[Max(d)].amount
      /\ h[d] = IF d = {} THEN 0 ELSE h[d \ {Max(d)}] + s[Max(d)].amount
  BY DEF IsRun
<1>3. d # {}
  BY <1>2
<1>4. Max(d) \in d
  BY <1>1, <1>3, MaxIn DEF IsSchedule
<1>5. g[d \ {Max(d)}] = h[d \ {Max(d)}]
  BY <1>1, <1>4
<1> QED BY <1>1, <1>2, <1>3, <1>5

\* The fold is the sum of the amounts.
LEMMA AmountsAreSum ==
  ASSUME NEW s, IsSchedule(s)
  PROVE AmountsOf(s) = UpToSum(s, Len(s))
<1> DEFINE f == AmountFcn(s)
           g == [d \in SUBSET DOMAIN s |-> SumFunctionOnSet(f, d)]
<1>1. DOMAIN s = 1 .. Len(s) /\ IsFiniteSet(DOMAIN s)
  BY FS_Interval DEF IsSchedule
<1>2. ASSUME NEW d \in SUBSET DOMAIN s
      PROVE g[d] = IF d = {} THEN 0 ELSE g[d \ {Max(d)}] + s[Max(d)].amount
  <2>1. CASE d = {}
    BY <2>1, SumEmpty
  <2>2. CASE d # {}
    <3>1. Max(d) \in d
      BY <2>2, <1>1, MaxIn DEF IsSchedule
    <3>2. IsFiniteSet(d)
      BY <1>1, FS_Subset
    <3>3. \A x \in d : f[x] = s[x].amount /\ f[x] \in Int
      BY <1>1 DEF AmountFcn, IsSchedule
    <3>4. Summable(f, d) /\ Summable(f, d \ {Max(d)})
      BY <3>2, <3>3, FS_Subset DEF Summable
    <3> HIDE DEF f
    <3>5. SumFunctionOnSet(f, d) = f[Max(d)] + SumFunctionOnSet(f, d \ {Max(d)})
      BY <3>1, <3>4, SumRemove
    <3>6. SumFunctionOnSet(f, d \ {Max(d)}) \in Int
      BY <3>4, SumType
    <3> QED BY <2>2, <3>1, <3>3, <3>5, <3>6
  <2> QED BY <2>1, <2>2
<1>3. IsRun(s, g)
  <2>1. g = [d \in SUBSET DOMAIN s |-> g[d]]
    OBVIOUS
  <2> HIDE DEF g
  <2> QED BY <1>2, <2>1 DEF IsRun
<1>4. IsRun(s, CHOOSE h : IsRun(s, h))
  BY <1>3
<1>5. (CHOOSE h : IsRun(s, h))[DOMAIN s] = g[DOMAIN s]
  <2> DEFINE c == CHOOSE h : IsRun(s, h)
  <2> HIDE DEF c, g
  <2> QED BY <1>3, <1>4, RunsAgree DEF c
<1> QED BY <1>1, <1>5, AmountsIsRun DEF UpToSum

\* Each instalment adds its amount.
LEMMA SumStep ==
  ASSUME NEW s, IsSchedule(s)
  PROVE /\ UpToSum(s, 0) = 0
        /\ \A i \in 0 .. Len(s) : UpToSum(s, i) \in Int
        /\ \A i \in 1 .. Len(s) : UpToSum(s, i) = UpToSum(s, i - 1) + s[i].amount
<1> DEFINE f == AmountFcn(s)
<1>1. ASSUME NEW i \in 0 .. Len(s) PROVE Summable(f, 1 .. i)
  <2>1. IsFiniteSet(1 .. i) /\ 1 .. i \subseteq 1 .. Len(s)
    BY FS_Interval DEF IsSchedule
  <2> QED BY <2>1 DEF IsSchedule, Summable, AmountFcn
<1>2. UpToSum(s, 0) = 0
  <2>1. 1 .. 0 = {}
    OBVIOUS
  <2> QED BY <2>1, SumEmpty DEF UpToSum
<1>3. \A i \in 0 .. Len(s) : UpToSum(s, i) \in Int
  BY <1>1, SumType DEF UpToSum
<1>4. ASSUME NEW i \in 1 .. Len(s)
      PROVE UpToSum(s, i) = UpToSum(s, i - 1) + s[i].amount
  <2>1. Len(s) \in Nat
    BY DEF IsSchedule
  <2>2. i \in 1 .. i /\ (1 .. i) \ {i} = 1 .. (i - 1) /\ i - 1 \in 0 .. Len(s) /\ i \in 0 .. Len(s)
    BY <2>1
  <2>3. f[i] = s[i].amount /\ s[i].amount \in Int
    BY DEF AmountFcn, IsSchedule
  <2> HIDE DEF f
  <2>4. SumFunctionOnSet(f, 1 .. i) = f[i] + SumFunctionOnSet(f, 1 .. (i - 1))
    BY <1>1, <2>2, SumRemove
  <2> QED BY <1>3, <2>2, <2>3, <2>4 DEF UpToSum, f
<1> QED BY <1>2, <1>3, <1>4

\* Where every instalment asks for something, more of them ask for more.
LEMMA SumsGrow ==
  ASSUME NEW s, IsSchedule(s), Collectable(s)
  PROVE /\ \A i \in 1 .. Len(s) : UpToSum(s, i - 1) < UpToSum(s, i)
        /\ \A j \in 0 .. Len(s) : \A i \in 0 .. j : UpToSum(s, i) <= UpToSum(s, j)
<1> DEFINE P(i) == UpToSum(s, i)
<1>1. Len(s) \in Nat /\ \A i \in 0 .. Len(s) : P(i) \in Int
  BY SumStep DEF IsSchedule
<1>2. ASSUME NEW i \in 1 .. Len(s) PROVE P(i - 1) < P(i)
  <2>1. i \in 0 .. Len(s) /\ i - 1 \in 0 .. Len(s)
    BY <1>1
  <2>2. P(i) = P(i - 1) + s[i].amount /\ s[i].amount \in Int /\ s[i].amount > 0
    BY SumStep DEF IsSchedule, Collectable
  <2> HIDE DEF P
  <2> QED BY <1>1, <2>1, <2>2
<1> DEFINE S == {j \in 0 .. Len(s) : \A i \in 0 .. j : P(i) <= P(j)}
<1> HIDE DEF P
<1>3. 0 \in S
  BY <1>1
<1>4. ASSUME NEW j \in 1 .. Len(s), j - 1 \in S PROVE j \in S
  <2>1. j - 1 \in 0 .. Len(s) /\ P(j - 1) < P(j) /\ \A i \in 0 .. j - 1 : P(i) <= P(j - 1)
    BY <1>1, <1>2, <1>4
  <2>2. ASSUME NEW i \in 0 .. j PROVE P(i) <= P(j)
    <3>1. CASE i = j
      BY <3>1, <1>1
    <3>2. CASE i # j
      <4>1. i \in 0 .. j - 1 /\ i \in 0 .. Len(s) /\ j \in 0 .. Len(s)
        BY <3>2, <1>1
      <4> QED BY <4>1, <2>1, <1>1
    <3> QED BY <3>1, <3>2
  <2> QED BY <2>2, <1>1
<1> HIDE DEF S
<1>5. \A j \in 0 .. Len(s) : j \in S
  BY <1>1, <1>3, <1>4, UpTo
<1> QED BY <1>2, <1>5 DEF S, P

-----------------------------------------------------------------------------
(***************************************************************************)
(* Pouring the payments.                                                   *)
(***************************************************************************)

IsPouring(s, money, l) ==
  l = [i \in 0 .. Len(s) |->
         IF i = 0 THEN money ELSE l[i - 1] - Smaller(s[i].amount, Larger(l[i - 1], 0))]

\* What is left after the first i instalments is what they did not ask for.
LEMMA LeftIs ==
  ASSUME NEW s, IsSchedule(s), Collectable(s), NEW money \in Nat
  PROVE \A i \in 0 .. Len(s) : Left(s, money)[i] = Larger(money - UpToSum(s, i), 0)
<1> DEFINE P(i) == UpToSum(s, i)
           n == Len(s)
           g == [i \in 0 .. n |-> Larger(money - P(i), 0)]
<1>1. /\ n \in Nat /\ P(0) = 0
      /\ \A i \in 0 .. n : P(i) \in Int
      /\ \A i \in 1 .. n : /\ s[i].amount \in Int /\ s[i].amount > 0
                          /\ P(i) = P(i - 1) + s[i].amount
  BY SumStep DEF IsSchedule, Collectable
<1> HIDE DEF P, n
<1>2. ASSUME NEW i \in 0 .. n
      PROVE g[i] = IF i = 0 THEN money ELSE g[i - 1] - Smaller(s[i].amount, Larger(g[i - 1], 0))
  <2>1. CASE i = 0
    BY <1>1, <2>1 DEF Larger
  <2>2. CASE i # 0
    <3>1. i \in 1 .. n /\ i - 1 \in 0 .. n
      BY <2>2, <1>1
    <3>2. g[i] = Larger(money - P(i), 0) /\ g[i - 1] = Larger(money - P(i - 1), 0)
      BY <3>1
    <3> HIDE DEF g
    <3> QED BY <1>1, <2>2, <3>1, <3>2 DEF Larger, Smaller
  <2> QED BY <2>1, <2>2
<1>3. IsPouring(s, money, g)
  <2>1. g = [i \in 0 .. n |-> g[i]]
    OBVIOUS
  <2> HIDE DEF g
  <2> QED BY <1>2, <2>1 DEF IsPouring, n
<1> DEFINE l == Left(s, money)
<1>4. l = CHOOSE h : IsPouring(s, money, h)
  BY DEF Left, IsPouring
<1> HIDE DEF g, l
<1>5. IsPouring(s, money, l)
  BY <1>3, <1>4
<1>6. \A i \in 0 .. n : /\ l[i] = IF i = 0 THEN money ELSE l[i - 1] - Smaller(s[i].amount, Larger(l[i - 1], 0))
                       /\ g[i] = IF i = 0 THEN money ELSE g[i - 1] - Smaller(s[i].amount, Larger(g[i - 1], 0))
  BY <1>2, <1>5 DEF IsPouring, n
<1> DEFINE S == {i \in 0 .. n : l[i] = g[i]}
<1>7. 0 \in S
  BY <1>1, <1>6
<1>8. ASSUME NEW i \in 1 .. n, i - 1 \in S PROVE i \in S
  <2>1. i \in 0 .. n /\ i # 0 /\ l[i - 1] = g[i - 1]
    BY <1>1, <1>8
  <2>2. l[i] = g[i]
    BY <2>1, <1>6
  <2> QED BY <2>1, <2>2
<1> HIDE DEF S
<1>9. \A i \in 0 .. n : i \in S
  BY <1>1, <1>7, <1>8, UpTo
<1> QED BY <1>9 DEF S, g, l, n, P

\* What covers an instalment, and when it is paid.
LEMMA CoveredIs ==
  ASSUME NEW s, IsSchedule(s), Collectable(s), NEW money \in Nat, NEW i \in 1 .. Len(s)
  PROVE /\ Covered(s, money, i)
             = Larger(money - UpToSum(s, i - 1), 0) - Larger(money - UpToSum(s, i), 0)
        /\ Covered(s, money, i) \in 0 .. s[i].amount
        /\ Covered(s, money, i) > 0 <=> money > UpToSum(s, i - 1)
        /\ IsPaid(s, money, i) <=> money >= UpToSum(s, i)
<1>1. /\ Len(s) \in Nat /\ i \in 0 .. Len(s) /\ i - 1 \in 0 .. Len(s)
      /\ s[i].amount \in Int /\ s[i].amount > 0
  BY DEF IsSchedule, Collectable
<1>2. /\ UpToSum(s, i) \in Int /\ UpToSum(s, i - 1) \in Int
      /\ UpToSum(s, i) = UpToSum(s, i - 1) + s[i].amount
  BY <1>1, SumStep
<1>3. Covered(s, money, i)
        = Larger(money - UpToSum(s, i - 1), 0) - Larger(money - UpToSum(s, i), 0)
  BY <1>1, LeftIs DEF Covered
<1> DEFINE before == UpToSum(s, i - 1)
           after == UpToSum(s, i)
           a == s[i].amount
           c == Covered(s, money, i)
<1>4. IsPaid(s, money, i) <=> c >= a
  BY DEF IsPaid
<1>5. /\ before \in Int /\ after = before + a /\ a \in Int /\ a > 0
      /\ c = Larger(money - before, 0) - Larger(money - after, 0)
  BY <1>1, <1>2, <1>3
<1> HIDE DEF before, after, a, c
<1>6. c \in 0 .. a /\ (c > 0 <=> money > before) /\ (c >= a <=> money >= after)
  BY <1>5 DEF Larger
<1> QED BY <1>3, <1>4, <1>6 DEF before, after, a, c

-----------------------------------------------------------------------------
(***************************************************************************)
(* What is read off a schedule, for any payments and on any day.           *)
(***************************************************************************)

\* The instalments fall due on days, no one before the one it follows.
Dated(s) == \A i \in 1 .. Len(s) : s[i].due \in Int

\* All that was paid is poured, and no instalment before the one it follows.
LEMMA Poured ==
  ASSUME NEW s, IsSchedule(s), Collectable(s), NEW money \in Nat
  PROVE /\ Left(s, money)[Len(s)] = Larger(money - AmountsOf(s), 0)
        /\ \A i, j \in 1 .. Len(s) : i < j /\ Covered(s, money, j) > 0 => IsPaid(s, money, i)
<1>1. Len(s) \in Nat /\ Len(s) \in 0 .. Len(s)
  BY DEF IsSchedule
<1>2. Left(s, money)[Len(s)] = Larger(money - AmountsOf(s), 0)
  BY <1>1, LeftIs, AmountsAreSum
<1>3. ASSUME NEW i \in 1 .. Len(s), NEW j \in 1 .. Len(s), i < j, Covered(s, money, j) > 0
      PROVE IsPaid(s, money, i)
  <2>1. /\ j - 1 \in 0 .. Len(s) /\ i \in 0 .. j - 1 /\ i \in 0 .. Len(s)
    BY <1>1, <1>3
  <2>2. UpToSum(s, i) <= UpToSum(s, j - 1)
    BY <2>1, SumsGrow
  <2>3. money > UpToSum(s, j - 1) /\ UpToSum(s, i) \in Int /\ UpToSum(s, j - 1) \in Int
    BY <1>3, <2>1, CoveredIs, SumStep
  <2> QED BY <2>2, <2>3, CoveredIs
<1> QED BY <1>2, <1>3

\* What is expected next is the rest of the first instalment not paid: never
\* more than what the schedule asks for, and nothing only when all is paid.
LEMMA NextWithinOwed ==
  ASSUME NEW s, IsSchedule(s), Collectable(s), NEW money \in Nat
  PROVE /\ NextExpected(s, money).amount \in Nat
        /\ NextExpected(s, money).amount <= Larger(AmountsOf(s) - money, 0)
        /\ NextExpected(s, money).amount > 0 <=> AmountsOf(s) - money > 0
        /\ InDateOrder(s) /\ Dated(s) =>
             \A i \in 1 .. Len(s) : ~ IsPaid(s, money, i) => NextExpected(s, money).on <= s[i].due
<1> DEFINE open == {i \in 1 .. Len(s) : ~ IsPaid(s, money, i)}
           next == NextExpected(s, money)
           P(i) == UpToSum(s, i)
<1>1. /\ Len(s) \in Nat /\ \A i \in 0 .. Len(s) : P(i) \in Int
      /\ P(0) = 0 /\ AmountsOf(s) = P(Len(s))
      /\ \A i \in 1 .. Len(s) : /\ P(i) = P(i - 1) + s[i].amount
                               /\ s[i].amount \in Int /\ s[i].amount > 0
  BY SumStep, AmountsAreSum DEF IsSchedule, Collectable
<1>2. \A i \in 1 .. Len(s) : IsPaid(s, money, i) <=> money >= P(i)
  BY CoveredIs
<1>3. CASE open = {}
  <2>1. next = [amount |-> 0, on |-> 0]
    BY <1>3 DEF NextExpected, NoDate
  <2>2. P(Len(s)) <= money
    <3>1. CASE Len(s) = 0
      BY <3>1, <1>1
    <3>2. CASE Len(s) # 0
      <4>1. Len(s) \in 1 .. Len(s) /\ Len(s) \in 0 .. Len(s)
        BY <3>2, <1>1
      <4>2. IsPaid(s, money, Len(s))
        BY <1>3, <4>1
      <4> HIDE DEF P
      <4> QED BY <4>1, <4>2, <1>1, <1>2
    <3> QED BY <3>1, <3>2
  <2>3. P(Len(s)) \in Int
    BY <1>1
  <2>4. \A i \in 1 .. Len(s) : IsPaid(s, money, i)
    BY <1>3
  <2> HIDE DEF P, open, next
  <2>5. next.amount = 0
    BY <2>1
  <2> QED BY <1>1, <2>2, <2>3, <2>4, <2>5 DEF Larger, next
<1>4. CASE open # {}
  <2> DEFINE k == Min(open)
  <2>1. k \in open /\ \A m \in open : k <= m
    <3>1. open \subseteq Nat
      BY <1>1
    <3> HIDE DEF open
    <3> QED BY <1>4, <3>1, MinIn
  <2>2. next = [amount |-> s[k].amount - Covered(s, money, k), on |-> s[k].due]
    BY <1>4 DEF NextExpected
  <2> HIDE DEF k
  <2>3. /\ k \in 1 .. Len(s) /\ k \in 0 .. Len(s) /\ k - 1 \in 0 .. Len(s) /\ ~ IsPaid(s, money, k)
        /\ Len(s) \in 0 .. Len(s)
    BY <1>1, <2>1
  <2>4. P(k - 1) <= money
    <3>1. CASE k = 1
      BY <3>1, <1>1
    <3>2. CASE k # 1
      <4>1. k - 1 \in 1 .. Len(s) /\ ~ k <= k - 1
        BY <3>2, <2>3, <1>1
      <4>2. k - 1 \notin open
        BY <2>1, <4>1
      <4>3. IsPaid(s, money, k - 1)
        BY <4>1, <4>2
      <4> HIDE DEF P, open
      <4> QED BY <1>1, <1>2, <2>3, <4>1, <4>3
    <3> QED BY <3>1, <3>2
  <2>5. money < P(k) /\ P(k) <= P(Len(s))
    <3>1. k \in 0 .. Len(s)
      BY <2>3
    <3>2. P(k) <= P(Len(s))
      BY <2>3, SumsGrow
    <3> HIDE DEF P, open
    <3> QED BY <1>1, <1>2, <2>3, <3>2
  <2>6. Covered(s, money, k) = Larger(money - P(k - 1), 0) - Larger(money - P(k), 0)
    BY <2>3, CoveredIs
  <2>7. \A i \in 1 .. Len(s) : ~ IsPaid(s, money, i) => k <= i
    BY <2>1
  <2> HIDE DEF P, open, next
  <2>8. /\ P(k) \in Int /\ P(k - 1) \in Int /\ P(Len(s)) \in Int
        /\ P(k) = P(k - 1) + s[k].amount /\ s[k].amount \in Int
    BY <1>1, <2>3
  <2>9. next.amount = P(k) - money /\ next.on = s[k].due
    <3>1. Covered(s, money, k) = money - P(k - 1)
      BY <2>4, <2>5, <2>6, <2>8 DEF Larger
    <3>2. s[k].amount - Covered(s, money, k) = P(k) - money
      BY <2>8, <3>1
    <3> QED BY <2>2, <3>2
  <2>10. /\ next.amount \in Nat
         /\ next.amount <= Larger(AmountsOf(s) - money, 0)
         /\ next.amount > 0 /\ AmountsOf(s) - money > 0
    BY <1>1, <2>5, <2>8, <2>9 DEF Larger
  <2>11. ASSUME InDateOrder(s), Dated(s), NEW i \in 1 .. Len(s), ~ IsPaid(s, money, i)
         PROVE next.on <= s[i].due
    <3>1. k <= i /\ k \in 1 .. Len(s)
      BY <2>3, <2>7, <2>11
    <3>2. CASE k = i
      BY <2>9, <2>11, <3>2 DEF Dated
    <3>3. CASE k # i
      <4>1. k < i
        BY <1>1, <3>1, <3>3
      <4> QED BY <2>9, <2>11, <3>1, <4>1 DEF InDateOrder
    <3> QED BY <3>2, <3>3
  <2> QED BY <2>10, <2>11 DEF next
<1> QED BY <1>3, <1>4

-----------------------------------------------------------------------------
(***************************************************************************)
(* Sorting by date.                                                        *)
(***************************************************************************)

\* The places of the instalments are those of a sequence, each taken once.
LEMMA PlacesApart ==
  ASSUME NEW s, IsSchedule(s), Dated(s)
  PROVE /\ \A i \in 1 .. Len(s) : Place(s, i) \in 1 .. Len(s)
        /\ \A i, j \in 1 .. Len(s) : Precedes(s, i, j) => Place(s, i) < Place(s, j)
        /\ \A i, j \in 1 .. Len(s) : i = j \/ Precedes(s, i, j) \/ Precedes(s, j, i)
<1> DEFINE n == Len(s)
           Before(i) == {j \in 1 .. n : Precedes(s, j, i)}
<1>1. n \in Nat /\ IsFiniteSet(1 .. n) /\ Cardinality(1 .. n) = n
  BY FS_Interval DEF IsSchedule
<1>2. \A i \in 1 .. n : s[i].due \in Int
  BY DEF Dated
<1> HIDE DEF n
<1>3. ASSUME NEW i \in 1 .. n
      PROVE /\ IsFiniteSet(Before(i)) /\ Cardinality(Before(i)) \in Nat
            /\ i \notin Before(i) /\ Place(s, i) = 1 + Cardinality(Before(i))
  <2>1. Before(i) \subseteq 1 .. n
    OBVIOUS
  <2>2. IsFiniteSet(Before(i)) /\ Cardinality(Before(i)) \in Nat
    BY <1>1, <2>1, FS_Subset, FS_CardinalityType
  <2>3. i \notin Before(i)
    BY <1>2 DEF Precedes
  <2> QED BY <2>2, <2>3 DEF Place, n
<1>4. ASSUME NEW i \in 1 .. n PROVE Place(s, i) \in 1 .. n
  <2>1. Before(i) \subseteq 1 .. n /\ Before(i) # 1 .. n
    BY <1>3
  <2> DEFINE D == 1 .. n
  <2>2. Cardinality(Before(i)) < Cardinality(D)
    <3>1. Before(i) \subseteq D /\ Before(i) # D /\ IsFiniteSet(D)
      BY <1>1, <2>1
    <3> HIDE DEF D, Before
    <3> QED BY <1>3, <3>1, FS_Subset, FS_CardinalityType
  <2> HIDE DEF Before
  <2> QED BY <1>1, <1>3, <2>2
<1>5. ASSUME NEW i \in 1 .. n, NEW j \in 1 .. n, Precedes(s, i, j)
      PROVE Place(s, i) < Place(s, j)
  <2>1. Before(i) \subseteq Before(j)
    <3> SUFFICES ASSUME NEW k \in 1 .. n, Precedes(s, k, i) PROVE Precedes(s, k, j)
      OBVIOUS
    <3> QED BY <1>1, <1>2, <1>5 DEF Precedes
  <2>2. i \in Before(j) /\ i \notin Before(i)
    BY <1>3, <1>5
  <2>3. Cardinality(Before(i)) < Cardinality(Before(j))
    BY <1>3, <2>1, <2>2, FS_Subset
  <2> HIDE DEF Before
  <2> QED BY <1>3, <2>3
<1>6. \A i, j \in 1 .. n : i = j \/ Precedes(s, i, j) \/ Precedes(s, j, i)
  BY <1>1, <1>2 DEF Precedes
<1> QED BY <1>4, <1>5, <1>6 DEF n

\* Every place is taken.
LEMMA PlacesFilled ==
  ASSUME NEW s, IsSchedule(s), Dated(s), NEW k \in 1 .. Len(s)
  PROVE \E i \in 1 .. Len(s) : Place(s, i) = k
<1> DEFINE D == 1 .. Len(s)
           f == [i \in D |-> Place(s, i)]
<1>1. Len(s) \in Nat /\ IsFiniteSet(D)
  BY FS_Interval DEF IsSchedule
<1>2. f \in Injection(D, D)
  <2>1. f \in [D -> D]
    BY PlacesApart
  <2>2. ASSUME NEW i \in D, NEW j \in D, f[i] = f[j] PROVE i = j
    <3>1. Place(s, i) = Place(s, j) /\ Place(s, i) \in Nat
      BY <1>1, <2>2, PlacesApart
    <3>2. ~ Place(s, i) < Place(s, j) /\ ~ Place(s, j) < Place(s, i)
      BY <3>1
    <3> QED BY <3>2, PlacesApart
  <2> HIDE DEF f
  <2> QED BY <2>1, <2>2 DEF Injection, IsInjective
<1>3. f \in Surjection(D, D)
  <2> HIDE DEF f, D
  <2> QED BY <1>1, <1>2, FS_Injection
<1>4. \E i \in D : f[i] = k
  <2>1. k \in D
    OBVIOUS
  <2> HIDE DEF f, D
  <2> QED BY <1>3, <2>1 DEF Surjection
<1> QED BY <1>4

\* The sort keeps the instalments and leaves them in date order.
LEMMA ByDateSorts ==
  ASSUME NEW s, IsSchedule(s), Dated(s)
  PROVE /\ Len(ByDate(s)) = Len(s) /\ IsSchedule(ByDate(s)) /\ Dated(ByDate(s))
        /\ InDateOrder(ByDate(s))
<1> DEFINE n == Len(s)
           At(k) == CHOOSE i \in 1 .. n : Place(s, i) = k
           t == ByDate(s)
<1>1. n \in Nat /\ \A i \in 1 .. n : s[i].due \in Int /\ s[i].amount \in Int
  BY DEF IsSchedule, Dated
<1>2. \A k \in 1 .. n : At(k) \in 1 .. n /\ Place(s, At(k)) = k
  BY PlacesFilled
<1>3. t = [k \in 1 .. n |-> s[At(k)]]
  BY DEF ByDate
<1> HIDE DEF n, At, t
<1>4. Len(t) = n /\ DOMAIN t = 1 .. n /\ \A k \in 1 .. n : t[k] = s[At(k)]
  BY <1>1, <1>3
<1>5. \A k \in 1 .. n : t[k].due \in Int /\ t[k].amount \in Int
  BY <1>1, <1>2, <1>4
<1>6. ASSUME NEW k \in 1 .. n, NEW l \in 1 .. n, k < l PROVE t[k].due <= t[l].due
  <2>1. ~ Precedes(s, At(l), At(k))
    <3>1. ~ Place(s, At(l)) < Place(s, At(k))
      BY <1>1, <1>2, <1>6
    <3> QED BY <1>2, <3>1, PlacesApart DEF n
  <2>2. ~ s[At(l)].due < s[At(k)].due
    BY <2>1 DEF Precedes
  <2>3. At(k) \in 1 .. n /\ At(l) \in 1 .. n
    BY <1>2
  <2> QED BY <1>1, <1>4, <2>2, <2>3
<1> QED BY <1>1, <1>4, <1>5, <1>6 DEF IsSchedule, Dated, InDateOrder, n, t

-----------------------------------------------------------------------------
(***************************************************************************)
(* Splitting a fee.                                                        *)
(***************************************************************************)

\* Multiplication by a natural number keeps the order.
LEMMA TimesKeepsOrder ==
  ASSUME NEW a \in Int, NEW b \in Int, NEW c \in Nat, a <= b
  PROVE c * a <= c * b
OBVIOUS

\* Rounding is off by half a unit at most.
LEMMA RoundsWell ==
  ASSUME NEW n \in Nat, NEW d \in Nat \ {0}
  PROVE LET e == RoundHalfEven(n, d) IN
        e \in Nat /\ 2 * (n - e * d) <= d /\ 2 * (e * d - n) <= d
<1> DEFINE q == n \div d
           r == n % d
<1>1. /\ q \in Int /\ r \in 0 .. d - 1 /\ n = d * q + r
  OBVIOUS
<1>2. q \in Nat
  OBVIOUS
<1>3. RoundHalfEven(n, d) = IF 2 * r > d \/ (2 * r = d /\ q % 2 = 1) THEN q + 1 ELSE q
  BY DEF RoundHalfEven
<1> HIDE DEF q, r
<1>4. /\ q * d = n - r /\ (q + 1) * d = n - r + d
      /\ q * d \in Int /\ (q + 1) * d \in Int
  <2>1. (q + 1) * d = q * d + d /\ q * d = d * q /\ q * d \in Int
    BY <1>2
  <2> QED BY <1>1, <2>1
<1> QED BY <1>1, <1>2, <1>3, <1>4

\* The parts of a fee: how many, how much each, how much the first.
LEMMA SpreadIs ==
  ASSUME NEW payable \in Nat \ {0}, NEW dates, Len(dates) \in Nat \ {0}
  PROVE LET n == Len(dates)
            e == RoundHalfEven(payable, n)
            s == Spread(payable, dates)
        IN /\ Len(s) = n /\ IsSchedule(s) /\ s # <<>>
           /\ s[1].amount = e + payable - e * n
           /\ \A i \in 2 .. n : s[i].amount = e
           /\ \A i \in 1 .. n : s[i].due = dates[i]
<1> DEFINE n == Len(dates)
           e == RoundHalfEven(payable, n)
           s == Spread(payable, dates)
<1>1. s = [i \in 1 .. n |-> [amount |-> IF i = 1 THEN e + payable - e * n ELSE e, due |-> dates[i]]]
  BY DEF Spread
<1>2. e \in Nat
  BY RoundsWell
<1> HIDE DEF n, e, s
<1>3. n \in Nat \ {0} /\ e * n \in Int
  BY <1>2 DEF n
<1>4. Len(s) = n /\ DOMAIN s = 1 .. n
  BY <1>1, <1>3
<1>5. 1 \in 1 .. n /\ \A i \in 2 .. n : i \in 1 .. n /\ i # 1
  BY <1>3
<1>6. s[1].amount = e + payable - e * n /\ \A i \in 2 .. n : s[i].amount = e
  BY <1>1, <1>5
<1>7. \A i \in 1 .. n : s[i].amount \in Int /\ s[i].due = dates[i]
  BY <1>1, <1>2, <1>3
<1>8. s # <<>>
  BY <1>3, <1>4
<1> QED BY <1>3, <1>4, <1>6, <1>7, <1>8 DEF IsSchedule, n, e, s

\* The parts add up to the fee.
LEMMA SpreadAddsUp ==
  ASSUME NEW payable \in Nat \ {0}, NEW dates, Len(dates) \in Nat \ {0}
  PROVE AmountsOf(Spread(payable, dates)) = payable
<1> DEFINE n == Len(dates)
           e == RoundHalfEven(payable, n)
           s == Spread(payable, dates)
           P(i) == UpToSum(s, i)
<1>1. /\ n \in Nat \ {0} /\ e \in Nat
      /\ Len(s) = n /\ IsSchedule(s)
      /\ s[1].amount = e + payable - e * n
      /\ \A i \in 2 .. n : s[i].amount = e
  BY SpreadIs, RoundsWell
<1>2. /\ P(0) = 0 /\ AmountsOf(s) = P(n) /\ \A i \in 0 .. n : P(i) \in Int
      /\ \A i \in 1 .. n : P(i) = P(i - 1) + s[i].amount
  BY <1>1, SumStep, AmountsAreSum
<1> HIDE DEF n, e, s, P
<1> DEFINE T == {i \in 0 .. n : i = 0 \/ P(i) = payable - e * (n - i)}
<1>3. ASSUME NEW i \in 1 .. n, i - 1 \in T PROVE i \in T
  <2>1. CASE i = 1
    <3>1. P(1) = e + payable - e * n
      BY <1>1, <1>2, <2>1
    <3>2. e * (n - 1) = e * n - e /\ e * n \in Int
      BY <1>1
    <3> QED BY <1>1, <2>1, <3>1, <3>2
  <2>2. CASE i # 1
    <3>1. i \in 2 .. n /\ i - 1 # 0
      BY <1>1, <2>2
    <3>2. P(i - 1) = payable - e * (n - (i - 1))
      BY <1>3, <3>1
    <3>3. P(i) = P(i - 1) + e
      BY <1>1, <1>2, <3>1
    <3>4. /\ e * (n - (i - 1)) = e * (n - i) + e
          /\ e * (n - i) \in Int
      BY <1>1
    <3>5. P(i) = payable - e * (n - i)
      BY <1>1, <3>2, <3>3, <3>4
    <3> QED BY <3>5
  <2> QED BY <2>1, <2>2
<1>4. 0 \in T
  BY <1>1
<1> HIDE DEF T
<1>5. n \in T
  <2>1. n \in Nat /\ n \in 0 .. n
    BY <1>1
  <2> QED BY <2>1, <1>3, <1>4, UpTo
<1>6. P(n) = payable - e * (n - n)
  BY <1>1, <1>5 DEF T
<1>7. e * (n - n) = 0
  BY <1>1
<1> QED BY <1>2, <1>6, <1>7 DEF s

\* The first part is off the others by half a unit of each at most, and where
\* the fee is not tiny every part asks for something.
LEMMA SpreadIsFair ==
  ASSUME NEW payable \in Nat \ {0}, NEW dates, Len(dates) \in Nat \ {0}
  PROVE LET n == Len(dates)
            s == Spread(payable, dates)
        IN /\ \A i \in 2 .. n : /\ 2 * (s[1].amount - s[i].amount) <= n
                               /\ 2 * (s[i].amount - s[1].amount) <= n
           /\ 2 * payable > n * (n + 1) => Collectable(s)
<1> DEFINE n == Len(dates)
           e == RoundHalfEven(payable, n)
           s == Spread(payable, dates)
           rest == payable - e * n
<1>1. /\ n \in Nat \ {0} /\ e \in Nat
      /\ Len(s) = n
      /\ s[1].amount = e + payable - e * n
      /\ \A i \in 2 .. n : s[i].amount = e
  BY SpreadIs, RoundsWell
<1>2. 2 * rest <= n /\ 2 * (e * n - payable) <= n
  BY RoundsWell
<1>3. e * n \in Int /\ rest \in Int
  BY <1>1
<1> HIDE DEF n, e, s
<1>4. s[1].amount = e + rest /\ 2 * rest <= n /\ 2 * (0 - rest) <= n
  BY <1>1, <1>2, <1>3
<1>5. \A i \in 2 .. n : /\ 2 * (s[1].amount - s[i].amount) <= n
                       /\ 2 * (s[i].amount - s[1].amount) <= n
  <2> TAKE i \in 2 .. n
  <2> HIDE DEF rest
  <2> QED BY <1>1, <1>3, <1>4
<1>6. ASSUME 2 * payable > n * (n + 1) PROVE Collectable(s)
  <2>1. n < 2 * e
    <3> SUFFICES ASSUME 2 * e <= n PROVE FALSE
      BY <1>1
    <3>1. n * (2 * e) <= n * n
      BY <1>1, TimesKeepsOrder
    <3>2. n * (n + 1) = n * n + n /\ n * n \in Int
      BY <1>1
    <3>3. n * (2 * e) = 2 * (e * n)
      BY <1>1
    <3>4. 2 * payable = 2 * rest + 2 * (e * n)
      BY <1>1, <1>3
    <3> HIDE DEF rest
    <3> QED BY <1>1, <1>3, <1>4, <1>6, <3>1, <3>2, <3>3, <3>4
  <2>2. s[1].amount > 0 /\ e > 0
    <3> HIDE DEF rest
    <3> QED BY <1>1, <1>3, <1>4, <2>1
  <2>3. \A i \in 1 .. n : i = 1 \/ i \in 2 .. n
    BY <1>1
  <2>4. \A i \in 1 .. n : s[i].amount > 0
    BY <1>1, <2>2, <2>3
  <2> QED BY <1>1, <2>4 DEF Collectable
<1> QED BY <1>5, <1>6 DEF n, s

-----------------------------------------------------------------------------
(***************************************************************************)
(* The invariants of every schedule that can be built, while money comes   *)
(* in and days pass.                                                       *)
(***************************************************************************)

Instalments == [amount: Nat \ {0}, due: Int]

\* A schedule as the operators expect it, and what they are told besides.
SInv ==
  /\ schedule \in Seq(Instalments) /\ InDateOrder(schedule)
  /\ paid \in Nat /\ day \in Int

\* Of the schedules only the shape matters.
LEMMA BuiltIsSchedule ==
  ASSUME SInv
  PROVE IsSchedule(schedule) /\ Collectable(schedule) /\ Dated(schedule)
<1>1. /\ Len(schedule) \in Nat /\ DOMAIN schedule = 1 .. Len(schedule)
      /\ \A i \in 1 .. Len(schedule) : schedule[i] \in Instalments
  BY DEF SInv
<1> QED BY <1>1 DEF IsSchedule, Collectable, Dated, Instalments

\* A schedule is built in date order.
LEMMA ScheduleStepInv == SInv /\ [ScheduleNext]_<<schedule, paid, day>> => SInv'
<1> SUFFICES ASSUME SInv, [ScheduleNext]_<<schedule, paid, day>> PROVE SInv'
  OBVIOUS
<1>1. ASSUME NEW item \in [amount: 1 .. MaxAmount, due: 1 .. LastDay], Schedule(item)
      PROVE SInv'
  <2> DEFINE n == Len(schedule)
  <2>1. item \in Instalments
    BY ScheduleBounds DEF Instalments
  <2>2. schedule \in Seq(Instalments) /\ n \in Nat
    BY DEF SInv
  <2>3. schedule' = Append(schedule, item)
    BY <1>1 DEF Schedule
  <2>4. schedule' \in Seq(Instalments) /\ Len(schedule') = n + 1
    BY <2>1, <2>2, <2>3
  <2>5. schedule'[n + 1] = item /\ \A i \in 1 .. n : schedule'[i] = schedule[i]
    BY <2>1, <2>2, <2>3
  <2>6. \A i \in 1 .. n : schedule[i].due <= item.due
    <3> TAKE i \in 1 .. n
    <3>1. schedule # <<>> /\ n \in 1 .. n
      BY <2>2
    <3>2. schedule[n].due <= item.due
      BY <1>1, <3>1 DEF Schedule, Last
    <3>3. schedule[i] \in Instalments /\ schedule[n] \in Instalments
      BY <2>2, <3>1
    <3>4. schedule[i].due \in Int /\ schedule[n].due \in Int /\ item.due \in Int
      BY <2>1, <3>3 DEF Instalments
    <3>5. schedule[i].due <= schedule[n].due
      BY <3>1, <3>4 DEF SInv, InDateOrder
    <3> QED BY <3>2, <3>4, <3>5
  <2>7. InDateOrder(schedule')
    <3> SUFFICES ASSUME NEW i \in 1 .. n + 1, NEW j \in 1 .. n + 1, i < j
                 PROVE schedule'[i].due <= schedule'[j].due
      BY <2>4 DEF InDateOrder
    <3>1. i \in 1 .. n
      BY <2>2
    <3>2. CASE j = n + 1
      BY <2>5, <2>6, <3>1, <3>2
    <3>3. CASE j # n + 1
      <4>1. j \in 1 .. n
        BY <2>2, <3>3
      <4> QED BY <2>5, <3>1, <4>1 DEF SInv, InDateOrder
    <3> QED BY <3>2, <3>3
  <2>8. paid' \in Nat /\ day' \in Int
    BY <1>1 DEF Schedule, SInv
  <2>9. InDateOrder(schedule)'
    BY <2>7 DEF InDateOrder
  <2> QED BY <2>4, <2>8, <2>9 DEF SInv, Instalments
<1>2. CASE Receive
  BY <1>2 DEF Receive, SInv, InDateOrder, Instalments
<1>3. CASE DayPasses
  BY <1>3 DEF DayPasses, SInv, InDateOrder, Instalments
<1>4. CASE UNCHANGED <<schedule, paid, day>>
  BY <1>4 DEF SInv, InDateOrder, Instalments
<1> QED BY <1>1, <1>2, <1>3, <1>4 DEF ScheduleNext

\* So are all of them.
LEMMA ScheduleInv == ScheduleSpec => []SInv
<1>1. ScheduleInit => SInv
  BY DEF ScheduleInit, SInv, InDateOrder
<1> QED BY <1>1, ScheduleStepInv, PTL DEF ScheduleSpec

\* One instalment is pending at most, the first that is neither paid nor late.
LEMMA PendingIsOne == SInv => OnePending
<1> SUFFICES ASSUME SInv PROVE OnePending
  OBVIOUS
<1> DEFINE Waits(i) == ~ IsPaid(schedule, paid, i) /\ ~ Late(schedule, paid, i, day)
           Pending == Statuses({"pending"})
           Upcoming == Statuses({"upcoming"})
<1>1. /\ Indices = 1 .. Len(schedule) /\ Indices \subseteq Nat
      /\ \A i \in Indices : schedule[i].due \in Int
  BY BuiltIsSchedule DEF IsSchedule, Dated, Indices
<1>2. \A i \in Indices : i \in Pending <=> Waits(i) /\ \A j \in 1 .. i - 1 : ~ Waits(j)
  BY DEF Statuses, InstallmentStatus
<1>3. \A i \in Indices : i \in Upcoming <=> Waits(i) /\ \E j \in 1 .. i - 1 : Waits(j)
  BY DEF Statuses, InstallmentStatus
<1>4. Pending \subseteq Indices /\ Upcoming \subseteq Indices
  BY DEF Statuses
<1>5. \A i \in Statuses({"overdue"}) : Late(schedule, paid, i, day)
  BY DEF Statuses, InstallmentStatus
<1>6. \A i \in Statuses({"pending", "upcoming"}) : i \in Indices /\ Waits(i)
  BY DEF Statuses, InstallmentStatus
<1> HIDE DEF Pending, Upcoming, Waits
<1>7. Cardinality(Pending) <= 1
  <2>1. ASSUME NEW i \in Pending, NEW j \in Pending PROVE i = j
    <3>1. i \in Nat /\ j \in Nat /\ i >= 1 /\ j >= 1
      BY <1>1, <1>4
    <3>2. CASE i < j
      BY <1>2, <1>4, <3>1, <3>2
    <3>3. CASE j < i
      BY <1>2, <1>4, <3>1, <3>3
    <3> QED BY <3>1, <3>2, <3>3
  <2>2. CASE Pending = {}
    BY <2>2, FS_EmptySet
  <2>3. CASE Pending # {}
    <3>1. PICK i \in Pending : TRUE
      BY <2>3
    <3>2. Pending = {i}
      BY <2>1, <3>1
    <3> QED BY <3>2, FS_Singleton
  <2> QED BY <2>2, <2>3
<1>8. \A i \in Pending, j \in Upcoming : i < j
  <2> TAKE i \in Pending, j \in Upcoming
  <2>1. i \in Nat /\ j \in Nat /\ i >= 1 /\ j >= 1
    BY <1>1, <1>4
  <2>2. PICK k \in 1 .. j - 1 : Waits(k)
    BY <1>3, <1>4
  <2>3. k \notin 1 .. i - 1
    BY <1>2, <1>4, <2>2
  <2> QED BY <2>1, <2>3
<1>9. Upcoming # {} => Pending # {}
  <2> SUFFICES ASSUME NEW j \in Upcoming PROVE Pending # {}
    OBVIOUS
  <2> DEFINE W == {i \in Indices : Waits(i)}
  <2>1. j \in W /\ W \subseteq Nat
    BY <1>1, <1>3, <1>4
  <2>2. PICK i \in W : \A k \in W : i <= k
    <3> HIDE DEF W
    <3> QED BY <2>1, LeastNumber
  <2>3. \A k \in 1 .. i - 1 : ~ Waits(k)
    <3> TAKE k \in 1 .. i - 1
    <3>1. k \in Indices /\ ~ i <= k
      BY <1>1
    <3> QED BY <2>2, <3>1
  <2> QED BY <1>2, <2>3
<1>10. \A i \in Statuses({"overdue"}) : schedule[i].due < day
  BY <1>5 DEF Late
<1>11. \A i \in Statuses({"pending", "upcoming"}) : schedule[i].due >= day
  BY <1>1, <1>6 DEF Late, Waits, SInv
<1> QED BY <1>7, <1>8, <1>9, <1>10, <1>11 DEF OnePending, Pending, Upcoming

\* installment_rows, for every schedule, every total and every day: payments
\* are poured from the first instalment on, and one at most is pending.
THEOREM SchedulesCollectInOrder == ScheduleSpec => []CollectedInOrder
<1>1. SInv => CollectedInOrder
  <2> SUFFICES ASSUME SInv PROVE PouredInOrder
    BY PendingIsOne DEF CollectedInOrder
  <2>1. IsSchedule(schedule) /\ Collectable(schedule) /\ paid \in Nat
    BY BuiltIsSchedule DEF SInv
  <2> QED BY <2>1, Poured, CoveredIs DEF PouredInOrder, Indices
<1> QED BY <1>1, ScheduleInv, PTL

\* _sync_next_due_from_schedule: what is expected next never exceeds what is
\* owed, is there exactly when something is, and by the earliest open date.
THEOREM SchedulesAskWhatIsOwed == ScheduleSpec => []NextIsOwed
<1>1. SInv => NextIsOwed
  <2> SUFFICES ASSUME SInv PROVE NextIsOwed
    OBVIOUS
  <2>1. /\ IsSchedule(schedule) /\ Collectable(schedule) /\ paid \in Nat
        /\ InDateOrder(schedule) /\ Dated(schedule)
    BY BuiltIsSchedule DEF SInv
  <2>2. \A i \in Statuses({"pending", "overdue", "upcoming"}) :
          i \in 1 .. Len(schedule) /\ ~ IsPaid(schedule, paid, i)
    BY DEF Statuses, InstallmentStatus, Indices
  <2> QED BY <2>1, <2>2, NextWithinOwed DEF NextIsOwed
<1> QED BY <1>1, ScheduleInv, PTL

\* default_installments: whatever the fee and the dates, the parts add up, are
\* even but for the odd paisa, and ask for something unless the fee is tiny.
THEOREM SpreadsAreFair == ScheduleSpec => []SpreadFair
<1>1. SInv => SpreadFair
  <2> SUFFICES ASSUME SInv PROVE SpreadFair
    OBVIOUS
  <2> DEFINE dates == [i \in Indices |-> schedule[i].due]
  <2>1. Len(dates) = Len(schedule) /\ Len(dates) \in Nat
    BY BuiltIsSchedule DEF IsSchedule, Indices
  <2> HIDE DEF dates
  <2> SUFFICES ASSUME NEW payable \in 1 .. MaxPayable
      PROVE LET s == Spread(payable, dates)
                n == Len(dates)
            IN /\ AddsUp(s, payable)
               /\ \A i \in 2 .. n : /\ 2 * (s[1].amount - s[i].amount) <= n
                                   /\ 2 * (s[i].amount - s[1].amount) <= n
               /\ 2 * payable > n * (n + 1) => Collectable(s)
    BY DEF SpreadFair, dates
  <2>2. payable \in Nat \ {0}
    BY ScheduleBounds
  <2>3. CASE Len(dates) = 0
    <3>1. Spread(payable, dates) = <<>>
      BY <2>3 DEF Spread
    <3> QED BY <2>3, <3>1 DEF AddsUp, Collectable
  <2>4. CASE Len(dates) # 0
    <3>1. Len(dates) \in Nat \ {0}
      BY <2>1, <2>4
    <3> QED BY <2>2, <3>1, SpreadAddsUp, SpreadIsFair DEF AddsUp
  <2> QED BY <2>3, <2>4
<1> QED BY <1>1, ScheduleInv, PTL
=============================================================================
