----------------------------- MODULE FeeSchedule -----------------------------
(***************************************************************************)
(* The arithmetic of an instalment schedule: splitting a fee, and reading  *)
(* an instalment's state off what has been paid.  Amounts are whole paise; *)
(* a date is a day number.                                                 *)
(***************************************************************************)
EXTENDS Integers, Sequences, FiniteSetsExt, SequencesExt

Smaller(a, b) == IF a <= b THEN a ELSE b
Larger(a, b) == IF a >= b THEN a ELSE b

AmountsOf(s) == FoldLeft(LAMBDA sum, item : sum + item.amount, 0, s)

\* Mutant: always rounds down, so that the first part takes up to a paisa of each.
RoundDown(n, d) == n \div d

\* Decimal.quantize: to the nearest paisa, a tie to the even one.
RoundHalfEven(n, d) ==
  LET q == n \div d
      twice == 2 * (n % d)
  IN IF twice > d \/ (twice = d /\ q % 2 = 1) THEN q + 1 ELSE q

\* default_installments: equal parts over the dates, the odd paisa on the first.
Spread(payable, dates) ==
  IF Len(dates) = 0 \/ payable <= 0 THEN <<>>
  ELSE LET each == RoundHalfEven(payable, Len(dates)) IN
       [i \in 1 .. Len(dates) |->
          [amount |-> IF i = 1 THEN each + payable - each * Len(dates) ELSE each,
           due |-> dates[i]]]

\* Mutant: a payment covers every instalment at once.
LeftUnpoured(s, paid) == [i \in 0 .. Len(s) |-> IF i = Len(s) THEN 0 ELSE paid]

\* What is left of the payments once the first i instalments are covered.
Left(s, paid) ==
  LET left[i \in 0 .. Len(s)] ==
        IF i = 0 THEN paid ELSE left[i - 1] - Smaller(s[i].amount, Larger(left[i - 1], 0))
  IN left

Covered(s, paid, i) == Left(s, paid)[i - 1] - Left(s, paid)[i]

IsPaid(s, paid, i) == Covered(s, paid, i) >= s[i].amount

\* Mutant: an instalment due today is late already.
LateToday(s, paid, i, today) == ~ IsPaid(s, paid, i) /\ s[i].due <= today
Late(s, paid, i, today) == ~ IsPaid(s, paid, i) /\ s[i].due < today

\* installment_rows: of those neither paid nor late, the first is pending.
InstallmentStatus(s, paid, i, today) ==
  IF IsPaid(s, paid, i) THEN "paid"
  ELSE IF Late(s, paid, i, today) THEN "overdue"
  ELSE IF \A j \in 1 .. i - 1 : IsPaid(s, paid, j) \/ Late(s, paid, j, today) THEN "pending"
  ELSE "upcoming"

NoDate == [amount |-> 0, on |-> 0]

\* _sync_next_due_from_schedule: the first instalment not fully covered.
NextExpected(s, paid) ==
  LET open == {i \in 1 .. Len(s) : ~ IsPaid(s, paid, i)} IN
  IF open = {} THEN NoDate
  ELSE LET i == Min(open) IN [amount |-> s[i].amount - Covered(s, paid, i), on |-> s[i].due]

\* What _clean_installments lets through, in the order it keeps it: a stable
\* sort, which puts each instalment after all it has to wait for.
Collectable(s) == \A i \in 1 .. Len(s) : s[i].amount > 0

Precedes(s, i, j) == s[i].due < s[j].due \/ (s[i].due = s[j].due /\ i < j)
Place(s, i) == 1 + Cardinality({j \in 1 .. Len(s) : Precedes(s, j, i)})
ByDate(s) == [k \in 1 .. Len(s) |-> s[CHOOSE i \in 1 .. Len(s) : Place(s, i) = k]]

InDateOrder(s) == \A i, j \in 1 .. Len(s) : i < j => s[i].due <= s[j].due
AddsUp(s, payable) == s # <<>> => AmountsOf(s) = payable
==============================================================================
