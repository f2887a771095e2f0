---------------------------- MODULE FeeScheduleMC ----------------------------
(***************************************************************************)
(* FeeSchedule over bounded inputs: schedules built one instalment at a    *)
(* time in date order, money coming in, days passing.                      *)
(***************************************************************************)
EXTENDS FeeSchedule

CONSTANTS MaxAmount, MaxLength, MaxPaid, LastDay, MaxPayable

ASSUME ScheduleBounds == {MaxAmount, MaxLength, MaxPaid, LastDay, MaxPayable} \subseteq Nat

VARIABLES schedule, paid, day

ScheduleInit == schedule = <<>> /\ paid = 0 /\ day = 1

Schedule(item) ==
  /\ Len(schedule) < MaxLength
  /\ schedule # <<>> => Last(schedule).due <= item.due
  /\ schedule' = Append(schedule, item)
  /\ UNCHANGED <<paid, day>>

Receive == paid < MaxPaid /\ paid' = paid + 1 /\ UNCHANGED <<schedule, day>>

DayPasses == day < LastDay /\ day' = day + 1 /\ UNCHANGED <<schedule, paid>>

ScheduleNext ==
  \/ \E item \in [amount: 1 .. MaxAmount, due: 1 .. LastDay] : Schedule(item)
  \/ Receive
  \/ DayPasses

ScheduleSpec == ScheduleInit /\ [][ScheduleNext]_<<schedule, paid, day>>

Indices == 1 .. Len(schedule)
Statuses(S) == {i \in Indices : InstallmentStatus(schedule, paid, i, day) \in S}

\* Money is poured over the schedule in order: all that was paid is accounted
\* for, and no instalment is touched before the one before it is full.
PouredInOrder ==
  /\ Left(schedule, paid)[Len(schedule)] = Larger(paid - AmountsOf(schedule), 0)
  /\ \A i \in Indices : Covered(schedule, paid, i) \in 0 .. schedule[i].amount
  /\ \A i, j \in Indices : i < j /\ Covered(schedule, paid, j) > 0 => IsPaid(schedule, paid, i)

\* One instalment at most is being collected now, every one after it is
\* upcoming, and an instalment is overdue only after its own day.
OnePending ==
  /\ Cardinality(Statuses({"pending"})) <= 1
  /\ \A i \in Statuses({"pending"}), j \in Statuses({"upcoming"}) : i < j
  /\ Statuses({"upcoming"}) # {} => Statuses({"pending"}) # {}
  /\ \A i \in Statuses({"overdue"}) : schedule[i].due < day
  /\ \A i \in Statuses({"pending", "upcoming"}) : schedule[i].due >= day

\* installment_rows: a schedule is collected one instalment after the other.
CollectedInOrder == PouredInOrder /\ OnePending

\* What is expected next is never more than what the schedule still asks for,
\* there is something expected exactly when something is owed, and by the
\* earliest date that is still open.
NextIsOwed ==
  LET owed == AmountsOf(schedule) - paid
      next == NextExpected(schedule, paid)
  IN /\ next.amount <= Larger(owed, 0)
     /\ next.amount > 0 <=> owed > 0
     /\ \A i \in Statuses({"pending", "overdue", "upcoming"}) : next.on <= schedule[i].due

\* default_installments: for every fee and every list of dates the parts add
\* up to the fee, the first is off the others by at most half a paisa for each
\* of them, and all are collectable once the fee is not tiny.
SpreadFair ==
  LET dates == [i \in Indices |-> schedule[i].due]
      n == Len(dates)
  IN \A payable \in 1 .. MaxPayable :
       LET s == Spread(payable, dates) IN
       /\ AddsUp(s, payable)
       /\ \A i \in 2 .. n : /\ 2 * (s[1].amount - s[i].amount) <= n
                            /\ 2 * (s[i].amount - s[1].amount) <= n
       /\ 2 * payable > n * (n + 1) => Collectable(s)
==============================================================================
