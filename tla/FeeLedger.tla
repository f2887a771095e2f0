------------------------------ MODULE FeeLedger ------------------------------
(***************************************************************************)
(* The fee ledger of one student: a plan per live enrolment, the payments  *)
(* under it, and the student's coarse `fee_status`, written by concurrent  *)
(* requests.                                                               *)
(*                                                                         *)
(* A request is one transaction at READ COMMITTED.  Recording a payment,   *)
(* and changing a fee or a schedule, lock the plan's row; recording also   *)
(* locks the student's (SELECT .. FOR UPDATE with the relations it joins). *)
(* Voiding, and setting what is expected next, decide on unlocked copies.  *)
(* All but the last then read the totals of the student's plans and derive *)
(* the status from them.  What a request wrote is its own until it commits. *)
(***************************************************************************)
EXTENDS FeeSchedule

CONSTANTS
  Requests, Plans,   \* requests in flight; the student's live enrolments
  Nobody,            \* the null of `voided_by`
  Amounts,           \* amounts an operator types: fees, payments, instalments
  MinFirst,          \* MIN_FIRST_PAYMENT
  GapDays,           \* days between the instalments of a default schedule
  MaxItems,          \* bound: instalments of a schedule
  MaxPayments,       \* bound: payments ever recorded
  MaxDay,            \* bound: days that pass
  Operations         \* the operations users call

ASSUME LedgerAssumption ==
  /\ Amounts \subseteq Nat \ {0} /\ MinFirst \in Nat /\ GapDays \in Nat /\ Nobody \notin Requests
  /\ MaxPayments \in Nat /\ MaxDay \in Nat \ {0}
  /\ Operations \subseteq {"pay", "void", "fee", "schedule", "expect"}

VARIABLES
  plan,        \* the plan rows
  payment,     \* the payment rows
  feeStatus,   \* the student's fee_status
  today,
  req          \* what each request is doing

vars == <<plan, payment, feeStatus, today, req>>

Items == [amount: Amounts, due: 1 .. MaxDay]
Schedules == {<<>>} \cup UNION {[1 .. n -> Items] : n \in 1 .. MaxItems}
Numbers == 1 .. MaxPayments

NoPlan == [payable |-> 0, schedule |-> <<>>, next |-> NoDate, made |-> FALSE]
NoPayment == [amount |-> 0, plan |-> Nobody, voidedBy |-> Nobody, voidedOn |-> 0]

Made(p) == plan[p].made
Recorded(k) == payment[k].amount > 0
FreshNumber(k) == \A m \in Numbers : Recorded(m) <=> m < k

-----------------------------------------------------------------------------
(***************************************************************************)
(* Totals.  A set of payments counts for a plan unless voided.             *)
(***************************************************************************)

Live(p) == {k \in Numbers : Recorded(k) /\ payment[k].plan = p /\ payment[k].voidedBy = Nobody}

Sum(S, Value(_)) == MapThenSumSet(Value, S)

Paid(p) == Sum(Live(p), LAMBDA k : payment[k].amount)

Balance(p) == plan[p].payable - Paid(p)

IsOverdue(row, paid, day) == row.next.on # 0 /\ row.next.on < day /\ row.payable > paid

\* sync_student_fee_status: the status that rows and paid totals come
\* to on a day.
StatusOf(row, paid, day) ==
  LET S == {p \in Plans : row[p].made}
      payable == Sum(S, LAMBDA p : row[p].payable)
      received == Sum(S, LAMBDA p : paid[p])
  IN IF payable <= 0 THEN "waived"
     ELSE IF received >= payable THEN "paid"
     ELSE IF \E p \in S : IsOverdue(row[p], paid[p], day) THEN "overdue"
     ELSE IF received > 0 THEN "partial" ELSE "pending"

Ledger(day) == StatusOf(plan, [p \in Plans |-> Paid(p)], day)

-----------------------------------------------------------------------------
(***************************************************************************)
(* Requests.                                                               *)
(***************************************************************************)

Idle == [op |-> "none", pc |-> "idle", holds |-> FALSE]

\* Mutant: nothing waits for a plan's row.
PlanUnlocked(r, p) == TRUE

\* The row of plan p is not locked by another request than r.
PlanFree(r, p) == \A q \in Requests \ {r} : ~ (req[q].holds /\ req[q].plan = p)

\* A payment being recorded holds the student's row as well.
StudentFree(r) == \A q \in Requests \ {r} : ~ (req[q].holds /\ req[q].op = "pay")

\* An UPDATE of payment k waits for the request that is voiding it.
PaymentFree(r, k) ==
  \A q \in Requests \ {r} : ~ (req[q].op = "void" /\ req[q].pc # "void" /\ req[q].key = k)

\* Request r begins an operation on plan p with copies of the plan's next
\* expected payment and of the student's status, loaded without a lock.
\* `amount` is a payment, a fee or an expected amount, `items` a schedule, `k`
\* the payment being voided, or the date an amount is expected on.
Begins(r, op, p, k, amount, items) ==
  /\ op \in Operations
  /\ req[r] = Idle
  /\ req' = [req EXCEPT ![r] =
       [op |-> op, pc |-> op, holds |-> FALSE, plan |-> p, amount |-> amount,
        items |-> items, derives |-> TRUE, key |-> k,
        seenNext |-> plan[p].next, next |-> plan[p].next,
        seenStatus |-> feeStatus, status |-> feeStatus]]
  /\ UNCHANGED <<plan, payment, feeStatus, today>>

\* Request r moves on, having written nothing that others can see.
Goes(r, ticket) == req' = [req EXCEPT ![r] = ticket] /\ UNCHANGED <<plan, payment, feeStatus, today>>

\* Refused by a check or by the unique index, or failed for any other reason.
RollBack(r) == req[r] # Idle /\ Goes(r, Idle)

\* Mutant: the totals are those from before the request's own writes.
PaidCommitted(r, p) == Paid(p)

\* The totals and the rows as request r sees them, its own writes included.
PaidSeenBy(r, p) ==
  LET t == req[r] IN
  IF t.op = "pay" /\ p = t.plan THEN Paid(p) + t.amount
  ELSE Sum(Live(p) \ (IF t.op = "void" THEN {t.key} ELSE {}), LAMBDA k : payment[k].amount)

Fee(t) == [payable |-> t.amount, schedule |-> t.items, next |-> t.next, made |-> TRUE]

RowSeenBy(r, p) ==
  LET t == req[r] IN
  IF p # t.plan THEN plan[p]
  ELSE IF t.op = "fee" THEN Fee(t)
  ELSE IF t.op = "schedule" THEN [plan[p] EXCEPT !.schedule = t.items, !.next = t.next]
  ELSE IF t.op = "pay" \/ t.holds THEN [plan[p] EXCEPT !.next = t.next]
  ELSE plan[p]

-----------------------------------------------------------------------------
(***************************************************************************)
(* Recording a payment.                                                    *)
(***************************************************************************)

StartPay(r, p, v) == Made(p) /\ Begins(r, "pay", p, 0, v, <<>>)

\* Mutant: no registration fee.
AnyAmount(p, v) == v <= Balance(p)

\* Not above the balance, and the first one at least the registration fee.
Acceptable(p, v) ==
  /\ v <= Balance(p)
  /\ Live(p) # {} \/ v >= MinFirst \/ plan[p].payable < MinFirst

PayCheck(r) ==
  LET t == req[r] IN
  /\ t.pc = "pay"
  /\ PlanFree(r, t.plan) /\ StudentFree(r)
  /\ Acceptable(t.plan, t.amount)
  /\ Goes(r, [t EXCEPT !.pc = "sync", !.holds = TRUE, !.next = plan[t.plan].next,
                       !.seenStatus = feeStatus])

-----------------------------------------------------------------------------
(***************************************************************************)
(* Setting a fee, and replacing a schedule.                                *)
(***************************************************************************)

\* `items` is the schedule given; without one, `given` is FALSE and `count`
\* says how many instalments a new plan gets.
StartFee(r, p, fee, items) == Begins(r, "fee", p, 0, fee, items)

StartSchedule(r, p, items) == Made(p) /\ Begins(r, "schedule", p, 0, 0, items)

DefaultDates(count) == [i \in 1 .. count |-> today + GapDays * (i - 1)]
DatesOf(s) == [i \in 1 .. Len(s) |-> s[i].due]

\* An existing schedule keeps its dates when the fee changes.
Respread(p, fee) == Spread(fee, DatesOf(plan[p].schedule))

\* What a plan's schedule becomes: the one given, one spread over `count`
\* default dates for a new plan, the old one spread anew when the amounts
\* change, or the old one.
Rescheduled(p, fee, given, items, count, amountsChange) ==
  IF given THEN ByDate(items)
  ELSE IF ~ Made(p) THEN Spread(fee, DefaultDates(count))
  ELSE IF amountsChange THEN Respread(p, fee)
  ELSE plan[p].schedule

Scheduled(s, fee) == Collectable(s) /\ AddsUp(s, fee)

\* set_fee_plan after its SELECT .. FOR UPDATE, which locks nothing when the
\* plan is not there yet.  `amounts` and `notes`: whether the agreed fee or
\* the discount differ from the row's, and anything else.
FeeCheck(r) ==
  LET t == req[r]  p == t.plan IN
  /\ t.pc = "fee"
  /\ PlanFree(r, p)
  /\ Made(p) => t.amount >= Paid(p)
  /\ \E given, amounts, notes \in BOOLEAN, count \in 0 .. MaxItems :
       /\ t.items # <<>> => given
       /\ Made(p) /\ t.amount # plan[p].payable => amounts
       /\ given \/ Made(p) => count = 0
       /\ LET s == Rescheduled(p, t.amount, given, t.items, count, amounts) IN
          /\ Scheduled(s, t.amount)
          /\ Goes(r, [t EXCEPT !.pc = IF given \/ amounts \/ ~ Made(p) THEN "sync"
                                      ELSE IF notes THEN "derive" ELSE "commit",
                               !.holds = Made(p), !.items = s, !.next = plan[p].next,
                               !.derives = ~ Made(p) \/ amounts \/ notes])

ScheduleCheck(r) ==
  LET t == req[r]  p == t.plan IN
  /\ t.pc = "schedule"
  /\ PlanFree(r, p)
  /\ Scheduled(ByDate(t.items), plan[p].payable)
  /\ Goes(r, [t EXCEPT !.pc = "sync", !.holds = TRUE, !.items = ByDate(t.items),
                       !.next = plan[p].next])

-----------------------------------------------------------------------------
(***************************************************************************)
(* Voiding a payment, and setting what is expected next.                   *)
(***************************************************************************)

\* Mutant: a payment may be voided again.
AlsoVoided(k) == TRUE

NotVoided(k) == payment[k].voidedBy = Nobody

\* is_voided is read off the loaded copy.
StartVoid(r, k) ==
  /\ Recorded(k) /\ NotVoided(k)
  /\ Begins(r, "void", payment[k].plan, k, 0, <<>>)

VoidWrite(r) ==
  /\ req[r].pc = "void"
  /\ PaymentFree(r, req[r].key)
  /\ Goes(r, [req[r] EXCEPT !.pc = "sync"])

\* The UPDATE of the plan's next expected payment waits for its lock.
VoidUpdate(r) ==
  /\ req[r].pc = "update"
  /\ PlanFree(r, req[r].plan)
  /\ Goes(r, [req[r] EXCEPT !.pc = "derive", !.holds = TRUE])

\* Both given, or both empty; at most the balance of the loaded copy.
StartExpect(r, p, amount, on) ==
  /\ Made(p)
  /\ amount = 0 <=> on = 0
  /\ amount <= Larger(Balance(p), 0)
  /\ plan[p].next # [amount |-> amount, on |-> on]
  /\ Begins(r, "expect", p, on, amount, <<>>)

ExpectCommit(r) ==
  LET t == req[r] IN
  /\ t.pc = "expect"
  /\ PlanFree(r, t.plan)
  /\ plan' = [plan EXCEPT ![t.plan].next = [amount |-> t.amount, on |-> t.key]]
  /\ req' = [req EXCEPT ![r] = Idle]
  /\ UNCHANGED <<payment, feeStatus, today>>

-----------------------------------------------------------------------------
(***************************************************************************)
(* What recording, voiding, setting a fee and replacing a schedule end in. *)
(***************************************************************************)

\* Mutant: what was expected stays expected after a payment.
NextKept(r) == req[r].next

\* What is expected next: the first instalment the totals do not cover.  With
\* no schedule, a payment that covers what was expected clears it.
NextOf(r) ==
  LET t == req[r]
      s == RowSeenBy(r, t.plan).schedule
  IN IF s # <<>> THEN NextExpected(s, PaidSeenBy(r, t.plan))
     ELSE IF t.op = "pay" /\ t.next.amount \in 1 .. t.amount THEN NoDate
     ELSE t.next

\* The totals are read.  A void writes what it finds only where that differs
\* from the copy it loaded.
Sync(r) ==
  LET t == req[r]  next == NextOf(r) IN
  /\ t.pc = "sync"
  /\ Goes(r, [t EXCEPT !.next = next,
                       !.pc = IF t.op = "void" /\ next # t.seenNext THEN "update"
                              ELSE IF t.derives THEN "derive" ELSE "commit"])

\* A schedule's own request loads the student only here.
Derive(r) ==
  LET t == req[r] IN
  /\ t.pc = "derive"
  /\ Goes(r, [t EXCEPT !.pc = "commit",
                       !.status = StatusOf([p \in Plans |-> RowSeenBy(r, p)],
                                           [p \in Plans |-> PaidSeenBy(r, p)], today),
                       !.seenStatus = IF t.op = "schedule" THEN feeStatus ELSE @])

Changes(t) == t.derives /\ t.status # t.seenStatus

\* A new plan is one the unique index has not seen.
MayCommit(t) == t.op = "fee" /\ ~ t.holds => ~ Made(t.plan)

Commit(r) ==
  LET t == req[r] IN
  /\ t.pc = "commit"
  /\ Changes(t) => StudentFree(r)
  /\ MayCommit(t)
  /\ plan' = [plan EXCEPT ![t.plan] = RowSeenBy(r, t.plan)]
  /\ \/ t.op = "pay" /\ \E k \in Numbers :
          /\ FreshNumber(k)
          /\ payment' = [payment EXCEPT ![k] =
               [amount |-> t.amount, plan |-> t.plan, voidedBy |-> Nobody, voidedOn |-> 0]]
     \/ t.op = "void" /\ payment' = [payment EXCEPT ![t.key].voidedBy = r,
                                                     ![t.key].voidedOn = today]
     \/ t.op \in {"fee", "schedule"} /\ UNCHANGED payment
  /\ feeStatus' = IF Changes(t) THEN t.status ELSE feeStatus
  /\ req' = [req EXCEPT ![r] = Idle]
  /\ UNCHANGED today

NextDay == today < MaxDay /\ today' = today + 1 /\ UNCHANGED <<plan, payment, feeStatus, req>>

-----------------------------------------------------------------------------
Init ==
  /\ plan = [p \in Plans |-> NoPlan]
  /\ payment = [k \in Numbers |-> NoPayment]
  /\ feeStatus = "pending"
  /\ today = 1
  /\ req = [r \in Requests |-> Idle]

Start(r) ==
  \/ \E p \in Plans, v \in Amounts : StartPay(r, p, v)
  \/ \E k \in Numbers : StartVoid(r, k)
  \/ \E p \in Plans, fee \in Amounts \cup {0}, items \in Schedules : StartFee(r, p, fee, items)
  \/ \E p \in Plans, items \in Schedules : StartSchedule(r, p, items)
  \/ \E p \in Plans, amount \in Amounts \cup {0}, on \in 0 .. MaxDay : StartExpect(r, p, amount, on)

Advance(r) ==
  \/ PayCheck(r) \/ FeeCheck(r) \/ ScheduleCheck(r) \/ VoidWrite(r) \/ VoidUpdate(r)
  \/ ExpectCommit(r) \/ Sync(r) \/ Derive(r) \/ Commit(r)

Next ==
  \/ \E r \in Requests : Start(r) \/ Advance(r) \/ RollBack(r)
  \/ NextDay

Spec == Init /\ [][Next]_vars

-----------------------------------------------------------------------------
(***************************************************************************)
(* Properties.                                                             *)
(***************************************************************************)

\* "A payment cannot exceed the balance", and a fee cannot be lowered below
\* what was paid: no plan ever shows a negative balance.
NeverOverpaid == \A p \in Plans : Balance(p) >= 0

\* "A schedule must add up": the instalments of a plan always sum to the fee,
\* each of them asks for something, and they fall due one after the other.
ScheduleAddsUp ==
  \A p \in Plans : Scheduled(plan[p].schedule, plan[p].payable) /\ InDateOrder(plan[p].schedule)

\* "The plan's next expected fields are kept in step with the schedule after
\* every change": whenever no request is at work on the plan.  What it asks for
\* is then within the balance, and is nothing only when nothing is owed.
NextInStep ==
  \A p \in Plans :
    (plan[p].schedule # <<>> /\ \A r \in Requests : req[r] # Idle => req[r].plan # p)
      => /\ plan[p].next = NextExpected(plan[p].schedule, Paid(p))
         /\ plan[p].next.amount <= Balance(p)
         /\ plan[p].next.amount > 0 <=> Balance(p) > 0

\* "A first payment is at least the registration payment, unless the whole
\* fee is smaller": a payment recorded when none counts.
FirstPaymentRegisters ==
  [][\A k \in Numbers : ~ Recorded(k) /\ Recorded(k)' /\ Live(payment'[k].plan) = {}
       => payment'[k].amount >= MinFirst \/ plan[payment'[k].plan].payable < MinFirst]_vars

\* "A payment is never edited or deleted", and a voided one says for good
\* who voided it and when.
LedgerKept ==
  [][\A k \in Numbers : Recorded(k) =>
       /\ payment'[k].amount = payment[k].amount /\ payment'[k].plan = payment[k].plan
       /\ payment[k].voidedBy # Nobody => payment'[k] = payment[k]]_vars

\* "The coarse fee_status is re-derived after every change": a step that
\* changes what is owed or paid leaves the status the ledger comes to, as
\* of the day it was derived.
StatusFollowsLedger ==
  [][(payment' # payment \/ \E p \in Plans : plan'[p].payable # plan[p].payable)
       => \E on \in 1 .. MaxDay : on <= today /\ feeStatus' = Ledger(on)']_vars
==============================================================================
