--------------------------- MODULE FeeLedgerProofs ---------------------------
(***************************************************************************)
(* Proofs about FeeLedger, for any number of requests, plans, payments,    *)
(* amounts and days, and whatever the schedule's arithmetic computes.      *)
(***************************************************************************)
EXTENDS FeeLedger, FeeScheduleProofs

\* The amounts of the payments.
Cash(pay) == [k \in Numbers |-> pay[k].amount]

\* Summing the payments of a set by the fold of FeeLedger or by Cash is one.
LEMMA CashSum ==
  ASSUME NEW pay, NEW S, S \subseteq Numbers
  PROVE MapThenSumSet(LAMBDA k : pay[k].amount, S) = SumFunctionOnSet(Cash(pay), S)
<1> DEFINE Step(iter, s) ==
      IF s = {} THEN 0
      ELSE pay[CHOOSE x \in s : TRUE].amount + iter[s \ {CHOOSE x \in s : TRUE}]
<1>1. \A iter : iter = [s \in SUBSET S |-> Step(iter, s)] <=> IsFold(Cash(pay), iter, S)
  BY DEF IsFold, Chosen, Cash
<1>2. MapThenSumSet(LAMBDA k : pay[k].amount, S)
        = (CHOOSE iter : iter = [s \in SUBSET S |-> Step(iter, s)])[S]
  BY DEF MapThenSumSet, MapThenFoldSet
<1>3. (CHOOSE iter : iter = [s \in SUBSET S |-> Step(iter, s)])
        = CHOOSE iter : IsFold(Cash(pay), iter, S)
  <2> HIDE DEF Step
  <2> QED BY <1>1
<1> QED BY <1>2, <1>3, SumIsFold DEF TheFold

\* What is paid of a plan is the sum over its live payments.
LEMMA PaidIsSum ==
  \A p : /\ Paid(p) = SumFunctionOnSet(Cash(payment), Live(p))
         /\ Paid(p)' = SumFunctionOnSet(Cash(payment'), Live(p)')
<1> TAKE p
<1>1. Live(p) \subseteq Numbers /\ Live(p)' \subseteq Numbers
  BY DEF Live
<1>2. Paid(p) = SumFunctionOnSet(Cash(payment), Live(p))
  BY <1>1, CashSum DEF Paid, Sum, MapThenSumSet, MapThenFoldSet
<1>3. Paid(p)' = SumFunctionOnSet(Cash(payment'), Live(p)')
  BY <1>1, CashSum DEF Paid, Sum, MapThenSumSet, MapThenFoldSet
<1> QED BY <1>2, <1>3

\* A request sees the payments but the one it voids, and the one it records.
LEMMA SeenIsSum ==
  ASSUME NEW r, NEW p
  PROVE PaidSeenBy(r, p) =
          IF req[r].op = "pay" /\ p = req[r].plan THEN Paid(p) + req[r].amount
          ELSE SumFunctionOnSet(Cash(payment),
                                Live(p) \ (IF req[r].op = "void" THEN {req[r].key} ELSE {}))
<1> DEFINE S == Live(p) \ (IF req[r].op = "void" THEN {req[r].key} ELSE {})
<1>1. S \subseteq Numbers
  BY DEF Live
<1>2. PaidSeenBy(r, p) = IF req[r].op = "pay" /\ p = req[r].plan THEN Paid(p) + req[r].amount
                         ELSE MapThenSumSet(LAMBDA k : payment[k].amount, S)
  BY DEF PaidSeenBy, Sum
<1> HIDE DEF S
<1>3. MapThenSumSet(LAMBDA k : payment[k].amount, S) = SumFunctionOnSet(Cash(payment), S)
  BY <1>1, CashSum
<1> QED BY <1>2, <1>3 DEF S

-----------------------------------------------------------------------------
(***************************************************************************)
(* The invariant.                                                          *)
(***************************************************************************)

PlanRow(row) ==
  /\ row = [payable |-> row.payable, schedule |-> row.schedule, next |-> row.next, made |-> row.made]
  /\ row.payable \in Nat /\ row.made \in BOOLEAN

PaymentRow(row) ==
  /\ row = [amount |-> row.amount, plan |-> row.plan, voidedBy |-> row.voidedBy,
            voidedOn |-> row.voidedOn]
  /\ row.amount \in Nat
  /\ row.amount > 0 => row.plan \in Plans /\ Made(row.plan)

Rows ==
  /\ plan = [p \in Plans |-> plan[p]] /\ \A p \in Plans : PlanRow(plan[p])
  /\ payment = [k \in Numbers |-> payment[k]] /\ \A k \in Numbers : PaymentRow(payment[k])
  /\ req = [r \in Requests |-> req[r]]
  /\ today \in 1 .. MaxDay

\* What a request has in hand: what it holds, on which plan, from which check.
Checked(t) == t.pc # t.op

Fields == {"op", "pc", "holds", "plan", "amount", "items", "derives", "key", "seenNext", "next",
           "seenStatus", "status"}

Ticket(t) ==
  /\ t = [f \in Fields |-> t[f]]
  /\ t.op \in Operations
  /\ t.pc \in {t.op, "sync", "update", "derive", "commit"}
  /\ t.plan \in Plans /\ t.amount \in Nat /\ t.holds \in BOOLEAN /\ t.derives \in BOOLEAN
  /\ t.op = "pay" => t.amount > 0
  /\ t.op = "void" => t.key \in Numbers
  /\ t.op = "expect" => ~ Checked(t)
  /\ t.pc = "update" => t.op = "void"
  /\ t.holds => Checked(t)
  /\ t.op \in {"pay", "schedule"} /\ Checked(t) => t.holds

\* What its check found, and no other request can undo.
Stands(t) ==
  /\ t.holds \/ t.op # "fee" => Made(t.plan)
  /\ t.op = "void" => Recorded(t.key) /\ payment[t.key].plan = t.plan
  /\ t.op = "pay" /\ Checked(t) => Paid(t.plan) + t.amount <= plan[t.plan].payable
  /\ t.op = "fee" /\ t.holds => Paid(t.plan) <= t.amount
  /\ t.op = "fee" /\ Checked(t) => Scheduled(t.items, t.amount)
  /\ t.op = "schedule" /\ Checked(t) => Scheduled(t.items, plan[t.plan].payable)

LocksApart ==
  \A q, r \in Requests : q # r /\ req[q].holds /\ req[r].holds => req[q].plan # req[r].plan

AllStand == \A r \in Requests : req[r] # Idle => Ticket(req[r]) /\ Stands(req[r])

SchedulesSum == \A p \in Plans : Scheduled(plan[p].schedule, plan[p].payable)

LInv == Rows /\ LocksApart /\ AllStand /\ NeverOverpaid /\ SchedulesSum

\* No ticket is the idle request.
LEMMA IdleTicket ==
  /\ Idle.holds = FALSE /\ Idle.pc = "idle" /\ Idle.op = "none"
  /\ \A t : Ticket(t) => t # Idle
BY LedgerAssumption DEF Idle, Ticket

\* The payments recorded, and with them the totals, change with a commit only.
LEMMA PaidKept == ASSUME payment' = payment PROVE \A p : Live(p)' = Live(p) /\ Paid(p)' = Paid(p)
<1>1. \A p : Live(p)' = Live(p)
  BY DEF Live, Recorded
<1> QED BY <1>1, PaidIsSum

\* The live payments are finitely many, and a total is a natural number.
LEMMA LiveSums ==
  ASSUME Rows, NEW p
  PROVE /\ IsFiniteSet(Live(p)) /\ \A k \in Live(p) : Cash(payment)[k] \in Nat
        /\ Paid(p) \in Nat
<1>1. IsFiniteSet(Numbers)
  BY LedgerAssumption, FS_Interval DEF Numbers
<1>2. Live(p) \in SUBSET Numbers
  BY DEF Live
<1>3. IsFiniteSet(Live(p))
  BY <1>1, <1>2, FS_Subset
<1>4. \A k \in Live(p) : Cash(payment)[k] \in Nat
  BY <1>2 DEF Rows, PaymentRow, Cash
<1> QED BY <1>3, <1>4, SumNat, PaidIsSum

\* So is the total a step leaves.
LEMMA PaidNat == ASSUME Rows', NEW p PROVE Paid(p)' \in Nat
<1>1. IsFiniteSet(Numbers)
  BY LedgerAssumption, FS_Interval DEF Numbers
<1>2. Live(p)' \in SUBSET Numbers
  BY DEF Live
<1>3. IsFiniteSet(Live(p)')
  BY <1>1, <1>2, FS_Subset
<1>4. \A k \in Live(p)' : Cash(payment')[k] \in Nat
  BY <1>2 DEF Rows, PaymentRow, Cash
<1> QED BY <1>3, <1>4, SumNat, PaidIsSum

\* Nothing is owed, paid or under way at first.
LEMMA InitInv == Init => LInv
<1> SUFFICES ASSUME Init PROVE LInv
  OBVIOUS
<1>1. Rows
  <2>1. \A p \in Plans : PlanRow(plan[p])
    BY DEF Init, PlanRow, NoPlan
  <2>2. \A k \in Numbers : PaymentRow(payment[k])
    BY DEF Init, PaymentRow, NoPayment
  <2>3. today \in 1 .. MaxDay
    BY LedgerAssumption DEF Init
  <2> QED BY <2>1, <2>2, <2>3 DEF Init, Rows
<1>2. \A p \in Plans : Live(p) = {}
  BY DEF Init, Live, Recorded, NoPayment
<1>3. NeverOverpaid
  <2>1. \A p \in Plans : Paid(p) = 0
    BY <1>2, PaidIsSum, SumEmpty, Zenon
  <2> QED BY <2>1 DEF Init, NeverOverpaid, Balance, NoPlan
<1>4. SchedulesSum
  BY DEF Init, SchedulesSum, Scheduled, Collectable, AddsUp, NoPlan
<1>5. LocksApart /\ AllStand
  BY IdleTicket DEF Init, LocksApart, AllStand
<1> QED BY <1>1, <1>3, <1>4, <1>5 DEF LInv

\* A request that moves on with what stands keeps the invariant.
LEMMA GoesInv ==
  ASSUME LInv, NEW r \in Requests, NEW t, Goes(r, t),
         \/ t = Idle
         \/ /\ Ticket(t) /\ Stands(t)
            /\ t.holds => (req[r].holds /\ req[r].plan = t.plan) \/ PlanFree(r, t.plan)
  PROVE LInv'
<1>1. UNCHANGED <<plan, payment, today>> /\ \A x \in Requests : req'[x] = IF x = r THEN t ELSE req[x]
  BY DEF Goes, LInv, Rows
<1>2. \A p : Paid(p)' = Paid(p)
  BY <1>1, PaidKept
<1>3. Rows'
  <2>1. req' = [x \in Requests |-> req'[x]]
    BY DEF Goes, LInv, Rows
  <2> QED BY <1>1, <2>1 DEF LInv, Rows, PlanRow, PaymentRow, Made
<1>4. \A x : Stands(x) => Stands(x)'
  BY <1>1, <1>2 DEF Stands, Made, Recorded
<1>5. AllStand'
  BY <1>1, <1>4 DEF LInv, AllStand
<1>6. LocksApart'
  BY <1>1, IdleTicket DEF LInv, LocksApart, PlanFree
<1>7. NeverOverpaid' /\ SchedulesSum'
  BY <1>1, <1>2 DEF LInv, NeverOverpaid, Balance, SchedulesSum
<1> QED BY <1>3, <1>5, <1>6, <1>7 DEF LInv

\* A request past its check: what it goes on with, from what it had.
Onward(t, u) ==
  /\ u = [f \in Fields |-> u[f]]
  /\ u.op = t.op /\ u.plan = t.plan /\ u.amount = t.amount /\ u.key = t.key /\ u.seenNext = t.seenNext
  /\ u.pc \in {"sync", "update", "derive", "commit"} /\ u.holds \in BOOLEAN /\ u.derives \in BOOLEAN
  /\ t.op \in {"pay", "schedule"} => u.holds
  /\ u.pc = "update" => t.op = "void"

\* Which is a ticket past its check.
LEMMA OnwardTicket ==
  ASSUME NEW t, Ticket(t), t.op # "expect", NEW u, Onward(t, u)
  PROVE /\ Ticket(u) /\ Checked(u)
        /\ u.op = t.op /\ u.plan = t.plan /\ u.amount = t.amount /\ u.key = t.key
<1>1. u.op = t.op /\ u.plan = t.plan /\ u.amount = t.amount /\ u.key = t.key /\ u.seenNext = t.seenNext
  BY DEF Onward
<1>2. t.op \in Operations /\ t.op \in {"pay", "void", "fee", "schedule", "expect"}
  BY LedgerAssumption DEF Ticket
<1>3. Checked(u)
  BY <1>1, <1>2 DEF Onward, Checked
<1> QED BY <1>1, <1>2, <1>3 DEF Onward, Ticket

\* A request begins having checked nothing.
LEMMA BeginsInv ==
  ASSUME LInv, NEW r \in Requests, NEW op, NEW p \in Plans, NEW k, NEW amount \in Nat, NEW items,
         Begins(r, op, p, k, amount, items),
         op # "fee" => Made(p),
         op = "pay" => amount > 0,
         op = "void" => k \in Numbers /\ Recorded(k) /\ payment[k].plan = p
  PROVE LInv'
<1> DEFINE t == [op |-> op, pc |-> op, holds |-> FALSE, plan |-> p, amount |-> amount,
                 items |-> items, derives |-> TRUE, key |-> k,
                 seenNext |-> plan[p].next, next |-> plan[p].next,
                 seenStatus |-> feeStatus, status |-> feeStatus]
<1>1. Goes(r, t)
  BY DEF Begins, Goes
<1>2. Ticket(t)
  BY LedgerAssumption DEF Begins, Ticket, Checked, Fields
<1>3. Stands(t) /\ t.holds = FALSE
  BY DEF Stands, Checked
<1> HIDE DEF t
<1> QED BY <1>1, <1>2, <1>3, GoesInv

\* So do the requests users make.
LEMMA StartInv == ASSUME LInv, NEW r \in Requests, Start(r) PROVE LInv'
<1> USE LedgerAssumption
<1>1. ASSUME NEW p \in Plans, NEW v \in Amounts, StartPay(r, p, v) PROVE LInv'
  <2>1. v \in Nat /\ v > 0
    OBVIOUS
  <2> QED BY <1>1, <2>1, BeginsInv DEF StartPay
<1>2. ASSUME NEW k \in Numbers, StartVoid(r, k) PROVE LInv'
  <2>1. payment[k].plan \in Plans /\ Made(payment[k].plan) /\ 0 \in Nat
    BY <1>2 DEF StartVoid, LInv, Rows, PaymentRow, Recorded
  <2> QED BY <1>2, <2>1, BeginsInv DEF StartVoid
<1>3. ASSUME NEW p \in Plans, NEW fee \in Amounts \cup {0}, NEW items, StartFee(r, p, fee, items)
      PROVE LInv'
  <2>1. fee \in Nat
    OBVIOUS
  <2> QED BY <1>3, <2>1, BeginsInv DEF StartFee
<1>4. ASSUME NEW p \in Plans, NEW items, StartSchedule(r, p, items) PROVE LInv'
  BY <1>4, BeginsInv DEF StartSchedule
<1>5. ASSUME NEW p \in Plans, NEW amount \in Amounts \cup {0}, NEW on, StartExpect(r, p, amount, on)
      PROVE LInv'
  <2>1. amount \in Nat
    OBVIOUS
  <2> QED BY <1>5, <2>1, BeginsInv DEF StartExpect
<1> QED BY <1>1, <1>2, <1>3, <1>4, <1>5 DEF Start

\* A payment fits the balance, which the lock then keeps for it.
LEMMA PayCheckInv == ASSUME LInv, NEW r \in Requests, PayCheck(r) PROVE LInv'
<1> DEFINE t == req[r]
           u == [t EXCEPT !.pc = "sync", !.holds = TRUE, !.next = plan[t.plan].next,
                          !.seenStatus = feeStatus]
<1>1. /\ t.pc = "pay" /\ PlanFree(r, t.plan) /\ Goes(r, u)
      /\ t.amount <= plan[t.plan].payable - Paid(t.plan)
  BY DEF PayCheck, Acceptable, Balance
<1>2. Ticket(t) /\ Stands(t)
  BY <1>1, IdleTicket DEF LInv, AllStand
<1>3. t.op = "pay"
  BY <1>1, <1>2, LedgerAssumption DEF Ticket
<1>4. Onward(t, u) /\ u.holds
  BY <1>2 DEF Ticket, Onward, Fields
<1>5. Ticket(u) /\ u.op = "pay" /\ u.plan = t.plan /\ u.amount = t.amount
  <2> HIDE DEF u
  <2> QED BY <1>2, <1>3, <1>4, OnwardTicket
<1>6. Stands(u)
  <2>1. t.plan \in Plans /\ t.amount \in Nat /\ plan[t.plan].payable \in Nat /\ Paid(t.plan) \in Nat
    BY <1>2, LiveSums DEF Ticket, LInv, Rows, PlanRow
  <2>2. Made(t.plan)
    BY <1>2, <1>3 DEF Stands
  <2> HIDE DEF u
  <2> QED BY <1>1, <1>5, <2>1, <2>2 DEF Stands
<1> HIDE DEF u
<1> QED BY <1>1, <1>4, <1>5, <1>6, GoesInv

\* A fee covers what was paid, which the lock then keeps from growing; the
\* schedule found for it adds up to it.
LEMMA FeeCheckInv == ASSUME LInv, NEW r \in Requests, FeeCheck(r) PROVE LInv'
<1> DEFINE t == req[r]  p == t.plan
<1>1. /\ t.pc = "fee" /\ PlanFree(r, p)
      /\ Made(p) => t.amount >= Paid(p)
  BY DEF FeeCheck
<1>3. Ticket(t) /\ Stands(t)
  BY <1>1, IdleTicket DEF LInv, AllStand
<1>4. t.op = "fee" /\ Made(p) \in BOOLEAN
  BY <1>1, <1>3, LedgerAssumption DEF Ticket, Made, LInv, Rows, PlanRow
<1>5. ASSUME NEW pc \in {"sync", "derive", "commit"}, NEW s, NEW derives \in BOOLEAN,
             Scheduled(s, t.amount),
             Goes(r, [t EXCEPT !.pc = pc, !.holds = Made(p), !.items = s, !.next = plan[p].next,
                               !.derives = derives])
      PROVE LInv'
  <2> DEFINE u == [t EXCEPT !.pc = pc, !.holds = Made(p), !.items = s, !.next = plan[p].next,
                            !.derives = derives]
  <2>1. Onward(t, u) /\ u.items = s /\ u.holds = Made(p)
    BY <1>3, <1>4 DEF Ticket, Onward, Fields
  <2>2. Goes(r, u)
    BY <1>5
  <2> HIDE DEF u
  <2>3. Ticket(u) /\ u.op = "fee" /\ u.plan = p /\ u.amount = t.amount
    BY <1>3, <1>4, <2>1, OnwardTicket
  <2>4. Stands(u)
    <3>1. t.amount \in Nat /\ Paid(p) \in Nat
      BY <1>3, LiveSums DEF Ticket, LInv
    <3> QED BY <1>1, <1>5, <2>1, <2>3, <3>1 DEF Stands
  <2> QED BY <1>1, <2>2, <2>3, <2>4, GoesInv
<1> QED BY <1>5, ZenonT(30) DEF FeeCheck

\* A schedule adds up to the fee of the row, locked until the commit.
LEMMA ScheduleCheckInv == ASSUME LInv, NEW r \in Requests, ScheduleCheck(r) PROVE LInv'
<1> DEFINE t == req[r]  p == t.plan
           u == [t EXCEPT !.pc = "sync", !.holds = TRUE, !.items = ByDate(t.items),
                          !.next = plan[p].next]
<1>1. /\ t.pc = "schedule" /\ PlanFree(r, p) /\ Goes(r, u)
      /\ Scheduled(ByDate(t.items), plan[p].payable)
  BY DEF ScheduleCheck
<1>2. Ticket(t) /\ Stands(t)
  BY <1>1, IdleTicket DEF LInv, AllStand
<1>3. t.op = "schedule"
  BY <1>1, <1>2, LedgerAssumption DEF Ticket
<1>4. Onward(t, u) /\ u.items = ByDate(t.items) /\ u.holds
  BY <1>2 DEF Ticket, Onward, Fields
<1>5. Ticket(u) /\ u.op = "schedule" /\ u.plan = p
  <2> HIDE DEF u
  <2> QED BY <1>2, <1>3, <1>4, OnwardTicket
<1>6. Stands(u)
  <2>1. Made(p)
    BY <1>2, <1>3 DEF Stands
  <2> HIDE DEF u
  <2> QED BY <1>1, <1>4, <1>5, <2>1 DEF Stands
<1> HIDE DEF u
<1> QED BY <1>1, <1>4, <1>5, <1>6, GoesInv

\* Reading the totals, deriving the status and voiding change nothing that
\* was checked.
LEMMA LaterInv ==
  ASSUME LInv, NEW r \in Requests, VoidWrite(r) \/ VoidUpdate(r) \/ Sync(r) \/ Derive(r)
  PROVE LInv'
<1> DEFINE t == req[r]
<1>1. t.pc \in {"void", "update", "sync", "derive"}
  BY DEF VoidWrite, VoidUpdate, Sync, Derive
<1>2. Ticket(t) /\ Stands(t)
  BY <1>1, IdleTicket DEF LInv, AllStand
<1>3. t.op # "expect" /\ (t.op # "void" => Checked(t))
  BY <1>1, <1>2, LedgerAssumption DEF Ticket, Checked
<1>4. ASSUME NEW u, Goes(r, u), Onward(t, u), u.items = t.items, t.op # "void" => u.holds = t.holds,
             u.holds => t.holds \/ PlanFree(r, t.plan)
      PROVE LInv'
  <2>1. /\ Ticket(u) /\ Checked(u)
        /\ u.op = t.op /\ u.plan = t.plan /\ u.amount = t.amount /\ u.key = t.key
    BY <1>2, <1>3, <1>4, OnwardTicket
  <2>2. Stands(u)
    BY <1>2, <1>3, <1>4, <2>1 DEF Stands
  <2> QED BY <1>4, <2>1, <2>2, GoesInv
<1>5. CASE VoidWrite(r)
  <2> DEFINE u == [t EXCEPT !.pc = "sync"]
  <2>1. Goes(r, u) /\ t.op = "void"
    BY <1>2, <1>5, LedgerAssumption DEF VoidWrite, Ticket
  <2>2. Onward(t, u) /\ u.items = t.items /\ u.holds = t.holds
    BY <1>2, <2>1 DEF Ticket, Onward, Fields
  <2> HIDE DEF u
  <2> QED BY <1>4, <2>1, <2>2
<1>6. CASE VoidUpdate(r)
  <2> DEFINE u == [t EXCEPT !.pc = "derive", !.holds = TRUE]
  <2>1. Goes(r, u) /\ PlanFree(r, t.plan)
    BY <1>6 DEF VoidUpdate
  <2>2. Onward(t, u) /\ u.items = t.items /\ u.holds
    BY <1>2 DEF Ticket, Onward, Fields
  <2>3. t.op # "void" => t.holds
    BY <1>2, <1>6 DEF VoidUpdate, Ticket
  <2> HIDE DEF u
  <2> QED BY <1>4, <2>1, <2>2, <2>3
<1>7. CASE Sync(r)
  <2> DEFINE pc == IF t.op = "void" /\ NextOf(r) # t.seenNext THEN "update"
                   ELSE IF t.derives THEN "derive" ELSE "commit"
             u == [t EXCEPT !.next = NextOf(r), !.pc = pc]
  <2>1. /\ Goes(r, u) /\ pc \in {"update", "derive", "commit"}
        /\ pc = "update" => t.op = "void"
    BY <1>7 DEF Sync
  <2> HIDE DEF pc
  <2>2. Onward(t, u) /\ u.items = t.items /\ u.holds = t.holds
    <3>1. t.op \in {"pay", "schedule"} => t.holds
      BY <1>2, <1>3 DEF Ticket
    <3> QED BY <1>2, <2>1, <3>1 DEF Ticket, Onward, Fields
  <2> HIDE DEF u
  <2> QED BY <1>4, <2>1, <2>2
<1>8. CASE Derive(r)
  <2>1. PICK status, seen : Goes(r, [t EXCEPT !.pc = "commit", !.status = status, !.seenStatus = seen])
    BY <1>8 DEF Derive
  <2> DEFINE u == [t EXCEPT !.pc = "commit", !.status = status, !.seenStatus = seen]
  <2>2. Onward(t, u) /\ u.items = t.items /\ u.holds = t.holds
    <3>1. t.op \in {"pay", "schedule"} => t.holds
      BY <1>2, <1>3 DEF Ticket
    <3> QED BY <1>2, <3>1 DEF Ticket, Onward, Fields
  <2>3. Goes(r, u)
    BY <2>1
  <2> HIDE DEF u
  <2> QED BY <1>4, <2>2, <2>3
<1> QED BY <1>5, <1>6, <1>7, <1>8

-----------------------------------------------------------------------------
(***************************************************************************)
(* A commit.                                                               *)
(***************************************************************************)

\* The totals a request has read are those its commit leaves.
LEMMA CommitTotals ==
  ASSUME Rows, AllStand, NEW r \in Requests, Commit(r), NEW o
  PROVE /\ Paid(o)' = PaidSeenBy(r, o)
        /\ req[r].op # "pay" \/ o # req[r].plan =>
             Live(o)' = Live(o) \ (IF req[r].op = "void" THEN {req[r].key} ELSE {})
        /\ req[r].op = "pay" => Live(o) \subseteq Live(o)'
<1> DEFINE t == req[r]
<1>1. Ticket(t) /\ Stands(t) /\ t.pc = "commit" /\ t.op \in {"pay", "void", "fee", "schedule"}
  BY IdleTicket DEF Commit, AllStand
<1>2. \A k \in Numbers : Cash(payment)[k] = payment[k].amount /\ Cash(payment')[k] = payment'[k].amount
  BY DEF Cash
<1>3. CASE t.op = "pay"
  <2>1. PICK k \in Numbers :
          /\ ~ Recorded(k)
          /\ payment' = [payment EXCEPT ![k] =
               [amount |-> t.amount, plan |-> t.plan, voidedBy |-> Nobody, voidedOn |-> 0]]
    BY <1>1, <1>3 DEF Commit, FreshNumber, Numbers
  <2>2. /\ payment'[k].amount = t.amount /\ payment'[k].plan = t.plan /\ payment'[k].voidedBy = Nobody
        /\ \A m \in Numbers : m # k => payment'[m] = payment[m]
    BY <2>1 DEF Rows
  <2>3. t.amount > 0
    BY <1>1, <1>3 DEF Ticket
  <2>4. k \notin Live(o)
    BY <2>1 DEF Live
  <2>5. Live(o)' = IF o = t.plan THEN Live(o) \cup {k} ELSE Live(o)
    BY <2>1, <2>2, <2>3 DEF Live, Recorded
  <2>6. \A m \in Live(o) : Cash(payment')[m] = Cash(payment)[m]
    BY <1>2, <2>2, <2>4 DEF Live
  <2>7. SumFunctionOnSet(Cash(payment'), Live(o)) = Paid(o)
    BY <2>6, LiveSums, SumSame, PaidIsSum
  <2>8. CASE o = t.plan
    <3>1. Summable(Cash(payment'), Live(o) \cup {k})
      <4>1. IsFiniteSet(Live(o) \cup {k})
        BY LiveSums, FS_AddElement
      <4>2. \A m \in Live(o) \cup {k} : Cash(payment')[m] \in Int
        <5>1. Cash(payment')[k] \in Int
          BY <1>1, <1>2, <2>2 DEF Ticket
        <5> QED BY <2>6, <5>1, LiveSums
      <4> QED BY <4>1, <4>2 DEF Summable
    <3>2. SumFunctionOnSet(Cash(payment'), Live(o) \cup {k})
            = Cash(payment')[k] + SumFunctionOnSet(Cash(payment'), Live(o))
      BY <2>4, <3>1, SumAdd
    <3>3. Cash(payment')[k] = t.amount /\ t.amount \in Nat /\ Paid(o) \in Nat
      BY <1>1, <1>2, <2>2, LiveSums DEF Ticket
    <3>4. Paid(o)' = Paid(o) + t.amount
      <4>1. Live(o)' = Live(o) \cup {k}
        BY <2>5, <2>8
      <4>2. Paid(o)' = SumFunctionOnSet(Cash(payment'), Live(o) \cup {k})
        BY <4>1, PaidIsSum
      <4> QED BY <2>7, <3>2, <3>3, <4>2
    <3> QED BY <1>3, <2>5, <2>8, <3>4, SeenIsSum
  <2>9. CASE o # t.plan
    BY <1>3, <2>5, <2>7, <2>9, PaidIsSum, SeenIsSum
  <2> QED BY <2>8, <2>9
<1>4. CASE t.op = "void"
  <2>1. t.key \in Numbers
    BY <1>1, <1>4 DEF Ticket
  <2>2. payment' = [payment EXCEPT ![t.key].voidedBy = r, ![t.key].voidedOn = today]
    BY <1>4 DEF Commit
  <2>3. /\ payment'[t.key].voidedBy # Nobody
        /\ \A m \in Numbers : /\ payment'[m].amount = payment[m].amount /\ payment'[m].plan = payment[m].plan
                              /\ m # t.key => payment'[m] = payment[m]
    BY <2>1, <2>2, LedgerAssumption DEF Rows, PaymentRow
  <2>4. Live(o)' = Live(o) \ {t.key}
    BY <2>1, <2>3 DEF Live, Recorded
  <2>5. Cash(payment') = Cash(payment)
    BY <2>3 DEF Cash
  <2> QED BY <1>4, <2>4, <2>5, PaidIsSum, SeenIsSum
<1>5. CASE t.op \in {"fee", "schedule"}
  <2>1. payment' = payment
    BY <1>5 DEF Commit
  <2>2. Live(o)' = Live(o) /\ Paid(o)' = Paid(o)
    BY <2>1, PaidKept
  <2>3. PaidSeenBy(r, o) = SumFunctionOnSet(Cash(payment), Live(o))
    BY <1>5, SeenIsSum
  <2> QED BY <1>5, <2>2, <2>3, PaidIsSum
<1> QED BY <1>1, <1>3, <1>4, <1>5

\* Another plan's total does not grow, nor any by a request that records nothing.
LEMMA SeenAtMost ==
  ASSUME Rows, NEW r \in Requests, NEW o, req[r].op # "pay" \/ o # req[r].plan
  PROVE PaidSeenBy(r, o) <= Paid(o)
<1> DEFINE k == req[r].key
<1>1. CASE req[r].op = "void" /\ k \in Live(o)
  <2>1. Summable(Cash(payment), Live(o))
    BY LiveSums DEF Summable
  <2>2. Paid(o) = Cash(payment)[k] + SumFunctionOnSet(Cash(payment), Live(o) \ {k})
    BY <1>1, <2>1, SumRemove, PaidIsSum
  <2>3. PaidSeenBy(r, o) = SumFunctionOnSet(Cash(payment), Live(o) \ {k})
    BY <1>1, SeenIsSum
  <2>4. PaidSeenBy(r, o) \in Nat
    <3>1. IsFiniteSet(Live(o) \ {k}) /\ \A m \in Live(o) \ {k} : Cash(payment)[m] \in Nat
      BY LiveSums, FS_Subset
    <3> QED BY <2>3, <3>1, SumNat
  <2> QED BY <1>1, <2>2, <2>3, <2>4, LiveSums
<1>2. CASE ~ (req[r].op = "void" /\ k \in Live(o))
  <2>1. Live(o) \ (IF req[r].op = "void" THEN {k} ELSE {}) = Live(o)
    BY <1>2
  <2>2. PaidSeenBy(r, o) = Paid(o) /\ Paid(o) \in Nat
    BY <2>1, SeenIsSum, PaidIsSum, LiveSums
  <2> QED BY <2>2
<1> QED BY <1>1, <1>2

\* The row a commit writes: which of its fields the request decides.
LEMMA CommitRow ==
  ASSUME Rows, NEW r \in Requests, Ticket(req[r]), Stands(req[r])
  PROVE LET t == req[r]  row == RowSeenBy(r, t.plan) IN
        /\ PlanRow(row) /\ row.made
        /\ row.payable = IF t.op = "fee" THEN t.amount ELSE plan[t.plan].payable
        /\ row.schedule = IF t.op \in {"fee", "schedule"} THEN t.items ELSE plan[t.plan].schedule
        /\ row.next = IF t.op \in {"fee", "schedule", "pay"} \/ t.holds THEN t.next
                      ELSE plan[t.plan].next
<1> DEFINE t == req[r]  p == t.plan
<1>1. p \in Plans /\ t.amount \in Nat /\ PlanRow(plan[p]) /\ (t.op # "fee" => plan[p].made)
  BY DEF Ticket, Rows, Stands, Made
<1>2. CASE t.op = "fee"
  BY <1>1, <1>2 DEF RowSeenBy, Fee, PlanRow
<1>3. CASE t.op # "fee"
  BY <1>1, <1>3 DEF RowSeenBy, PlanRow
<1> QED BY <1>2, <1>3

\* A commit leaves a plan another request has locked as it was, but for payments
\* voided under it.
LEMMA CommitSpares ==
  ASSUME LInv, NEW r \in Requests, Commit(r), NEW x \in Requests, x # r, req[x] # Idle, req[x].holds,
         NEW o, o = req[x].plan
  PROVE plan'[o].payable = plan[o].payable /\ Paid(o)' <= Paid(o)
<1> DEFINE t == req[r]  u == req[x]
<1>1. Ticket(t) /\ Stands(t) /\ Ticket(u) /\ Stands(u) /\ t.pc = "commit"
  BY IdleTicket DEF Commit, LInv, AllStand
<1>2. u.plan = t.plan => ~ t.holds /\ t.op = "void"
  <2>1. t.holds => u.plan # t.plan
    BY DEF LInv, LocksApart
  <2>2. t.op = "fee" /\ ~ t.holds => u.plan # t.plan
    BY <1>1 DEF Commit, MayCommit, Stands
  <2>3. t.op \in {"pay", "void", "fee", "schedule"} /\ (t.op \in {"pay", "schedule"} => t.holds)
    BY <1>1, LedgerAssumption DEF Ticket, Checked
  <2> QED BY <2>1, <2>2, <2>3
<1>3. plan'[o].payable = plan[o].payable
  <2>1. plan' = [plan EXCEPT ![t.plan] = RowSeenBy(r, t.plan)]
    BY DEF Commit
  <2>2. u.plan # t.plan => plan'[u.plan] = plan[u.plan]
    BY <1>1, <2>1 DEF LInv, Rows, Ticket
  <2>3. u.plan = t.plan => plan'[u.plan] = RowSeenBy(r, t.plan)
    BY <1>1, <2>1 DEF LInv, Rows, Ticket
  <2> QED BY <1>1, <1>2, <2>2, <2>3, CommitRow DEF LInv
<1>4. Paid(o)' = PaidSeenBy(r, o)
  BY CommitTotals DEF LInv
<1>5. t.op # "pay" \/ o # t.plan
  BY <1>2
<1> QED BY <1>3, <1>4, <1>5, SeenAtMost DEF LInv

\* A commit keeps the invariant: what its own check found still stands, and
\* so does what the others' checks found.
LEMMA CommitInv == ASSUME LInv, NEW r \in Requests, Commit(r) PROVE LInv'
<1> DEFINE t == req[r]  p == t.plan  row == RowSeenBy(r, p)
<1>1. /\ Ticket(t) /\ Stands(t) /\ t.pc = "commit" /\ t.op \in {"pay", "void", "fee", "schedule"}
      /\ t.op \in {"pay", "schedule"} => t.holds
      /\ Checked(t) /\ p \in Plans /\ t.amount \in Nat
  BY IdleTicket, LedgerAssumption DEF Commit, LInv, AllStand, Ticket, Checked
<1>2. /\ PlanRow(row) /\ row.made
      /\ row.payable = IF t.op = "fee" THEN t.amount ELSE plan[p].payable
      /\ row.schedule = IF t.op \in {"fee", "schedule"} THEN t.items ELSE plan[p].schedule
  BY <1>1, CommitRow DEF LInv
<1>3. /\ plan' = [o \in Plans |-> plan'[o]] /\ plan'[p] = row
      /\ \A o \in Plans : o # p => plan'[o] = plan[o]
  <2>1. plan' = [plan EXCEPT ![p] = row] /\ plan = [o \in Plans |-> plan[o]]
    BY DEF Commit, LInv, Rows
  <2> HIDE DEF row
  <2> QED BY <1>1, <2>1
<1> HIDE DEF row
<1>4. \A o \in Plans : Made(o) => Made(o)'
  BY <1>2, <1>3 DEF Made
<1>5. /\ req' = [x \in Requests |-> req'[x]] /\ req'[r] = Idle
      /\ \A x \in Requests : x # r => req'[x] = req[x]
      /\ today' = today
  BY DEF Commit, LInv, Rows
<1>6. /\ payment' = [k \in Numbers |-> payment'[k]]
      /\ \A k \in Numbers :
           /\ PaymentRow(payment[k])
           /\ Recorded(k) => payment'[k].amount = payment[k].amount /\ payment'[k].plan = payment[k].plan
           /\ PaymentRow(payment[k])'
  <2>1. payment = [k \in Numbers |-> payment[k]] /\ \A k \in Numbers : PaymentRow(payment[k])
    BY DEF LInv, Rows
  <2>2. \A k \in Numbers : payment'[k] = payment[k] => PaymentRow(payment[k])'
    BY <1>4, <2>1 DEF PaymentRow
  <2>3. CASE t.op = "pay"
    <3>1. PICK k \in Numbers :
            /\ ~ Recorded(k)
            /\ payment' = [payment EXCEPT ![k] =
                 [amount |-> t.amount, plan |-> t.plan, voidedBy |-> Nobody, voidedOn |-> 0]]
      BY <1>1, <2>3 DEF Commit, FreshNumber, Numbers
    <3>2. /\ payment' = [m \in Numbers |-> payment'[m]]
          /\ payment'[k] = [amount |-> t.amount, plan |-> p, voidedBy |-> Nobody, voidedOn |-> 0]
          /\ \A m \in Numbers : m # k => payment'[m] = payment[m]
      BY <2>1, <3>1
    <3>3. PaymentRow(payment[k])'
      BY <1>1, <1>2, <1>3, <3>2 DEF PaymentRow, Made
    <3> QED BY <2>1, <2>2, <3>1, <3>2, <3>3
  <2>4. CASE t.op = "void"
    <3>1. payment' = [payment EXCEPT ![t.key].voidedBy = r, ![t.key].voidedOn = today]
      BY <2>4 DEF Commit
    <3>2. /\ payment' = [m \in Numbers |-> payment'[m]]
          /\ \A m \in Numbers : m # t.key => payment'[m] = payment[m]
          /\ t.key \in Numbers
      BY <1>1, <2>1, <2>4, <3>1 DEF Ticket
    <3>3. payment'[t.key] = [payment[t.key] EXCEPT !.voidedBy = r, !.voidedOn = today]
      BY <2>1, <3>1, <3>2 DEF PaymentRow
    <3>4. \A k \in Numbers : k = t.key =>
             /\ PaymentRow(payment[k])'
             /\ payment'[k].amount = payment[k].amount /\ payment'[k].plan = payment[k].plan
      <4> SUFFICES ASSUME NEW k \in Numbers, k = t.key
                   PROVE /\ PaymentRow(payment[k])'
                         /\ payment'[k].amount = payment[k].amount /\ payment'[k].plan = payment[k].plan
        OBVIOUS
      <4>1. payment'[k] = [payment[k] EXCEPT !.voidedBy = r, !.voidedOn = today] /\ PaymentRow(payment[k])
        BY <2>1, <3>3
      <4>2. /\ payment'[k] = [amount |-> payment[k].amount, plan |-> payment[k].plan,
                               voidedBy |-> r, voidedOn |-> today]
            /\ payment[k].amount \in Nat
            /\ payment[k].amount > 0 => payment[k].plan \in Plans /\ plan[payment[k].plan].made
        BY <4>1 DEF PaymentRow, Made
      <4> QED BY <1>4, <4>2 DEF PaymentRow, Made
    <3> QED BY <2>1, <2>2, <3>2, <3>4
  <2>5. CASE t.op \in {"fee", "schedule"}
    BY <2>1, <2>2, <2>5 DEF Commit
  <2> QED BY <1>1, <2>3, <2>4, <2>5
<1>7. Rows'
  <2>1. \A o \in Plans : PlanRow(plan'[o])
    BY <1>2, <1>3 DEF LInv, Rows
  <2>2. \A o \in Plans : PlanRow(plan[o])'
    BY <2>1 DEF PlanRow
  <2>3. \A k \in Numbers : PaymentRow(payment[k])'
    BY <1>6 DEF PaymentRow
  <2>4. (today \in 1 .. MaxDay)'
    BY <1>5 DEF LInv, Rows
  <2> QED BY <1>3, <1>5, <1>6, <2>2, <2>3, <2>4 DEF Rows
<1>8. LocksApart'
  BY <1>5, IdleTicket DEF LInv, LocksApart
<1>9. AllStand'
  <2> SUFFICES ASSUME NEW x \in Requests, req[x]' # Idle PROVE (Ticket(req[x]) /\ Stands(req[x]))'
    BY DEF AllStand
  <2> DEFINE u == req[x]
  <2>1. x # r /\ req'[x] = u /\ u # Idle
    BY <1>5
  <2>2. Ticket(u) /\ Stands(u)
    BY <2>1 DEF LInv, AllStand
  <2> PICK o, k : o = u.plan /\ k = u.key
    OBVIOUS
  <2>3. u.holds => plan'[o].payable = plan[o].payable /\ Paid(o)' <= Paid(o)
    BY <2>1, CommitSpares
  <2>4. Ticket(req[x])'
    BY <2>1, <2>2 DEF Ticket, Checked
  <2>5. /\ (u.holds \/ u.op # "fee" => Made(o)')
        /\ (u.op = "void" => Recorded(k)' /\ payment'[k].plan = o)
    BY <1>4, <1>6, <2>2 DEF Ticket, Stands, Recorded
  <2>6. Paid(o) \in Nat /\ Paid(o)' \in Nat /\ u.amount \in Nat /\ plan[o].payable \in Nat
    BY <1>7, <2>2, LiveSums, PaidNat DEF LInv, Rows, PlanRow, Ticket
  <2>7. u.op = "pay" /\ Checked(u) => Paid(o)' + u.amount <= plan'[o].payable
    <3> SUFFICES ASSUME u.op = "pay", Checked(u) PROVE Paid(o)' + u.amount <= plan'[o].payable
      OBVIOUS
    <3>1. u.holds /\ Paid(o) + u.amount <= plan[o].payable
      BY <2>2 DEF Ticket, Stands
    <3> QED BY <2>3, <2>6, <3>1
  <2>8. u.op = "fee" /\ u.holds => Paid(o)' <= u.amount
    BY <2>2, <2>3, <2>6 DEF Stands
  <2>9. u.op = "schedule" /\ Checked(u) => Scheduled(u.items, plan'[o].payable)
    BY <2>2, <2>3 DEF Ticket, Stands
  <2>10. Stands(u)'
    BY <2>1, <2>2, <2>5, <2>7, <2>8, <2>9 DEF Stands, Checked
  <2> QED BY <2>4, <2>10
<1>10. NeverOverpaid'
  <2> SUFFICES ASSUME NEW o \in Plans PROVE plan'[o].payable - Paid(o)' >= 0
    BY DEF NeverOverpaid, Balance
  <2>1. /\ Paid(o) \in Nat /\ Paid(o)' \in Nat /\ plan[o].payable \in Nat /\ plan'[o].payable \in Nat
        /\ Paid(o) <= plan[o].payable
    BY <1>7, LiveSums, PaidNat DEF LInv, Rows, PlanRow, NeverOverpaid, Balance
  <2>2. Paid(o)' = PaidSeenBy(r, o)
    BY CommitTotals DEF LInv
  <2>3. CASE o # p
    BY <1>3, <2>1, <2>2, <2>3, SeenAtMost DEF LInv
  <2>4. CASE o = p /\ t.op = "pay"
    BY <1>1, <1>2, <1>3, <2>1, <2>2, <2>4, SeenIsSum DEF Stands
  <2>5. CASE o = p /\ t.op \in {"void", "schedule"}
    BY <1>2, <1>3, <2>1, <2>2, <2>5, SeenAtMost DEF LInv
  <2>6. CASE o = p /\ t.op = "fee"
    <3>1. Paid(o)' <= Paid(o)
      BY <2>2, <2>6, SeenAtMost DEF LInv
    <3>2. Paid(o) <= t.amount
      <4>1. CASE t.holds
        BY <1>1, <2>6, <4>1 DEF Stands
      <4>2. CASE ~ t.holds
        <5>1. ~ Made(o)
          BY <2>6, <4>2 DEF Commit, MayCommit
        <5>2. Live(o) = {}
          BY <1>6, <5>1 DEF Live, PaymentRow, Recorded
        <5>3. Paid(o) = 0
          BY <5>2, PaidIsSum, SumEmpty, Zenon
        <5> QED BY <1>1, <5>3
      <4> QED BY <4>1, <4>2
    <3> QED BY <1>1, <1>2, <1>3, <2>1, <2>6, <3>1, <3>2
  <2> QED BY <1>1, <2>3, <2>4, <2>5, <2>6
<1>11. SchedulesSum'
  <2> SUFFICES ASSUME NEW o \in Plans PROVE Scheduled(plan'[o].schedule, plan'[o].payable)
    BY DEF SchedulesSum
  <2>1. Scheduled(plan[o].schedule, plan[o].payable)
    BY DEF LInv, SchedulesSum
  <2> QED BY <1>1, <1>2, <1>3, <2>1 DEF Stands
<1> QED BY <1>7, <1>8, <1>9, <1>10, <1>11 DEF LInv

\* What is expected next is no part of the invariant.
LEMMA ExpectInv == ASSUME LInv, NEW r \in Requests, ExpectCommit(r) PROVE LInv'
<1> DEFINE t == req[r]
<1>1. t.plan \in Plans
  BY IdleTicket DEF ExpectCommit, LInv, AllStand, Ticket
<1>2. /\ plan' = [o \in Plans |-> plan'[o]]
      /\ \A o \in Plans : /\ PlanRow(plan[o]) /\ PlanRow(plan'[o])
                          /\ plan'[o].payable = plan[o].payable /\ plan'[o].schedule = plan[o].schedule
                          /\ plan'[o].made = plan[o].made
  <2>1. /\ plan' = [plan EXCEPT ![t.plan].next = [amount |-> t.amount, on |-> t.key]]
        /\ plan = [o \in Plans |-> plan[o]] /\ \A o \in Plans : PlanRow(plan[o])
    BY DEF ExpectCommit, LInv, Rows
  <2>2. /\ plan' = [o \in Plans |-> plan'[o]]
        /\ \A o \in Plans : o # t.plan => plan'[o] = plan[o]
        /\ plan'[t.plan] = [plan[t.plan] EXCEPT !.next = [amount |-> t.amount, on |-> t.key]]
    BY <1>1, <2>1
  <2> PICK old, new, next : /\ old = plan[t.plan] /\ new = plan'[t.plan]
                            /\ next = [amount |-> t.amount, on |-> t.key]
    OBVIOUS
  <2>3. old = [payable |-> old.payable, schedule |-> old.schedule, next |-> old.next, made |-> old.made]
    BY <1>1, <2>1 DEF PlanRow
  <2>4. /\ new = [payable |-> old.payable, schedule |-> old.schedule, next |-> next, made |-> old.made]
        /\ PlanRow(old)
    <3>1. new = [old EXCEPT !.next = next]
      BY <2>2
    <3> QED BY <1>1, <2>1, <2>3, <3>1
  <2>5. /\ PlanRow(new) /\ new.payable = old.payable
        /\ new.schedule = old.schedule /\ new.made = old.made
    BY <2>4 DEF PlanRow
  <2> QED BY <2>1, <2>2, <2>5
<1>3. /\ payment' = payment /\ today' = today
      /\ req' = [x \in Requests |-> req'[x]] /\ req'[r] = Idle
      /\ \A x \in Requests : x # r => req'[x] = req[x]
  BY DEF ExpectCommit, LInv, Rows
<1>4. \A o \in Plans : Made(o)' = Made(o)
  BY <1>2 DEF Made
<1>5. \A o : Paid(o)' = Paid(o)
  BY <1>3, PaidKept
<1>6. Rows'
  <2>1. \A o \in Plans : PlanRow(plan[o])'
    BY <1>2 DEF PlanRow
  <2>2. \A k \in Numbers : PaymentRow(payment[k])'
    BY <1>2, <1>3 DEF LInv, Rows, PaymentRow, Made
  <2> QED BY <1>2, <1>3, <2>1, <2>2 DEF LInv, Rows
<1>7. LocksApart'
  BY <1>3, IdleTicket DEF LInv, LocksApart
<1>8. AllStand'
  <2> SUFFICES ASSUME NEW x \in Requests, req[x]' # Idle PROVE (Ticket(req[x]) /\ Stands(req[x]))'
    BY DEF AllStand
  <2>1. x # r /\ req'[x] = req[x] /\ Ticket(req[x]) /\ Stands(req[x])
    BY <1>3 DEF LInv, AllStand
  <2> PICK u : u = req[x]
    OBVIOUS
  <2>2. Ticket(u)' /\ Stands(u)'
    BY <1>2, <1>3, <1>4, <1>5, <2>1 DEF Ticket, Stands, Recorded, Checked
  <2> QED BY <2>1, <2>2, ZenonT(40) DEF Ticket, Stands, Recorded, Made, Checked
<1>9. NeverOverpaid' /\ SchedulesSum'
  BY <1>2, <1>5 DEF LInv, NeverOverpaid, Balance, SchedulesSum
<1> QED BY <1>6, <1>7, <1>8, <1>9 DEF LInv

\* A step that leaves plans, payments and requests as they are.
LEMMA QuietInv ==
  ASSUME LInv, UNCHANGED <<plan, payment, req>>, today' \in 1 .. MaxDay
  PROVE LInv'
<1>1. \A o : Paid(o)' = Paid(o)
  BY PaidKept
<1>2. Rows'
  BY DEF LInv, Rows, PlanRow, PaymentRow, Made
<1>3. AllStand'
  BY <1>1 DEF LInv, AllStand, Ticket, Stands, Recorded, Made, Checked
<1> QED BY <1>1, <1>2, <1>3 DEF LInv, LocksApart, NeverOverpaid, Balance, SchedulesSum

\* The invariant is inductive.
THEOREM LedgerInvStep == LInv /\ [Next]_vars => LInv'
<1> SUFFICES ASSUME LInv, [Next]_vars PROVE LInv'
  OBVIOUS
<1>1. ASSUME NEW r \in Requests, Start(r) PROVE LInv'
  BY <1>1, StartInv
<1>2. ASSUME NEW r \in Requests, Advance(r) PROVE LInv'
  BY <1>2, PayCheckInv, FeeCheckInv, ScheduleCheckInv, LaterInv, ExpectInv, CommitInv DEF Advance
<1>3. ASSUME NEW r \in Requests, RollBack(r) PROVE LInv'
  BY <1>3, GoesInv DEF RollBack
<1>4. CASE NextDay
  <2>1. today' \in 1 .. MaxDay /\ UNCHANGED <<plan, payment, req>>
    BY <1>4, LedgerAssumption DEF NextDay, LInv, Rows
  <2> QED BY <2>1, QuietInv
<1>5. CASE UNCHANGED vars
  <2>1. today' \in 1 .. MaxDay /\ UNCHANGED <<plan, payment, req>>
    BY <1>5 DEF vars, LInv, Rows
  <2> QED BY <2>1, QuietInv
<1> QED BY <1>1, <1>2, <1>3, <1>4, <1>5 DEF Next

\* Rows and requests have the shape the code gives them, no two requests hold
\* one plan, and what a check found of a plan stands until the request ends.
THEOREM LedgerInv == Spec => []LInv
<1>1. Init => LInv
  BY InitInv
<1>2. LInv /\ [Next]_vars => LInv'
  BY LedgerInvStep
<1> QED BY <1>1, <1>2, PTL DEF Spec

\* Whatever requests run at once, voids among them, no plan has more paid
\* than is payable: a payment keeps the row it checked locked to its commit.
THEOREM LedgerNeverOverpaid == Spec => []NeverOverpaid
<1>1. LInv => NeverOverpaid
  BY DEF LInv
<1> QED BY <1>1, LedgerInv, PTL

-----------------------------------------------------------------------------
(***************************************************************************)
(* What every step of a request does to what it has in hand.               *)
(***************************************************************************)

\* A request starts at its operation, with the status of the student.
LEMMA StartGoes ==
  ASSUME LInv, NEW r \in Requests, Start(r)
  PROVE \E u : /\ Goes(r, u) /\ u.pc = u.op /\ u.derives /\ u.seenStatus = feeStatus
               /\ u.op \in Operations
               /\ u.op = "void" => payment[u.key].voidedBy = Nobody
<1>1. PICK op, p, k, amount, items :
        Begins(r, op, p, k, amount, items) /\ (op = "void" => NotVoided(k))
  <2> DEFINE Found == \E op, p, k, amount, items :
               Begins(r, op, p, k, amount, items) /\ (op = "void" => NotVoided(k))
  <2>1. \A op, p, k, amount, items :
          Begins(r, op, p, k, amount, items) /\ (op = "void" => NotVoided(k)) => Found
    OBVIOUS
  <2> HIDE DEF Found
  <2>2. \A p, v : StartPay(r, p, v) => Found
    BY <2>1 DEF StartPay
  <2>3. \A k : StartVoid(r, k) => Found
    BY <2>1 DEF StartVoid
  <2>4. \A p, fee, items : StartFee(r, p, fee, items) => Found
    BY <2>1 DEF StartFee
  <2>5. \A p, items : StartSchedule(r, p, items) => Found
    BY <2>1 DEF StartSchedule
  <2>6. \A p, amount, on : StartExpect(r, p, amount, on) => Found
    BY <2>1 DEF StartExpect
  <2>7. Found
    BY <2>2, <2>3, <2>4, <2>5, <2>6 DEF Start
  <2> QED BY <2>7 DEF Found
<1> DEFINE u == [op |-> op, pc |-> op, holds |-> FALSE, plan |-> p, amount |-> amount,
                 items |-> items, derives |-> TRUE, key |-> k,
                 seenNext |-> plan[p].next, next |-> plan[p].next,
                 seenStatus |-> feeStatus, status |-> feeStatus]
<1>2. Goes(r, u) /\ op \in Operations
  BY <1>1 DEF Begins, Goes
<1>3. /\ u.pc = u.op /\ u.op = op /\ u.derives /\ u.seenStatus = feeStatus
      /\ u.op = "void" => payment[u.key].voidedBy = Nobody
  BY <1>1 DEF NotVoided
<1> HIDE DEF u
<1> QED BY <1>2, <1>3

\* A request that moves on keeps what it was asked; where it will derive no
\* status, it changes no amount.
LEMMA AdvanceGoes ==
  ASSUME LInv, NEW r \in Requests, Advance(r), ~ Commit(r), ~ ExpectCommit(r)
  PROVE LET t == req[r] IN
        /\ t # Idle /\ Ticket(t) /\ Stands(t)
        /\ \E u : /\ Goes(r, u) /\ Onward(t, u)
                  /\ u.pc = "commit" => ~ u.derives \/ Derive(r)
                  /\ ~ u.derives => ~ t.derives \/ (t.op = "fee" /\ t.amount = plan[t.plan].payable)
                  /\ t.seenStatus = feeStatus => u.seenStatus = feeStatus
                  /\ t.op = "pay" => PayCheck(r) \/ Checked(t)
<1> DEFINE t == req[r]
<1>1. t # Idle /\ Ticket(t) /\ Stands(t) /\ t.op \in {"pay", "void", "fee", "schedule", "expect"}
  <2>1. t.pc \in {"pay", "fee", "schedule", "void", "update", "sync", "derive"}
    BY DEF Advance, PayCheck, FeeCheck, ScheduleCheck, VoidWrite, VoidUpdate, Sync, Derive
  <2>2. t # Idle
    BY <2>1, IdleTicket
  <2> QED BY <2>2, LedgerAssumption DEF LInv, AllStand, Ticket
<1> SUFFICES \E u : /\ Goes(r, u) /\ Onward(t, u)
                    /\ u.pc = "commit" => ~ u.derives \/ Derive(r)
                    /\ ~ u.derives => ~ t.derives \/ (t.op = "fee" /\ t.amount = plan[t.plan].payable)
                    /\ t.seenStatus = feeStatus => u.seenStatus = feeStatus
                    /\ t.op = "pay" => PayCheck(r) \/ Checked(t)
  BY <1>1
<1>2. CASE PayCheck(r)
  <2> DEFINE u == [t EXCEPT !.pc = "sync", !.holds = TRUE, !.next = plan[t.plan].next,
                            !.seenStatus = feeStatus]
  <2>1. Goes(r, u) /\ t.op = "pay"
    BY <1>1, <1>2 DEF PayCheck, Ticket
  <2>2. Onward(t, u) /\ u.pc = "sync" /\ u.derives = t.derives /\ u.seenStatus = feeStatus
    BY <1>1, <2>1 DEF Ticket, Onward, Fields
  <2> HIDE DEF u
  <2> QED BY <1>2, <2>1, <2>2
<1>3. CASE ScheduleCheck(r)
  <2> DEFINE u == [t EXCEPT !.pc = "sync", !.holds = TRUE, !.items = ByDate(t.items),
                            !.next = plan[t.plan].next]
  <2>1. Goes(r, u) /\ t.op = "schedule"
    BY <1>1, <1>3 DEF ScheduleCheck, Ticket
  <2>2. Onward(t, u) /\ u.pc = "sync" /\ u.derives = t.derives /\ u.seenStatus = t.seenStatus
    BY <1>1, <2>1 DEF Ticket, Onward, Fields
  <2> HIDE DEF u
  <2> QED BY <1>3, <2>1, <2>2
<1>4. CASE FeeCheck(r)
  <2> DEFINE p == t.plan
  <2>1. t.op = "fee" /\ Made(p) \in BOOLEAN
    BY <1>1, <1>4 DEF FeeCheck, Ticket, Made, LInv, Rows, PlanRow
  <2> DEFINE Found(given, amounts, notes, count) ==
       /\ t.items # <<>> => given
       /\ Made(p) /\ t.amount # plan[p].payable => amounts
       /\ given \/ Made(p) => count = 0
       /\ LET s == Rescheduled(p, t.amount, given, t.items, count, amounts) IN
          /\ Scheduled(s, t.amount)
          /\ Goes(r, [t EXCEPT !.pc = IF given \/ amounts \/ ~ Made(p) THEN "sync"
                                      ELSE IF notes THEN "derive" ELSE "commit",
                               !.holds = Made(p), !.items = s, !.next = plan[p].next,
                               !.derives = ~ Made(p) \/ amounts \/ notes])
  <2>2. PICK given, amounts, notes \in BOOLEAN, count \in 0 .. MaxItems :
          Found(given, amounts, notes, count)
    BY <1>4, Zenon DEF FeeCheck
  <2> DEFINE pc == IF given \/ amounts \/ ~ Made(p) THEN "sync" ELSE IF notes THEN "derive" ELSE "commit"
             derives == ~ Made(p) \/ amounts \/ notes
             items == Rescheduled(p, t.amount, given, t.items, count, amounts)
             u == [t EXCEPT !.pc = pc, !.holds = Made(p), !.items = items, !.next = plan[p].next,
                            !.derives = derives]
  <2>3. Goes(r, u)
    BY <2>2
  <2>4. pc \in {"sync", "derive", "commit"} /\ derives \in BOOLEAN /\ (pc = "commit" => ~ derives)
    OBVIOUS
  <2>5. ~ derives => t.amount = plan[p].payable
    BY <2>2
  <2> HIDE DEF Found, pc, derives, items
  <2>6. Onward(t, u) /\ u.seenStatus = t.seenStatus /\ u.pc = pc /\ u.derives = derives
    BY <1>1, <2>1, <2>4 DEF Ticket, Onward, Fields
  <2> HIDE DEF u
  <2> QED BY <2>1, <2>3, <2>4, <2>5, <2>6
<1>5. CASE VoidWrite(r)
  <2> DEFINE u == [t EXCEPT !.pc = "sync"]
  <2>1. Goes(r, u) /\ t.op = "void"
    BY <1>1, <1>5 DEF VoidWrite, Ticket
  <2>2. Onward(t, u) /\ u.pc = "sync" /\ u.derives = t.derives /\ u.seenStatus = t.seenStatus
    BY <1>1, <2>1 DEF Ticket, Onward, Fields
  <2> HIDE DEF u
  <2> QED BY <2>1, <2>2
<1>6. CASE VoidUpdate(r)
  <2> DEFINE u == [t EXCEPT !.pc = "derive", !.holds = TRUE]
  <2>1. Goes(r, u) /\ t.op = "void"
    BY <1>1, <1>6 DEF VoidUpdate, Ticket
  <2>2. Onward(t, u) /\ u.pc = "derive" /\ u.derives = t.derives /\ u.seenStatus = t.seenStatus
    BY <1>1, <2>1 DEF Ticket, Onward, Fields
  <2> HIDE DEF u
  <2> QED BY <2>1, <2>2
<1>7. CASE Sync(r)
  <2> DEFINE pc == IF t.op = "void" /\ NextOf(r) # t.seenNext THEN "update"
                   ELSE IF t.derives THEN "derive" ELSE "commit"
             u == [t EXCEPT !.next = NextOf(r), !.pc = pc]
  <2>1. /\ Goes(r, u) /\ pc \in {"update", "derive", "commit"} /\ (pc = "update" => t.op = "void")
        /\ Checked(t) /\ (pc = "commit" => ~ t.derives)
    BY <1>1, <1>7 DEF Sync, Checked
  <2> HIDE DEF pc
  <2>2. Onward(t, u) /\ u.pc = pc /\ u.derives = t.derives /\ u.seenStatus = t.seenStatus
    <3>1. t.op \in {"pay", "schedule"} => t.holds
      BY <1>1, <2>1 DEF Ticket
    <3> QED BY <1>1, <2>1, <3>1 DEF Ticket, Onward, Fields
  <2> HIDE DEF u
  <2> QED BY <1>7, <2>1, <2>2
<1>8. CASE Derive(r)
  <2>1. PICK status, seen : /\ Goes(r, [t EXCEPT !.pc = "commit", !.status = status, !.seenStatus = seen])
                            /\ t.seenStatus = feeStatus => seen = feeStatus
    <3> DEFINE Found(status, seen) ==
          /\ Goes(r, [t EXCEPT !.pc = "commit", !.status = status, !.seenStatus = seen])
          /\ t.seenStatus = feeStatus => seen = feeStatus
    <3>1. Found(StatusOf([p \in Plans |-> RowSeenBy(r, p)], [p \in Plans |-> PaidSeenBy(r, p)], today),
                IF t.op = "schedule" THEN feeStatus ELSE t.seenStatus)
      BY <1>1, <1>8 DEF Derive
    <3> HIDE DEF Found
    <3>2. \E status, seen : Found(status, seen)
      BY <3>1
    <3> QED BY <3>2 DEF Found
  <2> DEFINE u == [t EXCEPT !.pc = "commit", !.status = status, !.seenStatus = seen]
  <2>2. Checked(t)
    BY <1>1, <1>8 DEF Derive, Checked
  <2>3. Onward(t, u) /\ u.derives = t.derives /\ u.seenStatus = seen
    <3>1. t.op \in {"pay", "schedule"} => t.holds
      BY <1>1, <2>2 DEF Ticket
    <3> QED BY <1>1, <3>1 DEF Ticket, Onward, Fields
  <2>4. Goes(r, u)
    BY <2>1
  <2> HIDE DEF u
  <2> QED BY <1>8, <2>1, <2>2, <2>3, <2>4
<1> QED BY <1>2, <1>3, <1>4, <1>5, <1>6, <1>7, <1>8 DEF Advance

-----------------------------------------------------------------------------
(***************************************************************************)
(* The order of a plan's instalments.                                      *)
(***************************************************************************)

\* Instalments with whole amounts and days.
Sheet(s) == IsSchedule(s) /\ Dated(s)

PlansOrdered == \A p \in Plans : Sheet(plan[p].schedule) /\ InDateOrder(plan[p].schedule)

\* A request that will write a schedule has sorted it once its check is over.
ItemsFit(t) ==
  t.op \in {"fee", "schedule"} => Sheet(t.items) /\ (Checked(t) => InDateOrder(t.items))

OrderInv == LInv /\ PlansOrdered /\ \A r \in Requests : req[r] # Idle => ItemsFit(req[r])

\* An empty schedule is in order.
LEMMA EmptySheet == Sheet(<<>>) /\ InDateOrder(<<>>)
BY DEF Sheet, IsSchedule, Dated, InDateOrder

\* What an operator types has amounts and days.
LEMMA TypedSheet == ASSUME NEW s \in Schedules PROVE Sheet(s)
<1>1. CASE s = <<>>
  BY <1>1, EmptySheet
<1>2. CASE s # <<>>
  <2>1. PICK n \in 1 .. MaxItems : s \in [1 .. n -> Items]
    BY <1>2 DEF Schedules
  <2>2. n \in Nat
    BY <2>1
  <2>3. Len(s) = n /\ DOMAIN s = 1 .. n
    BY <2>1, <2>2
  <2>4. ASSUME NEW x \in Items PROVE x.amount \in Int /\ x.due \in Int
    <3>1. x.amount \in Amounts
      BY DEF Items
    <3>2. x.due \in 1 .. MaxDay
      BY DEF Items
    <3>3. x.amount \in Int
      <4>1. Amounts \subseteq Nat
        BY Zenon, LedgerAssumption
      <4>2. x.amount \in Nat
        BY <3>1, <4>1
      <4> QED BY <4>2
    <3>4. x.due \in Int
      BY <3>2, LedgerAssumption
    <3> QED BY <3>3, <3>4
  <2>5. \A i \in 1 .. n : s[i] \in Items
    BY <2>1
  <2> QED BY <2>2, <2>3, <2>4, <2>5 DEF Sheet, IsSchedule, Dated
<1> QED BY <1>1, <1>2

\* A fee spread over dates in order is in order.
LEMMA SpreadOrdered ==
  ASSUME NEW fee \in Nat, NEW dates, Len(dates) \in Nat,
         \A i \in 1 .. Len(dates) : dates[i] \in Int,
         \A i, j \in 1 .. Len(dates) : i < j => dates[i] <= dates[j]
  PROVE Sheet(Spread(fee, dates)) /\ InDateOrder(Spread(fee, dates))
<1>1. CASE Len(dates) = 0 \/ fee = 0
  <2>1. Spread(fee, dates) = <<>>
    BY <1>1 DEF Spread
  <2> QED BY <2>1, EmptySheet
<1>2. CASE Len(dates) # 0 /\ fee # 0
  <2> DEFINE s == Spread(fee, dates)
             n == Len(dates)
  <2>1. Len(s) = n /\ IsSchedule(s) /\ \A i \in 1 .. n : s[i].due = dates[i]
    BY <1>2, SpreadIs
  <2> HIDE DEF s
  <2> QED BY <2>1 DEF Sheet, Dated, InDateOrder, s
<1> QED BY <1>1, <1>2

\* Whichever way a fee's schedule comes about, it is in order.
LEMMA RescheduledOrdered ==
  ASSUME OrderInv, NEW p \in Plans, NEW fee \in Nat, NEW given, NEW items, Sheet(items),
         NEW count \in Nat, NEW change
  PROVE LET s == Rescheduled(p, fee, given, items, count, change) IN Sheet(s) /\ InDateOrder(s)
<1>1. Sheet(plan[p].schedule) /\ InDateOrder(plan[p].schedule) /\ today \in Nat
  BY LedgerAssumption DEF OrderInv, PlansOrdered, LInv, Rows
<1>2. Sheet(ByDate(items)) /\ InDateOrder(ByDate(items))
  BY ByDateSorts DEF Sheet
<1>3. Sheet(Spread(fee, DefaultDates(count))) /\ InDateOrder(Spread(fee, DefaultDates(count)))
  <2> DEFINE dates == DefaultDates(count)
  <2>1. Len(dates) = count /\ \A i \in 1 .. count : dates[i] = today + GapDays * (i - 1)
    BY DEF DefaultDates
  <2> HIDE DEF dates
  <2>2. \A i \in 1 .. count : GapDays * (i - 1) \in Int
    BY LedgerAssumption
  <2>3. \A i, j \in 1 .. count : i < j => GapDays * (i - 1) <= GapDays * (j - 1)
    BY LedgerAssumption, TimesKeepsOrder
  <2>4. \A i \in 1 .. count : dates[i] \in Int
    BY <1>1, <2>1, <2>2
  <2>5. \A i, j \in 1 .. count : i < j => dates[i] <= dates[j]
    <3> SUFFICES ASSUME NEW i \in 1 .. count, NEW j \in 1 .. count, i < j PROVE dates[i] <= dates[j]
      OBVIOUS
    <3> DEFINE x == GapDays * (i - 1)
               y == GapDays * (j - 1)
    <3>1. x \in Int /\ y \in Int /\ x <= y /\ dates[i] = today + x /\ dates[j] = today + y
      BY <2>1, <2>2, <2>3
    <3> HIDE DEF x, y
    <3> QED BY <1>1, <3>1
  <2> QED BY <2>1, <2>4, <2>5, SpreadOrdered DEF dates
<1>4. Sheet(Respread(p, fee)) /\ InDateOrder(Respread(p, fee))
  <2> DEFINE s == plan[p].schedule
             dates == DatesOf(s)
  <2>1. Len(s) \in Nat /\ \A i \in 1 .. Len(s) : s[i].due \in Int
    BY <1>1 DEF Sheet, IsSchedule, Dated
  <2>2. \A i, j \in 1 .. Len(s) : i < j => s[i].due <= s[j].due
    BY <1>1 DEF InDateOrder
  <2> HIDE DEF s
  <2>3. Len(dates) = Len(s) /\ \A i \in 1 .. Len(s) : dates[i] = s[i].due
    BY <2>1 DEF DatesOf
  <2> HIDE DEF dates
  <2> QED BY <2>1, <2>2, <2>3, SpreadOrdered DEF Respread, dates, s
<1> QED BY <1>1, <1>2, <1>3, <1>4 DEF Rescheduled

\* A request that moves on with sorted instalments keeps the order.
LEMMA OrderGoes ==
  ASSUME OrderInv, NEW r \in Requests, NEW u, Goes(r, u), u = Idle \/ ItemsFit(u)
  PROVE PlansOrdered' /\ \A x \in Requests : req[x]' # Idle => ItemsFit(req[x])'
<1>1. plan' = plan /\ \A x \in Requests : req'[x] = IF x = r THEN u ELSE req[x]
  BY DEF Goes, OrderInv, LInv, Rows
<1> QED BY <1>1 DEF OrderInv, PlansOrdered, ItemsFit, Checked

\* A request starts with what was typed.
LEMMA OrderStart ==
  ASSUME OrderInv, NEW r \in Requests, Start(r)
  PROVE PlansOrdered' /\ \A x \in Requests : req[x]' # Idle => ItemsFit(req[x])'
<1> DEFINE Kept == PlansOrdered' /\ \A x \in Requests : req[x]' # Idle => ItemsFit(req[x])'
<1>1. ASSUME NEW op, NEW p, NEW k, NEW amount, NEW items, Begins(r, op, p, k, amount, items),
             op \in {"fee", "schedule"} => items \in Schedules
      PROVE Kept
  <2> DEFINE u == [op |-> op, pc |-> op, holds |-> FALSE, plan |-> p, amount |-> amount,
                   items |-> items, derives |-> TRUE, key |-> k,
                   seenNext |-> plan[p].next, next |-> plan[p].next,
                   seenStatus |-> feeStatus, status |-> feeStatus]
  <2>1. Goes(r, u)
    BY <1>1 DEF Begins, Goes
  <2>2. ItemsFit(u)
    <3>1. u.op = op /\ u.pc = op /\ u.items = items
      OBVIOUS
    <3> HIDE DEF u
    <3> QED BY <1>1, <3>1, TypedSheet DEF ItemsFit, Checked
  <2> HIDE DEF u
  <2> QED BY <2>1, <2>2, OrderGoes
<1> HIDE DEF Kept
<1>2. ASSUME NEW p, NEW v, StartPay(r, p, v) PROVE Kept
  BY <1>1, <1>2 DEF StartPay
<1>3. ASSUME NEW k, StartVoid(r, k) PROVE Kept
  BY <1>1, <1>3 DEF StartVoid
<1>4. ASSUME NEW p, NEW fee, NEW items \in Schedules, StartFee(r, p, fee, items) PROVE Kept
  BY <1>1, <1>4 DEF StartFee
<1>5. ASSUME NEW p, NEW items \in Schedules, StartSchedule(r, p, items) PROVE Kept
  BY <1>1, <1>5 DEF StartSchedule
<1>6. ASSUME NEW p, NEW amount, NEW on, StartExpect(r, p, amount, on) PROVE Kept
  BY <1>1, <1>6 DEF StartExpect
<1>7. Kept
  BY <1>2, <1>3, <1>4, <1>5, <1>6 DEF Start
<1> QED BY <1>7 DEF Kept

\* Both checks sort what they let through; no other step touches it.
LEMMA OrderAdvance ==
  ASSUME OrderInv, NEW r \in Requests, Advance(r), ~ Commit(r), ~ ExpectCommit(r)
  PROVE PlansOrdered' /\ \A x \in Requests : req[x]' # Idle => ItemsFit(req[x])'
<1> DEFINE t == req[r]
           Kept == PlansOrdered' /\ \A x \in Requests : req[x]' # Idle => ItemsFit(req[x])'
<1>1. t # Idle /\ Ticket(t) /\ ItemsFit(t) /\ t.plan \in Plans /\ t.amount \in Nat
  <2>1. t # Idle /\ Ticket(t)
    BY AdvanceGoes DEF OrderInv
  <2> QED BY <2>1 DEF OrderInv, Ticket
<1>2. ASSUME NEW u, Goes(r, u), u.op = t.op, u.items = t.items, Checked(t) \/ t.op \notin {"fee", "schedule"}
      PROVE Kept
  <2>1. ItemsFit(u)
    BY <1>1, <1>2 DEF ItemsFit
  <2> QED BY <1>2, <2>1, OrderGoes
<1>3. ASSUME NEW u, Goes(r, u), Sheet(u.items), InDateOrder(u.items)
      PROVE Kept
  <2>1. ItemsFit(u)
    BY <1>3 DEF ItemsFit
  <2> QED BY <1>3, <2>1, OrderGoes
<1> HIDE DEF Kept
<1> SUFFICES Kept
  BY DEF Kept
<1>4. CASE PayCheck(r)
  <2> DEFINE u == [t EXCEPT !.pc = "sync", !.holds = TRUE, !.next = plan[t.plan].next,
                            !.seenStatus = feeStatus]
  <2>1. Goes(r, u) /\ t.pc = "pay"
    BY <1>4 DEF PayCheck
  <2>2. t.op \notin {"fee", "schedule"}
    BY <1>1, <2>1 DEF Ticket
  <2>3. u.op = t.op /\ u.items = t.items
    BY <1>1 DEF Ticket, Fields
  <2> HIDE DEF u
  <2> QED BY <1>2, <2>1, <2>2, <2>3
<1>5. CASE FeeCheck(r)
  <2>1. t.op = "fee"
    BY <1>1, <1>5 DEF FeeCheck, Ticket
  <2> DEFINE S(given, count, change) == Rescheduled(t.plan, t.amount, given, t.items, count, change)
  <2> DEFINE Found(given, count, change, pc, derives) ==
          Goes(r, [t EXCEPT !.pc = pc, !.holds = Made(t.plan), !.items = S(given, count, change),
                            !.next = plan[t.plan].next, !.derives = derives])
  <2>2. PICK given, count, change, pc, derives :
          count \in Nat /\ Found(given, count, change, pc, derives)
    <3> DEFINE FoundBy(given, amounts, notes, count) ==
            /\ t.items # <<>> => given
            /\ Made(t.plan) /\ t.amount # plan[t.plan].payable => amounts
            /\ given \/ Made(t.plan) => count = 0
            /\ Scheduled(S(given, count, amounts), t.amount)
            /\ Found(given, count, amounts, IF given \/ amounts \/ ~ Made(t.plan) THEN "sync"
                                            ELSE IF notes THEN "derive" ELSE "commit",
                     ~ Made(t.plan) \/ amounts \/ notes)
    <3>1. PICK given, amounts, notes \in BOOLEAN, count \in 0 .. MaxItems :
            FoundBy(given, amounts, notes, count)
      BY <1>5, Zenon DEF FeeCheck
    <3>2. Found(given, count, amounts, IF given \/ amounts \/ ~ Made(t.plan) THEN "sync"
                                       ELSE IF notes THEN "derive" ELSE "commit",
                ~ Made(t.plan) \/ amounts \/ notes)
      BY <3>1
    <3>3. count \in Nat
      BY <3>1
    <3> HIDE DEF Found
    <3> QED BY <3>2, <3>3
  <2> DEFINE s == S(given, count, change)
             u == [t EXCEPT !.pc = pc, !.holds = Made(t.plan), !.items = s,
                            !.next = plan[t.plan].next, !.derives = derives]
  <2>3. Sheet(s) /\ InDateOrder(s)
    <3>1. Sheet(t.items)
      BY <1>1, <2>1 DEF ItemsFit
    <3> QED BY <1>1, <2>2, <3>1, RescheduledOrdered
  <2>4. Goes(r, u)
    BY <2>2
  <2> HIDE DEF s
  <2>5. u.items = s
    BY <1>1 DEF Ticket, Fields
  <2> HIDE DEF u
  <2> QED BY <1>3, <2>3, <2>4, <2>5
<1>6. CASE ScheduleCheck(r)
  <2> DEFINE s == ByDate(t.items)
             u == [t EXCEPT !.pc = "sync", !.holds = TRUE, !.items = s, !.next = plan[t.plan].next]
  <2>1. Goes(r, u) /\ t.op = "schedule"
    BY <1>1, <1>6 DEF ScheduleCheck, Ticket
  <2>2. Sheet(s) /\ InDateOrder(s)
    BY <1>1, <2>1, ByDateSorts DEF ItemsFit, Sheet
  <2> HIDE DEF s
  <2>3. u.items = s
    BY <1>1 DEF Ticket, Fields
  <2> HIDE DEF u
  <2> QED BY <1>3, <2>1, <2>2, <2>3
<1>7. CASE VoidWrite(r)
  <2> DEFINE u == [t EXCEPT !.pc = "sync"]
  <2>1. Goes(r, u) /\ t.op \notin {"fee", "schedule"}
    BY <1>1, <1>7 DEF VoidWrite, Ticket
  <2>2. u.op = t.op /\ u.items = t.items
    BY <1>1 DEF Ticket, Fields
  <2> HIDE DEF u
  <2> QED BY <1>2, <2>1, <2>2
<1>8. CASE VoidUpdate(r)
  <2> DEFINE u == [t EXCEPT !.pc = "derive", !.holds = TRUE]
  <2>1. Goes(r, u) /\ t.op \notin {"fee", "schedule"}
    BY <1>1, <1>8 DEF VoidUpdate, Ticket
  <2>2. u.op = t.op /\ u.items = t.items
    BY <1>1 DEF Ticket, Fields
  <2> HIDE DEF u
  <2> QED BY <1>2, <2>1, <2>2
<1>9. CASE Sync(r)
  <2>1. PICK next, pc : Goes(r, [t EXCEPT !.next = next, !.pc = pc])
    BY <1>9 DEF Sync
  <2> DEFINE u == [t EXCEPT !.next = next, !.pc = pc]
  <2>2. Goes(r, u) /\ (Checked(t) \/ t.op \notin {"fee", "schedule"})
    BY <2>1, <1>9 DEF Sync, Checked
  <2>3. u.op = t.op /\ u.items = t.items
    BY <1>1 DEF Ticket, Fields
  <2> HIDE DEF u
  <2> QED BY <1>2, <2>2, <2>3
<1>10. CASE Derive(r)
  <2>1. PICK status, seen : Goes(r, [t EXCEPT !.pc = "commit", !.status = status, !.seenStatus = seen])
    <3> DEFINE Found(status, seen) == Goes(r, [t EXCEPT !.pc = "commit", !.status = status, !.seenStatus = seen])
    <3>1. Found(StatusOf([p \in Plans |-> RowSeenBy(r, p)], [p \in Plans |-> PaidSeenBy(r, p)], today),
                IF t.op = "schedule" THEN feeStatus ELSE t.seenStatus)
      BY <1>1, <1>10 DEF Derive
    <3> HIDE DEF Found
    <3>2. \E status, seen : Found(status, seen)
      BY <3>1
    <3> QED BY <3>2 DEF Found
  <2> DEFINE u == [t EXCEPT !.pc = "commit", !.status = status, !.seenStatus = seen]
  <2>2. Goes(r, u) /\ (Checked(t) \/ t.op \notin {"fee", "schedule"})
    BY <2>1, <1>10 DEF Derive, Checked
  <2>3. u.op = t.op /\ u.items = t.items
    BY <1>1 DEF Ticket, Fields
  <2> HIDE DEF u
  <2> QED BY <1>2, <2>2, <2>3
<1> QED BY <1>4, <1>5, <1>6, <1>7, <1>8, <1>9, <1>10 DEF Advance

\* A commit writes a sorted schedule, or the one it found.
LEMMA OrderCommit ==
  ASSUME OrderInv, NEW r \in Requests, Commit(r) \/ ExpectCommit(r)
  PROVE PlansOrdered' /\ \A x \in Requests : req[x]' # Idle => ItemsFit(req[x])'
<1> DEFINE t == req[r]  p == t.plan
<1>1. /\ t # Idle /\ Ticket(t) /\ Stands(t) /\ ItemsFit(t) /\ p \in Plans
      /\ Rows
  <2>1. t.pc \in {"commit", "expect"}
    BY DEF Commit, ExpectCommit
  <2>2. t # Idle
    BY <2>1, IdleTicket
  <2> QED BY <2>2 DEF OrderInv, LInv, AllStand, Ticket
<1>2. \A x \in Requests : req[x]' # Idle => req'[x] = req[x]
  BY <1>1 DEF Commit, ExpectCommit, Rows
<1>3. \A x \in Requests : req[x]' # Idle => ItemsFit(req[x])'
  BY <1>2 DEF OrderInv, ItemsFit, Checked
<1>4. \A o \in Plans : o # p => plan'[o] = plan[o]
  BY <1>1 DEF Commit, ExpectCommit, Rows
<1>5. plan'[p].schedule = plan[p].schedule \/ (Sheet(plan'[p].schedule) /\ InDateOrder(plan'[p].schedule))
  <2>1. CASE ExpectCommit(r)
    <3>1. plan[p] = [payable |-> plan[p].payable, schedule |-> plan[p].schedule,
                     next |-> plan[p].next, made |-> plan[p].made]
      BY <1>1 DEF Rows, PlanRow
    <3>2. plan'[p] = [plan[p] EXCEPT !.next = [amount |-> t.amount, on |-> t.key]]
      BY <1>1, <2>1 DEF ExpectCommit, Rows
    <3> QED BY <3>1, <3>2
  <2>2. CASE Commit(r)
    <3>1. plan'[p] = RowSeenBy(r, p)
      BY <1>1, <2>2 DEF Commit, Rows
    <3>2. Checked(t)
      BY <1>1, <2>2, LedgerAssumption DEF Commit, Checked, Ticket
    <3>3. plan'[p].schedule = IF t.op \in {"fee", "schedule"} THEN t.items ELSE plan[p].schedule
      BY <1>1, <3>1, CommitRow
    <3> QED BY <1>1, <3>2, <3>3 DEF ItemsFit
  <2> QED BY <2>1, <2>2
<1>6. PlansOrdered'
  <2> SUFFICES ASSUME NEW o \in Plans PROVE Sheet(plan'[o].schedule) /\ InDateOrder(plan'[o].schedule)
    BY DEF PlansOrdered
  <2>1. Sheet(plan[o].schedule) /\ InDateOrder(plan[o].schedule)
    BY DEF OrderInv, PlansOrdered
  <2> QED BY <1>4, <1>5, <2>1
<1> QED BY <1>3, <1>6

\* Schedules stay in date order.
LEMMA OrderStepInv == OrderInv /\ [Next]_vars => OrderInv'
<1> SUFFICES ASSUME OrderInv, [Next]_vars
             PROVE PlansOrdered' /\ \A x \in Requests : req[x]' # Idle => ItemsFit(req[x])'
  BY LedgerInvStep DEF OrderInv
<1> DEFINE Kept == PlansOrdered' /\ \A x \in Requests : req[x]' # Idle => ItemsFit(req[x])'
<1>1. ASSUME NEW r \in Requests, Start(r) PROVE Kept
  BY <1>1, OrderStart
<1>2. ASSUME NEW r \in Requests, Advance(r) PROVE Kept
  BY <1>2, OrderAdvance, OrderCommit
<1>3. ASSUME NEW r \in Requests, RollBack(r) PROVE Kept
  BY <1>3, OrderGoes DEF RollBack
<1>4. ASSUME plan' = plan, req' = req PROVE Kept
  BY <1>4 DEF OrderInv, PlansOrdered, ItemsFit, Checked
<1>5. NextDay \/ UNCHANGED vars => plan' = plan /\ req' = req
  BY DEF NextDay, vars
<1> HIDE DEF Kept
<1>6. Kept
  BY <1>1, <1>2, <1>3, <1>4, <1>5 DEF Next
<1> QED BY <1>6 DEF Kept

LEMMA OrderInvariant == Spec => []OrderInv
<1>1. Init => OrderInv
  BY InitInv, EmptySheet DEF Init, OrderInv, PlansOrdered, NoPlan
<1> QED BY <1>1, OrderStepInv, PTL DEF Spec

\* The instalments of a plan sum to its fee, each of them asks for something,
\* and they are in date order, however many requests write schedules at once.
THEOREM LedgerScheduleAddsUp == Spec => []ScheduleAddsUp
<1>1. OrderInv => ScheduleAddsUp
  BY DEF OrderInv, PlansOrdered, LInv, SchedulesSum, ScheduleAddsUp
<1> QED BY <1>1, OrderInvariant, PTL

-----------------------------------------------------------------------------
(***************************************************************************)
(* The next expected payment, where a void meets no other request that has  *)
(* passed its check of the same plan, and nobody types what is expected.   *)
(***************************************************************************)

\* What is typed need not be an instalment.
NoneTyped == "expect" \notin Operations

\* No void is in flight while another request on its plan has gone beyond its
\* check, as if a void took the plan's lock.
VoidsAlone ==
  \A q, r \in Requests :
    q # r /\ req[q].op = "void" /\ req[r] # Idle /\ Checked(req[r]) => req[q].plan # req[r].plan

InStep ==
  \A p \in Plans :
    plan[p].schedule # <<>> => plan[p].next = NextExpected(plan[p].schedule, Paid(p))

\* The schedule and the total a request will leave.
ScheduleLeft(t) == IF t.op \in {"fee", "schedule"} THEN t.items ELSE plan[t.plan].schedule
PaidLeft(t) ==
  IF t.op = "pay" THEN Paid(t.plan) + t.amount
  ELSE SumFunctionOnSet(Cash(payment), Live(t.plan) \ (IF t.op = "void" THEN {t.key} ELSE {}))

\* A request that may still commit has in hand what they call for.
Calls(t) ==
  t.pc \in {"update", "derive", "commit"} /\ (t.op = "void" \/ t.holds \/ ~ Made(t.plan))
      /\ ScheduleLeft(t) # <<>>
    => t.next = NextExpected(ScheduleLeft(t), PaidLeft(t))

\* A void's copy of it is fresh, and the void writes where it finds another.
Compares(t) ==
  t.op = "void" =>
    /\ t.seenNext = plan[t.plan].next
    /\ t.pc \in {"derive", "commit"} /\ ~ t.holds => t.next = t.seenNext

Foresees(t) == Calls(t) /\ Compares(t)

AllForesee == \A r \in Requests : req[r] # Idle => Foresees(req[r])

StepInv == LInv /\ InStep /\ AllForesee

\* A request still foresees what it did after a step that leaves its plan's
\* row, and the payments counted for it, as they were.
LEMMA ForeseesKept ==
  ASSUME Rows, NEW t, Foresees(t), NEW o, o = t.plan, plan'[o] = plan[o], Live(o)' = Live(o),
         \A k \in Live(o) : payment'[k].amount = payment[k].amount
  PROVE Foresees(t)' /\ Paid(o)' = Paid(o)
<1> DEFINE S == Live(o) \ (IF t.op = "void" THEN {t.key} ELSE {})
<1>1. \A k \in Live(o) : Cash(payment')[k] = Cash(payment)[k] /\ Cash(payment)[k] \in Nat
  <2>1. Live(o) \subseteq Numbers
    BY DEF Live
  <2> QED BY <2>1, LiveSums DEF Cash
<1>2. \A T \in SUBSET Live(o) :
        SumFunctionOnSet(Cash(payment'), T) = SumFunctionOnSet(Cash(payment), T)
  <2> SUFFICES ASSUME NEW T \in SUBSET Live(o)
               PROVE SumFunctionOnSet(Cash(payment'), T) = SumFunctionOnSet(Cash(payment), T)
    OBVIOUS
  <2>1. \A k \in T : Cash(payment')[k] = Cash(payment)[k]
    BY <1>1
  <2>2. IsFiniteSet(T)
    BY LiveSums, FS_Subset
  <2> QED BY <2>1, <2>2, SumSame
<1>3. Paid(o)' = Paid(o)
  BY <1>2, PaidIsSum
<1>4. PaidLeft(t)' = PaidLeft(t)
  <2>1. (Live(t.plan) \ (IF t.op = "void" THEN {t.key} ELSE {}))' = S /\ S \in SUBSET Live(o)
    OBVIOUS
  <2>2. PaidLeft(t)' = IF t.op = "pay" THEN Paid(o)' + t.amount ELSE SumFunctionOnSet(Cash(payment'), S)
    BY <2>1 DEF PaidLeft
  <2>3. PaidLeft(t) = IF t.op = "pay" THEN Paid(o) + t.amount ELSE SumFunctionOnSet(Cash(payment), S)
    BY DEF PaidLeft
  <2> QED BY <1>2, <1>3, <2>1, <2>2, <2>3
<1>5. ScheduleLeft(t)' = ScheduleLeft(t) /\ Made(t.plan)' = Made(t.plan)
  BY DEF ScheduleLeft, Made
<1> QED BY <1>3, <1>4, <1>5 DEF Foresees, Calls, Compares

\* A request that moves on with what it foresees keeps the plans in step.
LEMMA StepGoes ==
  ASSUME StepInv, NEW r \in Requests, NEW u, Goes(r, u), u = Idle \/ Foresees(u)
  PROVE InStep' /\ AllForesee'
<1>1. UNCHANGED <<plan, payment>> /\ \A x \in Requests : req'[x] = IF x = r THEN u ELSE req[x]
  BY DEF Goes, StepInv, LInv, Rows
<1>2. \A p : Live(p)' = Live(p) /\ Paid(p)' = Paid(p)
  BY <1>1, PaidKept
<1>3. \A x : Foresees(x) => Foresees(x)'
  BY <1>1, <1>2, ForeseesKept DEF StepInv, LInv
<1> QED BY <1>1, <1>2, <1>3 DEF StepInv, InStep, AllForesee

\* Every step but the commit: reading the totals finds what is foreseen.
LEMMA StepAdvance ==
  ASSUME NoneTyped, StepInv, NEW r \in Requests, Advance(r), ~ Commit(r)
  PROVE InStep' /\ AllForesee'
<1> DEFINE t == req[r]
<1>1. /\ t # Idle /\ Ticket(t) /\ Stands(t) /\ Foresees(t)
      /\ t.op \in {"pay", "void", "fee", "schedule"}
  <2>1. t.pc \in {"pay", "fee", "schedule", "void", "update", "expect", "sync", "derive"}
    BY DEF Advance, PayCheck, FeeCheck, ScheduleCheck, VoidWrite, VoidUpdate, ExpectCommit, Sync, Derive
  <2>2. t # Idle
    BY <2>1, IdleTicket
  <2> QED BY <2>2, LedgerAssumption DEF StepInv, LInv, AllStand, AllForesee, Ticket, NoneTyped
<1>2. CASE PayCheck(r)
  <2> DEFINE u == [t EXCEPT !.pc = "sync", !.holds = TRUE, !.next = plan[t.plan].next,
                            !.seenStatus = feeStatus]
  <2>1. Goes(r, u) /\ u.pc = "sync" /\ u.op = "pay"
    BY <1>1, <1>2 DEF PayCheck, Ticket, Fields
  <2> HIDE DEF u
  <2> QED BY <2>1, StepGoes DEF Foresees, Calls, Compares
<1>3. CASE ScheduleCheck(r)
  <2> DEFINE u == [t EXCEPT !.pc = "sync", !.holds = TRUE, !.items = ByDate(t.items),
                            !.next = plan[t.plan].next]
  <2>1. Goes(r, u) /\ u.pc = "sync" /\ u.op = "schedule"
    BY <1>1, <1>3 DEF ScheduleCheck, Ticket, Fields
  <2> HIDE DEF u
  <2> QED BY <2>1, StepGoes DEF Foresees, Calls, Compares
<1>4. CASE FeeCheck(r)
  <2> DEFINE p == t.plan
  <2> DEFINE Found(given, amounts, notes, count) ==
       /\ t.items # <<>> => given
       /\ Made(p) /\ t.amount # plan[p].payable => amounts
       /\ given \/ Made(p) => count = 0
       /\ LET s == Rescheduled(p, t.amount, given, t.items, count, amounts) IN
          /\ Scheduled(s, t.amount)
          /\ Goes(r, [t EXCEPT !.pc = IF given \/ amounts \/ ~ Made(p) THEN "sync"
                                      ELSE IF notes THEN "derive" ELSE "commit",
                               !.holds = Made(p), !.items = s, !.next = plan[p].next,
                               !.derives = ~ Made(p) \/ amounts \/ notes])
  <2>1. ASSUME NEW given \in BOOLEAN, NEW amounts \in BOOLEAN, NEW notes \in BOOLEAN,
               NEW count \in 0 .. MaxItems, Found(given, amounts, notes, count)
        PROVE InStep' /\ AllForesee'
    <3> DEFINE pc == IF given \/ amounts \/ ~ Made(p) THEN "sync" ELSE IF notes THEN "derive" ELSE "commit"
               items == Rescheduled(p, t.amount, given, t.items, count, amounts)
               u == [t EXCEPT !.pc = pc, !.holds = Made(p), !.items = items, !.next = plan[p].next,
                              !.derives = ~ Made(p) \/ amounts \/ notes]
    <3>2. Goes(r, u)
      BY <2>1
    <3>3. pc = "sync" \/ items = plan[p].schedule
      BY DEF Rescheduled
    <3> HIDE DEF pc, items
    <3>4. u.pc = pc /\ u.items = items /\ u.next = plan[p].next /\ u.plan = p /\ u.op = t.op
      BY <1>1 DEF Ticket, Fields
    <3>5. t.op = "fee"
      BY <1>1, <1>4 DEF FeeCheck, Ticket
    <3> HIDE DEF u
    <3>6. PaidLeft(u) = Paid(p)
      <4>1. Live(p) \ (IF u.op = "void" THEN {u.key} ELSE {}) = Live(p)
        BY <3>4, <3>5
      <4> QED BY <3>4, <3>5, <4>1, PaidIsSum DEF PaidLeft
    <3>7. Foresees(u)
      BY <1>1, <3>3, <3>4, <3>5, <3>6 DEF Foresees, Calls, Compares, ScheduleLeft, StepInv, InStep, Ticket
    <3> QED BY <3>2, <3>7, StepGoes
  <2>2. \E given, amounts, notes \in BOOLEAN, count \in 0 .. MaxItems :
          Found(given, amounts, notes, count)
    BY <1>4, Zenon DEF FeeCheck
  <2> HIDE DEF Found
  <2> QED BY <2>1, <2>2
<1>5. CASE Sync(r)
  <2> DEFINE p == t.plan
             u == [t EXCEPT !.next = NextOf(r),
                            !.pc = IF t.op = "void" /\ NextOf(r) # t.seenNext THEN "update"
                                   ELSE IF t.derives THEN "derive" ELSE "commit"]
  <2>1. Goes(r, u)
    BY <1>5 DEF Sync
  <2>2. /\ u.next = NextOf(r) /\ u.plan = p /\ u.op = t.op /\ u.items = t.items /\ u.amount = t.amount
        /\ u.holds = t.holds /\ u.key = t.key /\ u.seenNext = t.seenNext
        /\ u.op = "void" /\ u.pc # "update" => u.next = u.seenNext
    BY <1>1 DEF Ticket, Fields
  <2> HIDE DEF u
  <2>3. RowSeenBy(r, p).schedule = ScheduleLeft(u)
    <3>1. RowSeenBy(r, p).schedule = IF t.op \in {"fee", "schedule"} THEN t.items ELSE plan[p].schedule
      BY <1>1, CommitRow DEF StepInv, LInv
    <3> QED BY <1>1, <2>2, <3>1 DEF ScheduleLeft
  <2>4. PaidSeenBy(r, p) = PaidLeft(u)
    BY <2>2, SeenIsSum DEF PaidLeft
  <2>5. Calls(u)
    BY <2>2, <2>3, <2>4 DEF Calls, NextOf
  <2>6. Compares(u)
    BY <1>1, <2>2 DEF Foresees, Compares
  <2> QED BY <2>1, <2>5, <2>6, StepGoes DEF Foresees
<1>6. CASE Derive(r)
  <2>1. PICK status, seen : Goes(r, [t EXCEPT !.pc = "commit", !.status = status, !.seenStatus = seen])
    BY <1>6 DEF Derive
  <2> DEFINE u == [t EXCEPT !.pc = "commit", !.status = status, !.seenStatus = seen]
  <2>2. Goes(r, u) /\ t.pc = "derive"
    BY <1>6, <2>1 DEF Derive
  <2>3. /\ u.next = t.next /\ u.plan = t.plan /\ u.op = t.op /\ u.items = t.items
        /\ u.amount = t.amount /\ u.holds = t.holds /\ u.key = t.key /\ u.seenNext = t.seenNext
    BY <1>1 DEF Ticket, Fields
  <2> HIDE DEF u
  <2>4. ScheduleLeft(u) = ScheduleLeft(t) /\ PaidLeft(u) = PaidLeft(t)
    BY <2>3 DEF ScheduleLeft, PaidLeft
  <2>5. Foresees(u)
    BY <1>1, <2>2, <2>3, <2>4 DEF Foresees, Calls, Compares
  <2> QED BY <2>2, <2>5, StepGoes
<1>7. CASE VoidWrite(r)
  <2> DEFINE u == [t EXCEPT !.pc = "sync"]
  <2>1. Goes(r, u) /\ u.pc = "sync" /\ u.op = t.op /\ u.plan = t.plan /\ u.seenNext = t.seenNext
    BY <1>1, <1>7 DEF VoidWrite, Ticket, Fields
  <2> HIDE DEF u
  <2>2. Foresees(u)
    BY <1>1, <2>1 DEF Foresees, Calls, Compares
  <2> QED BY <2>1, <2>2, StepGoes
<1>8. CASE VoidUpdate(r)
  <2> DEFINE u == [t EXCEPT !.pc = "derive", !.holds = TRUE]
  <2>1. /\ Goes(r, u) /\ u.holds /\ u.op = t.op /\ u.plan = t.plan /\ u.seenNext = t.seenNext
        /\ u.next = t.next /\ u.items = t.items /\ u.amount = t.amount /\ u.key = t.key
        /\ t.pc = "update" /\ t.op = "void"
    BY <1>1, <1>8 DEF VoidUpdate, Ticket, Fields
  <2> HIDE DEF u
  <2>2. ScheduleLeft(u) = ScheduleLeft(t) /\ PaidLeft(u) = PaidLeft(t)
    BY <2>1 DEF ScheduleLeft, PaidLeft
  <2>3. Foresees(u)
    BY <1>1, <2>1, <2>2 DEF Foresees, Calls, Compares
  <2> QED BY <2>1, <2>3, StepGoes
<1>9. ~ ExpectCommit(r)
  BY <1>1 DEF ExpectCommit, Ticket
<1> QED BY <1>2, <1>3, <1>4, <1>5, <1>6, <1>7, <1>8, <1>9 DEF Advance

\* A commit leaves the payments counted for another plan, and their amounts.
LEMMA CommitElsewhere ==
  ASSUME LInv, NEW r \in Requests, Commit(r), NEW o, o # req[r].plan
  PROVE Live(o)' = Live(o) /\ \A k \in Live(o) : payment'[k].amount = payment[k].amount
<1> DEFINE t == req[r]
<1>1. Ticket(t) /\ Stands(t) /\ payment = [k \in Numbers |-> payment[k]]
  BY IdleTicket DEF Commit, LInv, AllStand, Rows
<1>2. Live(o)' = Live(o) \ (IF t.op = "void" THEN {t.key} ELSE {})
  BY CommitTotals DEF LInv
<1>3. t.op = "void" => t.key \notin Live(o)
  BY <1>1 DEF Stands, Live
<1>4. CASE t.op = "pay"
  <2>1. PICK k \in Numbers :
          /\ ~ Recorded(k)
          /\ payment' = [payment EXCEPT ![k] =
               [amount |-> t.amount, plan |-> t.plan, voidedBy |-> Nobody, voidedOn |-> 0]]
    BY <1>4 DEF Commit, FreshNumber, Numbers
  <2> QED BY <1>1, <1>2, <1>4, <2>1 DEF Live
<1>5. CASE t.op = "void"
  <2>1. payment' = [payment EXCEPT ![t.key].voidedBy = r, ![t.key].voidedOn = today]
    BY <1>5 DEF Commit
  <2>2. \A k \in Live(o) : k \in Numbers /\ k # t.key
    BY <1>3, <1>5 DEF Live
  <2>3. \A k \in Numbers : k # t.key => payment'[k] = payment[k]
    BY <1>1, <2>1
  <2>4. Live(o)' = Live(o)
    BY <1>2, <1>3, <1>5
  <2> QED BY <2>2, <2>3, <2>4
<1>6. CASE payment' = payment
  BY <1>6, PaidKept
<1> QED BY <1>4, <1>5, <1>6 DEF Commit

\* The commit writes it, and no other request's plan is touched.
LEMMA StepCommit ==
  ASSUME VoidsAlone, StepInv, NEW r \in Requests, Commit(r)
  PROVE InStep' /\ AllForesee'
<1> DEFINE t == req[r]
<1>1. /\ t # Idle /\ Ticket(t) /\ Stands(t) /\ Foresees(t) /\ t.op \in {"pay", "void", "fee", "schedule"}
      /\ t.pc = "commit" /\ Checked(t) /\ (t.op \in {"pay", "schedule"} => t.holds)
  <2>1. t # Idle /\ t.pc = "commit"
    BY IdleTicket DEF Commit
  <2>2. Ticket(t) /\ Stands(t) /\ Foresees(t)
    BY <2>1 DEF StepInv, LInv, AllStand, AllForesee
  <2>3. t.op \in {"pay", "void", "fee", "schedule"}
    BY DEF Commit
  <2> QED BY <2>1, <2>2, <2>3 DEF Ticket, Checked
<1> PICK p : p = t.plan
  OBVIOUS
<1>2. p \in Plans /\ LInv /\ Rows /\ AllStand
  BY <1>1 DEF StepInv, LInv, Ticket
<1>3. Paid(p)' = PaidLeft(t)
  <2>1. Paid(p)' = PaidSeenBy(r, p)
    BY <1>2, CommitTotals
  <2> QED BY <2>1, SeenIsSum DEF PaidLeft
<1>4. /\ plan'[p] = RowSeenBy(r, p)
      /\ \A o \in Plans : o # p => plan'[o] = plan[o]
  <2>1. plan' = [plan EXCEPT ![p] = RowSeenBy(r, p)] /\ plan = [o \in Plans |-> plan[o]]
    BY <1>2 DEF Commit, Rows
  <2> QED BY <1>2, <2>1
<1>5. plan'[p].schedule = ScheduleLeft(t) /\ plan'[p].next = t.next /\ plan'[p].made
  <2>1. /\ RowSeenBy(r, p).schedule = IF t.op \in {"fee", "schedule"} THEN t.items ELSE plan[p].schedule
        /\ RowSeenBy(r, p).next = IF t.op \in {"fee", "schedule", "pay"} \/ t.holds THEN t.next
                                  ELSE plan[p].next
        /\ RowSeenBy(r, p).made
    BY <1>1, <1>2, CommitRow
  <2>2. t.op = "void" /\ ~ t.holds => t.next = plan[p].next
    BY <1>1 DEF Foresees, Compares
  <2> QED BY <1>1, <1>4, <2>1, <2>2 DEF ScheduleLeft
<1>6. t.op = "void" \/ t.holds \/ ~ Made(p)
  BY <1>1 DEF Commit, MayCommit
<1>7. InStep'
  <2> SUFFICES ASSUME NEW o \in Plans, plan'[o].schedule # <<>>
               PROVE plan'[o].next = NextExpected(plan'[o].schedule, Paid(o)')
    BY DEF InStep
  <2>1. CASE o = p
    BY <1>1, <1>3, <1>5, <1>6, <2>1 DEF Foresees, Calls
  <2>2. CASE o # p
    <3>1. Paid(o)' = Paid(o)
      <4>1. Paid(o)' = PaidSeenBy(r, o) /\ Live(o)' = Live(o)
        BY <1>2, <2>2, CommitTotals, CommitElsewhere
      <4>2. Live(o)' = Live(o) \ (IF t.op = "void" THEN {t.key} ELSE {})
        BY <1>2, <2>2, CommitTotals
      <4>3. PaidSeenBy(r, o) = SumFunctionOnSet(Cash(payment),
                                 Live(o) \ (IF t.op = "void" THEN {t.key} ELSE {}))
        BY <2>2, SeenIsSum
      <4> QED BY <4>1, <4>2, <4>3, PaidIsSum
    <3> QED BY <1>4, <2>2, <3>1 DEF StepInv, InStep
  <2> QED BY <2>1, <2>2
<1>8. AllForesee'
  <2> SUFFICES ASSUME NEW x \in Requests, req[x]' # Idle PROVE Foresees(req[x])'
    BY DEF AllForesee
  <2>1. x # r /\ req'[x] = req[x]
    BY DEF Commit, StepInv, LInv, Rows
  <2> PICK u : u = req[x]
    OBVIOUS
  <2>2. Foresees(u) /\ Ticket(u) /\ Stands(u) /\ u # Idle /\ u.plan \in Plans
    BY <2>1 DEF StepInv, LInv, AllStand, AllForesee, Ticket
  <2>3. u.plan = p => u.op # "void"
    BY <1>1, <2>1 DEF VoidsAlone
  <2>4. u.plan = p => (~ u.holds /\ Made(p)') \/ u.pc \notin {"update", "derive", "commit"}
    <3>1. CASE t.op = "void" /\ u.plan = p
      <4>1. ~ Checked(u)
        BY <2>1, <2>2, <3>1 DEF VoidsAlone
      <4> QED BY <2>2, <4>1, LedgerAssumption DEF Ticket, Checked
    <3>2. u.plan = p /\ t.holds => ~ u.holds
      BY <2>1 DEF StepInv, LInv, LocksApart
    <3>3. u.plan = p /\ ~ t.holds /\ t.op # "void" => ~ u.holds
      BY <1>1, <1>6, <2>2 DEF Stands
    <3> QED BY <1>5, <3>1, <3>2, <3>3 DEF Made
  <2>5. ASSUME u.plan # p PROVE Foresees(u)'
    <3>1. /\ plan'[u.plan] = plan[u.plan] /\ Live(u.plan)' = Live(u.plan)
          /\ \A k \in Live(u.plan) : payment'[k].amount = payment[k].amount
      BY <1>2, <1>4, <2>2, <2>5, CommitElsewhere
    <3> QED BY <1>2, <2>2, <3>1, ForeseesKept
  <2>6. ASSUME u.plan = p PROVE Foresees(u)'
    BY <2>3, <2>4, <2>6 DEF Foresees, Calls, Compares
  <2>7. Foresees(u)'
    BY <2>5, <2>6
  <2> QED BY <2>1, <2>7 DEF Foresees, Calls, Compares, ScheduleLeft, PaidLeft, Made
<1> QED BY <1>7, <1>8

\* Being in step, with what is foreseen, is inductive.
THEOREM StepInvStep == NoneTyped /\ VoidsAlone /\ StepInv /\ [Next]_vars => StepInv'
<1> SUFFICES ASSUME NoneTyped, VoidsAlone, StepInv, [Next]_vars PROVE InStep' /\ AllForesee'
  BY LedgerInvStep DEF StepInv
<1>1. ASSUME NEW r \in Requests, Start(r) PROVE InStep' /\ AllForesee'
  <2>1. PICK op, p, k, amount, items : Begins(r, op, p, k, amount, items)
    BY <1>1 DEF Start, StartPay, StartVoid, StartFee, StartSchedule, StartExpect
  <2> DEFINE u == [op |-> op, pc |-> op, holds |-> FALSE, plan |-> p, amount |-> amount,
                   items |-> items, derives |-> TRUE, key |-> k,
                   seenNext |-> plan[p].next, next |-> plan[p].next,
                   seenStatus |-> feeStatus, status |-> feeStatus]
  <2>2. Goes(r, u) /\ op \in Operations
    BY <2>1 DEF Begins, Goes
  <2>3. Foresees(u)
    BY <2>2, LedgerAssumption DEF Foresees, Calls, Compares
  <2> HIDE DEF u
  <2> QED BY <2>2, <2>3, StepGoes
<1>2. ASSUME NEW r \in Requests, Advance(r) PROVE InStep' /\ AllForesee'
  BY <1>2, StepAdvance, StepCommit
<1>3. ASSUME NEW r \in Requests, RollBack(r) PROVE InStep' /\ AllForesee'
  BY <1>3, StepGoes DEF RollBack
<1>4. CASE NextDay \/ UNCHANGED vars
  <2>1. UNCHANGED <<plan, payment, req>>
    BY <1>4 DEF NextDay, vars
  <2>2. \A o : Live(o)' = Live(o) /\ Paid(o)' = Paid(o)
    BY <2>1, PaidKept
  <2>3. InStep'
    BY <2>1, <2>2 DEF StepInv, InStep
  <2>4. \A x : Foresees(x) => Foresees(x)'
    BY <2>1, <2>2, ForeseesKept DEF StepInv, LInv
  <2>5. AllForesee'
    BY <2>1, <2>4 DEF StepInv, AllForesee
  <2> QED BY <2>3, <2>5
<1> QED BY <1>1, <1>2, <1>3, <1>4 DEF Next

\* What the schedule asks for next is within the balance, and is nothing only
\* when nothing is owed.
LEMMA NextIsBalance ==
  ASSUME OrderInv, NEW p \in Plans, plan[p].schedule # <<>>
  PROVE LET next == NextExpected(plan[p].schedule, Paid(p)) IN
        next.amount <= Balance(p) /\ (next.amount > 0 <=> Balance(p) > 0)
<1> DEFINE s == plan[p].schedule
           next == NextExpected(s, Paid(p))
<1>1. Paid(p) \in Nat /\ plan[p].payable \in Nat
  BY LiveSums DEF OrderInv, LInv, Rows, PlanRow
<1>2. IsSchedule(s) /\ Collectable(s) /\ AmountsOf(s) = plan[p].payable
  BY DEF OrderInv, LInv, SchedulesSum, Scheduled, AddsUp, PlansOrdered, Sheet
<1>3. Balance(p) = plan[p].payable - Paid(p) /\ Balance(p) >= 0
  BY DEF OrderInv, LInv, NeverOverpaid, Balance
<1>4. /\ next.amount \in Nat
      /\ next.amount <= Larger(AmountsOf(s) - Paid(p), 0)
      /\ next.amount > 0 <=> AmountsOf(s) - Paid(p) > 0
  BY <1>1, <1>2, NextWithinOwed
<1>5. Larger(Balance(p), 0) = Balance(p)
  BY <1>1, <1>3 DEF Larger
<1> QED BY <1>1, <1>2, <1>3, <1>4, <1>5

\* The next expected payment of a plan is the first instalment its payments do
\* not cover, within the balance and nothing only when nothing is owed: whatever
\* payments, fees and schedules run at once, as long as no void is in flight on a
\* plan another request is changing.
THEOREM LedgerNextInStep ==
  ASSUME NoneTyped
  PROVE Spec /\ []VoidsAlone => []NextInStep
<1>1. Init => StepInv
  BY InitInv DEF Init, StepInv, InStep, AllForesee, NoPlan
<1>2. VoidsAlone /\ StepInv /\ [Next]_vars => StepInv'
  BY StepInvStep
<1>3. StepInv /\ OrderInv => NextInStep
  BY NextIsBalance DEF StepInv, InStep, NextInStep
<1> QED BY <1>1, <1>2, <1>3, OrderInvariant, PTL DEF Spec

-----------------------------------------------------------------------------
(***************************************************************************)
(* The registration fee, where no void overtakes a payment under its plan.  *)
(***************************************************************************)

\* No payment is being voided of a plan that a payment being recorded has
\* locked, as if a void took the lock too.
VoidsWait ==
  \A q, r \in Requests :
    req[q].op = "void" /\ req[r].op = "pay" /\ req[r].holds => req[q].plan # req[r].plan

\* What the check of a payment found of the registration fee.
Registers(t) ==
  t.op = "pay" /\ Checked(t)
    => Live(t.plan) # {} \/ t.amount >= MinFirst \/ plan[t.plan].payable < MinFirst

FirstInv == LInv /\ \A r \in Requests : req[r] # Idle => Registers(req[r])

\* It still holds once more payments count and the fee is the same.
LEMMA RegistersKept ==
  ASSUME NEW t, Registers(t), NEW o, o = t.plan,
         Live(o) \subseteq Live(o)', plan'[o].payable = plan[o].payable
  PROVE Registers(t)'
<1>1. Live(o) # {} => Live(o)' # {}
  OBVIOUS
<1> QED BY <1>1 DEF Registers, Checked

\* Every step keeps what the checks found.
LEMMA FirstStep ==
  ASSUME VoidsWait, FirstInv, [Next]_vars
  PROVE (\A r \in Requests : req[r] # Idle => Registers(req[r]))'
<1>1. ASSUME NEW r \in Requests, NEW u, Goes(r, u), u = Idle \/ Registers(u)
      PROVE (\A x \in Requests : req[x] # Idle => Registers(req[x]))'
  <2> SUFFICES ASSUME NEW x \in Requests, req'[x] # Idle PROVE Registers(req[x])'
    OBVIOUS
  <2>1. UNCHANGED <<plan, payment>> /\ req'[x] = IF x = r THEN u ELSE req[x]
    BY <1>1 DEF Goes, FirstInv, LInv, Rows
  <2> PICK t : t = req'[x]
    OBVIOUS
  <2>2. Registers(t)
    BY <1>1, <2>1 DEF FirstInv
  <2>3. \A o : Live(o)' = Live(o)
    BY <2>1, PaidKept
  <2>4. Registers(t)'
    BY <2>1, <2>2, <2>3, RegistersKept
  <2> QED BY <2>4 DEF Registers, Checked
<1>2. ASSUME NEW r \in Requests, Start(r)
      PROVE (\A x \in Requests : req[x] # Idle => Registers(req[x]))'
  BY <1>1, <1>2, StartGoes DEF Registers, Checked, FirstInv
<1>3. ASSUME NEW r \in Requests, Advance(r), ~ Commit(r), ~ ExpectCommit(r)
      PROVE (\A x \in Requests : req[x] # Idle => Registers(req[x]))'
  <2>1. /\ req[r] # Idle /\ Ticket(req[r])
        /\ \E u : Goes(r, u) /\ Onward(req[r], u) /\ (req[r].op = "pay" => PayCheck(r) \/ Checked(req[r]))
    BY <1>3, AdvanceGoes DEF FirstInv
  <2>2. PICK u : Goes(r, u) /\ Onward(req[r], u) /\ (req[r].op = "pay" => PayCheck(r) \/ Checked(req[r]))
    BY <2>1
  <2>3. u.op = req[r].op /\ u.plan = req[r].plan /\ u.amount = req[r].amount
    BY <2>2 DEF Onward
  <2>4. PayCheck(r) => Live(u.plan) # {} \/ u.amount >= MinFirst \/ plan[u.plan].payable < MinFirst
    BY <2>3 DEF PayCheck, Acceptable
  <2>5. Registers(u)
    BY <2>1, <2>2, <2>3, <2>4 DEF FirstInv, Registers
  <2> QED BY <1>1, <2>2, <2>5
<1>4. ASSUME NEW r \in Requests, Commit(r) \/ ExpectCommit(r)
      PROVE (\A x \in Requests : req[x] # Idle => Registers(req[x]))'
  <2> SUFFICES ASSUME NEW x \in Requests, req'[x] # Idle PROVE Registers(req[x])'
    OBVIOUS
  <2>1. x # r /\ req'[x] = req[x]
    BY <1>4 DEF Commit, ExpectCommit, FirstInv, LInv, Rows
  <2> PICK t, o : t = req[x] /\ o = t.plan
    OBVIOUS
  <2>2. Registers(t) /\ Ticket(t) /\ t # Idle /\ o \in Plans
    BY <2>1 DEF FirstInv, LInv, AllStand, Ticket
  <2>3. CASE ~ (t.op = "pay" /\ Checked(t))
    BY <2>1, <2>3 DEF Registers, Checked
  <2>4. CASE t.op = "pay" /\ Checked(t) /\ Commit(r)
    <3>1. req[r].op = "void" => o # req[r].plan
      BY <2>1, <2>2, <2>4 DEF VoidsWait, Ticket
    <3>2. Live(o) \subseteq Live(o)'
      <4>1. CASE req[r].op = "pay"
        BY <2>4, <4>1, CommitTotals DEF FirstInv, LInv
      <4>2. CASE req[r].op # "pay"
        <5>1. Live(o)' = Live(o) \ (IF req[r].op = "void" THEN {req[r].key} ELSE {})
          BY <2>4, <4>2, CommitTotals DEF FirstInv, LInv
        <5>2. req[r].op = "void" => payment[req[r].key].plan = req[r].plan
          BY <2>4, IdleTicket DEF FirstInv, LInv, AllStand, Commit, Stands
        <5> QED BY <3>1, <5>1, <5>2 DEF Live
      <4> QED BY <4>1, <4>2
    <3>3. plan'[o].payable = plan[o].payable
      BY <2>1, <2>2, <2>4, CommitSpares, ZenonT(40) DEF FirstInv, Ticket
    <3>4. Registers(t)'
      BY <2>2, <3>2, <3>3, RegistersKept
    <3> QED BY <2>1, <3>4 DEF Registers, Checked
  <2>5. CASE ExpectCommit(r)
    <3>1. payment' = payment /\ plan'[o].payable = plan[o].payable
      <4>1. plan[o] = [payable |-> plan[o].payable, schedule |-> plan[o].schedule,
                       next |-> plan[o].next, made |-> plan[o].made]
        BY <2>2 DEF FirstInv, LInv, Rows, PlanRow
      <4>2. /\ payment' = payment /\ plan = [q \in Plans |-> plan[q]]
            /\ plan' = [plan EXCEPT ![req[r].plan].next = [amount |-> req[r].amount, on |-> req[r].key]]
        BY <2>5 DEF ExpectCommit, FirstInv, LInv, Rows
      <4> QED BY <2>2, <4>1, <4>2
    <3>2. Live(o)' = Live(o)
      BY <3>1, PaidKept
    <3>3. Registers(t)'
      BY <2>2, <3>1, <3>2, RegistersKept
    <3> QED BY <2>1, <3>3 DEF Registers, Checked
  <2> QED BY <1>4, <2>3, <2>4, <2>5
<1>5. ASSUME NEW r \in Requests, RollBack(r)
      PROVE (\A x \in Requests : req[x] # Idle => Registers(req[x]))'
  BY <1>1, <1>5 DEF RollBack
<1>6. CASE NextDay \/ UNCHANGED vars
  <2>1. UNCHANGED <<plan, payment, req>>
    BY <1>6 DEF NextDay, vars
  <2>2. \A o : Live(o)' = Live(o)
    BY <2>1, PaidKept
  <2> QED BY <2>1, <2>2 DEF FirstInv, Registers, Checked
<1> QED BY <1>2, <1>3, <1>4, <1>5, <1>6 DEF Next, Advance

\* Payments and fees change with a commit only.
LEMMA OnlyCommits ==
  ASSUME LInv, [Next]_vars
  PROVE \/ \E r \in Requests : Commit(r)
        \/ payment' = payment /\ \A p \in Plans : plan'[p].payable = plan[p].payable
<1>1. CASE NextDay \/ UNCHANGED vars
  BY <1>1 DEF NextDay, vars
<1>2. ASSUME NEW r \in Requests, Start(r) \/ RollBack(r) \/ (Advance(r) /\ ~ Commit(r) /\ ~ ExpectCommit(r))
      PROVE payment' = payment /\ plan' = plan
  BY <1>2, StartGoes, AdvanceGoes DEF Goes, RollBack
<1>3. ASSUME NEW r \in Requests, ExpectCommit(r)
      PROVE payment' = payment /\ \A p \in Plans : plan'[p].payable = plan[p].payable
  <2> SUFFICES ASSUME NEW p \in Plans PROVE plan'[p].payable = plan[p].payable
    BY <1>3 DEF ExpectCommit
  <2>1. /\ plan = [q \in Plans |-> plan[q]]
        /\ plan[p] = [payable |-> plan[p].payable, schedule |-> plan[p].schedule,
                      next |-> plan[p].next, made |-> plan[p].made]
    BY DEF LInv, Rows, PlanRow
  <2>2. plan' = [plan EXCEPT ![req[r].plan].next = [amount |-> req[r].amount, on |-> req[r].key]]
    BY <1>3 DEF ExpectCommit
  <2> QED BY <2>1, <2>2
<1> QED BY <1>1, <1>2, <1>3 DEF Next

\* The only step that records a payment is a commit of one that was checked.
LEMMA RecordedByCommit ==
  ASSUME LInv, [Next]_vars, NEW k \in Numbers, ~ Recorded(k), Recorded(k)'
  PROVE \E r \in Requests : /\ Commit(r) /\ req[r].op = "pay"
                            /\ payment'[k].plan = req[r].plan /\ payment'[k].amount = req[r].amount
<1>1. payment' # payment
  BY DEF Recorded
<1>2. PICK r \in Requests : Commit(r)
  BY <1>1, OnlyCommits
<1>3. req[r] # Idle /\ Ticket(req[r])
  BY <1>2, IdleTicket DEF Commit, LInv, AllStand
<1>4. payment[k] = [amount |-> payment[k].amount, plan |-> payment[k].plan,
                    voidedBy |-> payment[k].voidedBy, voidedOn |-> payment[k].voidedOn]
      /\ payment = [m \in Numbers |-> payment[m]]
  BY DEF LInv, Rows, PaymentRow
<1>5. req[r].op # "void"
  BY <1>2, <1>4 DEF Commit, Recorded
<1>6. req[r].op = "pay"
  BY <1>1, <1>2, <1>5 DEF Commit
<1>7. PICK m \in Numbers :
        payment' = [payment EXCEPT ![m] = [amount |-> req[r].amount, plan |-> req[r].plan,
                                           voidedBy |-> Nobody, voidedOn |-> 0]]
  BY <1>2, <1>6 DEF Commit
<1>8. k = m
  BY <1>4, <1>7 DEF Recorded
<1> QED BY <1>2, <1>4, <1>6, <1>7, <1>8

\* A payment recorded when none counts is at least the registration fee, or
\* the whole fee is less than that: the check still holds at the commit, as long
\* as no void is at work on the plan meanwhile.
THEOREM LedgerFirstPayment == Spec /\ []VoidsWait => FirstPaymentRegisters
<1>1. Init => FirstInv
  BY InitInv DEF Init, FirstInv
<1>2. VoidsWait /\ FirstInv /\ [Next]_vars => FirstInv'
  BY LedgerInvStep, FirstStep DEF FirstInv
<1>3. FirstInv /\ [Next]_vars =>
        \A k \in Numbers : ~ Recorded(k) /\ Recorded(k)' /\ Live(payment'[k].plan) = {}
          => payment'[k].amount >= MinFirst \/ plan[payment'[k].plan].payable < MinFirst
  <2> SUFFICES ASSUME FirstInv, [Next]_vars, NEW k \in Numbers, ~ Recorded(k), Recorded(k)',
                      Live(payment'[k].plan) = {}
               PROVE payment'[k].amount >= MinFirst \/ plan[payment'[k].plan].payable < MinFirst
    OBVIOUS
  <2>1. PICK r \in Requests : /\ Commit(r) /\ req[r].op = "pay"
                              /\ payment'[k].plan = req[r].plan /\ payment'[k].amount = req[r].amount
    BY RecordedByCommit DEF FirstInv
  <2>2. req[r] # Idle /\ Checked(req[r]) /\ Registers(req[r])
    BY <2>1, IdleTicket DEF Commit, Checked, FirstInv
  <2> QED BY <2>1, <2>2 DEF Registers
<1> QED BY <1>1, <1>2, <1>3, PTL DEF Spec, FirstPaymentRegisters

-----------------------------------------------------------------------------
(***************************************************************************)
(* The payments, where no two requests void one of them at once.           *)
(***************************************************************************)

VoidsApart ==
  \A q, r \in Requests :
    q # r /\ req[q].op = "void" /\ req[r].op = "void" => req[q].key # req[r].key

\* The payment a request voids has not been voided since it was loaded.
FirstVoids(t) == t.op = "void" => payment[t.key].voidedBy = Nobody

KeptInv == LInv /\ \A r \in Requests : req[r] # Idle => FirstVoids(req[r])

\* Every step leaves it so for the requests still in flight.
LEMMA KeptStep ==
  ASSUME VoidsApart, KeptInv, [Next]_vars
  PROVE (\A r \in Requests : req[r] # Idle => FirstVoids(req[r]))'
<1> DEFINE Kept == \A x \in Requests : req'[x] # Idle => FirstVoids(req[x])'
<1>1. ASSUME NEW r \in Requests, NEW u, Goes(r, u), u = Idle \/ FirstVoids(u)
      PROVE Kept
  <2>1. payment' = payment /\ \A x \in Requests : req'[x] = IF x = r THEN u ELSE req[x]
    BY <1>1 DEF Goes, KeptInv, LInv, Rows
  <2> QED BY <1>1, <2>1 DEF KeptInv, FirstVoids
<1>2. ASSUME NEW r \in Requests, Start(r) PROVE Kept
  BY <1>1, <1>2, StartGoes DEF FirstVoids, KeptInv
<1>3. ASSUME NEW r \in Requests, Advance(r), ~ Commit(r), ~ ExpectCommit(r) PROVE Kept
  <2>1. req[r] # Idle /\ \E u : Goes(r, u) /\ Onward(req[r], u)
    BY <1>3, AdvanceGoes DEF KeptInv
  <2>2. PICK u : Goes(r, u) /\ Onward(req[r], u)
    BY <2>1
  <2>3. FirstVoids(u)
    BY <2>1, <2>2 DEF KeptInv, FirstVoids, Onward
  <2> QED BY <1>1, <2>2, <2>3
<1>4. ASSUME NEW r \in Requests, Commit(r) \/ ExpectCommit(r) PROVE Kept
  <2> SUFFICES ASSUME NEW x \in Requests, req'[x] # Idle, req'[x].op = "void"
               PROVE payment'[req'[x].key].voidedBy = Nobody
    BY DEF FirstVoids
  <2>1. x # r /\ req'[x] = req[x]
    BY <1>4 DEF Commit, ExpectCommit, KeptInv, LInv, Rows
  <2> PICK k : k = req[x].key
    OBVIOUS
  <2>2. payment[k].voidedBy = Nobody /\ Recorded(k) /\ k \in Numbers
    BY <2>1 DEF KeptInv, FirstVoids, LInv, AllStand, Stands, Ticket
  <2>3. payment = [m \in Numbers |-> payment[m]]
    BY DEF KeptInv, LInv, Rows
  <2>4. CASE payment' = payment
    BY <2>1, <2>2, <2>4
  <2>5. ASSUME NEW m \in Numbers, NEW row, ~ Recorded(m), payment' = [payment EXCEPT ![m] = row]
        PROVE payment'[k] = payment[k]
    BY <2>2, <2>3, <2>5
  <2>6. CASE Commit(r) /\ req[r].op = "void"
    <3>1. req[r].key # k
      BY <2>1, <2>6 DEF VoidsApart
    <3>2. payment' = [payment EXCEPT ![req[r].key].voidedBy = r, ![req[r].key].voidedOn = today]
      BY <2>6 DEF Commit
    <3>3. payment'[k] = payment[k]
      BY <2>2, <2>3, <3>1, <3>2
    <3> QED BY <2>1, <2>2, <3>3
  <2>7. CASE Commit(r) /\ req[r].op = "pay"
    <3>1. PICK m \in Numbers : /\ ~ Recorded(m)
                               /\ payment' = [payment EXCEPT ![m] =
                                    [amount |-> req[r].amount, plan |-> req[r].plan,
                                     voidedBy |-> Nobody, voidedOn |-> 0]]
      BY <2>7 DEF Commit, FreshNumber, Numbers
    <3>2. payment'[k] = payment[k]
      BY <2>5, <3>1
    <3> QED BY <2>1, <2>2, <3>2
  <2> QED BY <1>4, <2>4, <2>6, <2>7 DEF Commit, ExpectCommit
<1>5. ASSUME NEW r \in Requests, RollBack(r) PROVE Kept
  BY <1>1, <1>5 DEF RollBack
<1>6. ASSUME payment' = payment, req' = req PROVE Kept
  BY <1>6 DEF KeptInv, FirstVoids
<1>7. NextDay \/ UNCHANGED vars => payment' = payment /\ req' = req
  BY DEF NextDay, vars
<1> HIDE DEF Kept
<1>8. Kept
  BY <1>2, <1>3, <1>4, <1>5, <1>6, <1>7 DEF Next, Advance
<1> QED BY <1>8 DEF Kept

\* A payment stays recorded as it was, and once voided for good by whom and
\* when, as long as no two requests void one payment at once.
THEOREM LedgerKeepsPayments == Spec /\ []VoidsApart => LedgerKept
<1>1. KeptInv /\ [Next]_vars =>
        \A k \in Numbers : Recorded(k) =>
          /\ payment'[k].amount = payment[k].amount /\ payment'[k].plan = payment[k].plan
          /\ payment[k].voidedBy # Nobody => payment'[k] = payment[k]
  <2> SUFFICES ASSUME KeptInv, [Next]_vars, NEW k \in Numbers, Recorded(k)
               PROVE /\ payment'[k].amount = payment[k].amount /\ payment'[k].plan = payment[k].plan
                     /\ payment[k].voidedBy # Nobody => payment'[k] = payment[k]
    OBVIOUS
  <2>1. CASE payment' = payment
    BY <2>1
  <2>2. ASSUME NEW r \in Requests, Commit(r), payment' # payment
        PROVE /\ payment'[k].amount = payment[k].amount /\ payment'[k].plan = payment[k].plan
              /\ payment[k].voidedBy # Nobody => payment'[k] = payment[k]
    <3>1. req[r] # Idle /\ Ticket(req[r]) /\ FirstVoids(req[r])
      BY <2>2, IdleTicket DEF Commit, KeptInv, LInv, AllStand
    <3>2. /\ payment = [m \in Numbers |-> payment[m]]
          /\ payment[k] = [amount |-> payment[k].amount, plan |-> payment[k].plan,
                           voidedBy |-> payment[k].voidedBy, voidedOn |-> payment[k].voidedOn]
      BY DEF KeptInv, LInv, Rows, PaymentRow
    <3>3. CASE req[r].op = "pay"
      <4>1. PICK m \in Numbers :
              /\ ~ Recorded(m)
              /\ payment' = [payment EXCEPT ![m] = [amount |-> req[r].amount, plan |-> req[r].plan,
                                                    voidedBy |-> Nobody, voidedOn |-> 0]]
        BY <2>2, <3>3 DEF Commit, FreshNumber, Numbers
      <4> QED BY <3>2, <4>1
    <3>4. CASE req[r].op = "void"
      <4>1. /\ payment' = [payment EXCEPT ![req[r].key].voidedBy = r, ![req[r].key].voidedOn = today]
            /\ req[r].key \in Numbers /\ payment[req[r].key].voidedBy = Nobody
        BY <2>2, <3>1, <3>4 DEF Commit, Ticket, FirstVoids
      <4>2. CASE k = req[r].key
        <5> PICK old : old = payment[k]
          OBVIOUS
        <5>1. /\ payment'[k] = [old EXCEPT !.voidedBy = r, !.voidedOn = today]
              /\ old = [amount |-> old.amount, plan |-> old.plan,
                        voidedBy |-> old.voidedBy, voidedOn |-> old.voidedOn]
          BY <3>2, <4>1, <4>2
        <5>2. payment'[k].amount = old.amount /\ payment'[k].plan = old.plan
          BY <5>1
        <5> QED BY <4>1, <4>2, <5>2
      <4>3. CASE k # req[r].key
        BY <3>2, <4>1, <4>3
      <4> QED BY <4>2, <4>3
    <3> QED BY <2>2, <3>3, <3>4 DEF Commit
  <2> QED BY <2>1, <2>2, OnlyCommits DEF KeptInv
<1>2. Init => KeptInv
  BY InitInv DEF Init, KeptInv
<1>3. VoidsApart /\ KeptInv /\ [Next]_vars => KeptInv'
  BY LedgerInvStep, KeptStep DEF KeptInv
<1> QED BY <1>1, <1>2, <1>3, PTL DEF Spec, LedgerKept

-----------------------------------------------------------------------------
(***************************************************************************)
(* The status, where no two requests are in flight at once.                *)
(***************************************************************************)

OneInFlight == \A q, r \in Requests : req[q] # Idle /\ req[r] # Idle => q = r

\* What a request loaded is still so.
Fresh(t) ==
  /\ t.seenStatus = feeStatus
  /\ ~ t.derives => t.op = "fee" /\ t.amount = plan[t.plan].payable

\* The status in hand is that of the ledger the request will leave.
Derived(r) ==
  req[r].pc = "commit" /\ req[r].derives =>
    \E on \in 1 .. today :
      req[r].status = StatusOf([p \in Plans |-> RowSeenBy(r, p)],
                               [p \in Plans |-> PaidSeenBy(r, p)], on)

AloneInv == LInv /\ \A r \in Requests : req[r] # Idle => Fresh(req[r]) /\ Derived(r)

\* What a request sees depends on what it has in hand, its status aside.
LEMMA SeenKept ==
  ASSUME UNCHANGED <<plan, payment>>, NEW r, NEW t, t = req[r], NEW u, u = req'[r],
         u.op = t.op, u.plan = t.plan, u.amount = t.amount, u.key = t.key, u.items = t.items,
         u.next = t.next, u.holds = t.holds
  PROVE \A p : RowSeenBy(r, p)' = RowSeenBy(r, p) /\ PaidSeenBy(r, p)' = PaidSeenBy(r, p)
<1> SUFFICES ASSUME NEW p
             PROVE RowSeenBy(r, p)' = RowSeenBy(r, p) /\ PaidSeenBy(r, p)' = PaidSeenBy(r, p)
  OBVIOUS
<1>1. RowSeenBy(r, p)' = RowSeenBy(r, p)
  BY DEF RowSeenBy, Fee
<1>2. Live(p)' = Live(p) /\ Paid(p)' = Paid(p)
  BY PaidKept
<1> DEFINE S == Live(p) \ (IF t.op = "void" THEN {t.key} ELSE {})
<1>3. PaidSeenBy(r, p) = IF t.op = "pay" /\ p = t.plan THEN Paid(p) + t.amount
                         ELSE MapThenSumSet(LAMBDA k : payment[k].amount, S)
  BY DEF PaidSeenBy, Sum
<1>4. PaidSeenBy(r, p)' = IF t.op = "pay" /\ p = t.plan THEN Paid(p) + t.amount
                          ELSE MapThenSumSet(LAMBDA k : payment[k].amount, S)
  BY <1>2 DEF PaidSeenBy, Sum, MapThenSumSet, MapThenFoldSet
<1> QED BY <1>1, <1>3, <1>4

\* Deriving reads the rows and the totals the commit will leave.
LEMMA DerivesStatus ==
  ASSUME LInv, NEW r \in Requests, Derive(r)
  PROVE Derived(r)'
<1> DEFINE t == req[r]
           rows == [p \in Plans |-> RowSeenBy(r, p)]
           totals == [p \in Plans |-> PaidSeenBy(r, p)]
<1>1. t # Idle /\ Ticket(t)
  BY IdleTicket DEF Derive, LInv, AllStand
<1>2. PICK seen : Goes(r, [t EXCEPT !.pc = "commit", !.status = StatusOf(rows, totals, today),
                                    !.seenStatus = seen])
  BY DEF Derive
<1> PICK status : status = StatusOf(rows, totals, today)
  OBVIOUS
<1> DEFINE u == [t EXCEPT !.pc = "commit", !.status = status, !.seenStatus = seen]
<1>3. Goes(r, u) /\ req'[r] = u /\ UNCHANGED <<plan, payment, today>>
  BY <1>2 DEF Goes, LInv, Rows
<1>4. /\ u.op = t.op /\ u.plan = t.plan /\ u.amount = t.amount /\ u.key = t.key /\ u.items = t.items
      /\ u.next = t.next /\ u.holds = t.holds /\ u.status = status
  BY <1>1 DEF Ticket, Fields
<1> HIDE DEF u
<1>5. \A p : RowSeenBy(r, p)' = RowSeenBy(r, p) /\ PaidSeenBy(r, p)' = PaidSeenBy(r, p)
  BY <1>3, <1>4, SeenKept
<1>6. [p \in Plans |-> RowSeenBy(r, p)]' = rows /\ [p \in Plans |-> PaidSeenBy(r, p)]' = totals
  BY <1>5
<1>7. today \in 1 .. today' /\ req'[r].status = StatusOf(rows, totals, today)
  BY <1>3, <1>4 DEF LInv, Rows
<1> QED BY <1>6, <1>7 DEF Derived

\* Nothing a request loaded changes before it ends.
LEMMA AloneStep ==
  ASSUME OneInFlight, OneInFlight', AloneInv, [Next]_vars
  PROVE (\A r \in Requests : req[r] # Idle => Fresh(req[r]) /\ Derived(r))'
<1> SUFFICES ASSUME NEW r \in Requests, req'[r] # Idle PROVE Fresh(req[r])' /\ Derived(r)'
  OBVIOUS
<1>1. ASSUME NEW x \in Requests, x # r, Start(x) \/ Advance(x) \/ RollBack(x)
      PROVE FALSE
  <2>1. ASSUME NEW u, Goes(x, u) PROVE req'[r] = req[r] /\ u = Idle
    BY <1>1, <2>1 DEF Goes, AloneInv, LInv, Rows, OneInFlight
  <2>2. ~ Start(x)
    <3>1. \A u : u.op \in Operations => u # Idle
      BY LedgerAssumption DEF Idle
    <3> QED BY <2>1, <3>1, StartGoes DEF AloneInv
  <2>3. req[x] # Idle => req'[r] # req[r]
    BY <1>1 DEF OneInFlight
  <2>4. ~ RollBack(x)
    BY <2>1, <2>3 DEF RollBack
  <2>5. ~ Commit(x) /\ ~ ExpectCommit(x)
    <3>1. Commit(x) \/ ExpectCommit(x) => req[x] # Idle
      BY IdleTicket DEF Commit, ExpectCommit
    <3>2. Commit(x) \/ ExpectCommit(x) => req'[r] = req[r]
      BY <1>1 DEF Commit, ExpectCommit, AloneInv, LInv, Rows
    <3> QED BY <2>3, <3>1, <3>2
  <2>6. Advance(x) => req[x] # Idle /\ \E u : Goes(x, u)
    BY <2>5, AdvanceGoes DEF AloneInv
  <2> QED BY <1>1, <2>1, <2>2, <2>3, <2>4, <2>6
<1>2. ASSUME NEW u, Goes(r, u), Fresh(u), u.pc = "commit" => ~ u.derives \/ Derive(r)
      PROVE Fresh(req[r])' /\ Derived(r)'
  <2>1. req'[r] = u /\ UNCHANGED <<plan, payment, feeStatus>>
    BY <1>2 DEF Goes, AloneInv, LInv, Rows
  <2>2. Fresh(req[r])'
    BY <1>2, <2>1 DEF Fresh
  <2>3. Derive(r) => Derived(r)'
    BY DerivesStatus DEF AloneInv
  <2>4. ~ Derive(r) => Derived(r)'
    BY <1>2, <2>1 DEF Derived
  <2> QED BY <2>2, <2>3, <2>4
<1>3. CASE Start(r)
  <2>1. PICK u : /\ Goes(r, u) /\ u.pc = u.op /\ u.derives /\ u.seenStatus = feeStatus
                 /\ u.op \in Operations
                 /\ u.op = "void" => payment[u.key].voidedBy = Nobody
    BY <1>3, StartGoes DEF AloneInv
  <2>2. u.pc # "commit"
    BY <2>1, LedgerAssumption
  <2> QED BY <1>2, <2>1, <2>2 DEF Fresh
<1>4. CASE Advance(r) /\ ~ Commit(r) /\ ~ ExpectCommit(r)
  <2> DEFINE t == req[r]
  <2>1. t # Idle
    BY <1>4, AdvanceGoes DEF AloneInv
  <2>2. PICK u : /\ Goes(r, u) /\ Onward(t, u)
                 /\ u.pc = "commit" => ~ u.derives \/ Derive(r)
                 /\ ~ u.derives => ~ t.derives \/ (t.op = "fee" /\ t.amount = plan[t.plan].payable)
                 /\ t.seenStatus = feeStatus => u.seenStatus = feeStatus
    <3>1. \E u : /\ Goes(r, u) /\ Onward(t, u)
                 /\ u.pc = "commit" => ~ u.derives \/ Derive(r)
                 /\ ~ u.derives => ~ t.derives \/ (t.op = "fee" /\ t.amount = plan[t.plan].payable)
                 /\ t.seenStatus = feeStatus => u.seenStatus = feeStatus
      BY <1>4, AdvanceGoes DEF AloneInv
    <3> QED BY <3>1
  <2>3. Fresh(t)
    BY <2>1 DEF AloneInv
  <2>4. Fresh(u)
    BY <2>2, <2>3 DEF Fresh, Onward
  <2> QED BY <1>2, <2>2, <2>4
<1>5. ~ Commit(r) /\ ~ ExpectCommit(r) /\ ~ RollBack(r)
  BY DEF Commit, ExpectCommit, RollBack, Goes, AloneInv, LInv, Rows
<1>6. CASE NextDay \/ UNCHANGED vars
  <2>1. UNCHANGED <<plan, payment, feeStatus, req>> /\ today \in 1 .. MaxDay /\ today' \in Nat /\ today' >= today
    BY <1>6, LedgerAssumption DEF NextDay, vars, AloneInv, LInv, Rows
  <2>2. Fresh(req[r]) /\ Derived(r)
    BY <2>1 DEF AloneInv
  <2>3. Fresh(req[r])'
    BY <2>1, <2>2 DEF Fresh
  <2>4. \A p : RowSeenBy(r, p)' = RowSeenBy(r, p) /\ PaidSeenBy(r, p)' = PaidSeenBy(r, p)
    <3> PICK t : t = req[r] /\ t = req'[r]
      BY <2>1
    <3> QED BY <2>1, SeenKept
  <2>5. \A on \in 1 .. today : on \in 1 .. today'
    BY <2>1
  <2>6. Derived(r)'
    BY <2>1, <2>2, <2>4, <2>5 DEF Derived
  <2> QED BY <2>3, <2>6
<1> QED BY <1>1, <1>3, <1>4, <1>5, <1>6 DEF Next

\* This much is inductive, one request after the other.
LEMMA AloneInvariant ==
  (Init => AloneInv) /\ (OneInFlight /\ OneInFlight' /\ AloneInv /\ [Next]_vars => AloneInv')
<1>1. Init => AloneInv
  BY InitInv DEF Init, AloneInv
<1>2. OneInFlight /\ OneInFlight' /\ AloneInv /\ [Next]_vars => AloneInv'
  BY LedgerInvStep, AloneStep DEF AloneInv
<1> QED BY <1>1, <1>2

\* A step that changes what is owed or paid leaves the status the ledger
\* comes to, as of the day it was derived, as long as requests, however many,
\* come one after the other.
THEOREM LedgerStatusFollows == Spec /\ []OneInFlight => StatusFollowsLedger
<1>1. AloneInv /\ [Next]_vars =>
        ((payment' # payment \/ \E p \in Plans : plan'[p].payable # plan[p].payable)
           => \E on \in 1 .. MaxDay : on <= today /\ feeStatus' = Ledger(on)')
  <2> SUFFICES ASSUME AloneInv, [Next]_vars,
                      payment' # payment \/ \E p \in Plans : plan'[p].payable # plan[p].payable
               PROVE \E on \in 1 .. MaxDay : on <= today /\ feeStatus' = Ledger(on)'
    OBVIOUS
  <2>1. PICK r \in Requests : Commit(r)
    BY OnlyCommits DEF AloneInv
  <2> DEFINE t == req[r]  p == t.plan
  <2>2. t # Idle /\ Ticket(t) /\ Stands(t) /\ Fresh(t) /\ Derived(r) /\ p \in Plans /\ t.pc = "commit"
    BY <2>1, IdleTicket DEF Commit, AloneInv, LInv, AllStand, Ticket
  <2>3. plan' = [q \in Plans |-> RowSeenBy(r, q)]
    <3>1. plan' = [plan EXCEPT ![p] = RowSeenBy(r, p)] /\ plan = [q \in Plans |-> plan[q]]
      BY <2>1 DEF Commit, AloneInv, LInv, Rows
    <3>2. \A q \in Plans : q # p => RowSeenBy(r, q) = plan[q]
      BY DEF RowSeenBy
    <3>3. \A q \in Plans : plan'[q] = RowSeenBy(r, q)
      BY <2>2, <3>1, <3>2
    <3>4. plan' = [q \in Plans |-> plan'[q]]
      BY <2>2, <3>1
    <3> QED BY <3>3, <3>4
  <2>4. [q \in Plans |-> Paid(q)]' = [q \in Plans |-> PaidSeenBy(r, q)]
    <3>1. \A q : Paid(q)' = PaidSeenBy(r, q)
      BY <2>1, CommitTotals DEF AloneInv, LInv
    <3> QED BY <3>1
  <2>5. t.derives
    <3> SUFFICES ASSUME ~ t.derives PROVE FALSE
      OBVIOUS
    <3>1. t.op = "fee" /\ t.amount = plan[p].payable
      BY <2>2 DEF Fresh
    <3>2. payment' = payment
      BY <2>1, <3>1 DEF Commit
    <3>3. RowSeenBy(r, p).payable = plan[p].payable
      BY <2>2, <3>1, CommitRow DEF AloneInv, LInv
    <3>4. \A q \in Plans : plan'[q].payable = plan[q].payable
      BY <2>3, <3>3 DEF RowSeenBy
    <3> QED BY <3>2, <3>4
  <2>6. feeStatus' = t.status
    BY <2>1, <2>2, <2>5 DEF Commit, Changes, Fresh
  <2>7. PICK on \in 1 .. today :
          t.status = StatusOf([q \in Plans |-> RowSeenBy(r, q)], [q \in Plans |-> PaidSeenBy(r, q)], on)
    BY <2>2, <2>5 DEF Derived
  <2>8. Ledger(on)' = StatusOf(plan', [q \in Plans |-> Paid(q)]', on)
    BY DEF Ledger
  <2>9. on \in 1 .. MaxDay /\ on <= today
    BY LedgerAssumption DEF AloneInv, LInv, Rows
  <2> QED BY <2>3, <2>4, <2>6, <2>7, <2>8, <2>9
<1> QED BY <1>1, AloneInvariant, PTL DEF Spec, StatusFollowsLedger
==============================================================================
