------------------------------ MODULE ExamProofs ------------------------------
(***************************************************************************)
(* Proofs about Exam, for any number of requests and attempts, any papers  *)
(* and any marks.                                                          *)
(***************************************************************************)
EXTENDS Exam, Sums

Answers(n) == [Places(n) -> AnswerRow \cup {NoAnswer}]

\* A mark for one written answer, or none.
MarkFor(n, mark) == mark \in [q: Places(n) \cup {0}, value: Marks]

\* What a request has in hand at each of its statements.
Ticket(t) ==
  /\ t.pc \in {"idle", "look", "count", "insert", "save", "write", "close", "mark", "grade", "update"}
  /\ t.pc = "idle" => t = Idle
  /\ t.pc = "look" => t.op = "start" /\ t.n \in 0 .. MaxAttempts
  /\ t.pc = "count" => t.op = "start"
  /\ t.pc = "insert" => t.op = "start" /\ t.used \in Nat /\ t.used + 1 \in Numbers
  /\ t.pc = "save" => t.op = "save" /\ t.n \in Numbers
  /\ t.pc = "write" => /\ t.op = "save" /\ t.n \in Numbers /\ t.q \in Places(t.n)
                       /\ t.row \in AnswerRow /\ t.given \in Given
  /\ t.pc = "close" => t.op \in {"start", "close"} /\ t.n \in Numbers
  /\ t.pc = "mark" => t.op = "mark" /\ t.n \in Numbers /\ MarkFor(t.n, t.mark)
  /\ t.pc = "grade" => t.op \in {"start", "close", "mark"} /\ t.n \in Numbers /\ MarkFor(t.n, t.mark)
  /\ t.pc = "update" =>
       /\ t = [op |-> t.op, pc |-> t.pc, n |-> t.n, mark |-> t.mark, at |-> t.at,
               read |-> t.read, holds |-> t.holds]
       /\ t.op \in {"start", "close", "mark"} /\ t.n \in Numbers /\ MarkFor(t.n, t.mark)
       /\ t.at \in Nat

\* Attempts are numbered from 1, a start that has counted them has counted no
\* more than there are, and nobody is at work on one that is not there.
Numbered == \E k \in 0 .. MaxAttempts : Sat = 1 .. k
OnSat(t) ==
  /\ t.pc = "insert" => t.used = 0 \/ t.used \in Sat
  /\ t.pc = "look" => t.n = 0 \/ t.n \in Sat
  /\ t.pc \in {"save", "write", "close", "mark", "grade", "update"} => t.n \in Sat
AllOnSat == \A r \in Requests : OnSat(req[r])
ManualOnSat == \A n \in Numbers : \A q \in Places(n) : answer[n][q].manual => n \in Sat

TInv ==
  /\ attempt = [n \in Numbers |-> attempt[n]]
  /\ answer = [n \in Numbers |-> answer[n]]
  /\ req = [r \in Requests |-> req[r]]
  /\ \A n \in Numbers : attempt[n].status \in AttemptStatuses
  /\ \A n \in Numbers : answer[n] \in Answers(n)
  /\ late \subseteq Sat
  /\ Numbered
  /\ \A r \in Requests : Ticket(req[r])
  /\ AllOnSat /\ ManualOnSat

\* The last of the numbers from 1 is the largest.
LEMMA LastOfNumbers ==
  ASSUME NEW k \in Nat \ {0}
  PROVE Max(1 .. k) = k /\ 1 .. k # {}
<1>1. Max(1 .. k) = CHOOSE x \in 1 .. k : \A y \in 1 .. k : x >= y
  BY DEF Max
<1>2. k \in 1 .. k /\ \A y \in 1 .. k : k >= y
  OBVIOUS
<1>3. \A x \in 1 .. k : (\A y \in 1 .. k : x >= y) => x = k
  BY <1>2
<1> QED BY <1>1, <1>2, <1>3

\* The latest attempt is the last of them.
LEMMA LatestIsLast ==
  ASSUME NEW k \in Nat, Sat = 1 .. k
  PROVE Latest = k /\ Cardinality(Sat) = k
<1>1. Cardinality(Sat) = k
  <2>1. Cardinality(1 .. k) = IF 1 <= k THEN k - 1 + 1 ELSE 0
    BY FS_Interval
  <2> QED BY <2>1
<1>2. CASE k = 0
  BY <1>1, <1>2 DEF Latest
<1>3. CASE k # 0
  BY <1>1, <1>3, LastOfNumbers DEF Latest
<1> QED BY <1>2, <1>3

\* The fields of the fixed rows.
LEMMA Rows ==
  /\ NoAnswer.manual = FALSE /\ NoAnswer.given = "none"
  /\ Blank \in AnswerRow /\ NoAnswer \notin AnswerRow
  /\ NoAttempt.status = "none" /\ Started.status = "in_progress"
  /\ Idle.pc = "idle" /\ Idle.op = "none"
  /\ 0 \in Marks
<1>1. Blank \in AnswerRow /\ NoAnswer \notin AnswerRow
  BY DEF Blank, NoAnswer, AnswerRow, Given
<1> QED BY <1>1, ExamAssumption DEF NoAnswer, NoAttempt, Started, Idle, Marks

\* Nobody has sat at the start.
LEMMA InitTInv == Init => TInv
<1> SUFFICES ASSUME Init PROVE TInv
  OBVIOUS
<1>1. Sat = {}
  BY DEF Init, Sat
<1>2. Numbered
  <2>1. 0 \in 0 .. MaxAttempts /\ 1 .. 0 = {}
    BY ExamAssumption
  <2> QED BY <1>1, <2>1 DEF Numbered
<1>3. \A r \in Requests : Ticket(req[r])
  BY Rows DEF Init, Ticket
<1>4. \A n \in Numbers : answer[n] \in Answers(n) /\ attempt[n].status \in AttemptStatuses
  BY Rows DEF Init, Answers, AttemptStatuses
<1>5. AllOnSat /\ ManualOnSat
  BY Rows DEF Init, AllOnSat, OnSat, ManualOnSat
<1> QED BY <1>2, <1>3, <1>4, <1>5 DEF Init, TInv

-----------------------------------------------------------------------------
(***************************************************************************)
(* Every step keeps the rows typed and the attempts numbered.              *)
(***************************************************************************)

\* A request that goes on to a statement with what it needs keeps the shape.
LEMMA GoesTInv ==
  ASSUME TInv, NEW r \in Requests, NEW t, Goes(r, t), Ticket(t),
         OnSat(t)
  PROVE TInv'
<1>1. \A x \in Requests : req'[x] = IF x = r THEN t ELSE req[x]
  BY DEF TInv, Goes
<1>2. Sat' = Sat /\ late' = late /\ attempt' = attempt /\ answer' = answer
  BY DEF Sat, Goes
<1>3. req' = [x \in Requests |-> req'[x]]
  BY DEF TInv, Goes
<1>4. \A x \in Requests : Ticket(req'[x])
  BY <1>1 DEF TInv
<1>5. AllOnSat' /\ ManualOnSat'
  BY <1>1, <1>2 DEF TInv, AllOnSat, OnSat, ManualOnSat
<1>6. Numbered'
  BY <1>2 DEF TInv, Numbered
<1> QED BY <1>2, <1>3, <1>4, <1>5, <1>6 DEF TInv

\* A start that reached its end adds the next attempt, and no other.
LEMMA InsertTInv ==
  ASSUME TInv, NEW r \in Requests, StartInsert(r)
  PROVE TInv' /\ Sat' = Sat \cup {req[r].used + 1} /\ Sat = 1 .. req[r].used
<1> DEFINE n == req[r].used + 1
<1>1. /\ req[r].pc = "insert" /\ attempt[n] = NoAttempt /\ answer' = answer /\ late' = late
      /\ attempt' = [attempt EXCEPT ![n] = Started] /\ req' = [req EXCEPT ![r] = Idle]
  BY DEF StartInsert, Ends
<1>2. req[r].used \in Nat /\ n \in Numbers /\ n \notin Sat
  BY <1>1 DEF TInv, Ticket, Sat
<1>3. Sat' = Sat \cup {n}
  <2>1. Started # NoAttempt
    BY Rows
  <2> QED BY <1>1, <1>2, <2>1 DEF TInv, Sat
<1>4. PICK k \in 0 .. MaxAttempts : Sat = 1 .. k
  BY DEF TInv, Numbered
<1>5. k = req[r].used
  <2>1. req[r].used = 0 \/ req[r].used \in Sat
    BY <1>1 DEF TInv, AllOnSat, OnSat
  <2> QED BY <1>2, <1>4, <2>1, ExamAssumption DEF Numbers
<1>6. Numbered'
  <2>1. n \in 0 .. MaxAttempts /\ Sat' = 1 .. n
    BY <1>2, <1>3, <1>4, <1>5, ExamAssumption DEF Numbers
  <2> QED BY <2>1 DEF Numbered
<1>7. \A x \in Requests : req'[x] = IF x = r THEN Idle ELSE req[x]
  BY <1>1 DEF TInv
<1>8. \A x \in Requests : Ticket(req'[x])
  BY <1>7, Rows DEF TInv, Ticket
<1>9. AllOnSat' /\ ManualOnSat'
  BY <1>1, <1>3, <1>7, Rows DEF TInv, AllOnSat, OnSat, ManualOnSat
<1>10. \A m \in Numbers : attempt'[m].status \in AttemptStatuses
  BY <1>1, <1>2, Rows DEF TInv, AttemptStatuses
<1>11. attempt' = [m \in Numbers |-> attempt'[m]] /\ req' = [x \in Requests |-> req'[x]]
  BY <1>1 DEF TInv
<1> QED BY <1>1, <1>3, <1>4, <1>5, <1>6, <1>8, <1>9, <1>10, <1>11 DEF TInv

\* Saving writes one answer.
LEMMA SaveWriteTInv ==
  ASSUME TInv, NEW r \in Requests, SaveWrite(r)
  PROVE TInv'
<1> DEFINE t == req[r]
<1>1. /\ t.n \in Numbers /\ t.q \in Places(t.n) /\ t.row \in AnswerRow /\ t.given \in Given
      /\ answer' = [answer EXCEPT ![t.n][t.q] = [t.row EXCEPT !.given = t.given]]
      /\ req' = [req EXCEPT ![r] = Idle] /\ late' = late /\ attempt' = attempt
  BY DEF SaveWrite, Ends, TInv, Ticket
<1>2. [t.row EXCEPT !.given = t.given] \in AnswerRow
  BY <1>1 DEF AnswerRow
<1>3. \A n \in Numbers : answer'[n] \in Answers(n)
  BY <1>1, <1>2 DEF TInv, Answers
<1>4. \A x \in Requests : req'[x] = IF x = r THEN Idle ELSE req[x]
  BY <1>1 DEF TInv
<1>5. \A x \in Requests : Ticket(req'[x])
  BY <1>4, Rows DEF TInv, Ticket
<1>6. Sat' = Sat /\ Numbered'
  BY <1>1 DEF TInv, Numbered, Sat
<1>7. AllOnSat'
  BY <1>4, <1>6, Rows DEF TInv, AllOnSat, OnSat
<1>8. answer' = [n \in Numbers |-> answer'[n]] /\ req' = [x \in Requests |-> req'[x]]
  BY <1>1 DEF TInv
<1>9. ManualOnSat'
  <2>1. t.n \in Sat
    BY DEF SaveWrite, TInv, AllOnSat, OnSat
  <2>2. \A n \in Numbers : n # t.n => answer'[n] = answer[n]
    BY <1>1 DEF TInv
  <2> QED BY <1>6, <2>1, <2>2 DEF TInv, ManualOnSat
<1> QED BY <1>1, <1>3, <1>5, <1>6, <1>7, <1>8, <1>9 DEF TInv

\* What marking writes to an answer is an answer.
LEMMA GradedIsRow ==
  ASSUME NEW n \in Numbers, NEW q \in Places(n), NEW seen,
         NEW row \in AnswerRow \cup {NoAnswer}, NEW mark, MarkFor(n, mark)
  PROVE Graded(n, q, seen, row, mark) \in AnswerRow /\ Graded(n, q, seen, row, mark).given = Found(row).given
<1>1. Found(row) \in AnswerRow
  BY Rows DEF Found
<1>2. Worth(Found(seen).given) \in {-1, 1, 0} /\ 0 \in Marks /\ mark.value \in Marks
  BY Rows DEF Worth, MarkFor
<1>3. WithMark(Found(row), q, mark) \in AnswerRow /\ WithMark(Found(row), q, mark).given = Found(row).given
  BY <1>1, <1>2 DEF WithMark, AnswerRow
<1> QED BY <1>1, <1>2, <1>3 DEF Graded, AnswerRow

\* Marking writes the answers of one attempt, and closes it.
LEMMA GradeCommitTInv ==
  ASSUME TInv, NEW r \in Requests, GradeCommit(r)
  PROVE /\ TInv' /\ late' = late /\ req' = [req EXCEPT ![r] = Idle] /\ req[r].n \in Numbers
        /\ \A m \in Numbers : m # req[r].n => attempt'[m] = attempt[m] /\ answer'[m] = answer[m]
        /\ attempt'[req[r].n].status \in Closed
        /\ \A q \in Places(req[r].n) :
             /\ answer'[req[r].n][q] \in AnswerRow
             /\ answer'[req[r].n][q].given = Found(answer[req[r].n][q]).given
<1> DEFINE t == req[r]
           rows == [q \in Places(t.n) |-> Graded(t.n, q, t.read[q], answer[t.n][q], t.mark)]
           row == [status |-> IF Pending(t.n, t.read) THEN "submitted" ELSE "graded",
                   total |-> TotalOf(t.n, t.read)]
<1>1. /\ t.pc = "update" /\ req' = [req EXCEPT ![r] = Idle] /\ late' = late
      /\ answer' = [answer EXCEPT ![t.n] = rows] /\ attempt' = [attempt EXCEPT ![t.n] = row]
  BY DEF GradeCommit, Ends
<1>2. t.n \in Numbers /\ MarkFor(t.n, t.mark)
  BY <1>1 DEF TInv, Ticket
<1>3. answer[t.n] \in Answers(t.n)
  BY <1>2 DEF TInv
<1>4. \A q \in Places(t.n) : rows[q] \in AnswerRow /\ rows[q].given = Found(answer[t.n][q]).given
  BY <1>2, <1>3, GradedIsRow DEF Answers
<1>5. rows \in Answers(t.n)
  BY <1>4 DEF Answers
<1>6. row.status \in Closed
  BY DEF Closed
<1> HIDE DEF rows, row
<1>7. \A m \in Numbers : /\ attempt'[m] = IF m = t.n THEN row ELSE attempt[m]
                         /\ answer'[m] = IF m = t.n THEN rows ELSE answer[m]
  BY <1>1 DEF TInv
<1>8. t.n \in Sat
  BY <1>1 DEF TInv, AllOnSat, OnSat
<1>9. Sat' = Sat
  BY <1>6, <1>7, <1>8, Rows DEF Sat, Closed
<1>10. \A x \in Requests : req'[x] = IF x = r THEN Idle ELSE req[x]
  BY <1>1 DEF TInv
<1>11. \A x \in Requests : Ticket(req'[x])
  BY <1>10, Rows DEF TInv, Ticket
<1>12. AllOnSat'
  BY <1>9, <1>10, Rows DEF TInv, AllOnSat, OnSat
<1>13. ManualOnSat'
  BY <1>7, <1>8, <1>9 DEF TInv, ManualOnSat
<1>14. \A m \in Numbers : attempt'[m].status \in AttemptStatuses /\ answer'[m] \in Answers(m)
  BY <1>5, <1>6, <1>7 DEF TInv, AttemptStatuses
<1>15. /\ answer' = [n \in Numbers |-> answer'[n]] /\ req' = [x \in Requests |-> req'[x]]
       /\ attempt' = [n \in Numbers |-> attempt'[n]]
  BY <1>1 DEF TInv
<1>16. Numbered' /\ late' \subseteq Sat'
  BY <1>1, <1>9 DEF TInv, Numbered
<1>17. TInv'
  BY <1>11, <1>12, <1>13, <1>14, <1>15, <1>16 DEF TInv
<1> QED BY <1>1, <1>2, <1>4, <1>6, <1>7, <1>17

-----------------------------------------------------------------------------

\* Every other step of a request takes it from one statement to the next, or
\* ends it, and touches nothing else.
GoesOn(r) ==
  \/ StartLock(r) \/ StartCount(r) \/ StartLost(r) \/ SaveRead(r) \/ CloseWrite(r)
  \/ MarkWrite(r) \/ GradeRead(r) \/ GradeUpdate(r) \/ RollBack(r)

(* The mark of an answer nobody marked is one any answer may bear. *)
LEMMA NoMarkIsMark == ASSUME NEW n PROVE MarkFor(n, NoMark)
  BY Rows DEF MarkFor, NoMark

(* A request that is done has no copies to be wrong. *)
LEMMA IdleTicket == Ticket(Idle) /\ (TInv => OnSat(Idle))
  BY Rows DEF Ticket, OnSat

\* A request that comes to grade_attempt has what marking needs.
LEMMA GradesTInv ==
  ASSUME TInv, NEW r \in Requests, NEW n \in Sat, NEW mark, MarkFor(n, mark), NEW holds,
         req[r].op \in {"start", "close", "mark"}, Grades(r, n, mark, holds)
  PROVE TInv'
<1> DEFINE t == [op |-> req[r].op, pc |-> "grade", n |-> n, mark |-> mark, holds |-> holds]
<1>1. Ticket(t) /\ OnSat(t)
  BY DEF Ticket, OnSat, Sat
<1>2. Goes(r, t)
  BY DEF Grades
<1> QED BY <1>1, <1>2, GoesTInv

(* A request that begins keeps the types: what it loads are rows. *)
LEMMA LoadTInv ==
  ASSUME TInv, NEW r \in Requests, Load(r)
  PROVE TInv'
<1>1. CASE StartLook(r)
  <2> DEFINE t == [op |-> "start", pc |-> "look", n |-> Latest, holds |-> {}]
  <2>1. Goes(r, t)
    BY <1>1 DEF StartLook, Starts, Goes
  <2>2. PICK k \in 0 .. MaxAttempts : Sat = 1 .. k
    BY DEF TInv, Numbered
  <2>3. Latest = k
    BY <2>2, LatestIsLast
  <2>4. Ticket(t) /\ OnSat(t)
    BY <2>2, <2>3 DEF Ticket, OnSat
  <2> QED BY <2>1, <2>4, GoesTInv
<1>2. ASSUME NEW n \in Numbers, NEW op \in {"save", "close"}, LoadAttempt(r, op, n) PROVE TInv'
  <2> DEFINE t == [op |-> op, pc |-> op, n |-> n, open |-> InProgress(n), holds |-> {}]
  <2>1. Goes(r, t) /\ n \in Sat
    BY <1>2 DEF LoadAttempt, Starts, Goes
  <2>2. Ticket(t) /\ OnSat(t)
    BY <2>1, <1>2 DEF Ticket, OnSat
  <2> QED BY <2>1, <2>2, GoesTInv
<1>3. ASSUME NEW n \in Numbers, NEW value \in Marks, NEW q \in Written(n), LoadAnswer(r, n, q, value)
      PROVE TInv'
  <2> DEFINE mark == [q |-> q, value |-> value]
             t == [op |-> "mark", pc |-> "mark", n |-> n, mark |-> mark, holds |-> {}]
  <2>1. Goes(r, t) /\ answer[n][q].manual
    BY <1>3 DEF LoadAnswer, Starts, Goes
  <2>2. n \in Sat /\ MarkFor(n, mark)
    BY <2>1 DEF TInv, ManualOnSat, Written, MarkFor
  <2> HIDE DEF mark
  <2>3. Ticket(t) /\ OnSat(t)
    BY <2>2 DEF Ticket, OnSat
  <2> QED BY <2>1, <2>3, GoesTInv
<1> QED BY <1>1, <1>2, <1>3 DEF Load

\* A marking goes on to the next answer with all it has in hand.
LEMMA NextAnswer ==
  ASSUME NEW t, Ticket(t), t.pc = "update", OnSat(t), NEW holds
  PROVE LET u == [t EXCEPT !.at = @ + 1, !.holds = holds]
        IN Ticket(u) /\ OnSat(u) /\ u.pc = t.pc /\ u.op = t.op /\ u.n = t.n
<1> DEFINE at == t.at + 1
           u == [t EXCEPT !.at = at, !.holds = holds]
           D == [op: {t.op}, pc: {t.pc}, n: {t.n}, mark: {t.mark}, at: {t.at, at}, read: {t.read},
                 holds: {t.holds, holds}]
<1>1. t \in D /\ t.at \in Nat
  BY DEF Ticket
<1>2. at \in Nat
  BY <1>1
<1> HIDE DEF at
<1>3. u \in D
  BY <1>1
<1> HIDE DEF u
<1>4. /\ u = [op |-> u.op, pc |-> u.pc, n |-> u.n, mark |-> u.mark, at |-> u.at, read |-> u.read,
              holds |-> u.holds]
      /\ u.op = t.op /\ u.pc = t.pc /\ u.n = t.n /\ u.mark = t.mark /\ u.at \in Nat
  BY <1>1, <1>2, <1>3
<1>5. Ticket(u) /\ OnSat(u)
  BY <1>4 DEF Ticket, OnSat
<1> QED BY <1>4, <1>5 DEF u, at

(* Every further step of a request keeps the types. *)
LEMMA GoesOnTInv ==
  ASSUME TInv, NEW r \in Requests, GoesOn(r)
  PROVE TInv' /\ UNCHANGED <<attempt, answer, late>>
<1> DEFINE t == req[r]
<1>0. UNCHANGED <<attempt, answer, late>>
  BY DEF GoesOn, StartLock, StartCount, StartLost, SaveRead, CloseWrite, MarkWrite, GradeRead,
         GradeUpdate, RollBack, Grades, Goes
<1> SUFFICES TInv'
  BY <1>0
<1>1. Ticket(t) /\ OnSat(t)
  BY DEF TInv, AllOnSat
<1>2. PICK k \in 0 .. MaxAttempts : Sat = 1 .. k
  BY DEF TInv, Numbered
<1>3. Latest = k /\ Cardinality(Sat) = k
  BY <1>2, LatestIsLast
<1>4. ASSUME Goes(r, Idle) PROVE TInv'
  BY <1>4, IdleTicket, GoesTInv
<1>5. CASE StartLock(r)
  <2> DEFINE held == IF t.n = 0 THEN {} ELSE {<<t.n, 0>>}
  <2>1. t.op = "start" /\ (t.n = 0 \/ t.n \in Sat)
    BY <1>1, <1>5 DEF StartLock, Ticket, OnSat
  <2>2. CASE Grades(r, t.n, NoMark, held) /\ Resumes(t.n)
    <3>1. t.n \in Sat
      BY <2>1, <2>2 DEF Resumes
    <3> QED BY <2>1, <2>2, <3>1, NoMarkIsMark, GradesTInv
  <2>3. CASE Goes(r, [op |-> "start", pc |-> "count", holds |-> held])
    <3>1. Ticket([op |-> "start", pc |-> "count", holds |-> held])
      BY DEF Ticket
    <3>2. OnSat([op |-> "start", pc |-> "count", holds |-> held])
      BY DEF OnSat
    <3> QED BY <2>3, <3>1, <3>2, GoesTInv
  <2> QED BY <1>4, <1>5, <2>2, <2>3 DEF StartLock
<1>6. CASE StartCount(r)
  <2> DEFINE u == [op |-> "start", pc |-> "insert", used |-> Cardinality(Sat), holds |-> t.holds]
  <2>1. Ticket(u) /\ OnSat(u)
    BY <1>2, <1>3, <1>6, ExamAssumption DEF StartCount, Ticket, OnSat, Numbers
  <2>2. Goes(r, u)
    BY <1>6 DEF StartCount
  <2> QED BY <2>1, <2>2, GoesTInv
<1>7. CASE StartLost(r)
  <2> DEFINE u == [op |-> "start", pc |-> "close", n |-> Latest, open |-> TRUE, holds |-> t.holds]
  <2>1. k # 0
    <3>1. t.used + 1 \in Sat
      BY <1>1, <1>7 DEF StartLost, Ticket, Sat
    <3> QED BY <1>2, <3>1
  <2>2. Latest \in Sat /\ Latest \in Numbers
    BY <1>2, <1>3, <2>1, ExamAssumption DEF Numbers
  <2>3. Ticket(u) /\ OnSat(u)
    BY <2>2 DEF Ticket, OnSat
  <2>4. CASE Goes(r, u)
    BY <2>3, <2>4, GoesTInv
  <2> QED BY <1>4, <1>7, <2>4 DEF StartLost
<1>8. CASE SaveRead(r)
  <2>1. t.n \in Sat /\ t.n \in Numbers
    BY <1>1, <1>8 DEF SaveRead, Ticket, OnSat
  <2>2. PICK q \in Places(t.n) : \E given \in MayGive(Paper[t.n][q]) :
          Goes(r, [op |-> "save", pc |-> "write", n |-> t.n, q |-> q, given |-> given,
                   row |-> Found(answer[t.n][q]),
                   holds |-> IF answer[t.n][q] = NoAnswer THEN {<<t.n, q>>} ELSE {}])
    BY <1>8 DEF SaveRead
  <2>3. PICK given \in MayGive(Paper[t.n][q]) :
          Goes(r, [op |-> "save", pc |-> "write", n |-> t.n, q |-> q, given |-> given,
                   row |-> Found(answer[t.n][q]),
                   holds |-> IF answer[t.n][q] = NoAnswer THEN {<<t.n, q>>} ELSE {}])
    BY <2>2
  <2> DEFINE u == [op |-> "save", pc |-> "write", n |-> t.n, q |-> q, given |-> given,
                   row |-> Found(answer[t.n][q]),
                   holds |-> IF answer[t.n][q] = NoAnswer THEN {<<t.n, q>>} ELSE {}]
  <2>4. given \in Given
    BY DEF MayGive, Given
  <2>5. Found(answer[t.n][q]) \in AnswerRow
    BY <2>1, Rows DEF TInv, Answers, Found
  <2>6. Ticket(u) /\ OnSat(u)
    BY <2>1, <2>4, <2>5 DEF Ticket, OnSat
  <2> QED BY <2>3, <2>6, GoesTInv
<1>9. CASE CloseWrite(r)
  <2>1. t.n \in Sat /\ t.op \in {"start", "close", "mark"}
    BY <1>1, <1>9 DEF CloseWrite, Ticket, OnSat
  <2>2. Grades(r, t.n, NoMark, t.holds \cup {<<t.n, 0>>})
    BY <1>9 DEF CloseWrite
  <2> QED BY <2>1, <2>2, NoMarkIsMark, GradesTInv
<1>10. CASE MarkWrite(r)
  <2>1. t.n \in Sat /\ t.op \in {"start", "close", "mark"} /\ MarkFor(t.n, t.mark)
    BY <1>1, <1>10 DEF MarkWrite, Ticket, OnSat
  <2>2. Grades(r, t.n, t.mark, {<<t.n, t.mark.q>>})
    BY <1>10 DEF MarkWrite
  <2> QED BY <2>1, <2>2, GradesTInv
<1>11. CASE GradeRead(r)
  <2> DEFINE u == [op |-> t.op, pc |-> "update", n |-> t.n, mark |-> t.mark, at |-> 1,
                   read |-> [q \in Places(t.n) |-> WithMark(answer[t.n][q], q, t.mark)],
                   holds |-> t.holds]
  <2>1. t.n \in Sat /\ t.n \in Numbers /\ t.op \in {"start", "close", "mark"} /\ MarkFor(t.n, t.mark)
    BY <1>1, <1>11 DEF GradeRead, Ticket, OnSat
  <2>2. Ticket(u) /\ OnSat(u)
    BY <2>1 DEF Ticket, OnSat
  <2>3. Goes(r, u)
    BY <1>11 DEF GradeRead
  <2> QED BY <2>2, <2>3, GoesTInv
<1>12. CASE GradeUpdate(r)
  <2>1. t.pc = "update" /\ Goes(r, [t EXCEPT !.at = @ + 1, !.holds = @ \cup Locked(t)])
    BY <1>12 DEF GradeUpdate
  <2> QED BY <1>1, <2>1, NextAnswer, GoesTInv
<1> QED BY <1>4, <1>5, <1>6, <1>7, <1>8, <1>9, <1>10, <1>11, <1>12 DEF GoesOn, RollBack

\* Time runs out on an attempt, and nothing else happens.
LEMMA TimeUpTInv ==
  ASSUME TInv, NEW n \in Numbers, TimeUp(n)
  PROVE TInv' /\ UNCHANGED <<attempt, answer, req>>
<1>1. n \in Sat /\ late' = late \cup {n} /\ UNCHANGED <<attempt, answer, req>>
  BY Rows DEF TimeUp, InProgress, Sat
<1>2. Sat' = Sat
  BY <1>1 DEF Sat
<1> QED BY <1>1, <1>2 DEF TInv, Numbered, AllOnSat, OnSat, ManualOnSat

\* What a step of Next can be.
LEMMA StepsOf ==
  ASSUME Next
  PROVE \/ \E r \in Requests : Load(r) \/ GoesOn(r) \/ StartInsert(r) \/ SaveWrite(r) \/ GradeCommit(r)
        \/ \E n \in Numbers : TimeUp(n)
  BY DEF Next, Sit, Mark, GoesOn

(* TInv is inductive. *)
LEMMA NextTInv == TInv /\ [Next]_vars => TInv'
<1> SUFFICES ASSUME TInv, [Next]_vars PROVE TInv'
  OBVIOUS
<1>1. CASE UNCHANGED vars
  BY <1>1 DEF vars, TInv, Numbered, AllOnSat, OnSat, ManualOnSat, Sat
<1>2. CASE Next
  BY <1>2, StepsOf, LoadTInv, GoesOnTInv, InsertTInv, SaveWriteTInv, GradeCommitTInv, TimeUpTInv
<1> QED BY <1>1, <1>2

(* TInv holds at all times. *)
LEMMA AlwaysTInv == Spec => []TInv
  BY InitTInv, NextTInv, PTL DEF Spec

\* At any time rows hold what their columns can hold, and the attempts on an
\* exam are numbered 1, 2, ... as start_attempt counts them.
THEOREM ExamTyped == Spec => []TypeOK
<1>1. TInv => TypeOK
  <2> SUFFICES ASSUME TInv PROVE TypeOK
    OBVIOUS
  <2>1. PICK k \in 0 .. MaxAttempts : Sat = 1 .. k
    BY DEF TInv, Numbered
  <2>2. Latest = k
    BY <2>1, LatestIsLast
  <2> QED BY <2>1, <2>2 DEF TInv, TypeOK, Answers
<1> QED BY <1>1, AlwaysTInv, PTL

-----------------------------------------------------------------------------
(***************************************************************************)
(* With the unsafe pairs apart.  Requests that may not overlap do not, and *)
(* what a request has read of the attempts is still so when it acts on it. *)
(***************************************************************************)

Apart == \A r, p \in Requests :
  r # p /\ req[r] # Idle /\ req[p] # Idle => {req[r].op, req[p].op} \notin NeverOverlap

IsClosed(n) == attempt[n].status \in Closed
NoneInProgress == \A n \in Numbers : ~ InProgress(n)

Fits(t) ==
  /\ t.pc = "look" => t.n = Latest
  /\ t.pc = "count" => NoneInProgress
  /\ t.pc = "insert" /\ attempt[t.used + 1] = NoAttempt => NoneInProgress
  /\ t.pc = "save" /\ t.open => InProgress(t.n)
  /\ t.pc = "write" => InProgress(t.n) /\ ~ t.row.manual
  /\ t.op = "mark" => IsClosed(t.n)
AllFit == \A r \in Requests : Fits(req[r])

\* Only the latest attempt is under way; only closed ones have been marked by
\* hand, and they have all their answers.
LatestOnly == \A n \in Numbers : InProgress(n) => n = Latest
ManualClosed == \A n \in Numbers : \A q \in Places(n) : answer[n][q].manual => IsClosed(n)
ClosedAnswered == \A n \in Numbers : \A q \in Places(n) : IsClosed(n) => answer[n][q] \in AnswerRow

\* A step leaves what is handed in as it is.
HandedInKept ==
  \A n \in Numbers : attempt[n].status \in Closed =>
    /\ attempt'[n].status \in Closed
    /\ \A q \in Places(n) : answer'[n][q].given = answer[n][q].given

SitInv == TInv /\ Apart /\ AllFit /\ LatestOnly /\ ManualClosed /\ ClosedAnswered

(* Nobody sits and nobody asks at first. *)
LEMMA InitSitInv == Init => SitInv
<1> SUFFICES ASSUME Init PROVE SitInv
  OBVIOUS
<1>1. AllFit /\ Apart
  BY Rows DEF Init, AllFit, Apart, Fits
<1>2. \A n \in Numbers : ~ InProgress(n) /\ ~ IsClosed(n)
  BY Rows DEF Init, InProgress, IsClosed, Closed
<1>3. ManualClosed
  BY Rows DEF Init, ManualClosed
<1> QED BY <1>1, <1>2, <1>3, InitTInv DEF SitInv, LatestOnly, ClosedAnswered

\* The operations the assumption keeps apart.
LEMMA TwoApart ==
  ASSUME SitInv, UnsafePairs \subseteq NeverOverlap, NEW r \in Requests, NEW p \in Requests, r # p,
         req[r] # Idle, req[p] # Idle
  PROVE ~ (req[r].op = "save" /\ req[p].op \in {"start", "close"})
<1>1. {req[r].op, req[p].op} \notin UnsafePairs
  BY DEF SitInv, Apart
<1> QED BY <1>1 DEF UnsafePairs

(* A request that is done fits any rows. *)
LEMMA IdleFits == Fits(Idle)
  BY Rows DEF Fits

\* A request goes on with what fits the attempts as they are.
LEMMA GoesSitInv ==
  ASSUME SitInv, TInv', NEW r \in Requests, NEW t, Goes(r, t), Fits(t),
         \/ t = Idle
         \/ t.op = req[r].op /\ req[r] # Idle
         \/ MayOverlap(r, t.op)
  PROVE SitInv'
<1>1. \A x \in Requests : req'[x] = IF x = r THEN t ELSE req[x]
  BY DEF TInv, SitInv, Goes
<1>2. attempt' = attempt /\ answer' = answer
  BY DEF Goes
<1>3. AllFit'
  BY <1>1, <1>2 DEF SitInv, AllFit, Fits, NoneInProgress, InProgress, IsClosed, Latest, Sat
<1>4. Apart'
  BY <1>1 DEF SitInv, Apart, MayOverlap
<1>5. LatestOnly' /\ ManualClosed' /\ ClosedAnswered'
  BY <1>2 DEF SitInv, LatestOnly, ManualClosed, ClosedAnswered, InProgress, IsClosed, Latest, Sat
<1> QED BY <1>3, <1>4, <1>5 DEF SitInv

(* A request that begins has read what is there, and begins only beside those it may overlap. *)
LEMMA LoadSitInv ==
  ASSUME SitInv, NEW r \in Requests, Load(r)
  PROVE SitInv'
<1>0. TInv' /\ TInv
  BY LoadTInv DEF SitInv
<1>1. CASE StartLook(r)
  <2> DEFINE t == [op |-> "start", pc |-> "look", n |-> Latest, holds |-> {}]
  <2>1. Goes(r, t) /\ MayOverlap(r, t.op)
    BY <1>1 DEF StartLook, Starts, Goes
  <2>2. Fits(t)
    BY DEF Fits
  <2> QED BY <1>0, <2>1, <2>2, GoesSitInv
<1>2. ASSUME NEW n \in Numbers, NEW op \in {"save", "close"}, LoadAttempt(r, op, n) PROVE SitInv'
  <2> DEFINE t == [op |-> op, pc |-> op, n |-> n, open |-> InProgress(n), holds |-> {}]
  <2>1. Goes(r, t) /\ MayOverlap(r, t.op)
    BY <1>2 DEF LoadAttempt, Starts, Goes
  <2>2. Fits(t)
    BY <1>2 DEF Fits
  <2> QED BY <1>0, <2>1, <2>2, GoesSitInv
<1>3. ASSUME NEW n \in Numbers, NEW value \in Marks, NEW q \in Written(n), LoadAnswer(r, n, q, value)
      PROVE SitInv'
  <2> DEFINE t == [op |-> "mark", pc |-> "mark", n |-> n, mark |-> [q |-> q, value |-> value], holds |-> {}]
  <2>1. Goes(r, t) /\ MayOverlap(r, t.op) /\ answer[n][q].manual
    BY <1>3 DEF LoadAnswer, Starts, Goes
  <2>2. IsClosed(n)
    BY <2>1 DEF SitInv, ManualClosed, Written
  <2>3. Fits(t)
    BY <2>2 DEF Fits
  <2> QED BY <1>0, <2>1, <2>3, GoesSitInv
<1> QED BY <1>1, <1>2, <1>3 DEF Load

\* Marking starts on a closed attempt when it is a marker's.
LEMMA GradesSitInv ==
  ASSUME SitInv, TInv', NEW r \in Requests, NEW n, NEW mark, NEW holds,
         req[r] # Idle, Grades(r, n, mark, holds), req[r].op = "mark" => IsClosed(n)
  PROVE SitInv'
<1> DEFINE t == [op |-> req[r].op, pc |-> "grade", n |-> n, mark |-> mark, holds |-> holds]
<1>1. Fits(t) /\ t.op = req[r].op
  BY DEF Fits
<1>2. Goes(r, t)
  BY DEF Grades
<1> QED BY <1>1, <1>2, GoesSitInv

(* Every further step but an insert, a save and the commit of a grading keeps SitInv. *)
LEMMA GoesOnSitInv ==
  ASSUME SitInv, NEW r \in Requests, GoesOn(r)
  PROVE SitInv'
<1> DEFINE t == req[r]
<1>0. TInv' /\ TInv
  BY GoesOnTInv DEF SitInv
<1>1. Ticket(t) /\ Fits(t)
  BY DEF SitInv, TInv, AllFit
<1>2. ASSUME Goes(r, Idle) PROVE SitInv'
  BY <1>0, <1>2, IdleFits, GoesSitInv
<1>3. t.pc # "idle" => t # Idle
  BY Rows
<1>4. CASE StartLock(r)
  <2> DEFINE held == IF t.n = 0 THEN {} ELSE {<<t.n, 0>>}
  <2>1. t.op = "start" /\ t # Idle /\ t.n = Latest
    BY <1>1, <1>3, <1>4 DEF StartLock, Ticket, Fits
  <2>2. CASE Grades(r, t.n, NoMark, held)
    BY <1>0, <2>1, <2>2, GradesSitInv
  <2>3. CASE Goes(r, [op |-> "start", pc |-> "count", holds |-> held]) /\ ~ Resumes(t.n)
    <3> DEFINE u == [op |-> "start", pc |-> "count", holds |-> held]
    <3>1. NoneInProgress
      BY <2>1, <2>3, ExamAssumption DEF SitInv, LatestOnly, Resumes, Numbers, NoneInProgress
    <3>2. Fits(u) /\ u.op = t.op
      BY <2>1, <3>1 DEF Fits
    <3> QED BY <1>0, <2>1, <2>3, <3>2, GoesSitInv
  <2> QED BY <1>2, <1>4, <2>2, <2>3 DEF StartLock
<1>5. CASE StartCount(r)
  <2> DEFINE u == [op |-> "start", pc |-> "insert", used |-> Cardinality(Sat), holds |-> t.holds]
  <2>1. Goes(r, u) /\ t.op = "start" /\ t # Idle
    BY <1>1, <1>3, <1>5 DEF StartCount, Ticket
  <2>2. Fits(u) /\ u.op = t.op
    BY <1>1, <1>5, <2>1 DEF StartCount, Fits
  <2> QED BY <1>0, <2>1, <2>2, GoesSitInv
<1>6. CASE StartLost(r)
  <2> DEFINE u == [op |-> "start", pc |-> "close", n |-> Latest, open |-> TRUE, holds |-> t.holds]
  <2>1. t.op = "start" /\ t # Idle
    BY <1>1, <1>3, <1>6 DEF StartLost, Ticket
  <2>2. Fits(u) /\ u.op = t.op
    BY <2>1 DEF Fits
  <2>3. CASE Goes(r, u)
    BY <1>0, <2>1, <2>2, <2>3, GoesSitInv
  <2> QED BY <1>2, <1>6, <2>3 DEF StartLost
<1>7. CASE SaveRead(r)
  <2>1. t.n \in Numbers /\ t.op = "save" /\ t # Idle /\ t.pc = "save" /\ t.open
    BY <1>1, <1>3, <1>7 DEF SaveRead, Ticket, MaySave
  <2>2. PICK q \in Places(t.n) : \E given \in MayGive(Paper[t.n][q]) :
          Goes(r, [op |-> "save", pc |-> "write", n |-> t.n, q |-> q, given |-> given,
                   row |-> Found(answer[t.n][q]),
                   holds |-> IF answer[t.n][q] = NoAnswer THEN {<<t.n, q>>} ELSE {}])
    BY <1>7 DEF SaveRead
  <2>3. PICK given \in MayGive(Paper[t.n][q]) :
          Goes(r, [op |-> "save", pc |-> "write", n |-> t.n, q |-> q, given |-> given,
                   row |-> Found(answer[t.n][q]),
                   holds |-> IF answer[t.n][q] = NoAnswer THEN {<<t.n, q>>} ELSE {}])
    BY <2>2
  <2> DEFINE u == [op |-> "save", pc |-> "write", n |-> t.n, q |-> q, given |-> given,
                   row |-> Found(answer[t.n][q]),
                   holds |-> IF answer[t.n][q] = NoAnswer THEN {<<t.n, q>>} ELSE {}]
  <2>4. InProgress(t.n) /\ ~ IsClosed(t.n)
    BY <1>1, <2>1 DEF Fits, InProgress, IsClosed, Closed
  <2>5. ~ Found(answer[t.n][q]).manual
    BY <2>1, <2>4 DEF SitInv, ManualClosed, Found, Blank
  <2>6. Fits(u) /\ u.op = t.op
    BY <2>1, <2>4, <2>5 DEF Fits
  <2> QED BY <1>0, <2>1, <2>3, <2>6, GoesSitInv
<1>8. CASE CloseWrite(r)
  <2>1. t # Idle /\ t.op # "mark" /\ Grades(r, t.n, NoMark, t.holds \cup {<<t.n, 0>>})
    BY <1>1, <1>3, <1>8 DEF CloseWrite, Ticket
  <2> QED BY <1>0, <2>1, GradesSitInv
<1>9. CASE MarkWrite(r)
  <2>1. t # Idle /\ IsClosed(t.n) /\ Grades(r, t.n, t.mark, {<<t.n, t.mark.q>>})
    BY <1>1, <1>3, <1>9 DEF MarkWrite, Ticket, Fits
  <2> QED BY <1>0, <2>1, GradesSitInv
<1>10. CASE GradeRead(r)
  <2> DEFINE u == [op |-> t.op, pc |-> "update", n |-> t.n, mark |-> t.mark, at |-> 1,
                   read |-> [q \in Places(t.n) |-> WithMark(answer[t.n][q], q, t.mark)],
                   holds |-> t.holds]
  <2>1. Goes(r, u) /\ t # Idle
    BY <1>3, <1>10 DEF GradeRead
  <2>2. Fits(u) /\ u.op = t.op
    BY <1>1 DEF Fits
  <2> QED BY <1>0, <2>1, <2>2, GoesSitInv
<1>11. CASE GradeUpdate(r)
  <2> DEFINE u == [t EXCEPT !.at = @ + 1, !.holds = @ \cup Locked(t)]
  <2>1. t.pc = "update" /\ t # Idle /\ Goes(r, u) /\ OnSat(t)
    BY <1>0, <1>3, <1>11 DEF GradeUpdate, TInv, AllOnSat
  <2>2. u.pc = "update" /\ u.op = t.op /\ u.n = t.n
    BY <1>1, <2>1, NextAnswer
  <2> HIDE DEF u
  <2>3. Fits(u)
    BY <1>1, <2>2 DEF Fits
  <2> QED BY <1>0, <2>1, <2>2, <2>3, GoesSitInv
<1> QED BY <1>2, <1>4, <1>5, <1>6, <1>7, <1>8, <1>9, <1>10, <1>11 DEF GoesOn, RollBack

\* No other start has yet to count when one inserts; one that has counted will
\* find its number taken; what the others have read still fits.
LEMMA InsertSitInv ==
  ASSUME SitInv, ~ StartsOvertake, NEW r \in Requests, StartInsert(r)
  PROVE SitInv'
<1> DEFINE n == req[r].used + 1
<1>0. TInv /\ TInv' /\ Sat' = Sat \cup {n} /\ Sat = 1 .. req[r].used
  BY InsertTInv DEF SitInv
<1>1. /\ req[r].pc = "insert" /\ attempt[n] = NoAttempt /\ answer' = answer
      /\ attempt' = [attempt EXCEPT ![n] = Started] /\ req' = [req EXCEPT ![r] = Idle]
  BY DEF StartInsert, Ends
<1>2. /\ req[r].used \in Nat /\ n \in Numbers /\ req[r].op = "start" /\ req[r] # Idle
      /\ \A m \in Numbers : ~ InProgress(m)
  BY <1>0, <1>1, Rows DEF TInv, Ticket, SitInv, AllFit, Fits, NoneInProgress
<1>3. \A m \in Numbers : attempt'[m] = IF m = n THEN Started ELSE attempt[m]
  BY <1>0, <1>1 DEF TInv
<1>4. \A m \in Numbers : /\ InProgress(m)' <=> m = n
                         /\ IsClosed(m) <=> IsClosed(m)'
  BY <1>1, <1>2, <1>3, Rows DEF InProgress, IsClosed, Closed
<1>5. Latest' = n
  <2>1. Sat' = 1 .. n
    BY <1>0, <1>2
  <2>2. n \in Nat \ {0}
    BY <1>2
  <2> QED BY <2>1, <2>2, LastOfNumbers DEF Latest
<1>6. \A x \in Requests : req'[x] = IF x = r THEN Idle ELSE req[x]
  BY <1>0, <1>1 DEF TInv
<1>7. AllFit'
  <2> SUFFICES ASSUME NEW x \in Requests PROVE Fits(req[x])'
    BY DEF AllFit
  <2>1. CASE x = r
    BY <1>6, <2>1, Rows DEF Fits
  <2>2. CASE x # r
    <3>1. Ticket(req[x]) /\ Fits(req[x]) /\ req'[x] = req[x]
      BY <1>0, <1>6, <2>2 DEF TInv, SitInv, AllFit
    <3>2. req[x].pc \notin {"look", "count"}
      BY <2>2 DEF StartInsert
    <3>6. req[x].pc = "insert" => attempt'[req[x].used + 1] # NoAttempt
      <4> SUFFICES ASSUME req[x].pc = "insert" PROVE attempt'[req[x].used + 1] # NoAttempt
        OBVIOUS
      <4>1. req[x].used \in Nat /\ (req[x].used = 0 \/ req[x].used \in 1 .. req[r].used)
        BY <1>0, <3>1 DEF TInv, AllOnSat, OnSat, Ticket
      <4>2. req[x].used + 1 \in 1 .. n
        BY <1>2, <4>1
      <4>3. 1 .. n = Sat'
        BY <1>0, <1>2
      <4> QED BY <4>2, <4>3 DEF Sat
    <3>3. req[x].pc = "write" => req[x].n \in Numbers
      BY <3>1 DEF Ticket
    <3>4. req[x].pc = "save" => req[x].n \in Numbers
      BY <3>1 DEF Ticket
    <3>5. req[x].op = "mark" => req[x].n \in Numbers
      BY <3>1, <3>2, Rows DEF Ticket
    <3> QED BY <1>2, <1>4, <3>1, <3>2, <3>3, <3>4, <3>5, <3>6 DEF Fits
  <2> QED BY <2>1, <2>2
<1>8. Apart'
  BY <1>6 DEF SitInv, Apart
<1>9. LatestOnly' /\ ManualClosed' /\ ClosedAnswered'
  BY <1>1, <1>4, <1>5 DEF SitInv, LatestOnly, ManualClosed, ClosedAnswered
<1> QED BY <1>0, <1>7, <1>8, <1>9 DEF SitInv

\* The attempt an answer is saved on is under way, and its answer not marked.
LEMMA SaveWriteSitInv ==
  ASSUME SitInv, NEW r \in Requests, SaveWrite(r)
  PROVE SitInv' /\ HandedInKept
<1> DEFINE t == req[r]
<1>0. TInv /\ TInv'
  BY SaveWriteTInv DEF SitInv
<1>1. /\ t.n \in Numbers /\ t.q \in Places(t.n) /\ t.row \in AnswerRow /\ t.given \in Given
      /\ ~ t.row.manual /\ ~ IsClosed(t.n)
      /\ answer' = [answer EXCEPT ![t.n][t.q] = [t.row EXCEPT !.given = t.given]]
      /\ req' = [req EXCEPT ![r] = Idle] /\ attempt' = attempt
  BY <1>0 DEF SaveWrite, Ends, TInv, Ticket, SitInv, AllFit, Fits, InProgress, IsClosed, Closed
<1>2. [t.row EXCEPT !.given = t.given] \in AnswerRow /\ ~ [t.row EXCEPT !.given = t.given].manual
  BY <1>1 DEF AnswerRow
<1>3. \A n \in Numbers : \A q \in Places(n) :
        answer'[n][q] = IF n = t.n /\ q = t.q THEN [t.row EXCEPT !.given = t.given] ELSE answer[n][q]
  BY <1>0, <1>1 DEF TInv, Answers
<1>4. \A x \in Requests : req'[x] = IF x = r THEN Idle ELSE req[x]
  BY <1>0, <1>1 DEF TInv
<1>5. /\ Latest' = Latest
      /\ \A n : InProgress(n)' = InProgress(n) /\ IsClosed(n)' = IsClosed(n)
  BY <1>1 DEF Latest, Sat, InProgress, IsClosed
<1>6. AllFit'
  BY <1>1, <1>4, <1>5, IdleFits DEF SitInv, AllFit, Fits, NoneInProgress, InProgress, IsClosed
<1>7. Apart'
  BY <1>4 DEF SitInv, Apart
<1>8. LatestOnly'
  BY <1>1 DEF SitInv, LatestOnly, InProgress, Latest, Sat
<1>9. ManualClosed' /\ ClosedAnswered'
  BY <1>1, <1>2, <1>3 DEF SitInv, ManualClosed, ClosedAnswered, IsClosed
<1>10. HandedInKept
  BY <1>1, <1>3 DEF HandedInKept, IsClosed
<1> QED BY <1>0, <1>6, <1>7, <1>8, <1>9, <1>10 DEF SitInv

\* A closing runs while nobody saves an answer, and a marker marks what is
\* closed already.
LEMMA GradeCommitSitInv ==
  ASSUME SitInv, UnsafePairs \subseteq NeverOverlap, NEW r \in Requests, GradeCommit(r)
  PROVE SitInv' /\ HandedInKept
<1> DEFINE n == req[r].n
<1>0. /\ TInv /\ TInv' /\ req' = [req EXCEPT ![r] = Idle] /\ n \in Numbers
      /\ \A m \in Numbers : m # n => attempt'[m] = attempt[m] /\ answer'[m] = answer[m]
      /\ attempt'[n].status \in Closed
      /\ \A q \in Places(n) : answer'[n][q] \in AnswerRow /\ answer'[n][q].given = Found(answer[n][q]).given
  BY GradeCommitTInv DEF SitInv
<1>1. req[r] # Idle /\ req[r].op \in {"start", "close", "mark"} /\ (req[r].op = "mark" => IsClosed(n)) /\ n \in Sat
  <2>1. Ticket(req[r]) /\ OnSat(req[r]) /\ Fits(req[r])
    BY <1>0 DEF TInv, AllOnSat, SitInv, AllFit
  <2>2. req[r].pc = "update"
    BY DEF GradeCommit
  <2>3. req[r].op \in {"start", "close", "mark"}
    BY <2>1, <2>2 DEF Ticket
  <2>4. req[r].op = "mark" => IsClosed(n)
    BY <2>1 DEF Fits
  <2>5. n \in Sat
    BY <2>1, <2>2 DEF OnSat
  <2> QED BY <2>2, <2>3, <2>4, <2>5, Rows
<1>2. \A x \in Requests : req'[x] = IF x = r THEN Idle ELSE req[x]
  BY <1>0 DEF TInv
<1>3. \A m \in Numbers : /\ IsClosed(m)' <=> IsClosed(m) \/ m = n
                         /\ InProgress(m)' <=> InProgress(m) /\ m # n
  BY <1>0 DEF IsClosed, InProgress, Closed
<1>4. Sat' = Sat /\ Latest' = Latest
  <2>1. attempt'[n] # NoAttempt
    BY <1>0, Rows DEF Closed
  <2>2. Sat' = Sat
    BY <1>0, <1>1, <2>1 DEF Sat
  <2> QED BY <2>2 DEF Latest
<1>5. AllFit'
  <2> SUFFICES ASSUME NEW x \in Requests PROVE Fits(req[x])'
    BY DEF AllFit
  <2>1. CASE x = r
    BY <1>2, <2>1, Rows DEF Fits
  <2>2. CASE x # r
    <3>1. Ticket(req[x]) /\ Fits(req[x]) /\ req'[x] = req[x]
      BY <1>0, <1>2, <2>2 DEF TInv, SitInv, AllFit
    <3>2. req[x].op = "save" /\ req[x] # Idle => req[r].op = "mark"
      BY <1>1, <2>2, TwoApart
    <3>3. req[x].pc \in {"save", "write"} => req[x].op = "save" /\ req[x].n \in Numbers /\ req[x] # Idle
      BY <3>1, Rows DEF Ticket
    <3>4. req[x].op = "mark" => req[x].n \in Numbers
      BY <3>1, Rows DEF Ticket
    <3>5. req[x].pc = "look" => req[x].n = Latest'
      BY <1>4, <3>1 DEF Fits
    <3>6. NoneInProgress => NoneInProgress'
      BY <1>3 DEF NoneInProgress
    <3>9. \A m : attempt'[m] = NoAttempt /\ m \in Numbers => attempt[m] = NoAttempt
      BY <1>4 DEF Sat
    <3>10. req[x].pc = "insert" => req[x].used + 1 \in Numbers
      BY <3>1 DEF Ticket
    <3>7. req[x].pc \in {"save", "write"} /\ InProgress(req[x].n) => InProgress(req[x].n)'
      BY <1>0, <1>1, <3>1, <3>2, <3>3 DEF InProgress, IsClosed, Closed
    <3>8. req[x].op = "mark" => IsClosed(req[x].n)'
      BY <1>3, <3>1, <3>4 DEF Fits
    <3> QED BY <3>1, <3>5, <3>6, <3>7, <3>8, <3>9, <3>10 DEF Fits, InProgress, IsClosed
  <2> QED BY <2>1, <2>2
<1>6. Apart'
  BY <1>2 DEF SitInv, Apart
<1>7. LatestOnly'
  BY <1>3, <1>4 DEF SitInv, LatestOnly
<1>8. ManualClosed' /\ ClosedAnswered'
  BY <1>0, <1>3 DEF SitInv, ManualClosed, ClosedAnswered
<1>9. HandedInKept
  <2> SUFFICES ASSUME NEW m \in Numbers, IsClosed(m)
               PROVE /\ attempt'[m].status \in Closed
                     /\ \A q \in Places(m) : answer'[m][q].given = answer[m][q].given
    BY DEF HandedInKept, IsClosed
  <2>1. \A q \in Places(m) : answer[m][q] \in AnswerRow
    BY DEF SitInv, ClosedAnswered
  <2>2. \A q \in Places(m) : Found(answer[m][q]) = answer[m][q]
    BY <2>1, Rows DEF Found
  <2>3. CASE m = n
    BY <1>0, <2>2, <2>3
  <2>4. CASE m # n
    BY <1>0, <2>4 DEF IsClosed
  <2> QED BY <2>3, <2>4
<1> QED BY <1>0, <1>5, <1>6, <1>7, <1>8, <1>9 DEF SitInv

(* SitInv is inductive while the unsafe pairs do not overlap and no start is overtaken. *)
LEMMA NextSitInv ==
  ASSUME UnsafePairs \subseteq NeverOverlap, ~ StartsOvertake
  PROVE SitInv /\ [Next]_vars => SitInv' /\ HandedInKept
<1> SUFFICES ASSUME SitInv, [Next]_vars PROVE SitInv' /\ HandedInKept
  OBVIOUS
<1>1. ASSUME UNCHANGED <<attempt, answer>> PROVE HandedInKept
  BY <1>1 DEF HandedInKept
<1>2. CASE UNCHANGED vars
  <2>1. TInv'
    BY <1>2, NextTInv DEF SitInv
  <2> QED BY <1>1, <1>2, <2>1 DEF vars, SitInv, Apart, AllFit, Fits, NoneInProgress, LatestOnly, ManualClosed,
                                 ClosedAnswered, IsClosed, InProgress, Latest, Sat
<1>3. ASSUME NEW r \in Requests, Load(r) \/ GoesOn(r) PROVE SitInv' /\ HandedInKept
  <2>1. UNCHANGED <<attempt, answer>>
    BY <1>3, GoesOnTInv DEF SitInv, Load, StartLook, LoadAttempt, LoadAnswer, Starts
  <2> QED BY <1>1, <1>3, <2>1, LoadSitInv, GoesOnSitInv
<1>4. ASSUME NEW r \in Requests, StartInsert(r) PROVE SitInv' /\ HandedInKept
  <2>1. attempt[req[r].used + 1].status \notin Closed
    BY <1>4, Rows DEF StartInsert, Closed
  <2>2. HandedInKept
    BY <1>4, <2>1 DEF StartInsert, HandedInKept, SitInv, TInv
  <2> QED BY <1>4, <2>2, InsertSitInv
<1>5. ASSUME NEW n \in Numbers, TimeUp(n) PROVE SitInv' /\ HandedInKept
  <2>1. TInv' /\ UNCHANGED <<attempt, answer, req>>
    BY <1>5, TimeUpTInv DEF SitInv
  <2> QED BY <1>1, <2>1 DEF SitInv, Apart, AllFit, Fits, NoneInProgress, LatestOnly, ManualClosed,
                            ClosedAnswered, IsClosed, InProgress, Latest, Sat
<1> QED BY <1>2, <1>3, <1>4, <1>5, StepsOf, SaveWriteSitInv, GradeCommitSitInv

(* So SitInv holds at all times, under that condition. *)
LEMMA AlwaysSitInv == UnsafePairs \subseteq NeverOverlap /\ ~ StartsOvertake => (Spec => []SitInv)
<1> SUFFICES ASSUME UnsafePairs \subseteq NeverOverlap, ~ StartsOvertake PROVE Spec => []SitInv
  OBVIOUS
<1> QED BY InitSitInv, NextSitInv, PTL DEF Spec

\* As long as no start inserts between another's query and its count, and no
\* save overlaps a closing, there is one sitting at a time, for any number of
\* requests, attempts and questions.
THEOREM OneSittingAtATime ==
  ASSUME UnsafePairs \subseteq NeverOverlap, ~ StartsOvertake
  PROVE Spec => []OneSitting
<1>1. SitInv => OneSitting
  BY DEF SitInv, LatestOnly, OneSitting
<1>2. Spec => []SitInv
  BY AlwaysSitInv
<1> QED BY <1>1, <1>2, PTL

\* And what is handed in stays as it was handed in, whatever markers do.
THEOREM HandedInForGood ==
  ASSUME UnsafePairs \subseteq NeverOverlap, ~ StartsOvertake
  PROVE Spec => HandedInStays
<1>1. Spec => []SitInv
  BY AlwaysSitInv
<1>2. SitInv /\ [Next]_vars => [HandedInKept]_vars
  BY NextSitInv
<1>3. Spec => [][HandedInKept]_vars
  BY <1>1, <1>2, PTL DEF Spec
<1>4. HandedInStays <=> [][HandedInKept]_vars
  BY DEF HandedInStays, HandedInKept
<1> QED BY <1>3, <1>4
-----------------------------------------------------------------------------
(***************************************************************************)
(* The total of an attempt.                                                *)
(***************************************************************************)

\* The two sums of the module are sums of functions, whatever they add.
LEMMA PointsSum ==
  ASSUME NEW n, NEW read, IsFiniteSet(Places(n))
  PROVE MapThenSumSet(LAMBDA q : Points(n, q, read[q]), Places(n))
          = SumFunctionOnSet([q \in Places(n) |-> Points(n, q, read[q])], Places(n))
<1> DEFINE S == Places(n)
           f == [q \in S |-> Points(n, q, read[q])]
           Folds(g) == g = [s \in SUBSET S |->
                              IF s = {} THEN 0
                              ELSE Points(n, Chosen(s), read[Chosen(s)]) + g[s \ {Chosen(s)}]]
           h == CHOOSE g : Folds(g)
<1>1. MapThenSumSet(LAMBDA q : Points(n, q, read[q]), S) = h[S]
  BY DEF MapThenSumSet, MapThenFoldSet, Chosen
<1>2. \A g : Folds(g) <=> IsFold(f, g, S)
  <2>1. \A s \in SUBSET S : s # {} => f[Chosen(s)] = Points(n, Chosen(s), read[Chosen(s)])
    BY ChosenIn
  <2> HIDE DEF f
  <2> QED BY <2>1 DEF IsFold
<1> HIDE DEF f, Folds
<1>3. IsFold(f, TheFold(f, S), S)
  BY FoldExists
<1>4. IsFold(f, h, S)
  <2>1. \E g : Folds(g)
    BY <1>2, <1>3
  <2>2. Folds(h)
    BY <2>1
  <2> QED BY <1>2, <2>2
<1> HIDE DEF h
<1>5. h[S] = TheFold(f, S)[S]
  <2>1. S \in SUBSET S /\ S \in SUBSET (S \cap S)
    OBVIOUS
  <2> QED BY <1>3, <1>4, <2>1, FoldsAgree
<1> QED BY <1>1, <1>5, SumIsFold DEF f

(* The marks a closed attempt counts are a sum over its places as well. *)
LEMMA AwardsSum ==
  ASSUME NEW n, NEW rows, IsFiniteSet(Places(n))
  PROVE MapThenSumSet(LAMBDA q : rows[q].awarded, Places(n))
          = SumFunctionOnSet([q \in Places(n) |-> rows[q].awarded], Places(n))
<1> DEFINE S == Places(n)
           f == [q \in S |-> rows[q].awarded]
           Folds(g) == g = [s \in SUBSET S |->
                              IF s = {} THEN 0 ELSE rows[Chosen(s)].awarded + g[s \ {Chosen(s)}]]
           h == CHOOSE g : Folds(g)
<1>1. MapThenSumSet(LAMBDA q : rows[q].awarded, S) = h[S]
  BY DEF MapThenSumSet, MapThenFoldSet, Chosen
<1>2. \A g : Folds(g) <=> IsFold(f, g, S)
  <2>1. \A s \in SUBSET S : s # {} => f[Chosen(s)] = rows[Chosen(s)].awarded
    BY ChosenIn
  <2> HIDE DEF f
  <2> QED BY <2>1 DEF IsFold
<1> HIDE DEF f, Folds
<1>3. IsFold(f, TheFold(f, S), S)
  BY FoldExists
<1>4. IsFold(f, h, S)
  <2>1. \E g : Folds(g)
    BY <1>2, <1>3
  <2>2. Folds(h)
    BY <2>1
  <2> QED BY <1>2, <2>2
<1> HIDE DEF h
<1>5. h[S] = TheFold(f, S)[S]
  <2>1. S \in SUBSET S /\ S \in SUBSET (S \cap S)
    OBVIOUS
  <2> QED BY <1>3, <1>4, <2>1, FoldsAgree
<1> QED BY <1>1, <1>5, SumIsFold DEF f

\* What TotalIsSum says of an attempt and its answers.
RightTotal(n, row, rows) ==
  row.status \in Closed =>
    IF Pending(n, rows)
    THEN row = [status |-> "submitted", total |-> Unmarked]
    ELSE LET sum == MapThenSumSet(LAMBDA q : rows[q].awarded, Places(n))
         IN row = [status |-> "graded", total |-> IF sum < 0 THEN 0 ELSE sum]

AllTotals == \A n \in Numbers : RightTotal(n, attempt[n], answer[n])

(* TotalIsSum, attempt by attempt. *)
LEMMA TotalsInWords == TotalIsSum <=> AllTotals
BY DEF TotalIsSum, AllTotals, RightTotal

\* No row is held twice.  A marker holds the answer it marks, whoever else
\* closes holds the attempt; so while one of them has read the answers no
\* other commits on the same attempt, and what it has read is still so.
HoldsApart == \A r, p \in Requests : r # p => req[r].holds \cap req[p].holds = {}

Firm(t) ==
  /\ t.pc = "mark" => t.mark.q \in Places(t.n)
  /\ t.pc \in {"grade", "update"} =>
       IF t.op = "mark" THEN t.mark.q \in Places(t.n) /\ <<t.n, t.mark.q>> \in t.holds
       ELSE <<t.n, 0>> \in t.holds
  /\ t.pc = "update" => /\ t.at > 0
                        /\ \A q \in Places(t.n) : q < t.at => <<t.n, q>> \in t.holds

StillSo(t) ==
  t.pc = "update" => \A q \in Places(t.n) : t.read[q] = WithMark(answer[t.n][q], q, t.mark)

Grading == \A r \in Requests : Firm(req[r]) /\ StillSo(req[r])

TotInv == SitInv /\ HoldsApart /\ Grading /\ AllTotals

(* There is no attempt to add up at first. *)
LEMMA InitTotInv == Init => TotInv
<1> SUFFICES ASSUME Init PROVE TotInv
  OBVIOUS
<1>1. HoldsApart /\ Grading
  BY Rows DEF Init, HoldsApart, Grading, Firm, StillSo, Idle
<1>2. AllTotals
  BY Rows DEF Init, AllTotals, RightTotal, Closed
<1> QED BY <1>1, <1>2, InitSitInv DEF TotInv

\* A request goes on with rows that it held, or that were free.
LEMMA GoesTotInv ==
  ASSUME TotInv, SitInv', NEW r \in Requests, NEW t, Goes(r, t),
         \A x \in t.holds : x \in req[r].holds \/ Free(r, x),
         Firm(t), StillSo(t)
  PROVE TotInv'
<1>1. \A p \in Requests : req'[p] = IF p = r THEN t ELSE req[p]
  BY DEF TotInv, SitInv, TInv, Goes
<1>2. attempt' = attempt /\ answer' = answer
  BY DEF Goes
<1>3. HoldsApart'
  BY <1>1 DEF TotInv, HoldsApart, Free
<1>4. Grading'
  BY <1>1, <1>2 DEF TotInv, Grading, Firm, StillSo
<1>5. AllTotals'
  BY <1>2 DEF TotInv, AllTotals
<1> QED BY <1>3, <1>4, <1>5 DEF TotInv

\* Nothing to hold, nothing to read.
LEMMA Loaded == ASSUME NEW t, t.pc \notin {"mark", "grade", "update"} PROVE Firm(t) /\ StillSo(t)
BY DEF Firm, StillSo

(* A request that begins holds nothing that another holds, and has read no marks yet. *)
LEMMA LoadTotInv ==
  ASSUME TotInv, SitInv', NEW r \in Requests, Load(r)
  PROVE TotInv'
<1>1. CASE StartLook(r)
  <2> DEFINE t == [op |-> "start", pc |-> "look", n |-> Latest, holds |-> {}]
  <2>1. Goes(r, t)
    BY <1>1 DEF StartLook, Starts, Goes
  <2>2. Firm(t) /\ StillSo(t)
    BY Loaded
  <2> QED BY <2>1, <2>2, GoesTotInv
<1>2. ASSUME NEW n \in Numbers, NEW op \in {"save", "close"}, LoadAttempt(r, op, n) PROVE TotInv'
  <2> DEFINE t == [op |-> op, pc |-> op, n |-> n, open |-> InProgress(n), holds |-> {}]
  <2>1. Goes(r, t)
    BY <1>2 DEF LoadAttempt, Starts, Goes
  <2>2. Firm(t) /\ StillSo(t)
    BY <1>2, Loaded
  <2> QED BY <2>1, <2>2, GoesTotInv
<1>3. ASSUME NEW n \in Numbers, NEW value \in Marks, NEW q \in Written(n), LoadAnswer(r, n, q, value)
      PROVE TotInv'
  <2> DEFINE t == [op |-> "mark", pc |-> "mark", n |-> n, mark |-> [q |-> q, value |-> value], holds |-> {}]
  <2>1. Goes(r, t)
    BY <1>3 DEF LoadAnswer, Starts, Goes
  <2>2. Firm(t) /\ StillSo(t)
    BY DEF Firm, StillSo, Written
  <2> QED BY <2>1, <2>2, GoesTotInv
<1> QED BY <1>1, <1>2, <1>3 DEF Load

\* A request that comes to grade_attempt holds what the marking rests on.
LEMMA GradesTotInv ==
  ASSUME TotInv, SitInv', NEW r \in Requests, NEW n, NEW mark, NEW holds, Grades(r, n, mark, holds),
         \A x \in holds : x \in req[r].holds \/ Free(r, x),
         IF req[r].op = "mark" THEN mark.q \in Places(n) /\ <<n, mark.q>> \in holds
         ELSE <<n, 0>> \in holds
  PROVE TotInv'
<1> DEFINE t == [op |-> req[r].op, pc |-> "grade", n |-> n, mark |-> mark, holds |-> holds]
<1>1. Firm(t) /\ StillSo(t)
  BY DEF Firm, StillSo
<1>2. Goes(r, t) /\ t.holds = holds
  BY DEF Grades
<1> HIDE DEF t
<1> QED BY <1>1, <1>2, GoesTotInv

(* The same steps leave alone what is added up. *)
LEMMA GoesOnTotInv ==
  ASSUME TotInv, SitInv', NEW r \in Requests, GoesOn(r)
  PROVE TotInv'
<1> DEFINE t == req[r]
<1>1. Ticket(t) /\ Firm(t) /\ StillSo(t)
  BY DEF TotInv, SitInv, TInv, Grading
<1>2. ASSUME Goes(r, Idle) PROVE TotInv'
  <2>1. Firm(Idle) /\ StillSo(Idle) /\ Idle.holds = {}
    BY Loaded, Rows DEF Idle
  <2> QED BY <1>2, <2>1, GoesTotInv
<1>3. ASSUME NEW u, Goes(r, u), u.pc \notin {"mark", "grade", "update"},
             \A x \in u.holds : x \in t.holds \/ Free(r, x)
      PROVE TotInv'
  BY <1>3, Loaded, GoesTotInv
<1>4. CASE StartLock(r)
  <2> DEFINE held == IF t.n = 0 THEN {} ELSE {<<t.n, 0>>}
             u == [op |-> "start", pc |-> "count", holds |-> held]
  <2>1. \A x \in held : Free(r, x)
    BY <1>4 DEF StartLock
  <2>2. CASE Goes(r, u)
    BY <1>3, <2>1, <2>2
  <2>3. CASE Resumes(t.n) /\ Grades(r, t.n, NoMark, held)
    <3>1. t.op = "start" /\ <<t.n, 0>> \in held
      BY <1>1, <1>4, <2>3 DEF StartLock, Ticket, Resumes
    <3> QED BY <2>1, <2>3, <3>1, GradesTotInv
  <2> QED BY <1>2, <1>4, <2>2, <2>3 DEF StartLock
<1>5. CASE StartCount(r)
  <2> DEFINE u == [op |-> "start", pc |-> "insert", used |-> Cardinality(Sat), holds |-> t.holds]
  <2>1. Goes(r, u)
    BY <1>5 DEF StartCount
  <2> QED BY <1>3, <2>1
<1>6. CASE StartLost(r)
  <2> DEFINE u == [op |-> "start", pc |-> "close", n |-> Latest, open |-> TRUE, holds |-> t.holds]
  <2>1. CASE Goes(r, u)
    BY <1>3, <2>1
  <2> QED BY <1>2, <1>6, <2>1 DEF StartLost
<1>7. CASE SaveRead(r)
  <2>1. PICK q \in Places(t.n) : \E given \in MayGive(Paper[t.n][q]) :
          /\ answer[t.n][q] = NoAnswer => Free(r, <<t.n, q>>)
          /\ Goes(r, [op |-> "save", pc |-> "write", n |-> t.n, q |-> q, given |-> given,
                      row |-> Found(answer[t.n][q]),
                      holds |-> IF answer[t.n][q] = NoAnswer THEN {<<t.n, q>>} ELSE {}])
    BY <1>7 DEF SaveRead
  <2>2. PICK given \in MayGive(Paper[t.n][q]) :
          /\ answer[t.n][q] = NoAnswer => Free(r, <<t.n, q>>)
          /\ Goes(r, [op |-> "save", pc |-> "write", n |-> t.n, q |-> q, given |-> given,
                      row |-> Found(answer[t.n][q]),
                      holds |-> IF answer[t.n][q] = NoAnswer THEN {<<t.n, q>>} ELSE {}])
    BY <2>1
  <2> DEFINE u == [op |-> "save", pc |-> "write", n |-> t.n, q |-> q, given |-> given,
                   row |-> Found(answer[t.n][q]),
                   holds |-> IF answer[t.n][q] = NoAnswer THEN {<<t.n, q>>} ELSE {}]
  <2>3. \A x \in u.holds : Free(r, x)
    BY <2>2
  <2> QED BY <1>3, <2>2, <2>3
<1>8. CASE CloseWrite(r)
  <2>1. t.op # "mark" /\ Grades(r, t.n, NoMark, t.holds \cup {<<t.n, 0>>}) /\ Free(r, <<t.n, 0>>)
    BY <1>1, <1>8 DEF CloseWrite, Ticket
  <2> QED BY <2>1, GradesTotInv
<1>9. CASE MarkWrite(r)
  <2>1. /\ Grades(r, t.n, t.mark, {<<t.n, t.mark.q>>}) /\ Free(r, <<t.n, t.mark.q>>)
        /\ t.op = "mark" /\ t.mark.q \in Places(t.n)
    BY <1>1, <1>9 DEF MarkWrite, Ticket, Firm
  <2> QED BY <2>1, GradesTotInv
<1>10. CASE GradeRead(r)
  <2> DEFINE read == [q \in Places(t.n) |-> WithMark(answer[t.n][q], q, t.mark)]
             u == [op |-> t.op, pc |-> "update", n |-> t.n, mark |-> t.mark, at |-> 1,
                   read |-> read, holds |-> t.holds]
  <2>1. Goes(r, u) /\ t.pc = "grade"
    BY <1>10 DEF GradeRead
  <2>2. \A q \in Places(t.n) : q \in Nat /\ ~ (q < 1) /\ read[q] = WithMark(answer[t.n][q], q, t.mark)
    BY <1>1, <2>1, ExamAssumption DEF Places, Ticket
  <2> HIDE DEF read
  <2>3. Firm(u) /\ StillSo(u)
    BY <1>1, <2>1, <2>2 DEF Firm, StillSo
  <2> QED BY <2>1, <2>3, GoesTotInv
<1>11. CASE GradeUpdate(r)
  <2> DEFINE holds == t.holds \cup Locked(t)
             at == t.at + 1
             u == [t EXCEPT !.at = at, !.holds = holds]
  <2>1. /\ t.pc = "update" /\ Goes(r, u) /\ \A x \in Locked(t) : Free(r, x)
        /\ t.at \in Nat /\ t.at \in Places(t.n)
        /\ t = [op |-> t.op, pc |-> t.pc, n |-> t.n, mark |-> t.mark, at |-> t.at,
                read |-> t.read, holds |-> t.holds]
    BY <1>1, <1>11 DEF GradeUpdate, Ticket
  <2>2. \A x \in holds : x \in t.holds \/ Free(r, x)
    BY <2>1
  <2>3. \A q \in Places(t.n) : q < at => <<t.n, q>> \in holds
    <3>1. \A q \in Places(t.n) : q \in Nat /\ (q < at => q < t.at \/ q = t.at)
      BY <1>1, <2>1, ExamAssumption DEF Places, Ticket
    <3>2. <<t.n, t.at>> \in holds
      BY DEF Locked
    <3> QED BY <1>1, <2>1, <3>1, <3>2 DEF Firm
  <2>4. at > 0
    BY <2>1
  <2>a. t.holds \subseteq holds
    OBVIOUS
  <2> HIDE DEF at, holds
  <2>5. /\ u.op = t.op /\ u.pc = "update" /\ u.n = t.n /\ u.mark = t.mark /\ u.at = at
        /\ u.read = t.read /\ u.holds = holds
    BY <2>1
  <2> HIDE DEF u
  <2>6. Firm(u)
    BY <1>1, <2>1, <2>3, <2>4, <2>5, <2>a DEF Firm
  <2>7. StillSo(u)
    BY <1>1, <2>1, <2>5 DEF StillSo
  <2>8. \A x \in u.holds : x \in req[r].holds \/ Free(r, x)
    BY <2>2, <2>5
  <2>9. Goes(r, u)
    BY <2>1 DEF u, at, holds
  <2> QED BY <2>6, <2>7, <2>8, <2>9, GoesTotInv
<1> QED BY <1>2, <1>4, <1>5, <1>6, <1>7, <1>8, <1>9, <1>10, <1>11 DEF GoesOn, RollBack

\* Nobody marks an attempt that has just begun.
LEMMA InsertTotInv ==
  ASSUME TotInv, SitInv', NEW r \in Requests, StartInsert(r)
  PROVE TotInv'
<1> DEFINE n == req[r].used + 1
<1>1. /\ attempt' = [attempt EXCEPT ![n] = Started] /\ req' = [req EXCEPT ![r] = Idle]
      /\ answer' = answer
  BY DEF StartInsert, Ends
<1>2. \A p \in Requests : req'[p] = IF p = r THEN Idle ELSE req[p]
  BY <1>1 DEF TotInv, SitInv, TInv
<1>3. HoldsApart'
  BY <1>2 DEF TotInv, HoldsApart, Idle
<1>4. Grading'
  BY <1>1, <1>2, Rows DEF TotInv, Grading, Firm, StillSo
<1>5. AllTotals'
  <2> SUFFICES ASSUME NEW m \in Numbers PROVE RightTotal(m, attempt'[m], answer'[m])
    BY DEF AllTotals
  <2>1. CASE m = n
    <3>1. attempt'[m] = Started
      BY <1>1, <2>1 DEF TotInv, SitInv, TInv
    <3>2. attempt'[m].status \notin Closed
      BY <3>1, Rows DEF Closed
    <3> QED BY <3>2 DEF RightTotal
  <2>2. CASE m # n
    <3>1. attempt'[m] = attempt[m] /\ answer'[m] = answer[m]
      BY <1>1, <2>2 DEF TotInv, SitInv, TInv
    <3>2. RightTotal(m, attempt[m], answer[m])
      BY DEF TotInv, AllTotals
    <3> QED BY <3>1, <3>2
  <2> QED BY <2>1, <2>2
<1> QED BY <1>3, <1>4, <1>5 DEF TotInv

\* An answer is saved on an attempt that is under way, which nobody closes
\* meanwhile and nobody marks.
LEMMA SaveWriteTotInv ==
  ASSUME TotInv, SitInv', UnsafePairs \subseteq NeverOverlap, NEW r \in Requests, SaveWrite(r)
  PROVE TotInv'
<1> DEFINE t == req[r]
<1>0. SitInv /\ TInv
  BY DEF TotInv, SitInv
<1>1. /\ t.n \in Numbers /\ t.op = "save" /\ t # Idle /\ ~ IsClosed(t.n)
      /\ answer' = [answer EXCEPT ![t.n][t.q] = [t.row EXCEPT !.given = t.given]]
      /\ req' = [req EXCEPT ![r] = Idle] /\ attempt' = attempt
  BY <1>0, Rows DEF SaveWrite, Ends, TInv, Ticket, SitInv, AllFit, Fits, InProgress, IsClosed, Closed
<1>2. \A p \in Requests : req'[p] = IF p = r THEN Idle ELSE req[p]
  BY <1>0, <1>1 DEF TInv
<1>3. \A m \in Numbers : m # t.n => answer'[m] = answer[m]
  BY <1>0, <1>1 DEF TInv
<1>4. HoldsApart'
  BY <1>2 DEF TotInv, HoldsApart, Idle
<1>5. Grading'
  <2> SUFFICES ASSUME NEW p \in Requests PROVE Firm(req'[p]) /\ StillSo(req[p])'
    BY DEF Grading, Firm
  <2>1. CASE p = r
    BY <1>2, <2>1, Rows DEF Firm, StillSo
  <2>2. CASE p # r
    <3>1. req'[p] = req[p] /\ Firm(req[p]) /\ StillSo(req[p]) /\ Ticket(req[p]) /\ Fits(req[p])
      BY <1>0, <1>2, <2>2 DEF TotInv, Grading, TInv, SitInv, AllFit
    <3>2. ASSUME req[p].pc = "update" PROVE answer'[req[p].n] = answer[req[p].n]
      <4>1. req[p].n \in Numbers /\ req[p].op \in {"start", "close", "mark"} /\ req[p] # Idle
        BY <3>1, <3>2, Rows DEF Ticket
      <4>2. req[p].op = "mark"
        BY <1>0, <1>1, <2>2, <4>1, TwoApart
      <4>3. req[p].n # t.n
        BY <1>1, <3>1, <4>2 DEF Fits
      <4> QED BY <1>3, <4>1, <4>3
    <3> QED BY <3>1, <3>2 DEF StillSo
  <2> QED BY <2>1, <2>2
<1>6. AllTotals'
  <2> SUFFICES ASSUME NEW m \in Numbers PROVE RightTotal(m, attempt'[m], answer'[m])
    BY DEF AllTotals
  <2>1. CASE m = t.n
    BY <1>1, <2>1 DEF RightTotal, IsClosed
  <2>2. CASE m # t.n
    <3>1. attempt'[m] = attempt[m] /\ answer'[m] = answer[m]
      BY <1>1, <1>3, <2>2
    <3>2. RightTotal(m, attempt[m], answer[m])
      BY DEF TotInv, AllTotals
    <3> QED BY <3>1, <3>2
  <2> QED BY <2>1, <2>2
<1> QED BY <1>4, <1>5, <1>6 DEF TotInv

(* A paper has finitely many places. *)
LEMMA PlacesFinite == ASSUME NEW n \in Numbers PROVE IsFiniteSet(Places(n))
<1>1. Paper[n] \in Seq({"auto", "written"})
  BY ExamAssumption
<1>2. Places(n) = 1 .. Len(Paper[n]) /\ Len(Paper[n]) \in Nat
  BY <1>1 DEF Places
<1> QED BY <1>2, FS_Interval

\* What is awarded once the marking has committed is what it counted.
LEMMA AwardedIsCounted ==
  ASSUME NEW n, NEW q, NEW row, NEW mark, NEW seen, seen = WithMark(row, q, mark),
         row \in AnswerRow \cup {NoAnswer}
  PROVE Graded(n, q, seen, row, mark).awarded = Points(n, q, seen)
<1>1. Found(row) \in AnswerRow /\ Found(row).awarded = row.awarded
  BY Rows DEF Found, Blank, NoAnswer
<1>2. CASE q \in Written(n)
  <2>1. CASE q = mark.q
    <3>1. seen.awarded = mark.value
      BY <2>1 DEF WithMark, AnswerRow, NoAnswer
    <3>2. WithMark(Found(row), q, mark) = [Found(row) EXCEPT !.awarded = mark.value]
      BY <2>1 DEF WithMark
    <3>3. [[Found(row) EXCEPT !.awarded = mark.value] EXCEPT !.manual = TRUE].awarded = mark.value
      BY <1>1 DEF AnswerRow
    <3> QED BY <1>2, <3>1, <3>2, <3>3 DEF Graded, Points
  <2>2. CASE q # mark.q
    <3>1. seen.awarded = row.awarded
      BY <2>2 DEF WithMark
    <3>2. WithMark(Found(row), q, mark) = Found(row)
      BY <2>2 DEF WithMark
    <3>3. [Found(row) EXCEPT !.manual = TRUE].awarded = Found(row).awarded
      BY <1>1 DEF AnswerRow
    <3> QED BY <1>1, <1>2, <3>1, <3>2, <3>3 DEF Graded, Points
  <2> QED BY <2>1, <2>2
<1>3. CASE q \notin Written(n)
  BY <1>1, <1>3 DEF Graded, Points, AnswerRow
<1> QED BY <1>2, <1>3

\* A marking that has the whole attempt locked writes the total of what it has
\* read, which is what is there.
LEMMA GradeCommitTotInv ==
  ASSUME TotInv, SitInv', NEW r \in Requests, GradeCommit(r)
  PROVE TotInv'
<1> DEFINE t == req[r]
           n == t.n
           rows == [q \in Places(n) |-> Graded(n, q, t.read[q], answer[n][q], t.mark)]
           row == [status |-> IF Pending(n, t.read) THEN "submitted" ELSE "graded",
                   total |-> TotalOf(n, t.read)]
<1>0. SitInv /\ TInv
  BY DEF TotInv, SitInv
<1>1. /\ t.pc = "update" /\ t.at \notin Places(n) /\ Free(r, <<n, 0>>)
      /\ req' = [req EXCEPT ![r] = Idle]
      /\ answer' = [answer EXCEPT ![n] = rows] /\ attempt' = [attempt EXCEPT ![n] = row]
  BY DEF GradeCommit, Ends
<1>2. n \in Numbers /\ t.at \in Nat /\ Firm(t) /\ StillSo(t)
  BY <1>0, <1>1 DEF TInv, Ticket, TotInv, Grading
<1>3. \A p \in Requests : req'[p] = IF p = r THEN Idle ELSE req[p]
  BY <1>0, <1>1 DEF TInv
<1>4. /\ \A m \in Numbers : m # n => answer'[m] = answer[m] /\ attempt'[m] = attempt[m]
      /\ answer'[n] = rows /\ attempt'[n] = row
  BY <1>0, <1>1, <1>2 DEF TInv
<1>5. HoldsApart'
  BY <1>3 DEF TotInv, HoldsApart, Idle
<1>6. \A q \in Places(n) : <<n, q>> \in t.holds
  <2>1. PICK k \in Nat : Places(n) = 1 .. k
    <3>1. Paper[n] \in Seq({"auto", "written"})
      BY <1>2, ExamAssumption
    <3> QED BY <3>1 DEF Places
  <2>2. t.at > k
    BY <1>1, <1>2, <2>1 DEF Firm
  <2>3. \A q \in Places(n) : q < t.at
    BY <1>2, <2>1, <2>2
  <2> QED BY <1>1, <1>2, <2>3 DEF Firm
<1>7. ASSUME NEW p \in Requests, p # r, req[p].pc = "update" PROVE req[p].n # n
  <2>1. Firm(req[p]) /\ req[p].holds \cap t.holds = {} /\ <<n, 0>> \notin req[p].holds
    BY <1>1, <1>7 DEF TotInv, Grading, HoldsApart, Free
  <2>2. CASE req[p].op = "mark"
    <3>1. req[p].mark.q \in Places(req[p].n) /\ <<req[p].n, req[p].mark.q>> \in req[p].holds
      BY <1>7, <2>1, <2>2 DEF Firm
    <3> QED BY <1>6, <2>1, <3>1
  <2>3. CASE req[p].op # "mark"
    <3>1. <<req[p].n, 0>> \in req[p].holds
      BY <1>7, <2>1, <2>3 DEF Firm
    <3> QED BY <2>1, <3>1
  <2> QED BY <2>2, <2>3
<1>8. Grading'
  <2> SUFFICES ASSUME NEW p \in Requests PROVE Firm(req'[p]) /\ StillSo(req[p])'
    BY DEF Grading, Firm
  <2>1. CASE p = r
    BY <1>3, <2>1, Rows DEF Firm, StillSo
  <2>2. CASE p # r
    <3>1. req'[p] = req[p] /\ Firm(req[p]) /\ StillSo(req[p]) /\ Ticket(req[p])
      BY <1>0, <1>3, <2>2 DEF TotInv, Grading, TInv
    <3>2. ASSUME req[p].pc = "update" PROVE answer'[req[p].n] = answer[req[p].n]
      <4>1. req[p].n \in Numbers
        BY <3>1, <3>2 DEF Ticket
      <4> QED BY <1>4, <1>7, <2>2, <3>2, <4>1
    <3> QED BY <3>1, <3>2 DEF StillSo
  <2> QED BY <2>1, <2>2
<1>9. \A q \in Places(n) : rows[q].awarded = Points(n, q, t.read[q])
  <2> SUFFICES ASSUME NEW q \in Places(n) PROVE rows[q].awarded = Points(n, q, t.read[q])
    OBVIOUS
  <2>1. answer[n][q] \in AnswerRow \cup {NoAnswer} /\ t.read[q] = WithMark(answer[n][q], q, t.mark)
    BY <1>0, <1>1, <1>2 DEF TInv, Answers, StillSo
  <2> QED BY <2>1, AwardedIsCounted
<1> HIDE DEF rows
<1>10. RightTotal(n, row, rows)
  <2>1. \A q \in Written(n) : rows[q].awarded = t.read[q].awarded
    BY <1>9 DEF Written, Points
  <2>2. Pending(n, rows) <=> Pending(n, t.read)
    BY <2>1 DEF Pending
  <2>3. CASE Pending(n, t.read)
    BY <2>2, <2>3 DEF RightTotal, TotalOf
  <2>4. CASE ~ Pending(n, t.read)
    <3> DEFINE counted == MapThenSumSet(LAMBDA q : Points(n, q, t.read[q]), Places(n))
               sum == MapThenSumSet(LAMBDA q : rows[q].awarded, Places(n))
    <3>1. row = [status |-> "graded", total |-> Clamped(counted)]
      BY <2>4 DEF TotalOf
    <3>2. counted = sum
      <4> DEFINE f == [q \in Places(n) |-> Points(n, q, t.read[q])]
                 g == [q \in Places(n) |-> rows[q].awarded]
      <4>0. IsFiniteSet(Places(n))
        BY <1>2, PlacesFinite
      <4>1. counted = SumFunctionOnSet(f, Places(n))
        BY <4>0, PointsSum
      <4>2. sum = SumFunctionOnSet(g, Places(n))
        BY <4>0, AwardsSum
      <4>3. f = g
        BY <1>9
      <4> HIDE DEF f, g, counted, sum
      <4> QED BY <4>1, <4>2, <4>3
    <3> HIDE DEF counted, row
    <3>3. RightTotal(n, row, rows) <=>
            (row.status \in Closed => row = [status |-> "graded", total |-> IF sum < 0 THEN 0 ELSE sum])
      BY <2>2, <2>4 DEF RightTotal
    <3> HIDE DEF sum
    <3> QED BY <3>1, <3>2, <3>3 DEF Clamped
  <2> QED BY <2>3, <2>4
<1> HIDE DEF row
<1>11. AllTotals'
  <2> SUFFICES ASSUME NEW m \in Numbers PROVE RightTotal(m, attempt'[m], answer'[m])
    BY DEF AllTotals
  <2>1. CASE m = n
    BY <1>4, <1>10, <2>1
  <2>2. CASE m # n
    <3>1. attempt'[m] = attempt[m] /\ answer'[m] = answer[m]
      BY <1>4, <2>2
    <3>2. RightTotal(m, attempt[m], answer[m])
      BY DEF TotInv, AllTotals
    <3> QED BY <3>1, <3>2
  <2> QED BY <2>1, <2>2
<1> QED BY <1>5, <1>8, <1>11 DEF TotInv

\* The total of a closed attempt is the sum of what its answers were awarded,
\* and there is none while one waits to be marked, however many mark, submit
\* and close it at once.
THEOREM TotalsAddUp ==
  ASSUME UnsafePairs \subseteq NeverOverlap, ~ StartsOvertake
  PROVE Spec => []TotalIsSum
<1>1. TotInv /\ [Next]_vars => TotInv'
  <2> SUFFICES ASSUME TotInv, [Next]_vars PROVE TotInv'
    OBVIOUS
  <2>1. SitInv' /\ SitInv
    BY NextSitInv DEF TotInv
  <2>2. CASE UNCHANGED vars
    BY <2>1, <2>2 DEF vars, TotInv, HoldsApart, Grading, Firm, StillSo, AllTotals
  <2>3. ASSUME NEW n \in Numbers, TimeUp(n) PROVE TotInv'
    BY <2>1, <2>3 DEF TimeUp, TotInv, HoldsApart, Grading, Firm, StillSo, AllTotals
  <2> QED BY <2>1, <2>2, <2>3, StepsOf, LoadTotInv, GoesOnTotInv, InsertTotInv, SaveWriteTotInv,
             GradeCommitTotInv
<1> QED BY <1>1, InitTotInv, TotalsInWords, PTL DEF Spec, TotInv
===============================================================================
