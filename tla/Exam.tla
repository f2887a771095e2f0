-------------------------------- MODULE Exam --------------------------------
(***************************************************************************)
(* One student sitting one examination: the `ExamAttempt` rows, the        *)
(* `AttemptAnswer` rows of each, and the requests of candidate, markers    *)
(* and whoever else looks at an attempt (exams/services.py).               *)
(*                                                                         *)
(* A request is one transaction at READ COMMITTED.  start_attempt locks    *)
(* the latest attempt; nothing else locks anything but by writing it: an   *)
(* UPDATE holds its row until the request ends, and an INSERT holds the    *)
(* entry of its unique index.  Marking writes the answers one by one, in   *)
(* the order of the paper, then the attempt.  A request that waits for one *)
(* which waits for it is rolled back by PostgreSQL.                        *)
(***************************************************************************)
EXTENDS Integers, Sequences, FiniteSets, FiniteSetsExt

CONSTANTS
  Requests,      \* the requests that may be in flight at once
  MaxAttempts,   \* exam.max_attempts
  Paper,         \* the questions drawn for each attempt: "auto" or "written"
  MaxMark,       \* what a written question is worth
  Unmarked,      \* the null of `awarded` and `total_score`
  NeverOverlap,  \* the pairs of operations assumed never in flight together
  StartsOvertake \* one start may insert between another's query and its count

Numbers == 1 .. MaxAttempts
Places(n) == DOMAIN Paper[n]
Written(n) == {q \in Places(n) : Paper[n][q] = "written"}

\* The only pairs of operations whose overlap breaks a property below: an
\* answer saved while its attempt is closed.
UnsafePairs == {{"save", "close"}, {"save", "start"}}

ASSUME ExamAssumption ==
  /\ MaxAttempts \in Nat \ {0} /\ MaxMark \in Nat
  /\ Paper \in [Numbers -> Seq({"auto", "written"})]
  /\ Unmarked \notin Int
  /\ NeverOverlap \subseteq SUBSET {"start", "save", "close", "mark"}
  /\ StartsOvertake \in BOOLEAN

VARIABLES
  attempt,   \* the attempts, by attempt_number: a row, or NoAttempt
  answer,    \* their answers, by position: a row, or NoAnswer
  late,      \* the attempts whose expires_at has passed
  req        \* what each request is doing, with the copies it has loaded

vars == <<attempt, answer, late, req>>

-----------------------------------------------------------------------------
(***************************************************************************)
(* Rows.                                                                   *)
(***************************************************************************)

Closed == {"submitted", "graded"}
NoAttempt == [status |-> "none", total |-> Unmarked]
Started == [status |-> "in_progress", total |-> Unmarked]
AttemptStatuses == {"none", "in_progress"} \cup Closed

\* What the candidate put down, as the answer key sees it.
Given == {"blank", "right", "wrong", "written"}
MayGive(kind) == IF kind = "written" THEN {"blank", "written"} ELSE {"blank", "right", "wrong"}
Marks == 0 .. MaxMark
AnswerRow == [given: Given, awarded: {-1, 1, Unmarked} \cup Marks, manual: BOOLEAN]
NoAnswer == [given |-> "none", awarded |-> Unmarked, manual |-> FALSE]
Blank == [given |-> "blank", awarded |-> Unmarked, manual |-> FALSE]

Found(row) == IF row = NoAnswer THEN Blank ELSE row

Sat == {n \in Numbers : attempt[n] # NoAttempt}
Latest == IF Sat = {} THEN 0 ELSE Max(Sat)
InProgress(n) == attempt[n].status = "in_progress"

-----------------------------------------------------------------------------
(***************************************************************************)
(* Requests.  `holds` are the rows a request has written or locked:        *)
(* <<n, 0>> is attempt n, <<n, q>> its answer to question q.               *)
(***************************************************************************)

Idle == [op |-> "none", pc |-> "idle", holds |-> {}]

Free(r, x) == \A p \in Requests \ {r} : x \notin req[p].holds

MayOverlap(r, op) ==
  \A p \in Requests \ {r} : req[p] # Idle => {op, req[p].op} \notin NeverOverlap

Starts(r, ticket) ==
  /\ req[r] = Idle /\ MayOverlap(r, ticket.op)
  /\ req' = [req EXCEPT ![r] = ticket]
  /\ UNCHANGED <<attempt, answer, late>>

Goes(r, ticket) == req' = [req EXCEPT ![r] = ticket] /\ UNCHANGED <<attempt, answer, late>>

Ends(r) == req' = [req EXCEPT ![r] = Idle] /\ UNCHANGED late

\* Refused (an exam opens and closes as the staff and its window have it, so
\* a start may be refused at any time), deadlocked, in conflict with a unique
\* index, or cut off.
RollBack(r) == req[r] # Idle /\ Goes(r, Idle)

\* The request has written what `holds` says and comes to grade_attempt.
Grades(r, n, mark, holds) ==
  Goes(r, [op |-> req[r].op, pc |-> "grade", n |-> n, mark |-> mark, holds |-> holds])

NoMark == [q |-> 0, value |-> 0]

-----------------------------------------------------------------------------
(***************************************************************************)
(* Sitting: start_attempt, save_answer, submit_attempt, finalise_expired.  *)
(***************************************************************************)

\* SELECT .. FOR UPDATE picks the latest attempt, then waits for it; an
\* attempt inserted meanwhile is not looked at.
StartLook(r) == Starts(r, [op |-> "start", pc |-> "look", n |-> Latest, holds |-> {}])

\* Mutant: a sitting under way is not resumed.
NeverResumes(n) == FALSE
Resumes(n) == n # 0 /\ InProgress(n)

StartLock(r) ==
  LET n == req[r].n
      held == IF n = 0 THEN {} ELSE {<<n, 0>>}
  IN /\ req[r].pc = "look"
     /\ n # 0 => Free(r, <<n, 0>>)
     /\ IF Resumes(n)
        THEN IF n \in late THEN Grades(r, n, NoMark, held) ELSE Goes(r, Idle)
        ELSE Goes(r, [op |-> "start", pc |-> "count", holds |-> held])

StartCount(r) ==
  /\ req[r].pc = "count"
  /\ Cardinality(Sat) < MaxAttempts
  /\ Goes(r, [op |-> "start", pc |-> "insert", used |-> Cardinality(Sat),
              holds |-> req[r].holds])

StartInsert(r) ==
  LET n == req[r].used + 1 IN
  /\ req[r].pc = "insert"
  /\ StartsOvertake \/ \A p \in Requests : req[p].pc \notin {"look", "count"}
  /\ attempt[n] = NoAttempt
  /\ attempt' = [attempt EXCEPT ![n] = Started]
  /\ Ends(r)
  /\ UNCHANGED answer

\* attempt_one_row_per_sitting refused the row: the winner's attempt is
\* handed back, closed first when its time is up.
StartLost(r) ==
  /\ req[r].pc = "insert"
  /\ attempt[req[r].used + 1] # NoAttempt
  /\ InProgress(Latest)
  /\ IF Latest \in late
     THEN Goes(r, [op |-> "start", pc |-> "close", n |-> Latest, open |-> TRUE,
                   holds |-> req[r].holds])
     ELSE Goes(r, Idle)

\* The view loads the attempt.
LoadAttempt(r, op, n) ==
  /\ n \in Sat
  /\ Starts(r, [op |-> op, pc |-> op, n |-> n, open |-> InProgress(n), holds |-> {}])

\* Past the deadline the attempt is closed and then an error raised, which
\* takes the closing back: RollBack.
\* Mutant: an answer is taken whatever the attempt says.
SavesAlways(t) == TRUE
MaySave(t) == t.open /\ t.n \notin late

\* get_or_create hands over the answer, inserting it when there is none.
SaveRead(r) ==
  LET n == req[r].n IN
  /\ req[r].pc = "save"
  /\ MaySave(req[r])
  /\ \E q \in Places(n) : \E given \in MayGive(Paper[n][q]) :
       /\ answer[n][q] = NoAnswer => Free(r, <<n, q>>)
       /\ Goes(r, [op |-> "save", pc |-> "write", n |-> n, q |-> q, given |-> given,
                   row |-> Found(answer[n][q]),
                   holds |-> IF answer[n][q] = NoAnswer THEN {<<n, q>>} ELSE {}])

\* The whole row is saved, with what the copy said of its marks.
SaveWrite(r) ==
  LET t == req[r] IN
  /\ t.pc = "write"
  /\ Free(r, <<t.n, t.q>>)
  /\ answer' = [answer EXCEPT ![t.n][t.q] = [t.row EXCEPT !.given = t.given]]
  /\ Ends(r)
  /\ UNCHANGED attempt

\* The candidate submits, or anybody opens an attempt whose time is up; both
\* refuse a copy that is closed.
CloseWrite(r) ==
  LET n == req[r].n IN
  /\ req[r].pc = "close"
  /\ req[r].open
  /\ Free(r, <<n, 0>>)
  /\ Grades(r, n, NoMark, req[r].holds \cup {<<n, 0>>})

-----------------------------------------------------------------------------
(***************************************************************************)
(* Marking: mark_written_answer and grade_attempt.                         *)
(***************************************************************************)

LoadAnswer(r, n, q, value) ==
  /\ answer[n][q].manual
  /\ Starts(r, [op |-> "mark", pc |-> "mark", n |-> n, mark |-> [q |-> q, value |-> value],
                holds |-> {}])

MarkWrite(r) ==
  LET t == req[r] IN
  /\ t.pc = "mark"
  /\ Free(r, <<t.n, t.mark.q>>)
  /\ Grades(r, t.n, t.mark, {<<t.n, t.mark.q>>})

\* A row with the mark, uncommitted, that the request itself has given.
WithMark(row, q, mark) == IF q = mark.q THEN [row EXCEPT !.awarded = mark.value] ELSE row

GradeRead(r) ==
  LET t == req[r] IN
  /\ t.pc = "grade"
  /\ Goes(r, [op |-> t.op, pc |-> "update", n |-> t.n, mark |-> t.mark, at |-> 1,
              read |-> [q \in Places(t.n) |-> WithMark(answer[t.n][q], q, t.mark)],
              holds |-> t.holds])

\* Mutant: only the rows that change are saved.
LocksChanged(t) == IF t.at \in Written(t.n) /\ t.read[t.at].manual THEN {} ELSE {<<t.n, t.at>>}
\* Every answer is saved, whether it changes or not.
Locked(t) == {<<t.n, t.at>>}

\* One answer is saved, or inserted where none was read.
GradeUpdate(r) ==
  LET t == req[r] IN
  /\ t.pc = "update" /\ t.at \in Places(t.n)
  /\ \A x \in Locked(t) : Free(r, x)
  /\ t.read[t.at] = NoAnswer => answer[t.n][t.at] = NoAnswer
  /\ Goes(r, [t EXCEPT !.at = @ + 1, !.holds = @ \cup Locked(t)])

\* _grade_answer, with negative marking: a blank is not a wrong answer.
Worth(given) == CASE given = "right" -> 1 [] given = "wrong" -> -1 [] OTHER -> 0

\* The columns grade_attempt writes to an answer read as `seen`.
Graded(n, q, seen, row, mark) ==
  IF q \in Written(n) THEN [WithMark(Found(row), q, mark) EXCEPT !.manual = TRUE]
  ELSE [Found(row) EXCEPT !.manual = FALSE, !.awarded = Worth(Found(seen).given)]

Pending(n, read) == \E q \in Written(n) : read[q].awarded = Unmarked

Points(n, q, seen) == IF q \in Written(n) THEN seen.awarded ELSE Worth(Found(seen).given)

Clamped(x) == IF x < 0 THEN 0 ELSE x

TotalOf(n, read) ==
  IF Pending(n, read) THEN Unmarked
  ELSE Clamped(MapThenSumSet(LAMBDA q : Points(n, q, read[q]), Places(n)))

GradeCommit(r) ==
  LET t == req[r] IN
  /\ t.pc = "update" /\ t.at \notin Places(t.n)
  /\ Free(r, <<t.n, 0>>)
  /\ answer' = [answer EXCEPT ![t.n] =
       [q \in Places(t.n) |-> Graded(t.n, q, t.read[q], answer[t.n][q], t.mark)]]
  /\ attempt' = [attempt EXCEPT ![t.n] =
       [status |-> IF Pending(t.n, t.read) THEN "submitted" ELSE "graded",
        total |-> TotalOf(t.n, t.read)]]
  /\ Ends(r)

-----------------------------------------------------------------------------
(***************************************************************************)
(* Around them: the clock.                                                 *)
(***************************************************************************)

TimeUp(n) ==
  /\ InProgress(n) /\ n \notin late
  /\ late' = late \cup {n}
  /\ UNCHANGED <<attempt, answer, req>>

-----------------------------------------------------------------------------

Init ==
  /\ attempt = [n \in Numbers |-> NoAttempt]
  /\ answer = [n \in Numbers |-> [q \in Places(n) |-> NoAnswer]]
  /\ late = {}
  /\ req = [r \in Requests |-> Idle]

Load(r) ==
  \/ StartLook(r)
  \/ \E n \in Numbers : LoadAttempt(r, "save", n) \/ LoadAttempt(r, "close", n)
  \/ \E n \in Numbers, value \in Marks : \E q \in Written(n) : LoadAnswer(r, n, q, value)

Sit(r) ==
  \/ StartLock(r) \/ StartCount(r) \/ StartInsert(r) \/ StartLost(r)
  \/ SaveRead(r)
  \/ SaveWrite(r) \/ CloseWrite(r)

Mark(r) == MarkWrite(r) \/ GradeRead(r) \/ GradeUpdate(r) \/ GradeCommit(r)

Next ==
  \/ \E r \in Requests : Load(r) \/ Sit(r) \/ Mark(r) \/ RollBack(r)
  \/ \E n \in Numbers : TimeUp(n)

Spec == Init /\ [][Next]_vars

-----------------------------------------------------------------------------
(***************************************************************************)
(* Properties.                                                             *)
(***************************************************************************)

\* Rows hold what their columns can hold, and attempts are numbered without a
\* gap, though two starts may work out the same number.
TypeOK ==
  /\ \A n \in Numbers : attempt[n].status \in AttemptStatuses
  /\ \A n \in Numbers : answer[n] \in [Places(n) -> AnswerRow \cup {NoAnswer}]
  /\ late \subseteq Sat
  /\ Sat = 1 .. Latest

\* "A candidate who refreshes, or who double-clicks Start, gets the attempt
\* they already have": there is one sitting at a time, though two starts may
\* both find that there is none.
OneSitting == \A m, n \in Numbers : InProgress(m) /\ InProgress(n) => m = n

\* "The total is always the sum of what is currently known", never less than
\* nothing, and there is none while a written answer waits: two markers at
\* once, a second submission and a late closing included.
TotalIsSum ==
  \A n \in Numbers : attempt[n].status \in Closed =>
    IF Pending(n, answer[n])
    THEN attempt[n] = [status |-> "submitted", total |-> Unmarked]
    ELSE LET sum == MapThenSumSet(LAMBDA q : answer[n][q].awarded, Places(n))
         IN attempt[n] = [status |-> "graded", total |-> IF sum < 0 THEN 0 ELSE sum]

\* What is handed in stays handed in as it was: a closed attempt is not opened
\* again, and no answer on it changes.
HandedInStays ==
  [][\A n \in Numbers : attempt[n].status \in Closed =>
       /\ attempt'[n].status \in Closed
       /\ \A q \in Places(n) : answer'[n][q].given = answer[n][q].given]_vars
=============================================================================
