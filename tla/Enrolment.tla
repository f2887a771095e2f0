------------------------------ MODULE Enrolment ------------------------------
(***************************************************************************)
(* Students' places in batches: the rows of `enrollments.Enrollment` and   *)
(* the columns of `batches.Batch` that decide who may hold one, written by *)
(* concurrent HTTP requests.                                               *)
(*                                                                         *)
(* ATOMIC_REQUESTS makes a request one PostgreSQL transaction at READ      *)
(* COMMITTED.  A request                                                   *)
(*   - loads the row it is about without a lock, and its service decides   *)
(*     on that loaded copy;                                                *)
(*   - may then lock a batch row (SELECT .. FOR UPDATE, or an UPDATE of    *)
(*     it), which waits for the request that holds the lock;               *)
(*   - reads committed rows at each statement;                             *)
(*   - commits, and only then do its writes become visible.                *)
(* Every one of these is a step here.  A refused request, and one that     *)
(* fails for any other reason, rolls back and has written nothing.         *)
(***************************************************************************)
EXTENDS Integers, FiniteSets

CONSTANTS
  Requests,     \* the requests (web workers) that may be in flight at once
  Students,     \* student profiles
  Batches,      \* batches (classes)
  Courses,      \* courses that are not archived
  Capacities,   \* the capacities an operator may give a batch
  MaxRows,      \* bound: enrolment rows ever inserted
  AtCentre,     \* the pairs <<s, b>> with s active and at b's centre
  Operations    \* the operations this deployment's users call

OperationNames == {"enrol", "transfer", "status", "batch_status", "edit"}

ASSUME ConstantsAssumption ==
  /\ Capacities \subseteq Nat \ {0}
  /\ MaxRows \in Nat
  /\ AtCentre \subseteq Students \X Batches
  /\ Operations \subseteq OperationNames

VARIABLES
  row,      \* the enrolment table: a row, or Absent, for every row number
  batch,    \* the batch table
  lock,     \* the row lock of each batch: the requests that hold it
  req       \* what each request is doing, with the copies it has loaded

vars == <<row, batch, lock, req>>

-----------------------------------------------------------------------------
(***************************************************************************)
(* Statuses.                                                               *)
(***************************************************************************)

Live == {"pending", "active", "suspended"}
Transferable == {"pending", "active", "suspended"}
SeatHolding == Live \cup {"completed"}
EnrolmentStatuses == SeatHolding \cup {"cancelled", "transferred"}

Enrollable == {"upcoming", "active"}
BatchStatuses == Enrollable \cup {"completed", "cancelled", "archived"}

\* Mutant of the table below: any user may mark a row transferred.
MayBecomeTransferred(from) ==
  IF from = "active" THEN {"suspended", "completed", "cancelled", "transferred"}
  ELSE IF from = "pending" THEN {"active", "cancelled"} ELSE {}

\* Where a status may go, for an enrolment and for a batch.
MayBecome(from) ==
  CASE from = "pending"   -> {"active", "cancelled"}
    [] from = "active"    -> {"suspended", "completed", "cancelled"}
    [] from = "suspended" -> {"active", "cancelled"}
    [] OTHER              -> {}

BatchMayBecome(from) ==
  CASE from = "upcoming"                 -> {"active", "cancelled"}
    [] from = "active"                   -> {"completed", "cancelled"}
    [] from \in {"completed", "cancelled"} -> {"archived"}
    [] OTHER                             -> {}

\* Mutants of the cascade: it forgets whoever is not active; it takes the
\* finished enrolments along.
CascadeActive(target) == IF target \in {"completed", "cancelled"} THEN {"active"} ELSE {}
CascadeFinished(target) ==
  IF target = "cancelled" THEN SeatHolding ELSE IF target = "completed" THEN {"active"} ELSE {}

\* The enrolments a batch takes with it when it moves to a status, and where.
Cascade(target) ==
  CASE target = "cancelled" -> Live
    [] target = "completed" -> {"active"}
    [] OTHER                -> {}

-----------------------------------------------------------------------------
(***************************************************************************)
(* The tables.  Row numbers are handed out in insertion order; 0 is the    *)
(* null of `transferred_to`.                                               *)
(***************************************************************************)

Rows == 1 .. MaxRows
Absent == [status |-> "absent"]

EnrolmentRow ==
  [status: EnrolmentStatuses, student: Students, batch: Batches, course: Courses,
   next: 0 .. MaxRows]

BatchRow ==
  [status: BatchStatuses, capacity: Capacities, course: Courses]

Present(e) == row[e] # Absent

\* n is the row number the next INSERT takes.
Fresh(n) == \A m \in Rows : Present(m) <=> m < n

\* The rows of batch b whose status is in the set S.
RowsIn(b, S) == {e \in Rows : row[e].status \in S /\ row[e].batch = b}

Seats(b) == Cardinality(RowsIn(b, SeatHolding))

\* Mutant: off by one.
FullWhenOver(b) == Seats(b) > batch[b].capacity
IsFull(b) == Seats(b) >= batch[b].capacity

\* The live rows student s holds on batch b, other than row e.
OtherLive(s, b, e) == {d \in RowsIn(b, Live) : d # e /\ row[d].student = s}

\* Mutant: no index.
NoIndex(s, b, e, status) == TRUE

\* The partial unique index enrollment_one_live_per_student_batch lets row e
\* of student s on batch b have this status.
IndexAllows(s, b, e, status) == status \in Live => OtherLive(s, b, e) = {}

-----------------------------------------------------------------------------
(***************************************************************************)
(* The requests.  `pc` names the statement a request has reached.          *)
(***************************************************************************)

Idle == [pc |-> "idle"]

Enrolling ==
  [pc: {"enrol", "enrol_checked"},
   student: Students, batch: Batches, want: {"pending", "active"}, source: 0 .. MaxRows]
Moving ==
  [pc: {"reactivate", "status"}, row: Rows,
   want: EnrolmentStatuses \ {"pending", "transferred"}]
MovingBatch ==
  [pc: {"batch_status", "batch_written"}, batch: Batches,
   want: BatchStatuses \ {"upcoming"}, rows: SUBSET Rows]
Editing ==
  [pc: {"edit", "edit_ready"}, batch: Batches, capacity: Capacities \cup {0},
   course: SUBSET Courses]

\* Mutant: a plain SELECT, which waits for nobody.
NoLock(b) == TRUE
LockFree(b) == lock[b] = {}

Locks(r, b) == lock' = [lock EXCEPT ![b] = {r}]

\* Mutant: a lock outlives the request that took it.
EndsKeepingLocks(r) == req' = [req EXCEPT ![r] = Idle] /\ UNCHANGED lock

\* Request r ends: by committing or by rolling back.
Ends(r) ==
  /\ req' = [req EXCEPT ![r] = Idle]
  /\ lock' = [b \in Batches |-> lock[b] \ {r}]

\* Request r moves on to the next statement without touching a table.
Goes(r, where) ==
  /\ req' = [req EXCEPT ![r].pc = where]
  /\ UNCHANGED <<row, batch>>

\* Request r, doing nothing so far, calls one of the operations.
Starts(r, op) ==
  /\ op \in Operations
  /\ req[r] = Idle
  /\ UNCHANGED <<row, batch, lock>>

\* A dead connection, a timeout or a killed worker: the transaction rolls back.
RollBack(r) ==
  /\ req[r] # Idle
  /\ Ends(r)
  /\ UNCHANGED <<row, batch>>

-----------------------------------------------------------------------------
(***************************************************************************)
(* Enrolling, and transferring, which enrols on the target first.          *)
(***************************************************************************)

StartEnrol(r, s, b, status) ==
  /\ Starts(r, "enrol")
  /\ req' = [req EXCEPT ![r] =
       [pc |-> "enrol", student |-> s, batch |-> b, want |-> status, source |-> 0]]

\* Mutant: a transfer to the batch the student is on.
AnyTarget(e, b) == TRUE
IsAnother(e, b) == row[e].batch # b

\* The enrolment is loaded and checked here; the status the student gets on
\* the target is that copy's.
StartTransfer(r, e, b) ==
  /\ row[e].status \in Transferable
  /\ IsAnother(e, b)
  /\ <<row[e].student, b>> \in AtCentre
  /\ Starts(r, "transfer")
  /\ req' = [req EXCEPT ![r] =
       [pc |-> "enrol", student |-> row[e].student, batch |-> b,
        want |-> IF row[e].status = "active" THEN "active" ELSE "pending",
        source |-> e]]

\* Enrollable, at the student's centre, not a duplicate, a seat left.
Admits(t) ==
  /\ <<t.student, t.batch>> \in AtCentre
  /\ batch[t.batch].status \in Enrollable
  /\ OtherLive(t.student, t.batch, 0) = {}
  /\ ~ IsFull(t.batch)

\* SELECT .. FOR UPDATE on the batch waits for its lock; the checks then read
\* what is committed.
EnrolCheck(r) ==
  LET t == req[r] IN
  /\ t.pc = "enrol"
  /\ LockFree(t.batch)
  /\ Admits(t)
  /\ Locks(r, t.batch)
  /\ Goes(r, "enrol_checked")

\* What the transferred row becomes: written from the copy loaded at the
\* start, whatever the row is by now.
Transferred(e, n) == [row[e] EXCEPT !.status = "transferred", !.next = n]

\* The INSERT, with the UPDATE of the transferred row, and COMMIT.
EnrolCommit(r) ==
  LET t == req[r] IN
  /\ t.pc = "enrol_checked"
  /\ IndexAllows(t.student, t.batch, 0, t.want)
  /\ \E n \in Rows :
       /\ Fresh(n)
       /\ row' = [e \in Rows |->
            IF e = n THEN [status |-> t.want, student |-> t.student, batch |-> t.batch,
                           course |-> batch[t.batch].course, next |-> 0]
            ELSE IF e = t.source THEN Transferred(e, n) ELSE row[e]]
  /\ Ends(r)
  /\ UNCHANGED batch

-----------------------------------------------------------------------------
(***************************************************************************)
(* Changing one enrolment's status.                                        *)
(***************************************************************************)

\* Only the reactivation of a suspended copy goes by way of the seat count.
StartStatus(r, e, target) ==
  /\ target \in MayBecome(row[e].status)
  /\ Starts(r, "status")
  /\ req' = [req EXCEPT ![r] =
       [pc |-> IF row[e].status = "suspended" /\ target = "active"
               THEN "reactivate" ELSE "status",
        row |-> e, want |-> target]]

OverFull(b) == Seats(b) > batch[b].capacity

\* The batch is locked and its seats are counted.
ReactivateCheck(r) ==
  LET b == row[req[r].row].batch IN
  /\ req[r].pc = "reactivate"
  /\ LockFree(b)
  /\ ~ OverFull(b)
  /\ Locks(r, b)
  /\ Goes(r, "status")

\* UPDATE .. SET status by primary key, and COMMIT.
StatusCommit(r) ==
  LET t == req[r]  e == t.row IN
  /\ t.pc = "status"
  /\ IndexAllows(row[e].student, row[e].batch, e, t.want)
  /\ row' = [row EXCEPT ![e].status = t.want]
  /\ Ends(r)
  /\ UNCHANGED batch

-----------------------------------------------------------------------------
(***************************************************************************)
(* Changing a batch's status, which cascades to its enrolments.            *)
(***************************************************************************)

StartBatchStatus(r, b, target) ==
  /\ target \in BatchMayBecome(batch[b].status)
  /\ Starts(r, "batch_status")
  /\ req' = [req EXCEPT ![r] =
       [pc |-> "batch_status", batch |-> b, want |-> target, rows |-> {}]]

\* The UPDATE of the batch row waits for its lock, and others see it at COMMIT;
\* the enrolments to take along are selected next.
BatchWrite(r) ==
  LET t == req[r] IN
  /\ t.pc = "batch_status"
  /\ LockFree(t.batch)
  /\ Locks(r, t.batch)
  /\ req' = [req EXCEPT ![r].pc = "batch_written",
                        ![r].rows = RowsIn(t.batch, Cascade(t.want))]
  /\ UNCHANGED <<row, batch>>

BatchCommit(r) ==
  LET t == req[r] IN
  /\ t.pc = "batch_written"
  /\ batch' = [batch EXCEPT ![t.batch].status = t.want]
  /\ row' = [e \in Rows |-> IF e \in t.rows THEN [row[e] EXCEPT !.status = t.want]
                                            ELSE row[e]]
  /\ Ends(r)

-----------------------------------------------------------------------------
(***************************************************************************)
(* Editing a batch.                                                        *)
(***************************************************************************)

\* A field that does not differ from the loaded copy is not written: 0 is "no
\* new capacity" and {} "no new course".
StartEdit(r, b, c, k) ==
  /\ c \in Capacities \cup {0} /\ k \in SUBSET Courses
  /\ c # batch[b].capacity
  /\ Cardinality(k) <= 1 /\ batch[b].course \notin k
  /\ c # 0 \/ k # {}
  /\ Starts(r, "edit")
  /\ req' = [req EXCEPT ![r] =
       [pc |-> "edit", batch |-> b, capacity |-> c, course |-> k]]

\* The seats are counted, with no lock, when a capacity is given.
CapacityFits(t) == t.capacity # 0 => t.capacity >= Seats(t.batch)

EditCheck(r) ==
  /\ req[r].pc = "edit"
  /\ CapacityFits(req[r])
  /\ Goes(r, "edit_ready")
  /\ UNCHANGED lock

EditCommit(r) ==
  LET t == req[r] IN
  /\ t.pc = "edit_ready"
  /\ LockFree(t.batch)
  /\ \E k \in IF t.course = {} THEN {batch[t.batch].course} ELSE t.course :
       batch' = [batch EXCEPT
                   ![t.batch].capacity = IF t.capacity = 0 THEN @ ELSE t.capacity,
                   ![t.batch].course = k]
  /\ Ends(r)
  /\ UNCHANGED row

-----------------------------------------------------------------------------
\* A check made after the start, or the unique index, refuses: the exception
\* rolls the transaction back.  (The first line also stops at MaxRows.)
Refuse(r) ==
  LET t == req[r] IN
  /\ \/ t.pc = "enrol_checked" /\ ~ (IndexAllows(t.student, t.batch, 0, t.want)
                                    /\ \E n \in Rows : Fresh(n))
     \/ t.pc = "enrol" /\ LockFree(t.batch) /\ ~ Admits(t)
     \/ t.pc = "reactivate" /\ LockFree(row[t.row].batch) /\ OverFull(row[t.row].batch)
     \/ t.pc = "status" /\ ~ IndexAllows(row[t.row].student, row[t.row].batch, t.row, t.want)
     \/ t.pc = "edit" /\ ~ CapacityFits(t)
  /\ Ends(r)
  /\ UNCHANGED <<row, batch>>

-----------------------------------------------------------------------------
Init ==
  /\ row = [e \in Rows |-> Absent]
  /\ batch \in [Batches -> {b \in BatchRow : b.status = "upcoming"}]
  /\ lock = [b \in Batches |-> {}]
  /\ req = [r \in Requests |-> Idle]

Start(r) ==
  \/ \E s \in Students, b \in Batches, status \in {"pending", "active"} :
       StartEnrol(r, s, b, status)
  \/ \E e \in Rows, b \in Batches : StartTransfer(r, e, b)
  \/ \E e \in Rows, target \in EnrolmentStatuses : StartStatus(r, e, target)
  \/ \E b \in Batches, target \in BatchStatuses : StartBatchStatus(r, b, target)
  \/ \E b \in Batches, c \in Capacities \cup {0}, k \in SUBSET Courses : StartEdit(r, b, c, k)

\* The statements of a request that has started, up to its commit.
Advance(r) ==
  \/ EnrolCheck(r) \/ EnrolCommit(r)
  \/ ReactivateCheck(r) \/ StatusCommit(r)
  \/ BatchWrite(r) \/ BatchCommit(r)
  \/ EditCheck(r) \/ EditCommit(r)

Next == \E r \in Requests : Start(r) \/ Advance(r) \/ Refuse(r) \/ RollBack(r)

Spec == Init /\ [][Next]_vars

\* A worker runs the request it has taken, and PostgreSQL grants a row lock in
\* the order it was asked for; nothing makes users send requests, and nothing
\* makes a transaction fail.
Fairness == \A r \in Requests : SF_vars(Advance(r) \/ Refuse(r))

FairSpec == Spec /\ Fairness

-----------------------------------------------------------------------------
(***************************************************************************)
(* Properties.                                                             *)
(***************************************************************************)

\* The tables, the locks and the requests' copies have their types.
TypeOK ==
  /\ row \in [Rows -> EnrolmentRow \cup {Absent}]
  /\ batch \in [Batches -> BatchRow]
  /\ lock \in [Batches -> SUBSET Requests]
  /\ req \in [Requests -> Enrolling \cup Moving \cup MovingBatch \cup Editing \cup {Idle}]

\* enrollments.services, "Capacity": no batch has more seats taken than its
\* capacity, however enrolments, transfers and batch cascades interleave.
SeatsWithinCapacity == \A b \in Batches : Seats(b) <= batch[b].capacity

\* A student has at most one live enrolment on a batch, also when a request
\* writes a live status it decided on before the row left it.
OneLivePerStudentBatch ==
  \A b \in Batches : \A d, e \in RowsIn(b, Live) : row[d].student = row[e].student => d = e

\* set_batch_status: cancelling cascades, so no enrolment stays live on a
\* cancelled batch.
NoLiveOnCancelledBatch ==
  \A b \in Batches : batch[b].status = "cancelled" => RowsIn(b, Live) = {}

\* TRANSITIONS: a row marked transferred names where the student went.
TransferredHasSuccessor ==
  \A e \in Rows : row[e].status = "transferred" => row[e].next # 0

\* transfer_chain: successors are later rows of the same student on another
\* batch, and no row succeeds two; so a chain cannot turn into a cycle.
ChainsRunForward ==
  \A e \in Rows : Present(e) /\ row[e].next # 0 =>
    LET n == row[e].next IN
    /\ n > e /\ Present(n)
    /\ row[n].student = row[e].student /\ row[n].batch # row[e].batch
    /\ \A d \in Rows : Present(d) /\ row[d].next = n => d = e

\* TRANSITIONS, "Terminal", and transfer_student, "the whole journey is still
\* reachable": a finished enrolment stays as it was, and so does the successor
\* of a transferred one.
TerminalStays ==
  [][\A e \in Rows : Present(e) /\ row[e].status \notin Live => row'[e] = row[e]]_vars

\* A batch row's lock is held by one request at a time, and by one that is
\* between its check and its commit on that batch.
LockedByOneInFlight ==
  \A b \in Batches : \A r \in lock[b] :
    /\ lock[b] = {r}
    /\ \/ req[r].pc \in {"enrol_checked", "batch_written"} /\ req[r].batch = b
       \/ req[r].pc = "status" /\ row[req[r].row].batch = b

\* What the services promise, with every operation at once (see Roster).
Promise == INSTANCE Roster WITH
  roster <- [b \in Batches |-> {row[e].student : e \in RowsIn(b, Live)}],
  finished <- [b \in Batches |-> Cardinality(RowsIn(b, {"completed"}))],
  open <- [b \in Batches |-> batch[b].status \in Enrollable],
  capacity <- [b \in Batches |-> batch[b].capacity]

ImplementsRoster == Promise!Spec

\* Every request that starts ends: no batch lock is left behind, and no two
\* requests wait for each other's.
RequestsEnd == \A r \in Requests : req[r] # Idle ~> req[r] = Idle
==============================================================================
