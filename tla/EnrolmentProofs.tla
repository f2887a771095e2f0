--------------------------- MODULE EnrolmentProofs ---------------------------
(***************************************************************************)
(* Proofs about Enrolment, for any number of requests, students, batches   *)
(* and rows.                                                               *)
(***************************************************************************)
EXTENDS Enrolment, FiniteSetTheorems, FunctionTheorems, TLAPS

Tickets == Enrolling \cup Moving \cup MovingBatch \cup Editing \cup {Idle}

\* What a request in flight knows of the rows it is going to write.
TicketsPointAtRows ==
  \A r \in Requests :
    /\ req[r] \in Enrolling /\ req[r].source # 0 =>
         /\ Present(req[r].source)
         /\ row[req[r].source].student = req[r].student
         /\ row[req[r].source].batch # req[r].batch
    /\ req[r] \in Moving => Present(req[r].row)
    /\ req[r] \in MovingBatch =>
         /\ \A e \in req[r].rows : Present(e) /\ row[e].batch = req[r].batch
         /\ req[r].rows # {} => req[r].want \in {"cancelled", "completed"}

IInv == TypeOK /\ TicketsPointAtRows

\* The inductive invariant holds at the start: there are no rows and no tickets.
LEMMA InitIInv == Init => IInv
  BY ConstantsAssumption DEF Init, IInv, TypeOK, TicketsPointAtRows, Idle, Absent, Rows, BatchRow,
     Enrolling, Moving, MovingBatch

\* TRANSITIONS leads out of live statuses only, and never to pending or transferred.
LEMMA StatusMoves ==
  ASSUME NEW from, NEW to \in MayBecome(from)
  PROVE from \in Live /\ to \in EnrolmentStatuses \ {"pending", "transferred"}
<1> USE DEF MayBecome, EnrolmentStatuses, SeatHolding, Live
<1>1. CASE from = "pending"
  BY <1>1
<1>2. CASE from = "active"
  BY <1>2
<1>3. CASE from = "suspended"
  BY <1>3
<1>4. CASE from \notin {"pending", "active", "suspended"}
  <2>1. MayBecome(from) = {}
    BY <1>4
  <2> QED BY <2>1
<1> QED BY <1>1, <1>2, <1>3, <1>4

\* The statement a request has reached tells what kind of ticket it holds.
LEMMA KindOfTicket ==
  ASSUME TypeOK, NEW r \in Requests
  PROVE /\ req[r].pc \in {"enrol", "enrol_checked"} <=> req[r] \in Enrolling
        /\ req[r].pc \in {"reactivate", "status"} <=> req[r] \in Moving
        /\ req[r].pc \in {"batch_status", "batch_written"} <=> req[r] \in MovingBatch
        /\ req[r].pc \in {"edit", "edit_ready"} <=> req[r] \in Editing
<1>1. req[r] \in Enrolling \/ req[r] \in Moving \/ req[r] \in MovingBatch \/ req[r] \in Editing
        \/ req[r] = Idle
  BY DEF TypeOK
<1>2. /\ req[r] \in Enrolling => req[r].pc \in {"enrol", "enrol_checked"}
      /\ req[r] \in Moving => req[r].pc \in {"reactivate", "status"}
      /\ req[r] \in MovingBatch => req[r].pc \in {"batch_status", "batch_written"}
      /\ req[r] \in Editing => req[r].pc \in {"edit", "edit_ready"}
      /\ req[r] = Idle => req[r].pc = "idle"
  BY DEF Enrolling, Moving, MovingBatch, Editing, Idle
<1> QED BY <1>1, <1>2

\* Starting a request gives it a ticket about rows that are there.
LEMMA StartIInv ==
  ASSUME IInv, NEW r \in Requests, Start(r)
  PROVE IInv'
<1> USE ConstantsAssumption DEF IInv, Rows, TypeOK, Starts, TicketsPointAtRows, Present,
      Enrolling, Moving, MovingBatch, Editing, EnrolmentRow, Absent, Idle
<1>1. CASE \E s \in Students, b \in Batches, status \in {"pending", "active"} :
              StartEnrol(r, s, b, status)
  BY <1>1 DEF StartEnrol
<1>2. CASE \E e \in Rows, b \in Batches : StartTransfer(r, e, b)
  BY <1>2 DEF StartTransfer, Transferable, IsAnother
<1>3. CASE \E e \in Rows, target \in EnrolmentStatuses : StartStatus(r, e, target)
  <2>1. PICK e \in Rows, target \in EnrolmentStatuses : StartStatus(r, e, target)
    BY <1>3
  <2>2. row[e].status \in Live /\ target \in EnrolmentStatuses \ {"pending", "transferred"}
    BY <2>1, StatusMoves DEF StartStatus
  <2>3. Present(e)
    BY <2>2 DEF Live
  <2> QED BY <2>1, <2>2, <2>3 DEF StartStatus
<1>4. CASE \E b \in Batches, target \in BatchStatuses : StartBatchStatus(r, b, target)
  BY <1>4 DEF StartBatchStatus, BatchMayBecome, BatchStatuses, Enrollable
<1>5. CASE \E b \in Batches, c \in Capacities \cup {0}, k \in SUBSET Courses : StartEdit(r, b, c, k)
  BY <1>5 DEF StartEdit
<1> QED BY <1>1, <1>2, <1>3, <1>4, <1>5 DEF Start

\* What ending a request leaves of the tickets and the locks.
LEMMA EndsTicket ==
  ASSUME TypeOK, NEW r \in Requests, Ends(r)
  PROVE /\ req' \in [Requests -> Tickets]
        /\ lock' \in [Batches -> SUBSET Requests]
        /\ req'[r] = Idle
        /\ \A q \in Requests : q # r => req'[q] = req[q]
  BY DEF TypeOK, Ends, Tickets

\* A step that ends a request and keeps, of every row, that it is there, its
\* student and its batch, keeps what the other tickets know.
LEMMA EndsTicketsPointAtRows ==
  ASSUME IInv, NEW r \in Requests, Ends(r),
         \A e \in Rows : Present(e) => /\ Present(e)'
                                      /\ row'[e].student = row[e].student
                                      /\ row'[e].batch = row[e].batch
  PROVE TicketsPointAtRows'
<1>1. SUFFICES ASSUME NEW q \in Requests
      PROVE (/\ req[q] \in Enrolling /\ req[q].source # 0 =>
                 /\ Present(req[q].source)
                 /\ row[req[q].source].student = req[q].student
                 /\ row[req[q].source].batch # req[q].batch
             /\ req[q] \in Moving => Present(req[q].row)
             /\ req[q] \in MovingBatch =>
                 /\ \A e \in req[q].rows : Present(e) /\ row[e].batch = req[q].batch
                 /\ req[q].rows # {} => req[q].want \in {"cancelled", "completed"})'
  BY DEF TicketsPointAtRows, Enrolling, Moving, MovingBatch
<1>2. CASE q = r
  BY <1>2, EndsTicket DEF IInv, Idle, Enrolling, Moving, MovingBatch
<1>3. CASE q # r
  BY <1>3, EndsTicket, ConstantsAssumption
  DEF IInv, TicketsPointAtRows, Enrolling, Moving, MovingBatch, Rows
<1> QED BY <1>2, <1>3

\* Each statement of a request keeps the types and what the tickets know.
LEMMA AdvanceIInv ==
  ASSUME IInv, NEW r \in Requests, Advance(r)
  PROVE IInv'
<1> USE ConstantsAssumption, KindOfTicket
<1>1. CASE EnrolCheck(r)
  <2>1. req[r] \in Enrolling
    BY <1>1 DEF EnrolCheck, IInv
  <2>2. TypeOK'
    BY <1>1, <2>1 DEF EnrolCheck, Goes, Locks, IInv, TypeOK, Enrolling
  <2>3. TicketsPointAtRows'
    BY <1>1, <2>1 DEF EnrolCheck, Goes, IInv, TypeOK, TicketsPointAtRows, Present,
       Enrolling, Moving, MovingBatch
  <2> QED BY <2>2, <2>3 DEF IInv
<1>2. CASE EnrolCommit(r)
  <2>1. req[r] \in Enrolling
    BY <1>2 DEF EnrolCommit, IInv
  <2>2. PICK n \in Rows :
          /\ Fresh(n)
          /\ row' = [e \in Rows |->
               IF e = n THEN [status |-> req[r].want, student |-> req[r].student,
                              batch |-> req[r].batch,
                              course |-> batch[req[r].batch].course, next |-> 0]
               ELSE IF e = req[r].source THEN Transferred(e, n) ELSE row[e]]
    BY <1>2 DEF EnrolCommit
  <2>3. ~ Present(n)
    BY <2>2 DEF Fresh, Rows
  <2>4. row'[n] = [status |-> req[r].want, student |-> req[r].student,
                   batch |-> req[r].batch,
                   course |-> batch[req[r].batch].course, next |-> 0]
    BY <2>2
  <2>5. row'[n] \in EnrolmentRow
    BY <2>1, <2>4 DEF Enrolling, EnrolmentRow, EnrolmentStatuses, SeatHolding, Live, IInv,
       TypeOK, BatchRow
  <2>6. ASSUME NEW e \in Rows, e # n, e = req[r].source
        PROVE /\ row[e] \in EnrolmentRow
              /\ row'[e] = [row[e] EXCEPT !.status = "transferred", !.next = n]
    <3>1. Present(e)
      BY <2>1, <2>6 DEF IInv, TicketsPointAtRows, Rows
    <3>2. row[e] \in EnrolmentRow
      BY <3>1 DEF IInv, TypeOK, Present
    <3> QED BY <2>2, <2>6, <3>2 DEF Transferred
  <2>7. \A e \in Rows : e # n /\ e # req[r].source => row'[e] = row[e]
    BY <2>2
  <2>8. row' \in [Rows -> EnrolmentRow \cup {Absent}]
    <3>1. ASSUME NEW e \in Rows, e # n, e = req[r].source
          PROVE row'[e] \in EnrolmentRow
      <4>1. row[e] \in EnrolmentRow /\ row'[e] = [row[e] EXCEPT !.status = "transferred", !.next = n]
        BY <2>6, <3>1
      <4>2. "transferred" \in EnrolmentStatuses /\ n \in 0 .. MaxRows
        BY DEF EnrolmentStatuses, Rows
      <4> QED BY <4>1, <4>2 DEF EnrolmentRow
    <3>2. \A e \in Rows : row'[e] \in EnrolmentRow \cup {Absent}
      BY <2>5, <2>7, <3>1 DEF IInv, TypeOK
    <3> QED BY <2>2, <3>2
  <2>9. TypeOK'
    BY <1>2, <2>8, EndsTicket DEF EnrolCommit, IInv, TypeOK, Tickets
  <2>10. \A e \in Rows : Present(e) => /\ Present(e)'
                                      /\ row'[e].student = row[e].student
                                      /\ row'[e].batch = row[e].batch
    BY <2>3, <2>6, <2>7, ZenonT(40) DEF Present, Absent, EnrolmentRow
  <2>11. TicketsPointAtRows'
    BY <1>2, <2>10, EndsTicketsPointAtRows DEF EnrolCommit
  <2> QED BY <2>9, <2>11 DEF IInv
<1>3. CASE ReactivateCheck(r)
  <2>1. req[r] \in Moving
    BY <1>3 DEF ReactivateCheck, IInv
  <2>2. TypeOK'
    BY <1>3, <2>1 DEF ReactivateCheck, Goes, Locks, IInv, TypeOK, Moving
  <2>3. TicketsPointAtRows'
    BY <1>3, <2>1 DEF ReactivateCheck, Goes, IInv, TypeOK, TicketsPointAtRows, Present,
       Enrolling, Moving, MovingBatch
  <2> QED BY <2>2, <2>3 DEF IInv
<1>4. CASE StatusCommit(r)
  <2>1. req[r] \in Moving /\ Present(req[r].row)
    BY <1>4 DEF StatusCommit, IInv, TicketsPointAtRows
  <2>2. row[req[r].row] \in EnrolmentRow
    BY <2>1 DEF IInv, TypeOK, Present, Moving
  <2>3. row' = [row EXCEPT ![req[r].row].status = req[r].want]
    BY <1>4 DEF StatusCommit
  <2>4. row' \in [Rows -> EnrolmentRow \cup {Absent}]
    BY <2>1, <2>2, <2>3 DEF IInv, TypeOK, Moving, EnrolmentRow
  <2>5. TypeOK'
    BY <1>4, <2>4, EndsTicket DEF StatusCommit, IInv, TypeOK, Tickets
  <2>6. \A e \in Rows : Present(e) => /\ Present(e)'
                                      /\ row'[e].student = row[e].student
                                      /\ row'[e].batch = row[e].batch
    BY <2>1, <2>2, <2>3 DEF Present, Absent, EnrolmentRow, IInv, TypeOK, Moving
  <2>7. TicketsPointAtRows'
    BY <1>4, <2>6, EndsTicketsPointAtRows DEF StatusCommit
  <2> QED BY <2>5, <2>7 DEF IInv
<1>5. CASE BatchWrite(r)
  <2>1. req[r] \in MovingBatch
    BY <1>5 DEF BatchWrite, IInv
  <2>2. /\ req'[r] = [pc |-> "batch_written", batch |-> req[r].batch, want |-> req[r].want,
                     rows |-> RowsIn(req[r].batch, Cascade(req[r].want))]
        /\ req' = [req EXCEPT ![r] = req'[r]]
    BY <1>5, <2>1 DEF BatchWrite, IInv, TypeOK, MovingBatch
  <2>3. TypeOK'
    <3>1. req'[r] \in MovingBatch
      BY <2>1, <2>2 DEF MovingBatch, RowsIn
    <3> QED BY <1>5, <2>1, <2>2, <3>1 DEF BatchWrite, Locks, IInv, TypeOK, MovingBatch
  <2>4. /\ \A e \in RowsIn(req[r].batch, Cascade(req[r].want)) :
               Present(e) /\ row[e].batch = req[r].batch
        /\ RowsIn(req[r].batch, Cascade(req[r].want)) # {}
               => req[r].want \in {"cancelled", "completed"}
    BY DEF RowsIn, Cascade, Present, Absent, Live
  <2>5. TicketsPointAtRows'
    BY <1>5, <2>1, <2>2, <2>4
    DEF BatchWrite, IInv, TypeOK, TicketsPointAtRows, Present, Enrolling, Moving, MovingBatch
  <2> QED BY <2>3, <2>5 DEF IInv
<1>6. CASE BatchCommit(r)
  <2>1. /\ req[r] \in MovingBatch
        /\ \A e \in req[r].rows : Present(e)
        /\ req[r].rows # {} => req[r].want \in {"cancelled", "completed"}
    BY <1>6 DEF BatchCommit, IInv, TicketsPointAtRows
  <2>2. \A e \in req[r].rows : e \in Rows /\ row[e] \in EnrolmentRow
    BY <2>1 DEF IInv, TypeOK, Present, MovingBatch
  <2>3. row' = [e \in Rows |-> IF e \in req[r].rows
                               THEN [row[e] EXCEPT !.status = req[r].want] ELSE row[e]]
    BY <1>6 DEF BatchCommit
  <2>4. row' \in [Rows -> EnrolmentRow \cup {Absent}]
    <3>1. ASSUME NEW e \in Rows PROVE row'[e] \in EnrolmentRow \cup {Absent}
      BY <2>1, <2>2, <2>3 DEF IInv, TypeOK, EnrolmentRow, EnrolmentStatuses, SeatHolding
    <3> QED BY <2>3, <3>1
  <2>5. batch' \in [Batches -> BatchRow]
    BY <1>6, <2>1 DEF BatchCommit, IInv, TypeOK, BatchRow, MovingBatch
  <2>6. TypeOK'
    BY <1>6, <2>4, <2>5, EndsTicket DEF BatchCommit, IInv, TypeOK, Tickets
  <2>7. \A e \in Rows : Present(e) => /\ Present(e)'
                                      /\ row'[e].student = row[e].student
                                      /\ row'[e].batch = row[e].batch
    BY <2>2, <2>3 DEF Present, Absent, EnrolmentRow
  <2>8. TicketsPointAtRows'
    BY <1>6, <2>7, EndsTicketsPointAtRows DEF BatchCommit
  <2> QED BY <2>6, <2>8 DEF IInv
<1>7. CASE EditCheck(r)
  <2>1. req[r] \in Editing
    BY <1>7 DEF EditCheck, IInv
  <2>2. TypeOK'
    BY <1>7, <2>1 DEF EditCheck, Goes, IInv, TypeOK, Editing
  <2>3. TicketsPointAtRows'
    BY <1>7, <2>1 DEF EditCheck, Goes, IInv, TypeOK, TicketsPointAtRows, Present,
       Enrolling, Moving, MovingBatch, Editing
  <2> QED BY <2>2, <2>3 DEF IInv
<1>8. CASE EditCommit(r)
  <2>1. req[r] \in Editing
    BY <1>8 DEF EditCommit, IInv
  <2>2. batch' \in [Batches -> BatchRow]
    BY <1>8, <2>1 DEF EditCommit, IInv, TypeOK, BatchRow, Editing
  <2>3. TypeOK'
    BY <1>8, <2>2, EndsTicket DEF EditCommit, IInv, TypeOK, Tickets
  <2>4. TicketsPointAtRows'
    BY <1>8, EndsTicketsPointAtRows DEF EditCommit, Present
  <2> QED BY <2>3, <2>4 DEF IInv
<1> QED BY <1>1, <1>2, <1>3, <1>4, <1>5, <1>6, <1>7, <1>8 DEF Advance

\* A request that ends without writing keeps them too.
LEMMA EndedIInv ==
  ASSUME IInv, NEW r \in Requests, Ends(r), UNCHANGED <<row, batch>>
  PROVE IInv'
<1>1. TypeOK'
  BY EndsTicket DEF IInv, TypeOK, Tickets
<1>2. TicketsPointAtRows'
  BY EndsTicketsPointAtRows DEF Present
<1> QED BY <1>1, <1>2 DEF IInv

\* Hence every step does: IInv is inductive.
LEMMA NextIInv == IInv /\ [Next]_vars => IInv'
<1>1. CASE UNCHANGED vars
  BY <1>1 DEF vars, IInv, TypeOK, TicketsPointAtRows, Present
<1>2. ASSUME IInv, NEW r \in Requests, Start(r) \/ Advance(r) \/ Refuse(r) \/ RollBack(r)
      PROVE IInv'
  BY <1>2, StartIInv, AdvanceIInv, EndedIInv DEF Refuse, RollBack
<1> QED BY <1>1, <1>2 DEF Next

\* The tables, the locks and the requests' copies keep their types.
THEOREM TypeCorrect == Spec => []TypeOK
<1>1. IInv => TypeOK
  BY DEF IInv
<1> QED BY <1>1, InitIInv, NextIInv, PTL DEF Spec

-----------------------------------------------------------------------------
(***************************************************************************)
(* The four ways a step can change the two tables.                         *)
(***************************************************************************)

\* The row that request r inserts as number n, and the row it transfers.
Inserts(r, n) ==
  LET t == req[r] IN
  /\ t \in Enrolling /\ t.pc = "enrol_checked" /\ Ends(r) /\ batch' = batch
  /\ IndexAllows(t.student, t.batch, 0, t.want)
  /\ Fresh(n) /\ ~ Present(n) /\ t.source # n
  /\ row'[n] = [status |-> t.want, student |-> t.student, batch |-> t.batch,
                course |-> batch[t.batch].course, next |-> 0]
  /\ t.source # 0 =>
       /\ t.source \in Rows /\ Present(t.source) /\ row[t.source] \in EnrolmentRow
       /\ row[t.source].student = t.student /\ row[t.source].batch # t.batch
       /\ row'[t.source] = [row[t.source] EXCEPT !.status = "transferred", !.next = n]
  /\ \A e \in Rows : e # n /\ e # t.source => row'[e] = row[e]

\* The rows in S, all there, get the given status and keep everything else.
Rewrites(S, status) ==
  /\ \A e \in S : Present(e) /\ row[e] \in EnrolmentRow
                  /\ row'[e] = [row[e] EXCEPT !.status = status]
  /\ \A e \in Rows \ S : row'[e] = row[e]

\* A commit of an enrolment inserts one row.
LEMMA EnrolCommitInserts ==
  ASSUME IInv, NEW r \in Requests, EnrolCommit(r)
  PROVE \E n \in Rows : Inserts(r, n)
<1> USE KindOfTicket, ConstantsAssumption
<1>1. req[r] \in Enrolling /\ req[r].pc = "enrol_checked"
  BY DEF EnrolCommit, IInv
<1>2. PICK n \in Rows :
        /\ Fresh(n)
        /\ row' = [e \in Rows |->
             IF e = n THEN [status |-> req[r].want, student |-> req[r].student,
                            batch |-> req[r].batch,
                            course |-> batch[req[r].batch].course, next |-> 0]
             ELSE IF e = req[r].source THEN Transferred(e, n) ELSE row[e]]
  BY DEF EnrolCommit
<1>3. ~ Present(n)
  BY <1>2 DEF Fresh, Rows
<1>4. req[r].source # 0 =>
        /\ req[r].source \in Rows /\ Present(req[r].source)
        /\ row[req[r].source].student = req[r].student
        /\ row[req[r].source].batch # req[r].batch
  BY <1>1 DEF IInv, TicketsPointAtRows, Enrolling, Rows
<1>5. req[r].source # 0 => row[req[r].source] \in EnrolmentRow
  BY <1>4 DEF IInv, TypeOK, Present
<1>6. req[r].source # n
  BY <1>3, <1>4 DEF Rows
<1>7. Inserts(r, n)
  BY <1>1, <1>2, <1>3, <1>4, <1>5, <1>6 DEF Inserts, EnrolCommit, Transferred
<1> QED BY <1>7

\* A commit of a batch status rewrites the rows selected with it.
LEMMA BatchCommitRewrites ==
  ASSUME IInv, NEW r \in Requests, BatchCommit(r)
  PROVE /\ req[r] \in MovingBatch /\ Rewrites(req[r].rows, req[r].want)
        /\ req[r].rows # {} => req[r].want \in {"cancelled", "completed"}
<1> USE KindOfTicket, ConstantsAssumption
<1>1. /\ req[r] \in MovingBatch
      /\ \A e \in req[r].rows : Present(e) /\ e \in Rows
      /\ req[r].rows # {} => req[r].want \in {"cancelled", "completed"}
  BY DEF BatchCommit, IInv, TicketsPointAtRows, MovingBatch
<1>2. \A e \in req[r].rows : row[e] \in EnrolmentRow
  BY <1>1 DEF IInv, TypeOK, Present
<1> QED BY <1>1, <1>2 DEF BatchCommit, Rewrites

\* Every step leaves the rows alone, inserts one, or rewrites a status.
LEMMA TableSteps ==
  ASSUME IInv, [Next]_vars
  PROVE \/ row' = row
        \/ \E r \in Requests, n \in Rows : Inserts(r, n)
        \/ \E r \in Requests : /\ req[r] \in Moving /\ StatusCommit(r)
                               /\ Rewrites({req[r].row}, req[r].want)
        \/ \E r \in Requests : /\ req[r] \in MovingBatch /\ BatchCommit(r)
                               /\ Rewrites(req[r].rows, req[r].want)
                               /\ req[r].rows # {} => req[r].want \in {"cancelled", "completed"}
<1> USE KindOfTicket, ConstantsAssumption
<1>1. CASE UNCHANGED vars
  BY <1>1 DEF vars
<1>2. ASSUME NEW r \in Requests, EnrolCommit(r)
      PROVE \E n \in Rows : Inserts(r, n)
  BY <1>2, EnrolCommitInserts
<1>3. ASSUME NEW r \in Requests, StatusCommit(r)
      PROVE req[r] \in Moving /\ Rewrites({req[r].row}, req[r].want)
  <2>1. req[r] \in Moving /\ Present(req[r].row) /\ req[r].row \in Rows
    BY <1>3 DEF StatusCommit, IInv, TicketsPointAtRows, Moving
  <2>2. row[req[r].row] \in EnrolmentRow
    BY <2>1 DEF IInv, TypeOK, Present
  <2> QED BY <1>3, <2>1, <2>2 DEF StatusCommit, Rewrites, IInv, TypeOK
<1>4. ASSUME NEW r \in Requests, BatchCommit(r)
      PROVE /\ req[r] \in MovingBatch /\ Rewrites(req[r].rows, req[r].want)
            /\ req[r].rows # {} => req[r].want \in {"cancelled", "completed"}
  BY <1>4, BatchCommitRewrites
<1>5. ASSUME NEW r \in Requests, Start(r) \/ Refuse(r) \/ RollBack(r) \/ EnrolCheck(r)
                 \/ ReactivateCheck(r) \/ BatchWrite(r) \/ EditCheck(r) \/ EditCommit(r)
      PROVE row' = row
  BY <1>5 DEF Start, StartEnrol, StartTransfer, StartStatus, StartBatchStatus, StartEdit, Starts,
     Refuse, RollBack, EnrolCheck, ReactivateCheck, BatchWrite, EditCheck, Goes, EditCommit
<1> QED BY <1>1, <1>2, <1>3, <1>4, <1>5 DEF Next, Advance

-----------------------------------------------------------------------------
\* Field by field, what an insert does to the rows.
LEMMA InsertEffect ==
  ASSUME IInv, NEW r \in Requests, NEW n \in Rows, Inserts(r, n)
  PROVE /\ \A e \in Rows : e # n => /\ Present(e)' <=> Present(e)
                                    /\ Present(e) => /\ row'[e].student = row[e].student
                                                     /\ row'[e].batch = row[e].batch
        /\ \A e \in Rows : e # n /\ e # req[r].source => row'[e] = row[e]
        /\ \A e \in Rows : e = req[r].source =>
             row'[e].status = "transferred" /\ row'[e].next = n /\ Present(e)
        /\ \A e \in Rows : Present(e) => e < n
        /\ Present(n)' /\ ~ Present(n)
        /\ row'[n].status = req[r].want /\ req[r].want \in {"pending", "active"}
        /\ row'[n].student = req[r].student /\ row'[n].batch = req[r].batch
        /\ row'[n].next = 0 /\ n # req[r].source
<1> USE ConstantsAssumption
<1>1. \A e \in Rows : e # n /\ e # req[r].source => row'[e] = row[e]
  BY DEF Inserts
<1>2. ASSUME NEW e \in Rows, e = req[r].source
      PROVE /\ Present(e) /\ Present(e)' /\ row'[e].student = row[e].student
            /\ row'[e].batch = row[e].batch
            /\ row'[e].status = "transferred" /\ row'[e].next = n
  <2>1. /\ row[e] \in EnrolmentRow /\ Present(e)
        /\ row'[e] = [row[e] EXCEPT !.status = "transferred", !.next = n]
    BY <1>2 DEF Inserts, Rows
  <2>2. row'[e] = [status |-> "transferred", student |-> row[e].student,
                   batch |-> row[e].batch, course |-> row[e].course, next |-> n]
    BY <2>1 DEF EnrolmentRow
  <2> QED BY <2>1, <2>2 DEF Present, Absent
<1>3. \A e \in Rows : e # n => /\ Present(e)' <=> Present(e)
                               /\ Present(e) => /\ row'[e].student = row[e].student
                                                /\ row'[e].batch = row[e].batch
  BY <1>1, <1>2 DEF Present
<1>4. \A e \in Rows : Present(e) => e < n
  BY DEF Inserts, Fresh
<1>5. /\ Present(n)' /\ ~ Present(n)
      /\ row'[n].status = req[r].want /\ req[r].want \in {"pending", "active"}
      /\ row'[n].student = req[r].student /\ row'[n].batch = req[r].batch
      /\ row'[n].next = 0 /\ n # req[r].source
  BY DEF Inserts, Present, Absent, Enrolling
<1> QED BY <1>1, <1>2, <1>3, <1>4, <1>5

\* Field by field, what a rewrite does to the rows.
LEMMA RewriteEffect ==
  ASSUME NEW S \in SUBSET Rows, NEW status, status # "absent", Rewrites(S, status)
  PROVE \A e \in Rows :
          /\ Present(e)' <=> Present(e)
          /\ Present(e) => /\ row'[e].student = row[e].student
                           /\ row'[e].batch = row[e].batch
                           /\ row'[e].next = row[e].next
          /\ e \in S => row'[e].status = status /\ Present(e)
          /\ e \notin S => row'[e] = row[e]
<1>1. ASSUME NEW e \in S
      PROVE row'[e] = [status |-> status, student |-> row[e].student,
                       batch |-> row[e].batch, course |-> row[e].course, next |-> row[e].next]
  BY DEF Rewrites, EnrolmentRow
<1>2. \A e \in S : Present(e)' /\ Present(e)
  BY <1>1 DEF Rewrites, Present, Absent
<1>3. ASSUME NEW e \in S
      PROVE /\ row'[e].student = row[e].student /\ row'[e].batch = row[e].batch
            /\ row'[e].next = row[e].next /\ row'[e].status = status
  <2>1. row'[e] = [status |-> status, student |-> row[e].student,
                   batch |-> row[e].batch, course |-> row[e].course, next |-> row[e].next]
    BY <1>1
  <2> QED BY <2>1
<1>4. \A e \in Rows \ S : row'[e] = row[e] /\ (Present(e)' <=> Present(e))
  BY DEF Rewrites, Present
<1> QED BY <1>2, <1>3, <1>4

-----------------------------------------------------------------------------
\* The index keeps OneLivePerStudentBatch through an insert and through an
\* UPDATE; a cascade only writes statuses that are not live.
LEMMA NextOneLive ==
  ASSUME IInv, [Next]_vars, OneLivePerStudentBatch
  PROVE OneLivePerStudentBatch'
<1> SUFFICES ASSUME NEW b \in Batches, NEW d \in Rows, NEW e \in Rows,
                    row'[d].status \in Live, row'[d].batch = b,
                    row'[e].status \in Live, row'[e].batch = b,
                    row'[d].student = row'[e].student
             PROVE d = e
  BY DEF OneLivePerStudentBatch, RowsIn
<1>1. CASE row' = row
  BY <1>1 DEF OneLivePerStudentBatch, RowsIn
<1>2. ASSUME NEW r \in Requests, NEW n \in Rows, Inserts(r, n)
      PROVE d = e
  <2>1. \A x \in {d, e} : x # n => row'[x] = row[x]
    BY <1>2, InsertEffect DEF Live
  <2>2. \A x \in {d, e} : x # n =>
          ~ (row[x].student = req[r].student /\ row[x].batch = req[r].batch
             /\ row[x].status \in Live)
    <3>1. OtherLive(req[r].student, req[r].batch, 0) = {}
      BY <1>2 DEF Inserts, IndexAllows, Enrolling, Live
    <3> QED BY <3>1, ConstantsAssumption DEF OtherLive, RowsIn, Rows
  <2>3. row'[n].student = req[r].student /\ row'[n].batch = req[r].batch
    BY <1>2, InsertEffect
  <2> QED BY <2>1, <2>2, <2>3 DEF OneLivePerStudentBatch, RowsIn
<1>3. ASSUME NEW r \in Requests, req[r] \in Moving, StatusCommit(r),
             Rewrites({req[r].row}, req[r].want)
      PROVE d = e
  <2> DEFINE m == req[r].row
  <2>1. m \in Rows /\ req[r].want # "absent"
    BY <1>3 DEF Moving, EnrolmentStatuses, SeatHolding, Live
  <2>2. \A x \in {d, e} : x # m => row'[x] = row[x]
    BY <1>3, <2>1, RewriteEffect
  <2>3. row'[m].student = row[m].student /\ row'[m].batch = row[m].batch
        /\ row'[m].status = req[r].want
    BY <1>3, <2>1, RewriteEffect
  <2>4. req[r].want \in Live => OtherLive(row[m].student, row[m].batch, m) = {}
    BY <1>3 DEF StatusCommit, IndexAllows
  <2>5. row'[m].status \in Live =>
          \A x \in {d, e} : x # m =>
             ~ (row[x].student = row[m].student /\ row[x].batch = row[m].batch
                /\ row[x].status \in Live)
    BY <2>3, <2>4 DEF OtherLive, RowsIn
  <2> QED BY <2>2, <2>3, <2>5 DEF OneLivePerStudentBatch, RowsIn
<1>4. ASSUME NEW r \in Requests, req[r] \in MovingBatch, Rewrites(req[r].rows, req[r].want),
             req[r].rows # {} => req[r].want \in {"cancelled", "completed"}
      PROVE d = e
  <2>1. req[r].rows \in SUBSET Rows /\ req[r].want # "absent"
    BY <1>4 DEF MovingBatch, BatchStatuses, Enrollable
  <2>2. \A x \in {d, e} : x \notin req[r].rows
    BY <1>4, <2>1, RewriteEffect DEF Live
  <2>3. \A x \in {d, e} : row'[x] = row[x]
    BY <1>4, <2>1, <2>2, RewriteEffect
  <2> QED BY <2>3 DEF OneLivePerStudentBatch, RowsIn
<1> QED BY <1>1, <1>2, <1>3, <1>4, TableSteps

\* A student never has two live enrolments on a batch, however requests
\* interleave and whatever they decided on stale copies.
THEOREM OneLive == Spec => []OneLivePerStudentBatch
<1>1. Init => OneLivePerStudentBatch
  BY DEF Init, OneLivePerStudentBatch, RowsIn, Absent, Live
<1>2. IInv /\ [Next]_vars /\ OneLivePerStudentBatch => OneLivePerStudentBatch'
  BY NextOneLive
<1> QED BY <1>1, <1>2, InitIInv, NextIInv, PTL DEF Spec

-----------------------------------------------------------------------------
\* ChainsRunForward for one row.
ChainAt(e) ==
  LET n == row[e].next IN
  /\ n > e /\ Present(n)
  /\ row[n].student = row[e].student /\ row[n].batch # row[e].batch
  /\ \A d \in Rows : Present(d) /\ row[d].next = n => d = e

\* An insert appends to a chain at its end; nothing else writes `transferred_to`.
LEMMA NextChains ==
  ASSUME IInv, [Next]_vars, ChainsRunForward, TransferredHasSuccessor
  PROVE ChainsRunForward' /\ TransferredHasSuccessor'
<1> USE ConstantsAssumption
<1>a. \A e \in Rows : Present(e) /\ row[e].next # 0 => row[e].next \in Rows /\ ChainAt(e)
  BY DEF IInv, TypeOK, EnrolmentRow, Rows, Present, ChainsRunForward, ChainAt
<1>b. \A e \in Rows : row[e].status = "transferred" => Present(e) /\ row[e].next # 0
  BY DEF TransferredHasSuccessor, Present, Absent
<1>1. CASE row' = row
  BY <1>1 DEF ChainsRunForward, TransferredHasSuccessor, Present
<1>2. ASSUME NEW r \in Requests, NEW n \in Rows, Inserts(r, n)
      PROVE ChainsRunForward' /\ TransferredHasSuccessor'
  <2> DEFINE s == req[r].source
  <2>1. \A e \in Rows : Present(e)' /\ row'[e].next # 0 =>
          \/ e = s /\ row'[e].next = n /\ Present(e)
          \/ e # s /\ e # n /\ Present(e) /\ row'[e].next = row[e].next
    BY <1>2, InsertEffect
  <2>2. \A e \in Rows : Present(e) /\ row[e].next # 0 => row[e].next # n
    BY <1>2, <1>a, InsertEffect DEF ChainAt
  <2>3. ASSUME NEW e \in Rows, Present(e)', row'[e].next # 0
        PROVE ChainAt(e)'
    <3>1. CASE e = s /\ row'[e].next = n /\ Present(e)
      <4>1. n > e /\ Present(n)' /\ e # n
        BY <1>2, <3>1, InsertEffect DEF Rows
      <4>2. row'[e].student = row[e].student /\ row'[e].batch = row[e].batch
        BY <1>2, <3>1, <4>1, InsertEffect
      <4>3. row[e].student = req[r].student /\ row[e].batch # req[r].batch
        BY <1>2, <3>1 DEF Inserts, Rows
      <4>4. row'[n].student = req[r].student /\ row'[n].batch = req[r].batch
        BY <1>2, InsertEffect
      <4>5. n # 0
        BY DEF Rows
      <4>6. \A d \in Rows : Present(d)' /\ row'[d].next = n => d = e
        BY <2>1, <2>2, <3>1, <4>5
      <4> QED BY <3>1, <4>1, <4>2, <4>3, <4>4, <4>6 DEF ChainAt
    <3>2. CASE e # s /\ e # n /\ Present(e) /\ row'[e].next = row[e].next
      <4> DEFINE x == row[e].next
      <4>1. x # 0 /\ x \in Rows /\ x # n /\ ChainAt(e)
        BY <1>a, <2>2, <2>3, <3>2
      <4>2. /\ Present(x)' /\ row'[x].student = row[x].student /\ row'[x].batch = row[x].batch
            /\ row'[e].student = row[e].student /\ row'[e].batch = row[e].batch
        BY <1>2, <3>2, <4>1, InsertEffect DEF ChainAt
      <4>3. \A d \in Rows : Present(d)' /\ row'[d].next = x => d = e
        BY <2>1, <4>1 DEF ChainAt
      <4> QED BY <3>2, <4>1, <4>2, <4>3 DEF ChainAt
    <3> QED BY <2>1, <2>3, <3>1, <3>2
  <2>4. ChainsRunForward'
    BY <2>3 DEF ChainsRunForward, ChainAt
  <2>5. TransferredHasSuccessor'
    <3> SUFFICES ASSUME NEW e \in Rows, row'[e].status = "transferred" PROVE row'[e].next # 0
      BY DEF TransferredHasSuccessor
    <3>1. e # n
      BY <1>2, InsertEffect
    <3>2. CASE e = s
      BY <1>2, <3>2, InsertEffect DEF Rows
    <3>3. CASE e # s
      BY <1>2, <1>b, <3>1, <3>3, InsertEffect
    <3> QED BY <3>2, <3>3
  <2> QED BY <2>4, <2>5
<1>3. ASSUME NEW S \in SUBSET Rows, NEW status, status \notin {"transferred", "absent"},
             Rewrites(S, status)
      PROVE ChainsRunForward' /\ TransferredHasSuccessor'
  <2>0. \A e \in Rows :
          /\ Present(e)' <=> Present(e)
          /\ Present(e) => /\ row'[e].student = row[e].student
                           /\ row'[e].batch = row[e].batch
                           /\ row'[e].next = row[e].next
    BY <1>3, RewriteEffect
  <2>1. ASSUME NEW e \in Rows, Present(e)', row'[e].next # 0
        PROVE ChainAt(e)'
    <3>1. Present(e) /\ row'[e].next = row[e].next
      BY <2>0, <2>1
    <3>2. row[e].next \in Rows /\ ChainAt(e)
      BY <1>a, <2>1, <3>1
    <3>3. \A d \in Rows : Present(d)' /\ row'[d].next = row[e].next => d = e
      BY <2>0, <3>2 DEF ChainAt
    <3> QED BY <2>0, <3>1, <3>2, <3>3 DEF ChainAt
  <2>2. ChainsRunForward'
    BY <2>1 DEF ChainsRunForward, ChainAt
  <2>3. ASSUME NEW e \in Rows, row'[e].status = "transferred"
        PROVE row'[e].next # 0
    <3>1. row'[e] = row[e]
      BY <1>3, <2>3, RewriteEffect
    <3> QED BY <1>b, <2>3, <3>1
  <2> QED BY <2>2, <2>3 DEF TransferredHasSuccessor
<1>4. ASSUME NEW r \in Requests, req[r] \in Moving, Rewrites({req[r].row}, req[r].want)
      PROVE ChainsRunForward' /\ TransferredHasSuccessor'
  <2>1. {req[r].row} \in SUBSET Rows /\ req[r].want \notin {"transferred", "absent"}
    BY <1>4 DEF Moving, EnrolmentStatuses, SeatHolding, Live
  <2> QED BY <1>3, <1>4, <2>1
<1>5. ASSUME NEW r \in Requests, req[r] \in MovingBatch, Rewrites(req[r].rows, req[r].want)
      PROVE ChainsRunForward' /\ TransferredHasSuccessor'
  <2>1. req[r].rows \in SUBSET Rows /\ req[r].want \notin {"transferred", "absent"}
    BY <1>5 DEF MovingBatch, BatchStatuses, Enrollable
  <2> QED BY <1>3, <1>5, <2>1
<1> QED BY <1>1, <1>2, <1>4, <1>5, TableSteps

\* A transfer chain only ever runs to later rows of the same student, no row
\* succeeds two, and a row marked transferred names its successor.
THEOREM Chains == Spec => [](ChainsRunForward /\ TransferredHasSuccessor)
<1>1. Init => ChainsRunForward /\ TransferredHasSuccessor
  BY DEF Init, ChainsRunForward, TransferredHasSuccessor, Present, Absent
<1>2. IInv /\ [Next]_vars /\ ChainsRunForward /\ TransferredHasSuccessor
        => ChainsRunForward' /\ TransferredHasSuccessor'
  BY NextChains
<1> QED BY <1>1, <1>2, InitIInv, NextIInv, PTL DEF Spec

\* A row marked transferred always says where the student went.
THEOREM SuccessorNamed == Spec => []TransferredHasSuccessor
  BY Chains, PTL

-----------------------------------------------------------------------------
(***************************************************************************)
(* Locks.                                                                  *)
(***************************************************************************)

\* A lock is taken when it is free, and given up when its request ends.
LEMMA NextLocked ==
  ASSUME IInv, [Next]_vars, LockedByOneInFlight
  PROVE LockedByOneInFlight'
<1> USE ConstantsAssumption, KindOfTicket
<1> DEFINE Holds(q, b) == \/ req[q].pc \in {"enrol_checked", "batch_written"} /\ req[q].batch = b
                          \/ req[q].pc = "status" /\ row[req[q].row].batch = b
<1>0. /\ \A b \in Batches : lock[b] \subseteq Requests
      /\ \A b \in Batches : \A q \in lock[b] : lock[b] = {q} /\ Holds(q, b)
  BY DEF LockedByOneInFlight, IInv, TypeOK
<1>a. \A q \in Requests : req[q].pc = "status" => req[q].row \in Rows /\ Present(req[q].row)
  BY DEF IInv, TicketsPointAtRows, Moving
<1>b. \A e \in Rows : Present(e) => row'[e].batch = row[e].batch
  <2>1. ASSUME NEW r \in Requests, NEW n \in Rows, Inserts(r, n), NEW e \in Rows, Present(e)
        PROVE row'[e].batch = row[e].batch
    BY <2>1, InsertEffect
  <2>2. ASSUME NEW r \in Requests, req[r] \in Moving, Rewrites({req[r].row}, req[r].want),
               NEW e \in Rows, Present(e)
        PROVE row'[e].batch = row[e].batch
    <3>1. {req[r].row} \in SUBSET Rows /\ req[r].want # "absent"
      BY <2>2 DEF Moving, EnrolmentStatuses, SeatHolding, Live
    <3> QED BY <2>2, <3>1, RewriteEffect
  <2>3. ASSUME NEW r \in Requests, req[r] \in MovingBatch, Rewrites(req[r].rows, req[r].want),
               NEW e \in Rows, Present(e)
        PROVE row'[e].batch = row[e].batch
    <3>1. req[r].rows \in SUBSET Rows /\ req[r].want # "absent"
      BY <2>3 DEF MovingBatch, BatchStatuses, Enrollable
    <3> QED BY <2>3, <3>1, RewriteEffect
  <2> QED BY <2>1, <2>2, <2>3, TableSteps
<1>1. CASE UNCHANGED vars
  BY <1>1 DEF vars, LockedByOneInFlight
<1>2. ASSUME NEW r \in Requests, Ends(r)
      PROVE LockedByOneInFlight'
  <2> SUFFICES ASSUME NEW b \in Batches, NEW q \in lock'[b]
               PROVE lock'[b] = {q} /\ Holds(q, b)'
    BY DEF LockedByOneInFlight
  <2>1. q # r /\ q \in lock[b] /\ lock'[b] = lock[b] \ {r}
    BY <1>2 DEF Ends
  <2>2. lock[b] = {q} /\ Holds(q, b) /\ q \in Requests
    BY <1>0, <2>1
  <2>3. req'[q] = req[q]
    BY <1>2, <2>1, <2>2 DEF Ends, IInv, TypeOK
  <2> QED BY <1>a, <1>b, <2>1, <2>2, <2>3
<1>3. ASSUME NEW r \in Requests, NEW b \in Batches, lock[b] = {}, Locks(r, b), row' = row,
             req' = [req EXCEPT ![r] = req'[r]], Holds(r, b)',
             req[r].pc \in {"enrol", "reactivate", "batch_status"}
      PROVE LockedByOneInFlight'
  <2> SUFFICES ASSUME NEW c \in Batches, NEW q \in lock'[c]
               PROVE lock'[c] = {q} /\ Holds(q, c)'
    BY DEF LockedByOneInFlight
  <2>1. CASE c = b
    BY <1>3, <2>1 DEF Locks, IInv, TypeOK
  <2>2. CASE c # b
    <3>1. lock'[c] = lock[c] /\ q \in Requests /\ q \in lock[c]
      BY <1>0, <1>3, <2>2 DEF Locks, IInv, TypeOK
    <3>2. q # r
      BY <1>0, <1>3, <3>1
    <3>3. req'[q] = req[q]
      BY <1>3, <3>1, <3>2 DEF IInv, TypeOK
    <3> QED BY <1>0, <1>3, <3>1, <3>3
  <2> QED BY <2>1, <2>2
<1>4. ASSUME NEW r \in Requests, EnrolCheck(r)
      PROVE LockedByOneInFlight'
  <2>1. req[r] \in Enrolling /\ req[r].pc = "enrol"
    BY <1>4 DEF EnrolCheck, IInv
  <2>2. /\ req' = [req EXCEPT ![r] = req'[r]]
        /\ req'[r].pc = "enrol_checked" /\ req'[r].batch = req[r].batch
    BY <1>4, <2>1 DEF EnrolCheck, Goes, IInv, TypeOK, Enrolling
  <2> QED BY <1>3, <1>4, <2>1, <2>2 DEF EnrolCheck, LockFree, Goes, Enrolling
<1>5. ASSUME NEW r \in Requests, ReactivateCheck(r)
      PROVE LockedByOneInFlight'
  <2>1. req[r] \in Moving /\ req[r].pc = "reactivate" /\ Present(req[r].row)
    BY <1>5 DEF ReactivateCheck, IInv, TicketsPointAtRows
  <2>2. /\ req' = [req EXCEPT ![r] = req'[r]]
        /\ req'[r].pc = "status" /\ req'[r].row = req[r].row
    BY <1>5, <2>1 DEF ReactivateCheck, Goes, IInv, TypeOK, Moving
  <2>3. row[req[r].row].batch \in Batches
    BY <2>1 DEF IInv, TypeOK, Present, Moving, EnrolmentRow
  <2> QED BY <1>3, <1>5, <2>1, <2>2, <2>3 DEF ReactivateCheck, LockFree, Goes
<1>6. ASSUME NEW r \in Requests, BatchWrite(r)
      PROVE LockedByOneInFlight'
  <2>1. req[r] \in MovingBatch /\ req[r].pc = "batch_status"
    BY <1>6 DEF BatchWrite, IInv
  <2>2. /\ req' = [req EXCEPT ![r] = req'[r]]
        /\ req'[r].pc = "batch_written" /\ req'[r].batch = req[r].batch
    BY <1>6, <2>1 DEF BatchWrite, IInv, TypeOK, MovingBatch
  <2> QED BY <1>3, <1>6, <2>1, <2>2 DEF BatchWrite, LockFree, MovingBatch
<1>7. ASSUME NEW r \in Requests, UNCHANGED <<lock, row>>, req' = [req EXCEPT ![r] = req'[r]],
             req[r].pc \in {"idle", "edit"}
      PROVE LockedByOneInFlight'
  <2> SUFFICES ASSUME NEW b \in Batches, NEW q \in lock[b]
               PROVE lock[b] = {q} /\ Holds(q, b)'
    BY <1>7 DEF LockedByOneInFlight
  <2>1. q # r /\ q \in Requests
    BY <1>0, <1>7
  <2>2. req'[q] = req[q]
    BY <1>7, <2>1 DEF IInv, TypeOK
  <2> QED BY <1>0, <1>7, <2>2
<1>8. ASSUME NEW r \in Requests, Start(r) PROVE LockedByOneInFlight'
  <2>1. Starts(r, "enrol") \/ Starts(r, "transfer") \/ Starts(r, "status")
          \/ Starts(r, "batch_status") \/ Starts(r, "edit")
    BY <1>8 DEF Start, StartEnrol, StartTransfer, StartStatus, StartBatchStatus, StartEdit
  <2>2. req' = [req EXCEPT ![r] = req'[r]]
    BY <1>8 DEF Start, StartEnrol, StartTransfer, StartStatus, StartBatchStatus, StartEdit, IInv,
       TypeOK
  <2> QED BY <1>7, <2>1, <2>2 DEF Starts, Idle
<1>9. ASSUME NEW r \in Requests, EditCheck(r) PROVE LockedByOneInFlight'
  <2>1. req' = [req EXCEPT ![r] = req'[r]]
    BY <1>9 DEF EditCheck, Goes, IInv, TypeOK
  <2> QED BY <1>7, <1>9, <2>1 DEF EditCheck, Goes
<1>10. ASSUME NEW r \in Requests, EnrolCommit(r) \/ StatusCommit(r) \/ BatchCommit(r)
                  \/ EditCommit(r) \/ Refuse(r) \/ RollBack(r)
       PROVE LockedByOneInFlight'
  BY <1>2, <1>10 DEF EnrolCommit, StatusCommit, BatchCommit, EditCommit, Refuse, RollBack
<1> QED BY <1>1, <1>4, <1>5, <1>6, <1>8, <1>9, <1>10 DEF Next, Advance

\* A batch row is locked by one request at a time, between its check and its
\* commit on that batch.
THEOREM LocksExclusive == Spec => []LockedByOneInFlight
<1>1. Init => LockedByOneInFlight
  BY DEF Init, LockedByOneInFlight
<1>2. IInv /\ [Next]_vars /\ LockedByOneInFlight => LockedByOneInFlight'
  BY NextLocked
<1> QED BY <1>1, <1>2, InitIInv, NextIInv, PTL DEF Spec

-----------------------------------------------------------------------------
(***************************************************************************)
(* Capacity, where only enrolments, transfers and batch status changes     *)
(* write: the operations that take the batch lock.                         *)
(***************************************************************************)

SeatRows(b) == RowsIn(b, SeatHolding)

\* Sets of rows are finite, and a part has no more rows than the whole.
LEMMA RowSets ==
  ASSUME NEW A \in SUBSET Rows, NEW B \in SUBSET A
  PROVE /\ IsFiniteSet(A) /\ Cardinality(A) \in Nat
        /\ Cardinality(B) \in Nat /\ Cardinality(B) <= Cardinality(A)
<1>1. IsFiniteSet(Rows)
  BY FS_Interval, ConstantsAssumption DEF Rows
<1>2. IsFiniteSet(A)
  BY <1>1, FS_Subset
<1> QED BY <1>2, FS_Subset, FS_CardinalityType

\* What the batch lock guards: a checked enrolment has a seat to take, and a
\* cascade that rewrites its rows does not take a seat that is not there.
HasSeat(r, b) == r \in lock[b] /\ Seats(b) < batch[b].capacity
FitsCascade(r, b) ==
  r \in lock[b] /\ Cardinality(SeatRows(b) \cup req[r].rows) <= batch[b].capacity

SeatsInv ==
  /\ \A r \in Requests : req[r] \in Enrolling \cup MovingBatch \cup {Idle}
  /\ \A r \in Requests, b \in Batches :
       /\ req[r].pc = "enrol_checked" /\ req[r].batch = b => HasSeat(r, b)
       /\ req[r].pc = "batch_written" /\ req[r].batch = b => FitsCascade(r, b)
  /\ SeatsWithinCapacity

\* A step that lets no batch gain a seat-holding row, unless b does, keeps what
\* the requests on other batches rely on.
LEMMA OthersKeepSeats ==
  ASSUME IInv, LockedByOneInFlight, SeatsInv, NEW r \in Requests, NEW b \in Batches,
         r \in lock[b], Ends(r),
         \A c \in Batches : batch'[c].capacity = batch[c].capacity,
         \A c \in Batches : c # b => SeatRows(c)' \subseteq SeatRows(c),
         Cardinality(SeatRows(b)') <= batch[b].capacity
  PROVE SeatsInv'
<1> USE KindOfTicket
<1>0. /\ \A q \in Requests : q # r => req'[q] = req[q]
      /\ req'[r] = Idle
      /\ \A c \in Batches : lock'[c] = lock[c] \ {r}
  BY DEF Ends, IInv, TypeOK
<1>1. ASSUME NEW c \in Batches, c # b
      PROVE Seats(c)' <= Seats(c) /\ Seats(c)' \in Nat /\ Seats(c) \in Nat
  <2>1. SeatRows(c) \in SUBSET Rows /\ SeatRows(c)' \in SUBSET SeatRows(c)
    BY <1>1 DEF SeatRows, RowsIn
  <2> QED BY <2>1, RowSets DEF Seats, SeatRows
<1>2. \A c \in Batches : batch[c].capacity \in Nat /\ batch'[c].capacity = batch[c].capacity
  BY ConstantsAssumption DEF IInv, TypeOK, BatchRow
<1>3. \A q \in Requests : req'[q] \in Enrolling \cup MovingBatch \cup {Idle}
  BY <1>0 DEF SeatsInv
<1>4. ASSUME NEW q \in Requests, NEW c \in Batches, req'[q].pc = "enrol_checked",
             req'[q].batch = c
      PROVE HasSeat(q, c)'
  <2>1. q # r /\ req'[q] = req[q]
    BY <1>0, <1>4 DEF Idle
  <2>2. q \in lock[c] /\ Seats(c) < batch[c].capacity
    BY <1>4, <2>1 DEF SeatsInv, HasSeat
  <2>3. c # b
    BY <2>1, <2>2 DEF LockedByOneInFlight
  <2>4. q \in lock'[c]
    BY <1>0, <2>1, <2>2
  <2>5. Seats(c)' < batch'[c].capacity
    BY <1>1, <1>2, <2>2, <2>3
  <2> QED BY <2>4, <2>5 DEF HasSeat
<1>5. ASSUME NEW q \in Requests, NEW c \in Batches, req'[q].pc = "batch_written",
             req'[q].batch = c
      PROVE FitsCascade(q, c)'
  <2>1. q # r /\ req'[q] = req[q]
    BY <1>0, <1>5 DEF Idle
  <2>2. q \in lock[c] /\ Cardinality(SeatRows(c) \cup req[q].rows) <= batch[c].capacity
    BY <1>5, <2>1 DEF SeatsInv, FitsCascade
  <2>3. c # b /\ q \in lock'[c]
    BY <1>0, <2>1, <2>2 DEF LockedByOneInFlight
  <2>4. req[q] \in MovingBatch
    BY <1>5, <2>1 DEF IInv
  <2>5. SeatRows(c)' \cup req[q].rows \in SUBSET (SeatRows(c) \cup req[q].rows)
        /\ SeatRows(c) \cup req[q].rows \in SUBSET Rows
    BY <2>3, <2>4 DEF SeatRows, RowsIn, MovingBatch
  <2>6. Cardinality(SeatRows(c)' \cup req[q].rows) <= batch'[c].capacity
    BY <1>2, <2>2, <2>5, RowSets
  <2> QED BY <2>1, <2>3, <2>6 DEF FitsCascade
<1>6. ASSUME NEW c \in Batches PROVE Seats(c)' <= batch'[c].capacity
  <2>1. CASE c = b
    BY <1>2, <2>1 DEF Seats, SeatRows
  <2>2. CASE c # b
    BY <1>1, <1>2, <2>2 DEF SeatsInv, SeatsWithinCapacity
  <2> QED BY <2>1, <2>2
<1>7. SeatsWithinCapacity'
  BY <1>6 DEF SeatsWithinCapacity
<1> QED BY <1>3, <1>4, <1>5, <1>7 DEF SeatsInv

\* A step that changes no table and lets at most r itself take a lock keeps
\* what every request relies on, if r may rely on what it has checked.
LEMMA TablesKeepSeats ==
  ASSUME IInv, SeatsInv, NEW r \in Requests, UNCHANGED <<row, batch>>,
         \A c \in Batches, q \in Requests : q # r /\ q \in lock[c] => q \in lock'[c],
         \A q \in Requests : q # r => req'[q] = req[q],
         req'[r] \in Enrolling \cup MovingBatch \cup {Idle},
         \A c \in Batches :
           /\ req'[r].pc = "enrol_checked" /\ req'[r].batch = c => HasSeat(r, c)'
           /\ req'[r].pc = "batch_written" /\ req'[r].batch = c => FitsCascade(r, c)'
  PROVE SeatsInv'
<1>1. \A c \in Batches : Seats(c)' = Seats(c) /\ SeatRows(c)' = SeatRows(c)
  BY DEF Seats, SeatRows, RowsIn
<1>2. SeatsWithinCapacity'
  BY <1>1 DEF SeatsInv, SeatsWithinCapacity
<1>3. ASSUME NEW q \in Requests, q # r, NEW c \in Batches
      PROVE /\ req'[q].pc = "enrol_checked" /\ req'[q].batch = c => HasSeat(q, c)'
            /\ req'[q].pc = "batch_written" /\ req'[q].batch = c => FitsCascade(q, c)'
  BY <1>1, <1>3 DEF SeatsInv, HasSeat, FitsCascade
<1> QED BY <1>2, <1>3 DEF SeatsInv

\* The insert takes one seat of the locked batch, which had one left.
LEMMA EnrolCommitSeats ==
  ASSUME IInv, LockedByOneInFlight, SeatsInv, NEW r \in Requests, EnrolCommit(r)
  PROVE SeatsInv'
<1>a. req[r] \in Enrolling
  BY KindOfTicket DEF EnrolCommit, IInv
<1>b. PICK b \in Batches : b = req[r].batch
  BY <1>a DEF Enrolling
<1>1. HasSeat(r, b)
  BY <1>b DEF EnrolCommit, SeatsInv
<1>2. PICK n \in Rows : Inserts(r, n)
  BY EnrolCommitInserts
<1>3. \A c \in Batches : /\ c # b => SeatRows(c)' \subseteq SeatRows(c)
                         /\ SeatRows(c)' \subseteq SeatRows(c) \cup {n}
  BY <1>a, <1>b, <1>2, InsertEffect DEF SeatRows, RowsIn, SeatHolding, Live
<1>4. /\ IsFiniteSet(SeatRows(b)) /\ SeatRows(b) \in SUBSET Rows
      /\ SeatRows(b) \cup {n} \in SUBSET Rows
      /\ Cardinality(SeatRows(b)) \in Nat
  <2>1. SeatRows(b) \in SUBSET Rows
    BY DEF SeatRows, RowsIn
  <2> QED BY <2>1, RowSets
<1>5. Cardinality(SeatRows(b) \cup {n}) <= Cardinality(SeatRows(b)) + 1
  <2>1. \/ Cardinality(SeatRows(b) \cup {n}) = Cardinality(SeatRows(b)) + 1
        \/ Cardinality(SeatRows(b) \cup {n}) = Cardinality(SeatRows(b))
    BY <1>4, FS_AddElement
  <2> QED BY <1>4, <2>1
<1>6. /\ Cardinality(SeatRows(b)') \in Nat
      /\ Cardinality(SeatRows(b)') <= Cardinality(SeatRows(b) \cup {n})
      /\ Cardinality(SeatRows(b) \cup {n}) \in Nat
  BY <1>1, <1>3, <1>4, RowSets
<1>7. Cardinality(SeatRows(b)) < batch[b].capacity /\ batch[b].capacity \in Nat
  BY <1>1, ConstantsAssumption DEF HasSeat, Seats, SeatRows, IInv, TypeOK, BatchRow
<1>8. Cardinality(SeatRows(b)') <= batch[b].capacity
  BY <1>4, <1>5, <1>6, <1>7
<1>9. /\ r \in lock[b] /\ Ends(r)
      /\ \A c \in Batches : batch'[c].capacity = batch[c].capacity
  BY <1>1 DEF HasSeat, EnrolCommit
<1> QED BY <1>1, <1>3, <1>8, <1>9, OthersKeepSeats

\* The cascade of a locked batch stays within the seats counted for it.
LEMMA BatchCommitSeats ==
  ASSUME IInv, LockedByOneInFlight, SeatsInv, NEW r \in Requests, BatchCommit(r)
  PROVE SeatsInv'
<1>a. req[r] \in MovingBatch
  BY KindOfTicket DEF BatchCommit, IInv
<1>b. PICK b \in Batches, K \in SUBSET Rows : b = req[r].batch /\ K = req[r].rows
  BY <1>a DEF MovingBatch
<1>1. FitsCascade(r, b)
  BY <1>b DEF BatchCommit, SeatsInv
<1>2. /\ Rewrites(K, req[r].want) /\ req[r].want # "absent"
      /\ \A e \in K : row[e].batch = b
  BY <1>a, <1>b, BatchCommitRewrites DEF IInv, TicketsPointAtRows, MovingBatch, BatchStatuses, Enrollable
<1>3. \A e \in Rows : /\ e \in K => Present(e) /\ row'[e].batch = b
                      /\ e \notin K => row'[e] = row[e]
  BY <1>1, <1>2, RewriteEffect
<1>4. /\ \A c \in Batches : c # b => SeatRows(c)' \subseteq SeatRows(c)
      /\ SeatRows(b)' \subseteq SeatRows(b) \cup K
  <2>1. ASSUME NEW c \in Batches, NEW e \in Rows, e \in SeatRows(c)'
        PROVE e \in SeatRows(c) \/ (c = b /\ e \in K)
    BY <1>3, <2>1 DEF SeatRows, RowsIn
  <2>2. \A c \in Batches : SeatRows(c)' \subseteq Rows
    BY DEF SeatRows, RowsIn
  <2> QED BY <2>1, <2>2
<1>5. SeatRows(b) \cup K \in SUBSET Rows
  BY <1>1 DEF SeatRows, RowsIn
<1>6. /\ Cardinality(SeatRows(b)') \in Nat
      /\ Cardinality(SeatRows(b)') <= Cardinality(SeatRows(b) \cup K)
      /\ Cardinality(SeatRows(b) \cup K) \in Nat
  BY <1>1, <1>4, <1>5, RowSets
<1>7. batch[b].capacity \in Nat /\ \A c \in Batches : batch'[c].capacity = batch[c].capacity
  BY <1>1, ConstantsAssumption DEF BatchCommit, IInv, TypeOK, BatchRow
<1>8. Cardinality(SeatRows(b)') <= batch[b].capacity /\ r \in lock[b] /\ Ends(r)
  BY <1>1, <1>b, <1>6, <1>7 DEF FitsCascade, BatchCommit
<1> QED BY <1>1, <1>4, <1>7, <1>8, OthersKeepSeats

\* So every step of the operations that lock keeps SeatsInv.
LEMMA NextSeats ==
  ASSUME Operations \subseteq {"enrol", "transfer", "batch_status"},
         IInv, LockedByOneInFlight, SeatsInv, [Next]_vars
  PROVE SeatsInv'
<1> USE KindOfTicket
<1>1. CASE UNCHANGED vars
  BY <1>1 DEF vars, SeatsInv, HasSeat, FitsCascade, Seats, SeatRows, SeatsWithinCapacity, RowsIn
<1>2. ASSUME NEW r \in Requests, Start(r) PROVE SeatsInv'
  <2>1. /\ UNCHANGED <<row, batch, lock>>
        /\ \A q \in Requests : q # r => req'[q] = req[q]
        /\ req'[r] \in Enrolling \cup MovingBatch
        /\ req'[r].pc \in {"enrol", "batch_status"}
    <3>1. ~ \E e \in Rows, target \in EnrolmentStatuses : StartStatus(r, e, target)
      BY DEF StartStatus, Starts
    <3>2. ~ \E b \in Batches, c \in Capacities \cup {0}, k \in SUBSET Courses :
               StartEdit(r, b, c, k)
      BY DEF StartEdit, Starts
    <3>3. req' \in [Requests -> Tickets]
      BY <1>2, StartIInv DEF IInv, TypeOK, Tickets
    <3> DEFINE Started == /\ UNCHANGED <<row, batch, lock>>
                          /\ \A q \in Requests : q # r => req'[q] = req[q]
                          /\ req'[r].pc \in {"enrol", "batch_status"}
    <3> USE DEF Starts, IInv, TypeOK
    <3>4. ASSUME NEW s \in Students, NEW b \in Batches, NEW status, StartEnrol(r, s, b, status)
          PROVE Started
      BY <3>4 DEF StartEnrol
    <3>5. ASSUME NEW e \in Rows, NEW b \in Batches, StartTransfer(r, e, b) PROVE Started
      BY <3>5 DEF StartTransfer
    <3>6. ASSUME NEW b \in Batches, NEW target, StartBatchStatus(r, b, target) PROVE Started
      BY <3>6 DEF StartBatchStatus
    <3>7. Started
      BY <1>2, <3>1, <3>2, <3>4, <3>5, <3>6 DEF Start
    <3> QED BY <3>3, <3>7 DEF Tickets, Enrolling, Moving, MovingBatch, Editing, Idle
  <2> QED BY <2>1, TablesKeepSeats
<1>3. ASSUME NEW r \in Requests, EnrolCheck(r) PROVE SeatsInv'
  <2>a. req[r] \in Enrolling
    BY <1>3 DEF EnrolCheck, IInv
  <2>1. PICK b \in Batches : b = req[r].batch
    BY <2>a DEF Enrolling
  <2>2. /\ req' = [req EXCEPT ![r].pc = "enrol_checked"]
        /\ lock' = [lock EXCEPT ![b] = {r}] /\ lock[b] = {}
        /\ UNCHANGED <<row, batch>>
        /\ ~ (Seats(b) >= batch[b].capacity)
    BY <1>3, <2>1 DEF EnrolCheck, Goes, Locks, LockFree, Admits, IsFull
  <2>3. /\ \A q \in Requests : q # r => req'[q] = req[q]
        /\ req'[r] \in Enrolling /\ req'[r].pc = "enrol_checked" /\ req'[r].batch = b
    BY <2>a, <2>1, <2>2 DEF Enrolling, IInv, TypeOK
  <2>4. \A c \in Batches, q \in Requests : q # r /\ q \in lock[c] => q \in lock'[c]
    BY <2>1, <2>2 DEF IInv, TypeOK
  <2>5. Seats(b) \in Nat /\ batch[b].capacity \in Nat
    BY <2>1, RowSets, ConstantsAssumption DEF Seats, RowsIn, IInv, TypeOK, BatchRow
  <2>6. HasSeat(r, b)'
    <3>1. Seats(b)' = Seats(b)
      BY <2>2 DEF Seats, RowsIn
    <3> QED BY <2>1, <2>2, <2>5, <3>1 DEF HasSeat, IInv, TypeOK
  <2>7. \A c \in Batches : req'[r].batch = c => HasSeat(r, c)'
    BY <2>3, <2>6
  <2> QED BY <2>2, <2>3, <2>4, <2>7, TablesKeepSeats
<1>4. ASSUME NEW r \in Requests, BatchWrite(r) PROVE SeatsInv'
  <2>a. req[r] \in MovingBatch
    BY <1>4 DEF BatchWrite, IInv
  <2>1. PICK b \in Batches, K \in SUBSET Rows :
           b = req[r].batch /\ K = RowsIn(b, Cascade(req[r].want))
    BY <2>a DEF MovingBatch, RowsIn
  <2>2. /\ req' = [req EXCEPT ![r].pc = "batch_written", ![r].rows = K]
        /\ lock' = [lock EXCEPT ![b] = {r}] /\ lock[b] = {}
        /\ UNCHANGED <<row, batch>>
    BY <1>4, <2>1 DEF BatchWrite, Locks, LockFree
  <2>3. /\ \A q \in Requests : q # r => req'[q] = req[q]
        /\ req'[r] \in MovingBatch /\ req'[r].pc = "batch_written" /\ req'[r].batch = b
        /\ req'[r].rows = K
    BY <2>a, <2>1, <2>2 DEF MovingBatch, IInv, TypeOK
  <2>4. \A c \in Batches, q \in Requests : q # r /\ q \in lock[c] => q \in lock'[c]
    BY <2>1, <2>2 DEF IInv, TypeOK
  <2>5. SeatRows(b) \cup K = SeatRows(b)
    BY <2>1 DEF SeatRows, RowsIn, Cascade, SeatHolding, Live
  <2>6. FitsCascade(r, b)'
    <3>1. SeatRows(b)' = SeatRows(b)
      BY <2>2 DEF SeatRows, RowsIn
    <3>2. r \in lock'[b] /\ batch' = batch
      BY <2>1, <2>2 DEF IInv, TypeOK
    <3>3. Cardinality(SeatRows(b)) <= batch[b].capacity
      BY <2>1 DEF SeatsInv, SeatsWithinCapacity, Seats, SeatRows
    <3> QED BY <2>3, <2>5, <3>1, <3>2, <3>3 DEF FitsCascade
  <2>7. \A c \in Batches : req'[r].batch = c => FitsCascade(r, c)'
    BY <2>3, <2>6
  <2> QED BY <2>2, <2>3, <2>4, <2>7, TablesKeepSeats
<1>5. ASSUME NEW r \in Requests, Refuse(r) \/ RollBack(r) PROVE SeatsInv'
  <2>1. /\ UNCHANGED <<row, batch>> /\ req'[r] = Idle
        /\ \A q \in Requests : q # r => req'[q] = req[q]
        /\ \A c \in Batches : lock'[c] = lock[c] \ {r}
    BY <1>5 DEF Refuse, RollBack, Ends, IInv, TypeOK
  <2> QED BY <2>1, TablesKeepSeats DEF Idle
<1>6. ASSUME NEW r \in Requests
      PROVE ~ (ReactivateCheck(r) \/ StatusCommit(r) \/ EditCheck(r) \/ EditCommit(r))
  <2>1. req[r].pc \in {"enrol", "enrol_checked", "batch_status", "batch_written", "idle"}
    BY DEF SeatsInv, Enrolling, MovingBatch, Idle
  <2> QED BY <2>1 DEF ReactivateCheck, StatusCommit, EditCheck, EditCommit
<1> QED BY <1>1, <1>2, <1>3, <1>4, <1>5, <1>6, EnrolCommitSeats, BatchCommitSeats
        DEF Next, Advance

\* The seats are free at the start, and no lock is held.
LEMMA InitSeats == Init => LockedByOneInFlight /\ SeatsInv
<1>1. ASSUME Init, NEW b \in Batches PROVE RowsIn(b, SeatHolding) = {}
  BY <1>1 DEF Init, RowsIn, Absent, SeatHolding, Live
<1>2. ASSUME Init, NEW b \in Batches PROVE Seats(b) <= batch[b].capacity
  <2>1. Seats(b) = 0
    BY <1>1, <1>2, FS_EmptySet DEF Seats
  <2>2. batch[b].capacity \in Nat
    BY <1>2, ConstantsAssumption DEF Init, BatchRow
  <2> QED BY <2>1, <2>2
<1> QED BY <1>2 DEF Init, LockedByOneInFlight, SeatsInv, SeatsWithinCapacity, Idle

\* With the operations that take the batch lock, no interleaving of them ever
\* takes more seats of a batch than its capacity.
THEOREM SeatsPlacing ==
  ASSUME Operations \subseteq {"enrol", "transfer", "batch_status"}
  PROVE Spec => []SeatsWithinCapacity
<1>1. IInv /\ LockedByOneInFlight /\ SeatsInv /\ [Next]_vars
        => IInv' /\ LockedByOneInFlight' /\ SeatsInv'
  BY NextIInv, NextLocked, NextSeats
<1>2. SeatsInv => SeatsWithinCapacity
  BY DEF SeatsInv
<1> QED BY <1>1, <1>2, InitSeats, InitIInv, PTL DEF Spec

-----------------------------------------------------------------------------
(***************************************************************************)
(* Cancelled batches, where the same operations write.                     *)
(***************************************************************************)

LiveRows(b) == RowsIn(b, Live)

\* What the batch lock guards: a checked enrolment is on a batch that takes
\* students, and a cancellation has selected everyone who is live.
CancelsInv ==
  /\ \A r \in Requests, b \in Batches :
       /\ req[r].pc = "enrol_checked" /\ req[r].batch = b => batch[b].status \in Enrollable
       /\ req[r].pc = "batch_written" /\ req[r].batch = b /\ req[r].want = "cancelled" =>
            LiveRows(b) \subseteq req[r].rows
  /\ NoLiveOnCancelledBatch

\* A request between its check and its commit is the one that holds the lock.
LEMMA CheckedHolds ==
  ASSUME LockedByOneInFlight, SeatsInv, NEW r \in Requests, NEW b \in Batches,
         req[r].pc \in {"enrol_checked", "batch_written"}, req[r].batch = b
  PROVE lock[b] = {r}
BY DEF LockedByOneInFlight, SeatsInv, HasSeat, FitsCascade

\* A step that changes no table keeps what the others rely on.
LEMMA TablesKeepCancels ==
  ASSUME CancelsInv, NEW r \in Requests, UNCHANGED <<row, batch>>,
         \A q \in Requests : q # r => req'[q] = req[q],
         \A b \in Batches :
           /\ req'[r].pc = "enrol_checked" /\ req'[r].batch = b => batch[b].status \in Enrollable
           /\ req'[r].pc = "batch_written" /\ req'[r].batch = b /\ req'[r].want = "cancelled" =>
                LiveRows(b) \subseteq req'[r].rows
  PROVE CancelsInv'
<1>1. \A b \in Batches : LiveRows(b)' = LiveRows(b) /\ batch'[b] = batch[b]
  BY DEF LiveRows, RowsIn
<1>2. NoLiveOnCancelledBatch'
  BY <1>1 DEF CancelsInv, NoLiveOnCancelledBatch, LiveRows
<1>3. ASSUME NEW q \in Requests, NEW b \in Batches
      PROVE /\ req'[q].pc = "enrol_checked" /\ req'[q].batch = b => batch'[b].status \in Enrollable
            /\ req'[q].pc = "batch_written" /\ req'[q].batch = b /\ req'[q].want = "cancelled" =>
                 LiveRows(b)' \subseteq req'[q].rows
  <2>1. CASE q = r
    BY <1>1, <2>1
  <2>2. CASE q # r
    BY <1>1, <2>2 DEF CancelsInv
  <2> QED BY <2>1, <2>2
<1> QED BY <1>2, <1>3 DEF CancelsInv

\* A commit on a batch keeps what the requests on other batches rely on.
LEMMA OthersKeepCancels ==
  ASSUME IInv, LockedByOneInFlight, SeatsInv, CancelsInv, NEW r \in Requests, NEW b \in Batches,
         lock[b] = {r}, Ends(r),
         \A c \in Batches : c # b => LiveRows(c)' \subseteq LiveRows(c) /\ batch'[c] = batch[c],
         batch'[b].status = "cancelled" => LiveRows(b)' = {}
  PROVE CancelsInv'
<1>1. /\ \A q \in Requests : q # r => req'[q] = req[q]
      /\ req'[r] = Idle
  BY DEF Ends, IInv, TypeOK
<1>2. NoLiveOnCancelledBatch'
  BY DEF CancelsInv, NoLiveOnCancelledBatch, LiveRows
<1>3. ASSUME NEW q \in Requests, NEW c \in Batches,
             req'[q].pc \in {"enrol_checked", "batch_written"}, req'[q].batch = c
      PROVE q # r /\ req'[q] = req[q] /\ c # b
  BY <1>1, <1>3, CheckedHolds DEF Idle
<1>4. ASSUME NEW q \in Requests, NEW c \in Batches
      PROVE /\ req'[q].pc = "enrol_checked" /\ req'[q].batch = c => batch'[c].status \in Enrollable
            /\ req'[q].pc = "batch_written" /\ req'[q].batch = c /\ req'[q].want = "cancelled" =>
                 LiveRows(c)' \subseteq req'[q].rows
  BY <1>3 DEF CancelsInv
<1> QED BY <1>2, <1>4 DEF CancelsInv

\* A student is enrolled on a batch that is not being cancelled.
LEMMA EnrolCommitCancels ==
  ASSUME IInv, LockedByOneInFlight, SeatsInv, CancelsInv, NEW r \in Requests, EnrolCommit(r)
  PROVE CancelsInv'
<1>a. req[r] \in Enrolling /\ req[r].pc = "enrol_checked"
  BY KindOfTicket DEF EnrolCommit, IInv
<1>b. PICK b \in Batches : b = req[r].batch
  BY <1>a DEF Enrolling
<1>1. lock[b] = {r} /\ batch[b].status \in Enrollable
  BY <1>a, <1>b, CheckedHolds DEF CancelsInv
<1>2. PICK n \in Rows : Inserts(r, n)
  BY EnrolCommitInserts
<1>3. \A c \in Batches : c # b => LiveRows(c)' \subseteq LiveRows(c)
  BY <1>a, <1>b, <1>2, InsertEffect DEF LiveRows, RowsIn, Live
<1>4. Ends(r) /\ batch' = batch
  BY DEF EnrolCommit
<1> QED BY <1>1, <1>3, <1>4, OthersKeepCancels DEF Enrollable

\* A cancelled batch has taken everyone along.
LEMMA BatchCommitCancels ==
  ASSUME IInv, LockedByOneInFlight, SeatsInv, CancelsInv, NEW r \in Requests, BatchCommit(r)
  PROVE CancelsInv'
<1>a. req[r] \in MovingBatch /\ req[r].pc = "batch_written"
  BY KindOfTicket DEF BatchCommit, IInv
<1>b. PICK b \in Batches, K \in SUBSET Rows : b = req[r].batch /\ K = req[r].rows
  BY <1>a DEF MovingBatch
<1>1. lock[b] = {r}
  BY <1>a, <1>b, CheckedHolds
<1>2. /\ Rewrites(K, req[r].want) /\ req[r].want # "absent"
      /\ K # {} => req[r].want \in {"cancelled", "completed"}
  BY <1>a, <1>b, BatchCommitRewrites DEF MovingBatch, BatchStatuses, Enrollable
<1>3. \A e \in Rows : /\ e \in K => row'[e].status \notin Live
                      /\ e \notin K => row'[e] = row[e]
  BY <1>2, RewriteEffect DEF Live
<1>4. \A c \in Batches : LiveRows(c)' \subseteq LiveRows(c) \ K
  BY <1>3 DEF LiveRows, RowsIn
<1>5. Ends(r) /\ batch' = [batch EXCEPT ![b].status = req[r].want]
  BY <1>b DEF BatchCommit
<1>6. /\ \A c \in Batches : c # b => batch'[c] = batch[c]
      /\ batch'[b].status = req[r].want
  BY <1>5 DEF IInv, TypeOK, BatchRow
<1>7. req[r].want = "cancelled" => LiveRows(b) \subseteq K
  BY <1>a, <1>b DEF CancelsInv
<1> QED BY <1>1, <1>4, <1>5, <1>6, <1>7, OthersKeepCancels

\* So every step of the operations that lock keeps CancelsInv.
LEMMA NextCancels ==
  ASSUME IInv, LockedByOneInFlight, SeatsInv, CancelsInv, [Next]_vars
  PROVE CancelsInv'
<1> USE KindOfTicket
<1>1. CASE UNCHANGED vars
  BY <1>1 DEF vars, CancelsInv, NoLiveOnCancelledBatch, LiveRows, RowsIn
<1>2. ASSUME NEW r \in Requests, Start(r) PROVE CancelsInv'
  <2> DEFINE Started == /\ UNCHANGED <<row, batch>>
                        /\ \A q \in Requests : q # r => req'[q] = req[q]
                        /\ req'[r].pc \notin {"enrol_checked", "batch_written"}
  <2>1. Started
    <3> USE DEF Starts, IInv, TypeOK
    <3>1. ASSUME NEW s \in Students, NEW b \in Batches, NEW status, StartEnrol(r, s, b, status)
          PROVE Started
      BY <3>1 DEF StartEnrol
    <3>2. ASSUME NEW e \in Rows, NEW b \in Batches, StartTransfer(r, e, b) PROVE Started
      BY <3>2 DEF StartTransfer
    <3>3. ASSUME NEW e \in Rows, NEW target, StartStatus(r, e, target) PROVE Started
      BY <3>3 DEF StartStatus
    <3>4. ASSUME NEW b \in Batches, NEW target, StartBatchStatus(r, b, target) PROVE Started
      BY <3>4 DEF StartBatchStatus
    <3>5. ASSUME NEW b \in Batches, NEW c, NEW k, StartEdit(r, b, c, k) PROVE Started
      BY <3>5 DEF StartEdit
    <3> QED BY <1>2, <3>1, <3>2, <3>3, <3>4, <3>5 DEF Start
  <2> QED BY <2>1, TablesKeepCancels
<1>3. ASSUME NEW r \in Requests, EnrolCheck(r) PROVE CancelsInv'
  <2>a. req[r] \in Enrolling
    BY <1>3 DEF EnrolCheck, IInv
  <2>1. /\ UNCHANGED <<row, batch>> /\ batch[req[r].batch].status \in Enrollable
        /\ \A q \in Requests : q # r => req'[q] = req[q]
        /\ req'[r].pc = "enrol_checked" /\ req'[r].batch = req[r].batch
    BY <1>3, <2>a DEF EnrolCheck, Goes, Admits, IInv, TypeOK, Enrolling
  <2> QED BY <2>1, TablesKeepCancels
<1>4. ASSUME NEW r \in Requests, BatchWrite(r) PROVE CancelsInv'
  <2>a. req[r] \in MovingBatch
    BY <1>4 DEF BatchWrite, IInv
  <2>1. /\ UNCHANGED <<row, batch>>
        /\ \A q \in Requests : q # r => req'[q] = req[q]
        /\ req'[r].pc = "batch_written" /\ req'[r].batch = req[r].batch
        /\ req'[r].want = req[r].want
        /\ req'[r].rows = RowsIn(req[r].batch, Cascade(req[r].want))
    BY <1>4, <2>a DEF BatchWrite, IInv, TypeOK, MovingBatch
  <2>2. Cascade("cancelled") = Live
    BY DEF Cascade
  <2>3. req'[r].want = "cancelled" => LiveRows(req'[r].batch) \subseteq req'[r].rows
    BY <2>1, <2>2 DEF LiveRows
  <2> QED BY <2>1, <2>3, TablesKeepCancels
<1>5. ASSUME NEW r \in Requests, Refuse(r) \/ RollBack(r) PROVE CancelsInv'
  <2>1. /\ UNCHANGED <<row, batch>> /\ req'[r] = Idle
        /\ \A q \in Requests : q # r => req'[q] = req[q]
    BY <1>5 DEF Refuse, RollBack, Ends, IInv, TypeOK
  <2> QED BY <2>1, TablesKeepCancels DEF Idle
<1>6. ASSUME NEW r \in Requests
      PROVE ~ (ReactivateCheck(r) \/ StatusCommit(r) \/ EditCheck(r) \/ EditCommit(r))
  <2>1. req[r].pc \in {"enrol", "enrol_checked", "batch_status", "batch_written", "idle"}
    BY DEF SeatsInv, Enrolling, MovingBatch, Idle
  <2> QED BY <2>1 DEF ReactivateCheck, StatusCommit, EditCheck, EditCommit
<1> QED BY <1>1, <1>2, <1>3, <1>4, <1>5, <1>6, EnrolCommitCancels, BatchCommitCancels
        DEF Next, Advance

\* With the operations that take the batch lock, nobody is ever left live on a
\* cancelled batch, though students enrol while its cancellation cascades.
THEOREM NobodyOnCancelled ==
  ASSUME Operations \subseteq {"enrol", "transfer", "batch_status"}
  PROVE Spec => []NoLiveOnCancelledBatch
<1>1. Init => LockedByOneInFlight /\ SeatsInv /\ CancelsInv
  <2>1. Init => CancelsInv
    BY DEF Init, CancelsInv, NoLiveOnCancelledBatch, RowsIn, Absent, Live, Idle
  <2> QED BY <2>1, InitSeats
<1>2. IInv /\ LockedByOneInFlight /\ SeatsInv /\ CancelsInv /\ [Next]_vars
        => IInv' /\ LockedByOneInFlight' /\ SeatsInv' /\ CancelsInv'
  BY NextIInv, NextLocked, NextSeats, NextCancels
<1>3. CancelsInv => NoLiveOnCancelledBatch
  BY DEF CancelsInv
<1> QED BY <1>1, <1>2, <1>3, InitIInv, PTL DEF Spec
-----------------------------------------------------------------------------
(***************************************************************************)
(* The roster, where no two requests but those that enrol and transfer are *)
(* at work on one batch: what a request has checked is so until it commits. *)
(***************************************************************************)

\* A request with this ticket is at work on batch b, or on a row of it.
WorksOn(t, b) ==
  \/ t.pc \in {"enrol", "enrol_checked"} /\ (b = t.batch \/ (t.source # 0 /\ b = row[t.source].batch))
  \/ t.pc \in {"reactivate", "status"} /\ b = row[t.row].batch
  \/ t.pc \in {"batch_status", "batch_written", "edit", "edit_ready"} /\ b = t.batch

\* As if a status change and an edit, too, held the batch's lock throughout.
Apart ==
  \A q, r \in Requests, b \in Batches :
    q # r /\ WorksOn(req[q], b) /\ WorksOn(req[r], b) => req[q] \in Enrolling /\ req[r] \in Enrolling

\* What request r, with this ticket, may rely on.
Ready(r, t) ==
  /\ t.pc = "enrol_checked" => r \in lock[t.batch] /\ Admits(t)
  /\ t.pc \in {"enrol", "enrol_checked"} /\ t.source # 0 =>
       row[t.source].status \in Live \cup {"transferred"}
  /\ t.pc \in {"reactivate", "status"} => t.want \in MayBecome(row[t.row].status)
  /\ t.pc \in {"batch_status", "batch_written"} => t.want \in BatchMayBecome(batch[t.batch].status)
  /\ t.pc = "batch_written" => t.rows = RowsIn(t.batch, Cascade(t.want))
  /\ t.pc = "edit_ready" => CapacityFits(t)

AllReady == \A r \in Requests : Ready(r, req[r])

RosterInv == IInv /\ LockedByOneInFlight /\ OneLivePerStudentBatch /\ AllReady

\* A request that is over relies on nothing.
LEMMA IdleReady == ASSUME NEW r PROVE Ready(r, Idle) /\ Ready(r, Idle)'
BY DEF Ready, Idle

\* What a request relies on is in the tables, but for its lock.
LEMMA TablesKeepReady ==
  ASSUME UNCHANGED <<row, batch>>, NEW r, NEW t, Ready(r, t),
         t.pc = "enrol_checked" => r \in lock'[t.batch]
  PROVE Ready(r, t)'
<1>1. \A b, S : RowsIn(b, S)' = RowsIn(b, S)
  BY DEF RowsIn
<1>2. \A b : Seats(b)' = Seats(b)
  BY <1>1 DEF Seats
<1>3. t.pc = "enrol_checked" => Admits(t)'
  BY <1>1, <1>2 DEF Ready, Admits, OtherLive, IsFull
<1>4. t.pc = "edit_ready" => CapacityFits(t)'
  BY <1>2 DEF Ready, CapacityFits
<1> QED BY <1>1, <1>3, <1>4 DEF Ready

\* A request moves on, the tables stay: the others rely on what they did.
LEMMA GoesReady ==
  ASSUME IInv, AllReady, NEW r \in Requests, UNCHANGED <<row, batch>>,
         \A q \in Requests : q # r => req'[q] = req[q],
         \A b \in Batches, q \in Requests : q # r /\ q \in lock[b] => q \in lock'[b],
         NEW t, req'[r] = t, Ready(r, t)'
  PROVE AllReady'
<1> SUFFICES ASSUME NEW q \in Requests, q # r PROVE Ready(q, req[q])'
  BY DEF AllReady
<1>1. PICK u : u = req[q]
  OBVIOUS
<1>2. Ready(q, u) /\ req'[q] = u
  BY <1>1 DEF AllReady
<1>3. u.pc = "enrol_checked" => u.batch \in Batches
  BY <1>1, KindOfTicket DEF IInv, Enrolling
<1>4. u.pc = "enrol_checked" => q \in lock'[u.batch]
  BY <1>2, <1>3 DEF Ready
<1>5. Ready(q, u)'
  BY <1>2, <1>4, TablesKeepReady
<1> QED BY <1>2, <1>5

\* A request that starts has loaded what is there, and has checked it.
LEMMA StartReady ==
  ASSUME IInv, AllReady, NEW r \in Requests, Start(r)
  PROVE AllReady'
<1> USE DEF IInv, TypeOK
<1>1. UNCHANGED <<row, batch, lock>> /\ \A q \in Requests : q # r => req'[q] = req[q]
  BY DEF Start, StartEnrol, StartTransfer, StartStatus, StartBatchStatus, StartEdit, Starts
<1>2. ASSUME NEW t, Ready(r, t), t.pc # "enrol_checked", req' = [req EXCEPT ![r] = t]
      PROVE AllReady'
  <2>1. Ready(r, t)'
    BY <1>1, <1>2, TablesKeepReady
  <2>2. req'[r] = t
    BY <1>2
  <2> QED BY <1>1, <2>1, <2>2, GoesReady
<1>3. ASSUME NEW s \in Students, NEW b \in Batches, NEW status, StartEnrol(r, s, b, status)
      PROVE AllReady'
  BY <1>2, <1>3 DEF StartEnrol, Ready
<1>4. ASSUME NEW e \in Rows, NEW b \in Batches, StartTransfer(r, e, b)
      PROVE AllReady'
  <2> PICK t : t = [pc |-> "enrol", student |-> row[e].student, batch |-> b,
                    want |-> IF row[e].status = "active" THEN "active" ELSE "pending", source |-> e]
    OBVIOUS
  <2>1. req' = [req EXCEPT ![r] = t] /\ row[e].status \in Live
    BY <1>4 DEF StartTransfer, Transferable, Live
  <2>2. t.pc = "enrol" /\ t.source = e
    OBVIOUS
  <2> QED BY <1>2, <2>1, <2>2 DEF Ready
<1>5. ASSUME NEW e \in Rows, NEW target \in EnrolmentStatuses, StartStatus(r, e, target)
      PROVE AllReady'
  <2> PICK t : t = [pc |-> IF row[e].status = "suspended" /\ target = "active"
                           THEN "reactivate" ELSE "status",
                    row |-> e, want |-> target]
    OBVIOUS
  <2>1. req' = [req EXCEPT ![r] = t] /\ target \in MayBecome(row[e].status)
    BY <1>5 DEF StartStatus
  <2>2. t.pc \in {"reactivate", "status"} /\ t.row = e /\ t.want = target
    OBVIOUS
  <2> QED BY <1>2, <2>1, <2>2 DEF Ready
<1>6. ASSUME NEW b \in Batches, NEW target \in BatchStatuses, StartBatchStatus(r, b, target)
      PROVE AllReady'
  BY <1>2, <1>6 DEF StartBatchStatus, Ready
<1>7. ASSUME NEW b \in Batches, NEW c, NEW k, StartEdit(r, b, c, k)
      PROVE AllReady'
  BY <1>2, <1>7 DEF StartEdit, Ready
<1> QED BY <1>3, <1>4, <1>5, <1>6, <1>7 DEF Start

\* A check leaves what it found.
LEMMA CheckReady ==
  ASSUME IInv, AllReady, NEW r \in Requests,
         EnrolCheck(r) \/ ReactivateCheck(r) \/ BatchWrite(r) \/ EditCheck(r)
  PROVE AllReady'
<1> USE DEF IInv, TypeOK
<1> PICK t : t = req[r]
  OBVIOUS
<1>0. Ready(r, t) /\ t \in Enrolling \cup Moving \cup MovingBatch \cup Editing \cup {Idle}
  BY DEF AllReady
<1>1. ASSUME NEW b \in Batches, LockFree(b), Locks(r, b)
      PROVE /\ \A c \in Batches, q \in Requests : q # r /\ q \in lock[c] => q \in lock'[c]
            /\ r \in lock'[b]
  BY <1>1 DEF LockFree, Locks
<1>2. ASSUME NEW u, req' = [req EXCEPT ![r] = u], UNCHANGED <<row, batch>>, Ready(r, u)',
             \A c \in Batches, q \in Requests : q # r /\ q \in lock[c] => q \in lock'[c]
      PROVE AllReady'
  BY <1>2, GoesReady
<1>3. CASE EnrolCheck(r)
  <2>1. t \in Enrolling
    BY <1>3, KindOfTicket DEF EnrolCheck
  <2> PICK u : u = [t EXCEPT !.pc = "enrol_checked"]
    OBVIOUS
  <2>2. /\ u.pc = "enrol_checked" /\ u.student = t.student /\ u.batch = t.batch
        /\ u.source = t.source /\ t.batch \in Batches
    BY <2>1 DEF Enrolling
  <2>3. /\ req' = [req EXCEPT ![r] = u] /\ UNCHANGED <<row, batch>> /\ Admits(t)
        /\ LockFree(t.batch) /\ Locks(r, t.batch) /\ t.pc = "enrol"
    BY <1>3 DEF EnrolCheck, Goes
  <2>4. Admits(u) /\ Admits(u)'
    <3>1. Admits(u)
      BY <2>2, <2>3 DEF Admits
    <3>2. \A b, S : RowsIn(b, S)' = RowsIn(b, S)
      BY <2>3 DEF RowsIn
    <3>3. \A b : Seats(b)' = Seats(b)
      BY <3>2 DEF Seats
    <3> QED BY <2>3, <3>1, <3>2, <3>3 DEF Admits, OtherLive, IsFull
  <2>5. r \in lock'[u.batch]
    BY <1>1, <2>2, <2>3
  <2>6. Ready(r, u)'
    BY <1>0, <2>2, <2>3, <2>4, <2>5 DEF Ready
  <2> QED BY <1>1, <1>2, <2>2, <2>3, <2>6
<1>4. CASE ReactivateCheck(r)
  <2>1. t \in Moving
    BY <1>4, KindOfTicket DEF ReactivateCheck
  <2> PICK u, b : u = [t EXCEPT !.pc = "status"] /\ b = row[t.row].batch
    OBVIOUS
  <2>2. u.pc = "status" /\ u.row = t.row /\ u.want = t.want
    BY <2>1 DEF Moving
  <2>3. /\ req' = [req EXCEPT ![r] = u] /\ UNCHANGED <<row, batch>>
        /\ LockFree(b) /\ Locks(r, b) /\ t.pc = "reactivate"
    BY <1>4 DEF ReactivateCheck, Goes
  <2>4. b \in Batches
    <3>1. Present(t.row) /\ t.row \in Rows
      BY <2>1 DEF TicketsPointAtRows, Moving
    <3> QED BY <3>1 DEF Present, EnrolmentRow
  <2>5. Ready(r, u)'
    BY <1>0, <2>2, <2>3 DEF Ready
  <2> QED BY <1>1, <1>2, <2>3, <2>4, <2>5
<1>5. CASE BatchWrite(r)
  <2>1. t \in MovingBatch
    BY <1>5, KindOfTicket DEF BatchWrite
  <2> PICK u, K : K = RowsIn(t.batch, Cascade(t.want)) /\ u = [t EXCEPT !.pc = "batch_written", !.rows = K]
    OBVIOUS
  <2>2. /\ u.pc = "batch_written" /\ u.batch = t.batch /\ u.want = t.want /\ u.rows = K
        /\ t.batch \in Batches
    BY <2>1 DEF MovingBatch
  <2>3. /\ req' = [req EXCEPT ![r] = u] /\ UNCHANGED <<row, batch>>
        /\ LockFree(t.batch) /\ Locks(r, t.batch) /\ t.pc = "batch_status"
    BY <1>5 DEF BatchWrite
  <2>4. u.rows = RowsIn(u.batch, Cascade(u.want)) /\ RowsIn(u.batch, Cascade(u.want))' = RowsIn(u.batch, Cascade(u.want))
    BY <2>2, <2>3 DEF RowsIn
  <2>5. Ready(r, u)'
    BY <1>0, <2>2, <2>3, <2>4 DEF Ready
  <2> QED BY <1>1, <1>2, <2>2, <2>3, <2>5
<1>6. CASE EditCheck(r)
  <2>1. t \in Editing
    BY <1>6, KindOfTicket DEF EditCheck
  <2> PICK u : u = [t EXCEPT !.pc = "edit_ready"]
    OBVIOUS
  <2>2. u.pc = "edit_ready" /\ u.batch = t.batch /\ u.capacity = t.capacity
    BY <2>1 DEF Editing
  <2>3. /\ req' = [req EXCEPT ![r] = u] /\ UNCHANGED <<row, batch, lock>> /\ CapacityFits(t)
    BY <1>6 DEF EditCheck, Goes
  <2>4. Ready(r, u)
    BY <2>2, <2>3 DEF Ready, CapacityFits
  <2>5. Ready(r, u)'
    BY <2>2, <2>3, <2>4, TablesKeepReady
  <2> QED BY <1>2, <2>3, <2>5
<1> QED BY <1>3, <1>4, <1>5, <1>6

\* A commit takes no seat of another batch than the one its request has locked,
\* nor puts another student on it, so another joining request is as ready.
LEMMA EnrolCommitReady ==
  ASSUME RosterInv, NEW r \in Requests, EnrolCommit(r), NEW q \in Requests, q # r, req[q] \in Enrolling
  PROVE Ready(q, req[q])'
<1> PICK t : t = req[q]
  OBVIOUS
<1>1. /\ req[r] \in Enrolling /\ req[r].pc = "enrol_checked" /\ Ready(r, req[r])
      /\ req' = [req EXCEPT ![r] = Idle] /\ req \in [Requests -> Tickets]
      /\ \A c \in Batches : lock'[c] = lock[c] \ {r}
  BY KindOfTicket DEF EnrolCommit, RosterInv, IInv, AllReady, Ends, TypeOK, Tickets
<1>2. PICK n \in Rows : Inserts(r, n)
  BY EnrolCommitInserts DEF RosterInv
<1>3. req'[q] = t /\ Ready(q, t)
  BY <1>1 DEF RosterInv, AllReady
<1>4. t.pc \in {"enrol", "enrol_checked"} /\ t.batch \in Batches /\ t.source \in 0 .. MaxRows
  BY DEF Enrolling
<1>5. t.source # 0 => t.source \in Rows /\ Present(t.source)
  BY <1>3, <1>4 DEF RosterInv, IInv, TicketsPointAtRows, Rows
<1>6. t.source # 0 => row'[t.source] = row[t.source] \/ row'[t.source].status = "transferred"
  BY <1>2, <1>5, InsertEffect DEF RosterInv
<1>7. ASSUME t.pc = "enrol_checked" PROVE q \in lock'[t.batch] /\ Admits(t)'
  <2>1. q \in lock[t.batch] /\ Admits(t) /\ r \in lock[req[r].batch]
    BY <1>1, <1>3, <1>7 DEF Ready
  <2>2. t.batch # req[r].batch /\ q \in lock'[t.batch]
    BY <1>1, <1>4, <2>1 DEF RosterInv, LockedByOneInFlight
  <2>3. \A S : "transferred" \notin S => RowsIn(t.batch, S)' \subseteq RowsIn(t.batch, S)
    BY <1>2, <2>2, InsertEffect DEF RosterInv, RowsIn
  <2>4. OtherLive(t.student, t.batch, 0)' = {}
    <3>1. \A d \in Rows : row'[d].status \in Live /\ row'[d].batch = t.batch => row'[d] = row[d]
      BY <1>2, <2>2, InsertEffect DEF RosterInv, Live
    <3>2. OtherLive(t.student, t.batch, 0) = {}
      BY <2>1 DEF Admits
    <3> QED BY <3>1, <3>2 DEF OtherLive, RowsIn
  <2>5. Seats(t.batch)' <= Seats(t.batch) /\ Seats(t.batch) \in Nat /\ Seats(t.batch)' \in Nat
    <3>1. RowsIn(t.batch, SeatHolding)' \subseteq RowsIn(t.batch, SeatHolding)
      BY <2>3 DEF SeatHolding, Live
    <3>2. RowsIn(t.batch, SeatHolding) \in SUBSET Rows
      BY DEF RowsIn
    <3> QED BY <3>1, <3>2, RowSets DEF Seats
  <2>6. batch' = batch /\ batch[t.batch].capacity \in Nat
    BY <1>2, <1>4, ConstantsAssumption DEF Inserts, RosterInv, IInv, TypeOK, BatchRow
  <2>7. ~ IsFull(t.batch)'
    BY <2>1, <2>5, <2>6 DEF Admits, IsFull
  <2>8. Admits(t)'
    BY <2>1, <2>4, <2>6, <2>7 DEF Admits
  <2> QED BY <2>2, <2>8
<1>8. Ready(q, t)'
  BY <1>3, <1>4, <1>6, <1>7 DEF Ready
<1> QED BY <1>3, <1>8

\* A batch, and the rows on it, are as they were.
Untouched(b) ==
  /\ batch'[b] = batch[b]
  /\ \A e \in Rows :
       (Present(e) /\ row[e].batch = b) \/ (Present(e)' /\ row'[e].batch = b) => row'[e] = row[e]

\* A commit touches only the batches its request is at work on.
LEMMA CommitInside ==
  ASSUME IInv, NEW r \in Requests,
         EnrolCommit(r) \/ StatusCommit(r) \/ BatchCommit(r) \/ EditCommit(r),
         NEW b \in Batches, ~ WorksOn(req[r], b)
  PROVE Untouched(b)
<1> PICK t : t = req[r]
  OBVIOUS
<1>1. CASE EnrolCommit(r)
  <2>1. PICK n \in Rows : Inserts(r, n)
    BY <1>1, EnrolCommitInserts
  <2>2. t.pc = "enrol_checked" /\ batch' = batch
    BY <2>1 DEF Inserts
  <2>3. t.batch # b /\ (t.source # 0 => row[t.source].batch # b)
    BY <2>2 DEF WorksOn
  <2>4. /\ ~ Present(n) /\ row'[n].batch = t.batch
        /\ \A e \in Rows : e # n /\ e # t.source => row'[e] = row[e]
    BY <2>1, InsertEffect
  <2>5. t.source # 0 => t.source # n /\ Present(t.source) /\ row'[t.source].batch = row[t.source].batch
    <3>1. t.source # 0 => t.source \in Rows /\ Present(t.source)
      BY <2>1 DEF Inserts
    <3> QED BY <2>1, <3>1, InsertEffect
  <2>6. 0 \notin Rows
    BY ConstantsAssumption DEF Rows
  <2> QED BY <2>2, <2>3, <2>4, <2>5, <2>6 DEF Untouched
<1>2. CASE StatusCommit(r)
  <2>1. t.pc = "status" /\ batch' = batch /\ t \in Moving
    BY <1>2, KindOfTicket DEF StatusCommit, IInv
  <2>2. t.row \in Rows /\ row[t.row].batch # b /\ t.want # "absent"
    BY <2>1 DEF WorksOn, Moving, EnrolmentStatuses, SeatHolding, Live
  <2>3. Present(t.row) /\ row[t.row] \in EnrolmentRow
    BY <2>1, <2>2 DEF IInv, TypeOK, TicketsPointAtRows, Present
  <2>4. row' = [row EXCEPT ![t.row].status = t.want]
    BY <1>2 DEF StatusCommit
  <2>5. /\ row'[t.row].batch = row[t.row].batch
        /\ \A e \in Rows : e # t.row => row'[e] = row[e]
    BY <2>2, <2>3, <2>4 DEF IInv, TypeOK, EnrolmentRow
  <2> QED BY <2>1, <2>2, <2>5 DEF Untouched
<1>3. CASE BatchCommit(r)
  <2>1. t.pc = "batch_written" /\ t \in MovingBatch /\ batch' = [batch EXCEPT ![t.batch].status = t.want]
        /\ Rewrites(t.rows, t.want)
    BY <1>3, BatchCommitRewrites DEF BatchCommit
  <2>2. t.batch # b
    BY <2>1 DEF WorksOn
  <2>3. t.rows \in SUBSET Rows /\ \A e \in t.rows : Present(e) /\ row[e].batch = t.batch
    BY <2>1 DEF MovingBatch, IInv, TicketsPointAtRows
  <2>4. batch'[b] = batch[b]
    BY <2>1, <2>2 DEF IInv, TypeOK
  <2>5. t.want # "absent"
    BY <2>1 DEF MovingBatch, BatchStatuses, Enrollable
  <2>6. \A e \in Rows : /\ e \in t.rows => row'[e].batch = t.batch
                        /\ e \notin t.rows => row'[e] = row[e]
    BY <2>1, <2>3, <2>5, RewriteEffect
  <2> QED BY <2>2, <2>3, <2>4, <2>6 DEF Untouched
<1>4. CASE EditCommit(r)
  <2>1. t.pc = "edit_ready" /\ row' = row
    BY <1>4 DEF EditCommit
  <2>2. t.batch # b
    BY <2>1 DEF WorksOn
  <2>3. PICK k : batch' = [batch EXCEPT
                   ![t.batch].capacity = IF t.capacity = 0 THEN @ ELSE t.capacity,
                   ![t.batch].course = k]
    BY <1>4 DEF EditCommit
  <2>4. batch'[b] = batch[b]
    BY <2>2, <2>3 DEF IInv, TypeOK
  <2> QED BY <2>1, <2>4 DEF Untouched
<1> QED BY <1>1, <1>2, <1>3, <1>4

\* A request relies on nothing outside the batches it is at work on.
LEMMA UntouchedReady ==
  ASSUME IInv, NEW q \in Requests, NEW t, t = req[q], Ready(q, t),
         t.pc = "enrol_checked" => q \in lock'[t.batch],
         \A b \in Batches : WorksOn(t, b) => Untouched(b)
  PROVE Ready(q, t)'
<1>1. ASSUME NEW b, Untouched(b), NEW S, "absent" \notin S PROVE RowsIn(b, S)' = RowsIn(b, S)
  <2>1. \A e \in Rows : row[e].status \in S => Present(e)
    BY <1>1 DEF Present, Absent
  <2>2. \A e \in Rows : row'[e].status \in S => Present(e)'
    BY <1>1 DEF Present, Absent
  <2> QED BY <1>1, <2>1, <2>2 DEF RowsIn, Untouched
<1>2. ASSUME NEW b, Untouched(b)
      PROVE Seats(b)' = Seats(b) /\ \A s : OtherLive(s, b, 0)' = OtherLive(s, b, 0)
  <2>1. RowsIn(b, SeatHolding)' = RowsIn(b, SeatHolding) /\ RowsIn(b, Live)' = RowsIn(b, Live)
    BY <1>1, <1>2 DEF SeatHolding, Live
  <2>2. \A d \in RowsIn(b, Live) : row'[d] = row[d]
    BY <1>2 DEF RowsIn, Untouched, Present, Absent, Live
  <2> QED BY <2>1, <2>2 DEF Seats, OtherLive
<1>3. CASE t \in Enrolling
  <2>1. t.pc \in {"enrol", "enrol_checked"} /\ t.batch \in Batches
    BY <1>3 DEF Enrolling
  <2>2. Untouched(t.batch)
    BY <2>1 DEF WorksOn
  <2>3. t.source # 0 => row'[t.source] = row[t.source]
    <3> SUFFICES ASSUME t.source # 0 PROVE row'[t.source] = row[t.source]
      OBVIOUS
    <3>1. t.source \in Rows /\ Present(t.source)
      BY <1>3 DEF IInv, TicketsPointAtRows, Enrolling, Rows
    <3>2. row[t.source].batch \in Batches
      BY <3>1 DEF IInv, TypeOK, Present, EnrolmentRow
    <3>3. Untouched(row[t.source].batch)
      BY <2>1, <3>2 DEF WorksOn
    <3> QED BY <3>1, <3>3 DEF Untouched
  <2>4. t.pc = "enrol_checked" => Admits(t)'
    <3>1. OtherLive(t.student, t.batch, 0)' = OtherLive(t.student, t.batch, 0)
          /\ Seats(t.batch)' = Seats(t.batch) /\ batch'[t.batch] = batch[t.batch]
      BY <1>2, <2>2 DEF Untouched
    <3> QED BY <3>1 DEF Ready, Admits, IsFull
  <2> QED BY <2>1, <2>3, <2>4 DEF Ready
<1>4. CASE t \in Moving
  <2>1. t.pc \in {"reactivate", "status"} /\ t.row \in Rows /\ Present(t.row)
    BY <1>4 DEF IInv, TicketsPointAtRows, Moving
  <2>2. row[t.row].batch \in Batches
    BY <2>1 DEF IInv, TypeOK, Present, EnrolmentRow
  <2>3. row'[t.row] = row[t.row]
    BY <2>1, <2>2 DEF WorksOn, Untouched
  <2> QED BY <2>1, <2>3 DEF Ready
<1>5. CASE t \in MovingBatch
  <2>1. t.pc \in {"batch_status", "batch_written"} /\ t.batch \in Batches
    BY <1>5 DEF MovingBatch
  <2>2. Untouched(t.batch)
    BY <2>1 DEF WorksOn
  <2>3. RowsIn(t.batch, Cascade(t.want))' = RowsIn(t.batch, Cascade(t.want))
    <3>1. "absent" \notin Cascade(t.want)
      BY DEF Cascade, Live
    <3> QED BY <1>1, <2>2, <3>1
  <2> QED BY <2>1, <2>2, <2>3 DEF Ready, Untouched
<1>6. CASE t \in Editing
  <2>1. t.pc \in {"edit", "edit_ready"} /\ t.batch \in Batches
    BY <1>6 DEF Editing
  <2>2. Seats(t.batch)' = Seats(t.batch)
    BY <1>2, <2>1 DEF WorksOn
  <2> QED BY <2>1, <2>2 DEF Ready, CapacityFits
<1>7. CASE t = Idle
  BY <1>7, IdleReady
<1> QED BY <1>3, <1>4, <1>5, <1>6, <1>7 DEF IInv, TypeOK

\* Every step keeps what is relied on.
LEMMA NextRoster ==
  ASSUME Apart, RosterInv, [Next]_vars
  PROVE RosterInv'
<1>1. IInv' /\ LockedByOneInFlight' /\ OneLivePerStudentBatch'
  BY NextIInv, NextLocked, NextOneLive DEF RosterInv
<1>2. AllReady'
  <2>1. CASE UNCHANGED vars
    <3> SUFFICES ASSUME NEW q \in Requests PROVE Ready(q, req[q])'
      BY DEF AllReady
    <3> PICK t : t = req[q]
      OBVIOUS
    <3>1. UNCHANGED <<row, batch, lock, req>> /\ Ready(q, t)
      BY <2>1 DEF vars, RosterInv, AllReady
    <3>2. Ready(q, t)'
      <4>1. t.pc = "enrol_checked" => q \in lock'[t.batch]
        BY <3>1 DEF Ready
      <4> QED BY <3>1, <4>1, TablesKeepReady
    <3> QED BY <3>1, <3>2
  <2>2. ASSUME NEW r \in Requests, Start(r) PROVE AllReady'
    BY <2>2, StartReady DEF RosterInv
  <2>3. ASSUME NEW r \in Requests, Refuse(r) \/ RollBack(r) PROVE AllReady'
    <3>1. /\ UNCHANGED <<row, batch>> /\ req'[r] = Idle
          /\ \A q \in Requests : q # r => req'[q] = req[q]
          /\ \A c \in Batches : lock'[c] = lock[c] \ {r}
      BY <2>3 DEF Refuse, RollBack, Ends, RosterInv, IInv, TypeOK
    <3> QED BY <3>1, GoesReady, IdleReady DEF RosterInv
  <2>4. ASSUME NEW r \in Requests, EnrolCommit(r) \/ StatusCommit(r) \/ BatchCommit(r) \/ EditCommit(r)
        PROVE AllReady'
    <3> SUFFICES ASSUME NEW q \in Requests PROVE Ready(q, req[q])'
      BY DEF AllReady
    <3>1. /\ req'[r] = Idle /\ \A c \in Batches : lock'[c] = lock[c] \ {r}
          /\ q # r => req'[q] = req[q]
      BY <2>4 DEF EnrolCommit, StatusCommit, BatchCommit, EditCommit, Ends, RosterInv, IInv, TypeOK
    <3>2. CASE q = r
      BY <3>1, <3>2, IdleReady
    <3>3. CASE q # r /\ req[q] \in Enrolling /\ req[r] \in Enrolling
      <4>1. EnrolCommit(r)
        BY <2>4, <3>3 DEF Enrolling, StatusCommit, BatchCommit, EditCommit
      <4> QED BY <3>3, <4>1, EnrolCommitReady
    <3>4. CASE q # r /\ ~ (req[q] \in Enrolling /\ req[r] \in Enrolling)
      <4> PICK t : t = req[q]
        OBVIOUS
      <4>1. Ready(q, t) /\ IInv /\ req'[q] = t
        BY <3>1, <3>4 DEF RosterInv, AllReady
      <4>2. \A b \in Batches : WorksOn(t, b) => Untouched(b)
        BY <2>4, <3>4, <4>1, CommitInside DEF Apart
      <4>3. t.pc = "enrol_checked" => q \in lock'[t.batch]
        <5>1. t.pc = "enrol_checked" => t.batch \in Batches
          BY <4>1, KindOfTicket DEF IInv, Enrolling
        <5> QED BY <3>1, <3>4, <4>1, <5>1 DEF Ready
      <4>4. Ready(q, t)'
        BY <4>1, <4>2, <4>3, UntouchedReady
      <4> QED BY <4>1, <4>4
    <3> QED BY <3>2, <3>3, <3>4
  <2> QED BY <2>1, <2>2, <2>3, <2>4, CheckReady DEF Next, Advance, RosterInv
<1> QED BY <1>1, <1>2 DEF RosterInv

\* Nobody relies on anything at first.
LEMMA InitRoster == Init => RosterInv
<1> SUFFICES ASSUME Init PROVE RosterInv
  OBVIOUS
<1>1. AllReady
  BY IdleReady DEF Init, AllReady
<1>2. OneLivePerStudentBatch
  BY DEF Init, OneLivePerStudentBatch, RowsIn, Absent, Live
<1> QED BY <1>1, <1>2, InitIInv, InitSeats DEF RosterInv

\* No two transfers in flight move one enrolment.
TransfersApart ==
  \A q, r \in Requests :
    q # r /\ req[q] \in Enrolling /\ req[r] \in Enrolling /\ req[q].source # 0
      => req[q].source # req[r].source

\* Then none of them finds it ended.
SourcesLive ==
  \A r \in Requests : req[r] \in Enrolling /\ req[r].source # 0 => row[req[r].source].status \in Live

\* A transfer has the source it started with, which it found live.
LEMMA SourceFrom ==
  ASSUME IInv, [Next]_vars, NEW q \in Requests, req'[q] \in Enrolling, req'[q].source # 0
  PROVE \/ req[q] \in Enrolling /\ req'[q].source = req[q].source
        \/ row' = row /\ row[req'[q].source].status \in Live
<1> USE DEF IInv, TypeOK
<1>1. CASE req'[q] = req[q]
  BY <1>1
<1>2. ASSUME NEW r \in Requests, Start(r), req'[q] # req[q]
      PROVE row' = row /\ row[req'[q].source].status \in Live
  <2>1. ASSUME NEW s, NEW b, NEW status, StartEnrol(r, s, b, status) PROVE FALSE
    BY <1>2, <2>1 DEF StartEnrol
  <2>2. ASSUME NEW e, NEW b, StartTransfer(r, e, b)
        PROVE row' = row /\ row[req'[q].source].status \in Live
    BY <1>2, <2>2 DEF StartTransfer, Starts, Transferable, Live
  <2>3. ASSUME NEW t, t.pc \notin {"enrol", "enrol_checked"}, req' = [req EXCEPT ![r] = t] PROVE FALSE
    BY <1>2, <2>3 DEF Enrolling
  <2>4. ASSUME NEW e, NEW target, StartStatus(r, e, target) PROVE FALSE
    <3> PICK t : t = [pc |-> IF row[e].status = "suspended" /\ target = "active"
                             THEN "reactivate" ELSE "status",
                      row |-> e, want |-> target]
      OBVIOUS
    <3>1. t.pc \notin {"enrol", "enrol_checked"} /\ req' = [req EXCEPT ![r] = t]
      BY <2>4 DEF StartStatus
    <3> QED BY <2>3, <3>1
  <2>5. ASSUME NEW b, NEW target, StartBatchStatus(r, b, target) PROVE FALSE
    BY <2>3, <2>5 DEF StartBatchStatus
  <2>6. ASSUME NEW b, NEW c, NEW k, StartEdit(r, b, c, k) PROVE FALSE
    BY <2>3, <2>6 DEF StartEdit
  <2> QED BY <1>2, <2>1, <2>2, <2>4, <2>5, <2>6 DEF Start
<1>3. ASSUME NEW r \in Requests, Ends(r), req'[q] # req[q] PROVE FALSE
  <2>1. req'[q] = Idle
    BY <1>3, EndsTicket
  <2> QED BY <2>1 DEF Enrolling, Idle
<1>4. ASSUME NEW r \in Requests, EnrolCheck(r), req'[q] # req[q]
      PROVE req[q] \in Enrolling /\ req'[q].source = req[q].source
  <2>1. req' = [req EXCEPT ![r].pc = "enrol_checked"] /\ req[r] \in Enrolling
    BY <1>4, KindOfTicket DEF EnrolCheck, Goes
  <2> QED BY <1>4, <2>1 DEF Enrolling
<1>5. ASSUME NEW r \in Requests, ReactivateCheck(r) \/ BatchWrite(r) \/ EditCheck(r), req'[q] # req[q]
      PROVE FALSE
  <2>1. req[r] \in Moving \/ req[r] \in MovingBatch \/ req[r] \in Editing
    BY <1>5, KindOfTicket DEF ReactivateCheck, BatchWrite, EditCheck
  <2>2. q = r /\ req'[r].pc \in {"status", "batch_written", "edit_ready"}
    BY <1>5, <2>1 DEF ReactivateCheck, BatchWrite, EditCheck, Goes, Moving, MovingBatch, Editing
  <2> QED BY <2>2 DEF Enrolling
<1>6. UNCHANGED vars => req'[q] = req[q]
  BY DEF vars
<1> QED BY <1>1, <1>2, <1>3, <1>4, <1>5, <1>6
     DEF Next, Advance, Refuse, RollBack, EnrolCommit, StatusCommit, BatchCommit, EditCommit

LEMMA NextSourcesLive ==
  ASSUME Apart, TransfersApart, RosterInv, SourcesLive, [Next]_vars
  PROVE SourcesLive'
<1> SUFFICES ASSUME NEW q \in Requests, req'[q] \in Enrolling, req'[q].source # 0
    PROVE row'[req'[q].source].status \in Live
  BY DEF SourcesLive, Enrolling, Live
<1> PICK d : d = req'[q].source
  OBVIOUS
<1>1. CASE row' = row /\ row[d].status \in Live
  BY <1>1
<1>2. CASE req[q] \in Enrolling /\ d = req[q].source
  <2>1. row[d].status \in Live /\ d \in Rows /\ Present(d) /\ row[d].batch \in Batches
    BY <1>2 DEF SourcesLive, RosterInv, IInv, TypeOK, TicketsPointAtRows, Enrolling, Rows, Present,
                EnrolmentRow
  <2>2. WorksOn(req[q], row[d].batch)
    BY <1>2 DEF WorksOn, Enrolling
  <2>3. ASSUME NEW r \in Requests, Ends(r) PROVE q # r
    BY <2>3 DEF Ends, RosterInv, IInv, TypeOK, Enrolling, Idle
  <2>4. ASSUME NEW r \in Requests, NEW n \in Rows, Inserts(r, n) PROVE row'[d] = row[d]
    <3>1. q # r /\ req[r] \in Enrolling /\ d # n
      BY <2>1, <2>3, <2>4 DEF Inserts
    <3>2. d # req[r].source
      BY <1>2, <3>1 DEF TransfersApart
    <3> QED BY <2>1, <2>4, <3>1, <3>2 DEF Inserts
  <2>5. ASSUME NEW r \in Requests, StatusCommit(r) \/ BatchCommit(r) PROVE row'[d] = row[d]
    <3>1. q # r /\ req[r] \notin Enrolling
      BY <2>3, <2>5 DEF StatusCommit, BatchCommit, Enrolling
    <3>2. ~ WorksOn(req[r], row[d].batch)
      BY <2>1, <2>2, <3>1 DEF Apart
    <3>3. Untouched(row[d].batch)
      BY <2>1, <2>5, <3>2, CommitInside DEF RosterInv
    <3> QED BY <2>1, <3>3 DEF Untouched
  <2> QED BY <2>1, <2>4, <2>5, TableSteps DEF RosterInv
<1> QED BY <1>1, <1>2, SourceFrom DEF RosterInv

\* No operation touches an enrolment that has ended, as long as the requests
\* are apart and no two transfer one enrolment.
THEOREM EndedStay == Spec /\ []Apart /\ []TransfersApart => TerminalStays
<1>1. RosterInv /\ SourcesLive /\ [Next]_vars =>
        [\A e \in Rows : Present(e) /\ row[e].status \notin Live => row'[e] = row[e]]_vars
  <2> SUFFICES ASSUME RosterInv, SourcesLive, [Next]_vars, NEW e \in Rows, Present(e), row[e].status \notin Live
      PROVE row'[e] = row[e]
    OBVIOUS
  <2>1. CASE row' = row
    BY <2>1
  <2>2. ASSUME NEW r \in Requests, NEW n \in Rows, Inserts(r, n) PROVE row'[e] = row[e]
    <3>1. req[r].source # 0 => row[req[r].source].status \in Live
      BY <2>2 DEF Inserts, SourcesLive
    <3>2. e # n /\ e # 0
      BY <2>2, ConstantsAssumption DEF Inserts, Rows
    <3>3. e # req[r].source
      BY <3>1, <3>2
    <3> QED BY <2>2, <3>2, <3>3 DEF Inserts
  <2>3. ASSUME NEW r \in Requests, req[r] \in Moving, StatusCommit(r), Rewrites({req[r].row}, req[r].want)
        PROVE row'[e] = row[e]
    <3>1. req[r].want \in MayBecome(row[req[r].row].status)
      BY <2>3 DEF StatusCommit, RosterInv, AllReady, Ready
    <3>2. row[req[r].row].status \in Live
      BY <3>1, StatusMoves
    <3> QED BY <2>3, <3>2 DEF Rewrites
  <2>4. ASSUME NEW r \in Requests, req[r] \in MovingBatch, BatchCommit(r), Rewrites(req[r].rows, req[r].want)
        PROVE row'[e] = row[e]
    <3>1. req[r].rows = RowsIn(req[r].batch, Cascade(req[r].want))
      BY <2>4 DEF BatchCommit, RosterInv, AllReady, Ready
    <3>2. \A x : Cascade(x) \subseteq Live
      BY DEF Cascade, Live
    <3>3. e \notin req[r].rows
      BY <3>1, <3>2 DEF RowsIn
    <3> QED BY <2>4, <3>3 DEF Rewrites
  <2> QED BY <2>1, <2>2, <2>3, <2>4, TableSteps DEF RosterInv
<1>2. Init => RosterInv /\ SourcesLive
  BY InitRoster DEF Init, SourcesLive, Enrolling, Idle
<1>3. Apart /\ TransfersApart /\ RosterInv /\ SourcesLive /\ [Next]_vars => RosterInv' /\ SourcesLive'
  BY NextRoster, NextSourcesLive
<1> QED BY <1>1, <1>2, <1>3, PTL DEF Spec, TerminalStays

-----------------------------------------------------------------------------
(***************************************************************************)
(* The tables implement the roster: the view of Promise, in words of the   *)
(* rows, and what each commit does to it.                                  *)
(***************************************************************************)

On(b) == {row[e].student : e \in RowsIn(b, Live)}
Done(b) == Cardinality(RowsIn(b, {"completed"}))
Takes(b) == batch[b].status \in Enrollable

\* The view of a batch is not touched.
Stays(b) ==
  On(b)' = On(b) /\ Done(b)' = Done(b) /\ Takes(b)' = Takes(b)
  /\ batch'[b].capacity = batch[b].capacity

\* Where no view is touched, the roster stutters.
LEMMA PromiseStutters ==
  ASSUME \A b \in Batches : Stays(b)
  PROVE UNCHANGED Promise!rvars
<1>1. /\ [b \in Batches |-> On(b)]' = [b \in Batches |-> On(b)]
      /\ [b \in Batches |-> Done(b)]' = [b \in Batches |-> Done(b)]
      /\ [b \in Batches |-> Takes(b)]' = [b \in Batches |-> Takes(b)]
      /\ [b \in Batches |-> batch[b].capacity]' = [b \in Batches |-> batch[b].capacity]
  BY DEF Stays
<1> QED BY <1>1 DEF Promise!rvars, On, Done, Takes

\* Rows that keep status, student and batch keep the view.
LEMMA RowsStay ==
  ASSUME NEW b \in Batches, row' = row
  PROVE On(b)' = On(b) /\ Done(b)' = Done(b)
BY DEF On, Done, RowsIn

\* Roster counts as the tables do.
LEMMA SameCount == \A S : Promise!Cardinality(S) = Cardinality(S)
BY DEF Promise!Cardinality, Cardinality

\* The seats of the roster are seats of the table.
LEMMA TakenFits ==
  ASSUME NEW b \in Batches
  PROVE Promise!Taken(b) \in Int /\ Promise!Taken(b) <= Seats(b)
<1> DEFINE L == RowsIn(b, Live)  C == RowsIn(b, {"completed"})  f == [e \in L |-> row[e].student]
<1>1. L \in SUBSET Rows /\ C \in SUBSET Rows /\ L \cap C = {} /\ RowsIn(b, SeatHolding) = L \cup C
  BY DEF RowsIn, Live, SeatHolding
<1>2. IsFiniteSet(L) /\ IsFiniteSet(C) /\ Cardinality(L) \in Nat /\ Cardinality(C) \in Nat
  BY <1>1, RowSets
<1>3. Seats(b) = Cardinality(L) + Cardinality(C)
  <2>1. Cardinality(L \cup C) = Cardinality(L) + Cardinality(C) - Cardinality(L \cap C)
    BY <1>2, FS_Union
  <2>2. Cardinality(L \cap C) = 0
    BY <1>1, FS_EmptySet
  <2> HIDE DEF L, C
  <2>3. Seats(b) = Cardinality(L \cup C)
    BY <1>1 DEF Seats
  <2> QED BY <1>2, <2>1, <2>2, <2>3
<1>4. f \in Surjection(L, On(b))
  BY Fun_IsSurj DEF On
<1>5. IsFiniteSet(On(b)) /\ Cardinality(On(b)) <= Cardinality(L)
  BY <1>2, <1>4, FS_Surjection
<1>6. Cardinality(On(b)) \in Nat
  BY <1>5, FS_CardinalityType
<1>7. Promise!Taken(b) = Cardinality(On(b)) + Done(b)
  <2>1. Promise!Taken(b) = Cardinality([c \in Batches |-> On(c)][b]) + [c \in Batches |-> Done(c)][b]
    BY SameCount DEF Promise!Taken, On, Done
  <2>2. [c \in Batches |-> On(c)][b] = On(b) /\ [c \in Batches |-> Done(c)][b] = Done(b)
    OBVIOUS
  <2> QED BY <2>1, <2>2
<1>8. Done(b) = Cardinality(C)
  BY DEF Done
<1> HIDE DEF L, C
<1> QED BY <1>2, <1>3, <1>5, <1>6, <1>7, <1>8

\* The student inserted by a commit joins; where the row transferred was still
\* live, that is a move.
LEMMA EnrolCommitJoins ==
  ASSUME RosterInv, NEW r \in Requests, EnrolCommit(r)
  PROVE Promise!Next
<1> PICK t, b, s : t = req[r] /\ b = t.batch /\ s = t.student
  OBVIOUS
<1>1. /\ t \in Enrolling /\ t.pc = "enrol_checked" /\ Ready(r, t)
      /\ b \in Batches /\ s \in Students
  BY KindOfTicket DEF EnrolCommit, RosterInv, IInv, AllReady, Enrolling
<1>2. PICK n \in Rows : Inserts(r, n)
  BY EnrolCommitInserts DEF RosterInv
<1>3. Admits(t) /\ batch' = batch /\ n # 0
  BY <1>1, <1>2 DEF Ready, Inserts, Rows
<1>4. /\ row'[n].status \in Live /\ row'[n].student = s /\ row'[n].batch = b /\ row'[n].status # "completed"
      /\ row[n].status \notin Live /\ row[n].status # "completed" /\ n # t.source
      /\ \A e \in Rows : e # n /\ e # t.source => row'[e] = row[e]
  BY <1>2, InsertEffect DEF RosterInv, Live, Present, Absent
<1>5. \A e \in Rows : e = t.source =>
        /\ e # 0 /\ row'[e].status = "transferred" /\ row[e].status # "completed"
        /\ row[e].student = s /\ row[e].batch # b /\ row[e].batch \in Batches
  <2> SUFFICES ASSUME t.source \in Rows
      PROVE /\ t.source # 0 /\ row'[t.source].status = "transferred" /\ row[t.source].status # "completed"
            /\ row[t.source].student = s /\ row[t.source].batch # b /\ row[t.source].batch \in Batches
    OBVIOUS
  <2>1. t.source # 0
    BY ConstantsAssumption DEF Rows
  <2>2. /\ row[t.source] \in EnrolmentRow /\ row[t.source].student = s /\ row[t.source].batch # b
    BY <1>2, <2>1 DEF Inserts
  <2>3. row[t.source].batch \in Batches
    BY <2>2 DEF EnrolmentRow
  <2>4. row[t.source].status # "completed"
    BY <1>1, <2>1 DEF Ready, Live
  <2>5. row'[t.source].status = "transferred"
    BY <1>2, InsertEffect DEF RosterInv
  <2> QED BY <2>1, <2>2, <2>3, <2>4, <2>5
<1>6. Promise!MayJoin(s, b)
  <2>1. Takes(b) /\ s \notin On(b)
    BY <1>1, <1>3, ConstantsAssumption DEF Admits, Takes, On, OtherLive, RowsIn, Rows
  <2>2. Promise!Taken(b) < batch[b].capacity
    <3>1. ~ (Seats(b) >= batch[b].capacity)
      BY <1>1, <1>3 DEF Admits, IsFull
    <3>2. Seats(b) \in Nat /\ batch[b].capacity \in Nat
      BY <1>1, RowSets, ConstantsAssumption DEF Seats, RowsIn, RosterInv, IInv, TypeOK, BatchRow
    <3> QED BY <1>1, <3>1, <3>2, TakenFits
  <2> QED BY <1>1, <2>1, <2>2 DEF Promise!MayJoin, On, Takes
<1>7. \A c \in Batches : Done(c)' = Done(c)
  <2> SUFFICES ASSUME NEW c \in Batches PROVE RowsIn(c, {"completed"})' = RowsIn(c, {"completed"})
    BY DEF Done
  <2>1. \A e \in Rows : row'[e].status = "completed" <=> row[e].status = "completed"
    BY <1>4, <1>5
  <2>2. \A e \in Rows : row[e].status = "completed" => row'[e] = row[e]
    BY <1>4, <1>5
  <2> QED BY <2>1, <2>2 DEF RowsIn
<1>8. On(b)' = On(b) \cup {s}
  <2>1. \A e \in Rows : e # n => (e \in RowsIn(b, Live)' <=> e \in RowsIn(b, Live))
    BY <1>1, <1>4, <1>5 DEF RowsIn, Live
  <2>2. \A e \in RowsIn(b, Live) : e # n /\ row'[e] = row[e]
    BY <1>4, <1>5 DEF RowsIn
  <2>3. n \in RowsIn(b, Live)' /\ n \notin RowsIn(b, Live)
    BY <1>4 DEF RowsIn
  <2>4. RowsIn(b, Live)' = RowsIn(b, Live) \cup {n}
    BY <2>1, <2>3 DEF RowsIn
  <2> QED BY <1>4, <2>2, <2>4 DEF On
<1>9. [c \in Batches |-> Done(c)]' = [c \in Batches |-> Done(c)]
  BY <1>7
<1>10. CASE t.source \in Rows /\ row[t.source].status \in Live
  <2> PICK a \in Batches : a = row[t.source].batch
    BY <1>5, <1>10
  <2>1. On(a)' = On(a) \ {s}
    <3>1. RowsIn(a, Live)' = RowsIn(a, Live) \ {t.source}
      BY <1>4, <1>5, <1>10 DEF RowsIn, Live
    <3>2. \A e \in RowsIn(a, Live) : e # t.source => row'[e] = row[e] /\ row[e].student # s
      BY <1>4, <1>5, <1>10 DEF RowsIn, RosterInv, OneLivePerStudentBatch
    <3>3. t.source \in RowsIn(a, Live) /\ row[t.source].student = s
      BY <1>5, <1>10 DEF RowsIn
    <3> QED BY <3>1, <3>2, <3>3 DEF On
  <2>2. ASSUME NEW c \in Batches, c # a, c # b PROVE On(c)' = On(c)
    <3>1. RowsIn(c, Live)' = RowsIn(c, Live) /\ \A e \in RowsIn(c, Live) : row'[e] = row[e]
      BY <1>4, <1>5, <2>2 DEF RowsIn, Live
    <3> QED BY <3>1 DEF On
  <2>3. a # b
    BY <1>5, <1>10
  <2>4. [c \in Batches |-> On(c)]'
          = [[c \in Batches |-> On(c)] EXCEPT ![b] = @ \cup {s}, ![a] = @ \ {s}]
    BY <1>1, <1>8, <2>1, <2>2, <2>3
  <2>5. Promise!Move(s, a, b)
    BY <1>3, <1>6, <1>9, <2>3, <2>4 DEF Promise!Move, On, Done
  <2> QED BY <1>1, <2>5 DEF Promise!Next
<1>11. CASE ~ (t.source \in Rows /\ row[t.source].status \in Live)
  <2>1. ASSUME NEW c \in Batches, c # b PROVE On(c)' = On(c)
    <3>1. \A e \in Rows : e \in RowsIn(c, Live)' <=> e \in RowsIn(c, Live)
      BY <1>4, <1>5, <1>11, <2>1 DEF RowsIn, Live
    <3>2. \A e \in RowsIn(c, Live) : row'[e] = row[e]
      BY <1>4, <1>11 DEF RowsIn
    <3>3. RowsIn(c, Live)' = RowsIn(c, Live)
      BY <3>1 DEF RowsIn
    <3> QED BY <3>2, <3>3 DEF On
  <2>2. [c \in Batches |-> On(c)]' = [[c \in Batches |-> On(c)] EXCEPT ![b] = @ \cup {s}]
    BY <1>1, <1>8, <2>1
  <2>3. Promise!Join(s, b)
    BY <1>3, <1>6, <1>9, <2>2 DEF Promise!Join, On, Done
  <2> QED BY <1>1, <2>3 DEF Promise!Next
<1> QED BY <1>10, <1>11

\* A student who is live no more has left the batch, or has finished on it.
LEMMA StatusCommitLeaves ==
  ASSUME RosterInv, NEW r \in Requests, StatusCommit(r)
  PROVE [Promise!Next]_(Promise!rvars)
<1> PICK e, want : e = req[r].row /\ want = req[r].want
  OBVIOUS
<1>1. /\ req[r] \in Moving /\ e \in Rows /\ Present(e) /\ batch' = batch
      /\ want \in MayBecome(row[e].status)
      /\ row[e] \in EnrolmentRow /\ row' = [row EXCEPT ![e].status = want]
  <2>1. req[r] \in Moving /\ req[r].pc = "status"
    BY KindOfTicket DEF StatusCommit, RosterInv, IInv
  <2>2. e \in Rows /\ Present(e) /\ want \in MayBecome(row[e].status)
    BY <2>1 DEF RosterInv, IInv, TicketsPointAtRows, AllReady, Ready, Moving
  <2> QED BY <2>1, <2>2 DEF StatusCommit, RosterInv, IInv, TypeOK, Present
<1> PICK b, s : b = row[e].batch /\ s = row[e].student
  OBVIOUS
<1>2. /\ b \in Batches /\ s \in Students /\ row[e].status \in Live
      /\ want \in {"active", "suspended", "completed", "cancelled"}
  BY <1>1, StatusMoves DEF EnrolmentRow, EnrolmentStatuses, SeatHolding, Live
<1>3. /\ row'[e].status = want /\ row'[e].student = s /\ row'[e].batch = b
      /\ \A d \in Rows : d # e => row'[d] = row[d]
  BY <1>1 DEF EnrolmentRow, RosterInv, IInv, TypeOK
<1>4. ASSUME NEW c \in Batches, c # b PROVE On(c)' = On(c) /\ Done(c)' = Done(c)
  <2>1. \A S : RowsIn(c, S)' = RowsIn(c, S)
    BY <1>3, <1>4 DEF RowsIn
  <2>2. \A d \in RowsIn(c, Live) : row'[d] = row[d]
    BY <1>3, <1>4 DEF RowsIn
  <2> QED BY <2>1, <2>2 DEF On, Done
<1>5. e \in RowsIn(b, Live) /\ e \notin RowsIn(b, {"completed"})
  BY <1>1, <1>2 DEF RowsIn, Live
<1>6. s \in On(b)
  BY <1>5 DEF On
<1>7. CASE want \in Live
  <2>1. RowsIn(b, Live)' = RowsIn(b, Live) /\ RowsIn(b, {"completed"})' = RowsIn(b, {"completed"})
    BY <1>2, <1>3, <1>7 DEF RowsIn, Live
  <2>2. \A d \in RowsIn(b, Live) : row'[d].student = row[d].student
    BY <1>3 DEF RowsIn
  <2>3. On(b)' = On(b) /\ Done(b)' = Done(b)
    BY <2>1, <2>2 DEF On, Done
  <2>4. \A c \in Batches : Stays(c)
    BY <1>1, <1>4, <2>3 DEF Stays, Takes
  <2> QED BY <2>4, PromiseStutters
<1>8. CASE want \notin Live
  <2>1. On(b)' = On(b) \ {s}
    <3>1. RowsIn(b, Live)' = RowsIn(b, Live) \ {e}
      BY <1>3, <1>8 DEF RowsIn
    <3>2. \A d \in RowsIn(b, Live) : d # e => row'[d] = row[d] /\ row[d].student # s
      BY <1>2, <1>3, <1>5 DEF RowsIn, RosterInv, OneLivePerStudentBatch
    <3> QED BY <1>5, <3>1, <3>2 DEF On
  <2>2. [c \in Batches |-> On(c)]' = [[c \in Batches |-> On(c)] EXCEPT ![b] = @ \ {s}]
    BY <1>2, <1>4, <2>1
  <2>3. CASE want = "completed"
    <3>1. RowsIn(b, {"completed"})' = RowsIn(b, {"completed"}) \cup {e}
      BY <1>1, <1>3, <2>3 DEF RowsIn
    <3>2. RowsIn(b, {"completed"}) \in SUBSET Rows
      BY DEF RowsIn
    <3>3. Done(b)' = Done(b) + 1
      BY <1>5, <3>1, <3>2, RowSets, FS_AddElement DEF Done
    <3>4. [c \in Batches |-> Done(c)]' = [[c \in Batches |-> Done(c)] EXCEPT ![b] = @ + 1]
      BY <1>2, <1>4, <3>3
    <3>5. Promise!Finish(s, b)
      BY <1>1, <1>2, <1>6, <2>2, <3>4 DEF Promise!Finish, On, Done
    <3> QED BY <1>2, <3>5 DEF Promise!Next
  <2>4. CASE want # "completed"
    <3>1. RowsIn(b, {"completed"})' = RowsIn(b, {"completed"})
      BY <1>3, <1>5, <2>4 DEF RowsIn
    <3>2. [c \in Batches |-> Done(c)]' = [c \in Batches |-> Done(c)]
      BY <1>4, <3>1 DEF Done
    <3>3. Promise!Leave(s, b)
      BY <1>1, <1>2, <1>6, <2>2, <3>2 DEF Promise!Leave, On, Done
    <3> QED BY <1>2, <3>3 DEF Promise!Next
  <2> QED BY <2>3, <2>4
<1> QED BY <1>7, <1>8

\* A batch that closes takes everyone live along, or everyone active.
LEMMA BatchCommitCloses ==
  ASSUME RosterInv, NEW r \in Requests, BatchCommit(r)
  PROVE [Promise!Next]_(Promise!rvars)
<1> PICK b, want, K : b = req[r].batch /\ want = req[r].want /\ K = req[r].rows
  OBVIOUS
<1>1. /\ req[r] \in MovingBatch /\ b \in Batches
      /\ want \in BatchMayBecome(batch[b].status)
      /\ K = RowsIn(b, Cascade(want)) /\ Rewrites(K, want)
      /\ batch' = [batch EXCEPT ![b].status = want]
  <2>1. req[r] \in MovingBatch /\ req[r].pc = "batch_written" /\ Rewrites(K, want)
    BY KindOfTicket, BatchCommitRewrites DEF BatchCommit, RosterInv, IInv
  <2>2. b \in Batches /\ want \in BatchMayBecome(batch[b].status) /\ K = RowsIn(b, Cascade(want))
    BY <2>1 DEF RosterInv, AllReady, Ready, MovingBatch
  <2> QED BY <2>1, <2>2 DEF BatchCommit
<1>2. /\ \A c \in Batches : batch'[c].capacity = batch[c].capacity
      /\ \A c \in Batches : c # b => Takes(c)' = Takes(c)
      /\ batch'[b].status = want
  BY <1>1 DEF Takes, RosterInv, IInv, TypeOK, BatchRow
<1>3. \/ batch[b].status = "upcoming" /\ want = "active"
      \/ batch[b].status \in {"upcoming", "active"} /\ want = "cancelled"
      \/ batch[b].status = "active" /\ want = "completed"
      \/ batch[b].status \in {"completed", "cancelled"} /\ want = "archived"
  BY <1>1 DEF BatchMayBecome, RosterInv, IInv, TypeOK, BatchRow, BatchStatuses, Enrollable
<1>4. /\ K \in SUBSET RowsIn(b, Live)
      /\ \A e \in Rows : /\ e \notin K => row'[e] = row[e]
                         /\ e \in K => row'[e].status = want /\ row'[e].batch = b
                                       /\ row'[e].student = row[e].student
  <2>1. Cascade(want) \subseteq Live
    BY DEF Cascade, Live
  <2>2. K \in SUBSET RowsIn(b, Live) /\ K \in SUBSET Rows /\ want # "absent"
    BY <1>1, <1>3, <2>1 DEF RowsIn
  <2>3. \A e \in K : row[e].batch = b
    BY <2>2 DEF RowsIn
  <2> QED BY <1>1, <2>2, <2>3, RewriteEffect
<1>5. ASSUME NEW c \in Batches, c # b PROVE On(c)' = On(c) /\ Done(c)' = Done(c)
  <2>1. \A S : RowsIn(c, S)' = RowsIn(c, S)
    BY <1>4, <1>5 DEF RowsIn
  <2>2. \A d \in RowsIn(c, Live) : row'[d] = row[d]
    BY <1>4, <1>5 DEF RowsIn
  <2> QED BY <2>1, <2>2 DEF On, Done
<1>6. [c \in Batches |-> batch[c].capacity]' = [c \in Batches |-> batch[c].capacity]
  BY <1>2
<1>7. CASE want \in {"active", "archived"}
  <2>1. K = {}
    BY <1>1, <1>7 DEF Cascade, RowsIn
  <2>2. RowsIn(b, Live)' = RowsIn(b, Live) /\ RowsIn(b, {"completed"})' = RowsIn(b, {"completed"})
    BY <1>4, <2>1 DEF RowsIn
  <2>3. \A d \in RowsIn(b, Live) : row'[d] = row[d]
    BY <1>4, <2>1 DEF RowsIn
  <2>4. On(b)' = On(b) /\ Done(b)' = Done(b)
    BY <2>2, <2>3 DEF On, Done
  <2>5. Takes(b)' = Takes(b)
    BY <1>2, <1>3, <1>7 DEF Takes, Enrollable
  <2>6. \A c \in Batches : Stays(c)
    BY <1>2, <1>5, <2>4, <2>5 DEF Stays
  <2> QED BY <2>6, PromiseStutters
<1>8. CASE want \in {"cancelled", "completed"}
  <2>1. [c \in Batches |-> Takes(c)]' = [[c \in Batches |-> Takes(c)] EXCEPT ![b] = FALSE]
    <3>1. batch'[b].status \notin Enrollable
      BY <1>2, <1>8 DEF Enrollable
    <3>2. Takes(b)' = FALSE
      BY <3>1 DEF Takes
    <3> QED BY <1>2, <3>2, Zenon
  <2>2. Takes(b)
    BY <1>3, <1>8 DEF Takes, Enrollable
  <2>3. RowsIn(b, Live)' = RowsIn(b, Live) \ K
    BY <1>4, <1>8 DEF RowsIn, Live
  <2>4. \A e \in RowsIn(b, Live) \ K : row'[e] = row[e]
    BY <1>4 DEF RowsIn
  <2>5. CASE want = "cancelled"
    <3>1. K = RowsIn(b, Live)
      BY <1>1, <2>5 DEF Cascade
    <3>2. On(b)' = {}
      BY <2>3, <3>1 DEF On
    <3>3. [c \in Batches |-> On(c)]' = [[c \in Batches |-> On(c)] EXCEPT ![b] = {}]
      BY <1>1, <1>5, <3>2
    <3>4. RowsIn(b, {"completed"})' = RowsIn(b, {"completed"})
      BY <1>4, <2>5 DEF RowsIn, Live
    <3>5. [c \in Batches |-> Done(c)]' = [c \in Batches |-> Done(c)]
      BY <1>5, <3>4 DEF Done
    <3>6. Promise!CallOff(b)
      BY <1>1, <1>6, <2>1, <2>2, <3>3, <3>5 DEF Promise!CallOff, On, Done, Takes
    <3> QED BY <1>1, <3>6 DEF Promise!Next
  <2>6. CASE want = "completed"
    <3> PICK S : S = {row[e].student : e \in K}
      OBVIOUS
    <3>1. \A d, e \in RowsIn(b, Live) : row[d].student = row[e].student => d = e
      BY <1>1 DEF RosterInv, OneLivePerStudentBatch
    <3>2. S \subseteq On(b) /\ S \in SUBSET Students
      <4>1. \A e \in K : row[e].student \in Students
        BY <1>4 DEF RowsIn, Live, RosterInv, IInv, TypeOK, EnrolmentRow, Absent
      <4> QED BY <1>4, <4>1 DEF On
    <3>3. On(b)' = On(b) \ S
      BY <1>4, <2>3, <2>4, <3>1 DEF On
    <3>4. Cardinality(S) = Cardinality(K) /\ Cardinality(K) \in Nat /\ IsFiniteSet(K)
      <4> DEFINE f == [e \in K |-> row[e].student]
      <4>1. K \in SUBSET Rows
        BY <1>4 DEF RowsIn
      <4>2. IsFiniteSet(K) /\ Cardinality(K) \in Nat
        BY <4>1, RowSets
      <4>3. f \in [K -> S] /\ \A d, e \in K : f[d] = f[e] => d = e
        BY <1>4, <3>1
      <4>4. \A s \in S : \E e \in K : f[e] = s
        OBVIOUS
      <4>5. f \in Bijection(K, S)
        BY <4>3, <4>4, Fun_IsBij
      <4>6. ExistsBijection(K, S)
        BY <4>5 DEF ExistsBijection
      <4> QED BY <4>2, <4>6, FS_Bijection
    <3>5. Done(b)' = Done(b) + Cardinality(S)
      <4> DEFINE C == RowsIn(b, {"completed"})
      <4>1. RowsIn(b, {"completed"})' = C \cup K
        BY <1>4, <2>6 DEF RowsIn
      <4>2. C \cap K = {} /\ C \in SUBSET Rows
        BY <1>4 DEF RowsIn, Live
      <4>3. IsFiniteSet(C) /\ Cardinality(C) \in Nat
        BY <4>2, RowSets
      <4> HIDE DEF C
      <4>4. Cardinality(C \cup K) = Cardinality(C) + Cardinality(K) - Cardinality(C \cap K)
        BY <3>4, <4>3, FS_Union
      <4>5. Cardinality(C \cap K) = 0
        BY <4>2, FS_EmptySet
      <4>6. Done(b) = Cardinality(C) /\ Done(b)' = Cardinality(C \cup K)
        BY <4>1 DEF Done, C
      <4> QED BY <3>4, <4>3, <4>4, <4>5, <4>6
    <3>6. [c \in Batches |-> On(c)]' = [[c \in Batches |-> On(c)] EXCEPT ![b] = @ \ S]
      BY <1>1, <1>5, <3>3
    <3>7. [c \in Batches |-> Done(c)]' = [[c \in Batches |-> Done(c)] EXCEPT ![b] = @ + Cardinality(S)]
      BY <1>1, <1>5, <3>5
    <3>8. Promise!Conclude(b, S)
      BY <1>1, <1>6, <2>1, <2>2, <3>2, <3>6, <3>7, SameCount DEF Promise!Conclude, On, Done, Takes
    <3> QED BY <1>1, <3>2, <3>8 DEF Promise!Next
  <2> QED BY <1>8, <2>5, <2>6
<1> QED BY <1>3, <1>7, <1>8

\* An edit gives a batch a capacity its seats fit in, or none.
LEMMA EditCommitResizes ==
  ASSUME RosterInv, NEW r \in Requests, EditCommit(r)
  PROVE [Promise!Next]_(Promise!rvars)
<1> PICK t, b : t = req[r] /\ b = t.batch
  OBVIOUS
<1>1. /\ t \in Editing /\ b \in Batches /\ t.capacity \in Capacities \cup {0}
      /\ CapacityFits(t) /\ row' = row
  BY KindOfTicket DEF EditCommit, RosterInv, IInv, AllReady, Ready, Editing
<1>2. /\ \A c \in Batches : Takes(c)' = Takes(c) /\ On(c)' = On(c) /\ Done(c)' = Done(c)
      /\ \A c \in Batches : c # b => batch'[c].capacity = batch[c].capacity
      /\ batch'[b].capacity = IF t.capacity = 0 THEN batch[b].capacity ELSE t.capacity
  <2>1. PICK k : batch' = [batch EXCEPT
                   ![b].capacity = IF t.capacity = 0 THEN @ ELSE t.capacity,
                   ![b].course = k]
    BY DEF EditCommit
  <2>2. /\ \A c \in Batches : batch'[c].status = batch[c].status
        /\ \A c \in Batches : c # b => batch'[c].capacity = batch[c].capacity
        /\ batch'[b].capacity = IF t.capacity = 0 THEN batch[b].capacity ELSE t.capacity
    BY <1>1, <2>1 DEF RosterInv, IInv, TypeOK, BatchRow
  <2> QED BY <1>1, <2>2, RowsStay DEF Takes
<1>3. CASE t.capacity = 0
  <2>1. \A c \in Batches : Stays(c)
    BY <1>2, <1>3 DEF Stays
  <2> QED BY <2>1, PromiseStutters
<1>4. CASE t.capacity # 0
  <2>1. t.capacity \in Capacities /\ t.capacity >= Promise!Taken(b)
    <3>1. t.capacity >= Seats(b) /\ t.capacity \in Capacities
      BY <1>1, <1>4 DEF CapacityFits
    <3>2. Seats(b) \in Nat /\ t.capacity \in Nat
      BY <1>4, <3>1, RowSets, ConstantsAssumption DEF Seats, RowsIn
    <3> QED BY <1>1, <3>1, <3>2, TakenFits
  <2>2. [c \in Batches |-> batch[c].capacity]'
          = [[c \in Batches |-> batch[c].capacity] EXCEPT ![b] = t.capacity]
    BY <1>1, <1>2, <1>4
  <2>3. /\ [c \in Batches |-> On(c)]' = [c \in Batches |-> On(c)]
        /\ [c \in Batches |-> Done(c)]' = [c \in Batches |-> Done(c)]
        /\ [c \in Batches |-> Takes(c)]' = [c \in Batches |-> Takes(c)]
    BY <1>2
  <2>4. Promise!Resize(b, t.capacity)
    BY <2>1, <2>2, <2>3 DEF Promise!Resize, On, Done, Takes
  <2> QED BY <1>1, <2>1, <2>4 DEF Promise!Next
<1> QED BY <1>3, <1>4

\* Every step is a step of the roster, or none.
LEMMA NextPromise ==
  ASSUME RosterInv, [Next]_vars
  PROVE [Promise!Next]_(Promise!rvars)
<1>1. CASE row' = row /\ batch' = batch
  <2>1. \A b \in Batches : Stays(b)
    BY <1>1, RowsStay DEF Stays, Takes
  <2> QED BY <2>1, PromiseStutters
<1>2. ASSUME NEW r \in Requests, Start(r) \/ Refuse(r) \/ RollBack(r) \/ EnrolCheck(r)
                 \/ ReactivateCheck(r) \/ BatchWrite(r) \/ EditCheck(r)
      PROVE row' = row /\ batch' = batch
  BY <1>2 DEF Start, StartEnrol, StartTransfer, StartStatus, StartBatchStatus, StartEdit, Starts,
     Refuse, RollBack, EnrolCheck, ReactivateCheck, BatchWrite, EditCheck, Goes
<1>3. UNCHANGED vars => row' = row /\ batch' = batch
  BY DEF vars
<1> QED BY <1>1, <1>2, <1>3, EnrolCommitJoins, StatusCommitLeaves, BatchCommitCloses,
           EditCommitResizes DEF Next, Advance

\* At first nobody is on any roster, and every batch takes students.
LEMMA InitPromise == Init => Promise!Init
<1> SUFFICES ASSUME Init PROVE Promise!Init
  OBVIOUS
<1>1. \A b \in Batches : RowsIn(b, Live) = {} /\ RowsIn(b, {"completed"}) = {}
  BY DEF Init, RowsIn, Absent, Live
<1>2. \A b \in Batches : On(b) = {} /\ Done(b) = 0
  BY <1>1, FS_EmptySet DEF On, Done
<1>3. \A b \in Batches : Takes(b) = TRUE /\ batch[b].capacity \in Capacities
  BY DEF Init, Takes, Enrollable, BatchRow
<1>4. /\ [b \in Batches |-> On(b)] = [b \in Batches |-> {}]
      /\ [b \in Batches |-> Done(b)] = [b \in Batches |-> 0]
      /\ [b \in Batches |-> Takes(b)] = [b \in Batches |-> TRUE]
      /\ [b \in Batches |-> batch[b].capacity] \in [Batches -> Capacities]
  BY <1>2, <1>3
<1> QED BY <1>4 DEF Promise!Init, On, Done, Takes

\* The services keep what they promise about a batch: every operation is one
\* step of the roster or none, however many requests are in flight, as long as
\* they are apart.
THEOREM RosterKept == Spec /\ []Apart => ImplementsRoster
BY InitRoster, NextRoster, InitPromise, NextPromise, PTL DEF Spec, ImplementsRoster, Promise!Spec

OnlyJoins == Operations \subseteq {"enrol", "transfer"}
Joining == \A r \in Requests : req[r] \in Enrolling \cup {Idle}

\* Requests that enrol and transfer are apart.
LEMMA JoiningApart == Joining => Apart
BY DEF Joining, Apart, WorksOn, Idle

LEMMA NextJoining ==
  ASSUME OnlyJoins, IInv, Joining, [Next]_vars
  PROVE Joining'
<1>1. IInv'
  BY NextIInv
<1>2. CASE UNCHANGED vars
  BY <1>2 DEF vars, Joining
<1>3. ASSUME NEW r \in Requests, Start(r) PROVE Joining'
  <2>1. ~ \E e \in Rows, target \in EnrolmentStatuses : StartStatus(r, e, target)
    BY DEF StartStatus, Starts, OnlyJoins
  <2>2. ~ \E b \in Batches, c \in Capacities \cup {0}, k \in SUBSET Courses : StartEdit(r, b, c, k)
    BY DEF StartEdit, Starts, OnlyJoins
  <2>3. ~ \E b \in Batches, target \in BatchStatuses : StartBatchStatus(r, b, target)
    BY DEF StartBatchStatus, Starts, OnlyJoins
  <2>4. req' \in [Requests -> Tickets] /\ req \in [Requests -> Tickets]
    BY <1>1 DEF IInv, TypeOK, Tickets
  <2>5. req'[r].pc = "enrol" /\ \A q \in Requests : q # r => req'[q] = req[q]
    <3>1. ASSUME NEW s, NEW b, NEW status, StartEnrol(r, s, b, status)
          PROVE req'[r].pc = "enrol" /\ \A q \in Requests : q # r => req'[q] = req[q]
      BY <2>4, <3>1 DEF StartEnrol
    <3>2. ASSUME NEW e, NEW b, StartTransfer(r, e, b)
          PROVE req'[r].pc = "enrol" /\ \A q \in Requests : q # r => req'[q] = req[q]
      BY <2>4, <3>2 DEF StartTransfer
    <3> QED BY <1>3, <2>1, <2>2, <2>3, <3>1, <3>2 DEF Start
  <2>6. req'[r] \in Enrolling
    BY <2>4, <2>5 DEF Tickets, Enrolling, Moving, MovingBatch, Editing, Idle
  <2> QED BY <2>5, <2>6 DEF Joining
<1>4. ASSUME NEW r \in Requests, Advance(r) \/ Refuse(r) \/ RollBack(r) PROVE Joining'
  <2>1. req[r] \in Enrolling
    <3>1. req[r].pc # "idle" \/ req[r] # Idle
      BY <1>4 DEF Advance, Refuse, RollBack, EnrolCheck, EnrolCommit, ReactivateCheck, StatusCommit,
                  BatchWrite, BatchCommit, EditCheck, EditCommit
    <3>2. req[r] \in Enrolling \/ req[r] = Idle
      BY DEF Joining
    <3> QED BY <3>1, <3>2 DEF Idle
  <2>2. req[r].pc \in {"enrol", "enrol_checked"}
    BY <2>1 DEF Enrolling
  <2>3. EnrolCheck(r) \/ Ends(r)
    BY <1>4, <2>2 DEF Advance, Refuse, RollBack, EnrolCommit, ReactivateCheck, StatusCommit, BatchWrite,
                      BatchCommit, EditCheck, EditCommit
  <2>4. \A q \in Requests : req'[q] = req[q] \/ req'[q] = Idle \/ (q = r /\ req'[q] \in Enrolling)
    <3>1. req \in [Requests -> Tickets]
      BY DEF IInv, TypeOK, Tickets
    <3>2. CASE Ends(r)
      BY <3>1, <3>2 DEF Ends
    <3>3. CASE EnrolCheck(r)
      <4>1. req' = [req EXCEPT ![r].pc = "enrol_checked"]
        BY <3>3 DEF EnrolCheck, Goes
      <4>2. [req[r] EXCEPT !.pc = "enrol_checked"] \in Enrolling
        BY <2>1 DEF Enrolling
      <4> QED BY <3>1, <4>1, <4>2
    <3> QED BY <2>3, <3>2, <3>3
  <2> QED BY <2>4 DEF Joining
<1> QED BY <1>2, <1>3, <1>4 DEF Next

\* Enrolments and transfers keep it however many of them race.
THEOREM JoinsKeepRoster ==
  ASSUME OnlyJoins
  PROVE Spec => ImplementsRoster
<1>1. Init => Joining /\ IInv
  BY InitIInv DEF Init, Joining
<1>2. Joining /\ IInv /\ [Next]_vars => Joining' /\ IInv'
  BY NextJoining, NextIInv
<1> QED BY <1>1, <1>2, JoiningApart, RosterKept, PTL DEF Spec

-----------------------------------------------------------------------------
(***************************************************************************)
(* Every operation, with the requests apart: what the lock does not guard  *)
(* is not raced for.                                                       *)
(***************************************************************************)

\* Seats change with the step that inserts, rewrites or edits, and only as far
\* as it has checked; and nobody is live where a batch is cancelled.
LEMMA NextSafe ==
  ASSUME RosterInv, SeatsWithinCapacity, NoLiveOnCancelledBatch, [Next]_vars
  PROVE SeatsWithinCapacity' /\ NoLiveOnCancelledBatch'
<1> SUFFICES ASSUME NEW b \in Batches
    PROVE /\ Seats(b)' <= batch'[b].capacity
          /\ batch'[b].status = "cancelled" => RowsIn(b, Live)' = {}
  BY DEF SeatsWithinCapacity, NoLiveOnCancelledBatch
<1> DEFINE Now == RowsIn(b, SeatHolding)
<1>1. Now \in SUBSET Rows /\ Now' \in SUBSET Rows
  BY DEF RowsIn, Rows
<1>2. /\ Seats(b) = Cardinality(Now) /\ Seats(b)' = Cardinality(Now')
      /\ Cardinality(Now) \in Nat /\ Cardinality(Now') \in Nat /\ IsFiniteSet(Now)
  BY <1>1, RowSets DEF Seats
<1>3. /\ batch[b].capacity \in Nat /\ Seats(b) <= batch[b].capacity
      /\ batch[b].status = "cancelled" => RowsIn(b, Live) = {}
  BY ConstantsAssumption
  DEF SeatsWithinCapacity, NoLiveOnCancelledBatch, RosterInv, IInv, TypeOK, BatchRow
<1>4. ASSUME Now' \subseteq Now, batch'[b].capacity = batch[b].capacity PROVE Seats(b)' <= batch'[b].capacity
  BY <1>1, <1>2, <1>3, <1>4, RowSets
<1>5. ASSUME row' = row, batch' = batch
      PROVE Seats(b)' <= batch'[b].capacity /\ (batch'[b].status = "cancelled" => RowsIn(b, Live)' = {})
  BY <1>3, <1>4, <1>5 DEF RowsIn
<1>6. ASSUME NEW r \in Requests, EnrolCommit(r)
      PROVE Seats(b)' <= batch'[b].capacity /\ (batch'[b].status = "cancelled" => RowsIn(b, Live)' = {})
  <2>1. PICK n \in Rows : Inserts(r, n)
    BY <1>6, EnrolCommitInserts DEF RosterInv
  <2>2. Admits(req[r]) /\ batch' = batch
    BY <2>1 DEF Inserts, RosterInv, AllReady, Ready
  <2>3. /\ row'[n].batch = req[r].batch
        /\ \A e \in Rows : e # n /\ row'[e].status \in SeatHolding => row'[e] = row[e]
    BY <2>1, InsertEffect DEF RosterInv, SeatHolding, Live
  <2>4. CASE b = req[r].batch
    <3>1. Now' \in SUBSET (Now \cup {n}) /\ Now \cup {n} \in SUBSET Rows
      BY <1>1, <2>3 DEF RowsIn
    <3>2. Cardinality(Now') <= Cardinality(Now) + 1
      <4>1. Cardinality(Now') <= Cardinality(Now \cup {n}) /\ Cardinality(Now \cup {n}) \in Nat
        BY <3>1, RowSets
      <4>2. n \notin Now
        BY <2>1 DEF Inserts, Present, Absent, RowsIn, SeatHolding, Live
      <4>3. Cardinality(Now \cup {n}) = Cardinality(Now) + 1
        <5> HIDE DEF Now
        <5> QED BY <1>2, <4>2, FS_AddElement
      <4> QED BY <1>2, <4>1, <4>3
    <3>3. ~ (Seats(b) >= batch[b].capacity) /\ batch[b].status \in Enrollable
      BY <2>2, <2>4 DEF Admits, IsFull
    <3> QED BY <1>2, <1>3, <2>2, <3>2, <3>3 DEF Enrollable
  <2>5. CASE b # req[r].batch
    <3>1. Now' \subseteq Now /\ RowsIn(b, Live)' \subseteq RowsIn(b, Live)
      BY <2>3, <2>5 DEF RowsIn, SeatHolding
    <3> QED BY <1>3, <1>4, <2>2, <3>1
  <2> QED BY <2>4, <2>5
<1>7. ASSUME NEW r \in Requests, StatusCommit(r)
      PROVE Seats(b)' <= batch'[b].capacity /\ (batch'[b].status = "cancelled" => RowsIn(b, Live)' = {})
  <2> PICK e, want : e = req[r].row /\ want = req[r].want
    OBVIOUS
  <2>1. req[r] \in Moving /\ req[r].pc = "status" /\ e \in Rows
    BY <1>7, KindOfTicket DEF StatusCommit, RosterInv, IInv, Moving
  <2>2. /\ row[e].status \in Live /\ batch' = batch
        /\ row' = [row EXCEPT ![e].status = want]
    BY <1>7, <2>1, StatusMoves DEF StatusCommit, RosterInv, AllReady, Ready
  <2>3. /\ row'[e].batch = row[e].batch /\ \A d \in Rows : d # e => row'[d] = row[d]
    BY <2>1, <2>2 DEF RosterInv, IInv, TypeOK, EnrolmentRow, Absent, Live
  <2>4. Now' \subseteq Now /\ RowsIn(b, Live)' \subseteq RowsIn(b, Live)
    BY <2>2, <2>3 DEF RowsIn, SeatHolding
  <2> QED BY <1>3, <1>4, <2>2, <2>4
<1>8. ASSUME NEW r \in Requests, BatchCommit(r)
      PROVE Seats(b)' <= batch'[b].capacity /\ (batch'[b].status = "cancelled" => RowsIn(b, Live)' = {})
  <2> PICK c, want, K : c = req[r].batch /\ want = req[r].want /\ K = req[r].rows
    OBVIOUS
  <2>1. /\ req[r] \in MovingBatch /\ req[r].pc = "batch_written" /\ Rewrites(K, want)
        /\ c \in Batches /\ want \in BatchStatuses
    BY <1>8, KindOfTicket, BatchCommitRewrites DEF BatchCommit, RosterInv, IInv, MovingBatch
  <2>2. K = RowsIn(c, Cascade(want)) /\ batch' = [batch EXCEPT ![c].status = want]
    BY <1>8, <2>1 DEF BatchCommit, RosterInv, AllReady, Ready
  <2>3. /\ batch'[b].capacity = batch[b].capacity
        /\ b # c => batch'[b] = batch[b]
        /\ b = c => batch'[b].status = want
    BY <2>1, <2>2 DEF RosterInv, IInv, TypeOK, BatchRow
  <2>4. Cascade(want) \subseteq Live /\ Cascade("cancelled") = Live
    BY DEF Cascade, Live
  <2>5. \A e \in Rows : /\ e \notin K => row'[e] = row[e]
                        /\ e \in K => /\ row[e].status \in Live /\ row'[e].batch = row[e].batch
                                      /\ row'[e].status = want
    <3>1. K \in SUBSET Rows /\ want # "absent" /\ \A e \in K : row[e].status \in Live
      BY <2>1, <2>2, <2>4 DEF RowsIn, BatchStatuses, Enrollable
    <3>2. \A e \in K : Present(e)
      BY <2>1 DEF Rewrites
    <3> QED BY <2>1, <3>1, <3>2, RewriteEffect
  <2>6. K # {} => want \notin Live
    BY <1>8, BatchCommitRewrites DEF RosterInv, Live
  <2>7. Now' \subseteq Now /\ RowsIn(b, Live)' \subseteq RowsIn(b, Live) \ K
    BY <2>5, <2>6 DEF RowsIn, SeatHolding
  <2>8. b = c /\ want = "cancelled" => K = RowsIn(b, Live)
    BY <2>2, <2>4
  <2> QED BY <1>3, <1>4, <2>3, <2>7, <2>8
<1>9. ASSUME NEW r \in Requests, EditCommit(r)
      PROVE Seats(b)' <= batch'[b].capacity /\ (batch'[b].status = "cancelled" => RowsIn(b, Live)' = {})
  <2> PICK t : t = req[r]
    OBVIOUS
  <2>1. t \in Editing /\ t.pc = "edit_ready" /\ t.batch \in Batches /\ CapacityFits(t) /\ row' = row
    BY <1>9, KindOfTicket DEF EditCommit, RosterInv, IInv, AllReady, Ready, Editing
  <2>2. PICK k : batch' = [batch EXCEPT
                   ![t.batch].capacity = IF t.capacity = 0 THEN @ ELSE t.capacity,
                   ![t.batch].course = k]
    BY <1>9 DEF EditCommit
  <2>3. /\ batch'[b].status = batch[b].status
        /\ \/ batch'[b].capacity = batch[b].capacity
           \/ b = t.batch /\ t.capacity # 0 /\ batch'[b].capacity = t.capacity
    BY <2>1, <2>2 DEF RosterInv, IInv, TypeOK, BatchRow
  <2>4. Now' = Now /\ RowsIn(b, Live)' = RowsIn(b, Live)
    BY <2>1 DEF RowsIn
  <2>5. Seats(b)' <= batch'[b].capacity
    <3>1. CASE b = t.batch /\ t.capacity # 0 /\ batch'[b].capacity = t.capacity
      <4>1. t.capacity >= Seats(b) /\ t.capacity \in Nat
        BY <2>1, <3>1, ConstantsAssumption DEF CapacityFits, Editing
      <4> QED BY <1>2, <2>4, <3>1, <4>1
    <3> QED BY <1>4, <2>3, <2>4, <3>1
  <2> QED BY <1>3, <2>3, <2>4, <2>5
<1>10. ASSUME NEW r \in Requests, Start(r) \/ Refuse(r) \/ RollBack(r) \/ EnrolCheck(r)
                 \/ ReactivateCheck(r) \/ BatchWrite(r) \/ EditCheck(r)
       PROVE row' = row /\ batch' = batch
  BY <1>10 DEF Start, StartEnrol, StartTransfer, StartStatus, StartBatchStatus, StartEdit, Starts,
     Refuse, RollBack, EnrolCheck, ReactivateCheck, BatchWrite, EditCheck, Goes
<1>11. UNCHANGED vars => row' = row /\ batch' = batch
  BY DEF vars
<1> QED BY <1>5, <1>6, <1>7, <1>8, <1>9, <1>10, <1>11 DEF Next, Advance

\* With the requests apart no sequence of operations, edits of the capacity and
\* reactivations included, takes a seat that is not there or leaves anybody
\* live on a cancelled batch.
THEOREM ApartIsSafe == Spec /\ []Apart => [](SeatsWithinCapacity /\ NoLiveOnCancelledBatch)
<1>1. Init => SeatsWithinCapacity /\ NoLiveOnCancelledBatch
  <2>1. Init => NoLiveOnCancelledBatch
    BY DEF Init, NoLiveOnCancelledBatch, RowsIn, Absent, Live
  <2> QED BY <2>1, InitSeats DEF SeatsInv
<1>2. Apart /\ RosterInv /\ SeatsWithinCapacity /\ NoLiveOnCancelledBatch /\ [Next]_vars
        => RosterInv' /\ SeatsWithinCapacity' /\ NoLiveOnCancelledBatch'
  BY NextRoster, NextSafe
<1> QED BY <1>1, <1>2, InitRoster, PTL DEF Spec
==============================================================================
