------------------------------- MODULE Outbox -------------------------------
(***************************************************************************)
(* The e-mail outbox: a row is written before the provider is called, a    *)
(* task sends it, and a scheduled sweep sends what is still due.           *)
(*                                                                         *)
(* Workers run tasks outside any transaction: a task reads rows, talks to  *)
(* the mail server and writes each outcome from the copy it read.  A task  *)
(* is acknowledged when it ends, so the broker delivers the task of a lost *)
(* worker again.  The mail server (external) takes or refuses a message,   *)
(* and its answer may be lost.                                             *)
(***************************************************************************)
EXTENDS Naturals, FiniteSets, FiniteSetsExt

CONSTANTS
  Workers, Messages,
  Nothing,           \* no message
  Allowed,           \* messages whose recipient the mail policy allows
  MaxAttempts,       \* MAX_ATTEMPTS
  MaxFaults          \* bound: workers lost and answers lost

ASSUME OutboxAssumption ==
  /\ Allowed \subseteq Messages /\ Nothing \notin Messages
  /\ MaxAttempts \in Nat \ {0} /\ MaxFaults \in Nat

VARIABLES
  message,     \* the outbox rows
  queued,      \* the messages with a send_queued_email task at the broker
  work,        \* what each worker is doing
  copies,      \* how often the mail server took each message
  faults       \* workers and answers lost so far

outbox == <<message, queued, work, copies, faults>>

-----------------------------------------------------------------------------

\* `due` stands for next_attempt_at <= now.
Unwritten == [status |-> "none", attempts |-> 0, due |-> FALSE]
Written == [status |-> "pending", attempts |-> 0, due |-> TRUE]

\* Two mutants: what was given up, or sent, is sent again.
DeliverableGivenUp(row) == row.status \in {"pending", "failed", "abandoned"}
DeliverableSent(row) == row.status \in {"pending", "failed", "sent"}

Deliverable(row) == row.status \in {"pending", "failed"}

\* A worker holds `copy`, the attempts of the rows it read and has still
\* to send, and between the conversation and the save the answer it had.
Resting == [task |-> "none", todo |-> {}, copy |-> [m \in Messages |-> 0],
            at |-> Nothing, taken |-> FALSE]

Holding(task, S) ==
  [task |-> task, todo |-> S, at |-> Nothing, taken |-> FALSE,
   copy |-> [m \in Messages |-> IF m \in S THEN message[m].attempts ELSE 0]]

Jobs == [task : {"none", "send", "sweep", "inline"}, todo : SUBSET Messages,
         at : Messages \cup {Nothing}, taken : BOOLEAN,
         copy : [Messages -> 0 .. MaxAttempts - 1]]

Free(w) == work[w].task = "none"

\* The worker is through with m; with the last one the task is acknowledged.
Dropped(job, m) ==
  IF job.todo = {m} THEN Resting
  ELSE [task |-> job.task, todo |-> job.todo \ {m}, at |-> Nothing, taken |-> FALSE,
        copy |-> [job.copy EXCEPT ![m] = 0]]

-----------------------------------------------------------------------------

\* EmailChannel.deliver and enqueue_email: the row, then its task, unless the
\* broker is unreachable.
Queue(m) ==
  /\ message[m] = Unwritten
  /\ message' = [message EXCEPT ![m] = Written]
  /\ queued' \in {queued, queued \cup {m}}
  /\ UNCHANGED <<work, copies, faults>>

\* send_queued_email reads its row again: not deliverable, nothing to do.
TakeTask(w, m) ==
  /\ Free(w) /\ m \in queued
  /\ queued' = queued \ {m}
  /\ work' = IF Deliverable(message[m])
               THEN [work EXCEPT ![w] = Holding("send", {m})] ELSE work
  /\ UNCHANGED <<message, copies, faults>>

\* A mutant: the sweep is only for what failed.
DueFailed == {m \in Messages : message[m].status = "failed" /\ message[m].due}

Due == {m \in Messages : Deliverable(message[m]) /\ message[m].due}

\* retry_pending_email evaluates its query once and keeps the rows.
TakeSweep(w) ==
  /\ Free(w) /\ Due # {}
  /\ work' = [work EXCEPT ![w] = Holding("sweep", Due)]
  /\ UNCHANGED <<message, queued, copies, faults>>

\* A caller that sends the row it has just written, in its own task.
TakeInline(w, m) ==
  /\ Free(w) /\ message[m] = Unwritten
  /\ message' = [message EXCEPT ![m] = Written]
  /\ work' = [work EXCEPT ![w] = Holding("inline", {m})]
  /\ UNCHANGED <<queued, copies, faults>>

Suppress(w, m) ==
  /\ m \in work[w].todo \ Allowed /\ work[w].at = Nothing
  /\ message' = [message EXCEPT ![m].status = "abandoned"]
  /\ work' = [work EXCEPT ![w] = Dropped(@, m)]
  /\ UNCHANGED <<queued, copies, faults>>

\* The conversation: taken and told so, refused, or taken and not told so.
Converse(w, m, taken, told) ==
  /\ m \in work[w].todo \cap Allowed /\ work[w].at = Nothing
  /\ told => taken
  /\ taken # told => faults < MaxFaults
  /\ faults' = IF taken # told THEN faults + 1 ELSE faults
  /\ copies' = IF taken THEN [copies EXCEPT ![m] = @ + 1] ELSE copies
  /\ work' = [work EXCEPT ![w] = [@ EXCEPT !.at = m, !.taken = told]]
  /\ UNCHANGED <<message, queued>>

FailedAfter(attempts) == IF attempts >= MaxAttempts THEN "abandoned" ELSE "failed"

\* A mutant: the conversation fails silently.
SilentOutcome(row, attempts, taken) == [status |-> "sent", attempts |-> attempts, due |-> row.due]

\* The outcome is written from the copy, whatever the row says by now; a
\* success leaves next_attempt_at alone, a failure pushes it back.
Outcome(row, attempts, taken) ==
  [status |-> IF taken THEN "sent" ELSE FailedAfter(attempts),
   attempts |-> attempts, due |-> taken /\ row.due]

Save(w) ==
  LET job == work[w]
      m == job.at
  IN /\ m # Nothing
     /\ message' = [message EXCEPT ![m] = Outcome(@, job.copy[m] + 1, job.taken)]
     /\ work' = [work EXCEPT ![w] = Dropped(@, m)]
     /\ UNCHANGED <<queued, copies, faults>>

\* A lost worker: the broker delivers its task again; a sweep comes by itself.
Lose(w) ==
  /\ faults < MaxFaults
  /\ faults' = faults + 1
  /\ queued' = IF work[w].task = "send" THEN queued \cup work[w].todo ELSE queued
  /\ work' = [work EXCEPT ![w] = Resting]
  /\ UNCHANGED <<message, copies>>

\* The back-off of a failed message elapses.
Elapse(m) ==
  /\ message[m].status = "failed" /\ ~message[m].due
  /\ message' = [message EXCEPT ![m].due = TRUE]
  /\ UNCHANGED <<queued, work, copies, faults>>

-----------------------------------------------------------------------------

OutboxInit ==
  /\ message = [m \in Messages |-> Unwritten] /\ queued = {}
  /\ work = [w \in Workers |-> Resting]
  /\ copies = [m \in Messages |-> 0] /\ faults = 0

Take(w) == TakeSweep(w) \/ \E m \in Messages : TakeTask(w, m)

Progress(w) ==
  \/ \E m \in Messages : Suppress(w, m)
  \/ \E m \in Messages, taken, told \in BOOLEAN : Converse(w, m, taken, told)
  \/ Save(w)

OutboxNext ==
  \/ \E m \in Messages : Queue(m) \/ Elapse(m)
  \/ \E w \in Workers : Take(w) \/ Progress(w) \/ Lose(w) \/ \E m \in Messages : TakeInline(w, m)

OutboxSpec == OutboxInit /\ [][OutboxNext]_outbox

\* Workers work, beat keeps sending the sweep, and back-offs elapse.
OutboxFairness ==
  /\ \A w \in Workers : WF_outbox(Take(w) \/ Progress(w))
  /\ \A m \in Messages : WF_outbox(Elapse(m))

FairOutbox == OutboxSpec /\ OutboxFairness

-----------------------------------------------------------------------------

OutboxTypeOK ==
  /\ message \in [Messages -> [status : {"none", "pending", "sent", "failed", "abandoned"},
                               attempts : 0 .. MaxAttempts, due : BOOLEAN]]
  /\ queued \subseteq Messages
  /\ work \in [Workers -> Jobs]
  /\ copies \in [Messages -> Nat] /\ faults \in 0 .. MaxFaults
  /\ \A m \in Messages : \A w \in Workers : m \in work[w].todo => message[m].status # "none"

\* A row says "sent" only of a message the mail server took, whatever races or
\* worker losses there were (send_email_message).
SentWasTaken == \A m \in Messages : message[m].status = "sent" => copies[m] > 0

\* Every copy is accounted for: the mail server took each message recorded as
\* sent once, one more copy per message whose answer is still to be recorded,
\* and otherwise only as many as workers or answers were lost.  One worker.
CopiesAccounted ==
  LET recorded == {m \in Messages : message[m].status = "sent"}
      taking == {m \in Messages : \E w \in Workers : work[w].at = m /\ work[w].taken}
  IN MapThenSumSet(LAMBDA m : copies[m], Messages)
       <= faults + Cardinality(recorded \cup taking)

\* What was sent or given up is never touched again (one worker): the status
\* check of the task, and the sweep's query, see to it.
SettledStays ==
  [][\A m \in Messages : message[m].status \in {"sent", "abandoned"} => message'[m] = message[m]]_outbox

\* Every message written is eventually sent or given up, even when its task
\* was never queued or its worker was lost: the sweep is the net.
EveryMessageSettles ==
  \A m \in Messages :
    message[m].status = "pending" ~> message[m].status \in {"sent", "abandoned"}

=============================================================================
