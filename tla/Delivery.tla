------------------------------ MODULE Delivery ------------------------------
(***************************************************************************)
(* The send log of the communication centre: a row per message and         *)
(* channel, dispatched by a task, retried and cancelled by operators, and  *)
(* updated by the callbacks of the WhatsApp provider (external).           *)
(*                                                                         *)
(* The dispatch task runs outside any transaction, on the workers that     *)
(* also run the outbox (an e-mail goes through an outbox row written and   *)
(* sent in the same task).  Operators and callbacks are requests: they     *)
(* read the row, decide on what they read, and commit a write of it.       *)
(***************************************************************************)
EXTENDS Outbox, Sequences

CONSTANTS
  Deliveries, Requests,
  ChannelOf,         \* the channel of each delivery
  BrokerUp,          \* the broker is always reachable
  MaxIds,            \* bound: messages the provider takes
  MaxRetries,        \* bound: retries of a delivery
  Operations         \* the requests that are made

ASSUME DeliveryAssumption ==
  /\ ChannelOf \in [Deliveries -> {"email", "whatsapp", "in_app"}] /\ Nothing \notin Deliveries
  /\ BrokerUp \in BOOLEAN /\ MaxIds \in Nat /\ MaxRetries \in Nat
  /\ Operations \subseteq {"retry", "cancel", "callback", "leave"}

VARIABLES
  delivery,    \* the delivery rows
  tasks,       \* how many dispatch tasks of each are at the broker
  job,         \* the dispatch each worker is doing
  reachable,   \* its recipient agrees to WhatsApp, or (in-app) has an active account
  issued,      \* the delivery each provider id was issued for
  shown,       \* how many notifications were written for each
  req,         \* what each request is doing
  retried      \* how often each was retried

log == <<delivery, tasks, job, reachable, issued, shown, req, retried>>
vars == <<outbox, log>>

-----------------------------------------------------------------------------

Absent == [state |-> "none", id |-> 0, mail |-> Nothing]
Created == [state |-> "queued", id |-> 0, mail |-> Nothing]

NoJob == [step |-> "none", of |-> Nothing, id |-> 0, willing |-> FALSE]
Idle == [op |-> "none", of |-> Nothing, status |-> "none"]

Idling(w) == Free(w) /\ job[w] = NoJob

\* A mutant: any row is dispatched.
DispatchableAlways(row) == row.state # "none"

Dispatchable(row) == row.state \in {"queued", "processing"}
Retryable(row) == row.state = "failed"
Cancellable(row) == row.state = "queued"
Hears(row) == row.state # "cancelled"

\* _WEBHOOK_STATE_MAP
Statuses == {"sent", "delivered", "read", "failed"}
StateOf(status) == IF status = "read" THEN "delivered" ELSE status

\* A mutant: the save and the service both enqueue.
EnqueuedTwice(d) == {[tasks EXCEPT ![d] = @ + 2]}

\* The tasks once one more was handed to the broker, if it is reachable.
Enqueued(d) == {[tasks EXCEPT ![d] = @ + 1]} \cup IF BrokerUp THEN {} ELSE {tasks}

\* A mutant: a task is acknowledged when it starts.
NotRedelivered(d) == tasks

\* A task is acknowledged when it ends: that of a lost worker comes again.
Redelivered(d) == [tasks EXCEPT ![d] = @ + 1]

-----------------------------------------------------------------------------

\* create_deliveries, committed, and _enqueue_dispatch.  No row is made for
\* somebody who has not agreed to WhatsApp, or whose account is inactive.
Create(d) ==
  /\ delivery[d] = Absent /\ reachable[d]
  /\ delivery' = [delivery EXCEPT ![d] = Created]
  /\ tasks' \in Enqueued(d)
  /\ UNCHANGED <<outbox, job, reachable, issued, shown, req, retried>>

\* The task reads its row, and the recipient's: dispatched or cancelled
\* meanwhile, there is nothing to do.
TakeDispatch(w, d) ==
  /\ Idling(w) /\ tasks[d] > 0
  /\ tasks' = [tasks EXCEPT ![d] = @ - 1]
  /\ job' = IF Dispatchable(delivery[d])
              THEN [job EXCEPT ![w] = [step |-> "begin", of |-> d, id |-> 0, willing |-> reachable[d]]]
              ELSE job
  /\ UNCHANGED <<outbox, delivery, reachable, issued, shown, req, retried>>

\* Each save writes the columns it names, whatever they hold by now.
Begin(w) ==
  /\ job[w].step = "begin"
  /\ delivery' = [delivery EXCEPT ![job[w].of].state = "processing"]
  /\ job' = [job EXCEPT ![w].step = "send"]
  /\ UNCHANGED <<outbox, tasks, reachable, issued, shown, req, retried>>

\* A mutant: a retry sends the outbox row of the dispatch before again.
WriteMailAgain(w, m) ==
  /\ job[w].step = "send" /\ ChannelOf[job[w].of] = "email" /\ Free(w)
  /\ message[m] = Unwritten \/ delivery[job[w].of].mail = m
  /\ message' = [message EXCEPT ![m] = Written]
  /\ work' = [work EXCEPT ![w] = Holding("inline", {m})]
  /\ delivery' = [delivery EXCEPT ![job[w].of].mail = m]
  /\ job' = [job EXCEPT ![w].step = "mail"]
  /\ UNCHANGED <<queued, copies, faults, tasks, reachable, issued, shown, req, retried>>

\* _dispatch_email: an outbox row is written and sent inline ...
WriteMail(w, m) ==
  /\ job[w].step = "send" /\ ChannelOf[job[w].of] = "email"
  /\ TakeInline(w, m)
  /\ delivery' = [delivery EXCEPT ![job[w].of].mail = m]
  /\ job' = [job EXCEPT ![w].step = "mail"]
  /\ UNCHANGED <<tasks, reachable, issued, shown, req, retried>>

Mailed(w, ok) == job' = [job EXCEPT ![w].step = IF ok THEN "sent" ELSE "failed"]

\* ... and what send_email_message returned is the outcome.
MailProgress(w) ==
  /\ job[w].step = "mail"
  /\ \/ \E m \in Messages : Suppress(w, m) /\ Mailed(w, FALSE)
     \/ \E m \in Messages, taken, told \in BOOLEAN : Converse(w, m, taken, told) /\ UNCHANGED job
     \/ Save(w) /\ Mailed(w, work[w].taken)
  /\ UNCHANGED <<delivery, tasks, reachable, issued, shown, req, retried>>

\* A mutant: what the provider answered is not looked at.
ConcludingSent(w, outcome, n) ==
  job' = [job EXCEPT ![w] = [@ EXCEPT !.step = "sent", !.id = n]]

Concluding(w, outcome, n) ==
  job' = [job EXCEPT ![w] = [@ EXCEPT !.step = outcome, !.id = n]]

\* The provider takes the message under a new id; its answer may be lost.
Accept(w, told) ==
  LET n == Len(issued) + 1
  IN /\ n <= MaxIds /\ (told \/ faults < MaxFaults)
     /\ issued' = Append(issued, job[w].of)
     /\ faults' = IF told THEN faults ELSE faults + 1
     /\ Concluding(w, IF told THEN "sent" ELSE "failed", IF told THEN n ELSE 0)

\* _dispatch_whatsapp, on the recipient as the task read it: failed at once
\* without consent, otherwise refused or taken.
SendWhatsApp(w) ==
  /\ job[w].step = "send" /\ ChannelOf[job[w].of] = "whatsapp"
  /\ \/ /\ ~job[w].willing
        /\ delivery' = [delivery EXCEPT ![job[w].of].state = "failed"]
        /\ job' = [job EXCEPT ![w] = NoJob]
        /\ UNCHANGED <<issued, faults>>
     \/ /\ job[w].willing /\ UNCHANGED delivery
        /\ \/ Concluding(w, "failed", 0) /\ UNCHANGED <<issued, faults>>
           \/ \E told \in BOOLEAN : Accept(w, told)
  /\ UNCHANGED <<message, queued, work, copies, tasks, reachable, shown, req, retried>>

\* _dispatch_in_app: notify() writes nothing for an inactive account, and the
\* outcome is the same.
ShowInApp(w) ==
  LET d == job[w].of
  IN /\ job[w].step = "send" /\ ChannelOf[d] = "in_app"
     /\ shown' = IF job[w].willing THEN [shown EXCEPT ![d] = @ + 1] ELSE shown
     /\ Concluding(w, "sent", 0)
     /\ UNCHANGED <<outbox, delivery, tasks, reachable, issued, req, retried>>

\* The outcome, and for WhatsApp the id the provider gave.
Conclude(w) ==
  LET d == job[w].of
  IN /\ job[w].step \in {"sent", "failed"}
     /\ delivery' = [delivery EXCEPT ![d] = [@ EXCEPT !.state = job[w].step, !.id = job[w].id]]
     /\ job' = [job EXCEPT ![w] = NoJob]
     /\ UNCHANGED <<outbox, tasks, reachable, issued, shown, req, retried>>

LoseWorker(w) ==
  /\ Lose(w)
  /\ tasks' = IF job[w] = NoJob THEN tasks ELSE Redelivered(job[w].of)
  /\ job' = [job EXCEPT ![w] = NoJob]
  /\ UNCHANGED <<delivery, reachable, issued, shown, req, retried>>

\* The recipient withdraws consent, or the account is deactivated.
Leave(d) ==
  /\ "leave" \in Operations /\ reachable[d]
  /\ reachable' = [reachable EXCEPT ![d] = FALSE]
  /\ UNCHANGED <<outbox, delivery, tasks, job, issued, shown, req, retried>>

-----------------------------------------------------------------------------

\* An operator's request reads the row and decides.
Ask(r, d, op) ==
  /\ req[r] = Idle
  /\ \/ op = "retry" /\ Retryable(delivery[d]) /\ retried[d] < MaxRetries
     \/ op = "cancel" /\ Cancellable(delivery[d])
  /\ req' = [req EXCEPT ![r] = [op |-> op, of |-> d, status |-> "none"]]
  /\ UNCHANGED <<outbox, delivery, tasks, job, reachable, issued, shown, retried>>

\* A callback finds its row by the provider's id.  The provider may repeat
\* and reorder the statuses of a message it took.
Call(r, d, status) ==
  /\ "callback" \in Operations /\ req[r] = Idle
  /\ ChannelOf[d] = "whatsapp" /\ delivery[d].id # 0 /\ Hears(delivery[d])
  /\ req' = [req EXCEPT ![r] = [op |-> "callback", of |-> d, status |-> status]]
  /\ UNCHANGED <<outbox, delivery, tasks, job, reachable, issued, shown, retried>>

Writes(r, state) ==
  /\ delivery' = [delivery EXCEPT ![req[r].of].state = state]
  /\ req' = [req EXCEPT ![r] = Idle]
  /\ UNCHANGED <<outbox, job, reachable, issued, shown>>

Retry(r) ==
  /\ req[r].op = "retry" /\ Writes(r, "queued")
  /\ tasks' \in Enqueued(req[r].of)
  /\ retried' = [retried EXCEPT ![req[r].of] = @ + 1]

Cancel(r) == req[r].op = "cancel" /\ Writes(r, "cancelled") /\ UNCHANGED <<tasks, retried>>

Callback(r) ==
  req[r].op = "callback" /\ Writes(r, StateOf(req[r].status)) /\ UNCHANGED <<tasks, retried>>

-----------------------------------------------------------------------------

Init ==
  /\ OutboxInit
  /\ delivery = [d \in Deliveries |-> Absent] /\ tasks = [d \in Deliveries |-> 0]
  /\ job = [w \in Workers |-> NoJob] /\ reachable = [d \in Deliveries |-> TRUE]
  /\ issued = <<>> /\ shown = [d \in Deliveries |-> 0]
  /\ req = [r \in Requests |-> Idle] /\ retried = [d \in Deliveries |-> 0]

\* A worker that is not dispatching runs the outbox's tasks.
OutboxTask(w) == job[w] = NoJob /\ (Take(w) \/ Progress(w)) /\ UNCHANGED log
BackOff(m) == Elapse(m) /\ UNCHANGED log

\* Receipts, invitations and the rest are mailed through the same outbox.
OtherMail(m) == Queue(m) /\ UNCHANGED log

Dispatch(w) ==
  \/ Begin(w) \/ MailProgress(w) \/ SendWhatsApp(w) \/ ShowInApp(w) \/ Conclude(w)
  \/ \E m \in Messages : WriteMail(w, m)

WorkOn(w) == OutboxTask(w) \/ Dispatch(w) \/ \E d \in Deliveries : TakeDispatch(w, d)

Ends(r) == Retry(r) \/ Cancel(r) \/ Callback(r)

Next ==
  \/ \E d \in Deliveries : Create(d) \/ Leave(d)
  \/ \E w \in Workers : WorkOn(w) \/ LoseWorker(w)
  \/ \E m \in Messages : BackOff(m) \/ OtherMail(m)
  \/ \E r \in Requests, d \in Deliveries :
       \/ \E op \in Operations : Ask(r, d, op)
       \/ \E status \in Statuses : Call(r, d, status)
  \/ \E r \in Requests : Ends(r)

Spec == Init /\ [][Next]_vars

\* Workers work, beat keeps sending the sweep, back-offs elapse.  Nothing says
\* that an operator retries, or that a provider calls back.
Fairness ==
  /\ \A w \in Workers : WF_vars(WorkOn(w))
  /\ \A m \in Messages : WF_vars(BackOff(m))

FairSpec == Spec /\ Fairness

-----------------------------------------------------------------------------

DeliveryTypeOK ==
  /\ delivery \in [Deliveries ->
       [state : {"none", "queued", "processing", "sent", "delivered", "failed", "cancelled"},
        id : 0 .. MaxIds, mail : Messages \cup {Nothing}]]
  /\ tasks \in [Deliveries -> Nat] /\ retried \in [Deliveries -> Nat]
  /\ reachable \in [Deliveries -> BOOLEAN] /\ shown \in [Deliveries -> Nat]
  /\ issued \in Seq(Deliveries) /\ Len(issued) <= MaxIds
  /\ job \in [Workers -> [step : {"none", "begin", "send", "mail", "sent", "failed"},
                          of : Deliveries \cup {Nothing}, id : 0 .. MaxIds, willing : BOOLEAN]]
  /\ req \in [Requests -> [op : {"none", "retry", "cancel", "callback"},
                           of : Deliveries \cup {Nothing}, status : Statuses \cup {"none"}]]
  /\ \A d \in Deliveries :
       delivery[d].id # 0 => delivery[d].id <= Len(issued) /\ issued[delivery[d].id] = d
  /\ \A w \in Workers : job[w].step = "mail" <=> work[w].task = "inline"

\* How often the message of a delivery reached somebody: the mail server, the
\* provider, or the recipient's list of notifications.
Sends(d, mails) ==
  MapThenSumSet(LAMBDA m : copies[m], mails) + shown[d]
    + Cardinality({k \in DOMAIN issued : issued[k] = d})

\* Nothing is forgotten: a delivery still to be sent has a task at the broker
\* or a worker on it, through losses of workers and concurrent requests.
NoneForgotten ==
  \A d \in Deliveries :
    delivery[d].state \in {"queued", "processing"} =>
      tasks[d] > 0 \/ \E w \in Workers : job[w].of = d

\* What the log calls sent or delivered did reach the provider or the mail
\* server.  (Not so in-app: notify() may decline, and the log says sent.)
SentWasSent ==
  \A d \in Deliveries :
    ChannelOf[d] # "in_app" /\ delivery[d].state \in {"sent", "delivered"} =>
      Sends(d, {delivery[d].mail} \ {Nothing}) > 0

Untouched(d) ==
  /\ delivery[d].state = "cancelled"
  /\ \A w \in Workers : job[w].of # d
  /\ \A r \in Requests : req[r].of # d

\* Cancelling is final for whoever reads the row afterwards: a cancelled
\* delivery that no worker and no request is on stays so for ever, whatever
\* tasks and callbacks still come.
CancelledIsFinal == [][\A d \in Deliveries : Untouched(d) => Untouched(d)']_vars

\* A delivery goes out once, once more per retry, and otherwise only as often
\* as a worker or an answer was lost.  (Not of e-mail, which the outbox sends.)
SendsExplained ==
  \A d \in Deliveries :
    ChannelOf[d] # "email" => Sends(d, {}) <= 1 + retried[d] + faults

\* Every delivery to be sent is eventually sent, failed or cancelled, though
\* workers are lost on the way and requests interfere.
DeliveriesConclude ==
  \A d \in Deliveries :
    delivery[d].state \in {"queued", "processing"} ~>
      delivery[d].state \in {"sent", "delivered", "failed", "cancelled"}

=============================================================================
