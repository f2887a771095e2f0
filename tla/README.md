# Formal models of the GRRAS LMS/ERP back end

This directory holds TLA+ models of the Django back end in `src/backend`, the TLC
runs that check them on small instances, and proofs that TLAPS checks for every
value of the constants. Paths below are relative to `src/backend/apps/` unless they
begin with `src/`.

## 1. The system

A school's learning and administration system: a Django REST API (about forty
apps), PostgreSQL, Celery workers with a beat scheduler over a Redis broker, and a
Next.js front end. What matters for correctness under concurrency:

* **A request is one transaction.** `ATOMIC_REQUESTS` is on
  (`src/backend/config/settings/base.py:178`), PostgreSQL runs at its default READ
  COMMITTED. A view loads a row without a lock and passes the *object* to a service,
  which decides on that copy, may take row locks (`select_for_update`), reads more
  rows statement by statement, and saves named columns. Others see the writes when
  the request commits.
* **A task is outside any transaction.** Celery acknowledges late, with a prefetch of
  one and `reject_on_worker_lost` (`base.py:301-305`): a task whose worker dies is
  delivered again. Beat sends the sweeps at fixed intervals. There is no result
  backend; the only trace of a task is the rows it writes.
* **Mail server and WhatsApp provider** are external. They take or refuse a message,
  their answer may be lost, and the provider calls back with statuses later.

### Components

| component | state | operations | hard behaviour | what makes it correct |
|---|---|---|---|---|
| Enrolments (`enrollments/`) | enrolment rows: student, batch, course, status, successor | enrol, change status, transfer, cascades | racing requests on one batch, decisions on stale copies | capacity, one live place per student and batch, chains, terminal statuses |
| Batches (`batches/`) | batch rows: status, capacity, course, trainer, timetable | status, edit, assign trainer, timetable | capacity against enrolment, timetable check-then-act | terminal batches stay closed, nobody live on a cancelled one |
| Fees (`fees/`) | plans, instalments, payments, the student's `fee_status` | set fee, set schedule, expect, pay, void | racing money operations; derived fields | no negative balance, the schedule adds up, payments are kept |
| E-mail outbox (`notifications/`) | outbox rows, tasks, sweep | queue, send, sweep | lost workers and answers, two senders of one row | every message settles; a "sent" row was taken |
| Deliveries (`communication/`) | send log, tasks, provider ids | create, dispatch, retry, cancel, callback | redelivery, stale retry and cancel, callbacks out of order | nothing forgotten, sends explained, cancelled is final |
| Templates (`communication/`) | template versions, cached published version | approve, publish | cache forgotten before commit | the published version is served |
| Risk (`performance/`) | risk row per enrolment, a cache key | recompute, debounce | change during a recompute, lost task | risk catches up with the figures |
| Completion and certificates (`progress/`, `certificates/`) | completion, certificate rows | approve, reopen, issue, reissue, revoke | issue racing reopen | at most one live certificate, only for an approved completion |
| Versioned cache (`common/caching.py`) | cache entries and a version per prefix | remember, forget | remember racing forget | no stale value after a forget |
| Automation (`automation/`) | rules, runs | trigger, claim, act | rate guard, lost worker | each event handled once |
| Work engine (`work/`) | activities | create with a client key, transition, sweep | transition racing the sweep | lifecycle, idempotent creation |
| Exams (`exams/`) | attempts, answers | start, save, submit, mark | double start and submit, deadline | one attempt open, marks add up |
| Accounts (`accounts/`) | users, sessions, codes, devices | roles, login, codes | last administrator, one-time codes | one-time use, an administrator remains |
| Assignments, projects, DSR, forms, sessions, attendance, enquiries, integrations, exports, trainers | rows with a status each | submit, review, generate, import | double submission, sweeps, upserts | see the hazards in `PROJECT.json` |
| Announcements, warnings, courses, questions, assessments, policies, students, organisation, settings, audit, search, dashboards | rows | single-row edits, inserts and reads | none beyond one row | not modelled: little that interleaves |
| Front end (`src/frontend`) | what the server sent | API calls | none of its own | not modelled |

**Interactions.** A batch's status change calls the enrolment cascades. A transfer
calls enrol. Every fee operation ends in the student's `fee_status`. Receipts,
statements and notifications insert outbox rows. A delivery by e-mail writes an
outbox row and sends it in its own task. Nearly everything calls `record()` (audit),
an insert that nothing reads back here; it is abstracted everywhere.

## 2. Modules

| module | stands for | extends / composes |
|---|---|---|
| `Enrolment` | `enrollments/services.py`, the batch operations of `batches/services.py` | |
| `Roster` | abstract: what a roster promises, in atomic steps | implemented by `Enrolment` |
| `EnrolmentProofs` | theorems about `Enrolment`, among them that it implements the roster | `Enrolment`, TLAPS |
| `FeeSchedule` | arithmetic of instalments (pure operators) | |
| `FeeScheduleProofs` | theorems about `FeeSchedule`, over the schedules of its MC module | `FeeScheduleMC`, `Sums` |
| `FeeLedger` | `fees/services.py` as concurrent transactions | `FeeSchedule` |
| `FeeLedgerProofs` | theorems about `FeeLedger` | `FeeLedger`, `FeeScheduleProofs` |
| `Outbox` | `notifications/tasks.py`, `channels.py` | |
| `Delivery` | the send log of `communication/`, on the same workers | `Outbox` |
| `DeliveryProofs` | theorems about `Outbox`, and about `Delivery`, among them that it implements the outbox | `Delivery`, `Sums` |
| `Certification` | `progress/services.py`, `certificates/services.py` and the status of the enrolment | |
| `CertificationProofs` | theorems about `Certification` | `Certification`, TLAPS |
| `Exam` | the attempts and answers of one student at one exam (`exams/services.py`) | |
| `ExamProofs` | theorems about `Exam` | `Exam`, `Sums` |
| `Risk` | the risk verdict of one enrolment, its debounced task and its first read (`performance/`) | |
| `Automation` | `automation/services.py` on a changed verdict, with the action that overrides it | `Risk` |
| `AutomationProofs` | theorems about `Automation` | `Automation`, TLAPS |
| `Sums` | facts about sums over finite sets that the proofs share | TLAPS |
| `*MC` | constants for TLC | the module of the name |

### How state and actions correspond to the code

**Enrolment.** `row` and `batch` are the two tables as committed; `lock[b]` is the
PostgreSQL row lock on a batch; `req[r]` is a request, with the copies it loaded.
`Start*` is what a request does up to its first lock: it loads the row (the view's
`get_object_or_404`) and the service's checks on that copy are guards.
`EnrolCheck`, `ReactivateCheck` and `EditCheck` are what happens under the lock:
`SELECT .. FOR UPDATE`, then the reads and checks of the following statements.
`BatchWrite` is the UPDATE of the batch, which takes the same lock. `*Commit` makes the writes visible, with all the cascade's
writes in the one step (they are one transaction). `RollBack` may end a request
anywhere: a refused check, the unique index, a lost connection. Two writes of the
same enrolment row cannot wait for ever: they are the last thing before commit.
The trainer that activation requires, the access dates, the notes and the codes are
abstracted.

**FeeSchedule, FeeLedger.** `plan`, `payment` and `feeStatus` are as committed;
`today` is the date. A request has an operation, the copy of the plan's next expected
payment and the student's status it loaded, and whether it holds the plan's lock.
`PayCheck`, `FeeCheck` and `ScheduleCheck` are what happens from the lock to the
insert; `Sync` is `_sync_next_due_from_schedule`; `Derive` is
`sync_student_fee_status`; `Commit` makes it visible. `VoidWrite` is the UPDATE of the
payment (it waits for another one), `VoidUpdate` that of the plan. A payment also locks
the student's row, because `select_for_update` is used together with
`select_related("enrollment__student", ...)`. Money is whole units. `ByDate` is the stable `sort` of
`_clean_installments`, by ranks: an instalment's `Place` counts those that come before it, so that two of one date
keep their order.

**Outbox.** `message` is the outbox table; `queued` the broker's tasks; `work[w]` what a
worker holds, with the copies of the rows it read; `copies` how often the mail server
took a message (no code reads it; it is what the properties are about). `Queue` is the
insert with its task (`enqueue_email` survives a broker that is down); `TakeTask` and
`TakeSweep` are the two tasks up to their reads; `Converse` is the SMTP call; `Save` the
UPDATE from the copy; `Lose` a worker killed at any point. The task is queued inside the
transaction that inserts the row and may run before the commit, when it finds nothing
and ends: to everyone else this is a task that never was, one of the two outcomes of
`Queue`.

**Delivery.** Adds the send log (`delivery`), its dispatch tasks (`tasks`), what a
worker is dispatching (`job`), the ids the provider issued, and operators' requests
(`req`). `Begin`, `WriteMail`, `MailProgress`, `SendWhatsApp`, `ShowInApp` and
`Conclude` are the statements of `dispatch_delivery` that others can see. `reachable`
is the recipient's consent or active account, which the task reads with the row. The
sender itself is the outbox's: `TakeInline`, `Suppress`, `Converse` and `Save` are its
actions, with the same worker. `OtherMail` is the mail of every other component.

**Certification.** `completion` is the row of the enrolment, or `Absent`; `certificate` the
table by order of insertion; `enrolment` the enrolment's status; `meets` what the
completion rules say at the moment. Nothing here takes a lock, so every operation has two steps: `Load*`
takes the copies (the view's lookup, or the service's `get_or_create`, and the enrolment's status where an
approval will decide on it), and the action named after the service checks them and
commits what it writes: the whole row for approve, reject and reopen (`completion.save()`
without `update_fields`), the status column alone for a refresh, a reissue and a revocation.
`reopen_completion` looks for live certificates in a statement of its own, so it has three steps.
`OneLiveIndex` is the partial unique index, `Successors` the
one-to-one `supersedes`, and `NobodyInserts` the wait of a second `get_or_create` for the first one's insert.
`NeverOverlap` says which pairs of operations are assumed not to be in flight together.

**Exam.** `attempt` and `answer` are the tables, an answer being what the candidate gave,
as the answer key sees it, and what was awarded; `late` are the attempts past `expires_at`. A request
holds rows: those it locked or wrote and has not committed. `StartLook` to `StartLost` are
the statements of `start_attempt`, whose `FOR UPDATE` picks the latest attempt before it waits
for it. `SaveRead` and `SaveWrite` are `get_or_create` and the save of the whole row.
`CloseWrite` is the first UPDATE of `submit_attempt` and of `finalise_expired`; `GradeRead`,
`GradeUpdate` (once per answer, in the paper's order) and `GradeCommit` are
`grade_attempt`, and `MarkWrite` is the manual mark that ends in it.

**Risk and Automation.** The figures are versions, and the engine's verdict on each version is a constant.
`Change` is a committed change with its `schedule_recompute` (`cache.add` of the key, then the task); `pending`
is the key. `ReadFigures` is the engine's read, `Judge` the locked rewrite, `FindNone`, `InsertState` and
`InsertLost` the first row, `ClearKey` the task's `finally`. A task of the automation engine is a
stack of `dispatch()` calls, for `flag_risk` dispatches again inside the task: `CountRuns` is
the lock on the rule with the count, `CreateRun` the insert with the depth check, `PassOver` the
`continue` after an IntegrityError or a failure, `Act`, `Flag` and `Finish` the
action, `Return` the end of a nested or of the outermost call, `LoseWorker` a worker killed at any step,
whose task comes again.

## 3. What TLC checks

Every pass run explores all states of its instance. "R" is requests, "W" workers.

| run | instance | shows |
|---|---|---|
| `EnrolmentAlone` | 1 R, all operations, 2 students, 2 batches, capacity 1 or 2, 3 rows | served one at a time, capacity, cancelled batches and ended enrolments are right, and each operation is one step of `Roster` |
| `EnrolmentRaces` | 2 R: all but edit, 1 student, 2 batches, 2 rows | what holds in spite of stale copies: one live place per batch, chains of transfers |
| `EnrolmentJoining` | 3 R: enrol and transfer, 2 rows, fair | placing students concurrently is still atomic (refines `Roster`), and every request ends |
| `FeeSchedule` | all schedules, totals and days of a small range | pouring and states of instalments, next expected amount, fair rounding |
| `FeeLedgerAlone` | 1 R, all operations, 2 days | payments kept, status follows the ledger |
| `FeeLedgerLocked` | 2 R: pay, fee, schedule | no negative balance, next expected within it, sum and order of the schedule, registration payment |
| `OutboxSettles` | 2 W, 2 messages, one refused by policy, 2 faults, fair | "sent" was taken; every message settles |
| `DeliveryMail` | 1 W, an e-mail and an in-app delivery, 2 messages, one refused by policy, broker may be down | copies are explained by faults; what is settled is left alone; the outbox inside behaves as `OutboxSpec` |
| `DeliveryRaces` | 2 W, 2 R, one WhatsApp delivery, 1 retry, fair | "sent" was sent, never forgotten, sends explained, cancelled is final, concluded in the end |
| `Certification` | 2 R, all operations but for the unsafe pairs at once, 3 certificates | one valid claim at most, only on an approved completion; the chain of reissues; decisions, revocations and ended enrolments stand |
| `Exam` | 2 R, 2 attempts, papers of 3 questions (2 written) and of 1, but for the unsafe pairs at once; two starts race from the count on | one sitting at a time, the total is the sum of what is marked, nothing changes after it was handed in |
| `Automation` | 2 W, 1 reader, 2 changes, 2 rules that flag each other's condition, 2 runs a day, depth 3, 1 lost worker | rate and depth guards, one task per occurrence, the latest figures are in the verdict or on their way |

**Bounds.** Two requests or workers are enough for a stale copy to be overtaken; three
requests are used where a lock has to be passed on. Two batches and three rows allow a
transfer and a second one; capacity 1 makes the last seat the normal case, 2 lets a
batch be edited down. Three certificates give a reissue of a reissue, or of one issued after a
revocation. Two written answers around one marked by machine let two
markings meet at each of the rows they save. Two figures after the first let a verdict change and change back; a depth
of three lets a rule flag, be flagged and be stopped. Two payments and two instalments give partly paid, exactly paid
and overdue. Two or three attempts give a retry and a last one; a fault, at any point, gives a
lost worker or a lost answer. `MaxRows`, `MaxPayments`, `MaxItems`, `MaxDay`,
`MaxFaults`, `MaxIds`, `MaxAmount`, `MaxLength`, `MaxPaid`, `LastDay`, `MaxPayable`, `MaxRetries`, `MaxCertificates`, `MaxChanges`, `MaxClock` and `MaxLosses` only bound the
instances (`MaxAttempts` is the code's `MAX_ATTEMPTS`, in `Exam` `exam.max_attempts`, `MaxDepth` its `MAX_DEPTH`,
`MaxRuns` the policy's limit, all made small); the proofs do not depend on their values. Symmetry
is used in runs without liveness only, over sets whose members the specifications never
tell apart.

**Fairness.** `RequestsEnd` assumes that a request that can go on does (PostgreSQL
grants a free lock). `EveryMessageSettles` and `DeliveriesConclude` assume that workers
work, that beat keeps sending the sweep (`base.py:315-323`) and that a back-off elapses.
Nothing is assumed of operators, of callbacks or of the mail server's answers. `Certification`, `Exam` and
`Automation` state no fairness: their properties are of safety.
Deadlock is not checked in the outbox and delivery runs, where the system stops when
everything is sent, nor in `Automation`, which stops when its bounds are used up, nor in
`FeeSchedule`, which walks through its inputs once.

**Overlaps left out.** Some races break a property in the code as it is. A run about that property leaves them
out by name, so that what it shows is what the code keeps otherwise: `Operations` (enrolments and fees),
`NeverOverlap` (`Certification`, `Exam`), `StartsOvertake` (`Exam`), `ChangesOverlap` (`Automation`), one worker (`DeliveryMail`).
`UnsafePairs` in `Certification` and in `Exam` lists exactly the pairs of operations that must not be in flight together;
all others, an operation with itself included, do overlap in the runs. Two requests is the
least that can race; the theorems hold for any number.

### Where the code and its documentation differ

The models were also run with those races left in. Most lines were found by such a run, as a counterexample to a property
of section 3, the others while the code was translated; the last column is what a sentence of the repository says, where one does.

| where | what happens | documented |
|---|---|---|
| `enrollments/services.py:182` | a request loads an active enrolment; the batch is cancelled, and its cascade cancels the row; the request writes "suspended" from its copy: someone is live on a cancelled batch | `batches/services.py:223`: "every live enrolment is cancelled too ... leaving enrolments "active" on a cancelled batch would be a contradiction" |
| `enrollments/services.py:208` | a stale status change overwrites TRANSFERRED on a row that has a successor | |
| `batches/services.py:229` | two status changes from the same copy take a cancelled batch back to active | |
| `batches/services.py:121` | a capacity is lowered below a seat taken between the count and the write | |
| `batches/services.py:132` | editing a batch's course leaves its enrolments on the old one | |
| `fees/services.py:567` | a void racing a payment leaves a next expected payment that is already covered | |
| `fees/services.py:549` | a second void replaces the first one's name and reason | |
| `fees/services.py:643` | changes of two plans of one student derive its status from totals that do not see each other | |
| `notifications/tasks.py:73` | the sweep reads a row that is due, a task sends it, the sweep sends it again from its copy: two copies with no worker lost | `src/backend/config/celery.py:37`: "the duplicate finds the row already sent and does nothing" |
| `notifications/tasks.py:54` | a worker lost after the conversation: its task comes again and sends a second copy | the same |
| `communication/services.py:732` | the log says failed for ever of an e-mail that the outbox sweep sends later | |
| `communication/services.py:822` | a callback overwrites a cancellation that came in between; a late one takes delivered back to sent | |
| `communication/tasks.py:34` | a worker lost after the provider's answer: the message is dispatched twice | |
| `communication/services.py:641` | of two retries, the second lands on a row that is no longer failed; of two of one e-mail, each puts a task on it, and the log may end up saying sent while it names an outbox row nobody took | |
| `communication/services.py:785` | an in-app delivery to an account deactivated meanwhile says sent though no notification was written | |
| `progress/services.py:61` | a dashboard is opened while a completion is approved or rejected: the refresh saves "eligible" over the decision | `progress/services.py:50`: "A completion an administrator has already approved or rejected is not touched" |
| `progress/services.py:178` | a rejection decided on a copy overwrites an approval | |
| `progress/services.py:133` | an approval holding an old copy of an enrolment that has been cancelled marks it completed | |
| `certificates/services.py:85` | a certificate is issued from a copy of a completion that is being reopened: valid, on a reopened completion | `certificates/services.py:3-4` |
| `certificates/services.py:153` | a reissue from an old copy supersedes a certificate revoked meanwhile and puts a valid one in its place | the code's own message: "A revoked certificate cannot be reissued." |
| `exams/services.py:344` | Start is clicked twice; the second request's query ran before the first one's insert, its count after the commit: with attempts left, two are in progress | `exams/services.py:340`: "Idempotent by design. A candidate ... who double-clicks Start gets the attempt they already have" |
| `exams/services.py:430` | a save that loaded an open attempt changes an answer after the attempt was handed in, and may write an old mark back over a new one | |
| `exams/services.py:432` | a save past the deadline closes the attempt and then raises, which rolls the closing back, though the message says that the saved answers have been submitted | the message |
| `performance/tasks.py:73` | a change after the running task has read the figures and before it clears its key schedules nothing: the verdict is of the older figures until something else changes | the module's docstring: a recompute "is already coming and will read whatever the latest numbers are" |
| `performance/services.py:354` | a slow first read of a page that read older figures waits for the row and writes them last | |
| `automation/services.py:796` | a worker lost after the claim leaves its run QUEUED for ever; the redelivered task finds the occurrence taken | `automation/services.py:802-807` says that nothing is left `QUEUED` forever (it is about errors, not lost workers) |
| `automation/services.py:802` | a claim that fails for any other reason drops the occurrence, for the loop goes on and the task ends well | "the next attempt tries again from scratch" |

Most of these need two requests within the same second, and some are the price of at-least-once delivery; they are
listed because each bounds what a property of section 3 says.

## 4. What is proved

TLAPS checks these for every value of the constants: any number of students, batches,
requests, workers, messages, deliveries, certificates, attempts, questions, rules, plans and payments, and every bound.

| theorem | says |
|---|---|
| `EnrolmentProofs!TypeCorrect` | `Spec => []TypeOK` |
| `EnrolmentProofs!OneLive` | one live place per student and batch |
| `EnrolmentProofs!Chains` | transfer chains run forward; every transferred row has a successor |
| `EnrolmentProofs!SuccessorNamed` | every transferred row names its successor |
| `EnrolmentProofs!LocksExclusive` | a batch lock has one holder, between its check and its commit |
| `EnrolmentProofs!SeatsPlacing` | capacity, if only enrolments, transfers and batch status changes are made |
| `EnrolmentProofs!NobodyOnCancelled` | nobody is live on a cancelled batch, under the same condition |
| `EnrolmentProofs!ApartIsSafe` | both with all five operations (`[]Apart`) |
| `EnrolmentProofs!EndedStay` | an ended enrolment stays as it was, its successor too (`[]Apart`, `[]TransfersApart`) |
| `EnrolmentProofs!RosterKept` | `ImplementsRoster`: each of the five operations is one step of `Roster` or none (`[]Apart`) |
| `EnrolmentProofs!JoinsKeepRoster` | the same with no such hypothesis, if only enrolments and transfers are made |
| `FeeScheduleProofs!SchedulesCollectInOrder` | money is poured in order, nothing of it is lost; one instalment at most is pending |
| `FeeScheduleProofs!SchedulesAskWhatIsOwed` | what is expected next is within what is owed, is nothing only when nothing is, and by the earliest open date |
| `FeeScheduleProofs!SpreadsAreFair` | the parts of a fee add up to it, differ by rounding only, and are collectable once the fee is not tiny |
| `FeeLedgerProofs!LedgerInv` | the rows' shapes; one request at a plan's lock; what a check found stands until the commit |
| `FeeLedgerProofs!LedgerNeverOverpaid` | no plan has more paid than is payable |
| `FeeLedgerProofs!LedgerScheduleAddsUp` | instalments sum to the fee, each asks for something, and they are in date order |
| `FeeLedgerProofs!LedgerNextInStep` | the next expected payment is the first one not covered, within the balance and nothing only when nothing is owed, if nobody types one (`[]VoidsAlone`) |
| `FeeLedgerProofs!LedgerFirstPayment` | the first payment registers (`[]VoidsWait`) |
| `FeeLedgerProofs!LedgerKeepsPayments` | payments are never changed, voids are once and for all (`[]VoidsApart`) |
| `FeeLedgerProofs!LedgerStatusFollows` | `fee_status` is what the ledger comes to (`[]OneInFlight`) |
| `DeliveryProofs!OutboxTyped` | types; a row counts no more than `MaxAttempts` attempts |
| `DeliveryProofs!SentIsTrue` | a row says sent only of what the mail server took |
| `DeliveryProofs!OneWorkerSettles` | with one worker, what is settled is never touched again |
| `DeliveryProofs!OneWorkerAccounts` | with one worker, no copy is taken that is neither recorded, in hand, nor due to a lost worker or answer |
| `DeliveryProofs!DeliveryTyped` | types; a provider id is on the row it was issued for |
| `DeliveryProofs!UsesOutbox` | the composed system implements `OutboxSpec` |
| `DeliveryProofs!CancelsAreFinal` | a cancelled delivery nobody is on stays cancelled |
| `DeliveryProofs!NothingForgotten` | with a broker that is always reachable, a queued or processing delivery has a task or a worker |
| `DeliveryProofs!SendsAreExplained` | a delivery that is no e-mail is sent once, and again only for a retry or a fault |
| `DeliveryProofs!SentReachedSomebody` | "sent" was sent (`[]RetriesApart`) |
| `CertificationProofs!CertificationTyped` | types of the rows and of the copies |
| `CertificationProofs!OneLiveClaim` | never two valid certificates |
| `CertificationProofs!ChainOfReissues` | the chain of reissues can be walked |
| `CertificationProofs!LiveCertificateIsApproved` | a valid certificate is of an approved completion (unsafe pairs apart) |
| `CertificationProofs!DecisionsStand` | only a reopening undoes a decision (unsafe pairs apart) |
| `CertificationProofs!RevocationsStand` | revoked is for ever (unsafe pairs apart) |
| `CertificationProofs!EndedEnrolmentStays` | no approval touches an ended enrolment (unsafe pairs apart) |
| `ExamProofs!ExamTyped` | types; attempts are numbered without a gap |
| `ExamProofs!OneSittingAtATime` | one attempt in progress (unsafe pairs apart) |
| `ExamProofs!HandedInForGood` | what is handed in stays as it was (unsafe pairs apart) |
| `ExamProofs!TotalsAddUp` | the total is the sum of the awards, and there is none while an answer waits (unsafe pairs apart) |
| `AutomationProofs!GuardsAlwaysHold` | the daily limit and the depth limit of rules |
| `AutomationProofs!RunsAreClaimedOnce` | one task per occurrence; a queued run waits only for its task |
| `AutomationProofs!NoChangeIsLost` | the latest figures are in the verdict or on their way (no change between read and clearing) |

**Assumptions.** The named `ASSUME`s of the modules, which TLC
evaluates in every run: sets of statuses and capacities, finite bounds, `Nothing` outside the
messages, deliveries and levels. `LedgerAssumption` asks of amounts and days, and of the gap between default dates, no more than that they are numbers, `ScheduleBounds` the same of the bounds of `FeeScheduleMC`. Some theorems have a hypothesis of their own, because without it
the code does not do what they say (section 3). Some are on the constants: `SeatsPlacing` and `NobodyOnCancelled` assume that no edit and no single
status change is made, `JoinsKeepRoster` `OnlyJoins` (nobody calls but to enrol and to transfer),
`OneWorkerSettles` and `OneWorkerAccounts` that `Workers = {v}`, `NothingForgotten` that
`BrokerUp = TRUE` (a delivery whose task could not be queued stays queued for ever;
`communication/services.py:569-575` documents it), those marked "unsafe pairs apart" that
`UnsafePairs \subseteq NeverOverlap`, the three of `ExamProofs` that `~ StartsOvertake` besides (no attempt is inserted between
another start's query for the latest one and its count), `NoChangeIsLost` that `~ ChangesOverlap`, and `LedgerNextInStep` that
nobody types what is expected (`NoneTyped`), for what is typed overrides the schedule.

The others are of the form `Spec /\ []P => ...`: they are about those behaviours of the full specification in which certain
requests never meet, and `P` says which.

| hypothesis | says | without it |
|---|---|---|
| `Apart` | no two requests are at work on one batch or a row of it at once, unless both enrol or transfer | an edit, a single status change and a change of the batch's status each decide on a copy loaded without the lock |
| `TransfersApart` | no two transfers of one enrolment are in flight | two transfers to different batches: the second overwrites the successor that the first has named, and the student is live on both |
| `VoidsAlone` | no void is in flight while another request on its plan is past its check | the commit of either leaves a next payment that does not count the other |
| `VoidsWait` | no void is in flight on a plan that a payment being recorded has locked | a void that changes neither the next payment nor the status writes no row of the plan, waits for no lock, and makes a second payment a first one |
| `VoidsApart` | no two requests void one payment at once | the second replaces the name and the reason of the first |
| `OneInFlight` | no two requests are in flight at once | a status derived from totals that miss the other request, or found equal to a copy of the student that the other has overwritten |
| `RetriesApart` | no two requests retry one e-mail at once | two tasks on one e-mail: the second worker writes an outbox row of its own and points the delivery at it, when the first has already concluded "sent" |

TLC finds each of these, with two requests. With one request they hold of themselves, so that `EnrolmentAlone` and
`FeeLedgerAlone` are instances of the theorems; `VoidsAlone`, `VoidsWait` and `VoidsApart` hold where nothing is voided (`FeeLedgerLocked`),
`RetriesApart` where nothing is mailed (`DeliveryRaces`), `Apart` where only joining requests are made (`EnrolmentJoining`).

**Arguments.**

* *Enrolment.* `TypeOK` is not inductive: it says nothing of what a request's copies are
  worth, and a commit writes from them. `IInv` adds `TicketsPointAtRows`: the source a transfer
  loaded is a present row of the same student on another batch; a status change has a
  present row; a cascade has rows of its batch and a target that cascades. `OneLive` needs
  besides that every write of a live status passes the unique index. `Chains` is inductive
  over `IInv` because a successor is the row just inserted: it is above every present one,
  and no other row points at it. `LocksExclusive` is inductive over `IInv`.
  `SeatsPlacing` needs `SeatsInv`: a request between its check and its commit
  holds the batch's lock, and has a seat free (or, for a cascade, its rows and those that hold a
  seat fit together), so that the commit cannot exceed what was counted.
* *Outbox.* `OInv` adds to the types that a deliverable row has attempts left
  (`AttemptsLeft`, or the counter would pass `MaxAttempts`) and that an answer "taken" a worker has not recorded yet is
  of a message that was taken (`AnswersAreTrue`): a save then writes "sent" truthfully, whichever
  worker held the older copy. With one worker, `TodoIsFresh`: whatever it has still to send is
  still deliverable, for nobody else could have settled it.
  `OneWorkerAccounts` counts: each step that adds a copy puts a message in the hand of the only worker, which
  `TodoIsFresh` keeps from being one already recorded; each that empties the hand unrecorded is a fault.
* *Delivery.* `DInv` is the outbox invariant with the types of the log, what each job and
  request refers to (`JobsKnown`, `RequestsKnown`: a delivery that exists), and that a
  dispatcher's outbox job is its own (`DispatcherRests`: a worker dispatching anything else
  than a mail rests as far as the outbox goes). The last is what lets a step of the
  dispatch map to a step of the outbox or to a stutter. For `NothingForgotten`, each
  step that removes a task either puts a worker on the delivery, or finds it in a state that
  needs none; the loss of a worker returns the task.
  `SendsAreExplained` weighs a delivery (`Load`: not yet made, its tasks, the workers that have not sent it yet, what was shown and
  issued): no step adds to the weight but a retry or a fault. `SentReachedSomebody` needs `ClaimsTrue` for WhatsApp and `MailsFine` for
  e-mail: one task or worker at most is on an e-mail's delivery, a worker that sends it sends the row it names, and while a retry of it is
  in flight nobody is on it (`LeftAlone`), so that the retry which commits puts the only task there.

* *Cancelled batches.* `NobodyOnCancelled` needs `CancelsInv` next to `SeatsInv`: while a cascade is between its write and
  its commit its request holds the batch's lock and has selected every live row of it, and an enrolment that
  passed its check has found the batch open under that lock.
* *Roster.* `RosterInv` adds `Ready`, what a request in flight may rely on until it commits: an enrolment that passed its
  check holds the lock and is still admitted, a row it transfers is live (or was transferred meanwhile by another request), a
  status or a capacity that was allowed still is, a cascade has the rows it would select now. Two facts keep it so while requests are
  apart: a commit changes only batches its request works on and rows of them (`CommitInside`), and a request relies on nothing outside
  its own (`UntouchedReady`). Requests that join one batch are told apart by its lock, which sees to it that the seats and the students
  of the batch stay. Then each commit is one step of `Roster`: a seat counted in rows is one of a student, because no student has
  two live rows on a batch, and the rows a batch takes along when it ends are as many as their students (`FS_Bijection`). All
  other steps leave both tables alone. `ApartIsSafe` follows from the same invariant; `EndedStay` needs besides that no transfer in flight
  has a source that has ended (`SourcesLive`). `JoinsKeepRoster` is `RosterKept` once joining requests are shown to be apart (`JoiningApart`).
* *Certification.* `OneLive` and `ChainHolds` need nothing of the copies but that they are of rows that exist
  (`Loaded`): the two indexes decide. The rest needs `SerialInv`. Its parts are `Exclusive`, no
  two requests of an unsafe pair are in flight, and `CopiesHold`, what each copy is still worth:
  an issuer's completion is still approved, a certificate loaded as not revoked is not revoked, an
  approval that found the enrolment active will find it so. Each step that could spoil a copy belongs to an
  operation which `Exclusive` keeps away from the request that holds it.
* *Exam.* `TInv` says that attempts are numbered 1 to k, that nobody works on an attempt that is not there, and
  that a manual mark is of a closed attempt's answer. `SitInv` adds
  `AllFit`, what a request read still fits the rows (an attempt loaded open is open, a start that has counted finds none in
  progress or its number taken),
  `LatestOnly`, only the latest attempt can be in progress, and that a closed attempt has its answers
  (`ClosedAnswered`, or a later grading would insert one).
  `TotalsAddUp` needs `TotInv`: no row is held twice (`HoldsApart`); a marker holds the answer it marks and whoever else closes holds
  the attempt (`Firm`), so that what a grader has read of the answers is still so when it commits (`StillSo`).
* *Fees.* `LInv` adds to the rows' shapes that no two requests are past the lock of one plan (`LocksApart`) and that what a request found there
  stands (`Stands`: a payment still fits under what is payable, a fee is not below what is paid, the instalments sum to the fee). A void takes no lock,
  but only lowers what is paid. `StepInv` adds that the commit of a request in flight will leave the plan in step (`Foresees`): what it will write as the next payment is
  what the schedule and the total it leaves call for, and a request that writes nothing has found nothing to change. Nobody else moves the plan meanwhile, for
  the lock keeps payments, fees and schedules away, and `VoidsAlone` the voids.
  `FirstInv` adds that a first payment that has passed its check registers still, `KeptInv` that a payment being voided has not been voided
  since it was loaded, `AloneInv` that the copies of a lone request are fresh.
  `LInv` leaves what the schedule's arithmetic computes opaque. A second layer, `OrderInv`, opens it: every schedule in the table, and
  every one a request has checked, is of amounts and days in date order (`PlansOrdered`, `ItemsFit`), for what an operator gives is
  sorted, default dates ascend, and a respread keeps the dates it finds. With that, `LedgerNextInStep` says more than which
  instalment is next: the sum is the fee and no plan is overpaid, so what it asks for is within the balance (`NextWithinOwed`).
* *Schedules.* `FeeScheduleProofs` is about the operators, for schedules of any length and amounts of any size; the behaviours of
  `FeeScheduleMC` only make them. `UpToSum(s, i)` is the sum of the first i amounts: `AmountsOf` is its last one (`AmountsAreSum`, through the fold's
  own recursive function), it grows with i, and `LeftIs` says what the loop of `installment_rows` has left after i rows: what was paid
  less that sum, and never below nothing. Everything else is linear arithmetic over it (`CoveredIs`, `Poured`, `NextWithinOwed`). Where a fact is inductive in i, the proof takes
  the least i at which it fails (`LeastNumber`), since an induction rule with an operator parameter cannot be instantiated.
  `ByDateSorts`: places are apart (`PlacesApart`) and lie within 1 to n, so every place is filled (`PlacesFilled`, an injection of a
  finite set into one of its size), and a smaller place has no later date. `RoundsWell` bounds what rounding half to even is off by;
  `SpreadIsFair` multiplies that by the number of parts.
* *Automation.* `ClaimInv` is about stacks of calls of any depth. A run is in the hand of one task, and queued (`HandsApart`), for the key
  is unique; a rule is locked by one task from the count to the insert (`Locked`), so that the count is still right (`Counted`). The limit is not
  inductive for the runs that have acted, only for those that have or may still (`Guarded`): a run allowed to act was counted when it was made.
  `Shallow` says the like of depth.
* *Sums.* The library folds with a recursive function over subsets. `Sums` shows that this function exists and is unique,
  and what a sum does when an element comes, goes or changes, by a minimal counterexample: the subsets of a finite set are well-founded
  (`FS_StrictSubsetOrderingWellFounded`), so that among those for which a claim fails one is minimal.
* *Risk.* `RecomputeInv` says that the key stands only when a task is on the broker or with a worker that
  has not cleared it (`KeyIsHonest`), and that whoever has read the figures has read the latest. The first is why a coalesced change is not lost, the second
  why nobody writes older figures last. A lost worker gives its task back with the key in place.

## 5. What is only model-checked

* Liveness (`RequestsEnd`, `EveryMessageSettles`, `DeliveriesConclude`): fairness and
  ENABLED are out of the prover's reach.
* Nothing else: every invariant and every action property that a run checks is stated by a theorem of section 4, some under a
  hypothesis of their own, and so are the two refinements.

## 6. Abstractions and what is not modelled

* Users, permissions, audit, signals, wording, references and codes, soft delete, access
  windows and the trainer that activation requires are left out: they refuse
  more, or write what no guard here reads. All properties are of safety under any choice of
  operations, so leaving out a refusal is on the safe side; `RequestsEnd` counts a refusal as an end.
* Fees: percent discounts, receipts, statements, `MAX_INSTALLMENTS` and the overview with
  its cache are left out. A plan is taken of a student with a live enrolment.
  `StatusFollowsLedger` is about the day the status was derived: no
  sweep derives it again when an instalment becomes overdue. A next payment set by hand
  overrides the schedule, so that `FeeLedgerLocked` leaves it out; it leaves voids out
  because they race (section 3).
* Outbox: `RETRY_BATCH` (the sweep takes all that is due), time limits of tasks and expired
  sweeps (a lost worker stands for each), the duration of a back-off, and eager execution
  in tests.
* Deliveries: templates and recipient resolution, `attempts` and `next_attempt_at` of the
  log (no guard reads them), several statuses in one call of the provider (several calls here).
  The recipient's consent is read when the task loads the row.
* `Courses` has one element in the runs: nothing here tells courses apart, but an
  edit may move a batch to another one.
* Completion and certificates: whether the student meets the rules is one Boolean that may change at any time; an enrolment's
  pending status (it moves like suspended) and transfers, templates, numbers and snapshots are left out.
* Exams: one exam, one student, since no row is shared between two of them; right answers earn one point and wrong ones lose one, the total is
  not clamped from above; whether the exam is open is a refusal at any time. Publishing results and drawing
  the paper are left out, and `AttemptStatus.EXPIRED`, which no code assigns. Marks of two markers of one attempt are
  serialised only because every answer row is saved in the paper's order; opposite orders
  of two requests deadlock in PostgreSQL, which rolls one back (`RollBack`).
* Risk and automation: the verdict on a version of the figures is a constant; `previous_level`, the rollover of the day, the
  events about attendance, notifications, other triggers and other actions are left out. `computed_at` is a clock of few seconds, enough
  for two occurrences to share a key. A failure of `cache` or of `apply_async` is left out: the key would stand for its
  120 seconds (`KeyLapses` alone).
* Every other component of section 1: `PROJECT.json` lists each with the reason.

## 7. Plan

1. **Versioned cache** (`common/caching.py`): `remember` racing `forget`, the version key
   that is missing or has expired, and callers that forget inside their transaction
   (`branding/services.py:41`, `configuration/services.py:46`) against those that also forget
   on commit (`communication/services.py:82-98`). Abstract spec: a register whose reads are no older than the last forget.
2. **Exports** (`reporting/tasks.py`): a lost worker leaves PROCESSING behind. **Work engine**: transitions
   against the sweep, client keys. **Accounts**: the last administrator, one-time codes, sessions
   revoked during a login. **Timetable**: two assignments of one trainer. **Assignments**: attempt numbers.
   **Enquiries and integrations**: two leads with one phone number.
3. Liveness of the risk verdict and of automation runs, under the fairness that the workers give.
4. Proofs: `LedgerStatusFollows` under a hypothesis narrower than one request in flight: requests that write no status (a next payment set by
   hand, a schedule replaced that leaves the student as it was) could be let in.
