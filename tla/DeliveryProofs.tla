--------------------------- MODULE DeliveryProofs ---------------------------
(***************************************************************************)
(* Proofs about Outbox and about Delivery, which sends through it, for any *)
(* number of workers, messages, attempts and faults, and of deliveries,    *)
(* requests, provider ids and retries.                                     *)
(***************************************************************************)
EXTENDS Delivery, Sums

-----------------------------------------------------------------------------
(***************************************************************************)
(* The outbox, on its own: its steps are also a part of Delivery's.        *)
(***************************************************************************)

\* A message still to be tried has attempts left, and an answer a worker has
\* yet to record is of a message the mail server took.
AttemptsLeft == \A m \in Messages : Deliverable(message[m]) => message[m].attempts < MaxAttempts

AnswersAreTrue ==
  \A w \in Workers : work[w].at # Nothing /\ work[w].taken => copies[work[w].at] > 0

OInv == OutboxTypeOK /\ AttemptsLeft /\ AnswersAreTrue /\ SentWasTaken

\* An empty outbox and resting workers satisfy the invariant.
LEMMA OutboxInitInv == OutboxInit => OInv
  BY OutboxAssumption
  DEF OutboxInit, OInv, OutboxTypeOK, AttemptsLeft, AnswersAreTrue, SentWasTaken, Deliverable,
      Unwritten, Resting, Jobs

\* The task a worker takes knows the attempts of the rows it read.
LEMMA HoldingType ==
  ASSUME OInv, NEW task \in {"send", "sweep", "inline"}, NEW S \in SUBSET Messages,
         \A m \in S : Deliverable(message[m])
  PROVE Holding(task, S) \in Jobs
<1>1. \A m \in Messages : (IF m \in S THEN message[m].attempts ELSE 0) \in 0 .. MaxAttempts - 1
  BY OutboxAssumption DEF OInv, OutboxTypeOK, AttemptsLeft
<1> QED BY <1>1 DEF Holding, Jobs

\* A worker that is through with a message keeps a well-formed job.
LEMMA DroppedType ==
  ASSUME OutboxTypeOK, NEW w \in Workers, NEW m \in Messages
  PROVE /\ Dropped(work[w], m) \in Jobs
        /\ Dropped(work[w], m).at = Nothing
        /\ Dropped(work[w], m).todo \subseteq work[w].todo
<1> USE OutboxAssumption
<1>1. CASE work[w].todo = {m}
  BY <1>1 DEF Dropped, Resting, Jobs
<1>2. CASE work[w].todo # {m}
  <2>1. work[w] \in Jobs
    BY DEF OutboxTypeOK
  <2>2. [work[w].copy EXCEPT ![m] = 0] \in [Messages -> 0 .. MaxAttempts - 1]
    BY <2>1 DEF Jobs
  <2> QED BY <1>2, <2>1, <2>2 DEF Dropped, Jobs
<1> QED BY <1>1, <1>2

\* No step breaks the invariant, whatever the interleaving and the faults.
LEMMA OutboxStepInv == OInv /\ [OutboxNext]_outbox => OInv'
<1> SUFFICES ASSUME OInv, [OutboxNext]_outbox
    PROVE OInv'
  OBVIOUS
<1> USE OutboxAssumption
<1>1. ASSUME NEW m \in Messages, Queue(m)
      PROVE OInv'
  BY <1>1 DEF Queue, OInv, OutboxTypeOK, AttemptsLeft, AnswersAreTrue, SentWasTaken, Deliverable,
       Unwritten, Written
<1>2. ASSUME NEW m \in Messages, Elapse(m)
      PROVE OInv'
  BY <1>2 DEF Elapse, OInv, OutboxTypeOK, AttemptsLeft, AnswersAreTrue, SentWasTaken, Deliverable
<1>3. ASSUME NEW w \in Workers, NEW m \in Messages, TakeTask(w, m)
      PROVE OInv'
  <2>1. CASE Deliverable(message[m])
    <3>1. Holding("send", {m}) \in Jobs
      BY <2>1, HoldingType
    <3>2. Holding("send", {m}).at = Nothing /\ Holding("send", {m}).todo = {m}
      BY DEF Holding
    <3> QED BY <1>3, <2>1, <3>1, <3>2
            DEF TakeTask, OInv, OutboxTypeOK, AttemptsLeft, AnswersAreTrue, SentWasTaken, Deliverable
  <2>2. CASE ~Deliverable(message[m])
    BY <1>3, <2>2 DEF TakeTask, OInv, OutboxTypeOK, AttemptsLeft, AnswersAreTrue, SentWasTaken
  <2> QED BY <2>1, <2>2
<1>4. ASSUME NEW w \in Workers, TakeSweep(w)
      PROVE OInv'
  <2>1. Due \subseteq Messages /\ \A m \in Due : Deliverable(message[m])
    BY DEF Due
  <2>2. Holding("sweep", Due) \in Jobs
    BY <2>1, HoldingType
  <2>3. Holding("sweep", Due).at = Nothing /\ Holding("sweep", Due).todo = Due
    BY DEF Holding
  <2> QED BY <1>4, <2>1, <2>2, <2>3
          DEF TakeSweep, OInv, OutboxTypeOK, AttemptsLeft, AnswersAreTrue, SentWasTaken, Deliverable
<1>5. ASSUME NEW w \in Workers, NEW m \in Messages, TakeInline(w, m)
      PROVE OInv'
  <2>1. /\ Holding("inline", {m}) \in Jobs
        /\ Holding("inline", {m}).at = Nothing /\ Holding("inline", {m}).todo = {m}
    BY <1>5 DEF TakeInline, Holding, Jobs, Unwritten
  <2>2. /\ message' = [message EXCEPT ![m] = Written]
        /\ work' = [work EXCEPT ![w] = Holding("inline", {m})]
        /\ UNCHANGED <<queued, copies, faults>>
    BY <1>5 DEF TakeInline
  <2>3. /\ Written.status = "pending" /\ Written.attempts = 0
        /\ Written \in [status : {"none", "pending", "sent", "failed", "abandoned"},
                        attempts : 0 .. MaxAttempts, due : BOOLEAN]
    BY DEF Written
  <2>4. OutboxTypeOK'
    BY <2>1, <2>2, <2>3 DEF OInv, OutboxTypeOK
  <2>5. AttemptsLeft' /\ SentWasTaken'
    BY <2>2, <2>3 DEF OInv, OutboxTypeOK, AttemptsLeft, SentWasTaken, Deliverable
  <2>6. AnswersAreTrue'
    BY <2>1, <2>2 DEF OInv, OutboxTypeOK, AnswersAreTrue
  <2> QED BY <2>4, <2>5, <2>6 DEF OInv
<1>6. ASSUME NEW w \in Workers, NEW m \in Messages, Suppress(w, m)
      PROVE OInv'
  BY <1>6, DroppedType, SMTT(30) DEF Suppress, OInv, OutboxTypeOK, AttemptsLeft, AnswersAreTrue, SentWasTaken,
       Deliverable
<1>7. ASSUME NEW w \in Workers, NEW m \in Messages, NEW taken \in BOOLEAN, NEW told \in BOOLEAN,
             Converse(w, m, taken, told)
      PROVE OInv'
  <2>1. OutboxTypeOK'
    <3>1. faults' \in 0 .. MaxFaults /\ copies' \in [Messages -> Nat]
      BY <1>7 DEF Converse, OInv, OutboxTypeOK
    <3>2. /\ work' \in [Workers -> Jobs]
          /\ \A v \in Workers : work'[v].todo = work[v].todo
      <4>1. [work[w] EXCEPT !.at = m, !.taken = told] \in Jobs
        BY ZenonT(40) DEF OInv, OutboxTypeOK, Jobs
      <4> QED BY <1>7, <4>1 DEF Converse, OInv, OutboxTypeOK
    <3> QED BY <1>7, <3>1, <3>2 DEF Converse, OInv, OutboxTypeOK
  <2>2. AnswersAreTrue'
    <3>1. copies'[m] >= copies[m] /\ (taken => copies'[m] > 0)
            /\ \A n \in Messages \ {m} : copies'[n] = copies[n]
      BY <1>7 DEF Converse, OInv, OutboxTypeOK
    <3>2. /\ work'[w].at = m /\ work'[w].taken = told
          /\ \A v \in Workers \ {w} : work'[v] = work[v]
      BY <1>7 DEF Converse, OInv, OutboxTypeOK
    <3> QED BY <1>7, <3>1, <3>2 DEF Converse, OInv, OutboxTypeOK, AnswersAreTrue
  <2>3. AttemptsLeft' /\ SentWasTaken'
    BY <1>7 DEF Converse, OInv, OutboxTypeOK, AttemptsLeft, SentWasTaken, Deliverable
  <2> QED BY <2>1, <2>2, <2>3 DEF OInv
<1>8. ASSUME NEW w \in Workers, Save(w)
      PROVE OInv'
  <2>1. PICK m \in Messages : m = work[w].at
    BY <1>8 DEF Save, OInv, OutboxTypeOK, Jobs
  <2>2. PICK n \in 1 .. MaxAttempts : n = work[w].copy[m] + 1
    BY <2>1 DEF OInv, OutboxTypeOK, Jobs
  <2>3. PICK taken \in BOOLEAN : taken = work[w].taken
    BY DEF OInv, OutboxTypeOK, Jobs
  <2>4. PICK out : out = Outcome(message[m], n, taken)
    OBVIOUS
  <2>5. /\ message' = [message EXCEPT ![m] = out]
        /\ work' = [work EXCEPT ![w] = Dropped(work[w], m)]
        /\ UNCHANGED <<queued, copies, faults>>
    BY <1>8, <2>1, <2>2, <2>3, <2>4 DEF Save, OInv, OutboxTypeOK
  <2>6. /\ out \in [status : {"none", "pending", "sent", "failed", "abandoned"},
                    attempts : 0 .. MaxAttempts, due : BOOLEAN]
        /\ out.status # "none"
        /\ out.attempts = n
        /\ Deliverable(out) => n < MaxAttempts
        /\ out.status = "sent" => taken
    BY <2>2, <2>3, <2>4 DEF Outcome, FailedAfter, Deliverable, OInv, OutboxTypeOK
  <2>7. taken => copies[m] > 0
    BY <1>8, <2>1, <2>3 DEF OInv, AnswersAreTrue, Save
  <2> QED BY <2>5, <2>6, <2>7, DroppedType
          DEF OInv, OutboxTypeOK, AttemptsLeft, AnswersAreTrue, SentWasTaken, Deliverable
<1>9. ASSUME NEW w \in Workers, Lose(w)
      PROVE OInv'
  <2>1. queued' \subseteq Messages
    BY <1>9 DEF Lose, OInv, OutboxTypeOK, Jobs
  <2>2. Resting \in Jobs
    BY DEF Resting, Jobs
  <2>3. Resting.todo = {} /\ Resting.at = Nothing
    BY DEF Resting
  <2> QED BY <1>9, <2>1, <2>2, <2>3
          DEF Lose, OInv, OutboxTypeOK, AttemptsLeft, AnswersAreTrue, SentWasTaken, Deliverable
<1>10. CASE UNCHANGED outbox
  BY <1>10 DEF outbox, OInv, OutboxTypeOK, AttemptsLeft, AnswersAreTrue, SentWasTaken, Deliverable
<1> QED BY <1>1, <1>2, <1>3, <1>4, <1>5, <1>6, <1>7, <1>8, <1>9, <1>10
        DEF OutboxNext, Take, Progress

\* The outbox is well-typed: no attempt is counted beyond MAX_ATTEMPTS.
THEOREM OutboxTyped == OutboxSpec => []OutboxTypeOK
<1>1. OInv => OutboxTypeOK
  BY DEF OInv
<1> QED BY <1>1, OutboxInitInv, OutboxStepInv, PTL DEF OutboxSpec

\* No row says "sent" of a message the mail server never took.
THEOREM SentIsTrue == OutboxSpec => []SentWasTaken
<1>1. OInv => SentWasTaken
  BY DEF OInv
<1> QED BY <1>1, OutboxInitInv, OutboxStepInv, PTL DEF OutboxSpec

\* With one worker, what it still has to send is still to be sent.
TodoIsFresh ==
  \A w \in Workers :
    /\ \A m \in work[w].todo : Deliverable(message[m])
    /\ work[w].at # Nothing => work[w].at \in work[w].todo

\* A single worker keeps its list fresh: nobody else changes what it has to send.
LEMMA OneWorkerStep ==
  ASSUME NEW v, Workers = {v}, OInv, TodoIsFresh, [OutboxNext]_outbox
  PROVE TodoIsFresh'
<1> USE OutboxAssumption DEF Deliverable
<1>0. work[v] \in Jobs /\ work \in [Workers -> Jobs]
  BY DEF OInv, OutboxTypeOK
<1>1. ASSUME NEW m \in Messages, Queue(m) \/ Elapse(m)
      PROVE TodoIsFresh'
  <2>1. work' = work /\ \A k \in Messages \ {m} : message'[k] = message[k]
    BY <1>1 DEF Queue, Elapse, OInv, OutboxTypeOK
  <2>2. Deliverable(message'[m])
    BY <1>1 DEF Queue, Elapse, Written, OInv, OutboxTypeOK
  <2>3. work[v].todo \subseteq Messages
    BY <1>0 DEF Jobs
  <2> QED BY <2>1, <2>2, <2>3 DEF TodoIsFresh
<1>2. ASSUME NEW m \in Messages, TakeTask(v, m)
      PROVE TodoIsFresh'
  <2>1. Holding("send", {m}).at = Nothing /\ Holding("send", {m}).todo = {m}
    BY DEF Holding
  <2> QED BY <1>0, <1>2, <2>1 DEF TakeTask, TodoIsFresh
<1>3. ASSUME TakeSweep(v)
      PROVE TodoIsFresh'
  <2>1. Holding("sweep", Due).at = Nothing /\ Holding("sweep", Due).todo = Due
    BY DEF Holding
  <2> QED BY <1>0, <1>3, <2>1 DEF TakeSweep, Due, TodoIsFresh
<1>4. ASSUME NEW m \in Messages, TakeInline(v, m)
      PROVE TodoIsFresh'
  <2>1. Holding("inline", {m}).at = Nothing /\ Holding("inline", {m}).todo = {m}
    BY DEF Holding
  <2>2. message'[m].status = "pending"
    BY <1>4 DEF TakeInline, Written, OInv, OutboxTypeOK
  <2>3. work'[v] = Holding("inline", {m})
    BY <1>0, <1>4 DEF TakeInline
  <2> QED BY <2>1, <2>2, <2>3 DEF TodoIsFresh
<1>5. ASSUME NEW m \in Messages, NEW row,
             message' = [message EXCEPT ![m] = row], work' = [work EXCEPT ![v] = Dropped(work[v], m)]
      PROVE TodoIsFresh'
  <2>1. /\ Dropped(work[v], m).at = Nothing
        /\ Dropped(work[v], m).todo \subseteq work[v].todo \ {m}
    BY <1>0 DEF Dropped, Resting, Jobs
  <2>2. work'[v] = Dropped(work[v], m)
    BY <1>0, <1>5
  <2>3. \A n \in Messages \ {m} : message'[n] = message[n]
    BY <1>5 DEF OInv, OutboxTypeOK
  <2>4. work[v].todo \subseteq Messages
    BY <1>0 DEF Jobs
  <2> QED BY <2>1, <2>2, <2>3, <2>4 DEF TodoIsFresh
<1>6. ASSUME NEW m \in Messages, Suppress(v, m)
      PROVE TodoIsFresh'
  <2>1. PICK row : row = [message[m] EXCEPT !.status = "abandoned"]
    OBVIOUS
  <2>2. message' = [message EXCEPT ![m] = row]
    BY <1>6, <2>1 DEF Suppress, OInv, OutboxTypeOK
  <2> QED BY <1>5, <1>6, <2>2 DEF Suppress
<1>7. ASSUME NEW m \in Messages, NEW taken \in BOOLEAN, NEW told \in BOOLEAN,
             Converse(v, m, taken, told)
      PROVE TodoIsFresh'
  <2>1. /\ work'[v].at = m /\ work'[v].todo = work[v].todo
        /\ m \in work[v].todo
    BY <1>0, <1>7 DEF Converse, Jobs
  <2> QED BY <1>7, <2>1 DEF Converse, TodoIsFresh
<1>8. ASSUME Save(v)
      PROVE TodoIsFresh'
  <2>1. PICK m \in Messages : m = work[v].at
    BY <1>0, <1>8 DEF Save, Jobs
  <2>2. PICK row : row = Outcome(message[m], work[v].copy[m] + 1, work[v].taken)
    OBVIOUS
  <2>3. message' = [message EXCEPT ![m] = row]
    BY <1>8, <2>1, <2>2 DEF Save, OInv, OutboxTypeOK
  <2> QED BY <1>5, <1>8, <2>1, <2>3 DEF Save
<1>9. ASSUME Lose(v)
      PROVE TodoIsFresh'
  BY <1>0, <1>9 DEF Lose, Resting, TodoIsFresh
<1>10. CASE UNCHANGED outbox
  BY <1>10 DEF outbox, TodoIsFresh
<1> QED BY <1>1, <1>2, <1>3, <1>4, <1>6, <1>7, <1>8, <1>9, <1>10
        DEF OutboxNext, Take, Progress

\* With one worker, however often it is lost and its tasks are delivered again,
\* no step touches a message that was sent or given up.
THEOREM OneWorkerSettles ==
  ASSUME NEW v, Workers = {v}
  PROVE OutboxSpec => SettledStays
<1>1. OutboxInit => TodoIsFresh
  BY DEF OutboxInit, TodoIsFresh, Resting
<1>2. ASSUME OInv, TodoIsFresh, [OutboxNext]_outbox
      PROVE [\A m \in Messages :
               message[m].status \in {"sent", "abandoned"} => message'[m] = message[m]]_outbox
  <2> SUFFICES ASSUME NEW m \in Messages, message[m].status \in {"sent", "abandoned"},
                      ~UNCHANGED outbox
      PROVE message'[m] = message[m]
    OBVIOUS
  <2> USE <1>2 DEF OInv, OutboxTypeOK
  <2>1. ASSUME NEW n \in Messages, Queue(n) \/ Elapse(n)
        PROVE message'[m] = message[m]
    <3>1. message[n].status # message[m].status
      BY <2>1 DEF Queue, Elapse, Unwritten
    <3>2. \A k \in Messages \ {n} : message'[k] = message[k]
      BY <2>1 DEF Queue, Elapse
    <3> QED BY <3>1, <3>2
  <2>2. ASSUME NEW w \in Workers, Take(w) \/ Lose(w) \/ \E n \in Messages : TakeInline(w, n)
        PROVE message'[m] = message[m]
    <3>1. CASE Take(w) \/ Lose(w)
      BY <3>1 DEF Take, TakeTask, TakeSweep, Lose
    <3>2. ASSUME NEW n \in Messages, TakeInline(w, n)
          PROVE message'[m] = message[m]
      <4>1. message[n].status # message[m].status
        BY <3>2 DEF TakeInline, Unwritten
      <4> QED BY <3>2, <4>1 DEF TakeInline
    <3> QED BY <2>2, <3>1, <3>2
  <2>3. ASSUME NEW w \in Workers, Progress(w)
        PROVE message'[m] = message[m]
    <3>1. ASSUME NEW n \in Messages, Suppress(w, n)
          PROVE message'[m] = message[m]
      BY <3>1 DEF Suppress, TodoIsFresh, Deliverable
    <3>2. CASE \E n \in Messages, taken, told \in BOOLEAN : Converse(w, n, taken, told)
      BY <3>2 DEF Converse
    <3>3. CASE Save(w)
      BY <3>3 DEF Save, TodoIsFresh, Deliverable
    <3> QED BY <2>3, <3>1, <3>2, <3>3 DEF Progress
  <2> QED BY <2>1, <2>2, <2>3 DEF OutboxNext
<1> QED BY <1>1, <1>2, OutboxInitInv, OutboxStepInv, OneWorkerStep, PTL DEF OutboxSpec, SettledStays

-----------------------------------------------------------------------------
(***************************************************************************)
(* How many copies the mail server takes of what one worker sends.         *)
(***************************************************************************)

Recorded == {m \in Messages : message[m].status = "sent"}
Taking == {m \in Messages : \E w \in Workers : work[w].at = m /\ work[w].taken}

\* The copies taken are the lost, and one of each message recorded or in hand.
Accounted == SumFunctionOnSet(copies, Messages) <= faults + Cardinality(Recorded \cup Taking)

\* A worker without a task has nothing in hand.
FreeRests == \A w \in Workers : Free(w) => work[w].todo = {} /\ work[w].at = Nothing

(* CopiesAccounted, with its sum as a function sum. *)
LEMMA CopiesAreSummed == CopiesAccounted <=> Accounted
<1>1. MapThenSumSet(LAMBDA m : copies[m], Messages) = SumFunctionOnSet(copies, Messages)
  BY MapSum
<1> QED BY <1>1 DEF CopiesAccounted, Accounted, Recorded, Taking

(* Every step leaves a free worker at rest. *)
LEMMA FreeRestsStep ==
  ASSUME OInv, FreeRests, [OutboxNext]_outbox
  PROVE FreeRests'
<1> USE OutboxAssumption
<1>0. work \in [Workers -> Jobs]
  BY DEF OInv, OutboxTypeOK
<1>1. ASSUME NEW w \in Workers, NEW held, work' = [work EXCEPT ![w] = held],
             held.task = "none" => held.todo = {} /\ held.at = Nothing
      PROVE FreeRests'
  BY <1>0, <1>1 DEF FreeRests, Free
<1>2. ASSUME work' = work PROVE FreeRests'
  BY <1>2 DEF FreeRests, Free
<1>3. \A task, S : Holding(task, S).task = task
  BY DEF Holding
<1>4. Resting.task = "none" /\ Resting.todo = {} /\ Resting.at = Nothing
  BY DEF Resting
<1>5. ASSUME NEW w \in Workers, NEW m \in Messages, Dropped(work[w], m).task = "none"
      PROVE Dropped(work[w], m).todo = {} /\ Dropped(work[w], m).at = Nothing
  <2>1. CASE work[w].todo = {m}
    BY <1>4, <2>1 DEF Dropped
  <2>2. CASE work[w].todo # {m}
    <3>1. Dropped(work[w], m) = [task |-> work[w].task, todo |-> work[w].todo \ {m}, at |-> Nothing,
                                 taken |-> FALSE, copy |-> [work[w].copy EXCEPT ![m] = 0]]
      BY <2>2 DEF Dropped
    <3> QED BY <1>5, <3>1 DEF FreeRests, Free
  <2> QED BY <2>1, <2>2
<1>6. ASSUME NEW w \in Workers, NEW m \in Messages, NEW told, m \in work[w].todo,
             work' = [work EXCEPT ![w] = [@ EXCEPT !.at = m, !.taken = told]]
      PROVE FreeRests'
  <2> DEFINE held == [work[w] EXCEPT !.at = m, !.taken = told]
  <2>1. held.task = work[w].task /\ work[w].task # "none" /\ work' = [work EXCEPT ![w] = held]
    BY <1>0, <1>6 DEF FreeRests, Free, Jobs
  <2> HIDE DEF held
  <2> QED BY <1>1, <2>1
<1>7. ASSUME NEW w \in Workers, Save(w) PROVE FreeRests'
  <2>1. work[w].at \in Messages /\ work' = [work EXCEPT ![w] = Dropped(work[w], work[w].at)]
    BY <1>0, <1>7 DEF Save, Jobs
  <2> QED BY <1>1, <1>5, <2>1
<1>8. ASSUME NEW w \in Workers, Take(w) \/ Lose(w) \/ \E m \in Messages : TakeInline(w, m)
      PROVE FreeRests'
  <2>1. "send" # "none" /\ "sweep" # "none" /\ "inline" # "none"
    OBVIOUS
  <2>2. CASE Lose(w)
    BY <1>1, <1>4, <2>2 DEF Lose
  <2>3. CASE TakeSweep(w)
    BY <1>1, <1>3, <2>1, <2>3 DEF TakeSweep
  <2>4. ASSUME NEW m \in Messages, TakeTask(w, m) PROVE FreeRests'
    BY <1>1, <1>2, <1>3, <2>1, <2>4 DEF TakeTask
  <2>5. ASSUME NEW m \in Messages, TakeInline(w, m) PROVE FreeRests'
    BY <1>1, <1>3, <2>1, <2>5 DEF TakeInline
  <2> QED BY <1>8, <2>2, <2>3, <2>4, <2>5 DEF Take
<1>9. ASSUME NEW w \in Workers, NEW m \in Messages, Suppress(w, m) PROVE FreeRests'
  BY <1>1, <1>5, <1>9 DEF Suppress
<1>10. ASSUME NEW w \in Workers, NEW m \in Messages, NEW taken, NEW told, Converse(w, m, taken, told)
       PROVE FreeRests'
  BY <1>6, <1>10 DEF Converse
<1>11. CASE (\E m \in Messages : Queue(m) \/ Elapse(m)) \/ UNCHANGED outbox
  BY <1>2, <1>11 DEF Queue, Elapse, outbox
<1> QED BY <1>7, <1>8, <1>9, <1>10, <1>11 DEF OutboxNext, Progress

\* The mail server takes one more copy than the outbox will say only where a
\* worker or an answer is lost.
LEMMA AccountedStep ==
  ASSUME NEW v, Workers = {v}, IsFiniteSet(Messages),
         OInv, TodoIsFresh, FreeRests, Accounted, [OutboxNext]_outbox
  PROVE Accounted'
<1> USE OutboxAssumption
<1>0. /\ work[v] \in Jobs /\ work \in [Workers -> Jobs] /\ copies \in [Messages -> Nat] /\ faults \in Nat
      /\ message = [m \in Messages |-> message[m]]
  BY DEF OInv, OutboxTypeOK
<1>1. /\ Taking = IF work[v].at # Nothing /\ work[v].taken THEN {work[v].at} ELSE {}
      /\ Taking' = IF work'[v].at # Nothing /\ work'[v].taken THEN {work'[v].at} \cap Messages ELSE {}
  <2>1. work[v].at \in Messages \cup {Nothing} /\ work[v].taken \in BOOLEAN
    BY <1>0 DEF Jobs
  <2> QED BY <2>1 DEF Taking
<1>2. /\ Recorded \subseteq Messages /\ Taking \subseteq Messages
      /\ \A S \in SUBSET Messages : IsFiniteSet(S) /\ Cardinality(S) \in Nat
  BY FS_Subset, FS_CardinalityType DEF Recorded, Taking
<1>3. Summable(copies, Messages) /\ SumFunctionOnSet(copies, Messages) \in Nat
  BY <1>0, SumNat DEF Summable
\* Nothing taken, nothing recorded anew.
<1>4. ASSUME UNCHANGED <<copies, faults>>, Recorded' \cup Taking' = Recorded \cup Taking
      PROVE Accounted'
  BY <1>4 DEF Accounted
<1>5. ASSUME NEW m \in Messages, Queue(m) \/ Elapse(m)
      PROVE Accounted'
  <2>1. UNCHANGED <<copies, faults, work>> /\ message'[m].status # "sent" /\ message[m].status # "sent"
        /\ \A k \in Messages \ {m} : message'[k] = message[k]
    BY <1>0, <1>5 DEF Queue, Elapse, Written, Unwritten, OInv, OutboxTypeOK
  <2>2. Recorded' = Recorded /\ Taking' = Taking
    BY <2>1 DEF Recorded, Taking
  <2> QED BY <1>4, <2>1, <2>2
<1>6. ASSUME Take(v) \/ \E m \in Messages : TakeInline(v, m)
      PROVE Accounted'
  <2>1. Taking = {}
    BY <1>1, <1>6 DEF Take, TakeTask, TakeSweep, TakeInline, FreeRests
  <2>2. UNCHANGED <<copies, faults>>
    BY <1>6 DEF Take, TakeTask, TakeSweep, TakeInline
  <2>3. work'[v] = work[v] \/ work'[v].at = Nothing
    BY <1>0, <1>6 DEF Take, TakeTask, TakeSweep, TakeInline, Holding
  <2>4. Taking' = {}
    BY <1>1, <2>1, <2>3
  <2>5. Recorded' = Recorded
    <3>1. CASE Take(v)
      BY <3>1 DEF Take, TakeTask, TakeSweep, Recorded
    <3>2. ASSUME NEW m \in Messages, TakeInline(v, m) PROVE Recorded' = Recorded
      <4>1. message'[m].status # "sent" /\ message[m].status # "sent"
            /\ \A k \in Messages \ {m} : message'[k] = message[k]
        BY <1>0, <3>2 DEF TakeInline, Written, Unwritten
      <4> QED BY <4>1 DEF Recorded
    <3> QED BY <1>6, <3>1, <3>2
  <2> QED BY <1>4, <2>1, <2>2, <2>4, <2>5
<1>7. ASSUME NEW m \in Messages, Suppress(v, m)
      PROVE Accounted'
  <2>1. Taking = {} /\ UNCHANGED <<copies, faults>>
    BY <1>1, <1>7 DEF Suppress
  <2>2. Taking' = {}
    <3>1. work'[v] = Dropped(work[v], m)
      BY <1>0, <1>7 DEF Suppress
    <3> QED BY <1>1, <3>1, DroppedType DEF OInv
  <2>3. message[m].status # "sent"
    BY <1>7 DEF Suppress, TodoIsFresh, Deliverable
  <2>4. message'[m].status # "sent" /\ \A k \in Messages \ {m} : message'[k] = message[k]
    BY <1>0, <1>7 DEF Suppress, OInv, OutboxTypeOK
  <2>5. Recorded' = Recorded
    BY <2>3, <2>4 DEF Recorded
  <2> QED BY <1>4, <2>1, <2>2, <2>5
<1>8. ASSUME NEW m \in Messages, NEW taken \in BOOLEAN, NEW told \in BOOLEAN, Converse(v, m, taken, told)
      PROVE Accounted'
  <2>1. Taking = {} /\ Recorded' = Recorded /\ m \notin Recorded
    BY <1>1, <1>8 DEF Converse, Recorded, TodoIsFresh, Deliverable
  <2>2. Taking' = IF told THEN {m} ELSE {}
    <3>1. work'[v].at = m /\ work'[v].taken = told
      BY <1>0, <1>8 DEF Converse, Jobs
    <3> QED BY <1>1, <3>1
  <2>3. CASE ~ taken
    <3>1. ~ told /\ UNCHANGED <<copies, faults>>
      BY <1>8, <2>3 DEF Converse
    <3> QED BY <1>4, <2>1, <2>2, <3>1
  <2>4. CASE taken
    <3>1. SumFunctionOnSet(copies', Messages) = SumFunctionOnSet(copies, Messages) + 1
      <4>1. copies' \in [Messages -> Nat] /\ copies'[m] = copies[m] + 1
            /\ \A k \in Messages : k # m => copies'[k] = copies[k]
        BY <1>0, <1>8, <2>4 DEF Converse
      <4>2. Summable(copies', Messages)
        BY <4>1 DEF Summable
      <4>3. SumFunctionOnSet(copies', Messages) = SumFunctionOnSet(copies, Messages) + copies'[m] - copies[m]
        BY <1>3, <4>1, <4>2, SumUpdate
      <4> QED BY <1>0, <1>3, <4>1, <4>3
    <3>2. CASE told
      <4>1. faults' = faults
        BY <1>8, <2>4, <3>2 DEF Converse
      <4>2. Cardinality(Recorded \cup {m}) = Cardinality(Recorded) + 1
        BY <1>2, <2>1, FS_AddElement
      <4>3. Recorded' \cup Taking' = Recorded \cup {m} /\ Recorded \cup Taking = Recorded
        BY <2>1, <2>2, <3>2
      <4>4. Cardinality(Recorded) \in Nat
        BY <1>2
      <4>5. /\ SumFunctionOnSet(copies, Messages) <= faults + Cardinality(Recorded)
            /\ Cardinality(Recorded' \cup Taking') = Cardinality(Recorded) + 1
        BY <4>2, <4>3 DEF Accounted
      <4>6. SumFunctionOnSet(copies', Messages) <= faults' + Cardinality(Recorded' \cup Taking')
        BY <1>0, <1>3, <3>1, <4>1, <4>4, <4>5
      <4> QED BY <4>6 DEF Accounted
    <3>3. CASE ~ told
      <4>1. faults' = faults + 1
        BY <1>8, <2>4, <3>3 DEF Converse
      <4>2. Recorded' \cup Taking' = Recorded /\ Recorded \cup Taking = Recorded
        BY <2>1, <2>2, <3>3
      <4> QED BY <1>0, <1>2, <1>3, <3>1, <4>1, <4>2 DEF Accounted
    <3> QED BY <3>2, <3>3
  <2> QED BY <2>3, <2>4
<1>9. ASSUME Save(v)
      PROVE Accounted'
  <2>1. PICK m \in Messages : m = work[v].at
    BY <1>0, <1>9 DEF Save, Jobs
  <2>2. m \notin Recorded /\ Taking = IF work[v].taken THEN {m} ELSE {}
    BY <1>1, <1>9, <2>1 DEF Save, Recorded, TodoIsFresh, Deliverable
  <2>3. UNCHANGED <<copies, faults>> /\ Taking' = {}
    <3>1. work'[v] = Dropped(work[v], m)
      BY <1>0, <1>9, <2>1 DEF Save
    <3> QED BY <1>1, <1>9, <3>1, DroppedType DEF OInv, Save
  <2>4. /\ message'[m] = Outcome(message[m], work[v].copy[m] + 1, work[v].taken)
        /\ \A k \in Messages \ {m} : message'[k] = message[k]
    BY <1>0, <1>9, <2>1 DEF Save
  <2>5. message'[m].status = "sent" <=> work[v].taken
    BY <1>0, <2>4 DEF Outcome, FailedAfter, Jobs
  <2>6. Recorded' = Recorded \cup (IF work[v].taken THEN {m} ELSE {})
    BY <2>2, <2>4, <2>5 DEF Recorded
  <2> QED BY <1>4, <2>2, <2>3, <2>6
<1>10. ASSUME Lose(v)
       PROVE Accounted'
  <2>1. copies' = copies /\ faults' = faults + 1 /\ Recorded' = Recorded
    BY <1>10 DEF Lose, Recorded
  <2>2. Taking' = {}
    BY <1>0, <1>1, <1>10 DEF Lose, Resting
  <2>3. Cardinality(Recorded \cup Taking) <= Cardinality(Recorded) + 1
    <3>1. IsFiniteSet(Recorded) /\ Cardinality(Recorded) \in Nat
      BY <1>2
    <3>2. ASSUME NEW m PROVE Cardinality(Recorded \cup {m}) <= Cardinality(Recorded) + 1
      <4>1. \/ Cardinality(Recorded \cup {m}) = Cardinality(Recorded)
            \/ Cardinality(Recorded \cup {m}) = Cardinality(Recorded) + 1
        BY <3>1, FS_AddElement
      <4> QED BY <3>1, <4>1
    <3>3. CASE Taking = {}
      <4>1. Recorded \cup Taking = Recorded
        BY <3>3
      <4>2. Cardinality(Recorded \cup Taking) = Cardinality(Recorded)
        BY <4>1, Zenon
      <4> QED BY <3>1, <4>2
    <3>4. CASE Taking # {}
      <4>1. Taking = {work[v].at}
        BY <1>1, <3>4
      <4> QED BY <3>2, <4>1
    <3> QED BY <3>3, <3>4
  <2> QED BY <1>0, <1>2, <1>3, <2>1, <2>2, <2>3 DEF Accounted
<1>11. CASE UNCHANGED outbox
  BY <1>4, <1>11 DEF outbox, Recorded, Taking
<1> QED BY <1>5, <1>6, <1>7, <1>8, <1>9, <1>10, <1>11 DEF OutboxNext, Progress

\* With one worker, however often it or an answer is lost, the mail server took
\* each message recorded as sent once, the one in hand once, and otherwise no
\* more copies than workers and answers were lost.
THEOREM OneWorkerAccounts ==
  ASSUME NEW v, Workers = {v}, IsFiniteSet(Messages)
  PROVE OutboxSpec => []CopiesAccounted
<1>1. OutboxInit => TodoIsFresh /\ FreeRests /\ Accounted
  <2> SUFFICES ASSUME OutboxInit PROVE TodoIsFresh /\ FreeRests /\ Accounted
    OBVIOUS
  <2>1. TodoIsFresh /\ FreeRests
    BY DEF OutboxInit, TodoIsFresh, Resting, FreeRests
  <2>2. SumFunctionOnSet(copies, Messages) = 0
    <3> DEFINE zero == [m \in Messages |-> 0]
    <3>1. copies = zero
      BY DEF OutboxInit
    <3> QED BY <3>1, SumZero
  <2>3. Cardinality(Recorded \cup Taking) \in Nat /\ faults = 0
    BY FS_Subset, FS_CardinalityType DEF OutboxInit, Recorded, Taking
  <2> QED BY <2>1, <2>2, <2>3 DEF Accounted
<1>2. OInv /\ TodoIsFresh /\ FreeRests /\ Accounted /\ [OutboxNext]_outbox
        => OInv' /\ TodoIsFresh' /\ FreeRests' /\ Accounted'
  BY OutboxStepInv, OneWorkerStep, FreeRestsStep, AccountedStep
<1>3. Accounted => CopiesAccounted
  BY CopiesAreSummed
<1> QED BY <1>1, <1>2, <1>3, OutboxInitInv, PTL DEF OutboxSpec

-----------------------------------------------------------------------------
(***************************************************************************)
(* The send log: the invariant.                                            *)
(***************************************************************************)

\* A worker dispatches a delivery there is, and an id it was given was issued
\* for that delivery.
JobsKnown ==
  \A w \in Workers :
    /\ job[w].step = "none" => job[w] = NoJob
    /\ job[w].step # "none" => job[w].of \in Deliveries
    /\ job[w].id # 0 => job[w].id <= Len(issued) /\ issued[job[w].id] = job[w].of

RequestsKnown ==
  \A r \in Requests :
    /\ req[r].op = "none" => req[r] = Idle
    /\ req[r].op # "none" => req[r].of \in Deliveries
    /\ req[r].op = "callback" => req[r].status \in Statuses

\* The outbox's side of a dispatch: it rests unless a message is being sent
\* inline, and then has only that message to send.
DispatcherRests ==
  \A w \in Workers :
    /\ Free(w) => work[w] = Resting
    /\ job[w].step \in {"begin", "send", "sent", "failed"} => work[w] = Resting
    /\ work[w].task = "inline" =>
         \E m \in Messages : work[w].todo = {m} /\ work[w].at \in {Nothing, m}

DInv == OInv /\ DeliveryTypeOK /\ JobsKnown /\ RequestsKnown /\ DispatcherRests

\* Nothing is there at the start, and nobody is at work.
LEMMA DeliveryInitInv == Init => DInv
<1>1. Init => OInv
  BY OutboxInitInv DEF Init
<1> QED BY <1>1, OutboxAssumption, DeliveryAssumption
        DEF Init, OutboxInit, DInv, DeliveryTypeOK, JobsKnown, RequestsKnown, DispatcherRests, Absent,
            NoJob, Idle, Resting, Free, Statuses

\* Every step is one of the outbox, or leaves the outbox alone: a dispatch
\* writes and sends its message as the outbox's inline callers do, and an
\* answer the provider's network loses is, to the outbox, a fault elsewhere.
LEMMA StepIsOutboxStep == DInv /\ [Next]_vars => [OutboxNext]_outbox
<1> SUFFICES ASSUME DInv, [Next]_vars
    PROVE [OutboxNext]_outbox
  OBVIOUS
<1> USE DEF outbox, OutboxNext
<1>1. ASSUME NEW d \in Deliveries, Create(d) \/ Leave(d)
      PROVE UNCHANGED outbox
  BY <1>1 DEF Create, Leave
<1>2. ASSUME NEW w \in Workers, OutboxTask(w)
      PROVE OutboxNext
  BY <1>2 DEF OutboxTask
<1>3. ASSUME NEW w \in Workers, NEW d \in Deliveries, TakeDispatch(w, d)
      PROVE UNCHANGED outbox
  BY <1>3 DEF TakeDispatch
<1>4. ASSUME NEW w \in Workers, Begin(w) \/ ShowInApp(w) \/ Conclude(w)
      PROVE UNCHANGED outbox
  BY <1>4 DEF Begin, ShowInApp, Conclude
<1>5. ASSUME NEW w \in Workers, NEW m \in Messages, WriteMail(w, m)
      PROVE OutboxNext
  BY <1>5 DEF WriteMail
<1>6. ASSUME NEW w \in Workers, MailProgress(w)
      PROVE OutboxNext
  BY <1>6 DEF MailProgress, Progress
<1>7. ASSUME NEW w \in Workers, SendWhatsApp(w)
      PROVE OutboxNext \/ UNCHANGED outbox
  <2>1. UNCHANGED <<message, queued, work, copies>>
    BY <1>7 DEF SendWhatsApp
  <2>2. CASE UNCHANGED faults
    BY <2>1, <2>2
  <2>3. CASE faults' = faults + 1 /\ faults < MaxFaults
    <3>1. work[w] = Resting /\ work \in [Workers -> Jobs]
      BY <1>7 DEF SendWhatsApp, DInv, DispatcherRests, OInv, OutboxTypeOK
    <3>2. work = [work EXCEPT ![w] = Resting]
      BY <3>1
    <3> QED BY <2>1, <2>3, <3>1, <3>2 DEF Lose, Resting
  <2> QED BY <1>7, <2>2, <2>3 DEF SendWhatsApp, Accept
<1>8. ASSUME NEW w \in Workers, LoseWorker(w)
      PROVE OutboxNext
  BY <1>8 DEF LoseWorker
<1>9. ASSUME NEW m \in Messages, BackOff(m) \/ OtherMail(m)
      PROVE OutboxNext
  BY <1>9 DEF BackOff, OtherMail, OutboxNext
<1>10. ASSUME NEW r \in Requests, NEW d \in Deliveries,
              \/ \E op \in Operations : Ask(r, d, op)
              \/ \E status \in Statuses : Call(r, d, status)
       PROVE UNCHANGED outbox
  BY <1>10 DEF Ask, Call
<1>11. ASSUME NEW r \in Requests, Ends(r)
       PROVE UNCHANGED outbox
  BY <1>11 DEF Ends, Retry, Cancel, Callback, Writes
<1>12. CASE UNCHANGED vars
  BY <1>12 DEF vars
<1> QED BY <1>1, <1>2, <1>3, <1>4, <1>5, <1>6, <1>7, <1>8, <1>9, <1>10, <1>11, <1>12
        DEF Next, WorkOn, Dispatch

\* What is left to show of the invariant once the outbox's part is kept.
DRest == DeliveryTypeOK /\ JobsKnown /\ RequestsKnown /\ DispatcherRests

Rows == [state : {"none", "queued", "processing", "sent", "delivered", "failed", "cancelled"},
         id : 0 .. MaxIds, mail : Messages \cup {Nothing}]

\* Handing a task to the broker, or failing to, keeps the counts of tasks.
LEMMA EnqueuedType ==
  ASSUME DeliveryTypeOK, NEW d \in Deliveries, NEW t \in Enqueued(d)
  PROVE t \in [Deliveries -> Nat] /\ \A e \in Deliveries : t[e] >= tasks[e]
<1>1. t = [tasks EXCEPT ![d] = @ + 1] \/ t = tasks
  BY DEF Enqueued
<1>2. tasks \in [Deliveries -> Nat]
  BY DEF DeliveryTypeOK
<1>3. CASE t = [tasks EXCEPT ![d] = @ + 1]
  <2>1. t[d] = tasks[d] + 1 /\ \A e \in Deliveries \ {d} : t[e] = tasks[e]
    BY <1>2, <1>3
  <2> QED BY <1>2, <1>3, <2>1
<1>4. CASE t = tasks
  BY <1>2, <1>4
<1> QED BY <1>1, <1>3, <1>4

\* Writing the state of a delivery changes nothing else of it, or of others.
LEMMA StateWritten ==
  ASSUME DeliveryTypeOK, NEW d \in Deliveries,
         NEW state \in {"queued", "processing", "sent", "delivered", "failed", "cancelled"},
         delivery' = [delivery EXCEPT ![d].state = state]
  PROVE /\ delivery' \in [Deliveries -> Rows]
        /\ delivery'[d].state = state
        /\ \A e \in Deliveries : delivery'[e].id = delivery[e].id
        /\ \A e \in Deliveries \ {d} : delivery'[e] = delivery[e]
<1>1. delivery \in [Deliveries -> Rows]
  BY DEF DeliveryTypeOK, Rows
<1>2. [delivery[d] EXCEPT !.state = state] \in Rows
  BY <1>1 DEF Rows
<1> QED BY <1>1, <1>2 DEF Rows

\* A step of requests or recipients, which leaves the workers alone.
LEMMA RequestsKeep ==
  ASSUME DInv,
         \/ \E d \in Deliveries : Create(d) \/ Leave(d)
         \/ \E r \in Requests, d \in Deliveries :
              \/ \E op \in Operations : Ask(r, d, op)
              \/ \E status \in Statuses : Call(r, d, status)
         \/ \E r \in Requests : Ends(r)
  PROVE DRest'
<1> USE OutboxAssumption, DeliveryAssumption
<1>0. UNCHANGED <<work, job, issued>> => (JobsKnown /\ DispatcherRests)'
  BY DEF DInv, JobsKnown, DispatcherRests, Free
<1>1. ASSUME NEW d \in Deliveries, Create(d)
      PROVE DRest'
  <2>1. DeliveryTypeOK'
    <3>1. tasks' \in [Deliveries -> Nat]
      BY <1>1, EnqueuedType DEF Create, DInv
    <3>2. UNCHANGED <<work, job, issued, reachable, shown, req, retried>>
      BY <1>1 DEF Create, outbox
    <3>3. Created \in Rows /\ Created.id = 0 /\ delivery \in [Deliveries -> Rows]
      BY DEF Created, Rows, DInv, DeliveryTypeOK
    <3>4. /\ delivery' \in [Deliveries -> Rows]
          /\ \A e \in Deliveries : delivery'[e].id = 0 \/ delivery'[e].id = delivery[e].id
      BY <1>1, <3>3 DEF Create
    <3> QED BY <3>1, <3>2, <3>4 DEF Rows, DInv, DeliveryTypeOK
  <2>2. RequestsKnown'
    BY <1>1 DEF Create, DInv, RequestsKnown
  <2> QED BY <1>0, <1>1, <2>1, <2>2 DEF Create, DRest, outbox
<1>2. ASSUME NEW d \in Deliveries, Leave(d)
      PROVE DRest'
  BY <1>0, <1>2 DEF Leave, DRest, DInv, DeliveryTypeOK, RequestsKnown, outbox
<1>3. ASSUME NEW r \in Requests, NEW d \in Deliveries, NEW status \in Statuses \cup {"none"},
             NEW op \in {"retry", "cancel", "callback"}, op = "callback" => status \in Statuses,
             req' = [req EXCEPT ![r] = [op |-> op, of |-> d, status |-> status]],
             UNCHANGED <<outbox, delivery, tasks, job, reachable, issued, shown, retried>>
      PROVE DRest'
  <2>1. DeliveryTypeOK'
    BY <1>3 DEF DInv, DeliveryTypeOK, outbox
  <2>2. RequestsKnown'
    BY <1>3 DEF DInv, RequestsKnown, DeliveryTypeOK
  <2> QED BY <1>0, <1>3, <2>1, <2>2 DEF DRest, outbox
<1>4. ASSUME NEW r \in Requests, NEW d \in Deliveries, NEW op \in Operations, Ask(r, d, op)
      PROVE DRest'
  BY <1>3, <1>4 DEF Ask
<1>5. ASSUME NEW r \in Requests, NEW d \in Deliveries, NEW status \in Statuses, Call(r, d, status)
      PROVE DRest'
  BY <1>3, <1>5 DEF Call
<1>6. ASSUME NEW r \in Requests, req[r].op # "none",
             NEW state \in {"queued", "sent", "delivered", "failed", "cancelled"}, Writes(r, state),
             tasks' \in [Deliveries -> Nat], retried' \in [Deliveries -> Nat]
      PROVE DRest'
  <2>1. PICK d \in Deliveries : d = req[r].of
    BY <1>6 DEF DInv, RequestsKnown
  <2>2. DeliveryTypeOK'
    <3>1. /\ delivery' \in [Deliveries -> Rows]
          /\ \A e \in Deliveries : delivery'[e].id = delivery[e].id
      BY <1>6, <2>1, StateWritten DEF Writes, DInv
    <3>2. req' \in [Requests -> [op : {"none", "retry", "cancel", "callback"},
                                 of : Deliveries \cup {Nothing}, status : Statuses \cup {"none"}]]
      BY <1>6 DEF Writes, Idle, DInv, DeliveryTypeOK
    <3> QED BY <1>6, <3>1, <3>2 DEF Writes, Rows, DInv, DeliveryTypeOK, outbox
  <2>3. RequestsKnown'
    BY <1>6 DEF Writes, Idle, DInv, RequestsKnown, DeliveryTypeOK
  <2> QED BY <1>0, <1>6, <2>2, <2>3 DEF Writes, DRest, outbox
<1>7. ASSUME NEW r \in Requests, Ends(r)
      PROVE DRest'
  <2>1. CASE Retry(r)
    <3>0. PICK d \in Deliveries : d = req[r].of
      BY <2>1 DEF Retry, DInv, RequestsKnown
    <3>1. tasks' \in [Deliveries -> Nat] /\ retried' \in [Deliveries -> Nat]
      <4>1. tasks' \in Enqueued(d) /\ retried' = [retried EXCEPT ![d] = @ + 1]
        BY <2>1, <3>0 DEF Retry
      <4>2. PICK t \in Enqueued(d) : t = tasks'
        BY <4>1
      <4>3. DeliveryTypeOK
        BY DEF DInv
      <4>4. t \in [Deliveries -> Nat]
        BY <4>3, EnqueuedType
      <4> QED BY <4>1, <4>2, <4>3, <4>4 DEF DeliveryTypeOK
    <3> QED BY <1>6, <2>1, <3>1 DEF Retry
  <2>2. CASE Cancel(r)
    BY <1>6, <2>2 DEF Cancel, DInv, DeliveryTypeOK
  <2>3. CASE Callback(r)
    <3>1. PICK d \in Deliveries : d = req[r].of
      BY <2>3 DEF Callback, DInv, RequestsKnown
    <3>2. req[r].status \in Statuses
      BY <2>3 DEF Callback, DInv, RequestsKnown
    <3>3. StateOf(req[r].status) \in {"sent", "delivered", "failed"}
      BY <3>2 DEF StateOf, Statuses
    <3>4. PICK s \in {"sent", "delivered", "failed"} : s = StateOf(req[r].status)
      BY <3>3
    <3>5. req[r].op # "none" /\ Writes(r, s)
      BY <2>3, <3>4 DEF Callback
    <3>6. tasks' \in [Deliveries -> Nat] /\ retried' \in [Deliveries -> Nat]
      BY <2>3 DEF Callback, DInv, DeliveryTypeOK
    <3> QED BY <1>6, <3>5, <3>6
  <2> QED BY <1>7, <2>1, <2>2, <2>3 DEF Ends
<1> QED BY <1>1, <1>2, <1>4, <1>5, <1>7

JobRecords == [step : {"none", "begin", "send", "mail", "sent", "failed"},
               of : Deliveries \cup {Nothing}, id : 0 .. MaxIds, willing : BOOLEAN]

\* What the invariant says of one worker, and of everything that is no worker's.
WorkerFine(w) ==
  /\ job[w].step = "none" => job[w] = NoJob
  /\ job[w].step # "none" => job[w].of \in Deliveries
  /\ job[w].id # 0 => job[w].id <= Len(issued) /\ issued[job[w].id] = job[w].of
  /\ Free(w) => work[w] = Resting
  /\ job[w].step \in {"begin", "send", "sent", "failed"} => work[w] = Resting
  /\ work[w].task = "inline" =>
       \E m \in Messages : work[w].todo = {m} /\ work[w].at \in {Nothing, m}
  /\ job[w].step = "mail" <=> work[w].task = "inline"

LogFine ==
  /\ delivery \in [Deliveries -> Rows]
  /\ tasks \in [Deliveries -> Nat] /\ retried \in [Deliveries -> Nat]
  /\ reachable \in [Deliveries -> BOOLEAN] /\ shown \in [Deliveries -> Nat]
  /\ issued \in Seq(Deliveries) /\ Len(issued) <= MaxIds
  /\ \A d \in Deliveries :
       delivery[d].id # 0 => delivery[d].id <= Len(issued) /\ issued[delivery[d].id] = d

\* The invariant gives both.
LEMMA FineNow ==
  ASSUME DInv
  PROVE LogFine /\ job \in [Workers -> JobRecords] /\ \A w \in Workers : WorkerFine(w)
<1>1. LogFine /\ job \in [Workers -> JobRecords]
  BY DEF DInv, DeliveryTypeOK, Rows, LogFine, JobRecords
<1>2. ASSUME NEW w \in Workers
      PROVE WorkerFine(w)
  <2>1. job[w].step = "mail" <=> work[w].task = "inline"
    BY DEF DInv, DeliveryTypeOK
  <2> QED BY <2>1 DEF DInv, JobsKnown, DispatcherRests, WorkerFine
<1> QED BY <1>1, <1>2

\* A step of one worker keeps the invariant if it keeps what it says of that
\* worker and of the log, and if ids once issued stay issued.
LEMMA OneWorkerKeeps ==
  ASSUME DInv, NEW w \in Workers, NEW j \in JobRecords, job' = [job EXCEPT ![w] = j],
         \A v \in Workers \ {w} : work'[v] = work[v],
         Len(issued) <= Len(issued') /\ \A k \in 1 .. Len(issued) : issued'[k] = issued[k],
         UNCHANGED req, LogFine', WorkerFine(w)'
  PROVE DRest'
<1> USE DeliveryAssumption
<1>0. LogFine /\ job \in [Workers -> JobRecords] /\ \A v \in Workers : WorkerFine(v)
  BY FineNow
<1>1. job' \in [Workers -> JobRecords] /\ \A v \in Workers \ {w} : job'[v] = job[v]
  BY <1>0
<1>2. ASSUME NEW v \in Workers \ {w}
      PROVE WorkerFine(v)'
  <2>1. /\ job'[v] = job[v] /\ work'[v] = work[v] /\ WorkerFine(v)
        /\ job[v].id \in 0 .. MaxIds
    BY <1>0, <1>1, <1>2 DEF JobRecords
  <2>3. Len(issued) \in Nat /\ Len(issued') \in Nat
    BY <1>0 DEF LogFine
  <2>5. job[v].id # 0 => job[v].id <= Len(issued)
    BY <2>1 DEF WorkerFine
  <2>2. job[v].id # 0 => job[v].id \in 1 .. Len(issued)
    BY <2>1, <2>3, <2>5
  <2>4. job[v].id # 0 => job[v].id <= Len(issued') /\ issued'[job[v].id] = issued[job[v].id]
    BY <2>2, <2>3
  <2> QED BY <2>1, <2>4 DEF WorkerFine, Free
<1>3. \A v \in Workers : WorkerFine(v)'
  BY <1>2
<1>4. DeliveryTypeOK'
  BY <1>1, <1>3 DEF LogFine, DInv, DeliveryTypeOK, WorkerFine, JobRecords, Rows
<1>5. JobsKnown' /\ DispatcherRests'
  BY <1>3 DEF JobsKnown, DispatcherRests, WorkerFine
<1>6. RequestsKnown'
  BY DEF DInv, RequestsKnown
<1> QED BY <1>4, <1>5, <1>6 DEF DRest

\* A worker through with a message it sends inline rests; otherwise it stays
\* on its task or rests.
LEMMA ThroughWith ==
  ASSUME DInv, NEW w \in Workers, NEW m \in Messages,
         m \in work[w].todo \/ work[w].at = m,
         work' = [work EXCEPT ![w] = Dropped(@, m)]
  PROVE /\ work'[w].task # "inline"
        /\ Free(w)' => work'[w] = Resting
        /\ work[w].task = "inline" => work'[w] = Resting
<1> USE OutboxAssumption
<1>1. work[w] \in Jobs /\ work'[w] = Dropped(work[w], m) /\ WorkerFine(w)
  BY FineNow DEF DInv, OInv, OutboxTypeOK
<1>2. work[w].task # "none"
  BY <1>1 DEF WorkerFine, Free, Resting
<1>3. CASE work[w].task = "inline"
  <2>1. work[w].todo = {m}
    BY <1>1, <1>3 DEF WorkerFine
  <2> QED BY <1>1, <2>1 DEF Dropped, Resting
<1>4. CASE work[w].task # "inline"
  BY <1>1, <1>2, <1>4 DEF Dropped, Resting, Free
<1> QED BY <1>3, <1>4

\* The same of a step that issues no id.
LEMMA OneWorkerKeepsIds ==
  ASSUME DInv, NEW w \in Workers, NEW j \in JobRecords, job' = [job EXCEPT ![w] = j],
         \A v \in Workers \ {w} : work'[v] = work[v],
         UNCHANGED issued, UNCHANGED req, LogFine', WorkerFine(w)'
  PROVE DRest'
<1>1. Len(issued) \in Nat
  BY FineNow DEF LogFine
<1>2. Len(issued) <= Len(issued') /\ \A k \in 1 .. Len(issued) : issued'[k] = issued[k]
  BY <1>1
<1> QED BY <1>2, OneWorkerKeeps

\* A worker that is not dispatching never touches the log, nor sends inline.
LEMMA OutboxTaskKeeps ==
  ASSUME DInv, NEW w \in Workers, OutboxTask(w)
  PROVE DRest'
<1> USE OutboxAssumption, DeliveryAssumption
<1>0. LogFine /\ job \in [Workers -> JobRecords] /\ WorkerFine(w)
  BY FineNow
<1>1. job[w] = NoJob /\ UNCHANGED <<delivery, tasks, job, reachable, issued, shown, req, retried>>
  BY DEF OutboxTask, log
<1>2. work \in [Workers -> Jobs] /\ work[w] \in Jobs
  BY DEF DInv, OInv, OutboxTypeOK
<1>3. work[w].task # "inline" /\ (Free(w) => work[w] = Resting)
  BY <1>0, <1>1 DEF WorkerFine, NoJob
<1>4. ASSUME work'[w].task # "inline", Free(w)' => work'[w] = Resting,
             \A v \in Workers \ {w} : work'[v] = work[v]
      PROVE DRest'
  <2>1. WorkerFine(w)'
    BY <1>1, <1>4 DEF WorkerFine, NoJob, Free
  <2>2. LogFine'
    BY <1>0, <1>1 DEF LogFine
  <2>3. PICK j \in JobRecords : j = job[w]
    BY <1>0
  <2>4. job' = [job EXCEPT ![w] = j]
    BY <1>0, <1>1, <2>3
  <2> QED BY <1>1, <1>4, <2>1, <2>2, <2>4, OneWorkerKeepsIds
<1>5. CASE TakeSweep(w)
  <2>1. work' = [work EXCEPT ![w] = Holding("sweep", Due)]
    BY <1>5 DEF TakeSweep
  <2>2. work'[w] = Holding("sweep", Due) /\ \A v \in Workers \ {w} : work'[v] = work[v]
    BY <1>2, <2>1
  <2>3. Holding("sweep", Due).task = "sweep"
    BY DEF Holding
  <2> QED BY <1>4, <2>2, <2>3 DEF Free
<1>6. ASSUME NEW m \in Messages, TakeTask(w, m)
      PROVE DRest'
  <2>1. CASE Deliverable(message[m])
    <3>1. work'[w] = Holding("send", {m}) /\ \A v \in Workers \ {w} : work'[v] = work[v]
      BY <1>2, <1>6, <2>1 DEF TakeTask
    <3>2. Holding("send", {m}).task = "send"
      BY DEF Holding
    <3> QED BY <1>4, <3>1, <3>2 DEF Free
  <2>2. CASE ~Deliverable(message[m])
    <3>1. work' = work
      BY <1>6, <2>2 DEF TakeTask
    <3> QED BY <1>3, <1>4, <3>1 DEF Free
  <2> QED BY <2>1, <2>2
<1>7. ASSUME NEW m \in Messages, Suppress(w, m)
      PROVE DRest'
  <2>1. m \in work[w].todo /\ work' = [work EXCEPT ![w] = Dropped(@, m)]
    BY <1>7 DEF Suppress
  <2>2. \A v \in Workers \ {w} : work'[v] = work[v]
    BY <1>2, <2>1
  <2> QED BY <1>4, <2>1, <2>2, ThroughWith
<1>8. ASSUME NEW m \in Messages, NEW taken \in BOOLEAN, NEW told \in BOOLEAN,
             Converse(w, m, taken, told)
      PROVE DRest'
  <2>1. work'[w].task = work[w].task /\ \A v \in Workers \ {w} : work'[v] = work[v]
    BY <1>2, <1>8 DEF Converse, Jobs
  <2>2. ~Free(w)
    BY <1>3, <1>8 DEF Converse, Resting
  <2> QED BY <1>3, <1>4, <2>1, <2>2 DEF Free
<1>9. CASE Save(w)
  <2>1. PICK m \in Messages : m = work[w].at
    BY <1>2, <1>9 DEF Save, Jobs
  <2>2. work' = [work EXCEPT ![w] = Dropped(@, m)]
    BY <1>9, <2>1 DEF Save
  <2>3. \A v \in Workers \ {w} : work'[v] = work[v]
    BY <1>2, <2>2
  <2> QED BY <1>4, <2>1, <2>2, <2>3, ThroughWith
<1> QED BY <1>5, <1>6, <1>7, <1>8, <1>9 DEF OutboxTask, Take, Progress

\* Taking a task, starting on it, being refused, and writing the outcome.
LEMMA DispatchKeeps ==
  ASSUME DInv, NEW w \in Workers,
         \/ \E d \in Deliveries : TakeDispatch(w, d)
         \/ Begin(w) \/ SendWhatsApp(w) \/ ShowInApp(w) \/ Conclude(w)
  PROVE DRest'
<1> USE OutboxAssumption, DeliveryAssumption
<1>0. LogFine /\ job \in [Workers -> JobRecords] /\ job[w] \in JobRecords /\ WorkerFine(w)
  BY FineNow
<1>1. work' = work
  BY DEF TakeDispatch, Begin, SendWhatsApp, ShowInApp, Conclude, outbox
<1>2. ASSUME NEW j \in JobRecords, job' = [job EXCEPT ![w] = j], work[w] = Resting,
             j.step # "mail", j.step = "none" => j = NoJob, j.step # "none" => j.of \in Deliveries,
             j.id # 0 => j.id <= Len(issued') /\ issued'[j.id] = j.of,
             Len(issued) <= Len(issued') /\ \A k \in 1 .. Len(issued) : issued'[k] = issued[k],
             UNCHANGED req, LogFine'
      PROVE DRest'
  <2>1. job'[w] = j
    BY <1>0, <1>2
  <2>2. work'[w] = Resting /\ Resting.task = "none"
    BY <1>1, <1>2 DEF Resting
  <2>3. WorkerFine(w)'
    BY <1>2, <2>1, <2>2 DEF WorkerFine, Free
  <2> QED BY <1>1, <1>2, <2>3, OneWorkerKeeps
<1>10. ASSUME NEW j \in JobRecords, job' = [job EXCEPT ![w] = j], work[w] = Resting,
              j.step # "mail", j.step = "none" => j = NoJob, j.step # "none" => j.of \in Deliveries,
              j.id # 0 => j.id <= Len(issued) /\ issued[j.id] = j.of,
              issued' = issued, req' = req, LogFine'
       PROVE DRest'
  <2>1. Len(issued) \in Nat
    BY <1>0 DEF LogFine
  <2>2. Len(issued) <= Len(issued') /\ \A k \in 1 .. Len(issued) : issued'[k] = issued[k]
    BY <1>10, <2>1
  <2>3. j.id # 0 => j.id <= Len(issued') /\ issued'[j.id] = j.of
    BY <1>10
  <2> QED BY <1>2, <1>10, <2>2, <2>3
<1>3. /\ NoJob \in JobRecords /\ NoJob.step = "none" /\ NoJob.id = 0
      /\ Len(issued) \in Nat /\ issued \in Seq(Deliveries)
  BY <1>0 DEF NoJob, JobRecords, LogFine
<1>4. ASSUME NEW d \in Deliveries, TakeDispatch(w, d)
      PROVE DRest'
  <2>1. LogFine' /\ UNCHANGED <<issued, req>> /\ job[w] = NoJob /\ work[w] = Resting
    <3>1. tasks' \in [Deliveries -> Nat]
      BY <1>0, <1>4 DEF TakeDispatch, LogFine
    <3> QED BY <1>0, <1>4, <3>1 DEF TakeDispatch, LogFine, Idling, WorkerFine
  <2>2. CASE Dispatchable(delivery[d])
    <3>1. PICK j : j = [step |-> "begin", of |-> d, id |-> 0, willing |-> reachable[d]]
      OBVIOUS
    <3>2. job' = [job EXCEPT ![w] = j]
      BY <1>4, <2>2, <3>1 DEF TakeDispatch
    <3>3. j \in JobRecords /\ j.step = "begin" /\ j.id = 0 /\ j.of = d
      BY <1>0, <3>1 DEF JobRecords, LogFine
    <3> QED BY <1>10, <2>1, <3>2, <3>3
  <2>3. CASE ~Dispatchable(delivery[d])
    <3>1. job' = [job EXCEPT ![w] = NoJob]
      BY <1>0, <1>4, <2>1, <2>3 DEF TakeDispatch
    <3> QED BY <1>3, <1>10, <2>1, <3>1
  <2> QED BY <2>2, <2>3
<1>5. CASE Begin(w)
  <2>1. PICK d \in Deliveries : d = job[w].of
    BY <1>0, <1>5 DEF Begin, WorkerFine
  <2>2. delivery' = [delivery EXCEPT ![d].state = "processing"]
    BY <1>5, <2>1 DEF Begin
  <2>3. /\ delivery' \in [Deliveries -> Rows]
        /\ \A e \in Deliveries : delivery'[e].id = delivery[e].id
    BY <2>2, StateWritten DEF DInv
  <2>4. LogFine' /\ UNCHANGED <<issued, req>>
    BY <1>0, <1>5, <2>3 DEF Begin, LogFine
  <2>5. PICK j : j = [job[w] EXCEPT !.step = "send"]
    OBVIOUS
  <2>6. j \in JobRecords /\ j.step = "send" /\ j.id = job[w].id /\ j.of = job[w].of
    BY <1>0, <2>5 DEF JobRecords
  <2>7. job' = [job EXCEPT ![w] = j]
    BY <1>0, <1>5, <2>5 DEF Begin, JobRecords
  <2>8. work[w] = Resting
    BY <1>0, <1>5 DEF Begin, WorkerFine
  <2>9. j.id # 0 => j.id <= Len(issued) /\ issued[j.id] = j.of
    BY <1>0, <2>6 DEF WorkerFine
  <2> QED BY <1>10, <2>1, <2>4, <2>6, <2>7, <2>8, <2>9
<1>6. ASSUME NEW outcome \in {"sent", "failed"}, NEW n \in 0 .. MaxIds,
             Concluding(w, outcome, n), job[w].of \in Deliveries, work[w] = Resting,
             n # 0 => n <= Len(issued') /\ issued'[n] = job[w].of,
             Len(issued) <= Len(issued') /\ \A k \in 1 .. Len(issued) : issued'[k] = issued[k],
             UNCHANGED req, LogFine'
      PROVE DRest'
  <2>1. PICK j : j = [job[w] EXCEPT !.step = outcome, !.id = n]
    OBVIOUS
  <2>2. j \in JobRecords /\ j.step = outcome /\ j.id = n /\ j.of = job[w].of
    BY <1>0, <2>1 DEF JobRecords
  <2>3. job' = [job EXCEPT ![w] = j]
    BY <1>0, <1>6, <2>1 DEF Concluding, JobRecords
  <2> QED BY <1>2, <1>6, <2>2, <2>3
<1>7. CASE ShowInApp(w)
  <2>1. /\ job[w].of \in Deliveries /\ work[w] = Resting
        /\ UNCHANGED <<delivery, tasks, reachable, issued, req, retried>> /\ Concluding(w, "sent", 0)
    BY <1>0, <1>7 DEF ShowInApp, WorkerFine
  <2>2. shown' \in [Deliveries -> Nat]
    <3>1. shown \in [Deliveries -> Nat]
      BY <1>0 DEF LogFine
    <3>2. shown' = [shown EXCEPT ![job[w].of] = @ + 1] \/ shown' = shown
      BY <1>7 DEF ShowInApp
    <3> QED BY <2>1, <3>1, <3>2
  <2>3. LogFine'
    BY <1>0, <2>1, <2>2 DEF LogFine
  <2> QED BY <1>3, <1>6, <2>1, <2>3
<1>8. CASE Conclude(w)
  <2>1. PICK d \in Deliveries : d = job[w].of
    BY <1>0, <1>8 DEF Conclude, WorkerFine
  <2>2. /\ delivery' = [delivery EXCEPT ![d] = [@ EXCEPT !.state = job[w].step, !.id = job[w].id]]
        /\ job[w].step \in {"sent", "failed"} /\ job' = [job EXCEPT ![w] = NoJob]
        /\ UNCHANGED <<tasks, reachable, issued, shown, req, retried>>
    BY <1>8, <2>1 DEF Conclude
  <2>0. PICK outcome \in {"sent", "failed"}, n \in 0 .. MaxIds : outcome = job[w].step /\ n = job[w].id
    BY <1>0, <2>2 DEF JobRecords
  <2>3. PICK row \in Rows : row = [delivery[d] EXCEPT !.state = outcome, !.id = n]
    <3>1. delivery[d] \in Rows
      BY <1>0 DEF LogFine
    <3>2. [delivery[d] EXCEPT !.state = outcome, !.id = n] \in Rows
      BY <3>1 DEF Rows
    <3> QED BY <3>2
  <2>4. row.id = job[w].id
    BY <1>0, <2>0, <2>3 DEF LogFine, Rows
  <2>5. delivery' = [delivery EXCEPT ![d] = row]
    BY <1>0, <2>0, <2>2, <2>3 DEF LogFine
  <2>6. /\ delivery' \in [Deliveries -> Rows] /\ delivery'[d] = row
        /\ \A e \in Deliveries \ {d} : delivery'[e] = delivery[e]
    BY <1>0, <2>5 DEF LogFine
  <2>7. row.id # 0 => row.id <= Len(issued) /\ issued[row.id] = d
    BY <1>0, <2>1, <2>4 DEF WorkerFine
  <2>8. LogFine'
    BY <1>0, <2>2, <2>6, <2>7 DEF LogFine
  <2>9. work[w] = Resting
    BY <1>0, <2>2 DEF WorkerFine
  <2> QED BY <1>3, <1>10, <2>2, <2>8, <2>9
<1>9. CASE SendWhatsApp(w)
  <2>1. PICK d \in Deliveries : d = job[w].of
    BY <1>0, <1>9 DEF SendWhatsApp, WorkerFine
  <2>2. work[w] = Resting /\ UNCHANGED <<tasks, reachable, shown, req, retried>>
    BY <1>0, <1>9 DEF SendWhatsApp, WorkerFine
  <2>3. CASE /\ delivery' = [delivery EXCEPT ![job[w].of].state = "failed"]
             /\ job' = [job EXCEPT ![w] = NoJob] /\ UNCHANGED issued
    <3>1. /\ delivery' \in [Deliveries -> Rows]
          /\ \A e \in Deliveries : delivery'[e].id = delivery[e].id
      BY <2>1, <2>3, StateWritten DEF DInv
    <3>2. LogFine'
      BY <1>0, <2>2, <2>3, <3>1 DEF LogFine
    <3> QED BY <1>3, <1>10, <2>2, <2>3, <3>2
  <2>4. CASE Concluding(w, "failed", 0) /\ UNCHANGED <<delivery, issued>>
    <3>1. LogFine'
      BY <1>0, <2>2, <2>4 DEF LogFine
    <3> QED BY <1>3, <1>6, <2>1, <2>2, <2>4, <3>1
  <2>5. ASSUME NEW told \in BOOLEAN, Accept(w, told), UNCHANGED delivery
        PROVE DRest'
    <3>1. PICK n \in 1 .. MaxIds : n = Len(issued) + 1
      BY <1>3, <2>5 DEF Accept
    <3>2. issued' = Append(issued, d) /\ Concluding(w, IF told THEN "sent" ELSE "failed", IF told THEN n ELSE 0)
      BY <2>1, <2>5, <3>1 DEF Accept
    <3>3. /\ issued' \in Seq(Deliveries) /\ Len(issued') = n /\ issued'[n] = d
          /\ \A k \in 1 .. Len(issued) : issued'[k] = issued[k]
      BY <1>3, <3>1, <3>2
    <3>4. \A e \in Deliveries : delivery[e].id # 0 =>
            delivery[e].id <= Len(issued') /\ issued'[delivery[e].id] = e
      <4>1. ASSUME NEW e \in Deliveries, delivery[e].id # 0
            PROVE delivery[e].id \in 1 .. Len(issued)
        <5>1. delivery[e].id <= Len(issued)
          BY <1>0, <4>1 DEF LogFine
        <5>2. delivery[e].id \in Nat
          BY <1>0 DEF LogFine, Rows
        <5> QED BY <1>3, <4>1, <5>1, <5>2
      <4>2. \A e \in Deliveries : delivery[e].id # 0 => issued[delivery[e].id] = e
        BY <1>0 DEF LogFine
      <4> QED BY <1>3, <3>1, <3>3, <4>1, <4>2
    <3>5. LogFine'
      BY <1>0, <2>2, <2>5, <3>1, <3>3, <3>4 DEF LogFine
    <3>6. CASE told
      BY <1>3, <1>6, <2>1, <2>2, <3>1, <3>2, <3>3, <3>5, <3>6
    <3>7. CASE ~told
      BY <1>3, <1>6, <2>1, <2>2, <3>1, <3>2, <3>3, <3>5, <3>7
    <3> QED BY <3>6, <3>7
  <2> QED BY <1>9, <2>3, <2>4, <2>5 DEF SendWhatsApp
<1> QED BY <1>4, <1>5, <1>7, <1>8, <1>9

\* Sending an outbox row inline, and the loss of a worker.
LEMMA MailKeeps ==
  ASSUME DInv, NEW w \in Workers,
         (\E m \in Messages : WriteMail(w, m)) \/ MailProgress(w) \/ LoseWorker(w)
  PROVE DRest'
<1> USE OutboxAssumption, DeliveryAssumption
<1>0. /\ LogFine /\ job \in [Workers -> JobRecords] /\ job[w] \in JobRecords /\ WorkerFine(w)
      /\ work \in [Workers -> Jobs] /\ work[w] \in Jobs
  BY FineNow DEF DInv, OInv, OutboxTypeOK
<1>1. NoJob \in JobRecords /\ NoJob.step = "none" /\ NoJob.id = 0
  BY DEF NoJob, JobRecords
<1>2. ASSUME NEW step \in {"mail", "sent", "failed"}, job' = [job EXCEPT ![w].step = step],
             job[w].step # "none", step = "mail" <=> work'[w].task = "inline",
             step # "mail" => work'[w] = Resting, ~Free(w)' \/ work'[w] = Resting,
             work'[w].task = "inline" =>
               \E m \in Messages : work'[w].todo = {m} /\ work'[w].at \in {Nothing, m},
             \A v \in Workers \ {w} : work'[v] = work[v], issued' = issued, req' = req, LogFine'
      PROVE DRest'
  <2>1. PICK j : j = [job[w] EXCEPT !.step = step]
    OBVIOUS
  <2>2. j \in JobRecords /\ j.step = step /\ j.id = job[w].id /\ j.of = job[w].of
    BY <1>0, <2>1 DEF JobRecords
  <2>3. job' = [job EXCEPT ![w] = j] /\ job'[w] = j
    BY <1>0, <1>2, <2>1 DEF JobRecords
  <2>4. WorkerFine(w)'
    BY <1>0, <1>2, <2>2, <2>3 DEF WorkerFine, Free
  <2> QED BY <1>2, <2>2, <2>3, <2>4, OneWorkerKeepsIds
<1>3. ASSUME NEW m \in Messages, WriteMail(w, m)
      PROVE DRest'
  <2>1. PICK d \in Deliveries : d = job[w].of
    BY <1>0, <1>3 DEF WriteMail, WorkerFine
  <2>2. /\ work' = [work EXCEPT ![w] = Holding("inline", {m})]
        /\ delivery' = [delivery EXCEPT ![d].mail = m] /\ job' = [job EXCEPT ![w].step = "mail"]
        /\ UNCHANGED <<tasks, reachable, issued, shown, req, retried>> /\ job[w].step = "send"
    BY <1>3, <2>1 DEF WriteMail, TakeInline
  <2>3. /\ Holding("inline", {m}).task = "inline"
        /\ Holding("inline", {m}).todo = {m} /\ Holding("inline", {m}).at = Nothing
    BY DEF Holding
  <2>4. work'[w] = Holding("inline", {m}) /\ \A v \in Workers \ {w} : work'[v] = work[v]
    BY <1>0, <2>2
  <2>5. delivery' \in [Deliveries -> Rows] /\ \A e \in Deliveries : delivery'[e].id = delivery[e].id
    <3>1. delivery \in [Deliveries -> Rows] /\ delivery[d] \in Rows
      BY <1>0 DEF LogFine
    <3>2. [delivery[d] EXCEPT !.mail = m] \in Rows /\ [delivery[d] EXCEPT !.mail = m].id = delivery[d].id
      BY <3>1 DEF Rows
    <3> QED BY <2>2, <3>1, <3>2
  <2>6. LogFine'
    BY <1>0, <2>2, <2>5 DEF LogFine
  <2> QED BY <1>2, <2>2, <2>3, <2>4, <2>6 DEF Free
<1>4. CASE MailProgress(w)
  <2>1. /\ job[w].step = "mail" /\ work[w].task = "inline"
        /\ UNCHANGED <<delivery, tasks, reachable, issued, shown, req, retried>>
    BY <1>0, <1>4 DEF MailProgress, WorkerFine
  <2>2. LogFine'
    BY <1>0, <2>1 DEF LogFine
  <2>3. PICK n \in Messages : work[w].todo = {n} /\ work[w].at \in {Nothing, n}
    BY <1>0, <2>1 DEF WorkerFine
  <2>4. ASSUME NEW m \in Messages, m \in work[w].todo \/ work[w].at = m,
               work' = [work EXCEPT ![w] = Dropped(@, m)],
               NEW ok \in BOOLEAN, Mailed(w, ok)
        PROVE DRest'
    <3>1. work'[w] = Resting /\ Resting.task = "none"
      BY <2>1, <2>4, ThroughWith DEF Resting
    <3>2. \A v \in Workers \ {w} : work'[v] = work[v]
      BY <1>0, <2>4
    <3>3. PICK step \in {"sent", "failed"} : job' = [job EXCEPT ![w].step = step]
      BY <2>4 DEF Mailed
    <3> QED BY <1>2, <2>1, <2>2, <3>1, <3>2, <3>3
  <2>5. ASSUME NEW m \in Messages, Suppress(w, m), Mailed(w, FALSE)
        PROVE DRest'
    BY <2>4, <2>5 DEF Suppress
  <2>6. ASSUME NEW m \in Messages, NEW taken \in BOOLEAN, NEW told \in BOOLEAN,
               Converse(w, m, taken, told), UNCHANGED job
        PROVE DRest'
    <3>1. /\ work'[w].task = "inline" /\ work'[w].todo = {n} /\ work'[w].at = n
          /\ \A v \in Workers \ {w} : work'[v] = work[v]
      BY <1>0, <2>1, <2>3, <2>6 DEF Converse, Jobs
    <3>2. job' = [job EXCEPT ![w].step = "mail"]
      BY <1>0, <2>1, <2>6 DEF JobRecords
    <3> QED BY <1>2, <2>1, <2>2, <3>1, <3>2 DEF Free
  <2>7. ASSUME Save(w), Mailed(w, work[w].taken)
        PROVE DRest'
    <3>1. PICK m \in Messages : m = work[w].at
      BY <1>0, <2>7 DEF Save, Jobs
    <3>2. PICK ok \in BOOLEAN : ok = work[w].taken
      BY <1>0 DEF Jobs
    <3> QED BY <2>4, <2>7, <3>1, <3>2 DEF Save
  <2> QED BY <1>4, <2>5, <2>6, <2>7 DEF MailProgress
<1>5. CASE LoseWorker(w)
  <2>1. /\ work' = [work EXCEPT ![w] = Resting] /\ job' = [job EXCEPT ![w] = NoJob]
        /\ UNCHANGED <<delivery, reachable, issued, shown, req, retried>>
    BY <1>5 DEF LoseWorker, Lose
  <2>2. tasks' \in [Deliveries -> Nat]
    <3>1. tasks \in [Deliveries -> Nat]
      BY <1>0 DEF LogFine
    <3>2. CASE job[w] = NoJob
      BY <1>5, <3>1, <3>2 DEF LoseWorker
    <3>3. CASE job[w] # NoJob
      <4>1. PICK d \in Deliveries : d = job[w].of
        BY <1>0, <3>3 DEF WorkerFine
      <4> QED BY <1>5, <3>1, <3>3, <4>1 DEF LoseWorker, Redelivered
    <3> QED BY <3>2, <3>3
  <2>3. LogFine'
    BY <1>0, <2>1, <2>2 DEF LogFine
  <2>4. work'[w] = Resting /\ job'[w] = NoJob /\ \A v \in Workers \ {w} : work'[v] = work[v]
    BY <1>0, <2>1
  <2>5. Resting.task = "none"
    BY DEF Resting
  <2>6. WorkerFine(w)'
    BY <1>1, <2>4, <2>5 DEF WorkerFine
  <2> QED BY <1>1, <2>1, <2>3, <2>4, <2>6, OneWorkerKeepsIds
<1> QED BY <1>3, <1>4, <1>5

\* No step breaks the invariant.
LEMMA DeliveryStepInv == DInv /\ [Next]_vars => DInv'
<1> SUFFICES ASSUME DInv, [Next]_vars
    PROVE DInv'
  OBVIOUS
<1>1. OInv'
  BY StepIsOutboxStep, OutboxStepInv DEF DInv
<1> SUFFICES DRest'
  BY <1>1 DEF DInv, DRest
<1>2. ASSUME NEW w \in Workers, WorkOn(w) \/ LoseWorker(w)
      PROVE DRest'
  BY <1>2, OutboxTaskKeeps, DispatchKeeps, MailKeeps DEF WorkOn, Dispatch
<1>3. ASSUME UNCHANGED <<work, delivery, tasks, job, reachable, issued, shown, req, retried>>
      PROVE DRest'
  <2>1. DeliveryTypeOK'
    BY <1>3 DEF DInv, DeliveryTypeOK
  <2>2. JobsKnown' /\ RequestsKnown' /\ DispatcherRests'
    BY <1>3 DEF DInv, JobsKnown, RequestsKnown, DispatcherRests, Free
  <2> QED BY <2>1, <2>2 DEF DRest
<1>4. ASSUME NEW m \in Messages, BackOff(m) \/ OtherMail(m)
      PROVE DRest'
  BY <1>3, <1>4 DEF BackOff, OtherMail, Elapse, Queue, log
<1>5. CASE UNCHANGED vars
  <2>1. UNCHANGED <<work, delivery, tasks, job, reachable, issued, shown, req, retried>>
    BY <1>5 DEF log, vars, outbox
  <2> QED BY <1>3, <2>1
<1>6. ASSUME NEW d \in Deliveries, Create(d) \/ Leave(d)
      PROVE DRest'
  BY <1>6, RequestsKeep
<1>7. ASSUME NEW r \in Requests, NEW d \in Deliveries,
             \/ \E op \in Operations : Ask(r, d, op)
             \/ \E status \in Statuses : Call(r, d, status)
      PROVE DRest'
  BY <1>7, RequestsKeep
<1>8. ASSUME NEW r \in Requests, Ends(r)
      PROVE DRest'
  BY <1>8, RequestsKeep
<1>9. CASE Next
  BY <1>2, <1>4, <1>6, <1>7, <1>8, <1>9 DEF Next
<1> QED BY <1>5, <1>9

\* The send log is well-typed, and an id of the provider is on the row it was
\* issued for (dispatch_delivery, apply_whatsapp_status_update).
THEOREM DeliveryTyped == Spec => []DeliveryTypeOK
<1>1. DInv => DeliveryTypeOK
  BY DEF DInv
<1> QED BY <1>1, DeliveryInitInv, DeliveryStepInv, PTL DEF Spec

\* Dispatching uses the outbox as the outbox allows: every step of the send log
\* is one of the outbox, or none of it.
THEOREM UsesOutbox == Spec => OutboxSpec
<1>1. Init => OutboxInit
  BY DEF Init
<1> QED BY <1>1, DeliveryInitInv, DeliveryStepInv, StepIsOutboxStep, PTL DEF Spec, OutboxSpec

\* Cancelling is final for whoever reads the row afterwards: a task or a request
\* that reads a cancelled row leaves it (the checks of dispatch_delivery,
\* retry_delivery, cancel_delivery and apply_whatsapp_status_update).
THEOREM CancelsAreFinal == Spec => CancelledIsFinal
<1>1. ASSUME DInv, [Next]_vars
      PROVE [\A d \in Deliveries : Untouched(d) => Untouched(d)']_vars
  <2> SUFFICES ASSUME Next, NEW d \in Deliveries, Untouched(d)
      PROVE Untouched(d)'
    BY <1>1
  <2>0. /\ delivery[d].state = "cancelled" /\ delivery \in [Deliveries -> Rows]
        /\ \A w \in Workers : job[w].of # d
        /\ \A r \in Requests : req[r].of # d
        /\ job \in [Workers -> JobRecords]
    BY <1>1, FineNow DEF Untouched, LogFine
  <2>1. ASSUME NEW e \in Deliveries, Create(e) \/ Leave(e)
        PROVE Untouched(d)'
    <3>1. CASE Create(e)
      <4>1. delivery[e].state = "none"
        BY <3>1 DEF Create, Absent
      <4>2. e # d
        BY <2>0, <4>1
      <4> QED BY <2>0, <3>1, <4>2 DEF Create, Untouched
    <3>2. CASE Leave(e)
      BY <3>2, <2>0 DEF Leave, Untouched
    <3> QED BY <2>1, <3>1, <3>2
  <2>2. ASSUME NEW w \in Workers, NEW e \in Deliveries, TakeDispatch(w, e)
        PROVE Untouched(d)'
    <3>1. CASE Dispatchable(delivery[e])
      <4>1. e # d
        BY <2>0, <3>1 DEF Dispatchable
      <4> QED BY <2>0, <2>2, <3>1, <4>1 DEF TakeDispatch, Untouched
    <3>2. CASE ~Dispatchable(delivery[e])
      BY <2>0, <2>2, <3>2 DEF TakeDispatch, Untouched
    <3> QED BY <3>1, <3>2
  <2>3. ASSUME NEW w \in Workers, UNCHANGED req,
               delivery'[d] = delivery[d],
               \A v \in Workers : job'[v].of = job[v].of \/ job'[v].of = Nothing
        PROVE Untouched(d)'
    BY <2>0, <2>3, DeliveryAssumption DEF Untouched
  <2>4. NoJob.of = Nothing
    BY DEF NoJob
  <2>5. ASSUME NEW w \in Workers, Dispatch(w) \/ LoseWorker(w)
        PROVE Untouched(d)'
    <3>1. /\ job[w].of # d /\ job[w] \in JobRecords
          /\ \A step, n : [job[w] EXCEPT !.step = step, !.id = n].of = job[w].of
          /\ \A step : [job[w] EXCEPT !.step = step].of = job[w].of
      BY <2>0 DEF JobRecords
    <3>2. UNCHANGED req /\ delivery'[d] = delivery[d]
      BY <2>0, <2>5, <3>1 DEF Dispatch, Begin, MailProgress, SendWhatsApp, ShowInApp, Conclude,
                              WriteMail, LoseWorker
    <3>3. \/ \E step : job' = [job EXCEPT ![w].step = step]
          \/ \E step, n : job' = [job EXCEPT ![w] = [@ EXCEPT !.step = step, !.id = n]]
          \/ job' = [job EXCEPT ![w] = NoJob]
          \/ job' = job
      BY <2>5 DEF Dispatch, Begin, MailProgress, SendWhatsApp, ShowInApp, Conclude, WriteMail,
                  LoseWorker, Mailed, Concluding, Accept
    <3>4. \A v \in Workers : job'[v].of = job[v].of \/ job'[v].of = Nothing
      <4>1. ASSUME NEW j, job' = [job EXCEPT ![w] = j], j.of = job[w].of \/ j.of = Nothing
            PROVE \A v \in Workers : job'[v].of = job[v].of \/ job'[v].of = Nothing
        <5>1. job'[w] = j /\ \A v \in Workers \ {w} : job'[v] = job[v]
          BY <2>0, <4>1
        <5> QED BY <4>1, <5>1
      <4>2. ASSUME NEW step, job' = [job EXCEPT ![w].step = step]
            PROVE \A v \in Workers : job'[v].of = job[v].of \/ job'[v].of = Nothing
        <5>1. PICK j : j = [job[w] EXCEPT !.step = step]
          OBVIOUS
        <5> QED BY <3>1, <4>1, <4>2, <5>1
      <4>3. ASSUME NEW step, NEW n, job' = [job EXCEPT ![w] = [@ EXCEPT !.step = step, !.id = n]]
            PROVE \A v \in Workers : job'[v].of = job[v].of \/ job'[v].of = Nothing
        <5>1. PICK j : j = [job[w] EXCEPT !.step = step, !.id = n]
          OBVIOUS
        <5> QED BY <3>1, <4>1, <4>3, <5>1
      <4> QED BY <2>4, <3>3, <4>1, <4>2, <4>3
    <3> QED BY <2>3, <3>2, <3>4
  <2>6. ASSUME NEW w \in Workers, OutboxTask(w)
        PROVE Untouched(d)'
    BY <2>0, <2>6 DEF OutboxTask, log, Untouched
  <2>7. ASSUME NEW m \in Messages, BackOff(m) \/ OtherMail(m)
        PROVE Untouched(d)'
    BY <2>0, <2>7 DEF BackOff, OtherMail, log, Untouched
  <2>8. ASSUME NEW r \in Requests, NEW e \in Deliveries,
               \/ \E op \in Operations : Ask(r, e, op)
               \/ \E status \in Statuses : Call(r, e, status)
        PROVE Untouched(d)'
    <3>1. e # d /\ UNCHANGED <<delivery, job>>
      BY <2>0, <2>8 DEF Ask, Call, Retryable, Cancellable, Hears
    <3>2. \A q \in Requests : req'[q].of \in {req[q].of, e}
      <4>1. PICK op, status : req' = [req EXCEPT ![r] = [op |-> op, of |-> e, status |-> status]]
        BY <2>8 DEF Ask, Call
      <4>2. req'[r].of = e /\ \A q \in Requests \ {r} : req'[q] = req[q]
        BY <1>1, <4>1 DEF DInv, DeliveryTypeOK
      <4> QED BY <4>2
    <3> QED BY <2>0, <3>1, <3>2 DEF Untouched
  <2>9. ASSUME NEW r \in Requests, Ends(r)
        PROVE Untouched(d)'
    <3>1. PICK state : Writes(r, state)
      BY <2>9 DEF Ends, Retry, Cancel, Callback
    <3>2. req[r].of # d /\ Idle.of = Nothing
      BY <2>0 DEF Idle
    <3>3. delivery'[d] = delivery[d] /\ job' = job
      BY <2>0, <3>1, <3>2 DEF Writes
    <3>4. \A q \in Requests : req'[q].of \in {req[q].of, Nothing}
      BY <1>1, <3>1, <3>2 DEF Writes, DInv, DeliveryTypeOK
    <3> QED BY <2>0, <3>3, <3>4, DeliveryAssumption DEF Untouched
  <2> QED BY <2>1, <2>2, <2>5, <2>6, <2>7, <2>8, <2>9 DEF Next, WorkOn
<1> QED BY <1>1, DeliveryInitInv, DeliveryStepInv, PTL DEF Spec, CancelledIsFinal

Waiting(d) == delivery[d].state \in {"queued", "processing"}
Attended(d) == tasks[d] > 0 \/ \E w \in Workers : job[w].of = d

\* No step forgets a delivery, as long as the broker takes what it is handed: a
\* task comes again when its worker is lost, and one that ends has settled its row.
LEMMA NoneForgottenStep ==
  ASSUME BrokerUp = TRUE, DInv, NoneForgotten, [Next]_vars
  PROVE NoneForgotten'
<1> USE OutboxAssumption, DeliveryAssumption
<1>0. /\ LogFine /\ job \in [Workers -> JobRecords] /\ delivery \in [Deliveries -> Rows]
      /\ tasks \in [Deliveries -> Nat] /\ \A w \in Workers : WorkerFine(w)
      /\ NoJob.of = Nothing
  BY FineNow DEF LogFine, NoJob
<1> SUFFICES ASSUME NEW d \in Deliveries, Waiting(d)'
    PROVE Attended(d)'
  BY DEF NoneForgotten, Waiting, Attended
<1>1. Waiting(d) => Attended(d)
  BY DEF NoneForgotten, Waiting, Attended
<1>2. ASSUME delivery'[d].state = delivery[d].state, tasks[d] > 0 => tasks'[d] > 0,
             \A w \in Workers : job[w].of = d => job'[w].of = d
      PROVE Attended(d)'
  <2>1. Attended(d)
    BY <1>1, <1>2 DEF Waiting
  <2>2. CASE tasks[d] > 0
    BY <1>2, <2>2 DEF Attended
  <2>3. CASE \E w \in Workers : job[w].of = d
    BY <1>2, <2>3 DEF Attended
  <2> QED BY <2>1, <2>2, <2>3 DEF Attended
<1>3. ASSUME tasks'[d] > 0
      PROVE Attended(d)'
  BY <1>3 DEF Attended
<1>4. \A e \in Deliveries : \A t \in Enqueued(e) :
        t[e] > 0 /\ \A f \in Deliveries \ {e} : t[f] = tasks[f]
  BY <1>0 DEF Enqueued
<1>5. ASSUME NEW e \in Deliveries, Create(e) \/ Leave(e)
      PROVE Attended(d)'
  <2>1. CASE Create(e)
    <3>1. PICK t \in Enqueued(e) : t = tasks'
      BY <2>1 DEF Create
    <3>2. CASE e = d
      BY <1>3, <1>4, <3>1, <3>2
    <3>3. CASE e # d
      BY <1>0, <1>2, <1>4, <2>1, <3>1, <3>3 DEF Create
    <3> QED BY <3>2, <3>3
  <2>2. CASE Leave(e)
    BY <1>0, <1>2, <2>2 DEF Leave
  <2> QED BY <1>5, <2>1, <2>2
<1>6. ASSUME NEW w \in Workers, NEW e \in Deliveries, TakeDispatch(w, e)
      PROVE Attended(d)'
  <2>0. /\ job[w] = NoJob /\ tasks' = [tasks EXCEPT ![e] = @ - 1] /\ delivery' = delivery
        /\ tasks[e] > 0
    BY <1>6 DEF TakeDispatch, Idling
  <2>1. CASE Dispatchable(delivery[e])
    <3>1. PICK j : j = [step |-> "begin", of |-> e, id |-> 0, willing |-> reachable[e]]
      OBVIOUS
    <3>2. job' = [job EXCEPT ![w] = j] /\ j.of = e
      BY <1>6, <2>1, <3>1 DEF TakeDispatch
    <3>3. job'[w].of = e /\ \A v \in Workers \ {w} : job'[v] = job[v]
      BY <1>0, <3>2
    <3>4. CASE e = d
      BY <3>3, <3>4 DEF Attended
    <3>5. CASE e # d
      BY <1>0, <1>2, <2>0, <3>3, <3>5
    <3> QED BY <3>4, <3>5
  <2>2. CASE ~Dispatchable(delivery[e])
    <3>1. e # d /\ job' = job
      BY <1>6, <2>0, <2>2 DEF TakeDispatch, Dispatchable, Waiting
    <3> QED BY <1>0, <1>2, <2>0, <3>1
  <2> QED BY <2>1, <2>2
<1>7. ASSUME NEW w \in Workers, Begin(w) \/ MailProgress(w) \/ \E m \in Messages : WriteMail(w, m)
      PROVE Attended(d)'
  <2>1. (\E step : job' = [job EXCEPT ![w].step = step]) \/ job' = job
    BY <1>7 DEF Begin, MailProgress, WriteMail, Mailed
  <2>2. \A v \in Workers : job'[v].of = job[v].of
    BY <1>0, <2>1 DEF JobRecords
  <2>3. tasks' = tasks
    BY <1>7 DEF Begin, MailProgress, WriteMail
  <2>4. CASE job[w].of = d
    BY <2>2, <2>4 DEF Attended
  <2>5. CASE job[w].of # d
    <3>1. delivery'[d] = delivery[d]
      BY <1>0, <1>7, <2>5 DEF Begin, MailProgress, WriteMail
    <3> QED BY <1>0, <1>2, <2>2, <2>3, <3>1
  <2> QED BY <2>4, <2>5
<1>8. ASSUME NEW w \in Workers, Conclude(w) \/ SendWhatsApp(w) \/ ShowInApp(w)
      PROVE Attended(d)'
  <2>0. tasks' = tasks
    BY <1>8 DEF Conclude, SendWhatsApp, ShowInApp
  <2>1. \/ \E step, n : job' = [job EXCEPT ![w] = [@ EXCEPT !.step = step, !.id = n]]
        \/ /\ job' = [job EXCEPT ![w] = NoJob]
           /\ delivery'[job[w].of].state \in {"sent", "failed"}
    <3>1. PICK e \in Deliveries : e = job[w].of
      BY <1>0, <1>8 DEF Conclude, SendWhatsApp, ShowInApp, WorkerFine
    <3>2. CASE Conclude(w)
      <4>1. /\ job[w].step \in {"sent", "failed"}
            /\ delivery' = [delivery EXCEPT ![e] = [@ EXCEPT !.state = job[w].step, !.id = job[w].id]]
            /\ job' = [job EXCEPT ![w] = NoJob]
        BY <3>1, <3>2 DEF Conclude
      <4>2. delivery'[e].state = job[w].step
        BY <1>0, <4>1 DEF Rows
      <4> QED BY <3>1, <4>1, <4>2
    <3>3. CASE SendWhatsApp(w)
      <4>1. CASE /\ delivery' = [delivery EXCEPT ![e].state = "failed"]
                 /\ job' = [job EXCEPT ![w] = NoJob]
        <5>1. delivery'[e].state = "failed"
          BY <1>0, <4>1 DEF Rows
        <5> QED BY <3>1, <4>1, <5>1
      <4>2. CASE \E outcome, n : Concluding(w, outcome, n)
        BY <4>2 DEF Concluding
      <4> QED BY <3>1, <3>3, <4>1, <4>2 DEF SendWhatsApp, Accept
    <3>4. CASE ShowInApp(w)
      BY <3>4 DEF ShowInApp, Concluding
    <3> QED BY <1>8, <3>2, <3>3, <3>4
  <2>2. \A e \in Deliveries : e # job[w].of => delivery'[e] = delivery[e]
    BY <1>0, <1>8 DEF Conclude, SendWhatsApp, ShowInApp
  <2>3. \A v \in Workers \ {w} : job'[v] = job[v]
    BY <1>0, <2>1
  <2>4. CASE job[w].of # d
    BY <1>0, <1>2, <2>0, <2>2, <2>3, <2>4
  <2>5. CASE job[w].of = d
    <3>1. PICK step, n : job' = [job EXCEPT ![w] = [@ EXCEPT !.step = step, !.id = n]]
      BY <2>1, <2>5 DEF Waiting
    <3>2. PICK j : j = [job[w] EXCEPT !.step = step, !.id = n]
      OBVIOUS
    <3>3. j.of = job[w].of /\ job'[w] = j
      BY <1>0, <3>1, <3>2 DEF JobRecords
    <3> QED BY <2>5, <3>3 DEF Attended
  <2> QED BY <2>4, <2>5
<1>9. ASSUME NEW w \in Workers, LoseWorker(w)
      PROVE Attended(d)'
  <2>1. delivery' = delivery /\ \A v \in Workers \ {w} : job'[v] = job[v]
    BY <1>0, <1>9 DEF LoseWorker
  <2>2. CASE job[w] = NoJob
    BY <1>0, <1>2, <1>9, <2>1, <2>2 DEF LoseWorker
  <2>3. CASE job[w] # NoJob
    <3>1. PICK e \in Deliveries : e = job[w].of
      BY <1>0, <2>3 DEF WorkerFine
    <3>2. tasks' = [tasks EXCEPT ![e] = @ + 1]
      BY <1>9, <2>3, <3>1 DEF LoseWorker, Redelivered
    <3>3. CASE e = d
      BY <1>0, <1>3, <3>2, <3>3
    <3>4. CASE e # d
      BY <1>0, <1>2, <2>1, <3>1, <3>2, <3>4
    <3> QED BY <3>3, <3>4
  <2> QED BY <2>2, <2>3
<1>10. ASSUME UNCHANGED <<delivery, tasks, job>>
       PROVE Attended(d)'
  BY <1>0, <1>2, <1>10
<1>11. ASSUME NEW w \in Workers, OutboxTask(w)
       PROVE Attended(d)'
  BY <1>10, <1>11 DEF OutboxTask, log
<1>12. ASSUME NEW m \in Messages, BackOff(m) \/ OtherMail(m)
       PROVE Attended(d)'
  BY <1>10, <1>12 DEF BackOff, OtherMail, log
<1>13. ASSUME NEW r \in Requests, NEW e \in Deliveries,
              \/ \E op \in Operations : Ask(r, e, op)
              \/ \E status \in Statuses : Call(r, e, status)
       PROVE Attended(d)'
  BY <1>10, <1>13 DEF Ask, Call
<1>14. ASSUME NEW r \in Requests, Ends(r)
       PROVE Attended(d)'
  <2>0. PICK e \in Deliveries : e = req[r].of
    BY <1>14 DEF Ends, Retry, Cancel, Callback, DInv, RequestsKnown
  <2>1. job' = job /\ \A f \in Deliveries \ {e} : delivery'[f] = delivery[f]
    BY <1>0, <1>14, <2>0 DEF Ends, Retry, Cancel, Callback, Writes
  <2>2. CASE Retry(r)
    <3>1. PICK t \in Enqueued(e) : t = tasks'
      BY <2>0, <2>2 DEF Retry
    <3>2. CASE e = d
      BY <1>3, <1>4, <3>1, <3>2
    <3>3. CASE e # d
      BY <1>0, <1>2, <1>4, <2>1, <3>1, <3>3
    <3> QED BY <3>2, <3>3
  <2>3. CASE Cancel(r) \/ Callback(r)
    <3>1. /\ tasks' = tasks /\ req[r].op \in {"cancel", "callback"}
          /\ req[r].op = "callback" => req[r].status \in Statuses
      BY <2>3 DEF Cancel, Callback, DInv, RequestsKnown
    <3>2. PICK state \in {"cancelled", "sent", "delivered", "failed"} :
            delivery' = [delivery EXCEPT ![e].state = state]
      BY <2>0, <2>3, <3>1 DEF Cancel, Callback, Writes, StateOf, Statuses
    <3>3. delivery'[e].state = state
      BY <1>0, <3>2 DEF Rows
    <3>4. e # d
      BY <3>3 DEF Waiting
    <3> QED BY <1>0, <1>2, <2>1, <3>1, <3>4
  <2> QED BY <1>14, <2>2, <2>3 DEF Ends
<1>15. CASE UNCHANGED vars
  BY <1>10, <1>15 DEF vars, log
<1> QED BY <1>5, <1>6, <1>7, <1>8, <1>9, <1>11, <1>12, <1>13, <1>14, <1>15
        DEF Next, WorkOn, Dispatch

\* With a broker that is always reachable, no delivery that is queued or being
\* processed is ever without a task at the broker or a worker on it, however
\* many workers are lost (acks_late, _enqueue_dispatch after commit).
THEOREM NothingForgotten ==
  ASSUME BrokerUp = TRUE
  PROVE Spec => []NoneForgotten
<1>1. Init => NoneForgotten
  BY DEF Init, NoneForgotten, Absent
<1> QED BY <1>1, NoneForgottenStep, DeliveryInitInv, DeliveryStepInv, PTL DEF Spec

\* The workers a delivery may still go out from, the ids issued for it, and
\* all that can still reach somebody or did: the row not yet made, its tasks,
\* those workers, what was shown and what the provider took.
Unsent(d) == {w \in Workers : job[w].of = d /\ job[w].step \in {"begin", "send"}}
IssuedFor(d) == {k \in DOMAIN issued : issued[k] = d}
Unmade(d) == IF delivery[d].state = "none" THEN 1 ELSE 0
Load(d) == Unmade(d) + tasks[d] + Cardinality(Unsent(d)) + shown[d] + Cardinality(IssuedFor(d))

Explained ==
  \A d \in Deliveries :
    ChannelOf[d] # "email" => IsFiniteSet(Unsent(d)) /\ Load(d) <= 1 + retried[d] + faults

\* The numbers the load is made of, and what was sent of a delivery that is not
\* an e-mail.
LEMMA LoadParts ==
  ASSUME DInv, NEW d \in Deliveries
  PROVE /\ tasks[d] \in Nat /\ shown[d] \in Nat /\ retried[d] \in Nat /\ faults \in Nat
        /\ Unmade(d) \in {0, 1} /\ IsFiniteSet(IssuedFor(d)) /\ Cardinality(IssuedFor(d)) \in Nat
        /\ Sends(d, {}) = shown[d] + Cardinality(IssuedFor(d))
<1>1. /\ tasks[d] \in Nat /\ shown[d] \in Nat /\ retried[d] \in Nat /\ Len(issued) \in Nat
      /\ DOMAIN issued = 1 .. Len(issued)
  BY FineNow DEF LogFine
<1>2. faults \in Nat
  BY OutboxAssumption DEF DInv, OInv, OutboxTypeOK
<1>3. IsFiniteSet(1 .. Len(issued))
  BY <1>1, FS_Interval
<1>4. IssuedFor(d) \subseteq 1 .. Len(issued)
  BY <1>1 DEF IssuedFor
<1>5. IsFiniteSet(IssuedFor(d)) /\ Cardinality(IssuedFor(d)) \in Nat
  BY <1>3, <1>4, FS_Subset, FS_CardinalityType
<1>6. MapThenSumSet(LAMBDA m : copies[m], {}) = 0
  <2>1. MapThenSumSet(LAMBDA m : copies[m], {}) = SumFunctionOnSet(copies, {})
    BY MapSum
  <2> QED BY <2>1, SumEmpty
<1>7. Sends(d, {}) = shown[d] + Cardinality(IssuedFor(d))
  BY <1>1, <1>5, <1>6 DEF Sends, IssuedFor
<1> QED BY <1>1, <1>2, <1>5, <1>7 DEF Unmade

\* A step of one worker changes the number of workers a delivery may still go
\* out from by that worker at most.
LEMMA OneWorkerCounts ==
  ASSUME NEW d, NEW w \in Workers, IsFiniteSet(Unsent(d)),
         \A v \in Workers \ {w} : job'[v] = job[v]
  PROVE /\ IsFiniteSet(Unsent(d)') /\ Cardinality(Unsent(d)) \in Nat
        /\ Cardinality(Unsent(d)') + (IF w \in Unsent(d) THEN 1 ELSE 0)
             = Cardinality(Unsent(d)) + (IF w \in Unsent(d)' THEN 1 ELSE 0)
<1>1. Unsent(d)' \ {w} = Unsent(d) \ {w}
  BY DEF Unsent
<1>2. Cardinality(Unsent(d)) \in Nat
  BY FS_CardinalityType
<1>3. CASE (w \in Unsent(d)) <=> w \in Unsent(d)'
  <2>1. Unsent(d)' = Unsent(d)
    BY <1>1, <1>3
  <2> QED BY <1>2, <1>3, <2>1
<1>4. CASE w \in Unsent(d) /\ w \notin Unsent(d)'
  <2>1. Unsent(d)' = Unsent(d) \ {w}
    BY <1>1, <1>4
  <2> QED BY <1>2, <1>4, <2>1, FS_RemoveElement
<1>5. CASE w \notin Unsent(d) /\ w \in Unsent(d)'
  <2>1. Unsent(d)' = Unsent(d) \cup {w}
    BY <1>1, <1>5
  <2>2. IsFiniteSet(Unsent(d) \cup {w}) /\ Cardinality(Unsent(d) \cup {w}) = Cardinality(Unsent(d)) + 1
    BY <1>5, FS_AddElement
  <2>3. IsFiniteSet(Unsent(d)') /\ Cardinality(Unsent(d)') = Cardinality(Unsent(d)) + 1
    BY <2>1, <2>2, Zenon
  <2> QED BY <1>2, <1>5, <2>3
<1> QED BY <1>3, <1>4, <1>5

\* What was lost stays lost.
LEMMA FaultsGrow ==
  ASSUME DInv, [Next]_vars
  PROVE faults' \in Nat /\ faults' >= faults
<1> USE OutboxAssumption
<1>1. faults \in Nat
  BY DEF DInv, OInv, OutboxTypeOK
<1>2. CASE \E w \in Workers, m \in Messages, taken, told \in BOOLEAN : Converse(w, m, taken, told)
  BY <1>1, <1>2 DEF Converse
<1>3. CASE \E w \in Workers : Lose(w)
  BY <1>1, <1>3 DEF Lose
<1>4. CASE UNCHANGED faults
  BY <1>1, <1>4
<1>5. (\E w \in Workers, m \in Messages, taken, told \in BOOLEAN : Converse(w, m, taken, told))
        \/ (\E w \in Workers : Lose(w)) \/ UNCHANGED faults
  BY StepIsOutboxStep DEF OutboxNext, Queue, Elapse, Take, TakeSweep, TakeTask, TakeInline, Progress,
                          Suppress, Save, outbox
<1> QED BY <1>2, <1>3, <1>4, <1>5

\* No step makes a load grow without a retry, a lost worker or a lost answer:
\* a task, a worker, and what was sent replace each other.
LEMMA ExplainedStep ==
  ASSUME DInv, Explained, [Next]_vars
  PROVE Explained'
<1> USE OutboxAssumption, DeliveryAssumption
<1>0. /\ LogFine /\ job \in [Workers -> JobRecords] /\ delivery \in [Deliveries -> Rows]
      /\ tasks \in [Deliveries -> Nat] /\ retried \in [Deliveries -> Nat]
      /\ shown \in [Deliveries -> Nat] /\ faults \in Nat /\ \A w \in Workers : WorkerFine(w)
      /\ NoJob.step = "none" /\ NoJob \in JobRecords
  <2>1. LogFine /\ job \in [Workers -> JobRecords] /\ \A w \in Workers : WorkerFine(w)
    BY FineNow
  <2>2. /\ delivery \in [Deliveries -> Rows] /\ tasks \in [Deliveries -> Nat]
        /\ retried \in [Deliveries -> Nat] /\ shown \in [Deliveries -> Nat]
    BY <2>1 DEF LogFine
  <2>3. faults \in Nat
    BY DEF DInv, OInv, OutboxTypeOK
  <2>4. NoJob.step = "none" /\ NoJob \in JobRecords
    BY DEF NoJob, JobRecords
  <2> QED BY <2>1, <2>2, <2>3, <2>4
<1> SUFFICES ASSUME NEW d \in Deliveries, ChannelOf[d] # "email"
    PROVE IsFiniteSet(Unsent(d)') /\ Load(d)' <= (1 + retried[d] + faults)'
  BY DEF Explained
<1>1. /\ IsFiniteSet(Unsent(d)) /\ Cardinality(Unsent(d)) \in Nat /\ Load(d) <= 1 + retried[d] + faults
      /\ tasks[d] \in Nat /\ shown[d] \in Nat /\ retried[d] \in Nat /\ Unmade(d) \in {0, 1}
      /\ Cardinality(IssuedFor(d)) \in Nat /\ IsFiniteSet(IssuedFor(d))
  BY LoadParts, FS_CardinalityType DEF Explained
<1>2. /\ tasks'[d] \in Nat /\ shown'[d] \in Nat /\ retried'[d] \in Nat /\ Unmade(d)' \in {0, 1}
      /\ Cardinality(IssuedFor(d)') \in Nat /\ faults' \in Nat /\ faults' >= faults
  <2>1. LogFine'
    <3>1. DInv'
      BY DeliveryStepInv
    <3> QED BY <3>1 DEF DInv, DeliveryTypeOK, Rows, LogFine
  <2>2. IsFiniteSet(IssuedFor(d)')
    <3>1. Len(issued') \in Nat /\ DOMAIN issued' = 1 .. Len(issued')
      BY <2>1 DEF LogFine
    <3>2. IssuedFor(d)' \subseteq 1 .. Len(issued')
      BY <3>1 DEF IssuedFor
    <3>3. IsFiniteSet(1 .. Len(issued'))
      BY <3>1, FS_Interval
    <3> QED BY <3>2, <3>3, FS_Subset
  <2>3. faults' \in Nat /\ faults' >= faults
    BY FaultsGrow
  <2> QED BY <2>1, <2>2, <2>3, FS_CardinalityType DEF LogFine, Unmade
<1> DEFINE Goal == IsFiniteSet(Unsent(d)') /\ Load(d)' <= (1 + retried[d] + faults)'
<1>3. ASSUME Unsent(d)' = Unsent(d), IssuedFor(d)' = IssuedFor(d), shown'[d] = shown[d],
             Unmade(d)' + tasks'[d] + retried[d] + faults <= Unmade(d) + tasks[d] + retried'[d] + faults'
      PROVE Goal
  BY <1>0, <1>1, <1>2, <1>3 DEF Load
<1>4. ASSUME NEW w \in Workers, \A v \in Workers \ {w} : job'[v] = job[v],
             Unmade(d)' <= Unmade(d), retried'[d] = retried[d],
             tasks'[d] + (IF w \in Unsent(d)' THEN 1 ELSE 0) + shown'[d] + Cardinality(IssuedFor(d)') + faults
               <= tasks[d] + (IF w \in Unsent(d) THEN 1 ELSE 0) + shown[d] + Cardinality(IssuedFor(d)) + faults'
      PROVE Goal
  <2>1. /\ IsFiniteSet(Unsent(d)')
        /\ Cardinality(Unsent(d)') + (IF w \in Unsent(d) THEN 1 ELSE 0)
             = Cardinality(Unsent(d)) + (IF w \in Unsent(d)' THEN 1 ELSE 0)
    BY <1>1, <1>4, OneWorkerCounts
  <2>2. Cardinality(Unsent(d)') \in Nat
    BY <2>1, FS_CardinalityType
  <2> QED BY <1>0, <1>1, <1>2, <1>4, <2>1, <2>2 DEF Load
<1>5. ASSUME UNCHANGED <<delivery, tasks, job, issued, shown, retried>>
      PROVE Goal
  <2>1. Unsent(d)' = Unsent(d) /\ IssuedFor(d)' = IssuedFor(d) /\ Unmade(d)' = Unmade(d)
    BY <1>5 DEF Unsent, IssuedFor, Unmade
  <2> QED BY <1>0, <1>1, <1>2, <1>3, <1>5, <2>1
<1>6. ASSUME NEW e \in Deliveries, Create(e) \/ Leave(e)
      PROVE Goal
  <2>1. CASE Create(e)
    <3>0. /\ UNCHANGED <<job, issued, shown, retried, faults>> /\ delivery[e].state = "none"
          /\ delivery' = [delivery EXCEPT ![e] = Created] /\ Created.state = "queued"
          /\ tasks' = [tasks EXCEPT ![e] = @ + 1] \/ tasks' = tasks
      BY <2>1 DEF Create, Absent, Created, Enqueued, outbox
    <3>1. Unsent(d)' = Unsent(d) /\ IssuedFor(d)' = IssuedFor(d)
      BY <3>0 DEF Unsent, IssuedFor
    <3>2. CASE e = d
      <4>1. Unmade(d) = 1 /\ Unmade(d)' = 0 /\ tasks'[d] <= tasks[d] + 1
        BY <1>0, <3>0, <3>2 DEF Unmade
      <4> QED BY <1>0, <1>1, <1>2, <1>3, <3>0, <3>1, <4>1
    <3>3. CASE e # d
      <4>1. Unmade(d)' = Unmade(d) /\ tasks'[d] = tasks[d]
        BY <1>0, <3>0, <3>3 DEF Unmade
      <4> QED BY <1>0, <1>1, <1>3, <3>0, <3>1, <4>1
    <3> QED BY <3>2, <3>3
  <2>2. CASE Leave(e)
    BY <1>0, <1>5, <2>2 DEF Leave, outbox
  <2> QED BY <1>6, <2>1, <2>2
<1>7. ASSUME NEW w \in Workers, NEW e \in Deliveries, TakeDispatch(w, e)
      PROVE Goal
  <2>0. /\ job[w] = NoJob /\ tasks' = [tasks EXCEPT ![e] = @ - 1] /\ tasks[e] > 0 /\ tasks[e] \in Nat
        /\ UNCHANGED <<delivery, issued, shown, retried, faults>>
    BY <1>0, <1>7 DEF TakeDispatch, Idling, outbox
  <2>1. PICK j : job' = [job EXCEPT ![w] = j] /\ (j.of = d => e = d \/ j = job[w])
    <3>1. CASE Dispatchable(delivery[e])
      <4>1. PICK j : j = [step |-> "begin", of |-> e, id |-> 0, willing |-> reachable[e]]
        OBVIOUS
      <4>2. job' = [job EXCEPT ![w] = j] /\ j.of = e
        BY <1>7, <3>1, <4>1 DEF TakeDispatch
      <4> QED BY <4>2
    <3>2. CASE ~Dispatchable(delivery[e])
      <4>1. job' = [job EXCEPT ![w] = job[w]]
        BY <1>0, <1>7, <3>2 DEF TakeDispatch
      <4> QED BY <4>1
    <3> QED BY <3>1, <3>2
  <2>2. job'[w] = j /\ \A v \in Workers \ {w} : job'[v] = job[v]
    BY <1>0, <2>1
  <2>3. w \notin Unsent(d) /\ (w \in Unsent(d)' => e = d)
    BY <1>0, <2>0, <2>1, <2>2 DEF Unsent
  <2>4. Unmade(d)' = Unmade(d) /\ IssuedFor(d)' = IssuedFor(d)
    BY <2>0 DEF Unmade, IssuedFor
  <2>5. CASE e = d
    <3>1. tasks'[d] = tasks[d] - 1
      BY <1>0, <2>0, <2>5
    <3> QED BY <1>0, <1>1, <1>4, <2>0, <2>2, <2>3, <2>4, <3>1
  <2>6. CASE e # d
    <3>1. tasks'[d] = tasks[d]
      BY <1>0, <2>0, <2>6
    <3> QED BY <1>0, <1>1, <1>4, <2>0, <2>2, <2>3, <2>4, <2>6, <3>1
  <2> QED BY <2>5, <2>6
<1>8. ASSUME NEW w \in Workers, \A v \in Workers \ {w} : job'[v] = job[v],
             w \in Unsent(d)' => w \in Unsent(d),
             delivery'[d].state = delivery[d].state \/ delivery'[d].state # "none",
             UNCHANGED <<tasks, issued, shown, retried>>
      PROVE Goal
  <2>1. Unmade(d)' <= Unmade(d) /\ IssuedFor(d)' = IssuedFor(d)
    BY <1>8 DEF Unmade, IssuedFor
  <2> QED BY <1>0, <1>1, <1>2, <1>4, <1>8, <2>1
<1>9. ASSUME NEW w \in Workers, Begin(w)
      PROVE Goal
  <2>1. PICK e \in Deliveries : e = job[w].of
    BY <1>0, <1>9 DEF Begin, WorkerFine
  <2>2. /\ delivery' = [delivery EXCEPT ![e].state = "processing"] /\ job[w].step = "begin"
        /\ job' = [job EXCEPT ![w].step = "send"] /\ UNCHANGED <<tasks, issued, shown, retried, faults>>
    BY <1>9, <2>1 DEF Begin, outbox
  <2>3. delivery'[d].state = delivery[d].state \/ delivery'[d].state # "none"
    BY <1>0, <2>2 DEF Rows
  <2>4. /\ job'[w].of = job[w].of /\ job'[w].step = "send"
        /\ \A v \in Workers \ {w} : job'[v] = job[v]
    BY <1>0, <2>2 DEF JobRecords
  <2>5. w \in Unsent(d)' => w \in Unsent(d)
    BY <2>2, <2>4 DEF Unsent
  <2> QED BY <1>0, <1>8, <2>2, <2>3, <2>4, <2>5
<1>10. ASSUME NEW w \in Workers, Conclude(w)
       PROVE Goal
  <2>1. PICK e \in Deliveries : e = job[w].of
    BY <1>0, <1>10 DEF Conclude, WorkerFine
  <2>2. /\ delivery' = [delivery EXCEPT ![e] = [@ EXCEPT !.state = job[w].step, !.id = job[w].id]]
        /\ job[w].step \in {"sent", "failed"}
        /\ job' = [job EXCEPT ![w] = NoJob] /\ UNCHANGED <<tasks, issued, shown, retried, faults>>
    BY <1>10, <2>1 DEF Conclude, outbox
  <2>3. delivery'[d].state = delivery[d].state \/ delivery'[d].state # "none"
    BY <1>0, <2>2 DEF Rows
  <2>4. job'[w].step = "none" /\ \A v \in Workers \ {w} : job'[v] = job[v]
    BY <1>0, <2>2
  <2>5. w \in Unsent(d)' => w \in Unsent(d)
    BY <2>4 DEF Unsent
  <2> QED BY <1>0, <1>8, <2>2, <2>3, <2>4, <2>5
<1>11. ASSUME NEW w \in Workers, MailProgress(w)
       PROVE Goal
  <2>1. job[w].step = "mail" /\ UNCHANGED <<delivery, tasks, issued, shown, retried>>
    BY <1>11 DEF MailProgress
  <2>3. (\E step \in {"sent", "failed"} : job' = [job EXCEPT ![w].step = step]) \/ job' = job
    BY <1>11 DEF MailProgress, Mailed
  <2>4. job'[w].step \notin {"begin", "send"} /\ \A v \in Workers \ {w} : job'[v] = job[v]
    BY <1>0, <2>1, <2>3 DEF JobRecords
  <2>5. w \in Unsent(d)' => w \in Unsent(d)
    BY <2>4 DEF Unsent
  <2> QED BY <1>8, <2>1, <2>4, <2>5
<1>12. ASSUME NEW w \in Workers, NEW m \in Messages, WriteMail(w, m)
       PROVE Goal
  <2>1. PICK e \in Deliveries : e = job[w].of
    BY <1>0, <1>12 DEF WriteMail, WorkerFine
  <2>2. /\ delivery' = [delivery EXCEPT ![e].mail = m]
        /\ job' = [job EXCEPT ![w].step = "mail"] /\ UNCHANGED <<tasks, issued, shown, retried, faults>>
    BY <1>12, <2>1 DEF WriteMail, TakeInline
  <2>3. delivery'[d].state = delivery[d].state
    BY <1>0, <2>2 DEF Rows
  <2>4. job'[w].step = "mail" /\ \A v \in Workers \ {w} : job'[v] = job[v]
    BY <1>0, <2>2 DEF JobRecords
  <2>5. w \in Unsent(d)' => w \in Unsent(d)
    BY <2>4 DEF Unsent
  <2> QED BY <1>0, <1>8, <2>2, <2>3, <2>4, <2>5
<1>13. ASSUME NEW w \in Workers, NEW outcome \in {"sent", "failed"}, NEW n, Concluding(w, outcome, n)
       PROVE w \notin Unsent(d)' /\ \A v \in Workers \ {w} : job'[v] = job[v]
  <2>1. PICK j : j = [job[w] EXCEPT !.step = outcome, !.id = n]
    OBVIOUS
  <2>2. job'[w] = j /\ \A v \in Workers \ {w} : job'[v] = job[v]
    BY <1>0, <1>13, <2>1 DEF Concluding
  <2>3. j.step = outcome
    BY <1>0, <2>1 DEF JobRecords
  <2> QED BY <2>2, <2>3 DEF Unsent
<1>14. ASSUME NEW w \in Workers, NEW told \in BOOLEAN, Accept(w, told), job[w].step = "send",
              UNCHANGED <<delivery, tasks, shown, retried>>
       PROVE Goal
  <2>1. PICK e \in Deliveries : e = job[w].of
    BY <1>0, <1>14 DEF WorkerFine
  <2>2. /\ issued' = Append(issued, e) /\ faults' >= faults
        /\ \E outcome \in {"sent", "failed"} : \E n : Concluding(w, outcome, n)
    BY <1>0, <1>14, <2>1 DEF Accept
  <2>3. w \notin Unsent(d)' /\ \A v \in Workers \ {w} : job'[v] = job[v]
    BY <1>13, <2>2
  <2>4. Unmade(d)' = Unmade(d)
    BY <1>14 DEF Unmade
  <2>5. PICK n \in Nat : n = Len(issued) + 1
    BY <1>0 DEF LogFine
  <2>6. /\ DOMAIN issued = 1 .. (n - 1) /\ DOMAIN issued' = 1 .. n /\ issued'[n] = e
        /\ \A k \in 1 .. (n - 1) : issued'[k] = issued[k]
    BY <1>0, <2>2, <2>5 DEF LogFine
  <2>7. tasks'[d] = tasks[d] /\ shown'[d] = shown[d]
    BY <1>14
  <2>8. CASE e = d
    <3>1. IssuedFor(d)' = IssuedFor(d) \cup {n} /\ n \notin IssuedFor(d)
      BY <2>5, <2>6, <2>8 DEF IssuedFor
    <3>2. Cardinality(IssuedFor(d)') = Cardinality(IssuedFor(d)) + 1
      BY <1>1, <3>1, FS_AddElement
    <3>3. w \in Unsent(d)
      BY <1>14, <2>1, <2>8 DEF Unsent
    <3>4. tasks'[d] + (IF w \in Unsent(d)' THEN 1 ELSE 0) + shown'[d] + Cardinality(IssuedFor(d)') + faults
            <= tasks[d] + (IF w \in Unsent(d) THEN 1 ELSE 0) + shown[d] + Cardinality(IssuedFor(d)) + faults'
      BY <1>0, <1>1, <1>2, <2>3, <2>7, <3>2, <3>3
    <3>5. Unmade(d)' <= Unmade(d) /\ retried'[d] = retried[d]
      BY <1>1, <1>14, <2>4
    <3> QED BY <1>4, <2>3, <3>4, <3>5
  <2>9. CASE e # d
    <3>1. IssuedFor(d)' = IssuedFor(d)
      BY <2>5, <2>6, <2>9 DEF IssuedFor
    <3>2. Cardinality(IssuedFor(d)') = Cardinality(IssuedFor(d))
      BY <3>1, Zenon
    <3>4. tasks'[d] + (IF w \in Unsent(d)' THEN 1 ELSE 0) + shown'[d] + Cardinality(IssuedFor(d)') + faults
            <= tasks[d] + (IF w \in Unsent(d) THEN 1 ELSE 0) + shown[d] + Cardinality(IssuedFor(d)) + faults'
      BY <1>0, <1>1, <1>2, <2>3, <2>7, <3>2
    <3>5. Unmade(d)' <= Unmade(d) /\ retried'[d] = retried[d]
      BY <1>1, <1>14, <2>4
    <3> QED BY <1>4, <2>3, <3>4, <3>5
  <2> QED BY <2>8, <2>9
<1>15. ASSUME NEW w \in Workers, SendWhatsApp(w)
       PROVE Goal
  <2>0. job[w].step = "send" /\ UNCHANGED <<tasks, shown, retried>>
    BY <1>15 DEF SendWhatsApp
  <2>1. PICK e \in Deliveries : e = job[w].of
    BY <1>0, <2>0 DEF WorkerFine
  <2>2. CASE /\ delivery' = [delivery EXCEPT ![job[w].of].state = "failed"]
             /\ job' = [job EXCEPT ![w] = NoJob] /\ UNCHANGED <<issued, faults>>
    <3>1. delivery'[d].state = delivery[d].state \/ delivery'[d].state # "none"
      BY <1>0, <2>1, <2>2 DEF Rows
    <3>2. job'[w].step = "none" /\ \A v \in Workers \ {w} : job'[v] = job[v]
      BY <1>0, <2>2
    <3>3. w \notin Unsent(d)'
      BY <3>2 DEF Unsent
    <3> QED BY <1>0, <1>8, <2>0, <2>2, <3>1, <3>2, <3>3
  <2>3. CASE Concluding(w, "failed", 0) /\ UNCHANGED <<delivery, issued, faults>>
    BY <1>0, <1>8, <1>13, <2>0, <2>3
  <2>4. CASE (\E told \in BOOLEAN : Accept(w, told)) /\ UNCHANGED delivery
    BY <1>14, <2>0, <2>4
  <2> QED BY <1>15, <2>2, <2>3, <2>4 DEF SendWhatsApp
<1>16. ASSUME NEW w \in Workers, ShowInApp(w)
       PROVE Goal
  <2>1. PICK e \in Deliveries : e = job[w].of
    BY <1>0, <1>16 DEF ShowInApp, WorkerFine
  <2>2. /\ job[w].step = "send" /\ Concluding(w, "sent", 0)
        /\ shown' = [shown EXCEPT ![e] = @ + 1] \/ shown' = shown
        /\ UNCHANGED <<delivery, tasks, issued, retried, faults>>
    BY <1>16, <2>1 DEF ShowInApp, outbox
  <2>3. w \notin Unsent(d)' /\ \A v \in Workers \ {w} : job'[v] = job[v]
    BY <1>13, <2>2
  <2>4. Unmade(d)' = Unmade(d) /\ IssuedFor(d)' = IssuedFor(d)
    BY <2>2 DEF Unmade, IssuedFor
  <2>5. CASE e = d
    <3>1. w \in Unsent(d)
      BY <2>1, <2>2, <2>5 DEF Unsent
    <3>2. shown'[d] <= shown[d] + 1
      BY <1>0, <2>2
    <3> QED BY <1>0, <1>1, <1>2, <1>4, <2>2, <2>3, <2>4, <3>1, <3>2
  <2>6. CASE e # d
    <3>1. shown'[d] = shown[d]
      BY <1>0, <2>2, <2>6
    <3> QED BY <1>0, <1>1, <1>4, <2>2, <2>3, <2>4, <3>1
  <2> QED BY <2>5, <2>6
<1>17. ASSUME NEW w \in Workers, LoseWorker(w)
       PROVE Goal
  <2>1. /\ faults' = faults + 1 /\ job' = [job EXCEPT ![w] = NoJob]
        /\ UNCHANGED <<delivery, issued, shown, retried>>
    BY <1>17 DEF LoseWorker, Lose
  <2>2. job'[w].step = "none" /\ \A v \in Workers \ {w} : job'[v] = job[v]
    BY <1>0, <2>1
  <2>3. w \notin Unsent(d)' /\ Unmade(d)' = Unmade(d) /\ IssuedFor(d)' = IssuedFor(d)
    BY <2>1, <2>2 DEF Unsent, Unmade, IssuedFor
  <2>4. tasks'[d] <= tasks[d] + 1
    BY <1>0, <1>17 DEF LoseWorker, Redelivered
  <2> QED BY <1>0, <1>1, <1>2, <1>4, <2>1, <2>2, <2>3, <2>4
<1>18. ASSUME NEW w \in Workers, OutboxTask(w)
       PROVE Goal
  BY <1>5, <1>18 DEF OutboxTask, log
<1>19. ASSUME NEW m \in Messages, BackOff(m) \/ OtherMail(m)
       PROVE Goal
  BY <1>0, <1>5, <1>19 DEF BackOff, OtherMail, Elapse, Queue, log
<1>20. ASSUME NEW r \in Requests, NEW e \in Deliveries,
              \/ \E op \in Operations : Ask(r, e, op)
              \/ \E status \in Statuses : Call(r, e, status)
       PROVE Goal
  BY <1>0, <1>5, <1>20 DEF Ask, Call, outbox
<1>21. ASSUME NEW r \in Requests, Ends(r)
       PROVE Goal
  <2>0. PICK e \in Deliveries : e = req[r].of
    BY <1>21 DEF Ends, Retry, Cancel, Callback, DInv, RequestsKnown
  <2>1. PICK state : Writes(r, state) /\ state # "none"
    <3>1. CASE Callback(r)
      <4>1. req[r].status \in Statuses
        BY <3>1 DEF Callback, DInv, RequestsKnown
      <4>2. StateOf(req[r].status) # "none"
        BY <4>1 DEF StateOf, Statuses
      <4> QED BY <3>1, <4>2 DEF Callback
    <3> QED BY <1>21, <3>1 DEF Ends, Retry, Cancel
  <2>2. UNCHANGED <<job, issued, shown, faults>>
    BY <1>21 DEF Ends, Retry, Cancel, Callback, Writes, outbox
  <2>3. Unmade(d)' <= Unmade(d)
    BY <1>0, <2>0, <2>1 DEF Writes, Unmade, Rows
  <2>4. Unsent(d)' = Unsent(d) /\ IssuedFor(d)' = IssuedFor(d)
    BY <2>2 DEF Unsent, IssuedFor
  <2>5. \/ tasks' = tasks /\ retried' = retried
        \/ /\ tasks' = [tasks EXCEPT ![e] = @ + 1] \/ tasks' = tasks
           /\ retried' = [retried EXCEPT ![e] = @ + 1]
    BY <1>21, <2>0 DEF Ends, Retry, Cancel, Callback, Enqueued
  <2>6. tasks'[d] + retried[d] <= tasks[d] + retried'[d]
    <3>1. CASE e = d
      BY <1>0, <2>5, <3>1
    <3>2. CASE e # d
      BY <1>0, <2>5, <3>2
    <3> QED BY <3>1, <3>2
  <2> QED BY <1>0, <1>1, <1>2, <1>3, <2>2, <2>3, <2>4, <2>6
<1>22. CASE UNCHANGED vars
  BY <1>0, <1>5, <1>22 DEF vars, log, outbox
<1> QED BY <1>6, <1>7, <1>9, <1>10, <1>11, <1>12, <1>15, <1>16, <1>17, <1>18, <1>19, <1>20, <1>21, <1>22
        DEF Next, WorkOn, Dispatch

\* A delivery that is no e-mail reaches its recipient once, once more for every
\* retry, and otherwise only as often as a worker or an answer was lost, for any
\* number of workers, requests and losses, and a broker that may be unreachable
\* (dispatch_delivery, retry_delivery, acks_late).
THEOREM SendsAreExplained == Spec => []SendsExplained
<1>1. Init => Explained
  <2> SUFFICES ASSUME Init, NEW d \in Deliveries
      PROVE IsFiniteSet(Unsent(d)) /\ Load(d) <= 1 + retried[d] + faults
    BY DEF Explained
  <2>1. Unsent(d) = {} /\ IssuedFor(d) = {}
    BY DEF Init, Unsent, IssuedFor, NoJob
  <2>2. IsFiniteSet({}) /\ Cardinality({}) = 0
    BY FS_EmptySet
  <2> QED BY <2>1, <2>2 DEF Init, OutboxInit, Load, Unmade, Absent
<1>2. DInv /\ Explained => SendsExplained
  <2> SUFFICES ASSUME DInv, Explained, NEW d \in Deliveries, ChannelOf[d] # "email"
      PROVE Sends(d, {}) <= 1 + retried[d] + faults
    BY DEF SendsExplained
  <2>1. IsFiniteSet(Unsent(d)) /\ Cardinality(Unsent(d)) \in Nat /\ Load(d) <= 1 + retried[d] + faults
    BY FS_CardinalityType DEF Explained
  <2> QED BY <2>1, LoadParts DEF Load
<1> QED BY <1>1, <1>2, ExplainedStep, DeliveryInitInv, DeliveryStepInv, PTL DEF Spec

\* What is known of a delivery by WhatsApp once it, a worker or a callback says
\* that it went out: the provider took it.
Claimed(d) ==
  \/ delivery[d].state \in {"sent", "delivered"}
  \/ \E w \in Workers : job[w].of = d /\ job[w].step = "sent"
  \/ \E r \in Requests : req[r].of = d /\ req[r].op = "callback"

ClaimsTrue == \A d \in Deliveries : ChannelOf[d] = "whatsapp" /\ Claimed(d) => IssuedFor(d) # {}

\* Only e-mails are mailed.
OnlyMailMailed == \A w \in Workers : job[w].step = "mail" => ChannelOf[job[w].of] = "email"

(* Every step keeps the mailing of messages with the deliveries that are e-mail. *)
LEMMA OnlyMailMailedStep ==
  ASSUME DInv, OnlyMailMailed, [Next]_vars
  PROVE OnlyMailMailed'
<1>0. job \in [Workers -> JobRecords]
  BY FineNow
<1>1. ASSUME NEW w \in Workers, NEW j, job' = [job EXCEPT ![w] = j],
             j.step = "mail" => ChannelOf[j.of] = "email"
      PROVE OnlyMailMailed'
  BY <1>0, <1>1 DEF OnlyMailMailed
<1>2. CASE job' = job
  BY <1>2 DEF OnlyMailMailed
<1>3. NoJob.step = "none"
  BY DEF NoJob
<1>4. ASSUME NEW w \in Workers, NEW step \in {"send", "sent", "failed"}, job' = [job EXCEPT ![w].step = step]
      PROVE OnlyMailMailed'
  BY <1>0, <1>4 DEF OnlyMailMailed, JobRecords
<1>5. ASSUME NEW w \in Workers, NEW step \in {"sent", "failed"}, NEW n, Concluding(w, step, n)
      PROVE OnlyMailMailed'
  BY <1>0, <1>5 DEF OnlyMailMailed, JobRecords, Concluding
<1>6. ASSUME NEW w \in Workers, NEW m \in Messages, WriteMail(w, m)
      PROVE OnlyMailMailed'
  BY <1>0, <1>6 DEF OnlyMailMailed, JobRecords, WriteMail
<1>7. ASSUME NEW w \in Workers, NEW d \in Deliveries, TakeDispatch(w, d)
      PROVE OnlyMailMailed'
  <2>1. CASE Dispatchable(delivery[d])
    <3>1. PICK j : j = [step |-> "begin", of |-> d, id |-> 0, willing |-> reachable[d]]
      OBVIOUS
    <3>2. job' = [job EXCEPT ![w] = j] /\ j.step = "begin"
      BY <1>7, <2>1, <3>1 DEF TakeDispatch
    <3> QED BY <1>1, <3>2
  <2>2. CASE ~Dispatchable(delivery[d])
    BY <1>2, <1>7, <2>2 DEF TakeDispatch
  <2> QED BY <2>1, <2>2
<1>8. ASSUME NEW w \in Workers, SendWhatsApp(w)
      PROVE OnlyMailMailed'
  BY <1>1, <1>3, <1>5, <1>8 DEF SendWhatsApp, Accept
<1>9. ASSUME NEW w \in Workers, Begin(w) \/ MailProgress(w) \/ ShowInApp(w) \/ Conclude(w) \/ LoseWorker(w)
      PROVE OnlyMailMailed'
  <2>1. CASE Begin(w)
    BY <1>4, <2>1 DEF Begin
  <2>2. CASE MailProgress(w)
    BY <1>2, <1>4, <2>2 DEF MailProgress, Mailed
  <2>3. CASE ShowInApp(w)
    BY <1>5, <2>3 DEF ShowInApp
  <2>4. CASE Conclude(w) \/ LoseWorker(w)
    BY <1>1, <1>3, <2>4 DEF Conclude, LoseWorker
  <2> QED BY <1>9, <2>1, <2>2, <2>3, <2>4
<1>10. CASE \/ \E d \in Deliveries : Create(d) \/ Leave(d)
            \/ \E m \in Messages : BackOff(m) \/ OtherMail(m)
            \/ \E w \in Workers : OutboxTask(w)
            \/ \E r \in Requests, d \in Deliveries :
                 \/ \E op \in Operations : Ask(r, d, op)
                 \/ \E status \in Statuses : Call(r, d, status)
            \/ \E r \in Requests : Ends(r)
            \/ UNCHANGED vars
  <2>1. job' = job
    BY <1>10 DEF Create, Leave, BackOff, OtherMail, OutboxTask, Ask, Call, Ends, Retry, Cancel, Callback,
                 Writes, log, vars
  <2> QED BY <1>2, <2>1
<1> QED BY <1>6, <1>7, <1>8, <1>9, <1>10 DEF Next, WorkOn, Dispatch

\* Nobody says a WhatsApp message went out before the provider took it.
LEMMA ClaimsTrueStep ==
  ASSUME DInv, OnlyMailMailed, ClaimsTrue, [Next]_vars
  PROVE ClaimsTrue'
<1> USE OutboxAssumption, DeliveryAssumption
<1>0. /\ LogFine /\ job \in [Workers -> JobRecords] /\ delivery \in [Deliveries -> Rows]
      /\ issued \in Seq(Deliveries) /\ \A w \in Workers : WorkerFine(w)
      /\ NoJob.step = "none" /\ req \in [Requests -> [op : {"none", "retry", "cancel", "callback"},
                           of : Deliveries \cup {Nothing}, status : Statuses \cup {"none"}]]
  BY FineNow DEF LogFine, NoJob, DInv, DeliveryTypeOK
<1> SUFFICES ASSUME NEW d \in Deliveries, ChannelOf[d] = "whatsapp", IssuedFor(d)' = {}
    PROVE ~Claimed(d)'
  BY DEF ClaimsTrue
<1>1. IssuedFor(d) \subseteq IssuedFor(d)'
  <2>1. CASE issued' = issued
    BY <2>1 DEF IssuedFor
  <2>2. ASSUME NEW w \in Workers, NEW told, Accept(w, told), job[w].step = "send"
        PROVE IssuedFor(d) \subseteq IssuedFor(d)'
    <3>1. PICK e \in Deliveries : e = job[w].of
      BY <1>0, <2>2 DEF WorkerFine
    <3>2. issued' = Append(issued, e)
      BY <2>2, <3>1 DEF Accept
    <3> QED BY <1>0, <3>2 DEF IssuedFor
  <2>3. issued' = issued \/ \E w \in Workers, told \in BOOLEAN : Accept(w, told) /\ job[w].step = "send"
    BY DEF Next, Create, Leave, WorkOn, OutboxTask, Dispatch, Begin, MailProgress, SendWhatsApp, ShowInApp,
           Conclude, WriteMail, TakeDispatch, LoseWorker, BackOff, OtherMail, Ask, Call, Ends, Retry,
           Cancel, Callback, Writes, log, vars
  <2> QED BY <2>1, <2>2, <2>3
<1>2. /\ IssuedFor(d) = {} /\ delivery[d].state \notin {"sent", "delivered"}
      /\ \A w \in Workers : job[w].of = d => job[w].step # "sent"
      /\ \A r \in Requests : req[r].of = d => req[r].op # "callback"
  BY <1>1 DEF ClaimsTrue, Claimed
<1>3. ASSUME delivery'[d].state \notin {"sent", "delivered"}, req' = req,
             \A w \in Workers : job'[w].of = d => job'[w].step # "sent"
      PROVE ~Claimed(d)'
  BY <1>2, <1>3 DEF Claimed
<1>4. ASSUME NEW w \in Workers, NEW j, job' = [job EXCEPT ![w] = j], j.of = d => j.step # "sent",
             req' = req, delivery'[d].state \notin {"sent", "delivered"}
      PROVE ~Claimed(d)'
  BY <1>0, <1>2, <1>3, <1>4
<1>5. ASSUME delivery' = delivery, job' = job, req' = req
      PROVE ~Claimed(d)'
  BY <1>2, <1>3, <1>5
<1>6. ASSUME NEW e \in Deliveries, Create(e) \/ Leave(e)
      PROVE ~Claimed(d)'
  <2>1. delivery'[d].state \notin {"sent", "delivered"} /\ UNCHANGED <<job, req>>
    BY <1>0, <1>2, <1>6 DEF Create, Created, Leave
  <2> QED BY <1>2, <1>3, <2>1
<1>7. ASSUME NEW w \in Workers, NEW e \in Deliveries, TakeDispatch(w, e)
      PROVE ~Claimed(d)'
  <2>0. UNCHANGED <<delivery, req>>
    BY <1>7 DEF TakeDispatch
  <2>1. CASE Dispatchable(delivery[e])
    <3>1. PICK j : j = [step |-> "begin", of |-> e, id |-> 0, willing |-> reachable[e]]
      OBVIOUS
    <3>2. job' = [job EXCEPT ![w] = j] /\ j.step = "begin"
      BY <1>7, <2>1, <3>1 DEF TakeDispatch
    <3> QED BY <1>2, <1>4, <2>0, <3>2
  <2>2. CASE ~Dispatchable(delivery[e])
    BY <1>5, <1>7, <2>0, <2>2 DEF TakeDispatch
  <2> QED BY <2>1, <2>2
<1>8. ASSUME NEW w \in Workers, NEW step, NEW n, job' = [job EXCEPT ![w] = [@ EXCEPT !.step = step, !.id = n]],
             step = "sent" => job[w].of # d, req' = req,
             delivery'[d].state \notin {"sent", "delivered"}
      PROVE ~Claimed(d)'
  <2>1. PICK j : j = [job[w] EXCEPT !.step = step, !.id = n]
    OBVIOUS
  <2>2. j.of = job[w].of /\ j.step = step /\ job' = [job EXCEPT ![w] = j]
    BY <1>0, <1>8, <2>1 DEF JobRecords
  <2> QED BY <1>4, <1>8, <2>2
<1>9. ASSUME NEW w \in Workers, NEW step, job' = [job EXCEPT ![w].step = step],
             step = "sent" => job[w].of # d, req' = req,
             delivery'[d].state \notin {"sent", "delivered"}
      PROVE ~Claimed(d)'
  <2>1. PICK j : j = [job[w] EXCEPT !.step = step]
    OBVIOUS
  <2>2. j.of = job[w].of /\ j.step = step /\ job' = [job EXCEPT ![w] = j]
    BY <1>0, <1>9, <2>1 DEF JobRecords
  <2> QED BY <1>4, <1>9, <2>2
<1>10. ASSUME NEW w \in Workers, Begin(w)
       PROVE ~Claimed(d)'
  <2>1. PICK e \in Deliveries : e = job[w].of
    BY <1>0, <1>10 DEF Begin, WorkerFine
  <2>2. /\ delivery' = [delivery EXCEPT ![e].state = "processing"]
        /\ job' = [job EXCEPT ![w].step = "send"] /\ req' = req
    BY <1>10, <2>1 DEF Begin
  <2>3. delivery'[d].state \notin {"sent", "delivered"}
    BY <1>0, <1>2, <2>2 DEF Rows
  <2> QED BY <1>9, <2>2, <2>3
<1>11. ASSUME NEW w \in Workers, NEW m \in Messages, WriteMail(w, m)
       PROVE ~Claimed(d)'
  <2>1. PICK e \in Deliveries : e = job[w].of
    BY <1>0, <1>11 DEF WriteMail, WorkerFine
  <2>2. /\ delivery' = [delivery EXCEPT ![e].mail = m]
        /\ job' = [job EXCEPT ![w].step = "mail"] /\ req' = req
    BY <1>11, <2>1 DEF WriteMail
  <2>3. delivery'[d].state \notin {"sent", "delivered"}
    BY <1>0, <1>2, <2>2 DEF Rows
  <2> QED BY <1>9, <2>2, <2>3
<1>12. ASSUME NEW w \in Workers, MailProgress(w)
       PROVE ~Claimed(d)'
  <2>1. job[w].step = "mail" /\ UNCHANGED <<delivery, req>>
    BY <1>12 DEF MailProgress
  <2>2. job[w].of # d
    BY <2>1 DEF OnlyMailMailed
  <2>3. (\E step : job' = [job EXCEPT ![w].step = step]) \/ job' = job
    BY <1>12 DEF MailProgress, Mailed
  <2> QED BY <1>2, <1>5, <1>9, <2>1, <2>2, <2>3
<1>13. ASSUME NEW w \in Workers, SendWhatsApp(w)
       PROVE ~Claimed(d)'
  <2>1. PICK e \in Deliveries : e = job[w].of
    BY <1>0, <1>13 DEF SendWhatsApp, WorkerFine
  <2>2. req' = req
    BY <1>13 DEF SendWhatsApp
  <2>3. CASE /\ delivery' = [delivery EXCEPT ![job[w].of].state = "failed"]
             /\ job' = [job EXCEPT ![w] = NoJob]
    <3>1. delivery'[d].state \notin {"sent", "delivered"}
      BY <1>0, <1>2, <2>1, <2>3 DEF Rows
    <3> QED BY <1>0, <1>4, <2>2, <2>3, <3>1
  <2>4. CASE Concluding(w, "failed", 0) /\ UNCHANGED delivery
    <3>1. PICK step, n : job' = [job EXCEPT ![w] = [@ EXCEPT !.step = step, !.id = n]] /\ step = "failed"
      BY <2>4 DEF Concluding
    <3>2. delivery'[d].state \notin {"sent", "delivered"} /\ step # "sent"
      BY <1>2, <2>4, <3>1
    <3> QED BY <1>8, <2>2, <3>1, <3>2, Zenon
  <2>5. ASSUME NEW told \in BOOLEAN, Accept(w, told), UNCHANGED delivery
        PROVE ~Claimed(d)'
    <3>1. issued' = Append(issued, e)
      BY <2>1, <2>5 DEF Accept
    <3>2. e # d
      <4> SUFFICES ASSUME e = d PROVE Len(issued) + 1 \in IssuedFor(d)'
        OBVIOUS
      <4> QED BY <1>0, <3>1 DEF IssuedFor
    <3>3. \E step, n : job' = [job EXCEPT ![w] = [@ EXCEPT !.step = step, !.id = n]]
      BY <2>5 DEF Accept, Concluding
    <3> QED BY <1>2, <1>8, <2>1, <2>2, <2>5, <3>2, <3>3
  <2> QED BY <1>13, <2>3, <2>4, <2>5 DEF SendWhatsApp
<1>14. ASSUME NEW w \in Workers, ShowInApp(w)
       PROVE ~Claimed(d)'
  <2>1. job[w].of # d /\ UNCHANGED <<delivery, req>> /\ Concluding(w, "sent", 0)
    BY <1>14 DEF ShowInApp
  <2> QED BY <1>2, <1>8, <2>1 DEF Concluding
<1>15. ASSUME NEW w \in Workers, Conclude(w)
       PROVE ~Claimed(d)'
  <2>1. PICK e \in Deliveries : e = job[w].of
    BY <1>0, <1>15 DEF Conclude, WorkerFine
  <2>2. /\ delivery' = [delivery EXCEPT ![e] = [@ EXCEPT !.state = job[w].step, !.id = job[w].id]]
        /\ job[w].step \in {"sent", "failed"} /\ job' = [job EXCEPT ![w] = NoJob] /\ req' = req
    BY <1>15, <2>1 DEF Conclude
  <2>3. e = d => job[w].step = "failed"
    BY <1>2, <2>1, <2>2
  <2>4. delivery'[d].state \notin {"sent", "delivered"}
    BY <1>0, <1>2, <2>2, <2>3 DEF Rows
  <2> QED BY <1>0, <1>4, <2>2, <2>4
<1>16. ASSUME NEW w \in Workers, LoseWorker(w)
       PROVE ~Claimed(d)'
  <2>1. job' = [job EXCEPT ![w] = NoJob] /\ UNCHANGED <<delivery, req>>
    BY <1>16 DEF LoseWorker
  <2> QED BY <1>0, <1>2, <1>4, <2>1
<1>17. ASSUME NEW w \in Workers, OutboxTask(w)
       PROVE ~Claimed(d)'
  BY <1>5, <1>17 DEF OutboxTask, log
<1>18. ASSUME NEW m \in Messages, BackOff(m) \/ OtherMail(m)
       PROVE ~Claimed(d)'
  BY <1>5, <1>18 DEF BackOff, OtherMail, log
<1>19. ASSUME NEW r \in Requests, NEW q, req' = [req EXCEPT ![r] = q], q.of = d => q.op # "callback",
              delivery'[d].state \notin {"sent", "delivered"}, job' = job
       PROVE ~Claimed(d)'
  BY <1>0, <1>2, <1>19 DEF Claimed
<1>20. ASSUME NEW r \in Requests, NEW e \in Deliveries, NEW op \in Operations, Ask(r, e, op)
       PROVE ~Claimed(d)'
  <2>1. PICK q : q = [op |-> op, of |-> e, status |-> "none"]
    OBVIOUS
  <2>2. q.op # "callback" /\ req' = [req EXCEPT ![r] = q] /\ UNCHANGED <<delivery, job>>
    BY <1>20, <2>1 DEF Ask
  <2> QED BY <1>2, <1>19, <2>2
<1>21. ASSUME NEW r \in Requests, NEW e \in Deliveries, NEW status \in Statuses, Call(r, e, status)
       PROVE ~Claimed(d)'
  <2>1. PICK q : q = [op |-> "callback", of |-> e, status |-> status]
    OBVIOUS
  <2>2. q.of = e /\ req' = [req EXCEPT ![r] = q] /\ UNCHANGED <<delivery, job>> /\ delivery[e].id # 0
    BY <1>21, <2>1 DEF Call
  <2>3. e # d
    <3> SUFFICES ASSUME e = d PROVE delivery[d].id \in IssuedFor(d)
      BY <1>2
    <3>1. delivery[d].id <= Len(issued) /\ issued[delivery[d].id] = d /\ delivery[d].id \in Nat \ {0}
      BY <1>0, <2>2 DEF LogFine, Rows
    <3> QED BY <1>0, <3>1 DEF IssuedFor
  <2> QED BY <1>2, <1>19, <2>2, <2>3
<1>22. ASSUME NEW r \in Requests, Ends(r)
       PROVE ~Claimed(d)'
  <2>0. PICK e \in Deliveries : e = req[r].of
    BY <1>22 DEF Ends, Retry, Cancel, Callback, DInv, RequestsKnown
  <2>1. PICK state : Writes(r, state) /\ (e = d => state \notin {"sent", "delivered"})
    <3>1. CASE Callback(r)
      <4>1. e # d
        BY <1>2, <2>0, <3>1 DEF Callback
      <4> QED BY <3>1, <4>1 DEF Callback
    <3> QED BY <1>22, <3>1 DEF Ends, Retry, Cancel
  <2>2. delivery'[d].state \notin {"sent", "delivered"}
    BY <1>0, <1>2, <2>0, <2>1 DEF Writes, Rows
  <2>3. req' = [req EXCEPT ![r] = Idle] /\ job' = job /\ Idle.op = "none"
    BY <2>1 DEF Writes, Idle
  <2> QED BY <1>19, <2>2, <2>3
<1>23. CASE UNCHANGED vars
  BY <1>5, <1>23 DEF vars, log
<1> QED BY <1>6, <1>7, <1>10, <1>11, <1>12, <1>13, <1>14, <1>15, <1>16, <1>17, <1>18, <1>20, <1>21, <1>22,
           <1>23 DEF Next, WorkOn, Dispatch

\* What is known of an e-mail's delivery when no two requests retry it at once:
\* one task or one worker at most is on it, and none once it was sent or has
\* failed, a worker that sends it sends the row the delivery names, nobody says it
\* was sent before the mail server took that row, and a request that retries it
\* still finds it left alone, failed or cancelled since.
Copied(d) == delivery[d].mail \in Messages /\ copies[delivery[d].mail] > 0

AloneOn(d) ==
  /\ tasks[d] <= 1
  /\ \A v, w \in Workers : job[v].of = d /\ job[w].of = d => v = w
  /\ \A w \in Workers : job[w].of = d =>
       /\ tasks[d] = 0 /\ delivery[d].state \notin {"none", "sent", "failed"}
       /\ job[w].step = "sent" => Copied(d)
       /\ job[w].step = "mail" => work[w].todo = {delivery[d].mail}

LeftAlone(d) ==
  delivery[d].state \in {"failed", "cancelled"} /\ tasks[d] = 0 /\ \A w \in Workers : job[w].of # d

MailFine(d) ==
  /\ AloneOn(d)
  /\ delivery[d].state \in {"none", "sent", "failed"} => tasks[d] = 0
  /\ delivery[d].state # "delivered" /\ (delivery[d].state = "sent" => Copied(d))
  /\ \A r \in Requests : req[r].of = d =>
       req[r].op # "callback" /\ (req[r].op = "retry" => LeftAlone(d))

MailsFine == \A d \in Deliveries : ChannelOf[d] = "email" => MailFine(d)

\* No two requests retry the same e-mail at once.
RetriesApart ==
  \A q, r \in Requests :
    (q # r /\ req[q].op = "retry" /\ req[r].op = "retry" /\ req[q].of = req[r].of)
      => ChannelOf[req[r].of] # "email"

(* No step takes back a copy the mail server took. *)
LEMMA CopiesGrow ==
  ASSUME DInv, [Next]_vars
  PROVE copies \in [Messages -> Nat] /\ \A m \in Messages : copies[m] > 0 => copies'[m] > 0
<1>1. copies \in [Messages -> Nat]
  BY DEF DInv, OInv, OutboxTypeOK
<1>2. CASE \E w \in Workers, m \in Messages, taken, told \in BOOLEAN : Converse(w, m, taken, told)
  BY <1>1, <1>2 DEF Converse
<1>3. (\E w \in Workers, m \in Messages, taken, told \in BOOLEAN : Converse(w, m, taken, told))
        \/ UNCHANGED copies
  BY StepIsOutboxStep DEF OutboxNext, Queue, Elapse, Take, TakeSweep, TakeTask, TakeInline, Progress,
                          Suppress, Save, Lose, outbox
<1> QED BY <1>1, <1>2, <1>3

\* Retries that do not meet keep every e-mail to one task or one worker.
LEMMA MailFineStep ==
  ASSUME RetriesApart, DInv, MailsFine, [Next]_vars
  PROVE MailsFine'
<1> USE OutboxAssumption, DeliveryAssumption
<1>0. /\ LogFine /\ job \in [Workers -> JobRecords] /\ delivery \in [Deliveries -> Rows]
      /\ tasks \in [Deliveries -> Nat] /\ work \in [Workers -> Jobs]
      /\ \A w \in Workers : WorkerFine(w) /\ AnswersAreTrue
      /\ NoJob.step = "none" /\ NoJob.of = Nothing
      /\ req \in [Requests -> [op : {"none", "retry", "cancel", "callback"},
                               of : Deliveries \cup {Nothing}, status : Statuses \cup {"none"}]]
      /\ \A m \in Messages : copies[m] > 0 => copies'[m] > 0
  BY FineNow, CopiesGrow DEF LogFine, NoJob, DInv, OInv, OutboxTypeOK, DeliveryTypeOK
<1> SUFFICES ASSUME NEW d \in Deliveries, ChannelOf[d] = "email"
    PROVE MailFine(d)'
  BY DEF MailsFine
<1>1. MailFine(d) /\ tasks[d] \in Nat
  BY <1>0 DEF MailsFine
\* A step that is not about d, or takes a worker off it.
<1>2. ASSUME delivery'[d] = delivery[d], tasks'[d] = tasks[d],
             \A v \in Workers : job'[v].of = d => job'[v] = job[v] /\ work'[v] = work[v],
             \A r \in Requests : req'[r].of = d => req'[r] = req[r]
      PROVE MailFine(d)'
  BY <1>0, <1>1, <1>2 DEF MailFine, AloneOn, LeftAlone, Copied
<1>3. ASSUME NEW w \in Workers, NEW j, job' = [job EXCEPT ![w] = j], j.of # d,
             delivery'[d] = delivery[d], tasks'[d] = tasks[d], req' = req,
             \A v \in Workers \ {w} : work'[v] = work[v]
      PROVE MailFine(d)'
  <2>1. \A v \in Workers : job'[v].of = d => job'[v] = job[v] /\ work'[v] = work[v]
    BY <1>0, <1>3
  <2> QED BY <1>2, <1>3, <2>1
\* A step of the worker on d that leaves it at work on it.
<1>4. ASSUME NEW w \in Workers, NEW j, job' = [job EXCEPT ![w] = j], job[w].of = d, j.of = d,
             delivery'[d].state \notin {"none", "sent", "failed", "delivered"},
             j.step = "sent" => Copied(d)', j.step = "mail" => work'[w].todo = {delivery'[d].mail},
             tasks' = tasks, req' = req
      PROVE MailFine(d)'
  <2>1. job'[w] = j /\ \A v \in Workers : job'[v].of = d => v = w
    BY <1>0, <1>1, <1>4 DEF MailFine, AloneOn
  <2>2. AloneOn(d)'
    BY <1>1, <1>4, <2>1 DEF MailFine, AloneOn
  <2>3. \A r \in Requests : req'[r].of = d => req'[r].op # "callback" /\ req'[r].op # "retry"
    BY <1>1, <1>4 DEF MailFine, LeftAlone
  <2> QED BY <1>4, <2>2, <2>3 DEF MailFine
<1>5. ASSUME NEW e \in Deliveries, Create(e) \/ Leave(e)
      PROVE MailFine(d)'
  <2>1. UNCHANGED <<job, work, req, copies>>
    BY <1>5 DEF Create, Leave, outbox
  <2>2. CASE Create(e) /\ e = d
    <3>1. /\ delivery[d].state = "none" /\ delivery'[d] = Created /\ Created.state = "queued"
          /\ tasks'[d] = tasks[d] + 1 \/ tasks'[d] = tasks[d]
      BY <1>0, <2>2 DEF Create, Absent, Created, Enqueued
    <3>2. tasks[d] = 0 /\ \A w \in Workers : job[w].of # d
      BY <1>1, <3>1 DEF MailFine, AloneOn
    <3>3. \A r \in Requests : req[r].of = d => req[r].op # "callback" /\ req[r].op # "retry"
      BY <1>1, <3>1 DEF MailFine, LeftAlone
    <3> QED BY <2>1, <3>1, <3>2, <3>3 DEF MailFine, AloneOn
  <2>3. CASE Leave(e) \/ (Create(e) /\ e # d)
    <3>1. delivery'[d] = delivery[d] /\ tasks'[d] = tasks[d]
      BY <1>0, <2>3 DEF Create, Leave, Enqueued
    <3> QED BY <1>2, <2>1, <3>1
  <2> QED BY <1>5, <2>2, <2>3
<1>6. ASSUME NEW w \in Workers, NEW e \in Deliveries, TakeDispatch(w, e)
      PROVE MailFine(d)'
  <2>0. /\ job[w] = NoJob /\ tasks' = [tasks EXCEPT ![e] = @ - 1] /\ tasks[e] > 0
        /\ UNCHANGED <<delivery, work, copies, req>>
    BY <1>6 DEF TakeDispatch, Idling, outbox
  <2>1. CASE e # d
    <3>1. PICK j : job' = [job EXCEPT ![w] = j] /\ j.of # d
      <4>1. CASE Dispatchable(delivery[e])
        <5>1. PICK j : j = [step |-> "begin", of |-> e, id |-> 0, willing |-> reachable[e]]
          OBVIOUS
        <5>2. job' = [job EXCEPT ![w] = j] /\ j.of = e
          BY <1>6, <4>1, <5>1 DEF TakeDispatch
        <5> QED BY <2>1, <5>2
      <4>2. CASE ~Dispatchable(delivery[e])
        <5>1. job' = [job EXCEPT ![w] = NoJob] /\ NoJob.of # d
          BY <1>0, <1>6, <2>0, <4>2 DEF TakeDispatch
        <5> QED BY <5>1
      <4> QED BY <4>1, <4>2
    <3>2. tasks'[d] = tasks[d]
      BY <1>0, <2>0, <2>1
    <3> QED BY <1>3, <2>0, <3>1, <3>2
  <2>2. CASE e = d
    <3>1. tasks[d] = 1 /\ tasks'[d] = 0 /\ \A v \in Workers : job[v].of # d
      BY <1>0, <1>1, <2>0, <2>2 DEF MailFine, AloneOn
    <3>2. delivery[d].state \notin {"none", "sent", "failed"}
      BY <1>1, <3>1 DEF MailFine
    <3>3. \A r \in Requests : req[r].of = d => req[r].op # "callback" /\ req[r].op # "retry"
      BY <1>1, <3>1 DEF MailFine, LeftAlone
    <3>4. \A v \in Workers : job'[v].of = d => v = w /\ job'[w].step = "begin"
      <4>1. CASE Dispatchable(delivery[e])
        <5>1. PICK j : j = [step |-> "begin", of |-> e, id |-> 0, willing |-> reachable[e]]
          OBVIOUS
        <5>2. job' = [job EXCEPT ![w] = j] /\ j.step = "begin"
          BY <1>6, <4>1, <5>1 DEF TakeDispatch
        <5> QED BY <1>0, <3>1, <5>2
      <4>2. CASE ~Dispatchable(delivery[e])
        BY <1>6, <3>1, <4>2 DEF TakeDispatch
      <4> QED BY <4>1, <4>2
    <3>5. delivery[d].state # "delivered"
      BY <1>1 DEF MailFine
    <3>6. AloneOn(d)'
      BY <2>0, <3>1, <3>2, <3>4 DEF AloneOn
    <3> QED BY <2>0, <3>2, <3>3, <3>5, <3>6 DEF MailFine
  <2> QED BY <2>1, <2>2
<1>7. ASSUME NEW w \in Workers, Begin(w)
      PROVE MailFine(d)'
  <2>1. PICK e \in Deliveries : e = job[w].of
    BY <1>0, <1>7 DEF Begin, WorkerFine
  <2>2. /\ delivery' = [delivery EXCEPT ![e].state = "processing"]
        /\ job' = [job EXCEPT ![w].step = "send"] /\ UNCHANGED <<tasks, req, work>>
    BY <1>7, <2>1 DEF Begin, outbox
  <2>3. PICK j : j = [job[w] EXCEPT !.step = "send"]
    OBVIOUS
  <2>4. job' = [job EXCEPT ![w] = j] /\ j.of = e /\ j.step = "send"
    BY <1>0, <2>1, <2>2, <2>3 DEF JobRecords
  <2>5. CASE e = d
    <3>1. delivery'[d].state = "processing"
      BY <1>0, <2>2, <2>5 DEF Rows
    <3>2. tasks' = tasks /\ req' = req
      BY <2>2
    <3> QED BY <1>4, <2>1, <2>4, <2>5, <3>1, <3>2
  <2>6. CASE e # d
    <3>1. delivery'[d] = delivery[d]
      BY <1>0, <2>2, <2>6
    <3> QED BY <1>3, <2>2, <2>4, <2>6, <3>1
  <2> QED BY <2>5, <2>6
<1>8. ASSUME NEW w \in Workers, NEW m \in Messages, WriteMail(w, m)
      PROVE MailFine(d)'
  <2>1. PICK e \in Deliveries : e = job[w].of
    BY <1>0, <1>8 DEF WriteMail, WorkerFine
  <2>2. /\ delivery' = [delivery EXCEPT ![e].mail = m]
        /\ job' = [job EXCEPT ![w].step = "mail"] /\ UNCHANGED <<tasks, req>>
        /\ work' = [work EXCEPT ![w] = Holding("inline", {m})]
    BY <1>8, <2>1 DEF WriteMail, TakeInline
  <2>3. PICK j : j = [job[w] EXCEPT !.step = "mail"]
    OBVIOUS
  <2>4. job' = [job EXCEPT ![w] = j] /\ j.of = e /\ j.step = "mail"
    BY <1>0, <2>1, <2>2, <2>3 DEF JobRecords
  <2>5. work'[w].todo = {m} /\ \A v \in Workers \ {w} : work'[v] = work[v]
    BY <1>0, <2>2 DEF Holding
  <2>6. CASE e = d
    <3>1. delivery'[d].state = delivery[d].state /\ delivery'[d].mail = m
      BY <1>0, <2>2, <2>6 DEF Rows
    <3>2. delivery[d].state \notin {"none", "sent", "failed", "delivered"}
      BY <1>1, <2>1, <2>6 DEF MailFine, AloneOn
    <3>3. tasks' = tasks /\ req' = req
      BY <2>2
    <3> QED BY <1>4, <2>1, <2>4, <2>5, <2>6, <3>1, <3>2, <3>3, ZenonT(40)
  <2>7. CASE e # d
    <3>1. delivery'[d] = delivery[d]
      BY <1>0, <2>2, <2>7
    <3> QED BY <1>3, <2>2, <2>4, <2>5, <2>7, <3>1
  <2> QED BY <2>6, <2>7
<1>9. ASSUME NEW w \in Workers, MailProgress(w)
      PROVE MailFine(d)'
  <2>0. /\ job[w].step = "mail" /\ UNCHANGED <<delivery, tasks, req>>
        /\ \A v \in Workers \ {w} : work'[v] = work[v]
    BY <1>0, <1>9 DEF MailProgress, Suppress, Converse, Save
  <2>1. PICK e \in Deliveries : e = job[w].of
    BY <1>0, <2>0 DEF WorkerFine
  <2>2. PICK step \in {"sent", "failed", "mail"} :
          /\ job' = [job EXCEPT ![w].step = step]
          /\ step = "sent" => work[w].at # Nothing /\ work[w].taken
          /\ step = "mail" => work'[w].todo = work[w].todo
    <3>1. ASSUME NEW m \in Messages, Suppress(w, m), Mailed(w, FALSE)
          PROVE job' = [job EXCEPT ![w].step = "failed"]
      BY <3>1 DEF Mailed
    <3>2. ASSUME NEW m \in Messages, NEW taken \in BOOLEAN, NEW told \in BOOLEAN,
                 Converse(w, m, taken, told), UNCHANGED job
          PROVE job' = [job EXCEPT ![w].step = "mail"] /\ work'[w].todo = work[w].todo
      BY <1>0, <2>0, <3>2 DEF Converse, Jobs, JobRecords
    <3>3. ASSUME Save(w), Mailed(w, work[w].taken)
          PROVE \/ job' = [job EXCEPT ![w].step = "failed"]
                \/ /\ job' = [job EXCEPT ![w].step = "sent"]
                   /\ work[w].at # Nothing /\ work[w].taken
      BY <1>0, <3>3 DEF Save, Mailed, Jobs
    <3> QED BY <1>9, <3>1, <3>2, <3>3 DEF MailProgress
  <2>3. PICK j : j = [job[w] EXCEPT !.step = step]
    OBVIOUS
  <2>4. job' = [job EXCEPT ![w] = j] /\ j.of = e /\ j.step = step
    BY <1>0, <2>1, <2>2, <2>3 DEF JobRecords
  <2>5. CASE e = d
    <3>1. work[w].todo = {delivery[d].mail} /\ delivery[d].state \notin {"none", "sent", "failed", "delivered"}
      BY <1>1, <2>0, <2>1, <2>5 DEF MailFine, AloneOn
    <3>2. work[w].task = "inline"
      BY <1>0, <2>0 DEF WorkerFine
    <3>3. work[w].at # Nothing => work[w].at = delivery[d].mail /\ delivery[d].mail \in Messages
      <4>1. PICK n \in Messages : work[w].todo = {n} /\ work[w].at \in {Nothing, n}
        BY <1>0, <3>2 DEF WorkerFine
      <4>2. n = delivery[d].mail
        BY <3>1, <4>1
      <4> QED BY <4>1, <4>2
    <3>4. step = "sent" => Copied(d)'
      BY <1>0, <2>0, <2>2, <3>3 DEF AnswersAreTrue, Copied
    <3>5. step = "mail" => work'[w].todo = {delivery'[d].mail}
      BY <2>0, <2>2, <3>1
    <3>6. /\ delivery'[d].state \notin {"none", "sent", "failed", "delivered"}
          /\ tasks' = tasks /\ req' = req
      BY <2>0, <3>1
    <3> QED BY <1>4, <2>1, <2>4, <2>5, <3>4, <3>5, <3>6
  <2>6. CASE e # d
    BY <1>3, <2>0, <2>4, <2>6
  <2> QED BY <2>5, <2>6
<1>10. ASSUME NEW w \in Workers, SendWhatsApp(w) \/ ShowInApp(w)
       PROVE MailFine(d)'
  <2>1. job[w].of # d /\ UNCHANGED <<tasks, req, work>>
    BY <1>10 DEF SendWhatsApp, ShowInApp, outbox
  <2>2. PICK e \in Deliveries : e = job[w].of
    BY <1>0, <1>10 DEF SendWhatsApp, ShowInApp, WorkerFine
  <2>3. delivery'[d] = delivery[d]
    BY <1>0, <1>10, <2>1, <2>2 DEF SendWhatsApp, ShowInApp
  <2>4. \A v \in Workers \ {w} : job'[v] = job[v]
    BY <1>0, <1>10 DEF SendWhatsApp, ShowInApp, Concluding, Accept
  <2>5. job'[w].of # d
    <3>1. CASE job' = [job EXCEPT ![w] = NoJob]
      BY <1>0, <3>1
    <3>2. ASSUME NEW step, NEW n, job' = [job EXCEPT ![w] = [@ EXCEPT !.step = step, !.id = n]]
          PROVE job'[w].of # d
      BY <1>0, <2>1, <3>2 DEF JobRecords
    <3> QED BY <1>10, <3>1, <3>2, ZenonT(40) DEF SendWhatsApp, ShowInApp, Concluding, Accept
  <2>6. \A v \in Workers : job'[v].of = d => job'[v] = job[v] /\ work'[v] = work[v]
    BY <2>1, <2>4, <2>5
  <2> QED BY <1>2, <2>1, <2>3, <2>6
<1>11. ASSUME NEW w \in Workers, Conclude(w)
       PROVE MailFine(d)'
  <2>1. PICK e \in Deliveries : e = job[w].of
    BY <1>0, <1>11 DEF Conclude, WorkerFine
  <2>2. /\ delivery' = [delivery EXCEPT ![e] = [@ EXCEPT !.state = job[w].step, !.id = job[w].id]]
        /\ job[w].step \in {"sent", "failed"} /\ job' = [job EXCEPT ![w] = NoJob]
        /\ UNCHANGED <<tasks, req, work, copies>>
    BY <1>11, <2>1 DEF Conclude, outbox
  <2>3. CASE e = d
    <3>1. delivery'[d].state = job[w].step /\ delivery'[d].mail = delivery[d].mail
      BY <1>0, <2>2, <2>3 DEF Rows
    <3>2. /\ tasks'[d] = 0 /\ delivery[d].state \notin {"none", "sent", "failed"}
          /\ job[w].step = "sent" => Copied(d)
          /\ \A v \in Workers : job[v].of = d => v = w
      BY <1>1, <2>1, <2>2, <2>3 DEF MailFine, AloneOn
    <3>3. \A v \in Workers : job'[v].of # d
      BY <1>0, <2>2, <3>2
    <3>4. \A r \in Requests : req'[r].of = d => req'[r].op # "callback" /\ req'[r].op # "retry"
      BY <1>1, <2>1, <2>2, <2>3 DEF MailFine, LeftAlone
    <3>5. AloneOn(d)'
      BY <3>2, <3>3 DEF AloneOn
    <3>6. job[w].step = "sent" => Copied(d)'
      BY <2>2, <3>1, <3>2 DEF Copied
    <3> QED BY <2>2, <3>1, <3>2, <3>4, <3>5, <3>6 DEF MailFine
  <2>4. CASE e # d
    <3>1. delivery'[d] = delivery[d]
      BY <1>0, <2>2, <2>4
    <3> QED BY <1>0, <1>3, <2>2, <3>1
  <2> QED BY <2>3, <2>4
<1>12. ASSUME NEW w \in Workers, LoseWorker(w)
       PROVE MailFine(d)'
  <2>1. /\ job' = [job EXCEPT ![w] = NoJob] /\ UNCHANGED <<delivery, req, copies>>
        /\ \A v \in Workers \ {w} : work'[v] = work[v]
    BY <1>0, <1>12 DEF LoseWorker, Lose
  <2>2. CASE job[w].of # d
    <3>1. tasks'[d] = tasks[d]
      <4>1. CASE job[w] = NoJob
        BY <1>12, <4>1 DEF LoseWorker
      <4>2. CASE job[w] # NoJob
        BY <1>0, <1>12, <2>2, <4>2 DEF LoseWorker, Redelivered
      <4> QED BY <4>1, <4>2
    <3> QED BY <1>0, <1>3, <2>1, <3>1
  <2>3. CASE job[w].of = d
    <3>1. tasks'[d] = tasks[d] + 1
      BY <1>0, <1>12, <2>3 DEF LoseWorker, Redelivered
    <3>2. /\ tasks[d] = 0 /\ delivery[d].state \notin {"none", "sent", "failed", "delivered"}
          /\ \A v \in Workers : job[v].of = d => v = w
      BY <1>1, <2>3 DEF MailFine, AloneOn
    <3>3. \A v \in Workers : job'[v].of # d
      BY <1>0, <2>1, <3>2
    <3>4. AloneOn(d)'
      BY <3>1, <3>2, <3>3 DEF AloneOn
    <3>5. \A r \in Requests : req'[r].of = d => req'[r].op # "callback" /\ req'[r].op # "retry"
      BY <1>1, <2>1, <2>3 DEF MailFine, LeftAlone
    <3> QED BY <1>1, <2>1, <3>2, <3>4, <3>5 DEF MailFine
  <2> QED BY <2>2, <2>3
<1>13. ASSUME NEW w \in Workers, OutboxTask(w)
       PROVE MailFine(d)'
  <2>1. job[w] = NoJob /\ UNCHANGED <<delivery, tasks, job, req>>
    BY <1>13 DEF OutboxTask, log
  <2>2. \A v \in Workers \ {w} : work'[v] = work[v]
    BY <1>0, <1>13 DEF OutboxTask, Take, TakeSweep, TakeTask, Progress, Suppress, Converse, Save
  <2> QED BY <1>0, <1>2, <2>1, <2>2
<1>14. ASSUME NEW m \in Messages, BackOff(m) \/ OtherMail(m)
       PROVE MailFine(d)'
  BY <1>2, <1>14 DEF BackOff, OtherMail, Elapse, Queue, log
<1>15. ASSUME NEW r \in Requests, NEW e \in Deliveries, NEW op \in Operations, Ask(r, e, op)
       PROVE MailFine(d)'
  <2>0. PICK q : q = [op |-> op, of |-> e, status |-> "none"]
    OBVIOUS
  <2>1. /\ req' = [req EXCEPT ![r] = q] /\ q.of = e /\ q.op \in {"retry", "cancel"}
        /\ q.op = "retry" => delivery[e].state = "failed"
        /\ UNCHANGED <<delivery, tasks, job, work, copies>>
    BY <1>15, <2>0 DEF Ask, Retryable, outbox
  <2>2. \A p \in Requests : req'[p].of = d =>
          req'[p].op # "callback" /\ (req'[p].op = "retry" => LeftAlone(d))
    <3>1. delivery[d].state = "failed" => LeftAlone(d)
      BY <1>1 DEF MailFine, AloneOn, LeftAlone
    <3> QED BY <1>0, <1>1, <2>1, <3>1 DEF MailFine
  <2> QED BY <1>1, <2>1, <2>2 DEF MailFine, AloneOn, LeftAlone, Copied
<1>16. ASSUME NEW r \in Requests, NEW e \in Deliveries, NEW status \in Statuses, Call(r, e, status)
       PROVE MailFine(d)'
  <2>0. PICK q : q = [op |-> "callback", of |-> e, status |-> status]
    OBVIOUS
  <2>1. /\ req' = [req EXCEPT ![r] = q] /\ q.of = e /\ e # d
        /\ UNCHANGED <<delivery, tasks, job, work>>
    BY <1>16, <2>0 DEF Call, outbox
  <2>2. \A p \in Requests : req'[p].of = d => req'[p] = req[p]
    BY <1>0, <2>1
  <2> QED BY <1>2, <2>1, <2>2
<1>17. ASSUME NEW r \in Requests, Ends(r)
       PROVE MailFine(d)'
  <2>0. PICK e \in Deliveries : e = req[r].of
    BY <1>17 DEF Ends, Retry, Cancel, Callback, DInv, RequestsKnown
  <2>1. PICK state : Writes(r, state) /\ (e = d => state \in {"queued", "cancelled"})
    <3>1. CASE Callback(r)
      <4>1. e # d
        BY <1>1, <2>0, <3>1 DEF Callback, MailFine
      <4> QED BY <3>1, <4>1 DEF Callback
    <3> QED BY <1>17, <3>1 DEF Ends, Retry, Cancel
  <2>2. /\ delivery' = [delivery EXCEPT ![e].state = state] /\ req' = [req EXCEPT ![r] = Idle]
        /\ UNCHANGED <<work, job, copies>> /\ Idle.of = Nothing
    BY <2>0, <2>1 DEF Writes, outbox, Idle
  <2>3. CASE e = d
    <3>1. delivery'[d].state = state /\ delivery'[d].mail = delivery[d].mail
      BY <1>0, <2>2, <2>3 DEF Rows
    <3>2. \A q \in Requests : req'[q].of = d => q # r /\ req'[q] = req[q]
      BY <1>0, <2>2
    <3>3. CASE Retry(r)
      <4>1. state = "queued" /\ tasks[d] = 0 /\ \A w \in Workers : job[w].of # d
        <5>1. req[r].op = "retry" /\ req[r].of = d
          BY <2>0, <2>3, <3>3 DEF Retry
        <5>2. delivery' = [delivery EXCEPT ![d].state = "queued"]
          BY <3>3, <5>1 DEF Retry, Writes
        <5>3. delivery'[d].state = "queued"
          BY <1>0, <5>2 DEF Rows
        <5> QED BY <1>1, <3>1, <5>1, <5>3 DEF MailFine, LeftAlone
      <4>2. tasks'[d] = tasks[d] + 1 \/ tasks'[d] = tasks[d]
        BY <1>0, <2>0, <2>3, <3>3 DEF Retry, Enqueued
      <4>3. AloneOn(d)'
        BY <2>2, <4>1, <4>2 DEF AloneOn
      <4>4. \A q \in Requests : req'[q].of = d => req'[q].op # "callback" /\ req'[q].op # "retry"
        <5> SUFFICES ASSUME NEW q \in Requests, req'[q].of = d
                     PROVE req'[q].op # "callback" /\ req'[q].op # "retry"
          OBVIOUS
        <5>1. q # r /\ req'[q] = req[q] /\ req[q].of = d /\ req[q].op # "callback"
          BY <1>1, <3>2 DEF MailFine
        <5>2. req[r].op = "retry" /\ req[r].of = d
          BY <2>0, <2>3, <3>3 DEF Retry
        <5> QED BY <5>1, <5>2 DEF RetriesApart
      <4> QED BY <3>1, <4>1, <4>3, <4>4 DEF MailFine
    <3>4. CASE Cancel(r)
      <4>1. tasks' = tasks /\ state = "cancelled"
        BY <1>0, <2>0, <2>1, <2>2, <2>3, <3>1, <3>4 DEF Cancel, Writes, Rows
      <4>2. Copied(d) => Copied(d)'
        BY <2>2, <3>1 DEF Copied
      <4>3. AloneOn(d)'
        BY <1>1, <2>2, <3>1, <4>1, <4>2 DEF MailFine, AloneOn
      <4>4. \A q \in Requests : req'[q].of = d =>
              req'[q].op # "callback" /\ (req'[q].op = "retry" => LeftAlone(d)')
        BY <1>1, <2>2, <3>1, <3>2, <4>1 DEF MailFine, LeftAlone
      <4> QED BY <3>1, <4>1, <4>3, <4>4 DEF MailFine
    <3>5. ~ Callback(r)
      BY <1>1, <2>0, <2>3 DEF Callback, MailFine
    <3> QED BY <1>17, <3>3, <3>4, <3>5 DEF Ends
  <2>4. CASE e # d
    <3>1. delivery'[d] = delivery[d]
      BY <1>0, <2>2, <2>4
    <3>2. tasks'[d] = tasks[d]
      BY <1>0, <1>17, <2>0, <2>4 DEF Ends, Retry, Cancel, Callback, Enqueued
    <3>3. \A q \in Requests : req'[q].of = d => req'[q] = req[q]
      BY <1>0, <2>2
    <3> QED BY <1>2, <2>2, <3>1, <3>2, <3>3
  <2> QED BY <2>3, <2>4
<1>18. CASE UNCHANGED vars
  BY <1>2, <1>18 DEF vars, log, outbox
<1> QED BY <1>5, <1>6, <1>7, <1>8, <1>9, <1>10, <1>11, <1>12, <1>13, <1>14, <1>15, <1>16, <1>17, <1>18
        DEF Next, WorkOn, Dispatch

\* What a delivery's e-mail or provider took is counted among what was sent.
LEMMA SendsCount ==
  ASSUME DInv, NEW d \in Deliveries, Copied(d) \/ IssuedFor(d) # {}
  PROVE Sends(d, {delivery[d].mail} \ {Nothing}) > 0
<1> USE OutboxAssumption
<1> DEFINE mails == {delivery[d].mail} \ {Nothing}
<1>1. /\ shown[d] \in Nat /\ Cardinality(IssuedFor(d)) \in Nat /\ IsFiniteSet(IssuedFor(d))
      /\ copies \in [Messages -> Nat] /\ mails \subseteq Messages
  BY LoadParts, FineNow DEF DInv, OInv, OutboxTypeOK, LogFine, Rows
<1>2. Sends(d, mails) = SumFunctionOnSet(copies, mails) + shown[d] + Cardinality(IssuedFor(d))
  <2>1. MapThenSumSet(LAMBDA m : copies[m], mails) = SumFunctionOnSet(copies, mails)
    BY MapSum
  <2> QED BY <2>1 DEF Sends, IssuedFor
<1>3. IsFiniteSet(mails)
  <2>1. IsFiniteSet({delivery[d].mail})
    BY FS_Singleton
  <2> QED BY <2>1, FS_Difference
<1> HIDE DEF mails
<1>4. SumFunctionOnSet(copies, mails) \in Nat
  BY <1>1, <1>3, SumNat
<1>5. CASE IssuedFor(d) # {}
  <2>1. Cardinality(IssuedFor(d)) > 0
    BY <1>1, <1>5, FS_EmptySet
  <2> QED BY <1>1, <1>2, <1>4, <2>1 DEF mails
<1>6. CASE Copied(d)
  <2>1. delivery[d].mail \in mails /\ copies[delivery[d].mail] > 0
    BY <1>6 DEF Copied, mails
  <2>2. SumFunctionOnSet(copies, mails) > 0
    BY <1>1, <1>3, <2>1, SumPositive
  <2> QED BY <1>1, <1>2, <1>4, <2>2 DEF mails
<1> QED BY <1>5, <1>6

\* What the log calls sent or delivered did reach the provider or the mail
\* server, whatever workers and answers are lost (dispatch_delivery,
\* apply_whatsapp_status_update), for any number of requests and workers, as long
\* as no two requests retry one e-mail at once.
THEOREM SentReachedSomebody == Spec /\ []RetriesApart => []SentWasSent
<1> DEFINE Told == OnlyMailMailed /\ ClaimsTrue /\ MailsFine
<1>1. Init => Told
  <2> SUFFICES ASSUME Init PROVE Told
    OBVIOUS
  <2>1. OnlyMailMailed
    BY DEF Init, OnlyMailMailed, NoJob
  <2>2. \A d \in Deliveries : ~Claimed(d)
    BY DEF Init, Claimed, Absent, NoJob, Idle
  <2>3. \A d \in Deliveries : MailFine(d)
    BY DeliveryAssumption DEF Init, MailFine, AloneOn, Absent, NoJob, Idle
  <2> QED BY <2>1, <2>2, <2>3 DEF ClaimsTrue, MailsFine
<1>2. RetriesApart /\ DInv /\ Told /\ [Next]_vars => Told'
  <2> SUFFICES ASSUME RetriesApart, DInv, Told, [Next]_vars PROVE Told'
    OBVIOUS
  <2> QED BY OnlyMailMailedStep, ClaimsTrueStep, MailFineStep
<1>3. DInv /\ Told => SentWasSent
  <2> SUFFICES ASSUME DInv, Told, NEW d \in Deliveries, ChannelOf[d] # "in_app",
                      delivery[d].state \in {"sent", "delivered"}
      PROVE Sends(d, {delivery[d].mail} \ {Nothing}) > 0
    BY DEF SentWasSent
  <2>1. CASE ChannelOf[d] = "whatsapp"
    BY <2>1, SendsCount DEF ClaimsTrue, Claimed
  <2>2. CASE ChannelOf[d] = "email"
    BY <2>2, SendsCount DEF MailsFine, MailFine
  <2> QED BY <2>1, <2>2, DeliveryAssumption
<1> QED BY <1>1, <1>2, <1>3, DeliveryInitInv, DeliveryStepInv, PTL DEF Spec

=============================================================================
