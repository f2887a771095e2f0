--------------------------- MODULE AutomationProofs ---------------------------
(***************************************************************************)
(* Proofs about Automation, for any number of workers and readers, any     *)
(* figures and verdicts, any rules and any limits.                         *)
(***************************************************************************)
EXTENDS Automation, FiniteSetTheorems, TLAPS

IsDispatch(t) ==
  t = [op |-> "dispatch", pc |-> t.pc, level |-> t.level, calls |-> t.calls, copy |-> t.copy]

\* A dispatch that goes on is a dispatch.
LEMMA DispatchGoesOn ==
  ASSUME NEW t, IsDispatch(t), NEW pc, NEW copy, NEW calls
  PROVE /\ IsDispatch([t EXCEPT !.pc = pc])
        /\ IsDispatch([t EXCEPT !.pc = pc, !.copy = copy])
        /\ IsDispatch([t EXCEPT !.pc = pc, !.calls = calls])
        /\ IsDispatch([t EXCEPT !.pc = pc, !.copy = copy, !.calls = calls])
<1> DEFINE D == [op: {"dispatch"}, pc: {t.pc, pc}, level: {t.level}, calls: {t.calls, calls},
                 copy: {t.copy, copy}]
<1>1. t \in D
  BY DEF IsDispatch
<1>2. \A u \in D : IsDispatch(u)
  BY DEF IsDispatch
<1>3. /\ [t EXCEPT !.pc = pc] \in D
      /\ [t EXCEPT !.pc = pc, !.copy = copy] \in D
      /\ [t EXCEPT !.pc = pc, !.calls = calls] \in D
      /\ [t EXCEPT !.pc = pc, !.copy = copy, !.calls = calls] \in D
  BY <1>1
<1> QED BY <1>2, <1>3

\* What the risk row and the jobs look like, as far as their fields are read.
Shaped ==
  /\ state = [level |-> state.level, triggered |-> state.triggered, figures |-> state.figures,
              override |-> state.override, stamp |-> state.stamp]
  /\ job = [p \in Processes |-> job[p]]
  /\ recomputes \in Nat /\ figures \in Nat
  /\ \A p \in Processes : job[p].op = "recompute" => job[p].pc \in {"read", "lock", "insert", "clear"}
  /\ \A p \in Processes : job[p].op = "dispatch" => IsDispatch(job[p])

\* The key stands for a task that is on the broker or with a worker.
KeyIsHonest == pending => recomputes > 0 \/ \E w \in Workers : job[w].op = "recompute"

\* A worker is going to write a verdict on the latest figures.
Reading(w) == job[w].op = "recompute" /\ job[w].pc # "clear"
Coming == state.figures = figures \/ recomputes > 0 \/ \E w \in Workers : Reading(w)

RecomputeInv ==
  /\ Shaped /\ KeyIsHonest
  /\ figures > 0 => Coming
  /\ \A p \in Processes : job[p].op = "recompute" => ReadsLatest(p)

\* Nothing has been computed at the start, and nothing is coming.
LEMMA InitRecompute == Init => RecomputeInv
<1> SUFFICES ASSUME Init PROVE RecomputeInv
  OBVIOUS
<1>1. Shaped
  BY DEF Init, RiskInit, Shaped, NoState, Idle
<1>2. KeyIsHonest
  BY DEF Init, RiskInit, KeyIsHonest
<1>3. ~ (figures > 0)
  BY DEF Init, RiskInit
<1>4. \A p \in Processes : job[p].op # "recompute"
  BY DEF Init, RiskInit, Idle
<1> QED BY <1>1, <1>2, <1>3, <1>4 DEF RecomputeInv

\* A step in which p alone goes on, that reads nothing and writes no verdict.
LEMMA OtherSteps ==
  ASSUME RecomputeInv, NEW p \in Processes, NEW next, Goes(p, next),
         next.op = "dispatch" => IsDispatch(next),
         figures' = figures, pending' = pending,
         state' = [state EXCEPT !.level = state'.level, !.override = state'.override,
                                !.stamp = state'.stamp] \/ state' = state,
         \/ job[p].op # "recompute" /\ next.op # "recompute" /\ recomputes' = recomputes
         \/ job[p] = Idle /\ next = Recompute("read", -1) /\ recomputes > 0
              /\ recomputes' = recomputes - 1 /\ p \in Workers
         \/ job[p] = Idle /\ next = Recompute("read", -1) /\ recomputes' = recomputes
         \/ job[p].op = "recompute" /\ next = Idle /\ recomputes' = recomputes + 1
  PROVE RecomputeInv'
<1> USE DEF RecomputeInv, Shaped, Goes
<1>1. /\ job'[p] = next
      /\ \A q \in Processes \ {p} : job'[q] = job[q]
      /\ job' = [q \in Processes |-> job'[q]]
  BY DEF Goes
<1>2. /\ state'.figures = state.figures
      /\ state' = [level |-> state'.level, triggered |-> state'.triggered, figures |-> state'.figures,
                   override |-> state'.override, stamp |-> state'.stamp]
  OBVIOUS
<1>3. /\ recomputes' \in Nat
      /\ next.op = "recompute" => next = Recompute("read", -1)
  BY DEF Idle
<1>4. Shaped'
  BY <1>1, <1>2, <1>3 DEF Recompute
<1>5. recomputes' > 0 \/ (\E w \in Workers : job[w].op = "recompute") \/ recomputes > 0
        => recomputes' > 0 \/ \E w \in Workers : job'[w].op = "recompute"
  BY <1>1 DEF Recompute, Idle, Processes
<1>6. (\E w \in Workers : Reading(w)) \/ recomputes > 0
        => recomputes' > 0 \/ \E w \in Workers : Reading(w)'
  BY <1>1 DEF Reading, Recompute, Idle, Processes
<1>7. \A q \in Processes : job'[q].op = "recompute" => ReadsLatest(q)'
  BY <1>1, <1>3 DEF ReadsLatest, Recompute
<1>8. KeyIsHonest' /\ (figures' > 0 => Coming')
  BY <1>2, <1>5, <1>6 DEF KeyIsHonest, Coming
<1> QED BY <1>4, <1>7, <1>8

\* A change of the figures, when no task has read older ones: the key that
\* stands belongs to a task that is still to read.
LEMMA ChangeSteps ==
  ASSUME RecomputeInv, Change, ~ ChangesOverlap
  PROVE RecomputeInv'
<1> USE DEF RecomputeInv, Shaped
<1>1. /\ figures' = figures + 1 /\ state' = state /\ job' = job /\ pending' = TRUE
      /\ recomputes' = IF pending THEN recomputes ELSE recomputes + 1
      /\ \A p \in Processes : ~ Stale(p)
  BY DEF Change
<1>2. \A p \in Processes : job[p].op = "recompute" => job[p].pc = "read"
  BY <1>1 DEF Stale
<1>3. Shaped'
  BY <1>1
<1>4. recomputes' > 0 \/ \E w \in Workers : job[w].op = "recompute"
  BY <1>1 DEF KeyIsHonest
<1>5. KeyIsHonest' /\ Coming'
  BY <1>1, <1>2, <1>4 DEF KeyIsHonest, Coming, Reading, Processes
<1>6. \A p \in Processes : job'[p].op = "recompute" => ReadsLatest(p)'
  BY <1>1, <1>2 DEF ReadsLatest
<1> QED BY <1>3, <1>5, <1>6

\* The statements of a recomputation: it writes what it has read, and that is
\* the latest.
LEMMA RecomputingSteps ==
  ASSUME RecomputeInv, NEW p \in Processes, Recomputing(p)
  PROVE RecomputeInv'
<1> USE DEF RecomputeInv, Shaped, Goes
<1>1. /\ job[p].op = "recompute" /\ UNCHANGED <<figures, pending, recomputes>>
      /\ \A q \in Processes \ {p} : job'[q] = job[q]
      /\ job' = [q \in Processes |-> job'[q]]
  BY DEF Recomputing, ReadFigures, Judge, FindNone, InsertState, InsertLost, Committed
<1>2. CASE /\ state' = state
           /\ \/ job'[p] = Recompute("lock", figures)
              \/ job[p].pc = "lock" /\ job'[p] = Recompute("insert", job[p].seen)
              \/ job'[p] = Recompute("read", -1)
  <2>1. /\ job'[p].op = "recompute" /\ job'[p].pc \in {"read", "lock", "insert"}
        /\ job'[p].pc \in {"lock", "insert"} => job'[p].seen = figures
    BY <1>1, <1>2 DEF Recompute, ReadsLatest
  <2>2. Shaped'
    BY <1>1, <1>2, <2>1
  <2>3. KeyIsHonest'
    BY <1>1, <2>1 DEF KeyIsHonest, Processes
  <2>4. figures' > 0 => Coming'
    BY <1>1, <1>2, <2>1 DEF Coming, Reading, Processes
  <2>5. \A q \in Processes : job'[q].op = "recompute" => ReadsLatest(q)'
    BY <1>1, <2>1 DEF ReadsLatest
  <2> QED BY <2>2, <2>3, <2>4, <2>5
<1>3. CASE /\ state'.figures = figures
           /\ state' = [level |-> state'.level, triggered |-> state'.triggered,
                        figures |-> state'.figures, override |-> state'.override,
                        stamp |-> state'.stamp]
           /\ job'[p] = IF p \in Workers THEN Recompute("clear", job[p].seen) ELSE Idle
  <2>1. /\ p \in Workers => job'[p].op = "recompute" /\ job'[p].pc = "clear"
        /\ p \notin Workers => job'[p].op # "recompute"
        /\ job'[p].op # "dispatch"
    BY <1>3 DEF Recompute, Idle
  <2>2. Shaped'
    BY <1>1, <1>3, <2>1
  <2>3. KeyIsHonest'
    BY <1>1, <2>1 DEF KeyIsHonest, Processes
  <2>4. Coming'
    BY <1>1, <1>3 DEF Coming
  <2>5. \A q \in Processes : job'[q].op = "recompute" => ReadsLatest(q)'
    BY <1>1, <2>1 DEF ReadsLatest
  <2> QED BY <2>2, <2>3, <2>4, <2>5
<1>4. ASSUME Judge(p) \/ InsertState(p)
      PROVE /\ state'.figures = figures
            /\ state' = [level |-> state'.level, triggered |-> state'.triggered,
                         figures |-> state'.figures, override |-> state'.override,
                         stamp |-> state'.stamp]
            /\ job'[p] = IF p \in Workers THEN Recompute("clear", job[p].seen) ELSE Idle
  <2>1. job[p].seen = figures
    BY <1>4 DEF Judge, InsertState, ReadsLatest
  <2>2. job'[p] = IF p \in Workers THEN Recompute("clear", job[p].seen) ELSE Idle
    BY <1>4 DEF Judge, InsertState, Committed
  <2>3. \/ state' = [state EXCEPT !.figures = job[p].seen, !.stamp = clock]
        \/ state' = [level |-> Verdict[job[p].seen], triggered |-> Verdict[job[p].seen],
                     figures |-> job[p].seen, override |-> "no", stamp |-> clock]
    BY <1>4 DEF Judge, InsertState
  <2>4. ASSUME state' = [state EXCEPT !.figures = job[p].seen, !.stamp = clock]
        PROVE /\ state'.figures = job[p].seen
              /\ state' = [level |-> state'.level, triggered |-> state'.triggered,
                           figures |-> state'.figures, override |-> state'.override,
                           stamp |-> state'.stamp]
    BY <2>4
  <2>5. ASSUME state' = [level |-> Verdict[job[p].seen], triggered |-> Verdict[job[p].seen],
                         figures |-> job[p].seen, override |-> "no", stamp |-> clock]
        PROVE /\ state'.figures = job[p].seen
              /\ state' = [level |-> state'.level, triggered |-> state'.triggered,
                           figures |-> state'.figures, override |-> state'.override,
                           stamp |-> state'.stamp]
    BY <2>5
  <2> QED BY <2>1, <2>2, <2>3, <2>4, <2>5
<1>5. ASSUME ReadFigures(p) \/ FindNone(p) \/ InsertLost(p)
      PROVE /\ state' = state
            /\ \/ job'[p] = Recompute("lock", figures)
               \/ job[p].pc = "lock" /\ job'[p] = Recompute("insert", job[p].seen)
               \/ job'[p] = Recompute("read", -1)
  BY <1>5 DEF ReadFigures, FindNone, InsertLost
<1> QED BY <1>2, <1>3, <1>4, <1>5 DEF Recomputing

\* The key is cleared once the verdict is written.
LEMMA ClearKeySteps ==
  ASSUME RecomputeInv, NEW w \in Workers, ClearKey(w)
  PROVE RecomputeInv'
<1> USE DEF RecomputeInv, Shaped, Goes
<1>1. /\ job[w].pc = "clear" /\ pending' = FALSE /\ UNCHANGED <<figures, recomputes, state>>
      /\ job' = [job EXCEPT ![w] = Idle]
  BY DEF ClearKey, KeyCleared
<1>2. /\ \A q \in Processes \ {w} : job'[q] = job[q]
      /\ job'[w].op \notin {"recompute", "dispatch"} /\ job' = [q \in Processes |-> job'[q]]
  BY <1>1 DEF Idle, Processes
<1>3. Shaped'
  BY <1>1, <1>2
<1>4. KeyIsHonest'
  BY <1>1 DEF KeyIsHonest
<1>5. figures' > 0 => Coming'
  <2>1. ~ Reading(w)
    BY <1>1 DEF Reading
  <2> QED BY <1>1, <1>2, <2>1 DEF Coming, Reading, Processes
<1>6. \A q \in Processes : job'[q].op = "recompute" => ReadsLatest(q)'
  BY <1>1, <1>2 DEF ReadsLatest
<1> QED BY <1>3, <1>4, <1>5, <1>6

\* Dispatching, and losing a worker, as OtherSteps has it.
LEMMA WorkerSteps ==
  ASSUME RecomputeInv, NEW w \in Workers, Take(w) \/ Run(w) \/ LoseWorker(w)
  PROVE RecomputeInv'
<1> USE DEF OfRisk
<1>0. w \in Processes
  BY DEF Processes
<1>1. CASE TakeRecompute(w)
  BY <1>0, <1>1, OtherSteps DEF TakeRecompute, Recompute
<1>2. ASSUME NEW level \in Levels, TakeEvent(w, level) PROVE RecomputeInv'
  <2>1. PICK next : next = Dispatch("rule", level, <<Call(0, level, state.stamp)>>)
    OBVIOUS
  <2>2. IsDispatch(next) /\ next.op # "recompute"
    BY <2>1 DEF IsDispatch, Dispatch
  <2> QED BY <1>0, <1>2, <2>1, <2>2, OtherSteps DEF TakeEvent, Idle
<1>3. CASE Recomputing(w)
  BY <1>0, <1>3, RecomputingSteps
<1>4. CASE ClearKey(w)
  BY <1>4, ClearKeySteps
<1>5. ASSUME job[w].op = "dispatch", NEW next, next = Idle \/ IsDispatch(next), Goes(w, next),
             KeepsRisk
      PROVE RecomputeInv'
  <2>1. next.op # "recompute" /\ (next.op = "dispatch" => IsDispatch(next))
    BY <1>5 DEF IsDispatch, Idle
  <2> QED BY <1>0, <1>5, <2>1, OtherSteps DEF KeepsRisk
<1>a. ASSUME job[w].op = "dispatch" PROVE IsDispatch(job[w])
  BY <1>0, <1>a, SMTT(30) DEF RecomputeInv, Shaped
<1>6. CASE CountRuns(w) \/ CreateRun(w) \/ PassOver(w)
  BY <1>5, <1>6, <1>a, DispatchGoesOn, ZenonT(40) DEF CountRuns, CreateRun, PassOver, Moves, PastRule, Dispatching
<1>7. CASE SkipRun(w) \/ Finish(w)
  BY <1>5, <1>7, <1>a, DispatchGoesOn, ZenonT(40) DEF SkipRun, Finish, FinishRun, PastRule, Dispatching
<1>8. CASE Act(w) \/ Return(w)
  BY <1>5, <1>8, <1>a, DispatchGoesOn, ZenonT(40) DEF Act, Return, Moves, Dispatching, Idle
<1>9. CASE Flag(w)
  <2>1. PICK next : Goes(w, next) /\ IsDispatch(next)
    BY <1>9, <1>a, DispatchGoesOn DEF Flag, Moves, Dispatching
  <2>2. next.op = "dispatch" /\ job[w].op = "dispatch"
    BY <1>9, <2>1 DEF IsDispatch, Flag, Dispatching
  <2>3. PICK level : state' = [state EXCEPT !.level = level, !.override = "active", !.stamp = clock]
    BY <1>9 DEF Flag
  <2>4. state' = [state EXCEPT !.level = state'.level, !.override = state'.override,
                               !.stamp = state'.stamp]
    BY <2>3 DEF RecomputeInv, Shaped
  <2>5. UNCHANGED <<figures, pending, recomputes>>
    BY <1>9 DEF Flag
  <2> QED BY <1>0, <2>1, <2>2, <2>4, <2>5, OtherSteps
<1>10. CASE LoseWorker(w)
  BY <1>0, <1>10, OtherSteps DEF LoseWorker, Idle
<1> QED BY <1>1, <1>2, <1>3, <1>4, <1>6, <1>7, <1>8, <1>9, <1>10 DEF Take, Run

\* Time, operators and readers.
LEMMA EnvironmentSteps ==
  ASSUME RecomputeInv, Environment, ~ ChangesOverlap
  PROVE RecomputeInv'
<1> USE DEF OfRisk
<1>1. CASE KeyLapses
  BY <1>1 DEF KeyLapses, RecomputeInv, Shaped, KeyIsHonest, Coming, Reading, ReadsLatest
<1>2. CASE OverrideLapses
  <2>1. /\ state'.figures = state.figures
        /\ state' = [level |-> state'.level, triggered |-> state'.triggered,
                     figures |-> state'.figures, override |-> state'.override,
                     stamp |-> state'.stamp]
        /\ UNCHANGED <<figures, pending, recomputes, job>>
    BY <1>2 DEF OverrideLapses, RecomputeInv, Shaped
  <2> QED BY <2>1 DEF RecomputeInv, Shaped, KeyIsHonest, Coming, Reading, ReadsLatest
<1>3. CASE Tick
  BY <1>3 DEF Tick, RecomputeInv, Shaped, KeyIsHonest, Coming, Reading, ReadsLatest
<1>4. ASSUME NEW r \in Readers, View(r) PROVE RecomputeInv'
  BY <1>4, OtherSteps DEF View, Processes, Recompute
<1>5. ASSUME NEW r \in Readers, Recomputing(r) PROVE RecomputeInv'
  BY <1>5, RecomputingSteps DEF Processes
<1> QED BY <1>1, <1>2, <1>3, <1>4, <1>5, ChangeSteps DEF Environment

\* No change is lost between the key, the broker, the workers and the readers,
\* as long as none commits while a recomputation has read older figures.
THEOREM NoChangeIsLost ==
  ASSUME ~ ChangesOverlap
  PROVE Spec => []LatestIsComing
<1>1. RecomputeInv /\ [Next]_vars => RecomputeInv'
  <2>1. UNCHANGED vars /\ RecomputeInv => RecomputeInv'
    BY DEF vars, RecomputeInv, Shaped, KeyIsHonest, Coming, Reading, ReadsLatest
  <2> QED BY <2>1, WorkerSteps, EnvironmentSteps DEF Next
<1>2. RecomputeInv => LatestIsComing
  BY DEF RecomputeInv, LatestIsComing, Coming, Reading, ReadsLatest, Processes
<1> QED BY <1>1, <1>2, InitRecompute, PTL DEF Spec

-----------------------------------------------------------------------------
(***************************************************************************)
(* The guards and the claims of runs.                                      *)
(***************************************************************************)

\* A task is a stack of calls, each one level deeper than the one beneath it.
InOrder(calls) ==
  \A i \in 1 .. Len(calls) :
    /\ calls[i] = [depth |-> calls[i].depth, stamp |-> calls[i].stamp, todo |-> calls[i].todo]
    /\ calls[i].depth = Len(calls) - i
KnownCalls(calls) == (\E S : calls \in Seq(S)) /\ Len(calls) > 0 /\ InOrder(calls)

JobFine(t) == t.op = "dispatch" => IsDispatch(t) /\ KnownCalls(t.calls)

\* The occurrences a task has claimed and not finished: that of its innermost
\* call, once its run is made, and those of the calls beneath, which wait for it.
KeyOf(call) == Key(call.todo[1], call)
First(t) == KeyOf(t.calls[1])
Beneath(t) == IF t.op = "dispatch" THEN {KeyOf(t.calls[i]) : i \in 2 .. Len(t.calls)} ELSE {}
FirstIf(t, pcs) == IF t.op = "dispatch" /\ t.pc \in pcs THEN {First(t)} ELSE {}
Hand(t) == Beneath(t) \cup FirstIf(t, {"act", "flag", "finish", "skip"})
Acting(t) == Beneath(t) \cup FirstIf(t, {"act", "flag", "finish"})

Creating(t) == t.op = "dispatch" /\ t.pc \in {"create", "create_limited"}

\* Taking the innermost call off.
LEMMA CallsTail ==
  ASSUME NEW calls, KnownCalls(calls), Len(calls) > 1
  PROVE /\ KnownCalls(Tail(calls)) /\ Len(calls) \in Nat /\ Len(Tail(calls)) = Len(calls) - 1
        /\ \A i \in 1 .. Len(Tail(calls)) : Tail(calls)[i] = calls[i + 1]
<1>1. PICK S : calls \in Seq(S)
  BY DEF KnownCalls
<1>a. InOrder(calls)
  BY DEF KnownCalls
<1>b. Len(calls) \in Nat /\ Len(calls) > 0
  <2>1. Len(calls) > 0
    BY DEF KnownCalls
  <2> QED BY <1>1, <2>1
<1>2. Len(calls) \in Nat /\ Len(calls) > 1
  BY <1>b
<1>3. /\ Tail(calls) \in Seq(S) /\ Len(Tail(calls)) = Len(calls) - 1
      /\ \A i \in 1 .. Len(Tail(calls)) : Tail(calls)[i] = calls[i + 1]
  BY <1>1, <1>2
<1>4. ASSUME NEW i \in 1 .. Len(Tail(calls))
      PROVE /\ Tail(calls)[i] = [depth |-> Tail(calls)[i].depth, stamp |-> Tail(calls)[i].stamp,
                                 todo |-> Tail(calls)[i].todo]
            /\ Tail(calls)[i].depth = Len(Tail(calls)) - i
  <2>1. i + 1 \in 1 .. Len(calls) /\ Tail(calls)[i] = calls[i + 1]
    BY <1>2, <1>3
  <2> QED BY <1>a, <1>2, <1>3, <2>1 DEF InOrder
<1>5. InOrder(Tail(calls))
  BY <1>4 DEF InOrder
<1>6. KnownCalls(Tail(calls))
  BY <1>2, <1>3, <1>5 DEF KnownCalls
<1> QED BY <1>2, <1>3, <1>6

Deeper(calls, level, stamp) == <<Call(calls[1].depth + 1, level, stamp)>> \o calls

\* Calling dispatch() from an action.
LEMMA CallsPush ==
  ASSUME NEW calls, KnownCalls(calls), NEW level, NEW stamp, NEW d, d = Deeper(calls, level, stamp)
  PROVE /\ KnownCalls(d) /\ Len(calls) \in Nat /\ Len(d) = Len(calls) + 1
        /\ \A i \in 1 .. Len(calls) : d[i + 1] = calls[i]
<1>0. PICK c : c = Call(calls[1].depth + 1, level, stamp)
  OBVIOUS
<1>1. PICK S : calls \in Seq(S)
  BY DEF KnownCalls
<1>a. InOrder(calls)
  BY DEF KnownCalls
<1>b. Len(calls) \in Nat /\ Len(calls) > 0
  <2>1. Len(calls) > 0
    BY DEF KnownCalls
  <2> QED BY <1>1, <2>1
<1>2. Len(calls) \in Nat /\ Len(calls) > 0
  BY <1>b
<1>3. calls \in Seq(S \cup {c}) /\ <<c>> \in Seq(S \cup {c}) /\ Len(<<c>>) = 1
  BY <1>1
<1>4. /\ <<c>> \o calls \in Seq(S \cup {c}) /\ Len(<<c>> \o calls) = Len(calls) + 1
      /\ (<<c>> \o calls)[1] = c
      /\ \A i \in 1 .. Len(calls) : (<<c>> \o calls)[i + 1] = calls[i]
  BY <1>2, <1>3
<1>5. /\ c = [depth |-> c.depth, stamp |-> c.stamp, todo |-> c.todo]
      /\ c.depth = calls[1].depth + 1
  BY <1>0 DEF Call
<1>6. calls[1].depth = Len(calls) - 1
  <2>1. 1 \in 1 .. Len(calls)
    BY <1>2
  <2> QED BY <1>a, <2>1 DEF InOrder
<1>7. ASSUME NEW i \in 1 .. Len(<<c>> \o calls), NEW call, call = (<<c>> \o calls)[i]
      PROVE /\ call = [depth |-> call.depth, stamp |-> call.stamp, todo |-> call.todo]
            /\ call.depth = Len(<<c>> \o calls) - i
  <2>1. CASE i = 1
    BY <1>2, <1>4, <1>5, <1>6, <1>7, <2>1
  <2>2. CASE i # 1
    <3>1. i - 1 \in 1 .. Len(calls) /\ call = calls[i - 1]
      BY <1>2, <1>4, <1>7, <2>2
    <3> QED BY <1>a, <1>2, <1>4, <3>1 DEF InOrder
  <2> QED BY <2>1, <2>2
<1>8. KnownCalls(<<c>> \o calls)
  <2>1. InOrder(<<c>> \o calls)
    BY <1>7 DEF InOrder
  <2> QED BY <1>2, <1>4, <2>1 DEF KnownCalls
<1>9. d = <<c>> \o calls
  BY <1>0 DEF Deeper
<1> QED BY <1>2, <1>4, <1>8, <1>9

NextRule(calls) == [calls EXCEPT ![1].todo = Tail(@)]

\* Going on to the next rule.
LEMMA CallsPast ==
  ASSUME NEW calls, KnownCalls(calls), NEW t, t = NextRule(calls)
  PROVE /\ KnownCalls(t) /\ Len(calls) \in Nat /\ Len(t) = Len(calls)
        /\ \A i \in 2 .. Len(calls) : t[i] = calls[i]
<1>1. PICK S : calls \in Seq(S)
  BY DEF KnownCalls
<1>a. InOrder(calls)
  BY DEF KnownCalls
<1>b. Len(calls) \in Nat /\ Len(calls) > 0
  <2>1. Len(calls) > 0
    BY DEF KnownCalls
  <2> QED BY <1>1, <2>1
<1>2. Len(calls) \in Nat /\ Len(calls) > 0
  BY <1>b
<1>3. PICK c : c = [calls[1] EXCEPT !.todo = Tail(@)]
  OBVIOUS
<1>4. t = [calls EXCEPT ![1] = c]
  BY <1>3 DEF NextRule
<1>5. /\ t \in Seq(S \cup {c}) /\ Len(t) = Len(calls) /\ t[1] = c
      /\ \A i \in 2 .. Len(calls) : t[i] = calls[i]
  BY <1>1, <1>2, <1>4
<1>6. calls[1] = [depth |-> calls[1].depth, stamp |-> calls[1].stamp, todo |-> calls[1].todo]
  <2>1. 1 \in 1 .. Len(calls)
    BY <1>2
  <2> QED BY <1>a, <2>1 DEF InOrder
<1>7. /\ c = [depth |-> c.depth, stamp |-> c.stamp, todo |-> c.todo]
      /\ c.depth = calls[1].depth
  BY <1>3, <1>6
<1>8. ASSUME NEW i \in 1 .. Len(t)
      PROVE /\ t[i] = [depth |-> t[i].depth, stamp |-> t[i].stamp, todo |-> t[i].todo]
            /\ t[i].depth = Len(t) - i
  <2>1. CASE i = 1
    BY <1>a, <1>2, <1>5, <1>7, <2>1 DEF InOrder
  <2>2. CASE i # 1
    BY <1>a, <1>2, <1>5, <2>2 DEF InOrder
  <2> QED BY <2>1, <2>2
<1>9. InOrder(t)
  BY <1>8 DEF InOrder
<1> QED BY <1>2, <1>5, <1>9 DEF KnownCalls

\* A dispatch that goes on is a dispatch, and what becomes of its fields.
LEMMA DispatchBecomes ==
  ASSUME NEW t, IsDispatch(t), NEW pc, NEW copy, NEW calls, NEW u,
         \/ u = [t EXCEPT !.pc = pc]
         \/ u = [t EXCEPT !.pc = pc, !.copy = copy]
         \/ u = [t EXCEPT !.pc = pc, !.calls = calls]
  PROVE IsDispatch(u)
<1>1. t \in [op: {"dispatch"}, pc: {t.pc, pc}, level: {t.level}, calls: {t.calls, calls},
             copy: {t.copy, copy}]
  BY DEF IsDispatch
<1>2. u \in [op: {"dispatch"}, pc: {t.pc, pc}, level: {t.level}, calls: {t.calls, calls},
             copy: {t.copy, copy}]
  BY <1>1
<1> QED BY <1>2 DEF IsDispatch

\* What a statement of dispatch() or of flag_risk makes of the task it belongs
\* to, by name.
Moved(t, pc) == [t EXCEPT !.pc = pc]
Onto(t, pc, copy) == [t EXCEPT !.pc = pc, !.copy = copy]
Passed(t) == [t EXCEPT !.pc = "rule", !.copy = Nothing, !.calls[1].todo = Tail(@)]
Returned(t) == [t EXCEPT !.pc = "finish", !.calls = Tail(@)]
Called(t, level, stamp) ==
  [t EXCEPT !.pc = "rule", !.copy = Nothing,
            !.calls = <<Call(t.calls[1].depth + 1, level, stamp)>> \o @]

\* They keep what is known of a task, and this is what becomes of its calls.
LEMMA TaskMoves ==
  ASSUME NEW t, t.op = "dispatch", JobFine(t), NEW pc, NEW copy, NEW u,
         u = Moved(t, pc) \/ u = Onto(t, pc, copy)
  PROVE /\ u.op = "dispatch" /\ u.pc = pc /\ u.calls = t.calls
        /\ JobFine(u) /\ Beneath(u) = Beneath(t) /\ First(u) = First(t)
<1>0. u = [t EXCEPT !.pc = pc] \/ u = [t EXCEPT !.pc = pc, !.copy = copy]
  BY DEF Moved, Onto
<1>1. IsDispatch(t) /\ KnownCalls(t.calls)
  BY DEF JobFine
<1>2. u.op = "dispatch" /\ u.pc = pc /\ u.calls = t.calls
  BY <1>0, <1>1 DEF IsDispatch
<1>3. IsDispatch(u)
  BY <1>0, <1>1, DispatchBecomes
<1>4. JobFine(u)
  BY <1>1, <1>2, <1>3, Zenon DEF JobFine
<1>5. Beneath(u) = Beneath(t) /\ First(u) = First(t)
  <2>1. PICK calls : calls = t.calls /\ calls = u.calls
    BY <1>2
  <2>2. Beneath(u) = {KeyOf(calls[i]) : i \in 2 .. Len(calls)}
    BY <1>2, <2>1 DEF Beneath
  <2>3. Beneath(t) = {KeyOf(calls[i]) : i \in 2 .. Len(calls)}
    BY <1>2, <2>1 DEF Beneath
  <2> QED BY <1>2, <2>2, <2>3 DEF First
<1> QED BY <1>2, <1>4, <1>5

\* On to the next rule: the calls beneath stay, and the run of the innermost
\* one is none of theirs.
LEMMA TaskPast ==
  ASSUME NEW t, t.op = "dispatch", JobFine(t), NEW u, u = Passed(t)
  PROVE /\ u.op = "dispatch" /\ u.pc = "rule" /\ JobFine(u)
        /\ Beneath(u) = Beneath(t) /\ First(t) \notin Beneath(t)
<1>1. IsDispatch(t) /\ KnownCalls(t.calls)
  BY DEF JobFine
<1>2. PICK calls : calls = t.calls
  OBVIOUS
<1>3. PICK d : d = NextRule(calls)
  OBVIOUS
<1>4. u = [t EXCEPT !.pc = "rule", !.copy = Nothing, !.calls = d]
  BY <1>2, <1>3 DEF Passed, NextRule
<1>5. u.op = "dispatch" /\ u.pc = "rule" /\ u.calls = d
  BY <1>1, <1>4 DEF IsDispatch
<1>6. IsDispatch(u)
  <2>1. t \in [op: {"dispatch"}, pc: {t.pc, "rule"}, level: {t.level}, calls: {t.calls, d},
               copy: {t.copy, Nothing}]
    BY <1>1 DEF IsDispatch
  <2>2. u \in [op: {"dispatch"}, pc: {t.pc, "rule"}, level: {t.level}, calls: {t.calls, d},
               copy: {t.copy, Nothing}]
    BY <1>4, <2>1
  <2> QED BY <2>2 DEF IsDispatch
<1>7. /\ KnownCalls(d) /\ Len(calls) \in Nat /\ Len(d) = Len(calls)
      /\ \A i \in 2 .. Len(calls) : d[i] = calls[i]
  <2>1. KnownCalls(calls)
    BY <1>1, <1>2
  <2> QED BY <1>3, <2>1, CallsPast
<1>8. \A i \in 2 .. Len(calls) : KeyOf(d[i]) = KeyOf(calls[i])
  BY <1>7, Zenon
<1>9. Beneath(u) = Beneath(t)
  BY <1>2, <1>5, <1>7, <1>8 DEF Beneath
<1>10. First(t) \notin Beneath(t)
  <2>1. \A i \in 1 .. Len(calls) : calls[i].depth = Len(calls) - i
    BY <1>1, <1>2 DEF KnownCalls, InOrder
  <2>2. 1 \in 1 .. Len(calls)
    BY <1>1, <1>2, <1>7 DEF KnownCalls
  <2>3. \A i \in 1 .. Len(calls) : KeyOf(calls[i]).depth = Len(calls) - i
    BY <2>1 DEF KeyOf, Key
  <2>4. \A i \in 2 .. Len(calls) : KeyOf(calls[i]) # KeyOf(calls[1])
    BY <1>7, <2>2, <2>3
  <2> QED BY <1>2, <2>4 DEF First, Beneath
<1> QED BY <1>5, <1>6, <1>7, <1>9, <1>10 DEF JobFine

\* dispatch() returns to the action of the call beneath, whose run is in hand.
LEMMA TaskReturns ==
  ASSUME NEW t, t.op = "dispatch", JobFine(t), Len(t.calls) > 1, NEW u,
         u = Returned(t)
  PROVE /\ u.op = "dispatch" /\ u.pc = "finish" /\ JobFine(u)
        /\ Beneath(u) \cup {First(u)} = Beneath(t)
<1>1. IsDispatch(t) /\ KnownCalls(t.calls)
  BY DEF JobFine
<1>2. PICK calls : calls = t.calls
  OBVIOUS
<1>3. PICK d : d = Tail(calls)
  OBVIOUS
<1>4. u = [t EXCEPT !.pc = "finish", !.calls = d]
  BY <1>2, <1>3 DEF Returned
<1>5. u.op = "dispatch" /\ u.pc = "finish" /\ u.calls = d
  BY <1>1, <1>4 DEF IsDispatch
<1>6. IsDispatch(u)
  BY <1>1, <1>4, DispatchBecomes
<1>7. /\ KnownCalls(d) /\ Len(calls) \in Nat /\ Len(d) = Len(calls) - 1 /\ Len(calls) > 1
      /\ \A i \in 1 .. Len(d) : d[i] = calls[i + 1]
  BY <1>1, <1>2, <1>3, CallsTail
<1>8. \A i \in 1 .. Len(d) : KeyOf(d[i]) = KeyOf(calls[i + 1])
  BY <1>7, Zenon
<1>9. Beneath(u) \cup {First(u)} = {KeyOf(d[i]) : i \in 1 .. Len(d)}
  <2>1. /\ Beneath(u) = {KeyOf(d[i]) : i \in 2 .. Len(d)}
        /\ First(u) = KeyOf(d[1])
    BY <1>5, Zenon DEF Beneath, First
  <2>2. \A i : i \in 1 .. Len(d) <=> i = 1 \/ i \in 2 .. Len(d)
    BY <1>7
  <2> QED BY <2>1, <2>2
<1>10. {KeyOf(d[i]) : i \in 1 .. Len(d)} = {KeyOf(calls[i]) : i \in 2 .. Len(calls)}
  <2>1. \A i \in 2 .. Len(calls) : i - 1 \in 1 .. Len(d) /\ KeyOf(calls[i]) = KeyOf(d[i - 1])
    BY <1>7, <1>8
  <2>2. \A i \in 1 .. Len(d) : i + 1 \in 2 .. Len(calls)
    BY <1>7
  <2>3. ASSUME NEW i \in 1 .. Len(d)
        PROVE KeyOf(d[i]) \in {KeyOf(calls[k]) : k \in 2 .. Len(calls)}
    BY <1>8, <2>2, <2>3, ZenonT(20)
  <2>4. ASSUME NEW i \in 2 .. Len(calls)
        PROVE KeyOf(calls[i]) \in {KeyOf(d[k]) : k \in 1 .. Len(d)}
    BY <2>1, <2>4, ZenonT(20)
  <2> QED BY <2>3, <2>4, ZenonT(20)
<1> QED BY <1>2, <1>5, <1>6, <1>7, <1>9, <1>10 DEF JobFine, Beneath

\* flag_risk dispatches: the call it is made in now waits beneath.
LEMMA TaskCalls ==
  ASSUME NEW t, t.op = "dispatch", JobFine(t), NEW level, NEW stamp, NEW u,
         u = Called(t, level, stamp)
  PROVE /\ u.op = "dispatch" /\ u.pc = "rule" /\ JobFine(u)
        /\ Beneath(u) = Beneath(t) \cup {First(t)}
<1>1. IsDispatch(t) /\ KnownCalls(t.calls)
  BY DEF JobFine
<1>2. PICK calls : calls = t.calls
  OBVIOUS
<1>3. PICK d : d = Deeper(calls, level, stamp)
  OBVIOUS
<1>4. u = [t EXCEPT !.pc = "rule", !.copy = Nothing, !.calls = d]
  BY <1>2, <1>3 DEF Called, Deeper
<1>5. u.op = "dispatch" /\ u.pc = "rule" /\ u.calls = d
  BY <1>1, <1>4 DEF IsDispatch
<1>6. IsDispatch(u)
  <2>1. t \in [op: {"dispatch"}, pc: {t.pc, "rule"}, level: {t.level}, calls: {t.calls, d},
               copy: {t.copy, Nothing}]
    BY <1>1 DEF IsDispatch
  <2>2. u \in [op: {"dispatch"}, pc: {t.pc, "rule"}, level: {t.level}, calls: {t.calls, d},
               copy: {t.copy, Nothing}]
    BY <1>4, <2>1
  <2> QED BY <2>2 DEF IsDispatch
<1>7. /\ KnownCalls(d) /\ Len(calls) \in Nat /\ Len(d) = Len(calls) + 1
      /\ \A i \in 1 .. Len(calls) : d[i + 1] = calls[i]
  <2>1. KnownCalls(calls)
    BY <1>1, <1>2
  <2> QED BY <1>3, <2>1, CallsPush
<1>a. Len(calls) > 0
  BY <1>1, <1>2 DEF KnownCalls
<1>8. \A i \in 1 .. Len(calls) : KeyOf(d[i + 1]) = KeyOf(calls[i])
  BY <1>7, Zenon
<1>9. {KeyOf(calls[i]) : i \in 1 .. Len(calls)} = Beneath(t) \cup {First(t)}
  BY <1>2, <1>7, <1>a DEF Beneath, First
<1>10. {KeyOf(d[i]) : i \in 2 .. Len(d)} = {KeyOf(calls[i]) : i \in 1 .. Len(calls)}
  <2>1. \A i \in 2 .. Len(d) : i - 1 \in 1 .. Len(calls) /\ KeyOf(d[i]) = KeyOf(calls[i - 1])
    <3>1. ASSUME NEW i \in 2 .. Len(d) PROVE i - 1 \in 1 .. Len(calls) /\ (i - 1) + 1 = i
      BY <1>7, <3>1
    <3> QED BY <1>8, <3>1
  <2>2. \A i \in 1 .. Len(calls) : i + 1 \in 2 .. Len(d)
    BY <1>7
  <2>3. ASSUME NEW i \in 2 .. Len(d)
        PROVE KeyOf(d[i]) \in {KeyOf(calls[k]) : k \in 1 .. Len(calls)}
    BY <2>1, <2>3, ZenonT(20)
  <2>4. ASSUME NEW i \in 1 .. Len(calls)
        PROVE KeyOf(calls[i]) \in {KeyOf(d[k]) : k \in 2 .. Len(d)}
    BY <1>8, <2>2, <2>4, ZenonT(20)
  <2> QED BY <2>3, <2>4, ZenonT(20)
<1> QED BY <1>5, <1>6, <1>7, <1>9, <1>10 DEF JobFine, Beneath

-----------------------------------------------------------------------------
RuleIn(t) == t.calls[1].todo[1]

JobsFine ==
  /\ job = [p \in Processes |-> job[p]]
  /\ \A w \in Workers : JobFine(job[w])
RunsFine ==
  /\ IsFiniteSet(runs) /\ losses \in Nat
  /\ \A run \in runs : run = [key |-> run.key, status |-> run.status]

\* A rule is locked by one task at a time, from the count to the new run, so
\* what was counted is still so.
Locked ==
  \A v, w \in Workers :
    v # w /\ Creating(job[v]) /\ Creating(job[w]) => RuleIn(job[v]) # RuleIn(job[w])
Counted ==
  \A w \in Workers :
    Creating(job[w]) /\ job[w].pc = "create" => Cardinality(RunsOf(RuleIn(job[w]))) < MaxRuns

HandsApart ==
  /\ \A v, w \in Workers : v # w => Hand(job[v]) \cap Hand(job[w]) = {}
  /\ \A w \in Workers : \A key \in Hand(job[w]) : [key |-> key, status |-> "queued"] \in runs
  /\ losses = 0 =>
       \A run \in runs : run.status = "queued" => \E w \in Workers : run.key \in Hand(job[w])

\* The runs of a rule that have acted, and those that may still act.
MayAct(run) == run.status \in Acted \/ \E w \in Workers : run.key \in Acting(job[w])
Potential(rule) == {run \in RunsOf(rule) : MayAct(run)}
Guarded == \A rule : Cardinality(Potential(rule)) <= MaxRuns
Shallow ==
  /\ \A w \in Workers : \A key \in Acting(job[w]) : key.depth < MaxDepth
  /\ \A run \in runs : run.status \in Acted => run.key.depth < MaxDepth

ClaimInv ==
  JobsFine /\ RunsFine /\ Locked /\ Counted /\ HandsApart /\ Guarded /\ Shallow

\* A run that may still act is in hand.
LEMMA ActingIsInHand == ASSUME NEW t PROVE Acting(t) \subseteq Hand(t)
BY DEF Acting, Hand, FirstIf

\* A smaller set of runs, or one to which each of them maps, has no more.
LEMMA NoMoreRuns ==
  ASSUME NEW S, IsFiniteSet(S), NEW T, NEW f, \A y \in T : \E x \in S : y = f[x]
  PROVE IsFiniteSet(T) /\ Cardinality(T) <= Cardinality(S) /\ Cardinality(T) \in Nat
<1> DEFINE U == {x \in S : f[x] \in T}
           h == [x \in U |-> f[x]]
<1>1. U \subseteq S /\ IsFiniteSet(U) /\ Cardinality(U) <= Cardinality(S)
  BY FS_Subset
<1>2. h \in Surjection(U, T)
  <2>1. h \in [U -> T]
    OBVIOUS
  <2>2. \A y \in T : \E x \in U : h[x] = y
    OBVIOUS
  <2> QED BY <2>1, <2>2 DEF Surjection
<1>3. IsFiniteSet(T) /\ Cardinality(T) <= Cardinality(U)
  BY <1>1, <1>2, FS_Surjection
<1>4. Cardinality(T) \in Nat /\ Cardinality(U) \in Nat /\ Cardinality(S) \in Nat
  BY <1>1, <1>3, FS_CardinalityType
<1> QED BY <1>1, <1>3, <1>4

\* A step that makes no run and finishes none: what the task has in hand stays,
\* or is left behind when its worker is lost; and what it is now to create has been
\* counted under the lock.
LEMMA HandsKept ==
  ASSUME ClaimInv, NEW w, JobsFine', \A v \in Workers \ {w} : job'[v] = job[v],
         runs' = runs, losses' \in Nat,
         Hand(job'[w]) \subseteq Hand(job[w]), Acting(job'[w]) \subseteq Acting(job[w]),
         losses' = 0 => losses = 0 /\ Hand(job'[w]) = Hand(job[w]),
         Creating(job'[w]) /\ job'[w] # job[w] =>
           /\ \A v \in Workers \ {w} : Creating(job[v]) => RuleIn(job[v]) # RuleIn(job'[w])
           /\ job'[w].pc = "create" => Cardinality(RunsOf(RuleIn(job'[w]))) < MaxRuns
  PROVE ClaimInv'
<1>1. RunsFine'
  BY DEF ClaimInv, RunsFine
<1>2. Locked'
  BY DEF ClaimInv, Locked
<1>r. \A rule : RunsOf(rule)' = RunsOf(rule)
  BY DEF RunsOf
<1>3. Counted'
  <2>1. ASSUME NEW v \in Workers, Creating(job'[v]), job'[v].pc = "create"
        PROVE Cardinality(RunsOf(RuleIn(job'[v]))) < MaxRuns
    BY <2>1 DEF ClaimInv, Counted
  <2>2. ASSUME NEW v \in Workers, Creating(job'[v]), job'[v].pc = "create"
        PROVE Cardinality(RunsOf(RuleIn(job[v])))' < MaxRuns
    <3>1. PICK rule : rule = RuleIn(job'[v])
      OBVIOUS
    <3>2. Cardinality(RunsOf(rule)) < MaxRuns
      BY <2>1, <2>2, <3>1
    <3>3. RunsOf(rule)' = RunsOf(rule)
      BY <1>r
    <3> QED BY <3>1, <3>2, <3>3, Zenon DEF RunsOf
  <2> QED BY <2>2 DEF Counted
<1>4. HandsApart'
  BY DEF ClaimInv, HandsApart
<1>5. \A run \in runs : MayAct(run)' => MayAct(run)
  BY DEF MayAct
<1>6. Guarded'
  <2>1. ASSUME NEW rule PROVE Cardinality(Potential(rule)') <= MaxRuns
    <3>1. Potential(rule)' \subseteq Potential(rule)
      BY <1>5, <1>r DEF Potential, RunsOf
    <3>2. IsFiniteSet(Potential(rule))
      BY FS_Subset DEF ClaimInv, RunsFine, Potential, RunsOf
    <3>3. /\ Cardinality(Potential(rule)') <= Cardinality(Potential(rule))
          /\ Cardinality(Potential(rule)') \in Nat /\ Cardinality(Potential(rule)) \in Nat
      BY <3>1, <3>2, FS_Subset, FS_CardinalityType
    <3>4. Cardinality(Potential(rule)) <= MaxRuns
      BY DEF ClaimInv, Guarded
    <3> QED BY <3>3, <3>4, AutomationAssumption
  <2> QED BY <2>1 DEF Guarded
<1>7. Shallow'
  BY DEF ClaimInv, Shallow
<1> QED BY <1>1, <1>2, <1>3, <1>4, <1>6, <1>7 DEF ClaimInv

\* A new run: its occurrence was not claimed, and when it is to act it has been
\* counted, by a task that holds the rule.
LEMMA RunMade ==
  ASSUME ClaimInv, NEW w \in Workers, JobsFine', \A v \in Workers \ {w} : job'[v] = job[v],
         losses' = losses, NEW key, ~ Claimed(key), key.rule = RuleIn(job[w]), Creating(job[w]),
         runs' = runs \cup {[key |-> key, status |-> "queued"]},
         Hand(job'[w]) = Hand(job[w]) \cup {key}, Acting(job'[w]) \subseteq Acting(job[w]) \cup {key},
         key \in Acting(job'[w]) => job[w].pc = "create" /\ key.depth < MaxDepth,
         ~ Creating(job'[w])
  PROVE ClaimInv'
<1>0. PICK new : new = [key |-> key, status |-> "queued"]
  OBVIOUS
<1>a. new.key = key /\ new.status = "queued" /\ new = [key |-> new.key, status |-> new.status]
  BY <1>0
<1>b. runs' = runs \cup {new} /\ IsFiniteSet(runs) /\ losses \in Nat
  BY <1>0 DEF ClaimInv, RunsFine
<1>1. RunsFine'
  <2>1. IsFiniteSet(runs \cup {new})
    BY <1>b, FS_AddElement
  <2> QED BY <1>a, <1>b, <2>1 DEF ClaimInv, RunsFine
<1>2. Locked'
  BY DEF ClaimInv, Locked
<1>r. \A rule : RunsOf(rule)' = IF rule = key.rule THEN RunsOf(rule) \cup {new} ELSE RunsOf(rule)
  BY <1>a, <1>b DEF RunsOf
<1>3. Counted'
  <2>1. ASSUME NEW v \in Workers, Creating(job'[v]), job'[v].pc = "create"
        PROVE Cardinality(RunsOf(RuleIn(job[v])))' < MaxRuns
    <3>1. PICK rule : rule = RuleIn(job'[v])
      OBVIOUS
    <3>2. v # w /\ job'[v] = job[v]
      BY <2>1
    <3>3. rule # key.rule /\ Cardinality(RunsOf(rule)) < MaxRuns
      BY <2>1, <3>1, <3>2 DEF ClaimInv, Locked, Counted
    <3>4. RunsOf(rule)' = RunsOf(rule)
      BY <1>r, <3>3
    <3> QED BY <3>1, <3>3, <3>4, Zenon DEF RunsOf
  <2> QED BY <2>1 DEF Counted
<1>k. ASSUME NEW v \in Workers, key \in Hand(job[v]) PROVE FALSE
  <2>1. new \in runs
    BY <1>0, <1>k DEF ClaimInv, HandsApart
  <2> QED BY <1>a, <2>1 DEF Claimed
<1>4. HandsApart'
  <2>1. \A v \in Workers \ {w} : Hand(job'[v]) = Hand(job[v])
    OBVIOUS
  <2>2. ASSUME NEW u \in Workers, NEW v \in Workers, u # v
        PROVE Hand(job'[u]) \cap Hand(job'[v]) = {}
    BY <1>k, <2>1, <2>2 DEF ClaimInv, HandsApart
  <2>3. ASSUME NEW v \in Workers, NEW k \in Hand(job'[v])
        PROVE [key |-> k, status |-> "queued"] \in runs'
    BY <2>1, <2>3 DEF ClaimInv, HandsApart
  <2>4. ASSUME losses' = 0, NEW run \in runs', run.status = "queued"
        PROVE \E v \in Workers : run.key \in Hand(job'[v])
    <3>1. CASE run = new
      BY <1>a, <3>1
    <3>2. CASE run \in runs
      <4>1. PICK v \in Workers : run.key \in Hand(job[v])
        BY <2>4, <3>2 DEF ClaimInv, HandsApart
      <4> QED BY <2>1, <4>1
    <3> QED BY <1>b, <2>4, <3>1, <3>2
  <2> QED BY <2>2, <2>3, <2>4 DEF HandsApart
<1>5. Guarded'
  <2>1. ASSUME NEW rule PROVE Cardinality(Potential(rule)') <= MaxRuns
    <3>0. Cardinality(Potential(rule)) <= MaxRuns /\ MaxRuns \in Nat
      BY AutomationAssumption DEF ClaimInv, Guarded
    <3>a. /\ IsFiniteSet(RunsOf(rule)) /\ Cardinality(RunsOf(rule)) \in Nat
          /\ IsFiniteSet(Potential(rule)) /\ Cardinality(Potential(rule)) \in Nat
      <4>1. RunsOf(rule) \subseteq runs /\ Potential(rule) \subseteq runs
        BY DEF RunsOf, Potential
      <4> QED BY <1>b, <4>1, FS_Subset, FS_CardinalityType
    <3>1. CASE new \in Potential(rule)'
      <4>1. rule = key.rule /\ \E v \in Workers : key \in Acting(job'[v])
        BY <1>a, <3>1 DEF Potential, RunsOf, MayAct, Acted
      <4>2. key \in Acting(job'[w])
        BY <1>k, <4>1, ActingIsInHand
      <4>3. Cardinality(RunsOf(rule)) < MaxRuns
        BY <4>1, <4>2 DEF ClaimInv, Counted
      <4>4. Potential(rule)' \subseteq RunsOf(rule) \cup {new}
        BY <1>r DEF Potential
      <4>5. /\ IsFiniteSet(RunsOf(rule) \cup {new})
            /\ Cardinality(RunsOf(rule) \cup {new}) \in Nat
            /\ Cardinality(RunsOf(rule) \cup {new}) <= Cardinality(RunsOf(rule)) + 1
        <5>1. PICK S : S = RunsOf(rule)
          OBVIOUS
        <5>2. /\ IsFiniteSet(S \cup {new})
              /\ Cardinality(S \cup {new}) = IF new \in S THEN Cardinality(S) ELSE Cardinality(S) + 1
          BY <3>a, <5>1, FS_AddElement
        <5> QED BY <3>a, <5>1, <5>2
      <4>6. /\ Cardinality(Potential(rule)') <= Cardinality(RunsOf(rule) \cup {new})
            /\ Cardinality(Potential(rule)') \in Nat
        BY <4>4, <4>5, FS_Subset, FS_CardinalityType
      <4> QED BY <3>0, <3>a, <4>3, <4>5, <4>6
    <3>2. CASE new \notin Potential(rule)'
      <4>1. ASSUME NEW run \in Potential(rule)' PROVE run \in Potential(rule)
        <5>1. run \in RunsOf(rule)
          BY <1>r, <3>2, <4>1 DEF Potential
        <5>2. run.key # key
          BY <5>1 DEF Claimed, RunsOf
        <5>3. MayAct(run)
          BY <4>1, <5>2 DEF Potential, MayAct
        <5> QED BY <5>1, <5>3 DEF Potential
      <4>2. /\ Cardinality(Potential(rule)') <= Cardinality(Potential(rule))
            /\ Cardinality(Potential(rule)') \in Nat
        BY <3>a, <4>1, FS_Subset, FS_CardinalityType
      <4> QED BY <3>0, <3>a, <4>2
    <3> QED BY <3>1, <3>2
  <2> QED BY <2>1 DEF Guarded
<1>6. Shallow'
  BY <1>a, <1>b DEF ClaimInv, Shallow, Acted
<1> QED BY <1>1, <1>2, <1>3, <1>4, <1>5, <1>6 DEF ClaimInv

\* A run is finished by the task that has it in hand.
LEMMA RunFinished ==
  ASSUME ClaimInv, NEW w \in Workers, JobsFine', \A v \in Workers \ {w} : job'[v] = job[v],
         losses' = losses, NEW key \in Hand(job[w]), NEW status, status # "queued",
         status \in Acted => key \in Acting(job[w]),
         runs' = {IF run.key = key THEN [run EXCEPT !.status = status] ELSE run : run \in runs},
         Hand(job'[w]) = Hand(job[w]) \ {key}, Acting(job'[w]) \subseteq Acting(job[w]),
         ~ Creating(job'[w])
  PROVE ClaimInv'
<1>0. PICK f : f = [run \in runs |-> IF run.key = key THEN [run EXCEPT !.status = status] ELSE run]
  OBVIOUS
<1>a. /\ IsFiniteSet(runs) /\ losses \in Nat
      /\ \A run \in runs : run = [key |-> run.key, status |-> run.status]
  BY DEF ClaimInv, RunsFine
<1>b. \A run \in runs :
        /\ f[run].key = run.key /\ f[run] = [key |-> f[run].key, status |-> f[run].status]
        /\ run.key = key => f[run].status = status
        /\ run.key # key => f[run] = run
  BY <1>0, <1>a
<1>c. \A y : y \in runs' <=> \E run \in runs : y = f[run]
  BY <1>0
<1>1. RunsFine'
  <2>1. IsFiniteSet(runs')
    <3>1. PICK T : T = runs'
      OBVIOUS
    <3>2. \A y \in T : \E run \in runs : y = f[run]
      BY <1>c, <3>1
    <3>3. IsFiniteSet(T)
      BY <1>a, <3>2, NoMoreRuns
    <3> QED BY <3>1, <3>3
  <2> QED BY <1>a, <1>b, <1>c, <2>1 DEF RunsFine
<1>2. Locked'
  BY DEF ClaimInv, Locked
<1>r. ASSUME NEW rule, NEW y \in RunsOf(rule)' PROVE \E run \in RunsOf(rule) : y = f[run]
  <2>1. PICK run \in runs : y = f[run]
    BY <1>c, <1>r DEF RunsOf
  <2>2. y.key.rule = rule
    BY <1>r DEF RunsOf
  <2> QED BY <1>b, <2>1, <2>2 DEF RunsOf
<1>n. ASSUME NEW rule
      PROVE /\ IsFiniteSet(RunsOf(rule)) /\ Cardinality(RunsOf(rule)) \in Nat
            /\ IsFiniteSet(Potential(rule)) /\ Cardinality(Potential(rule)) \in Nat
  <2>1. RunsOf(rule) \subseteq runs /\ Potential(rule) \subseteq runs
    BY DEF RunsOf, Potential
  <2> QED BY <1>a, <2>1, FS_Subset, FS_CardinalityType
<1>m. MaxRuns \in Nat
  BY AutomationAssumption
<1>3. Counted'
  <2>1. ASSUME NEW v \in Workers, Creating(job'[v]), job'[v].pc = "create"
        PROVE Cardinality(RunsOf(RuleIn(job[v])))' < MaxRuns
    <3>1. PICK rule : rule = RuleIn(job'[v])
      OBVIOUS
    <3>2. v # w /\ job'[v] = job[v]
      BY <2>1
    <3>3. Cardinality(RunsOf(rule)) < MaxRuns
      BY <2>1, <3>1, <3>2 DEF ClaimInv, Counted
    <3>4. PICK T : T = RunsOf(rule)'
      OBVIOUS
    <3>5. Cardinality(T) <= Cardinality(RunsOf(rule)) /\ Cardinality(T) \in Nat
      BY <1>r, <1>n, <3>4, NoMoreRuns
    <3>6. Cardinality(T) < MaxRuns
      BY <1>m, <1>n, <3>3, <3>5
    <3> QED BY <3>1, <3>4, <3>6, Zenon DEF RunsOf
  <2> QED BY <2>1 DEF Counted
<1>4. HandsApart'
  <2>1. \A v \in Workers \ {w} : Hand(job'[v]) = Hand(job[v])
    OBVIOUS
  <2>2. ASSUME NEW u \in Workers, NEW v \in Workers, u # v
        PROVE Hand(job'[u]) \cap Hand(job'[v]) = {}
    BY <2>1, <2>2 DEF ClaimInv, HandsApart
  <2>3. ASSUME NEW v \in Workers, NEW k \in Hand(job'[v])
        PROVE [key |-> k, status |-> "queued"] \in runs'
    <3>1. k \in Hand(job[v]) /\ k # key
      BY <2>1, <2>3 DEF ClaimInv, HandsApart
    <3>2. PICK run : run = [key |-> k, status |-> "queued"]
      OBVIOUS
    <3>3. run \in runs /\ run.key # key
      BY <3>1, <3>2 DEF ClaimInv, HandsApart
    <3> QED BY <1>b, <1>c, <3>2, <3>3
  <2>4. ASSUME losses' = 0, NEW run \in runs', run.status = "queued"
        PROVE \E v \in Workers : run.key \in Hand(job'[v])
    <3>1. PICK old \in runs : run = f[old]
      BY <1>c, <2>4
    <3>2. run = old /\ run.key # key
      BY <1>b, <2>4, <3>1
    <3>3. PICK v \in Workers : run.key \in Hand(job[v])
      BY <2>4, <3>2 DEF ClaimInv, HandsApart
    <3> QED BY <2>1, <3>2, <3>3
  <2> QED BY <2>2, <2>3, <2>4 DEF HandsApart
<1>p. ASSUME NEW rule, NEW run \in Potential(rule)'
      PROVE \E old \in Potential(rule) : run = f[old]
  <2>1. PICK old \in RunsOf(rule) : run = f[old]
    BY <1>r, <1>p DEF Potential
  <2>2. old \in runs
    BY DEF RunsOf
  <2>3. MayAct(old)
    <3>1. CASE old.key = key
      <4>1. run.key = key /\ run.status = status
        BY <1>b, <2>1, <2>2, <3>1
      <4>2. run.status \in Acted \/ \E v \in Workers : run.key \in Acting(job'[v])
        BY <1>p DEF Potential, MayAct
      <4>3. \E v \in Workers : key \in Acting(job[v])
        BY <4>1, <4>2
      <4> QED BY <3>1, <4>3 DEF MayAct
    <3>2. CASE old.key # key
      BY <1>b, <1>p, <2>1, <2>2, <3>2 DEF Potential, MayAct
    <3> QED BY <3>1, <3>2
  <2> QED BY <2>1, <2>3 DEF Potential
<1>5. Guarded'
  <2>1. ASSUME NEW rule PROVE Cardinality(Potential(rule)') <= MaxRuns
    <3>1. PICK T : T = Potential(rule)'
      OBVIOUS
    <3>2. \A y \in T : \E run \in Potential(rule) : y = f[run]
      BY <1>p, <3>1
    <3>3. Cardinality(T) <= Cardinality(Potential(rule)) /\ Cardinality(T) \in Nat
      BY <1>n, <3>2, NoMoreRuns
    <3>4. Cardinality(Potential(rule)) <= MaxRuns
      BY DEF ClaimInv, Guarded
    <3> QED BY <1>m, <1>n, <3>1, <3>3, <3>4
  <2> QED BY <2>1 DEF Guarded
<1>6. Shallow'
  <2>1. \A v \in Workers : \A k \in Acting(job'[v]) : k.depth < MaxDepth
    BY DEF ClaimInv, Shallow
  <2>2. ASSUME NEW run \in runs', run.status \in Acted PROVE run.key.depth < MaxDepth
    <3>1. PICK old \in runs : run = f[old]
      BY <1>c, <2>2
    <3>2. CASE old.key = key
      BY <1>b, <2>2, <3>1, <3>2 DEF ClaimInv, Shallow
    <3>3. CASE old.key # key
      BY <1>b, <2>2, <3>1, <3>3 DEF ClaimInv, Shallow
    <3> QED BY <3>2, <3>3
  <2> QED BY <2>1, <2>2 DEF Shallow
<1> QED BY <1>1, <1>2, <1>3, <1>4, <1>5, <1>6 DEF ClaimInv

-----------------------------------------------------------------------------
\* Nothing is claimed at the start.
LEMMA InitClaims == Init => ClaimInv
<1> SUFFICES ASSUME Init PROVE ClaimInv
  OBVIOUS
<1>1. /\ job = [p \in Processes |-> job[p]] /\ runs = {} /\ losses = 0
      /\ \A w \in Workers : job[w].op # "dispatch"
  BY DEF Init, RiskInit, Idle, Processes
<1>2. \A w \in Workers : Hand(job[w]) = {} /\ Acting(job[w]) = {} /\ ~ Creating(job[w])
  BY <1>1 DEF Hand, Acting, Beneath, FirstIf, Creating
<1>3. JobsFine /\ Locked /\ Counted
  BY <1>1, <1>2 DEF JobsFine, JobFine, Locked, Counted
<1>4. RunsFine /\ HandsApart /\ Shallow
  BY <1>1, <1>2, FS_EmptySet DEF RunsFine, HandsApart, Shallow
<1>5. Guarded
  <2>1. \A rule : Potential(rule) = {}
    BY <1>1 DEF Potential, RunsOf
  <2> QED BY <2>1, FS_EmptySet, AutomationAssumption DEF Guarded
<1> QED BY <1>3, <1>4, <1>5 DEF ClaimInv

\* One process goes on, to something known.
LEMMA OneGoes ==
  ASSUME JobsFine, NEW p \in Processes, NEW next, Goes(p, next), JobFine(next)
  PROVE /\ JobsFine' /\ job'[p] = next
        /\ \A q \in Processes \ {p} : job'[q] = job[q]
        /\ \A v \in Workers \ {p} : job'[v] = job[v]
<1>1. /\ job' = [q \in Processes |-> job'[q]] /\ job'[p] = next
      /\ \A q \in Processes \ {p} : job'[q] = job[q]
  BY DEF JobsFine, Goes
<1>2. \A w \in Workers : JobFine(job'[w])
  BY <1>1 DEF JobsFine, Processes
<1> QED BY <1>1, <1>2 DEF JobsFine, Processes

\* Nothing in hand, before or after.
LEMMA NoDispatch ==
  ASSUME NEW t, t.op # "dispatch"
  PROVE JobFine(t) /\ Hand(t) = {} /\ Acting(t) = {} /\ ~ Creating(t)
BY DEF JobFine, Hand, Acting, Beneath, FirstIf, Creating

(* A step outside the dispatching, which makes no run, keeps ClaimInv. *)
LEMMA NothingInHand ==
  ASSUME ClaimInv, NEW p \in Processes, NEW next, Goes(p, next),
         job[p].op # "dispatch", next.op # "dispatch", UNCHANGED <<runs, losses>>
  PROVE ClaimInv'
<1>1. /\ JobsFine' /\ job'[p] = next /\ \A v \in Workers \ {p} : job'[v] = job[v]
  BY NoDispatch, OneGoes DEF ClaimInv
<1>2. Hand(job'[p]) = {} /\ Hand(job[p]) = {} /\ Acting(job'[p]) = {} /\ ~ Creating(job'[p])
  BY <1>1, NoDispatch
<1>3. losses' \in Nat /\ losses' = losses
  BY DEF ClaimInv, RunsFine
<1> QED BY <1>1, <1>2, <1>3, HandsKept

\* No process goes on.
LEMMA NoJobMoves ==
  ASSUME ClaimInv, UNCHANGED <<job, runs, losses>>
  PROVE ClaimInv'
<1>1. JobsFine' /\ losses' \in Nat
  BY DEF ClaimInv, JobsFine, RunsFine
<1>2. PICK w : w = 0
  OBVIOUS
<1>3. Hand(job'[w]) = Hand(job[w]) /\ Acting(job'[w]) = Acting(job[w]) /\ job'[w] = job[w]
  OBVIOUS
<1> QED BY <1>1, <1>3, HandsKept

\* The statements of Risk, which only take and leave recomputations.
LEMMA RiskKeepsClaims ==
  ASSUME ClaimInv, UNCHANGED <<runs, losses>>, NEW p \in Processes,
         Recomputing(p) \/ TakeRecompute(p) \/ ClearKey(p) \/ View(p)
  PROVE ClaimInv'
<1>1. PICK next : Goes(p, next) /\ next.op # "dispatch"
  BY DEF Recomputing, ReadFigures, Judge, FindNone, InsertState, InsertLost, Committed,
         TakeRecompute, ClearKey, View, Recompute, Idle
<1>2. job[p].op # "dispatch"
  BY DEF Recomputing, ReadFigures, Judge, FindNone, InsertState, InsertLost,
         TakeRecompute, ClearKey, View, Idle
<1> QED BY <1>1, <1>2, NothingInHand

\* Time, operators and readers claim nothing.
LEMMA EnvironmentKeepsClaims ==
  ASSUME ClaimInv, Environment
  PROVE ClaimInv'
<1>1. CASE OfRisk(Change) \/ OfRisk(KeyLapses) \/ OfRisk(OverrideLapses) \/ OfRisk(Tick)
  BY <1>1, NoJobMoves DEF OfRisk, Change, KeyLapses, OverrideLapses, Tick
<1>2. ASSUME NEW r \in Readers, OfRisk(View(r)) \/ OfRisk(Recomputing(r)) PROVE ClaimInv'
  BY <1>2, RiskKeepsClaims DEF OfRisk, Processes
<1> QED BY <1>1, <1>2 DEF Environment

\* A dispatch begins, and ends.
LEMMA TakeEventKeepsClaims ==
  ASSUME ClaimInv, NEW w \in Workers, NEW level, TakeEvent(w, level)
  PROVE ClaimInv'
<1>0. w \in Processes
  BY DEF Processes
<1>1. PICK c : c = Call(0, level, state.stamp)
  OBVIOUS
<1>2. PICK next : next = Dispatch("rule", level, <<c>>)
  OBVIOUS
<1>3. Goes(w, next) /\ job[w] = Idle /\ UNCHANGED <<runs, losses>>
  BY <1>1, <1>2 DEF TakeEvent
<1>4. IsDispatch(next) /\ next.op = "dispatch" /\ next.pc = "rule" /\ next.calls = <<c>>
  BY <1>2 DEF IsDispatch, Dispatch
<1>5. KnownCalls(<<c>>)
  <2>1. c = [depth |-> c.depth, stamp |-> c.stamp, todo |-> c.todo] /\ c.depth = 0
    BY <1>1 DEF Call
  <2>2. <<c>> \in Seq({c}) /\ Len(<<c>>) = 1 /\ <<c>>[1] = c
    OBVIOUS
  <2>3. \A i \in 1 .. Len(<<c>>) : i = 1
    BY <2>2
  <2>4. InOrder(<<c>>)
    BY <2>1, <2>2, <2>3 DEF InOrder
  <2>5. \E S : <<c>> \in Seq(S)
    BY <2>2
  <2> QED BY <2>2, <2>4, <2>5 DEF KnownCalls
<1>6. JobFine(next)
  BY <1>4, <1>5 DEF JobFine
<1>7. Hand(next) = {} /\ Acting(next) = {} /\ ~ Creating(next)
  <2>1. 2 .. Len(next.calls) = {}
    BY <1>4
  <2> QED BY <1>4, <2>1 DEF Hand, Acting, Beneath, FirstIf, Creating
<1>8. /\ JobsFine' /\ job'[w] = next /\ \A v \in Workers \ {w} : job'[v] = job[v]
  BY <1>0, <1>3, <1>6, OneGoes DEF ClaimInv
<1>9. Hand(job[w]) = {} /\ losses' = losses /\ losses \in Nat
  BY <1>3, NoDispatch DEF Idle, ClaimInv, RunsFine
<1> QED BY <1>3, <1>7, <1>8, <1>9, HandsKept

\* A statement that only moves the task on: what it has in hand stays.
LEMMA MovesOn ==
  ASSUME ClaimInv, NEW w \in Workers, NEW u, Goes(w, u), JobFine(u),
         Hand(u) = Hand(job[w]), Acting(u) = Acting(job[w]), ~ Creating(u),
         UNCHANGED <<runs, losses>>
  PROVE ClaimInv'
<1>1. w \in Processes /\ losses' = losses /\ losses \in Nat
  BY DEF Processes, ClaimInv, RunsFine
<1>2. /\ JobsFine' /\ job'[w] = u /\ \A v \in Workers \ {w} : job'[v] = job[v]
  BY <1>1, OneGoes DEF ClaimInv
<1> QED BY <1>1, <1>2, HandsKept

\* The rule is locked, its runs are counted.
LEMMA CountRunsKeepsClaims ==
  ASSUME ClaimInv, NEW w \in Workers, CountRuns(w)
  PROVE ClaimInv'
<1>1. PICK t : t = job[w]
  OBVIOUS
<1>2. PICK pc : pc = IF Cardinality(RunsOf(RuleIn(t))) >= MaxRuns THEN "create_limited" ELSE "create"
  OBVIOUS
<1>3. PICK u : u = Moved(t, pc)
  OBVIOUS
<1>4. /\ t.op = "dispatch" /\ t.pc = "rule" /\ JobFine(t) /\ w \in Processes
      /\ Goes(w, u) /\ UNCHANGED <<runs, losses>>
  BY <1>1, <1>2, <1>3
  DEF CountRuns, Dispatching, Moves, Moved, Rule, Top, RuleIn, ClaimInv, JobsFine, Processes
<1>5. /\ u.op = "dispatch" /\ u.pc = pc /\ u.calls = t.calls
      /\ JobFine(u) /\ Beneath(u) = Beneath(t)
  BY <1>3, <1>4, TaskMoves
<1>6. Hand(u) = Hand(t) /\ Acting(u) = Acting(t)
  BY <1>2, <1>4, <1>5 DEF Hand, Acting, FirstIf
<1>7. RuleIn(u) = RuleIn(t)
  BY <1>5 DEF RuleIn
<1>8. \A v \in Workers \ {w} : Creating(job[v]) => RuleIn(job[v]) # RuleIn(u)
  BY <1>1, <1>7 DEF CountRuns, RuleFree, Rule, Top, RuleIn, Creating
<1>9. u.pc = "create" => Cardinality(RunsOf(RuleIn(u))) < MaxRuns
  <2>1. Cardinality(RunsOf(RuleIn(t))) \in Nat /\ MaxRuns \in Nat
    <3>1. RunsOf(RuleIn(t)) \subseteq runs /\ IsFiniteSet(runs)
      BY DEF RunsOf, ClaimInv, RunsFine
    <3> QED BY <3>1, FS_Subset, FS_CardinalityType, AutomationAssumption
  <2> QED BY <1>2, <1>5, <1>7, <2>1
<1>10. /\ JobsFine' /\ job'[w] = u /\ \A v \in Workers \ {w} : job'[v] = job[v]
  BY <1>4, <1>5, OneGoes DEF ClaimInv
<1>11. losses' = losses /\ losses \in Nat
  BY <1>4 DEF ClaimInv, RunsFine
<1> QED BY <1>1, <1>4, <1>6, <1>8, <1>9, <1>10, <1>11, HandsKept

\* The new run is in hand, and acts only when the count and the depth allow it.
LEMMA CreateRunKeepsClaims ==
  ASSUME ClaimInv, NEW w \in Workers, CreateRun(w)
  PROVE ClaimInv'
<1>1. PICK t : t = job[w]
  OBVIOUS
<1>2. PICK pc : pc = IF TooDeep(t.calls[1].depth) \/ t.pc = "create_limited" THEN "skip" ELSE "act"
  OBVIOUS
<1>3. PICK u : u = Moved(t, pc)
  OBVIOUS
<1>4. PICK key : key = First(t)
  OBVIOUS
<1>5. /\ t.op = "dispatch" /\ t.pc \in {"create", "create_limited"} /\ JobFine(t)
      /\ w \in Processes /\ Goes(w, u) /\ losses' = losses
  BY <1>1, <1>2, <1>3
  DEF CreateRun, Dispatching, Moves, Moved, Top, ClaimInv, JobsFine, Processes
<1>6. key = Current(w)
  BY <1>1, <1>4 DEF First, KeyOf, Current, Rule, Top
<1>7. /\ ~ Claimed(key) /\ runs' = runs \cup {[key |-> key, status |-> "queued"]}
  BY <1>6 DEF CreateRun, Taken
<1>8. /\ u.op = "dispatch" /\ u.pc = pc /\ JobFine(u) /\ Beneath(u) = Beneath(t)
      /\ First(u) = First(t)
  BY <1>3, <1>5, TaskMoves
<1>9. /\ Hand(u) = Hand(t) \cup {key} /\ ~ Creating(u)
      /\ Acting(u) = Acting(t) \cup (IF pc = "act" THEN {key} ELSE {})
  <2>1. /\ FirstIf(t, {"act", "flag", "finish", "skip"}) = {}
        /\ FirstIf(t, {"act", "flag", "finish"}) = {}
    BY <1>5 DEF FirstIf
  <2>2. /\ FirstIf(u, {"act", "flag", "finish", "skip"}) = {key}
        /\ FirstIf(u, {"act", "flag", "finish"}) = IF pc = "act" THEN {key} ELSE {}
        /\ ~ Creating(u)
    BY <1>2, <1>4, <1>8 DEF FirstIf, Creating
  <2> QED BY <1>8, <2>1, <2>2 DEF Hand, Acting
<1>10. /\ JobsFine' /\ job'[w] = u /\ \A v \in Workers \ {w} : job'[v] = job[v]
  BY <1>5, <1>8, OneGoes DEF ClaimInv
<1>11. key \in Acting(u) => t.pc = "create" /\ key.depth < MaxDepth
  <2>1. key \notin Acting(t)
    <3>1. key \notin Hand(t)
      <4>1. ASSUME key \in Hand(t) PROVE FALSE
        <5>1. [key |-> key, status |-> "queued"] \in runs
          BY <1>1, <4>1 DEF ClaimInv, HandsApart
        <5> QED BY <1>7, <5>1 DEF Claimed
      <4> QED BY <4>1
    <3> QED BY <3>1, ActingIsInHand
  <2>2. ASSUME pc = "act" PROVE t.pc = "create" /\ ~ TooDeep(t.calls[1].depth)
    BY <1>2, <1>5, <2>2
  <2>3. key.depth = t.calls[1].depth
    BY <1>4 DEF First, KeyOf, Key
  <2>4. t.calls[1].depth \in Int
    <3>1. KnownCalls(t.calls)
      BY <1>5 DEF JobFine
    <3>2. PICK S : t.calls \in Seq(S)
      BY <3>1 DEF KnownCalls
    <3>3. Len(t.calls) \in Nat /\ Len(t.calls) > 0 /\ InOrder(t.calls)
      BY <3>1, <3>2 DEF KnownCalls
    <3>4. 1 \in 1 .. Len(t.calls)
      BY <3>3
    <3>5. t.calls[1].depth = Len(t.calls) - 1
      BY <3>3, <3>4 DEF InOrder
    <3> QED BY <3>3, <3>5
  <2>5. MaxDepth \in Nat
    BY AutomationAssumption
  <2>6. ~ TooDeep(t.calls[1].depth) => t.calls[1].depth < MaxDepth
    BY <2>4, <2>5 DEF TooDeep
  <2>7. key \in Acting(u) => pc = "act"
    BY <1>9, <2>1
  <2> QED BY <2>2, <2>3, <2>6, <2>7
<1>12. key.rule = RuleIn(t) /\ Creating(t)
  BY <1>4, <1>5 DEF First, KeyOf, Key, RuleIn, Creating
<1>13. Acting(u) \subseteq Acting(t) \cup {key}
  BY <1>9
<1> QED BY <1>1, <1>5, <1>7, <1>9, <1>10, <1>11, <1>12, <1>13, RunMade

\* A run is finished, and the task goes on to its next rule.
LEMMA FinishRunKeepsClaims ==
  ASSUME ClaimInv, NEW w \in Workers, NEW status, FinishRun(w, status), status # "queued",
         job[w].op = "dispatch", job[w].pc \in {"act", "flag", "finish", "skip"},
         status \in Acted => job[w].pc # "skip"
  PROVE ClaimInv'
<1>1. PICK t : t = job[w]
  OBVIOUS
<1>2. PICK u : u = Passed(t)
  OBVIOUS
<1>3. PICK key : key = First(t)
  OBVIOUS
<1>4. /\ t.op = "dispatch" /\ JobFine(t) /\ w \in Processes /\ Goes(w, u) /\ losses' = losses
  BY <1>1, <1>2 DEF FinishRun, PastRule, Passed, ClaimInv, JobsFine, Processes
<1>5. key = Current(w)
  BY <1>1, <1>3 DEF First, KeyOf, Current, Rule, Top
<1>6. runs' = {IF run.key = key THEN [run EXCEPT !.status = status] ELSE run : run \in runs}
  BY <1>5 DEF FinishRun
<1>7. /\ u.op = "dispatch" /\ u.pc = "rule" /\ JobFine(u) /\ Beneath(u) = Beneath(t)
      /\ key \notin Beneath(t)
  BY <1>2, <1>3, <1>4, TaskPast
<1>8. /\ Hand(u) = Beneath(t) /\ Acting(u) = Beneath(t) /\ ~ Creating(u)
  BY <1>7 DEF Hand, Acting, FirstIf, Creating
<1>9. Hand(t) = Beneath(t) \cup {key} /\ Beneath(t) \subseteq Acting(t)
  BY <1>1, <1>3 DEF Hand, Acting, FirstIf
<1>10. status \in Acted => key \in Acting(t)
  BY <1>1, <1>3 DEF Acting, FirstIf
<1>11. /\ JobsFine' /\ job'[w] = u /\ \A v \in Workers \ {w} : job'[v] = job[v]
  BY <1>4, <1>7, OneGoes DEF ClaimInv
<1>12. key \in Hand(job[w]) /\ Hand(u) = Hand(job[w]) \ {key} /\ Acting(u) \subseteq Acting(job[w])
  BY <1>1, <1>7, <1>8, <1>9
<1> QED BY <1>1, <1>4, <1>6, <1>8, <1>10, <1>11, <1>12, RunFinished

\* The rule is passed over.
LEMMA PassOverKeepsClaims ==
  ASSUME ClaimInv, NEW w \in Workers, PassOver(w)
  PROVE ClaimInv'
<1>1. PICK t : t = job[w]
  OBVIOUS
<1>2. PICK u : u = Passed(t)
  OBVIOUS
<1>3. /\ t.op = "dispatch" /\ t.pc \in {"create", "create_limited"} /\ JobFine(t)
      /\ Goes(w, u) /\ UNCHANGED <<runs, losses>>
  BY <1>1, <1>2 DEF PassOver, PastRule, Passed, Dispatching, ClaimInv, JobsFine
<1>4. /\ u.op = "dispatch" /\ u.pc = "rule" /\ JobFine(u) /\ Beneath(u) = Beneath(t)
  BY <1>2, <1>3, TaskPast
<1>5. Hand(u) = Hand(t) /\ Acting(u) = Acting(t) /\ ~ Creating(u)
  BY <1>3, <1>4 DEF Hand, Acting, FirstIf, Creating
<1> QED BY <1>1, <1>3, <1>4, <1>5, MovesOn

\* The action begins.
LEMMA ActKeepsClaims ==
  ASSUME ClaimInv, NEW w \in Workers, Act(w)
  PROVE ClaimInv'
<1>1. PICK t : t = job[w]
  OBVIOUS
<1>2. PICK u : Goes(w, u) /\ (u = Moved(t, "finish") \/ u = Onto(t, "flag", state.level))
  <2>1. Goes(w, Moved(t, "finish")) \/ Goes(w, Onto(t, "flag", state.level))
    BY <1>1, Zenon DEF Act, Moves, Moved, Onto
  <2> QED BY <2>1, Zenon
<1>3. /\ t.op = "dispatch" /\ t.pc = "act" /\ JobFine(t) /\ UNCHANGED <<runs, losses>>
  BY <1>1 DEF Act, Dispatching, ClaimInv, JobsFine
<1>4. /\ u.op = "dispatch" /\ u.pc \in {"finish", "flag"} /\ JobFine(u)
      /\ Beneath(u) = Beneath(t) /\ First(u) = First(t)
  <2>1. CASE u = Moved(t, "finish")
    BY <1>3, <2>1, TaskMoves
  <2>2. CASE u = Onto(t, "flag", state.level)
    BY <1>3, <2>2, TaskMoves
  <2> QED BY <1>2, <2>1, <2>2
<1>5. Hand(u) = Hand(t) /\ Acting(u) = Acting(t) /\ ~ Creating(u)
  BY <1>3, <1>4 DEF Hand, Acting, FirstIf, Creating
<1> QED BY <1>1, <1>2, <1>3, <1>4, <1>5, MovesOn

\* The action is done, or it dispatches.
LEMMA FlagKeepsClaims ==
  ASSUME ClaimInv, NEW w \in Workers, Flag(w)
  PROVE ClaimInv'
<1>1. PICK t : t = job[w]
  OBVIOUS
<1>3. /\ t.op = "dispatch" /\ t.pc = "flag" /\ JobFine(t) /\ UNCHANGED <<runs, losses>>
  BY <1>1 DEF Flag, Dispatching, ClaimInv, JobsFine
<1>4. CASE Moves(w, "finish")
  <2>1. PICK u : u = Moved(t, "finish")
    OBVIOUS
  <2>2. /\ u.op = "dispatch" /\ u.pc = "finish" /\ JobFine(u)
        /\ Beneath(u) = Beneath(t) /\ First(u) = First(t)
    BY <1>3, <2>1, TaskMoves
  <2>3. Hand(u) = Hand(t) /\ Acting(u) = Acting(t) /\ ~ Creating(u)
    BY <1>3, <2>2 DEF Hand, Acting, FirstIf, Creating
  <2>4. Goes(w, u)
    BY <1>1, <1>4, <2>1 DEF Moves, Moved
  <2> QED BY <1>1, <1>3, <2>2, <2>3, <2>4, MovesOn
<1>5. ASSUME NEW level,
             Goes(w, [job[w] EXCEPT !.pc = "rule", !.copy = Nothing,
                      !.calls = <<Call(Top(w).depth + 1, level, clock)>> \o @])
      PROVE ClaimInv'
  <2>1. PICK u : u = Called(t, level, clock)
    OBVIOUS
  <2>2. /\ u.op = "dispatch" /\ u.pc = "rule" /\ JobFine(u)
        /\ Beneath(u) = Beneath(t) \cup {First(t)}
    BY <1>3, <2>1, TaskCalls
  <2>3. Hand(u) = Hand(t) /\ Acting(u) = Acting(t) /\ ~ Creating(u)
    BY <1>3, <2>2 DEF Hand, Acting, FirstIf, Creating
  <2>4. Goes(w, u)
    BY <1>1, <1>5, <2>1 DEF Top, Called
  <2> QED BY <1>1, <1>3, <2>2, <2>3, <2>4, MovesOn
<1> QED BY <1>4, <1>5 DEF Flag

\* A call ends.
LEMMA ReturnKeepsClaims ==
  ASSUME ClaimInv, NEW w \in Workers, Return(w)
  PROVE ClaimInv'
<1>1. PICK t : t = job[w]
  OBVIOUS
<1>2. /\ t.op = "dispatch" /\ t.pc = "rule" /\ JobFine(t) /\ UNCHANGED <<runs, losses>>
      /\ Hand(t) = Beneath(t) /\ Acting(t) = Beneath(t)
  BY <1>1 DEF Return, Dispatching, ClaimInv, JobsFine, Hand, Acting, FirstIf
<1>3. KnownCalls(t.calls) /\ Len(t.calls) \in Nat /\ Len(t.calls) > 0
  <2>1. KnownCalls(t.calls)
    BY <1>2 DEF JobFine
  <2>2. PICK S : t.calls \in Seq(S)
    BY <2>1 DEF KnownCalls
  <2> QED BY <2>1, <2>2 DEF KnownCalls
<1>4. CASE Len(t.calls) = 1
  <2>1. Goes(w, Idle)
    BY <1>1, <1>4 DEF Return
  <2>2. 2 .. Len(t.calls) = {}
    BY <1>4
  <2>3. Beneath(t) = {}
    BY <2>2 DEF Beneath
  <2>4. JobFine(Idle) /\ Hand(Idle) = {} /\ Acting(Idle) = {} /\ ~ Creating(Idle)
    BY NoDispatch DEF Idle
  <2> QED BY <1>1, <1>2, <2>1, <2>3, <2>4, MovesOn
<1>5. CASE Len(t.calls) # 1
  <2>1. PICK u : u = Returned(t)
    OBVIOUS
  <2>2. Goes(w, u)
    BY <1>1, <1>5, <2>1 DEF Return, Returned
  <2>a. Len(t.calls) > 1
    <3>1. PICK n : n = Len(t.calls)
      OBVIOUS
    <3>2. n \in Nat /\ n > 0 /\ n # 1
      BY <1>3, <1>5, <3>1
    <3>3. n > 1
      BY <3>2
    <3> QED BY <3>1, <3>3, Zenon
  <2>3. /\ u.op = "dispatch" /\ u.pc = "finish" /\ JobFine(u)
        /\ Beneath(u) \cup {First(u)} = Beneath(t)
    BY <1>2, <2>1, <2>a, TaskReturns
  <2>4. Hand(u) = Hand(t) /\ Acting(u) = Acting(t) /\ ~ Creating(u)
    BY <1>2, <2>3 DEF Hand, Acting, FirstIf, Creating
  <2> QED BY <1>1, <1>2, <2>2, <2>3, <2>4, MovesOn
<1> QED BY <1>4, <1>5

\* What a lost worker had in hand is in nobody's.
LEMMA LoseWorkerKeepsClaims ==
  ASSUME ClaimInv, NEW w \in Workers, LoseWorker(w)
  PROVE ClaimInv'
<1>1. /\ w \in Processes /\ Goes(w, Idle) /\ losses' = losses + 1 /\ losses \in Nat /\ runs' = runs
  BY DEF LoseWorker, Processes, ClaimInv, RunsFine
<1>2. JobFine(Idle) /\ Hand(Idle) = {} /\ Acting(Idle) = {} /\ ~ Creating(Idle)
  BY NoDispatch DEF Idle
<1>3. /\ JobsFine' /\ job'[w] = Idle /\ \A v \in Workers \ {w} : job'[v] = job[v]
  BY <1>1, <1>2, OneGoes DEF ClaimInv
<1>4. losses' \in Nat /\ losses' # 0
  BY <1>1
<1> QED BY <1>1, <1>2, <1>3, <1>4, HandsKept

\* Whatever a worker does.
LEMMA WorkerKeepsClaims ==
  ASSUME ClaimInv, NEW w \in Workers, Take(w) \/ Run(w) \/ LoseWorker(w)
  PROVE ClaimInv'
<1>0. w \in Processes
  BY DEF Processes
<1>1. CASE OfRisk(TakeRecompute(w)) \/ OfRisk(Recomputing(w)) \/ OfRisk(ClearKey(w))
  BY <1>0, <1>1, RiskKeepsClaims DEF OfRisk
<1>2. CASE SkipRun(w)
  BY <1>2, FinishRunKeepsClaims DEF SkipRun, Dispatching, Acted
<1>3. CASE Finish(w)
  BY <1>3, FinishRunKeepsClaims DEF Finish, Dispatching, Acted
<1> QED BY <1>1, <1>2, <1>3, TakeEventKeepsClaims, CountRunsKeepsClaims, CreateRunKeepsClaims,
           ActKeepsClaims, FlagKeepsClaims, ReturnKeepsClaims, PassOverKeepsClaims,
           LoseWorkerKeepsClaims DEF Take, Run

-----------------------------------------------------------------------------
\* So the claims are in order in every state.
LEMMA ClaimsAreKept == Init /\ [][Next]_vars => []ClaimInv
<1>1. ClaimInv /\ [Next]_vars => ClaimInv'
  <2>1. ClaimInv /\ UNCHANGED vars => ClaimInv'
    BY NoJobMoves DEF vars
  <2> QED BY <2>1, WorkerKeepsClaims, EnvironmentKeepsClaims DEF Next
<1> QED BY <1>1, InitClaims, PTL

\* A rule does not act on an object more often in a day than the policy says,
\* nor at the depth where a chain of rules ends: whatever tasks there are at
\* once, whichever are delivered again, and whoever is lost on the way.
THEOREM GuardsAlwaysHold == Spec => []GuardsHold
<1>1. ClaimInv => GuardsHold
  <2> SUFFICES ASSUME ClaimInv, NEW rule \in RuleSet
               PROVE LET acted == {run \in RunsOf(rule) : run.status \in Acted} IN
                     /\ Cardinality(acted) <= MaxRuns
                     /\ \A run \in acted : run.key.depth < MaxDepth
    BY DEF GuardsHold
  <2>1. PICK acted : acted = {run \in RunsOf(rule) : run.status \in Acted}
    OBVIOUS
  <2>2. acted \subseteq Potential(rule) /\ acted \subseteq runs /\ Potential(rule) \subseteq runs
    BY <2>1 DEF Potential, MayAct, RunsOf
  <2>3. IsFiniteSet(Potential(rule))
    BY <2>2, FS_Subset DEF ClaimInv, RunsFine
  <2>4. /\ Cardinality(acted) <= Cardinality(Potential(rule))
        /\ Cardinality(acted) \in Nat /\ Cardinality(Potential(rule)) \in Nat
    <3>1. IsFiniteSet(acted) /\ Cardinality(acted) <= Cardinality(Potential(rule))
      BY <2>2, <2>3, FS_Subset
    <3> QED BY <2>3, <3>1, FS_CardinalityType
  <2>5. Cardinality(Potential(rule)) <= MaxRuns /\ MaxRuns \in Nat
    BY AutomationAssumption DEF ClaimInv, Guarded
  <2>6. Cardinality(acted) <= MaxRuns
    BY <2>4, <2>5
  <2>7. \A run \in acted : run.key.depth < MaxDepth
    BY <2>1, <2>2 DEF ClaimInv, Shallow
  <2> QED BY <2>1, <2>6, <2>7
<1> QED BY <1>1, ClaimsAreKept, PTL DEF Spec

\* The property's own words for what a task has in hand.
LEMMA InHandIsHand ==
  ASSUME ClaimInv, NEW w \in Workers
  PROVE InHand(w) = Hand(job[w])
<1>1. PICK t : t = job[w]
  OBVIOUS
<1>2. CASE t.op # "dispatch"
  BY <1>1, <1>2 DEF InHand, Hand, Beneath, FirstIf
<1>3. CASE t.op = "dispatch"
  <2>1. KnownCalls(t.calls)
    BY <1>1, <1>3 DEF ClaimInv, JobsFine, JobFine
  <2>2. PICK S : t.calls \in Seq(S)
    BY <2>1 DEF KnownCalls
  <2>3. PICK calls : calls = t.calls
    OBVIOUS
  <2>4. PICK n : n = Len(calls)
    OBVIOUS
  <2>5. n \in Nat /\ n > 0 /\ DOMAIN calls = 1 .. n
    BY <2>1, <2>2, <2>3, <2>4 DEF KnownCalls
  <2>6. PICK pcs : pcs = {"act", "flag", "finish", "skip"}
    OBVIOUS
  <2>7. InHand(w) = {KeyOf(calls[i]) : i \in {j \in 1 .. n : j > 1 \/ t.pc \in pcs}}
    BY <1>1, <1>3, <2>3, <2>5, <2>6 DEF InHand, KeyOf
  <2>8. Beneath(t) = {KeyOf(calls[i]) : i \in 2 .. n}
    BY <1>3, <2>3, <2>4 DEF Beneath
  <2>9. FirstIf(t, pcs) = IF t.pc \in pcs THEN {KeyOf(calls[1])} ELSE {}
    BY <1>3, <2>3 DEF FirstIf, First
  <2>10. {j \in 1 .. n : j > 1 \/ t.pc \in pcs} = (2 .. n) \cup (IF t.pc \in pcs THEN {1} ELSE {})
    BY <2>5
  <2>11. Hand(t) = Beneath(t) \cup FirstIf(t, pcs)
    BY <2>6 DEF Hand
  <2>12. InHand(w) = Beneath(t) \cup FirstIf(t, pcs)
    BY <2>7, <2>8, <2>9, <2>10
  <2> QED BY <1>1, <2>11, <2>12
<1> QED BY <1>2, <1>3

\* One occurrence is acted upon by one task, and its run waits only for the
\* task that claimed it, or for ever when that worker was lost.
THEOREM RunsAreClaimedOnce == Spec => []OneTaskPerRun
<1>1. ClaimInv => OneTaskPerRun
  BY InHandIsHand DEF OneTaskPerRun, ClaimInv, HandsApart
<1> QED BY <1>1, ClaimsAreKept, PTL DEF Spec
===============================================================================
