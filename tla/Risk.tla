-------------------------------- MODULE Risk --------------------------------
(***************************************************************************)
(* The risk verdict of one enrolment: the `RiskState` row, the debounced   *)
(* task that recomputes it, the cache key that debounces, and the first    *)
(* read that computes it on its own (performance/tasks.py, services.py).   *)
(*                                                                         *)
(* The figures are the versions of what the engine measures; the verdict   *)
(* on each is a constant.  A recomputation reads them, and only then locks *)
(* the row.  Automation composes this module with what a changed verdict   *)
(* sets off.                                                               *)
(***************************************************************************)
EXTENDS Integers

CONSTANTS
  Workers,        \* the Celery workers
  Readers,        \* the requests that show a student's page
  Levels,         \* RiskLevel
  MaxChanges,     \* bound: changes of the figures
  Verdict,        \* the engine's level on each version of the figures
  MaxClock,       \* bound: seconds told apart
  ChangesOverlap  \* figures may change while a recomputation has read them

Versions == 0 .. MaxChanges

ASSUME RiskAssumption ==
  /\ Workers \cap Readers = {}
  /\ MaxChanges \in Nat /\ MaxClock \in Nat \ {0}
  /\ "none" \in Levels
  /\ Verdict \in [Versions -> Levels]
  /\ ChangesOverlap \in BOOLEAN

VARIABLES
  figures,     \* the version of the enrolment's figures
  pending,     \* the key risk:pending stands in the cache
  recomputes,  \* recompute tasks on the broker
  state,       \* the RiskState row, or NoState
  events,      \* RISK_CHANGED tasks on the broker, by their level
  clock,       \* the second it is
  job          \* what each worker and reader is doing

riskVars == <<figures, pending, recomputes, state, events, clock, job>>

-----------------------------------------------------------------------------

\* The columns of the row: `level` is what it shows, `triggered` what the rules
\* found and `figures` the version they read; `override`, the manual flag, is
\* "no", "active" or "lapsed"; `stamp` is computed_at, to the second.
NoState == [level |-> "none", triggered |-> "none", figures |-> -1, override |-> "no", stamp |-> 0]

Processes == Workers \cup Readers
Idle == [op |-> "none", pc |-> "idle"]
Recompute(pc, seen) == [op |-> "recompute", pc |-> pc, seen |-> seen]

Goes(p, next) == job' = [job EXCEPT ![p] = next]

\* A recomputation has read the figures and has not cleared the key.
Stale(p) == job[p].op = "recompute" /\ job[p].pc # "read"

-----------------------------------------------------------------------------
(***************************************************************************)
(* Scheduling.                                                             *)
(***************************************************************************)

\* A register, a mark or a submission commits, and schedules a recomputation
\* unless the key says that one is coming.
Change ==
  /\ figures < MaxChanges
  /\ ChangesOverlap \/ \A p \in Processes : ~Stale(p)
  /\ figures' = figures + 1
  /\ pending' = TRUE
  /\ recomputes' = IF pending THEN recomputes ELSE recomputes + 1
  /\ UNCHANGED <<state, events, clock, job>>

\* _PENDING_KEY_TTL has passed.
KeyLapses ==
  /\ pending
  /\ pending' = FALSE
  /\ UNCHANGED <<figures, recomputes, state, events, clock, job>>

TakeRecompute(w) ==
  /\ job[w] = Idle /\ recomputes > 0
  /\ recomputes' = recomputes - 1
  /\ Goes(w, Recompute("read", -1))
  /\ UNCHANGED <<figures, pending, state, events, clock>>

\* risk_state_for: a student's page finds no verdict.
View(r) ==
  /\ job[r] = Idle /\ state = NoState
  /\ Goes(r, Recompute("read", -1))
  /\ UNCHANGED <<figures, pending, recomputes, state, events, clock>>

-----------------------------------------------------------------------------
(***************************************************************************)
(* recompute_risk.                                                         *)
(***************************************************************************)

ReadFigures(p) ==
  /\ job[p].op = "recompute" /\ job[p].pc = "read"
  /\ Goes(p, Recompute("lock", figures))
  /\ UNCHANGED <<figures, pending, recomputes, state, events, clock>>

\* Committed: the task goes on to clear its key, the request answers.
Committed(p) == Goes(p, IF p \in Workers THEN Recompute("clear", job[p].seen) ELSE Idle)

Announced(level) == [events EXCEPT ![level] = @ + 1]

\* The row is locked and rewritten, but for a standing override.
StandingOverride == state.override = "active"

Judge(p) ==
  LET seen == job[p].seen
      level == Verdict[seen]
      changed == level # state.level \/ level # state.triggered
  IN /\ job[p].op = "recompute" /\ job[p].pc = "lock" /\ state # NoState
     /\ IF StandingOverride
        THEN /\ state' = [state EXCEPT !.figures = seen, !.stamp = clock]
             /\ UNCHANGED events
        ELSE /\ state' = [level |-> level, triggered |-> level, figures |-> seen,
                          override |-> "no", stamp |-> clock]
             /\ events' = IF changed THEN Announced(level) ELSE events
     /\ Committed(p)
     /\ UNCHANGED <<figures, pending, recomputes, clock>>

\* There is no row to lock.
FindNone(p) ==
  /\ job[p].op = "recompute" /\ job[p].pc = "lock" /\ state = NoState
  /\ Goes(p, Recompute("insert", job[p].seen))
  /\ UNCHANGED <<figures, pending, recomputes, state, events, clock>>

InsertState(p) ==
  LET level == Verdict[job[p].seen] IN
  /\ job[p].op = "recompute" /\ job[p].pc = "insert" /\ state = NoState
  /\ state' = [level |-> level, triggered |-> level, figures |-> job[p].seen,
               override |-> "no", stamp |-> clock]
  /\ events' = IF level # "none" THEN Announced(level) ELSE events
  /\ Committed(p)
  /\ UNCHANGED <<figures, pending, recomputes, clock>>

\* The other caller's row is there: from scratch.
InsertLost(p) ==
  /\ job[p].op = "recompute" /\ job[p].pc = "insert" /\ state # NoState
  /\ Goes(p, Recompute("read", -1))
  /\ UNCHANGED <<figures, pending, recomputes, state, events, clock>>

\* Mutant: the key is left to its TTL.
KeyKept == pending
KeyCleared == FALSE

\* `finally`.
ClearKey(w) ==
  /\ job[w].op = "recompute" /\ job[w].pc = "clear"
  /\ pending' = KeyCleared
  /\ Goes(w, Idle)
  /\ UNCHANGED <<figures, recomputes, state, events, clock>>

-----------------------------------------------------------------------------

\* manual_override_expires_at has passed.
OverrideLapses ==
  /\ state.override = "active"
  /\ state' = [state EXCEPT !.override = "lapsed"]
  /\ UNCHANGED <<figures, pending, recomputes, events, clock, job>>

Tick ==
  /\ clock < MaxClock
  /\ clock' = clock + 1
  /\ UNCHANGED <<figures, pending, recomputes, state, events, job>>

RiskInit ==
  /\ figures = 0
  /\ pending = FALSE
  /\ recomputes = 0
  /\ state = NoState
  /\ events = [l \in Levels |-> 0]
  /\ clock = 1
  /\ job = [p \in Processes |-> Idle]

Recomputing(p) ==
  ReadFigures(p) \/ Judge(p) \/ FindNone(p) \/ InsertState(p) \/ InsertLost(p)
=============================================================================
