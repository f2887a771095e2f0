------------------------------ MODULE Automation ------------------------------
(***************************************************************************)
(* The automation engine on RISK_CHANGED: dispatch, its runs and guards,   *)
(* and the action flag_risk, which overrides the verdict and dispatches    *)
(* again, one level deeper, inside the same task (automation/services.py,  *)
(* actions.py), composed with Risk.                                        *)
(*                                                                         *)
(* A task is not a transaction: every statement commits on its own, but    *)
(* for the claim of a run, which locks the rule.  Tasks are acknowledged   *)
(* late, so a worker that is lost leaves its task to be delivered again.   *)
(***************************************************************************)
EXTENDS Risk, Sequences, FiniteSets, SequencesExt

CONSTANTS
  Rules,      \* the active rules, in the order they are evaluated
  Matches,    \* the levels each rule's condition holds for
  Flags,      \* the level each rule's flag_risk sets, or Nothing
  Nothing,
  MaxDepth,   \* MAX_DEPTH
  MaxRuns,    \* policy automation.max_runs_per_object_per_day
  MaxLosses   \* bound: workers lost

RuleSet == ToSet(Rules)

ASSUME AutomationAssumption ==
  /\ Matches \in [RuleSet -> SUBSET Levels]
  /\ Flags \in [RuleSet -> (Levels \ {"none"}) \cup {Nothing}]
  /\ Nothing \notin Levels
  /\ {MaxDepth, MaxRuns, MaxLosses} \subseteq Nat

VARIABLES
  runs,    \* the AutomationRun rows of today: their key, and what came of them
  losses   \* workers lost so far

vars == <<figures, pending, recomputes, state, events, clock, job, runs, losses>>

-----------------------------------------------------------------------------
(***************************************************************************)
(* Runs, and the tasks that dispatch.  A task is a stack of calls of       *)
(* dispatch(), the innermost first: the level it was told, the stamp of    *)
(* the row it holds, the rules it still goes through.  The run of a call   *)
(* is the one of its first rule.                                           *)
(***************************************************************************)

Key(rule, call) == [rule |-> rule, stamp |-> call.stamp, depth |-> call.depth]

Call(depth, level, stamp) ==
  [depth |-> depth, stamp |-> stamp,
   todo |-> SelectSeq(Rules, LAMBDA rule : level \in Matches[rule])]

Dispatch(pc, level, calls) ==
  [op |-> "dispatch", pc |-> pc, level |-> level, calls |-> calls, copy |-> Nothing]

Dispatching(w, pc) == job[w].op = "dispatch" /\ job[w].pc = pc
Top(w) == job[w].calls[1]
Rule(w) == Top(w).todo[1]
Current(w) == Key(Rule(w), Top(w))

Moves(w, pc) == Goes(w, [job[w] EXCEPT !.pc = pc])
PastRule(w) ==
  Goes(w, [job[w] EXCEPT !.pc = "rule", !.copy = Nothing, !.calls[1].todo = Tail(@)])

Claimed(key) == \E run \in runs : run.key = key

KeepsRisk == UNCHANGED <<figures, pending, recomputes, state, events, clock>>

\* Mutant: the rule's row is not locked.
NeverHeld(w, rule) == TRUE
RuleFree(w, rule) ==
  \A v \in Workers \ {w} : job[v].pc \in {"create", "create_limited"} => Rule(v) # rule

-----------------------------------------------------------------------------

\* dispatch_risk_changed fetches the row as it is now, whatever it was when
\* the event was sent.
TakeEvent(w, level) ==
  /\ job[w] = Idle /\ events[level] > 0
  /\ events' = [events EXCEPT ![level] = @ - 1]
  /\ Goes(w, Dispatch("rule", level, <<Call(0, level, state.stamp)>>))
  /\ UNCHANGED <<figures, pending, recomputes, state, clock, runs, losses>>

RunsOf(rule) == {run \in runs : run.key.rule = rule}

\* The rule is locked and today's runs are counted.
CountRuns(w) ==
  /\ Dispatching(w, "rule") /\ Top(w).todo # <<>>
  /\ RuleFree(w, Rule(w))
  /\ Moves(w, IF Cardinality(RunsOf(Rule(w))) >= MaxRuns THEN "create_limited" ELSE "create")
  /\ KeepsRisk /\ UNCHANGED <<runs, losses>>

\* Mutant: an occurrence is claimed again.
ClaimedAgain(key) == FALSE
\* automation_run_rule_occurrence_unique.
Taken(key) == Claimed(key)

TooDeep(depth) == depth >= MaxDepth

CreateRun(w) ==
  /\ Dispatching(w, "create") \/ Dispatching(w, "create_limited")
  /\ ~Taken(Current(w))
  /\ runs' = runs \cup {[key |-> Current(w), status |-> "queued"]}
  /\ Moves(w, IF TooDeep(Top(w).depth) \/ job[w].pc = "create_limited" THEN "skip" ELSE "act")
  /\ KeepsRisk /\ UNCHANGED losses

\* The occurrence is taken, or the claim failed: on to the next rule.
PassOver(w) ==
  /\ Dispatching(w, "create") \/ Dispatching(w, "create_limited")
  /\ PastRule(w)
  /\ KeepsRisk /\ UNCHANGED <<runs, losses>>

FinishRun(w, status) ==
  /\ runs' = {IF run.key = Current(w) THEN [run EXCEPT !.status = status] ELSE run : run \in runs}
  /\ PastRule(w)
  /\ KeepsRisk /\ UNCHANGED losses

SkipRun(w) == Dispatching(w, "skip") /\ FinishRun(w, "skipped")

\* An action that does not concern the verdict, or the read of flag_risk.
Act(w) ==
  /\ Dispatching(w, "act")
  /\ IF Flags[Rule(w)] = Nothing THEN Moves(w, "finish")
     ELSE Goes(w, [job[w] EXCEPT !.pc = "flag", !.copy = state.level])
  /\ KeepsRisk /\ UNCHANGED <<runs, losses>>

\* flag_risk saves the columns of the override, and dispatches when the level
\* is not the one it has read.
Flag(w) ==
  LET level == Flags[Rule(w)] IN
  /\ Dispatching(w, "flag")
  /\ state' = [state EXCEPT !.level = level, !.override = "active", !.stamp = clock]
  /\ IF level = job[w].copy THEN Moves(w, "finish")
     ELSE Goes(w, [job[w] EXCEPT !.pc = "rule", !.copy = Nothing,
                   !.calls = <<Call(Top(w).depth + 1, level, clock)>> \o @])
  /\ UNCHANGED <<figures, pending, recomputes, events, clock, runs, losses>>

\* Every action's failure is caught.
Finish(w) ==
  \/ Dispatching(w, "finish") /\ FinishRun(w, "ran")
  \/ Dispatching(w, "act") /\ FinishRun(w, "failed")

\* dispatch() returns: to the action that called it, or the task is done.
Return(w) ==
  /\ Dispatching(w, "rule") /\ Top(w).todo = <<>>
  /\ IF Len(job[w].calls) = 1 THEN Goes(w, Idle)
     ELSE Goes(w, [job[w] EXCEPT !.pc = "finish", !.calls = Tail(@)])
  /\ KeepsRisk /\ UNCHANGED <<runs, losses>>

\* The task goes back to the broker; what it committed stays, the key too.
LoseWorker(w) ==
  /\ job[w] # Idle /\ losses < MaxLosses
  /\ losses' = losses + 1
  /\ IF job[w].op = "recompute"
     THEN recomputes' = recomputes + 1 /\ UNCHANGED events
     ELSE events' = Announced(job[w].level) /\ UNCHANGED recomputes
  /\ Goes(w, Idle)
  /\ UNCHANGED <<figures, pending, state, clock, runs>>

-----------------------------------------------------------------------------

Init == RiskInit /\ runs = {} /\ losses = 0

OfRisk(action) == action /\ UNCHANGED <<runs, losses>>

Take(w) == OfRisk(TakeRecompute(w)) \/ \E level \in Levels : TakeEvent(w, level)

Run(w) ==
  \/ OfRisk(Recomputing(w)) \/ OfRisk(ClearKey(w))
  \/ CountRuns(w) \/ CreateRun(w) \/ SkipRun(w) \/ Act(w) \/ Flag(w) \/ Return(w)
  \/ Finish(w)
  \/ PassOver(w)

Environment ==
  \/ OfRisk(Change) \/ OfRisk(KeyLapses) \/ OfRisk(OverrideLapses) \/ OfRisk(Tick)
  \/ \E r \in Readers : OfRisk(View(r)) \/ OfRisk(Recomputing(r))

Next ==
  \/ \E w \in Workers : Take(w) \/ Run(w) \/ LoseWorker(w)
  \/ Environment

Spec == Init /\ [][Next]_vars

-----------------------------------------------------------------------------
(***************************************************************************)
(* Properties.                                                             *)
(***************************************************************************)

Acted == {"ran", "failed"}

\* The two guards hold however many dispatches there are at once, and whatever
\* their actions set off: a rule does not act on an object more often in a day
\* than the policy says ("the second one counts the first one's just-created
\* row"), nor at the depth where a chain of rules that flag each other ends.
GuardsHold ==
  \A rule \in RuleSet :
    LET acted == {run \in RunsOf(rule) : run.status \in Acted} IN
    /\ Cardinality(acted) <= MaxRuns
    /\ \A run \in acted : run.key.depth < MaxDepth

InHand(w) ==
  IF job[w].op # "dispatch" THEN {}
  ELSE {Key(job[w].calls[i].todo[1], job[w].calls[i]) :
          i \in {j \in DOMAIN job[w].calls : j > 1 \/ job[w].pc \in {"act", "flag", "finish", "skip"}}}

\* One occurrence is acted upon by one task, however often it is delivered,
\* and its run waits only for the task that claimed it, or for ever when that
\* worker was lost.
OneTaskPerRun ==
  /\ \A v, w \in Workers : v # w => InHand(v) \cap InHand(w) = {}
  /\ \A w \in Workers : \A key \in InHand(w) : [key |-> key, status |-> "queued"] \in runs
  /\ losses = 0 => \A run \in runs : run.status = "queued" => \E w \in Workers : run.key \in InHand(w)

\* "A recompute is already coming and will read whatever the latest numbers
\* are": a verdict that does not speak of the latest figures is about to be
\* rewritten from them, whatever is coalesced, delivered twice or lost with a
\* worker, and nobody is about to write an older one.
ReadsLatest(p) ==
  job[p].op = "recompute" /\ (job[p].pc \in {"lock", "insert"} => job[p].seen = figures)
LatestIsComing ==
  figures > 0 =>
    /\ \/ state.figures = figures \/ recomputes > 0
       \/ \E w \in Workers : job[w].pc # "clear" /\ ReadsLatest(w)
    /\ \A p \in Processes : job[p].op = "recompute" => ReadsLatest(p)
===============================================================================
