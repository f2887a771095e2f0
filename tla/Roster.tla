------------------------------- MODULE Roster -------------------------------
(***************************************************************************)
(* What the enrolment services promise about a batch, with no rows, no     *)
(* requests and no locks: who is on its roster, how many finished students *)
(* still hold a seat, and whether it takes more.  Joining, leaving, moving *)
(* and closing each happen at once.                                        *)
(***************************************************************************)
EXTENDS Integers, FiniteSets

CONSTANTS Students, Batches, Capacities

VARIABLES
  roster,     \* the students with a live enrolment, per batch
  finished,   \* the seats held by completed enrolments, per batch
  open,       \* whether the batch takes new students
  capacity

rvars == <<roster, finished, open, capacity>>

Taken(b) == Cardinality(roster[b]) + finished[b]

Init ==
  /\ roster = [b \in Batches |-> {}]
  /\ finished = [b \in Batches |-> 0]
  /\ open = [b \in Batches |-> TRUE]
  /\ capacity \in [Batches -> Capacities]

MayJoin(s, b) == open[b] /\ s \notin roster[b] /\ Taken(b) < capacity[b]

Join(s, b) ==
  /\ MayJoin(s, b)
  /\ roster' = [roster EXCEPT ![b] = @ \cup {s}]
  /\ UNCHANGED <<finished, open, capacity>>

\* A move is a join of the target together with a leave of the source.
Move(s, a, b) ==
  /\ a # b
  /\ MayJoin(s, b)
  /\ roster' = [roster EXCEPT ![b] = @ \cup {s}, ![a] = @ \ {s}]
  /\ UNCHANGED <<finished, open, capacity>>

Leave(s, b) ==
  /\ s \in roster[b]
  /\ roster' = [roster EXCEPT ![b] = @ \ {s}]
  /\ UNCHANGED <<finished, open, capacity>>

Finish(s, b) ==
  /\ s \in roster[b]
  /\ roster' = [roster EXCEPT ![b] = @ \ {s}]
  /\ finished' = [finished EXCEPT ![b] = @ + 1]
  /\ UNCHANGED <<open, capacity>>

\* Called off: nobody stays on the roster and nobody joins any more.
CallOff(b) ==
  /\ open[b]
  /\ open' = [open EXCEPT ![b] = FALSE]
  /\ roster' = [roster EXCEPT ![b] = {}]
  /\ UNCHANGED <<finished, capacity>>

\* Run to its end: some of the roster finished, the rest stays on it.
Conclude(b, S) ==
  /\ open[b]
  /\ S \subseteq roster[b]
  /\ open' = [open EXCEPT ![b] = FALSE]
  /\ roster' = [roster EXCEPT ![b] = @ \ S]
  /\ finished' = [finished EXCEPT ![b] = @ + Cardinality(S)]
  /\ UNCHANGED capacity

Resize(b, c) ==
  /\ c >= Taken(b)
  /\ capacity' = [capacity EXCEPT ![b] = c]
  /\ UNCHANGED <<roster, finished, open>>

Next ==
  \E b \in Batches :
    \/ \E s \in Students : Join(s, b) \/ Leave(s, b) \/ Finish(s, b)
    \/ \E s \in Students, a \in Batches : Move(s, a, b)
    \/ CallOff(b)
    \/ \E S \in SUBSET Students : Conclude(b, S)
    \/ \E c \in Capacities : Resize(b, c)

Spec == Init /\ [][Next]_rvars

\* The consequence the callers rely on: seats taken never pass the capacity.
WithinCapacity == \A b \in Batches : Taken(b) <= capacity[b]
==============================================================================
