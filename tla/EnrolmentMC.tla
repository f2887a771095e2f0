----------------------------- MODULE EnrolmentMC -----------------------------
(***************************************************************************)
(* Small instances of Enrolment for TLC.                                   *)
(***************************************************************************)
EXTENDS Enrolment, TLC

CONSTANTS s1, s2, b1, b2, c1, r1, r2, r3

OneRequest == {r1}
TwoRequests == {r1, r2}
ThreeRequests == {r1, r2, r3}
OneStudent == {s1}
TwoStudents == {s1, s2}
OneBatch == {b1}
TwoBatches == {b1, b2}
OneCourse == {c1}

\* Everybody at the same centre.
Everywhere == Students \X Batches

Joining == {"enrol", "transfer"}
Placing == {"enrol", "transfer", "batch_status"}
PlacingAndStatus == Placing \cup {"status"}

\* Sound for safety: no constant but these sets names their elements.
Symmetry == Permutations(Requests) \cup Permutations(Students) \cup Permutations(Batches)
==============================================================================
