------------------------------- MODULE ExamMC -------------------------------
(***************************************************************************)
(* Small instances of Exam for TLC.                                        *)
(***************************************************************************)
EXTENDS Exam, TLC

CONSTANTS r1, r2

TwoRequests == {r1, r2}

\* Papers are drawn per attempt; a short second one keeps the instance small.
Papers == <<<<"written", "auto", "written">>, <<"auto">>>>

Symmetry == Permutations(Requests)
=============================================================================
