--------------------------- MODULE CertificationMC ---------------------------
(***************************************************************************)
(* Small instances of Certification for TLC.                               *)
(***************************************************************************)
EXTENDS Certification, TLC

CONSTANTS r1, r2

TwoRequests == {r1, r2}

Symmetry == Permutations(Requests)
==============================================================================
