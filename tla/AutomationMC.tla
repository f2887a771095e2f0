----------------------------- MODULE AutomationMC -----------------------------
(***************************************************************************)
(* Small instances of Automation for TLC.                                  *)
(***************************************************************************)
EXTENDS Automation, TLC

CONSTANTS w1, w2, r1, escalate, relax

TwoWorkers == {w1, w2}
OneReader == {r1}
RiskLevels == {"none", "warning", "critical"}
Verdicts == 0 :> "none" @@ 1 :> "warning" @@ 2 :> "none"

\* Two rules that flag each other's condition.
TwoRules == <<escalate, relax>>
Conditions == escalate :> {"warning"} @@ relax :> {"critical"}
Actions == escalate :> "critical" @@ relax :> "warning"

Symmetry == Permutations(Workers)
===============================================================================
