--------------------------- MODULE MCVerification ---------------------------
(* Small instances: one metric that need not be scored, with a policy that     *)
(* gates it by a threshold and one that gates it by a tolerance and a floor.   *)
EXTENDS Verification, TLC

CONSTANTS m, a1, a2, n1

None == [x \in {} |-> 0]
ByThreshold == [thresholds |-> m :> 1, tolerances |-> None, floors |-> FALSE]
ByTolerance == [thresholds |-> None, tolerances |-> m :> 1, floors |-> TRUE]
SuitePolicies == <<{ByThreshold, ByTolerance}, {ByThreshold}>>

Scored(f, met, status) == [scores |-> f, floorsMet |-> met, status |-> status]
SuiteOutcomes ==
  << {Scored(m :> 2, TRUE, "completed"), Scored(m :> 0, TRUE, "completed"),
      Scored(None, FALSE, "indeterminate")},
     {Scored(m :> 2, TRUE, "completed")} >>

\* Only suite 1 has a baseline from before; one for suite 2 has to be accepted.
MCInit == Init /\ baseline[2] = NoFile
MCSpec == MCInit /\ [][Next]_vars

Symmetry == Permutations({a1, a2})
=============================================================================
