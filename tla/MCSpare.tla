------------------------------ MODULE MCSpare ------------------------------
EXTENDS SpareRecovery, TLC

SlotSymmetry == Permutations(Slot)

\* The array was resynchronised and then lost one disk.
DegradedInit == /\ SpareInit
                /\ disk.clean /\ disk.full /\ missing = {}
                /\ Cardinality({s \in Slot : disk.dev[s] = "failed"}) = 1
                /\ \E s \in Slot : disk.dev[s] = "online"
DegradedSpec == DegradedInit /\ [][SpareNext]_allVars

\* The same for one choice of that disk: liveness is checked without symmetry,
\* and the slots play the same part.
DegradedFirst == DegradedInit /\ disk.dev[CHOOSE s \in Slot : TRUE] = "failed"
DegradedFairSpec == DegradedFirst /\ [][SpareNext]_allVars /\ SpareFairness
=============================================================================
