----------------------------- MODULE MCMonitor -----------------------------
EXTENDS MonitorThread, TLC

SlotSymmetry == Permutations(Slot)

\* What the administrator asks for in a behaviour: checks, with mdmon that may be
\* killed, or read-only, with mdmon that may be told to terminate.  All of it in
\* one behaviour makes more states than a run can visit.
VARIABLE asks
AsksForOne ==
    /\ asks' = asks
    /\ asks = "check" => ~roRequested' /\ ~sigterm' /\ syncAction' # "repair"
    /\ asks = "readonly" => syncAction' \notin Checks /\ ~MdmonCrash

\* A container whose disks are all good, freshly made or dirty.
HealthyInit == /\ Init /\ \A s \in Slot : disk.dev[s] = "online"
               /\ asks \in {"check", "readonly"}
HealthySpec == HealthyInit /\ [][Next /\ AsksForOne]_<<vars, asks>>

\* The same, but the array was taking writes when the host went down.
DirtyInit == HealthyInit /\ ~disk.clean /\ disk.full /\ torn /\ asks = "check"
DirtyFairSpec == DirtyInit /\ [][Next /\ UNCHANGED asks]_<<vars, asks>> /\ Fairness
=============================================================================
