------------------------------- MODULE MCMap -------------------------------
EXTENDS IncrementalMap

CONSTANTS d1, d2, d3, p1

\* A is a RAID5 of three disks, B a mirror of two.
Levels == [u \in {"A", "B"} |-> IF u = "A" THEN 5 ELSE 1]
Slots  == [u \in {"A", "B"} |-> IF u = "A" THEN 3 ELSE 2]

SB(u, i, e, s) == [uuid |-> u, slot |-> i, events |-> e, sees |-> s]
Say(x, y, z) == (d1 :> x) @@ (d2 :> y) @@ (d3 :> z)

\* All of A, one late by an update; A without a disk that was left out.
AllOfA ==
    {Say(SB("A", 1, 5, 1..3), SB("A", 2, 5, 1..3), SB("A", 3, 4, 1..3)),
     Say(SB("A", 1, 5, 1..2), SB("A", 2, 5, 1..2), SB("A", 3, 2, 1..3))}

\* Two disks of A and half of a mirror; the halves of a mirror, which ran
\* apart, and one disk of A.
AandB ==
    {Say(SB("A", 1, 5, 1..2), SB("A", 2, 5, 1..2), SB("B", 1, 3, {1})),
     Say(SB("B", 1, 5, {1}), SB("B", 2, 4, {2}), SB("A", 1, 5, 1..3))}

\* A third of a three-way mirror that ran apart from the other two.
SlotsOfThree == [u \in {"A", "B"} |-> 3]
Rivals == {Say(SB("B", 1, 5, {1}), SB("B", 2, 5, 2..3), SB("A", 3, 5, 1..3))}

AllBoots == AllOfA \cup AandB
=============================================================================
