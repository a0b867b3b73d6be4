------------------------------- MODULE MCImsm -------------------------------
EXTENDS ImsmVolume

\* A mirror with two events, two mirrored pairs with one.
MirrorAndPairs == {[level |-> 1, members |-> 2, events |-> 2],
                   [level |-> 10, members |-> 4, events |-> 1]}
=============================================================================
