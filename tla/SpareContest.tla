---------------------------- MODULE SpareContest ----------------------------
(***************************************************************************)
(* The containers of ContainerSpares, with mdadm --monitor, which moves    *)
(* spares between them (SpareMigration), and mdadm --grow, which freezes   *)
(* one of them (FreezeContainer), at the same time.                        *)
(***************************************************************************)
EXTENDS FreezeContainer, SpareMigration

vars == <<baseVars, growVars, monVars>>

TypeOK == BaseTypeOK /\ GrowTypeOK /\ MonTypeOK

Init == BaseInit /\ GrowInit /\ MonInit

\* A disk of the donor that fails while a spare is taken from it makes its mdmon look for
\* a spare, which may be the same: left to "contest".
Removing(g) == mon \in {"remove", "removed"} /\ job.from = g

DriverStep  == Driver /\ UNCHANGED <<growVars, monVars>>
DiskFails   == /\ \E g \in Group : ("contest" \in Happens \/ ~Removing(g)) /\ Fail(g)
               /\ UNCHANGED <<growVars, monVars>>
MdmonStep(c) == Mdmon(c) /\ UNCHANGED <<growVars, monVars>>
GrowStarts  == (\E c \in Container : OpenContainer(c)) /\ UNCHANGED monVars
GrowGoesOn  == GrowStep /\ UNCHANGED monVars
MonGoesOn   == MonStep /\ UNCHANGED growVars

Next == \/ DriverStep \/ DiskFails \/ GrowStarts \/ GrowGoesOn \/ MonGoesOn
        \/ \E c \in Container : MdmonStep(c)

Spec == Init /\ [][Next]_vars
FairSpec == /\ Spec
            /\ WF_vars(DriverStep) /\ WF_vars(GrowGoesOn) /\ WF_vars(MonGoesOn)
            /\ \A c \in Container :
                   /\ WF_vars(MonitorThread(c) /\ UNCHANGED <<growVars, monVars>>)
                   /\ WF_vars(Manager(c) /\ UNCHANGED <<growVars, monVars>>)

-----------------------------------------------------------------------------
(* Properties.                                                             *)

\* While mdadm --grow holds a container that it froze, the volumes stay frozen and
\* none of them is being rebuilt, although mdmon may have chosen a spare before: "no
\* recovery happens until we have fully prepared for the reshape" (msg.c:308-312).
FrozenIsQuiet ==
    grow.at = "held" =>
        \A v \in VolumesOf[grow.cont] : action[v] = "frozen" /\ Rebuilding(v) = {}

\* A spare that has a slot in an array is a device of the group of that array, wherever
\* mdadm --monitor is in moving it, and is without a group only while that has it in hand:
\* the check of the holders with the container open, the wait for the manager, O_EXCL on
\* the disk, and the way back when it can not be added (Manage_remove, move_spare).
OneOwner ==
    \A s \in Spare :
        /\ \A a \in slots[s] : place[s] = GroupOf(a)
        /\ place[s] = Nowhere => job.spare = s /\ mon \in {"removed", "add", "back"}

\* A group gets a spare of another only if it lacks one: what check_array saw may be old,
\* and mdmon may have used a spare of its own (container_choose_spare, Monitor.c:920).
\* In the scenarios of the run no container may lose a disk while a spare is put back into
\* it; where one may, this fails (README, section 5).
NotForNothing ==
    \A s \in Spare : LET g == place[s] IN
        g \notin {world.home[s], Nowhere} => work[g] + Cardinality(DevicesOf(g)) <= RaidDisks

\* An array that stays degraded, with nothing being rebuilt, while another group has a
\* spare to give, gets one.
InReach(a) == \/ \E s \in DevicesOf(GroupOf(a)) : a \notin slots[s]
              \/ \E g \in Group \ {GroupOf(a)} :
                     /\ \A b \in Arrays(g) : ~Degraded(b)
                     /\ \E s \in DevicesOf(g) : slots[s] = {}
SpareArrives ==
    \A a \in Array : ~ <>[](Degraded(a) /\ Rebuilding(a) = {} /\ InReach(a))
=============================================================================
