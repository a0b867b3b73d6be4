-------------------------- MODULE FreezeContainer --------------------------
(***************************************************************************)
(* mdadm --grow on a container, as far as it keeps mdmon from using its    *)
(* spares: freeze_container and unfreeze_container of Grow.c, which are    *)
(* block_monitor and unblock_monitor of msg.c.                             *)
(***************************************************************************)
EXTENDS ContainerSpares

VARIABLES
    grow,      \* the place in Grow_reshape, the container and the volume it is at
    left,      \* the volumes block_monitor or unblock_monitor has still to do
    frozen     \* those that block_monitor has done

growVars == <<grow, left, frozen>>

\* The place "held" is between freeze and unfreeze, where the reshape is prepared.
GrowPlace == {"none", "opened", "freeze", "block", "verify", "held", "thaw", "thawed", "over"}

GrowState == [at : GrowPlace, cont : Container \cup {Nowhere}, vol : Volume \cup {NoVolume}]

GrowTypeOK ==
    /\ grow \in GrowState
    /\ left \subseteq Volume /\ frozen \subseteq Volume

GrowTo(p) == grow' = [grow EXCEPT !.at = p, !.vol = NoVolume]

\* is_container_member, for what /proc/mdstat says.
Members(c) == {v \in VolumesOf[c] : version[v] # "none"}

-----------------------------------------------------------------------------
\* Grow_reshape opens the container with O_EXCL, and keeps it open.
OpenContainer(c) ==
    /\ c \in world.grown
    /\ grow.at = "none" /\ holder[c] = Nowhere
    /\ grow' = [at |-> "opened", cont |-> c, vol |-> NoVolume]
    /\ holder' = [holder EXCEPT ![c] = "grow"]
    /\ UNCHANGED <<driver, record, mdmon, ping, left, frozen>>

Leave ==
    /\ grow' = [at |-> "over", cont |-> Nowhere, vol |-> NoVolume]
    /\ holder' = [holder EXCEPT ![grow.cont] = Nowhere]
    /\ left' = {} /\ frozen' = {}

\* check_idle: nothing recovers and nothing is blocked.
CheckIdle ==
    LET c == grow.cont IN
    /\ grow.at = "opened"
    /\ IF \A v \in Members(c) : action[v] # "recover" /\ version[v] # "blocked"
       THEN GrowTo("freeze") /\ left' = Members(c) /\ UNCHANGED <<frozen, holder>>
       ELSE Leave
    /\ UNCHANGED <<driver, record, mdmon, ping>>

\* A volume can not be frozen: those that were are thawed.
GiveUp == GrowTo("thaw") /\ left' = frozen /\ frozen' = {}

\* block_monitor, for the next volume: sysfs_freeze_array, which takes an array that
\* recovers too.
FreezeArray(v) ==
    /\ grow.at = "freeze" /\ v \in left
    /\ IF action[v] = "frozen"
       THEN GiveUp /\ UNCHANGED action
       ELSE /\ action' = [action EXCEPT ![v] = "frozen"]
            /\ grow' = [grow EXCEPT !.at = "block", !.vol = v]
            /\ left' = left \ {v}
            /\ UNCHANGED frozen
    /\ UNCHANGED <<world, work, place, slots, synced, version, record, mdmon, ping, holder>>

\* Mutant of Block: the ping is left out.
BlockUnasked ==
    /\ grow.at = "block"
    /\ version' = [version EXCEPT ![grow.vol] = "blocked"]
    /\ grow' = [grow EXCEPT !.at = "verify"]
    /\ UNCHANGED <<world, work, place, slots, synced, action, record, mdmon, ping, left, frozen,
                   holder>>

\* block_subarray, and the ping.
Block ==
    /\ grow.at = "block"
    /\ version' = [version EXCEPT ![grow.vol] = "blocked"]
    /\ ping' = [ping EXCEPT ![grow.cont] = @ \cup {<<"grow", "monitor">>}]
    /\ grow' = [grow EXCEPT !.at = "verify"]
    /\ UNCHANGED <<world, work, place, slots, synced, action, record, mdmon, left, frozen, holder>>

\* What writing "idle" to sync_action makes of it: a recovery that was cut off goes on.
Idle(v) == IF Rebuilding(v) = {} THEN "idle" ELSE "recover"

\* The checks against a race with a recovery.  The second has read no metadata_version,
\* and so writes one without a container (msg.c:382).
Verify ==
    LET v == grow.vol IN
    /\ grow.at = "verify" /\ ping[grow.cont] \cap ({"grow"} \X {"monitor"}) = {}
    /\ IF action[v] # "frozen"
       THEN /\ version' = [version EXCEPT ![v] = "own"]
            /\ GiveUp /\ UNCHANGED action
       ELSE IF Rebuilding(v) # {}
       THEN /\ version' = [version EXCEPT ![v] = "none"]
            /\ action' = [action EXCEPT ![v] = Idle(v)]
            /\ GiveUp
       ELSE /\ frozen' = frozen \cup {v}
            /\ GrowTo("freeze")
            /\ UNCHANGED <<version, action, left>>
    /\ UNCHANGED <<world, work, place, slots, synced, record, mdmon, ping, holder>>

Frozen ==
    /\ grow.at = "freeze" /\ left = {}
    /\ GrowTo("held")
    /\ frozen' = {}
    /\ UNCHANGED <<driver, record, mdmon, ping, left, holder>>

\* unfreeze_container: unblock_monitor, for all members.
Unfreeze ==
    /\ grow.at = "held"
    /\ GrowTo("thaw")
    /\ left' = Members(grow.cont)
    /\ UNCHANGED <<driver, record, mdmon, ping, frozen, holder>>

\* unblock_subarray.
Unblock(v) ==
    /\ grow.at = "thaw" /\ v \in left
    /\ version' = [version EXCEPT ![v] = "own"]
    /\ action' = [action EXCEPT ![v] = Idle(v)]
    /\ left' = left \ {v}
    /\ UNCHANGED <<world, work, place, slots, synced, record, mdmon, ping, grow, frozen, holder>>

\* Mutant of PingThawed: mdmon is not told.
PingNobody ==
    /\ grow.at = "thaw" /\ left = {}
    /\ GrowTo("thawed")
    /\ UNCHANGED <<driver, record, mdmon, ping, left, frozen, holder>>

\* The ping that tells mdmon.  A manager that has been round the volumes and comes to its
\* socket answers it, and sleeps on.
PingThawed ==
    /\ grow.at = "thaw" /\ left = {}
    /\ mgr[grow.cont].at = "asleep" \/ "unheard" \in Happens
    /\ ping' = [ping EXCEPT ![grow.cont] = @ \cup {<<"grow", "monitor">>}]
    /\ GrowTo("thawed")
    /\ UNCHANGED <<driver, record, mdmon, left, frozen, holder>>

Thawed ==
    /\ grow.at = "thawed" /\ ping[grow.cont] \cap ({"grow"} \X {"monitor"}) = {}
    /\ Leave
    /\ UNCHANGED <<driver, record, mdmon, ping>>

GrowInit ==
    /\ grow = [at |-> "none", cont |-> Nowhere, vol |-> NoVolume]
    /\ left = {} /\ frozen = {}

GrowStep == \/ CheckIdle \/ Block \/ Verify \/ Frozen \/ Unfreeze \/ PingThawed \/ Thawed
            \/ \E v \in Volume : FreezeArray(v) \/ Unblock(v)
GrowNext == GrowStep \/ \E c \in Container : OpenContainer(c)
=============================================================================
