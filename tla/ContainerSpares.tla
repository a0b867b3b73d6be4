-------------------------- MODULE ContainerSpares --------------------------
(***************************************************************************)
(* The spare disks of containers with IMSM metadata and of native arrays,  *)
(* and those who take them without being asked: the manager thread of each *)
(* mdmon (managemon.c), which adds a spare to a degraded volume, and the   *)
(* driver, which does it for a native array.  Others move spares between   *)
(* containers (SpareMigration) or forbid mdmon to use them                 *)
(* (FreezeContainer).                                                      *)
(*                                                                         *)
(* The volumes of a container lie on the same disks.  A disk that was in   *)
(* them from the start is only counted (work); spares have names.          *)
(***************************************************************************)
EXTENDS Naturals, FiniteSets

CONSTANTS Container,   \* the containers
          VolumesOf,   \* the volumes of each
          Native,      \* native arrays
          Spare,       \* the disks that are spares at the start
          RaidDisks,   \* the slots of every array
          Rank,        \* the order of arrays and containers in /proc/mdstat
          Scenario,    \* where each spare is at the start, which groups may lose disks,
                       \* and which containers mdadm --grow may be given
          Nowhere, NoVolume, NoSpare,
          Happens      \* what may happen beside what the code is written for

Group  == Container \cup Native
Volume == UNION {VolumesOf[c] : c \in Container}
Array  == Volume \cup Native
Mdadm  == {"grow", "monitor"}   \* the mdadm processes that talk to mdmon

ASSUME ContainerAssumption ==
    /\ IsFiniteSet(Spare) /\ Container \cap Native = {} /\ Volume \cap Group = {}
    /\ \A c, d \in Container : c # d => VolumesOf[c] \cap VolumesOf[d] = {}
ASSUME ScenarioAssumption ==
    /\ Scenario \subseteq [home : [Spare -> Group], fragile : SUBSET Group,
                      grown : SUBSET Container]
    /\ Nowhere \notin Group \cup Mdadm
ASSUME RankAssumption ==
    /\ Rank \in [Array \cup Container -> Nat]
    /\ \A x, y \in Array \cup Container : Rank[x] = Rank[y] => x = y
ASSUME RaidDisksAssumption == RaidDisks \in Nat /\ RaidDisks >= 2
ASSUME HappensAssumption == Happens \subseteq {"contest", "unheard"}

\* x is the first of S in /proc/mdstat, or the last: mdadm --monitor has put each in front
\* of its list.
First(x, S) == x \in S /\ \A y \in S : Rank[x] <= Rank[y]
Last(x, S)  == x \in S /\ \A y \in S : Rank[x] >= Rank[y]

GroupOf(a) == IF a \in Native THEN a ELSE CHOOSE c \in Container : a \in VolumesOf[c]

VARIABLES
    world,     \* the scenario
    \* The driver.
    work,      \* the devices of a group that were there at the start and still work
    place,     \* the group that has a spare among its devices
    slots,     \* the arrays that have a spare in a slot
    synced,    \* those in which it is rebuilt
    action,    \* sync_action of an array
    version,   \* metadata_version of a volume: "own", "blocked" (with the '-') or
               \* "none", which names no container
    \* mdmon of each container.
    recorded,  \* the devices of work that its metadata says work
    listed,    \* the spares in its metadata
    assigned,  \* those of them that the metadata has given a slot
    known,     \* the spares in container->devs
    wants,     \* the volumes with check_degraded set
    queued,    \* the containers with an update on the way from manager to monitor
    mgr,       \* the manager's place, the volume and the spare it is busy with
    todo,      \* what is left of its walk over /proc/mdstat
    awake,     \* an event it has not seen
    ping,      \* the mdadm processes that wait for its answer, and to what
    holder     \* who has the container open with O_EXCL

driver == <<world, work, place, slots, synced, action, version>>
record == <<recorded, listed, assigned>>
mdmon  == <<known, wants, queued, mgr, todo, awake>>
baseVars == <<driver, record, mdmon, ping, holder>>

Asleep == [at |-> "asleep", vol |-> NoVolume, spare |-> NoSpare]

MgrState == [at : {"asleep", "pass", "activating", "updating"},
             vol : Volume \cup {NoVolume}, spare : Spare \cup {NoSpare}]

BaseTypeOK ==
    /\ world \in Scenario
    /\ work \in [Group -> 0..RaidDisks]
    /\ place \in [Spare -> Group \cup {Nowhere}]
    /\ slots \in [Spare -> SUBSET Array] /\ synced \in [Spare -> SUBSET Array]
    /\ action \in [Array -> {"idle", "frozen", "recover"}]
    /\ version \in [Volume -> {"own", "blocked", "none"}]
    /\ recorded \in [Container -> 0..RaidDisks]
    /\ listed \in [Container -> SUBSET Spare]
    /\ assigned \in [Container -> SUBSET Spare]
    /\ known \in [Container -> SUBSET Spare]
    /\ wants \subseteq Volume /\ queued \subseteq Container
    /\ mgr \in [Container -> MgrState]
    /\ todo \in [Container -> SUBSET (Container \cup Volume)]
    /\ awake \subseteq Container
    /\ ping \in [Container -> SUBSET (Mdadm \X {"monitor", "manager", "again"})]
    /\ holder \in [Container -> Mdadm \cup {Nowhere}]

-----------------------------------------------------------------------------
(* What sysfs says of an array: the devices in sync, and those in a slot   *)
(* that are not.                                                           *)
InSync(a)     == work[GroupOf(a)] + Cardinality({s \in Spare : a \in synced[s]})
Rebuilding(a) == {s \in Spare : a \in slots[s] \ synced[s]}
DevicesOf(g)  == {s \in Spare : place[s] = g}
Degraded(a)   == InSync(a) < RaidDisks

\* An event in /proc/mdstat is seen by the manager of the group.
Stirred(g) == awake \cup ({g} \cap Container)

-----------------------------------------------------------------------------
(* The driver.                                                             *)

\* A disk fails; every volume of the container loses it.
Fail(g) ==
    /\ g \in world.fragile /\ work[g] > 1
    /\ work' = [work EXCEPT ![g] = @ - 1]
    /\ awake' = Stirred(g)
    /\ UNCHANGED <<world, place, slots, synced, action, version, record, known, wants, queued,
                   mgr, todo, ping, holder>>

\* The recovery of a is over; of a volume the monitor sees it, and asks for the next
\* spare.
RecoveryDone(a) ==
    /\ action[a] = "recover"
    /\ synced' = [s \in Spare |-> synced[s] \cup (slots[s] \cap {a})]
    /\ action' = [action EXCEPT ![a] = "idle"]
    /\ wants' = IF a \in Volume /\ InSync(a) + Cardinality(Rebuilding(a)) < RaidDisks
                THEN wants \cup {a} ELSE wants
    /\ awake' = Stirred(GroupOf(a))
    /\ UNCHANGED <<world, work, place, slots, version, record, known, queued, mgr, todo, ping,
                   holder>>

\* A native array that is degraded takes a spare of its own.
NativeTakes(n, s) ==
    /\ n \in Native /\ action[n] = "idle"
    /\ place[s] = n /\ slots[s] = {} /\ Rebuilding(n) = {} /\ Degraded(n)
    /\ slots' = [slots EXCEPT ![s] = {n}]
    /\ action' = [action EXCEPT ![n] = "recover"]
    /\ UNCHANGED <<world, work, place, synced, version, record, mdmon, ping, holder>>

-----------------------------------------------------------------------------
(* mdmon: the monitor thread.                                              *)

\* read_and_act finds failed devices, and asks the manager for spares.
Record(c) ==
    /\ recorded[c] # work[c]
    /\ recorded' = [recorded EXCEPT ![c] = work[c]]
    /\ wants' = wants \cup VolumesOf[c]
    /\ awake' = awake \cup {c}
    /\ UNCHANGED <<driver, listed, assigned, known, queued, mgr, todo, ping, holder>>

\* process_update of what the manager queued: disks added and removed
\* (add_remove_disk_update; a disk that has a slot is kept), or a spare given a slot.
ApplyUpdate(c) ==
    /\ c \in queued
    /\ listed' = [listed EXCEPT ![c] = known[c] \cup (@ \cap assigned[c])]
    /\ assigned' = IF mgr[c].at = "updating"
                   THEN [assigned EXCEPT ![c] = @ \cup {mgr[c].spare}] ELSE assigned
    /\ wants' = IF known[c] \subseteq listed[c] THEN wants ELSE wants \cup VolumesOf[c]
    /\ queued' = queued \ {c}
    /\ awake' = awake \cup {c}
    /\ UNCHANGED <<driver, recorded, known, mgr, todo, ping, holder>>

-----------------------------------------------------------------------------
(* mdmon: the manager thread.                                              *)

\* do_manager: an event, or a message, ends its sleep, and it reads /proc/mdstat.
Wake(c) ==
    /\ mgr[c].at = "asleep" /\ c \notin queued
    /\ c \in awake \/ ping[c] # {}
    /\ mgr' = [mgr EXCEPT ![c].at = "pass"]
    /\ todo' = [todo EXCEPT ![c] = {c} \cup VolumesOf[c]]
    /\ awake' = awake \ {c}
    /\ UNCHANGED <<driver, record, known, wants, queued, ping, holder>>

\* manage_container, which looks at the devices only when their number has changed.
ManageContainer(c) ==
    LET changed == Cardinality(DevicesOf(c)) # Cardinality(known[c]) IN
    /\ mgr[c].at = "pass" /\ First(c, todo[c])
    /\ todo' = [todo EXCEPT ![c] = @ \ {c}]
    /\ known' = IF changed THEN [known EXCEPT ![c] = DevicesOf(c)] ELSE known
    /\ queued' = IF changed THEN queued \cup {c} ELSE queued
    /\ UNCHANGED <<driver, record, wants, mgr, awake, ping, holder>>

\* The spares imsm_activate_spare may choose for v, and the one it does: a disk that is
\* in another volume already comes first.
Usable(c, v) == {s \in listed[c] : v \notin slots[s]}
Lacks(c, v)  == recorded[c] + Cardinality({s \in assigned[c] : v \in slots[s]}) < RaidDisks
Choice(c, v) ==
    LET taken == Usable(c, v) \cap assigned[c] IN
    IF ~Lacks(c, v) \/ Rebuilding(v) # {} THEN {}
    ELSE IF taken # {} THEN taken ELSE Usable(c, v)

\* manage_member as far as the choice: metadata_version and sync_action are read before
\* the spare is chosen.
LookAt(c, v) ==
    LET frozen  == version[v] = "blocked" \/ action[v] # "idle"
        ignored == version[v] = "none"          \* not is_container_member
        asked   == v \in wants /\ ~frozen /\ ~ignored /\ c \notin queued
    IN  /\ mgr[c].at = "pass" /\ v \in VolumesOf[c] /\ First(v, todo[c])
        /\ todo' = [todo EXCEPT ![c] = @ \ {v}]
        /\ wants' = IF asked THEN wants \ {v} ELSE wants
        /\ IF asked /\ Choice(c, v) # {}
           THEN \E s \in Choice(c, v) :
                    mgr' = [mgr EXCEPT ![c] = [at |-> "activating", vol |-> v, spare |-> s]]
           ELSE UNCHANGED mgr
        /\ UNCHANGED <<driver, record, known, queued, awake, ping, holder>>

\* The array is frozen, the disk is added to it unless a native array has it, and the
\* update is queued in any case.
Activate(c) ==
    LET v == mgr[c].vol  s == mgr[c].spare IN
    /\ mgr[c].at = "activating"
    /\ action' = [action EXCEPT ![v] = "frozen"]
    /\ slots' = IF place[s] \in Native THEN slots ELSE [slots EXCEPT ![s] = @ \cup {v}]
    /\ queued' = queued \cup {c}
    /\ mgr' = [mgr EXCEPT ![c].at = "updating"]
    /\ UNCHANGED <<world, work, place, synced, version, record, known, wants, todo, awake, ping,
                   holder>>

StartRecovery(c) ==
    /\ mgr[c].at = "updating" /\ c \notin queued
    /\ action' = [action EXCEPT ![mgr[c].vol] = "recover"]
    /\ mgr' = [mgr EXCEPT ![c] = [Asleep EXCEPT !.at = "pass"]]
    /\ awake' = awake \cup {c}
    /\ UNCHANGED <<world, work, place, slots, synced, version, record, known, wants, queued,
                   todo, ping, holder>>

\* read_sock, after manage: one message is answered when the updates are through and the
\* monitor has been round twice; ping_manager first asks for another walk.
Answer(c, p) ==
    /\ mgr[c].at = "pass" /\ todo[c] = {} /\ c \notin queued
    /\ p \in ping[c] /\ (p[2] # "again" => ping[c] \cap (Mdadm \X {"again"}) = {})
    /\ \/ /\ p[2] = "manager"
          /\ ping' = [ping EXCEPT ![c] = (@ \ {p}) \cup {<<p[1], "again">>}]
          /\ todo' = [todo EXCEPT ![c] = {c} \cup VolumesOf[c]]
          /\ UNCHANGED mgr
       \/ /\ p[2] = "monitor" => recorded[c] = work[c]
          /\ p[2] # "manager"
          /\ ping' = [ping EXCEPT ![c] = @ \ {p}]
          /\ mgr' = [mgr EXCEPT ![c] = Asleep]
          /\ UNCHANGED todo
    /\ UNCHANGED <<driver, record, known, wants, queued, awake, holder>>

GoToSleep(c) ==
    /\ mgr[c].at = "pass" /\ todo[c] = {} /\ ping[c] = {}
    /\ mgr' = [mgr EXCEPT ![c] = Asleep]
    /\ UNCHANGED <<driver, record, known, wants, queued, todo, awake, ping, holder>>

-----------------------------------------------------------------------------
BaseInit ==
    /\ work = [g \in Group |-> RaidDisks]
    /\ world \in Scenario
    /\ place = world.home
    /\ slots = [s \in Spare |-> {}] /\ synced = [s \in Spare |-> {}]
    /\ action = [a \in Array |-> "idle"]
    /\ version = [v \in Volume |-> "own"]
    /\ recorded = [c \in Container |-> RaidDisks]
    /\ listed = [c \in Container |-> {s \in Spare : world.home[s] = c}]
    /\ known = listed
    /\ assigned = [c \in Container |-> {}]
    /\ wants = {} /\ queued = {} /\ awake = {}
    /\ mgr = [c \in Container |-> Asleep]
    /\ todo = [c \in Container |-> {}]
    /\ ping = [c \in Container |-> {}]
    /\ holder = [c \in Container |-> Nowhere]

Driver == \/ \E a \in Array : RecoveryDone(a)
          \/ \E n \in Native, s \in Spare : NativeTakes(n, s)
MonitorThread(c) == Record(c) \/ ApplyUpdate(c)
Manager(c) == \/ Wake(c) \/ ManageContainer(c) \/ Activate(c) \/ StartRecovery(c)
              \/ GoToSleep(c)
              \/ \E v \in VolumesOf[c] : LookAt(c, v)
              \/ \E p \in ping[c] : Answer(c, p)
Mdmon(c) == MonitorThread(c) \/ Manager(c)

BaseNext == \/ Driver
            \/ \E g \in Group : Fail(g)
            \/ \E c \in Container : Mdmon(c)
=============================================================================
