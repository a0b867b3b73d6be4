-------------------------- MODULE SpareMigration ---------------------------
(***************************************************************************)
(* mdadm --monitor moving spares to arrays that need one: check_array and  *)
(* try_spare_migration of Monitor.c, with move_spare, Manage_remove and    *)
(* Manage_add of Manage.c.  It decides by what it read of the arrays, one  *)
(* after the other, some time ago.                                         *)
(***************************************************************************)
EXTENDS ContainerSpares

VARIABLES
    mon,      \* its place
    unread,   \* the arrays check_array has still to read in this turn
    seen,     \* what it read: devices in sync, and spares, of an array
    short,    \* the arrays found degraded and without a spare, and not yet looked after
    job       \* the array it looks after, where to, where from, and the spare

monVars == <<mon, unread, seen, short, job>>

NoJob == [array |-> NoVolume, to |-> Nowhere, from |-> Nowhere, spare |-> NoSpare,
          donors |-> {}]

MonPlace == {"read", "link", "donor", "open", "check", "remove", "removed", "add", "adding",
             "told", "moved", "back", "backing"}

JobState == [array : Array \cup {NoVolume}, to : Group \cup {Nowhere},
             from : Group \cup {Nowhere}, spare : Spare \cup {NoSpare}, donors : SUBSET Group]

MonTypeOK ==
    /\ mon \in MonPlace
    /\ unread \subseteq Array /\ short \subseteq Array
    /\ seen \in [Array -> [active : Nat, spares : SUBSET Spare]]
    /\ job \in JobState

Unseen == [active |-> RaidDisks, spares |-> {}]
Waiting(g) == g \in Container /\ ping[g] \cap ({"monitor"} \X {"monitor", "manager", "again"}) # {}
Pinging(g, kind) == IF g \in Container THEN [ping EXCEPT ![g] = @ \cup {<<"monitor", kind>>}]
                    ELSE ping
Arrays(g) == IF g \in Native THEN {g} ELSE VolumesOf[g]

-----------------------------------------------------------------------------
\* check_array: st->spare counts the devices that are not in sync, and those of a
\* native array beside its slots.
CheckArray(a) ==
    LET spares == Rebuilding(a) \cup
                  (IF a \in Native THEN DevicesOf(a) \ {s \in Spare : a \in synced[s]} ELSE {})
    IN  /\ mon = "read" /\ Last(a, unread)
        /\ unread' = unread \ {a}
        /\ seen' = [seen EXCEPT ![a] = [active |-> InSync(a), spares |-> spares]]
        /\ short' = IF InSync(a) < RaidDisks /\ spares = {} THEN short \cup {a} ELSE short
        /\ mon' = IF unread' = {} THEN "link" ELSE "read"
        /\ UNCHANGED <<driver, record, mdmon, ping, holder, job>>

\* The next turn of Monitor's loop.
NextTurn ==
    /\ mon = "link" /\ short = {}
    /\ mon' = "read"
    /\ unread' = Array
    /\ seen' = [a \in Array |-> Unseen]
    /\ UNCHANGED <<driver, record, mdmon, ping, holder, short, job>>

\* try_spare_migration for a degraded array.  container_choose_spare reads the metadata of
\* its container: a spare there, or more active disks than were seen, and it is left alone.
Spares(c)    == listed[c] \ assigned[c]
NowActive(c) == recorded[c] + Cardinality(assigned[c])
\* Mutant of HasSpare: a spare that was just put to use is not counted.
HasSpareUnused(a) == a \in Volume /\ Spares(GroupOf(a)) # {}

HasSpare(a) ==
    LET c == GroupOf(a) IN
    a \in Volume /\ (Spares(c) # {} \/ seen[a].active < NowActive(c))

LookAfter(a) ==
    /\ mon = "link" /\ Last(a, short)
    /\ short' = short \ {a}
    /\ IF HasSpare(a)
       THEN UNCHANGED <<mon, job>>
       ELSE /\ mon' = "donor"
            /\ job' = [NoJob EXCEPT !.array = a, !.to = GroupOf(a), !.donors = Group]
    /\ UNCHANGED <<driver, record, mdmon, ping, holder, unread, seen>>

\* check_donor.
CheckDonor(from, to) ==
    /\ from # to
    /\ \A a \in Arrays(from) : seen[a].active >= RaidDisks

\* choose_spare takes what check_array saw of a native array, container_choose_spare
\* what the metadata says now.
ToChoose(from) == IF from \in Native THEN seen[from].spares ELSE Spares(from)

\* The loop over the donors: one that can spare nothing is passed over.
TryDonor(from) ==
    /\ mon = "donor" /\ Last(from, job.donors)
    /\ LET next == [job EXCEPT !.donors = @ \ {from}] IN
       IF CheckDonor(from, job.to) /\ ToChoose(from) # {}
       THEN /\ \E s \in ToChoose(from) : job' = [next EXCEPT !.from = from, !.spare = s]
            /\ mon' = "open"
       ELSE job' = next /\ UNCHANGED mon
    /\ UNCHANGED <<driver, record, mdmon, ping, holder, unread, seen, short>>

JobOver ==
    /\ mon = "donor" /\ job.donors = {}
    /\ mon' = "link" /\ job' = NoJob
    /\ UNCHANGED <<driver, record, mdmon, ping, holder, unread, seen, short>>

-----------------------------------------------------------------------------
(* move_spare: Manage_remove.                                              *)

NextDonor == mon' = "donor" /\ job' = [job EXCEPT !.from = Nowhere, !.spare = NoSpare]

\* open_dev_excl, which gives up when another process keeps the container.
OpenDonor ==
    LET c == job.from IN
    /\ mon = "open"
    /\ IF c \in Native
       THEN mon' = "remove" /\ UNCHANGED <<holder, job>>
       ELSE IF holder[c] = Nowhere
       THEN mon' = "check" /\ holder' = [holder EXCEPT ![c] = "monitor"] /\ UNCHANGED job
       ELSE NextDonor /\ UNCHANGED holder
    /\ UNCHANGED <<driver, record, mdmon, ping, unread, seen, short>>

\* mdmon of c has nothing to do, nor will the end of a recovery give it anything.
Quiet(c) == /\ mgr[c].at = "asleep" /\ c \notin awake \cup queued
            /\ recorded[c] = work[c] /\ wants \cap VolumesOf[c] = {}
            /\ \A v \in VolumesOf[c] :
                   action[v] = "recover" => InSync(v) + Cardinality(Rebuilding(v)) >= RaidDisks

\* Mutant of CheckHolder: the other holders are not looked at.
CheckNothing ==
    /\ mon = "check"
    /\ mon' = "remove"
    /\ UNCHANGED <<driver, record, mdmon, ping, holder, unread, seen, short, job>>

\* sysfs_unique_holder: the container has the disk, and no volume does.  That mdmon, which
\* does not open the container, begins to use the spare now is left to "contest".
CheckHolder ==
    LET c == job.from  s == job.spare IN
    /\ mon = "check"
    /\ "contest" \in Happens \/ Quiet(c)
    /\ IF place[s] = c /\ slots[s] = {}
       THEN mon' = "remove" /\ UNCHANGED <<holder, job>>
       ELSE NextDonor /\ holder' = [holder EXCEPT ![c] = Nowhere]
    /\ UNCHANGED <<driver, record, mdmon, ping, unread, seen, short>>

\* hot_remove_disk: a native array keeps a device that has a slot.
HotRemove ==
    LET g == job.from  s == job.spare IN
    /\ mon = "remove"
    /\ IF place[s] = g /\ (g \in Native => slots[s] = {})
       THEN /\ place' = [place EXCEPT ![s] = Nowhere]
            /\ awake' = Stirred(g)
            /\ ping' = Pinging(g, "manager")
            /\ mon' = "removed"
            /\ UNCHANGED <<job, holder>>
       ELSE /\ NextDonor
            /\ holder' = [c \in Container |-> IF c = g THEN Nowhere ELSE holder[c]]
            /\ UNCHANGED <<place, awake, ping>>
    /\ UNCHANGED <<world, work, slots, synced, action, version, record, known, wants, queued, mgr,
                   todo, unread, seen, short>>

\* ping_manager before the container is let go.
Removed ==
    /\ mon = "removed" /\ ~Waiting(job.from)
    /\ holder' = [c \in Container |-> IF c = job.from THEN Nowhere ELSE holder[c]]
    /\ mon' = "add"
    /\ UNCHANGED <<driver, record, mdmon, ping, unread, seen, short, job>>

-----------------------------------------------------------------------------
(* move_spare: Manage_add, to the new group or, if that fails, to the old. *)

CanAdd(g, s) == /\ place[s] = Nowhere /\ slots[s] = {}        \* opened with O_EXCL
                /\ g \in Container => holder[g] = Nowhere

Target == IF mon = "back" THEN job.from ELSE job.to

\* sysfs_add_disk and ping_monitor, with the container held.
Add ==
    LET g == Target  s == job.spare IN
    /\ mon \in {"add", "back"} /\ CanAdd(g, s)
    /\ place' = [place EXCEPT ![s] = g]
    /\ awake' = Stirred(g)
    /\ ping' = Pinging(g, "monitor")
    /\ holder' = [c \in Container |-> IF c = g THEN "monitor" ELSE holder[c]]
    /\ mon' = IF mon = "add" THEN "adding" ELSE "backing"
    /\ UNCHANGED <<world, work, slots, synced, action, version, record, known, wants, queued, mgr,
                   todo, unread, seen, short, job>>

\* Mutant of CannotAdd: the spare is not put back.
AddBackForgotten ==
    /\ mon \in {"add", "back"} /\ ~CanAdd(Target, job.spare)
    /\ NextDonor
    /\ UNCHANGED <<driver, record, mdmon, ping, holder, unread, seen, short>>

\* The answer of the second Manage_subdevs is not looked at.
CannotAdd ==
    /\ mon \in {"add", "back"} /\ ~CanAdd(Target, job.spare)
    /\ IF mon = "add" THEN mon' = "back" /\ UNCHANGED job ELSE NextDonor
    /\ UNCHANGED <<driver, record, mdmon, ping, holder, unread, seen, short>>

Added ==
    /\ mon \in {"adding", "backing"}
    /\ LET g == IF mon = "adding" THEN job.to ELSE job.from IN
       /\ ~Waiting(g)
       /\ holder' = [c \in Container |-> IF c = g THEN Nowhere ELSE holder[c]]
       /\ IF mon = "adding"
          THEN /\ mon' = "told" /\ ping' = Pinging(job.to, "manager")
               /\ UNCHANGED job
          ELSE NextDonor /\ UNCHANGED ping
    /\ UNCHANGED <<driver, record, mdmon, unread, seen, short>>

\* Both managers are made aware, one after the other.
Told ==
    /\ mon = "told" /\ ~Waiting(job.to)
    /\ ping' = Pinging(job.from, "manager")
    /\ mon' = "moved"
    /\ UNCHANGED <<driver, record, mdmon, holder, unread, seen, short, job>>

Moved ==
    /\ mon = "moved" /\ ~Waiting(job.from)
    /\ mon' = "link" /\ job' = NoJob
    /\ UNCHANGED <<driver, record, mdmon, ping, holder, unread, seen, short>>

-----------------------------------------------------------------------------
MonInit ==
    /\ mon = "read" /\ unread = Array /\ short = {} /\ job = NoJob
    /\ seen = [a \in Array |-> Unseen]

MonStep == \/ NextTurn \/ JobOver
           \/ \E a \in Array : CheckArray(a) \/ LookAfter(a)
           \/ \E from \in Group : TryDonor(from)
           \/ OpenDonor \/ CheckHolder \/ HotRemove \/ Removed
           \/ Add \/ CannotAdd \/ Added \/ Told \/ Moved
=============================================================================
