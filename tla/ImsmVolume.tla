----------------------------- MODULE ImsmVolume -----------------------------
(***************************************************************************)
(* What the IMSM handler (super-intel.c) records of a RAID1, RAID5 or      *)
(* RAID10 volume while mdmon runs it: the two maps and the migration       *)
(* between them, the flag of a disk that is being rebuilt, the position    *)
(* reached, the dirty flag; and what assembly makes of that record after   *)
(* the host lost power at any moment.                                      *)
(*                                                                         *)
(* The monitor's reads of sysfs are one step here (MonitorThread has them  *)
(* one by one); what it decides, writes to the disks and writes to sysfs   *)
(* are steps of their own.                                                 *)
(***************************************************************************)
EXTENDS Naturals, Sequences, FiniteSets, SequencesExt, FiniteSetsExt

CONSTANTS Volumes,   \* the volumes looked at: records of level, members and events,
                     \* a bound on failures, absences, losses of power and killed
                     \* processes
          Spares,    \* how many disks more there are
          Size,      \* of a member, in migration units
          None,
          Happens    \* "fail": a disk fails; "failsync": even while a resync is due
                     \* "powerloss": the host loses power; "tearrebuild": during
                     \* the write to a whole pair while another is rebuilt; "tearsynced":
                     \* below the position that a resync has recorded
                     \* "absent": a disk is not found at boot
                     \* "kill": mdmon is killed; "stop": mdadm --stop
                     \* "quick": a sync may be over before the monitor saw it

ASSUME VolumesAssumption ==
    \A v \in Volumes : v.level \in {1, 5, 10} /\ v.members \in Nat \ {0, 1} /\ v.events \in Nat
ASSUME SizeAssumption == Size \in Nat \ {0} /\ Spares \in Nat
ASSUME HappensAssumption ==
    Happens \subseteq {"fail", "failsync", "powerloss", "tearrebuild", "tearsynced",
                 "absent", "kill", "stop", "quick"}

VARIABLES
    vol,
    arr,        \* array_state; "off" without an array
    dev,        \* dev[s]: None, or the device in the slot: [disk, role, offset]
    action,     \* sync_action
    pos,        \* how far it is
    synced,     \* resync_start
    good,       \* good[d]: how many units of the disk hold what they should
    torn,       \* torn[g]: from where the members of g may disagree, Size if nowhere
    events,     \* how many more things happen
    pc,         \* the monitor: "wait", "flush", "sync", "act", or "dead" without mdmon
    known,      \* prev_state is above inactive
    prevAction,
    last,       \* last_checkpoint
    complete,   \* is_resync_complete(&a->info), as last read
    reached,    \* the slots in a->info.devs, with the recovery_start last read
    watched,    \* those whose files are open
    next,       \* next_state, or None; "off" for deactivate
    faults,     \* slots to unblock and remove
    note,       \* check_degraded of this pass
    checkDegraded,
    update,     \* None, or the update of the manager: [disks, last, handled]
    mem, stored,\* the metadata in memory and on the disks
    absent,     \* disks that are not there in this boot
    missing     \* disks of the metadata that were not found when it was loaded

kernelVars == <<arr, dev, action, pos, synced>>
truthVars  == <<good, torn>>
passVars   == <<next, faults, note>>
keptVars   == <<known, prevAction, last, complete, reached, watched>>
mgrVars    == <<checkDegraded, update>>
monVars    == <<pc, keptVars, passVars, mgrVars, mem, missing>>
vars == <<vol, kernelVars, truthVars, events, monVars, stored, absent>>

Disks    == 1..(vol.members + Spares)
Slots    == 1..vol.members
Group(s) == IF vol.level = 10 THEN (s + 1) \div 2 ELSE 1
Groups   == {Group(s) : s \in Slots}
Least(a, b) == IF a < b THEN a ELSE b

-----------------------------------------------------------------------------
(* The metadata of a volume: the state of the first map and of the second,  *)
(* the disk of each slot in both and whether it is to be rebuilt, and which *)
(* disks have failed or were struck off.                                    *)

Ord(d, r) == [disk |-> d, rebuild |-> r]
Fresh == [state0 |-> "normal", state1 |-> None, ord0 |-> [s \in Slots |-> Ord(s, FALSE)],
          ord1 |-> <<>>, migr |-> "no", unit |-> 0, dirty |-> FALSE,
          failedNum |-> 0, failed |-> {}]

\* Mutant of MapX: MAP_0 is looked at during a migration too.
Map0(m) == m.ord0

MapX(m) == IF m.migr = "no" THEN m.ord0 ELSE m.ord1

Gone(m, d) == d \in m.failed \cup absent
Bad(m, o)  == Gone(m, o.disk) \/ o.rebuild

\* imsm_count_failed and imsm_check_degraded, for the first map.
CountFailed(m) == Cardinality({s \in Slots : Bad(m, m.ord0[s])})
MapState(m, failed) ==
    IF failed = 0 THEN IF m.state0 = "uninitialized" THEN "uninitialized" ELSE "normal"
    ELSE CASE vol.level = 1  -> IF failed < vol.members THEN "degraded" ELSE "failed"
           [] vol.level = 5  -> IF failed < 2 THEN "degraded" ELSE "failed"
           [] vol.level = 10 -> IF \E g \in Groups : \A s \in Slots :
                                      Group(s) = g => Bad(m, MapX(m)[s])
                                THEN "failed" ELSE "degraded"
StateNow(m) == MapState(m, CountFailed(m))

\* Mutant of IsRebuilding: the state of the first map is looked at.
IsRebuildingTo(m) == m.migr = "rebuild" /\ m.state0 = "degraded"

IsRebuilding(m) == m.migr = "rebuild" /\ m.state1 = "degraded"
IsResyncing(m)  == m.migr \in {"init", "repair"} \/ (m.migr = "rebuild" /\ m.state1 = "normal")
IsInitializing(m) == m.migr = "init" /\ m.state1 = "uninitialized"

Migrate(m, to, type) ==
    [m EXCEPT !.migr = type, !.unit = 0, !.state0 = to, !.state1 = m.state0, !.ord1 = m.ord0]

\* Flags that were not cleared go over to the first map, if the end is not
\* the one that was expected.
EndMigration(m, to) ==
    LET prev  == IF m.migr = "no" THEN m.state0 ELSE m.state1
        old   == MapX(m)
        merge == to # m.state0 /\ prev # "uninitialized"
        flag(o) == [o EXCEPT !.rebuild = @ \/ \E s \in Slots : old[s].disk = o.disk /\ old[s].rebuild]
        kept  == IF merge THEN [m EXCEPT !.ord0 = [s \in Slots |-> flag(m.ord0[s])]] ELSE m
    IN [kept EXCEPT !.migr = "no", !.unit = 0, !.ord1 = <<>>, !.state1 = None,
                    !.state0 = IF merge THEN StateNow(kept) ELSE to]

MarkFailure(m, d) ==
    LET at(map) == {s \in DOMAIN map : map[s].disk = d}
        flag(map) == [s \in DOMAIN map |-> IF s \in at(map) THEN Ord(d, TRUE) ELSE map[s]]
        slot == CHOOSE s \in at(m.ord0) : TRUE
    IN IF at(m.ord0) = {} \/ (d \in m.failed /\ m.ord0[slot].rebuild) THEN m
       ELSE [m EXCEPT !.failed = @ \cup {d}, !.ord0 = flag(@), !.ord1 = flag(@),
                      !.failedNum = IF @ = 0 \/ (~IsRebuilding(m) /\ @ > slot) THEN slot ELSE @]

\* The array is about to be used without the disks that were not found.
HandleMissing(m) ==
    LET rebuilt == ~\E s \in Slots : m.ord0[s].rebuild /\ m.migr # "no" /\ m.ord1[s].rebuild
        ended   == IF CountFailed(m) > 0 /\ rebuilt THEN EndMigration(m, StateNow(m)) ELSE m
    IN IF missing = {} THEN m ELSE FoldSet(LAMBDA d, n : MarkFailure(n, d), ended, missing)

-----------------------------------------------------------------------------
(* imsm_set_array_state and imsm_set_disk, on what they change: the         *)
(* metadata in memory and a->last_checkpoint.                               *)

\* consistent is 0, 1, or 2 for an array that is about to start.
Consistent(x, consistent, full) ==
    IF consistent = 2 THEN full /\ StateNow(x.m) = "normal" /\ HandleMissing(x.m).migr = "no"
    ELSE consistent = 1

SetArrayState(x, consistent, full) ==
    LET failed == CountFailed(x.m)
        state  == StateNow(x.m)
        seen   == IF consistent = 2 THEN HandleMissing(x.m) ELSE x.m
        ended  == full /\ IsResyncing(seen)
        begun  == ~full /\ ~IsResyncing(seen) /\ failed = 0
        m1     == IF ended THEN EndMigration(seen, state)
                  ELSE IF begun
                  THEN Migrate(seen, "normal", IF seen.state0 = "uninitialized" THEN "init" ELSE "repair")
                  ELSE seen
        at     == IF ended THEN 0 ELSE x.last
    IN [m |-> [m1 EXCEPT !.unit = IF m1.migr # "no" THEN at ELSE @,
                         !.dirty = ~Consistent(x, consistent, full)],
        last |-> at]

\* word is "insync", "spare", "faulty" or "none"; from has the recovery_start
\* of each listed device.
SetDisk(x, n, word, from) ==
    LET o     == MapX(x.m)[n]
        m1    == IF word = "faulty" /\ o.disk \notin absent THEN MarkFailure(x.m, o.disk) ELSE x.m
        done  == word = "insync" /\ o.rebuild /\ IsRebuilding(m1)
        m2    == IF done THEN [m1 EXCEPT !.ord1[n] = Ord(o.disk, FALSE)] ELSE m1
        state == StateNow(m2)
        m3    == IF state = "degraded" /\ IsRebuilding(m2) /\ word = "faulty"
                 THEN IF n = m2.failedNum THEN EndMigration(m2, state)
                      ELSE [m2 EXCEPT !.state0 = state]
                 ELSE m2
        ends  == IsRebuilding(m2) /\ (state = "normal" \/ (state = "degraded" /\ done))
        open  == {s \in DOMAIN from : from[s] < Size}
        first == CHOOSE s \in open : \A t \in open : t <= s
        m4    == EndMigration(m3, state)
        num   == IF state = "normal" THEN 0
                 ELSE Max({0} \cup {s \in Slots : m4.ord0[s].rebuild})
    IN CASE ends /\ open # {} ->
                [m |-> m3, last |-> IF x.last < from[first] THEN from[first] ELSE x.last]
         [] ends /\ open = {} ->
                [m |-> [m4 EXCEPT !.failedNum = IF state # "normal" /\ num = 0 THEN @ ELSE num],
                 last |-> 0]
         [] state = "degraded" /\ m2.migr = "no" /\ m2.state0 # state ->
                [m |-> [m2 EXCEPT !.state0 = state], last |-> 0]
         [] state = "degraded" /\ IsRebuilding(m2) /\ ~done ->
                [m |-> m3, last |-> IF IsRebuilding(m3) THEN x.last ELSE 0]
         [] state = "degraded" /\ IsInitializing(m2) ->
                [m |-> [m2 EXCEPT !.state0 = state], last |-> x.last]
         [] state = "failed" /\ m2.state0 # state ->
                [m |-> EndMigration(m2, state), last |-> 0]
         [] OTHER -> [m |-> m2, last |-> x.last]

-----------------------------------------------------------------------------
(* The md driver and the disks.                                             *)

Running  == arr # "off"
Writable == arr \in {"clean", "pending", "active", "idle"}
InSync   == {s \in Slots : dev[s] # None /\ dev[s].role = "insync"}
Spared   == {s \in Slots : dev[s] # None /\ dev[s].role = "spare"}
Failed   == {s \in Slots : dev[s] # None /\ dev[s].role = "faulty"}
Present  == {dev[s].disk : s \in InSync \cup Spared}
Whole(g) == {s \in Slots : Group(s) = g} \subseteq InSync

WriteArrives ==
    /\ arr \in {"clean", "auto", "idle"}
    /\ arr' = IF arr = "idle" THEN "active" ELSE "pending"
    /\ UNCHANGED <<vol, dev, action, pos, synced, truthVars, events, monVars, stored, absent>>

\* The worst of writes, to every unit: a disk that is not there has nothing
\* of it, a spare only what was recovered to it.
Write ==
    /\ arr = "active" /\ Failed = {}
    /\ good' = [d \in Disks |->
          IF d \notin Present THEN 0
          ELSE LET s == CHOOSE s \in InSync \cup Spared : dev[s].disk = d
                   at == IF action = "recover" THEN pos ELSE dev[s].offset
               IN IF s \in InSync THEN good[d] ELSE Least(good[d], at)]
    /\ UNCHANGED <<vol, kernelVars, torn, events, monVars, stored, absent>>

GoIdle ==
    /\ arr = "active" /\ Failed = {}
    /\ arr' = "idle"
    /\ UNCHANGED <<vol, dev, action, pos, synced, truthVars, events, monVars, stored, absent>>

\* A sync thread that runs is interrupted, and remembers where.
Interrupted(s) ==
    /\ synced' = IF action = "resync" THEN pos ELSE synced
    /\ dev' = [t \in Slots |->
          IF t = s THEN [dev[t] EXCEPT !.role = "faulty", !.offset = IF action = "recover" /\ t \in Spared THEN pos ELSE @]
          ELSE IF t \in Spared /\ action = "recover" THEN [dev[t] EXCEPT !.offset = pos] ELSE dev[t]]

Fail(s) ==
    /\ "fail" \in Happens /\ events > 0
    /\ arr \notin {"off", "readonly"}
    /\ s \in InSync \cup Spared
    /\ \A g \in Groups : \E t \in InSync \ {s} : Group(t) = g
    /\ vol.level = 5 => Cardinality(InSync \ {s}) >= vol.members - 1
    /\ synced = Size \/ "failsync" \in Happens
    /\ events' = events - 1
    /\ Interrupted(s)
    /\ action' = IF action = "frozen" THEN "frozen" ELSE "idle"
    /\ pos' = 0
    /\ UNCHANGED <<vol, arr, truthVars, monVars, stored, absent>>

Recovers == action' = "recover" /\ pos' = Min({dev[s].offset : s \in Spared})

StartSync ==
    /\ Writable /\ action = "idle"
    /\ \/ Spared # {} /\ Recovers
       \/ /\ Spared = {} /\ synced < Size
          /\ action' = "resync"
          /\ pos' = synced
    /\ UNCHANGED <<vol, arr, dev, synced, truthVars, events, monVars, stored, absent>>

\* One unit is made equal, or copied to the spares.
Progress ==
    /\ action \in {"resync", "recover"} /\ pos < Size
    /\ pos' = pos + 1
    /\ IF action = "resync"
       THEN /\ torn' = [g \in Groups |-> IF torn[g] = pos THEN pos + 1 ELSE torn[g]]
            /\ UNCHANGED good
       ELSE /\ good' = [d \in Disks |->
                  IF \E s \in Spared : dev[s].disk = d /\ dev[s].offset <= pos /\ good[d] = pos
                  THEN pos + 1 ELSE good[d]]
            /\ UNCHANGED torn
    /\ UNCHANGED <<vol, arr, dev, action, synced, events, monVars, stored, absent>>

\* A sync takes longer than the monitor takes to look, which it is told to
\* when the sync starts.
SyncEnds ==
    /\ action \in {"resync", "recover"} /\ pos = Size
    /\ prevAction = action \/ pc = "dead" \/ "quick" \in Happens
    /\ action' = "idle" /\ pos' = 0
    /\ IF action = "resync"
       THEN /\ synced' = Size
            /\ UNCHANGED <<dev, torn>>
       ELSE /\ dev' = [s \in Slots |-> IF s \in Spared
                                      THEN [dev[s] EXCEPT !.role = "insync", !.offset = Size] ELSE dev[s]]
            /\ torn' = [g \in Groups |-> IF \E s \in Spared : Group(s) = g THEN Size ELSE torn[g]]
            /\ UNCHANGED synced
    /\ UNCHANGED <<vol, arr, good, events, monVars, stored, absent>>

Off == /\ arr' = "off"
       /\ dev' = [s \in Slots |-> None]
       /\ action' = "idle" /\ pos' = 0

\* mdadm --stop, when nothing is outstanding; not between the start of an
\* mdmon and its first look at the array.
Stop ==
    /\ "stop" \in Happens
    /\ arr \in {"clean", "idle", "auto"} \/ (arr = "active" /\ Failed = {})
    /\ known \/ pc = "dead"
    /\ Off
    /\ synced' = IF action = "resync" THEN pos ELSE synced
    /\ UNCHANGED <<vol, truthVars, events, monVars, stored, absent>>

NoMdmon ==
    /\ pc' = "dead"
    /\ known' = FALSE /\ prevAction' = "idle" /\ last' = 0 /\ complete' = FALSE
    /\ reached' = <<>> /\ watched' = {}
    /\ next' = None /\ faults' = {} /\ note' = FALSE
    /\ checkDegraded' = FALSE /\ update' = None
    /\ mem' = None /\ missing' = {}

TornFrom == IF stored.migr \in {"init", "repair"} /\ "tearsynced" \notin Happens
            THEN stored.unit ELSE 0

\* Every write that was under way may have reached one member and not another.
LosePower ==
    /\ "powerloss" \in Happens /\ events > 0 /\ Running
    /\ events' = events - 1
    /\ Off /\ NoMdmon
    /\ \E tear \in SUBSET {g \in Groups : arr = "active" /\ Whole(g)} :
          /\ vol.level = 10 /\ stored.migr = "rebuild" /\ tear # {} => "tearrebuild" \in Happens
          /\ torn' = [g \in Groups |-> IF g \in tear THEN Least(torn[g], TornFrom) ELSE torn[g]]
    /\ UNCHANGED <<vol, synced, good, stored, absent>>

Kill ==
    /\ "kill" \in Happens /\ events > 0 /\ pc # "dead"
    /\ events' = events - 1
    /\ NoMdmon
    /\ UNCHANGED <<vol, kernelVars, truthVars, stored, absent>>

-----------------------------------------------------------------------------
(* Assembly: what container_content_imsm and getinfo_super_imsm_volume make *)
(* of the record.                                                           *)

AbleToResync(n) == n <= IF vol.level = 10 THEN 1 ELSE 0

ResyncStart(skipped, spared) ==
    LET base == CASE stored.migr \in {"init", "repair"} -> stored.unit
                  [] stored.migr = "rebuild" -> Size
                  [] OTHER -> IF stored.state0 = "uninitialized" \/ stored.dirty THEN 0 ELSE Size
        drop == ~stored.dirty /\ (spared # {} \/ (skipped # {} /\ ~AbleToResync(1)))
    IN IF drop THEN Size ELSE base

RecoveryStart(spared) ==
    IF IsRebuilding(stored) /\ Cardinality(spared) = 1 THEN stored.unit ELSE 0

Assemble(away) ==
    LET disk(s) == stored.ord0[s].disk
        skipped == {s \in Slots : disk(s) \in away \cup stored.failed}
        spared  == {s \in Slots \ skipped : MapX(stored)[s].rebuild}
        whole   == (Slots \ skipped) \ spared
        start   == ResyncStart(skipped, spared)
    IN /\ arr = "off" /\ pc = "dead"
       /\ away = {} \/ ("absent" \in Happens /\ events > 0)
       /\ whole = Slots \/ start = Size \/ "failsync" \in Happens
       /\ events' = IF away = {} THEN events ELSE events - 1
       /\ absent' = away
       /\ \A g \in Groups : \E s \in whole : Group(s) = g
       /\ vol.level = 5 => Cardinality(whole) >= vol.members - 1
       /\ vol.level = 5 /\ whole # Slots => start = Size  \* not dirty and degraded
       /\ dev' = [s \in Slots |->
             CASE s \in whole  -> [disk |-> disk(s), role |-> "insync", offset |-> Size]
               [] s \in spared -> [disk |-> disk(s), role |-> "spare", offset |-> RecoveryStart(spared)]
               [] OTHER -> None]
       /\ synced' = start
       /\ arr' = "readonly"
       /\ UNCHANGED <<vol, action, pos, truthVars, monVars, stored>>

\* mdmon loads the metadata and opens the files of the array (manage_new).
MdmonStart ==
    /\ pc = "dead" /\ Running
    /\ pc' = "wait"
    /\ mem' = stored
    /\ missing' = {d \in {stored.ord0[s].disk : s \in Slots} : Gone(stored, d)}
    /\ watched' = {s \in Slots : dev[s] # None}
    /\ reached' = [s \in watched' |-> dev[s].offset]
    /\ checkDegraded' = (watched' # Slots)
    /\ UNCHANGED <<vol, kernelVars, truthVars, events, known, prevAction, last, complete,
                   passVars, update, stored, absent>>

-----------------------------------------------------------------------------
(* The monitor: what a pass over the array decides, in the order of         *)
(* read_and_act; the metadata are written before sysfs is.                  *)

\* Mutant of AtMostClean: curr_state <= active.
AtMostActive == arr \notin {"pending", "idle"}

AtMostClean == arr \in {"off", "readonly", "auto", "clean"}
ReachedNow  == [s \in DOMAIN reached |-> IF s \in watched /\ dev[s] # None THEN dev[s].offset ELSE reached[s]]
Word(s)     == IF s \notin watched THEN "none" ELSE dev[s].role
Listed      == SetToSortSeq(DOMAIN reached, LAMBDA s, t : s > t)

SetDisks(x, which) ==
    FoldLeft(LAMBDA y, s : IF s \in which THEN SetDisk(y, s, Word(s), ReachedNow) ELSE y, x, Listed)

OnState(x, stopped, full) ==
    CASE stopped          -> SetArrayState(x, 1, full)
      [] arr = "pending"  -> SetArrayState(x, 0, full)
      [] arr = "clean"    -> SetArrayState(x, 1, full)
      [] arr = "readonly" -> SetArrayState(x, 2, full)
      [] OTHER            -> x

OnSyncEnd(x, full) ==
    CASE action = "idle" /\ prevAction = "resync"  -> SetArrayState(x, IF AtMostClean THEN 1 ELSE 0, full)
      [] action = "idle" /\ prevAction = "recover" -> SetDisks(x, DOMAIN reached)
      [] OTHER -> x

OnFaults(x, full) ==
    LET y == SetDisks(x, Failed \cap watched)
    IN IF arr = "auto" /\ Failed \cap watched # {} THEN SetArrayState(y, 0, full) ELSE y

Completed == IF action \in {"resync", "recover"} THEN pos ELSE 0
OnCheckpoint(x, full) ==
    LET y == IF Completed > x.last
             THEN SetArrayState([x EXCEPT !.last = Completed], IF AtMostClean THEN 1 ELSE 0, full)
             ELSE x
        at == IF Completed > y.last THEN Completed ELSE y.last
    IN [y EXCEPT !.last = IF Completed >= Size THEN 0 ELSE at]

NextState(stopped, x) ==
    CASE stopped -> "off"
      [] arr = "pending" -> "active"
      [] arr = "idle" -> "clean"
      [] arr = "readonly" -> IF x.m.dirty THEN "active" ELSE "auto"
      [] arr = "auto" /\ Failed \cap watched # {} -> "active"
      [] OTHER -> None

Decide ==
    LET full    == IF Running THEN synced = Size ELSE complete
        stopped == ~Running /\ known
        x0 == [m |-> mem, last |-> last]
        x1 == OnState(x0, stopped, full)
        x2 == IF stopped THEN x1 ELSE OnFaults(OnSyncEnd(x1, full), full)
        x3 == OnCheckpoint(x2, full)
    IN /\ pc = "wait"
       /\ IF update = None THEN TRUE ELSE update.handled
       /\ complete' = full
       /\ reached' = ReachedNow
       /\ next' = NextState(stopped, x1)
       /\ mem' = x3.m /\ last' = x3.last
       /\ faults' = IF Running THEN Failed \cap watched ELSE {}
       /\ note' = (Running /\
             \/ action = "idle" /\ prevAction = "resync"
             \/ /\ action = "idle" /\ prevAction = "recover"
                /\ \E s \in Slots : s \notin DOMAIN reached \/ Word(s) # "insync"
             \/ Failed \cap watched # {})
       /\ known' = Running
       /\ prevAction' = action
       /\ pc' = "sync"
       /\ UNCHANGED <<vol, kernelVars, truthVars, events, watched, mgrVars, stored, absent, missing>>

\* sync_metadata.
Sync ==
    /\ pc \in {"sync", "flush"}
    /\ stored' = mem
    /\ pc' = IF pc = "sync" THEN "act" ELSE "wait"
    /\ UNCHANGED <<vol, kernelVars, truthVars, events, keptVars, passVars, mgrVars, mem, absent, missing>>

AfterWrite ==
    CASE next = "active" /\ arr = "pending" -> {"active"}
      [] next = "active" /\ arr \in {"readonly", "auto"} -> {"clean", "active"}
      [] next = "clean" /\ arr \in {"idle", "active"} -> {"clean", arr}
      [] next = "auto" /\ arr = "readonly" -> {"auto"}
      [] OTHER -> {arr}

Act ==
    /\ pc = "act" /\ next # "off"
    /\ arr' \in AfterWrite
    /\ dev' = [s \in Slots |-> IF s \in faults THEN None ELSE dev[s]]
    /\ watched' = watched \ faults
    /\ checkDegraded' = (checkDegraded \/ note)
    /\ next' = None /\ faults' = {} /\ note' = FALSE
    /\ pc' = "wait"
    /\ UNCHANGED <<vol, action, pos, synced, truthVars, events, known, prevAction, last,
                   complete, reached, update, mem, stored, absent, missing>>

\* The array was stopped: mdmon has nothing left to look after.
Deactivate ==
    /\ pc = "act" /\ next = "off"
    /\ NoMdmon
    /\ UNCHANGED <<vol, kernelVars, truthVars, events, stored, absent>>

-----------------------------------------------------------------------------
(* Spares: the manager chooses, the monitor records.                        *)

\* imsm_readd, imsm_add_spare, for the slots in turn.
Candidates(s, taken) ==
    LET again == MapX(mem)[s].disk
        free  == {d \in Disks \ taken : ~Gone(mem, d) /\ d # again
                                       /\ \A t \in watched : dev[t].disk # d}
    IN IF ~Gone(mem, again) THEN {again} ELSE free

Chosen ==
    FoldLeft(LAMBDA c, s : LET from == Candidates(s, {c[t] : t \in DOMAIN c})
                           IN IF from = {} THEN c
                              ELSE [t \in DOMAIN c \cup {s} |-> IF t = s THEN Min(from) ELSE c[t]],
             [t \in {} |-> 0], SetToSortSeq(Slots \ watched, <))

\* imsm_activate_spare, after manage_member found the array idle.
Allowed ==
    /\ faults = {}
    /\ ~IsRebuilding(mem)
    /\ MapState(mem, vol.members - Cardinality(watched)) = "degraded"
    /\ mem.state0 # "uninitialized"

ActivateSpare ==
    /\ pc # "dead" /\ Running /\ checkDegraded /\ action = "idle" /\ update = None
    /\ checkDegraded' = FALSE
    /\ IF Allowed /\ DOMAIN Chosen # {}
       THEN /\ action' = "frozen"
            /\ dev' = [s \in Slots |-> IF s \in DOMAIN Chosen
                                       THEN [disk |-> Chosen[s], role |-> "spare", offset |-> 0]
                                       ELSE dev[s]]
            /\ update' = [disks |-> Chosen, last |-> last, handled |-> FALSE]
       ELSE UNCHANGED <<action, dev, update>>
    /\ UNCHANGED <<vol, arr, pos, synced, truthVars, events, pc, keptVars, passVars, mem,
                   stored, absent, missing>>

\* apply_update_activate_spare, for one slot; the second map is made once.
WithSpare(m, s, d, first) ==
    LET victim == MapX(m)[s].disk
        others == Cardinality({t \in Slots \ {s} : Gone(m, MapX(m)[t].disk)})
        to     == MapState(m, others)
        begun  == IF first THEN Migrate([m EXCEPT !.state0 = "degraded"], to, "rebuild")
                  ELSE [m EXCEPT !.state0 = to]
    IN [begun EXCEPT !.ord0[s] = Ord(d, FALSE), !.ord1[s] = Ord(d, TRUE),
                     !.failed = IF victim = d THEN @ ELSE @ \cup {victim}]

ApplyUpdate ==
    LET slots == SetToSortSeq(DOMAIN update.disks, LAMBDA s, t : s > t)
    IN /\ pc = "wait" /\ update # None /\ ~update.handled
       /\ mem' = FoldLeft(LAMBDA m, s : WithSpare(m, s, update.disks[s], s = slots[1]), mem, slots)
       /\ update' = [update EXCEPT !.handled = TRUE]
       /\ pc' = "flush"
       /\ UNCHANGED <<vol, kernelVars, truthVars, events, keptVars, passVars, checkDegraded,
                      stored, absent, missing>>

\* replace_array with the copy made before, and "recover".
Publish ==
    /\ pc \in {"wait", "flush"} /\ update # None /\ update.handled
    /\ update' = None
    /\ watched' = watched \cup (DOMAIN update.disks \cap {s \in Slots : dev[s] # None})
    /\ reached' = [s \in watched' |-> IF s \in watched THEN reached[s] ELSE 0]
    /\ last' = update.last
    /\ IF Running
       THEN /\ prevAction' = "recover"
            /\ arr' = IF arr = "auto" THEN "clean" ELSE arr
            /\ IF arr # "readonly" /\ Spared # {} THEN Recovers
               ELSE action' = "idle" /\ UNCHANGED pos
       ELSE UNCHANGED <<action, pos, prevAction, arr>>
    /\ UNCHANGED <<vol, dev, synced, truthVars, events, pc, known, complete, passVars,
                   checkDegraded, mem, stored, absent, missing>>

-----------------------------------------------------------------------------
Init ==
    /\ vol \in Volumes
    /\ arr = "off" /\ dev = [s \in Slots |-> None]
    /\ action = "idle" /\ pos = 0 /\ synced = 0
    /\ stored \in {Fresh, [Fresh EXCEPT !.state0 = "uninitialized"]}
    /\ good = [d \in Disks |-> IF d \in Slots THEN Size ELSE 0]
    /\ torn = [g \in Groups |-> IF stored.state0 = "normal" THEN Size ELSE 0]
    /\ events = vol.events
    /\ pc = "dead"
    /\ known = FALSE /\ prevAction = "idle" /\ last = 0 /\ complete = FALSE
    /\ reached = <<>> /\ watched = {}
    /\ next = None /\ faults = {} /\ note = FALSE
    /\ checkDegraded = FALSE /\ update = None
    /\ mem = None /\ missing = {} /\ absent = {}

Monitor == Decide \/ Sync \/ Act \/ Deactivate \/ ApplyUpdate
Manager == ActivateSpare \/ Publish
Kernel  == StartSync \/ Progress \/ SyncEnds

Next ==
    \/ WriteArrives \/ Write \/ GoIdle
    \/ \E s \in Slots : Fail(s)
    \/ Kernel \/ Stop \/ LosePower \/ Kill
    \/ \E away \in {{}} \cup {{d} : d \in Disks} : Assemble(away)
    \/ MdmonStart \/ Monitor \/ Manager

Spec == Init /\ [][Next]_vars

\* Every step of the monitor changes pc, and it always has one; every look of
\* the manager for a spare clears check_degraded.
MonitorTurn == pc # "dead" /\ pc' \in {"wait", "flush", "sync", "act", "dead"} \ {pc}
ManagerLook == /\ pc # "dead" /\ Running /\ checkDegraded /\ action = "idle" /\ update = None
               /\ checkDegraded' = FALSE
Fairness == /\ WF_vars(Kernel) /\ WF_vars(MdmonStart) /\ WF_pc(MonitorTurn)
            /\ WF_checkDegraded(ManagerLook) /\ SF_vars(Publish)
FairSpec == Spec /\ Fairness

-----------------------------------------------------------------------------
\* A disk that the array reads from holds everything that was written.
NoStaleUsed == \A s \in InSync : good[dev[s].disk] = Size

\* Where the members may disagree, a resync is still due.
NoTornForgotten == Running => \A g \in Groups : Whole(g) => synced <= torn[g]

\* A rebuild that was recorded is ended, unless mdmon is killed.
Unkilled   == pc # "dead" \/ arr = "off" \/ (arr = "readonly" /\ action = "idle")
RebuildEnds == []Unkilled => (stored.migr = "rebuild" ~> (stored.migr # "rebuild" \/ arr = "off"))
=============================================================================
