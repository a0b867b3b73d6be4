--------------------------- MODULE MonitorThread ---------------------------
(***************************************************************************)
(* The monitor thread of mdmon (monitor.c) looking after one redundant     *)
(* member array of a DDF container, together with the part of the DDF      *)
(* handler it calls (super-ddf.c), the part of the manager that hands it   *)
(* the array (manage_new), and the crashes both must survive.              *)
(*                                                                         *)
(* One pass of wait_and_act reads each sysfs attribute in turn, decides,   *)
(* writes the metadata once (sync_metadata), and only then writes to       *)
(* sysfs.  Every read and write is a step of its own: the kernel, the      *)
(* administrator and a crash may come between any two of them.             *)
(***************************************************************************)
EXTENDS MdArray

CONSTANT MayBeMissing  \* slots whose disk may be absent when the host boots

ASSUME MissingAssumption == MayBeMissing \subseteq Slot

VARIABLES
    pc,              \* where the monitor thread is; "dead" without mdmon
    sigterm,         \* SIGTERM was received
    dirtyArrays,     \* dirty_arrays # 0
    open,            \* the array is on container->arrays with ->container set
    watched,         \* slots whose mdinfo has state_fd >= 0
    todo,            \* slots left to visit in the loop over info.devs
    currState, prevState, nextState,
    currAction, prevAction,
    resyncComplete,  \* is_resync_complete(&a->info)
    completed,       \* sync_completed as read in this pass
    lastCheckpoint,
    currDev,         \* mdi->curr_state of each slot, "none" when it reads 0
    unblock, remove, \* slots with DS_UNBLOCK, DS_REMOVE in next_state
    noteDegraded,    \* read_and_act's local check_degraded
    checkDegraded,   \* a->check_degraded, for the manager
    mem,             \* the metadata in mdmon's memory
    disk,            \* the metadata on the disks
    missing          \* slots whose recorded disk is not in the container

passVars == <<todo, currState, nextState, currAction, resyncComplete, completed,
              currDev, unblock, remove, noteDegraded>>
keptVars == <<open, watched, prevState, prevAction, lastCheckpoint, checkDegraded>>
ctlVars  == <<sigterm, dirtyArrays>>
metaVars == <<mem, disk, missing>>
monVars  == <<pc, ctlVars, keptVars, passVars, metaVars>>
vars     == <<mdVars, monVars>>

\* What the DDF metadata says of one virtual disk: not inconsistent, fully
\* initialised, degraded, and the state of the physical disk of each slot.
DiskStates == {"online", "failed", "rebuilding"}
Metadata   == [clean : BOOLEAN, full : BOOLEAN, degraded : BOOLEAN,
               dev : [Slot -> DiskStates]]

StateWords  == (ArrayStates \ {"none"}) \cup {"bad_word"}
ActionWords == (SyncActions \ {"frozen"}) \cup {"bad_action"}
DevWords    == {"in_sync", "spare", "faulty", "faulty_blocked", "none"}
Pcs == {"wait", "read_state", "read_action", "read_resync", "read_completed",
        "read_devs", "sync", "write_state", "write_devs", "dead"}

TypeOK ==
    /\ MdTypeOK
    /\ pc \in Pcs
    /\ sigterm \in BOOLEAN /\ dirtyArrays \in BOOLEAN
    /\ open \in BOOLEAN
    /\ watched \subseteq Slot /\ todo \subseteq Slot
    /\ currState \in StateWords /\ prevState \in StateWords /\ nextState \in StateWords
    /\ currAction \in ActionWords /\ prevAction \in ActionWords
    /\ resyncComplete \in BOOLEAN
    /\ completed \in 0..Size /\ lastCheckpoint \in 0..Size
    /\ currDev \in [Slot -> DevWords]
    /\ unblock \subseteq Slot /\ remove \subseteq Slot
    /\ noteDegraded \in BOOLEAN /\ checkDegraded \in BOOLEAN
    /\ mem \in Metadata /\ disk \in Metadata
    /\ missing \subseteq Slot

-----------------------------------------------------------------------------
(* Reading sysfs.  A file descriptor opened on an array that has since     *)
(* disappeared reads nothing; an unknown word reads as the "bad" one.      *)

StateWord  == IF arrayState = "none" THEN "bad_word" ELSE arrayState
ActionWord == IF arrayState \in Stopped \/ syncAction = "frozen"
              THEN "bad_action" ELSE syncAction
\* Mutant of DevWord: the word "blocked" is not looked for.
DevWordUnblocked(s) == IF s \notin watched \/ device[s] = "removed" THEN "none"
                       ELSE device[s]
DevWord(s) == CASE s \notin watched \/ device[s] = "removed" -> "none"
                [] device[s] = "faulty" /\ s \in blocked -> "faulty_blocked"
                [] OTHER -> device[s]

Read(from, to) ==
    /\ pc = from
    /\ pc' = to
    /\ UNCHANGED <<mdVars, ctlVars, keptVars, metaVars>>

ReadState ==
    /\ Read("read_state", "read_action")
    /\ currState' = StateWord
    /\ nextState' = "bad_word"
    /\ UNCHANGED <<todo, currAction, resyncComplete, completed,
                   currDev, unblock, remove, noteDegraded>>

ReadAction ==
    /\ Read("read_action", "read_resync")
    /\ currAction' = ActionWord
    /\ UNCHANGED <<todo, currState, nextState, resyncComplete, completed,
                   currDev, unblock, remove, noteDegraded>>

\* resync_start is not read in state "clear", and keeps its value when it
\* cannot be read; if the array turned clear meanwhile it reads "0".
ReadResync ==
    /\ Read("read_resync", "read_completed")
    /\ resyncComplete' =
           IF currState = "clear" \/ arrayState = "none" THEN resyncComplete
           ELSE arrayState # "clear" /\ resyncDone
    /\ UNCHANGED <<todo, currState, nextState, currAction, completed,
                   currDev, unblock, remove, noteDegraded>>

\* Mutant of ReadCompleted: reads one past the position reported.
ReadCompletedPast ==
    /\ Read("read_completed", "read_devs")
    /\ completed' = syncCompleted + 1
    /\ todo' = Slot
    /\ UNCHANGED <<currState, nextState, currAction, resyncComplete,
                   currDev, unblock, remove, noteDegraded>>

ReadCompleted ==
    /\ Read("read_completed", "read_devs")
    /\ completed' = syncCompleted
    /\ todo' = Slot
    /\ UNCHANGED <<currState, nextState, currAction, resyncComplete,
                   currDev, unblock, remove, noteDegraded>>

ReadDev(s) ==
    /\ s \in todo
    /\ Read("read_devs", "read_devs")
    /\ currDev' = [currDev EXCEPT ![s] = DevWord(s)]
    /\ todo' = todo \ {s}
    /\ UNCHANGED <<currState, nextState, currAction, resyncComplete, completed,
                   unblock, remove, noteDegraded>>

-----------------------------------------------------------------------------
(* Deciding (read_and_act from the end of its reads to sync_metadata).     *)
(* The metadata changes only in memory here.                               *)

AtMostInactive == {"clear", "inactive"}
\* Mutant of AtMostClean: "<= active" instead of "<= clean".
AtMostActive   == AtMostInactive \cup Readable \cup {"clean", "active"}
AtMostClean    == AtMostInactive \cup Readable \cup {"clean"}
AboveReshape   == {"resync", "recover", "bad_action"} \cup Checks

\* Mutant of Faulty: the test is for equality, not for the bit.
FaultyExactly == {s \in Slot : currDev[s] = "faulty"}
Faulty == {s \in Slot : currDev[s] \in {"faulty", "faulty_blocked"}}

\* Mutant of Deactivating: an array that vanished before it was read inactive.
DeactivatingIfRead == /\ currState \in AtMostInactive
                      /\ prevState \notin AtMostInactive
Deactivating == /\ currState \in AtMostInactive \cup {"bad_word"}
                /\ prevState \notin AtMostInactive
WelcomingNew == currState = "readonly" /\ ~roRequested
ResyncFinished  == ~Deactivating /\ currAction = "idle" /\ prevAction = "resync"
RecoverFinished == ~Deactivating /\ currAction = "idle" /\ prevAction = "recover"
ReadAutoFault == currState = "read_auto" /\ Faulty # {}
\* A position is far enough from the last checkpoint to be one.
CheckpointDue(position) == /\ position > lastCheckpoint
                           /\ position - lastCheckpoint > Size \div 16
Checkpoint == CheckpointDue(completed) /\ currAction \in AboveReshape

\* ddf_set_array_state is called once or several times; the last call decides
\* whether the virtual disk is inconsistent.
CallsSetArrayState ==
    \/ Deactivating \/ currState \in {"write_pending", "clean"} \/ WelcomingNew
    \/ ResyncFinished \/ ReadAutoFault \/ Checkpoint
MarkedFromState == Checkpoint \/ (ResyncFinished /\ ~ReadAutoFault)
\* Mutant of MarkedClean: write_pending does not mark the array dirty.
MarkedCleanEarly ==
    \/ MarkedFromState /\ currState \in AtMostClean
    \/ /\ ~MarkedFromState /\ ~ReadAutoFault
       /\ WelcomingNew => resyncComplete
MarkedClean ==
    \/ MarkedFromState /\ currState \in AtMostClean
    \/ /\ ~MarkedFromState /\ ~ReadAutoFault
       /\ currState # "write_pending"
       /\ WelcomingNew => resyncComplete

\* handle_missing, and ddf_set_disk for a failure and for the end of a recovery.
\* Mutant of FoundMissing: handle_missing is never called.
FoundNone == {}
FoundMissing == {s \in missing : WelcomingNew /\ mem.dev[s] = "online"}
DevAfter(s) ==
    IF s \in FoundMissing \cup Faulty THEN "failed"
    ELSE IF RecoverFinished /\ currDev[s] = "in_sync" /\ mem.dev[s] = "rebuilding"
         THEN "online"
    ELSE mem.dev[s]
StateRecomputed == \/ WelcomingNew /\ missing # {}
                   \/ Faulty # {}
                   \/ RecoverFinished /\ \E s \in Slot : currDev[s] # "none"
DegradedAfter == IF StateRecomputed THEN \E s \in Slot : DevAfter(s) # "online"
                 ELSE mem.degraded

\* Mutant of NextState: a pending write does not ask for "active".
NextStateNoWrite ==
    CASE Deactivating                 -> "clear"
      [] currState = "active_idle"    -> "clean"
      [] WelcomingNew                 -> IF resyncComplete THEN "read_auto" ELSE "active"
      [] OTHER                        -> "bad_word"

NextState ==
    CASE Deactivating                 -> "clear"
      [] currState = "write_pending"  -> "active"
      [] currState = "active_idle"    -> "clean"
      [] WelcomingNew                 -> IF resyncComplete THEN "read_auto" ELSE "active"
      [] ReadAutoFault                -> "active"
      [] OTHER                        -> "bad_word"

ArrayDirty == \/ currState \in {"write_pending", "active_idle", "active"}
              \/ currState = "readonly" /\ nextState = "active"

Decide ==
    /\ pc = "read_devs" /\ todo = {}
    /\ pc' = "sync"
    /\ mem' = [clean    |-> IF CallsSetArrayState THEN MarkedClean ELSE mem.clean,
               full     |-> IF CallsSetArrayState THEN resyncComplete ELSE mem.full,
               degraded |-> DegradedAfter,
               dev      |-> [s \in Slot |-> DevAfter(s)]]
    /\ nextState' = NextState
    /\ unblock' = {s \in Slot : currDev[s] = "faulty_blocked"}
    /\ remove' = IF currState \in AtMostInactive \cup {"readonly"} THEN {} ELSE Faulty
    /\ noteDegraded' = \/ ResyncFinished \/ Faulty # {}
                       \/ RecoverFinished /\ \E s \in Slot : currDev[s] # "in_sync"
    /\ checkDegraded' = \/ checkDegraded
                        \/ WelcomingNew /\ missing # {} /\ DegradedAfter # mem.degraded
    /\ lastCheckpoint' = IF completed >= Size THEN 0
                         ELSE IF completed > lastCheckpoint THEN completed
                         ELSE lastCheckpoint
    /\ UNCHANGED <<mdVars, ctlVars, open, watched, prevState, prevAction, todo,
                   currState, currAction, resyncComplete, completed, currDev,
                   disk, missing>>

-----------------------------------------------------------------------------
(* Acting: the metadata first, then array_state, then each device.         *)

SyncMetadata ==
    /\ pc = "sync"
    /\ pc' = "write_state"
    /\ disk' = mem
    /\ UNCHANGED <<mdVars, ctlVars, keptVars, passVars, mem, missing>>

WriteState ==
    /\ pc = "write_state"
    /\ pc' = "write_devs"
    /\ arrayState' \in AfterWrite(nextState)
    /\ todo' = watched
    /\ UNCHANGED <<syncAction, resyncDone, syncCompleted, device, blocked,
                   roRequested, stale, torn, ctlVars, keptVars, metaVars,
                   currState, nextState, currAction, resyncComplete, completed,
                   currDev, unblock, remove, noteDegraded>>

Unblock(s) ==
    /\ pc = "write_devs" /\ s \in todo \cap unblock
    /\ unblock' = unblock \ {s}
    /\ blocked' = blocked \ {s}
    /\ UNCHANGED <<pc, arrayState, syncAction, resyncDone, syncCompleted, device,
                   roRequested, stale, torn, ctlVars, keptVars, metaVars, todo,
                   currState, nextState, currAction, resyncComplete, completed,
                   currDev, remove, noteDegraded>>

\* The kernel may refuse a removal for a while (ARRAY_BUSY); a later pass retries.
Remove(s) ==
    /\ pc = "write_devs" /\ s \in todo \ unblock
    /\ todo' = todo \ {s}
    /\ \/ /\ s \in remove /\ device[s] = "faulty" /\ s \notin blocked
          /\ device' = [device EXCEPT ![s] = "removed"]
          /\ watched' = watched \ {s}
       \/ UNCHANGED <<device, watched>>
    /\ UNCHANGED <<pc, arrayState, syncAction, resyncDone, syncCompleted, blocked,
                   roRequested, stale, torn, ctlVars, metaVars, open, prevState,
                   prevAction, lastCheckpoint, checkDegraded, currState, nextState,
                   currAction, resyncComplete, completed, currDev, unblock,
                   remove, noteDegraded>>

\* The end of read_and_act and what wait_and_act does with its result.  An
\* array that was stopped is let go, and so is one found clean after SIGTERM.
FinishPass ==
    /\ pc = "write_devs" /\ todo = {}
    /\ pc' = "wait"
    /\ checkDegraded' = (checkDegraded \/ noteDegraded)
    /\ open' = ~(Deactivating \/ (sigterm /\ ~ArrayDirty))
    /\ dirtyArrays' = ArrayDirty
    /\ prevState' = currState
    /\ prevAction' = currAction
    /\ remove' = {} /\ noteDegraded' = FALSE /\ completed' = 0
    /\ UNCHANGED <<mdVars, sigterm, watched, lastCheckpoint, metaVars, todo, currState,
                   nextState, currAction, resyncComplete, currDev, unblock>>

-----------------------------------------------------------------------------
(* Waking up, and the life of the mdmon process.  pselect returns when an  *)
(* attribute changes or a timeout passes, so a pass may begin at any time. *)

Wake ==
    /\ pc = "wait" /\ open
    /\ pc' = "read_state"
    /\ UNCHANGED <<mdVars, ctlVars, keptVars, passVars, metaVars>>

\* A turn of the loop that finds no array to look at.
IdleTurn ==
    /\ pc = "wait" /\ ~open /\ dirtyArrays
    /\ dirtyArrays' = FALSE
    /\ UNCHANGED <<mdVars, pc, sigterm, keptVars, passVars, metaVars>>

SigTerm ==
    /\ "sigterm" \in Events
    /\ pc # "dead" /\ ~sigterm
    /\ sigterm' = TRUE
    /\ UNCHANGED <<mdVars, pc, dirtyArrays, keptVars, passVars, metaVars>>

\* What a process that is gone leaves behind: nothing but the disks.
Forget ==
    /\ pc' = "dead"
    /\ sigterm' = FALSE /\ dirtyArrays' = TRUE
    /\ open' = FALSE /\ watched' = {} /\ prevState' = "inactive"
    /\ prevAction' = "idle" /\ lastCheckpoint' = 0 /\ checkDegraded' = FALSE
    /\ todo' = {} /\ currState' = "inactive" /\ nextState' = "inactive"
    /\ currAction' = "idle" /\ resyncComplete' = FALSE /\ completed' = 0
    /\ currDev' = [s \in Slot |-> "none"] /\ unblock' = {} /\ remove' = {}
    /\ noteDegraded' = FALSE
    /\ mem' = disk /\ UNCHANGED disk

Exit ==
    /\ pc = "wait"
    /\ \/ ~open /\ arrayState \in Stopped
       \/ sigterm /\ ~dirtyArrays
    /\ Forget
    /\ UNCHANGED <<mdVars, missing>>

MdmonCrash ==
    /\ "kill" \in Events /\ pc # "dead"
    /\ Forget
    /\ UNCHANGED <<mdVars, missing>>

\* A new mdmon loads the metadata from the disks (mem = disk while dead).
MdmonStart ==
    /\ pc = "dead"
    /\ pc' = "wait"
    /\ UNCHANGED <<mdVars, ctlVars, keptVars, passVars, metaVars>>

\* manage_new and ddf_open_new: a device recorded as failed is made faulty,
\* unless the driver refuses because no other one is in sync.
Open ==
    /\ pc = "wait" /\ ~open /\ ~sigterm
    /\ arrayState \in Running
    /\ open' = TRUE
    /\ watched' = {s \in Slot : device[s] # "removed"}
    /\ prevState' = "inactive" /\ prevAction' = "idle" /\ lastCheckpoint' = 0
    /\ resyncComplete' = FALSE
    /\ checkDegraded' = (watched' # Slot)
    /\ LET broken == {s \in watched' : mem.dev[s] = "failed" /\ device[s] # "faulty"}
           failing == IF InSync \subseteq broken THEN {} ELSE broken
       IN  /\ device' = [s \in Slot |-> IF s \in failing THEN "faulty" ELSE device[s]]
           /\ blocked' = blocked \cup failing
    /\ UNCHANGED <<arrayState, syncAction, resyncDone, syncCompleted, roRequested,
                   stale, torn, pc, ctlVars, metaVars, todo, currState, nextState,
                   currAction, completed, currDev, unblock, remove, noteDegraded>>

-----------------------------------------------------------------------------
(* The host: a power failure, and the assembly of the array from the       *)
(* metadata (container_content_ddf and assemble_container_content).        *)

HostCrash ==
    /\ LosePower
    /\ Forget
    /\ missing' \in SUBSET MayBeMissing

Assemble ==
    /\ arrayState = "none" /\ ~open
    /\ device' = [s \in Slot |-> IF disk.dev[s] = "online" /\ s \notin missing
                                THEN "in_sync" ELSE "removed"]
    /\ \E s \in Slot : device'[s] = "in_sync"
    /\ arrayState' = "readonly"
    /\ resyncDone' = (disk.clean /\ disk.full)
    /\ UNCHANGED <<syncAction, syncCompleted, blocked, roRequested, stale, torn,
                   monVars>>

-----------------------------------------------------------------------------

Init ==
    /\ arrayState = "none" /\ syncAction = "idle" /\ syncCompleted = 0
    /\ device = [s \in Slot |-> "removed"] /\ blocked = {} /\ roRequested = FALSE
    /\ resyncDone = FALSE
    /\ pc = "dead" /\ sigterm = FALSE /\ dirtyArrays = TRUE
    /\ open = FALSE /\ watched = {} /\ todo = {}
    /\ currState = "inactive" /\ prevState = "inactive" /\ nextState = "inactive"
    /\ currAction = "idle" /\ prevAction = "idle"
    /\ resyncComplete = FALSE /\ completed = 0 /\ lastCheckpoint = 0
    /\ currDev = [s \in Slot |-> "none"] /\ unblock = {} /\ remove = {}
    /\ noteDegraded = FALSE /\ checkDegraded = FALSE
    /\ disk \in Metadata
    /\ disk.degraded = (\E s \in Slot : disk.dev[s] # "online")
    /\ mem = disk
    /\ stale = {s \in Slot : disk.dev[s] # "online"}
    /\ torn \in (IF disk.clean /\ disk.full THEN {FALSE} ELSE BOOLEAN)
    /\ missing \in SUBSET MayBeMissing

\* One pass of the monitor over the array.
PassStep ==
    \/ Wake \/ ReadState \/ ReadAction \/ ReadResync \/ ReadCompleted
    \/ \E s \in Slot : ReadDev(s)
    \/ Decide \/ SyncMetadata \/ WriteState
    \/ \E s \in Slot : Unblock(s) \/ Remove(s)
    \/ FinishPass

\* A check of an array that this pass read as read-auto started since, and does
\* not come to a checkpoint before the pass has read how far it is.
Leisurely ==
    \/ "quick" \in Events
    \/ ~(/\ pc \in {"read_action", "read_resync", "read_completed"}
         /\ currState = "read_auto" /\ syncAction \in Checks
         /\ syncCompleted' > syncCompleted /\ CheckpointDue(syncCompleted'))

Environment == MdNext /\ Leisurely /\ UNCHANGED monVars

Next ==
    \/ Environment
    \/ PassStep \/ IdleTurn \/ Open
    \/ SigTerm \/ Exit \/ MdmonCrash \/ MdmonStart
    \/ HostCrash \/ Assemble

Spec == Init /\ [][Next]_vars

\* Assembly starts mdmon if none is running; the monitor's loop never ends;
\* the manager looks at every array that /proc/mdstat reports.
Fairness == WF_vars(PassStep) /\ WF_vars(Open) /\ WF_vars(MdmonStart)
FairSpec == Spec /\ Fairness

-----------------------------------------------------------------------------
(* Safety.                                                                 *)

\* If the in-sync disks may disagree, the metadata on the disks says so, and
\* the next assembly resynchronises the array, whatever crashed and when.
NoTornClean == torn => ~(disk.clean /\ disk.full)

\* The array takes writes only while the disks say that it is dirty (or not
\* initialised): mdmon writes the metadata before it writes "active".
DirtyBeforeWrite ==
    arrayState \in {"active", "active_idle"} => ~(disk.clean /\ disk.full)

\* A disk that missed an acknowledged write is not recorded as online, so no
\* later assembly reads from it.
NoStaleOnline == \A s \in stale : disk.dev[s] # "online"

\* No disk that missed an acknowledged write is in sync in a running array,
\* over any sequence of failures, crashes, reboots and missing disks.
NoStaleInSync == stale \cap InSync = {}

\* A failed device is released (-blocked), so that writes go on without it,
\* only after the disks record it as failed.
FailureRecorded ==
    \A s \in Slot : device[s] = "faulty" /\ s \notin blocked => disk.dev[s] = "failed"

-----------------------------------------------------------------------------
(* Why the safety properties hold: the inductive invariant of the proofs   *)
(* in MonitorThreadProofs.                                                 *)

CleanFull(md) == md.clean /\ md.full

\* The disks lag behind memory only between deciding and sync_metadata.
DiskIsMem == pc # "sync" => disk = mem

\* A pass runs over an array that is open.
PassIsOpen == pc \notin {"wait", "dead"} => open

\* Without a manager handing out spares only a resync or a check can be running,
\* the one on an array that is not in step, the other on one that may be written.
OnlyResync ==
    /\ \A s \in Slot : device[s] # "spare"
    /\ syncAction \in {"idle", "resync"} \cup Checks
    /\ syncCompleted > 0 => syncAction # "idle"
    /\ syncAction = "resync" => ~resyncDone /\ arrayState \in Running
    /\ syncAction \in Checks => arrayState \in Writable

\* Neither the kernel nor a reader of resync_start takes a torn array for
\* one that is resynchronised.
TornIsKnown ==
    torn => /\ arrayState # "none" => ~resyncDone
            /\ ~resyncComplete
            /\ ~CleanFull(mem)

\* What the monitor read of the resync is out of date in one direction only, and
\* what it takes for a checkpoint of an array read as read-auto is a resync's.
ResyncReadIsOld ==
    /\ open /\ resyncComplete /\ arrayState \in Running => resyncDone
    /\ pc = "read_devs" /\ currState = "read_auto" /\ CheckpointDue(completed)
           => ~resyncComplete

\* A check came too late for the pass that read the array as read-auto.
CheckIsSlow ==
    /\ pc \in {"read_action", "read_resync", "read_completed"}
    /\ currState = "read_auto" /\ syncAction \in Checks
    => ~CheckpointDue(syncCompleted)

\* An array that takes writes was read as such, and is not clean in memory.
ActiveIsSeen ==
    arrayState \in {"active", "active_idle"} =>
        /\ ~CleanFull(mem)
        /\ pc \in {"read_action", "read_resync", "read_completed", "read_devs"}
               => currState \in {"active", "active_idle"}

\* The array is told to become active only once memory says it is dirty.
ActivatesDirty ==
    pc \in {"sync", "write_state"} /\ nextState = "active" => ~CleanFull(mem)

TornInv == /\ TypeOK /\ DiskIsMem /\ PassIsOpen /\ OnlyResync /\ TornIsKnown
           /\ ResyncReadIsOld /\ CheckIsSlow /\ ActiveIsSeen /\ ActivatesDirty
           /\ NoTornClean /\ DirtyBeforeWrite

\* Without spares to recover onto, a device that is recorded as bad stays so:
\* memory differs from the disks only in what failed since.
NoneRecovers == currAction # "recover" /\ prevAction # "recover"
FailedStays  == \A s \in Slot : mem.dev[s] \in {disk.dev[s], "failed"}

\* A device is released, and removed, for a failure that memory holds.
ActsOnRecorded == \A s \in unblock \cup remove : mem.dev[s] = "failed"

\* The empty slots of a running array are recorded as such, or their disk is
\* missing and the monitor has yet to welcome the array, which is read-only.
VacantRecorded(md) == \A s \in Slot : device[s] = "removed" => md.dev[s] # "online"
PastReadonly == {"read_auto"} \cup Writable
VacantKnown ==
    arrayState \in Running =>
        /\ \A s \in Slot :
               device[s] = "removed" => disk.dev[s] # "online" \/ s \in missing
        /\ arrayState \in PastReadonly => VacantRecorded(disk)
        /\ /\ pc \in {"read_action", "read_resync", "read_completed", "read_devs"}
           /\ currState \in PastReadonly
           => VacantRecorded(disk)
        /\ /\ pc \in {"sync", "write_state"}
           /\ nextState \in {"active", "clean", "read_auto"}
           => VacantRecorded(mem)

RecordInv == /\ TypeOK /\ DiskIsMem /\ PassIsOpen /\ OnlyResync
             /\ NoneRecovers /\ FailedStays /\ ActsOnRecorded /\ VacantKnown
             /\ FailureRecorded /\ NoStaleOnline /\ NoStaleInSync

-----------------------------------------------------------------------------
(* What a step may never do.                                               *)

\* Manage_ro changes metadata_version "so that mdmon doesn't undo our change".
KeepsExplicitReadonly ==
    [][arrayState = "readonly" /\ roRequested => arrayState' \in {"readonly"} \cup Stopped]_vars

\* read_and_act does not read resync_start in state "clear", where it "may
\* wrongly be set to 0": a completed resync stays recorded as complete.
ResyncNotForgotten == [][disk.full /\ resyncDone => disk'.full]_vars

\* "When terminating stop manipulating the array after it is clean": a running
\* array that the monitor lets go of on SIGTERM is recorded as clean.
LetsGoWhenClean ==
    [][sigterm /\ FinishPass /\ open /\ ~open' /\ arrayState \in Running => disk.clean]_vars

-----------------------------------------------------------------------------
(* Liveness.                                                               *)

\* A write waiting for mdmon is let through (or the array is stopped).
WritesResume == (arrayState = "write_pending") ~> (arrayState # "write_pending")

\* A failed device does not hold up writes for ever.
FailuresReleased == \A s \in Slot : (s \in blocked) ~> (s \notin blocked)

\* A stopped array is recorded as clean, and mdmon lets it go.
StopRecorded == (open /\ arrayState = "none") ~> (~open /\ disk.clean)
=============================================================================
