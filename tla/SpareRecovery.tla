--------------------------- MODULE SpareRecovery ---------------------------
(***************************************************************************)
(* The manager thread replacing a failed device (manage_member in          *)
(* managemon.c, activate_spare and process_update in super-ddf.c), run     *)
(* together with the monitor thread of MonitorThread.                      *)
(*                                                                         *)
(* The manager never touches the metadata or the structure the monitor     *)
(* reads.  It freezes the array, adds the spare, queues a metadata update, *)
(* waits for the monitor to process it, hands over a duplicate of the      *)
(* active_array that knows the new device (replace_array), and starts the  *)
(* recovery.  The duplicate was taken before the wait.                     *)
(***************************************************************************)
EXTENDS MonitorThread

CONSTANT MaxSpares   \* spare disks in the container

ASSUME SparesAssumption == MaxSpares \in Nat

VARIABLES mgr,       \* where manage_member is
          mgrSlots,  \* the slots newdev is for
          updateQ,   \* the conf update: "none", "queued", "handled"
          unsynced,  \* processed, but sync_metadata has not run yet
          dup,       \* what duplicate_aa copied
          published, \* the duplicate heads the list with ->replaces set
          spares     \* spare disks left

mgrVars == <<mgr, mgrSlots, updateQ, unsynced, dup, published, spares>>
allVars == <<vars, mgrVars>>

Duplicates == [watched : SUBSET Slot, prevState : StateWords,
               prevAction : ActionWords, lastCheckpoint : 0..Size]

SpareTypeOK ==
    /\ TypeOK
    /\ mgr \in {"idle", "freeze", "add", "waiting", "recover", "mark"}
    /\ mgrSlots \subseteq Slot
    /\ updateQ \in {"none", "queued", "handled"}
    /\ unsynced \in BOOLEAN
    /\ dup \in Duplicates
    /\ published \in BOOLEAN
    /\ spares \in 0..MaxSpares

NoDuplicate == [watched |-> {}, prevState |-> "inactive", prevAction |-> "idle",
                lastCheckpoint |-> 0]

SpareInit ==
    /\ Init
    /\ mgr = "idle" /\ mgrSlots = {} /\ updateQ = "none" /\ unsynced = FALSE
    /\ dup = NoDuplicate /\ published = FALSE /\ spares = MaxSpares

-----------------------------------------------------------------------------
(* The manager thread.                                                     *)

\* ddf_activate_spare is asked when the flag is set, the array is not frozen
\* and no update is under way.
AsksForSpare ==
    /\ mgr = "idle" /\ pc # "dead" /\ updateQ = "none"
    /\ open /\ ~published /\ checkDegraded
    /\ ~roRequested /\ arrayState \in Running /\ syncAction = "idle"

Vacant == Slot \ watched
\* Mutant of CanReplace: wants one spare more than it needs.
CanReplaceGreedy == /\ \A s \in watched : currDev[s] \notin {"faulty", "faulty_blocked"}
                    /\ watched # {} /\ Vacant # {} /\ spares > Cardinality(Vacant)
CanReplace == /\ \A s \in watched : currDev[s] \notin {"faulty", "faulty_blocked"}
              /\ watched # {} /\ Vacant # {} /\ spares > 0

NoSpare ==
    /\ AsksForSpare /\ ~CanReplace
    /\ checkDegraded' = FALSE
    /\ UNCHANGED <<mdVars, pc, ctlVars, passVars, metaVars, open, watched, prevState,
                   prevAction, lastCheckpoint, mgrVars>>

\* As many vacant slots as there are spares get one; the array is duplicated.
ActivateSpare ==
    /\ AsksForSpare /\ CanReplace
    /\ checkDegraded' = FALSE
    /\ \E S \in (SUBSET Vacant) \ {{}} :
          /\ Cardinality(S) = spares \/ (S = Vacant /\ Cardinality(S) <= spares)
          /\ mgrSlots' = S
          /\ spares' = spares - Cardinality(S)
    /\ dup' = [watched |-> watched, prevState |-> prevState,
               prevAction |-> prevAction, lastCheckpoint |-> lastCheckpoint]
    /\ mgr' = "freeze"
    /\ UNCHANGED <<mdVars, pc, ctlVars, passVars, metaVars, open, watched, prevState,
                   prevAction, lastCheckpoint, updateQ, unsynced, published>>

\* Writing "frozen" interrupts what runs; it fails once the array is stopped.
Freeze ==
    /\ mgr = "freeze"
    /\ mgr' = "add"
    /\ IF arrayState \in Stopped THEN UNCHANGED <<syncAction, syncCompleted>>
       ELSE syncAction' = "frozen" /\ syncCompleted' = 0
    /\ UNCHANGED <<arrayState, resyncDone, device, blocked, roRequested, stale, torn,
                   monVars, mgrSlots, updateQ, unsynced, dup, published, spares>>

\* sysfs_add_disk for each of them, of which the driver may refuse some; the
\* update is queued for them all.
AddSpares ==
    /\ mgr = "add"
    /\ mgr' = "waiting"
    /\ \E refused \in SUBSET mgrSlots :
          /\ "badspare" \in Events \/ refused = {}
          /\ LET added == IF arrayState \in Stopped THEN {} ELSE mgrSlots \ refused
             IN /\ device' = [s \in Slot |-> IF s \in added THEN "spare" ELSE device[s]]
                /\ dup' = [dup EXCEPT !.watched = @ \cup added]
    /\ updateQ' = "queued"
    /\ UNCHANGED <<arrayState, syncAction, resyncDone, syncCompleted, blocked, roRequested,
                   stale, torn, monVars, mgrSlots, unsynced, published, spares>>

\* Mutant of Publish: nobody starts the recovery.
PublishOnly ==
    /\ mgr = "waiting" /\ updateQ = "handled"
    /\ updateQ' = "none"
    /\ published' = TRUE
    /\ mgr' = "idle"
    /\ UNCHANGED <<vars, mgrSlots, unsynced, dup, spares>>

\* replace_array, once the update has left the queue.
Publish ==
    /\ mgr = "waiting" /\ updateQ = "handled"
    /\ updateQ' = "none"
    /\ published' = TRUE
    /\ mgr' = "recover"
    /\ UNCHANGED <<vars, mgrSlots, unsynced, dup, spares>>

\* Writing "recover" unfreezes the array and starts the recovery if the array
\* may write; it ends read-auto.  The write fails once the array is stopped.
StartRecovery ==
    /\ mgr = "recover"
    /\ IF arrayState \in Stopped
       THEN /\ mgr' = "idle"
            /\ UNCHANGED <<arrayState, syncAction>>
       ELSE /\ mgr' = "mark"
            /\ syncAction' = IF arrayState # "readonly" /\ Spares # {}
                             THEN "recover" ELSE "idle"
            /\ arrayState' = IF arrayState = "read_auto" THEN "clean" ELSE arrayState
    /\ UNCHANGED <<resyncDone, syncCompleted, device, blocked, roRequested, stale,
                   torn, monVars, mgrSlots, updateQ, unsynced, dup, published, spares>>

\* newa->prev_action = recover, in the structure the monitor may be using.
MarkRecover ==
    /\ mgr = "mark"
    /\ mgr' = "idle"
    /\ IF published THEN dup' = [dup EXCEPT !.prevAction = "recover"] /\ UNCHANGED prevAction
                    ELSE prevAction' = "recover" /\ UNCHANGED dup
    /\ UNCHANGED <<mdVars, pc, ctlVars, passVars, metaVars, open, watched, prevState,
                   lastCheckpoint, checkDegraded, mgrSlots, updateQ, unsynced,
                   published, spares>>

-----------------------------------------------------------------------------
(* The monitor's side.  The update is processed right after pselect; the   *)
(* manager may see it handled before sync_metadata has written it.         *)

\* What ddf_process_conf_update makes of a slot that gets a new disk.
\* Mutant of NewDiskState: the new disk counts as good at once.
NewDiskStateOnline == "online"
NewDiskState == IF mem.degraded THEN "rebuilding" ELSE "online"

ProcessUpdate ==
    /\ pc = "wait" /\ updateQ = "queued" /\ ~unsynced
    /\ mem' = [mem EXCEPT !.dev = [s \in Slot |->
                  IF s \notin mgrSlots THEN mem.dev[s]
                  ELSE NewDiskState]]
    /\ missing' = missing \ mgrSlots
    /\ updateQ' = "handled"
    /\ unsynced' = TRUE
    /\ UNCHANGED <<mdVars, pc, ctlVars, keptVars, passVars, disk, mgr, mgrSlots, dup,
                   published, spares>>

\* From now on the slot's recorded disk is the spare, which holds no data yet.
SyncUpdate ==
    /\ unsynced
    /\ unsynced' = FALSE
    /\ disk' = mem
    /\ stale' = stale \cup {s \in mgrSlots : device[s] # "in_sync"}
    /\ mgrSlots' = {}
    /\ UNCHANGED <<arrayState, syncAction, resyncDone, syncCompleted, device, blocked,
                   roRequested, torn, pc, ctlVars, keptVars, passVars, mem, missing,
                   mgr, updateQ, dup, published, spares>>

\* The monitor meets the duplicate, unlinks the original, and carries on with
\* the duplicate as it was copied.
PickUp ==
    /\ pc = "wait" /\ published /\ ~unsynced
    /\ published' = FALSE
    /\ pc' = "read_state"
    /\ open' = TRUE
    /\ watched' = dup.watched /\ prevState' = dup.prevState
    /\ prevAction' = dup.prevAction /\ lastCheckpoint' = dup.lastCheckpoint
    /\ checkDegraded' = FALSE
    /\ dup' = NoDuplicate
    /\ UNCHANGED <<mdVars, ctlVars, passVars, metaVars, mgr, mgrSlots, updateQ,
                   unsynced, spares>>

Dies(A) ==
    /\ A
    /\ mgr' = "idle" /\ mgrSlots' = {} /\ updateQ' = "none" /\ unsynced' = FALSE
    /\ dup' = NoDuplicate /\ published' = FALSE
    /\ UNCHANGED spares

MonitorStep ==
    \/ ProcessUpdate \/ SyncUpdate \/ PickUp
    \/ /\ ~unsynced /\ (pc = "wait" => updateQ # "queued" /\ ~published)
       /\ PassStep
       /\ UNCHANGED mgrVars
    \/ ~unsynced /\ IdleTurn /\ UNCHANGED mgrVars

ManagerStep ==
    \/ NoSpare \/ ActivateSpare \/ Freeze \/ AddSpares \/ Publish \/ StartRecovery \/ MarkRecover
    \/ mgr = "idle" /\ ~published /\ Open /\ UNCHANGED mgrVars

SpareNext ==
    \/ MonitorStep \/ ManagerStep
    \/ (Environment \/ SigTerm \/ MdmonStart) /\ UNCHANGED mgrVars
    \/ ~published /\ mgr = "idle" /\ Assemble /\ UNCHANGED mgrVars
    \/ ~published /\ ~unsynced /\ Dies(Exit)
    \/ Dies(MdmonCrash) \/ Dies(HostCrash)

SpareSpec == SpareInit /\ [][SpareNext]_allVars

SpareFairness == /\ WF_allVars(MonitorStep) /\ WF_allVars(ManagerStep)
                 /\ WF_allVars(MdmonStart /\ UNCHANGED mgrVars)

-----------------------------------------------------------------------------

\* "Recovery completes ... mark metadata if in_sync": a device that finished
\* its recovery is recorded online, or fails, or the array stops.
RecoveryRecorded ==
    \A s \in Slot :
       (device[s] = "in_sync" /\ disk.dev[s] = "rebuilding")
           ~> (device[s] # "in_sync" \/ disk.dev[s] = "online")

\* An array frozen for a spare is thawed again.
Thawed == (syncAction = "frozen") ~> (syncAction # "frozen")

\* activate_spare finds nothing to do because "array not degraded" only if no
\* slot is empty.
DegradedIsSeen ==
    [][NoSpare /\ watched = Slot => \A s \in Slot : device[s] # "removed"]_allVars

\* A degraded array that takes writes gets a spare as long as there is one.
SpareIsUsed ==
    (arrayState \in Writable /\ spares > 0 /\ \E s \in Slot : device[s] = "removed")
        ~> (spares = 0 \/ \A s \in Slot : device[s] # "removed")
=============================================================================
