------------------------------ MODULE MdArray ------------------------------
(***************************************************************************)
(* The kernel's half of one redundant member array whose metadata is       *)
(* external: the md driver behind the sysfs files array_state,             *)
(* sync_action, resync_start, sync_completed and dev-X/state that mdmon    *)
(* reads and writes.  The driver is not part of this repository; it is     *)
(* modelled from the way monitor.c, managemon.c and Manage.c drive it.     *)
(*                                                                         *)
(* Two variables record the truth about the data, which neither the kernel *)
(* nor mdmon can see directly: a slot is stale when the disk recorded for  *)
(* it lacks a write that was acknowledged, and the array is torn when the  *)
(* in-sync disks may disagree because a crash interrupted a write.         *)
(***************************************************************************)
EXTENDS Naturals, FiniteSets

CONSTANTS Slot,   \* the raid slots of the array
          Size,   \* the component size, in units of sync progress
          Events  \* what may happen besides I/O: "fail" (a device), "readonly" and
                  \* "stop" (the administrator uses mdadm --readonly, --stop),
                  \* "check" (mdadm --action=check or repair), "powerloss", "kill"
                  \* (mdmon is killed), "sigterm" (it is told to terminate)
                  \* "quick": a check that is asked for while the monitor reads the
                  \* attributes gets through a sixteenth of the array before it has
                  \* read them all
                  \* "badspare": the driver refuses a spare

ASSUME SlotAssumption == IsFiniteSet(Slot) /\ Slot # {}
ASSUME SizeAssumption == Size \in Nat \ {0}
ASSUME EventsAssumption ==
    Events \subseteq {"fail", "readonly", "stop", "check", "powerloss", "kill", "sigterm",
                      "quick", "badspare"}

VARIABLES arrayState,     \* sysfs array_state
          syncAction,     \* sysfs sync_action
          resyncDone,     \* resync_start reads "none"
          syncCompleted,  \* sysfs sync_completed
          device,         \* the state of the device in each slot
          blocked,        \* slots whose device holds writes until "-blocked"
          roRequested,    \* metadata_version reads "external:-..."
          stale,          \* slots whose recorded disk lacks an acknowledged write
          torn            \* the in-sync disks may disagree

mdVars == <<arrayState, syncAction, resyncDone, syncCompleted, device,
            blocked, roRequested, stale, torn>>

\* The driver never shows "suspended", and shows "broken" only of an array that
\* has lost more disks than it can do without.
Stopped  == {"none", "clear", "inactive"}
Readable == {"readonly", "read_auto"}
Writable == {"clean", "write_pending", "active", "active_idle"}
Running  == Readable \cup Writable

ArrayStates  == Stopped \cup Running
Checks       == {"check", "repair"}
SyncActions  == {"idle", "resync", "recover", "frozen"} \cup Checks
DeviceStates == {"in_sync", "spare", "faulty", "removed"}

InSync == {s \in Slot : device[s] = "in_sync"}
Spares == {s \in Slot : device[s] = "spare"}

MdTypeOK ==
    /\ arrayState \in ArrayStates
    /\ syncAction \in SyncActions
    /\ resyncDone \in BOOLEAN
    /\ syncCompleted \in 0..Size
    /\ device \in [Slot -> DeviceStates]
    /\ blocked \subseteq Slot
    /\ roRequested \in BOOLEAN
    /\ stale \subseteq Slot
    /\ torn \in BOOLEAN

-----------------------------------------------------------------------------
(* Writes.  A write to a clean array makes it write-pending and waits for  *)
(* mdmon; a write to an array already marked active proceeds, unless a     *)
(* failed device still blocks it.                                          *)

WriteArrives ==
    /\ arrayState \in {"clean", "read_auto", "active_idle"}
    /\ arrayState' = IF arrayState = "active_idle" THEN "active" ELSE "write_pending"
    /\ UNCHANGED <<syncAction, resyncDone, syncCompleted, device, blocked,
                   roRequested, stale, torn>>

WriteCompletes ==
    /\ arrayState = "active"
    /\ blocked = {}
    /\ stale' = stale \cup {s \in Slot : device[s] \in {"faulty", "removed"}}
    /\ UNCHANGED <<arrayState, syncAction, resyncDone, syncCompleted, device,
                   blocked, roRequested, torn>>

\* The safe-mode timer: no write has been outstanding for safe_mode_delay.
GoIdle ==
    /\ arrayState = "active"
    /\ blocked = {}
    /\ arrayState' = "active_idle"
    /\ UNCHANGED <<syncAction, resyncDone, syncCompleted, device, blocked,
                   roRequested, stale, torn>>

-----------------------------------------------------------------------------
(* Device failures.  The last in-sync device is never failed by the        *)
(* driver.  With external metadata a failed device starts out blocked; a   *)
(* sync thread that was running stops.                                     *)

Fail(s) ==
    /\ "fail" \in Events
    /\ arrayState \in Running
    /\ device[s] \in {"in_sync", "spare"}
    /\ InSync \ {s} # {}
    /\ device' = [device EXCEPT ![s] = "faulty"]
    /\ blocked' = blocked \cup {s}
    /\ syncAction' = IF syncAction = "frozen" THEN "frozen" ELSE "idle"
    /\ syncCompleted' = 0
    /\ UNCHANGED <<arrayState, resyncDone, roRequested, stale, torn>>

-----------------------------------------------------------------------------
(* The sync thread: recovery onto a spare goes before resync.              *)

StartSync ==
    /\ arrayState \in Writable
    /\ syncAction = "idle"
    /\ \/ Spares # {} /\ syncAction' = "recover"
       \/ Spares = {} /\ ~resyncDone /\ syncAction' = "resync"
    /\ syncCompleted' = 0
    /\ UNCHANGED <<arrayState, resyncDone, device, blocked, roRequested,
                   stale, torn>>

\* mdadm --action=check or repair, on an array that is in step or not.  Asking
\* for it takes an array out of read-auto.
StartCheck ==
    /\ "check" \in Events
    /\ arrayState \in Writable \cup {"read_auto"}
    /\ syncAction = "idle" /\ Spares = {}
    /\ syncAction' \in Checks
    /\ arrayState' = IF arrayState = "read_auto" THEN "clean" ELSE arrayState
    /\ syncCompleted' = 0
    /\ UNCHANGED <<resyncDone, device, blocked, roRequested, stale, torn>>

SyncProgress ==
    /\ syncAction \in {"resync", "recover"} \cup Checks
    /\ syncCompleted < Size
    /\ syncCompleted' = syncCompleted + 1
    /\ UNCHANGED <<arrayState, syncAction, resyncDone, device, blocked,
                   roRequested, stale, torn>>

SyncFinishes ==
    /\ syncCompleted = Size
    /\ \/ /\ syncAction \in {"resync", "repair"}
          /\ resyncDone' = TRUE
          /\ torn' = FALSE
          /\ UNCHANGED <<device, stale>>
       \/ /\ syncAction = "recover"
          /\ device' = [s \in Slot |-> IF s \in Spares THEN "in_sync" ELSE device[s]]
          /\ stale' = stale \ Spares
          /\ UNCHANGED <<resyncDone, torn>>
       \/ syncAction = "check" /\ UNCHANGED <<resyncDone, torn, device, stale>>
    /\ syncAction' = "idle"
    /\ syncCompleted' = 0
    /\ UNCHANGED <<arrayState, blocked, roRequested>>

-----------------------------------------------------------------------------
(* mdadm --readonly and --readwrite on a member array (Manage_ro), and     *)
(* mdadm --stop.  Manage_ro changes metadata_version before it writes      *)
(* array_state, so that mdmon leaves the array alone.                      *)

RequestReadonly ==
    /\ "readonly" \in Events
    /\ arrayState \in Running
    /\ ~roRequested
    /\ roRequested' = TRUE
    /\ UNCHANGED <<arrayState, syncAction, resyncDone, syncCompleted, device,
                   blocked, stale, torn>>

SetReadonly ==
    /\ roRequested
    /\ arrayState \in {"clean", "active_idle", "read_auto"}
    /\ arrayState' = "readonly"
    /\ syncAction' = IF syncAction = "frozen" THEN "frozen" ELSE "idle"
    /\ syncCompleted' = 0
    /\ UNCHANGED <<resyncDone, device, blocked, roRequested, stale, torn>>

SetReadwrite ==
    /\ roRequested
    /\ roRequested' = FALSE
    /\ UNCHANGED <<arrayState, syncAction, resyncDone, syncCompleted, device,
                   blocked, stale, torn>>

\* An array is stopped when nobody has it open, so no write is outstanding:
\* a write-pending array, or an active one with a blocked device, cannot stop.
StopArray ==
    /\ "stop" \in Events
    /\ \/ arrayState \in {"clean", "active_idle"} \cup Readable
       \/ arrayState = "active" /\ blocked = {}
    /\ arrayState' \in {"inactive", "clear"}
    /\ syncAction' = "idle"
    /\ syncCompleted' = 0
    /\ device' = [s \in Slot |-> "removed"]
    /\ blocked' = {}
    /\ UNCHANGED <<resyncDone, roRequested, stale, torn>>

Vanish ==
    /\ arrayState \in {"inactive", "clear"}
    /\ arrayState' = "none"
    /\ roRequested' = FALSE
    /\ UNCHANGED <<syncAction, resyncDone, syncCompleted, device, blocked,
                   stale, torn>>

\* Power is lost.  An array that was taking writes may be left torn.
LosePower ==
    /\ "powerloss" \in Events
    /\ arrayState' = "none"
    /\ syncAction' = "idle"
    /\ syncCompleted' = 0
    /\ device' = [s \in Slot |-> "removed"]
    /\ blocked' = {}
    /\ roRequested' = FALSE
    /\ torn' \in (IF arrayState = "active" THEN {torn, TRUE} ELSE {torn})
    /\ UNCHANGED <<resyncDone, stale>>

MdNext ==
    \/ WriteArrives \/ WriteCompletes \/ GoIdle
    \/ \E s \in Slot : Fail(s)
    \/ StartSync \/ StartCheck \/ SyncProgress \/ SyncFinishes
    \/ RequestReadonly \/ SetReadonly \/ SetReadwrite
    \/ StopArray \/ Vanish

-----------------------------------------------------------------------------
(* What mdmon's writes to sysfs do.                                        *)

\* The states array_state may show after word has been written to it.
AfterWrite(word) ==
    CASE word = "active" /\ arrayState = "write_pending" -> {"active"}
      [] word = "active" /\ arrayState \in Readable      -> {"clean", "active"}
      [] word = "clean" /\ arrayState \in {"active", "active_idle"} ->
             {"clean", arrayState}
      [] word = "clean" /\ arrayState \in Readable       -> {"clean"}
      [] word = "read_auto" /\ arrayState = "readonly"   -> {"read_auto"}
      [] word = "clear" /\ arrayState = "inactive"       -> {"clear", "inactive"}
      [] OTHER -> {arrayState}
=============================================================================
