------------------------ MODULE MonitorThreadProofs ------------------------
(***************************************************************************)
(* What MonitorThread promises for every set of slots, every array size    *)
(* and every choice of events.                                             *)
(***************************************************************************)
EXTENDS MonitorThread, TLAPS

\* The states the array may show after a write are states of the array.
LEMMA AfterWriteType ==
    ASSUME arrayState \in ArrayStates, NEW w, NEW x \in AfterWrite(w)
    PROVE  x \in ArrayStates
  BY SMT DEF AfterWrite, ArrayStates, Running, Stopped, Readable, Writable

\* The kernel's steps preserve the types of the kernel's variables.
LEMMA MdTypeStep == MdTypeOK /\ MdNext => MdTypeOK'
<1> SUFFICES ASSUME MdTypeOK, MdNext PROVE MdTypeOK'
  OBVIOUS
<1> USE SizeAssumption DEF MdTypeOK
<1>1. CASE WriteArrives
  BY <1>1 DEF WriteArrives, ArrayStates, Running, Stopped, Readable, Writable
<1>2. CASE WriteCompletes
  BY <1>2 DEF WriteCompletes
<1>3. CASE GoIdle
  BY <1>3 DEF GoIdle, ArrayStates, Running, Stopped, Readable, Writable
<1>4. ASSUME NEW s \in Slot, Fail(s) PROVE MdTypeOK'
  BY <1>4 DEF Fail, SyncActions, DeviceStates
<1>5. CASE StartSync
  BY <1>5 DEF StartSync, SyncActions
<1>6. CASE SyncProgress
  BY <1>6 DEF SyncProgress
<1>7. CASE SyncFinishes
  <2>1. device' \in [Slot -> DeviceStates]
    BY <1>7 DEF SyncFinishes, DeviceStates
  <2>2. resyncDone' \in BOOLEAN /\ torn' \in BOOLEAN /\ stale' \subseteq Slot
    BY <1>7 DEF SyncFinishes
  <2>3. syncAction' \in SyncActions /\ syncCompleted' \in 0..Size
    BY <1>7 DEF SyncFinishes, SyncActions
  <2>4. /\ arrayState' \in ArrayStates /\ blocked' \subseteq Slot
        /\ roRequested' \in BOOLEAN
    BY <1>7 DEF SyncFinishes
  <2> QED
    BY <2>1, <2>2, <2>3, <2>4
<1>8. CASE RequestReadonly
  BY <1>8 DEF RequestReadonly
<1>9. CASE SetReadonly
  BY <1>9 DEF SetReadonly, SyncActions, ArrayStates, Running, Readable
<1>10. CASE SetReadwrite
  BY <1>10 DEF SetReadwrite
<1>11. CASE StopArray
  BY <1>11 DEF StopArray, SyncActions, ArrayStates, Stopped, DeviceStates
<1>12. CASE Vanish
  BY <1>12 DEF Vanish, ArrayStates, Stopped
<1>13. CASE StartCheck
  BY <1>13 DEF StartCheck, SyncActions, ArrayStates, Running, Writable
<1> QED
  BY <1>1, <1>2, <1>3, <1>4, <1>5, <1>6, <1>7, <1>8, <1>9, <1>10, <1>11, <1>12, <1>13
  DEF MdNext

\* What is read from sysfs is a word the monitor knows.
LEMMA ReadTypes ==
    ASSUME MdTypeOK
    PROVE  /\ StateWord \in StateWords
           /\ ActionWord \in ActionWords
           /\ \A s \in Slot : DevWord(s) \in DevWords
<1>1. StateWord \in StateWords
  BY DEF StateWord, StateWords, MdTypeOK
<1>2. ActionWord \in ActionWords
  BY DEF ActionWord, ActionWords, MdTypeOK
<1>3. \A s \in Slot : DevWord(s) \in DevWords
  BY DEF DevWord, DevWords, MdTypeOK, DeviceStates
<1> QED
  BY <1>1, <1>2, <1>3

\* Everything a pass of the monitor does preserves the types.
LEMMA PassTypeStep == TypeOK /\ PassStep => TypeOK'
<1> SUFFICES ASSUME TypeOK, PassStep PROVE TypeOK'
  OBVIOUS
<1> USE SizeAssumption DEF TypeOK, Pcs, ctlVars, keptVars, passVars, metaVars, monVars
<1>0. UNCHANGED mdVars => MdTypeOK'
  BY DEF mdVars, MdTypeOK
<1>1. CASE Wake
  BY <1>0, <1>1 DEF Wake
<1>2. CASE ReadState
  BY <1>0, <1>2, ReadTypes DEF ReadState, Read, StateWords
<1>3. CASE ReadAction
  BY <1>0, <1>3, ReadTypes DEF ReadAction, Read
<1>4. CASE ReadResync
  <2>1. resyncComplete' \in BOOLEAN
    BY <1>4 DEF ReadResync, MdTypeOK
  <2> QED
    BY <1>0, <1>4, <2>1 DEF ReadResync, Read
<1>5. CASE ReadCompleted
  BY <1>0, <1>5 DEF ReadCompleted, Read, MdTypeOK
<1>6. ASSUME NEW s \in Slot, ReadDev(s) PROVE TypeOK'
  BY <1>0, <1>6, ReadTypes DEF ReadDev, Read
<1>7. CASE Decide
  <2>1. nextState' \in StateWords
    BY <1>7 DEF Decide, NextState, StateWords, ArrayStates, Stopped, Running, Readable, Writable
  <2>2. mem' \in Metadata
    <3>1. \A s \in Slot : DevAfter(s) \in DiskStates
      BY DEF DevAfter, DiskStates, Metadata
    <3>2. DegradedAfter \in BOOLEAN
      BY DEF DegradedAfter, Metadata
    <3>3. MarkedClean \in BOOLEAN
      BY DEF MarkedClean
    <3>4. mem.clean \in BOOLEAN /\ mem.full \in BOOLEAN
      BY DEF Metadata
    <3> DEFINE c == IF CallsSetArrayState THEN MarkedClean ELSE mem.clean
               f == IF CallsSetArrayState THEN resyncComplete ELSE mem.full
               d == [s \in Slot |-> DevAfter(s)]
    <3>5. c \in BOOLEAN /\ f \in BOOLEAN /\ d \in [Slot -> DiskStates]
      BY <3>1, <3>3, <3>4
    <3>6. mem' = [clean |-> c, full |-> f, degraded |-> DegradedAfter, dev |-> d]
      BY <1>7 DEF Decide
    <3> HIDE DEF c, f, d
    <3> QED
      BY <3>2, <3>5, <3>6 DEF Metadata
  <2>3. /\ unblock' \subseteq Slot /\ remove' \subseteq Slot
        /\ lastCheckpoint' \in 0..Size
    BY <1>7 DEF Decide, Faulty
  <2>4. noteDegraded' \in BOOLEAN /\ checkDegraded' \in BOOLEAN
    BY <1>7 DEF Decide
  <2> QED
    BY <1>0, <1>7, <2>1, <2>2, <2>3, <2>4 DEF Decide
<1>8. CASE SyncMetadata
  BY <1>0, <1>8 DEF SyncMetadata
<1>9. CASE WriteState
  <2>1. MdTypeOK'
    BY <1>9, AfterWriteType DEF WriteState, MdTypeOK
  <2> QED
    BY <1>9, <2>1 DEF WriteState
<1>10. ASSUME NEW s \in Slot, Unblock(s) PROVE TypeOK'
  BY <1>10 DEF Unblock, MdTypeOK
<1>11. ASSUME NEW s \in Slot, Remove(s) PROVE TypeOK'
  <2>1. MdTypeOK'
    BY <1>11 DEF Remove, MdTypeOK, DeviceStates
  <2> QED
    BY <1>11, <2>1 DEF Remove
<1>12. CASE FinishPass
  <2>1. /\ checkDegraded' \in BOOLEAN /\ open' \in BOOLEAN
        /\ dirtyArrays' \in BOOLEAN
    BY <1>12 DEF FinishPass, ArrayDirty, Deactivating
  <2>2. MdTypeOK'
    BY <1>0, <1>12 DEF FinishPass
  <2>3. /\ completed' \in 0..Size /\ lastCheckpoint' \in 0..Size
        /\ prevState' \in StateWords /\ prevAction' \in ActionWords
    BY <1>12 DEF FinishPass
  <2> QED
    BY <1>12, <2>1, <2>2, <2>3 DEF FinishPass
<1> QED
  BY <1>1, <1>2, <1>3, <1>4, <1>5, <1>6, <1>7, <1>8, <1>9, <1>10, <1>11, <1>12 DEF PassStep

\* The values that variables start from, and restart from.
LEMMA FirstValues ==
    /\ "inactive" \in StateWords /\ "bad_word" \in StateWords
    /\ "idle" \in ActionWords /\ "idle" \in SyncActions
    /\ "none" \in ArrayStates /\ "readonly" \in ArrayStates
    /\ 0 \in 0..Size
    /\ [s \in Slot |-> "none"] \in [Slot -> DevWords]
    /\ [s \in Slot |-> "removed"] \in [Slot -> DeviceStates]
  BY SizeAssumption
  DEF StateWords, ActionWords, SyncActions, ArrayStates, Stopped, Running, Readable,
      DevWords, DeviceStates

\* Every step preserves the types.
LEMMA TypeStep == TypeOK /\ [Next]_vars => TypeOK'
<1> SUFFICES ASSUME TypeOK, [Next]_vars PROVE TypeOK'
  OBVIOUS
<1> USE DEF TypeOK, Pcs, ctlVars, keptVars, passVars, metaVars, monVars
<1>0. UNCHANGED mdVars => MdTypeOK'
  BY DEF mdVars, MdTypeOK
<1>a. Forget /\ MdTypeOK' /\ missing' \subseteq Slot => TypeOK'
  BY FirstValues DEF Forget
<1>1. CASE Environment
  BY <1>1, MdTypeStep DEF Environment
<1>2. CASE PassStep
  BY <1>2, PassTypeStep
<1>3. CASE IdleTurn
  BY <1>0, <1>3 DEF IdleTurn
<1>4. CASE Open
  <2>1. MdTypeOK'
    BY <1>4 DEF Open, MdTypeOK, DeviceStates
  <2> QED
    BY <1>4, <2>1, FirstValues DEF Open
<1>5. CASE SigTerm
  BY <1>0, <1>5 DEF SigTerm
<1>6. CASE Exit
  BY <1>0, <1>6, <1>a DEF Exit
<1>7. CASE MdmonCrash
  BY <1>0, <1>7, <1>a DEF MdmonCrash
<1>8. CASE MdmonStart
  BY <1>0, <1>8 DEF MdmonStart
<1>9. CASE HostCrash
  <2>1. MdTypeOK'
    BY <1>9, FirstValues DEF HostCrash, LosePower, MdTypeOK
  <2> QED
    BY <1>9, <1>a, <2>1, MissingAssumption DEF HostCrash
<1>10. CASE Assemble
  <2>1. MdTypeOK'
    BY <1>10
    DEF Assemble, MdTypeOK, ArrayStates, Running, Readable, DeviceStates, Metadata
  <2> QED
    BY <1>10, <2>1 DEF Assemble
<1>11. CASE UNCHANGED vars
  BY <1>0, <1>11 DEF vars
<1> QED
  BY <1>1, <1>2, <1>3, <1>4, <1>5, <1>6, <1>7, <1>8, <1>9, <1>10, <1>11 DEF Next

LEMMA TypeInit == Init => TypeOK
  BY FirstValues, MissingAssumption DEF Init, TypeOK, MdTypeOK, Pcs

\* Every variable of mdmon and of the driver keeps to its type.
THEOREM TypeCorrect == Spec => []TypeOK
<1>1. TypeOK /\ [Next]_vars => TypeOK'
  BY TypeStep
<1> QED
  BY TypeInit, <1>1, PTL DEF Spec

-----------------------------------------------------------------------------
(* What both inductive invariants rest on.                                 *)

BaseInv == TypeOK /\ DiskIsMem /\ PassIsOpen /\ OnlyResync

LEMMA BaseInit == Init => BaseInv
<1>1. Init => TypeOK
  BY TypeInit
<1>2. Init => DiskIsMem /\ PassIsOpen /\ OnlyResync
  BY SizeAssumption DEF Init, DiskIsMem, PassIsOpen, OnlyResync, Checks
<1> QED
  BY <1>1, <1>2 DEF BaseInv

\* The kernel's steps: a check starts on an array that may be written, and
\* what takes the array out of those states stops it.
LEMMA OnlyResyncEnvironment == BaseInv /\ Environment => OnlyResync'
<1> SUFFICES ASSUME BaseInv, Environment PROVE OnlyResync'
  OBVIOUS
<1> USE SizeAssumption DEF BaseInv, OnlyResync, Environment, Checks
<1>t. MdTypeOK
  BY DEF TypeOK
<1>1. CASE WriteArrives
  BY <1>1 DEF WriteArrives, Running, Readable, Writable
<1>2. CASE WriteCompletes
  BY <1>2 DEF WriteCompletes
<1>3. CASE GoIdle
  BY <1>3 DEF GoIdle, Running, Writable
<1>4. ASSUME NEW s \in Slot, Fail(s) PROVE OnlyResync'
  BY <1>t, <1>4 DEF Fail, MdTypeOK, DeviceStates
<1>5. CASE StartSync
  BY <1>5 DEF StartSync, Running, Spares
<1>6. CASE StartCheck
  BY <1>6 DEF StartCheck, Running, Writable
<1>7. CASE SyncProgress
  BY <1>7 DEF SyncProgress
<1>8. CASE SyncFinishes
  BY <1>t, <1>8 DEF SyncFinishes, Spares, MdTypeOK
<1>9. CASE RequestReadonly \/ SetReadwrite
  BY <1>9 DEF RequestReadonly, SetReadwrite
<1>10. CASE SetReadonly
  BY <1>t, <1>10 DEF SetReadonly, MdTypeOK, Running, Readable
<1>11. CASE StopArray
  BY <1>11 DEF StopArray
<1>12. CASE Vanish
  BY <1>12 DEF Vanish, Running, Readable, Writable
<1> QED
  BY <1>1, <1>2, <1>3, <1>4, <1>5, <1>6, <1>7, <1>8, <1>9, <1>10, <1>11, <1>12 DEF MdNext

\* The monitor writes to array_state, and removes devices.
LEMMA OnlyResyncPass == BaseInv /\ PassStep => OnlyResync'
<1> SUFFICES ASSUME BaseInv, PassStep PROVE OnlyResync'
  OBVIOUS
<1> USE DEF BaseInv, OnlyResync
<1>t. MdTypeOK
  BY DEF TypeOK
<1>1. CASE UNCHANGED mdVars
  BY <1>1 DEF mdVars
<1>2. CASE WriteState
  <2>1. /\ arrayState \in Running => arrayState' \in Running
        /\ arrayState \in Writable => arrayState' \in Writable
    BY <1>t, <1>2 DEF WriteState, AfterWrite, MdTypeOK, ArrayStates, Stopped, Running,
                      Readable, Writable
  <2> QED
    BY <1>2, <2>1 DEF WriteState
<1>3. ASSUME NEW s \in Slot, Unblock(s) PROVE OnlyResync'
  BY <1>3 DEF Unblock
<1>4. ASSUME NEW s \in Slot, Remove(s) PROVE OnlyResync'
  BY <1>t, <1>4 DEF Remove, MdTypeOK
<1> QED
  BY <1>1, <1>2, <1>3, <1>4
  DEF PassStep, Wake, ReadState, ReadAction, ReadResync, ReadCompleted, ReadDev, Read,
      Decide, SyncMetadata, FinishPass

\* Where the pass is, and what memory and the disks hold.
LEMMA ControlStep == BaseInv /\ [Next]_vars => DiskIsMem' /\ PassIsOpen'
<1> SUFFICES ASSUME BaseInv, [Next]_vars PROVE DiskIsMem' /\ PassIsOpen'
  OBVIOUS
<1> USE DEF BaseInv, DiskIsMem, PassIsOpen, ctlVars, keptVars, passVars, metaVars, monVars
<1>1. CASE Environment \/ Assemble
  BY <1>1 DEF Environment, Assemble
<1>2. CASE PassStep
  BY <1>2
  DEF PassStep, Wake, ReadState, ReadAction, ReadResync, ReadCompleted, ReadDev, Read,
      Decide, SyncMetadata, WriteState, Unblock, Remove, FinishPass
<1>3. CASE IdleTurn \/ Open \/ SigTerm \/ MdmonStart
  BY <1>3 DEF IdleTurn, Open, SigTerm, MdmonStart
<1>4. CASE Exit \/ MdmonCrash \/ HostCrash
  BY <1>4 DEF Exit, MdmonCrash, HostCrash, Forget
<1>5. CASE UNCHANGED vars
  BY <1>5 DEF vars
<1> QED
  BY <1>1, <1>2, <1>3, <1>4, <1>5 DEF Next

LEMMA BaseStep == BaseInv /\ [Next]_vars => BaseInv'
<1> SUFFICES ASSUME BaseInv, [Next]_vars PROVE BaseInv'
  OBVIOUS
<1>1. TypeOK'
  BY TypeStep DEF BaseInv
<1>2. DiskIsMem' /\ PassIsOpen'
  BY ControlStep
<1>3. OnlyResync'
  <2> USE DEF BaseInv, OnlyResync, mdVars
  <2>1. CASE Environment
    BY <2>1, OnlyResyncEnvironment
  <2>2. CASE PassStep
    BY <2>2, OnlyResyncPass
  <2>3. CASE IdleTurn \/ SigTerm \/ Exit \/ MdmonCrash \/ MdmonStart
    BY <2>3 DEF IdleTurn, SigTerm, Exit, MdmonCrash, MdmonStart
  <2>4. CASE Open
    <3>1. \A s \in Slot : device'[s] # "spare"
      BY <2>4 DEF Open
    <3> QED
      BY <2>4, <3>1 DEF Open
  <2>5. CASE HostCrash
    <3>1. \A s \in Slot : device'[s] # "spare"
      BY <2>5 DEF HostCrash, LosePower
    <3> QED
      BY <2>5, <3>1 DEF HostCrash, LosePower, Checks
  <2>6. CASE Assemble
    BY <2>6 DEF Assemble, Running, Readable, Writable
  <2>7. CASE UNCHANGED vars
    BY <2>7 DEF vars
  <2> QED
    BY <2>1, <2>2, <2>3, <2>4, <2>5, <2>6, <2>7 DEF Next
<1> QED
  BY <1>1, <1>2, <1>3 DEF BaseInv

-----------------------------------------------------------------------------
(* The inductive invariant TornInv.                                        *)

\* No check gets to a checkpoint while one pass reads the attributes.
Unhurried == "quick" \notin Events

LEMMA TornInit == Init => TornInv
<1> SUFFICES ASSUME Init PROVE TornInv
  OBVIOUS
<1>1. TypeOK
  BY TypeInit
<1>2. DiskIsMem /\ PassIsOpen /\ OnlyResync
  BY BaseInit DEF BaseInv
<1>3. TornIsKnown /\ NoTornClean
  BY DEF Init, TornIsKnown, NoTornClean, CleanFull
<1>4. ResyncReadIsOld /\ CheckIsSlow /\ ActiveIsSeen /\ ActivatesDirty /\ DirtyBeforeWrite
  BY DEF Init, ResyncReadIsOld, CheckIsSlow, ActiveIsSeen, ActivatesDirty, DirtyBeforeWrite
<1> QED
  BY <1>1, <1>2, <1>3, <1>4 DEF TornInv

\* The kernel's steps preserve it: the array becomes active only from
\* active-idle, and a resync that finishes leaves the array in step again.
LEMMA TornEnvironment == Unhurried /\ TornInv /\ Environment => TornInv'
<1> SUFFICES ASSUME Unhurried, TornInv, Environment PROVE TornInv'
  OBVIOUS
<1> USE SizeAssumption DEF TornInv, DiskIsMem, PassIsOpen, OnlyResync, TornIsKnown,
        ResyncReadIsOld, CheckIsSlow, CheckpointDue, ActiveIsSeen, ActivatesDirty, NoTornClean, DirtyBeforeWrite,
        CleanFull, Environment, monVars, ctlVars, keptVars, passVars, metaVars
<1>0. TypeOK' /\ DiskIsMem' /\ PassIsOpen' /\ OnlyResync'
  BY BaseStep DEF BaseInv, Next
<1>t. MdTypeOK
  BY DEF TypeOK
<1>l. lastCheckpoint \in Nat /\ ~(0 > lastCheckpoint)
  BY DEF TypeOK
<1>1. CASE WriteArrives
  BY <1>0, <1>t, <1>1 DEF WriteArrives, Running, Readable, Writable
<1>2. CASE WriteCompletes
  BY <1>0, <1>t, <1>2 DEF WriteCompletes
<1>3. CASE GoIdle
  BY <1>0, <1>t, <1>3 DEF GoIdle, Running, Writable
<1>4. ASSUME NEW s \in Slot, Fail(s) PROVE TornInv'
  BY <1>0, <1>t, <1>l, <1>4 DEF Fail, MdTypeOK, DeviceStates
<1>5. CASE StartSync
  BY <1>0, <1>t, <1>5 DEF StartSync, Running, Spares, Checks
<1>6. CASE SyncProgress
  <2>1. /\ pc \in {"read_action", "read_resync", "read_completed"}
        /\ currState = "read_auto" /\ syncAction \in Checks
        => ~CheckpointDue(syncCompleted')
    <3>1. syncCompleted' = syncCompleted + 1 /\ syncCompleted \in Nat
      BY <1>t, <1>6 DEF SyncProgress, MdTypeOK
    <3>2. syncCompleted' > syncCompleted
      BY <3>1
    <3> HIDE DEF CheckpointDue
    <3> QED
      BY <3>2 DEF Leisurely, Unhurried
  <2>2. UNCHANGED <<arrayState, syncAction, resyncDone, torn, device>>
    BY <1>6 DEF SyncProgress
  <2> QED
    BY <1>0, <2>1, <2>2
<1>7. CASE SyncFinishes
  BY <1>0, <1>t, <1>7 DEF SyncFinishes, Spares, Checks
<1>8. CASE RequestReadonly
  BY <1>0, <1>t, <1>8 DEF RequestReadonly
<1>9. CASE SetReadonly
  BY <1>0, <1>t, <1>9 DEF SetReadonly, MdTypeOK, SyncActions, Running, Readable, Writable
<1>10. CASE SetReadwrite
  BY <1>0, <1>t, <1>10 DEF SetReadwrite
<1>11. CASE StopArray
  BY <1>0, <1>t, <1>11 DEF StopArray, MdTypeOK, Running, Readable, Writable
<1>12. CASE Vanish
  BY <1>0, <1>t, <1>12 DEF Vanish, Running, Readable, Writable
<1>13. CASE StartCheck
  BY <1>0, <1>t, <1>l, <1>13 DEF StartCheck, Running, Readable, Writable
<1> QED
  BY <1>1, <1>2, <1>3, <1>4, <1>5, <1>6, <1>7, <1>8, <1>9, <1>10, <1>11, <1>12, <1>13
  DEF MdNext

\* What the monitor decides: an array that it read as taking writes, or that
\* it is about to let take writes, is not clean and complete in memory.
LEMMA TornDecide == TornInv /\ Decide => TornInv'
<1> SUFFICES ASSUME TornInv, Decide PROVE TornInv'
  OBVIOUS
<1> USE SizeAssumption DEF TornInv, DiskIsMem, PassIsOpen, OnlyResync, TornIsKnown,
        ResyncReadIsOld, CheckIsSlow, CheckpointDue, ActiveIsSeen, ActivatesDirty, NoTornClean, DirtyBeforeWrite,
        CleanFull, mdVars, ctlVars, keptVars, passVars, metaVars, monVars
<1>0. TypeOK' /\ DiskIsMem' /\ PassIsOpen' /\ OnlyResync'
  BY BaseStep DEF BaseInv, Next, PassStep
<1>1. /\ UNCHANGED mdVars /\ UNCHANGED <<open, resyncComplete, disk, currState>>
      /\ pc = "read_devs" /\ pc' = "sync"
      /\ nextState' = NextState
  BY DEF Decide
<1>2. /\ mem'.clean = IF CallsSetArrayState THEN MarkedClean ELSE mem.clean
      /\ mem'.full = IF CallsSetArrayState THEN resyncComplete ELSE mem.full
  BY DEF Decide
<1>3. Checkpoint /\ ReadAutoFault => ~resyncComplete
  BY <1>1 DEF Checkpoint, ReadAutoFault
<1>4. torn => ~CleanFull(mem')
  BY <1>2
<1>5. arrayState \in {"active", "active_idle"} => ~CleanFull(mem')
  <2> SUFFICES ASSUME arrayState \in {"active", "active_idle"} PROVE ~CleanFull(mem')
    OBVIOUS
  <2>1. currState \in {"active", "active_idle"} /\ ~CleanFull(mem)
    BY <1>1
  <2>2. CallsSetArrayState => MarkedFromState
    BY <2>1 DEF CallsSetArrayState, MarkedFromState, Deactivating, WelcomingNew,
                ReadAutoFault, AtMostInactive
  <2>3. MarkedFromState => ~MarkedClean
    BY <2>1 DEF MarkedClean, AtMostClean, AtMostInactive, Readable
  <2> QED
    BY <1>2, <2>1, <2>2, <2>3
<1>6. NextState = "active" => ~CleanFull(mem')
  <2> SUFFICES ASSUME NextState = "active" PROVE ~CleanFull(mem')
    OBVIOUS
  <2>1. \/ currState = "write_pending"
        \/ WelcomingNew /\ ~resyncComplete
        \/ ReadAutoFault
    BY DEF NextState
  <2>2. CASE currState = "write_pending"
    BY <1>2, <2>2 DEF CallsSetArrayState, MarkedClean, AtMostClean, AtMostInactive, Readable
  <2>3. CASE WelcomingNew /\ ~resyncComplete
    BY <1>2, <2>3 DEF CallsSetArrayState
  <2>4. CASE ReadAutoFault
    BY <1>2, <1>3, <2>4 DEF CallsSetArrayState, MarkedClean, MarkedFromState
  <2> QED
    BY <2>1, <2>2, <2>3, <2>4
<1> QED
  BY <1>0, <1>1, <1>4, <1>5, <1>6

\* Every other step of a pass.
LEMMA TornPass == TornInv /\ PassStep => TornInv'
<1> SUFFICES ASSUME TornInv, PassStep PROVE TornInv'
  OBVIOUS
<1> USE SizeAssumption DEF TornInv, DiskIsMem, PassIsOpen, OnlyResync, TornIsKnown,
        ResyncReadIsOld, CheckIsSlow, CheckpointDue, ActiveIsSeen, ActivatesDirty, NoTornClean, DirtyBeforeWrite,
        CleanFull, mdVars, ctlVars, keptVars, passVars, metaVars, monVars
<1>0. TypeOK' /\ DiskIsMem' /\ PassIsOpen' /\ OnlyResync'
  BY BaseStep DEF BaseInv, Next
<1>t. MdTypeOK
  BY DEF TypeOK
<1>1. CASE Wake
  BY <1>0, <1>1 DEF Wake
<1>2. CASE ReadState
  <2>1. currState' = "read_auto" => syncAction \notin Checks
    BY <1>2 DEF ReadState, StateWord, Writable
  <2> QED
    BY <1>0, <1>2, <2>1 DEF ReadState, Read, StateWord
<1>3. CASE ReadAction
  BY <1>0, <1>3 DEF ReadAction, Read
<1>4. CASE ReadResync
  BY <1>0, <1>4 DEF ReadResync, Read, Running, Readable, Writable
<1>5. CASE ReadCompleted
  <2>1. completed' = syncCompleted /\ UNCHANGED <<currState, lastCheckpoint, resyncComplete>>
    BY <1>5 DEF ReadCompleted, Read
  <2>2. pc = "read_completed" /\ open
    BY <1>5 DEF ReadCompleted, Read
  <2>3. currState = "read_auto" /\ CheckpointDue(syncCompleted) => syncAction = "resync"
    <3>1. CheckpointDue(syncCompleted) => syncCompleted > 0
      BY <1>t DEF TypeOK, MdTypeOK
    <3> HIDE DEF CheckpointDue
    <3> QED
      BY <2>2, <3>1
  <2>4. currState' = "read_auto" /\ CheckpointDue(completed)' => ~resyncComplete'
    <3>1. CheckpointDue(completed)' => CheckpointDue(syncCompleted)
      BY <2>1
    <3> HIDE DEF CheckpointDue
    <3> QED
      BY <2>1, <2>2, <2>3, <3>1
  <2> QED
    BY <1>0, <1>5, <2>4 DEF ReadCompleted, Read
<1>6. ASSUME NEW s \in Slot, ReadDev(s) PROVE TornInv'
  BY <1>0, <1>6 DEF ReadDev, Read
<1>7. CASE Decide
  BY <1>7, TornDecide
<1>8. CASE SyncMetadata
  BY <1>0, <1>8 DEF SyncMetadata
<1>9. CASE WriteState
  <2>1. /\ arrayState' \in {"active", "active_idle"} =>
             nextState = "active" \/ arrayState' = arrayState
        /\ arrayState' # "none" => arrayState # "none"
        /\ arrayState' \in Running <=> arrayState \in Running
    BY <1>t, <1>9 DEF WriteState, AfterWrite, MdTypeOK, ArrayStates, Stopped, Running,
                      Readable, Writable
  <2> QED
    BY <1>0, <1>9, <2>1 DEF WriteState
<1>10. ASSUME NEW s \in Slot, Unblock(s) PROVE TornInv'
  BY <1>0, <1>10 DEF Unblock
<1>11. ASSUME NEW s \in Slot, Remove(s) PROVE TornInv'
  <2>1. \A r \in Slot : device'[r] # "spare"
    BY <1>t, <1>11 DEF Remove, MdTypeOK
  <2> QED
    BY <1>0, <1>11, <2>1 DEF Remove
<1>12. CASE FinishPass
  BY <1>0, <1>12 DEF FinishPass
<1> QED
  BY <1>1, <1>2, <1>3, <1>4, <1>5, <1>6, <1>7, <1>8, <1>9, <1>10, <1>11, <1>12 DEF PassStep

\* mdmon may come and go, and the host may crash, at any time.
LEMMA TornStep == Unhurried /\ TornInv /\ [Next]_vars => TornInv'
<1> SUFFICES ASSUME Unhurried, TornInv, [Next]_vars PROVE TornInv'
  OBVIOUS
<1> USE SizeAssumption DEF TornInv, DiskIsMem, PassIsOpen, OnlyResync, TornIsKnown,
        ResyncReadIsOld, CheckIsSlow, CheckpointDue, ActiveIsSeen, ActivatesDirty, NoTornClean, DirtyBeforeWrite,
        CleanFull, mdVars, ctlVars, keptVars, passVars, metaVars, monVars
<1>0. TypeOK' /\ DiskIsMem' /\ PassIsOpen' /\ OnlyResync'
  BY BaseStep DEF BaseInv
<1>t. MdTypeOK
  BY DEF TypeOK
<1>a. Forget /\ UNCHANGED mdVars => TornInv'
  BY <1>0 DEF Forget
<1>1. CASE Environment
  BY <1>1, TornEnvironment
<1>2. CASE PassStep
  BY <1>2, TornPass
<1>3. CASE IdleTurn
  BY <1>0, <1>3 DEF IdleTurn
<1>4. CASE Open
  <2>1. \A s \in Slot : device'[s] # "spare"
    BY <1>4 DEF Open
  <2> QED
    BY <1>0, <1>4, <2>1 DEF Open
<1>5. CASE SigTerm
  BY <1>0, <1>5 DEF SigTerm
<1>6. CASE Exit
  BY <1>6, <1>a DEF Exit
<1>7. CASE MdmonCrash
  BY <1>7, <1>a DEF MdmonCrash
<1>8. CASE MdmonStart
  BY <1>0, <1>8 DEF MdmonStart
<1>9. CASE HostCrash
  <2>1. torn' => torn \/ arrayState = "active"
    BY <1>9 DEF HostCrash, LosePower
  <2>2. torn' => ~CleanFull(disk)
    BY <2>1
  <2>3. \A s \in Slot : device'[s] # "spare"
    BY <1>9 DEF HostCrash, LosePower
  <2> QED
    BY <1>0, <1>9, <2>2, <2>3 DEF HostCrash, LosePower, Forget
<1>10. CASE Assemble
  BY <1>0, <1>10 DEF Assemble, Running, Readable, Writable
<1>11. CASE UNCHANGED vars
  BY <1>0, <1>11 DEF vars
<1> QED
  BY <1>1, <1>2, <1>3, <1>4, <1>5, <1>6, <1>7, <1>8, <1>9, <1>10, <1>11 DEF Next

-----------------------------------------------------------------------------
(* The inductive invariant RecordInv.                                      *)

LEMMA RecordInit == Init => RecordInv
<1> SUFFICES ASSUME Init PROVE RecordInv
  OBVIOUS
<1>1. TypeOK /\ DiskIsMem /\ PassIsOpen /\ OnlyResync
  BY BaseInit DEF BaseInv
<1>2. NoneRecovers /\ FailedStays /\ ActsOnRecorded
  BY DEF Init, NoneRecovers, FailedStays, ActsOnRecorded
<1>3. VacantKnown
  BY DEF Init, VacantKnown, Running, Readable, Writable
<1>4. FailureRecorded /\ NoStaleOnline /\ NoStaleInSync
  BY DEF Init, FailureRecorded, NoStaleOnline, NoStaleInSync, InSync
<1> QED
  BY <1>1, <1>2, <1>3, <1>4 DEF RecordInv

\* The kernel's steps: only WriteCompletes makes a disk stale, and then the
\* array is active and none of its failed devices is held back.
LEMMA RecordEnvironment ==
    ASSUME RecordInv, Environment, (TypeOK /\ DiskIsMem /\ PassIsOpen /\ OnlyResync)'
    PROVE  RecordInv'
<1> USE DEF RecordInv, NoneRecovers, FailedStays, ActsOnRecorded, VacantKnown,
        VacantRecorded, PastReadonly, FailureRecorded, NoStaleOnline, NoStaleInSync,
        InSync, Environment, monVars, ctlVars, keptVars, passVars, metaVars
<1>t. MdTypeOK
  BY DEF TypeOK
<1>1. CASE WriteArrives
  BY <1>1 DEF WriteArrives, Running, Readable, Writable
<1>2. CASE WriteCompletes
  <2>1. arrayState \in PastReadonly /\ arrayState \in Running
    BY <1>2 DEF WriteCompletes, Running, Writable
  <2>2. \A s \in Slot : device[s] \in {"faulty", "removed"} => disk.dev[s] # "online"
    BY <1>2, <2>1 DEF WriteCompletes
  <2> QED
    BY <1>2, <2>2 DEF WriteCompletes
<1>3. CASE GoIdle
  BY <1>3 DEF GoIdle, Running, Writable
<1>4. ASSUME NEW s \in Slot, Fail(s) PROVE RecordInv'
  <2>1. \A r \in Slot : \/ r = s /\ device'[r] = "faulty" /\ r \in blocked'
                        \/ device'[r] = device[r] /\ (r \in blocked => r \in blocked')
    BY <1>t, <1>4 DEF Fail, MdTypeOK
  <2> QED
    BY <1>4, <2>1 DEF Fail
<1>5. CASE StartSync
  BY <1>5 DEF StartSync
<1>6. CASE SyncProgress
  BY <1>6 DEF SyncProgress
<1>7. CASE SyncFinishes
  <2>1. syncAction # "recover"
    BY DEF OnlyResync, Checks
  <2> QED
    BY <1>7, <2>1 DEF SyncFinishes
<1>8. CASE RequestReadonly
  BY <1>8 DEF RequestReadonly
<1>9. CASE SetReadonly
  BY <1>9 DEF SetReadonly, Running, Readable, Writable
<1>10. CASE SetReadwrite
  BY <1>10 DEF SetReadwrite
<1>11. CASE StopArray
  BY <1>11 DEF StopArray, Running, Readable, Writable
<1>12. CASE Vanish
  BY <1>12 DEF Vanish, Running, Readable, Writable
<1>13. CASE StartCheck
  BY <1>13 DEF StartCheck, Running, Readable, Writable
<1> QED
  BY <1>1, <1>2, <1>3, <1>4, <1>5, <1>6, <1>7, <1>8, <1>9, <1>10, <1>11, <1>12, <1>13
  DEF MdNext

\* What Decide makes of the recorded state of the devices.
LEMMA DevAfterFails ==
    ASSUME RecordInv, pc = "read_devs", NEW s \in Slot
    PROVE  /\ DevAfter(s) \in {disk.dev[s], "failed"}
           /\ s \in Faulty => DevAfter(s) = "failed"
<1>1. disk = mem /\ ~RecoverFinished
  BY DEF RecordInv, DiskIsMem, NoneRecovers, RecoverFinished
<1> QED
  BY <1>1 DEF DevAfter

\* Deciding: every failure that was read, and every missing disk of an array
\* that is about to leave read-only, is recorded in memory.
LEMMA RecordDecide ==
    ASSUME RecordInv, Decide, (TypeOK /\ DiskIsMem /\ PassIsOpen /\ OnlyResync)'
    PROVE  RecordInv'
<1> USE DEF RecordInv, NoneRecovers, FailedStays, ActsOnRecorded, VacantKnown,
        VacantRecorded, FailureRecorded, NoStaleOnline, NoStaleInSync
<1>1. /\ UNCHANGED <<arrayState, device, blocked, stale, missing, disk>>
      /\ UNCHANGED <<currAction, prevAction, currState>>
      /\ pc = "read_devs" /\ pc' = "sync"
      /\ nextState' = NextState
  BY DEF Decide, mdVars
<1>2. \A s \in Slot : mem'.dev[s] = DevAfter(s)
  BY DEF Decide
<1>3. unblock' \cup remove' \subseteq Faulty
  BY DEF Decide, Faulty
<1>4. NoneRecovers' /\ FailedStays' /\ ActsOnRecorded'
  BY <1>1, <1>2, <1>3, DevAfterFails DEF Faulty
<1>5. VacantKnown'
  <2> SUFFICES ASSUME arrayState \in Running,
                      NextState \in {"active", "clean", "read_auto"},
                      NEW s \in Slot, device[s] = "removed"
               PROVE  DevAfter(s) # "online"
    BY <1>1, <1>2
  <2>1. currState \in PastReadonly \/ WelcomingNew \/ ReadAutoFault
    BY DEF NextState, PastReadonly, Writable
  <2>2. CASE currState \in PastReadonly \/ ReadAutoFault
    BY <1>1, <2>2, DevAfterFails DEF ReadAutoFault, PastReadonly
  <2>3. CASE WelcomingNew
    <3>1. disk = mem
      BY <1>1 DEF DiskIsMem
    <3>2. CASE disk.dev[s] # "online"
      BY <1>1, <3>2, DevAfterFails
    <3>3. CASE disk.dev[s] = "online"
      BY <2>3, <3>1, <3>3 DEF FoundMissing, DevAfter
    <3> QED
      BY <3>2, <3>3
  <2> QED
    BY <2>1, <2>2, <2>3
<1>6. FailureRecorded' /\ NoStaleOnline' /\ NoStaleInSync'
  BY <1>1 DEF InSync
<1> QED
  BY <1>4, <1>5, <1>6

\* Every other step of a pass.
LEMMA RecordPass ==
    ASSUME RecordInv, PassStep, (TypeOK /\ DiskIsMem /\ PassIsOpen /\ OnlyResync)'
    PROVE  RecordInv'
<1> USE DEF RecordInv, NoneRecovers, FailedStays, ActsOnRecorded, VacantKnown,
        VacantRecorded, FailureRecorded, NoStaleOnline, NoStaleInSync, InSync,
        mdVars, ctlVars, keptVars, passVars, metaVars
<1>t. MdTypeOK
  BY DEF TypeOK
<1>1. CASE Wake
  BY <1>1 DEF Wake
<1>2. CASE ReadState
  <2>1. /\ UNCHANGED <<arrayState, device, blocked, stale, missing, mem, disk>>
        /\ UNCHANGED <<unblock, remove, currAction, prevAction>>
        /\ pc = "read_state" /\ pc' = "read_action"
        /\ currState' = StateWord
    BY <1>2 DEF ReadState, Read
  <2>2. StateWord \in PastReadonly => arrayState \in PastReadonly
    BY DEF StateWord, PastReadonly, Writable
  <2>3. VacantKnown'
    BY <2>1, <2>2
  <2> QED
    BY <2>1, <2>3
<1>3. CASE ReadAction
  <2>1. ActionWord # "recover"
    BY DEF ActionWord, OnlyResync, Checks
  <2> QED
    BY <1>3, <2>1 DEF ReadAction, Read
<1>4. CASE ReadResync
  BY <1>4 DEF ReadResync, Read
<1>5. CASE ReadCompleted
  BY <1>5 DEF ReadCompleted, Read
<1>6. ASSUME NEW s \in Slot, ReadDev(s) PROVE RecordInv'
  BY <1>6 DEF ReadDev, Read
<1>7. CASE Decide
  BY <1>7, RecordDecide
<1>8. CASE SyncMetadata
  <2>1. /\ UNCHANGED <<arrayState, device, blocked, stale, missing, mem>>
        /\ UNCHANGED <<unblock, remove, currAction, prevAction, nextState>>
        /\ pc = "sync" /\ pc' = "write_state" /\ disk' = mem
    BY <1>8 DEF SyncMetadata
  <2>2. \A s \in Slot : disk.dev[s] = "failed" => mem.dev[s] = "failed"
    OBVIOUS
  <2>3. \A s \in Slot : disk.dev[s] # "online" => mem.dev[s] # "online"
    OBVIOUS
  <2>4. VacantKnown'
    BY <2>1, <2>3 DEF PastReadonly
  <2>5. FailureRecorded'
    BY <2>1, <2>2
  <2>6. NoStaleOnline'
    <3> SUFFICES ASSUME NEW s \in stale PROVE mem.dev[s] # "online"
      BY <2>1
    <3>1. s \in Slot
      BY DEF TypeOK, MdTypeOK
    <3> QED
      BY <2>3, <3>1
  <2>7. NoStaleInSync'
    BY <2>1
  <2> QED
    BY <2>1, <2>4, <2>5, <2>6, <2>7
<1>9. CASE WriteState
  <2>1. /\ UNCHANGED <<device, blocked, stale, missing, mem, disk, unblock, remove>>
        /\ UNCHANGED <<currAction, prevAction>>
        /\ pc = "write_state" /\ pc' = "write_devs" /\ disk = mem
    BY <1>9 DEF WriteState, DiskIsMem
  <2>2. /\ arrayState' \in Running => arrayState \in Running
        /\ \/ arrayState' = arrayState
           \/ arrayState' \notin Running
           \/ nextState \in {"active", "clean", "read_auto"}
    BY <1>t, <1>9 DEF WriteState, AfterWrite, MdTypeOK, ArrayStates, Stopped, Running,
                      Readable, Writable
  <2>3. VacantKnown'
    BY <2>1, <2>2
  <2> QED
    BY <2>1, <2>3
<1>10. ASSUME NEW s \in Slot, Unblock(s) PROVE RecordInv'
  <2>1. disk.dev[s] = "failed"
    BY <1>10 DEF Unblock, DiskIsMem
  <2> QED
    BY <1>10, <2>1 DEF Unblock
<1>11. ASSUME NEW s \in Slot, Remove(s) PROVE RecordInv'
  <2>1. /\ UNCHANGED <<arrayState, blocked, stale, missing, mem, disk, unblock, remove>>
        /\ UNCHANGED <<currAction, prevAction>>
        /\ pc = "write_devs" /\ pc' = pc /\ disk = mem
    BY <1>11 DEF Remove, DiskIsMem
  <2>2. \A r \in Slot : \/ device'[r] = device[r]
                        \/ device'[r] = "removed" /\ disk.dev[r] = "failed"
    BY <1>t, <1>11, <2>1 DEF Remove, MdTypeOK
  <2> QED
    BY <2>1, <2>2
<1>12. CASE FinishPass
  BY <1>12 DEF FinishPass
<1> QED
  BY <1>1, <1>2, <1>3, <1>4, <1>5, <1>6, <1>7, <1>8, <1>9, <1>10, <1>11, <1>12
  DEF PassStep

\* A new pass of mdmon over an array, or a new assembly, starts from what the
\* disks record.
LEMMA RecordStep ==
    ASSUME RecordInv, [Next]_vars, (TypeOK /\ DiskIsMem /\ PassIsOpen /\ OnlyResync)'
    PROVE  RecordInv'
<1> USE DEF RecordInv, NoneRecovers, FailedStays, ActsOnRecorded, VacantKnown,
        VacantRecorded, FailureRecorded, NoStaleOnline, NoStaleInSync, InSync,
        mdVars, ctlVars, keptVars, passVars, metaVars
<1>t. MdTypeOK
  BY DEF TypeOK
<1>a. Forget /\ UNCHANGED mdVars /\ UNCHANGED missing => RecordInv'
  BY DEF Forget
<1>1. CASE Environment
  BY <1>1, RecordEnvironment
<1>2. CASE PassStep
  BY <1>2, RecordPass
<1>3. CASE IdleTurn
  BY <1>3 DEF IdleTurn
<1>4. CASE Open
  <2>1. /\ UNCHANGED <<arrayState, stale, missing, mem, disk, unblock, remove>>
        /\ UNCHANGED <<currAction, currState, nextState>>
        /\ prevAction' = "idle" /\ pc' = pc /\ pc = "wait"
    BY <1>4 DEF Open
  <2>2. \A s \in Slot : \/ device'[s] = device[s] /\ (s \in blocked => s \in blocked')
                        \/ device'[s] = "faulty" /\ s \in blocked'
    BY <1>4 DEF Open
  <2> QED
    BY <2>1, <2>2
<1>5. CASE SigTerm
  BY <1>5 DEF SigTerm
<1>6. CASE Exit
  BY <1>6, <1>a DEF Exit
<1>7. CASE MdmonCrash
  BY <1>7, <1>a DEF MdmonCrash
<1>8. CASE MdmonStart
  BY <1>8 DEF MdmonStart
<1>9. CASE HostCrash
  BY <1>9 DEF HostCrash, LosePower, Forget, Running, Readable, Writable
<1>10. CASE Assemble
  <2>1. pc \in {"wait", "dead"} /\ disk = mem
    BY <1>10 DEF Assemble, PassIsOpen, DiskIsMem
  <2>2. \A s \in Slot :
            device'[s] = IF disk.dev[s] = "online" /\ s \notin missing
                         THEN "in_sync" ELSE "removed"
    BY <1>10 DEF Assemble
  <2>3. /\ UNCHANGED <<stale, missing, mem, disk, unblock, remove, pc>>
        /\ UNCHANGED <<currAction, prevAction, currState, nextState>>
        /\ arrayState' = "readonly"
    BY <1>10 DEF Assemble, monVars
  <2>4. VacantKnown'
    BY <2>1, <2>2, <2>3 DEF PastReadonly, Writable
  <2>5. FailureRecorded' /\ NoStaleOnline' /\ NoStaleInSync'
    BY <2>2, <2>3
  <2> QED
    BY <2>3, <2>4, <2>5
<1>11. CASE UNCHANGED vars
  BY <1>11 DEF vars, monVars
<1> QED
  BY <1>1, <1>2, <1>3, <1>4, <1>5, <1>6, <1>7, <1>8, <1>9, <1>10, <1>11 DEF Next

-----------------------------------------------------------------------------
(* The theorems.                                                           *)

\* The strengthened invariant holds in every reachable state.
THEOREM TornInvariant == Unhurried /\ Spec => []TornInv
<1>1. Unhurried => []Unhurried
  <2>1. Unhurried => Unhurried'
    BY DEF Unhurried
  <2> QED
    BY <2>1, PTL
<1> QED
  BY TornInit, TornStep, <1>1, PTL DEF Spec

\* A torn array is never recorded as clean and fully initialised, whatever
\* crashed and when: the next assembly resynchronises it.
THEOREM TornIsNeverClean == Unhurried /\ Spec => []NoTornClean
<1>1. TornInv => NoTornClean
  BY DEF TornInv
<1> QED
  BY TornInvariant, <1>1, PTL

\* While the kernel lets writes through, the disks say that they are dirty.
THEOREM WritesOnlyWhenDirty == Unhurried /\ Spec => []DirtyBeforeWrite
<1>1. TornInv => DirtyBeforeWrite
  BY DEF TornInv
<1> QED
  BY TornInvariant, <1>1, PTL

\* What the disks record of the devices is never behind what the array does.
THEOREM RecordInvariant == Spec => []RecordInv
<1>1. Init => RecordInv
  BY RecordInit
<1>2. RecordInv /\ [Next]_vars => RecordInv'
  <2>1. RecordInv => BaseInv
    BY DEF RecordInv, BaseInv
  <2>2. RecordInv /\ [Next]_vars => (TypeOK /\ DiskIsMem /\ PassIsOpen /\ OnlyResync)'
    BY <2>1, BaseStep DEF BaseInv
  <2> QED
    BY <2>2, RecordStep
<1> QED
  BY <1>1, <1>2, PTL DEF Spec

\* mdmon lets writes go on without a failed device only after the disks
\* record the failure.
THEOREM FailuresAreRecorded == Spec => []FailureRecorded
<1>1. RecordInv => FailureRecorded
  BY DEF RecordInv
<1> QED
  BY RecordInvariant, <1>1, PTL

\* A disk that missed an acknowledged write is never recorded as online.
THEOREM StaleIsRecorded == Spec => []NoStaleOnline
<1>1. RecordInv => NoStaleOnline
  BY DEF RecordInv
<1> QED
  BY RecordInvariant, <1>1, PTL

\* Nor is it ever in sync in a running array.
THEOREM StaleIsLeftOut == Spec => []NoStaleInSync
<1>1. RecordInv => NoStaleInSync
  BY DEF RecordInv
<1> QED
  BY RecordInvariant, <1>1, PTL
=============================================================================
