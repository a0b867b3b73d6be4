-------------------------- MODULE GeneralMigration --------------------------
(***************************************************************************)
(* The reshape of an IMSM volume ("general migration" in super-intel.c).   *)
(* The driver records no position; mdadm keeps a migration record on the   *)
(* first two disks of the volume, and works in units of Depth rows.  While *)
(* a unit is written over data that has not been moved, imsm_manage_reshape*)
(* first writes the unit, in the new layout, to a copy area at the end of  *)
(* each disk, and sets the record to say so; an assembly that finds such a *)
(* record writes the copy to where the unit belongs and goes on after it.  *)
(***************************************************************************)
EXTENDS ReshapeKernel

CONSTANTS Depth,       \* rows of the copy area
          MaxCrashes,  \* how often the machine may crash
          Happens      \* "sigterm": mdadm is told to terminate;
                       \* "kill": mdadm is killed, and mdadm --grow --continue is run;
                       \* "hasty": it is run before the driver has come to sync_max;
                       \* "overwrite": users write to what a copy left behind holds;
                       \* "unsuspended": and to what is copied, before it is suspended;
                       \* "last": a crash while the last unit is in the copy area;
                       \* "slow": mdmon is slower than mdadm at the end;
                       \* "reorder": the disks are found in another order after each crash

VARIABLES
    pc,
    progress,   \* sra->reshape_progress
    step,       \* next_step, once it is a position
    mem,        \* super->migr_rec of the mdadm that runs
    rec,        \* the record on each of the two disks
    first,      \* the disk that comes first in super->disks
    todo,       \* the disks that write_imsm_migr_rec has not written yet
    copy,       \* the copy area: its unit, and the addresses whose present data it holds
    crashes

mdadmVars == <<pc, progress, step, mem, todo>>
diskListVars == <<rec, first, copy>>
vars == <<kernelVars, mdadmVars, diskListVars, crashes>>

Slot  == {1, 2}
Unit  == Depth * after                    \* blocks_per_unit
Units == (size + Depth - 1) \div Depth    \* get_num_migr_units
End   == size * after                     \* max_position

\* A record: the unit it is at, and whether that unit is in the copy area
\* (UNIT_SRC_IN_CP_AREA). A cleared one has no blocks_per_unit.
Record    == [unit : 0..Units, copied : BOOLEAN, valid : BOOLEAN]
NoRecord  == [unit |-> 0, copied |-> FALSE, valid |-> FALSE]
At(p, c)  == [unit |-> (p + Unit - 1) \div Unit, copied |-> c, valid |-> TRUE]

InUnit(u) == {a \in Addr : u * Unit <= a /\ a < (u + 1) * Unit}
RowsOf(u) == {r \in Row : u * Depth <= r /\ r < (u + 1) * Depth}

Init ==
    /\ KernelInit
    /\ pc = "idle" /\ progress = 0 /\ step = 0
    /\ mem = NoRecord /\ rec = [s \in Slot |-> NoRecord] /\ todo = {} /\ first = 1
    /\ copy = [unit |-> 0, held |-> {}]
    /\ crashes = 0

-----------------------------------------------------------------------------
(* From the metadata that says that the volume migrates to a driver that    *)
(* reshapes, and may not move yet. Of a volume that does not end with a     *)
(* whole unit the last position is past the end.                            *)

Start(p) ==
    /\ active' = TRUE /\ up' = TRUE /\ reshaping' = TRUE
    /\ pos' = Least(p, End) /\ syncMax' = Done(pos')
    /\ suspendLo' = p /\ suspendHi' = p
    /\ progress' = p /\ step' = p
    /\ UNCHANGED <<shapeVars, rows, recorded, busy, diskListVars, crashes>>

Grow ==
    /\ pc = "idle"
    /\ Start(0)
    /\ pc' = "begin"
    /\ UNCHANGED <<mem, todo>>

\* The head of imsm_manage_reshape: a new record, or the position of the driver in the
\* old one. It does not go on with a unit that is in the copy area.
Begin ==
    /\ pc = "begin"
    /\ CASE progress = 0 -> mem' = At(0, FALSE) /\ todo' = Slot /\ pc' = "record"
         [] progress # 0 /\ ~ mem.copied ->
               mem' = At(progress, FALSE) /\ todo' = Slot /\ pc' = "record"
         [] OTHER -> pc' = "lift" /\ UNCHANGED <<mem, todo>>
    /\ UNCHANGED <<kernelVars, progress, step, diskListVars, crashes>>

\* write_imsm_migr_rec: the two disks one after the other, as they are in the list.
WriteRecord(s) ==
    /\ s \in todo /\ (first \in todo => s = first)
    /\ todo' = todo \ {s}
    /\ rec' = [rec EXCEPT ![s] = mem]
    /\ UNCHANGED <<kernelVars, pc, progress, step, mem, first, copy, crashes>>

-----------------------------------------------------------------------------
(* The loop of imsm_manage_reshape.                                         *)

Position == mem.unit * Unit
\* How many rows lie between what is written and what is read for it.
Border   == (Position \div before) - (Position \div after)
CriticalUnit == Border <= Depth

NextStep ==
    LET one == Least(Unit, End - Position)
        n   == Border \div one
    IN  IF ~ CriticalUnit /\ n > 1 THEN one * n ELSE one

Recorded == pc = "record" /\ todo = {} /\ ~ mem.copied

\* save_stripes and save_backup_imsm, then the record.
SaveBackup ==
    /\ Recorded /\ mem.unit < Units /\ CriticalUnit
    /\ copy' = [unit |-> mem.unit,
                held |-> {a \in InUnit(mem.unit) : rows[OldRow(a)] = "old" /\ ~ Moved(a, pos)}]
    /\ step' = Least(progress + NextStep, End)
    /\ mem' = At(progress, TRUE) /\ todo' = Slot
    /\ UNCHANGED <<kernelVars, pc, progress, rec, first, crashes>>

SuspendLo ==
    /\ \/ Recorded /\ mem.unit < Units /\ ~ CriticalUnit
          /\ step' = Least(progress + NextStep, End)
       \/ pc = "record" /\ todo = {} /\ mem.copied /\ UNCHANGED step
    /\ suspendLo' = progress
    /\ pc' = "suspend"
    /\ UNCHANGED <<shapeVars, diskVars, driveVars, syncMax, suspendHi, progress, mem, todo,
                   diskListVars, crashes>>

SuspendHi ==
    /\ pc = "suspend"
    /\ suspendHi' = step /\ progress' = step
    /\ pc' = "allow"
    /\ UNCHANGED <<shapeVars, diskVars, driveVars, syncMax, suspendLo, step, mem, todo,
                   diskListVars, crashes>>

AllowProgress ==
    /\ pc = "allow"
    /\ syncMax' = progress \div after
    /\ pc' = "wait"
    /\ UNCHANGED <<shapeVars, diskVars, driveVars, suspVars, progress, step, mem, todo,
                   diskListVars, crashes>>

\* wait_for_reshape_imsm, and the check of sigterm after it; the checkpoint is saved
\* unless mdadm terminates.
WaitForReshape ==
    /\ pc = "wait" /\ ~ busy
    /\ Done(pos) >= syncMax \/ ~ reshaping
    /\ \/ /\ mem' = At(progress, FALSE) /\ todo' = Slot /\ pc' = "record"
       \/ /\ "sigterm" \in Happens
          /\ pc' = "lift" /\ UNCHANGED <<mem, todo>>
    /\ UNCHANGED <<kernelVars, progress, step, diskListVars, crashes>>

\* All units are done: the records are cleared. Whether mdmon has recorded the end of
\* the migration by then, nobody asks.
MigrationDone ==
    /\ Recorded /\ mem.unit >= Units
    /\ active => "slow" \in Happens
    /\ mem' = NoRecord /\ todo' = Slot /\ pc' = "clear"
    /\ UNCHANGED <<kernelVars, progress, step, diskListVars, crashes>>

\* The label abort: whether the reshape is done or not, nothing stays suspended, and
\* abort_reshape stops one that is not done.
LiftSuspension ==
    /\ pc = "lift" \/ (pc = "clear" /\ todo = {})
    /\ suspendLo' = 0 /\ suspendHi' = 0
    /\ reshaping' = (reshaping /\ pc = "clear")
    /\ pc' = IF pc = "clear" THEN "done" ELSE "aborted"
    /\ UNCHANGED <<shapeVars, diskVars, up, pos, busy, syncMax, progress, step, mem, todo,
                   diskListVars, crashes>>

-----------------------------------------------------------------------------
(* The driver, and mdmon.                                                   *)

DriverDone ==
    /\ up /\ reshaping /\ ~ busy /\ pos = Last
    /\ reshaping' = FALSE
    /\ UNCHANGED <<shapeVars, diskVars, up, pos, busy, syncMax, suspVars>>

Driver == (StartRow \/ EndRow \/ DriverDone) /\ UNCHANGED <<mdadmVars, diskListVars, crashes>>

\* The monitor sees a reshape that became idle, with reshape_position "none".
EndMigration ==
    /\ active /\ up /\ ~ reshaping /\ pos = Last
    /\ active' = FALSE
    /\ UNCHANGED <<shapeVars, rows, recorded, driveVars, syncMax, suspVars, mdadmVars,
                   diskListVars, crashes>>

-----------------------------------------------------------------------------
(* mdadm is killed, and mdadm --grow --continue takes its place. Where the  *)
(* driver is, is read from sync_max.                                        *)

Working == {"begin", "record", "suspend", "allow", "wait"}

Kill ==
    /\ "kill" \in Happens /\ pc \in Working /\ active
    /\ pc' = "killed" /\ mem' = NoRecord /\ todo' = {} /\ progress' = 0 /\ step' = 0
    /\ UNCHANGED <<kernelVars, diskListVars, crashes>>

\* Mutant: the driver is to go on with the unit that was restored.
ProgressAt(r) == r.unit * Unit

\* getinfo_super_imsm_volume: a unit that is in the copy area counts as done, unless it
\* is the last one.
Progress(r) == (IF r.copied /\ r.unit < Units - 1 THEN r.unit + 1 ELSE r.unit) * Unit

CaughtUp == ~ busy /\ Done(pos) >= syncMax

ContinueCommand ==
    /\ pc = "killed" /\ active
    /\ CaughtUp \/ "hasty" \in Happens
    /\ Progress(rec[first]) <= syncMax * after   \* else "was not properly frozen"
    /\ mem' = rec[first]
    /\ progress' = syncMax * after /\ step' = progress'
    /\ suspendLo' = progress' /\ suspendHi' = progress'
    /\ pc' = "begin"
    /\ UNCHANGED <<shapeVars, diskVars, driveVars, syncMax, todo, diskListVars, crashes>>

-----------------------------------------------------------------------------
(* Crash, and the assembly after it.                                        *)

LastIsCopied == \E s \in Slot : rec[s].copied /\ rec[s].unit = Units - 1
MayCrash     == active /\ (LastIsCopied => "last" \in Happens)
NextFirst    == IF crashes = 0 \/ "reorder" \in Happens THEN Slot ELSE {first}

Crash ==
    /\ MayCrash /\ crashes < MaxCrashes /\ pc # "refused"
    /\ crashes' = crashes + 1
    /\ pc' = "down" /\ mem' = NoRecord /\ todo' = {} /\ progress' = 0 /\ step' = 0
    /\ up' = FALSE /\ reshaping' = FALSE /\ busy' = FALSE /\ pos' = 0
    /\ syncMax' = 0 /\ suspendLo' = 0 /\ suspendHi' = 0
    /\ first' \in NextFirst
    /\ UNCHANGED <<shapeVars, diskVars, rec, copy>>

\* load_imsm_migr_rec reads the record of the disk that comes first in the list, which
\* need not be the one that was written first.
LoadRecord ==
    /\ pc = "down"
    /\ mem' = rec[first] /\ progress' = Progress(mem')
    /\ pc' = IF ~ mem'.copied THEN "assembled"
             ELSE IF mem'.unit >= Units THEN "refused" ELSE "restoring"
    /\ UNCHANGED <<kernelVars, step, todo, diskListVars, crashes>>

\* What recover_backup_imsm makes of the rows of unit u.
RestoredRows(u) ==
    [r \in Row |->
        IF r \notin RowsOf(u) THEN rows[r]
        ELSE IF copy.unit = u /\ {a \in Addr : NewRow(a) = r} \subseteq copy.held
             THEN "new" ELSE "lost"]

\* It writes one disk after the other: before the last is written a row is neither.
RestoreFirst ==
    /\ pc = "restoring"
    /\ rows' = [r \in Row |->
                  IF rows[r] # RestoredRows(mem.unit)[r] THEN "lost" ELSE rows[r]]
    /\ pc' = "restoringlast"
    /\ UNCHANGED <<shapeVars, active, recorded, driveVars, syncMax, suspVars, progress, step,
                   mem, todo, diskListVars, crashes>>

RestoreLast ==
    /\ pc = "restoringlast"
    /\ rows' = RestoredRows(mem.unit)
    /\ mem' = At(progress, FALSE) /\ todo' = Slot
    /\ pc' = "assembled"
    /\ UNCHANGED <<shapeVars, active, recorded, driveVars, syncMax, suspVars, progress, step,
                   diskListVars, crashes>>

\* assemble_container_content gives the driver the position and starts the array;
\* Grow_continue goes on with the reshape.
Continue ==
    /\ pc = "assembled" /\ todo = {}
    /\ Start(progress)
    /\ pc' = "begin"
    /\ UNCHANGED <<mem, todo>>

-----------------------------------------------------------------------------
\* The copy is vouched for although nothing keeps users away.
LeftCopy ==
    pc \in {"lift", "aborted", "killed", "begin"} \/ (pc = "record" /\ ~ mem.copied)

\* The unit was copied, and its range is not suspended yet.
BeforeSuspension == pc \in {"record", "suspend"} /\ mem.copied

Vouched == (\E s \in Slot : rec[s].copied) \/ (pc = "record" /\ mem.copied)

\* Users write: what the copy holds of that address is not its data any more.
UserWrite ==
    \E a \in copy.held :
        /\ Vouched /\ NotHeldUp(a)
        /\ LeftCopy => "overwrite" \in Happens
        /\ BeforeSuspension => "unsuspended" \in Happens
        /\ copy' = [copy EXCEPT !.held = @ \ {a}]
        /\ UNCHANGED <<kernelVars, mdadmVars, rec, first, crashes>>

Mdadm ==
    \/ Grow \/ Begin \/ (\E s \in Slot : WriteRecord(s))
    \/ SaveBackup \/ SuspendLo \/ SuspendHi \/ AllowProgress \/ WaitForReshape
    \/ MigrationDone \/ LiftSuspension

Restart ==
    \/ LoadRecord \/ ContinueCommand
    \/ RestoreFirst \/ RestoreLast \/ Continue

Next == Driver \/ EndMigration \/ Mdadm \/ UserWrite \/ Kill \/ Crash \/ Restart

Spec == Init /\ [][Next]_vars
FairSpec ==
    Spec /\ WF_vars(Driver) /\ WF_vars(EndMigration) /\ WF_vars(Mdadm) /\ WF_vars(Restart)
-----------------------------------------------------------------------------
TypeOK ==
    /\ rows \in [Row -> {"old", "new", "lost"}]
    /\ pos \in 0..End /\ syncMax \in 0..size
    /\ pc \in Working \cup {"idle", "clear", "lift", "done", "aborted", "killed", "down",
                            "restoring", "restoringlast", "assembled", "refused"}
    /\ progress \in 0..(Units * Unit) /\ step \in 0..(Units * Unit)
    /\ mem \in Record /\ rec \in [Slot -> Record] /\ todo \subseteq Slot /\ first \in Slot
    /\ copy \in [unit : 0..Units, held : SUBSET Addr]
    /\ crashes \in 0..MaxCrashes

\* What the assembly would make of the disks if the machine crashed now and the record
\* of disk s were read.
Recoverable(s) ==
    Complete(IF rec[s].copied THEN RestoredRows(rec[s].unit) ELSE rows, Progress(rec[s]))

\* Crash safety (super-intel.c:326, "Source data for curr_migr_unit"): at every instant,
\* in the middle of a row, of a copy, of the two records or of another restart, the disks
\* and the copy area together hold the present data of every address, and whichever of
\* the two records is read finds it.
NothingLost == MayCrash => \A s \in NextFirst : Recoverable(s)

\* The reshape ends, is aborted, or waits for somebody to continue it.
ReshapeEnds == <>(pc \in {"refused", "aborted", "killed"} \/ (pc = "done" /\ ~ active))
=============================================================================
