--------------------------- MODULE ReshapeBackup ---------------------------
(***************************************************************************)
(* The child of mdadm --grow that watches the reshape of an array with     *)
(* native metadata (child_monitor and progress_reshape in Grow.c), and the *)
(* assembly after a crash (Grow_restart).                                  *)
(*                                                                         *)
(* While the array is written over data that has not been moved yet (all   *)
(* the way if the number of data disks stays, in the critical section      *)
(* otherwise), the child suspends writes to a range, copies it to one half *)
(* of a backup file, records in a header what the half holds, and lets the *)
(* driver go on as far as that.  Grow_restart puts the copy back in the    *)
(* new layout and moves the recorded position past it.                     *)
(***************************************************************************)
EXTENDS ReshapeKernel, FiniteSets

CONSTANTS Slide,       \* how far the suspended range is kept ahead, in units of backup
          Larger,      \* how many of them a half of the backup has if the disks stay
          MaxCrashes,  \* how often the machine may crash
          Happens      \* "early": the driver starts before the child asks it to;
                       \* "sigterm": the child is told to terminate;
                       \* "overwrite": users write to what a backup left behind holds;
                       \* "passed": users write to what a live half holds and was moved

VARIABLES
    pc,
    progress,      \* sra->reshape_progress
    backupPoint, suspendPoint, part,
    maxProgress,   \* max_progress of progress_reshape, as a number of rows
    more,          \* its result: 1, 0, -1 when the reshape is over, -2 if aborted
    hdr,           \* the header: what each half of the backup holds
    two,           \* its magic ends in '2': the second half was used
    held,          \* addresses whose present data a half holds
    crashes

childVars  == <<pc, progress, backupPoint, suspendPoint, part, maxProgress, more>>
backupVars == <<hdr, two, held>>
vars == <<kernelVars, childVars, backupVars, crashes>>

Half   == {0, 1}
Empty  == [lo |-> 0, hi |-> 0]
Range(h) == {a \in Addr : h.lo <= a /\ a < h.hi}
Full(p)  == hdr[p].lo < hdr[p].hi

Gcd(m, n) == CHOOSE d \in 1..Least(m, n) :
                /\ m % d = 0 /\ n % d = 0
                /\ \A e \in 1..Least(m, n) : m % e = 0 /\ n % e = 0 => e <= d

\* compute_backup_blocks: whole stripes of both layouts.
BackupBlocks == (before * after) \div Gcd(before, after)
Same         == before = after
Blocks       == IF Same THEN Larger * BackupBlocks ELSE BackupBlocks
Stripes      == Blocks \div before
Target       == Slide * BackupBlocks
NeedBackup   == IF Same THEN size * before ELSE BackupBlocks

TypeOK ==
    /\ rows \in [Row -> {"old", "new", "lost"}]
    /\ active \in BOOLEAN /\ up \in BOOLEAN /\ reshaping \in BOOLEAN /\ busy \in BOOLEAN
    /\ recorded \in 0..Most(First, Last) /\ pos \in 0..Most(First, Last)
    /\ syncMax \in 0..size
    /\ pc \in {"idle", "resume", "suspend", "allow", "wait", "forget", "backup", "header",
               "lift", "abort", "unlink", "done", "aborted",
               "down", "restoring", "super", "restored", "refused"}
    /\ progress \in 0..Most(First, Last)
    /\ backupPoint \in 0..(size * before) /\ suspendPoint \in 0..(size * before)
    /\ part \in Half /\ maxProgress \in 0..size /\ more \in {-2, -1, 0, 1}
    /\ hdr \in [Half -> [lo : 0..(size * before), hi : 0..(size * before)]]
    /\ two \in BOOLEAN /\ held \in [Half -> SUBSET Addr] /\ crashes \in 0..MaxCrashes

NoChild ==
    /\ progress' = 0 /\ backupPoint' = 0 /\ suspendPoint' = 0 /\ part' = 0
    /\ maxProgress' = 0 /\ more' = 0

\* Opening the backup file empties it, on a restart too (O_TRUNC).
WipeBackup == hdr' = [p \in Half |-> Empty] /\ two' = FALSE /\ held' = [p \in Half |-> {}]

Init ==
    /\ KernelInit
    /\ pc = "idle"
    /\ progress = 0 /\ backupPoint = 0 /\ suspendPoint = 0 /\ part = 0
    /\ maxProgress = 0 /\ more = 0
    /\ hdr = [p \in Half |-> Empty] /\ two = FALSE /\ held = [p \in Half |-> {}]
    /\ crashes = 0

-----------------------------------------------------------------------------
(* reshape_array: open the backup, impose the shape, start the reshape at   *)
(* position p and the child. start_reshape writes "max" to sync_max when    *)
(* the metadata is native; that nothing happens before the child has set    *)
(* it is a matter of time, and assumed unless "early" happens.              *)

Launch(p) ==
    /\ WipeBackup
    /\ active' = TRUE /\ recorded' = p /\ pos' = p
    /\ up' = TRUE /\ reshaping' = TRUE
    /\ suspendLo' = p /\ suspendHi' = p
    /\ syncMax' = IF "early" \in Happens THEN size ELSE Done(p)
    /\ pc' = "resume"
    /\ progress' = p
    /\ backupPoint' = IF Advancing THEN p ELSE BackupBlocks
    /\ suspendPoint' = IF Advancing THEN 0 ELSE size * before
    /\ part' = 0 /\ maxProgress' = 0 /\ more' = 0
    /\ UNCHANGED <<shapeVars, rows, busy, crashes>>

\* mdadm --grow; it gives up when the backup would be half the array.
Grow ==
    /\ pc = "idle" /\ 2 * Blocks < size
    /\ Launch(First)

-----------------------------------------------------------------------------
(* One turn of child_monitor.                                               *)

ResumeWrites ==
    /\ pc = "resume"
    /\ IF Advancing
       THEN /\ suspendLo' = IF progress <= suspendPoint THEN progress ELSE suspendLo
            /\ UNCHANGED suspendHi
       ELSE /\ suspendHi' = IF progress >= suspendPoint THEN progress ELSE suspendHi
            /\ UNCHANGED suspendLo
    /\ pc' = "suspend"
    /\ UNCHANGED <<shapeVars, diskVars, driveVars, syncMax, progress, backupPoint,
                   suspendPoint, part, maxProgress, more, backupVars, crashes>>

\* As far as it is safe to go: to the end of the backup while data would be read
\* from where it is written, and freely otherwise.
SafePoint ==
    LET read  == progress \div before
        write == progress \div after
    IN  CASE Advancing   -> IF read < write + 1 THEN backupPoint ELSE read * after
          [] ~ Advancing -> IF read > write - 1 \/ progress <= NeedBackup
                            THEN backupPoint ELSE NeedBackup

\* The range is pushed on before the reshape gets to its end.
Extends ==
    IF Advancing THEN NeedBackup > progress /\ suspendPoint < progress + Target
                 ELSE progress < 2 * NeedBackup /\ suspendPoint > 0

NextSuspendPoint ==
    CASE ~ Extends   -> suspendPoint
      [] Extends /\ ~ Advancing -> 0
      [] OTHER       -> IF NeedBackup < suspendPoint + 2 * Target THEN NeedBackup
                        ELSE Least(suspendPoint + 2 * Target, size * before)

\* Mutant: the position is rounded to the row before it.
InRowsShort(p) ==
    LET r == Least(Most(p - 1, 0) \div after, size) IN IF Advancing THEN r ELSE size - r

InRows(p) == LET r == Least(p \div after, size) IN IF Advancing THEN r ELSE size - r

SuspendMore ==
    /\ pc = "suspend"
    /\ suspendPoint' = NextSuspendPoint
    /\ suspendHi' = IF ~ Extends THEN suspendHi
                    ELSE IF Advancing THEN NextSuspendPoint ELSE NeedBackup
    /\ suspendLo' = IF Extends /\ ~ Advancing THEN 0 ELSE suspendLo
    /\ maxProgress' = InRows(IF Advancing /\ Extends THEN Least(SafePoint, NextSuspendPoint)
                                                     ELSE SafePoint)
    /\ pc' = "allow"
    /\ UNCHANGED <<shapeVars, diskVars, driveVars, syncMax, progress, backupPoint, part,
                   more, backupVars, crashes>>

AllowProgress ==
    /\ pc = "allow"
    /\ syncMax' = maxProgress
    /\ pc' = "wait"
    /\ UNCHANGED <<shapeVars, diskVars, driveVars, suspVars, progress, backupPoint,
                   suspendPoint, part, maxProgress, more, backupVars, crashes>>

\* The turn ends when the older half of the backup can be released.
WaitPoint ==
    IF Full(part) THEN (IF Advancing THEN hdr[part].hi ELSE hdr[part].lo)
                  ELSE (IF Advancing THEN size * after ELSE 0)
WaitRows == IF Advancing THEN WaitPoint \div after ELSE size - WaitPoint \div after

WaitForReshape ==
    /\ pc = "wait"
    /\ \/ /\ active
          /\ Done(recorded) >= Least(maxProgress, WaitRows)
          /\ progress' = IF Done(recorded) = 0 THEN progress ELSE recorded
          /\ more' = IF (IF Advancing THEN NeedBackup > progress ELSE NeedBackup >= progress)
                     THEN 1 ELSE 0
       \/ ~ active /\ more' = -1 /\ UNCHANGED progress
    /\ pc' = "forget"
    /\ UNCHANGED <<kernelVars, backupPoint, suspendPoint, part, maxProgress, backupVars, crashes>>

\* What half p holds was moved, and the devices say so.
Released(p) ==
    Full(p) /\ (IF Advancing THEN progress >= hdr[p].hi ELSE progress <= hdr[p].lo)

ForgetBackup(p) ==
    /\ pc = "forget" /\ Released(p) /\ \A q \in Half : Released(q) => p <= q
    /\ hdr' = [hdr EXCEPT ![p] = Empty]
    /\ UNCHANGED <<kernelVars, childVars, two, held, crashes>>

AfterForget ==
    /\ pc = "forget" /\ \A p \in Half : ~ Released(p)
    /\ \/ /\ "sigterm" \in Happens
          /\ more' = -2 /\ pc' = "lift"
          /\ UNCHANGED syncMax
       \/ /\ UNCHANGED more
          /\ pc' = IF more = -1 \/ (more = 0 /\ Advancing) THEN "lift"
                   ELSE IF more = 1 THEN "backup" ELSE "resume"
          /\ syncMax' = IF more = 0 /\ Advancing THEN size ELSE syncMax
    /\ UNCHANGED <<shapeVars, diskVars, driveVars, suspVars, progress, backupPoint,
                   suspendPoint, part, maxProgress, backupVars, crashes>>

\* The next rows to back up, if they are suspended.
BackupRows ==
    LET from == backupPoint \div before
    IN  IF Advancing THEN [lo |-> from, hi |-> Least(from + Stripes, size)]
                     ELSE [lo |-> Most(from - Stripes, 0), hi |-> from]

\* Mutant: the range need not be suspended yet.
CanBackupAnywhere == ~ Full(part) /\ BackupRows.lo < BackupRows.hi

CanBackup ==
    /\ ~ Full(part) /\ BackupRows.lo < BackupRows.hi
    /\ IF Advancing THEN BackupRows.hi <= suspendPoint \div before
                    ELSE BackupRows.lo >= suspendPoint \div before
BackupRange == [lo |-> BackupRows.lo * before, hi |-> BackupRows.hi * before]

\* save_stripes reads the rows in the old layout.
SaveData ==
    /\ pc = "backup" /\ CanBackup
    /\ held' = [held EXCEPT ![part] = {a \in Range(BackupRange) :
                    rows[OldRow(a)] = "old" /\ ~ Moved(a, pos)}]
    /\ pc' = "header"
    /\ UNCHANGED <<kernelVars, progress, backupPoint, suspendPoint, part, maxProgress, more,
                   hdr, two, crashes>>

NoMoreBackup ==
    /\ pc = "backup" /\ ~ CanBackup
    /\ pc' = "resume"
    /\ UNCHANGED <<kernelVars, progress, backupPoint, suspendPoint, part, maxProgress, more,
                   backupVars, crashes>>

WriteHeader ==
    /\ pc = "header"
    /\ hdr' = [hdr EXCEPT ![part] = BackupRange]
    /\ two' = (two \/ part = 1)
    /\ part' = 1 - part
    /\ backupPoint' = IF Advancing THEN BackupRange.hi ELSE BackupRange.lo
    /\ pc' = "backup"
    /\ UNCHANGED <<kernelVars, progress, suspendPoint, maxProgress, more, held, crashes>>

\* The end of child_monitor.
LiftSuspension ==
    /\ pc = "lift"
    /\ suspendLo' = 0 /\ suspendHi' = 0
    /\ pc' = IF more = -2 THEN "abort" ELSE "unlink"
    /\ UNCHANGED <<shapeVars, diskVars, driveVars, syncMax, progress, backupPoint,
                   suspendPoint, part, maxProgress, more, backupVars, crashes>>

\* When told to terminate it stops the reshape and leaves the backup behind
\* (abort_reshape: "Array really should be stopped at this point").
AbortReshape ==
    /\ pc = "abort"
    /\ reshaping' = FALSE /\ suspendLo' = 0 /\ suspendHi' = 0
    /\ pc' = "aborted"
    /\ UNCHANGED <<shapeVars, diskVars, up, pos, busy, syncMax, progress, backupPoint,
                   suspendPoint, part, maxProgress, more, backupVars, crashes>>

UnlinkBackup ==
    /\ pc = "unlink"
    /\ WipeBackup
    /\ NoChild /\ pc' = "done"
    /\ UNCHANGED <<kernelVars, crashes>>

-----------------------------------------------------------------------------
(* Crash, and what assembly makes of the devices and of the backup.         *)

Crash ==
    /\ active /\ crashes < MaxCrashes /\ pc # "refused"
    /\ crashes' = crashes + 1
    /\ pc' = "down" /\ NoChild
    /\ up' = FALSE /\ reshaping' = FALSE /\ busy' = FALSE /\ pos' = recorded
    /\ syncMax' = 0 /\ suspendLo' = 0 /\ suspendHi' = 0
    /\ UNCHANGED <<shapeVars, diskVars, backupVars>>

Backed == {p \in Half : Full(p) /\ (p = 1 => two)}

\* Grow_restart finds that the backup holds nothing that is not on the array.
NotNeeded ==
    IF Advancing THEN \A p \in Half : (p = 1 => two) => hdr[p].hi < recorded
                 ELSE \A p \in Half : (p = 1 => two) => hdr[p].lo >= recorded

Usable == Backed # {} /\ ~ NotNeeded

\* restore_stripes writes each half in the new layout.
RestoredRow(r) ==
    LET onRow == {a \in Addr : NewRow(a) = r}
    IN  CASE \E p \in Backed : onRow \cap Range(hdr[p]) # {} ->
                  IF onRow \subseteq UNION {Range(hdr[p]) \cap held[p] : p \in Backed}
                  THEN "new" ELSE "lost"
          [] OTHER -> rows[r]
RestoredRows == [r \in Row |-> RestoredRow(r)]

\* lo and hi: the range that both halves cover.
Covered ==
    CASE Backed = Half -> IF hdr[0].lo < hdr[1].lo THEN [lo |-> hdr[0].lo, hi |-> hdr[1].hi]
                                                   ELSE [lo |-> hdr[1].lo, hi |-> hdr[0].hi]
      [] Backed # Half -> hdr[CHOOSE p \in Backed : TRUE]

RestoredPos ==
    IF recorded < Covered.lo \/ recorded > Covered.hi THEN recorded
    ELSE IF Advancing THEN IF two THEN Most(hdr[0].hi, hdr[1].hi) ELSE hdr[0].hi
                      ELSE IF two THEN Least(hdr[0].lo, hdr[1].lo) ELSE hdr[0].lo

\* Where the critical section ends: the first row that is written after it was read.
CriticalEnd ==
    IF Advancing
    THEN after * CHOOSE n \in 1..size :
            /\ n < (n * after) \div before
            /\ \A m \in 1..(n - 1) : m >= (m * after) \div before
    ELSE before * CHOOSE n \in 1..size :
            /\ n < (n * before) \div after
            /\ \A m \in 1..(n - 1) : m >= (m * before) \div after
Needed == Same \/ recorded < CriticalEnd

Assemble ==
    /\ pc = "down"
    /\ pc' = IF Usable THEN "restoring" ELSE IF Needed THEN "refused" ELSE "restored"
    /\ rows' = IF Usable
               THEN [r \in Row |-> IF RestoredRow(r) # rows[r] THEN "lost" ELSE rows[r]]
               ELSE rows
    /\ UNCHANGED <<shapeVars, active, recorded, driveVars, syncMax, suspVars, progress,
                   backupPoint, suspendPoint, part, maxProgress, more, backupVars, crashes>>

RestoreStripes ==
    /\ pc = "restoring"
    /\ rows' = RestoredRows
    /\ pc' = "super"
    /\ UNCHANGED <<shapeVars, active, recorded, driveVars, syncMax, suspVars, progress,
                   backupPoint, suspendPoint, part, maxProgress, more, backupVars, crashes>>

UpdateSupers ==
    /\ pc = "super"
    /\ recorded' = RestoredPos /\ pos' = RestoredPos
    /\ pc' = "restored"
    /\ UNCHANGED <<shapeVars, rows, active, up, reshaping, busy, syncMax, suspVars, progress,
                   backupPoint, suspendPoint, part, maxProgress, more, backupVars, crashes>>

\* start_array: an array that does not grow is continued by Grow_continue, with a
\* child; one that grows is just run, and the driver goes on alone.
Continue ==
    /\ pc = "restored" /\ ~ (after > before)
    /\ Launch(recorded)

RunArray ==
    /\ pc = "restored" /\ after > before
    /\ pc' = "done"
    /\ up' = TRUE /\ reshaping' = TRUE /\ syncMax' = size
    /\ UNCHANGED <<shapeVars, diskVars, pos, busy, suspVars, progress, backupPoint,
                   suspendPoint, part, maxProgress, more, backupVars, crashes>>

-----------------------------------------------------------------------------
\* A growing array was restarted from a backup that nobody erases, and its position
\* is still the end of that backup; or the child was told to terminate and has left
\* its backup behind.
LeftBackup ==
    \/ pc = "done" /\ active /\ Backed # {} /\ recorded <= Covered.hi
    \/ pc \in {"abort", "aborted"}

\* The driver is past a, but not past the half that holds it, which is still to be
\* released: suspend_lo follows the driver, and is not held back by the half.
Passed(a) ==
    /\ pc \notin {"done", "abort", "aborted"}
    /\ \E p \in Half : a \in Range(hdr[p]) /\ Moved(a, recorded)

\* Users write: what the backup holds of that address is not its data any more.
UserWrite ==
    \E a \in held[0] \cup held[1] :
        /\ MayWrite(a) /\ (LeftBackup => "overwrite" \in Happens)
        /\ (Passed(a) => "passed" \in Happens)
        /\ held' = [p \in Half |-> held[p] \ {a}]
        /\ UNCHANGED <<kernelVars, childVars, hdr, two, crashes>>

Driver == (BeginRow \/ EndRow \/ Checkpoint \/ FinishReshape)
          /\ UNCHANGED <<childVars, backupVars, crashes>>

Child ==
    \/ Grow \/ ResumeWrites \/ SuspendMore \/ AllowProgress \/ WaitForReshape
    \/ (\E p \in Half : ForgetBackup(p)) \/ AfterForget
    \/ SaveData \/ NoMoreBackup \/ WriteHeader \/ LiftSuspension \/ AbortReshape \/ UnlinkBackup

Restart == Assemble \/ RestoreStripes \/ UpdateSupers \/ Continue \/ RunArray

Next == Driver \/ Child \/ UserWrite \/ Crash \/ Restart

Spec == Init /\ [][Next]_vars

\* The driver goes on while it may, and nothing keeps mdadm from its next step.
FairSpec == Spec /\ WF_vars(Driver) /\ WF_vars(Child) /\ WF_vars(Restart)
-----------------------------------------------------------------------------
\* What Grow_restart would make of the devices if the machine crashed now.
Recoverable ==
    IF active /\ Usable THEN Complete(RestoredRows, RestoredPos) ELSE Complete(rows, recorded)

\* Crash safety (Grow.c:3288, "so that we can restore data after a crash"): at every
\* instant, also in the middle of a row, of a backup or of another restart, the
\* devices and the backup together hold the present data of every address, and
\* Grow_restart finds it.
NothingLost == Recoverable

\* While the array is watched, what a live half covers, and was not released, can not
\* be written to: the copy does not grow stale.
BackupIsCurrent ==
    \A p \in Half : up /\ pc \notin {"done", "abort", "aborted"} /\ Full(p) /\ recorded # Last =>
        \A a \in Range(hdr[p]) : a \in held[p] \/ Moved(a, recorded)

\* The reshape ends, or assembly asks for a backup: the child and the driver never
\* wait for each other.
ReshapeEnds == <>(pc \in {"refused", "aborted"} \/ (pc # "idle" /\ ~ active))
=============================================================================
