--------------------------- MODULE ReshapeKernel ---------------------------
(***************************************************************************)
(* The md driver while it reshapes an array, as Grow.c drives it through   *)
(* sysfs: sync_max, suspend_lo, suspend_hi, sync_completed and the         *)
(* reshape position that is recorded on the devices.                       *)
(*                                                                         *)
(* The unit of an address is a chunk, that of a position on a device is a  *)
(* chunk too (a row).  Row r of the old layout holds before[r], and of the *)
(* new one after[r], consecutive addresses; a row is only one of them, so  *)
(* that writing a row in the new layout destroys what it held in the old.  *)
(***************************************************************************)
EXTENDS Integers

CONSTANTS Shapes   \* <<data disks before, data disks after, rows of a device>>

ASSUME ShapesAssumption == Shapes \subseteq (Nat \ {0}) \X (Nat \ {0}) \X (Nat \ {0})

VARIABLES
    before, after, size,   \* the shape
    rows,                  \* what a row holds: "old", "new", or "lost"
    active,                \* the devices record a reshape
    recorded,              \* its position: reshape_position of the superblocks
    up,                    \* the array runs and may be written to
    reshaping,             \* sync_action is "reshape"
    pos, busy,             \* where the driver is; it is writing the next row
    syncMax,               \* rows it may do
    suspendLo, suspendHi   \* writes to addresses between them wait

shapeVars == <<before, after, size>>
diskVars  == <<rows, active, recorded>>
driveVars == <<up, reshaping, pos, busy>>
suspVars  == <<suspendLo, suspendHi>>
kernelVars == <<shapeVars, diskVars, driveVars, syncMax, suspVars>>

Advancing == after >= before
Least(m, n) == IF m <= n THEN m ELSE n
Most(m, n)  == IF m <= n THEN n ELSE m

Total == size * Least(before, after)   \* addresses that hold data
Addr  == 0..(Total - 1)
Row   == 0..(size - 1)

OldRow(a) == a \div before
NewRow(a) == a \div after

\* Where a reshape starts and ends, and sync_completed at position p.
First   == IF Advancing THEN 0 ELSE size * after
Last    == IF Advancing THEN size * after ELSE 0
Done(p) == IF Advancing THEN p \div after ELSE size - p \div after

\* a was moved when the position was p.
Moved(a, p) == IF Advancing THEN a < p ELSE a >= p

NextRow == IF Advancing THEN pos \div after ELSE pos \div after - 1

KernelInit ==
    /\ \E s \in Shapes : before = s[1] /\ after = s[2] /\ size = s[3]
    /\ rows = [r \in Row |-> "old"]
    /\ active = FALSE /\ recorded = First
    /\ up = TRUE /\ reshaping = FALSE
    /\ pos = First /\ busy = FALSE
    /\ syncMax = 0 /\ suspendLo = 0 /\ suspendHi = 0

-----------------------------------------------------------------------------
(* The driver. It makes the position durable before it overwrites data that *)
(* the recorded position calls old, unless the row still holds data that is *)
(* to be moved: there only a backup can help (Grow.c:3297).                 *)

Overwrites(r) == {a \in Addr : OldRow(a) = r}
Critical(r)   == \E a \in Overwrites(r) : ~ Moved(a, pos)

StartRow ==
    /\ up /\ reshaping /\ ~ busy
    /\ pos # Last /\ Done(pos) < syncMax
    /\ busy' = TRUE
    /\ rows' = [rows EXCEPT ![NextRow] = "lost"]
    /\ UNCHANGED <<shapeVars, active, recorded, up, reshaping, pos, syncMax, suspVars>>

BeginRow ==
    /\ Critical(NextRow) \/ \A a \in Overwrites(NextRow) : Moved(a, recorded)
    /\ StartRow

EndRow ==
    /\ up /\ busy
    /\ busy' = FALSE
    /\ rows' = [rows EXCEPT ![NextRow] = "new"]
    /\ pos' = IF Advancing THEN pos + after ELSE pos - after
    /\ UNCHANGED <<shapeVars, active, recorded, up, reshaping, syncMax, suspVars>>

Checkpoint ==
    /\ up /\ reshaping /\ ~ busy /\ recorded # pos
    /\ recorded' = pos
    /\ UNCHANGED <<shapeVars, rows, active, driveVars, syncMax, suspVars>>

FinishReshape ==
    /\ up /\ reshaping /\ ~ busy /\ pos = Last /\ recorded = pos
    /\ active' = FALSE /\ reshaping' = FALSE
    /\ UNCHANGED <<shapeVars, rows, recorded, up, pos, busy, syncMax, suspVars>>

\* A write to a is let through: it is not suspended, and not in the row under way.
NotHeldUp(a) ==
    /\ up
    /\ ~ (suspendLo <= a /\ a < suspendHi)
    /\ ~ (busy /\ NewRow(a) = NextRow)

\* And if a was moved, the devices say so, where the driver writes them itself.
MayWrite(a) == NotHeldUp(a) /\ (Moved(a, pos) => Moved(a, recorded))

-----------------------------------------------------------------------------
\* Everything is where position p, with row contents c, says it is.
Complete(c, p) ==
    \A a \in Addr : IF Moved(a, p) THEN c[NewRow(a)] = "new" ELSE c[OldRow(a)] = "old"
=============================================================================
