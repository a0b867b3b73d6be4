--------------------------- MODULE ReshapeProofs ---------------------------
(***************************************************************************)
(* That a reshape loses nothing, of an IMSM volume and with a backup file, *)
(* for every shape, every depth of the copy area or size of the backup and *)
(* any number of crashes: at every instant the disks and the copy hold the *)
(* present data, and the next assembly finds them.                         *)
(*                                                                         *)
(* The migration of a volume: the records are Good, that is, what they say *)
(* of the rows is so, but for the rows of a unit that is in the copy area; *)
(* the driver may only write rows that are Harmless to all of them (behind *)
(* what a record without a copy still needs, or inside the unit that is    *)
(* copied); mdadm raises sync_max only so far.  A new record is written    *)
(* while the driver stands where the unit begins, so that both the old one *)
(* and the new one are good, on whichever disk they are.                   *)
(*                                                                         *)
(* The backup file: every row is what the positions say it is (RowsKnown), *)
(* but for the rows whose old data are all in the backup; what the header  *)
(* says is in the backup, while a restart would use it, and it reaches     *)
(* around the recorded position (HeaderInv).  The child lets the driver go *)
(* to the end of what was backed up and no further, in one of three ways:  *)
(* the halves follow each other up to where the driver may go (SlidingInv, *)
(* if the disks stay); one unit is backed up before anything is written    *)
(* (GrowingInv), or before the last unit is (ShrinkingInv).  What is       *)
(* backed up is suspended until it was moved (SuspendedInv).               *)
(***************************************************************************)
EXTENDS Reshape, WellFoundedInduction, TLAPS

\* The disks that hold the record.
Slot == {1, 2}

\* The rows the driver has written.
Driven == pos \div after

\* A record that vouches for a copy is of a unit.
RecordOf(q) == q \in Imsm!Record /\ (q.copied => q.unit < Imsm!Units)

\* The types of the migration, and what a few of its variables are at each place.
Types ==
    /\ Imsm!TypeOK
    /\ before \in Nat \ {0} /\ after \in Nat \ {0} /\ size \in Nat \ {0} /\ before <= after
    /\ active \in BOOLEAN /\ up \in BOOLEAN /\ reshaping \in BOOLEAN /\ busy \in BOOLEAN
    /\ suspendLo \in Nat /\ suspendHi \in Nat
    /\ RecordOf(mem) /\ \A s \in Slot : RecordOf(rec[s])
    /\ pos = Driven * after
    /\ busy => Driven < syncMax
    /\ busy \/ reshaping => active
    /\ pc = "record" => mem = Imsm!At(progress, mem.copied)
    /\ pc = "suspend" \/ (pc = "record" /\ mem.copied) => step <= Imsm!End
    /\ pc = "allow" => progress <= Imsm!End

\* None of what breaks the code happens (README, section 5): that mdadm is killed, or told
\* to terminate, is no such thing.
Provided == Happens \cap {"overwrite", "unsuspended", "last", "slow", "hasty", "reorder"} = {}

\* p is where a unit begins, or the end.
Aligned(p) == p = Imsm!End \/ \E u \in 0..Imsm!Units : p = u * Imsm!Unit

\* The copy area holds unit u.
Copied(u) == copy = [unit |-> u, held |-> Imsm!InUnit(u)]

\* What record q says of the rows is so, those of a unit in the copy area apart.
Good(q) ==
    /\ q.copied => Copied(q.unit)
    /\ \A r \in Row :
        /\ r < q.unit * Depth => rows[r] = "new"
        /\ (IF q.copied THEN r >= (q.unit + 1) * Depth ELSE (r + 1) * before > q.unit * Imsm!Unit) =>
               rows[r] = "old"

\* The driver may write row r whichever of the two is on the disks: nothing is lost.
Harmless(q, r) ==
    /\ r >= q.unit * Depth
    /\ IF q.copied THEN r < (q.unit + 1) * Depth ELSE (r + 1) * before <= q.unit * Imsm!Unit

\* The disks whose record the next assembly may read.
Readable == Imsm!NextFirst

\* Whichever record is read now is good, and so is the one being written.
RecordsGood ==
    /\ \A s \in Readable : Good(rec[s])
    /\ todo # {} => Good(mem)

\* The driver while the array runs: what it wrote, what it did not, how far it may go.
DriverInv ==
    /\ Driven <= syncMax /\ Aligned(syncMax * after)
    /\ \A r \in Row :
        /\ r < Driven => rows[r] = "new"
        /\ r >= Driven /\ ~ (busy /\ r = Driven) /\ (r + 1) * before > pos => rows[r] = "old"
        /\ Driven <= r /\ r < syncMax => \A s \in Readable : Harmless(rec[s], r)

\* Where mdadm is, and the driver has come to sync_max before mdadm goes on.
AtPosition == pos = Least(progress, Imsm!End) /\ Driven = syncMax /\ ~ busy /\ Aligned(progress)

\* mdadm may let the driver go as far as p.
MayGoTo(p) ==
    /\ Aligned(p) /\ pos <= p /\ p <= Imsm!End
    /\ \A r \in Row : Driven <= r /\ r < p \div after => Harmless(mem, r)
    /\ mem.copied => p = Least((mem.unit + 1) * Imsm!Unit, Imsm!End)

\* The machine is down, or being assembled.
Down == {"down", "restoring", "restoringlast", "assembled"}

\* What mdadm knows at each place of imsm_manage_reshape, and of the assembly.
MdadmInv ==
    /\ pc \notin Down <=> up
    /\ pc # "refused"
    /\ todo # {} => pc \in {"record", "assembled"}
    /\ pc \in Imsm!Working \cup {"killed"} => reshaping \/ pos = Imsm!End
    /\ pc = "begin" => AtPosition
    /\ pc = "record" => AtPosition
    /\ pc \in {"record", "suspend", "allow", "wait"} => \A s \in Slot \ todo : rec[s] = mem
    /\ pc \in {"record", "suspend"} /\ mem.copied =>
           /\ mem.unit < Imsm!Units /\ progress = mem.unit * Imsm!Unit
           /\ MayGoTo(step)
    /\ pc = "suspend" => AtPosition /\ MayGoTo(step) /\ (mem.copied => suspendLo = pos)
    /\ pc = "allow" => Driven = syncMax /\ ~ busy /\ MayGoTo(progress)
    /\ pc = "wait" => progress = syncMax * after
    /\ pc \in {"allow", "wait"} /\ mem.copied =>
           suspendLo = mem.unit * Imsm!Unit /\ suspendHi = Least((mem.unit + 1) * Imsm!Unit, Imsm!End)
    /\ pc \in Down => crashes > 0 /\ ~ busy
    /\ pc = "down" => ~ (rec[first].copied /\ rec[first].unit = Imsm!Units - 1)
    /\ pc \in {"restoring", "restoringlast"} =>
           /\ mem = rec[first] /\ mem.copied /\ mem.unit < Imsm!Units - 1
           /\ progress = (mem.unit + 1) * Imsm!Unit
    /\ pc = "assembled" =>
           /\ ~ mem.copied /\ progress = mem.unit * Imsm!Unit
           /\ first \notin todo => rec[first] = mem

\* Before the reshape, and once it is recorded as done, nothing can be lost.
MigrationInv ==
    /\ pc = "idle" =>
           /\ ~ active /\ pos = 0 /\ syncMax = 0 /\ todo = {} /\ ~ mem.copied
           /\ \A r \in Row : rows[r] = "old"
           /\ \A s \in Slot : rec[s] = Imsm!NoRecord
    /\ pc \in Down => active
    /\ active => pc \notin {"idle", "clear", "done"} /\ RecordsGood /\ (up => DriverInv) /\ MdadmInv

-----------------------------------------------------------------------------
(* Arithmetic.                                                             *)

LEMMA Times ==
  ASSUME NEW x \in Nat, NEW y \in Nat, NEW z \in Nat
  PROVE  /\ x * z \in Nat /\ (x + 1) * z = x * z + z
         /\ x <= y => x * z <= y * z
         /\ x * z < y * z => x < y
<1>1. x * z \in Nat /\ (x + 1) * z = x * z + z  OBVIOUS
<1>2. ASSUME NEW m \in Nat, NEW n \in Nat, m <= n PROVE m * z <= n * z  BY <1>2
<1> QED  BY <1>1, <1>2

LEMMA Quotient ==
  ASSUME NEW a \in Nat, NEW b \in Nat \ {0}
  PROVE  /\ a \div b \in Nat
         /\ (a \div b) * b <= a /\ a < (a \div b + 1) * b
OBVIOUS

LEMMA QuotientIs ==
  ASSUME NEW a \in Nat, NEW b \in Nat \ {0}, NEW r \in Nat, r * b <= a, a < (r + 1) * b
  PROVE  a \div b = r
BY Quotient, Times

LEMMA Product ==
  ASSUME NEW x \in Nat, NEW y \in Nat, NEW z \in Nat
  PROVE  (x * y) * z = x * (y * z)
OBVIOUS

\* The names of the model, for a shape of an IMSM volume.
LEMMA Volume ==
  ASSUME Types
  PROVE  /\ Imsm!Unit \in Nat \ {0} /\ \A u \in Nat : u * Imsm!Unit = (u * Depth) * after
         /\ Imsm!End \in Nat /\ Imsm!End = size * after
         /\ Imsm!Units \in Nat \ {0}
         /\ size <= Imsm!Units * Depth /\ \A u \in Nat : u < Imsm!Units => u * Depth < size
         /\ Imsm!Row = Row /\ Imsm!Addr = Addr
         /\ Total = size * before /\ Total \in Nat /\ Total <= Imsm!End
         /\ Imsm!First = 0 /\ Imsm!Last = Imsm!End
         /\ \A p : Imsm!Done(p) = p \div after
         /\ \A a, p : Imsm!Moved(a, p) = (a < p)
         /\ Imsm!NextRow = Driven
<1> USE DEF Types
<1>d. Depth \in Nat \ {0}  BY DepthAssumption
<1>1. Imsm!Unit = Depth * after /\ Imsm!End = size * after  BY DEF Imsm!Unit, Imsm!End
<1>2. Imsm!Unit \in Nat \ {0} /\ Imsm!End \in Nat  BY <1>1, <1>d, Times
<1>3. \A u \in Nat : u * Imsm!Unit = (u * Depth) * after  BY <1>1, <1>d, Product
<1>4. Imsm!Units \in Nat /\ size <= Imsm!Units * Depth /\ \A u \in Nat : u < Imsm!Units => u * Depth < size
  <2> DEFINE q == (size + Depth - 1) \div Depth
  <2>1. Imsm!Units = q  BY DEF Imsm!Units
  <2>2. q \in Nat /\ q * Depth <= size + Depth - 1 /\ size + Depth - 1 < (q + 1) * Depth
    BY <1>d, Quotient
  <2>3. (q + 1) * Depth = q * Depth + Depth  BY <2>2, <1>d, Times
  <2>4. ASSUME NEW u \in Nat, u < q PROVE u * Depth < size
    <3>1. (u + 1) * Depth <= q * Depth /\ (u + 1) * Depth = u * Depth + Depth
      BY <2>2, <2>4, <1>d, Times
    <3>2. u * Depth \in Nat /\ q * Depth \in Nat  BY <2>2, <1>d, Times
    <3> HIDE DEF q
    <3> QED  BY <3>1, <3>2, <2>2, <1>d
  <2>5. q * Depth \in Nat  BY <2>2, <1>d, Times
  <2> HIDE DEF q
  <2> QED  BY <2>1, <2>2, <2>3, <2>4, <2>5, <1>d
<1>5. Imsm!Units # 0
  <2>1. 0 * Depth = 0  BY <1>d
  <2> QED  BY <1>4, <2>1
<1>6. Imsm!Advancing /\ Advancing  BY DEF Imsm!Advancing, Advancing
<1>7. Total = size * before /\ Imsm!Total = size * before
  BY DEF Total, Imsm!Total, Least, Imsm!Least
<1>8. Total \in Nat /\ Total <= Imsm!End
  <2>1. before * size <= after * size  BY Times
  <2>2. before * size = size * before /\ after * size = size * after  OBVIOUS
  <2> QED  BY <1>1, <1>7, <2>1, <2>2, Times
<1>9. Imsm!Row = Row /\ Imsm!Addr = Addr  BY <1>7 DEF Imsm!Row, Row, Imsm!Addr, Addr
<1>10. Imsm!First = 0 /\ Imsm!Last = Imsm!End  BY <1>6 DEF Imsm!First, Imsm!Last, Imsm!End
<1>11. \A p : Imsm!Done(p) = p \div after  BY <1>6 DEF Imsm!Done
<1>12. \A a, p : Imsm!Moved(a, p) = (a < p)  BY <1>6 DEF Imsm!Moved
<1>13. Imsm!NextRow = Driven  BY <1>6 DEF Imsm!NextRow, Driven
<1> QED  BY <1>2, <1>1, <1>3, <1>4, <1>5, <1>7, <1>8, <1>9, <1>10, <1>11, <1>12, <1>13

\* Rows and addresses, and the row where an address is.
LEMMA RowOf ==
  ASSUME Types, NEW a \in Addr
  PROVE  /\ NewRow(a) \in Row /\ OldRow(a) \in Row
         /\ NewRow(a) * after <= a /\ a < (NewRow(a) + 1) * after
         /\ OldRow(a) * before <= a /\ a < (OldRow(a) + 1) * before
         /\ Imsm!NewRow(a) = NewRow(a) /\ Imsm!OldRow(a) = OldRow(a)
<1> USE DEF Types
<1>1. a \in Nat /\ a < size * before /\ a < size * after  BY Volume DEF Addr
<1>2. Imsm!NewRow(a) = NewRow(a) /\ Imsm!OldRow(a) = OldRow(a)
  BY DEF NewRow, OldRow, Imsm!NewRow, Imsm!OldRow
<1>3. /\ NewRow(a) \in Nat /\ NewRow(a) * after <= a /\ a < (NewRow(a) + 1) * after
      /\ OldRow(a) \in Nat /\ OldRow(a) * before <= a /\ a < (OldRow(a) + 1) * before
  BY <1>1, Quotient DEF NewRow, OldRow
<1>4. NewRow(a) < size /\ OldRow(a) < size
  <2>1. NewRow(a) * after < size * after /\ OldRow(a) * before < size * before
    <3>1. NewRow(a) * after \in Nat /\ OldRow(a) * before \in Nat
          /\ size * after \in Nat /\ size * before \in Nat  BY <1>3, Times
    <3> QED  BY <1>1, <1>3, <3>1
  <2> QED  BY <1>3, <2>1, Times
<1> QED  BY <1>2, <1>3, <1>4 DEF Row

\* A row is before unit u if what it holds in the new layout is.
LEMMA RowBefore ==
  ASSUME Types
  PROVE  \A r \in Nat, u \in Nat :
           /\ r < u * Depth => (r + 1) * after <= u * Imsm!Unit
           /\ r >= u * Depth => r * after >= u * Imsm!Unit
           /\ u * Depth \in Nat /\ u * Imsm!Unit \in Nat
<1> TAKE r \in Nat, u \in Nat
<1>1. u * Depth \in Nat  BY DepthAssumption, Times
<1>2. u * Imsm!Unit = (u * Depth) * after /\ (u * Depth) * after \in Nat
  BY <1>1, Volume, Times DEF Types
<1>3. r < u * Depth => (r + 1) * after <= (u * Depth) * after  BY <1>1, Times DEF Types
<1>4. r >= u * Depth => r * after >= (u * Depth) * after  BY <1>1, Times DEF Types
<1> QED  BY <1>1, <1>2, <1>3, <1>4

\* A row holds, in the old layout, what comes no later than in the new one.
LEMMA OldBeforeNew ==
  ASSUME Types
  PROVE  \A r \in Nat : r * before <= r * after /\ r * before \in Nat /\ r * after \in Nat
<1> TAKE r \in Nat
<1>1. before * r <= after * r  BY Times DEF Types
<1>2. before * r = r * before /\ after * r = r * after  BY DEF Types
<1> QED  BY <1>1, <1>2, Times DEF Types

\* What recover_backup_imsm makes of the rows when the record that it goes by is good.
LEMMA Restored ==
  ASSUME Types, NEW q, Good(q), q.copied, q.unit \in Nat
  PROVE  LET u == q.unit
         IN  \A r \in Row :
               /\ r < u * Depth \/ r >= (u + 1) * Depth => Imsm!RestoredRows(u)[r] = rows[r]
               /\ r < (u + 1) * Depth => Imsm!RestoredRows(u)[r] = "new"
               /\ r >= (u + 1) * Depth => Imsm!RestoredRows(u)[r] = "old"
<1> DEFINE u == q.unit
<1>1. copy.unit = u /\ copy.held = Imsm!InUnit(u)  BY DEF Good, Copied
<1> SUFFICES ASSUME NEW r \in Row
             PROVE  /\ r < u * Depth \/ r >= (u + 1) * Depth => Imsm!RestoredRows(u)[r] = rows[r]
                    /\ r < (u + 1) * Depth => Imsm!RestoredRows(u)[r] = "new"
                    /\ r >= (u + 1) * Depth => Imsm!RestoredRows(u)[r] = "old"
  OBVIOUS
<1>2. r \in Nat /\ u * Depth \in Nat /\ (u + 1) * Depth \in Nat /\ u * Depth <= (u + 1) * Depth
      /\ u * Imsm!Unit \in Nat /\ (u + 1) * Imsm!Unit \in Nat
  <2>1. u + 1 \in Nat /\ Depth \in Nat  BY DepthAssumption
  <2>2. u * Depth \in Nat /\ (u + 1) * Depth = u * Depth + Depth  BY <2>1, Times
  <2>3. r \in Nat /\ Imsm!Unit \in Nat  BY Volume DEF Row
  <2>4. u * Imsm!Unit \in Nat /\ (u + 1) * Imsm!Unit \in Nat  BY <2>1, <2>3, Times
  <2> QED  BY <2>1, <2>2, <2>3, <2>4
<1>3. (r < u * Depth => rows[r] = "new") /\ (r >= (u + 1) * Depth => rows[r] = "old")
  BY DEF Good
<1> HIDE DEF u
<1>4. ASSUME r < u * Depth \/ r >= (u + 1) * Depth PROVE Imsm!RestoredRows(u)[r] = rows[r]
  <2>1. r \notin Imsm!RowsOf(u)  BY <1>2, <1>4 DEF Imsm!RowsOf
  <2> QED  BY <2>1, Volume DEF Imsm!RestoredRows
<1>5. ASSUME r >= u * Depth, r < (u + 1) * Depth PROVE Imsm!RestoredRows(u)[r] = "new"
  <2>1. ASSUME NEW b \in Addr, Imsm!NewRow(b) = r PROVE b \in Imsm!InUnit(u)
    <3>1. r * after <= b /\ b < (r + 1) * after /\ b \in Nat  BY <2>1, RowOf DEF Addr
    <3>2. u \in Nat /\ u + 1 \in Nat  BY DEF u
    <3>3. u * Imsm!Unit <= r * after /\ (r + 1) * after <= (u + 1) * Imsm!Unit
      BY <1>2, <1>5, <3>2, RowBefore
    <3>4. r * after \in Nat /\ (r + 1) * after \in Nat  BY <1>2, Times DEF Types
    <3>5. u * Imsm!Unit <= b /\ b < (u + 1) * Imsm!Unit  BY <1>2, <3>1, <3>3, <3>4
    <3> QED  BY <3>5, Volume DEF Imsm!InUnit
  <2>2. r \in Imsm!RowsOf(u)  BY <1>5, Volume DEF Imsm!RowsOf
  <2> QED  BY <1>1, <2>1, <2>2, Volume DEF Imsm!RestoredRows
<1> QED  BY <1>2, <1>3, <1>4, <1>5 DEF u

\* What record q says, once its unit is put back, is where everything is.
LEMMA GoodIsComplete ==
  ASSUME Types, NEW s \in Slot, Good(rec[s]), rec[s].copied => rec[s].unit < Imsm!Units - 1
  PROVE  Imsm!Recoverable(s)
<1> DEFINE u == rec[s].unit
<1>1. u \in Nat /\ Depth \in Nat \ {0} /\ Imsm!Unit \in Nat \ {0}
  BY Volume, DepthAssumption DEF Types, RecordOf, Imsm!Record
<1> DEFINE c == IF rec[s].copied THEN Imsm!RestoredRows(u) ELSE rows
<1>2. SUFFICES ASSUME NEW a \in Addr
               PROVE  IF a < Imsm!Progress(rec[s]) THEN c[NewRow(a)] = "new" ELSE c[OldRow(a)] = "old"
  <2>1. \A b \in Addr : Imsm!NewRow(b) = NewRow(b) /\ Imsm!OldRow(b) = OldRow(b)  BY RowOf
  <2>2. Imsm!Recoverable(s) <=> Imsm!Complete(c, Imsm!Progress(rec[s]))  BY DEF Imsm!Recoverable
  <2> HIDE DEF c
  <2> QED  BY <2>1, <2>2, Volume DEF Imsm!Complete
<1>3. /\ NewRow(a) \in Row /\ OldRow(a) \in Row /\ NewRow(a) \in Nat /\ OldRow(a) \in Nat
      /\ NewRow(a) * after <= a /\ a < (NewRow(a) + 1) * after
      /\ OldRow(a) * before <= a /\ a < (OldRow(a) + 1) * before /\ a \in Nat
  BY RowOf DEF Row, Addr
<1>4. CASE ~ rec[s].copied
  <2>1. Imsm!Progress(rec[s]) = u * Imsm!Unit /\ u * Imsm!Unit \in Nat
    BY <1>1, <1>4, RowBefore DEF Imsm!Progress
  <2>2. CASE a < u * Imsm!Unit
    <3>1. NewRow(a) * after \in Nat  BY <1>3, Times DEF Types
    <3>2. ~ NewRow(a) * after >= u * Imsm!Unit  BY <2>1, <2>2, <1>3, <3>1
    <3>3. ~ NewRow(a) >= u * Depth  BY <1>1, <1>3, <3>2, RowBefore
    <3>4. NewRow(a) < u * Depth  BY <1>1, <1>3, <3>3, RowBefore
    <3> QED  BY <1>3, <1>4, <2>1, <2>2, <3>4 DEF Good
  <2>3. CASE ~ a < u * Imsm!Unit
    <3>1. (OldRow(a) + 1) * before \in Nat  BY <1>3, Times DEF Types
    <3>2. (OldRow(a) + 1) * before > u * Imsm!Unit  BY <1>3, <2>1, <2>3, <3>1
    <3> QED  BY <1>3, <1>4, <2>1, <2>3, <3>2 DEF Good
  <2> QED  BY <2>2, <2>3
<1>5. CASE rec[s].copied
  <2>1. Imsm!Progress(rec[s]) = (u + 1) * Imsm!Unit /\ (u + 1) * Imsm!Unit \in Nat /\ u * Imsm!Unit \in Nat
    BY <1>1, <1>5, RowBefore DEF Imsm!Progress
  <2>3. ASSUME NEW r \in Row, r < (u + 1) * Depth PROVE Imsm!RestoredRows(u)[r] = "new"
    BY <1>1, <1>5, <2>3, Restored
  <2>4. ASSUME NEW r \in Row, r >= (u + 1) * Depth PROVE Imsm!RestoredRows(u)[r] = "old"
    BY <1>1, <1>5, <2>4, Restored
  <2>5. CASE a < (u + 1) * Imsm!Unit
    <3>1. NewRow(a) * after \in Nat  BY <1>3, Times DEF Types
    <3>2. ~ NewRow(a) * after >= (u + 1) * Imsm!Unit  BY <2>1, <2>5, <1>3, <3>1
    <3>3. u + 1 \in Nat /\ (u + 1) * Depth \in Nat  BY <1>1, <1>3, RowBefore
    <3>4. ~ NewRow(a) >= (u + 1) * Depth  BY <1>3, <3>2, <3>3, RowBefore
    <3>5. NewRow(a) < (u + 1) * Depth  BY <1>3, <3>3, <3>4
    <3> QED  BY <1>3, <1>5, <2>1, <2>5, <2>3, <3>5
  <2>6. CASE ~ a < (u + 1) * Imsm!Unit
    <3>1. OldRow(a) + 1 \in Nat  BY <1>3
    <3>2. (OldRow(a) + 1) * before <= (OldRow(a) + 1) * after /\ (OldRow(a) + 1) * before \in Nat
          /\ (OldRow(a) + 1) * after \in Nat
      BY <3>1, OldBeforeNew
    <3>3. ~ (OldRow(a) + 1) * after <= (u + 1) * Imsm!Unit  BY <1>3, <2>1, <2>6, <3>2
    <3>4. ~ OldRow(a) < (u + 1) * Depth
      <4>1. u + 1 \in Nat  BY <1>1
      <4> QED  BY <4>1, <1>3, <3>3, RowBefore
    <3>5. (u + 1) * Depth \in Nat  BY <1>1, RowBefore
    <3>6. OldRow(a) >= (u + 1) * Depth  BY <1>3, <3>4, <3>5
    <3> QED  BY <1>3, <1>5, <2>1, <2>6, <2>4, <3>6
  <2> QED  BY <2>5, <2>6
<1> QED  BY <1>4, <1>5

LEMMA Typed ==
  ASSUME Types
  PROVE  /\ pos \in Nat /\ pos <= Imsm!End /\ pos = Driven * after
         /\ Driven \in Nat /\ Driven <= size
         /\ syncMax \in Nat /\ syncMax <= size
         /\ progress \in Nat /\ step \in Nat
         /\ mem.unit \in Nat /\ mem.unit <= Imsm!Units /\ mem.copied \in BOOLEAN
         /\ \A s \in Slot :
               rec[s].unit \in Nat /\ rec[s].unit <= Imsm!Units /\ rec[s].copied \in BOOLEAN
         /\ before \in Nat \ {0} /\ after \in Nat \ {0} /\ size \in Nat \ {0}
<1>1. pos \in Nat /\ pos <= Imsm!End /\ syncMax \in Nat /\ syncMax <= size
  BY Volume DEF Types, Imsm!TypeOK
<1>2. progress \in Nat /\ step \in Nat  BY DEF Types, Imsm!TypeOK
<1>3. Driven \in Nat  BY <1>1, Quotient DEF Types, Driven
<1>4. Driven <= size
  <2>1. Driven * after <= size * after  BY <1>1, Volume DEF Types
  <2>2. size * after < (size + 1) * after /\ Driven * after \in Nat /\ (size + 1) * after \in Nat
        /\ size * after \in Nat
    BY <1>3, Times DEF Types
  <2>3. Driven * after < (size + 1) * after  BY <2>1, <2>2
  <2>4. size + 1 \in Nat  BY DEF Types
  <2>5. Driven < size + 1  BY <1>3, <2>3, <2>4, Times DEF Types
  <2> QED  BY <1>3, <2>5 DEF Types
<1>5. ASSUME NEW q, RecordOf(q) PROVE q.unit \in Nat /\ q.unit <= Imsm!Units /\ q.copied \in BOOLEAN
  BY <1>5, Volume DEF RecordOf, Imsm!Record
<1> QED  BY <1>1, <1>2, <1>3, <1>4, <1>5 DEF Types

\* The last unit is the one the volume ends in.
LEMMA UnitsEnd ==
  ASSUME Types
  PROVE  /\ Imsm!End <= Imsm!Units * Imsm!Unit
         /\ \A u \in Nat : u < Imsm!Units => u * Imsm!Unit < Imsm!End
<1>1. Imsm!Units \in Nat /\ Imsm!Units * Depth \in Nat  BY Volume, RowBefore
<1>2. size * after <= (Imsm!Units * Depth) * after  BY <1>1, Volume, Times, Typed
<1>3. ASSUME NEW u \in Nat, u < Imsm!Units PROVE u * Imsm!Unit < Imsm!End
  <2>1. u * Depth < size /\ u * Depth \in Nat  BY <1>3, Volume, RowBefore
  <2>2. (u * Depth + 1) * after <= size * after  BY <2>1, Times, Typed
  <2>3. (u * Depth + 1) * after = (u * Depth) * after + after /\ (u * Depth) * after \in Nat
    BY <2>1, Times, Typed
  <2>4. size * after \in Nat  BY Times, Typed
  <2>5. (u * Depth) * after < size * after  BY <2>2, <2>3, <2>4, Typed
  <2> QED  BY <2>5, Volume
<1> QED  BY <1>1, <1>2, <1>3, Volume

\* The record of a position where a unit begins, or of the end.
LEMMA AtAligned ==
  ASSUME Types, NEW p, Aligned(p), NEW c \in BOOLEAN
  PROVE  LET q == Imsm!At(p, c)
         IN  /\ q \in Imsm!Record /\ q.unit \in 0..Imsm!Units /\ q.copied = c
             /\ Least(p, Imsm!End) = Least(q.unit * Imsm!Unit, Imsm!End)
             /\ q.unit < Imsm!Units => p = q.unit * Imsm!Unit /\ p < Imsm!End
             /\ p < Imsm!End => q.unit < Imsm!Units
             /\ p \in Nat /\ p <= Imsm!Units * Imsm!Unit
<1> DEFINE U == Imsm!Unit
           u == (p + U - 1) \div U
<1>1. U \in Nat \ {0} /\ Imsm!Units \in Nat \ {0} /\ Imsm!End \in Nat  BY Volume
<1>2. Imsm!End <= Imsm!Units * U /\ Imsm!Units * U \in Nat  BY <1>1, UnitsEnd, Times
<1>3. ASSUME NEW v \in Nat, NEW x \in Nat, v * U <= x + U - 1, x <= v * U
      PROVE  (x + U - 1) \div U = v
  <2>1. (v + 1) * U = v * U + U /\ v * U \in Nat  BY <1>1, Times
  <2>2. x + U - 1 \in Nat  BY <1>1
  <2>3. x + U - 1 < (v + 1) * U  BY <2>1, <2>2, <1>3, <1>1
  <2> HIDE DEF U
  <2> QED  BY <2>2, <2>3, <1>3, <1>1, QuotientIs
<1>4. p \in Nat /\ p <= Imsm!Units * U /\ u \in 0..Imsm!Units
      /\ Least(p, Imsm!End) = Least(u * U, Imsm!End)
      /\ (u < Imsm!Units => p = u * U /\ p < Imsm!End) /\ (p < Imsm!End => u < Imsm!Units)
  <2>1. CASE p = Imsm!End
    <3> DEFINE w == Imsm!Units - 1
    <3>1. w \in Nat /\ w < Imsm!Units /\ w + 1 = Imsm!Units  BY <1>1
    <3>2. w * U < Imsm!End /\ w * U \in Nat  BY <1>1, <3>1, UnitsEnd, Times
    <3>3. Imsm!Units * U = w * U + U
      <4>1. (w + 1) * U = w * U + U  BY <3>1, <1>1, Times
      <4> QED  BY <4>1, <3>1
    <3> HIDE DEF U, w
    <3>4. Imsm!Units * U <= Imsm!End + U - 1  BY <1>1, <3>2, <3>3
    <3>5. u = Imsm!Units  BY <1>1, <1>2, <1>3, <2>1, <3>4
    <3> QED  BY <1>1, <1>2, <2>1, <3>5 DEF Least
  <2>2. CASE p # Imsm!End
    <3>1. PICK v \in 0..Imsm!Units : p = v * U  BY <2>2 DEF Aligned
    <3>2. v \in Nat /\ p \in Nat  BY <3>1, <1>1, Times
    <3> HIDE DEF U
    <3>3. u = v  BY <1>1, <1>3, <3>1, <3>2
    <3>4. v * U <= Imsm!Units * U  BY <3>1, <3>2, <1>1, Times
    <3>5. v < Imsm!Units => p < Imsm!End  BY <3>1, <3>2, UnitsEnd DEF U
    <3>6. v = Imsm!Units => p >= Imsm!End  BY <3>1, <1>2
    <3> QED  BY <1>1, <1>2, <3>1, <3>2, <3>3, <3>4, <3>5, <3>6
  <2> QED  BY <2>1, <2>2
<1>5. Imsm!At(p, c) = [unit |-> u, copied |-> c, valid |-> TRUE]  BY DEF Imsm!At
<1> HIDE DEF U, u
<1> QED  BY <1>4, <1>5 DEF Imsm!Record, U

\* What the driver did up to where a unit begins is what the record of that unit says.
LEMMA GoodAt ==
  ASSUME Types, DriverInv, ~ busy, NEW p, Aligned(p), pos = Least(p, Imsm!End)
  PROVE  Good(Imsm!At(p, FALSE))
<1> DEFINE q == Imsm!At(p, FALSE)
<1>1. q.unit \in Nat /\ q.copied = FALSE /\ pos = Least(q.unit * Imsm!Unit, Imsm!End)
  <2>1. q.unit \in 0..Imsm!Units /\ q.copied = FALSE
        /\ Least(p, Imsm!End) = Least(q.unit * Imsm!Unit, Imsm!End)
    BY AtAligned
  <2> HIDE DEF q
  <2> QED  BY <2>1, Volume
<1> HIDE DEF q
<1>2. q.unit * Imsm!Unit \in Nat /\ q.unit * Depth \in Nat  BY <1>1, RowBefore, Typed
<1>3. pos <= q.unit * Imsm!Unit  BY <1>1, <1>2, Volume DEF Least
<1>4. ASSUME NEW r \in Row, r < q.unit * Depth PROVE rows[r] = "new"
  <2>1. r \in Nat /\ r + 1 \in Nat /\ r + 1 <= size  BY Typed DEF Row
  <2>2. (r + 1) * after <= q.unit * Imsm!Unit  BY <1>1, <1>4, <2>1, RowBefore
  <2>3. (r + 1) * after <= size * after  BY <2>1, Times, Typed
  <2>4. (r + 1) * after <= Driven * after  BY <1>1, <2>2, <2>3, Volume, Typed DEF Least
  <2>5. r * after < (r + 1) * after /\ r * after \in Nat /\ (r + 1) * after \in Nat
        /\ Driven * after \in Nat
    BY <2>1, Times, Typed
  <2>6. r * after < Driven * after  BY <2>4, <2>5
  <2>7. r < Driven  BY <2>1, <2>6, Times, Typed
  <2> QED  BY <2>7 DEF DriverInv
<1>5. ASSUME NEW r \in Row, (r + 1) * before > q.unit * Imsm!Unit PROVE rows[r] = "old"
  <2>1. r \in Nat /\ r + 1 \in Nat  BY Typed DEF Row
  <2>2. (r + 1) * before <= (r + 1) * after /\ (r + 1) * before \in Nat /\ (r + 1) * after \in Nat
    BY <2>1, OldBeforeNew
  <2>3. (r + 1) * before > pos  BY <1>2, <1>3, <1>5, <2>2, Typed
  <2>4. ~ r + 1 <= Driven
    <3>1. ~ (r + 1) * after <= Driven * after  BY <2>2, <2>3, Typed
    <3> QED  BY <3>1, <2>1, Times, Typed
  <2>5. r >= Driven  BY <2>1, <2>4, Typed
  <2> QED  BY <2>3, <2>5 DEF DriverInv
<1> QED  BY <1>1, <1>4, <1>5 DEF Good, q

-----------------------------------------------------------------------------
(* What does not change.                                                   *)

\* The shape of a volume does not change.
LEMMA SameShape ==
  ASSUME UNCHANGED shapeVars
  PROVE  /\ Imsm!Unit' = Imsm!Unit /\ Imsm!End' = Imsm!End /\ Imsm!Units' = Imsm!Units
         /\ Row' = Row /\ Imsm!Row' = Imsm!Row /\ Imsm!Addr' = Imsm!Addr
         /\ Imsm!Record' = Imsm!Record
         /\ before' = before /\ after' = after /\ size' = size
         /\ \A u : Imsm!InUnit(u)' = Imsm!InUnit(u)
         /\ \A p, c : Imsm!At(p, c)' = Imsm!At(p, c)
         /\ \A p : Aligned(p)' = Aligned(p)
         /\ \A q, r : Harmless(q, r)' = Harmless(q, r)
         /\ \A q : RecordOf(q)' = RecordOf(q)
<1>1. before' = before /\ after' = after /\ size' = size  BY DEF shapeVars
<1>2. Imsm!Unit' = Imsm!Unit /\ Imsm!End' = Imsm!End /\ Imsm!Units' = Imsm!Units
      /\ Row' = Row /\ Imsm!Row' = Imsm!Row
  BY <1>1 DEF Imsm!Unit, Imsm!End, Imsm!Units, Row, Imsm!Row
<1>3. Imsm!Addr' = Imsm!Addr  BY <1>1 DEF Imsm!Addr, Imsm!Total, Imsm!Least
<1>4. Imsm!Record' = Imsm!Record  BY <1>2 DEF Imsm!Record
<1>5. \A u : Imsm!InUnit(u)' = Imsm!InUnit(u)  BY <1>2, <1>3 DEF Imsm!InUnit
<1>6. \A p, c : Imsm!At(p, c)' = Imsm!At(p, c)  BY <1>2 DEF Imsm!At
<1>7. \A p : Aligned(p)' = Aligned(p)  BY <1>2 DEF Aligned
<1>8. \A q, r : Harmless(q, r)' = Harmless(q, r)  BY <1>1, <1>2 DEF Harmless
<1>9. \A q : RecordOf(q)' = RecordOf(q)  BY <1>2, <1>4 DEF RecordOf
<1> QED  BY <1>1, <1>2, <1>3, <1>4, <1>5, <1>6, <1>7, <1>8, <1>9

\* Neither do the rows and the copy area.
LEMMA SameData ==
  ASSUME UNCHANGED <<shapeVars, rows, copy>>
  PROVE  \A q : Good(q)' = Good(q)
<1> TAKE q
<1>1. Copied(q.unit)' = Copied(q.unit)  BY SameShape DEF Copied
<1>2. Row' = Row /\ Imsm!Unit' = Imsm!Unit /\ before' = before /\ rows' = rows  BY SameShape
<1> QED  BY <1>1, <1>2 DEF Good

\* The driver does not move, and what it may do does not change.
LEMMA SameDriver ==
  ASSUME UNCHANGED <<shapeVars, rows, pos, busy, syncMax, rec, first, crashes>>, DriverInv
  PROVE  DriverInv'
<1>1. Readable' = Readable  BY DEF Readable, Imsm!NextFirst, Imsm!Slot
<1>2. Driven' = Driven  BY DEF Driven, shapeVars
<1> QED  BY <1>1, <1>2, SameShape DEF DriverInv

\* Neither does where mdadm is.
LEMMA SamePosition ==
  ASSUME UNCHANGED <<shapeVars, pos, busy, syncMax>>
  PROVE  /\ Driven' = Driven
         /\ progress' = progress => AtPosition' = AtPosition
         /\ mem' = mem => \A p : MayGoTo(p)' = MayGoTo(p)
<1>1. Driven' = Driven  BY DEF Driven, shapeVars
<1>2. progress' = progress => AtPosition' = AtPosition  BY <1>1, SameShape DEF AtPosition
<1>3. mem' = mem => \A p : MayGoTo(p)' = MayGoTo(p)  BY <1>1, SameShape DEF MayGoTo
<1> QED  BY <1>1, <1>2, <1>3

-----------------------------------------------------------------------------
(* The invariant, step by step: mdadm.                                     *)

LEMMA InitImsm ==
  ASSUME external, Init
  PROVE  Types /\ MigrationInv
<1>1. Imsm!Init  BY DEF Init
<1>2. before \in Nat \ {0} /\ after \in Nat \ {0} /\ size \in Nat \ {0} /\ before <= after
  BY <1>1, MigrationsAssumption DEF Imsm!Init, Imsm!KernelInit
<1>3. Imsm!Units \in Nat
  BY <1>2, DepthAssumption, Quotient DEF Imsm!Units
<1>4. Imsm!Unit \in Nat /\ Imsm!Units * Imsm!Unit \in Nat /\ Imsm!End \in Nat
  <2>1. Imsm!Unit \in Nat /\ Imsm!End \in Nat  BY <1>2, DepthAssumption, Times DEF Imsm!Unit, Imsm!End
  <2> QED  BY <2>1, <1>3, Times
<1>5. pos = 0 /\ Driven = 0
  BY <1>1, <1>2 DEF Imsm!Init, Imsm!KernelInit, Imsm!First, Imsm!Advancing, Driven
<1>6. RecordOf(Imsm!NoRecord)  BY <1>3 DEF RecordOf, Imsm!NoRecord, Imsm!Record
<1>7. Imsm!TypeOK
  <2>1. rows \in [Imsm!Row -> {"old", "new", "lost"}]  BY <1>1 DEF Imsm!Init, Imsm!KernelInit
  <2>2. copy \in [unit : 0..Imsm!Units, held : SUBSET Imsm!Addr]  BY <1>1, <1>3 DEF Imsm!Init
  <2>3. mem \in Imsm!Record /\ rec \in [Imsm!Slot -> Imsm!Record]
        /\ todo \subseteq Imsm!Slot /\ first \in Imsm!Slot
    BY <1>1, <1>6 DEF Imsm!Init, RecordOf, Imsm!Slot
  <2>4. crashes \in 0..MaxCrashes  BY <1>1, MaxCrashesAssumption DEF Imsm!Init
  <2>5. pos \in 0..Imsm!End /\ syncMax \in 0..size
    BY <1>1, <1>2, <1>4, <1>5 DEF Imsm!Init, Imsm!KernelInit
  <2>6. progress \in 0..(Imsm!Units * Imsm!Unit) /\ step \in 0..(Imsm!Units * Imsm!Unit)
        /\ pc = "idle"
    BY <1>1, <1>4 DEF Imsm!Init
  <2> QED  BY <2>1, <2>2, <2>3, <2>4, <2>5, <2>6 DEF Imsm!TypeOK
<1>8. Types
  <2>1. active = FALSE /\ up = TRUE /\ reshaping = FALSE /\ busy = FALSE
        /\ suspendLo = 0 /\ suspendHi = 0
    BY <1>1 DEF Imsm!Init, Imsm!KernelInit
  <2>2. pc = "idle" /\ mem = Imsm!NoRecord /\ \A s \in Slot : rec[s] = Imsm!NoRecord
    BY <1>1 DEF Imsm!Init, Imsm!Slot, Slot
  <2>3. pos = Driven * after  BY <1>2, <1>5
  <2> QED  BY <1>2, <1>5, <1>6, <1>7, <2>1, <2>2, <2>3 DEF Types
<1>9. MigrationInv
  <2>1. ~ active /\ syncMax = 0 /\ \A r \in Row : rows[r] = "old"
    BY <1>1 DEF Imsm!Init, Imsm!KernelInit, Imsm!Row, Row
  <2>2. pc = "idle" /\ ~ mem.copied /\ todo = {} /\ \A s \in Slot : rec[s] = Imsm!NoRecord
    BY <1>1 DEF Imsm!Init, Imsm!Slot, Slot, Imsm!NoRecord
  <2> QED  BY <1>5, <2>1, <2>2 DEF MigrationInv, Down
<1> QED  BY <1>8, <1>9

LEMMA GrowKeeps ==
  ASSUME Types, MigrationInv, Imsm!Grow
  PROVE  Types' /\ MigrationInv'
<1> USE DEF Imsm!Grow, Imsm!Start
<1>1. UNCHANGED shapeVars /\ UNCHANGED <<rows, recorded, busy, rec, first, copy, crashes, mem, todo>>
      /\ pc = "idle" /\ pc' = "begin" /\ active' = TRUE /\ up' = TRUE /\ reshaping' = TRUE
      /\ suspendLo' = 0 /\ suspendHi' = 0 /\ progress' = 0 /\ step' = 0
  BY DEF Imsm!shapeVars, shapeVars, Imsm!diskListVars
<1>2. pos' = 0 /\ syncMax' = 0 /\ Driven' = 0 /\ Driven' * after' = 0
  <2>1. Imsm!End \in Nat /\ after \in Nat \ {0}  BY Volume, Typed
  <2>2. pos' = 0  BY <2>1 DEF Imsm!Least
  <2>3. syncMax' = 0  BY <2>1, <2>2, Volume
  <2>4. after' = after  BY <1>1, SameShape
  <2> QED  BY <2>1, <2>2, <2>3, <2>4 DEF Driven
<1> USE DEF MigrationInv
<1>3. ~ busy /\ todo = {} /\ ~ mem.copied /\ \A s \in Slot : rec[s] = Imsm!NoRecord
  <2>1. ~ active  BY <1>1
  <2> QED  BY <1>1, <2>1 DEF Types
<1>4. Types'
  <2>1. Imsm!TypeOK'
    <3>1. 0 \in 0..Imsm!End' /\ 0 \in 0..size' /\ 0 \in 0..(Imsm!Units' * Imsm!Unit')
      <4>1. Imsm!Units * Imsm!Unit \in Nat  BY Volume, Times
      <4> QED  BY <1>1, <4>1, Volume, Typed, SameShape
    <3>2. Imsm!TypeOK  BY DEF Types
    <3> QED  BY <1>1, <1>2, <3>1, <3>2, SameShape DEF Imsm!TypeOK, Imsm!Working, Imsm!Slot
  <2> QED  BY <1>1, <1>2, <1>3, <2>1, SameShape DEF Types
<1>5. \A q : Good(q)' = Good(q)  BY <1>1, SameData
<1>6. RecordsGood'
  <2>1. Good(Imsm!NoRecord)
    BY <1>1, Volume, DepthAssumption DEF Good, Imsm!NoRecord, Row
  <2>2. Readable' \subseteq Slot
    BY <1>1 DEF Readable, Imsm!NextFirst, Types, Imsm!TypeOK, Imsm!Slot, Slot
  <2> QED  BY <1>1, <1>3, <1>5, <2>1, <2>2 DEF RecordsGood
<1>7. Aligned(0)'
  <2>1. Aligned(0)  BY Volume DEF Aligned
  <2> QED  BY <1>1, <2>1, SameShape
<1>8. DriverInv'
  <2>1. \A r \in Row : r \in Nat /\ rows[r] = "old"  BY <1>1 DEF Row
  <2>2. after' = after /\ after \in Nat /\ Row' = Row  BY <1>1, SameShape, Typed
  <2>3. Aligned(syncMax * after)'  BY <1>2, <1>7, <2>2
  <2> QED  BY <1>1, <1>2, <2>1, <2>2, <2>3 DEF DriverInv
<1>9. AtPosition'
  <2>1. Imsm!End' \in Nat  BY <1>1, Volume, SameShape
  <2> QED  BY <1>1, <1>2, <1>3, <1>7, <2>1 DEF AtPosition, Least
<1>10. MdadmInv'  BY <1>1, <1>2, <1>3, <1>9 DEF MdadmInv, Down
<1> QED  BY <1>1, <1>4, <1>6, <1>8, <1>10 DEF Down

LEMMA AtTyped ==
  ASSUME Types, NEW p \in 0..(Imsm!Units * Imsm!Unit)
  PROVE  \A c \in BOOLEAN : RecordOf(Imsm!At(p, FALSE)) /\ Imsm!At(p, c).copied = c
                           /\ Imsm!At(p, c) \in Imsm!Record
<1> DEFINE U == Imsm!Unit
           u == (p + U - 1) \div U
<1>1. U \in Nat \ {0} /\ Imsm!Units \in Nat /\ Imsm!Units * U \in Nat  BY Volume, Times
<1>2. p \in Nat /\ p + U - 1 \in Nat  BY <1>1
<1>3. u \in Nat /\ u * U <= p + U - 1  BY <1>1, <1>2, Quotient
<1>4. (Imsm!Units + 1) * U = Imsm!Units * U + U  BY <1>1, Times
<1> HIDE DEF U
<1>5. u * U < (Imsm!Units + 1) * U
  <2>1. u * U \in Nat  BY <1>1, <1>3, Times
  <2> HIDE DEF u
  <2> QED  BY <1>1, <1>2, <1>3, <1>4, <2>1 DEF U
<1>6. u \in 0..Imsm!Units
  <2>1. u < Imsm!Units + 1
    <3> HIDE DEF u
    <3> QED  BY <1>1, <1>3, <1>5, Times
  <2> QED  BY <1>1, <1>3, <2>1
<1>7. \A c : Imsm!At(p, c) = [unit |-> u, copied |-> c, valid |-> TRUE]  BY DEF Imsm!At, U
<1> HIDE DEF u
<1>8. \A c \in BOOLEAN : Imsm!At(p, c) \in Imsm!Record /\ Imsm!At(p, c).copied = c
  <2> TAKE c \in BOOLEAN
  <2>1. [unit |-> u, copied |-> c, valid |-> TRUE] \in Imsm!Record  BY <1>6 DEF Imsm!Record
  <2>2. Imsm!At(p, c) = [unit |-> u, copied |-> c, valid |-> TRUE]  BY <1>7
  <2>3. Imsm!At(p, c) \in Imsm!Record  BY <2>1, <2>2
  <2>4. Imsm!At(p, c).copied = c  BY <2>2
  <2> QED  BY <2>3, <2>4
<1>9. RecordOf(Imsm!At(p, FALSE))  BY <1>8 DEF RecordOf
<1> QED  BY <1>8, <1>9

LEMMA BeginKeeps ==
  ASSUME Types, MigrationInv, Imsm!Begin
  PROVE  Types' /\ MigrationInv'
<1>1. UNCHANGED shapeVars
      /\ UNCHANGED <<rows, active, up, reshaping, pos, busy, syncMax, suspendLo, suspendHi>>
      /\ UNCHANGED <<progress, step, rec, first, copy, crashes>> /\ pc = "begin"
  BY DEF Imsm!Begin, Imsm!kernelVars, Imsm!shapeVars, shapeVars, Imsm!diskVars, Imsm!driveVars,
         Imsm!suspVars, Imsm!diskListVars
<1> DEFINE q == Imsm!At(progress, FALSE)
<1>2. \/ pc' = "record" /\ mem' = q /\ todo' = Slot
      \/ pc' = "lift" /\ mem' = mem /\ todo' = todo
  BY DEF Imsm!Begin, Imsm!Slot, Slot
<1>3. RecordOf(q) /\ q.copied = FALSE  BY AtTyped DEF Types, Imsm!TypeOK
<1>4. Types'
  <2>1. RecordOf(mem') /\ todo' \subseteq Slot
    BY <1>2, <1>3 DEF Types, Imsm!TypeOK, Imsm!Slot, Slot
  <2>2. Imsm!TypeOK'
    BY <1>1, <1>2, <2>1, SameShape DEF Types, Imsm!TypeOK, RecordOf, Imsm!Working, Imsm!Slot, Slot
  <2>3. pc' = "record" => mem'.copied = FALSE /\ mem' = Imsm!At(progress, mem'.copied)
    BY <1>2, <1>3
  <2>4. Driven' = Driven  BY <1>1 DEF Driven, shapeVars
  <2> QED  BY <1>1, <1>2, <2>1, <2>2, <2>3, <2>4, SameShape DEF Types
<1> HIDE DEF q
<1>5. SUFFICES ASSUME active PROVE RecordsGood' /\ DriverInv' /\ MdadmInv'
  BY <1>1, <1>2, <1>4 DEF MigrationInv, Down
<1>6. AtPosition /\ DriverInv /\ RecordsGood /\ todo = {} /\ up
  BY <1>1, <1>5 DEF MigrationInv, MdadmInv, Down
<1>7. RecordsGood'
  <2>1. Good(q)  BY <1>6, GoodAt DEF AtPosition, q
  <2>2. Readable' = Readable  BY <1>1 DEF Readable, Imsm!NextFirst, Imsm!Slot
  <2> QED  BY <1>1, <1>2, <1>6, <2>1, <2>2, SameData DEF RecordsGood
<1>8. DriverInv'  BY <1>1, <1>6, SameDriver
<1>9. MdadmInv'
  <2>1. AtPosition'  BY <1>1, <1>6, SamePosition
  <2>2. reshaping' \/ pos' = Imsm!End'
    BY <1>1, <1>5, SameShape DEF MigrationInv, MdadmInv, Imsm!Working
  <2> QED  BY <1>1, <1>2, <1>3, <1>6, <2>1, <2>2 DEF MdadmInv, Down
<1> QED  BY <1>7, <1>8, <1>9

\* The two disks one after the other: whichever is read, the record is good.
LEMMA WriteRecordKeeps ==
  ASSUME Types, MigrationInv, NEW s \in Slot, Imsm!WriteRecord(s)
  PROVE  Types' /\ MigrationInv'
<1>1. UNCHANGED shapeVars
      /\ UNCHANGED <<rows, active, up, reshaping, pos, busy, syncMax, suspendLo, suspendHi>>
      /\ UNCHANGED <<pc, progress, step, mem, first, copy, crashes>>
  BY DEF Imsm!WriteRecord, Imsm!kernelVars, Imsm!shapeVars, shapeVars, Imsm!diskVars,
         Imsm!driveVars, Imsm!suspVars
<1>2. s \in todo /\ (first \in todo => s = first) /\ todo' = todo \ {s}
      /\ rec' = [rec EXCEPT ![s] = mem]
  BY DEF Imsm!WriteRecord
<1>3. rec \in [Slot -> Imsm!Record] /\ mem \in Imsm!Record /\ todo \subseteq Slot
  BY DEF Types, Imsm!TypeOK, Imsm!Slot, Slot
<1>4. rec'[s] = mem /\ \A t \in Slot : t # s => rec'[t] = rec[t]  BY <1>2, <1>3
<1>5. Types'
  <2>1. rec' \in [Slot -> Imsm!Record]  BY <1>2, <1>3
  <2>2. Imsm!TypeOK'  BY <1>1, <1>2, <2>1, SameShape DEF Types, Imsm!TypeOK, Imsm!Slot, Slot
  <2>3. \A t \in Slot : RecordOf(rec'[t])  BY <1>4 DEF Types
  <2>4. Driven' = Driven  BY <1>1 DEF Driven, shapeVars
  <2> QED  BY <1>1, <2>2, <2>3, <2>4, SameShape DEF Types
<1>6. pc # "idle"  BY <1>2 DEF MigrationInv
<1>7. SUFFICES ASSUME active PROVE RecordsGood' /\ (up => DriverInv') /\ MdadmInv'
  BY <1>1, <1>5, <1>6 DEF MigrationInv
<1>8. RecordsGood /\ (up => DriverInv) /\ MdadmInv /\ pc \in {"record", "assembled"}
  BY <1>2, <1>7 DEF MigrationInv, MdadmInv
<1>9. Good(mem) /\ Readable' = Readable /\ Readable \subseteq Slot
  BY <1>1, <1>2, <1>8
     DEF RecordsGood, Readable, Imsm!NextFirst, Types, Imsm!TypeOK, Imsm!Slot, Slot
<1>10. RecordsGood'  BY <1>1, <1>2, <1>4, <1>8, <1>9, SameData DEF RecordsGood
<1>11. ASSUME up PROVE DriverInv'
  <2>1. Driven = syncMax /\ Driven \in Nat  BY <1>8, <1>11, Typed DEF MdadmInv, Down, AtPosition
  <2>2. Driven' = Driven  BY <1>1 DEF Driven, shapeVars
  <2>3. \A r \in Row : ~ (Driven <= r /\ r < syncMax)  BY <2>1, Typed DEF Row
  <2> QED  BY <1>1, <1>8, <1>11, <2>2, <2>3, SameShape DEF DriverInv
<1>12. MdadmInv'
  <2>1. \A t \in Slot \ todo' : t = s \/ t \in Slot \ todo  BY <1>2
  <2>2. pc = "record" => \A t \in Slot \ todo' : rec'[t] = mem
    BY <1>4, <1>8, <2>1 DEF MdadmInv
  <2>3. pc = "assembled" => (first \notin todo' => rec'[first] = mem)
    BY <1>2, <1>3, <1>4, <1>8 DEF MdadmInv, Types, Imsm!TypeOK, Imsm!Slot, Slot
  <2>4. AtPosition' = AtPosition /\ \A p : MayGoTo(p)' = MayGoTo(p)  BY <1>1, SamePosition
  <2> QED  BY <1>1, <1>2, <1>8, <2>2, <2>3, <2>4, SameShape DEF MdadmInv, Down
<1> QED  BY <1>10, <1>11, <1>12

\* How many rows lie between where the unit is in the old layout and where it goes.
LEMMA BorderIs ==
  ASSUME Types
  PROVE  LET u == mem.unit
         IN  /\ Imsm!Position = u * Imsm!Unit /\ Imsm!Position \in Nat
             /\ Imsm!Border \in Nat
             /\ (u * Depth + Imsm!Border) * before <= u * Imsm!Unit
             /\ u * Imsm!Unit < (u * Depth + Imsm!Border + 1) * before
<1> DEFINE P == mem.unit * Imsm!Unit
           D == mem.unit * Depth
           o == P \div before
<1>1. mem.unit \in Nat /\ P \in Nat /\ D \in Nat /\ P = D * after
  BY Volume, RowBefore, Typed
<1>2. Imsm!Position = P /\ Imsm!Border = (P \div before) - (P \div after)
  BY DEF Imsm!Position, Imsm!Border
<1> HIDE DEF P, D
<1>3. P \div after = D
  <2>1. (D + 1) * after = D * after + after /\ D * after \in Nat  BY <1>1, Times, Typed
  <2>2. P < (D + 1) * after  BY <1>1, <2>1, Typed
  <2> QED  BY <1>1, <2>2, QuotientIs, Typed
<1>4. o \in Nat /\ o * before <= P /\ P < (o + 1) * before  BY <1>1, Quotient, Typed
<1>5. D * before <= P  BY <1>1, OldBeforeNew
<1> HIDE DEF o
<1>6. o >= D
  <2>1. D * before \in Nat /\ (o + 1) * before \in Nat /\ o + 1 \in Nat  BY <1>1, <1>4, Times, Typed
  <2>2. D * before < (o + 1) * before  BY <1>1, <1>4, <1>5, <2>1
  <2>3. D < o + 1  BY <1>1, <2>1, <2>2, Times, Typed
  <2> QED  BY <1>1, <1>4, <2>3
<1>7. Imsm!Border = o - D /\ D + Imsm!Border = o /\ Imsm!Border \in Nat
  BY <1>1, <1>2, <1>3, <1>4, <1>6 DEF o
<1> QED  BY <1>1, <1>2, <1>4, <1>7 DEF P, D

\* Where imsm_manage_reshape lets the driver go next: to where a unit begins, one unit
\* on, or no further than what is read before it is written.
LEMMA NextStepIs ==
  ASSUME Types, mem.unit < Imsm!Units
  PROVE  LET p == Least(Imsm!Position + Imsm!NextStep, Imsm!End)
         IN  /\ p \in Nat /\ p <= Imsm!End /\ Imsm!Position <= p /\ Aligned(p)
             /\ Imsm!NextStep \in Nat
             /\ Imsm!CriticalUnit => p = Least((mem.unit + 1) * Imsm!Unit, Imsm!End)
             /\ ~ Imsm!CriticalUnit => p <= (mem.unit * Depth + Imsm!Border) * after
<1> DEFINE u == mem.unit
           P == u * Imsm!Unit
           U == Imsm!Unit
           E == Imsm!End
           B == Imsm!Border
           D == u * Depth
           one == Least(U, E - P)
           n == B \div one
           p == Least(Imsm!Position + Imsm!NextStep, Imsm!End)
<1>1. u \in Nat /\ U \in Nat \ {0} /\ E \in Nat /\ P \in Nat /\ D \in Nat /\ P < E
      /\ Imsm!Position = P /\ B \in Nat /\ after \in Nat \ {0} /\ Depth \in Nat \ {0}
  BY Typed, Volume, BorderIs, UnitsEnd, RowBefore, DepthAssumption
<1>2. Imsm!CriticalUnit <=> B <= Depth  BY DEF Imsm!CriticalUnit
<1>3. Imsm!NextStep = IF ~ Imsm!CriticalUnit /\ n > 1 THEN one * n ELSE one
  BY <1>1 DEF Imsm!NextStep, Least, Imsm!Least
<1>4. P = D * after /\ U = Depth * after /\ (u + 1) * U = P + U  BY <1>1, Volume, Times DEF Imsm!Unit
<1>5. E <= Imsm!Units * U /\ Imsm!Units \in Nat  BY UnitsEnd, Volume
<1> HIDE DEF u, P, U, E, B, D
<1>6. one \in Nat \ {0} /\ one <= U /\ one <= E - P /\ (one = U \/ one = E - P)
  BY <1>1 DEF Least
<1> HIDE DEF one
<1>7. n \in Nat /\ n * one <= B  BY <1>1, <1>6, Quotient
<1> HIDE DEF n
<1>8. n * one = one * n /\ n * one \in Nat  BY <1>6, <1>7
<1>9. ASSUME n > 1 PROVE one * n >= one
  <2>1. 1 * one <= n * one /\ 1 * one = one  BY <1>6, <1>7, <1>9, Times
  <2> QED  BY <1>6, <1>8, <2>1
<1>10. Imsm!NextStep \in Nat /\ Imsm!NextStep >= one
       /\ (Imsm!CriticalUnit => Imsm!NextStep = one)
  BY <1>3, <1>6, <1>8, <1>9
<1>11. p = Least(P + Imsm!NextStep, E)  BY <1>1 DEF E
<1> HIDE DEF p
<1>12. p \in Nat /\ p <= E /\ P <= p  BY <1>1, <1>10, <1>11 DEF Least
<1>13. Imsm!CriticalUnit => p = Least((u + 1) * U, E)
  BY <1>1, <1>4, <1>6, <1>10, <1>11 DEF Least
<1>14. Aligned(p)
  <2>1. CASE one = E - P
    BY <2>1, <1>1, <1>10, <1>11 DEF Least, Aligned, E
  <2>2. CASE one = U
    <3>1. PICK k \in Nat : Imsm!NextStep = k * U
      <4>1. one = 1 * U  BY <1>1, <2>2
      <4> QED  BY <1>3, <1>7, <1>8, <2>2, <4>1
    <3>2. P + k * U = (u + k) * U
      BY <1>1 DEF P, U
    <3>3. CASE P + Imsm!NextStep >= E
      BY <3>3, <1>1, <1>10, <1>11 DEF Least, Aligned, E
    <3>4. CASE P + Imsm!NextStep < E
      <4>1. p = (u + k) * U  BY <3>1, <3>2, <3>4, <1>1, <1>10, <1>11 DEF Least
      <4>2. (u + k) * U < Imsm!Units * U
        <5>1. (u + k) * U \in Nat /\ Imsm!Units * U \in Nat  BY <1>1, <1>5, Times
        <5> QED  BY <3>1, <3>2, <3>4, <1>1, <1>5, <5>1
      <4>3. u + k \in 0..Imsm!Units
        <5>1. u + k \in Nat  BY <1>1
        <5>2. u + k < Imsm!Units  BY <4>2, <5>1, <1>1, <1>5, Times
        <5> QED  BY <5>1, <5>2, <1>5
      <4> QED  BY <4>1, <4>3 DEF Aligned, U
    <3> QED  BY <3>3, <3>4, <1>1, <1>10
  <2> QED  BY <2>1, <2>2, <1>6
<1>15. ASSUME ~ Imsm!CriticalUnit PROVE p <= (D + B) * after
  <2>1. (D + B) * after = P + B * after /\ B * after \in Nat  BY <1>1, <1>4
  <2>2. B <= B * after
    <3>1. 1 * B <= after * B /\ 1 * B = B /\ after * B = B * after  BY <1>1, Times
    <3> QED  BY <3>1
  <2>3. Imsm!NextStep <= B * after
    <3>1. CASE n > 1
      BY <3>1, <1>1, <1>3, <1>7, <1>8, <1>15, <2>1, <2>2
    <3>2. CASE ~ n > 1
      <4>1. Depth <= B  BY <1>1, <1>2, <1>15
      <4>2. Depth * after <= B * after  BY <4>1, <1>1, Times
      <4>3. Imsm!NextStep = one  BY <1>3, <3>2
      <4> QED  BY <4>2, <4>3, <1>4, <1>6, <1>1, <2>1
    <3> QED  BY <3>1, <3>2
  <2> QED  BY <1>1, <1>10, <1>11, <2>1, <2>3 DEF Least
<1>16. p <= Imsm!End /\ Imsm!Position <= p  BY <1>1, <1>12 DEF E
<1>17. Imsm!CriticalUnit => p = Least((mem.unit + 1) * Imsm!Unit, Imsm!End)
  BY <1>13 DEF u, U, E
<1>18. ~ Imsm!CriticalUnit => p <= (mem.unit * Depth + Imsm!Border) * after
  BY <1>15 DEF u, B, D
<1> QED  BY <1>10, <1>12, <1>14, <1>16, <1>17, <1>18 DEF p

LEMMA UnitInNat ==
  ASSUME Types, NEW u \in Nat
  PROVE  u * Depth \in Nat /\ u * Imsm!Unit \in Nat
BY Volume, DepthAssumption, Times

LEMMA BelowQuotient ==
  ASSUME NEW x \in Nat, NEW d \in Nat \ {0}, NEW r \in Nat, r < x \div d
  PROVE  (r + 1) * d <= x
<1> DEFINE q == x \div d
<1>1. q \in Nat /\ q * d <= x  BY Quotient
<1> HIDE DEF q
<1>2. r + 1 <= q  BY <1>1 DEF q
<1>3. (r + 1) * d <= q * d  BY <1>1, <1>2, Times
<1>4. (r + 1) * d \in Nat /\ q * d \in Nat  BY <1>1, Times
<1> QED  BY <1>1, <1>3, <1>4

\* The driver is where the unit begins.
LEMMA DrivenAt ==
  ASSUME Types, NEW u \in Nat, pos = u * Imsm!Unit
  PROVE  Driven = u * Depth
<1>1. u * Depth \in Nat /\ Driven \in Nat /\ pos = Driven * after /\ pos = (u * Depth) * after
  BY RowBefore, Volume, Typed
<1>2. (u * Depth) * after < (u * Depth + 1) * after /\ Driven * after < (Driven + 1) * after
  BY <1>1, Times, Typed
<1>3. u * Depth < Driven + 1 /\ Driven < u * Depth + 1
  <2>1. u * Depth + 1 \in Nat /\ Driven + 1 \in Nat  BY <1>1
  <2>2. (u * Depth) * after < (Driven + 1) * after /\ Driven * after < (u * Depth + 1) * after
    BY <1>1, <1>2
  <2> QED  BY <1>1, <2>1, <2>2, Times, Typed
<1> QED  BY <1>1, <1>3

LEMMA DrivenAtEnd ==
  ASSUME Types, pos = Imsm!End
  PROVE  Driven = size
<1>1. (Driven + 1) * after = Driven * after + after /\ Driven * after = size * after
      /\ size * after \in Nat
  BY Volume, Times, Typed
<1>2. size * after < (Driven + 1) * after  BY <1>1, Typed
<1>3. Driven + 1 \in Nat /\ size \in Nat  BY Typed
<1>4. size < Driven + 1  BY <1>2, <1>3, Times, Typed
<1> QED  BY <1>4, Typed

\* mdadm is where the unit of its record begins.
LEMMA UnitBegins ==
  ASSUME Types, AtPosition, mem = Imsm!At(progress, mem.copied), mem.unit < Imsm!Units
  PROVE  /\ progress = mem.unit * Imsm!Unit /\ progress < Imsm!End /\ pos = progress
         /\ Imsm!Position = progress /\ Driven = mem.unit * Depth
<1>1. Aligned(progress) /\ mem.copied \in BOOLEAN  BY Typed DEF AtPosition
<1> DEFINE c == mem.copied
           q == Imsm!At(progress, c)
<1>2. q.unit < Imsm!Units => progress = q.unit * Imsm!Unit /\ progress < Imsm!End
  BY <1>1, AtAligned
<1> HIDE DEF q
<1>3. progress = mem.unit * Imsm!Unit /\ progress < Imsm!End  BY <1>2 DEF q
<1>4. pos = progress  BY <1>3, Volume, Typed DEF AtPosition, Least
<1> QED  BY <1>3, <1>4, DrivenAt, Typed DEF Imsm!Position

\* A step of one unit does not leave the unit.
LEMMA OneUnit ==
  ASSUME Types, NEW u \in Nat, Driven = u * Depth, NEW r \in Nat, Driven <= r,
         r < Least((u + 1) * Imsm!Unit, Imsm!End) \div after
  PROVE  r >= u * Depth /\ r < (u + 1) * Depth
<1> DEFINE p == Least((u + 1) * Imsm!Unit, Imsm!End)
<1>1. u + 1 \in Nat /\ (u + 1) * Imsm!Unit \in Nat  BY RowBefore
<1>2. p \in Nat /\ p <= (u + 1) * Imsm!Unit  BY <1>1, Volume DEF Least
<1>3. (r + 1) * after <= p  BY <1>2, BelowQuotient, Typed
<1> HIDE DEF p
<1>4. r * after < (r + 1) * after /\ r * after \in Nat /\ (r + 1) * after \in Nat  BY Times, Typed
<1>5. ~ r * after >= (u + 1) * Imsm!Unit  BY <1>1, <1>2, <1>3, <1>4
<1>6. ~ r >= (u + 1) * Depth  BY <1>1, <1>5, RowBefore
<1>7. u * Depth \in Nat /\ (u + 1) * Depth \in Nat  BY <1>1, RowBefore
<1> QED  BY <1>6, <1>7

\* A step without a copy writes only over what has been moved.
LEMMA BeforeBorder ==
  ASSUME Types, Driven = mem.unit * Depth, NEW p \in Nat,
         p <= (mem.unit * Depth + Imsm!Border) * after,
         NEW r \in Nat, Driven <= r, r < p \div after
  PROVE  r >= mem.unit * Depth /\ (r + 1) * before <= mem.unit * Imsm!Unit
<1> DEFINE m == mem.unit * Depth + Imsm!Border
<1>0. mem.unit \in Nat /\ mem.unit * Depth \in Nat /\ mem.unit * Imsm!Unit \in Nat
  BY UnitInNat, Typed
<1>1. m \in Nat /\ m * before <= mem.unit * Imsm!Unit  BY <1>0, BorderIs
<1>2. (r + 1) * after <= p  BY BelowQuotient, Typed
<1>3. p <= m * after  OBVIOUS
<1> HIDE DEF m
<1>4. r < m
  <2>1. r * after < (r + 1) * after /\ r * after \in Nat /\ (r + 1) * after \in Nat
        /\ m * after \in Nat
    BY <1>1, Times, Typed
  <2>2. r * after < m * after  BY <1>2, <1>3, <2>1
  <2> QED  BY <1>1, <2>2, Times, Typed
<1>5. (r + 1) * before <= m * before  BY <1>1, <1>4, Times, Typed
<1>7. r >= mem.unit * Depth  OBVIOUS
<1>6. (r + 1) * before \in Nat /\ m * before \in Nat
  BY <1>1, Times, Typed
<1> QED  BY <1>0, <1>1, <1>5, <1>6, <1>7

\* While the unit is in the critical section, what lies beyond it has not been touched.
LEMMA BeyondUnit ==
  ASSUME Types, Imsm!CriticalUnit, NEW r \in Nat, r >= (mem.unit + 1) * Depth
  PROVE  (r + 1) * before > mem.unit * Imsm!Unit
<1> DEFINE m == mem.unit * Depth + Imsm!Border
<1>0. mem.unit \in Nat /\ mem.unit * Depth \in Nat /\ mem.unit * Imsm!Unit \in Nat
  BY UnitInNat, Typed
<1>1. m \in Nat /\ mem.unit * Imsm!Unit < (m + 1) * before  BY <1>0, BorderIs
<1>2. m <= (mem.unit + 1) * Depth
  <2>1. (mem.unit + 1) * Depth = mem.unit * Depth + Depth /\ mem.unit * Depth \in Nat
    BY DepthAssumption, Times, Typed
  <2> QED  BY <2>1, BorderIs, DepthAssumption DEF Imsm!CriticalUnit
<1> HIDE DEF m
<1>3. m + 1 <= r + 1
  <2>1. (mem.unit + 1) * Depth \in Nat  BY RowBefore, Typed
  <2> QED  BY <1>1, <1>2, <2>1
<1>4. (m + 1) * before <= (r + 1) * before  BY <1>1, <1>3, Times, Typed
<1>5. (m + 1) * before \in Nat /\ (r + 1) * before \in Nat
  BY <1>1, Times, Typed
<1> QED  BY <1>0, <1>1, <1>4, <1>5

\* The unit is copied: the record that vouches for the copy is true before it is written,
\* and so is the old one, on whichever disk it still is.
LEMMA SaveBackupKeeps ==
  ASSUME Types, MigrationInv, Imsm!SaveBackup
  PROVE  Types' /\ MigrationInv'
<1>1. UNCHANGED shapeVars
      /\ UNCHANGED <<rows, active, up, reshaping, pos, busy, syncMax, suspendLo, suspendHi>>
      /\ UNCHANGED <<pc, progress, rec, first, crashes>>
  BY DEF Imsm!SaveBackup, Imsm!kernelVars, Imsm!shapeVars, shapeVars, Imsm!diskVars,
         Imsm!driveVars, Imsm!suspVars
<1> DEFINE u == mem.unit
           q == Imsm!At(progress, TRUE)
           kept == {a \in Imsm!InUnit(u) : rows[Imsm!OldRow(a)] = "old" /\ ~ Imsm!Moved(a, pos)}
           p == Least(progress + Imsm!NextStep, Imsm!End)
<1>2. pc = "record" /\ todo = {} /\ ~ mem.copied /\ u < Imsm!Units /\ Imsm!CriticalUnit
      /\ copy' = [unit |-> u, held |-> kept] /\ step' = p /\ mem' = q /\ todo' = Slot
  BY DEF Imsm!SaveBackup, Imsm!Recorded, Imsm!Slot, Slot, Imsm!Least, Least
<1>3. progress \in 0..(Imsm!Units * Imsm!Unit) /\ progress \in Nat  BY Typed DEF Types, Imsm!TypeOK
<1>4. q \in Imsm!Record /\ q.copied = TRUE /\ q.unit = u
  <2>1. mem = Imsm!At(progress, mem.copied)  BY <1>2 DEF Types
  <2>2. q.unit = Imsm!At(progress, mem.copied).unit  BY DEF Imsm!At
  <2>3. TRUE \in BOOLEAN  OBVIOUS
  <2>4. q \in Imsm!Record /\ q.copied = TRUE  BY <1>3, <2>3, AtTyped
  <2> QED  BY <2>1, <2>2, <2>4
<1>5. RecordOf(q)  BY <1>2, <1>4 DEF RecordOf
<1>6. u \in Nat /\ u \in 0..Imsm!Units /\ kept \subseteq Imsm!InUnit(u)
      /\ Imsm!InUnit(u) \subseteq Imsm!Addr
  BY Typed, Volume DEF Imsm!InUnit
<1>7. p \in Nat /\ p <= Imsm!End /\ p \in 0..(Imsm!Units * Imsm!Unit)
  <2>1. Imsm!NextStep \in Nat /\ Imsm!End \in Nat /\ Imsm!End <= Imsm!Units * Imsm!Unit
        /\ Imsm!Units * Imsm!Unit \in Nat
    BY <1>2, NextStepIs, UnitsEnd, Volume, UnitInNat
  <2> QED  BY <1>3, <2>1 DEF Least
<1> HIDE DEF u, q, kept, p
<1>8. Types'
  <2>1. copy' \in [unit : 0..Imsm!Units, held : SUBSET Imsm!Addr]  BY <1>2, <1>6
  <2>2. Imsm!TypeOK'
    BY <1>1, <1>2, <1>4, <1>7, <2>1, SameShape DEF Types, Imsm!TypeOK, Imsm!Slot, Slot
  <2>3. mem' = Imsm!At(progress, mem'.copied)  BY <1>2, <1>4 DEF q
  <2>4. Driven' = Driven  BY <1>1 DEF Driven, shapeVars
  <2> QED  BY <1>1, <1>2, <1>5, <1>7, <2>2, <2>3, <2>4, SameShape DEF Types
<1>9. SUFFICES ASSUME active PROVE RecordsGood' /\ (up => DriverInv') /\ MdadmInv'
  BY <1>1, <1>2, <1>8 DEF MigrationInv, Down
<1>10. RecordsGood /\ DriverInv /\ MdadmInv /\ AtPosition /\ up
       /\ \A s \in Slot : rec[s] = mem
  BY <1>1, <1>2, <1>9 DEF MigrationInv, MdadmInv, Down
<1>11. /\ progress = u * Imsm!Unit /\ progress < Imsm!End /\ pos = progress
       /\ Imsm!Position = progress /\ Driven = u * Depth
       /\ mem = Imsm!At(progress, FALSE)
  <2>1. mem = Imsm!At(progress, mem.copied) /\ mem.copied = FALSE  BY <1>2, Typed DEF Types
  <2> QED  BY <1>2, <1>10, <2>1, UnitBegins DEF u
<1>12. Good(mem)  BY <1>10, <1>11, GoodAt DEF AtPosition
<1>13. kept = Imsm!InUnit(u)
  <2> SUFFICES ASSUME NEW a \in Imsm!InUnit(u)
               PROVE  rows[Imsm!OldRow(a)] = "old" /\ ~ Imsm!Moved(a, pos)
    BY DEF kept
  <2>1. a \in Addr /\ u * Imsm!Unit <= a /\ a \in Nat  BY Volume DEF Imsm!InUnit, Addr
  <2>2. ~ Imsm!Moved(a, pos)
    <3>1. ~ a < pos  BY <1>3, <1>11, <2>1
    <3> QED  BY <3>1, Volume
  <2>3. OldRow(a) \in Row /\ OldRow(a) + 1 \in Nat /\ a < (OldRow(a) + 1) * before
        /\ Imsm!OldRow(a) = OldRow(a)
    BY <2>1, RowOf DEF Row
  <2>4. (OldRow(a) + 1) * before \in Nat  BY <2>3, Times, Typed
  <2>5. (OldRow(a) + 1) * before > progress  BY <1>3, <1>11, <2>1, <2>3, <2>4
  <2>6. (OldRow(a) + 1) * before > mem.unit * Imsm!Unit  BY <1>11, <2>5 DEF u
  <2> QED  BY <1>2, <1>12, <2>2, <2>3, <2>6 DEF Good
<1>14. RecordsGood'
  <2>1. Row' = Row /\ Imsm!Unit' = Imsm!Unit /\ before' = before /\ rows' = rows
        /\ \A v : Imsm!InUnit(v)' = Imsm!InUnit(v)
    BY <1>1, SameShape
  <2>3. ASSUME NEW s \in Slot PROVE Good(rec[s])'
    <3>1. rec'[s] = rec[s] /\ rec[s] = mem /\ rec[s].copied = FALSE  BY <1>1, <1>2, <1>10, Typed
    <3>2. Good(rec[s])  BY <3>1, <1>12
    <3> QED  BY <2>1, <3>1, <3>2 DEF Good
  <2>4. Readable' \subseteq Slot
    BY <1>8 DEF Readable, Imsm!NextFirst, Types, Imsm!TypeOK, Imsm!Slot, Slot
  <2>5. Good(mem)'
    <3>1. mem'.copied = TRUE /\ mem'.unit = u  BY <1>2, <1>4
    <3>2. Copied(mem.unit)'
      <4>1. copy' = [unit |-> mem'.unit, held |-> Imsm!InUnit(mem'.unit)]  BY <1>2, <1>13, <3>1
      <4> QED  BY <2>1, <4>1 DEF Copied
    <3>3. ASSUME NEW r \in Row, r < u * Depth PROVE rows[r] = "new"
      BY <1>12, <3>3 DEF Good, u
    <3>4. ASSUME NEW r \in Row, r >= (u + 1) * Depth PROVE rows[r] = "old"
      <4>1. (r + 1) * before > mem.unit * Imsm!Unit
        BY <1>2, <3>4, BeyondUnit DEF Row, u
      <4> QED  BY <1>2, <1>12, <4>1 DEF Good
    <3> QED  BY <2>1, <3>1, <3>2, <3>3, <3>4 DEF Good
  <2> QED  BY <2>3, <2>4, <2>5 DEF RecordsGood
<1>15. DriverInv'  BY <1>1, <1>10, SameDriver
<1>16. MayGoTo(step)'
  <2>1. p = Least((u + 1) * Imsm!Unit, Imsm!End) /\ Aligned(p) /\ progress <= p
    BY <1>2, <1>11, NextStepIs DEF u, p
  <2>2. ASSUME NEW r \in Row, Driven <= r, r < p \div after
        PROVE  r >= u * Depth /\ r < (u + 1) * Depth
    BY <1>6, <1>11, <2>1, <2>2, OneUnit DEF Row
  <2>3. \A r \in Row : Driven <= r /\ r < p \div after => Harmless(q, r)
    BY <1>4, <2>2 DEF Harmless
  <2>4. Driven' = Driven  BY <1>1 DEF Driven, shapeVars
  <2> QED  BY <1>1, <1>2, <1>4, <1>7, <1>11, <2>1, <2>3, <2>4, SameShape DEF MayGoTo
<1>17. MdadmInv'
  <2>1. AtPosition'  BY <1>1, <1>10, SamePosition
  <2>2. mem'.copied = TRUE /\ mem'.unit = u  BY <1>2, <1>4
  <2> QED  BY <1>1, <1>2, <1>10, <1>11, <1>16, <2>1, <2>2, SameShape DEF MdadmInv, Down
<1> QED  BY <1>14, <1>15, <1>17

\* A position where a unit begins, and the end, are where a row begins.
LEMMA AlignedRow ==
  ASSUME Types, NEW p, Aligned(p)
  PROVE  p \in Nat /\ p \div after \in Nat /\ (p \div after) * after = p
<1>1. PICK m \in Nat : p = m * after
  <2>1. CASE p = Imsm!End  BY <2>1, Volume, Typed
  <2>2. CASE p # Imsm!End
    <3>1. PICK u \in 0..Imsm!Units : p = u * Imsm!Unit  BY <2>2 DEF Aligned
    <3>2. u \in Nat  BY <3>1, Volume
    <3> QED  BY <3>1, <3>2, Volume, UnitInNat
  <2> QED  BY <2>1, <2>2
<1>2. m * after \in Nat /\ (m + 1) * after = m * after + after  BY Times, Typed
<1>3. p \in Nat /\ m * after <= p /\ p < (m + 1) * after  BY <1>1, <1>2, Typed
<1>4. p \div after = m  BY <1>3, QuotientIs, Typed
<1> QED  BY <1>1, <1>3, <1>4

LEMMA RowsBelowEnd ==
  ASSUME Types, NEW p \in Nat, p <= Imsm!End
  PROVE  p \div after \in 0..size
<1> DEFINE q == p \div after
<1>1. q \in Nat /\ q * after <= p  BY Quotient, Typed
<1> HIDE DEF q
<1>2. q * after < (size + 1) * after
  <2>1. q * after \in Nat /\ size * after \in Nat /\ (size + 1) * after = size * after + after
    BY <1>1, Times, Typed
  <2> QED  BY <1>1, <2>1, Volume, Typed
<1>3. size + 1 \in Nat  BY Typed
<1>4. q < size + 1  BY <1>1, <1>2, <1>3, Times, Typed
<1> QED  BY <1>1, <1>4, Typed DEF q

LEMMA SuspendLoKeeps ==
  ASSUME Types, MigrationInv, Imsm!SuspendLo
  PROVE  Types' /\ MigrationInv'
<1> DEFINE p == Least(progress + Imsm!NextStep, Imsm!End)
<1>1. UNCHANGED shapeVars
      /\ UNCHANGED <<rows, active, up, reshaping, pos, busy, syncMax, suspendHi>>
      /\ UNCHANGED <<progress, mem, todo, rec, first, copy, crashes>>
  BY DEF Imsm!SuspendLo, Imsm!shapeVars, shapeVars, Imsm!diskVars, Imsm!driveVars,
         Imsm!diskListVars
<1>2. /\ pc = "record" /\ todo = {} /\ suspendLo' = progress /\ pc' = "suspend"
      /\ \/ ~ mem.copied /\ mem.unit < Imsm!Units /\ ~ Imsm!CriticalUnit /\ step' = p
         \/ mem.copied /\ step' = step
  BY DEF Imsm!SuspendLo, Imsm!Recorded, Imsm!Least, Least
<1>3. progress \in Nat /\ mem = Imsm!At(progress, mem.copied)  BY <1>2, Typed DEF Types
<1>4. step' <= Imsm!End /\ step' \in 0..(Imsm!Units * Imsm!Unit)
  <2>1. CASE mem.copied  BY <1>2, <2>1 DEF Types, Imsm!TypeOK
  <2>2. CASE ~ mem.copied
    <3>1. Imsm!NextStep \in Nat /\ Imsm!End \in Nat /\ Imsm!End <= Imsm!Units * Imsm!Unit
          /\ Imsm!Units * Imsm!Unit \in Nat
      BY <1>2, <2>2, NextStepIs, UnitsEnd, Volume, UnitInNat
    <3> QED  BY <1>2, <1>3, <2>2, <3>1 DEF Least
  <2> QED  BY <2>1, <2>2
<1> HIDE DEF p
<1>5. Types'
  <2>1. Imsm!TypeOK'
    BY <1>1, <1>2, <1>4, SameShape DEF Types, Imsm!TypeOK, Imsm!Working, Imsm!Slot
  <2>2. Driven' = Driven  BY <1>1 DEF Driven, shapeVars
  <2> QED  BY <1>1, <1>2, <1>3, <1>4, <2>1, <2>2, SameShape DEF Types
<1>6. SUFFICES ASSUME active PROVE RecordsGood' /\ (up => DriverInv') /\ MdadmInv'
  BY <1>1, <1>2, <1>5 DEF MigrationInv, Down
<1>7. RecordsGood /\ DriverInv /\ MdadmInv /\ AtPosition /\ up
  BY <1>1, <1>2, <1>6 DEF MigrationInv, MdadmInv, Down
<1>8. RecordsGood'
  <2>1. Readable' = Readable  BY <1>1 DEF Readable, Imsm!NextFirst, Imsm!Slot
  <2> QED  BY <1>1, <1>7, <2>1, SameData DEF RecordsGood
<1>9. DriverInv'  BY <1>1, <1>7, SameDriver
<1>10. MayGoTo(step') /\ (mem.copied => progress = pos)
  <2>1. CASE mem.copied
    <3>1. mem.unit < Imsm!Units /\ MayGoTo(step)  BY <1>2, <1>7, <2>1 DEF MdadmInv
    <3> QED  BY <1>2, <1>3, <1>7, <2>1, <3>1, UnitBegins
  <2>2. CASE ~ mem.copied
    <3>1. /\ progress = mem.unit * Imsm!Unit /\ pos = progress
          /\ Imsm!Position = progress /\ Driven = mem.unit * Depth
      BY <1>2, <1>3, <1>7, <2>2, UnitBegins
    <3>2. /\ p \in Nat /\ p <= Imsm!End /\ progress <= p /\ Aligned(p)
          /\ p <= (mem.unit * Depth + Imsm!Border) * after
      BY <1>2, <2>2, <3>1, NextStepIs DEF p
    <3>3. ASSUME NEW r \in Row, Driven <= r, r < p \div after PROVE Harmless(mem, r)
      <4>1. r >= mem.unit * Depth /\ (r + 1) * before <= mem.unit * Imsm!Unit
        BY <3>1, <3>2, <3>3, BeforeBorder DEF Row
      <4> QED  BY <2>2, <4>1 DEF Harmless
    <3> QED  BY <1>2, <2>2, <3>1, <3>2, <3>3 DEF MayGoTo
  <2> QED  BY <2>1, <2>2
<1>11. MdadmInv'
  <2>1. AtPosition' = AtPosition /\ \A x : MayGoTo(x)' = MayGoTo(x)  BY <1>1, SamePosition
  <2>2. \A s \in Slot \ todo' : rec'[s] = mem'  BY <1>1, <1>2, <1>7 DEF MdadmInv
  <2>3. mem.copied => mem.unit < Imsm!Units /\ progress = mem.unit * Imsm!Unit
    BY <1>2, <1>7 DEF MdadmInv
  <2>4. MayGoTo(step)'
    BY <1>1, <1>10, SameShape DEF MayGoTo, Driven
  <2> QED
    BY <1>1, <1>2, <1>7, <1>10, <2>1, <2>2, <2>3, <2>4, SameShape DEF MdadmInv, Down, Imsm!Working
<1> QED  BY <1>8, <1>9, <1>11

LEMMA SuspendHiKeeps ==
  ASSUME Types, MigrationInv, Imsm!SuspendHi
  PROVE  Types' /\ MigrationInv'
<1>1. UNCHANGED shapeVars
      /\ UNCHANGED <<rows, active, up, reshaping, pos, busy, syncMax, suspendLo>>
      /\ UNCHANGED <<step, mem, todo, rec, first, copy, crashes>>
      /\ pc = "suspend" /\ pc' = "allow" /\ suspendHi' = step /\ progress' = step
  BY DEF Imsm!SuspendHi, Imsm!shapeVars, shapeVars, Imsm!diskVars, Imsm!driveVars,
         Imsm!diskListVars
<1>2. Types'
  <2>1. Imsm!TypeOK'
    BY <1>1, SameShape DEF Types, Imsm!TypeOK, Imsm!Working, Imsm!Slot
  <2>2. Driven' = Driven  BY <1>1 DEF Driven, shapeVars
  <2> QED  BY <1>1, <2>1, <2>2, Typed, SameShape DEF Types
<1>3. SUFFICES ASSUME active PROVE RecordsGood' /\ (up => DriverInv') /\ MdadmInv'
  BY <1>1, <1>2 DEF MigrationInv, Down
<1>4. RecordsGood /\ DriverInv /\ MdadmInv /\ AtPosition /\ up /\ MayGoTo(step)
  BY <1>1, <1>3 DEF MigrationInv, MdadmInv, Down
<1>5. RecordsGood'
  <2>1. Readable' = Readable  BY <1>1 DEF Readable, Imsm!NextFirst, Imsm!Slot
  <2> QED  BY <1>1, <1>4, <2>1, SameData DEF RecordsGood
<1>6. DriverInv'  BY <1>1, <1>4, SameDriver
<1>7. MdadmInv'
  <2>1. \A x : MayGoTo(x)' = MayGoTo(x)  BY <1>1, SamePosition
  <2>2. MayGoTo(progress)'
    BY <1>1, <1>4, SameShape DEF MayGoTo, Driven
  <2>3. mem.copied => suspendLo = mem.unit * Imsm!Unit
                      /\ step = Least((mem.unit + 1) * Imsm!Unit, Imsm!End)
    <3>1. CASE mem.copied
      <4>1. mem.unit < Imsm!Units /\ progress = mem.unit * Imsm!Unit /\ suspendLo = pos
            /\ step = Least((mem.unit + 1) * Imsm!Unit, Imsm!End)
        BY <1>1, <1>4, <3>1 DEF MdadmInv, MayGoTo
      <4>2. progress < Imsm!End  BY <4>1, UnitsEnd, Typed
      <4>3. pos = progress  BY <1>4, <4>2, Volume, Typed DEF AtPosition, Least
      <4> QED  BY <4>1, <4>3
    <3> QED  BY <3>1
  <2>4. Driven = syncMax /\ ~ busy /\ Driven' = Driven
    BY <1>1, <1>4 DEF AtPosition, Driven, shapeVars
  <2> QED
    BY <1>1, <1>4, <2>2, <2>3, <2>4, SameShape DEF MdadmInv, Down, Imsm!Working
<1> QED  BY <1>5, <1>6, <1>7

\* The driver may go on: nothing it will write is needed by the records.
LEMMA AllowProgressKeeps ==
  ASSUME Types, MigrationInv, Imsm!AllowProgress
  PROVE  Types' /\ MigrationInv'
<1>1. UNCHANGED shapeVars
      /\ UNCHANGED <<rows, active, up, reshaping, pos, busy, suspendLo, suspendHi>>
      /\ UNCHANGED <<progress, step, mem, todo, rec, first, copy, crashes>>
      /\ pc = "allow" /\ pc' = "wait" /\ syncMax' = progress \div after
  BY DEF Imsm!AllowProgress, Imsm!shapeVars, shapeVars, Imsm!diskVars, Imsm!driveVars,
         Imsm!suspVars, Imsm!diskListVars
<1>2. syncMax' \in 0..size
  <2>1. progress \in Nat /\ progress <= Imsm!End  BY <1>1, Typed DEF Types
  <2> QED  BY <1>1, <2>1, RowsBelowEnd
<1>3. Driven' = Driven  BY <1>1 DEF Driven, shapeVars
<1>4. active => RecordsGood /\ DriverInv /\ MdadmInv /\ up /\ MayGoTo(progress)
                /\ Driven = syncMax /\ ~ busy
  BY <1>1 DEF MigrationInv, MdadmInv, Down
<1>5. ~ busy  BY <1>4 DEF Types
<1>6. Types'
  <2>1. Imsm!TypeOK'
    BY <1>1, <1>2, SameShape DEF Types, Imsm!TypeOK, Imsm!Working, Imsm!Slot
  <2> QED  BY <1>1, <1>3, <1>5, <2>1, SameShape DEF Types
<1>7. SUFFICES ASSUME active PROVE RecordsGood' /\ (up => DriverInv') /\ MdadmInv'
  BY <1>1, <1>6 DEF MigrationInv, Down
<1>8. progress \in Nat /\ syncMax' \in Nat /\ syncMax' * after = progress
  BY <1>1, <1>4, <1>7, AlignedRow DEF MayGoTo
<1>9. Readable' = Readable /\ Readable \subseteq Slot
  BY <1>1 DEF Readable, Imsm!NextFirst, Imsm!Slot, Types, Imsm!TypeOK, Slot
<1>10. RecordsGood'  BY <1>1, <1>4, <1>7, <1>9, SameData DEF RecordsGood
<1>11. \A s \in Slot : rec[s] = mem  BY <1>1, <1>4, <1>7 DEF MdadmInv
<1>12. DriverInv'
  <2>1. Driven <= syncMax'
    <3>1. Driven * after <= syncMax' * after  BY <1>4, <1>7, <1>8, Typed DEF MayGoTo
    <3>2. syncMax' * after < (syncMax' + 1) * after /\ Driven * after \in Nat
          /\ syncMax' * after \in Nat /\ (syncMax' + 1) * after \in Nat
      BY <1>8, Times, Typed
    <3>3. Driven * after < (syncMax' + 1) * after  BY <3>1, <3>2
    <3>4. syncMax' + 1 \in Nat
      <4>1. \A m \in Nat : m + 1 \in Nat  OBVIOUS
      <4> QED  BY <1>8, <4>1
    <3>5. Driven < syncMax' + 1  BY <3>3, <3>4, Times, Typed
    <3> QED  BY <1>8, <3>5, Typed
  <2>2. Aligned(syncMax' * after)  BY <1>4, <1>7, <1>8 DEF MayGoTo
  <2>3. \A r \in Row : Driven <= r /\ r < syncMax' => \A s \in Readable : Harmless(rec[s], r)
    BY <1>1, <1>4, <1>7, <1>9, <1>11 DEF MayGoTo
  <2> QED  BY <1>1, <1>3, <1>4, <1>7, <1>9, <2>1, <2>2, <2>3, SameShape DEF DriverInv
<1>13. MdadmInv'
  <2>1. \A s \in Slot \ todo' : rec'[s] = mem'  BY <1>1, <1>11
  <2>2. progress' = syncMax' * after'  BY <1>1, <1>8, SameShape
  <2>3. mem.copied => suspendLo = mem.unit * Imsm!Unit
                      /\ suspendHi = Least((mem.unit + 1) * Imsm!Unit, Imsm!End)
    BY <1>1, <1>4, <1>7 DEF MdadmInv
  <2>4. reshaping' \/ pos' = Imsm!End'
    BY <1>1, <1>4, <1>7, SameShape DEF MdadmInv, Imsm!Working
  <2>5. todo = {}  BY <1>1, <1>4, <1>7 DEF MdadmInv
  <2> QED  BY <1>1, <1>4, <1>7, <2>1, <2>2, <2>3, <2>4, <2>5, SameShape DEF MdadmInv, Down
<1> QED  BY <1>10, <1>12, <1>13

\* The driver has come to sync_max, the end of a unit: that is the next record.
LEMMA WaitForReshapeKeeps ==
  ASSUME Types, MigrationInv, Imsm!WaitForReshape
  PROVE  Types' /\ MigrationInv'
<1> DEFINE q == Imsm!At(progress, FALSE)
<1>1. UNCHANGED shapeVars
      /\ UNCHANGED <<rows, active, up, reshaping, pos, busy, syncMax, suspendLo, suspendHi>>
      /\ UNCHANGED <<progress, step, rec, first, copy, crashes>>
      /\ pc = "wait" /\ ~ busy /\ (Driven >= syncMax \/ ~ reshaping)
  BY Volume DEF Imsm!WaitForReshape, Imsm!kernelVars, Imsm!shapeVars, shapeVars, Imsm!diskVars,
         Imsm!driveVars, Imsm!suspVars, Imsm!diskListVars, Driven
<1>2. \/ pc' = "record" /\ mem' = q /\ todo' = Slot
      \/ pc' = "lift" /\ mem' = mem /\ todo' = todo
  BY DEF Imsm!WaitForReshape, Imsm!Slot, Slot
<1>3. RecordOf(q) /\ q.copied = FALSE  BY AtTyped DEF Types, Imsm!TypeOK
<1>4. Types'
  <2>1. RecordOf(mem') /\ todo' \subseteq Slot
    BY <1>2, <1>3 DEF Types, Imsm!TypeOK, Imsm!Slot, Slot
  <2>2. Imsm!TypeOK'
    BY <1>1, <1>2, <2>1, SameShape DEF Types, Imsm!TypeOK, RecordOf, Imsm!Working, Imsm!Slot, Slot
  <2>3. pc' = "record" => mem'.copied = FALSE /\ mem' = Imsm!At(progress, mem'.copied)
    BY <1>2, <1>3
  <2>4. Driven' = Driven  BY <1>1 DEF Driven, shapeVars
  <2> QED  BY <1>1, <1>2, <2>1, <2>2, <2>3, <2>4, SameShape DEF Types
<1> HIDE DEF q
<1>5. SUFFICES ASSUME active PROVE RecordsGood' /\ DriverInv' /\ MdadmInv'
  BY <1>1, <1>2, <1>4 DEF MigrationInv, Down
<1>6. DriverInv /\ RecordsGood /\ MdadmInv /\ todo = {} /\ up
  BY <1>1, <1>5 DEF MigrationInv, MdadmInv, Down
<1>7. Driven = syncMax
  <2>1. Driven <= syncMax  BY <1>6 DEF DriverInv
  <2>2. CASE Driven >= syncMax  BY <2>1, <2>2, Typed
  <2>3. CASE ~ reshaping
    <3>1. pos = Imsm!End  BY <1>1, <1>6, <2>3 DEF MdadmInv, Imsm!Working
    <3>2. Driven = size  BY <3>1, DrivenAtEnd
    <3> QED  BY <2>1, <3>2, Typed
  <2> QED  BY <1>1, <2>2, <2>3
<1>8. AtPosition
  <2>1. progress = pos /\ Aligned(progress)
    BY <1>1, <1>6, <1>7, Typed DEF MdadmInv, DriverInv
  <2>2. pos = Least(progress, Imsm!End)  BY <2>1, Volume, Typed DEF Least
  <2> QED  BY <1>1, <1>7, <2>1, <2>2 DEF AtPosition
<1>9. RecordsGood'
  <2>1. Good(q)  BY <1>1, <1>6, <1>8, GoodAt DEF AtPosition, q
  <2>2. Readable' = Readable  BY <1>1 DEF Readable, Imsm!NextFirst, Imsm!Slot
  <2> QED  BY <1>1, <1>2, <1>6, <2>1, <2>2, SameData DEF RecordsGood
<1>10. DriverInv'  BY <1>1, <1>6, SameDriver
<1>11. MdadmInv'
  <2>1. AtPosition'  BY <1>1, <1>8, SamePosition
  <2>2. reshaping' \/ pos' = Imsm!End'
    BY <1>1, <1>6, SameShape DEF MdadmInv, Imsm!Working
  <2> QED  BY <1>1, <1>2, <1>3, <1>6, <2>1, <2>2 DEF MdadmInv, Down
<1> QED  BY <1>9, <1>10, <1>11

\* mdadm clears the records only when the metadata no longer says that the volume migrates.
LEMMA MigrationDoneKeeps ==
  ASSUME Types, MigrationInv, Provided, Imsm!MigrationDone
  PROVE  Types' /\ MigrationInv'
<1>1. UNCHANGED shapeVars
      /\ UNCHANGED <<rows, active, up, reshaping, pos, busy, syncMax, suspendLo, suspendHi>>
      /\ UNCHANGED <<progress, step, rec, first, copy, crashes>>
      /\ pc' = "clear" /\ mem' = Imsm!NoRecord /\ todo' = Slot /\ ~ active
  BY DEF Provided, Imsm!MigrationDone, Imsm!kernelVars, Imsm!shapeVars, shapeVars, Imsm!diskVars,
         Imsm!driveVars, Imsm!suspVars, Imsm!diskListVars, Imsm!Slot, Slot
<1>2. RecordOf(mem')  BY <1>1, Volume DEF RecordOf, Imsm!NoRecord, Imsm!Record
<1>3. Imsm!TypeOK'
  BY <1>1, <1>2, SameShape DEF Types, Imsm!TypeOK, RecordOf, Imsm!Slot, Slot
<1>4. Driven' = Driven  BY <1>1 DEF Driven, shapeVars
<1>5. Types'  BY <1>1, <1>2, <1>3, <1>4, SameShape DEF Types
<1> QED  BY <1>1, <1>5 DEF MigrationInv, Down

LEMMA LiftSuspensionKeeps ==
  ASSUME Types, MigrationInv, Imsm!LiftSuspension
  PROVE  Types' /\ MigrationInv'
<1>1. UNCHANGED shapeVars
      /\ UNCHANGED <<rows, active, up, pos, busy, syncMax, progress, step, mem, todo>>
      /\ UNCHANGED <<rec, first, copy, crashes>>
      /\ suspendLo' = 0 /\ suspendHi' = 0 /\ reshaping' = (reshaping /\ pc = "clear")
      /\ pc \in {"clear", "lift"}
      /\ pc' = IF pc = "clear" THEN "done" ELSE "aborted"
  BY DEF Imsm!LiftSuspension, Imsm!shapeVars, shapeVars, Imsm!diskVars, Imsm!diskListVars
<1>2. reshaping' \in BOOLEAN /\ (reshaping' => reshaping)  BY <1>1 DEF Types
<1>3. Imsm!TypeOK'  BY <1>1, SameShape DEF Types, Imsm!TypeOK, Imsm!Slot
<1>4. Driven' = Driven  BY <1>1 DEF Driven, shapeVars
<1>5. Types'  BY <1>1, <1>2, <1>3, <1>4, SameShape DEF Types
<1>6. SUFFICES ASSUME active PROVE pc' = "aborted" /\ RecordsGood' /\ DriverInv' /\ MdadmInv'
  BY <1>1, <1>5 DEF MigrationInv, Down
<1>7. pc = "lift" /\ pc' = "aborted" /\ RecordsGood /\ DriverInv /\ MdadmInv /\ up /\ todo = {}
  BY <1>1, <1>6 DEF MigrationInv, MdadmInv, Down
<1>8. RecordsGood'
  <2>1. Readable' = Readable  BY <1>1 DEF Readable, Imsm!NextFirst, Imsm!Slot
  <2> QED  BY <1>1, <1>7, <2>1, SameData DEF RecordsGood
<1>9. DriverInv'  BY <1>1, <1>7, SameDriver
<1>10. MdadmInv'  BY <1>1, <1>7 DEF MdadmInv, Down, Imsm!Working
<1> QED  BY <1>7, <1>8, <1>9, <1>10

-----------------------------------------------------------------------------
(* The driver, mdmon and the users.                                        *)

\* A record that is good stays so when the driver writes its next row.
LEMMA DriverWrites ==
  ASSUME Types, RecordsGood, DriverInv, Driven < syncMax, todo = {},
         UNCHANGED shapeVars, UNCHANGED <<todo, rec, first, copy, crashes>>,
         \A r \in Row : r # Driven => rows'[r] = rows[r]
  PROVE  RecordsGood'
<1>1. Readable' = Readable /\ Readable \subseteq Slot
  BY DEF Readable, Imsm!NextFirst, Imsm!Slot, Types, Imsm!TypeOK, Slot
<1>2. ASSUME NEW s \in Readable PROVE Good(rec[s])'
  <2>0. Driven \in Row /\ Driven \in Nat /\ Driven <= Driven
    <3>1. Driven \in Nat /\ size \in Nat /\ Driven < size  BY Typed
    <3> QED  BY <3>1 DEF Row
  <2>1. Good(rec[s]) /\ Harmless(rec[s], Driven)  BY <1>2, <2>0 DEF RecordsGood, DriverInv
  <2>2. /\ rec[s].unit \in Nat /\ rec[s].unit * Depth \in Nat
        /\ (rec[s].unit + 1) * Depth \in Nat /\ rec[s].unit * Imsm!Unit \in Nat
    <3>1. rec[s].unit \in Nat /\ rec[s].unit + 1 \in Nat  BY <1>1, <1>2, Typed
    <3> QED  BY <3>1, UnitInNat
  <2>3. (Driven + 1) * before \in Nat  BY Times, Typed
  <2>4. ~ Driven < rec[s].unit * Depth
        /\ (IF rec[s].copied THEN ~ Driven >= (rec[s].unit + 1) * Depth
            ELSE ~ (Driven + 1) * before > rec[s].unit * Imsm!Unit)
    BY <2>0, <2>1, <2>2, <2>3 DEF Harmless
  <2>5. Row' = Row /\ Imsm!Unit' = Imsm!Unit /\ before' = before /\ rec' = rec /\ copy' = copy
        /\ \A u : Copied(u)' = Copied(u)
    BY SameShape DEF Copied
  <2> QED  BY <2>1, <2>4, <2>5 DEF Good
<1> QED  BY <1>1, <1>2 DEF RecordsGood

\* A row the driver starts is one that no record it may be judged by still needs.
LEMMA StartRowKeeps ==
  ASSUME Types, MigrationInv, Imsm!StartRow,
         UNCHANGED <<pc, progress, step, mem, todo, rec, first, copy, crashes>>
  PROVE  Types' /\ MigrationInv'
<1>1. UNCHANGED shapeVars
      /\ UNCHANGED <<active, up, reshaping, pos, syncMax, suspendLo, suspendHi>>
      /\ up /\ reshaping /\ ~ busy /\ busy' = TRUE /\ Driven < syncMax
      /\ rows' = [rows EXCEPT ![Driven] = "lost"]
  BY Volume DEF Imsm!StartRow, Imsm!shapeVars, shapeVars, Imsm!suspVars, Driven
<1>2. active  BY <1>1 DEF Types
<1>3. RecordsGood /\ DriverInv /\ MdadmInv /\ pc # "idle"  BY <1>1, <1>2 DEF MigrationInv
<1>4. Driven \in Row /\ rows \in [Row -> {"old", "new", "lost"}]
  <2>1. Driven \in Nat /\ size \in Nat /\ Driven < size  BY <1>1, Typed
  <2>2. rows \in [Row -> {"old", "new", "lost"}]  BY Volume DEF Types, Imsm!TypeOK
  <2> QED  BY <2>1, <2>2 DEF Row
<1>5. \A r \in Row : r # Driven => rows'[r] = rows[r]  BY <1>1, <1>4
<1>6. Driven' = Driven  BY <1>1 DEF Driven, shapeVars
<1>7. Types'
  <2>1. rows' \in [Row -> {"old", "new", "lost"}]  BY <1>1, <1>4
  <2>2. Imsm!TypeOK'  BY <1>1, <2>1, Volume, SameShape DEF Types, Imsm!TypeOK, Imsm!Slot
  <2> QED  BY <1>1, <1>2, <1>6, <2>2, SameShape DEF Types
<1>8. pc \notin {"begin", "record", "suspend", "allow"} /\ todo = {}
  <2>1. Driven # syncMax  BY <1>1, Typed
  <2> QED  BY <1>1, <1>3, <2>1 DEF MdadmInv, AtPosition, Down
<1>9. Readable' = Readable /\ Readable \subseteq Slot
  BY DEF Readable, Imsm!NextFirst, Imsm!Slot, Types, Imsm!TypeOK, Slot
<1>10. RecordsGood'  BY <1>1, <1>3, <1>5, <1>8, DriverWrites
<1>11. DriverInv'
  <2>1. \A r \in Row : r < Driven => r # Driven  BY Typed DEF Row
  <2> QED  BY <1>1, <1>3, <1>5, <1>6, <1>9, <2>1, SameShape DEF DriverInv
<1>12. MdadmInv'
  <2>1. pc \notin Down  BY <1>1, <1>3 DEF MdadmInv
  <2> QED  BY <1>1, <1>3, <1>8, <2>1, SameShape DEF MdadmInv, Down
<1> QED  BY <1>1, <1>3, <1>7, <1>10, <1>11, <1>12 DEF MigrationInv, Down, MdadmInv

LEMMA EndRowKeeps ==
  ASSUME Types, MigrationInv, Imsm!EndRow,
         UNCHANGED <<pc, progress, step, mem, todo, rec, first, copy, crashes>>
  PROVE  Types' /\ MigrationInv'
<1>1. UNCHANGED shapeVars
      /\ UNCHANGED <<active, up, reshaping, syncMax, suspendLo, suspendHi>>
      /\ up /\ busy /\ busy' = FALSE /\ pos' = pos + after
      /\ rows' = [rows EXCEPT ![Driven] = "new"]
  BY Volume DEF Imsm!EndRow, Imsm!shapeVars, shapeVars, Imsm!suspVars, Imsm!Advancing, Types
<1>2. active /\ Driven < syncMax  BY <1>1 DEF Types
<1>3. RecordsGood /\ DriverInv /\ MdadmInv /\ pc # "idle"  BY <1>1, <1>2 DEF MigrationInv
<1>4. Driven \in Row /\ rows \in [Row -> {"old", "new", "lost"}]
  <2>1. Driven \in Nat /\ size \in Nat /\ Driven < size  BY <1>2, Typed
  <2>2. rows \in [Row -> {"old", "new", "lost"}]  BY Volume DEF Types, Imsm!TypeOK
  <2> QED  BY <2>1, <2>2 DEF Row
<1>5. rows'[Driven] = "new" /\ \A r \in Row : r # Driven => rows'[r] = rows[r]  BY <1>1, <1>4
<1>6. pos' \in Nat /\ pos' = (Driven + 1) * after /\ Driven' = Driven + 1 /\ pos' <= Imsm!End
  <2>1. (Driven + 1) * after = Driven * after + after /\ Driven * after \in Nat  BY Times, Typed
  <2>2. pos' = (Driven + 1) * after /\ pos' \in Nat  BY <1>1, <2>1, Typed
  <2>3. Driven + 1 \in Nat /\ (Driven + 1 + 1) * after = (Driven + 1) * after + after
    BY Times, Typed
  <2>4. pos' \div after = Driven + 1
    <3>1. pos' < (Driven + 1 + 1) * after  BY <2>2, <2>3, Typed
    <3>2. (Driven + 1) * after <= pos'  BY <2>2
    <3> QED  BY <2>2, <2>3, <3>1, <3>2, QuotientIs, Typed
  <2>5. Driven' = Driven + 1  BY <1>1, <2>4, SameShape DEF Driven
  <2>6. Driven + 1 <= size  BY <1>2, Typed
  <2>7. (Driven + 1) * after <= size * after  BY <2>3, <2>6, Times, Typed
  <2> QED  BY <2>2, <2>5, <2>7, Volume
<1>7. Types'
  <2>1. rows' \in [Row -> {"old", "new", "lost"}]  BY <1>1, <1>4
  <2>2. pos' \in 0..Imsm!End  BY <1>6, Volume
  <2>3. Imsm!TypeOK'  BY <1>1, <2>1, <2>2, Volume, SameShape DEF Types, Imsm!TypeOK, Imsm!Slot
  <2> QED  BY <1>1, <1>2, <1>6, <2>3, SameShape DEF Types
<1>8. pc \notin {"begin", "record", "suspend", "allow"} /\ todo = {}
  BY <1>1, <1>3 DEF MdadmInv, AtPosition, Down
<1>9. Readable' = Readable /\ Readable \subseteq Slot
  BY DEF Readable, Imsm!NextFirst, Imsm!Slot, Types, Imsm!TypeOK, Slot
<1>10. RecordsGood'  BY <1>1, <1>2, <1>3, <1>5, <1>8, DriverWrites
<1>11. DriverInv'
  <2>1. Driven + 1 <= syncMax  BY <1>2, Typed
  <2>2. ASSUME NEW r \in Row, r < Driven + 1 PROVE rows'[r] = "new"
    <3>1. r = Driven \/ r < Driven  BY <2>2, Typed DEF Row
    <3>2. r < Driven => r # Driven /\ rows[r] = "new"  BY <1>3, Typed DEF DriverInv, Row
    <3> QED  BY <1>5, <3>1, <3>2
  <2>3. ASSUME NEW r \in Row, r >= Driven + 1, (r + 1) * before > pos + after
        PROVE  rows'[r] = "old"
    <3>1. r # Driven /\ r >= Driven  BY <2>3, Typed DEF Row
    <3>2. r + 1 \in Nat  BY DEF Row
    <3>3. (r + 1) * before \in Nat  BY <3>2, Times, Typed
    <3>4. (r + 1) * before > pos  BY <2>3, <3>3, Typed
    <3> QED  BY <1>3, <1>5, <3>1, <3>4 DEF DriverInv
  <2>4. ASSUME NEW r \in Row, Driven + 1 <= r, r < syncMax
        PROVE  \A s \in Readable : Harmless(rec[s], r)
    <3>1. Driven <= r  BY <2>4, Typed DEF Row
    <3> QED  BY <1>3, <2>4, <3>1 DEF DriverInv
  <2>5. Aligned(syncMax * after)  BY <1>3 DEF DriverInv
  <2> QED  BY <1>1, <1>6, <1>9, <2>1, <2>2, <2>3, <2>4, <2>5, SameShape DEF DriverInv
<1>12. MdadmInv'
  <2>1. pc \notin Down  BY <1>1, <1>3 DEF MdadmInv
  <2>2. pos # Imsm!End  BY <1>2, DrivenAtEnd, Typed
  <2> QED  BY <1>1, <1>3, <1>8, <2>1, <2>2, SameShape DEF MdadmInv, Down
<1> QED  BY <1>1, <1>3, <1>7, <1>10, <1>11, <1>12 DEF MigrationInv, Down, MdadmInv

LEMMA DriverDoneKeeps ==
  ASSUME Types, MigrationInv, Imsm!DriverDone,
         UNCHANGED <<pc, progress, step, mem, todo, rec, first, copy, crashes>>
  PROVE  Types' /\ MigrationInv'
<1>1. UNCHANGED shapeVars
      /\ UNCHANGED <<rows, active, up, pos, busy, syncMax, suspendLo, suspendHi>>
      /\ up /\ reshaping /\ ~ busy /\ pos = Imsm!End /\ reshaping' = FALSE
  BY Volume DEF Imsm!DriverDone, Imsm!shapeVars, shapeVars, Imsm!suspVars, Imsm!diskVars
<1>2. active  BY <1>1 DEF Types
<1>3. RecordsGood /\ DriverInv /\ MdadmInv /\ pc # "idle"  BY <1>1, <1>2 DEF MigrationInv
<1>4. Driven' = Driven  BY <1>1 DEF Driven, shapeVars
<1>5. Types'
  <2>1. Imsm!TypeOK'  BY <1>1, SameShape DEF Types, Imsm!TypeOK, Imsm!Slot
  <2> QED  BY <1>1, <1>2, <1>4, <2>1, SameShape DEF Types
<1>6. RecordsGood'
  <2>1. Readable' = Readable  BY DEF Readable, Imsm!NextFirst, Imsm!Slot
  <2> QED  BY <1>1, <1>3, <2>1, SameData DEF RecordsGood
<1>7. DriverInv'  BY <1>1, <1>3, SameDriver
<1>8. MdadmInv'
  <2>1. pc \notin Down  BY <1>1, <1>3 DEF MdadmInv
  <2>2. AtPosition' = AtPosition /\ \A p : MayGoTo(p)' = MayGoTo(p)  BY <1>1, SamePosition
  <2> QED  BY <1>1, <1>3, <1>4, <2>1, <2>2, SameShape DEF MdadmInv, Down
<1> QED  BY <1>1, <1>3, <1>5, <1>6, <1>7, <1>8 DEF MigrationInv, MdadmInv, Down

LEMMA EndMigrationKeeps ==
  ASSUME Types, MigrationInv, Imsm!EndMigration
  PROVE  Types' /\ MigrationInv'
<1>1. UNCHANGED shapeVars
      /\ UNCHANGED <<rows, up, reshaping, pos, busy, syncMax, suspendLo, suspendHi>>
      /\ UNCHANGED <<pc, progress, step, mem, todo, rec, first, copy, crashes>>
      /\ active /\ up /\ ~ reshaping /\ pos = Imsm!End /\ active' = FALSE
  BY Volume DEF Imsm!EndMigration, Imsm!shapeVars, shapeVars, Imsm!suspVars, Imsm!driveVars,
                Imsm!mdadmVars, Imsm!diskListVars
<1>2. ~ busy
  <2>1. Driven = size  BY <1>1, DrivenAtEnd
  <2> QED  BY <2>1, Typed DEF Types
<1>3. Driven' = Driven  BY <1>1 DEF Driven, shapeVars
<1>4. Types'
  <2>1. Imsm!TypeOK'  BY <1>1, SameShape DEF Types, Imsm!TypeOK, Imsm!Slot
  <2> QED  BY <1>1, <1>2, <1>3, <2>1, SameShape DEF Types
<1>5. pc # "idle" /\ pc \notin Down  BY <1>1 DEF MigrationInv, MdadmInv
<1> QED  BY <1>1, <1>4, <1>5 DEF MigrationInv, Down

\* Users only write to a copy that is vouched for when its unit is suspended, and then
\* they wait.
LEMMA UserWriteKeeps ==
  ASSUME Types, MigrationInv, Provided, Imsm!UserWrite
  PROVE  Types' /\ MigrationInv'
<1>1. PICK a \in copy.held :
        /\ Imsm!Vouched /\ Imsm!NotHeldUp(a)
        /\ ~ Imsm!LeftCopy /\ ~ Imsm!BeforeSuspension
        /\ copy' = [copy EXCEPT !.held = @ \ {a}]
        /\ UNCHANGED <<Imsm!kernelVars, Imsm!mdadmVars, rec, first, crashes>>
  BY DEF Imsm!UserWrite, Provided
<1>2. UNCHANGED shapeVars
      /\ UNCHANGED <<rows, active, up, reshaping, pos, busy, syncMax, suspendLo, suspendHi>>
      /\ UNCHANGED <<pc, progress, step, mem, todo, rec, first, crashes>>
  BY <1>1 DEF Imsm!kernelVars, Imsm!shapeVars, shapeVars, Imsm!diskVars, Imsm!driveVars,
              Imsm!suspVars, Imsm!mdadmVars
<1>3. Types'
  <2>1. copy \in [unit : 0..Imsm!Units, held : SUBSET Imsm!Addr]  BY DEF Types, Imsm!TypeOK
  <2>2. copy' \in [unit : 0..Imsm!Units, held : SUBSET Imsm!Addr]  BY <1>1, <2>1
  <2>3. Imsm!TypeOK'  BY <1>2, <2>2, SameShape DEF Types, Imsm!TypeOK, Imsm!Slot
  <2>4. Driven' = Driven  BY <1>2 DEF Driven, shapeVars
  <2> QED  BY <1>2, <2>3, <2>4, SameShape DEF Types
<1>4. ~ active
  <2> SUFFICES ASSUME active PROVE FALSE  OBVIOUS
  <2>1. up  BY <1>1 DEF Imsm!NotHeldUp
  <2>2. RecordsGood /\ MdadmInv /\ pc \notin {"idle", "clear", "done"}  BY <2>1 DEF MigrationInv
  <2>3. mem.copied \in BOOLEAN /\ first \in Slot
    BY Typed DEF Types, Imsm!TypeOK, Imsm!Slot, Slot
  <2>4. pc \in {"suspend", "allow", "wait"} /\ (pc = "suspend" => ~ mem.copied)
    BY <1>1, <2>1, <2>2, <2>3
       DEF Imsm!LeftCopy, Imsm!BeforeSuspension, MdadmInv, Down, Types, Imsm!TypeOK, Imsm!Working
  <2>5. \A s \in Slot : rec[s] = mem  BY <2>2, <2>4 DEF MdadmInv
  <2>6. mem.copied  BY <1>1, <2>4, <2>5 DEF Imsm!Vouched, Imsm!Slot, Slot
  <2>7. /\ suspendLo = mem.unit * Imsm!Unit
        /\ suspendHi = Least((mem.unit + 1) * Imsm!Unit, Imsm!End)
    BY <2>2, <2>4, <2>6 DEF MdadmInv
  <2>8. Good(mem)
    <3>1. first \in Readable  BY <2>3 DEF Readable, Imsm!NextFirst, Imsm!Slot, Slot
    <3> QED  BY <2>2, <2>3, <2>5, <3>1 DEF RecordsGood
  <2>9. a \in Imsm!InUnit(mem.unit)  BY <2>6, <2>8 DEF Good, Copied
  <2>10. a \in Addr /\ mem.unit * Imsm!Unit <= a /\ a < (mem.unit + 1) * Imsm!Unit
    BY <2>9, Volume DEF Imsm!InUnit
  <2>11. a < Imsm!End
    <3>1. a \in Nat /\ a < Total  BY <2>10, Volume DEF Addr
    <3> QED  BY <3>1, Volume
  <2>12. suspendLo <= a /\ a < suspendHi  BY <2>7, <2>10, <2>11 DEF Least
  <2> QED  BY <1>1, <2>12 DEF Imsm!NotHeldUp
<1> QED  BY <1>2, <1>3, <1>4, SameShape DEF MigrationInv, Down, Imsm!NoRecord

\* mdadm is killed: what is on the disks is as it was.
LEMMA KillKeeps ==
  ASSUME Types, MigrationInv, Imsm!Kill
  PROVE  Types' /\ MigrationInv'
<1>1. UNCHANGED shapeVars
      /\ UNCHANGED <<rows, active, up, reshaping, pos, busy, syncMax, suspendLo, suspendHi>>
      /\ UNCHANGED <<rec, first, copy, crashes>>
      /\ pc \in Imsm!Working /\ active /\ pc' = "killed" /\ mem' = Imsm!NoRecord /\ todo' = {}
      /\ progress' = 0 /\ step' = 0
  BY DEF Imsm!Kill, Imsm!kernelVars, Imsm!shapeVars, shapeVars, Imsm!diskVars, Imsm!driveVars,
         Imsm!suspVars, Imsm!diskListVars
<1>2. RecordsGood /\ DriverInv /\ MdadmInv /\ up
  BY <1>1 DEF MigrationInv, MdadmInv, Down, Imsm!Working
<1>3. Types'
  <2>1. RecordOf(mem')  BY <1>1, Volume DEF RecordOf, Imsm!NoRecord, Imsm!Record
  <2>2. 0 \in 0..(Imsm!Units * Imsm!Unit)  BY Volume, UnitInNat
  <2>3. Imsm!TypeOK'
    BY <1>1, <2>1, <2>2, SameShape DEF Types, Imsm!TypeOK, RecordOf, Imsm!Slot
  <2>4. Driven' = Driven  BY <1>1 DEF Driven, shapeVars
  <2> QED  BY <1>1, <2>1, <2>3, <2>4, SameShape DEF Types
<1>4. RecordsGood'
  <2>1. Readable' = Readable  BY <1>1 DEF Readable, Imsm!NextFirst, Imsm!Slot
  <2> QED  BY <1>1, <1>2, <2>1, SameData DEF RecordsGood
<1>5. DriverInv'  BY <1>1, <1>2, SameDriver
<1>6. MdadmInv'
  <2>1. reshaping' \/ pos' = Imsm!End'  BY <1>1, <1>2, SameShape DEF MdadmInv
  <2> QED  BY <1>1, <1>2, <2>1 DEF MdadmInv, Down
<1> QED  BY <1>1, <1>3, <1>4, <1>5, <1>6 DEF MigrationInv, Down

\* mdadm --grow --continue finds the driver where sync_max let it go.
LEMMA ContinueCommandKeeps ==
  ASSUME Types, MigrationInv, Provided, Imsm!ContinueCommand
  PROVE  Types' /\ MigrationInv'
<1>1. UNCHANGED shapeVars
      /\ UNCHANGED <<rows, active, up, reshaping, pos, busy, syncMax, todo>>
      /\ UNCHANGED <<rec, first, copy, crashes>>
      /\ pc = "killed" /\ active /\ pc' = "begin" /\ mem' = rec[first]
      /\ progress' = syncMax * after /\ step' = progress'
      /\ suspendLo' = progress' /\ suspendHi' = progress'
      /\ ~ busy /\ Driven >= syncMax
  BY Volume DEF Imsm!ContinueCommand, Imsm!CaughtUp, Provided, Imsm!shapeVars, shapeVars,
                Imsm!diskVars, Imsm!driveVars, Imsm!diskListVars, Driven
<1>2. RecordsGood /\ DriverInv /\ MdadmInv /\ up /\ todo = {}
  BY <1>1 DEF MigrationInv, MdadmInv, Down
<1>3. first \in Slot /\ mem' \in Imsm!Record /\ RecordOf(mem')
  BY <1>1 DEF Types, Imsm!TypeOK, Imsm!Slot, Slot
<1>4. /\ Driven = syncMax /\ progress' = pos /\ Aligned(progress')
      /\ progress' \in 0..(Imsm!Units * Imsm!Unit)
  <2>1. Driven = syncMax  BY <1>1, <1>2, Typed DEF DriverInv
  <2>2. progress' = pos /\ Aligned(pos)  BY <1>1, <1>2, <2>1, Typed DEF DriverInv
  <2>3. pos \in Nat /\ pos <= Imsm!Units * Imsm!Unit  BY <2>2, AtAligned
  <2>4. Imsm!Units * Imsm!Unit \in Nat  BY Volume, UnitInNat
  <2> QED  BY <2>1, <2>2, <2>3, <2>4
<1>5. Types'
  <2>1. Imsm!TypeOK'
    BY <1>1, <1>3, <1>4, SameShape DEF Types, Imsm!TypeOK, Imsm!Working, Imsm!Slot
  <2>2. Driven' = Driven  BY <1>1 DEF Driven, shapeVars
  <2>3. suspendLo' \in Nat /\ suspendHi' \in Nat  BY <1>1, <1>4, Typed
  <2> QED  BY <1>1, <1>3, <2>1, <2>2, <2>3, SameShape DEF Types
<1>6. RecordsGood'
  <2>1. Readable' = Readable  BY <1>1 DEF Readable, Imsm!NextFirst, Imsm!Slot
  <2> QED  BY <1>1, <1>2, <2>1, SameData DEF RecordsGood
<1>7. DriverInv'  BY <1>1, <1>2, SameDriver
<1>8. MdadmInv'
  <2>1. reshaping' \/ pos' = Imsm!End'  BY <1>1, <1>2, SameShape DEF MdadmInv
  <2>2. pos = Least(progress', Imsm!End)  BY <1>4, Volume, Typed DEF Least
  <2>3. Driven' = Driven  BY <1>1 DEF Driven, shapeVars
  <2>4. AtPosition'
    BY <1>1, <1>4, <2>2, <2>3, SameShape DEF AtPosition
  <2> QED  BY <1>1, <1>2, <2>1, <2>4 DEF MdadmInv, Down
<1> QED  BY <1>1, <1>5, <1>6, <1>7, <1>8 DEF MigrationInv, Down

\* Whatever was under way is gone; what is on the disks stays, and from now on one of the
\* two records is the one that is read.
LEMMA CrashKeeps ==
  ASSUME Types, MigrationInv, Provided, Imsm!Crash
  PROVE  Types' /\ MigrationInv'
<1>1. UNCHANGED shapeVars
      /\ UNCHANGED <<rows, active, rec, copy>>
      /\ active /\ ~ Imsm!LastIsCopied /\ crashes < MaxCrashes /\ crashes' = crashes + 1
      /\ pc' = "down" /\ mem' = Imsm!NoRecord /\ todo' = {} /\ progress' = 0 /\ step' = 0
      /\ up' = FALSE /\ reshaping' = FALSE /\ busy' = FALSE /\ pos' = 0
      /\ syncMax' = 0 /\ suspendLo' = 0 /\ suspendHi' = 0 /\ first' \in Readable
  BY DEF Imsm!Crash, Imsm!MayCrash, Provided, Imsm!shapeVars, shapeVars, Imsm!diskVars, Readable
<1>2. crashes \in Nat /\ crashes' \in 0..MaxCrashes /\ crashes' > 0
  BY <1>1, MaxCrashesAssumption DEF Types, Imsm!TypeOK
<1>3. Readable \subseteq Slot
  BY DEF Readable, Imsm!NextFirst, Imsm!Slot, Types, Imsm!TypeOK, Slot
<1>4. Driven' = 0 /\ pos' = Driven' * after'
  BY <1>1, Quotient, Typed, SameShape DEF Driven
<1>5. Types'
  <2>1. RecordOf(mem')  BY <1>1, Volume DEF RecordOf, Imsm!NoRecord, Imsm!Record
  <2>2. 0 \in 0..(Imsm!Units * Imsm!Unit) /\ 0 \in 0..Imsm!End /\ 0 \in 0..size
    BY Volume, UnitInNat, Typed
  <2>3. Imsm!TypeOK'
    BY <1>1, <1>2, <1>3, <2>1, <2>2, SameShape DEF Types, Imsm!TypeOK, RecordOf, Imsm!Slot, Slot
  <2> QED  BY <1>1, <1>4, <2>1, <2>3, SameShape DEF Types
<1>6. RecordsGood  BY <1>1 DEF MigrationInv
<1>7. RecordsGood'
  <2>1. Readable' = {first'}
    BY <1>2 DEF Readable, Imsm!NextFirst, Provided
  <2> QED  BY <1>1, <1>6, <2>1, SameData DEF RecordsGood
<1>8. MdadmInv'
  <2>1. ~ (rec[first'].copied /\ rec[first'].unit = Imsm!Units - 1)
    BY <1>1, <1>3 DEF Imsm!LastIsCopied, Imsm!Slot, Slot
  <2> QED  BY <1>1, <1>2, <2>1, SameShape DEF MdadmInv, Down, Imsm!Working
<1> QED  BY <1>1, <1>5, <1>7, <1>8 DEF MigrationInv, Down

-----------------------------------------------------------------------------
(* The assembly after a crash.                                             *)

LEMMA LoadRecordKeeps ==
  ASSUME Types, MigrationInv, Imsm!LoadRecord
  PROVE  Types' /\ MigrationInv'
<1> DEFINE q == rec[first]
<1>1. UNCHANGED shapeVars
      /\ UNCHANGED <<rows, active, up, reshaping, pos, busy, syncMax, suspendLo, suspendHi>>
      /\ UNCHANGED <<step, todo, rec, first, copy, crashes>>
      /\ pc = "down" /\ mem' = q /\ progress' = Imsm!Progress(q)
      /\ pc' = IF ~ q.copied THEN "assembled"
               ELSE IF q.unit >= Imsm!Units THEN "refused" ELSE "restoring"
  BY DEF Imsm!LoadRecord, Imsm!kernelVars, Imsm!shapeVars, shapeVars, Imsm!diskVars,
         Imsm!driveVars, Imsm!suspVars, Imsm!diskListVars
<1>2. active  BY <1>1 DEF MigrationInv, Down
<1>3. RecordsGood /\ MdadmInv /\ ~ up /\ todo = {}
  BY <1>1, <1>2 DEF MigrationInv, MdadmInv, Down
<1>4. first \in Slot /\ q \in Imsm!Record /\ RecordOf(q) /\ q.unit \in Nat /\ q.unit <= Imsm!Units
      /\ q.copied \in BOOLEAN
  BY Typed DEF Types, Imsm!TypeOK, Imsm!Slot, Slot
<1>5. q.copied => q.unit < Imsm!Units - 1
  <2>1. q.copied => q.unit < Imsm!Units  BY <1>4 DEF RecordOf
  <2>2. ~ (q.copied /\ q.unit = Imsm!Units - 1)  BY <1>1, <1>3 DEF MdadmInv
  <2> HIDE DEF q
  <2> QED  BY <1>4, <2>1, <2>2, Volume
<1> HIDE DEF q
<1>6. /\ ~ q.copied => progress' = q.unit * Imsm!Unit
      /\ q.copied => progress' = (q.unit + 1) * Imsm!Unit
  BY <1>1, <1>5 DEF Imsm!Progress
<1>7. progress' \in 0..(Imsm!Units * Imsm!Unit)
  <2>1. ASSUME NEW v \in Nat, v <= Imsm!Units PROVE v * Imsm!Unit \in 0..(Imsm!Units * Imsm!Unit)
    <3>1. v * Imsm!Unit \in Nat /\ Imsm!Units * Imsm!Unit \in Nat /\ Imsm!Units \in Nat
          /\ Imsm!Unit \in Nat
      BY Volume, UnitInNat
    <3>2. v * Imsm!Unit <= Imsm!Units * Imsm!Unit  BY <2>1, <3>1, Times
    <3> QED  BY <3>1, <3>2
  <2>2. CASE q.copied
    <3>1. q.unit + 1 \in Nat /\ q.unit + 1 <= Imsm!Units  BY <1>4, <1>5, <2>2, Volume
    <3> QED  BY <1>6, <2>1, <2>2, <3>1
  <2>3. CASE ~ q.copied  BY <1>4, <1>6, <2>1, <2>3
  <2> QED  BY <2>2, <2>3
<1>8. pc' \in {"assembled", "restoring"} /\ (pc' = "assembled" <=> ~ q.copied)
  <2>1. q.copied => ~ q.unit >= Imsm!Units  BY <1>4, <1>5, Volume
  <2> QED  BY <1>1, <2>1
<1>9. Types'
  <2>1. Imsm!TypeOK'
    BY <1>1, <1>4, <1>7, <1>8, SameShape DEF Types, Imsm!TypeOK, Imsm!Slot
  <2>2. Driven' = Driven  BY <1>1 DEF Driven, shapeVars
  <2> QED  BY <1>1, <1>4, <1>8, <2>1, <2>2, SameShape DEF Types
<1>10. RecordsGood'
  <2>1. Readable' = Readable  BY <1>1 DEF Readable, Imsm!NextFirst, Imsm!Slot
  <2> QED  BY <1>1, <1>3, <2>1, SameData DEF RecordsGood
<1>11. MdadmInv'
  <2>1. mem' = rec'[first']  BY <1>1 DEF q
  <2>2. Imsm!Units' = Imsm!Units /\ Imsm!Unit' = Imsm!Unit  BY <1>1, SameShape
  <2>3. crashes' > 0 /\ ~ busy'  BY <1>1, <1>3 DEF MdadmInv, Down
  <2> QED
    BY <1>1, <1>3, <1>5, <1>6, <1>8, <2>1, <2>2, <2>3 DEF MdadmInv, Down, Imsm!Working
<1> QED  BY <1>1, <1>2, <1>3, <1>8, <1>9, <1>10, <1>11 DEF MigrationInv, Down

\* The unit is put back, one disk after the other: the record stays good all the while.
LEMMA RestoreFirstKeeps ==
  ASSUME Types, MigrationInv, Provided, Imsm!RestoreFirst
  PROVE  Types' /\ MigrationInv'
<1> DEFINE u == mem.unit
           back == Imsm!RestoredRows(u)
<1>1. UNCHANGED shapeVars
      /\ UNCHANGED <<active, up, reshaping, pos, busy, syncMax, suspendLo, suspendHi>>
      /\ UNCHANGED <<progress, step, mem, todo, rec, first, copy, crashes>>
      /\ pc = "restoring" /\ pc' = "restoringlast"
      /\ rows' = [r \in Row |-> IF rows[r] # back[r] THEN "lost" ELSE rows[r]]
  BY Volume DEF Imsm!RestoreFirst, Imsm!shapeVars, shapeVars,
                Imsm!driveVars, Imsm!suspVars, Imsm!diskListVars
<1>2. active  BY <1>1 DEF MigrationInv, Down
<1>3. RecordsGood /\ MdadmInv /\ ~ up /\ todo = {} /\ mem = rec[first] /\ mem.copied /\ crashes > 0
  BY <1>1, <1>2 DEF MigrationInv, MdadmInv, Down
<1>4. Readable = {first} /\ Readable' = {first}
  <2>1. crashes # 0  BY <1>3 DEF Types, Imsm!TypeOK
  <2> QED  BY <1>1, <2>1 DEF Readable, Imsm!NextFirst, Provided
<1>5. Good(mem) /\ u \in Nat  BY <1>3, <1>4, Typed DEF RecordsGood
<1>6. \A r \in Row : r < u * Depth \/ r >= (u + 1) * Depth => back[r] = rows[r]
  BY <1>3, <1>5, Restored
<1> HIDE DEF back
<1>7. Types'
  <2>1. rows' \in [Row -> {"old", "new", "lost"}]
    <3>1. rows \in [Row -> {"old", "new", "lost"}]  BY Volume DEF Types, Imsm!TypeOK
    <3> QED  BY <1>1, <3>1
  <2>2. Imsm!TypeOK'  BY <1>1, <2>1, Volume, SameShape DEF Types, Imsm!TypeOK, Imsm!Slot
  <2>3. Driven' = Driven  BY <1>1 DEF Driven, shapeVars
  <2> QED  BY <1>1, <2>2, <2>3, SameShape DEF Types
<1>8. RecordsGood'
  <2>1. \A r \in Row : r < u * Depth \/ r >= (u + 1) * Depth => rows'[r] = rows[r]  BY <1>1, <1>6
  <2>2. Good(mem)'
    <3>1. Row' = Row /\ Imsm!Unit' = Imsm!Unit /\ before' = before /\ mem' = mem
          /\ \A v : Copied(v)' = Copied(v)
      BY <1>1, SameShape DEF Copied
    <3> QED  BY <1>3, <1>5, <2>1, <3>1 DEF Good
  <2>3. Good(rec[first])'  BY <1>1, <1>3, <2>2
  <2> QED  BY <1>1, <1>3, <1>4, <2>3 DEF RecordsGood
<1>9. MdadmInv'
  BY <1>1, <1>3, SameShape DEF MdadmInv, Down, Imsm!Working
<1> QED  BY <1>1, <1>2, <1>3, <1>7, <1>8, <1>9 DEF MigrationInv, Down

\* When it is back the record of the next unit is good too.
LEMMA RestoreLastKeeps ==
  ASSUME Types, MigrationInv, Provided, Imsm!RestoreLast
  PROVE  Types' /\ MigrationInv'
<1> DEFINE u == mem.unit
           q == Imsm!At(progress, FALSE)
<1>1. UNCHANGED shapeVars
      /\ UNCHANGED <<active, up, reshaping, pos, busy, syncMax, suspendLo, suspendHi>>
      /\ UNCHANGED <<progress, step, rec, first, copy, crashes>>
      /\ pc = "restoringlast" /\ pc' = "assembled" /\ mem' = q /\ todo' = Slot
      /\ rows' = Imsm!RestoredRows(u)
  BY DEF Imsm!RestoreLast, Imsm!shapeVars, shapeVars,
         Imsm!driveVars, Imsm!suspVars, Imsm!diskListVars, Imsm!Slot, Slot
<1>2. active  BY <1>1 DEF MigrationInv, Down
<1>3. /\ RecordsGood /\ MdadmInv /\ ~ up /\ mem = rec[first] /\ mem.copied /\ crashes > 0 /\ ~ busy
      /\ u < Imsm!Units - 1 /\ progress = (u + 1) * Imsm!Unit
  BY <1>1, <1>2 DEF MigrationInv, MdadmInv, Down
<1>4. Readable = {first} /\ Readable' = {first}
  <2>1. crashes # 0  BY <1>3 DEF Types, Imsm!TypeOK
  <2> QED  BY <1>1, <2>1 DEF Readable, Imsm!NextFirst, Provided
<1>5. Good(mem) /\ u \in Nat  BY <1>3, <1>4, Typed DEF RecordsGood
<1>6. \A r \in Row :
        /\ r < u * Depth => rows'[r] = rows[r]
        /\ r < (u + 1) * Depth => rows'[r] = "new"
        /\ r >= (u + 1) * Depth => rows'[r] = "old"
  BY <1>1, <1>3, <1>5, Restored
<1>7. q \in Imsm!Record /\ RecordOf(q) /\ q.copied = FALSE /\ q.unit = u + 1
  <2>1. u + 1 \in Nat /\ u + 1 < Imsm!Units /\ u + 1 \in 0..Imsm!Units /\ FALSE \in BOOLEAN
    BY <1>3, <1>5, Volume
  <2>2. Aligned(progress)  BY <1>3, <2>1 DEF Aligned
  <2>3. progress < Imsm!End  BY <1>3, <2>1, UnitsEnd
  <2>4. q \in Imsm!Record /\ q.copied = FALSE /\ q.unit \in 0..Imsm!Units
        /\ (q.unit < Imsm!Units => progress = q.unit * Imsm!Unit)
        /\ (progress < Imsm!End => q.unit < Imsm!Units)
    BY <2>1, <2>2, AtAligned
  <2> HIDE DEF q, u
  <2>5. q.unit \in Nat /\ q.unit * Imsm!Unit = (u + 1) * Imsm!Unit  BY <1>3, <2>3, <2>4, Volume
  <2>6. q.unit = u + 1
    <3>1. Imsm!Unit \in Nat \ {0} /\ u + 1 + 1 \in Nat /\ q.unit + 1 \in Nat
      BY <2>1, <2>5, Volume
    <3>2. (q.unit + 1) * Imsm!Unit = q.unit * Imsm!Unit + Imsm!Unit
          /\ (u + 1 + 1) * Imsm!Unit = (u + 1) * Imsm!Unit + Imsm!Unit
          /\ q.unit * Imsm!Unit \in Nat
      BY <2>1, <2>5, <3>1, Times
    <3>3. q.unit < u + 1 + 1
      <4>1. q.unit * Imsm!Unit < (u + 1 + 1) * Imsm!Unit  BY <2>5, <3>1, <3>2
      <4> QED  BY <2>5, <3>1, <4>1, Times
    <3>4. u + 1 < q.unit + 1
      <4>1. (u + 1) * Imsm!Unit < (q.unit + 1) * Imsm!Unit  BY <2>5, <3>1, <3>2
      <4> QED  BY <2>1, <3>1, <4>1, Times
    <3> QED  BY <2>1, <2>5, <3>3, <3>4
  <2> QED  BY <2>4, <2>6 DEF RecordOf
<1> HIDE DEF q
<1>8. Types'
  <2>1. rows' \in [Imsm!Row -> {"old", "new", "lost"}]
    <3>1. rows \in [Imsm!Row -> {"old", "new", "lost"}]  BY DEF Types, Imsm!TypeOK
    <3> QED  BY <1>1, <3>1 DEF Imsm!RestoredRows
  <2>2. Imsm!TypeOK'
    BY <1>1, <1>7, <2>1, SameShape DEF Types, Imsm!TypeOK, Imsm!Slot, Slot
  <2>3. Driven' = Driven  BY <1>1 DEF Driven, shapeVars
  <2> QED  BY <1>1, <1>7, <2>2, <2>3, SameShape DEF Types
<1>9. Row' = Row /\ Imsm!Unit' = Imsm!Unit /\ before' = before
      /\ \A v : Copied(v)' = Copied(v)
  BY <1>1, SameShape DEF Copied
<1>10. Good(rec[first])'  BY <1>1, <1>3, <1>5, <1>6, <1>9 DEF Good
<1>11. Good(mem)'
  <2>1. ASSUME NEW r \in Row, (r + 1) * before > (u + 1) * Imsm!Unit PROVE r >= (u + 1) * Depth
    <3>1. r \in Nat /\ r + 1 \in Nat /\ u + 1 \in Nat  BY <1>5 DEF Row
    <3>2. (u + 1) * Depth \in Nat /\ (u + 1) * Imsm!Unit \in Nat  BY <3>1, UnitInNat
    <3>3. (r + 1) * before <= (r + 1) * after /\ (r + 1) * before \in Nat /\ (r + 1) * after \in Nat
      BY <3>1, OldBeforeNew
    <3>4. ~ (r + 1) * after <= (u + 1) * Imsm!Unit  BY <2>1, <3>2, <3>3
    <3>5. ~ r < (u + 1) * Depth  BY <3>1, <3>4, RowBefore
    <3> QED  BY <3>1, <3>2, <3>5
  <2>2. mem'.copied = FALSE /\ mem'.unit = u + 1  BY <1>1, <1>7
  <2> QED  BY <1>6, <1>9, <2>1, <2>2 DEF Good
<1>12. RecordsGood'  BY <1>1, <1>4, <1>10, <1>11 DEF RecordsGood
<1>13. MdadmInv'
  <2>1. mem'.copied = FALSE /\ progress' = mem'.unit * Imsm!Unit'
    BY <1>1, <1>3, <1>7, <1>9
  <2>2. first' \in todo'  BY <1>1 DEF Types, Imsm!TypeOK, Imsm!Slot, Slot
  <2> QED  BY <1>1, <1>3, <2>1, <2>2 DEF MdadmInv, Down, Imsm!Working
<1> QED  BY <1>1, <1>2, <1>3, <1>8, <1>12, <1>13 DEF MigrationInv, Down

\* The driver is given the position of the record: what it has before it is as the record
\* says.
LEMMA ContinueKeeps ==
  ASSUME Types, MigrationInv, Imsm!Continue
  PROVE  Types' /\ MigrationInv'
<1> DEFINE u == mem.unit
           p == Least(progress, Imsm!End)
<1>1. UNCHANGED shapeVars
      /\ UNCHANGED <<rows, busy, mem, todo, rec, first, copy, crashes>>
      /\ pc = "assembled" /\ pc' = "begin" /\ todo = {}
      /\ active' = TRUE /\ up' = TRUE /\ reshaping' = TRUE
      /\ pos' = p /\ syncMax' = p \div after
      /\ suspendLo' = progress /\ suspendHi' = progress /\ progress' = progress /\ step' = progress
  BY Volume DEF Imsm!Continue, Imsm!Start, Imsm!shapeVars, shapeVars, Imsm!diskListVars,
                Imsm!Least, Least
<1>2. active  BY <1>1 DEF MigrationInv, Down
<1>3. RecordsGood /\ MdadmInv /\ ~ busy /\ ~ mem.copied /\ progress = u * Imsm!Unit
      /\ mem = rec[first]
  BY <1>1, <1>2 DEF MigrationInv, MdadmInv, Down
<1>4. first \in Slot /\ first \in Readable /\ Readable \subseteq Slot /\ Readable' = Readable
  BY <1>1 DEF Readable, Imsm!NextFirst, Imsm!Slot, Types, Imsm!TypeOK, Slot
<1>5. Good(mem) /\ u \in 0..Imsm!Units /\ u \in Nat  BY <1>3, <1>4, Typed, Volume DEF RecordsGood
<1>6. Aligned(progress) /\ Aligned(p) /\ p <= Imsm!End /\ p <= progress
      /\ p \in Nat /\ progress \in Nat /\ (p = progress \/ p = Imsm!End)
  BY <1>3, <1>5, Volume, Typed DEF Aligned, Least
<1> HIDE DEF p
<1>7. p \div after \in 0..size /\ p \div after \in Nat /\ (p \div after) * after = p
  BY <1>6, AlignedRow, RowsBelowEnd
<1>8. Driven' = p \div after  BY <1>1, SameShape DEF Driven
<1> DEFINE d == p \div after
<1> HIDE DEF d
<1>9. d \in 0..size /\ d \in Nat /\ d * after = p /\ Driven' = d /\ syncMax' = d
  BY <1>1, <1>7, <1>8 DEF d
<1>10. Types'
  <2>1. progress \in 0..(Imsm!Units * Imsm!Unit) /\ p \in 0..Imsm!End
    BY <1>6, Volume DEF Types, Imsm!TypeOK
  <2>2. Imsm!TypeOK'
    BY <1>1, <1>9, <2>1, SameShape DEF Types, Imsm!TypeOK, Imsm!Working, Imsm!Slot
  <2>3. pos' = Driven' * after'  BY <1>1, <1>9, SameShape
  <2> QED  BY <1>1, <1>3, <1>6, <2>2, <2>3, SameShape DEF Types
<1>11. RecordsGood'  BY <1>1, <1>3, <1>4, SameData DEF RecordsGood
<1>12. DriverInv'
  <2>1. u * Depth \in Nat /\ u * Imsm!Unit \in Nat  BY <1>5, UnitInNat
  <2>2. ASSUME NEW r \in Row, r < d PROVE rows[r] = "new"
    <3>1. r \in Nat /\ r + 1 \in Nat /\ r + 1 <= d  BY <1>9, <2>2 DEF Row
    <3>2. (r + 1) * after <= d * after  BY <1>9, <3>1, Times, Typed
    <3>3. r * after < (r + 1) * after /\ r * after \in Nat /\ (r + 1) * after \in Nat
      BY <3>1, Times, Typed
    <3>4. ~ r * after >= u * Imsm!Unit  BY <1>3, <1>6, <1>9, <2>1, <3>2, <3>3
    <3>5. ~ r >= u * Depth  BY <1>5, <3>1, <3>4, RowBefore
    <3>6. r < u * Depth  BY <2>1, <3>1, <3>5
    <3> QED  BY <1>5, <3>6 DEF Good
  <2>3. ASSUME NEW r \in Row, (r + 1) * before > p PROVE rows[r] = "old"
    <3>1. r + 1 \in Nat /\ r + 1 <= size  BY Typed DEF Row
    <3>2. p # Imsm!End
      <4>1. (r + 1) * before <= size * before  BY <3>1, Times, Typed
      <4>2. (r + 1) * before \in Nat /\ size * before \in Nat  BY <3>1, Times, Typed
      <4> QED  BY <1>6, <2>3, <4>1, <4>2, Volume
    <3>3. (r + 1) * before > mem.unit * Imsm!Unit  BY <1>3, <1>6, <2>3, <3>2
    <3> QED  BY <1>3, <1>5, <3>3 DEF Good
  <2>4. \A r \in Row : ~ (d <= r /\ r < d)  BY <1>9 DEF Row
  <2>5. Aligned(d * after)  BY <1>6, <1>9
  <2> QED  BY <1>1, <1>9, <2>2, <2>3, <2>4, <2>5, SameShape DEF DriverInv
<1>13. MdadmInv'
  <2>1. AtPosition'  BY <1>1, <1>3, <1>6, <1>9, SameShape DEF AtPosition, p
  <2> QED  BY <1>1, <1>3, <2>1 DEF MdadmInv, Down
<1> QED  BY <1>1, <1>10, <1>11, <1>12, <1>13 DEF MigrationInv, Down

-----------------------------------------------------------------------------
(* The theorems.                                                           *)

\* The invariant of the migration is inductive.
LEMMA MigrationStep ==
  ASSUME Types, MigrationInv, Provided, external, [Next]_vars
  PROVE  Types' /\ MigrationInv' /\ external' = external
<1>1. CASE UNCHANGED vars
  <2>1. UNCHANGED <<shapeVars, rows, active, up, reshaping, pos, busy, syncMax>>
        /\ UNCHANGED <<suspendLo, suspendHi, pc, progress, step, mem, todo, rec, first, copy>>
        /\ UNCHANGED <<crashes, external>>
    BY <1>1 DEF vars, kernelVars, diskVars, driveVars, suspVars, imsmVars
  <2>2. Driven' = Driven  BY <2>1 DEF Driven, shapeVars
  <2>3. Types'
    <3>1. Imsm!TypeOK'  BY <2>1, SameShape DEF Types, Imsm!TypeOK, Imsm!Slot
    <3> QED  BY <2>1, <2>2, <3>1, SameShape DEF Types
  <2>4. MigrationInv'
    <3>1. Readable' = Readable  BY <2>1 DEF Readable, Imsm!NextFirst, Imsm!Slot
    <3>2. RecordsGood => RecordsGood'  BY <2>1, <3>1, SameData DEF RecordsGood
    <3>3. DriverInv => DriverInv'  BY <2>1, SameDriver
    <3>4. MdadmInv => MdadmInv'
      <4>1. AtPosition' = AtPosition /\ \A p : MayGoTo(p)' = MayGoTo(p)  BY <2>1, SamePosition
      <4> QED  BY <2>1, <2>2, <4>1, SameShape DEF MdadmInv, Down, Imsm!Working
    <3> QED  BY <2>1, <3>2, <3>3, <3>4, SameShape DEF MigrationInv, Down, Imsm!NoRecord
  <2> QED  BY <2>1, <2>3, <2>4
<1>2. CASE Next
  <2>1. Imsm!Next /\ external' = external
    BY <1>2 DEF Next, ByMdadm, ByHandler
  <2>2. CASE Imsm!Driver
    <3>1. UNCHANGED <<pc, progress, step, mem, todo, rec, first, copy, crashes>>
          /\ (Imsm!StartRow \/ Imsm!EndRow \/ Imsm!DriverDone)
      BY <2>2 DEF Imsm!Driver, Imsm!mdadmVars, Imsm!diskListVars
    <3> QED  BY <2>1, <3>1, StartRowKeeps, EndRowKeeps, DriverDoneKeeps
  <2>3. CASE Imsm!EndMigration  BY <2>1, <2>3, EndMigrationKeeps
  <2>4. CASE Imsm!Mdadm
    <3>1. ASSUME NEW s \in Imsm!Slot, Imsm!WriteRecord(s) PROVE Types' /\ MigrationInv'
      BY <3>1, WriteRecordKeeps DEF Imsm!Slot, Slot
    <3> QED
      BY <2>1, <2>4, <3>1, GrowKeeps, BeginKeeps, SaveBackupKeeps, SuspendLoKeeps, SuspendHiKeeps,
         AllowProgressKeeps, WaitForReshapeKeeps, MigrationDoneKeeps, LiftSuspensionKeeps
         DEF Imsm!Mdadm
  <2>5. CASE Imsm!UserWrite  BY <2>1, <2>5, UserWriteKeeps
  <2>6. CASE Imsm!Kill  BY <2>1, <2>6, KillKeeps
  <2>7. CASE Imsm!Crash  BY <2>1, <2>7, CrashKeeps
  <2>8. CASE Imsm!Restart
    BY <2>1, <2>8, LoadRecordKeeps, ContinueCommandKeeps, RestoreFirstKeeps, RestoreLastKeeps,
       ContinueKeeps
       DEF Imsm!Restart
  <2> QED  BY <2>1, <2>2, <2>3, <2>4, <2>5, <2>6, <2>7, <2>8 DEF Imsm!Next
<1> QED  BY <1>1, <1>2

\* Of an IMSM volume the invariant holds in every state, whatever its shape, however often
\* the machine crashes, mdadm is killed or told to terminate.
THEOREM MigrationInvariant == Provided /\ Spec => [](external => Types /\ MigrationInv)
<1> DEFINE Inv == external => Types /\ MigrationInv
<1>1. Init => Inv  BY InitImsm
<1>2. Inv /\ Provided /\ [Next]_vars => Inv'
  <2>1. ASSUME ~ external, [Next]_vars PROVE ~ external'
    BY <2>1 DEF Next, ByMdadm, ByHandler, vars
  <2> QED  BY <2>1, MigrationStep
<1>3. Provided => []Provided
  <2>1. Provided => Provided'  BY DEF Provided
  <2> QED  BY <2>1, PTL
<1> HIDE DEF Inv
<1> QED  BY <1>1, <1>2, <1>3, PTL DEF Spec, Inv

\* Crash safety of the migration of an IMSM volume.
THEOREM NothingLostInMigration == Provided /\ Spec => [](external => NothingLost)
<1>1. Provided /\ (external => Types /\ MigrationInv) => (external => NothingLost)
  <2> SUFFICES ASSUME Provided, external, Types, MigrationInv, Imsm!MayCrash,
                      NEW s \in Imsm!NextFirst
               PROVE  Imsm!Recoverable(s)
    BY DEF NothingLost, Imsm!NothingLost
  <2>1. active /\ ~ Imsm!LastIsCopied  BY DEF Imsm!MayCrash, Provided
  <2>2. s \in Slot /\ s \in Readable
    BY DEF Readable, Imsm!NextFirst, Imsm!Slot, Slot, Types, Imsm!TypeOK
  <2>3. Good(rec[s])  BY <2>1, <2>2 DEF MigrationInv, RecordsGood
  <2>4. rec[s].copied => rec[s].unit < Imsm!Units - 1
    <3>1. ~ (rec[s].copied /\ rec[s].unit = Imsm!Units - 1)
      BY <2>1, <2>2 DEF Imsm!LastIsCopied, Imsm!Slot, Slot
    <3>2. rec[s].copied => rec[s].unit < Imsm!Units  BY <2>2 DEF Types, RecordOf
    <3>3. rec[s].unit \in Nat /\ Imsm!Units \in Nat  BY <2>2, Volume, Typed
    <3> QED  BY <3>1, <3>2, <3>3
  <2> QED  BY <2>2, <2>3, <2>4, GoodIsComplete
<1>2. Provided => []Provided
  <2>1. Provided => Provided'  BY DEF Provided
  <2> QED  BY <2>1, PTL
<1> QED  BY <1>1, <1>2, MigrationInvariant, PTL

---------------------------------------------------------------------------
(* The reshape with a backup file.                                        *)

\* Rows up to the end of the backup, in the new layout, where the disks do not stay.
Room == Native!BackupBlocks \div after

\* Where the driver is when it writes row r.
PosOf(r) == IF Advancing THEN r * after ELSE (r + 1) * after

\* p is where a row of the new layout begins.
AtRow(p) == p = (p \div after) * after

\* The types, with what holds of the driver whatever mdadm does.
BackupTypes ==
    /\ Native!TypeOK
    /\ before \in Nat \ {0} /\ after \in Nat \ {0} /\ size \in Nat \ {0}
    /\ suspendLo \in Nat /\ suspendHi \in Nat
    /\ AtRow(pos) /\ AtRow(recorded)
    /\ busy \/ reshaping => active /\ up
    /\ pc # "idle" => 2 * Native!Blocks < size

\* None of what breaks the code happens (README, section 5): a child that is told to
\* terminate is no such thing.
Cautious == Happens \cap {"early", "overwrite", "passed"} = {}

\* What Grow_restart would put back.
Kept == UNION {Native!Range(hdr[p]) : p \in Native!Backed}

\* Every row is what it should be: new if its addresses were moved, and old if it holds one
\* that, as recorded, was not and that is not in the backup.
RowsKnown ==
    /\ IF Advancing THEN recorded <= pos ELSE pos <= recorded
    /\ busy => pos # Native!Last /\ rows[Native!NextRow] = "lost"
    /\ \A a \in Native!Addr :
        /\ Native!Moved(a, pos) => rows[Native!NewRow(a)] = "new"
        /\ a \notin Kept /\ ~ Native!Moved(a, recorded) => rows[Native!OldRow(a)] = "old"

\* Writing row r is no harm: its old data are behind the driver, or all in the backup.
Spares(r) ==
    \/ \A a \in Native!Addr : Native!OldRow(a) = r => Native!Moved(a, PosOf(r))
    \/ \A a \in Native!Addr : Native!OldRow(a) = r => a \in Kept

\* The first unit, which is all that is ever backed up unless the disks stay.
FirstUnit == [lo |-> 0, hi |-> Native!BackupBlocks]

\* What the header may say, and that a restart which would use it finds its data.
HeaderInv ==
    /\ \A p \in Native!Half : Native!Full(p) \/ hdr[p] = Native!Empty
    /\ Native!Full(1) => two
    /\ Native!Same => \A p \in Native!Half : AtRow(hdr[p].lo) /\ AtRow(hdr[p].hi)
    /\ Native!Same /\ Native!Full(0) /\ Native!Full(1) =>
           hdr[0].hi = hdr[1].lo \/ hdr[1].hi = hdr[0].lo
    /\ ~ Native!Same =>
           /\ ~ two /\ hdr[1] = Native!Empty /\ hdr[0] \in {Native!Empty, FirstUnit}
           /\ hdr[0] = Native!Empty =>
                  recorded = 0 \/ recorded >= Native!BackupBlocks
    /\ Native!Usable =>
           /\ Native!Covered.lo <= recorded /\ recorded <= Native!Covered.hi
           /\ \A p \in Native!Backed : Native!Range(hdr[p]) \subseteq held[p]

\* child_monitor, and the same after it was told to terminate.
Watching == {"resume", "suspend", "allow", "wait", "forget", "backup", "header"}
Stopping == (pc = "lift" /\ more = -2) \/ pc \in {"abort", "aborted"}

\* The disks stay: the halves follow each other up to backupPoint, from where the driver is
\* at the latest; part is the older one, or the one to be filled.
SlidingInv ==
    /\ AtRow(backupPoint)
    /\ progress <= recorded /\ pos <= backupPoint /\ (busy => pos < backupPoint)
    /\ syncMax * after <= backupPoint
    /\ pc \in {"allow", "wait"} => maxProgress * after <= backupPoint
    /\ \A p \in Native!Half : hdr[p].hi <= backupPoint
    /\ IF Native!Full(1 - part)
       THEN /\ hdr[1 - part].hi = backupPoint
            /\ Native!Full(part) => hdr[part].hi = hdr[1 - part].lo /\ hdr[part].lo <= progress
            /\ ~ Native!Full(part) => hdr[1 - part].lo <= progress
       ELSE progress >= backupPoint

\* Growing: nothing is written before the first unit is in the backup, and that unit alone
\* until it was moved.
GrowingInv ==
    /\ backupPoint = part * Native!BackupBlocks
    /\ part = 0 => pos = 0 /\ ~ busy /\ progress = 0 /\ syncMax = 0 /\ hdr[0] = Native!Empty
                   /\ (pc \in {"allow", "wait"} => maxProgress = 0)
    /\ Native!Full(0) =>
           /\ pos <= backupPoint /\ syncMax <= Room /\ (busy => pos < backupPoint)
           /\ pc \in {"allow", "wait"} => maxProgress = Room
           /\ IF pc = "forget" THEN progress >= Native!BackupBlocks ELSE progress = 0
           /\ progress <= recorded
    /\ part = 1 /\ ~ Native!Full(0) => progress >= Native!BackupBlocks /\ progress <= recorded

\* Shrinking: the driver stops before the last unit, and does it when it is in the backup.
ShrinkingInv ==
    /\ backupPoint = (1 - part) * Native!BackupBlocks
    /\ progress >= recorded /\ (progress = 0 \/ progress >= Native!BackupBlocks)
    /\ part = 0 =>
           /\ hdr[0] = Native!Empty
           /\ \/ pos = 0 /\ recorded = 0
              \/ pos >= Native!BackupBlocks /\ size - syncMax >= Room
           /\ busy => pos > Native!BackupBlocks
           /\ pc \in {"allow", "wait"} => maxProgress = size - Room
           /\ pc \in {"forget", "backup", "header"} => progress <= Native!BackupBlocks
    /\ Native!Full(0) => progress <= Native!BackupBlocks
                         /\ (pc \in {"allow", "wait"} => maxProgress = size)
    /\ part = 1 /\ ~ Native!Full(0) => progress = 0

\* What is backed up, or about to be, is suspended.
SuspendedInv ==
    /\ Native!Same \/ Advancing =>
           /\ suspendLo <= progress /\ suspendPoint <= suspendHi
           /\ \A p \in Native!Half : hdr[p].hi <= suspendPoint
           /\ ~ Native!Same => suspendPoint \in {0, Native!BackupBlocks}
    /\ ~ Advancing =>
           /\ suspendPoint \in {0, size * before}
           /\ suspendPoint = 0 => suspendLo = 0 /\ (progress > 0 => suspendHi >= Native!BackupBlocks)
           /\ Native!Full(0) => suspendPoint = 0
    /\ pc = "header" =>
           /\ Native!CanBackup
           /\ pos # Native!Last => Native!Range(Native!BackupRange) \subseteq held[part]

\* What was to be backed up was moved: the driver may go to the end.
Free == IF Native!Same THEN pos = Native!Last ELSE Advancing /\ recorded >= Native!BackupBlocks

\* The places of the child while the reshape goes on.
ChildInv ==
    /\ pc \in Watching \/ Stopping =>
           IF Native!Same THEN SlidingInv ELSE IF Advancing THEN GrowingInv ELSE ShrinkingInv
    /\ pc \in Watching \/ (pc = "lift" /\ more = -2) => SuspendedInv
    /\ pc = "forget" => /\ more # -1
                        /\ more = 0 /\ Advancing => progress >= Native!NeedBackup
    /\ pc \in {"lift", "unlink"} /\ more # -2 => Native!Backed = {} /\ Free
    /\ pc = "unlink" => more # -2
    /\ pc = "done" => Free

\* The places of a restart.
Restarting == {"down", "restoring", "super", "restored", "refused"}

RestartInv ==
    /\ pc \in Restarting <=> ~ up
    /\ ~ up => pos = recorded
    /\ pc \in {"restoring", "super"} => Native!Usable
    /\ pc = "super" => \A a \in Kept : rows[Native!NewRow(a)] = "new"
    /\ pc = "refused" => ~ Native!Usable
    /\ pc = "restored" =>
           /\ \A a \in Kept : Native!Moved(a, recorded)
           /\ after > before => recorded >= Native!BackupBlocks

\* While a reshape is recorded; before and after it nothing can be lost.
BackupInv ==
    /\ ~ active =>
           /\ up /\ recorded = pos
           /\ pc \notin Restarting
           /\ Native!Complete(rows, recorded)
           /\ IF pc = "idle" THEN pos = Native!First /\ \A p \in Native!Half : ~ Native!Full(p)
                            ELSE pos = Native!Last
    /\ active => /\ pc # "idle"
                 /\ RowsKnown /\ HeaderInv /\ ChildInv /\ RestartInv

-----------------------------------------------------------------------------
(* The shape.                                                               *)

\* The names of the model, spelled out.
LEMMA Names ==
  ASSUME BackupTypes
  PROVE  /\ (Native!Advancing <=> after >= before) /\ (Advancing <=> after >= before)
         /\ Native!Row = 0..(size - 1)
         /\ Native!First = (IF Advancing THEN 0 ELSE size * after)
         /\ Native!Last = (IF Advancing THEN size * after ELSE 0)
         /\ \A p : Native!Done(p) = (IF Advancing THEN p \div after ELSE size - p \div after)
         /\ \A a, p : Native!Moved(a, p) <=> (IF Advancing THEN a < p ELSE a >= p)
         /\ Native!NextRow = (IF Advancing THEN Driven ELSE Driven - 1)
         /\ Native!NextRow = (IF Advancing THEN pos \div after ELSE pos \div after - 1)
         /\ size * before \in Nat \ {0} /\ size * after \in Nat \ {0}
         /\ Advancing => size * before <= size * after
         /\ ~ Advancing => size * after < size * before
         /\ Native!Most(Native!First, Native!Last) = size * after
<1> USE DEF BackupTypes
<1>1. (Native!Advancing <=> after >= before) /\ (Advancing <=> after >= before)
  BY DEF Native!Advancing, Advancing
<1>2. Native!Row = 0..(size - 1)  BY DEF Native!Row
<1>3. /\ Native!First = (IF Advancing THEN 0 ELSE size * after)
      /\ Native!Last = (IF Advancing THEN size * after ELSE 0)
  BY <1>1 DEF Native!First, Native!Last
<1>4. \A p : Native!Done(p) = (IF Advancing THEN p \div after ELSE size - p \div after)
  BY <1>1 DEF Native!Done
<1>5. \A a, p : Native!Moved(a, p) <=> (IF Advancing THEN a < p ELSE a >= p)
  BY <1>1 DEF Native!Moved
<1>6. Native!NextRow = (IF Advancing THEN pos \div after ELSE pos \div after - 1)
  BY <1>1 DEF Native!NextRow
<1>7. size * before \in Nat \ {0} /\ size * after \in Nat \ {0}  OBVIOUS
<1>8. /\ before <= after => before * size <= after * size
      /\ after + 1 <= before => (after + 1) * size <= before * size
      /\ (after + 1) * size = after * size + size
      /\ before * size = size * before /\ after * size = size * after
  BY Times
<1>9. Advancing => size * before <= size * after  BY <1>1, <1>8
<1>10. ~ Advancing => size * after < size * before  BY <1>1, <1>7, <1>8
<1>11. Native!Most(Native!First, Native!Last) = size * after
  BY <1>3, <1>7 DEF Native!Most
<1> QED  BY <1>1, <1>2, <1>3, <1>4, <1>5, <1>6, <1>7, <1>9, <1>10, <1>11 DEF Driven

\* Rows and addresses.
LEMMA Places ==
  ASSUME BackupTypes, NEW a \in Native!Addr
  PROVE  /\ a \in Nat /\ a < size * before /\ a < size * after
         /\ Native!NewRow(a) \in Nat /\ Native!NewRow(a) < size /\ Native!NewRow(a) \in Native!Row
         /\ Native!OldRow(a) \in Nat /\ Native!OldRow(a) < size /\ Native!OldRow(a) \in Native!Row
         /\ Native!NewRow(a) * after <= a /\ a < (Native!NewRow(a) + 1) * after
         /\ Native!OldRow(a) * before <= a /\ a < (Native!OldRow(a) + 1) * before
<1> USE DEF BackupTypes
<1>1. a \in Nat /\ a < size * before /\ a < size * after
  <2>1. Native!Total = size * (IF before <= after THEN before ELSE after)
    BY DEF Native!Total, Native!Least
  <2>2. Native!Total <= size * before /\ Native!Total <= size * after /\ Native!Total \in Nat
    BY <2>1, Names
  <2> QED  BY <2>2, Names DEF Native!Addr
<1>2. /\ Native!NewRow(a) \in Nat /\ Native!NewRow(a) * after <= a /\ a < (Native!NewRow(a) + 1) * after
      /\ Native!OldRow(a) \in Nat /\ Native!OldRow(a) * before <= a /\ a < (Native!OldRow(a) + 1) * before
  BY <1>1, Quotient DEF Native!NewRow, Native!OldRow
<1>3. Native!NewRow(a) < size /\ Native!OldRow(a) < size
  <2>1. Native!NewRow(a) * after < size * after /\ Native!OldRow(a) * before < size * before
    <3>1. Native!NewRow(a) * after \in Nat /\ Native!OldRow(a) * before \in Nat
      BY <1>2, Times
    <3> QED  BY <1>1, <1>2, <3>1, Names
  <2> QED  BY <1>2, <2>1, Times
<1>4. Native!NewRow(a) \in Native!Row /\ Native!OldRow(a) \in Native!Row  BY <1>2, <1>3, Names
<1> QED  BY <1>1, <1>2, <1>3, <1>4

\* A position at a row, and the row of an address before or behind it.
LEMMA AtRowIs ==
  ASSUME BackupTypes, NEW p \in Nat, AtRow(p)
  PROVE  /\ p \div after \in Nat
         /\ p = (p \div after) * after
         /\ \A r \in Nat : /\ r < p \div after => (r + 1) * after <= p /\ r * after < p
                           /\ r >= p \div after => r * after >= p
                           /\ r > p \div after => r * after >= p + after
<1> USE DEF BackupTypes
<1>1. p \div after \in Nat /\ p = (p \div after) * after  BY Quotient DEF AtRow
<1> SUFFICES ASSUME NEW r \in Nat
             PROVE  /\ r < p \div after => (r + 1) * after <= p /\ r * after < p
                    /\ r >= p \div after => r * after >= p
                    /\ r > p \div after => r * after >= p + after
  BY <1>1
<1> DEFINE k == p \div after
<1>2. k \in Nat /\ p = k * after  BY <1>1
<1> HIDE DEF k
<1>3. r < k => (r + 1) * after <= p  BY <1>2, Times
<1>4. (r + 1) * after = r * after + after /\ r * after \in Nat  BY Times
<1>5. r >= k => r * after >= p  BY <1>2, Times
<1>6. r > k => r * after >= (k + 1) * after /\ (k + 1) * after = p + after
  BY <1>2, Times
<1>7. /\ r < k => (r + 1) * after <= p /\ r * after < p
      /\ r >= k => r * after >= p
      /\ r > k => r * after >= p + after
  BY <1>3, <1>4, <1>5, <1>6, <1>2
<1> QED  BY <1>7 DEF k

\* Two positions at rows.
LEMMA AtRowsAre ==
  ASSUME BackupTypes, NEW p \in Nat, AtRow(p), NEW q \in Nat, AtRow(q)
  PROVE  /\ p < q => p + after <= q /\ p \div after < q \div after
         /\ p <= q => p \div after <= q \div after
         /\ p \div after < q \div after => p < q
         /\ p \div after <= q \div after => p <= q
<1> USE DEF BackupTypes
<1>1. p \div after \in Nat /\ p = (p \div after) * after  BY AtRowIs
<1>2. q \div after \in Nat /\ q = (q \div after) * after  BY AtRowIs
<1> DEFINE k == p \div after  n == q \div after
<1>3. k \in Nat /\ n \in Nat /\ p = k * after /\ q = n * after  BY <1>1, <1>2
<1> HIDE DEF k, n
<1>4. (k <= n => p <= q) /\ (n <= k => q <= p)  BY <1>3, Times
<1>5. k < n => p + after <= q
  <2>1. (k + 1) * after = p + after  BY <1>3, Times
  <2>2. k < n => (k + 1) * after <= n * after  BY <1>3, Times
  <2> QED  BY <2>1, <2>2, <1>3
<1>6. /\ p < q => p + after <= q /\ k < n
      /\ p <= q => k <= n
      /\ k < n => p < q
      /\ k <= n => p <= q
  <2>1. p < q => k < n  BY <1>3, <1>4
  <2>2. k < n => p < q  BY <1>5
  <2>3. p <= q => k <= n
    <3>1. n < k => q + after <= p
      <4>1. (n + 1) * after = q + after  BY <1>3, Times
      <4>2. n < k => (n + 1) * after <= k * after  BY <1>3, Times
      <4> QED  BY <4>1, <4>2, <1>3
    <3> QED  BY <3>1, <1>3
  <2> QED  BY <2>1, <2>2, <2>3, <1>4, <1>5
<1> QED  BY <1>6 DEF k, n

\* Where a row begins is at a row.
LEMMA RowIsAt ==
  ASSUME BackupTypes, NEW r \in Nat
  PROVE  r * after \in Nat /\ AtRow(r * after) /\ (r * after) \div after = r
<1> USE DEF BackupTypes
<1>1. r * after \in Nat /\ (r + 1) * after = r * after + after  BY Times
<1>2. (r * after) \div after = r  BY <1>1, QuotientIs
<1> QED  BY <1>1, <1>2 DEF AtRow

-----------------------------------------------------------------------------
(* The unit of backup.                                                      *)

\* A set of numbers has a least one: this is what stands for an induction.
LEMMA LeastOf ==
  ASSUME NEW S \in SUBSET Nat, S # {}
  PROVE  \E n \in S : \A m \in S : n <= m
<1> DEFINE R == {ss \in Nat \X Nat : ss[1] < ss[2]}
<1>1. IsWellFoundedOn(R, Nat)  BY NatLessThanWellFounded DEF OpToRel
<1> HIDE DEF R
<1>2. PICK n \in S : \A m \in S : ~ (<<m, n>> \in R)  BY <1>1, WFMin
<1>3. \A m \in S : ~ (m < n)  BY <1>2 DEF R
<1> QED  BY <1>3

\* Two numbers have a greatest common divisor.
LEMMA Divides ==
  ASSUME NEW m \in Nat \ {0}, NEW n \in Nat \ {0}
  PROVE  /\ Native!Gcd(m, n) \in Nat \ {0}
         /\ m % Native!Gcd(m, n) = 0 /\ n % Native!Gcd(m, n) = 0
<1> DEFINE k == Native!Least(m, n)
           D == {d \in 1..k : m % d = 0 /\ n % d = 0}
           G(d) == /\ m % d = 0 /\ n % d = 0
                   /\ \A e \in 1..k : m % e = 0 /\ n % e = 0 => e <= d
<1>1. k \in Nat /\ k >= 1  BY DEF Native!Least
<1>2. 1 \in D  BY <1>1
<1> DEFINE S == {k - d : d \in D}
<1>3. S \in SUBSET Nat /\ S # {}  BY <1>1, <1>2
<1>4. PICK x \in S : \A y \in S : x <= y  BY <1>3, LeastOf
<1>5. PICK d \in D : x = k - d  BY <1>4
<1>6. G(d)
  <2>1. ASSUME NEW e \in 1..k, m % e = 0, n % e = 0 PROVE e <= d
    <3>1. e \in D  BY <2>1
    <3>2. k - d <= k - e  BY <1>4, <1>5, <3>1
    <3> QED  BY <3>2, <1>1
  <2> QED  BY <2>1
<1>7. Native!Gcd(m, n) = CHOOSE e \in 1..k : G(e)  BY DEF Native!Gcd
<1>8. \E e \in 1..k : G(e)  BY <1>6
<1>9. Native!Gcd(m, n) \in 1..k /\ G(Native!Gcd(m, n))
  <2> HIDE DEF G, k
  <2> QED  BY <1>7, <1>8
<1> QED  BY <1>9, <1>1

\* The unit is whole rows of both layouts.
LEMMA UnitIs ==
  ASSUME BackupTypes
  PROVE  /\ Native!BackupBlocks \in Nat \ {0} /\ Room \in Nat \ {0}
         /\ Native!BackupBlocks = Room * after /\ AtRow(Native!BackupBlocks)
         /\ \E n \in Nat \ {0} : Native!BackupBlocks = n * before /\ Native!BackupBlocks \div before = n
<1> USE DEF BackupTypes
<1> DEFINE g == Native!Gcd(before, after)
<1>1. g \in Nat \ {0} /\ before % g = 0 /\ after % g = 0  BY Divides
<1>2. PICK x \in Nat, y \in Nat : before = x * g /\ after = y * g
  <2> HIDE DEF g
  <2>1. ASSUME NEW z \in Nat, z % g = 0 PROVE z = (z \div g) * g /\ z \div g \in Nat
    BY <1>1, <2>1
  <2> QED  BY <2>1, <1>1
<1>3. Native!BackupBlocks = (before * after) \div g  BY DEF Native!BackupBlocks
<1> HIDE DEF g
<1>4. x # 0 /\ y # 0
  <2>1. 0 * g = 0  BY <1>1
  <2> QED  BY <1>2, <2>1
<1>5. before * after = (x * after) * g
  <2>1. before * after = (x * g) * after  BY <1>2
  <2>2. (x * g) * after = x * (g * after) /\ (x * after) * g = x * (after * g)  BY <1>1, Product
  <2>3. g * after = after * g  BY <1>1
  <2> QED  BY <2>1, <2>2, <2>3
<1>6. before * after = (y * before) * g
  <2>1. before * after = before * (y * g)  BY <1>2
  <2>2. before * (y * g) = (before * y) * g  BY <1>1, Product
  <2>3. before * y = y * before  BY <1>2
  <2> QED  BY <2>1, <2>2, <2>3
<1>7. \A z \in Nat : (z * g) \div g = z
  <2> TAKE z \in Nat
  <2>1. (z + 1) * g = z * g + g /\ z * g \in Nat  BY <1>1, Times
  <2> QED  BY <1>1, <2>1, QuotientIs
<1>8. x * after \in Nat /\ y * before \in Nat  BY Times
<1>9. Native!BackupBlocks = x * after /\ Native!BackupBlocks = y * before
  BY <1>3, <1>5, <1>6, <1>7, <1>8
<1>10. (x * after) \div after = x /\ AtRow(x * after)  BY <1>2, RowIsAt
<1>11. (y * before) \div before = y
  <2>1. (y + 1) * before = y * before + before  BY Times
  <2> QED  BY <1>8, <2>1, QuotientIs
<1>12. x * after # 0
  <2>1. 1 * after <= x * after  BY <1>4, Times
  <2> QED  BY <2>1
<1> QED  BY <1>4, <1>8, <1>9, <1>10, <1>11, <1>12 DEF Room

\* When a backup can be made, it is far from half a device.
LEMMA UnitFits ==
  ASSUME BackupTypes, pc # "idle" \/ 2 * Native!Blocks < size
  PROVE  /\ 2 * Native!BackupBlocks < size /\ Room < size /\ Native!BackupBlocks \div before < size
         /\ Native!BackupBlocks < size * before /\ Native!BackupBlocks < size * after
<1> USE DEF BackupTypes
<1>1. Native!BackupBlocks \in Nat \ {0} /\ Room \in Nat \ {0} /\ Native!BackupBlocks = Room * after
  BY UnitIs
<1>2. PICK n \in Nat \ {0} : Native!BackupBlocks = n * before /\ Native!BackupBlocks \div before = n
  BY UnitIs
<1>3. 2 * Native!BackupBlocks < size
  <2>1. 1 * Native!BackupBlocks <= Larger * Native!BackupBlocks
        /\ Larger * Native!BackupBlocks \in Nat
    BY <1>1, LargerAssumption, Times
  <2>2. Native!Blocks >= Native!BackupBlocks /\ Native!Blocks \in Nat
    BY <1>1, <2>1 DEF Native!Blocks
  <2>3. 2 * Native!Blocks < size  OBVIOUS
  <2> QED  BY <1>1, <2>2, <2>3
<1>4. \A k \in Nat, w \in Nat \ {0} : k <= k * w
  <2> TAKE k \in Nat, w \in Nat \ {0}
  <2>1. 1 * k <= w * k /\ w * k = k * w  BY Times
  <2> QED  BY <2>1
<1>5. Room <= Native!BackupBlocks /\ n <= Native!BackupBlocks /\ size <= size * before /\ size <= size * after
  BY <1>1, <1>2, <1>4
<1> QED  BY <1>1, <1>2, <1>3, <1>5, Names

\* Past the first unit a row is written after all that it held was moved.
LEMMA Beyond ==
  ASSUME BackupTypes, ~ Native!Same, NEW r \in Native!Row, r >= Room
  PROVE  Spares(r)
<1> USE DEF BackupTypes
<1>1. Native!BackupBlocks \in Nat \ {0} /\ Room \in Nat \ {0} /\ Native!BackupBlocks = Room * after
  BY UnitIs
<1>2. PICK n \in Nat \ {0} : Native!BackupBlocks = n * before  BY UnitIs
<1>3. r \in Nat /\ before # after  BY Names DEF Native!Same
<1>4. PICK k \in Nat : r = Room + k  BY <1>1, <1>3
<1>5. /\ r * after = Room * after + k * after /\ r * before = Room * before + k * before
      /\ k * after \in Nat /\ k * before \in Nat /\ Room * before \in Nat /\ Room * after \in Nat
      /\ (r + 1) * after = r * after + after /\ (r + 1) * before = r * before + before
      /\ r * after \in Nat /\ r * before \in Nat
  BY <1>1, <1>3, <1>4, Times
<1>6. CASE after > before
  <2>1. Room < n
    <3>1. n <= Room => n * before <= Room * before  BY <1>1, Times
    <3>2. before * Room + Room <= after * Room
      <4>1. (before + 1) * Room <= after * Room  BY <1>1, <1>6, Times
      <4>2. (before + 1) * Room = before * Room + Room  BY <1>1, Times
      <4> QED  BY <4>1, <4>2
    <3>3. before * Room = Room * before /\ after * Room = Room * after  BY <1>1
    <3> QED  BY <1>1, <1>2, <1>5, <3>1, <3>2, <3>3
  <2>2. (Room + 1) * before <= Room * after
    <3>1. (Room + 1) * before <= n * before  BY <1>1, <2>1, Times
    <3> QED  BY <3>1, <1>1, <1>2
  <2>3. k * before <= k * after
    <3>1. before * k <= after * k  BY <1>6, Times
    <3>2. before * k = k * before /\ after * k = k * after  OBVIOUS
    <3> QED  BY <3>1, <3>2
  <2>4. (r + 1) * before <= r * after
    <3>1. (Room + 1) * before = Room * before + before  BY <1>1, Times
    <3> QED  BY <1>5, <2>2, <2>3, <3>1
  <2>5. PosOf(r) = r * after  BY <1>6, Names DEF PosOf
  <2>6. ASSUME NEW a \in Native!Addr, Native!OldRow(a) = r PROVE Native!Moved(a, PosOf(r))
    <3>1. a < (r + 1) * before /\ a \in Nat  BY <2>6, Places
    <3>2. a < r * after  BY <3>1, <2>4, <1>5
    <3>3. Advancing  BY <1>6, Names
    <3> QED  BY <3>2, <3>3, <2>5, Names
  <2> QED  BY <2>6 DEF Spares
<1>7. CASE after < before
  <2>1. n < Room
    <3>1. Room <= n => Room * before <= n * before  BY <1>1, Times
    <3>2. after * Room + Room <= before * Room
      <4>1. (after + 1) * Room <= before * Room  BY <1>1, <1>7, Times
      <4>2. (after + 1) * Room = after * Room + Room  BY <1>1, Times
      <4> QED  BY <4>1, <4>2
    <3>3. before * Room = Room * before /\ after * Room = Room * after  BY <1>1
    <3> QED  BY <1>1, <1>2, <1>5, <3>1, <3>2, <3>3
  <2>2. Room * after + after <= Room * before
    <3>1. (n + 1) * before <= Room * before /\ (n + 1) * before = n * before + before
      BY <1>1, <2>1, Times
    <3> QED  BY <3>1, <1>1, <1>2, <1>5, <1>7
  <2>3. k * after <= k * before
    <3>1. after * k <= before * k  BY <1>7, Times
    <3>2. before * k = k * before /\ after * k = k * after  OBVIOUS
    <3> QED  BY <3>1, <3>2
  <2>4. (r + 1) * after <= r * before  BY <1>5, <2>2, <2>3
  <2>5. PosOf(r) = (r + 1) * after /\ ~ Advancing  BY <1>7, Names DEF PosOf
  <2>6. ASSUME NEW a \in Native!Addr, Native!OldRow(a) = r PROVE Native!Moved(a, PosOf(r))
    <3>1. a >= r * before /\ a \in Nat  BY <2>6, Places
    <3>2. a >= (r + 1) * after  BY <3>1, <2>4, <1>5
    <3> QED  BY <3>2, <2>5, Names
  <2> QED  BY <2>6 DEF Spares
<1> QED  BY <1>3, <1>6, <1>7

-----------------------------------------------------------------------------
(* What the header says, and what a restart makes of it.                    *)

\* The halves that hold something.
LEMMA KeptIs ==
  ASSUME BackupTypes, HeaderInv
  PROVE  /\ Native!Half = {0, 1}
         /\ \A p \in {0, 1} : /\ hdr[p].lo \in Nat /\ hdr[p].hi \in Nat
                              /\ hdr[p].lo <= size * before /\ hdr[p].hi <= size * before
                              /\ Native!Full(p) <=> hdr[p].lo < hdr[p].hi
                              /\ ~ Native!Full(p) => hdr[p] = Native!Empty
                              /\ hdr[p] = Native!Empty => hdr[p].lo = 0 /\ hdr[p].hi = 0 /\ ~ Native!Full(p)
         /\ Native!Backed = {p \in {0, 1} : Native!Full(p)}
         /\ \A a \in Native!Addr :
               a \in Kept <=> \E p \in {0, 1} : hdr[p].lo <= a /\ a < hdr[p].hi
         /\ Kept \subseteq Native!Addr
<1>1. Native!Half = {0, 1}  BY DEF Native!Half
<1>2. ASSUME NEW p \in {0, 1}
      PROVE  /\ hdr[p].lo \in Nat /\ hdr[p].hi \in Nat
             /\ hdr[p].lo <= size * before /\ hdr[p].hi <= size * before
             /\ Native!Full(p) <=> hdr[p].lo < hdr[p].hi
             /\ ~ Native!Full(p) => hdr[p] = Native!Empty
             /\ hdr[p] = Native!Empty => hdr[p].lo = 0 /\ hdr[p].hi = 0 /\ ~ Native!Full(p)
  <2>1. hdr[p] \in [lo : 0..(size * before), hi : 0..(size * before)]
    BY <1>1 DEF BackupTypes, Native!TypeOK
  <2>2. hdr[p].lo \in 0..(size * before) /\ hdr[p].hi \in 0..(size * before)  BY <2>1
  <2>3. Native!Full(p) <=> hdr[p].lo < hdr[p].hi  BY DEF Native!Full
  <2>4. ~ Native!Full(p) => hdr[p] = Native!Empty  BY <1>1 DEF HeaderInv
  <2>5. Native!Empty.lo = 0 /\ Native!Empty.hi = 0  BY DEF Native!Empty
  <2> QED  BY <2>2, <2>3, <2>4, <2>5, Names
<1>3. Native!Backed = {p \in {0, 1} : Native!Full(p)}
  BY <1>1 DEF Native!Backed, HeaderInv
<1>4. \A p \in {0, 1} : Native!Range(hdr[p]) = {a \in Native!Addr : hdr[p].lo <= a /\ a < hdr[p].hi}
  BY DEF Native!Range
<1>5. ASSUME NEW a \in Native!Addr
      PROVE  a \in Kept <=> \E p \in {0, 1} : hdr[p].lo <= a /\ a < hdr[p].hi
  <2>1. a \in Nat  BY Places
  <2>2. a \in Kept <=> \E p \in Native!Backed : a \in Native!Range(hdr[p])  BY DEF Kept
  <2>3. \A p \in {0, 1} : a \in Native!Range(hdr[p]) <=> hdr[p].lo <= a /\ a < hdr[p].hi
    BY <1>4
  <2>4. \A p \in {0, 1} : hdr[p].lo <= a /\ a < hdr[p].hi => Native!Full(p)  BY <1>2, <2>1
  <2> QED  BY <1>3, <2>2, <2>3, <2>4
<1>6. Kept \subseteq Native!Addr  BY DEF Kept, Native!Range
<1> QED  BY <1>1, <1>2, <1>3, <1>5, <1>6

\* What is kept is one range, and that is what Grow_restart goes by.
LEMMA Hull ==
  ASSUME BackupTypes, HeaderInv, Native!Usable
  PROVE  LET l == Native!Covered.lo
             u == Native!Covered.hi
         IN  /\ l \in Nat /\ u \in Nat /\ l < u /\ AtRow(l) /\ AtRow(u) /\ u <= size * before
             /\ \A a \in Native!Addr : a \in Kept <=> l <= a /\ a < u
             /\ l <= recorded /\ recorded <= u
             /\ Native!RestoredPos = (IF Advancing THEN u ELSE l)
             /\ ~ Advancing => l = 0
             /\ ~ Native!Same => l = 0 /\ u = Native!BackupBlocks
<1> DEFINE l == Native!Covered.lo
           u == Native!Covered.hi
           e == IF Native!Advancing
                THEN IF two THEN Native!Most(hdr[0].hi, hdr[1].hi) ELSE hdr[0].hi
                ELSE IF two THEN Native!Least(hdr[0].lo, hdr[1].lo) ELSE hdr[0].lo
           Claim == /\ l \in Nat /\ u \in Nat /\ l < u /\ AtRow(l) /\ AtRow(u) /\ u <= size * before
                    /\ \A a \in Native!Addr : a \in Kept <=> l <= a /\ a < u
                    /\ e = (IF Advancing THEN u ELSE l)
                    /\ ~ Advancing => l = 0
                    /\ ~ Native!Same => l = 0 /\ u = Native!BackupBlocks
<1>1. l <= recorded /\ recorded <= u  BY DEF HeaderInv
<1>2. Native!Backed # {}  BY DEF Native!Usable
<1>3. Native!Backed = {p \in {0, 1} : Native!Full(p)} /\ Native!Half = {0, 1}  BY KeptIs
<1>4. ASSUME NEW p \in {0, 1}
      PROVE  /\ hdr[p].lo \in Nat /\ hdr[p].hi \in Nat /\ hdr[p].hi <= size * before
             /\ Native!Full(p) => hdr[p].lo < hdr[p].hi
             /\ ~ Native!Full(p) => hdr[p].lo = 0 /\ hdr[p].hi = 0
  BY KeptIs
<1>5. \A a \in Native!Addr : a \in Nat
          /\ (a \in Kept <=> \E p \in {0, 1} : hdr[p].lo <= a /\ a < hdr[p].hi)
  BY KeptIs, Places
<1>6. \A p \in {0, 1} : Native!Backed = {p} => Native!Covered = hdr[p]
  BY <1>3 DEF Native!Covered
<1>7. Native!Backed = {0, 1} =>
          Native!Covered = (IF hdr[0].lo < hdr[1].lo THEN [lo |-> hdr[0].lo, hi |-> hdr[1].hi]
                                                    ELSE [lo |-> hdr[1].lo, hi |-> hdr[0].hi])
  BY <1>3 DEF Native!Covered
<1>8. \A m, n : /\ Native!Most(m, n) = (IF m <= n THEN n ELSE m)
                /\ Native!Least(m, n) = (IF m <= n THEN m ELSE n)
  BY DEF Native!Most, Native!Least
<1>9. Native!Advancing <=> Advancing  BY Names
<1>12. Native!RestoredPos = e
  <2>1. l \in Nat /\ u \in Nat /\ recorded \in Nat
    <3>1. \E p, q \in {0, 1} : l = hdr[p].lo /\ u = hdr[q].hi
      <4>1. Native!Backed = {0} \/ Native!Backed = {1} \/ Native!Backed = {0, 1}  BY <1>2, <1>3
      <4>2. CASE Native!Backed = {0}  BY <1>6, <4>2
      <4>3. CASE Native!Backed = {1}  BY <1>6, <4>3
      <4>4. CASE Native!Backed = {0, 1}
        <5>1. CASE hdr[0].lo < hdr[1].lo  BY <1>7, <4>4, <5>1
        <5>2. CASE ~ hdr[0].lo < hdr[1].lo  BY <1>7, <4>4, <5>2
        <5> QED  BY <5>1, <5>2
      <4> QED  BY <4>1, <4>2, <4>3, <4>4
    <3> QED  BY <1>4, <3>1, Names DEF BackupTypes, Native!TypeOK
  <2>2. ~ (recorded < l \/ recorded > u)
    <3> HIDE DEF l, u
    <3> QED  BY <1>1, <2>1
  <2> QED  BY <2>2 DEF Native!RestoredPos
<1>10. CASE Native!Same
  <2>1. \A p \in {0, 1} : AtRow(hdr[p].lo) /\ AtRow(hdr[p].hi)  BY <1>3, <1>10 DEF HeaderInv
  <2>2. Advancing  BY <1>10, Names DEF Native!Same, BackupTypes
  <2>3. Native!Full(1) => two  BY DEF HeaderInv
  <2>4. ASSUME Native!Backed = {0} PROVE Claim
    <3>1. Native!Full(0) /\ ~ Native!Full(1)  BY <1>3, <2>4
    <3>2. l = hdr[0].lo /\ u = hdr[0].hi  BY <1>6, <2>4
    <3>3. \A a \in Native!Addr : a \in Kept <=> l <= a /\ a < u  BY <1>4, <1>5, <3>1, <3>2
    <3>4. e = u
      BY <1>4, <1>8, <1>9, <2>2, <3>1, <3>2
    <3>5. l \in Nat /\ u \in Nat /\ l < u /\ u <= size * before /\ AtRow(l) /\ AtRow(u)
      BY <1>4, <2>1, <3>1, <3>2
    <3> HIDE DEF l, u, e
    <3> QED  BY <1>10, <2>2, <3>3, <3>4, <3>5
  <2>5. ASSUME Native!Backed = {1} PROVE Claim
    <3>1. Native!Full(1) /\ ~ Native!Full(0)  BY <1>3, <2>5
    <3>2. l = hdr[1].lo /\ u = hdr[1].hi  BY <1>6, <2>5
    <3>3. \A a \in Native!Addr : a \in Kept <=> l <= a /\ a < u  BY <1>4, <1>5, <3>1, <3>2
    <3>4. e = u
      BY <1>4, <1>8, <1>9, <2>2, <2>3, <3>1, <3>2
    <3>5. l \in Nat /\ u \in Nat /\ l < u /\ u <= size * before /\ AtRow(l) /\ AtRow(u)
      BY <1>4, <2>1, <3>1, <3>2
    <3> HIDE DEF l, u, e
    <3> QED  BY <1>10, <2>2, <3>3, <3>4, <3>5
  <2>6. ASSUME Native!Backed = {0, 1} PROVE Claim
    <3>1. Native!Full(1) /\ Native!Full(0)  BY <1>3, <2>6
    <3>2. hdr[0].hi = hdr[1].lo \/ hdr[1].hi = hdr[0].lo  BY <1>10, <3>1 DEF HeaderInv
    <3>3. CASE hdr[0].hi = hdr[1].lo
      <4>1. l = hdr[0].lo /\ u = hdr[1].hi  BY <1>4, <1>7, <2>6, <3>1, <3>3
      <4>2. \A a \in Native!Addr : a \in Kept <=> l <= a /\ a < u  BY <1>4, <1>5, <3>1, <3>3, <4>1
      <4>3. e = u
        BY <1>4, <1>8, <1>9, <2>2, <2>3, <3>1, <3>3, <4>1
      <4>4. l \in Nat /\ u \in Nat /\ l < u /\ u <= size * before  BY <1>4, <3>1, <3>3, <4>1
      <4>5. AtRow(l) /\ AtRow(u)  BY <2>1, <4>1
      <4> HIDE DEF l, u, e
      <4> QED  BY <1>10, <2>2, <4>2, <4>3, <4>4, <4>5
    <3>4. CASE hdr[1].hi = hdr[0].lo
      <4>1. l = hdr[1].lo /\ u = hdr[0].hi  BY <1>4, <1>7, <2>6, <3>1, <3>4
      <4>2. \A a \in Native!Addr : a \in Kept <=> l <= a /\ a < u  BY <1>4, <1>5, <3>1, <3>4, <4>1
      <4>3. e = u
        BY <1>4, <1>8, <1>9, <2>2, <2>3, <3>1, <3>4, <4>1
      <4>4. l \in Nat /\ u \in Nat /\ l < u /\ u <= size * before  BY <1>4, <3>1, <3>4, <4>1
      <4>5. AtRow(l) /\ AtRow(u)  BY <2>1, <4>1
      <4> HIDE DEF l, u, e
      <4> QED  BY <1>10, <2>2, <4>2, <4>3, <4>4, <4>5
    <3> QED  BY <3>2, <3>3, <3>4
  <2>7. Native!Backed = {0} \/ Native!Backed = {1} \/ Native!Backed = {0, 1}  BY <1>2, <1>3
  <2>8. Claim  BY <2>4, <2>5, <2>6, <2>7
  <2>9. Native!RestoredPos = e  BY <1>12
  <2> HIDE DEF e
  <2> QED  BY <1>1, <2>8, <2>9
<1>11. CASE ~ Native!Same
  <2>1. hdr[1] = Native!Empty /\ ~ two  BY <1>11 DEF HeaderInv
  <2>2. ~ Native!Full(1)  BY <2>1, KeptIs
  <2>3. Native!Backed = {0} /\ Native!Full(0)  BY <1>2, <1>3, <2>2
  <2>4. hdr[0] = FirstUnit
    <3>1. hdr[0] # Native!Empty  BY <2>3, KeptIs
    <3> QED  BY <1>11, <3>1 DEF HeaderInv
  <2>5. l = 0 /\ u = Native!BackupBlocks /\ hdr[0].lo = 0 /\ hdr[0].hi = Native!BackupBlocks
    BY <1>6, <2>3, <2>4 DEF FirstUnit
  <2>6. AtRow(l) /\ AtRow(u) /\ u \in Nat /\ l < u
    <3>1. 0 * after = 0 /\ 0 \in Nat  BY DEF BackupTypes
    <3>2. AtRow(0)  BY <3>1, RowIsAt
    <3> QED  BY <2>5, <3>2, UnitIs
  <2>7. \A a \in Native!Addr : a \in Kept <=> l <= a /\ a < u  BY <1>4, <1>5, <2>2, <2>5
  <2>8. Claim  BY <1>4, <1>9, <2>1, <2>3, <2>5, <2>6, <2>7
  <2>9. Native!RestoredPos = e  BY <1>12
  <2> HIDE DEF e
  <2> QED  BY <1>1, <2>8, <2>9
<1> QED  BY <1>10, <1>11

\* No half ends after the range.
LEMMA HighestIs ==
  ASSUME BackupTypes, HeaderInv, Native!Usable, NEW p \in Native!Backed
  PROVE  hdr[p].hi <= Native!Covered.hi
<1>1. Native!Backed = {q \in {0, 1} : Native!Full(q)} /\ Native!Half = {0, 1}  BY KeptIs
<1>2. \A q \in {0, 1} : /\ hdr[q].lo \in Nat /\ hdr[q].hi \in Nat
                        /\ Native!Full(q) => hdr[q].lo < hdr[q].hi
  BY KeptIs
<1>3. CASE Native!Backed # {0, 1}
  <2>1. Native!Backed = {p}  BY <1>1, <1>3
  <2> QED  BY <1>1, <1>2, <1>3, <2>1 DEF Native!Covered
<1>4. CASE Native!Backed = {0, 1}
  <2>1. Native!Covered.hi = (IF hdr[0].lo < hdr[1].lo THEN hdr[1].hi ELSE hdr[0].hi)
    BY <1>1, <1>4 DEF Native!Covered
  <2>2. Native!Same
    <3>1. hdr[1] # Native!Empty  BY <1>4, KeptIs
    <3> QED  BY <3>1 DEF HeaderInv
  <2>3. hdr[0].hi = hdr[1].lo \/ hdr[1].hi = hdr[0].lo  BY <1>1, <1>4, <2>2 DEF HeaderInv
  <2> QED  BY <1>1, <1>2, <1>4, <2>1, <2>3
<1> QED  BY <1>3, <1>4

\* A backup that would not be used holds only what was moved.
LEMMA StaleIsMoved ==
  ASSUME BackupTypes, HeaderInv, ~ Native!Usable, NEW a \in Kept
  PROVE  Native!Moved(a, recorded)
<1>1. PICK p \in Native!Backed : a \in Native!Range(hdr[p])  BY DEF Kept
<1>2. Native!NotNeeded /\ p \in Native!Half /\ (p = 1 => two)
  BY <1>1 DEF Native!Usable, Native!Backed
<1>3. hdr[p].lo <= a /\ a < hdr[p].hi /\ hdr[p].lo \in Nat /\ hdr[p].hi \in Nat /\ a \in Nat
  BY <1>1, <1>2, KeptIs, Places DEF Native!Range
<1>4. recorded \in Nat
  BY Names DEF BackupTypes, Native!TypeOK
<1>5. IF Advancing THEN hdr[p].hi < recorded ELSE hdr[p].lo >= recorded
  BY <1>2, Names DEF Native!NotNeeded
<1> QED  BY <1>3, <1>4, <1>5, Names

\* What is kept is whole rows of the new layout, and not those that hold other old data.
LEMMA KeptRows ==
  ASSUME BackupTypes, HeaderInv, Native!Usable, NEW a \in Native!Addr, NEW b \in Kept
  PROVE  /\ Native!NewRow(a) = Native!NewRow(b) => a \in Kept
         /\ a \notin Kept /\ ~ Native!Moved(a, recorded) => Native!OldRow(a) # Native!NewRow(b)
<1> DEFINE l == Native!Covered.lo
           u == Native!Covered.hi
<1>1. /\ l \in Nat /\ u \in Nat /\ AtRow(l) /\ AtRow(u)
      /\ \A x \in Native!Addr : x \in Kept <=> l <= x /\ x < u
      /\ l <= recorded /\ recorded <= u
      /\ ~ Advancing => l = 0
  BY Hull
<1>2. b \in Native!Addr  BY KeptIs
<1>3. l <= b /\ b < u  BY <1>1, <1>2
<1>4. /\ a \in Nat /\ Native!NewRow(a) \in Nat /\ Native!OldRow(a) \in Nat
      /\ Native!NewRow(a) * after <= a /\ a < (Native!NewRow(a) + 1) * after
      /\ a < (Native!OldRow(a) + 1) * before
  BY Places
<1>5. /\ b \in Nat /\ Native!NewRow(b) \in Nat
      /\ Native!NewRow(b) * after <= b /\ b < (Native!NewRow(b) + 1) * after
  BY <1>2, Places
<1>6. recorded \in Nat  BY Names DEF BackupTypes, Native!TypeOK
<1> HIDE DEF l, u
<1>7. \A r \in Nat : r < u \div after <=> r * after < u
  <2>1. u \div after \in Nat /\ l \div after \in Nat  BY <1>1, AtRowIs
  <2>2. \A r \in Nat : r < u \div after \/ r >= u \div after  BY <2>1
  <2>4. \A r \in Nat : r * after \in Nat /\ (r + 1) * after = r * after + after /\ after \in Nat \ {0}
    BY Times DEF BackupTypes
  <2>5. \A r \in Nat : (r < u \div after => r * after < u) /\ (r >= u \div after => r * after >= u)
    BY <1>1, AtRowIs
  <2> TAKE r \in Nat
  <2>7. r * after \in Nat /\ (r + 1) * after = r * after + after  BY <2>4
  <2>8. r < u \div after <=> r * after < u  BY <1>1, <2>2, <2>5, <2>7
  <2> QED  BY <2>8
<1>8. u \div after \in Nat /\ l \div after \in Nat  BY <1>1, AtRowIs
<1>9. \A r \in Nat : r * after \in Nat /\ (r + 1) * after = r * after + after /\ after \in Nat \ {0}
    BY Times DEF BackupTypes
<1>10. Native!NewRow(b) < u \div after  BY <1>1, <1>3, <1>5, <1>7, <1>9
<1>11. ~ Native!NewRow(b) < l \div after
  <2>1. Native!NewRow(b) < l \div after => (Native!NewRow(b) + 1) * after <= l  BY <1>1, <1>5, AtRowIs
  <2> QED  BY <1>1, <1>3, <1>5, <1>9, <2>1
<1>12. ASSUME Native!NewRow(a) = Native!NewRow(b) PROVE a \in Kept
  <2>1. Native!NewRow(a) * after \in Nat /\ (Native!NewRow(a) + 1) * after \in Nat  BY <1>4, <1>9
  <2>2. Native!NewRow(a) * after >= l
    BY <1>1, <1>4, <1>8, <1>11, <1>12, AtRowIs
  <2>3. (Native!NewRow(a) + 1) * after <= u
    BY <1>1, <1>4, <1>8, <1>10, <1>12, AtRowIs
  <2>4. l <= a /\ a < u  BY <1>1, <1>4, <2>1, <2>2, <2>3
  <2> QED  BY <1>1, <2>4
<1>13. ASSUME a \notin Kept, ~ Native!Moved(a, recorded) PROVE Native!OldRow(a) # Native!NewRow(b)
  <2>1. Advancing /\ a >= u
    BY <1>1, <1>4, <1>6, <1>13, Names
  <2>2. before <= after  BY <2>1, Names
  <2>3. (Native!OldRow(a) + 1) * before <= (Native!OldRow(a) + 1) * after
    <3>1. \A k \in Nat : k * before <= k * after
      <4> TAKE k \in Nat
      <4>1. before * k <= after * k  BY <2>2, Times DEF BackupTypes
      <4>2. before * k = k * before /\ after * k = k * after  BY DEF BackupTypes
      <4> QED  BY <4>1, <4>2
    <3> QED  BY <1>4, <3>1
  <2>4. (Native!OldRow(a) + 1) * before \in Nat /\ (Native!OldRow(a) + 1) * after \in Nat
    BY <1>4, <1>9, Times DEF BackupTypes
  <2>5. u < (Native!OldRow(a) + 1) * after  BY <1>1, <1>4, <2>1, <2>3, <2>4
  <2>6. ~ Native!OldRow(a) + 1 <= u \div after
    <3>1. ASSUME Native!OldRow(a) < u \div after PROVE FALSE
      <4>1. (Native!OldRow(a) + 1) * after <= u  BY <1>1, <1>4, <3>1, AtRowIs
      <4> QED  BY <1>1, <2>4, <2>5, <4>1
    <3> QED  BY <1>4, <1>8, <3>1
  <2> QED  BY <1>4, <1>5, <1>8, <1>10, <2>6
<1> QED  BY <1>12, <1>13

\* What restore_stripes writes.
LEMMA RestoredIs ==
  ASSUME BackupTypes, HeaderInv, Native!Usable, NEW r \in Native!Row
  PROVE  /\ (\E a \in Kept : Native!NewRow(a) = r) => Native!RestoredRows[r] = "new"
         /\ ~ (\E a \in Kept : Native!NewRow(a) = r) => Native!RestoredRows[r] = rows[r]
<1> DEFINE onRow == {a \in Native!Addr : Native!NewRow(a) = r}
           Covers == \E p \in Native!Backed : onRow \cap Native!Range(hdr[p]) # {}
           Copies == UNION {Native!Range(hdr[p]) \cap held[p] : p \in Native!Backed}
<1>1. Native!RestoredRows[r] = Native!RestoredRow(r)  BY DEF Native!RestoredRows
<1>2. Native!RestoredRow(r) = (IF Covers THEN IF onRow \subseteq Copies THEN "new" ELSE "lost"
                                         ELSE rows[r])
  BY DEF Native!RestoredRow
<1>3. Covers <=> \E a \in Kept : Native!NewRow(a) = r
  <2>1. \A p : Native!Range(hdr[p]) \subseteq Native!Addr  BY DEF Native!Range
  <2> QED  BY <2>1 DEF Kept
<1>4. Kept \subseteq Copies  BY DEF Kept, HeaderInv
<1>5. Covers => onRow \subseteq Kept  BY <1>3, KeptRows
<1> QED  BY <1>1, <1>2, <1>3, <1>4, <1>5

\* The rows as they are known are all there is to restore from.
LEMMA KnownIsComplete ==
  ASSUME BackupTypes, HeaderInv, RowsKnown
  PROVE  IF Native!Usable THEN Native!Complete(Native!RestoredRows, Native!RestoredPos)
                          ELSE Native!Complete(rows, recorded)
<1>0. recorded \in Nat /\ pos \in Nat  BY Names DEF BackupTypes, Native!TypeOK
<1>1. ASSUME NEW a \in Native!Addr, Native!Moved(a, recorded)
      PROVE  rows[Native!NewRow(a)] = "new"
  <2>1. Native!Moved(a, pos)  BY <1>0, <1>1, Names, Places DEF RowsKnown
  <2> QED  BY <2>1 DEF RowsKnown
<1>2. CASE ~ Native!Usable
  <2>1. ASSUME NEW a \in Native!Addr, ~ Native!Moved(a, recorded)
        PROVE  rows[Native!OldRow(a)] = "old"
    <3>1. a \notin Kept  BY <1>2, <2>1, StaleIsMoved
    <3> QED  BY <2>1, <3>1 DEF RowsKnown
  <2> QED  BY <1>1, <1>2, <2>1 DEF Native!Complete
<1>3. CASE Native!Usable
  <2> DEFINE l == Native!Covered.lo
             u == Native!Covered.hi
             c == Native!RestoredRows
             p == Native!RestoredPos
  <2>1. /\ l \in Nat /\ u \in Nat /\ l < u
        /\ \A x \in Native!Addr : x \in Kept <=> l <= x /\ x < u
        /\ l <= recorded /\ recorded <= u
        /\ p = (IF Advancing THEN u ELSE l)
        /\ ~ Advancing => l = 0
    BY <1>3, Hull
  <2> HIDE DEF l, u, p
  <2>2. ASSUME NEW a \in Native!Addr
        PROVE  IF Native!Moved(a, p) THEN c[Native!NewRow(a)] = "new" ELSE c[Native!OldRow(a)] = "old"
    <3>1. a \in Nat /\ Native!NewRow(a) \in Native!Row /\ Native!OldRow(a) \in Native!Row  BY Places
    <3>2. CASE a \in Kept
      <4>1. l <= a /\ a < u  BY <2>1, <3>2
      <4>2. Native!Moved(a, p)  BY <2>1, <3>1, <4>1, Names
      <4>3. c[Native!NewRow(a)] = "new"  BY <1>3, <3>1, <3>2, RestoredIs
      <4> QED  BY <4>2, <4>3
    <3>3. CASE a \notin Kept
      <4>1. ~ (l <= a /\ a < u)  BY <2>1, <3>3
      <4>2. Native!Moved(a, p) <=> Native!Moved(a, recorded)  BY <1>0, <2>1, <3>1, <4>1, Names
      <4>3. CASE Native!Moved(a, recorded)
        <5>1. ~ \E x \in Kept : Native!NewRow(x) = Native!NewRow(a)  BY <1>3, <3>3, KeptRows
        <5>2. c[Native!NewRow(a)] = rows[Native!NewRow(a)]  BY <1>3, <3>1, <5>1, RestoredIs
        <5> QED  BY <1>1, <4>2, <4>3, <5>2
      <4>4. CASE ~ Native!Moved(a, recorded)
        <5>1. ~ \E x \in Kept : Native!NewRow(x) = Native!OldRow(a)  BY <1>3, <3>3, <4>4, KeptRows
        <5>2. c[Native!OldRow(a)] = rows[Native!OldRow(a)]  BY <1>3, <3>1, <5>1, RestoredIs
        <5>3. rows[Native!OldRow(a)] = "old"  BY <3>3, <4>4 DEF RowsKnown
        <5> QED  BY <4>2, <4>4, <5>2, <5>3
      <4> QED  BY <4>3, <4>4
    <3> QED  BY <3>2, <3>3
  <2>3. Native!Complete(c, p)  BY <2>2 DEF Native!Complete
  <2> QED  BY <1>3, <2>3 DEF p
<1> QED  BY <1>2, <1>3

-----------------------------------------------------------------------------
(* The driver.                                                              *)

\* Positions are numbers, of rows.
LEMMA Positions ==
  ASSUME BackupTypes
  PROVE  /\ pos \in Nat /\ recorded \in Nat /\ progress \in Nat
         /\ pos <= size * after /\ recorded <= size * after /\ progress <= size * after
         /\ backupPoint \in Nat /\ suspendPoint \in Nat /\ maxProgress \in Nat /\ syncMax \in Nat
         /\ backupPoint <= size * before /\ suspendPoint <= size * before
         /\ maxProgress <= size /\ syncMax <= size
         /\ Driven \in Nat /\ pos = Driven * after /\ Driven <= size
         /\ AtRow(0) /\ AtRow(size * after) /\ (size * after) \div after = size /\ 0 \div after = 0
         /\ part \in {0, 1}
<1>1. /\ pos \in Nat /\ recorded \in Nat /\ progress \in Nat
      /\ pos <= size * after /\ recorded <= size * after /\ progress <= size * after
  <2>1. /\ pos \in 0..Native!Most(Native!First, Native!Last)
        /\ recorded \in 0..Native!Most(Native!First, Native!Last)
        /\ progress \in 0..Native!Most(Native!First, Native!Last)
    BY DEF BackupTypes, Native!TypeOK
  <2>2. Native!Most(Native!First, Native!Last) = size * after /\ size * after \in Nat  BY Names
  <2> QED  BY <2>1, <2>2
<1>2. /\ backupPoint \in Nat /\ suspendPoint \in Nat /\ maxProgress \in Nat /\ syncMax \in Nat
      /\ backupPoint <= size * before /\ suspendPoint <= size * before
      /\ maxProgress <= size /\ syncMax <= size /\ part \in {0, 1}
  <2>1. /\ backupPoint \in 0..(size * before) /\ suspendPoint \in 0..(size * before)
        /\ maxProgress \in 0..size /\ syncMax \in 0..size /\ part \in {0, 1}
    BY DEF BackupTypes, Native!TypeOK, Native!Half
  <2>2. size * before \in Nat /\ size \in Nat  BY Names DEF BackupTypes
  <2> QED  BY <2>1, <2>2
<1>3. AtRow(size * after) /\ (size * after) \div after = size  BY RowIsAt DEF BackupTypes
<1>4. AtRow(0) /\ 0 \div after = 0
  <2>1. 0 * after = 0  BY DEF BackupTypes
  <2> QED  BY <2>1, RowIsAt
<1>5. Driven \in Nat /\ pos = Driven * after  BY <1>1, AtRowIs DEF Driven, BackupTypes
<1>6. Driven <= size  BY <1>1, <1>3, AtRowsAre, Names DEF Driven, BackupTypes
<1> QED  BY <1>1, <1>2, <1>3, <1>4, <1>5, <1>6

\* The next row, and where the driver is when it was written.
LEMMA NextIs ==
  ASSUME BackupTypes, pos # Native!Last
  PROVE  LET n == IF Advancing THEN pos + after ELSE pos - after
         IN  /\ Native!NextRow \in Native!Row /\ Native!NextRow \in Nat
             /\ PosOf(Native!NextRow) = pos
             /\ n \in Nat /\ n <= size * after /\ AtRow(n)
             /\ n \div after = (IF Advancing THEN Driven + 1 ELSE Driven - 1)
             /\ \A a \in Native!Addr :
                   /\ Native!NewRow(a) = Native!NextRow => ~ Native!Moved(a, pos)
                   /\ Native!Moved(a, n) <=> Native!Moved(a, pos) \/ Native!NewRow(a) = Native!NextRow
<1> USE DEF BackupTypes
<1> DEFINE d == Driven
<1>1. d \in Nat /\ pos = d * after /\ d <= size /\ after \in Nat \ {0} /\ size \in Nat \ {0} /\ pos \in Nat
  BY Positions
<1>2. Native!Last = (IF Advancing THEN size * after ELSE 0)
      /\ Native!NextRow = (IF Advancing THEN d ELSE d - 1) /\ Native!Row = 0..(size - 1)
  BY Names
<1> HIDE DEF d
<1>3. CASE Advancing
  <2>1. d # size  BY <1>1, <1>2, <1>3
  <2>2. d < size  BY <1>1, <2>1
  <2>3. (d + 1) * after = pos + after /\ d + 1 \in Nat  BY <1>1, Times
  <2>4. AtRow(pos + after) /\ (pos + after) \div after = d + 1  BY <2>3, RowIsAt
  <2>5. (d + 1) * after <= size * after  BY <1>1, <2>2, <2>3, Times
  <2>6. PosOf(d) = pos  BY <1>1, <1>3 DEF PosOf
  <2>7. \A a \in Native!Addr :
            /\ Native!NewRow(a) = d => ~ Native!Moved(a, pos)
            /\ Native!Moved(a, pos + after) <=> Native!Moved(a, pos) \/ Native!NewRow(a) = d
    <3> TAKE a \in Native!Addr
    <3> DEFINE k == Native!NewRow(a)
    <3>1. a \in Nat /\ k \in Nat /\ k * after <= a /\ a < (k + 1) * after  BY Places
    <3>2. Native!Moved(a, pos) <=> a < pos  BY <1>3, Names
    <3>3. Native!Moved(a, pos + after) <=> a < pos + after  BY <1>3, Names
    <3> HIDE DEF k
    <3>4. k * after \in Nat /\ (k + 1) * after = k * after + after  BY <3>1, Times
    <3>5. k + 1 <= d => (k + 1) * after <= pos  BY <1>1, <3>1, Times
    <3>6. d + 1 <= k => pos + after <= k * after  BY <1>1, <2>3, <3>1, Times
    <3>7. k = d => k * after = pos  BY <1>1
    <3>8. k = d => ~ a < pos  BY <1>1, <3>1, <3>4, <3>7
    <3>9. k = d => a < pos + after  BY <1>1, <3>1, <3>4, <3>7
    <3>10. k < d => a < pos /\ a < pos + after  BY <1>1, <3>1, <3>4, <3>5
    <3>11. k > d => ~ a < pos + after /\ ~ a < pos  BY <1>1, <3>1, <3>4, <3>6
    <3>12. k = d \/ k < d \/ k > d  BY <1>1, <3>1
    <3> QED  BY <3>2, <3>3, <3>8, <3>9, <3>10, <3>11, <3>12 DEF k
  <2> QED  BY <1>1, <1>2, <1>3, <2>2, <2>3, <2>4, <2>5, <2>6, <2>7 DEF d
<1>4. CASE ~ Advancing
  <2>1. d # 0
    <3>1. 0 * after = 0  OBVIOUS
    <3> QED  BY <1>1, <1>2, <1>4, <3>1
  <2>2. PICK e \in Nat : d = e + 1  BY <1>1, <2>1
  <2>3. pos = e * after + after /\ e * after \in Nat /\ pos - after = e * after /\ e < size
    <3>1. (e + 1) * after = e * after + after /\ e * after \in Nat  BY <2>2, Times
    <3> QED  BY <1>1, <2>2, <3>1
  <2>4. AtRow(pos - after) /\ (pos - after) \div after = e  BY <2>2, <2>3, RowIsAt
  <2>5. pos - after <= size * after  BY <1>1, <2>3, Positions
  <2>6. PosOf(e) = pos  BY <1>1, <1>4, <2>2 DEF PosOf
  <2>7. \A a \in Native!Addr :
            /\ Native!NewRow(a) = e => ~ Native!Moved(a, pos)
            /\ Native!Moved(a, pos - after) <=> Native!Moved(a, pos) \/ Native!NewRow(a) = e
    <3> TAKE a \in Native!Addr
    <3> DEFINE k == Native!NewRow(a)
    <3>1. a \in Nat /\ k \in Nat /\ k * after <= a /\ a < (k + 1) * after  BY Places
    <3>2. Native!Moved(a, pos) <=> a >= pos  BY <1>4, Names
    <3>3. Native!Moved(a, pos - after) <=> a >= e * after  BY <1>4, <2>3, Names
    <3> HIDE DEF k
    <3>4. k * after \in Nat /\ (k + 1) * after = k * after + after  BY <3>1, Times
    <3>5. k + 1 <= e => (k + 1) * after <= e * after  BY <2>2, <3>1, Times
    <3>6. e + 1 <= k => (e + 1) * after <= k * after /\ (e + 1) * after = pos
      BY <1>1, <2>2, <3>1, Times
    <3>7. k = e => k * after = e * after  OBVIOUS
    <3>8. k = e => ~ a >= pos  BY <1>1, <2>3, <3>1, <3>4, <3>7
    <3>9. k = e => a >= e * after  BY <1>1, <2>3, <3>1, <3>4, <3>7
    <3>10. k < e => ~ a >= pos /\ ~ a >= e * after  BY <1>1, <2>2, <2>3, <3>1, <3>4, <3>5
    <3>11. k > e => a >= pos /\ a >= e * after  BY <1>1, <2>2, <2>3, <3>1, <3>4, <3>6
    <3>12. k = e \/ k < e \/ k > e  BY <2>2, <3>1
    <3> QED  BY <3>2, <3>3, <3>8, <3>9, <3>10, <3>11, <3>12 DEF k
  <2>8. d - 1 = e  BY <2>2
  <2> QED  BY <1>1, <1>2, <1>4, <2>2, <2>3, <2>4, <2>5, <2>6, <2>7, <2>8 DEF d
<1> QED  BY <1>3, <1>4

\* Where the array runs, the child is one of these.
LEMMA RunningAt ==
  ASSUME BackupTypes, BackupInv, active
  PROVE  /\ RowsKnown /\ HeaderInv /\ ChildInv /\ RestartInv /\ pc # "idle"
         /\ up <=> pc \notin Restarting
         /\ up => \/ /\ pc \in Watching \/ Stopping
                     /\ IF Native!Same THEN SlidingInv
                                       ELSE IF Advancing THEN GrowingInv ELSE ShrinkingInv
                  \/ Free
<1>1. RowsKnown /\ HeaderInv /\ ChildInv /\ RestartInv /\ pc # "idle"  BY DEF BackupInv
<1>2. up <=> pc \notin Restarting  BY <1>1 DEF RestartInv, BackupTypes, Native!TypeOK
<1>3. up => pc \in Watching \/ Stopping \/ Free
  BY <1>1, <1>2 DEF ChildInv, Watching, Stopping, Restarting, BackupTypes, Native!TypeOK
<1> QED  BY <1>1, <1>2, <1>3 DEF ChildInv

\* The driver never writes a row whose old data are needed and nowhere else.
LEMMA NextIsSpared ==
  ASSUME BackupTypes, BackupInv, active, up, pos # Native!Last, Native!Done(pos) < syncMax
  PROVE  Spares(Native!NextRow)
<1> USE DEF BackupTypes
<1> DEFINE r == Native!NextRow
           b == Native!BackupBlocks
<1>1. r \in Native!Row /\ r \in Nat /\ PosOf(r) = pos  BY NextIs
<1>2. Native!NextRow = (IF Advancing THEN Driven ELSE Driven - 1)
      /\ Native!Last = (IF Advancing THEN size * after ELSE 0)
      /\ Native!Done(pos) = (IF Advancing THEN Driven ELSE size - Driven)
      /\ (Advancing <=> after >= before)
  BY Names DEF Driven
<1>3. /\ pos \in Nat /\ recorded \in Nat /\ progress \in Nat /\ syncMax \in Nat
      /\ Driven \in Nat /\ pos = Driven * after /\ Driven <= size /\ AtRow(pos)
      /\ part \in {0, 1} /\ AtRow(0) /\ backupPoint \in Nat
  BY Positions
<1>4. b \in Nat \ {0} /\ Room \in Nat \ {0} /\ b = Room * after /\ AtRow(b) /\ b \div after = Room
  BY UnitIs DEF Room
<1>5. RowsKnown /\ HeaderInv  BY RunningAt
<1>6. IF Advancing THEN recorded <= pos ELSE pos <= recorded  BY <1>5 DEF RowsKnown
<1>7. ASSUME pos >= b PROVE Driven >= Room
  BY <1>3, <1>4, <1>7, AtRowsAre DEF Driven
<1> HIDE DEF r, b
<1>8. \A a \in Native!Addr : a \in Kept <=> \E p \in {0, 1} : hdr[p].lo <= a /\ a < hdr[p].hi
  BY <1>5, KeptIs
<1>9. \A a \in Native!Addr :
          /\ a \in Nat /\ Native!OldRow(a) * before <= a /\ a < (Native!OldRow(a) + 1) * before
          /\ Native!NewRow(a) * after <= a /\ a < (Native!NewRow(a) + 1) * after
  BY Places
<1>10. \A p \in {0, 1} : /\ hdr[p].lo \in Nat /\ hdr[p].hi \in Nat
                         /\ Native!Full(p) <=> hdr[p].lo < hdr[p].hi
                         /\ ~ Native!Full(p) => hdr[p] = Native!Empty
  BY <1>5, KeptIs
<1>11. CASE Native!Same /\ SlidingInv
  <2>1. before = after /\ Advancing  BY <1>2, <1>11 DEF Native!Same
  <2>2. (Driven + 1) * after <= backupPoint /\ (Driven + 1) * after = pos + after
    <3>1. Driven + 1 \in Nat /\ Driven + 1 <= syncMax  BY <1>2, <1>3, <2>1
    <3>2. (Driven + 1) * after <= syncMax * after /\ syncMax * after \in Nat /\ (Driven + 1) * after \in Nat
      BY <1>3, <3>1, Times
    <3>3. syncMax * after <= backupPoint  BY <1>11 DEF SlidingInv
    <3>4. (Driven + 1) * after = pos + after  BY <1>3, Times
    <3> QED  BY <1>3, <3>2, <3>3, <3>4
  <2>3. progress <= recorded /\ recorded <= pos  BY <1>6, <1>11, <2>1 DEF SlidingInv
  <2>4. Native!Full(1 - part)
    <3>1. ~ progress >= backupPoint  BY <1>3, <2>2, <2>3
    <3> QED  BY <1>11, <3>1 DEF SlidingInv
  <2>5. /\ hdr[1 - part].hi = backupPoint
        /\ Native!Full(part) => hdr[part].hi = hdr[1 - part].lo /\ hdr[part].lo <= progress
        /\ ~ Native!Full(part) => hdr[1 - part].lo <= progress
    BY <1>11, <2>4 DEF SlidingInv
  <2>6. part \in {0, 1} /\ 1 - part \in {0, 1}  BY <1>3
  <2> DEFINE h0 == hdr[part]
             h1 == hdr[1 - part]
  <2>7. h0.lo \in Nat /\ h0.hi \in Nat /\ h1.lo \in Nat /\ h1.hi \in Nat  BY <1>10, <2>6
  <2>8. ASSUME NEW a \in Native!Addr, Native!OldRow(a) = r PROVE a \in Kept
    <3>1. r = Driven  BY <1>2, <2>1 DEF r
    <3>2. Driven * after <= a /\ a < (Driven + 1) * after /\ a \in Nat  BY <1>9, <2>1, <2>8, <3>1
    <3>3. progress <= a /\ a < backupPoint  BY <1>3, <2>2, <2>3, <3>2
    <3>4. (h0.lo <= a /\ a < h0.hi) \/ (h1.lo <= a /\ a < h1.hi)
      <4> HIDE DEF h0, h1
      <4>1. CASE Native!Full(part)
        <5>1. h0.hi = h1.lo /\ h0.lo <= progress /\ h1.hi = backupPoint  BY <2>5, <4>1 DEF h0, h1
        <5> QED  BY <1>3, <2>7, <3>2, <3>3, <5>1
      <4>2. CASE ~ Native!Full(part)
        <5>1. h1.lo <= progress /\ h1.hi = backupPoint  BY <2>5, <4>2 DEF h0, h1
        <5> QED  BY <1>3, <2>7, <3>2, <3>3, <5>1
      <4> QED  BY <4>1, <4>2
    <3> QED  BY <1>8, <2>6, <3>4
  <2> QED  BY <2>8 DEF Spares, r
<1>12. CASE ~ Native!Same /\ Advancing /\ GrowingInv
  <2>1. part = 1
    <3>1. syncMax # 0  BY <1>2, <1>3, <1>12
    <3> QED  BY <1>3, <1>12, <3>1 DEF GrowingInv
  <2>2. CASE Native!Full(0)
    <3>1. hdr[0] = FirstUnit
      <4>1. hdr[0] # Native!Empty
        <5>1. Native!Empty.lo = 0 /\ Native!Empty.hi = 0  BY DEF Native!Empty
        <5> QED  BY <1>10, <2>2, <5>1
      <4> QED  BY <1>5, <1>12, <4>1 DEF HeaderInv
    <3>2. hdr[0].lo = 0 /\ hdr[0].hi = b  BY <3>1 DEF FirstUnit, b
    <3>3. r < Room  BY <1>2, <1>3, <1>4, <1>12, <2>2 DEF GrowingInv, r
    <3>4. (r + 1) * after <= b /\ (r + 1) * before <= (r + 1) * after
      <4>1. r + 1 \in Nat /\ r + 1 <= Room  BY <1>1, <1>4, <3>3
      <4>2. (r + 1) * after <= Room * after  BY <1>4, <4>1, Times
      <4>3. before * (r + 1) <= after * (r + 1)  BY <1>2, <1>12, <4>1, Times
      <4>4. before * (r + 1) = (r + 1) * before /\ after * (r + 1) = (r + 1) * after  BY <4>1
      <4> QED  BY <1>4, <4>2, <4>3, <4>4
    <3>5. (r + 1) * before \in Nat /\ (r + 1) * after \in Nat  BY <1>1, Times
    <3>6. ASSUME NEW a \in Native!Addr, Native!OldRow(a) = r PROVE a \in Kept
      <4>1. a \in Nat /\ a < (r + 1) * before  BY <1>9, <3>6
      <4>2. 0 <= a /\ a < b  BY <1>4, <3>4, <3>5, <4>1
      <4> QED  BY <1>8, <3>2, <4>2
    <3> QED  BY <3>6 DEF Spares, r
  <2>3. CASE ~ Native!Full(0)
    <3>1. progress >= b /\ progress <= recorded  BY <1>12, <2>1, <2>3 DEF GrowingInv, b
    <3>2. pos >= b  BY <1>3, <1>4, <1>6, <1>12, <3>1
    <3>3. r >= Room  BY <1>2, <1>7, <1>12, <3>2 DEF r
    <3> QED  BY <1>1, <1>12, <3>3, Beyond DEF r
  <2> QED  BY <2>2, <2>3
<1>13. CASE ~ Native!Same /\ ~ Advancing /\ ShrinkingInv
  <2>1. pos # 0  BY <1>2, <1>13
  <2>2. r = Driven - 1  BY <1>2, <1>13 DEF r
  <2>3. CASE part = 0
    <3>1. pos >= b /\ size - syncMax >= Room  BY <1>13, <2>1, <2>3 DEF ShrinkingInv, b
    <3>2. size - Driven < syncMax  BY <1>2, <1>13
    <3>3. r >= Room  BY <1>3, <1>4, <2>2, <3>1, <3>2
    <3> QED  BY <1>1, <1>13, <3>3, Beyond DEF r
  <2>4. CASE part = 1
    <3>1. Native!Full(0)
      <4>1. progress # 0  BY <1>3, <1>6, <1>13, <2>1 DEF ShrinkingInv
      <4> QED  BY <1>13, <2>4, <4>1 DEF ShrinkingInv
    <3>2. hdr[0] = FirstUnit
      <4>1. hdr[0] # Native!Empty
        <5>1. Native!Empty.lo = 0 /\ Native!Empty.hi = 0  BY DEF Native!Empty
        <5> QED  BY <1>10, <3>1, <5>1
      <4> QED  BY <1>5, <1>13, <4>1 DEF HeaderInv
    <3>3. hdr[0].lo = 0 /\ hdr[0].hi = b  BY <3>2 DEF FirstUnit, b
    <3>4. pos <= b
      <4>1. progress <= b /\ recorded <= progress  BY <1>13, <3>1 DEF ShrinkingInv, b
      <4> QED  BY <1>3, <1>4, <1>6, <1>13, <4>1
    <3>5. PICK n \in Nat \ {0} : b = n * before  BY UnitIs DEF b
    <3>6. (r + 1) * before \in Nat /\ r * before \in Nat  BY <1>1, Times
    <3>7. CASE r < n
      <4>1. (r + 1) * before <= b
        <5>1. r + 1 \in Nat /\ r + 1 <= n  BY <1>1, <3>7
        <5> QED  BY <3>5, <5>1, Times
      <4>2. ASSUME NEW a \in Native!Addr, Native!OldRow(a) = r PROVE a \in Kept
        <5>1. a \in Nat /\ a < (r + 1) * before  BY <1>9, <4>2
        <5>2. 0 <= a /\ a < b  BY <1>4, <3>6, <4>1, <5>1
        <5> QED  BY <1>8, <3>3, <5>2
      <4> QED  BY <4>2 DEF Spares, r
    <3>8. CASE n <= r
      <4>1. b <= r * before  BY <1>1, <3>5, <3>8, Times
      <4>2. ASSUME NEW a \in Native!Addr, Native!OldRow(a) = r PROVE Native!Moved(a, PosOf(r))
        <5>1. a \in Nat /\ r * before <= a  BY <1>9, <4>2
        <5>2. a >= pos  BY <1>3, <1>4, <3>4, <3>6, <4>1, <5>1
        <5> QED  BY <1>1, <1>13, <5>2, Names DEF r
      <4> QED  BY <4>2 DEF Spares, r
    <3> QED  BY <1>1, <3>5, <3>7, <3>8
  <2> QED  BY <1>3, <2>3, <2>4
<1>14. CASE Free
  <2>1. ~ Native!Same /\ Advancing /\ recorded >= b  BY <1>14 DEF Free, b
  <2>2. pos >= b  BY <1>3, <1>4, <1>6, <2>1
  <2>3. r >= Room  BY <1>2, <1>7, <2>1, <2>2 DEF r
  <2> QED  BY <1>1, <2>1, <2>3, Beyond DEF r
<1>15. Native!Same => Advancing  BY <1>2 DEF Native!Same
<1> QED  BY <1>11, <1>12, <1>13, <1>14, <1>15, RunningAt

-----------------------------------------------------------------------------
(* What does not change.                                                    *)

\* The shape of an array does not change.
LEMMA ShapeStays ==
  ASSUME UNCHANGED shapeVars
  PROVE  /\ before' = before /\ after' = after /\ size' = size
         /\ Advancing' = Advancing /\ Native!Advancing' = Native!Advancing
         /\ Native!Same' = Native!Same /\ Native!BackupBlocks' = Native!BackupBlocks
         /\ Room' = Room /\ FirstUnit' = FirstUnit
         /\ Native!Blocks' = Native!Blocks /\ Native!Stripes' = Native!Stripes
         /\ Native!NeedBackup' = Native!NeedBackup
         /\ Native!First' = Native!First /\ Native!Last' = Native!Last
         /\ Native!Addr' = Native!Addr /\ Native!Row' = Native!Row /\ Native!Half' = Native!Half
         /\ Native!Empty' = Native!Empty
         /\ \A p : Native!Done(p)' = Native!Done(p) /\ AtRow(p)' = AtRow(p) /\ PosOf(p)' = PosOf(p)
         /\ \A a, p : Native!Moved(a, p)' = Native!Moved(a, p)
         /\ \A a : Native!OldRow(a)' = Native!OldRow(a) /\ Native!NewRow(a)' = Native!NewRow(a)
         /\ \A h : Native!Range(h)' = Native!Range(h)
         /\ \A m, n : Native!Most(m, n)' = Native!Most(m, n) /\ Native!Least(m, n)' = Native!Least(m, n)
<1>1. before' = before /\ after' = after /\ size' = size  BY DEF shapeVars
<1>2. Advancing' = Advancing /\ Native!Advancing' = Native!Advancing /\ Native!Same' = Native!Same
  BY <1>1 DEF Advancing, Native!Advancing, Native!Same
<1>3. Native!BackupBlocks' = Native!BackupBlocks
  BY <1>1 DEF Native!BackupBlocks, Native!Gcd, Native!Least
<1>4. Room' = Room /\ FirstUnit' = FirstUnit  BY <1>1, <1>3 DEF Room, FirstUnit
<1>5. Native!Blocks' = Native!Blocks  BY <1>2, <1>3 DEF Native!Blocks
<1>6. Native!Stripes' = Native!Stripes  BY <1>1, <1>5 DEF Native!Stripes
<1>7. Native!NeedBackup' = Native!NeedBackup  BY <1>1, <1>2, <1>3 DEF Native!NeedBackup
<1>8. Native!First' = Native!First /\ Native!Last' = Native!Last
  BY <1>1, <1>2 DEF Native!First, Native!Last
<1>9. Native!Row' = Native!Row /\ Native!Half' = Native!Half /\ Native!Empty' = Native!Empty
  BY <1>1 DEF Native!Row, Native!Half, Native!Empty
<1>10. Native!Addr' = Native!Addr  BY <1>1 DEF Native!Addr, Native!Total, Native!Least
<1>11. \A p : Native!Done(p)' = Native!Done(p) /\ AtRow(p)' = AtRow(p) /\ PosOf(p)' = PosOf(p)
  BY <1>1, <1>2 DEF Native!Done, AtRow, PosOf
<1>12. \A a, p : Native!Moved(a, p)' = Native!Moved(a, p)  BY <1>2 DEF Native!Moved
<1>13. \A a : Native!OldRow(a)' = Native!OldRow(a) /\ Native!NewRow(a)' = Native!NewRow(a)
  BY <1>1 DEF Native!OldRow, Native!NewRow
<1>14. \A h : Native!Range(h)' = Native!Range(h)  BY <1>10 DEF Native!Range
<1>15. \A m, n : Native!Most(m, n)' = Native!Most(m, n) /\ Native!Least(m, n)' = Native!Least(m, n)
  BY DEF Native!Most, Native!Least
<1> QED
  BY <1>1, <1>2, <1>3, <1>4, <1>5, <1>6, <1>7, <1>8, <1>9, <1>10, <1>11, <1>12, <1>13, <1>14, <1>15

\* What the header says does not change.
LEMMA HeaderStays ==
  ASSUME UNCHANGED shapeVars, hdr' = hdr, two' = two
  PROVE  /\ \A p : Native!Full(p)' = Native!Full(p)
         /\ Native!Backed' = Native!Backed /\ Kept' = Kept
         /\ recorded' = recorded => Native!Usable' = Native!Usable
         /\ recorded' = recorded /\ held' = held => HeaderInv' = HeaderInv
         /\ Native!Covered' = Native!Covered
<1>1. \A p : Native!Full(p)' = Native!Full(p)  BY DEF Native!Full
<1>2. Native!Backed' = Native!Backed  BY <1>1, ShapeStays DEF Native!Backed
<1>3. Kept' = Kept  BY <1>2, ShapeStays DEF Kept
<1>4. recorded' = recorded => Native!Usable' = Native!Usable
  BY <1>2, ShapeStays DEF Native!Usable, Native!NotNeeded
<1>5. Native!Covered' = Native!Covered  BY <1>2, ShapeStays DEF Native!Covered
<1>6. recorded' = recorded /\ held' = held => HeaderInv' = HeaderInv
  <2> SUFFICES ASSUME recorded' = recorded, held' = held PROVE HeaderInv' = HeaderInv  OBVIOUS
  <2>1. /\ Native!Half' = Native!Half /\ Native!Same' = Native!Same /\ Native!Empty' = Native!Empty
        /\ FirstUnit' = FirstUnit /\ Native!BackupBlocks' = Native!BackupBlocks
        /\ (\A p \in Native!Half : AtRow(hdr[p].lo) /\ AtRow(hdr[p].hi))'
             = \A p \in Native!Half : AtRow(hdr[p].lo) /\ AtRow(hdr[p].hi)
    BY ShapeStays DEF AtRow
  <2>2. Native!Usable' = Native!Usable  BY <1>4
  <2>3. (\A p \in Native!Backed : Native!Range(hdr[p]) \subseteq held[p])'
           = \A p \in Native!Backed : Native!Range(hdr[p]) \subseteq held[p]
    BY <1>2, ShapeStays
  <2>4. (\A p \in Native!Half : Native!Full(p) \/ hdr[p] = Native!Empty)'
           = \A p \in Native!Half : Native!Full(p) \/ hdr[p] = Native!Empty
    BY <1>1, <2>1
  <2> QED  BY <1>1, <1>5, <2>1, <2>2, <2>3, <2>4 DEF HeaderInv
<1> QED  BY <1>1, <1>2, <1>3, <1>4, <1>5, <1>6

\* Neither do the rows.
LEMMA RowsStay ==
  ASSUME UNCHANGED <<shapeVars, rows, recorded, pos, busy, hdr, two>>
  PROVE  RowsKnown' = RowsKnown
<1>1. Kept' = Kept  BY HeaderStays
<1>2. Native!NextRow' = Native!NextRow  BY ShapeStays DEF Native!NextRow
<1> QED  BY <1>1, <1>2, ShapeStays DEF RowsKnown

\* The types, where what the child has is of the right type.
LEMMA TypesStay ==
  ASSUME BackupTypes, UNCHANGED <<shapeVars, rows, active, recorded, up, pos, busy>>,
         reshaping' \in BOOLEAN, reshaping' => reshaping,
         syncMax' \in 0..size, suspendLo' \in Nat, suspendHi' \in Nat,
         pc' \in {"idle", "resume", "suspend", "allow", "wait", "forget", "backup", "header",
                  "lift", "abort", "unlink", "done", "aborted",
                  "down", "restoring", "super", "restored", "refused"},
         pc # "idle",
         progress' \in 0..(size * after), backupPoint' \in 0..(size * before),
         suspendPoint' \in 0..(size * before), part' \in {0, 1}, maxProgress' \in 0..size,
         more' \in {-2, -1, 0, 1},
         hdr' \in [Native!Half -> [lo : 0..(size * before), hi : 0..(size * before)]],
         two' \in BOOLEAN, held' \in [Native!Half -> SUBSET Native!Addr], crashes' \in 0..MaxCrashes
  PROVE  BackupTypes'
<1>1. before' = before /\ after' = after /\ size' = size  BY ShapeStays
<1>2. Native!Most(Native!First, Native!Last)' = Native!Most(Native!First, Native!Last)
      /\ Native!Most(Native!First, Native!Last) = size * after
  <2>1. Native!First' = Native!First /\ Native!Last' = Native!Last  BY ShapeStays
  <2>2. Native!Most(Native!First, Native!Last)' = Native!Most(Native!First, Native!Last)
    BY <2>1 DEF Native!Most
  <2> QED  BY <2>2, Names
<1>3. Native!TypeOK'
  <2>1. rows' \in [Native!Row' -> {"old", "new", "lost"}]
        /\ active' \in BOOLEAN /\ up' \in BOOLEAN /\ reshaping' \in BOOLEAN /\ busy' \in BOOLEAN
        /\ syncMax' \in 0..size'
    BY <1>1, ShapeStays DEF BackupTypes, Native!TypeOK
  <2>2. recorded' \in 0..(Native!Most(Native!First, Native!Last)')
        /\ pos' \in 0..(Native!Most(Native!First, Native!Last)')
        /\ progress' \in 0..(Native!Most(Native!First, Native!Last)')
    BY <1>2 DEF BackupTypes, Native!TypeOK
  <2>3. hdr' \in [Native!Half' -> [lo : 0..(size * before)', hi : 0..(size * before)']]
        /\ held' \in [Native!Half' -> SUBSET Native!Addr'] /\ part' \in Native!Half'
    <3>1. Native!Half' = Native!Half /\ Native!Addr' = Native!Addr  BY ShapeStays
    <3>2. part' \in Native!Half  BY DEF Native!Half
    <3> QED  BY <1>1, <3>1, <3>2
  <2>4. backupPoint' \in 0..(size * before)' /\ suspendPoint' \in 0..(size * before)'
        /\ maxProgress' \in 0..size'
    BY <1>1
  <2> QED  BY <2>1, <2>2, <2>3, <2>4 DEF Native!TypeOK
<1>4. AtRow(pos)' /\ AtRow(recorded)'  BY <1>1 DEF BackupTypes, AtRow
<1>5. pc' # "idle" => 2 * Native!Blocks' < size'  BY <1>1, ShapeStays DEF BackupTypes
<1> QED  BY <1>1, <1>3, <1>4, <1>5 DEF BackupTypes

\* Where no reshape is recorded, little matters.
LEMMA OverStays ==
  ASSUME BackupInv, ~ active, UNCHANGED <<shapeVars, rows, active, recorded, up, pos>>,
         pc' \notin Restarting, pc' = "idle" <=> pc = "idle", pc = "idle" => hdr' = hdr
  PROVE  BackupInv'
<1>1. Native!Complete(rows, recorded)' = Native!Complete(rows, recorded)
  BY ShapeStays DEF Native!Complete
<1>2. Restarting' = Restarting  BY DEF Restarting
<1>3. /\ Native!First' = Native!First /\ Native!Last' = Native!Last /\ Native!Half' = Native!Half
      /\ pc = "idle" => \A p : Native!Full(p)' = Native!Full(p)
  BY ShapeStays DEF Native!Full
<1> QED  BY <1>1, <1>2, <1>3 DEF BackupInv

\* A step of the child that leaves the driver and the backup alone is a matter of ChildInv.
LEMMA ChildMoves ==
  ASSUME BackupTypes, BackupInv,
         UNCHANGED <<shapeVars, rows, active, recorded, up, pos, busy, hdr, two, held>>,
         pc \notin Restarting, pc' \notin Restarting, pc # "idle", pc' # "idle",
         active => ChildInv'
  PROVE  BackupInv'
<1>1. CASE ~ active  BY <1>1, OverStays
<1>2. CASE active
  <2>1. RowsKnown' /\ HeaderInv'  BY <1>2, RowsStay, HeaderStays, RunningAt
  <2>2. up  BY <1>2, RunningAt
  <2>3. RestartInv'  BY <2>2 DEF RestartInv, Restarting
  <2> QED  BY <1>2, <2>1, <2>3 DEF BackupInv
<1> QED  BY <1>1, <1>2 DEF BackupTypes, Native!TypeOK

-----------------------------------------------------------------------------
(* The invariant, step by step: the driver.                                 *)

\* What a step of the driver leaves alone.
LEMMA DriverLeaves ==
  ASSUME UNCHANGED shapeVars, UNCHANGED Native!childVars, UNCHANGED Native!backupVars,
         UNCHANGED crashes
  PROVE  /\ pc' = pc /\ progress' = progress /\ backupPoint' = backupPoint
         /\ suspendPoint' = suspendPoint /\ part' = part /\ maxProgress' = maxProgress /\ more' = more
         /\ hdr' = hdr /\ two' = two /\ held' = held
         /\ Native!BackupRange' = Native!BackupRange /\ Native!CanBackup' = Native!CanBackup
         /\ \A p : Native!Full(p)' = Native!Full(p)
         /\ Watching' = Watching /\ Restarting' = Restarting /\ Stopping' = Stopping
<1>1. /\ pc' = pc /\ progress' = progress /\ backupPoint' = backupPoint
      /\ suspendPoint' = suspendPoint /\ part' = part /\ maxProgress' = maxProgress /\ more' = more
      /\ hdr' = hdr /\ two' = two /\ held' = held
  BY DEF Native!childVars, Native!backupVars
<1>2. Native!BackupRows' = Native!BackupRows
  BY <1>1, ShapeStays DEF Native!BackupRows, Native!Least, Native!Most
<1>3. Native!BackupRange' = Native!BackupRange  BY <1>2, ShapeStays DEF Native!BackupRange
<1>4. \A p : Native!Full(p)' = Native!Full(p)  BY <1>1, HeaderStays
<1>5. Native!CanBackup' = Native!CanBackup  BY <1>1, <1>2, <1>4, ShapeStays DEF Native!CanBackup
<1>6. Watching' = Watching /\ Restarting' = Restarting /\ Stopping' = Stopping
  BY <1>1 DEF Watching, Restarting, Stopping
<1> QED  BY <1>1, <1>3, <1>4, <1>5, <1>6

\* A step of the driver: what is to be shown of it.
LEMMA DriverKeeps ==
  ASSUME BackupTypes, BackupInv, active, active', up, up' = up, BackupTypes',
         UNCHANGED shapeVars, UNCHANGED Native!childVars, UNCHANGED Native!backupVars,
         UNCHANGED <<suspendLo, suspendHi, crashes>>,
         RowsKnown', HeaderInv',
         pos' # Native!Last => pos # Native!Last,
         Native!Same /\ SlidingInv => SlidingInv',
         ~ Native!Same /\ Advancing /\ GrowingInv => GrowingInv',
         ~ Native!Same /\ ~ Advancing /\ ShrinkingInv => ShrinkingInv',
         Free => Free'
  PROVE  BackupInv'
<1>1. ChildInv /\ RestartInv /\ pc # "idle" /\ pc \notin Restarting  BY RunningAt
<1>2. SuspendedInv => SuspendedInv'
  <2>1. \A h : Native!Range(h)' = Native!Range(h)  BY ShapeStays
  <2>2. Native!Range(Native!BackupRange)' = Native!Range(Native!BackupRange)
    BY DriverLeaves, ShapeStays DEF Native!Range
  <2> QED  BY <2>2, DriverLeaves, ShapeStays DEF SuspendedInv
<1>3. Native!Backed' = Native!Backed  BY DriverLeaves, HeaderStays
<1>4. ChildInv'
  BY <1>1, <1>2, <1>3, DriverLeaves, ShapeStays DEF ChildInv
<1>5. RestartInv'  BY <1>1, DriverLeaves DEF RestartInv, Restarting
<1> QED  BY <1>1, <1>4, <1>5, DriverLeaves DEF BackupInv

\* The row that is written is spared, or what it held was moved and the devices say so.
LEMMA BeginRowKeeps ==
  ASSUME BackupTypes, BackupInv, Native!BeginRow,
         UNCHANGED Native!childVars, UNCHANGED Native!backupVars, UNCHANGED crashes
  PROVE  BackupTypes' /\ BackupInv'
<1> DEFINE r == Native!NextRow
<1>1. /\ up /\ reshaping /\ ~ busy /\ pos # Native!Last /\ Native!Done(pos) < syncMax
      /\ busy' = TRUE /\ rows' = [rows EXCEPT ![r] = "lost"]
      /\ UNCHANGED shapeVars
      /\ UNCHANGED <<active, recorded, up, reshaping, pos, syncMax, suspendLo, suspendHi>>
  BY DEF Native!BeginRow, Native!StartRow, Native!shapeVars, shapeVars, Native!suspVars
<1>2. Native!Critical(r) \/ \A a \in Native!Overwrites(r) : Native!Moved(a, recorded)
  BY DEF Native!BeginRow
<1>3. active  BY <1>1 DEF BackupTypes
<1>4. /\ r \in Native!Row /\ PosOf(r) = pos
      /\ \A a \in Native!Addr : Native!NewRow(a) = r => ~ Native!Moved(a, pos)
  BY <1>1, NextIs
<1>5. Spares(r)  BY <1>1, <1>3, NextIsSpared
<1>6. RowsKnown /\ HeaderInv  BY <1>3, RunningAt
<1>7. r' = r  BY <1>1, ShapeStays DEF Native!NextRow
<1>8. rows \in [Native!Row -> {"old", "new", "lost"}]  BY DEF BackupTypes, Native!TypeOK
<1> HIDE DEF r
<1>9. RowsKnown'
  <2>1. Kept' = Kept  BY <1>1, DriverLeaves, HeaderStays
  <2>2. rows'[r] = "lost" /\ \A x \in Native!Row : x # r => rows'[x] = rows[x]
    BY <1>1, <1>4, <1>8
  <2>3. busy' => pos' # Native!Last' /\ rows'[Native!NextRow'] = "lost"
    BY <1>1, <1>7, <2>2, ShapeStays DEF r
  <2>4. ASSUME NEW a \in Native!Addr, Native!Moved(a, pos)
        PROVE  rows'[Native!NewRow(a)] = "new"
    <3>1. Native!NewRow(a) # r /\ Native!NewRow(a) \in Native!Row  BY <1>4, <2>4, Places
    <3> QED  BY <1>6, <2>2, <2>4, <3>1 DEF RowsKnown
  <2>5. ASSUME NEW a \in Native!Addr, a \notin Kept, ~ Native!Moved(a, recorded)
        PROVE  rows'[Native!OldRow(a)] = "old"
    <3>1. Native!OldRow(a) # r
      <4> SUFFICES ASSUME Native!OldRow(a) = r PROVE FALSE  OBVIOUS
      <4>1. a \in Native!Overwrites(r)  BY DEF Native!Overwrites
      <4>2. Native!Critical(r)  BY <1>2, <2>5, <4>1
      <4>3. PICK x \in Native!Addr : Native!OldRow(x) = r /\ ~ Native!Moved(x, pos)
        BY <4>2 DEF Native!Critical, Native!Overwrites
      <4> QED  BY <1>4, <1>5, <2>5, <4>3 DEF Spares
    <3>2. Native!OldRow(a) \in Native!Row  BY Places
    <3> QED  BY <1>6, <2>2, <2>5, <3>1, <3>2 DEF RowsKnown
  <2>6. (IF Advancing THEN recorded <= pos ELSE pos <= recorded)'  BY <1>1, <1>6, ShapeStays DEF RowsKnown
  <2> QED  BY <1>1, <2>1, <2>3, <2>4, <2>5, <2>6, ShapeStays DEF RowsKnown
<1>10. HeaderInv'  BY <1>1, <1>6, DriverLeaves, HeaderStays
<1>11. BackupTypes'
  <2>1. rows' \in [Native!Row -> {"old", "new", "lost"}]  BY <1>1, <1>8
  <2>2. /\ Native!Row' = Native!Row /\ Native!Half' = Native!Half /\ Native!Addr' = Native!Addr
        /\ Native!Most(Native!First, Native!Last)' = Native!Most(Native!First, Native!Last)
        /\ before' = before /\ after' = after /\ size' = size
    BY <1>1, ShapeStays DEF Native!Most
  <2>3. Native!TypeOK'  BY <1>1, <2>1, <2>2, DriverLeaves DEF BackupTypes, Native!TypeOK
  <2> QED  BY <1>1, <1>3, <2>2, <2>3, DriverLeaves, ShapeStays DEF BackupTypes, AtRow
<1>12. /\ Driven \in Nat /\ pos = Driven * after /\ syncMax \in Nat /\ size \in Nat /\ pos \in Nat
       /\ backupPoint \in Nat /\ Driven <= size /\ AtRow(pos) /\ after \in Nat \ {0}
  BY Positions DEF BackupTypes
<1>13. /\ Native!Done(pos) = (IF Advancing THEN Driven ELSE size - Driven)
       /\ Native!Last = (IF Advancing THEN size * after ELSE 0)
       /\ (Native!Same => Advancing)
  BY Names DEF Driven, Native!Same, BackupTypes
<1>14. ASSUME Native!Same, SlidingInv PROVE SlidingInv'
  <2>1. pos < backupPoint
    <3>1. (Driven + 1) * after <= syncMax * after /\ (Driven + 1) * after = pos + after
          /\ syncMax * after \in Nat
      <4>1. Driven + 1 \in Nat /\ Driven + 1 <= syncMax  BY <1>1, <1>12, <1>13, <1>14
      <4> QED  BY <1>12, <4>1, Times
    <3>2. syncMax * after <= backupPoint  BY <1>14 DEF SlidingInv
    <3> QED  BY <1>12, <3>1, <3>2
  <2> QED  BY <1>1, <1>14, <2>1, DriverLeaves, ShapeStays DEF SlidingInv, AtRow
<1>15. ASSUME ~ Native!Same, Advancing, GrowingInv PROVE GrowingInv'
  <2>1. part # 0  BY <1>1, <1>12, <1>13, <1>15 DEF GrowingInv
  <2>2. part = 1  BY <2>1, Positions
  <2>3. backupPoint = Native!BackupBlocks  BY <1>15, <2>2, UnitIs DEF GrowingInv
  <2>4. Native!Full(0) => pos < backupPoint
    <3>1. Native!Full(0) => Driven < Room  BY <1>1, <1>12, <1>13, <1>15, UnitIs DEF GrowingInv
    <3>2. Driven < Room => pos < Native!BackupBlocks  BY <1>12, UnitIs, AtRowsAre DEF Driven, Room
    <3> QED  BY <2>3, <3>1, <3>2
  <2> QED  BY <1>1, <1>15, <2>2, <2>4, DriverLeaves, ShapeStays DEF GrowingInv
<1>16. ASSUME ~ Native!Same, ~ Advancing, ShrinkingInv PROVE ShrinkingInv'
  <2>1. part = 0 => pos > Native!BackupBlocks
    <3> SUFFICES ASSUME part = 0 PROVE pos > Native!BackupBlocks  OBVIOUS
    <3>1. size - syncMax >= Room  BY <1>1, <1>13, <1>16 DEF ShrinkingInv
    <3>2. Room < Driven  BY <1>1, <1>12, <1>13, <1>16, <3>1, UnitIs
    <3>3. Native!BackupBlocks < pos  BY <1>12, <3>2, UnitIs, AtRowsAre DEF Driven, Room
    <3> QED  BY <1>12, <3>3, UnitIs
  <2> QED  BY <1>1, <1>16, <2>1, DriverLeaves, ShapeStays DEF ShrinkingInv
<1>17. Free => Free'  BY <1>1, ShapeStays DEF Free
<1> QED  BY <1>1, <1>3, <1>9, <1>10, <1>11, <1>14, <1>15, <1>16, <1>17, DriverKeeps

\* The row that was written is new.
LEMMA RowDoneKeeps ==
  ASSUME BackupTypes, BackupInv, Native!EndRow,
         UNCHANGED Native!childVars, UNCHANGED Native!backupVars, UNCHANGED crashes
  PROVE  BackupTypes' /\ BackupInv'
<1> DEFINE r == Native!NextRow
           n == IF Advancing THEN pos + after ELSE pos - after
<1>1. /\ up /\ busy /\ busy' = FALSE /\ rows' = [rows EXCEPT ![r] = "new"] /\ pos' = n
      /\ UNCHANGED shapeVars
      /\ UNCHANGED <<active, recorded, up, reshaping, syncMax, suspendLo, suspendHi>>
  BY Names DEF Native!EndRow, Native!shapeVars, shapeVars, Native!suspVars
<1>2. active  BY <1>1 DEF BackupTypes
<1>3. RowsKnown /\ HeaderInv  BY <1>2, RunningAt
<1>4. pos # Native!Last /\ rows[r] = "lost"  BY <1>1, <1>3 DEF RowsKnown
<1>5. /\ r \in Native!Row
      /\ n \in Nat /\ n <= size * after /\ AtRow(n)
      /\ n \div after = (IF Advancing THEN Driven + 1 ELSE Driven - 1)
      /\ \A a \in Native!Addr :
            Native!Moved(a, n) <=> Native!Moved(a, pos) \/ Native!NewRow(a) = r
  BY <1>4, NextIs
<1>6. rows \in [Native!Row -> {"old", "new", "lost"}]  BY DEF BackupTypes, Native!TypeOK
<1>7. /\ pos \in Nat /\ recorded \in Nat /\ backupPoint \in Nat /\ AtRow(pos) /\ after \in Nat \ {0}
      /\ AtRow(0)
  BY Positions DEF BackupTypes
<1> HIDE DEF r
<1>8. IF Advancing THEN recorded <= n ELSE n <= recorded  BY <1>3, <1>7 DEF RowsKnown
<1> HIDE DEF n
<1>9. RowsKnown'
  <2>1. Kept' = Kept  BY <1>1, DriverLeaves, HeaderStays
  <2>2. rows'[r] = "new" /\ \A x \in Native!Row : x # r => rows'[x] = rows[x]
    BY <1>1, <1>5, <1>6
  <2>3. ASSUME NEW a \in Native!Addr, Native!Moved(a, n)
        PROVE  rows'[Native!NewRow(a)] = "new"
    <3>1. Native!NewRow(a) \in Native!Row  BY Places
    <3> QED  BY <1>3, <1>5, <2>2, <2>3, <3>1 DEF RowsKnown
  <2>4. ASSUME NEW a \in Native!Addr, a \notin Kept, ~ Native!Moved(a, recorded)
        PROVE  rows'[Native!OldRow(a)] = "old"
    <3>1. rows[Native!OldRow(a)] = "old"  BY <1>3, <2>4 DEF RowsKnown
    <3>2. Native!OldRow(a) # r  BY <1>4, <3>1
    <3>3. Native!OldRow(a) \in Native!Row  BY Places
    <3> QED  BY <2>2, <3>1, <3>2, <3>3
  <2>5. (IF Advancing THEN recorded <= pos ELSE pos <= recorded)'  BY <1>1, <1>8, ShapeStays
  <2> QED  BY <1>1, <2>1, <2>3, <2>4, <2>5, ShapeStays DEF RowsKnown
<1>10. HeaderInv'  BY <1>1, <1>3, DriverLeaves, HeaderStays
<1>11. BackupTypes'
  <2>1. rows' \in [Native!Row -> {"old", "new", "lost"}]  BY <1>1, <1>6
  <2>2. /\ Native!Row' = Native!Row /\ Native!Half' = Native!Half /\ Native!Addr' = Native!Addr
        /\ Native!Most(Native!First, Native!Last)' = Native!Most(Native!First, Native!Last)
        /\ before' = before /\ after' = after /\ size' = size
    BY <1>1, ShapeStays DEF Native!Most
  <2>3. pos' \in 0..Native!Most(Native!First, Native!Last)  BY <1>1, <1>5, Names
  <2>4. Native!TypeOK'  BY <1>1, <2>1, <2>2, <2>3, DriverLeaves DEF BackupTypes, Native!TypeOK
  <2>5. AtRow(pos)' /\ AtRow(recorded)'  BY <1>1, <1>5, <2>2 DEF BackupTypes, AtRow
  <2> QED  BY <1>1, <1>2, <2>2, <2>4, <2>5, DriverLeaves, ShapeStays DEF BackupTypes
<1>12. ASSUME NEW p \in Nat, AtRow(p)
       PROVE  /\ Advancing /\ pos < p => n <= p
              /\ ~ Advancing /\ p < pos => p <= n
  BY <1>7, <1>12, AtRowsAre DEF n
<1>13. ASSUME Native!Same, SlidingInv PROVE SlidingInv'
  <2>1. Advancing  BY <1>13, Names DEF Native!Same, BackupTypes
  <2>2. n <= backupPoint  BY <1>1, <1>7, <1>12, <1>13, <2>1 DEF SlidingInv
  <2> QED  BY <1>1, <1>13, <2>2, DriverLeaves, ShapeStays DEF SlidingInv, AtRow
<1>14. ASSUME ~ Native!Same, Advancing, GrowingInv PROVE GrowingInv'
  <2>1. part = 1  BY <1>1, <1>14, Positions DEF GrowingInv
  <2>2. backupPoint = Native!BackupBlocks  BY <1>14, <2>1, UnitIs DEF GrowingInv
  <2>3. Native!Full(0) => n <= backupPoint
    BY <1>1, <1>7, <1>12, <1>14, <2>2, UnitIs DEF GrowingInv
  <2> QED  BY <1>1, <1>14, <2>1, <2>3, DriverLeaves, ShapeStays DEF GrowingInv
<1>15. ASSUME ~ Native!Same, ~ Advancing, ShrinkingInv PROVE ShrinkingInv'
  <2>1. part = 0 => n >= Native!BackupBlocks
    <3>1. part = 0 => Native!BackupBlocks < pos  BY <1>1, <1>7, <1>15, UnitIs DEF ShrinkingInv
    <3>2. part = 0 => Native!BackupBlocks <= n  BY <1>12, <1>15, <3>1, UnitIs
    <3> QED  BY <1>5, <3>2, UnitIs
  <2>2. part = 0 => size - syncMax >= Room
    <3>1. pos # 0  BY <1>4, <1>15, Names
    <3> QED  BY <1>15, <3>1 DEF ShrinkingInv
  <2> QED  BY <1>1, <1>15, <2>1, <2>2, DriverLeaves, ShapeStays DEF ShrinkingInv
<1>16. Free => Free'  BY <1>1, <1>4, ShapeStays DEF Free
<1> QED
  BY <1>1, <1>2, <1>4, <1>9, <1>10, <1>11, <1>13, <1>14, <1>15, <1>16, DriverKeeps

\* The devices say where the driver is.
LEMMA CheckpointKeeps ==
  ASSUME BackupTypes, BackupInv, Native!Checkpoint,
         UNCHANGED Native!childVars, UNCHANGED Native!backupVars, UNCHANGED crashes
  PROVE  BackupTypes' /\ BackupInv'
<1>1. /\ up /\ reshaping /\ ~ busy /\ recorded' = pos
      /\ UNCHANGED shapeVars
      /\ UNCHANGED <<rows, active, up, reshaping, pos, busy, syncMax, suspendLo, suspendHi>>
  BY DEF Native!Checkpoint, Native!shapeVars, shapeVars, Native!suspVars, Native!driveVars
<1>2. active  BY <1>1 DEF BackupTypes
<1>3. RowsKnown /\ HeaderInv  BY <1>2, RunningAt
<1>4. IF Advancing THEN recorded <= pos ELSE pos <= recorded  BY <1>3 DEF RowsKnown
<1>5. /\ pos \in Nat /\ recorded \in Nat /\ progress \in Nat /\ AtRow(pos)
      /\ Native!BackupBlocks \in Nat \ {0} /\ part \in {0, 1}
  BY Positions, UnitIs DEF BackupTypes
<1>6. RowsKnown'
  <2>1. Kept' = Kept  BY <1>1, DriverLeaves, HeaderStays
  <2>2. ASSUME NEW a \in Native!Addr, a \notin Kept, ~ Native!Moved(a, pos)
        PROVE  rows[Native!OldRow(a)] = "old"
    <3>1. ~ Native!Moved(a, recorded)  BY <1>4, <1>5, <2>2, Names, Places
    <3> QED  BY <1>3, <2>2, <3>1 DEF RowsKnown
  <2>3. (IF Advancing THEN recorded <= pos ELSE pos <= recorded)'  BY <1>1, <1>5, ShapeStays
  <2>4. Native!NextRow' = Native!NextRow  BY <1>1, ShapeStays DEF Native!NextRow
  <2> QED  BY <1>1, <1>3, <2>1, <2>2, <2>3, <2>4, ShapeStays DEF RowsKnown
<1>7. BackupTypes'
  <2>1. /\ Native!Row' = Native!Row /\ Native!Half' = Native!Half /\ Native!Addr' = Native!Addr
        /\ Native!Most(Native!First, Native!Last)' = Native!Most(Native!First, Native!Last)
        /\ before' = before /\ after' = after /\ size' = size
    BY <1>1, ShapeStays DEF Native!Most
  <2>2. Native!TypeOK'  BY <1>1, <2>1, DriverLeaves DEF BackupTypes, Native!TypeOK
  <2> QED  BY <1>1, <1>2, <2>1, <2>2, DriverLeaves, ShapeStays DEF BackupTypes, AtRow
<1>8. \/ /\ pc \in Watching \/ Stopping
         /\ IF Native!Same THEN SlidingInv ELSE IF Advancing THEN GrowingInv ELSE ShrinkingInv
      \/ Free
  BY <1>1, <1>2, RunningAt
<1>9. ~ Native!Same /\ hdr[0] = Native!Empty => pos = 0 \/ pos >= Native!BackupBlocks
  <2> SUFFICES ASSUME ~ Native!Same, hdr[0] = Native!Empty
               PROVE  pos = 0 \/ pos >= Native!BackupBlocks
    OBVIOUS
  <2>1. ~ Native!Full(0)  BY <1>3, KeptIs
  <2>2. CASE Advancing /\ GrowingInv
    <3>1. part = 0 \/ (progress >= Native!BackupBlocks /\ progress <= recorded)
      BY <1>5, <2>1, <2>2 DEF GrowingInv
    <3> QED  BY <1>4, <1>5, <2>2, <3>1 DEF GrowingInv
  <2>3. CASE ~ Advancing /\ ShrinkingInv
    <3>1. part = 0 \/ (progress = 0 /\ progress >= recorded)  BY <1>5, <2>1, <2>3 DEF ShrinkingInv
    <3> QED  BY <1>4, <1>5, <2>3, <3>1 DEF ShrinkingInv
  <2>4. CASE Free
    <3>1. Advancing /\ recorded >= Native!BackupBlocks  BY <2>4 DEF Free
    <3> QED  BY <1>4, <1>5, <3>1
  <2> QED  BY <1>8, <2>2, <2>3, <2>4
<1>10. Native!Usable' =>
           /\ Native!Usable
           /\ Native!Covered.lo <= pos /\ pos <= Native!Covered.hi
  <2> SUFFICES ASSUME Native!Usable'
               PROVE  Native!Usable /\ Native!Covered.lo <= pos /\ pos <= Native!Covered.hi
    OBVIOUS
  <2>1. Native!Backed' = Native!Backed /\ Native!Half' = Native!Half
        /\ hdr' = hdr /\ two' = two /\ Native!Advancing' = Native!Advancing
    BY <1>1, DriverLeaves, HeaderStays, ShapeStays
  <2>2. Native!Backed # {}  BY <2>1 DEF Native!Usable
  <2>3. PICK p \in {0, 1} : /\ p = 1 => two
                            /\ IF Advancing THEN ~ hdr[p].hi < pos ELSE ~ hdr[p].lo >= pos
    BY <1>1, <2>1, Names DEF Native!Usable, Native!NotNeeded, Native!Half
  <2>4. hdr[p].lo \in Nat /\ hdr[p].hi \in Nat  BY <1>3, KeptIs
  <2>5. IF Advancing THEN ~ hdr[p].hi < recorded ELSE ~ hdr[p].lo >= recorded
    BY <1>4, <1>5, <2>3, <2>4
  <2>6. ~ Native!NotNeeded  BY <2>3, <2>5, Names DEF Native!NotNeeded, Native!Half
  <2>7. Native!Usable  BY <2>2, <2>6 DEF Native!Usable
  <2> DEFINE l == Native!Covered.lo
             u == Native!Covered.hi
  <2>8. /\ l \in Nat /\ u \in Nat /\ l < u /\ l <= recorded /\ recorded <= u
        /\ ~ Advancing => l = 0
        /\ ~ Native!Same => l = 0 /\ u = Native!BackupBlocks
    BY <1>3, <2>7, Hull
  <2> HIDE DEF l, u
  <2>9. CASE ~ Advancing  BY <1>4, <1>5, <2>7, <2>8, <2>9 DEF l, u
  <2>10. CASE Advancing
    <3>1. hdr[p].hi <= u
      <4>1. CASE Native!Full(p)
        <5>1. p \in Native!Backed  BY <1>3, <4>1, KeptIs
        <5>2. \A q \in Native!Backed : hdr[q].hi <= u  BY <1>3, <2>7, HighestIs DEF u
        <5> QED  BY <5>1, <5>2
      <4>2. CASE ~ Native!Full(p)
        <5>1. hdr[p].hi = 0  BY <1>3, <4>2, KeptIs
        <5> QED  BY <2>8, <5>1
      <4> QED  BY <4>1, <4>2
    <3>2. pos <= hdr[p].hi  BY <1>5, <2>3, <2>4, <2>10
    <3>3. l <= pos /\ pos <= u  BY <1>4, <1>5, <2>4, <2>8, <2>10, <3>1, <3>2
    <3> QED  BY <2>7, <3>3 DEF l, u
  <2> QED  BY <2>9, <2>10
<1>11. HeaderInv'
  <2>1. /\ \A p : Native!Full(p)' = Native!Full(p)
        /\ Native!Backed' = Native!Backed /\ Native!Covered' = Native!Covered
    BY <1>1, DriverLeaves, HeaderStays
  <2>2. Native!Usable' =>
            /\ Native!Covered.lo' <= recorded' /\ recorded' <= Native!Covered.hi'
            /\ \A p \in Native!Backed' : Native!Range(hdr[p])' \subseteq held'[p]
    <3>1. Native!Usable => \A p \in Native!Backed : Native!Range(hdr[p]) \subseteq held[p]
      BY <1>3 DEF HeaderInv
    <3>2. \A p : Native!Range(hdr[p])' = Native!Range(hdr[p])
      BY <1>1, DriverLeaves, ShapeStays DEF Native!Range
    <3> QED  BY <1>1, <1>10, <2>1, <3>1, <3>2, DriverLeaves
  <2>3. ~ Native!Same' =>
            /\ ~ two' /\ hdr[1]' = Native!Empty' /\ hdr[0]' \in {Native!Empty', FirstUnit'}
            /\ hdr[0]' = Native!Empty' => recorded' = 0 \/ recorded' >= Native!BackupBlocks'
    BY <1>1, <1>3, <1>9, DriverLeaves, ShapeStays DEF HeaderInv
  <2>4. /\ \A p \in Native!Half' : Native!Full(p)' \/ hdr[p]' = Native!Empty'
        /\ Native!Full(1)' => two'
        /\ Native!Same' => \A p \in Native!Half' : AtRow(hdr[p].lo)' /\ AtRow(hdr[p].hi)'
        /\ Native!Same' /\ Native!Full(0)' /\ Native!Full(1)' =>
               hdr[0].hi' = hdr[1].lo' \/ hdr[1].hi' = hdr[0].lo'
    BY <1>1, <1>3, <2>1, DriverLeaves, ShapeStays DEF HeaderInv, AtRow
  <2> QED  BY <2>2, <2>3, <2>4 DEF HeaderInv
<1>12. ASSUME Native!Same, SlidingInv PROVE SlidingInv'
  <2>1. Advancing  BY <1>12, Names DEF Native!Same, BackupTypes
  <2>2. progress <= pos  BY <1>4, <1>5, <1>12, <2>1 DEF SlidingInv
  <2> QED  BY <1>1, <1>12, <2>2, DriverLeaves, ShapeStays DEF SlidingInv, AtRow
<1>13. ASSUME ~ Native!Same, Advancing, GrowingInv PROVE GrowingInv'
  <2>1. progress <= recorded => progress <= pos  BY <1>4, <1>5, <1>13
  <2> QED  BY <1>1, <1>13, <2>1, DriverLeaves, ShapeStays DEF GrowingInv
<1>14. ASSUME ~ Native!Same, ~ Advancing, ShrinkingInv PROVE ShrinkingInv'
  <2>1. progress >= recorded => progress >= pos  BY <1>4, <1>5, <1>14
  <2> QED  BY <1>1, <1>14, <2>1, DriverLeaves, ShapeStays DEF ShrinkingInv
<1>15. Free => Free'
  <2>1. Advancing /\ recorded >= Native!BackupBlocks => pos >= Native!BackupBlocks  BY <1>4, <1>5
  <2> QED  BY <1>1, <2>1, ShapeStays DEF Free
<1>16. pos' # Native!Last => pos # Native!Last  BY <1>1
<1> QED
  BY <1>1, <1>2, <1>6, <1>7, <1>11, <1>12, <1>13, <1>14, <1>15, <1>16, DriverKeeps

\* When the devices record that it is over, every row is new.
LEMMA FinishReshapeKeeps ==
  ASSUME BackupTypes, BackupInv, Native!FinishReshape,
         UNCHANGED Native!childVars, UNCHANGED Native!backupVars, UNCHANGED crashes
  PROVE  BackupTypes' /\ BackupInv'
<1>1. /\ up /\ reshaping /\ ~ busy /\ pos = Native!Last /\ recorded = pos
      /\ active' = FALSE /\ reshaping' = FALSE
      /\ UNCHANGED shapeVars
      /\ UNCHANGED <<rows, recorded, up, pos, busy, syncMax, suspendLo, suspendHi>>
  BY DEF Native!FinishReshape, Native!shapeVars, shapeVars, Native!suspVars
<1>2. active  BY <1>1 DEF BackupTypes
<1>3. RowsKnown /\ pc # "idle" /\ pc \notin Restarting  BY <1>1, <1>2, RunningAt
<1>4. Native!Complete(rows, recorded)
  <2> SUFFICES ASSUME NEW a \in Native!Addr
               PROVE  Native!Moved(a, recorded) /\ rows[Native!NewRow(a)] = "new"
    BY DEF Native!Complete
  <2>1. Native!Moved(a, pos)  BY <1>1, Names, Places
  <2> QED  BY <1>1, <1>3, <2>1 DEF RowsKnown
<1>5. BackupTypes'
  <2>1. /\ Native!Row' = Native!Row /\ Native!Half' = Native!Half /\ Native!Addr' = Native!Addr
        /\ Native!Most(Native!First, Native!Last)' = Native!Most(Native!First, Native!Last)
        /\ before' = before /\ after' = after /\ size' = size
    BY <1>1, ShapeStays DEF Native!Most
  <2>2. Native!TypeOK'  BY <1>1, <2>1, DriverLeaves DEF BackupTypes, Native!TypeOK
  <2>3. ~ busy'  BY <1>1
  <2> QED  BY <1>1, <2>1, <2>2, <2>3, DriverLeaves, ShapeStays DEF BackupTypes, AtRow
<1>6. Native!Complete(rows, recorded)'  BY <1>1, <1>4, ShapeStays DEF Native!Complete
<1>7. Native!Last' = Native!Last  BY <1>1, ShapeStays
<1> QED  BY <1>1, <1>3, <1>5, <1>6, <1>7, DriverLeaves DEF BackupInv

-----------------------------------------------------------------------------
(* The invariant, step by step: the child of mdadm --grow.                  *)

\* Every address is some.
LEMMA SomeAddress ==
  ASSUME BackupTypes
  PROVE  0 \in Native!Addr
<1>1. Native!Total = size * (IF before <= after THEN before ELSE after)
  BY DEF Native!Total, Native!Least
<1>2. Native!Total \in Nat \ {0}  BY <1>1, Names DEF BackupTypes
<1> QED  BY <1>2 DEF Native!Addr

\* A reshape starts at p, where everything is what position p says: nothing is in the
\* backup, and the driver has nothing to do.
LEMMA LaunchKeeps ==
  ASSUME BackupTypes, Cautious, NEW p \in Nat, p <= size * after, AtRow(p), ~ busy,
         2 * Native!Blocks < size, Native!Complete(rows, p), Native!Launch(p),
         after > before => p = 0,
         after < before => p = 0 \/ p >= Native!BackupBlocks
  PROVE  BackupTypes' /\ BackupInv'
<1> USE DEF BackupTypes
<1>1. /\ hdr' = [q \in Native!Half |-> Native!Empty] /\ two' = FALSE
      /\ held' = [q \in Native!Half |-> {}]
      /\ active' = TRUE /\ recorded' = p /\ pos' = p
      /\ up' = TRUE /\ reshaping' = TRUE /\ suspendLo' = p /\ suspendHi' = p
      /\ pc' = "resume" /\ progress' = p /\ part' = 0 /\ maxProgress' = 0 /\ more' = 0
      /\ UNCHANGED shapeVars
      /\ UNCHANGED <<rows, busy, crashes>>
  BY DEF Native!Launch, Native!WipeBackup, Native!shapeVars, shapeVars
<1>2. /\ syncMax' = Native!Done(p)
      /\ backupPoint' = (IF Advancing THEN p ELSE Native!BackupBlocks)
      /\ suspendPoint' = (IF Advancing THEN 0 ELSE size * before)
  BY Names DEF Native!Launch, Cautious
<1>3. /\ before' = before /\ after' = after /\ size' = size
      /\ Native!Row' = Native!Row /\ Native!Half' = Native!Half /\ Native!Addr' = Native!Addr
      /\ Native!Last' = Native!Last /\ Native!Empty' = Native!Empty
      /\ Native!Same' = Native!Same /\ Advancing' = Advancing /\ Native!Advancing' = Native!Advancing
      /\ Native!BackupBlocks' = Native!BackupBlocks /\ Room' = Room /\ Native!Blocks' = Native!Blocks
      /\ Native!Most(Native!First, Native!Last)' = Native!Most(Native!First, Native!Last)
  BY <1>1, ShapeStays DEF Native!Most
<1>4. /\ (Advancing <=> after >= before) /\ (Native!Same <=> before = after)
      /\ Native!Done(p) = (IF Advancing THEN p \div after ELSE size - p \div after)
      /\ Native!Most(Native!First, Native!Last) = size * after
      /\ size * before \in Nat \ {0} /\ size * after \in Nat
  BY Names DEF Native!Same
<1>5. p \div after \in Nat /\ p \div after <= size /\ p = (p \div after) * after
      /\ AtRow(size * after) /\ (size * after) \div after = size /\ AtRow(0)
  BY AtRowIs, AtRowsAre, Positions
<1>6. Native!BackupBlocks \in Nat \ {0} /\ Native!BackupBlocks < size * before
      /\ Room \in Nat \ {0} /\ Native!BackupBlocks \div after = Room /\ AtRow(Native!BackupBlocks)
  BY UnitIs, UnitFits DEF Room
<1>7. \A q \in {0, 1} : /\ hdr'[q] = Native!Empty /\ hdr'[q].lo = 0 /\ hdr'[q].hi = 0
                        /\ ~ Native!Full(q)'
  BY <1>1 DEF Native!Half, Native!Empty, Native!Full
<1>8. Native!Backed' = {} /\ Kept' = {} /\ ~ Native!Usable'
  <2>1. Native!Backed' = {}  BY <1>3, <1>7 DEF Native!Backed, Native!Half
  <2> QED  BY <2>1 DEF Kept, Native!Usable
<1>9. syncMax' \in 0..size
  BY <1>2, <1>4, <1>5
<1>10. backupPoint' \in 0..(size * before) /\ suspendPoint' \in 0..(size * before)
  <2>1. CASE Advancing
    <3>1. p <= size * before  BY <1>4, <2>1
    <3> QED  BY <1>2, <1>4, <2>1, <3>1
  <2>2. CASE ~ Advancing  BY <1>2, <1>4, <1>6, <2>2
  <2> QED  BY <2>1, <2>2
<1>11. BackupTypes'
  <2>1. p \in 0..Native!Most(Native!First, Native!Last)  BY <1>4
  <2>2. hdr' \in [Native!Half -> [lo : 0..(size * before), hi : 0..(size * before)]]
    <3>1. Native!Empty \in [lo : 0..(size * before), hi : 0..(size * before)]
      BY <1>4 DEF Native!Empty
    <3> QED  BY <1>1, <3>1
  <2>3. held' \in [Native!Half -> SUBSET Native!Addr] /\ part' \in Native!Half /\ 0 \in 0..size
    BY <1>1 DEF Native!Half
  <2>4. Native!TypeOK'  BY <1>1, <1>3, <1>9, <1>10, <2>1, <2>2, <2>3 DEF Native!TypeOK
  <2>5. AtRow(pos)' /\ AtRow(recorded)'  BY <1>1, <1>3 DEF AtRow
  <2> QED  BY <1>1, <1>3, <2>4, <2>5
<1>12. RowsKnown'
  <2>1. \A a \in Native!Addr :
            IF Native!Moved(a, p) THEN rows[Native!NewRow(a)] = "new" ELSE rows[Native!OldRow(a)] = "old"
    BY DEF Native!Complete
  <2>2. (IF Advancing THEN recorded <= pos ELSE pos <= recorded)'  BY <1>1
  <2> QED  BY <1>1, <1>3, <1>8, <2>1, <2>2, ShapeStays DEF RowsKnown
<1>13. HeaderInv'
  <2>1. AtRow(0)'  BY <1>3, <1>5 DEF AtRow
  <2>2. \A q \in Native!Half' : hdr'[q] = Native!Empty' /\ hdr'[q].lo = 0 /\ hdr'[q].hi = 0
    BY <1>3, <1>7 DEF Native!Half
  <2>3. Native!Same' => \A q \in Native!Half' : AtRow(hdr[q].lo)' /\ AtRow(hdr[q].hi)'
    BY <2>1, <2>2 DEF AtRow
  <2>4. ~ Native!Same' => recorded' = 0 \/ recorded' >= Native!BackupBlocks'
    BY <1>1, <1>3, <1>4
  <2>5. ~ Native!Full(0)' /\ ~ Native!Full(1)'  BY <1>7
  <2>6. hdr[1]' = Native!Empty' /\ hdr[0]' = Native!Empty'  BY <2>2, <1>3 DEF Native!Half
  <2> QED  BY <1>1, <1>8, <2>2, <2>3, <2>4, <2>5, <2>6 DEF HeaderInv
<1>14. ~ Native!Full(0)' /\ ~ Native!Full(1)' /\ (\A q \in Native!Half' : hdr[q].hi' = 0)
       /\ hdr[0]' = Native!Empty'
  BY <1>3, <1>7 DEF Native!Half
<1>15. ASSUME Native!Same PROVE SlidingInv'
  <2>1. backupPoint' = p /\ syncMax' = p \div after  BY <1>2, <1>4, <1>15
  <2>2. AtRow(backupPoint)'  BY <1>3, <2>1 DEF AtRow
  <2>3. syncMax' * after' = p  BY <1>3, <1>5, <2>1
  <2>4. ~ Native!Full(1 - part)'  BY <1>1, <1>14 DEF Native!Full
  <2> QED  BY <1>1, <1>14, <2>1, <2>2, <2>3, <2>4 DEF SlidingInv
<1>16. ASSUME ~ Native!Same, Advancing PROVE GrowingInv'
  <2>1. p = 0 /\ syncMax' = 0 /\ backupPoint' = 0  BY <1>2, <1>4, <1>5, <1>16, Positions
  <2>2. backupPoint' = part' * Native!BackupBlocks'  BY <1>1, <1>3, <1>6, <2>1
  <2> QED  BY <1>1, <1>14, <2>1, <2>2 DEF GrowingInv
<1>17. ASSUME ~ Native!Same, ~ Advancing PROVE ShrinkingInv'
  <2>1. p = 0 \/ p >= Native!BackupBlocks  BY <1>4, <1>17
  <2>2. backupPoint' = (1 - part') * Native!BackupBlocks'  BY <1>1, <1>2, <1>3, <1>6, <1>17
  <2>3. p = 0 \/ size' - syncMax' >= Room'
    <3>1. p >= Native!BackupBlocks => p \div after >= Room  BY <1>6, AtRowsAre
    <3>2. size - syncMax' = p \div after  BY <1>2, <1>4, <1>5, <1>17
    <3> QED  BY <1>3, <2>1, <3>1, <3>2
  <2> QED  BY <1>1, <1>3, <1>14, <2>1, <2>2, <2>3 DEF ShrinkingInv
<1>18. SuspendedInv'
  <2>1. Native!Same \/ Advancing => suspendPoint' = 0
    BY <1>2, <1>4
  <2>2. ~ Advancing => suspendPoint' = (size * before)' /\ suspendPoint' # 0
    BY <1>2, <1>3, <1>4
  <2> QED  BY <1>1, <1>3, <1>14, <2>1, <2>2 DEF SuspendedInv
<1>19. ChildInv'
  <2>1. IF Native!Same' THEN SlidingInv' ELSE IF Advancing' THEN GrowingInv' ELSE ShrinkingInv'
    BY <1>3, <1>15, <1>16, <1>17
  <2> QED  BY <1>1, <1>18, <2>1 DEF ChildInv, Watching, Stopping
<1>20. RestartInv'  BY <1>1 DEF RestartInv, Restarting
<1> QED  BY <1>1, <1>11, <1>12, <1>13, <1>19, <1>20 DEF BackupInv

\* mdadm --grow.
LEMMA GrowStarts ==
  ASSUME BackupTypes, BackupInv, Cautious, Native!Grow
  PROVE  BackupTypes' /\ BackupInv'
<1>1. pc = "idle" /\ 2 * Native!Blocks < size /\ Native!Launch(Native!First)  BY DEF Native!Grow
<1>2. ~ active  BY <1>1 DEF BackupInv
<1>3. recorded = pos /\ Native!Complete(rows, recorded) /\ pos = Native!First
  BY <1>1, <1>2 DEF BackupInv
<1>4. ~ busy  BY <1>2 DEF BackupTypes
<1>5. Native!First = (IF Advancing THEN 0 ELSE size * after) /\ (Advancing <=> after >= before)
      /\ size * after \in Nat
  BY Names
<1>6. Native!BackupBlocks < size * after /\ Native!BackupBlocks \in Nat  BY <1>1, UnitFits, UnitIs
<1>7. AtRow(0) /\ AtRow(size * after)  BY Positions
<1>8. /\ Native!First \in Nat /\ Native!First <= size * after /\ AtRow(Native!First)
      /\ after > before => Native!First = 0
      /\ after < before => Native!First = 0 \/ Native!First >= Native!BackupBlocks
  BY <1>5, <1>6, <1>7 DEF BackupTypes
<1> QED  BY <1>1, <1>3, <1>4, <1>8, LaunchKeeps

\* The modes say more of some places than of others; the child goes from one to another.
LEMMA ModeStays ==
  ASSUME BackupTypes,
         UNCHANGED <<shapeVars, recorded, pos, busy, syncMax, progress, backupPoint, part,
                     maxProgress, hdr>>,
         pc' \in {"allow", "wait"} => pc \in {"allow", "wait"},
         pc' = "forget" => pc = "forget", pc = "forget" => pc' = "forget",
         pc' \in {"backup", "header"} => pc \in {"backup", "header"}
  PROVE  /\ SlidingInv => SlidingInv'
         /\ GrowingInv => GrowingInv'
         /\ ShrinkingInv => ShrinkingInv'
<1>1. \A p : Native!Full(p)' = Native!Full(p)  BY DEF Native!Full
<1>2. SlidingInv => SlidingInv'  BY <1>1, ShapeStays DEF SlidingInv, AtRow
<1>3. GrowingInv => GrowingInv'  BY <1>1, ShapeStays DEF GrowingInv
<1>4. ShrinkingInv => ShrinkingInv'  BY <1>1, ShapeStays DEF ShrinkingInv
<1> QED  BY <1>2, <1>3, <1>4

\* And so does what is suspended.
LEMMA SuspendedStays ==
  ASSUME BackupTypes, SuspendedInv, pc' # "header",
         UNCHANGED <<shapeVars, progress, suspendPoint, suspendLo, suspendHi, hdr>>
  PROVE  SuspendedInv'
<1>1. \A p : Native!Full(p)' = Native!Full(p)  BY DEF Native!Full
<1> QED  BY <1>1, ShapeStays DEF SuspendedInv

\* What is moved is let through.
LEMMA ResumeWritesKeeps ==
  ASSUME BackupTypes, BackupInv, Native!ResumeWrites
  PROVE  BackupTypes' /\ BackupInv'
<1>1. /\ pc = "resume" /\ pc' = "suspend" /\ UNCHANGED shapeVars
      /\ UNCHANGED <<rows, active, recorded, up, reshaping, pos, busy, syncMax>>
      /\ UNCHANGED <<progress, backupPoint, suspendPoint, part, maxProgress, more>>
      /\ UNCHANGED <<hdr, two, held, crashes>>
      /\ Advancing => suspendHi' = suspendHi /\ suspendLo' \in {suspendLo, progress}
      /\ ~ Advancing => suspendLo' = suspendLo
                        /\ suspendHi' = (IF progress >= suspendPoint THEN progress ELSE suspendHi)
  BY Names DEF Native!ResumeWrites, Native!shapeVars, shapeVars, Native!diskVars, Native!driveVars,
               Native!backupVars
<1>2. progress \in Nat /\ suspendLo' \in Nat /\ suspendHi' \in Nat
  BY <1>1, Positions DEF BackupTypes
<1>3. BackupTypes'
  <2>1. progress \in 0..(size * after) /\ backupPoint \in 0..(size * before)
        /\ suspendPoint \in 0..(size * before) /\ maxProgress \in 0..size /\ part \in {0, 1}
    BY Positions, Names
  <2> QED  BY <1>1, <1>2, <2>1, TypesStay DEF BackupTypes, Native!TypeOK
<1>4. active => ChildInv'
  <2> SUFFICES ASSUME active PROVE ChildInv'  OBVIOUS
  <2>1. SuspendedInv /\ IF Native!Same THEN SlidingInv ELSE IF Advancing THEN GrowingInv ELSE ShrinkingInv
    BY <1>1, RunningAt DEF ChildInv, Watching
  <2>2. SuspendedInv'
    <3>1. CASE Advancing
      <4>1. suspendLo' <= progress  BY <1>1, <1>2, <2>1, <3>1 DEF SuspendedInv
      <4> QED  BY <1>1, <2>1, <3>1, <4>1, ShapeStays DEF SuspendedInv
    <3>2. CASE ~ Advancing
      <4>1. ~ Native!Same  BY <3>2, Names DEF Native!Same, BackupTypes
      <4>2. suspendPoint = 0 /\ progress > 0 => suspendHi' >= Native!BackupBlocks
        BY <1>1, <1>2, <2>1, <3>2, <4>1 DEF ShrinkingInv
      <4> QED  BY <1>1, <2>1, <3>2, <4>1, <4>2, HeaderStays, ShapeStays DEF SuspendedInv
    <3> QED  BY <3>1, <3>2
  <2>3. IF Native!Same' THEN SlidingInv' ELSE IF Advancing' THEN GrowingInv' ELSE ShrinkingInv'
    BY <1>1, <2>1, ModeStays, ShapeStays
  <2> QED  BY <1>1, <2>2, <2>3 DEF ChildInv, Watching, Stopping
<1> QED  BY <1>1, <1>3, <1>4, ChildMoves DEF Restarting

\* Rows as far as a position.
LEMMA InRowsIs ==
  ASSUME BackupTypes, NEW p \in Nat
  PROVE  LET r == IF p \div after <= size THEN p \div after ELSE size
         IN  /\ r \in Nat /\ r <= size /\ r * after <= p
             /\ Native!InRows(p) = (IF Advancing THEN r ELSE size - r)
             /\ Native!InRows(p) \in 0..size
<1> DEFINE q == p \div after
           r == IF q <= size THEN q ELSE size
<1>1. q \in Nat /\ q * after <= p  BY Quotient DEF BackupTypes
<1>2. size \in Nat /\ after \in Nat  BY DEF BackupTypes
<1>3. Native!InRows(p) = (IF Advancing THEN r ELSE size - r)
  BY Names DEF Native!InRows, Native!Least
<1> HIDE DEF q
<1>4. r \in Nat /\ r <= size /\ r <= q  BY <1>1, <1>2
<1> HIDE DEF r
<1>5. r * after <= q * after /\ r * after \in Nat /\ q * after \in Nat  BY <1>1, <1>2, <1>4, Times
<1>6. r * after <= p  BY <1>1, <1>5
<1>7. (IF Advancing THEN r ELSE size - r) \in 0..size  BY <1>2, <1>4
<1> QED  BY <1>3, <1>4, <1>6, <1>7 DEF r, q

\* How far the suspended range is to go.
LEMMA SuspendPointIs ==
  ASSUME BackupTypes, pc # "idle"
  PROVE  /\ Native!NextSuspendPoint \in Nat /\ Native!NextSuspendPoint <= size * before
         /\ Native!NeedBackup \in Nat \ {0} /\ Native!NeedBackup <= size * before
         /\ ~ Native!Same => Native!NeedBackup = Native!BackupBlocks
         /\ Native!Same => Native!NeedBackup = size * before
         /\ ~ Native!Extends => Native!NextSuspendPoint = suspendPoint
         /\ Advancing /\ Native!Extends =>
                /\ Native!Same => Native!NextSuspendPoint >= suspendPoint
                /\ ~ Native!Same => Native!NextSuspendPoint = Native!BackupBlocks
         /\ ~ Advancing =>
                /\ Native!Extends => suspendPoint > 0 /\ Native!NextSuspendPoint = 0
<1>1. suspendPoint \in Nat /\ suspendPoint <= size * before /\ size * before \in Nat \ {0}
  BY Positions, Names
<1>2. Native!BackupBlocks \in Nat \ {0} /\ Native!BackupBlocks < size * before  BY UnitIs, UnitFits
<1>3. /\ ~ Native!Same => Native!NeedBackup = Native!BackupBlocks
      /\ Native!Same => Native!NeedBackup = size * before
  BY DEF Native!NeedBackup
<1>4. Native!NeedBackup \in Nat \ {0} /\ Native!NeedBackup <= size * before  BY <1>1, <1>2, <1>3
<1>5. Native!Target \in Nat /\ Native!BackupBlocks <= Native!Target
  <2>1. Slide \in Nat /\ 1 <= Slide  BY SlideAssumption, LargerAssumption
  <2>2. 1 * Native!BackupBlocks <= Slide * Native!BackupBlocks /\ Slide * Native!BackupBlocks \in Nat
    BY <1>2, <2>1, Times
  <2> QED  BY <1>2, <2>2 DEF Native!Target
<1> DEFINE t == Native!Target
           g == suspendPoint + 2 * t
<1>6. g \in Nat /\ g >= suspendPoint /\ Native!BackupBlocks < g  
  <2>1. t \in Nat /\ Native!BackupBlocks <= t /\ t + t = 2 * t  BY <1>5
  <2> HIDE DEF t
  <2> QED  BY <1>1, <1>2, <2>1
<1>8. Native!Advancing <=> Advancing  BY Names
<1>7. Native!NextSuspendPoint =
        (IF ~ Native!Extends THEN suspendPoint
         ELSE IF ~ Native!Advancing THEN 0
         ELSE IF Native!NeedBackup < g THEN Native!NeedBackup
         ELSE IF g <= size * before THEN g ELSE size * before)
  <2>1. CASE ~ Native!Extends  BY <2>1 DEF Native!NextSuspendPoint
  <2>2. CASE Native!Extends /\ ~ Native!Advancing  BY <2>2 DEF Native!NextSuspendPoint
  <2>3. CASE Native!Extends /\ Native!Advancing
    BY <2>3 DEF Native!NextSuspendPoint, Native!Least
  <2> QED  BY <2>1, <2>2, <2>3
<1> HIDE DEF g
<1>9. Advancing /\ Native!Extends /\ ~ Native!Same => Native!NextSuspendPoint = Native!BackupBlocks
  BY <1>3, <1>6, <1>7, <1>8
<1>10. ~ Advancing /\ Native!Extends => suspendPoint > 0  BY <1>8 DEF Native!Extends
<1>11. Advancing /\ Native!Extends /\ Native!Same => Native!NextSuspendPoint >= suspendPoint
  BY <1>1, <1>3, <1>6, <1>7, <1>8
<1>12. Native!NextSuspendPoint \in Nat /\ Native!NextSuspendPoint <= size * before
  BY <1>1, <1>4, <1>6, <1>7
<1> QED  BY <1>3, <1>4, <1>7, <1>8, <1>9, <1>10, <1>11, <1>12

\* How far it is safe to go, where a mode says how far the driver may go.
LEMMA SafePointIs ==
  ASSUME BackupTypes, pc # "idle"
  PROVE  /\ Native!SafePoint \in Nat
         /\ Native!Same => Native!SafePoint = backupPoint
         /\ Advancing /\ progress = 0 => Native!SafePoint = backupPoint
         /\ ~ Advancing /\ (backupPoint = Native!BackupBlocks \/ progress <= Native!BackupBlocks) =>
                Native!SafePoint = backupPoint
<1> DEFINE r == progress \div before
           w == progress \div after
<1>1. progress \in Nat /\ backupPoint \in Nat /\ Native!NeedBackup \in Nat
  BY Positions, SuspendPointIs
<1>2. r \in Nat /\ w \in Nat  BY <1>1, Quotient DEF BackupTypes
<1>3. progress = 0 => r = 0 /\ w = 0
  BY DEF BackupTypes
<1>4. Native!Same => r = w  BY DEF Native!Same
<1>5. Native!Advancing <=> Advancing  BY Names
<1>6. Native!SafePoint =
        (IF Native!Advancing THEN (IF r < w + 1 THEN backupPoint ELSE r * after)
         ELSE IF r > w - 1 \/ progress <= Native!NeedBackup THEN backupPoint ELSE Native!NeedBackup)
  <2>1. CASE Native!Advancing  BY <2>1 DEF Native!SafePoint
  <2>2. CASE ~ Native!Advancing  BY <2>2 DEF Native!SafePoint
  <2> QED  BY <2>1, <2>2
<1>7. ~ Advancing => ~ Native!Same /\ Native!NeedBackup = Native!BackupBlocks
  BY SuspendPointIs, Names DEF Native!Same, BackupTypes
<1>8. Native!Same => Advancing  BY <1>7
<1> HIDE DEF r, w
<1>9. r * after \in Nat  BY <1>2, Times DEF BackupTypes
<1>10. Native!SafePoint \in Nat  BY <1>1, <1>6, <1>9
<1>11. Native!Same => Native!SafePoint = backupPoint  BY <1>2, <1>4, <1>5, <1>6, <1>8
<1>12. Advancing /\ progress = 0 => Native!SafePoint = backupPoint  BY <1>3, <1>5, <1>6
<1>13. ~ Advancing /\ (backupPoint = Native!BackupBlocks \/ progress <= Native!BackupBlocks) =>
           Native!SafePoint = backupPoint
  BY <1>5, <1>6, <1>7
<1> QED  BY <1>10, <1>11, <1>12, <1>13

\* The suspended range is pushed on, and how far the driver may go is worked out.
LEMMA SuspendMoreKeeps ==
  ASSUME BackupTypes, BackupInv, Native!SuspendMore
  PROVE  BackupTypes' /\ BackupInv'
<1> DEFINE n == Native!NextSuspendPoint
           x == Native!Extends
           s == Native!SafePoint
           b == Native!BackupBlocks
           t == IF Native!Advancing /\ x THEN Native!Least(s, n) ELSE s
<1>1. /\ pc = "suspend" /\ pc' = "allow" /\ UNCHANGED shapeVars
      /\ UNCHANGED <<rows, active, recorded, up, reshaping, pos, busy, syncMax>>
      /\ UNCHANGED <<progress, backupPoint, part, more>>
      /\ UNCHANGED <<hdr, two, held, crashes>>
      /\ suspendPoint' = n
      /\ suspendHi' = (IF ~ x THEN suspendHi
                       ELSE IF Native!Advancing THEN n ELSE Native!NeedBackup)
      /\ suspendLo' = (IF x /\ ~ Native!Advancing THEN 0 ELSE suspendLo)
      /\ maxProgress' = Native!InRows(t)
  BY DEF Native!SuspendMore, Native!shapeVars, shapeVars, Native!diskVars, Native!driveVars,
         Native!backupVars
<1>2. /\ n \in Nat /\ n <= size * before
      /\ Native!NeedBackup \in Nat
      /\ ~ Native!Same => Native!NeedBackup = b
      /\ ~ x => n = suspendPoint
      /\ Advancing /\ x => (Native!Same => n >= suspendPoint) /\ (~ Native!Same => n = b)
      /\ ~ Advancing /\ x => suspendPoint > 0 /\ n = 0
  BY <1>1, SuspendPointIs
<1>3. /\ s \in Nat
      /\ Native!Same => s = backupPoint
      /\ Advancing /\ progress = 0 => s = backupPoint
      /\ ~ Advancing /\ (backupPoint = b \/ progress <= b) => s = backupPoint
  BY <1>1, SafePointIs
<1>4. Native!Advancing <=> Advancing  BY Names
<1>5. b \in Nat \ {0} /\ Room \in Nat \ {0} /\ b \div after = Room /\ Room < size
  BY <1>1, UnitIs, UnitFits DEF Room
<1>6. /\ progress \in Nat /\ backupPoint \in Nat /\ suspendPoint \in Nat /\ size \in Nat
      /\ part \in {0, 1} /\ 0 \div after = 0
      /\ suspendPoint <= size * before
  BY Positions DEF BackupTypes
<1> HIDE DEF n, x, s, b
<1>7. t = (IF Advancing /\ x THEN IF s <= n THEN s ELSE n ELSE s)
  BY <1>4 DEF Native!Least
<1> HIDE DEF t
<1>8. t \in Nat /\ t <= s  BY <1>2, <1>3, <1>7
<1> DEFINE r == IF t \div after <= size THEN t \div after ELSE size
<1>9. r \in Nat /\ r <= size /\ r * after <= t /\ maxProgress' = (IF Advancing THEN r ELSE size - r)
      /\ maxProgress' \in 0..size
  BY <1>1, <1>8, InRowsIs
<1>10. /\ t = 0 => r = 0
       /\ t = b => r = Room
  BY <1>5, <1>6
<1> HIDE DEF r
<1>11. BackupTypes'
  <2>1. progress \in 0..(size * after) /\ backupPoint \in 0..(size * before) /\ part \in {0, 1}
    BY Positions, Names
  <2>2. n \in 0..(size * before)  BY <1>2, Names
  <2>3. suspendLo' \in Nat /\ suspendHi' \in Nat  BY <1>1, <1>2 DEF BackupTypes
  <2> QED  BY <1>1, <1>9, <2>1, <2>2, <2>3, TypesStay DEF BackupTypes, Native!TypeOK
<1>12. active => ChildInv'
  <2> SUFFICES ASSUME active PROVE ChildInv'  OBVIOUS
  <2>1. /\ SuspendedInv /\ HeaderInv
        /\ IF Native!Same THEN SlidingInv ELSE IF Advancing THEN GrowingInv ELSE ShrinkingInv
    BY <1>1, RunningAt DEF ChildInv, Watching
  <2>2. /\ \A p : Native!Full(p)' = Native!Full(p)
        /\ \A p \in {0, 1} : hdr[p].hi \in Nat
    BY <1>1, <2>1, HeaderStays, KeptIs
  <2>3. SuspendedInv'
    <3>1. CASE Advancing
      <4>1. suspendLo <= progress /\ suspendPoint <= suspendHi
            /\ (\A p \in {0, 1} : hdr[p].hi <= suspendPoint)
            /\ (~ Native!Same => suspendPoint \in {0, b})
        BY <2>1, <3>1 DEF SuspendedInv, Native!Half, b
      <4>2. n >= suspendPoint /\ (~ Native!Same => n \in {0, b})
        BY <1>2, <1>5, <1>6, <3>1, <4>1
      <4>3. n <= suspendHi'  BY <1>1, <1>2, <1>4, <3>1, <4>1
      <4>4. \A p \in {0, 1} : hdr[p].hi <= n  BY <1>2, <1>6, <2>2, <4>1, <4>2
      <4>5. suspendLo' = suspendLo  BY <1>1, <1>4, <3>1
      <4> QED  BY <1>1, <3>1, <4>1, <4>2, <4>3, <4>4, <4>5, ShapeStays DEF SuspendedInv, Native!Half, b
    <3>2. CASE ~ Advancing
      <4>1. ~ Native!Same  BY <3>2, Names DEF Native!Same, BackupTypes
      <4>2. CASE x
        <5>1. n = 0 /\ suspendHi' = b /\ suspendLo' = 0  BY <1>1, <1>2, <1>4, <3>2, <4>1, <4>2
        <5> QED  BY <1>1, <1>5, <3>2, <4>1, <5>1, ShapeStays DEF SuspendedInv, b
      <4>3. CASE ~ x
        <5>1. n = suspendPoint /\ suspendHi' = suspendHi /\ suspendLo' = suspendLo
          BY <1>1, <1>2, <4>3
        <5> QED  BY <1>1, <2>1, <2>2, <3>2, <4>1, <5>1, ShapeStays DEF SuspendedInv
      <4> QED  BY <4>2, <4>3
    <3> QED  BY <3>1, <3>2
  <2>4. ASSUME Native!Same, SlidingInv PROVE SlidingInv'
    <3>1. maxProgress' * after <= backupPoint
      <4>1. Advancing  BY <2>4, Names DEF Native!Same, BackupTypes
      <4>2. r * after <= t /\ t <= backupPoint /\ maxProgress' = r
        BY <1>3, <1>8, <1>9, <2>4, <4>1
      <4>3. r * after \in Nat  BY <1>9, Times DEF BackupTypes
      <4> QED  BY <1>6, <1>8, <4>2, <4>3
    <3> QED  BY <1>1, <2>2, <2>4, <3>1, ShapeStays DEF SlidingInv, AtRow
  <2>5. ASSUME ~ Native!Same, Advancing, GrowingInv PROVE GrowingInv'
    <3>1. part = 0 => maxProgress' = 0
      <4> SUFFICES ASSUME part = 0 PROVE maxProgress' = 0  OBVIOUS
      <4>1. progress = 0 /\ backupPoint = 0  BY <1>5, <2>5 DEF GrowingInv, b
      <4>2. t = 0  BY <1>3, <1>8, <2>5, <4>1
      <4> QED  BY <1>9, <1>10, <2>5, <4>2
    <3>2. Native!Full(0) => maxProgress' = Room
      <4> SUFFICES ASSUME Native!Full(0) PROVE maxProgress' = Room  OBVIOUS
      <4>1. part = 1
        <5>1. hdr[0] # Native!Empty  BY <2>1, KeptIs
        <5> QED  BY <1>6, <2>5, <5>1 DEF GrowingInv
      <4>2. progress = 0 /\ backupPoint = b  BY <1>1, <1>5, <2>5, <4>1 DEF GrowingInv, b
      <4>3. t = b  BY <1>2, <1>3, <1>5, <1>7, <2>5, <4>2
      <4> QED  BY <1>9, <1>10, <2>5, <4>3
    <3> QED  BY <1>1, <2>2, <2>5, <3>1, <3>2, ShapeStays DEF GrowingInv
  <2>6. ASSUME ~ Native!Same, ~ Advancing, ShrinkingInv PROVE ShrinkingInv'
    <3>1. part = 0 => maxProgress' = size - Room
      <4> SUFFICES ASSUME part = 0 PROVE maxProgress' = size - Room  OBVIOUS
      <4>1. backupPoint = b  BY <1>5, <2>6 DEF ShrinkingInv, b
      <4>2. t = b  BY <1>3, <1>7, <2>6, <4>1
      <4> QED  BY <1>9, <1>10, <2>6, <4>2
    <3>2. Native!Full(0) => maxProgress' = size
      <4> SUFFICES ASSUME Native!Full(0) PROVE maxProgress' = size  OBVIOUS
      <4>1. part = 1
        <5>1. hdr[0] # Native!Empty  BY <2>1, KeptIs
        <5> QED  BY <1>6, <2>6, <5>1 DEF ShrinkingInv
      <4>2. progress <= b /\ backupPoint = 0  BY <1>5, <2>6, <4>1 DEF ShrinkingInv, b
      <4>3. t = 0  BY <1>3, <1>7, <2>6, <4>2
      <4> QED  BY <1>6, <1>9, <1>10, <2>6, <4>3
    <3> QED  BY <1>1, <2>2, <2>6, <3>1, <3>2, ShapeStays DEF ShrinkingInv
  <2>7. IF Native!Same' THEN SlidingInv' ELSE IF Advancing' THEN GrowingInv' ELSE ShrinkingInv'
    BY <1>1, <2>1, <2>4, <2>5, <2>6, ShapeStays
  <2> QED  BY <1>1, <2>3, <2>7 DEF ChildInv, Watching, Stopping
<1> QED  BY <1>1, <1>11, <1>12, ChildMoves DEF Restarting

\* The driver may go that far.
LEMMA MayProgressKeeps ==
  ASSUME BackupTypes, BackupInv, Native!AllowProgress
  PROVE  BackupTypes' /\ BackupInv'
<1>1. /\ pc = "allow" /\ pc' = "wait" /\ UNCHANGED shapeVars /\ syncMax' = maxProgress
      /\ UNCHANGED <<rows, active, recorded, up, reshaping, pos, busy, suspendLo, suspendHi>>
      /\ UNCHANGED <<progress, backupPoint, suspendPoint, part, maxProgress, more>>
      /\ UNCHANGED <<hdr, two, held, crashes>>
  BY DEF Native!AllowProgress, Native!shapeVars, shapeVars, Native!diskVars, Native!driveVars,
         Native!suspVars, Native!backupVars
<1>2. BackupTypes'
  <2>1. progress \in 0..(size * after) /\ backupPoint \in 0..(size * before)
        /\ suspendPoint \in 0..(size * before) /\ maxProgress \in 0..size /\ part \in {0, 1}
    BY Positions, Names DEF BackupTypes
  <2> QED  BY <1>1, <2>1, TypesStay DEF BackupTypes, Native!TypeOK
<1>3. active => ChildInv'
  <2> SUFFICES ASSUME active PROVE ChildInv'  OBVIOUS
  <2>1. /\ SuspendedInv /\ HeaderInv
        /\ IF Native!Same THEN SlidingInv ELSE IF Advancing THEN GrowingInv ELSE ShrinkingInv
    BY <1>1, RunningAt DEF ChildInv, Watching
  <2>2. /\ \A p : Native!Full(p)' = Native!Full(p)  BY <1>1, HeaderStays
  <2>3. SuspendedInv'  BY <1>1, <2>1, SuspendedStays
  <2>4. ASSUME Native!Same, SlidingInv PROVE SlidingInv'
    BY <1>1, <2>2, <2>4, ShapeStays DEF SlidingInv, AtRow
  <2>5. ASSUME ~ Native!Same, Advancing, GrowingInv PROVE GrowingInv'
    <3>1. Native!Full(0) => maxProgress <= Room  BY <1>1, <2>5, UnitIs DEF GrowingInv
    <3> QED  BY <1>1, <2>2, <2>5, <3>1, ShapeStays DEF GrowingInv
  <2>6. ASSUME ~ Native!Same, ~ Advancing, ShrinkingInv PROVE ShrinkingInv'
    <3>1. part = 0 => size - maxProgress >= Room
      <4>1. part = 0 => maxProgress = size - Room  BY <1>1, <2>6 DEF ShrinkingInv
      <4> QED  BY <4>1, UnitIs DEF BackupTypes
    <3> QED  BY <1>1, <2>2, <2>6, <3>1, ShapeStays DEF ShrinkingInv
  <2>7. IF Native!Same' THEN SlidingInv' ELSE IF Advancing' THEN GrowingInv' ELSE ShrinkingInv'
    BY <1>1, <2>1, <2>4, <2>5, <2>6, ShapeStays
  <2> QED  BY <1>1, <2>3, <2>7 DEF ChildInv, Watching, Stopping
<1> QED  BY <1>1, <1>2, <1>3, ChildMoves DEF Restarting

\* The driver has come as far as it may, or to where the older half can be released.
LEMMA WaitKeeps ==
  ASSUME BackupTypes, BackupInv, Native!WaitForReshape
  PROVE  BackupTypes' /\ BackupInv'
<1> DEFINE b == Native!BackupBlocks
<1>1. /\ pc = "wait" /\ pc' = "forget" /\ UNCHANGED shapeVars
      /\ UNCHANGED <<rows, active, recorded, up, reshaping, pos, busy, syncMax, suspendLo, suspendHi>>
      /\ UNCHANGED <<backupPoint, suspendPoint, part, maxProgress>>
      /\ UNCHANGED <<hdr, two, held, crashes>>
      /\ progress' \in {progress, recorded} /\ more' \in {-1, 0, 1}
  BY DEF Native!WaitForReshape, Native!kernelVars, Native!shapeVars, shapeVars, Native!diskVars,
         Native!driveVars, Native!suspVars, Native!backupVars
<1>2. active =>
        /\ Native!Done(recorded) >= Native!Least(maxProgress, Native!WaitRows)
        /\ progress' = (IF Native!Done(recorded) = 0 THEN progress ELSE recorded)
        /\ more' # -1
        /\ more' = 0 /\ Advancing => ~ Native!NeedBackup > progress
  <2> SUFFICES ASSUME active
               PROVE  /\ Native!Done(recorded) >= Native!Least(maxProgress, Native!WaitRows)
                      /\ progress' = (IF Native!Done(recorded) = 0 THEN progress ELSE recorded)
                      /\ more' # -1
                      /\ more' = 0 /\ Advancing => ~ Native!NeedBackup > progress
    OBVIOUS
  <2>1. /\ Native!Done(recorded) >= Native!Least(maxProgress, Native!WaitRows)
        /\ progress' = (IF Native!Done(recorded) = 0 THEN progress ELSE recorded)
    BY DEF Native!WaitForReshape
  <2>2. more' = 0 \/ more' = 1  BY DEF Native!WaitForReshape
  <2>3. Native!Advancing = Advancing  BY DEF Native!Advancing, Advancing
  <2>4. CASE Advancing
    <3>1. more' = (IF Native!NeedBackup > progress THEN 1 ELSE 0)
      BY <2>3, <2>4 DEF Native!WaitForReshape
    <3> QED  BY <2>1, <2>2, <3>1
  <2>5. CASE ~ Advancing  BY <2>1, <2>2, <2>5
  <2> QED  BY <2>4, <2>5
<1>3. /\ progress \in Nat /\ recorded \in Nat /\ backupPoint \in Nat /\ suspendPoint \in Nat
      /\ progress <= size * after /\ recorded <= size * after
      /\ maxProgress \in Nat /\ size \in Nat \ {0} /\ part \in {0, 1} /\ pos \in Nat /\ AtRow(recorded)
      /\ suspendLo \in Nat
  BY Positions DEF BackupTypes
<1>4. /\ Native!Done(recorded) = (IF Advancing THEN recorded \div after ELSE size - recorded \div after)
      /\ recorded \div after \in Nat /\ recorded = (recorded \div after) * after
      /\ recorded \div after <= size
  <2>1. AtRow(size * after) /\ (size * after) \div after = size /\ size * after \in Nat  BY Positions, Names
  <2> QED  BY <1>3, <2>1, Names, AtRowIs, AtRowsAre
<1>5. b \in Nat \ {0} /\ Room \in Nat \ {0} /\ b \div after = Room /\ Room < size /\ b = Room * after
      /\ AtRow(b)
  BY <1>1, UnitIs, UnitFits DEF Room
<1> HIDE DEF b
<1>6. progress' \in Nat /\ progress' <= size * after  BY <1>1, <1>3
<1>7. BackupTypes'
  <2>1. backupPoint \in 0..(size * before)
        /\ suspendPoint \in 0..(size * before) /\ maxProgress \in 0..size /\ part \in {0, 1}
    BY Positions, Names DEF BackupTypes
  <2>2. progress' \in 0..(size * after)  BY <1>6, Names
  <2> QED  BY <1>1, <2>1, <2>2, TypesStay DEF BackupTypes, Native!TypeOK
<1>8. active => ChildInv'
  <2> SUFFICES ASSUME active PROVE ChildInv'  OBVIOUS
  <2>1. /\ SuspendedInv /\ HeaderInv /\ RowsKnown
        /\ IF Native!Same THEN SlidingInv ELSE IF Advancing THEN GrowingInv ELSE ShrinkingInv
    BY <1>1, RunningAt DEF ChildInv, Watching
  <2>2. /\ \A p : Native!Full(p)' = Native!Full(p)
        /\ \A p \in {0, 1} : hdr[p].lo \in Nat /\ hdr[p].hi \in Nat
    BY <1>1, <2>1, HeaderStays, KeptIs
  <2>3. IF Advancing THEN recorded <= pos ELSE pos <= recorded  BY <2>1 DEF RowsKnown
  <2>4. Native!Done(recorded) >= maxProgress \/ Native!Done(recorded) >= Native!WaitRows
    BY <1>2 DEF Native!Least
  <2>5. ~ Native!Full(1) /\ ~ Native!Same /\ part = 1 => Native!WaitRows = size
    <3> SUFFICES ASSUME ~ Native!Full(1), part = 1 PROVE Native!WaitRows = size  OBVIOUS
    <3>1. Native!Advancing <=> Advancing  BY Names
    <3>2. Native!WaitPoint = (IF Advancing THEN size * after ELSE 0)  BY <3>1 DEF Native!WaitPoint
    <3>3. (size * after) \div after = size /\ 0 \div after = 0  BY Positions
    <3> QED  BY <1>3, <3>1, <3>2, <3>3 DEF Native!WaitRows
  <2>6. ~ Native!Same => ~ Native!Full(1)
    <3>1. ~ Native!Same => hdr[1] = Native!Empty  BY <2>1 DEF HeaderInv
    <3> QED  BY <2>1, <3>1, KeptIs
  <2>7. ASSUME Native!Same, SlidingInv PROVE SlidingInv'
    <3>1. progress <= progress' /\ progress' <= recorded  BY <1>1, <1>3, <2>7 DEF SlidingInv
    <3>2. /\ Native!Full(1 - part) =>
               /\ Native!Full(part) => hdr[part].lo <= progress'
               /\ ~ Native!Full(part) => hdr[1 - part].lo <= progress'
          /\ ~ Native!Full(1 - part) => progress' >= backupPoint
      <4>1. 1 - part \in {0, 1}  BY <1>3
      <4>2. hdr[part].lo \in Nat /\ hdr[1 - part].lo \in Nat  BY <1>3, <2>2, <4>1
      <4> QED  BY <1>3, <1>6, <2>7, <3>1, <4>2 DEF SlidingInv
    <3>3. Native!Full(1 - part)' = Native!Full(1 - part) /\ Native!Full(part)' = Native!Full(part)
      BY <1>1, ShapeStays DEF Native!Full
    <3> QED  BY <1>1, <2>2, <2>7, <3>1, <3>2, <3>3, ShapeStays DEF SlidingInv, AtRow
  <2>8. ASSUME ~ Native!Same, Advancing, GrowingInv PROVE GrowingInv'
    <3>1. part = 0 => progress' = 0
      <4> SUFFICES ASSUME part = 0 PROVE progress' = 0  OBVIOUS
      <4>1. pos = 0 /\ progress = 0  BY <2>8 DEF GrowingInv
      <4>2. recorded = 0  BY <1>3, <2>3, <2>8, <4>1
      <4> QED  BY <1>1, <4>1, <4>2
    <3>2. Native!Full(0) => progress' >= b /\ progress' <= recorded
      <4> SUFFICES ASSUME Native!Full(0) PROVE progress' >= b /\ progress' <= recorded  OBVIOUS
      <4>1. part = 1
        <5>1. hdr[0] # Native!Empty  BY <2>1, KeptIs
        <5> QED  BY <1>3, <2>8, <5>1 DEF GrowingInv
      <4>2. maxProgress = Room  BY <1>1, <2>8 DEF GrowingInv
      <4>3. Native!Done(recorded) >= Room  BY <1>3, <1>4, <1>5, <2>4, <2>5, <2>6, <2>8, <4>1, <4>2
      <4>4. Native!Done(recorded) # 0  BY <1>4, <1>5, <2>8, <4>3
      <4>5. progress' = recorded  BY <1>2, <4>4
      <4>6. Room <= recorded \div after  BY <1>4, <1>5, <2>8, <4>3
      <4>7. b <= recorded  BY <1>3, <1>5, <4>6, AtRowsAre
      <4> QED  BY <1>3, <1>5, <4>5, <4>7
    <3>3. part = 1 /\ ~ Native!Full(0) => progress' >= b /\ progress' <= recorded
      BY <1>1, <1>3, <1>5, <2>8 DEF GrowingInv, b
    <3> QED  BY <1>1, <2>2, <2>8, <3>1, <3>2, <3>3, ShapeStays DEF GrowingInv, b
  <2>9. ASSUME ~ Native!Same, ~ Advancing, ShrinkingInv PROVE ShrinkingInv'
    <3>1. progress' >= recorded /\ progress' <= progress  BY <1>1, <1>3, <2>9 DEF ShrinkingInv
    <3>2. Native!Full(0) => progress' = 0
      <4> SUFFICES ASSUME Native!Full(0) PROVE progress' = 0  OBVIOUS
      <4>1. part = 1
        <5>1. hdr[0] # Native!Empty  BY <2>1, KeptIs
        <5> QED  BY <1>3, <2>9, <5>1 DEF ShrinkingInv
      <4>2. maxProgress = size  BY <1>1, <2>9 DEF ShrinkingInv
      <4>3. Native!Done(recorded) >= size  BY <2>4, <2>5, <2>6, <2>9, <4>1, <4>2
      <4>4. recorded \div after = 0  BY <1>3, <1>4, <2>9, <4>3
      <4>5. recorded = 0
        <5>1. 0 * after = 0  BY DEF BackupTypes
        <5> QED  BY <1>4, <4>4, <5>1
      <4>6. Native!Done(recorded) # 0  BY <1>3, <1>4, <2>9, <4>4
      <4> QED  BY <1>2, <4>5, <4>6
    <3>3. part = 1 /\ ~ Native!Full(0) => progress' = 0
      <4>1. part = 1 /\ ~ Native!Full(0) => progress = 0  BY <2>9 DEF ShrinkingInv
      <4> QED  BY <1>3, <1>6, <3>1, <4>1
    <3>4. part = 0 => progress' <= b
      <4> SUFFICES ASSUME part = 0 PROVE progress' <= b  OBVIOUS
      <4>1. maxProgress = size - Room  BY <1>1, <2>9 DEF ShrinkingInv
      <4>2. ~ Native!Full(0)
        <5>1. hdr[0] = Native!Empty  BY <2>9 DEF ShrinkingInv
        <5> QED  BY <2>1, <5>1, KeptIs
      <4>3. Native!WaitRows = size
        <5>1. Native!Advancing <=> Advancing  BY Names
        <5>2. Native!WaitPoint = 0  BY <2>9, <4>2, <5>1 DEF Native!WaitPoint
        <5> QED  BY <1>3, <2>9, <5>1, <5>2, Positions DEF Native!WaitRows
      <4>4. Native!Done(recorded) >= size - Room  BY <1>3, <1>4, <1>5, <2>4, <2>9, <4>1, <4>3
      <4>5. recorded \div after <= Room /\ Native!Done(recorded) # 0
        BY <1>3, <1>4, <1>5, <2>9, <4>4
      <4>6. recorded <= b  BY <1>3, <1>5, <4>5, AtRowsAre
      <4> QED  BY <1>2, <4>5, <4>6
    <3>5. progress' = 0 \/ progress' >= b
      <4>1. CASE part = 0
        <5>1. hdr[0] = Native!Empty  BY <2>9, <4>1 DEF ShrinkingInv
        <5>2. recorded = 0 \/ recorded >= b  BY <2>1, <2>9, <5>1 DEF HeaderInv, b
        <5> QED  BY <1>1, <2>9, <5>2 DEF ShrinkingInv, b
      <4> QED  BY <1>3, <3>2, <3>3, <4>1
    <3>6. Native!Full(0) => progress' <= b  BY <1>5, <3>2
    <3> QED  BY <1>1, <2>2, <2>9, <3>1, <3>3, <3>4, <3>5, <3>6, ShapeStays DEF ShrinkingInv, b
  <2>13. Advancing => progress <= progress'
    <3> SUFFICES ASSUME Advancing PROVE progress <= progress'  OBVIOUS
    <3>1. progress <= recorded \/ progress' = progress
      <4>1. CASE Native!Same  BY <2>1, <4>1 DEF SlidingInv
      <4>2. CASE ~ Native!Same /\ part = 0
        <5>1. progress = 0  BY <2>1, <4>2 DEF GrowingInv
        <5> QED  BY <1>3, <5>1
      <4>3. CASE ~ Native!Same /\ part = 1  BY <2>1, <4>3 DEF GrowingInv
      <4> QED  BY <1>3, <4>1, <4>2, <4>3
    <3> QED  BY <1>1, <1>3, <3>1
  <2>10. SuspendedInv'
    <3>1. CASE Advancing
      <4>2. suspendLo <= progress  BY <2>1, <3>1 DEF SuspendedInv
      <4>3. suspendLo <= progress'  BY <1>3, <1>6, <2>13, <3>1, <4>2
      <4> QED  BY <1>1, <2>1, <2>2, <3>1, <4>3, ShapeStays DEF SuspendedInv
    <3>2. CASE ~ Advancing
      <4>1. ~ Native!Same  BY <3>2, Names DEF Native!Same, BackupTypes
      <4>2. progress' <= progress  BY <1>1, <1>3, <2>1, <3>2, <4>1 DEF ShrinkingInv
      <4>3. progress' > 0 => progress > 0  BY <1>3, <1>6, <4>2
      <4> QED  BY <1>1, <2>1, <2>2, <3>2, <4>1, <4>3, ShapeStays DEF SuspendedInv
    <3> QED  BY <3>1, <3>2
  <2>11. IF Native!Same' THEN SlidingInv' ELSE IF Advancing' THEN GrowingInv' ELSE ShrinkingInv'
    BY <1>1, <2>1, <2>7, <2>8, <2>9, ShapeStays
  <2>12. more' = 0 /\ Advancing' => progress' >= Native!NeedBackup'
    <3>1. Native!NeedBackup \in Nat  BY <1>1, SuspendPointIs
    <3>2. Native!NeedBackup' = Native!NeedBackup /\ Advancing' = Advancing  BY <1>1, ShapeStays
    <3>3. more' = 0 /\ Advancing => progress' >= Native!NeedBackup
      BY <1>2, <1>3, <1>6, <2>13, <3>1
    <3> QED  BY <3>2, <3>3
  <2> QED  BY <1>1, <1>2, <2>10, <2>11, <2>12 DEF ChildInv, Watching, Stopping
<1> QED  BY <1>1, <1>7, <1>8, ChildMoves DEF Restarting

\* The half with the lowest number that was moved is released.
LEMMA ForgetKeeps ==
  ASSUME BackupTypes, BackupInv, NEW p \in Native!Half, Native!ForgetBackup(p)
  PROVE  BackupTypes' /\ BackupInv'
<1> DEFINE b == Native!BackupBlocks
           q == 1 - p
<1>1. /\ pc = "forget" /\ UNCHANGED shapeVars
      /\ UNCHANGED <<rows, active, recorded, up, reshaping, pos, busy, syncMax, suspendLo, suspendHi>>
      /\ UNCHANGED <<pc, progress, backupPoint, suspendPoint, part, maxProgress, more>>
      /\ UNCHANGED <<two, held, crashes>>
      /\ hdr' = [hdr EXCEPT ![p] = Native!Empty]
      /\ Native!Released(p) /\ \A x \in Native!Half : Native!Released(x) => p <= x
  BY DEF Native!ForgetBackup, Native!kernelVars, Native!shapeVars, shapeVars, Native!diskVars,
         Native!driveVars, Native!suspVars, Native!childVars
<1>2. p \in {0, 1} /\ q \in {0, 1} /\ q # p /\ Native!Half = {0, 1}  BY DEF Native!Half
<1>3. /\ hdr \in [Native!Half -> [lo : 0..(size * before), hi : 0..(size * before)]]
      /\ size * before \in Nat
  BY Names DEF BackupTypes, Native!TypeOK
<1>4. /\ hdr'[p] = Native!Empty /\ hdr'[q] = hdr[q] /\ hdr'[p].lo = 0 /\ hdr'[p].hi = 0
      /\ hdr' \in [Native!Half -> [lo : 0..(size * before), hi : 0..(size * before)]]
      /\ Native!Empty.lo = 0 /\ Native!Empty.hi = 0
  <2>1. Native!Empty \in [lo : 0..(size * before), hi : 0..(size * before)]
        /\ Native!Empty.lo = 0 /\ Native!Empty.hi = 0
    BY <1>3 DEF Native!Empty
  <2> QED  BY <1>1, <1>2, <1>3, <2>1
<1>5. /\ progress \in Nat /\ recorded \in Nat /\ pos \in Nat /\ backupPoint \in Nat
      /\ suspendPoint \in Nat /\ part \in {0, 1}
      /\ b \in Nat \ {0} /\ AtRow(0)
  BY Positions, UnitIs
<1>6. BackupTypes'
  <2>1. progress \in 0..(size * after) /\ backupPoint \in 0..(size * before)
        /\ suspendPoint \in 0..(size * before) /\ maxProgress \in 0..size /\ part \in {0, 1}
    BY Positions, Names DEF BackupTypes
  <2> QED  BY <1>1, <1>4, <2>1, TypesStay DEF BackupTypes, Native!TypeOK
<1>7. CASE ~ active  BY <1>1, <1>6, <1>7, OverStays DEF Restarting
<1> HIDE DEF q, b
<1>8. CASE active
  <2>1. /\ SuspendedInv /\ HeaderInv /\ RowsKnown /\ up
        /\ IF Native!Same THEN SlidingInv ELSE IF Advancing THEN GrowingInv ELSE ShrinkingInv
        /\ more # -1 /\ (more = 0 /\ Advancing => progress >= Native!NeedBackup)
    BY <1>1, <1>8, RunningAt DEF ChildInv, Watching, Restarting
  <2>2. IF Advancing THEN recorded <= pos ELSE pos <= recorded  BY <2>1 DEF RowsKnown
  <2>3. \A x \in {0, 1} : /\ hdr[x].lo \in Nat /\ hdr[x].hi \in Nat
                          /\ Native!Full(x) <=> hdr[x].lo < hdr[x].hi
                          /\ ~ Native!Full(x) => hdr[x] = Native!Empty
                          /\ hdr[x] = Native!Empty => ~ Native!Full(x)
    BY <2>1, KeptIs
  <2>4. \A a \in Native!Addr : a \in Nat
            /\ (a \in Kept <=> \E x \in {0, 1} : hdr[x].lo <= a /\ a < hdr[x].hi)
    BY <2>1, KeptIs, Places
  <2>5. Native!Full(p) /\ (IF Advancing THEN progress >= hdr[p].hi ELSE progress <= hdr[p].lo)
    BY <1>1, Names DEF Native!Released
  <2>6. ~ Native!Full(p)' /\ Native!Full(q)' = Native!Full(q)
    BY <1>4 DEF Native!Full
  <2>7. Native!Same => Advancing  BY Names DEF Native!Same, BackupTypes
  <2>8. ~ Native!Same => p = 0 /\ ~ Native!Full(1) /\ part = 1 /\ hdr[0].lo = 0 /\ hdr[0].hi = b
    <3> SUFFICES ASSUME ~ Native!Same
                 PROVE  p = 0 /\ ~ Native!Full(1) /\ part = 1 /\ hdr[0].lo = 0 /\ hdr[0].hi = b
      OBVIOUS
    <3>1. hdr[1] = Native!Empty /\ hdr[0] \in {Native!Empty, FirstUnit}  BY <2>1 DEF HeaderInv
    <3>2. p = 0 /\ ~ Native!Full(1)  BY <1>2, <2>3, <2>5, <3>1
    <3>3. hdr[0] # Native!Empty  BY <2>3, <2>5, <3>2
    <3>4. part # 0  BY <2>1, <3>3 DEF GrowingInv, ShrinkingInv
    <3> QED  BY <1>5, <3>1, <3>2, <3>3, <3>4 DEF FirstUnit, b
  <2>9. Advancing => progress <= recorded
    <3>1. CASE Native!Same  BY <2>1, <3>1 DEF SlidingInv
    <3>2. CASE ~ Native!Same /\ Advancing
      BY <2>1, <2>5, <2>8, <3>2 DEF GrowingInv
    <3> QED  BY <3>1, <3>2
  <2>10. ~ Advancing => progress = 0 /\ recorded = 0
    <3> SUFFICES ASSUME ~ Advancing PROVE progress = 0 /\ recorded = 0  OBVIOUS
    <3>1. progress <= 0  BY <2>5, <2>7, <2>8
    <3>2. recorded <= progress  BY <2>1, <2>7 DEF ShrinkingInv
    <3> QED  BY <1>5, <3>1, <3>2
  <2>11. \A a \in Native!Addr : hdr[p].lo <= a /\ a < hdr[p].hi => Native!Moved(a, recorded)
    <3> TAKE a \in Native!Addr
    <3>1. a \in Nat /\ hdr[p].hi \in Nat  BY <1>2, <2>3, <2>4
    <3>2. a < hdr[p].hi /\ Advancing => a < recorded  BY <1>5, <2>5, <2>9, <3>1
    <3>3. ~ Advancing => a >= recorded  BY <2>10, <3>1
    <3> QED  BY <3>2, <3>3, Names
  <2>12. \A x \in {0, 1} : /\ hdr'[x].lo \in Nat /\ hdr'[x].hi \in Nat
                           /\ Native!Full(x)' <=> hdr'[x].lo < hdr'[x].hi
    BY <1>2, <1>4, <2>3 DEF Native!Full
  <2>13. /\ Native!Backed' = IF Native!Full(q) THEN {q} ELSE {}
         /\ Native!Half' = Native!Half
    <3>1. Native!Half' = Native!Half  BY <1>1, ShapeStays
    <3>2. Native!Full(1) => two  BY <2>1 DEF HeaderInv
    <3>3. \A x \in {0, 1} : Native!Full(x)' <=> x = q /\ Native!Full(q)  BY <1>2, <2>6
    <3>4. Native!Backed' = {x \in {0, 1} : Native!Full(x)' /\ (x = 1 => two)}
      BY <1>1, <1>2, <3>1 DEF Native!Backed
    <3>5. q = 1 /\ Native!Full(q) => two  BY <3>2
    <3> QED  BY <1>2, <3>1, <3>3, <3>4, <3>5
  <2>14. \A a \in Native!Addr : a \in Kept' <=> hdr[q].lo <= a /\ a < hdr[q].hi
    <3> TAKE a \in Native!Addr
    <3>1. a \in Kept' <=> Native!Full(q) /\ a \in Native!Range(hdr[q])'
      BY <1>4, <2>13 DEF Kept
    <3>2. a \in Native!Range(hdr[q])' <=> hdr[q].lo <= a /\ a < hdr[q].hi
      BY <1>1, <1>4, ShapeStays DEF Native!Range
    <3>3. hdr[q].lo <= a /\ a < hdr[q].hi => Native!Full(q)  BY <1>2, <2>3, <2>4
    <3> QED  BY <3>1, <3>2, <3>3
  <2>15. RowsKnown'
    <3>1. ASSUME NEW a \in Native!Addr, a \notin Kept', ~ Native!Moved(a, recorded)
          PROVE  rows[Native!OldRow(a)] = "old"
      <4>1. a \notin Kept  BY <1>2, <2>4, <2>11, <2>14, <3>1
      <4> QED  BY <2>1, <3>1, <4>1 DEF RowsKnown
    <3>2. Native!NextRow' = Native!NextRow  BY <1>1, ShapeStays DEF Native!NextRow
    <3> QED  BY <1>1, <2>1, <3>1, <3>2, ShapeStays DEF RowsKnown
  <2>16. Native!Same =>
           /\ Native!Full(1 - part) => hdr[1 - part].hi = backupPoint
           /\ Native!Full(1 - part) /\ Native!Full(part) =>
                  hdr[part].hi = hdr[1 - part].lo /\ hdr[part].lo <= progress
           /\ Native!Full(1 - part) /\ ~ Native!Full(part) => hdr[1 - part].lo <= progress
           /\ ~ Native!Full(1 - part) => progress >= backupPoint
           /\ pos <= backupPoint /\ progress <= recorded /\ recorded <= pos
           /\ AtRow(backupPoint) /\ syncMax * after <= backupPoint /\ (busy => pos < backupPoint)
           /\ \A x \in {0, 1} : hdr[x].hi <= backupPoint
    BY <1>2, <2>1, <2>2, <2>7 DEF SlidingInv
  <2>17. ASSUME Native!Same, Native!Full(q), ~ hdr[q].hi < recorded
         PROVE  q = 1 - part /\ p = part /\ hdr[q].lo <= progress
    <3>1. hdr[p].hi <= progress  BY <2>5, <2>7, <2>17
    <3>2. q = 1 - part
      <4> SUFFICES ASSUME q = part PROVE FALSE  BY <1>2, <1>5
      <4>1. p = 1 - part  BY <1>2, <1>5
      <4>2. hdr[p].hi = backupPoint /\ hdr[q].hi = hdr[p].lo  BY <2>5, <2>16, <2>17, <4>1
      <4>3. hdr[p].lo < hdr[p].hi /\ hdr[p].lo \in Nat /\ hdr[p].hi \in Nat
        BY <1>2, <2>3, <2>5
      <4>4. progress <= recorded  BY <2>16, <2>17
      <4> QED  BY <1>5, <2>17, <3>1, <4>2, <4>3, <4>4
    <3>3. p = part  BY <1>2, <1>5, <3>2
    <3>4. hdr[p].hi = hdr[q].lo  BY <2>5, <2>16, <2>17, <3>2, <3>3
    <3> QED  BY <3>1, <3>2, <3>3, <3>4
  <2>18. ASSUME Native!Usable'
         PROVE  /\ Native!Covered' = hdr[q] /\ hdr[q].lo <= recorded /\ recorded <= hdr[q].hi
                /\ Native!Range(hdr[q]) \subseteq held[q]
    <3>1. Native!Full(q) /\ Native!Backed' = {q}  BY <2>13, <2>18 DEF Native!Usable
    <3>2. Native!Same  BY <1>2, <2>8, <3>1
    <3>3. Advancing /\ Native!Advancing' /\ Native!Advancing  BY <1>1, <2>7, <3>2, Names, ShapeStays
    <3>4. PICK x \in {0, 1} : ~ hdr'[x].hi < recorded /\ (x = 1 => two)
      BY <1>1, <1>2, <2>13, <2>18, <3>3 DEF Native!Usable, Native!NotNeeded
    <3>5. ~ hdr[q].hi < recorded
      <4>1. CASE x = q  BY <1>4, <3>4, <4>1
      <4>2. CASE x = p
        <5>1. ~ 0 < recorded  BY <1>4, <3>4, <4>2
        <5>2. recorded = 0  BY <1>5, <5>1
        <5> QED  BY <1>2, <2>3, <5>2
      <4> QED  BY <1>2, <4>1, <4>2
    <3>6. q = 1 - part /\ p = part /\ hdr[q].lo <= progress  BY <2>17, <3>1, <3>2, <3>5
    <3>7. hdr[q].lo <= recorded /\ recorded <= hdr[q].hi
      BY <1>2, <1>5, <2>3, <2>16, <3>2, <3>5, <3>6
    <3>8. Native!Covered' = hdr[q]
      BY <1>2, <1>4, <2>13, <3>1 DEF Native!Covered
    <3>9. q \in Native!Backed  BY <2>1, <3>1, <1>2, KeptIs
    <3>10. q = 1 => two  BY <2>1, <3>1 DEF HeaderInv
    <3>11. Native!Usable
      BY <1>2, <3>3, <3>5, <3>9, <3>10 DEF Native!Usable, Native!NotNeeded
    <3> QED  BY <2>1, <3>7, <3>8, <3>9, <3>11 DEF HeaderInv
  <2>19. HeaderInv'
    <3>1. \A x \in Native!Half' : Native!Full(x)' \/ hdr[x]' = Native!Empty'
      <4>1. Native!Empty' = Native!Empty  BY <1>1, ShapeStays
      <4> QED  BY <1>2, <1>4, <2>3, <2>6, <2>13, <4>1
    <3>2. Native!Full(1)' => two'
      <4>1. Native!Full(1) => two  BY <2>1 DEF HeaderInv
      <4> QED  BY <1>1, <1>2, <2>6, <4>1
    <3>3. Native!Same' => \A x \in Native!Half' : AtRow(hdr[x].lo)' /\ AtRow(hdr[x].hi)'
      <4> SUFFICES ASSUME Native!Same' PROVE \A x \in {0, 1} : AtRow(hdr[x].lo)' /\ AtRow(hdr[x].hi)'
        BY <1>2, <2>13
      <4>1. Native!Same /\ after' = after  BY <1>1, ShapeStays
      <4>2. AtRow(hdr[q].lo) /\ AtRow(hdr[q].hi)  BY <1>2, <2>1, <4>1 DEF HeaderInv
      <4>3. AtRow(hdr[q].lo)' /\ AtRow(hdr[q].hi)'  BY <1>4, <4>1, <4>2 DEF AtRow
      <4>4. AtRow(hdr[p].lo)' /\ AtRow(hdr[p].hi)'  BY <1>4, <1>5, <4>1 DEF AtRow
      <4> QED  BY <1>2, <4>3, <4>4
    <3>4. ~ (Native!Full(0)' /\ Native!Full(1)')  BY <1>2, <2>6
    <3>5. ~ Native!Same' =>
            /\ ~ two' /\ hdr[1]' = Native!Empty' /\ hdr[0]' \in {Native!Empty', FirstUnit'}
            /\ recorded' = 0 \/ recorded' >= Native!BackupBlocks'
      <4> SUFFICES ASSUME ~ Native!Same'
                   PROVE  /\ ~ two /\ hdr'[1] = Native!Empty' /\ hdr'[0] = Native!Empty'
                          /\ recorded = 0 \/ recorded >= Native!BackupBlocks'
        BY <1>1
      <4>1. ~ Native!Same /\ Native!Empty' = Native!Empty /\ Native!BackupBlocks' = b
        BY <1>1, ShapeStays DEF b
      <4>2. ~ two /\ hdr[1] = Native!Empty  BY <2>1, <4>1 DEF HeaderInv
      <4>3. p = 0 /\ q = 1 /\ hdr[0].hi = b  BY <1>2, <2>8, <4>1
      <4>4. recorded = 0 \/ recorded >= b
        BY <1>5, <2>5, <2>9, <2>10, <4>3
      <4> QED  BY <1>4, <4>1, <4>2, <4>3, <4>4
    <3>6. Native!Usable' =>
            /\ Native!Covered.lo' <= recorded' /\ recorded' <= Native!Covered.hi'
            /\ \A x \in Native!Backed' : Native!Range(hdr[x])' \subseteq held'[x]
      <4> SUFFICES ASSUME Native!Usable'
                   PROVE  /\ Native!Covered.lo' <= recorded' /\ recorded' <= Native!Covered.hi'
                          /\ \A x \in Native!Backed' : Native!Range(hdr[x])' \subseteq held'[x]
        OBVIOUS
      <4>1. Native!Range(hdr[q])' = Native!Range(hdr[q])
        BY <1>1, <1>4, ShapeStays DEF Native!Range
      <4>2. \A x \in Native!Backed' : x = q  BY <2>13
      <4> QED  BY <1>1, <2>18, <4>1, <4>2
    <3> QED  BY <3>1, <3>2, <3>3, <3>4, <3>5, <3>6 DEF HeaderInv
  <2>20. ASSUME Native!Same PROVE SlidingInv'
    <3>1. \A x \in Native!Half' : hdr'[x].hi <= backupPoint
      BY <1>2, <1>4, <1>5, <2>13, <2>16, <2>20
    <3>2. CASE p = part
      <4>1. q = 1 - part  BY <1>2, <1>5, <3>2
      <4>2. ~ Native!Full(part)' /\ Native!Full(1 - part)' = Native!Full(q) /\ hdr'[1 - part] = hdr[q]
        BY <1>1, <1>4, <2>6, <3>2, <4>1 DEF Native!Full
      <4>3. Native!Full(q) => hdr[q].hi = backupPoint /\ hdr[q].lo <= progress
        <5>1. Native!Full(q) => hdr[q].hi = backupPoint /\ hdr[part].hi = hdr[q].lo
          BY <2>5, <2>16, <2>20, <3>2, <4>1
        <5>2. hdr[part].hi <= progress  BY <2>5, <2>7, <2>20, <3>2
        <5> QED  BY <5>1, <5>2
      <4>4. ~ Native!Full(q) => progress >= backupPoint  BY <2>16, <2>20, <4>1
      <4> QED  BY <1>1, <2>16, <2>20, <3>1, <4>2, <4>3, <4>4, ShapeStays DEF SlidingInv, AtRow
    <3>3. CASE p = 1 - part
      <4>1. ~ Native!Full(1 - part)'  BY <1>1, <1>4, <3>3, <2>6 DEF Native!Full
      <4>2. progress >= backupPoint  BY <2>5, <2>7, <2>16, <2>20, <3>3
      <4> QED  BY <1>1, <2>16, <2>20, <3>1, <4>1, <4>2, ShapeStays DEF SlidingInv, AtRow
    <3> QED  BY <1>2, <1>5, <3>2, <3>3
  <2>21. ASSUME ~ Native!Same, Advancing PROVE GrowingInv'
    <3>1. GrowingInv /\ p = 0 /\ part = 1 /\ ~ Native!Full(0)'  BY <2>1, <2>6, <2>8, <2>21
    <3>2. progress >= b /\ progress <= recorded  BY <2>5, <2>8, <2>9, <2>21
    <3> QED  BY <1>1, <3>1, <3>2, ShapeStays DEF GrowingInv, b
  <2>22. ASSUME ~ Native!Same, ~ Advancing PROVE ShrinkingInv'
    <3>1. ShrinkingInv /\ p = 0 /\ part = 1 /\ ~ Native!Full(0)'  BY <2>1, <2>6, <2>8, <2>22
    <3>2. progress = 0  BY <2>10, <2>22
    <3> QED  BY <1>1, <3>1, <3>2, ShapeStays DEF ShrinkingInv
  <2>23. SuspendedInv'
    <3>1. \A x \in {0, 1} : hdr[x].hi <= suspendPoint => hdr'[x].hi <= suspendPoint
      BY <1>2, <1>4, <1>5
    <3>2. Native!Full(0)' => Native!Full(0)  BY <1>2, <2>5, <2>6
    <3> QED  BY <1>1, <1>2, <2>1, <2>13, <3>1, <3>2, ShapeStays DEF SuspendedInv
  <2>24. ChildInv'
    <3>1. IF Native!Same' THEN SlidingInv' ELSE IF Advancing' THEN GrowingInv' ELSE ShrinkingInv'
      BY <1>1, <2>20, <2>21, <2>22, ShapeStays
    <3> QED  BY <1>1, <2>1, <2>23, <3>1, ShapeStays DEF ChildInv, Watching, Stopping
  <2>25. RestartInv'  BY <1>1, <2>1 DEF RestartInv, Restarting
  <2> QED  BY <1>1, <1>6, <1>8, <2>15, <2>19, <2>24, <2>25 DEF BackupInv
<1> QED  BY <1>7, <1>8 DEF BackupTypes, Native!TypeOK

\* Nothing is left to be released: on to the next backup, or to the end.
LEMMA AfterForgetKeeps ==
  ASSUME BackupTypes, BackupInv, Native!AfterForget
  PROVE  BackupTypes' /\ BackupInv'
<1> DEFINE b == Native!BackupBlocks
           Ends == more' # -2 /\ (more = -1 \/ (more = 0 /\ Advancing))
<1>1. /\ pc = "forget" /\ UNCHANGED shapeVars
      /\ UNCHANGED <<rows, active, recorded, up, reshaping, pos, busy, suspendLo, suspendHi>>
      /\ UNCHANGED <<progress, backupPoint, suspendPoint, part, maxProgress>>
      /\ UNCHANGED <<hdr, two, held, crashes>>
      /\ \A p \in Native!Half : ~ Native!Released(p)
  BY DEF Native!AfterForget, Native!shapeVars, shapeVars, Native!diskVars,
         Native!driveVars, Native!suspVars, Native!backupVars
<1>2. \/ more' = -2 /\ pc' = "lift" /\ syncMax' = syncMax
      \/ /\ more' = more
         /\ pc' = (IF more = -1 \/ (more = 0 /\ Advancing) THEN "lift"
                   ELSE IF more = 1 THEN "backup" ELSE "resume")
         /\ syncMax' = (IF more = 0 /\ Advancing THEN size ELSE syncMax)
  <2>1. Native!Advancing <=> Advancing  BY Names
  <2> QED  BY <2>1 DEF Native!AfterForget
<1>3. /\ progress \in Nat /\ recorded \in Nat /\ pos \in Nat /\ backupPoint \in Nat
      /\ suspendPoint \in Nat /\ part \in {0, 1} /\ syncMax \in 0..size
      /\ b \in Nat \ {0} /\ more \in {-2, -1, 0, 1} /\ size \in 0..size
      /\ backupPoint <= size * before
  BY Positions, UnitIs DEF BackupTypes, Native!TypeOK
<1>4. BackupTypes'
  <2>1. progress \in 0..(size * after) /\ backupPoint \in 0..(size * before)
        /\ suspendPoint \in 0..(size * before) /\ maxProgress \in 0..size /\ part \in {0, 1}
    BY Positions, Names DEF BackupTypes
  <2>2. syncMax' \in 0..size  BY <1>2, <1>3
  <2>3. pc' \in {"lift", "backup", "resume"} /\ more' \in {-2, -1, 0, 1}  BY <1>2, <1>3
  <2> QED  BY <1>1, <2>1, <2>2, <2>3, TypesStay DEF BackupTypes, Native!TypeOK
<1> HIDE DEF b
<1>5. active => ChildInv'
  <2> SUFFICES ASSUME active PROVE ChildInv'  OBVIOUS
  <2>1. /\ SuspendedInv /\ HeaderInv /\ RowsKnown
        /\ IF Native!Same THEN SlidingInv ELSE IF Advancing THEN GrowingInv ELSE ShrinkingInv
        /\ more # -1 /\ (more = 0 /\ Advancing => progress >= Native!NeedBackup)
    BY <1>1, RunningAt DEF ChildInv, Watching
  <2>2. /\ \A x \in {0, 1} : /\ hdr[x].lo \in Nat /\ hdr[x].hi \in Nat
                             /\ Native!Full(x) <=> hdr[x].lo < hdr[x].hi
                             /\ hdr[x] = Native!Empty => ~ Native!Full(x)
        /\ Native!Backed = {p \in {0, 1} : Native!Full(p)} /\ Native!Half = {0, 1}
    BY <2>1, KeptIs
  <2>3. \A x \in {0, 1} : Native!Full(x) =>
            ~ (IF Advancing THEN progress >= hdr[x].hi ELSE progress <= hdr[x].lo)
    BY <1>1, <2>2, Names DEF Native!Released
  <2>4. Native!Same => Advancing  BY Names DEF Native!Same, BackupTypes
  <2>5. \A p : Native!Full(p)' = Native!Full(p)  BY <1>1, HeaderStays
  <2>6. ~ Native!Same => ~ Native!Full(1)
    BY <2>1, <2>2 DEF HeaderInv
  <2>7. ~ Native!Same /\ Advancing => ~ Native!Full(0)
    <3> SUFFICES ASSUME ~ Native!Same, Advancing, Native!Full(0) PROVE FALSE  OBVIOUS
    <3>1. progress >= b  BY <1>1, <2>1 DEF GrowingInv, b
    <3>2. hdr[0] = FirstUnit  BY <2>1, <2>2 DEF HeaderInv
    <3>3. hdr[0].hi = b  BY <3>2 DEF FirstUnit, b
    <3> QED  BY <2>3, <3>1, <3>3
  <2>8. CASE ~ Ends
    <3>1. /\ syncMax' = syncMax
          /\ pc' \in {"lift", "backup", "resume"} /\ (pc' = "lift" => more' = -2)
      BY <1>1, <1>2, <1>3, <2>8
    <3>2. SlidingInv => SlidingInv'  BY <1>1, <2>5, <3>1, ShapeStays DEF SlidingInv, AtRow
    <3>3. ~ Native!Same /\ Advancing /\ GrowingInv => GrowingInv'
      BY <1>1, <2>5, <2>7, <3>1, ShapeStays DEF GrowingInv
    <3>4. ShrinkingInv => ShrinkingInv'  BY <1>1, <2>5, <3>1, ShapeStays DEF ShrinkingInv
    <3>5. SuspendedInv'  BY <1>1, <2>1, <3>1, SuspendedStays
    <3>6. IF Native!Same' THEN SlidingInv' ELSE IF Advancing' THEN GrowingInv' ELSE ShrinkingInv'
      BY <1>1, <2>1, <3>2, <3>3, <3>4, ShapeStays
    <3> QED  BY <3>1, <3>5, <3>6 DEF ChildInv
  <2>9. CASE Ends
    <3>1. more' = more /\ more = 0 /\ Advancing /\ pc' = "lift"
      BY <1>2, <2>1, <2>9
    <3>2. progress >= Native!NeedBackup  BY <2>1, <3>1
    <3>3. recorded <= pos  BY <2>1, <3>1 DEF RowsKnown
    <3>4. ASSUME Native!Same
          PROVE  /\ pos = Native!Last /\ ~ Native!Full(0) /\ ~ Native!Full(1)
      <4>1. Native!NeedBackup = size * before /\ before = after /\ size * before \in Nat
            /\ Native!Last = size * after
        BY <3>1, <3>4, Names DEF Native!NeedBackup, Native!Same
      <4>2. progress <= recorded /\ pos <= backupPoint /\ \A p \in Native!Half : hdr[p].hi <= backupPoint
        BY <2>1, <3>4 DEF SlidingInv
      <4>3. pos = Native!Last  BY <1>3, <3>2, <3>3, <4>1, <4>2
      <4>4. \A x \in {0, 1} : hdr[x].hi <= progress  BY <1>3, <2>2, <3>2, <4>1, <4>2
      <4> QED  BY <2>3, <3>1, <4>3, <4>4
    <3>5. ASSUME ~ Native!Same PROVE recorded >= b
      <4>1. progress >= b  BY <3>2, <3>5 DEF Native!NeedBackup, b
      <4>2. part = 1  BY <1>3, <2>1, <3>1, <3>5, <4>1 DEF GrowingInv
      <4>3. progress <= recorded  BY <2>1, <2>7, <3>1, <3>5, <4>2 DEF GrowingInv
      <4> QED  BY <1>3, <4>1, <4>3
    <3>6. Native!Backed = {}  BY <2>2, <2>6, <2>7, <3>1, <3>4
    <3>7. Native!Backed' = {}  BY <1>1, <3>6, HeaderStays
    <3>8. Free'  BY <1>1, <3>1, <3>4, <3>5, ShapeStays DEF Free, b
    <3> QED  BY <2>1, <3>1, <3>7, <3>8 DEF ChildInv, Watching, Stopping
  <2> QED  BY <2>8, <2>9
<1>6. pc' \in {"lift", "backup", "resume"}  BY <1>2
<1> QED  BY <1>1, <1>4, <1>5, <1>6, ChildMoves DEF Restarting

\* Nothing more can be backed up before more is suspended.
LEMMA NoMoreBackupKeeps ==
  ASSUME BackupTypes, BackupInv, Native!NoMoreBackup
  PROVE  BackupTypes' /\ BackupInv'
<1>1. /\ pc = "backup" /\ pc' = "resume" /\ UNCHANGED shapeVars
      /\ UNCHANGED <<rows, active, recorded, up, reshaping, pos, busy, syncMax, suspendLo, suspendHi>>
      /\ UNCHANGED <<progress, backupPoint, suspendPoint, part, maxProgress, more>>
      /\ UNCHANGED <<hdr, two, held, crashes>>
  BY DEF Native!NoMoreBackup, Native!kernelVars, Native!shapeVars, shapeVars, Native!diskVars,
         Native!driveVars, Native!suspVars, Native!backupVars
<1>2. BackupTypes'
  <2>1. progress \in 0..(size * after) /\ backupPoint \in 0..(size * before)
        /\ suspendPoint \in 0..(size * before) /\ maxProgress \in 0..size /\ part \in {0, 1}
    BY Positions, Names DEF BackupTypes
  <2> QED  BY <1>1, <2>1, TypesStay DEF BackupTypes, Native!TypeOK
<1>3. active => ChildInv'
  <2> SUFFICES ASSUME active PROVE ChildInv'  OBVIOUS
  <2>1. SuspendedInv /\ IF Native!Same THEN SlidingInv ELSE IF Advancing THEN GrowingInv ELSE ShrinkingInv
    BY <1>1, RunningAt DEF ChildInv, Watching
  <2>2. SuspendedInv'  BY <1>1, <2>1, SuspendedStays
  <2>3. IF Native!Same' THEN SlidingInv' ELSE IF Advancing' THEN GrowingInv' ELSE ShrinkingInv'
    BY <1>1, <2>1, ModeStays, ShapeStays
  <2> QED  BY <1>1, <2>2, <2>3 DEF ChildInv, Watching, Stopping
<1> QED  BY <1>1, <1>2, <1>3, ChildMoves DEF Restarting

\* The end of the child: nothing is suspended any more.
LEMMA LiftKeeps ==
  ASSUME BackupTypes, BackupInv, Native!LiftSuspension
  PROVE  BackupTypes' /\ BackupInv'
<1>1. /\ pc = "lift" /\ pc' = (IF more = -2 THEN "abort" ELSE "unlink") /\ UNCHANGED shapeVars
      /\ UNCHANGED <<rows, active, recorded, up, reshaping, pos, busy, syncMax>>
      /\ suspendLo' = 0 /\ suspendHi' = 0
      /\ UNCHANGED <<progress, backupPoint, suspendPoint, part, maxProgress, more>>
      /\ UNCHANGED <<hdr, two, held, crashes>>
  BY DEF Native!LiftSuspension, Native!shapeVars, shapeVars, Native!diskVars,
         Native!driveVars, Native!backupVars
<1>2. BackupTypes'
  <2>1. progress \in 0..(size * after) /\ backupPoint \in 0..(size * before)
        /\ suspendPoint \in 0..(size * before) /\ maxProgress \in 0..size /\ part \in {0, 1}
    BY Positions, Names DEF BackupTypes
  <2> QED  BY <1>1, <2>1, TypesStay DEF BackupTypes, Native!TypeOK
<1>3. active => ChildInv'
  <2> SUFFICES ASSUME active PROVE ChildInv'  OBVIOUS
  <2>1. CASE more = -2
    <3>1. IF Native!Same THEN SlidingInv ELSE IF Advancing THEN GrowingInv ELSE ShrinkingInv
      BY <1>1, <2>1, RunningAt DEF ChildInv, Stopping
    <3>2. IF Native!Same' THEN SlidingInv' ELSE IF Advancing' THEN GrowingInv' ELSE ShrinkingInv'
      BY <1>1, <2>1, <3>1, ModeStays, ShapeStays
    <3> QED  BY <1>1, <2>1, <3>2 DEF ChildInv, Watching
  <2>2. CASE more # -2
    <3>1. Native!Backed = {} /\ Free  BY <1>1, <2>2, RunningAt DEF ChildInv
    <3>2. Native!Backed' = {}  BY <1>1, <3>1, HeaderStays
    <3>3. Free'  BY <1>1, <3>1, ShapeStays DEF Free
    <3> QED  BY <1>1, <2>2, <3>2, <3>3 DEF ChildInv, Watching, Stopping
  <2> QED  BY <2>1, <2>2
<1> QED  BY <1>1, <1>2, <1>3, ChildMoves DEF Restarting

\* A child that was told to terminate stops the reshape.
LEMMA AbortKeeps ==
  ASSUME BackupTypes, BackupInv, Native!AbortReshape
  PROVE  BackupTypes' /\ BackupInv'
<1>1. /\ pc = "abort" /\ pc' = "aborted" /\ UNCHANGED shapeVars
      /\ UNCHANGED <<rows, active, recorded, up, pos, busy, syncMax>>
      /\ suspendLo' = 0 /\ suspendHi' = 0 /\ reshaping' = FALSE
      /\ UNCHANGED <<progress, backupPoint, suspendPoint, part, maxProgress, more>>
      /\ UNCHANGED <<hdr, two, held, crashes>>
  BY DEF Native!AbortReshape, Native!shapeVars, shapeVars, Native!diskVars, Native!backupVars
<1>2. BackupTypes'
  <2>1. progress \in 0..(size * after) /\ backupPoint \in 0..(size * before)
        /\ suspendPoint \in 0..(size * before) /\ maxProgress \in 0..size /\ part \in {0, 1}
    BY Positions, Names DEF BackupTypes
  <2> QED  BY <1>1, <2>1, TypesStay DEF BackupTypes, Native!TypeOK
<1>3. active => ChildInv'
  <2> SUFFICES ASSUME active PROVE ChildInv'  OBVIOUS
  <2>1. IF Native!Same THEN SlidingInv ELSE IF Advancing THEN GrowingInv ELSE ShrinkingInv
    BY <1>1, RunningAt DEF ChildInv, Stopping
  <2>2. IF Native!Same' THEN SlidingInv' ELSE IF Advancing' THEN GrowingInv' ELSE ShrinkingInv'
    BY <1>1, <2>1, ModeStays, ShapeStays
  <2> QED  BY <1>1, <2>2 DEF ChildInv, Watching
<1> QED  BY <1>1, <1>2, <1>3, ChildMoves DEF Restarting

\* The child has removed the backup file.
LEMMA UnlinkKeeps ==
  ASSUME BackupTypes, BackupInv, Native!UnlinkBackup
  PROVE  BackupTypes' /\ BackupInv'
<1>1. /\ pc = "unlink" /\ pc' = "done" /\ UNCHANGED shapeVars
      /\ UNCHANGED <<rows, active, recorded, up, reshaping, pos, busy, syncMax, suspendLo, suspendHi>>
      /\ progress' = 0 /\ backupPoint' = 0 /\ suspendPoint' = 0 /\ part' = 0
      /\ maxProgress' = 0 /\ more' = 0 /\ crashes' = crashes
      /\ hdr' = [p \in Native!Half |-> Native!Empty] /\ two' = FALSE
      /\ held' = [p \in Native!Half |-> {}]
  BY DEF Native!UnlinkBackup, Native!WipeBackup, Native!NoChild, Native!kernelVars,
         Native!shapeVars, shapeVars, Native!diskVars, Native!driveVars, Native!suspVars
<1>2. 0 \in 0..(size * after) /\ 0 \in 0..(size * before) /\ 0 \in 0..size
  BY Names DEF BackupTypes
<1>3. \A q \in {0, 1} : /\ hdr'[q] = Native!Empty /\ hdr'[q].lo = 0 /\ hdr'[q].hi = 0
                        /\ ~ Native!Full(q)'
  BY <1>1 DEF Native!Half, Native!Empty, Native!Full
<1>4. Native!Half = {0, 1} /\ Native!Half' = {0, 1} /\ Native!Empty' = Native!Empty
  BY <1>1, ShapeStays DEF Native!Half
<1>5. BackupTypes'
  <2>1. Native!Empty \in [lo : 0..(size * before), hi : 0..(size * before)]
    BY <1>2 DEF Native!Empty
  <2>2. hdr' \in [Native!Half -> [lo : 0..(size * before), hi : 0..(size * before)]]
        /\ held' \in [Native!Half -> SUBSET Native!Addr]
    BY <1>1, <2>1
  <2> QED  BY <1>1, <1>2, <2>2, TypesStay DEF BackupTypes, Native!TypeOK
<1>6. CASE ~ active  BY <1>1, <1>5, <1>6, OverStays DEF Restarting
<1>7. CASE active
  <2>1. Native!Backed = {} /\ Free /\ HeaderInv /\ RowsKnown /\ RestartInv
    BY <1>1, <1>7, RunningAt DEF ChildInv
  <2>2. Native!Backed' = {} /\ Kept' = {} /\ ~ Native!Usable'
    <3>1. Native!Backed' = {}  BY <1>3, <1>4 DEF Native!Backed
    <3> QED  BY <3>1 DEF Kept, Native!Usable
  <2>3. Kept = {}  BY <2>1 DEF Kept
  <2>4. RowsKnown'
    <3>1. Native!NextRow' = Native!NextRow  BY <1>1, ShapeStays DEF Native!NextRow
    <3> QED  BY <1>1, <2>1, <2>2, <2>3, <3>1, ShapeStays DEF RowsKnown
  <2>5. Free'  BY <1>1, <2>1, ShapeStays DEF Free
  <2>6. HeaderInv'
    <3>1. AtRow(0)'  BY <1>1, ShapeStays, Positions DEF AtRow
    <3>2. \A q \in Native!Half' : AtRow(hdr[q].lo)' /\ AtRow(hdr[q].hi)'
      BY <1>3, <1>4, <3>1 DEF AtRow
    <3>3. ~ Native!Same' => recorded' >= Native!BackupBlocks'
      BY <1>1, <2>1, ShapeStays DEF Free
    <3>4. ~ Native!Full(0)' /\ ~ Native!Full(1)' /\ hdr[0]' = Native!Empty' /\ hdr[1]' = Native!Empty'
          /\ \A q \in Native!Half' : hdr[q]' = Native!Empty'
      BY <1>3, <1>4
    <3> QED  BY <1>1, <2>2, <3>2, <3>3, <3>4 DEF HeaderInv
  <2>7. ChildInv'  BY <1>1, <2>5 DEF ChildInv, Watching, Stopping
  <2>8. RestartInv'  BY <1>1, <2>1 DEF RestartInv, Restarting
  <2> QED  BY <1>1, <1>5, <1>7, <2>4, <2>6, <2>7, <2>8 DEF BackupInv
<1> QED  BY <1>6, <1>7 DEF BackupTypes, Native!TypeOK

\* What is to be backed up depends on these.
LEMMA RangeStays ==
  ASSUME UNCHANGED shapeVars, UNCHANGED <<backupPoint, suspendPoint, part, hdr>>
  PROVE  /\ Native!BackupRange' = Native!BackupRange /\ Native!CanBackup' = Native!CanBackup
         /\ Native!Range(Native!BackupRange)' = Native!Range(Native!BackupRange)
<1>1. Native!BackupRows' = Native!BackupRows
  BY ShapeStays DEF Native!BackupRows, Native!Least, Native!Most
<1>2. Native!BackupRange' = Native!BackupRange  BY <1>1, ShapeStays DEF Native!BackupRange
<1>3. \A p : Native!Full(p)' = Native!Full(p)  BY DEF Native!Full
<1>4. Native!CanBackup' = Native!CanBackup  BY <1>1, <1>3, ShapeStays DEF Native!CanBackup
<1>5. Native!Range(Native!BackupRange)' = Native!Range(Native!BackupRange)
  BY <1>2, ShapeStays DEF Native!Range
<1> QED  BY <1>2, <1>4, <1>5

\* What is backed up: the rows that follow the newer half, or the first unit.
LEMMA BackupRangeIs ==
  ASSUME BackupTypes, HeaderInv, SuspendedInv, pc \in {"backup", "header"}, Native!CanBackup,
         IF Native!Same THEN SlidingInv ELSE IF Advancing THEN GrowingInv ELSE ShrinkingInv
  PROVE  /\ Native!BackupRange \in [lo : 0..(size * before), hi : 0..(size * before)]
         /\ Native!BackupRange.lo \in Nat /\ Native!BackupRange.hi \in Nat
         /\ Native!BackupRange.lo < Native!BackupRange.hi
         /\ Native!BackupRange.hi <= size * before
         /\ Native!Same => /\ Native!BackupRange.lo = backupPoint /\ AtRow(Native!BackupRange.hi)
                           /\ Native!BackupRange.hi <= suspendPoint
         /\ ~ Native!Same => /\ part = 0 /\ Native!BackupRange = FirstUnit
                             /\ suspendPoint = (IF Advancing THEN Native!BackupBlocks ELSE 0)
         /\ ~ Native!Full(part)
<1> USE DEF BackupTypes
<1> DEFINE f == backupPoint \div before
           s == Native!Stripes
           l == Native!BackupRows.lo
           h == Native!BackupRows.hi
           d == suspendPoint \div before
<1>1. /\ ~ Native!Full(part) /\ l < h
      /\ (IF Native!Advancing THEN h <= d ELSE l >= d)
  BY DEF Native!CanBackup
<1>2. Native!BackupRange = [lo |-> l * before, hi |-> h * before]  BY DEF Native!BackupRange
<1>3. /\ l = (IF Native!Advancing THEN f ELSE Native!Most(f - s, 0))
      /\ h = (IF Native!Advancing THEN Native!Least(f + s, size) ELSE f)
  BY DEF Native!BackupRows
<1>4. (Native!Advancing <=> after >= before) /\ (Advancing <=> after >= before)
      /\ size * before \in Nat
  BY Names
<1>5. /\ backupPoint \in Nat /\ suspendPoint \in Nat /\ part \in {0, 1}
      /\ backupPoint <= size * before /\ suspendPoint <= size * before
      /\ (size * before) \div before = size /\ 0 \div before = 0
  <2>1. (size * before) \div before = size /\ 0 \div before = 0
    <3>1. (size + 1) * before = size * before + before /\ (0 + 1) * before = before /\ 0 * before = 0
      BY Times
    <3> QED  BY <1>4, <3>1, QuotientIs
  <2> QED  BY <2>1, Positions
<1>6. /\ f \in Nat /\ f * before <= backupPoint /\ d \in Nat /\ d * before <= suspendPoint
      /\ suspendPoint < (d + 1) * before
  BY <1>5, Quotient
<1>7. s \in Nat /\ (~ Native!Same => s = Native!BackupBlocks \div before)
  <2>1. Native!Blocks \in Nat
    BY UnitIs, LargerAssumption, Times DEF Native!Blocks
  <2>2. s \in Nat  BY <2>1, Quotient DEF Native!Stripes
  <2> QED  BY <2>2 DEF Native!Stripes, Native!Blocks
<1>8. PICK n \in Nat \ {0} : Native!BackupBlocks = n * before /\ Native!BackupBlocks \div before = n
  BY UnitIs
<1>9. n < size /\ Native!BackupBlocks \in Nat \ {0} /\ Native!BackupBlocks <= size * before
  BY <1>8, UnitFits, UnitIs
<1> HIDE DEF f, s, l, h, d
<1>10. l \in Nat /\ h \in Nat /\ h <= size
  <2>1. CASE Native!Advancing  BY <1>3, <1>6, <1>7, <2>1 DEF Native!Least
  <2>2. CASE ~ Native!Advancing
    <3>1. f * before <= size * before  BY <1>4, <1>5, <1>6, Times
    <3>2. ~ size < f
      <4> SUFFICES ASSUME size < f PROVE FALSE  OBVIOUS
      <4>1. (size + 1) * before <= f * before /\ (size + 1) * before = size * before + before
        BY <1>6, Times
      <4>2. f * before \in Nat  BY <1>6, Times
      <4> QED  BY <1>4, <3>1, <4>1, <4>2
    <3> QED  BY <1>3, <1>6, <1>7, <2>2, <3>2 DEF Native!Most
  <2> QED  BY <2>1, <2>2
<1>11. l * before \in Nat /\ h * before \in Nat /\ l * before < h * before /\ h * before <= size * before
  <2>1. l * before \in Nat /\ h * before \in Nat /\ h * before <= size * before  BY <1>10, Times
  <2>2. (l + 1) * before = l * before + before /\ (l + 1) * before <= h * before
    BY <1>1, <1>10, Times
  <2> QED  BY <2>1, <2>2
<1>12. ASSUME Native!Same
       PROVE  l * before = backupPoint /\ AtRow(h * before) /\ h * before <= suspendPoint
  <2>1. before = after /\ Native!Advancing /\ AtRow(backupPoint)
    BY <1>4, <1>12 DEF Native!Same, SlidingInv
  <2>2. l = f /\ h <= d  BY <1>1, <1>3, <2>1
  <2>3. f * before = backupPoint  BY <2>1 DEF AtRow, f
  <2>4. h * before <= d * before /\ d * before \in Nat  BY <1>6, <1>10, <2>2, Times
  <2>5. AtRow(h * before)  BY <1>10, <2>1, RowIsAt
  <2> QED  BY <1>5, <1>6, <1>11, <2>2, <2>3, <2>4, <2>5
<1>13. ASSUME ~ Native!Same, Advancing
       PROVE  part = 0 /\ l = 0 /\ h = n /\ suspendPoint = Native!BackupBlocks
  <2>1. backupPoint = part * Native!BackupBlocks  BY <1>13 DEF GrowingInv
  <2>2. suspendPoint \in {0, Native!BackupBlocks}  BY <1>13 DEF SuspendedInv
  <2>3. d \in {0, n}  BY <1>5, <1>8, <2>2 DEF d
  <2>4. l = f /\ h = Native!Least(f + n, size) /\ h <= d  BY <1>1, <1>3, <1>4, <1>7, <1>8, <1>13
  <2>5. part = 0
    <3> SUFFICES ASSUME part = 1 PROVE FALSE  BY <1>5
    <3>1. backupPoint = Native!BackupBlocks  BY <1>9, <2>1
    <3>2. f = n  BY <1>8, <3>1 DEF f
    <3> QED  BY <1>1, <2>3, <2>4, <3>2, <1>10
  <2>6. f = 0
    <3>1. backupPoint = 0  BY <1>9, <2>1, <2>5
    <3> QED  BY <1>5, <3>1 DEF f
  <2>7. h = n  BY <1>9, <2>4, <2>6 DEF Native!Least
  <2>8. d = n  BY <1>1, <2>3, <2>4, <2>6, <2>7
  <2>9. suspendPoint # 0  BY <1>5, <2>8 DEF d
  <2> QED  BY <2>2, <2>4, <2>5, <2>6, <2>7, <2>9
<1>14. ASSUME ~ Native!Same, ~ Advancing
       PROVE  part = 0 /\ l = 0 /\ h = n /\ suspendPoint = 0
  <2>1. backupPoint = (1 - part) * Native!BackupBlocks  BY <1>14 DEF ShrinkingInv
  <2>2. suspendPoint \in {0, size * before}  BY <1>14 DEF SuspendedInv
  <2>3. l = Native!Most(f - n, 0) /\ h = f /\ l >= d  BY <1>1, <1>3, <1>4, <1>7, <1>8, <1>14
  <2>4. part = 0
    <3> SUFFICES ASSUME part = 1 PROVE FALSE  BY <1>5
    <3>1. backupPoint = 0  BY <1>9, <2>1
    <3>2. f = 0  BY <1>5, <3>1 DEF f
    <3> QED  BY <1>1, <1>10, <2>3, <3>2
  <2>5. f = n
    <3>1. backupPoint = Native!BackupBlocks  BY <1>9, <2>1, <2>4
    <3> QED  BY <1>8, <3>1 DEF f
  <2>6. l = 0  BY <2>3, <2>5 DEF Native!Most
  <2>7. d = 0  BY <1>6, <2>3, <2>6
  <2>8. suspendPoint # size * before  BY <1>5, <2>7 DEF d
  <2> QED  BY <2>2, <2>3, <2>4, <2>5, <2>6, <2>8
<1>15. ~ Native!Same => Native!BackupRange = FirstUnit
  <2> SUFFICES ASSUME ~ Native!Same PROVE Native!BackupRange = FirstUnit  OBVIOUS
  <2>1. l = 0 /\ h = n  BY <1>13, <1>14
  <2>2. l * before = 0 /\ h * before = Native!BackupBlocks  BY <1>8, <2>1
  <2> QED  BY <1>2, <2>2 DEF FirstUnit
<1>16. Native!BackupRange.lo = l * before /\ Native!BackupRange.hi = h * before  BY <1>2
<1>17. l * before \in 0..(size * before) /\ h * before \in 0..(size * before)  BY <1>4, <1>11
<1>18. Native!BackupRange \in [lo : 0..(size * before), hi : 0..(size * before)]
  BY <1>2, <1>17
<1> QED  BY <1>1, <1>11, <1>12, <1>13, <1>14, <1>15, <1>16, <1>18

\* What is about to be backed up was not moved, and is not in the backup yet: it is old.
LEMMA ToBackUpIsOld ==
  ASSUME BackupTypes, BackupInv, active, pc \in {"backup", "header"}, Native!CanBackup,
         pos # Native!Last, NEW a \in Native!Range(Native!BackupRange)
  PROVE  rows[Native!OldRow(a)] = "old" /\ ~ Native!Moved(a, pos)
<1> DEFINE g == Native!BackupRange
           b == Native!BackupBlocks
<1>1. /\ SuspendedInv /\ HeaderInv /\ RowsKnown
      /\ IF Native!Same THEN SlidingInv ELSE IF Advancing THEN GrowingInv ELSE ShrinkingInv
  BY RunningAt DEF ChildInv, Watching
<1>2. /\ g.lo \in Nat /\ g.hi \in Nat /\ ~ Native!Full(part)
      /\ Native!Same => g.lo = backupPoint
      /\ ~ Native!Same => part = 0 /\ g = FirstUnit
  BY <1>1, BackupRangeIs
<1>3. a \in Native!Addr /\ g.lo <= a /\ a < g.hi  BY DEF Native!Range
<1>4. a \in Nat /\ pos \in Nat /\ recorded \in Nat /\ backupPoint \in Nat
      /\ b \in Nat \ {0} /\ Native!Last = (IF Advancing THEN size * after ELSE 0)
  BY <1>3, Places, Positions, UnitIs, Names
<1>5. \A x \in {0, 1} : /\ hdr[x].lo \in Nat /\ hdr[x].hi \in Nat
                        /\ Native!Full(x) <=> hdr[x].lo < hdr[x].hi
                        /\ hdr[x] = Native!Empty => ~ Native!Full(x)
  BY <1>1, KeptIs
<1>6. a \in Kept <=> \E x \in {0, 1} : hdr[x].lo <= a /\ a < hdr[x].hi
  BY <1>1, <1>3, KeptIs
<1>7. Native!Same => Advancing  BY Names DEF Native!Same, BackupTypes
<1>8. Native!Half = {0, 1}  BY DEF Native!Half
<1>9. (IF Advancing THEN recorded <= pos ELSE pos <= recorded)  BY <1>1 DEF RowsKnown
<1> HIDE DEF g, b
<1>10. a \notin Kept
  <2>1. CASE Native!Same
    <3>1. \A x \in {0, 1} : hdr[x].hi <= backupPoint  BY <1>1, <1>8, <2>1 DEF SlidingInv
    <3> QED  BY <1>2, <1>3, <1>4, <1>5, <1>6, <2>1, <3>1
  <2>2. CASE ~ Native!Same
    <3>1. ~ Native!Full(0)  BY <1>2, <2>2
    <3>2. ~ Native!Full(1)  BY <1>1, <1>5, <2>2 DEF HeaderInv
    <3>3. \A x \in {0, 1} : ~ hdr[x].lo < hdr[x].hi  BY <1>5, <3>1, <3>2
    <3> QED  BY <1>4, <1>5, <1>6, <3>3
  <2> QED  BY <2>1, <2>2
<1>11. IF Advancing THEN pos <= a ELSE a < pos
  <2>1. CASE Native!Same
    <3>1. pos <= backupPoint  BY <1>1, <2>1 DEF SlidingInv
    <3> QED  BY <1>2, <1>3, <1>4, <1>7, <2>1, <3>1
  <2>2. CASE ~ Native!Same /\ Advancing
    <3>1. pos = 0  BY <1>1, <1>2, <2>2 DEF GrowingInv
    <3> QED  BY <1>4, <2>2, <3>1
  <2>3. CASE ~ Native!Same /\ ~ Advancing
    <3>1. pos >= b  BY <1>1, <1>2, <1>4, <2>3 DEF ShrinkingInv, b
    <3>2. g.hi = b  BY <1>2, <2>3 DEF FirstUnit, b
    <3> QED  BY <1>3, <1>4, <2>3, <3>1, <3>2
  <2> QED  BY <2>1, <2>2, <2>3
<1>12. IF Advancing THEN recorded <= a ELSE a < recorded  BY <1>4, <1>9, <1>11
<1>13. ~ Native!Moved(a, pos) /\ ~ Native!Moved(a, recorded)  BY <1>4, <1>11, <1>12, Names
<1> QED  BY <1>1, <1>3, <1>10, <1>13 DEF RowsKnown

\* The rows are copied to the half that is not in use.
LEMMA SaveDataKeeps ==
  ASSUME BackupTypes, BackupInv, Native!SaveData
  PROVE  BackupTypes' /\ BackupInv'
<1> DEFINE N == {a \in Native!Range(Native!BackupRange) :
                    rows[Native!OldRow(a)] = "old" /\ ~ Native!Moved(a, pos)}
<1>1. /\ pc = "backup" /\ pc' = "header" /\ Native!CanBackup /\ UNCHANGED shapeVars
      /\ UNCHANGED <<rows, active, recorded, up, reshaping, pos, busy, syncMax, suspendLo, suspendHi>>
      /\ UNCHANGED <<progress, backupPoint, suspendPoint, part, maxProgress, more>>
      /\ UNCHANGED <<hdr, two, crashes>> /\ held' = [held EXCEPT ![part] = N]
  BY DEF Native!SaveData, Native!kernelVars, Native!shapeVars, shapeVars, Native!diskVars,
         Native!driveVars, Native!suspVars
<1>2. held \in [Native!Half -> SUBSET Native!Addr] /\ part \in Native!Half
  BY DEF BackupTypes, Native!TypeOK
<1>3. N \subseteq Native!Addr  BY DEF Native!Range
<1> HIDE DEF N
<1>4. /\ held' \in [Native!Half -> SUBSET Native!Addr]
      /\ held'[part] = N /\ \A p \in Native!Half : p # part => held'[p] = held[p]
  BY <1>1, <1>2, <1>3
<1>5. BackupTypes'
  <2>1. progress \in 0..(size * after) /\ backupPoint \in 0..(size * before)
        /\ suspendPoint \in 0..(size * before) /\ maxProgress \in 0..size /\ part \in {0, 1}
    BY Positions, Names DEF BackupTypes
  <2> QED  BY <1>1, <1>4, <2>1, TypesStay DEF BackupTypes, Native!TypeOK
<1>6. CASE ~ active  BY <1>1, <1>5, <1>6, OverStays DEF Restarting
<1>7. CASE active
  <2>1. /\ SuspendedInv /\ HeaderInv /\ RowsKnown /\ RestartInv
        /\ IF Native!Same THEN SlidingInv ELSE IF Advancing THEN GrowingInv ELSE ShrinkingInv
    BY <1>1, <1>7, RunningAt DEF ChildInv, Watching
  <2>2. RowsKnown'  BY <1>1, <2>1, RowsStay
  <2>3. pos # Native!Last => Native!Range(Native!BackupRange) \subseteq N
    BY <1>1, <1>7, ToBackUpIsOld DEF N
  <2>4. HeaderInv'
    <3>1. /\ \A p : Native!Full(p)' = Native!Full(p)
          /\ Native!Backed' = Native!Backed /\ Native!Usable' = Native!Usable
          /\ Native!Covered' = Native!Covered
      BY <1>1, HeaderStays
    <3>2. \A p \in Native!Backed : held'[p] = held[p]
      <4> TAKE p \in Native!Backed
      <4>1. p \in Native!Half /\ Native!Full(p)  BY DEF Native!Backed
      <4>2. ~ Native!Full(part)  BY <1>1 DEF Native!CanBackup
      <4> QED  BY <1>4, <4>1, <4>2
    <3>3. Native!Usable =>
            /\ Native!Covered.lo <= recorded /\ recorded <= Native!Covered.hi
            /\ \A p \in Native!Backed : Native!Range(hdr[p]) \subseteq held'[p]
      BY <2>1, <3>2 DEF HeaderInv
    <3> QED  BY <1>1, <2>1, <3>1, <3>3, ShapeStays DEF HeaderInv, AtRow
  <2>5. SuspendedInv'
    <3>1. Native!CanBackup'
          /\ Native!Range(Native!BackupRange)' = Native!Range(Native!BackupRange)
      BY <1>1, RangeStays
    <3>2. pos # Native!Last => Native!Range(Native!BackupRange) \subseteq held'[part]
      BY <1>4, <2>3
    <3>3. \A p : Native!Full(p)' = Native!Full(p)  BY <1>1, HeaderStays
    <3> QED  BY <1>1, <2>1, <3>1, <3>2, <3>3, ShapeStays DEF SuspendedInv
  <2>6. IF Native!Same' THEN SlidingInv' ELSE IF Advancing' THEN GrowingInv' ELSE ShrinkingInv'
    BY <1>1, <2>1, ModeStays, ShapeStays
  <2>7. ChildInv'  BY <1>1, <2>5, <2>6 DEF ChildInv, Watching, Stopping
  <2>8. RestartInv'  BY <1>1, <2>1 DEF RestartInv, Restarting
  <2> QED  BY <1>1, <1>5, <1>7, <2>2, <2>4, <2>7, <2>8 DEF BackupInv
<1> QED  BY <1>6, <1>7 DEF BackupTypes, Native!TypeOK

\* The rows to back up are rows.
LEMMA BackupRangeFits ==
  ASSUME BackupTypes
  PROVE  Native!BackupRange \in [lo : 0..(size * before), hi : 0..(size * before)]
<1> USE DEF BackupTypes
<1> DEFINE f == backupPoint \div before
           s == Native!Stripes
           l == Native!BackupRows.lo
           h == Native!BackupRows.hi
<1>1. Native!BackupRange = [lo |-> l * before, hi |-> h * before]  BY DEF Native!BackupRange
<1>2. /\ l = (IF Native!Advancing THEN f ELSE Native!Most(f - s, 0))
      /\ h = (IF Native!Advancing THEN Native!Least(f + s, size) ELSE f)
  BY DEF Native!BackupRows
<1>3. backupPoint \in Nat /\ backupPoint <= size * before /\ size * before \in Nat
  BY Positions, Names
<1>4. f \in Nat /\ f * before <= backupPoint  BY <1>3, Quotient
<1>5. s \in Nat
  <2>1. Native!Blocks \in Nat
    BY UnitIs, LargerAssumption, Times DEF Native!Blocks
  <2> QED  BY <2>1, Quotient DEF Native!Stripes
<1> HIDE DEF f, s, l, h
<1>6. f <= size
  <2> SUFFICES ASSUME size < f PROVE FALSE  BY <1>4
  <2>1. (size + 1) * before <= f * before /\ (size + 1) * before = size * before + before
    BY <1>4, Times
  <2>2. f * before \in Nat  BY <1>4, Times
  <2> QED  BY <1>3, <1>4, <2>1, <2>2
<1>7. l \in Nat /\ h \in Nat /\ l <= size /\ h <= size
  <2>1. CASE Native!Advancing  BY <1>2, <1>4, <1>5, <1>6, <2>1 DEF Native!Least
  <2>2. CASE ~ Native!Advancing  BY <1>2, <1>4, <1>5, <1>6, <2>2 DEF Native!Most
  <2> QED  BY <2>1, <2>2
<1>8. l * before \in Nat /\ h * before \in Nat
      /\ l * before <= size * before /\ h * before <= size * before
  BY <1>7, Times
<1>9. l * before \in 0..(size * before) /\ h * before \in 0..(size * before)  BY <1>3, <1>8
<1> QED  BY <1>1, <1>9

\* The header says what the half holds: from here on a restart would use it.
LEMMA WriteHeaderKeeps ==
  ASSUME BackupTypes, BackupInv, Native!WriteHeader
  PROVE  BackupTypes' /\ BackupInv'
<1> DEFINE g == Native!BackupRange
           b == Native!BackupBlocks
           e == IF Advancing THEN g.hi ELSE g.lo
<1>0. PICK p \in {0, 1}, q \in {0, 1} : p = part /\ q = 1 - part
  <2>1. part \in {0, 1} /\ 1 - part \in {0, 1}  BY Positions
  <2> QED  BY <2>1
<1>1. /\ pc = "header" /\ pc' = "backup" /\ UNCHANGED shapeVars
      /\ UNCHANGED <<rows, active, recorded, up, reshaping, pos, busy, syncMax, suspendLo, suspendHi>>
      /\ UNCHANGED <<progress, suspendPoint, maxProgress, more>>
      /\ UNCHANGED <<held, crashes>>
      /\ hdr' = [hdr EXCEPT ![p] = g] /\ two' = (two \/ p = 1)
      /\ part' = q /\ backupPoint' = e
  BY <1>0, Names DEF Native!WriteHeader, Native!kernelVars, Native!shapeVars, shapeVars, Native!diskVars,
         Native!driveVars, Native!suspVars
<1>2. p \in {0, 1} /\ q \in {0, 1} /\ q # p /\ Native!Half = {0, 1} /\ Native!Half' = {0, 1}
      /\ 1 - q = p /\ p = part /\ q = 1 - part /\ (p = 0 => q = 1) /\ (p = 1 => q = 0)
  BY <1>0, <1>1, ShapeStays DEF Native!Half
<1>3. /\ hdr \in [Native!Half -> [lo : 0..(size * before), hi : 0..(size * before)]]
      /\ size * before \in Nat /\ two \in BOOLEAN
      /\ g \in [lo : 0..(size * before), hi : 0..(size * before)]
  BY Names, BackupRangeFits DEF BackupTypes, Native!TypeOK
<1>4. /\ progress \in Nat /\ recorded \in Nat /\ pos \in Nat /\ backupPoint \in Nat
      /\ suspendPoint \in Nat /\ b \in Nat \ {0} /\ AtRow(0) /\ syncMax \in Nat
      /\ Native!Last = (IF Advancing THEN size * after ELSE 0) /\ size * after \in Nat \ {0}
  BY Positions, UnitIs, Names
<1>5. /\ g.lo \in Nat /\ g.hi \in Nat /\ e \in 0..(size * before)
  BY <1>3
<1> HIDE DEF g, b, e
<1>6. hdr'[p] = g /\ hdr'[q] = hdr[q]
      /\ hdr' \in [Native!Half -> [lo : 0..(size * before), hi : 0..(size * before)]]
  BY <1>1, <1>2, <1>3
<1>7. BackupTypes'
  <2>1. progress \in 0..(size * after)
        /\ suspendPoint \in 0..(size * before) /\ maxProgress \in 0..size
    BY Positions, Names DEF BackupTypes
  <2>2. two' \in BOOLEAN  BY <1>1
  <2> QED  BY <1>1, <1>2, <1>5, <1>6, <2>1, <2>2, TypesStay DEF BackupTypes, Native!TypeOK
<1>8. CASE ~ active  BY <1>1, <1>7, <1>8, OverStays DEF Restarting
<1>9. CASE active
  <2>1. /\ SuspendedInv /\ HeaderInv /\ RowsKnown /\ RestartInv /\ Native!CanBackup
        /\ IF Native!Same THEN SlidingInv ELSE IF Advancing THEN GrowingInv ELSE ShrinkingInv
        /\ pos # Native!Last => Native!Range(g) \subseteq held[p]
    BY <1>0, <1>1, <1>9, RunningAt DEF ChildInv, Watching, SuspendedInv, g
  <2>2. /\ g.lo < g.hi /\ g.hi <= size * before
        /\ Native!Same => g.lo = backupPoint /\ AtRow(g.hi) /\ g.hi <= suspendPoint
        /\ ~ Native!Same => /\ p = 0 /\ g = FirstUnit /\ g.lo = 0 /\ g.hi = b
                            /\ suspendPoint = (IF Advancing THEN b ELSE 0)
        /\ ~ Native!Full(p)
    <3>1. /\ g.lo < g.hi /\ g.hi <= size * before
          /\ Native!Same => g.lo = backupPoint /\ AtRow(g.hi) /\ g.hi <= suspendPoint
          /\ ~ Native!Same => /\ p = 0 /\ g = FirstUnit
                              /\ suspendPoint = (IF Advancing THEN b ELSE 0)
          /\ ~ Native!Full(p)
      BY <1>0, <1>1, <2>1, BackupRangeIs DEF g, b
    <3>2. g = FirstUnit => g.lo = 0 /\ g.hi = b  BY DEF FirstUnit, b
    <3> QED  BY <3>1, <3>2
  <2>3. \A x \in {0, 1} : /\ hdr[x].lo \in Nat /\ hdr[x].hi \in Nat
                          /\ Native!Full(x) <=> hdr[x].lo < hdr[x].hi
                          /\ ~ Native!Full(x) => hdr[x] = Native!Empty
                          /\ hdr[x] = Native!Empty => ~ Native!Full(x)
    BY <2>1, KeptIs
  <2>4. Native!Same => Advancing  BY Names DEF Native!Same, BackupTypes
  <2>5. IF Advancing THEN recorded <= pos ELSE pos <= recorded  BY <2>1 DEF RowsKnown
  <2>6. Native!Full(p)' /\ Native!Full(q)' = Native!Full(q)
    BY <1>6, <2>2 DEF Native!Full
  <2>7. \A x \in {0, 1} : Native!Full(x) => Native!Full(x)'
    BY <1>2, <2>6
  <2>8. Native!Full(1)' => two'
    <3>1. Native!Full(1) => two  BY <2>1 DEF HeaderInv
    <3> QED  BY <1>1, <1>2, <2>6, <3>1
  <2>9. Native!Backed' = IF Native!Full(q) THEN {0, 1} ELSE {p}
    <3>1. Native!Backed' = {x \in {0, 1} : Native!Full(x)' /\ (x = 1 => two')}
      BY <1>2 DEF Native!Backed
    <3>2. Native!Backed' = {x \in {0, 1} : Native!Full(x)'}  BY <2>8, <3>1
    <3> QED  BY <1>2, <2>6, <3>2
  <2>10. \A x : Native!Range(hdr[x])' = {a \in Native!Addr : hdr'[x].lo <= a /\ a < hdr'[x].hi}
    BY <1>1, ShapeStays DEF Native!Range
  <2>11. Native!Backed = (IF Native!Full(q) THEN {q} ELSE {})
    BY <1>2, <2>1, <2>2, KeptIs
  <2>12. Native!Range(hdr[q])' = Native!Range(hdr[q])
    BY <1>6, <2>10 DEF Native!Range
  <2>13. Kept \subseteq Kept'
    BY <1>2, <2>9, <2>11, <2>12 DEF Kept
  <2>14. RowsKnown'
    <3>1. Native!NextRow' = Native!NextRow  BY <1>1, ShapeStays DEF Native!NextRow
    <3>2. \A a \in Native!Addr : a \notin Kept' => a \notin Kept  BY <2>13
    <3> QED  BY <1>1, <2>1, <3>1, <3>2, ShapeStays DEF RowsKnown
  <2>15. Native!Same =>
           /\ Native!Full(q) => hdr[q].hi = backupPoint /\ hdr[q].lo <= progress
           /\ ~ Native!Full(q) => progress >= backupPoint
           /\ pos <= backupPoint /\ progress <= recorded /\ recorded <= pos
           /\ AtRow(backupPoint) /\ syncMax * after <= backupPoint /\ (busy => pos < backupPoint)
           /\ \A x \in {0, 1} : hdr[x].hi <= backupPoint
           /\ pos # Native!Last
    <3> SUFFICES ASSUME Native!Same
                 PROVE  /\ Native!Full(q) => hdr[q].hi = backupPoint /\ hdr[q].lo <= progress
                        /\ ~ Native!Full(q) => progress >= backupPoint
                        /\ pos <= backupPoint /\ progress <= recorded /\ recorded <= pos
                        /\ AtRow(backupPoint) /\ syncMax * after <= backupPoint
                        /\ (busy => pos < backupPoint)
                        /\ \A x \in {0, 1} : hdr[x].hi <= backupPoint
                        /\ pos # Native!Last
      OBVIOUS
    <3>1. SlidingInv  BY <2>1
    <3>2. /\ Native!Full(q) => hdr[q].hi = backupPoint /\ hdr[q].lo <= progress
          /\ ~ Native!Full(q) => progress >= backupPoint
      BY <1>2, <2>2, <3>1 DEF SlidingInv
    <3>3. size * before = size * after  BY DEF Native!Same
    <3>4. pos <= backupPoint  BY <3>1 DEF SlidingInv
    <3>5. pos # Native!Last  BY <1>4, <1>5, <2>2, <2>4, <3>3, <3>4
    <3> QED  BY <1>2, <2>4, <2>5, <3>1, <3>2, <3>5 DEF SlidingInv
  <2>16. ~ Native!Same => /\ q = 1 /\ ~ Native!Full(q) /\ part = 0 /\ hdr[1] = Native!Empty
                          /\ ~ two /\ ~ Native!Full(0)
    BY <1>2, <2>1, <2>2, <2>3 DEF HeaderInv
  <2>17. ASSUME Native!Usable'
         PROVE  /\ Native!Covered.lo' <= recorded /\ recorded <= Native!Covered.hi'
                /\ Native!Range(g) \subseteq held[p]
                /\ Native!Full(q) => Native!Range(hdr[q]) \subseteq held[q]
    <3>1. CASE Native!Same /\ Native!Full(q)
      <4>1. hdr'[q].lo < hdr'[p].lo /\ hdr'[p].hi = g.hi /\ hdr'[q].lo = hdr[q].lo
        BY <1>2, <1>6, <2>2, <2>3, <2>15, <3>1
      <4>2. Native!Covered' = [lo |-> hdr'[q].lo, hi |-> hdr'[p].hi]
        <5>1. Native!Backed' = Native!Half' /\ Native!Half' = {0, 1}  BY <1>2, <2>9, <3>1
        <5>2. Native!Covered' = (IF hdr'[0].lo < hdr'[1].lo
                                 THEN [lo |-> hdr'[0].lo, hi |-> hdr'[1].hi]
                                 ELSE [lo |-> hdr'[1].lo, hi |-> hdr'[0].hi])
          BY <5>1 DEF Native!Covered
        <5>3. CASE q = 0  BY <1>2, <4>1, <5>2, <5>3
        <5>4. CASE q = 1
          <6>1. p = 0  BY <1>2, <5>4
          <6>2. hdr'[0].lo \in Nat /\ hdr'[1].lo \in Nat  BY <1>2, <1>5, <1>6, <2>3, <5>4, <6>1
          <6>3. ~ hdr'[0].lo < hdr'[1].lo  BY <4>1, <5>4, <6>1, <6>2
          <6> QED  BY <5>2, <5>4, <6>1, <6>3
        <5> QED  BY <1>2, <5>3, <5>4
      <4>3. hdr[q].lo <= recorded /\ recorded <= g.hi
        BY <1>2, <1>4, <1>5, <2>2, <2>3, <2>15, <3>1
      <4>4. Native!Usable
        <5>1. q \in Native!Backed  BY <2>11, <3>1
        <5>2. q = 1 => two  BY <1>2, <2>1, <3>1 DEF HeaderInv
        <5>3. ~ hdr[q].hi < recorded  BY <1>4, <2>15, <3>1
        <5>4. Native!Advancing  BY <2>4, <3>1, Names
        <5> QED  BY <1>2, <5>1, <5>2, <5>3, <5>4 DEF Native!Usable, Native!NotNeeded
      <4>5. Native!Range(hdr[q]) \subseteq held[q]
        BY <2>1, <2>11, <3>1, <4>4 DEF HeaderInv
      <4> QED  BY <2>1, <2>15, <3>1, <4>1, <4>2, <4>3, <4>5
    <3>2. CASE ~ Native!Full(q)
      <4>1. Native!Covered' = g
        <5>1. Native!Backed' = {p} /\ Native!Backed' # Native!Half'  BY <1>2, <2>9, <3>2
        <5>2. Native!Covered' = hdr'[CHOOSE x \in Native!Backed' : TRUE]
          BY <5>1 DEF Native!Covered
        <5> QED  BY <1>6, <5>1, <5>2
      <4>2. CASE Native!Same
        <5>1. g.lo <= recorded /\ recorded <= g.hi
          BY <1>4, <1>5, <2>2, <2>15, <3>2, <4>2
        <5> QED  BY <2>1, <2>15, <3>2, <4>1, <4>2, <5>1
      <4>3. CASE ~ Native!Same /\ Advancing
        <5>1. pos = 0  BY <2>1, <2>16, <4>3 DEF GrowingInv
        <5>2. recorded = 0 /\ pos # Native!Last  BY <1>4, <2>5, <4>3, <5>1
        <5> QED  BY <1>4, <2>1, <2>2, <3>2, <4>1, <4>3, <5>2
      <4>4. CASE ~ Native!Same /\ ~ Advancing
        <5>1. recorded # 0
          <6> SUFFICES ASSUME recorded = 0 PROVE FALSE  OBVIOUS
          <6>1. \A x \in {0, 1} : (x = 1 => two') => hdr'[x].lo >= recorded'
            BY <1>1, <1>2, <1>5, <1>6, <2>2, <2>3, <2>16, <4>4
          <6>2. ~ Native!Advancing'  BY <1>1, <4>4, Names, ShapeStays
          <6> QED  BY <1>2, <2>17, <6>1, <6>2 DEF Native!Usable, Native!NotNeeded
        <5>2. pos >= b /\ progress <= b /\ progress >= recorded
          BY <1>1, <2>1, <2>16, <4>4, <5>1 DEF ShrinkingInv, b
        <5>3. pos # Native!Last /\ recorded <= b  BY <1>4, <4>4, <5>2
        <5> QED  BY <1>4, <2>1, <2>2, <3>2, <4>1, <4>4, <5>3
      <4> QED  BY <4>2, <4>3, <4>4
    <3> QED  BY <2>16, <3>1, <3>2
  <2>18. HeaderInv'
    <3>1. \A x \in Native!Half' : Native!Full(x)' \/ hdr[x]' = Native!Empty'
      <4>1. Native!Empty' = Native!Empty  BY <1>1, ShapeStays
      <4> QED  BY <1>2, <1>6, <2>3, <2>6, <4>1
    <3>2. Native!Same' => \A x \in Native!Half' : AtRow(hdr[x].lo)' /\ AtRow(hdr[x].hi)'
      <4> SUFFICES ASSUME Native!Same' PROVE \A x \in {0, 1} : AtRow(hdr[x].lo)' /\ AtRow(hdr[x].hi)'
        BY <1>2
      <4>1. Native!Same /\ after' = after  BY <1>1, ShapeStays
      <4>2. AtRow(hdr[q].lo) /\ AtRow(hdr[q].hi)  BY <1>2, <2>1, <4>1 DEF HeaderInv
      <4>3. AtRow(hdr[q].lo)' /\ AtRow(hdr[q].hi)'  BY <1>6, <4>1, <4>2 DEF AtRow
      <4>4. AtRow(g.lo) /\ AtRow(g.hi)  BY <2>2, <2>15, <4>1
      <4>5. AtRow(hdr[p].lo)' /\ AtRow(hdr[p].hi)'  BY <1>6, <4>1, <4>4 DEF AtRow
      <4> QED  BY <1>2, <4>3, <4>5
    <3>3. Native!Same' /\ Native!Full(0)' /\ Native!Full(1)' =>
             hdr[0].hi' = hdr[1].lo' \/ hdr[1].hi' = hdr[0].lo'
      <4> SUFFICES ASSUME Native!Same', Native!Full(0)', Native!Full(1)'
                   PROVE  hdr'[0].hi = hdr'[1].lo \/ hdr'[1].hi = hdr'[0].lo
        OBVIOUS
      <4>1. Native!Same  BY <1>1, ShapeStays
      <4>2. Native!Full(q)  BY <1>2, <2>6
      <4>3. hdr'[q].hi = hdr'[p].lo  BY <1>6, <2>2, <2>15, <4>1, <4>2
      <4> QED  BY <1>2, <4>3
    <3>4. ~ Native!Same' =>
            /\ ~ two' /\ hdr[1]' = Native!Empty' /\ hdr[0]' \in {Native!Empty', FirstUnit'}
            /\ hdr[0]' # Native!Empty'
      <4> SUFFICES ASSUME ~ Native!Same'
                   PROVE  /\ ~ two' /\ hdr'[1] = Native!Empty' /\ hdr'[0] = FirstUnit'
                          /\ hdr'[0] # Native!Empty'
        OBVIOUS
      <4>1. ~ Native!Same /\ Native!Empty' = Native!Empty /\ FirstUnit' = FirstUnit
        BY <1>1, ShapeStays
      <4>2. p = 0 /\ q = 1 /\ g = FirstUnit /\ ~ two /\ hdr[1] = Native!Empty
        BY <2>2, <2>16, <4>1
      <4>3. g # Native!Empty
        <5>1. g.hi = b /\ b # 0  BY <1>4, <2>2, <4>1
        <5>2. Native!Empty.hi = 0  BY DEF Native!Empty
        <5> QED  BY <5>1, <5>2
      <4> QED  BY <1>1, <1>6, <4>1, <4>2, <4>3
    <3>5. Native!Usable' =>
            /\ Native!Covered.lo' <= recorded' /\ recorded' <= Native!Covered.hi'
            /\ \A x \in Native!Backed' : Native!Range(hdr[x])' \subseteq held'[x]
      <4> SUFFICES ASSUME Native!Usable'
                   PROVE  /\ Native!Covered.lo' <= recorded' /\ recorded' <= Native!Covered.hi'
                          /\ \A x \in Native!Backed' : Native!Range(hdr[x])' \subseteq held'[x]
        OBVIOUS
      <4>1. Native!Range(hdr[p])' = Native!Range(g)
        BY <1>6, <2>10 DEF Native!Range
      <4>2. \A x \in Native!Backed' : x = p \/ (x = q /\ Native!Full(q))  BY <1>2, <2>9
      <4> QED  BY <1>1, <2>12, <2>17, <4>1, <4>2
    <3> QED  BY <2>8, <3>1, <3>2, <3>3, <3>4, <3>5 DEF HeaderInv
  <2>19. ASSUME Native!Same PROVE SlidingInv'
    <3>1. e = g.hi /\ backupPoint' = g.hi  BY <1>1, <2>4, <2>19 DEF e
    <3>2. part' = q /\ (1 - part)' = p  BY <1>1, <1>2
    <3>3. \A x \in Native!Half' : hdr'[x].hi <= g.hi
      <4>1. hdr'[q].hi <= g.hi  BY <1>2, <1>4, <1>5, <1>6, <2>2, <2>3, <2>15, <2>19
      <4> QED  BY <1>2, <1>5, <1>6, <4>1
    <3>4. syncMax * after \in Nat  BY <1>4 DEF BackupTypes
    <3>5. pos <= g.hi /\ (busy => pos < g.hi) /\ syncMax * after <= g.hi
      BY <1>4, <1>5, <2>2, <2>15, <2>19, <3>4
    <3>6. AtRow(backupPoint)'  BY <1>1, <2>2, <2>19, <3>1, ShapeStays DEF AtRow
    <3>7. /\ hdr'[p].hi = g.hi
          /\ Native!Full(q) => hdr'[q].hi = hdr'[p].lo /\ hdr'[q].lo <= progress
          /\ ~ Native!Full(q) => hdr'[p].lo <= progress
      BY <1>4, <1>6, <2>2, <2>15, <2>19
    <3>8. Native!Full(1 - part)' /\ Native!Full(part)' = Native!Full(q)
          /\ hdr'[part'] = hdr'[q] /\ hdr'[(1 - part)'] = hdr'[p]
      BY <2>6, <3>2 DEF Native!Full
    <3> QED
      BY <1>1, <2>15, <2>19, <3>1, <3>2, <3>3, <3>5, <3>6, <3>7, <3>8, ShapeStays DEF SlidingInv
  <2>20. ASSUME ~ Native!Same, Advancing PROVE GrowingInv'
    <3>1. GrowingInv /\ part = 0 /\ part' = 1  BY <1>1, <2>1, <2>16, <2>20
    <3>2. e = b  BY <2>2, <2>20 DEF e
    <3>3. pos = 0 /\ progress = 0 /\ syncMax = 0 /\ ~ busy  BY <3>1 DEF GrowingInv
    <3>4. backupPoint' = part' * Native!BackupBlocks'  BY <1>1, <1>4, <3>1, <3>2, ShapeStays DEF b
    <3>5. Room \in Nat  BY UnitIs
    <3>6. Native!Full(0)'  BY <2>2, <2>6, <2>20
    <3>7. pos' <= backupPoint' /\ syncMax' <= Room' /\ ~ busy'
      BY <1>1, <1>4, <3>2, <3>3, <3>5, ShapeStays
    <3> QED  BY <1>1, <1>4, <3>1, <3>3, <3>4, <3>6, <3>7 DEF GrowingInv
  <2>21. ASSUME ~ Native!Same, ~ Advancing PROVE ShrinkingInv'
    <3>1. ShrinkingInv /\ part = 0 /\ part' = 1  BY <1>1, <2>1, <2>16, <2>21
    <3>2. e = 0  BY <2>2, <2>21 DEF e
    <3>3. backupPoint' = (1 - part') * Native!BackupBlocks'
      BY <1>1, <1>4, <3>1, <3>2, ShapeStays DEF b
    <3>4. progress <= Native!BackupBlocks  BY <1>1, <3>1 DEF ShrinkingInv
    <3>5. Native!Full(0)'  BY <2>2, <2>6, <2>21
    <3> QED  BY <1>1, <3>1, <3>3, <3>4, <3>5, ShapeStays DEF ShrinkingInv
  <2>22. SuspendedInv'
    <3>1. Native!Same \/ Advancing => \A x \in Native!Half' : hdr'[x].hi <= suspendPoint
      <4> SUFFICES ASSUME Native!Same \/ Advancing
                   PROVE  hdr'[p].hi <= suspendPoint /\ hdr'[q].hi <= suspendPoint
        BY <1>2
      <4>1. hdr[q].hi <= suspendPoint  BY <1>2, <2>1 DEF SuspendedInv
      <4>2. g.hi <= suspendPoint  BY <1>4, <2>2
      <4> QED  BY <1>6, <4>1, <4>2
    <3>2. ~ Advancing => suspendPoint = 0  BY <2>2, <2>4
    <3> QED  BY <1>1, <1>2, <2>1, <3>1, <3>2, ShapeStays DEF SuspendedInv
  <2>23. ChildInv'
    <3>1. IF Native!Same' THEN SlidingInv' ELSE IF Advancing' THEN GrowingInv' ELSE ShrinkingInv'
      BY <1>1, <2>19, <2>20, <2>21, ShapeStays
    <3> QED  BY <1>1, <2>22, <3>1 DEF ChildInv, Watching, Stopping
  <2>24. RestartInv'  BY <1>1, <2>1 DEF RestartInv, Restarting
  <2> QED  BY <1>1, <1>7, <1>9, <2>14, <2>18, <2>23, <2>24 DEF BackupInv
<1> QED  BY <1>8, <1>9 DEF BackupTypes, Native!TypeOK

-----------------------------------------------------------------------------
(* The invariant, step by step: a crash, and the assembly that follows.     *)

\* After a crash the driver is where the devices say it is.
LEMMA CrashLoses ==
  ASSUME BackupTypes, BackupInv, Native!Crash
  PROVE  BackupTypes' /\ BackupInv'
<1>1. /\ active /\ crashes < MaxCrashes /\ crashes' = crashes + 1 /\ pc' = "down"
      /\ progress' = 0 /\ backupPoint' = 0 /\ suspendPoint' = 0 /\ part' = 0
      /\ maxProgress' = 0 /\ more' = 0
      /\ up' = FALSE /\ reshaping' = FALSE /\ busy' = FALSE /\ pos' = recorded
      /\ syncMax' = 0 /\ suspendLo' = 0 /\ suspendHi' = 0
      /\ UNCHANGED shapeVars /\ UNCHANGED <<rows, active, recorded, hdr, two, held>>
  BY DEF Native!Crash, Native!NoChild, Native!shapeVars, shapeVars, Native!diskVars,
         Native!backupVars
<1>2. RowsKnown /\ HeaderInv /\ pc # "idle"  BY <1>1, RunningAt
<1>3. /\ before' = before /\ after' = after /\ size' = size
      /\ Native!Row' = Native!Row /\ Native!Half' = Native!Half /\ Native!Addr' = Native!Addr
      /\ Native!Most(Native!First, Native!Last)' = Native!Most(Native!First, Native!Last)
      /\ Native!Blocks' = Native!Blocks
  BY <1>1, ShapeStays DEF Native!Most
<1>4. BackupTypes'
  <2>1. 0 \in 0..Native!Most(Native!First, Native!Last) /\ 0 \in 0..(size * before) /\ 0 \in 0..size
        /\ 0 \in Native!Half
    BY Names DEF BackupTypes, Native!Half
  <2>2. crashes' \in 0..MaxCrashes
    BY <1>1, MaxCrashesAssumption DEF BackupTypes, Native!TypeOK
  <2>3. Native!TypeOK'  BY <1>1, <1>3, <2>1, <2>2 DEF BackupTypes, Native!TypeOK
  <2>4. AtRow(pos)' /\ AtRow(recorded)'  BY <1>1, <1>3 DEF BackupTypes, AtRow
  <2> QED  BY <1>1, <1>2, <1>3, <2>3, <2>4 DEF BackupTypes
<1>5. RowsKnown'
  <2>1. ASSUME NEW a \in Native!Addr, Native!Moved(a, recorded) PROVE Native!Moved(a, pos)
    <3>1. a \in Nat /\ recorded \in Nat /\ pos \in Nat  BY Places, Positions
    <3>2. IF Advancing THEN recorded <= pos ELSE pos <= recorded  BY <1>2 DEF RowsKnown
    <3> QED  BY <2>1, <3>1, <3>2, Names
  <2>2. recorded \in Nat  BY Positions
  <2>3. Kept' = Kept  BY <1>1, HeaderStays
  <2> QED  BY <1>1, <1>2, <2>1, <2>2, <2>3, ShapeStays DEF RowsKnown
<1>6. HeaderInv'  BY <1>1, <1>2, HeaderStays
<1>7. ChildInv'  BY <1>1 DEF ChildInv, Watching, Stopping
<1>8. RestartInv'  BY <1>1 DEF RestartInv, Restarting
<1> QED  BY <1>1, <1>4, <1>5, <1>6, <1>7, <1>8 DEF BackupInv

\* The types, where assembly moves the position and writes rows.
LEMMA RestartTypes ==
  ASSUME BackupTypes, pc # "idle",
         UNCHANGED <<shapeVars, active, up, reshaping, busy, syncMax, suspendLo, suspendHi,
                     progress, backupPoint, suspendPoint, part, maxProgress, more, hdr, two,
                     held, crashes>>,
         rows' \in [Native!Row -> {"old", "new", "lost"}],
         recorded' \in 0..(size * after), pos' \in 0..(size * after),
         AtRow(recorded'), AtRow(pos'),
         pc' \in {"down", "restoring", "super", "restored", "refused"}
  PROVE  BackupTypes'
<1>1. /\ before' = before /\ after' = after /\ size' = size
      /\ Native!Row' = Native!Row /\ Native!Half' = Native!Half /\ Native!Addr' = Native!Addr
      /\ Native!Most(Native!First, Native!Last)' = Native!Most(Native!First, Native!Last)
      /\ Native!Blocks' = Native!Blocks
  BY ShapeStays DEF Native!Most
<1>2. Native!Most(Native!First, Native!Last) = size * after  BY Names
<1>3. Native!TypeOK'  BY <1>1, <1>2 DEF BackupTypes, Native!TypeOK
<1>4. AtRow(pos)' /\ AtRow(recorded)'  BY <1>1 DEF AtRow
<1> QED  BY <1>1, <1>3, <1>4 DEF BackupTypes

\* Rows that are written from the backup, or are just being written, are those of kept data.
LEMMA RestoringKnows ==
  ASSUME BackupTypes, HeaderInv, RowsKnown, Native!Usable, ~ busy, pos = recorded,
         UNCHANGED <<shapeVars, recorded, pos, busy, hdr, two>>,
         \A r \in Native!Row :
            /\ ~ (\E a \in Kept : Native!NewRow(a) = r) => rows'[r] = rows[r]
            /\ (\E a \in Kept : Native!NewRow(a) = r) /\ rows[r] = "new" => rows'[r] = "new"
  PROVE  RowsKnown'
<1>1. ASSUME NEW a \in Native!Addr, Native!Moved(a, pos) PROVE rows'[Native!NewRow(a)] = "new"
  <2>1. rows[Native!NewRow(a)] = "new" /\ Native!NewRow(a) \in Native!Row
    BY <1>1, Places DEF RowsKnown
  <2> QED  BY <2>1
<1>2. ASSUME NEW a \in Native!Addr, a \notin Kept, ~ Native!Moved(a, recorded)
      PROVE  rows'[Native!OldRow(a)] = "old"
  <2>1. rows[Native!OldRow(a)] = "old" /\ Native!OldRow(a) \in Native!Row
    BY <1>2, Places DEF RowsKnown
  <2>2. ~ (\E x \in Kept : Native!NewRow(x) = Native!OldRow(a))  BY <1>2, KeptRows
  <2> QED  BY <2>1, <2>2
<1>3. Kept' = Kept  BY HeaderStays
<1>4. IF Advancing THEN recorded <= pos ELSE pos <= recorded  BY DEF RowsKnown
<1> QED  BY <1>1, <1>2, <1>3, <1>4, ShapeStays DEF RowsKnown

\* A growing array that needs no backup any more is past its critical section.
LEMMA PastTheStart ==
  ASSUME BackupTypes, HeaderInv, pc # "idle", after > before, ~ Native!Usable, ~ Native!Needed
  PROVE  recorded >= Native!BackupBlocks
<1> USE DEF BackupTypes
<1> DEFINE S == {n \in 1..size : n < (n * after) \div before}
           P(n) == /\ n < (n * after) \div before
                   /\ \A m \in 1..(n - 1) : m >= (m * after) \div before
           b == Native!BackupBlocks
<1>1. /\ b \in Nat \ {0} /\ Room \in Nat \ {0} /\ b = Room * after
      /\ Room < size /\ recorded \in Nat
  BY UnitIs, UnitFits, Positions
<1>2. PICK n \in Nat \ {0} : b = n * before /\ b \div before = n  BY UnitIs
<1>3. ASSUME NEW m \in Nat PROVE (m * after) \div before \in Nat
  <2>1. m * after \in Nat  BY Times
  <2> QED  BY <2>1, Quotient
<1>4. S \in SUBSET Nat  OBVIOUS
<1> HIDE DEF b
<1>5. Room \in S
  <2>1. (Room * after) \div before = n  BY <1>1, <1>2
  <2>2. Room < n
    <3>1. PICK k \in Nat : after = before + 1 + k
      <4>1. after - before - 1 \in Nat /\ after = before + 1 + (after - before - 1)  OBVIOUS
      <4> QED  BY <4>1
    <3>2. Room * after = Room * before + Room + Room * k /\ Room * k \in Nat /\ Room * before \in Nat
      BY <1>1, <3>1
    <3>3. Room * before < n * before
      <4>1. n * before \in Nat /\ Room * after = n * before  BY <1>1, <1>2, Times
      <4> QED  BY <1>1, <3>2, <4>1
    <3> QED  BY <1>1, <1>2, <3>3, Times
  <2> QED  BY <1>1, <2>1, <2>2
<1>6. PICK k \in S : \A m \in S : k <= m  BY <1>4, <1>5, LeastOf
<1>7. P(k)
  <2>1. ASSUME NEW m \in 1..(k - 1) PROVE m >= (m * after) \div before
    <3>1. m \in 1..size /\ m < k /\ m \in Nat  BY <1>6
    <3>2. m \notin S  BY <1>4, <1>6, <3>1
    <3> QED  BY <1>3, <3>1, <3>2
  <2> QED  BY <1>6, <2>1
<1>8. (CHOOSE x \in 1..size : P(x)) \in 1..size
  <2>1. k \in 1..size  BY <1>6
  <2> QED  BY <1>7, <2>1
<1>9. Native!Advancing  BY Names
<1>10. Native!CriticalEnd = after * (CHOOSE x \in 1..size : P(x))
  BY <1>9 DEF Native!CriticalEnd
<1> HIDE DEF P
<1>11. Native!CriticalEnd \in Nat \ {0}  BY <1>8, <1>10
<1>12. ~ recorded < Native!CriticalEnd /\ ~ Native!Same  BY DEF Native!Needed
<1>13. recorded # 0  BY <1>1, <1>11, <1>12
<1>14. CASE hdr[0] = Native!Empty  BY <1>1, <1>12, <1>13, <1>14 DEF HeaderInv, b
<1>15. CASE hdr[0] # Native!Empty
  <2>1. hdr[0] = FirstUnit  BY <1>12, <1>15 DEF HeaderInv
  <2>2. Native!Full(0)  BY <1>15, KeptIs
  <2>3. 0 \in Native!Backed /\ 0 \in Native!Half  BY <2>2, KeptIs
  <2>4. hdr[0].hi < recorded  BY <1>9, <2>3 DEF Native!Usable, Native!NotNeeded
  <2>5. hdr[0].hi = b  BY <2>1 DEF FirstUnit, b
  <2> QED  BY <1>1, <2>4, <2>5 DEF b
<1> QED  BY <1>14, <1>15

\* A restart is of an array that was being reshaped.
LEMMA RestartingAt ==
  ASSUME BackupTypes, BackupInv, pc \in Restarting
  PROVE  /\ active /\ ~ up /\ pos = recorded /\ ~ busy /\ pc # "idle"
         /\ RowsKnown /\ HeaderInv /\ RestartInv
<1>1. active  BY DEF BackupInv
<1>2. RowsKnown /\ HeaderInv /\ RestartInv /\ pc # "idle"  BY <1>1, RunningAt
<1>3. ~ up /\ pos = recorded  BY <1>2 DEF RestartInv
<1>4. ~ busy  BY <1>3 DEF BackupTypes
<1> QED  BY <1>1, <1>2, <1>3, <1>4

\* Assembly restores the backup, or refuses, or finds that it is not needed.
LEMMA AssembleKeeps ==
  ASSUME BackupTypes, BackupInv, Native!Assemble
  PROVE  BackupTypes' /\ BackupInv'
<1>1. /\ pc = "down" /\ UNCHANGED shapeVars
      /\ UNCHANGED <<active, recorded, up, reshaping, pos, busy, syncMax, suspendLo, suspendHi>>
      /\ UNCHANGED <<progress, backupPoint, suspendPoint, part, maxProgress, more>>
      /\ UNCHANGED <<hdr, two, held, crashes>>
      /\ pc' = (IF Native!Usable THEN "restoring" ELSE IF Native!Needed THEN "refused" ELSE "restored")
      /\ rows' = (IF Native!Usable
                  THEN [r \in Native!Row |-> IF Native!RestoredRow(r) # rows[r] THEN "lost" ELSE rows[r]]
                  ELSE rows)
  BY DEF Native!Assemble, Native!shapeVars, shapeVars, Native!driveVars, Native!suspVars,
         Native!backupVars
<1>2. /\ active /\ ~ up /\ pos = recorded /\ ~ busy /\ pc # "idle"
      /\ RowsKnown /\ HeaderInv /\ RestartInv
  BY <1>1, RestartingAt DEF Restarting
<1>3. rows \in [Native!Row -> {"old", "new", "lost"}]  BY DEF BackupTypes, Native!TypeOK
<1>4. BackupTypes'
  <2>1. rows' \in [Native!Row -> {"old", "new", "lost"}]  BY <1>1, <1>3
  <2>2. recorded \in 0..(size * after) /\ pos \in 0..(size * after) /\ AtRow(recorded) /\ AtRow(pos)
    BY Positions, Names DEF BackupTypes
  <2>3. pc' \in {"restoring", "refused", "restored"}  BY <1>1
  <2> QED  BY <1>1, <1>2, <2>1, <2>2, <2>3, RestartTypes
<1>5. HeaderInv' /\ Native!Usable' = Native!Usable /\ Kept' = Kept  BY <1>1, <1>2, HeaderStays
<1>6. RowsKnown'
  <2>1. CASE ~ Native!Usable
    <3>1. rows' = rows  BY <1>1, <2>1
    <3> QED  BY <1>1, <1>2, <3>1, RowsStay
  <2>2. CASE Native!Usable
    <3>1. ASSUME NEW r \in Native!Row
          PROVE  /\ ~ (\E a \in Kept : Native!NewRow(a) = r) => rows'[r] = rows[r]
                 /\ (\E a \in Kept : Native!NewRow(a) = r) /\ rows[r] = "new" => rows'[r] = "new"
      <4>1. rows'[r] = (IF Native!RestoredRow(r) # rows[r] THEN "lost" ELSE rows[r])
        BY <1>1, <2>2
      <4>2. Native!RestoredRow(r) = Native!RestoredRows[r]  BY DEF Native!RestoredRows
      <4>3. /\ (\E a \in Kept : Native!NewRow(a) = r) => Native!RestoredRows[r] = "new"
            /\ ~ (\E a \in Kept : Native!NewRow(a) = r) => Native!RestoredRows[r] = rows[r]
        BY <1>2, <2>2, RestoredIs
      <4> QED  BY <4>1, <4>2, <4>3
    <3> QED  BY <1>1, <1>2, <2>2, <3>1, RestoringKnows
  <2> QED  BY <2>1, <2>2
<1>7. ChildInv'  BY <1>1 DEF ChildInv, Watching, Stopping
<1>8. RestartInv'
  <2>1. pc' = "restored" => ~ Native!Usable /\ ~ Native!Needed  BY <1>1
  <2>2. pc' = "restored" => \A a \in Kept : Native!Moved(a, recorded)
    BY <1>2, <2>1, StaleIsMoved
  <2>3. pc' = "restored" /\ after > before => recorded >= Native!BackupBlocks
    BY <1>2, <2>1, PastTheStart
  <2> QED  BY <1>1, <1>2, <1>5, <2>2, <2>3, ShapeStays DEF RestartInv, Restarting
<1> QED  BY <1>1, <1>2, <1>4, <1>5, <1>6, <1>7, <1>8 DEF BackupInv, Restarting

\* The backup is written back, in the new layout.
LEMMA RestoreStripesKeeps ==
  ASSUME BackupTypes, BackupInv, Native!RestoreStripes
  PROVE  BackupTypes' /\ BackupInv'
<1>1. /\ pc = "restoring" /\ pc' = "super" /\ UNCHANGED shapeVars
      /\ UNCHANGED <<active, recorded, up, reshaping, pos, busy, syncMax, suspendLo, suspendHi>>
      /\ UNCHANGED <<progress, backupPoint, suspendPoint, part, maxProgress, more>>
      /\ UNCHANGED <<hdr, two, held, crashes>>
      /\ rows' = Native!RestoredRows
  BY DEF Native!RestoreStripes, Native!shapeVars, shapeVars, Native!driveVars, Native!suspVars,
         Native!backupVars
<1>2. /\ active /\ ~ up /\ pos = recorded /\ ~ busy /\ pc # "idle"
      /\ RowsKnown /\ HeaderInv /\ RestartInv
  BY <1>1, RestartingAt DEF Restarting
<1>3. Native!Usable  BY <1>1, <1>2 DEF RestartInv
<1>4. ASSUME NEW r \in Native!Row
      PROVE  /\ (\E a \in Kept : Native!NewRow(a) = r) => rows'[r] = "new"
             /\ ~ (\E a \in Kept : Native!NewRow(a) = r) => rows'[r] = rows[r]
  BY <1>1, <1>2, <1>3, RestoredIs
<1>5. BackupTypes'
  <2>1. rows' = [r \in Native!Row |-> Native!RestoredRow(r)]  BY <1>1 DEF Native!RestoredRows
  <2>2. ASSUME NEW r \in Native!Row PROVE rows'[r] \in {"old", "new", "lost"}
    BY <1>4 DEF BackupTypes, Native!TypeOK
  <2>3. rows' \in [Native!Row -> {"old", "new", "lost"}]  BY <2>1, <2>2
  <2>4. recorded \in 0..(size * after) /\ pos \in 0..(size * after) /\ AtRow(recorded) /\ AtRow(pos)
    BY Positions, Names DEF BackupTypes
  <2> QED  BY <1>1, <1>2, <2>3, <2>4, RestartTypes
<1>6. HeaderInv' /\ Native!Usable' = Native!Usable /\ Kept' = Kept  BY <1>1, <1>2, HeaderStays
<1>7. RowsKnown'  BY <1>1, <1>2, <1>3, <1>4, RestoringKnows
<1>8. ChildInv'  BY <1>1 DEF ChildInv, Watching, Stopping
<1>9. RestartInv'
  <2>1. ASSUME NEW a \in Kept PROVE rows'[Native!NewRow(a)] = "new"
    <3>1. Native!NewRow(a) \in Native!Row  BY <1>2, KeptIs, Places
    <3> QED  BY <1>4, <3>1
  <2> QED  BY <1>1, <1>2, <1>3, <1>6, <2>1, ShapeStays DEF RestartInv, Restarting
<1> QED  BY <1>1, <1>2, <1>5, <1>6, <1>7, <1>8, <1>9 DEF BackupInv

\* The devices record the end of the backup as the position.
LEMMA UpdateSupersKeeps ==
  ASSUME BackupTypes, BackupInv, Native!UpdateSupers
  PROVE  BackupTypes' /\ BackupInv'
<1> DEFINE l == Native!Covered.lo
           u == Native!Covered.hi
           n == Native!RestoredPos
<1>1. /\ pc = "super" /\ pc' = "restored" /\ UNCHANGED shapeVars
      /\ UNCHANGED <<rows, active, up, reshaping, busy, syncMax, suspendLo, suspendHi>>
      /\ UNCHANGED <<progress, backupPoint, suspendPoint, part, maxProgress, more>>
      /\ UNCHANGED <<hdr, two, held, crashes>>
      /\ recorded' = n /\ pos' = n
  BY DEF Native!UpdateSupers, Native!shapeVars, shapeVars, Native!suspVars, Native!backupVars
<1>2. /\ active /\ ~ up /\ pos = recorded /\ ~ busy /\ pc # "idle"
      /\ RowsKnown /\ HeaderInv /\ RestartInv
  BY <1>1, RestartingAt DEF Restarting
<1>3. Native!Usable /\ \A a \in Kept : rows[Native!NewRow(a)] = "new"
  BY <1>1, <1>2 DEF RestartInv
<1>4. /\ l \in Nat /\ u \in Nat /\ l < u /\ AtRow(l) /\ AtRow(u) /\ u <= size * before
      /\ \A a \in Native!Addr : a \in Kept <=> l <= a /\ a < u
      /\ l <= recorded /\ recorded <= u
      /\ n = (IF Advancing THEN u ELSE l)
      /\ ~ Advancing => l = 0
      /\ ~ Native!Same => l = 0 /\ u = Native!BackupBlocks
  BY <1>2, <1>3, Hull
<1>5. recorded \in Nat /\ size * before \in Nat /\ size * after \in Nat
      /\ (Advancing => size * before <= size * after) /\ AtRow(0)
  BY Positions, Names
<1>6. Native!Covered' = Native!Covered /\ Kept' = Kept /\ Native!Backed' = Native!Backed
      /\ \A p : Native!Full(p)' = Native!Full(p)
  BY <1>1, HeaderStays
<1> HIDE DEF l, u, n
<1>7. n \in 0..(size * after) /\ AtRow(n) /\ l <= n /\ n <= u
  <2>1. n \in Nat /\ n <= size * after /\ l <= n /\ n <= u  BY <1>4, <1>5
  <2> QED  BY <1>4, <1>5, <2>1
<1>8. BackupTypes'
  <2>1. rows' \in [Native!Row -> {"old", "new", "lost"}]  BY <1>1 DEF BackupTypes, Native!TypeOK
  <2> QED  BY <1>1, <1>2, <1>7, <2>1, RestartTypes
<1>9. \A a \in Native!Addr : Native!Moved(a, n) <=> a \in Kept \/ Native!Moved(a, recorded)
  <2> TAKE a \in Native!Addr
  <2>1. a \in Nat  BY Places
  <2>2. Native!Moved(a, n) <=> (IF Advancing THEN a < u ELSE a >= 0)  BY <1>4, Names
  <2>3. Native!Moved(a, recorded) <=> (IF Advancing THEN a < recorded ELSE a >= recorded)  BY Names
  <2>4. a \in Kept <=> l <= a /\ a < u  BY <1>4
  <2> QED  BY <1>4, <1>5, <2>1, <2>2, <2>3, <2>4
<1>10. RowsKnown'
  <2>1. ASSUME NEW a \in Native!Addr, Native!Moved(a, n) PROVE rows[Native!NewRow(a)] = "new"
    BY <1>2, <1>3, <1>9, <2>1 DEF RowsKnown
  <2>2. ASSUME NEW a \in Native!Addr, a \notin Kept, ~ Native!Moved(a, n)
        PROVE  rows[Native!OldRow(a)] = "old"
    BY <1>2, <1>9, <2>2 DEF RowsKnown
  <2>3. n <= n  BY <1>7
  <2> QED  BY <1>1, <1>2, <1>6, <2>1, <2>2, <2>3, ShapeStays DEF RowsKnown
<1>11. HeaderInv'
  <2>1. ~ Native!Same => hdr[0] # Native!Empty
    <3> SUFFICES ASSUME ~ Native!Same, hdr[0] = Native!Empty PROVE FALSE  OBVIOUS
    <3>1. hdr[1] = Native!Empty  BY <1>2 DEF HeaderInv
    <3>2. ~ Native!Full(0) /\ ~ Native!Full(1)  BY <1>2, <3>1, KeptIs
    <3>3. Native!Backed = {}  BY <1>2, <3>2, KeptIs
    <3> QED  BY <1>3, <3>3 DEF Native!Usable
  <2>2. /\ Native!Covered.lo' <= recorded' /\ recorded' <= Native!Covered.hi'
        /\ \A p \in Native!Backed : Native!Range(hdr[p]) \subseteq held[p]
    BY <1>1, <1>2, <1>3, <1>6, <1>7 DEF HeaderInv, l, u
  <2> QED  BY <1>1, <1>2, <1>6, <2>1, <2>2, ShapeStays DEF HeaderInv, AtRow
<1>12. ChildInv'  BY <1>1 DEF ChildInv, Watching, Stopping
<1>13. RestartInv'
  <2>1. \A a \in Kept : Native!Moved(a, n)  BY <1>2, <1>9, KeptIs
  <2>2. after > before => n >= Native!BackupBlocks
    BY <1>4, <1>7, Names, UnitIs DEF Native!Same, BackupTypes
  <2> QED  BY <1>1, <1>2, <1>6, <2>1, <2>2, ShapeStays DEF RestartInv, Restarting
<1> QED  BY <1>1, <1>2, <1>8, <1>10, <1>11, <1>12, <1>13 DEF BackupInv

\* An array that does not grow is continued, with a new child: what the backup held was moved.
LEMMA ContinueStarts ==
  ASSUME BackupTypes, BackupInv, Cautious, Native!Continue
  PROVE  BackupTypes' /\ BackupInv'
<1>1. pc = "restored" /\ ~ (after > before) /\ Native!Launch(recorded)  BY DEF Native!Continue
<1>2. /\ active /\ ~ up /\ pos = recorded /\ ~ busy /\ pc # "idle"
      /\ RowsKnown /\ HeaderInv /\ RestartInv
  BY <1>1, RestartingAt DEF Restarting
<1>3. \A a \in Kept : Native!Moved(a, recorded)  BY <1>1, <1>2 DEF RestartInv
<1>4. Native!Complete(rows, recorded)
  <2>1. ASSUME NEW a \in Native!Addr
        PROVE  IF Native!Moved(a, recorded) THEN rows[Native!NewRow(a)] = "new"
                                            ELSE rows[Native!OldRow(a)] = "old"
    BY <1>2, <1>3 DEF RowsKnown
  <2> QED  BY <2>1 DEF Native!Complete
<1>5. recorded \in Nat /\ recorded <= size * after /\ AtRow(recorded) /\ 2 * Native!Blocks < size
  BY <1>2, Positions DEF BackupTypes
<1>6. after < before => recorded = 0 \/ recorded >= Native!BackupBlocks
  <2> SUFFICES ASSUME after < before, hdr[0] # Native!Empty PROVE recorded = 0
    BY <1>2 DEF HeaderInv, Native!Same, BackupTypes
  <2>1. ~ Native!Same /\ ~ Advancing  BY Names DEF Native!Same, BackupTypes
  <2>2. hdr[0] = FirstUnit  BY <1>2, <2>1 DEF HeaderInv
  <2>3. hdr[0].lo = 0 /\ hdr[0].hi = Native!BackupBlocks /\ Native!BackupBlocks \in Nat \ {0}
    BY <2>2, UnitIs DEF FirstUnit
  <2>4. 0 \in Native!Addr  BY SomeAddress
  <2>5. hdr[0].lo <= 0 /\ 0 < hdr[0].hi  BY <2>3
  <2>6. 0 \in Kept  BY <1>2, <2>4, <2>5, KeptIs
  <2>7. Native!Moved(0, recorded)  BY <1>3, <2>6
  <2>8. 0 >= recorded  BY <2>1, <2>7, Names
  <2> QED  BY <1>5, <2>8
<1> QED  BY <1>1, <1>2, <1>4, <1>5, <1>6, LaunchKeeps

\* An array that grows is just run: its critical section is behind it.
LEMMA RunArrayKeeps ==
  ASSUME BackupTypes, BackupInv, Native!RunArray
  PROVE  BackupTypes' /\ BackupInv'
<1>1. /\ pc = "restored" /\ after > before /\ pc' = "done" /\ UNCHANGED shapeVars
      /\ up' = TRUE /\ reshaping' = TRUE /\ syncMax' = size
      /\ UNCHANGED <<rows, active, recorded, pos, busy, suspendLo, suspendHi>>
      /\ UNCHANGED <<progress, backupPoint, suspendPoint, part, maxProgress, more>>
      /\ UNCHANGED <<hdr, two, held, crashes>>
  BY DEF Native!RunArray, Native!shapeVars, shapeVars, Native!diskVars, Native!suspVars,
         Native!backupVars
<1>2. /\ active /\ ~ up /\ pos = recorded /\ ~ busy /\ pc # "idle"
      /\ RowsKnown /\ HeaderInv /\ RestartInv
  BY <1>1, RestartingAt DEF Restarting
<1>3. recorded >= Native!BackupBlocks  BY <1>1, <1>2 DEF RestartInv
<1>4. /\ before' = before /\ after' = after /\ size' = size
      /\ Native!Row' = Native!Row /\ Native!Half' = Native!Half /\ Native!Addr' = Native!Addr
      /\ Native!Most(Native!First, Native!Last)' = Native!Most(Native!First, Native!Last)
      /\ Native!Blocks' = Native!Blocks
  BY <1>1, ShapeStays DEF Native!Most
<1>5. BackupTypes'
  <2>1. syncMax' \in 0..size  BY <1>1 DEF BackupTypes
  <2>2. Native!TypeOK'  BY <1>1, <1>4, <2>1 DEF BackupTypes, Native!TypeOK
  <2> QED  BY <1>1, <1>2, <1>4, <2>2 DEF BackupTypes, AtRow
<1>6. RowsKnown'  BY <1>1, <1>2, RowsStay
<1>7. HeaderInv'  BY <1>1, <1>2, HeaderStays
<1>8. Free'
  <2>1. ~ Native!Same /\ Advancing  BY <1>1, Names DEF Native!Same, BackupTypes
  <2> QED  BY <1>1, <1>3, <2>1, ShapeStays DEF Free
<1>9. ChildInv'  BY <1>1, <1>8 DEF ChildInv, Watching, Stopping
<1>10. RestartInv'  BY <1>1 DEF RestartInv, Restarting
<1> QED  BY <1>1, <1>2, <1>5, <1>6, <1>7, <1>9, <1>10 DEF BackupInv

-----------------------------------------------------------------------------
(* The invariant, step by step: users write.                                *)

\* What is in the backup, or was read to be, and was not moved, is suspended.
LEMMA IsSuspended ==
  ASSUME BackupTypes, HeaderInv, RowsKnown, SuspendedInv,
         IF Native!Same THEN SlidingInv ELSE IF Advancing THEN GrowingInv ELSE ShrinkingInv,
         NEW a \in Native!Addr, ~ Native!Moved(a, recorded),
         a \in Kept \/ (pc = "header" /\ a \in Native!Range(Native!BackupRange))
  PROVE  suspendLo <= a /\ a < suspendHi
<1> DEFINE g == Native!BackupRange
           b == Native!BackupBlocks
<1>1. /\ a \in Nat /\ recorded \in Nat /\ progress \in Nat /\ suspendPoint \in Nat
      /\ suspendLo \in Nat /\ suspendHi \in Nat /\ b \in Nat \ {0}
  BY Places, Positions, UnitIs DEF BackupTypes
<1>2. IF Advancing THEN recorded <= a ELSE a < recorded  BY <1>1, Names
<1>3. Native!Half = {0, 1} /\ \A x \in {0, 1} : hdr[x].lo \in Nat /\ hdr[x].hi \in Nat
  BY KeptIs
<1>4. a \in Kept => \E x \in {0, 1} : hdr[x].lo <= a /\ a < hdr[x].hi  BY KeptIs
<1>5. pc = "header" => /\ g.lo \in Nat /\ g.hi \in Nat
                       /\ Native!Same => g.hi <= suspendPoint
                       /\ ~ Native!Same => /\ part = 0 /\ g.hi = b
                                           /\ suspendPoint = (IF Advancing THEN b ELSE 0)
  <2> SUFFICES ASSUME pc = "header"
               PROVE  /\ g.lo \in Nat /\ g.hi \in Nat
                      /\ Native!Same => g.hi <= suspendPoint
                      /\ ~ Native!Same => /\ part = 0 /\ g.hi = b
                                          /\ suspendPoint = (IF Advancing THEN b ELSE 0)
    OBVIOUS
  <2>1. Native!CanBackup  BY DEF SuspendedInv
  <2>2. g = FirstUnit => g.hi = b  BY DEF FirstUnit
  <2> QED  BY <2>1, <2>2, BackupRangeIs
<1>6. a \notin Kept => pc = "header" /\ g.lo <= a /\ a < g.hi  BY DEF Native!Range
<1>7. Native!Same => Advancing  BY Names DEF Native!Same, BackupTypes
<1>8. ~ Native!Same => hdr[1].hi = 0 /\ hdr[0].hi \in {0, b} /\ (a \in Kept => Native!Full(0))
  <2> SUFFICES ASSUME ~ Native!Same
               PROVE  hdr[1].hi = 0 /\ hdr[0].hi \in {0, b} /\ (a \in Kept => Native!Full(0))
    OBVIOUS
  <2>1. hdr[1] = Native!Empty /\ hdr[0] \in {Native!Empty, FirstUnit}  BY DEF HeaderInv
  <2>2. hdr[1].hi = 0 /\ hdr[0].hi \in {0, b}  BY <2>1 DEF Native!Empty, FirstUnit
  <2>3. a \in Kept => hdr[0].lo <= a /\ a < hdr[0].hi  BY <1>1, <1>3, <1>4, <2>2
  <2>4. a \in Kept => hdr[0].lo < hdr[0].hi  BY <1>1, <1>3, <2>3
  <2> QED  BY <2>2, <2>4, KeptIs
<1> HIDE DEF g, b
<1>9. CASE Advancing
  <2>1. suspendLo <= progress /\ suspendPoint <= suspendHi
        /\ \A x \in {0, 1} : hdr[x].hi <= suspendPoint
    BY <1>3, <1>9 DEF SuspendedInv
  <2>2. progress <= recorded \/ progress = 0
    <3>1. CASE Native!Same  BY <3>1 DEF SlidingInv
    <3>2. CASE ~ Native!Same /\ a \in Kept  BY <1>8, <1>9, <3>2 DEF GrowingInv
    <3>3. CASE ~ Native!Same /\ a \notin Kept  BY <1>5, <1>6, <1>9, <3>3 DEF GrowingInv
    <3> QED  BY <3>1, <3>2, <3>3
  <2>3. a < suspendPoint
    <3>1. CASE a \in Kept  BY <1>1, <1>3, <1>4, <2>1, <3>1
    <3>2. CASE a \notin Kept
      <4>1. g.hi <= suspendPoint  BY <1>1, <1>5, <1>6, <1>9, <3>2
      <4> QED  BY <1>1, <1>5, <1>6, <3>2, <4>1
    <3> QED  BY <3>1, <3>2
  <2> QED  BY <1>1, <1>2, <1>9, <2>1, <2>2, <2>3
<1>10. CASE ~ Advancing
  <2>1. ~ Native!Same /\ ShrinkingInv  BY <1>7, <1>10
  <2>2. suspendPoint = 0
    <3>1. CASE a \in Kept  BY <1>8, <1>10, <2>1, <3>1 DEF SuspendedInv
    <3>2. CASE a \notin Kept  BY <1>5, <1>6, <1>10, <2>1, <3>2
    <3> QED  BY <3>1, <3>2
  <2>3. progress > 0
    <3>1. progress >= recorded  BY <2>1 DEF ShrinkingInv
    <3> QED  BY <1>1, <1>2, <1>10, <3>1
  <2>4. suspendLo = 0 /\ suspendHi >= b  BY <1>10, <2>2, <2>3 DEF SuspendedInv, b
  <2>5. a < b
    <3>1. CASE a \in Kept  BY <1>1, <1>4, <1>8, <2>1, <3>1
    <3>2. CASE a \notin Kept  BY <1>5, <1>6, <2>1, <3>2
    <3> QED  BY <3>1, <3>2
  <2> QED  BY <1>1, <2>4, <2>5
<1> QED  BY <1>9, <1>10

\* No write makes what the backup holds stale, unless it is left behind or was moved.
LEMMA UserWrites ==
  ASSUME BackupTypes, BackupInv, Cautious, Native!UserWrite
  PROVE  BackupTypes' /\ BackupInv'
<1>1. PICK a \in held[0] \cup held[1] :
         /\ Native!MayWrite(a) /\ ~ Native!LeftBackup /\ ~ Native!Passed(a)
         /\ held' = [p \in Native!Half |-> held[p] \ {a}]
         /\ UNCHANGED <<Native!kernelVars, Native!childVars, hdr, two, crashes>>
  BY DEF Native!UserWrite, Cautious
<1>2. /\ UNCHANGED shapeVars
      /\ UNCHANGED <<rows, active, recorded, up, reshaping, pos, busy, syncMax, suspendLo, suspendHi>>
      /\ UNCHANGED <<pc, progress, backupPoint, suspendPoint, part, maxProgress, more>>
      /\ UNCHANGED <<hdr, two, crashes>>
  BY <1>1 DEF Native!kernelVars, Native!shapeVars, shapeVars, Native!diskVars,
         Native!driveVars, Native!suspVars, Native!childVars
<1>3. /\ held \in [Native!Half -> SUBSET Native!Addr] /\ Native!Half = {0, 1} /\ a \in Native!Addr
      /\ part \in {0, 1}
  BY <1>1, Positions DEF BackupTypes, Native!TypeOK, Native!Half
<1>4. /\ held' \in [Native!Half -> SUBSET Native!Addr]
      /\ \A p \in {0, 1} : held'[p] = held[p] \ {a}
  BY <1>1, <1>3
<1>5. BackupTypes'
  <2>1. /\ before' = before /\ after' = after /\ size' = size
        /\ Native!Row' = Native!Row /\ Native!Half' = Native!Half /\ Native!Addr' = Native!Addr
        /\ Native!Most(Native!First, Native!Last)' = Native!Most(Native!First, Native!Last)
        /\ Native!Blocks' = Native!Blocks
    BY <1>2, ShapeStays DEF Native!Most
  <2>2. Native!TypeOK'  BY <1>2, <1>4, <2>1 DEF BackupTypes, Native!TypeOK
  <2> QED  BY <1>2, <2>1, <2>2 DEF BackupTypes, AtRow
<1>6. CASE ~ active  BY <1>2, <1>5, <1>6, OverStays DEF BackupInv, Restarting
<1>7. CASE active
  <2>1. /\ HeaderInv /\ RowsKnown /\ RestartInv /\ ChildInv /\ pc # "idle"  BY <1>7, RunningAt
  <2>2. up /\ pc \notin Restarting
    <3>1. up  BY <1>1 DEF Native!MayWrite, Native!NotHeldUp
    <3> QED  BY <2>1, <3>1 DEF RestartInv
  <2>3. pc \notin {"abort", "aborted"}  BY <1>1 DEF Native!LeftBackup
  <2>4. Native!Backed = {p \in {0, 1} : Native!Full(p)}
        /\ \A p \in {0, 1} : hdr[p].lo \in Nat /\ hdr[p].hi \in Nat
    BY <2>1, KeptIs
  <2>5. \A p \in Native!Half : a \in Native!Range(hdr[p]) /\ pc # "done" => ~ Native!Moved(a, recorded)
    BY <1>1, <2>3 DEF Native!Passed
  <2>6. ~ (suspendLo <= a /\ a < suspendHi) /\ (Native!Moved(a, pos) => Native!Moved(a, recorded))
    BY <1>1 DEF Native!MayWrite, Native!NotHeldUp
  <2>7. Native!Usable => a \notin Kept
    <3> SUFFICES ASSUME Native!Usable, a \in Kept PROVE FALSE  OBVIOUS
    <3>1. Native!Backed # {} /\ recorded <= Native!Covered.hi
      BY <2>1 DEF HeaderInv, Native!Usable
    <3>2. pc # "done"  BY <1>1, <1>7, <3>1 DEF Native!LeftBackup
    <3>3. ~ Native!Moved(a, recorded)
      <4>1. PICK p \in Native!Backed : a \in Native!Range(hdr[p])  BY DEF Kept
      <4> QED  BY <1>3, <2>4, <2>5, <3>2, <4>1
    <3>4. pc \in Watching \/ (pc = "lift" /\ more = -2)
      BY <2>1, <2>2, <2>3, <3>1, <3>2 DEF ChildInv, Watching, Restarting, BackupTypes, Native!TypeOK
    <3>5. SuspendedInv
          /\ IF Native!Same THEN SlidingInv ELSE IF Advancing THEN GrowingInv ELSE ShrinkingInv
      BY <2>1, <3>4 DEF ChildInv, Stopping
    <3> QED  BY <1>3, <2>1, <2>6, <3>3, <3>5, IsSuspended
  <2>8. pc = "header" /\ pos # Native!Last => a \notin Native!Range(Native!BackupRange)
    <3> SUFFICES ASSUME pc = "header", pos # Native!Last, a \in Native!Range(Native!BackupRange)
                 PROVE  FALSE
      OBVIOUS
    <3>1. SuspendedInv
          /\ IF Native!Same THEN SlidingInv ELSE IF Advancing THEN GrowingInv ELSE ShrinkingInv
      BY <2>1 DEF ChildInv, Watching
    <3>2. Native!CanBackup  BY <3>1 DEF SuspendedInv
    <3>3. ~ Native!Moved(a, pos)  BY <1>7, <3>2, ToBackUpIsOld
    <3>4. ~ Native!Moved(a, recorded)
      <4>1. IF Advancing THEN recorded <= pos ELSE pos <= recorded  BY <2>1 DEF RowsKnown
      <4>2. a \in Nat /\ recorded \in Nat /\ pos \in Nat  BY <1>3, Places, Positions
      <4> QED  BY <3>3, <4>1, <4>2, Names
    <3> QED  BY <1>3, <2>1, <2>6, <3>1, <3>4, IsSuspended
  <2>9. RowsKnown'  BY <1>2, <2>1, RowsStay
  <2>10. HeaderInv'
    <3>1. /\ \A p : Native!Full(p)' = Native!Full(p)
          /\ Native!Backed' = Native!Backed /\ Native!Usable' = Native!Usable
          /\ Native!Covered' = Native!Covered
      BY <1>2, HeaderStays
    <3>2. Native!Usable => \A p \in Native!Backed : Native!Range(hdr[p]) \subseteq held'[p]
      <4> SUFFICES ASSUME Native!Usable, NEW p \in Native!Backed
                   PROVE  Native!Range(hdr[p]) \subseteq held'[p]
        OBVIOUS
      <4>1. Native!Range(hdr[p]) \subseteq held[p] /\ p \in {0, 1}  BY <2>1, <2>4 DEF HeaderInv
      <4>2. a \notin Native!Range(hdr[p])  BY <2>7 DEF Kept
      <4> QED  BY <1>4, <4>1, <4>2
    <3> QED  BY <1>2, <2>1, <3>1, <3>2, ShapeStays DEF HeaderInv, AtRow
  <2>11. SuspendedInv => SuspendedInv'
    <3> SUFFICES ASSUME SuspendedInv PROVE SuspendedInv'  OBVIOUS
    <3>1. /\ Native!CanBackup' = Native!CanBackup
          /\ Native!Range(Native!BackupRange)' = Native!Range(Native!BackupRange)
      BY <1>2, RangeStays
    <3>2. pc = "header" /\ pos # Native!Last => Native!Range(Native!BackupRange) \subseteq held'[part]
      BY <1>3, <1>4, <2>8 DEF SuspendedInv
    <3>3. \A p : Native!Full(p)' = Native!Full(p)  BY <1>2, HeaderStays
    <3> QED  BY <1>2, <3>1, <3>2, <3>3, ShapeStays DEF SuspendedInv
  <2>12. ChildInv'
    <3>1. /\ SlidingInv => SlidingInv'
          /\ GrowingInv => GrowingInv'
          /\ ShrinkingInv => ShrinkingInv'
      BY <1>2, ModeStays
    <3>2. Native!Backed' = Native!Backed /\ Native!NeedBackup' = Native!NeedBackup
      BY <1>2, HeaderStays, ShapeStays
    <3>3. Free' = Free  BY <1>2, ShapeStays DEF Free
    <3> QED  BY <1>2, <2>1, <2>11, <3>1, <3>2, <3>3, ShapeStays DEF ChildInv, Watching, Stopping
  <2>13. RestartInv'  BY <1>2, <2>2 DEF RestartInv, Restarting
  <2> QED  BY <1>2, <1>5, <1>7, <2>1, <2>9, <2>10, <2>12, <2>13 DEF BackupInv
<1> QED  BY <1>6, <1>7 DEF BackupTypes, Native!TypeOK

-----------------------------------------------------------------------------
(* The theorems of the backup file.                                         *)

\* Before mdadm --grow there is nothing to lose.
LEMMA InitNative ==
  ASSUME Init, ~ external
  PROVE  BackupTypes /\ BackupInv
<1>1. Native!Init  BY DEF Init
<1>2. /\ pc = "idle" /\ progress = 0 /\ backupPoint = 0 /\ suspendPoint = 0 /\ part = 0
      /\ maxProgress = 0 /\ more = 0 /\ crashes = 0
      /\ hdr = [p \in Native!Half |-> Native!Empty] /\ two = FALSE
      /\ held = [p \in Native!Half |-> {}]
      /\ rows = [r \in Native!Row |-> "old"] /\ active = FALSE /\ recorded = Native!First
      /\ up = TRUE /\ reshaping = FALSE /\ pos = Native!First /\ busy = FALSE
      /\ syncMax = 0 /\ suspendLo = 0 /\ suspendHi = 0
  BY <1>1 DEF Native!Init, Native!KernelInit
<1>3. before \in Nat \ {0} /\ after \in Nat \ {0} /\ size \in Nat \ {0}
  BY <1>1, ShapesAssumption DEF Native!Init, Native!KernelInit
<1>4. size * after \in Nat \ {0} /\ size * before \in Nat \ {0}  BY <1>3
<1>5. (Native!Advancing <=> after >= before) /\ (Advancing <=> after >= before)
  BY DEF Native!Advancing, Advancing
<1>6. Native!First = (IF Advancing THEN 0 ELSE size * after)
      /\ Native!Last = (IF Advancing THEN size * after ELSE 0)
  BY <1>5 DEF Native!First, Native!Last
<1>7. Native!Most(Native!First, Native!Last) = size * after
  BY <1>4, <1>6 DEF Native!Most
<1>8. AtRow(0) /\ AtRow(size * after)
  <2>1. 0 \div after = 0  BY <1>3
  <2>2. (size * after) \div after = size
    <3>1. (size + 1) * after = size * after + after  BY <1>3, Times
    <3> QED  BY <1>3, <1>4, <3>1, QuotientIs
  <2> QED  BY <1>3, <2>1, <2>2 DEF AtRow
<1>9. Native!TypeOK
  <2>1. 0 \in 0..Native!Most(Native!First, Native!Last)
        /\ Native!First \in 0..Native!Most(Native!First, Native!Last)
    BY <1>4, <1>6, <1>7
  <2>2. 0 \in 0..(size * before) /\ 0 \in 0..size /\ 0 \in 0..MaxCrashes
    BY <1>3, <1>4, MaxCrashesAssumption
  <2>3. hdr \in [Native!Half -> [lo : 0..(size * before), hi : 0..(size * before)]]
    BY <1>2, <2>2 DEF Native!Empty
  <2>4. held \in [Native!Half -> SUBSET Native!Addr] /\ part \in Native!Half
    BY <1>2 DEF Native!Half
  <2>5. rows \in [Native!Row -> {"old", "new", "lost"}]  BY <1>2
  <2> QED  BY <1>2, <2>1, <2>2, <2>3, <2>4, <2>5 DEF Native!TypeOK
<1>10. BackupTypes  BY <1>2, <1>3, <1>6, <1>8, <1>9 DEF BackupTypes
<1>11. Native!Complete(rows, recorded)
  <2> SUFFICES ASSUME NEW a \in Native!Addr
               PROVE  ~ Native!Moved(a, recorded) /\ rows[Native!OldRow(a)] = "old"
    BY DEF Native!Complete
  <2>1. a \in Nat /\ a < size * after /\ Native!OldRow(a) \in Native!Row  BY <1>10, Places
  <2>2. ~ Native!Moved(a, recorded)  BY <1>2, <1>4, <1>6, <1>10, <2>1, Names
  <2> QED  BY <1>2, <2>1, <2>2
<1>12. \A p \in Native!Half : ~ Native!Full(p)  BY <1>2 DEF Native!Full, Native!Empty
<1> QED  BY <1>2, <1>10, <1>11, <1>12 DEF BackupInv, Restarting

\* The invariant of the backup file is inductive.
LEMMA BackupStep ==
  ASSUME BackupTypes, BackupInv, Cautious, ~ external, [Next]_vars
  PROVE  BackupTypes' /\ BackupInv'
<1>1. CASE UNCHANGED vars
  <2>1. /\ UNCHANGED shapeVars
        /\ UNCHANGED <<rows, active, recorded, up, reshaping, pos, busy, syncMax, suspendLo, suspendHi>>
        /\ UNCHANGED <<pc, progress, backupPoint, suspendPoint, part, maxProgress, more>>
        /\ UNCHANGED <<hdr, two, held, crashes>>
    BY <1>1 DEF vars, kernelVars, shapeVars, diskVars, driveVars, suspVars, nativeVars
  <2>2. /\ before' = before /\ after' = after /\ size' = size
        /\ Native!Row' = Native!Row /\ Native!Half' = Native!Half /\ Native!Addr' = Native!Addr
        /\ Native!First' = Native!First
        /\ Native!Most(Native!First, Native!Last)' = Native!Most(Native!First, Native!Last)
        /\ Native!Blocks' = Native!Blocks
    BY <2>1, ShapeStays DEF Native!Most
  <2>3. BackupTypes'
    <3>1. Native!TypeOK'  BY <2>1, <2>2 DEF BackupTypes, Native!TypeOK
    <3> QED  BY <2>1, <2>2, <3>1 DEF BackupTypes, AtRow
  <2>4. CASE ~ active  BY <2>1, <2>3, <2>4, OverStays DEF BackupInv, Restarting
  <2>5. CASE active
    <3>1. /\ HeaderInv /\ RowsKnown /\ RestartInv /\ ChildInv /\ pc # "idle"  BY <2>5, RunningAt
    <3>2. HeaderInv' /\ RowsKnown'  BY <2>1, <3>1, HeaderStays, RowsStay
    <3>3. /\ Native!CanBackup' = Native!CanBackup
          /\ Native!Range(Native!BackupRange)' = Native!Range(Native!BackupRange)
          /\ \A p : Native!Full(p)' = Native!Full(p)
          /\ Native!Backed' = Native!Backed /\ Native!Usable' = Native!Usable /\ Kept' = Kept
      BY <2>1, RangeStays, HeaderStays
    <3>4. SuspendedInv' = SuspendedInv  BY <2>1, <3>3, ShapeStays DEF SuspendedInv
    <3>5. Free' = Free  BY <2>1, ShapeStays DEF Free
    <3>6. /\ SlidingInv => SlidingInv'
          /\ GrowingInv => GrowingInv'
          /\ ShrinkingInv => ShrinkingInv'
      BY <2>1, ModeStays
    <3>7. ChildInv'
      BY <2>1, <3>1, <3>3, <3>4, <3>5, <3>6, ShapeStays DEF ChildInv, Watching, Stopping
    <3>8. RestartInv'  BY <2>1, <3>1, <3>3, ShapeStays DEF RestartInv, Restarting
    <3> QED  BY <2>1, <2>3, <2>5, <3>1, <3>2, <3>7, <3>8 DEF BackupInv
  <2> QED  BY <2>4, <2>5 DEF BackupTypes, Native!TypeOK
<1>2. CASE Next
  <2>1. Native!Next  BY <1>2 DEF Next, ByMdadm, ByHandler
  <2>2. CASE Native!Driver
    <3>1. /\ UNCHANGED Native!childVars /\ UNCHANGED Native!backupVars /\ UNCHANGED crashes
          /\ Native!BeginRow \/ Native!EndRow \/ Native!Checkpoint \/ Native!FinishReshape
      BY <2>2 DEF Native!Driver
    <3> QED  BY <3>1, BeginRowKeeps, RowDoneKeeps, CheckpointKeeps, FinishReshapeKeeps
  <2>3. CASE Native!Child
    <3>1. ASSUME NEW p \in Native!Half, Native!ForgetBackup(p) PROVE BackupTypes' /\ BackupInv'
      BY <3>1, ForgetKeeps
    <3> QED
      BY <2>3, <3>1, GrowStarts, ResumeWritesKeeps, SuspendMoreKeeps, MayProgressKeeps, WaitKeeps,
         AfterForgetKeeps, SaveDataKeeps, NoMoreBackupKeeps, WriteHeaderKeeps, LiftKeeps, AbortKeeps,
         UnlinkKeeps
         DEF Native!Child
  <2>4. CASE Native!UserWrite  BY <2>4, UserWrites
  <2>5. CASE Native!Crash  BY <2>5, CrashLoses
  <2>6. CASE Native!Restart
    BY <2>6, AssembleKeeps, RestoreStripesKeeps, UpdateSupersKeeps, ContinueStarts, RunArrayKeeps
       DEF Native!Restart
  <2> QED  BY <2>1, <2>2, <2>3, <2>4, <2>5, <2>6 DEF Native!Next
<1> QED  BY <1>1, <1>2

\* Of an array with native metadata the invariant holds in every state, whatever its shapes,
\* the size of the backup and how often the machine crashes, unless the driver starts early or
\* users write to what is stale and not released.
THEOREM BackupInvariant == Cautious /\ Spec => [](~ external => BackupTypes /\ BackupInv)
<1> DEFINE Inv == ~ external => BackupTypes /\ BackupInv
<1>1. Init => Inv  BY InitNative
<1>2. Inv /\ Cautious /\ [Next]_vars => Inv'
  <2>1. ASSUME external, [Next]_vars PROVE external'
    BY <2>1 DEF Next, ByMdadm, ByHandler, vars
  <2> QED  BY <2>1, BackupStep
<1>3. Cautious => []Cautious
  <2>1. Cautious => Cautious'  BY DEF Cautious
  <2> QED  BY <2>1, PTL
<1> HIDE DEF Inv
<1> QED  BY <1>1, <1>2, <1>3, PTL DEF Spec, Inv

\* Crash safety of a reshape with a backup file.
THEOREM NothingLostInBackup == Cautious /\ Spec => [](~ external => NothingLost)
<1>1. (~ external => BackupTypes /\ BackupInv) => (~ external => NothingLost)
  <2> SUFFICES ASSUME ~ external, BackupTypes, BackupInv PROVE Native!Recoverable
    BY DEF NothingLost, Native!NothingLost
  <2>1. CASE ~ active  BY <2>1 DEF BackupInv, Native!Recoverable
  <2>2. CASE active
    <3>1. HeaderInv /\ RowsKnown  BY <2>2, RunningAt
    <3> QED  BY <2>2, <3>1, KnownIsComplete DEF Native!Recoverable
  <2> QED  BY <2>1, <2>2 DEF BackupTypes, Native!TypeOK
<1> QED  BY <1>1, BackupInvariant, PTL

\* Crash safety of a reshape, whoever does it.
THEOREM NothingLostAlways == Provided /\ Cautious /\ Spec => []NothingLost
<1>1. (external => NothingLost) /\ (~ external => NothingLost) => NothingLost  OBVIOUS
<1> QED  BY <1>1, NothingLostInMigration, NothingLostInBackup, PTL

\* What the backup file covers, and child_monitor has not released, does not grow stale while
\* the array is watched.
THEOREM BackupStaysCurrent == Cautious /\ Spec => []BackupIsCurrent
<1>1. (~ external => BackupTypes /\ BackupInv) => BackupIsCurrent
  <2> SUFFICES ASSUME BackupTypes, BackupInv, NEW p \in Native!Half, Native!Full(p),
                      recorded # Native!Last, NEW a \in Native!Range(hdr[p])
               PROVE  a \in held[p] \/ Native!Moved(a, recorded)
    BY DEF BackupIsCurrent, Native!BackupIsCurrent
  <2>1. active
    <3> SUFFICES ASSUME ~ active PROVE FALSE  BY DEF BackupTypes, Native!TypeOK
    <3>1. pos # Native!Last  BY DEF BackupInv
    <3> QED  BY <3>1 DEF BackupInv
  <2>2. HeaderInv  BY <2>1, RunningAt
  <2>3. p \in Native!Backed  BY <2>2, KeptIs
  <2>4. a \in Kept  BY <2>3 DEF Kept
  <2>5. Native!Usable => a \in held[p]  BY <2>2, <2>3 DEF HeaderInv
  <2> QED  BY <2>2, <2>4, <2>5, StaleIsMoved
<1> QED  BY <1>1, BackupInvariant, PTL
===========================================================================
