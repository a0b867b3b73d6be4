------------------------ MODULE AssembleDisksProofs ------------------------
(***************************************************************************)
(* Two theorems about assembling disks by their event counts, for any      *)
(* number of disks, in any order on the command line, and any number of    *)
(* crashes.                                                                *)
(*                                                                         *)
(* ForceStartsAlways: a forced assembly starts a RAID0, 1, 5 or 6 at the   *)
(* second attempt if not at the first, whenever enough whole disks are     *)
(* there. force_array may fill the wrong slot of avail, but never more     *)
(* slots than it has disks (CountedOnce).  So when it stops, either the    *)
(* disks that are up to date are enough, or none is left to be forced; the *)
(* event counts that it wrote keep this true until the next attempt        *)
(* (Exhausted), which forces nothing and so counts right (SecondTime).     *)
(*                                                                         *)
(* NothingStaleAlways: a RAID0 or RAID5 of three or more disks never runs  *)
(* with a stale disk. A disk that missed a write is older than all others, *)
(* and they have it marked as failed (StaleIsKnown): because one that is   *)
(* left out is behind before anything is written (LeftBehind). That must   *)
(* be so after every start, which is why whoever would be the freshest of  *)
(* the rest has to know of a disk that is newer (NewerIsSeen, TopsKnow),   *)
(* or of one that was being rebuilt (GhostIsApart); and a crash may have   *)
(* cut off any record of it.                                               *)
(***************************************************************************)
EXTENDS AssembleDisks, FiniteSetTheorems, WellFoundedInduction, TLAPS

\* What no event count exceeds.
Bound == MaxEvents + 1

Super == [events : 1..Bound, sees : SUBSET Disk, clean : BOOLEAN, whole : BOOLEAN]

\* The disks of an assembly that are no spares, and of those the ones that count as up to
\* date, by what their superblocks say now.
Actives(disks) == {d \in disks : d \in sb[d].sees}
Fresh(disks) ==
    {d \in Actives(disks) : sb[d].whole /\ \A e \in Actives(disks) : sb[e].events <= sb[d].events + 1}

\* Nothing is gained by forcing more of these disks.
Exhausted(disks) ==
    \/ {d \in Actives(disks) : sb[d].whole} \subseteq Fresh(disks)
    \/ Enough(TRUE, Fresh(disks))

\* The types; a disk that holds the data is no spare, and an array that runs was not refused.
ArrayTypes ==
    /\ sb \in [Disk -> Super]
    /\ \A d \in Disk : sb[d].whole => d \in sb[d].sees
    /\ insync \subseteq Disk /\ rebuilding \subseteq Disk /\ dirty \in BOOLEAN
    /\ refused \subseteq Disk
    /\ pc \in {"idle", "force", "choose", "start"} /\ force \in BOOLEAN /\ clean \in BOOLEAN
    /\ pc = "idle" => vintage = 0
    /\ running => pc = "idle" /\ events \in 1..Bound /\ refused = {}

\* What mdadm read is what the disks hold, but for what Choose stores.
ReadInv ==
    /\ given \subseteq Disk /\ read \in [given -> Super]
    /\ Active(read) = Actives(given)
    /\ \A d \in given : read[d].events = sb[d].events /\ read[d].whole = sb[d].whole
    /\ pc # "start" => \A d \in given : read[d] = sb[d]

\* No more slots are taken for filled than there are disks to fill them.
CountedOnce ==
    /\ best \subseteq Active(read) /\ (force => best = Active(read))
    /\ uptodate = {d \in best : read[d].events + 1 >= Top}
    /\ \E d \in best : read[d].events = Top
    /\ avail \subseteq Nat /\ IsFiniteSet(avail)
    /\ Cardinality(avail) <= Cardinality({d \in uptodate : read[d].whole})

\* When force_array is through.
ForcedAll ==
    /\ pc = "force" => force
    /\ force /\ pc \in {"choose", "start"} => Candidates = {} \/ Enough(TRUE, avail)

\* The second attempt with the same disks forces nothing.
SecondTime ==
    force /\ refused # {} /\ given = refused =>
        /\ avail = {d \in uptodate : read[d].whole}
        /\ pc = "force" => vintage = 0
        /\ Candidates = {} \/ Enough(TRUE, avail)

\* The superblock that the kernel is to believe knows all that is up to date, and is clean
\* if the array could not be started dirty.
ChosenInv ==
    pc = "start" =>
        /\ chosen \in Disk
        /\ force =>
            /\ uptodate \subseteq sb[chosen].sees /\ sb[chosen].events = Top
            /\ Enough(TRUE, avail) => Enough(clean, avail)
            /\ sb[chosen].clean \/ Enough(FALSE, avail) \/ Level \in {0, 1}

ForceInv ==
    /\ pc # "idle" => ReadInv /\ CountedOnce /\ ForcedAll /\ SecondTime /\ ChosenInv
    /\ pc = "idle" /\ refused # {} => Exhausted(refused)

\* What "enough" depends on is how many disks there are, and not which (as with RAID10, and
\* with RAID4, which needs no parity disk).
ByNumber == Level \in {0, 1, 5, 6}

-----------------------------------------------------------------------------
(* Sets of numbers, and of disks.                                           *)

\* A set of natural numbers has a least one.
LEMMA Least ==
  ASSUME NEW I \in SUBSET Nat, I # {}
  PROVE  \E m \in I : \A k \in I : m <= k
<1> DEFINE R == {ss \in Nat \X Nat : ss[1] < ss[2]}
<1>1. IsWellFoundedOn(R, Nat)  BY NatLessThanWellFounded DEF OpToRel
<1> HIDE DEF R
<1>2. PICK m \in I : \A k \in I : ~(<<k, m>> \in R)  BY <1>1, WFMin
<1>3. \A k \in I : ~(k < m)  BY <1>2 DEF R
<1> QED  BY <1>3

\* Min of FiniteSetsExt.
LEMMA MinIs ==
  ASSUME NEW S \in SUBSET Nat, S # {}
  PROVE  Min(S) \in S /\ \A y \in S : Min(S) <= y
<1>1. \E m \in S : \A k \in S : m <= k  BY Least
<1> QED  BY <1>1 DEF Min

\* A bounded set of natural numbers has a greatest one.
LEMMA Greatest ==
  ASSUME NEW S \in SUBSET (1..Bound), S # {}
  PROVE  \E m \in S : \A k \in S : k <= m
<1>0. Bound \in Nat  BY BoundAssumption DEF Bound
<1> DEFINE T == {Bound - k : k \in S}
<1>1. T \in SUBSET Nat /\ T # {}
  <2>1. \A k \in S : k \in Nat /\ k <= Bound  BY <1>0
  <2>2. \A k \in S : Bound - k \in Nat  BY <1>0, <2>1
  <2> QED  BY <2>2
<1>2. PICK t \in T : \A u \in T : t <= u
  <2> HIDE DEF T
  <2> QED  BY <1>1, Least
<1>3. PICK m \in S : t = Bound - m  OBVIOUS
<1>4. \A k \in S : Bound - m <= Bound - k  BY <1>2, <1>3
<1>5. \A k \in S : k <= m  BY <1>0, <1>4
<1> QED  BY <1>5

\* Max of FiniteSetsExt.
LEMMA MaxIs ==
  ASSUME NEW S \in SUBSET (1..Bound), S # {}
  PROVE  Max(S) \in S /\ \A y \in S : y <= Max(S)
<1>0. Bound \in Nat  BY BoundAssumption DEF Bound
<1>1. PICK m \in S : \A k \in S : m >= k  BY <1>0, Greatest
<1>2. Max(S) \in S /\ \A y \in S : Max(S) >= y  BY <1>1 DEF Max
<1> QED  BY <1>0, <1>2

\* Disks are numbers, and finitely many.
LEMMA DisksAre ==
  ASSUME NEW D \in SUBSET Disk
  PROVE  IsFiniteSet(D) /\ Cardinality(D) \in Nat /\ D \subseteq Nat
<1>1. Disk \subseteq Nat /\ IsFiniteSet(Disk)
  BY RaidDisksAssumption, FS_Interval DEF Disk
<1> QED  BY <1>1, FS_Subset, FS_CardinalityType

\* Subsets have no more elements.
LEMMA NoMore ==
  ASSUME NEW B, IsFiniteSet(B), NEW A \in SUBSET B
  PROVE  IsFiniteSet(A) /\ Cardinality(A) \in Nat /\ Cardinality(A) <= Cardinality(B)
BY FS_Subset, FS_CardinalityType

\* With as many slots, of other disks or of the same, there is enough again.
LEMMA EnoughMore ==
  ASSUME ByNumber, NEW A, NEW B, NEW x \in BOOLEAN, IsFiniteSet(A), IsFiniteSet(B),
         Cardinality(A) <= Cardinality(B), Enough(x, A)
  PROVE  Enough(x, B) /\ Enough(TRUE, B)
<1>1. RaidDisks \in Nat /\ Cardinality(A) \in Nat /\ Cardinality(B) \in Nat
  BY RaidDisksAssumption, FS_CardinalityType
<1>2. CASE Level = 0  BY <1>1, <1>2 DEF Enough
<1>3. CASE Level = 1  BY <1>1, <1>3 DEF Enough
<1>4. CASE Level = 5  BY <1>1, <1>4 DEF Enough
<1>5. CASE Level = 6  BY <1>1, <1>5 DEF Enough
<1> QED  BY <1>2, <1>3, <1>4, <1>5 DEF ByNumber

\* A dirty stripe is of no concern without parity.
LEMMA DirtyIsEnough ==
  ASSUME Level \in {0, 1}, NEW A, NEW x \in BOOLEAN, Enough(TRUE, A)
  PROVE  Enough(x, A)
<1>1. CASE Level = 0  BY <1>1 DEF Enough
<1>2. CASE Level = 1  BY <1>2 DEF Enough
<1> QED  BY <1>1, <1>2

\* The freshest disk is the freshest.
LEMMA RecentIs ==
  ASSUME NEW D \in SUBSET Disk, NEW r \in [D -> Super], Active(r) # {}
  PROVE  /\ MostRecent(r) \in Active(r)
         /\ \A e \in Active(r) : r[e].events <= r[MostRecent(r)].events
<1> DEFINE E == {r[d].events : d \in Active(r)}
           T == {d \in Active(r) : r[d].events = Max(E)}
           K == {Index(d, D) : d \in T}
<1>1. Active(r) \subseteq D /\ DOMAIN r = D  BY DEF Active
<1>2. E \in SUBSET (1..Bound) /\ E # {}  BY <1>1 DEF Super
<1>3. Max(E) \in E /\ \A y \in E : y <= Max(E)
  <2> HIDE DEF E
  <2> QED  BY <1>2, MaxIs
<1>4. T # {}  BY <1>3
<1>5. \A d \in T : Index(d, D) \in Nat
  <2> SUFFICES ASSUME NEW d \in T PROVE Index(d, D) \in Nat  OBVIOUS
  <2>1. IsFiniteSet(1..RaidDisks)  BY RaidDisksAssumption, FS_Interval
  <2> QED  BY <2>1, NoMore DEF Index
<1>6. K \in SUBSET Nat /\ K # {}  BY <1>4, <1>5
<1>7. PICK k \in K : \A j \in K : k <= j
  <2> HIDE DEF K
  <2> QED  BY <1>6, Least
<1>8. PICK d \in T : k = Index(d, D)  OBVIOUS
<1>9. \A e \in Active(r) : r[e].events = Max(E) => Index(d, D) <= Index(e, D)
  BY <1>7, <1>8
<1>10. /\ MostRecent(r) \in Active(r)
       /\ r[MostRecent(r)].events = Max(E)
  <2> DEFINE P(c) == c \in Active(r) /\ r[c].events = Max(E)
                     /\ \A e \in Active(r) : r[e].events = Max(E) => Index(c, D) <= Index(e, D)
  <2>1. P(d)  BY <1>9
  <2>2. MostRecent(r) = CHOOSE c \in Active(r) :
            /\ r[c].events = Max(E)
            /\ \A e \in Active(r) : r[e].events = Max(E) => Index(c, D) <= Index(e, D)
    BY <1>1 DEF MostRecent
  <2> HIDE DEF E
  <2> QED  BY <2>1, <2>2
<1> QED  BY <1>3, <1>10

-----------------------------------------------------------------------------
(* The array, while it runs.                                                *)

\* Bounds of event counts.
LEMMA Numbers == Bound \in Nat /\ 1 \in 1..Bound /\ \A e \in 1..Bound : e \in Nat /\ e > 0
BY BoundAssumption DEF Bound

\* New superblocks for all disks of the array, or for some of them.
LEMMA RecordKeeps ==
  ASSUME ArrayTypes, NEW in \in SUBSET Disk, NEW rb \in SUBSET Disk, NEW isClean \in BOOLEAN,
         Record(in, rb, isClean)
  PROVE  ArrayTypes' /\ ForceInv'
<1>0. running /\ events \in 1..Bound /\ events < MaxEvents /\ pc = "idle" /\ MaxEvents \in Nat
  BY BoundAssumption DEF Record, ArrayTypes
<1>1. UNCHANGED <<pc, force, clean, vintage>> /\ refused' = {}  BY DEF Record, mdadmVars
<1>2. events + 1 \in 1..Bound  BY <1>0 DEF Bound
<1> DEFINE New(d) == [events |-> events + 1, sees |-> in \cup rb, clean |-> isClean, whole |-> d \in in]
<1>3. PICK W \in SUBSET Disk : sb' = [d \in Disk |-> IF d \in W THEN New(d) ELSE sb[d]]
  <2>1. in \cup rb \in SUBSET Disk  OBVIOUS
  <2>2. \E W \in SUBSET (in \cup rb) : sb' = [d \in Disk |-> IF d \in W THEN New(d) ELSE sb[d]]
    BY DEF Record
  <2> QED  BY <2>1, <2>2
<1>4. \A d \in Disk : New(d) \in Super /\ (New(d).whole => d \in New(d).sees)
  <2> SUFFICES ASSUME NEW d \in Disk PROVE New(d) \in Super /\ (New(d).whole => d \in New(d).sees)
    OBVIOUS
  <2>1. (d \in in) \in BOOLEAN /\ in \cup rb \in SUBSET Disk  OBVIOUS
  <2>2. New(d).whole => d \in New(d).sees  OBVIOUS
  <2>3. New(d) \in Super  BY <1>2, <2>1 DEF Super
  <2> QED  BY <2>2, <2>3
<1>5. sb' \in [Disk -> Super] /\ \A d \in Disk : sb'[d].whole => d \in sb'[d].sees
  <2> HIDE DEF New
  <2> QED  BY <1>3, <1>4 DEF ArrayTypes
<1>6. /\ running' => events' \in 1..Bound
      /\ insync' \subseteq Disk /\ rebuilding' \subseteq Disk /\ dirty' \in BOOLEAN
  <2>1. CASE /\ events' = events + 1 /\ insync' = in /\ rebuilding' = rb /\ dirty' = ~isClean
    BY <1>2, <2>1
  <2>2. CASE Off  BY <2>2 DEF Off
  <2> QED  BY <2>1, <2>2 DEF Record
<1>7. ArrayTypes'  BY <1>0, <1>1, <1>5, <1>6 DEF ArrayTypes
<1> QED  BY <1>0, <1>1, <1>7 DEF ForceInv

\* Whatever an array that runs does.
LEMMA RunningKeeps ==
  ASSUME ArrayTypes,
         \/ MarkDirty \/ MarkClean \/ Write \/ StopArray
         \/ \E d \in Disk : Fail(d) \/ Add(d) \/ Rebuild(d) \/ Rebuilt(d)
  PROVE  ArrayTypes' /\ ForceInv'
<1>0. insync \in SUBSET Disk /\ rebuilding \in SUBSET Disk /\ dirty \in BOOLEAN  BY DEF ArrayTypes
<1>1. CASE MarkDirty  BY <1>0, <1>1, RecordKeeps DEF MarkDirty
<1>2. CASE MarkClean  BY <1>0, <1>2, RecordKeeps DEF MarkClean
<1>3. CASE Write
  <2>1. UNCHANGED <<sb, running, events, insync, rebuilding, dirty, pc, force, clean, vintage, refused>> /\ running
    BY <1>3 DEF Write, kernelVars, mdadmVars
  <2> QED  BY <2>1 DEF ArrayTypes, ForceInv
<1>4. CASE StopArray
  <2>1. UNCHANGED <<sb, pc, force, clean, vintage, refused>> /\ running
        /\ ~running' /\ insync' = {} /\ rebuilding' = {} /\ dirty' = FALSE
    BY <1>4 DEF StopArray, diskVars, mdadmVars, Off
  <2> QED  BY <2>1 DEF ArrayTypes, ForceInv
<1>5. ASSUME NEW d \in Disk, Fail(d) PROVE ArrayTypes' /\ ForceInv'
  <2>1. insync \ {d} \in SUBSET Disk /\ rebuilding \ {d} \in SUBSET Disk  BY <1>0
  <2>2. (~dirty) \in BOOLEAN  OBVIOUS
  <2> QED  BY <1>5, <2>1, <2>2, RecordKeeps DEF Fail
<1>6. ASSUME NEW d \in Disk, Rebuild(d) PROVE ArrayTypes' /\ ForceInv'
  <2>1. rebuilding \cup {d} \in SUBSET Disk  BY <1>0
  <2>2. (~dirty) \in BOOLEAN  OBVIOUS
  <2> QED  BY <1>0, <1>6, <2>1, <2>2, RecordKeeps DEF Rebuild
<1>7. ASSUME NEW d \in Disk, Rebuilt(d) PROVE ArrayTypes' /\ ForceInv'
  <2>1. insync \cup {d} \in SUBSET Disk /\ rebuilding \ {d} \in SUBSET Disk  BY <1>0
  <2>2. (~dirty) \in BOOLEAN  OBVIOUS
  <2> QED  BY <1>7, <2>1, <2>2, RecordKeeps DEF Rebuilt
<1>8. ASSUME NEW d \in Disk, Add(d) PROVE ArrayTypes' /\ ForceInv'
  <2> DEFINE New == [events |-> events, sees |-> insync \cup rebuilding,
                     clean |-> ~dirty, whole |-> FALSE]
  <2>1. running /\ sb' = [sb EXCEPT ![d] = New] /\ UNCHANGED <<pc, force, clean, vintage, refused>>
    BY <1>8 DEF Add, mdadmVars
  <2>2. New \in Super /\ New.whole = FALSE  BY <1>0, <2>1 DEF ArrayTypes, Super
  <2>3. sb' \in [Disk -> Super] /\ \A e \in Disk : sb'[e].whole => e \in sb'[e].sees
    <3> HIDE DEF New
    <3> QED  BY <2>1, <2>2 DEF ArrayTypes
  <2>4. /\ running' => events' = events
        /\ insync' \subseteq Disk /\ rebuilding' \subseteq Disk /\ dirty' \in BOOLEAN
    BY <1>0, <1>8 DEF Add, Off
  <2> QED  BY <2>1, <2>3, <2>4 DEF ArrayTypes, ForceInv
<1> QED  BY <1>1, <1>2, <1>3, <1>4, <1>5, <1>6, <1>7, <1>8

\* Power is lost, or mdadm is killed.
LEMMA CrashKeeps ==
  ASSUME ArrayTypes, Crash
  PROVE  ArrayTypes' /\ ForceInv'
<1>1. sb' = sb /\ pc' = "idle" /\ force' = FALSE /\ clean' = FALSE /\ vintage' = 0 /\ refused' = {}
      /\ ~running' /\ insync' = {} /\ rebuilding' = {} /\ dirty' = FALSE
  BY DEF Crash, Off, Reset, diskVars
<1> QED  BY <1>1 DEF ArrayTypes, ForceInv

-----------------------------------------------------------------------------
(* The assembly.                                                            *)

\* What Top is, and which disks are up to date.
LEMMA TopIs ==
  ASSUME ArrayTypes, ReadInv, CountedOnce
  PROVE  /\ given \in SUBSET Disk /\ read \in [given -> Super]
         /\ best \subseteq Active(read) /\ Active(read) \subseteq given
         /\ Top \in 1..Bound
         /\ \A e \in Active(read) : read[e].events <= Top /\ read[e].events \in 1..Bound
<1>1. given \in SUBSET Disk /\ read \in [given -> Super] /\ best \subseteq Active(read)
      /\ Active(read) # {}
  BY DEF ReadInv, CountedOnce
<1>2. Active(read) \subseteq given  BY <1>1 DEF Active
<1>3. \A e \in given : read[e].events \in 1..Bound  BY <1>1 DEF Super
<1> QED  BY <1>1, <1>2, <1>3, RecentIs DEF Top

\* Those that count are the fresh ones, as the disks say.
LEMMA FreshIs ==
  ASSUME ArrayTypes, ReadInv, CountedOnce, best = Active(read)
  PROVE  {d \in uptodate : read[d].whole} = Fresh(given)
<1>1. \A d \in Active(read) : d \in given /\ read[d].events = sb[d].events /\ read[d].whole = sb[d].whole
                              /\ sb[d].events \in Nat /\ sb[d].events <= Top
  BY TopIs, Numbers DEF ReadInv
<1>2. PICK t \in Active(read) : sb[t].events = Top  BY <1>1 DEF CountedOnce
<1>3. Top \in Nat  BY TopIs, Numbers
<1>4. \A d \in Active(read) : sb[d].events + 1 >= Top
           <=> \A e \in Active(read) : sb[e].events <= sb[d].events + 1
  BY <1>1, <1>2, <1>3
<1>5. Actives(given) = Active(read)  BY DEF ReadInv
<1>6. uptodate = {d \in Active(read) : sb[d].events + 1 >= Top}  BY <1>1 DEF CountedOnce
<1> QED  BY <1>1, <1>4, <1>5, <1>6 DEF Fresh

\* The slots that are taken for filled are enough only if the disks are.
LEMMA FilledIsFresh ==
  ASSUME ByNumber, ArrayTypes, ReadInv, CountedOnce, best = Active(read), NEW x \in BOOLEAN,
         NEW B \in SUBSET Disk, {d \in uptodate : read[d].whole} \subseteq B, Enough(x, avail)
  PROVE  Enough(x, B) /\ Enough(TRUE, B)
<1> DEFINE W == {d \in uptodate : read[d].whole}
<1>1. IsFiniteSet(B) /\ IsFiniteSet(avail) /\ Cardinality(avail) \in Nat
  BY DisksAre, FS_CardinalityType DEF CountedOnce
<1>2. Cardinality(W) <= Cardinality(B) /\ Cardinality(W) \in Nat /\ Cardinality(B) \in Nat
  <2>1. W \in SUBSET B  OBVIOUS
  <2> HIDE DEF W
  <2> QED  BY <1>1, <2>1, NoMore
<1>3. Cardinality(avail) <= Cardinality(W)  BY DEF CountedOnce
<1>4. Cardinality(avail) <= Cardinality(B)
  <2> HIDE DEF W
  <2> QED  BY <1>1, <1>2, <1>3
<1> QED  BY <1>1, <1>4, EnoughMore

\* load_devices: a second attempt finds what the first one left.
LEMMA LoadKeeps ==
  ASSUME ByNumber, ArrayTypes, ForceInv, NEW disks \in SUBSET Disk, NEW f \in BOOLEAN, Load(disks, f)
  PROVE  ArrayTypes' /\ ForceInv'
<1> DEFINE r == [d \in disks |-> sb[d]]
           recent == MostRecent(r)
           accepted == {d \in Active(r) : d = recent \/ f \/ recent \in r[d].sees}
           current == {d \in accepted : r[d].events + 1 >= r[recent].events}
           filled == {d \in current : r[d].whole}
<1>1. /\ pc = "idle" /\ ~running /\ (\E d \in disks : d \in sb[d].sees)
      /\ given' = disks /\ force' = f /\ read' = r
      /\ best' = accepted /\ uptodate' = current /\ avail' = filled
      /\ clean' = r[recent].clean
      /\ pc' = IF f THEN "force" ELSE "choose"
      /\ UNCHANGED <<sb, running, events, insync, rebuilding, dirty, vintage, refused>>
  BY DEF Load, diskVars, kernelVars
<1>2. r \in [disks -> Super] /\ DOMAIN r = disks /\ \A d \in disks : r[d] = sb[d]  BY DEF ArrayTypes
<1>3. Active(r) = Actives(disks) /\ Active(r) # {} /\ Active(r) \subseteq disks
  <2> HIDE DEF r
  <2> QED  BY <1>1, <1>2 DEF Active, Actives
<1>4. recent \in Active(r) /\ \A e \in Active(r) : r[e].events <= r[recent].events
  <2> HIDE DEF r
  <2> QED  BY <1>2, <1>3, RecentIs
<1> HIDE DEF r
<1>5. \A d \in disks : r[d].events \in Nat /\ r[d].events > 0 /\ r[d].clean \in BOOLEAN
  BY <1>2, Numbers DEF Super
<1>6. ArrayTypes'
  <2>1. clean' \in BOOLEAN /\ pc' \in {"force", "choose"}  BY <1>1, <1>3, <1>4, <1>5
  <2> QED  BY <1>1, <2>1 DEF ArrayTypes
<1>7. ReadInv'
  <2>1. Active(read)' = Active(r) /\ Actives(given)' = Actives(disks)
    BY <1>1 DEF Active, Actives
  <2> QED  BY <1>1, <1>2, <1>3, <2>1 DEF ReadInv
<1>8. Top' = r[recent].events  BY <1>1 DEF Top
<1>9. accepted \subseteq Active(r) /\ (f => accepted = Active(r)) /\ recent \in accepted
  BY <1>4
<1>10. IsFiniteSet(filled) /\ filled \subseteq Nat /\ Cardinality(filled) \in Nat
  <2>1. filled \in SUBSET Disk  BY <1>3, <1>9
  <2> HIDE DEF filled
  <2> QED  BY <2>1, DisksAre
<1>11. filled = {d \in uptodate' : read'[d].whole}  BY <1>1
<1>12. CountedOnce'
  <2>1. uptodate' = {d \in best' : read'[d].events + 1 >= Top'}  BY <1>1, <1>8
  <2>2. \E d \in best' : read'[d].events = Top'  BY <1>1, <1>8, <1>9
  <2>3. best' \subseteq Active(read)' /\ (force' => best' = Active(read)')
    BY <1>1, <1>9 DEF Active
  <2>4. /\ avail' \subseteq Nat /\ IsFiniteSet(avail')
        /\ Cardinality(avail') <= Cardinality({d \in uptodate' : read'[d].whole})
    <3> HIDE DEF filled
    <3> QED  BY <1>1, <1>10, <1>11
  <2> QED  BY <2>1, <2>2, <2>3, <2>4 DEF CountedOnce
<1>13. ForcedAll'  BY <1>1 DEF ForcedAll
<1>14. ChosenInv'  BY <1>1 DEF ChosenInv
<1>15. SecondTime'
  <2>0. vintage = 0  BY <1>1 DEF ArrayTypes
  <2> SUFFICES ASSUME f, refused # {}, disks = refused PROVE SecondTime'
    BY <1>1 DEF SecondTime
  <2>1. Exhausted(disks)  BY <1>1 DEF ForceInv
  <2>2. filled = Fresh(disks)
    <3>1. \A d \in Active(r) : r[d] = sb[d]  BY <1>2, <1>3
    <3>2. \A d \in Active(r) : r[d].events + 1 >= r[recent].events
              <=> \A e \in Active(r) : sb[e].events <= sb[d].events + 1
      BY <1>3, <1>4, <1>5, <3>1
    <3>3. filled = {d \in Active(r) : r[d].events + 1 >= r[recent].events /\ r[d].whole}
      BY <1>9
    <3> QED  BY <1>3, <3>1, <3>2, <3>3 DEF Fresh
  <2>3. Candidates' = {d \in Active(r) \ current : r[d].whole}  BY <1>1, <1>9 DEF Candidates
  <2>4. {d \in Actives(disks) : sb[d].whole} \subseteq Fresh(disks) => Candidates' = {}
    <3> SUFFICES ASSUME {d \in Actives(disks) : sb[d].whole} \subseteq filled,
                        NEW d \in Active(r), d \notin current, r[d].whole
                 PROVE  FALSE
      BY <2>2, <2>3
    <3>1. d \in Actives(disks) /\ sb[d].whole  BY <1>2, <1>3
    <3> QED  BY <3>1
  <2>5. Candidates' = {} \/ Enough(TRUE, avail')
    <3>1. avail' = Fresh(disks)  BY <1>1, <2>2
    <3> QED  BY <2>1, <2>4, <3>1 DEF Exhausted
  <2>6. Enough(TRUE, avail)' <=> Enough(TRUE, avail')  BY DEF Enough
  <2> QED  BY <1>1, <1>11, <2>0, <2>5, <2>6 DEF SecondTime
<1> QED  BY <1>1, <1>6, <1>7, <1>12, <1>13, <1>14, <1>15 DEF ForceInv

\* force_array raises the event count of one more disk.
LEMMA ForceOneKeeps ==
  ASSUME ByNumber, ArrayTypes, ForceInv, ForceOne
  PROVE  ArrayTypes' /\ ForceInv'
<1>0. /\ ReadInv /\ CountedOnce /\ ForcedAll /\ SecondTime /\ pc = "force" /\ force
      /\ best = Active(read) /\ ~running
  BY DEF ForceOne, ForceInv, ForcedAll, CountedOnce, ArrayTypes
<1>1. PICK d \in Candidates :
          /\ sb' = Stamped(d) /\ read' = [read EXCEPT ![d].events = Top]
          /\ uptodate' = uptodate \cup {d} /\ avail' = avail \cup FilledBy(d)
  <2> DEFINE c == IF AddAnother # {} THEN Min(AddAnother) ELSE Newest(Candidates)
  <2>1. c \in Candidates
    <3>0. Candidates \in SUBSET Disk /\ Candidates \subseteq Nat
      <4>1. Candidates \in SUBSET Disk  BY TopIs, <1>0 DEF Candidates
      <4> QED  BY <4>1, DisksAre
    <3>1. CASE AddAnother # {}
      <4>1. AddAnother \subseteq Candidates  BY DEF AddAnother
      <4>2. Min(AddAnother) \in AddAnother  BY <3>0, <3>1, <4>1, MinIs
      <4> QED  BY <3>1, <4>1, <4>2
    <3>2. CASE AddAnother = {}
      <4> DEFINE E == {read[d].events : d \in Candidates}
                 N == {d \in Candidates : \A e \in Candidates : read[e].events <= read[d].events}
      <4>1. E \in SUBSET (1..Bound) /\ E # {}
        BY <1>0, TopIs DEF ForceOne, Candidates
      <4>2. \E m \in E : \A k \in E : k <= m
        <5> HIDE DEF E
        <5> QED  BY <4>1, Greatest
      <4>3. N # {} /\ N \in SUBSET Nat  BY <3>0, <4>2
      <4>4. Min(N) \in N
        <5> HIDE DEF N
        <5> QED  BY <4>3, MinIs
      <4> QED  BY <3>2, <4>4 DEF Newest
    <3> QED  BY <3>1, <3>2
  <2>2. /\ sb' = Stamped(c) /\ read' = [read EXCEPT ![c].events = Top]
        /\ uptodate' = uptodate \cup {c} /\ avail' = avail \cup FilledBy(c)
    BY DEF ForceOne
  <2> HIDE DEF c
  <2> QED  BY <2>1, <2>2
<1>2. /\ UNCHANGED <<running, events, insync, rebuilding, dirty, pc, given, force, best, clean, chosen,
                     refused>>
      /\ Candidates # {} /\ (AddAnother # {} \/ ~Enough(TRUE, avail))
  BY DEF ForceOne, kernelVars
<1>3. d \in best /\ d \notin uptodate /\ read[d].whole /\ d \in given /\ d \in Disk /\ Top \in 1..Bound
  BY <1>0, TopIs DEF Candidates
<1>4. sb' = [sb EXCEPT ![d].events = Top]  BY <1>1 DEF Stamped
<1>5. /\ sb' \in [Disk -> Super]
      /\ \A e \in Disk : sb'[e].sees = sb[e].sees /\ sb'[e].whole = sb[e].whole
                         /\ sb'[e].events = IF e = d THEN Top ELSE sb[e].events
  BY <1>3, <1>4 DEF ArrayTypes, Super
<1>6. ArrayTypes'  BY <1>0, <1>2, <1>5 DEF ArrayTypes
<1>7. /\ read' \in [given -> Super] /\ given \in SUBSET Disk
      /\ \A e \in given : read'[e].sees = read[e].sees /\ read'[e].whole = read[e].whole
                          /\ read'[e].events = IF e = d THEN Top ELSE read[e].events
  BY <1>0, <1>1, <1>3, TopIs DEF Super
<1>8. Active(read') = Active(read) /\ Actives(given)' = Actives(given)
  <2>1. DOMAIN read' = given /\ DOMAIN read = given  BY <1>0, <1>7, TopIs
  <2> QED  BY <1>2, <1>5, <1>7, <2>1 DEF Active, Actives
<1>9. ReadInv'
  <2>1. \A e \in given : read'[e] = sb'[e]
    BY <1>0, <1>1, <1>3, <1>4, TopIs DEF ReadInv, ArrayTypes
  <2> QED  BY <1>0, <1>2, <1>7, <1>8, <2>1 DEF ReadInv, Active
<1>10. Top' = Top
  <2>1. /\ MostRecent(read') \in Active(read)
        /\ \A e \in Active(read) : read'[e].events <= read'[MostRecent(read')].events
    <3>1. Active(read') # {}  BY <1>0, <1>3, <1>8
    <3> QED  BY <1>7, <1>8, <3>1, RecentIs
  <2>2. PICK t \in Active(read) : read[t].events = Top  BY <1>0 DEF CountedOnce
  <2>3. \A e \in Active(read) : e \in given /\ read[e].events <= Top /\ read[e].events \in Nat
    BY <1>0, TopIs, Numbers
  <2>4. \A e \in Active(read) : read'[e].events <= Top /\ read'[e].events \in Nat
    BY <1>3, <1>7, <2>3, Numbers
  <2>5. read'[t].events = Top  BY <1>7, <2>2, <2>3
  <2>6. read'[MostRecent(read')].events = Top  BY <1>3, <2>1, <2>2, <2>4, <2>5, Numbers
  <2> QED  BY <2>6 DEF Top
<1>11. CountedOnce'
  <2> DEFINE W == {e \in uptodate : read[e].whole}
  <2>1. best \subseteq given  BY <1>0, TopIs
  <2>2. uptodate = {e \in best : read[e].events + 1 >= Top}  BY <1>0 DEF CountedOnce
  <2>3. uptodate' = {e \in best : read'[e].events + 1 >= Top}
    <3>1. read'[d].events + 1 >= Top  BY <1>3, <1>7, Numbers
    <3>2. \A e \in best \ {d} : read'[e].events = read[e].events  BY <1>7, <2>1
    <3> QED  BY <1>1, <1>3, <2>2, <3>1, <3>2
  <2>4. \E e \in best : read'[e].events = Top  BY <1>3, <1>7
  <2>5. {e \in uptodate' : read'[e].whole} = W \cup {d}  BY <1>1, <1>3, <1>7, <2>1, <2>2
  <2>6. W \in SUBSET Disk /\ d \notin W  BY <1>3, <1>7, <2>1, <2>2
  <2>7. IsFiniteSet(W) /\ Cardinality(W) \in Nat /\ Cardinality(W \cup {d}) = Cardinality(W) + 1
    <3> HIDE DEF W
    <3> QED  BY <2>6, DisksAre, FS_AddElement
  <2>8. /\ avail \subseteq Nat /\ IsFiniteSet(avail) /\ Cardinality(avail) \in Nat
        /\ Cardinality(avail) <= Cardinality(W)
    BY <1>0, FS_CardinalityType DEF CountedOnce
  <2>9. /\ avail' \subseteq Nat /\ IsFiniteSet(avail') /\ Cardinality(avail') \in Nat
        /\ Cardinality(avail') <= Cardinality(avail) + 1
    <3> DEFINE i == Index(d, given)
    <3>1. i \in Nat
      <4>1. IsFiniteSet(1..RaidDisks)  BY RaidDisksAssumption, FS_Interval
      <4> QED  BY <4>1, NoMore DEF Index
    <3>2. avail' = avail \/ avail' = avail \cup {i}  BY <1>1 DEF FilledBy
    <3>3. /\ IsFiniteSet(avail \cup {i})
          /\ Cardinality(avail \cup {i}) \in {Cardinality(avail), Cardinality(avail) + 1}
      BY <2>8, FS_AddElement
    <3> HIDE DEF i
    <3>4. CASE avail' = avail  BY <2>8, <3>4
    <3>5. CASE avail' = avail \cup {i}
      <4>1. Cardinality(avail \cup {i}) \in Nat /\ Cardinality(avail \cup {i}) <= Cardinality(avail) + 1
        BY <2>8, <3>3
      <4> QED  BY <2>8, <3>1, <3>3, <3>5, <4>1
    <3> QED  BY <3>2, <3>4, <3>5
  <2>10. Cardinality(avail') <= Cardinality({e \in uptodate' : read'[e].whole})
    <3>1. Cardinality(avail') <= Cardinality(W \cup {d})
      <4> HIDE DEF W
      <4> QED  BY <2>7, <2>8, <2>9
    <3> QED  BY <2>5, <3>1
  <2>11. best' \subseteq Active(read)' /\ (force' => best' = Active(read)')
    BY <1>0, <1>2, <1>8 DEF Active
  <2> QED  BY <1>2, <1>10, <2>3, <2>4, <2>9, <2>10, <2>11 DEF CountedOnce
<1>12. ForcedAll' /\ ChosenInv'  BY <1>0, <1>2 DEF ForcedAll, ChosenInv
<1>13. SecondTime'
  <2> SUFFICES ASSUME refused # {}, given = refused PROVE FALSE  BY <1>2 DEF SecondTime
  <2>1. vintage = 0 /\ (Candidates = {} \/ Enough(TRUE, avail))  BY <1>0 DEF SecondTime
  <2>2. PICK e \in AddAnother : TRUE  BY <1>2, <2>1
  <2>3. read[e].events = 0 /\ e \in Active(read)  BY <1>0, <2>1, <2>2 DEF AddAnother, Candidates
  <2> QED  BY <1>0, <2>3, TopIs, Numbers
<1> QED  BY <1>0, <1>2, <1>6, <1>9, <1>11, <1>12, <1>13 DEF ForceInv

\* force_array is through.
LEMMA ForceDoneKeeps ==
  ASSUME ArrayTypes, ForceInv, ForceDone
  PROVE  ArrayTypes' /\ ForceInv'
<1>0. /\ ReadInv /\ CountedOnce /\ ForcedAll /\ SecondTime /\ pc = "force" /\ force
      /\ (Candidates = {} \/ Enough(TRUE, avail))
  BY DEF ForceDone, ForceInv, ForcedAll
<1>1. /\ UNCHANGED <<sb, running, events, insync, rebuilding, dirty, given, force, read, best, uptodate,
                     avail, vintage, clean, chosen, refused>>
      /\ pc' = "choose"
  BY DEF ForceDone, diskVars, kernelVars
<1>2. ArrayTypes'  BY <1>0, <1>1 DEF ArrayTypes
<1>3. ReadInv'  BY <1>0, <1>1 DEF ReadInv, Active, Actives
<1>4. CountedOnce'  BY <1>0, <1>1 DEF CountedOnce, Active, Top
<1>5. Candidates' = Candidates /\ (Enough(TRUE, avail)' <=> Enough(TRUE, avail))
  BY <1>1 DEF Candidates, Enough
<1>6. ForcedAll'  BY <1>0, <1>1, <1>5 DEF ForcedAll
<1>7. SecondTime'  BY <1>0, <1>1, <1>5 DEF SecondTime
<1> QED  BY <1>1, <1>2, <1>3, <1>4, <1>6, <1>7 DEF ForceInv, ChosenInv

\* The superblock that the kernel is to believe is one of the freshest.
LEMMA ChosenIs ==
  ASSUME ArrayTypes, ReadInv, CountedOnce
  PROVE  LET c == Min({d \in uptodate : read[d].events = Top}) IN c \in uptodate /\ read[c].events = Top
<1> DEFINE T == {d \in uptodate : read[d].events = Top}
<1>1. best \subseteq Disk /\ uptodate \subseteq best /\ Top \in 1..Bound  BY TopIs DEF CountedOnce
<1>2. T # {}
  <2>1. PICK d \in best : read[d].events = Top  BY DEF CountedOnce
  <2>2. read[d].events + 1 >= Top  BY <1>1, <2>1, Numbers
  <2> QED  BY <2>1, <2>2 DEF CountedOnce
<1>3. T \in SUBSET Nat
  <2>1. T \in SUBSET Disk  BY <1>1
  <2> HIDE DEF T
  <2> QED  BY <2>1, DisksAre
<1>4. Min(T) \in T
  <2> HIDE DEF T
  <2> QED  BY <1>2, <1>3, MinIs
<1> QED  BY <1>4

\* The superblock that the kernel is to believe is stored, if it was forced.
LEMMA ChooseKeeps ==
  ASSUME ByNumber, ArrayTypes, ForceInv, Choose
  PROVE  ArrayTypes' /\ ForceInv'
<1>0. /\ ReadInv /\ CountedOnce /\ ForcedAll /\ SecondTime /\ pc = "choose" /\ ~running
      /\ clean \in BOOLEAN /\ force \in BOOLEAN
  BY DEF Choose, ForceInv, ArrayTypes
<1> DEFINE c == Min({d \in uptodate : read[d].events = Top})
           allClean == clean /\ \A d \in uptodate \cup (given \ Active(read)) : read[d].clean
           forceClean == force /\ ~allClean /\ ~Enough(FALSE, avail)
           stored == [sb[c] EXCEPT !.sees = @ \cup uptodate,
                                   !.clean = @ \/ (forceClean /\ Level \in {4, 5, 6})]
<1>1. /\ UNCHANGED <<running, events, insync, rebuilding, dirty, given, force, read, best, uptodate,
                     avail, vintage, refused>>
      /\ pc' = "start" /\ chosen' = c /\ clean' = (allClean \/ forceClean)
      /\ sb' = IF force THEN [sb EXCEPT ![c] = stored] ELSE sb
  BY DEF Choose, kernelVars, MayCorrect
<1>2. given \in SUBSET Disk /\ best \subseteq given /\ uptodate \subseteq best /\ Top \in 1..Bound
  BY <1>0, TopIs DEF CountedOnce
<1>3. c \in uptodate /\ read[c].events = Top  BY <1>0, ChosenIs
<1>4. c \in Disk /\ c \in given /\ sb[c] = read[c] /\ sb[c] \in Super
      /\ c \in Actives(given)
  BY <1>0, <1>2, <1>3 DEF ReadInv, ArrayTypes, CountedOnce
<1>5. sb[c].clean \in BOOLEAN /\ sb[c].sees \in SUBSET Disk  BY <1>4 DEF Super
<1>6. /\ stored \in Super /\ stored.events = sb[c].events /\ stored.whole = sb[c].whole
      /\ stored.sees = sb[c].sees \cup uptodate
      /\ stored.clean = (sb[c].clean \/ (forceClean /\ Level \in {4, 5, 6}))
  <2> HIDE DEF c, forceClean
  <2>1. (sb[c].clean \/ (forceClean /\ Level \in {4, 5, 6})) \in BOOLEAN  OBVIOUS
  <2>2. sb[c].sees \cup uptodate \in SUBSET Disk  BY <1>2, <1>5
  <2> QED  BY <1>4, <2>1, <2>2 DEF Super
<1> HIDE DEF c, stored
<1>7. /\ sb' \in [Disk -> Super]
      /\ \A d \in Disk : /\ sb'[d].events = sb[d].events /\ sb'[d].whole = sb[d].whole
                         /\ sb[d].sees \subseteq sb'[d].sees
                         /\ d # c => sb'[d] = sb[d]
  BY <1>1, <1>4, <1>6 DEF ArrayTypes
<1>8. ArrayTypes'
  <2>1. clean' \in BOOLEAN  BY <1>1
  <2>2. \A d \in Disk : sb'[d].whole => d \in sb'[d].sees  BY <1>7 DEF ArrayTypes
  <2> QED  BY <1>0, <1>1, <1>7, <2>1, <2>2 DEF ArrayTypes
<1>9. Actives(given)' = Actives(given)
  <2>1. \A d \in given : d \in sb'[d].sees <=> d \in sb[d].sees
    BY <1>2, <1>4, <1>7 DEF Actives
  <2> QED  BY <1>1, <2>1 DEF Actives
<1>10. ReadInv'  BY <1>0, <1>1, <1>2, <1>7, <1>9 DEF ReadInv, Active
<1>11. Top' = Top /\ Candidates' = Candidates /\ (Enough(TRUE, avail)' <=> Enough(TRUE, avail))
  BY <1>1 DEF Top, Candidates, Enough
<1>12. CountedOnce'  BY <1>0, <1>1, <1>11 DEF CountedOnce, Active
<1>13. ForcedAll' /\ SecondTime'  BY <1>0, <1>1, <1>11 DEF ForcedAll, SecondTime
<1>14. ChosenInv'
  <2>1. chosen' \in Disk  BY <1>1, <1>4
  <2> SUFFICES ASSUME force
               PROVE  /\ uptodate \subseteq stored.sees /\ stored.events = Top
                      /\ Enough(TRUE, avail) => Enough(clean', avail)
                      /\ stored.clean \/ Enough(FALSE, avail) \/ Level \in {0, 1}
    <3>1. force => sb'[chosen'] = stored  BY <1>1, <1>4 DEF ArrayTypes
    <3>2. /\ (Enough(TRUE, avail)' <=> Enough(TRUE, avail'))
          /\ (Enough(clean, avail)' <=> Enough(clean', avail'))
          /\ (Enough(FALSE, avail)' <=> Enough(FALSE, avail'))
      BY DEF Enough
    <3> QED  BY <1>1, <1>11, <2>1, <3>1, <3>2 DEF ChosenInv
  <2>2. uptodate \subseteq stored.sees /\ stored.events = Top  BY <1>3, <1>4, <1>6
  <2>3. Enough(TRUE, avail) => Enough(clean', avail)
    <3>1. CASE allClean \/ forceClean
      <4>1. clean' = TRUE  BY <1>1, <3>1
      <4> QED  BY <4>1
    <3>2. CASE ~(allClean \/ forceClean)
      <4>1. clean' = FALSE  BY <1>1, <3>2
      <4>2. Enough(FALSE, avail)  BY <3>2
      <4> QED  BY <4>1, <4>2
    <3> QED  BY <3>1, <3>2
  <2>4. stored.clean \/ Enough(FALSE, avail) \/ Level \in {0, 1}
    <3>1. CASE allClean
      <4>1. sb[c].clean  BY <1>3, <1>4, <3>1
      <4> QED  BY <1>6, <4>1
    <3>2. CASE forceClean
      <4>1. Level \in {0, 1} \/ Level \in {4, 5, 6}  BY DEF ByNumber
      <4> QED  BY <1>6, <3>2, <4>1
    <3>3. CASE ~(allClean \/ forceClean)
      <4>1. Enough(FALSE, avail)  BY <3>3
      <4> QED  BY <4>1
    <3> QED  BY <3>1, <3>2, <3>3
  <2> QED  BY <2>2, <2>3, <2>4
<1> QED  BY <1>1, <1>8, <1>10, <1>12, <1>13, <1>14 DEF ForceInv

\* The array is started.
LEMMA StartKeeps ==
  ASSUME ArrayTypes, ForceInv, Start
  PROVE  ArrayTypes' /\ ForceInv'
<1>0. /\ pc = "start" /\ sb' = sb /\ events' = sb[chosen].events
      /\ insync' = KernelInSync /\ rebuilding' = KernelRebuilds
      /\ dirty' = ~sb[chosen].clean /\ refused' = {}
      /\ pc' = "idle" /\ force' = FALSE /\ vintage' = 0 /\ clean' = FALSE
  BY DEF Start, Reset
<1>1. best \subseteq Disk /\ chosen \in Disk
  <2>1. ReadInv /\ CountedOnce /\ ChosenInv  BY <1>0 DEF ForceInv
  <2> QED  BY <1>0, <2>1, TopIs DEF ChosenInv
<1>2. sb[chosen].events \in 1..Bound /\ (~sb[chosen].clean) \in BOOLEAN  BY <1>1 DEF ArrayTypes, Super
<1>3. insync' \subseteq Disk /\ rebuilding' \subseteq Disk  BY <1>0, <1>1 DEF KernelInSync, KernelRebuilds
<1>4. dirty' \in BOOLEAN  BY <1>0
<1> QED  BY <1>0, <1>2, <1>3, <1>4 DEF ArrayTypes, ForceInv

\* A forced assembly that does not start the array leaves nothing to be forced.
LEMMA NotStartedKeeps ==
  ASSUME ByNumber, ArrayTypes, ForceInv, NotStarted
  PROVE  ArrayTypes' /\ ForceInv'
<1>0. /\ pc = "start" /\ refused' = IF force THEN given ELSE {}
      /\ UNCHANGED <<sb, running, events, insync, rebuilding, dirty>>
      /\ pc' = "idle" /\ force' = FALSE /\ vintage' = 0 /\ clean' = FALSE
  BY DEF NotStarted, Reset, diskVars, kernelVars
<1>1. ReadInv /\ CountedOnce /\ ForcedAll  BY <1>0 DEF ForceInv
<1>2. given \in SUBSET Disk  BY <1>1, TopIs
<1>3. ArrayTypes'  BY <1>0, <1>2 DEF ArrayTypes
<1>4. force => Exhausted(given)
  <2> SUFFICES ASSUME force PROVE Exhausted(given)  OBVIOUS
  <2>1. best = Active(read)  BY <1>1 DEF CountedOnce
  <2>2. {d \in uptodate : read[d].whole} = Fresh(given)  BY <1>1, <2>1, FreshIs
  <2>3. CASE Candidates = {}
    <3>1. \A d \in Actives(given) : d \in best /\ d \in given /\ read[d].whole = sb[d].whole
      BY <1>1, <2>1, TopIs DEF ReadInv
    <3>2. \A d \in Actives(given) : sb[d].whole => d \in uptodate /\ read[d].whole
      BY <2>3, <3>1 DEF Candidates
    <3> QED  BY <2>2, <3>2 DEF Exhausted
  <2>4. CASE Enough(TRUE, avail)
    <3>1. Fresh(given) \in SUBSET Disk  BY <1>2 DEF Fresh, Actives
    <3>2. Enough(TRUE, Fresh(given))  BY <1>1, <2>1, <2>2, <2>4, <3>1, FilledIsFresh
    <3> QED  BY <3>2 DEF Exhausted
  <2> QED  BY <1>0, <1>1, <2>3, <2>4 DEF ForcedAll
<1>5. refused' # {} => Exhausted(refused)'
  <2> SUFFICES ASSUME force PROVE Exhausted(refused)'  BY <1>0
  <2>1. refused' = given /\ Exhausted(given)  BY <1>0, <1>4
  <2>2. Actives(refused)' = Actives(given)  BY <1>0, <2>1 DEF Actives
  <2>3. Fresh(refused)' = Fresh(given)  BY <1>0, <2>2 DEF Fresh
  <2>4. Enough(TRUE, Fresh(refused))' <=> Enough(TRUE, Fresh(refused)')  BY DEF Enough
  <2> QED  BY <1>0, <2>1, <2>2, <2>3, <2>4 DEF Exhausted
<1> QED  BY <1>0, <1>3, <1>5 DEF ForceInv

-----------------------------------------------------------------------------
(* The theorems.                                                            *)

\* The inductive invariant of a forced assembly: what it counts as filled is there, and an
\* attempt that did not start the array left nothing to be forced; for any number of disks
\* and any order of the command line.
THEOREM ForceInvariant == ByNumber /\ Spec => [](ArrayTypes /\ ForceInv)
<1> DEFINE Inv == ByNumber /\ ArrayTypes /\ ForceInv
<1>1. Init => ArrayTypes /\ ForceInv
  <2> SUFFICES ASSUME Init PROVE ArrayTypes /\ ForceInv  OBVIOUS
  <2>1. /\ sb = [d \in Disk |-> [events |-> 1, sees |-> Disk, clean |-> TRUE, whole |-> TRUE]]
        /\ running = FALSE /\ insync = {} /\ rebuilding = {} /\ dirty = FALSE
        /\ pc = "idle" /\ force = FALSE /\ clean = FALSE /\ vintage = 0 /\ refused = {}
    BY DEF Init, Quiet
  <2>2. [events |-> 1, sees |-> Disk, clean |-> TRUE, whole |-> TRUE] \in Super
    BY Numbers DEF Super
  <2> QED  BY <2>1, <2>2 DEF ArrayTypes, ForceInv
<1>2. Inv /\ [Next]_vars => Inv'
  <2> SUFFICES ASSUME Inv, [Next]_vars PROVE ArrayTypes' /\ ForceInv'  BY DEF ByNumber
  <2>1. CASE MarkDirty \/ MarkClean \/ Write \/ StopArray  BY <2>1, RunningKeeps
  <2>2. CASE \E d \in Disk : Fail(d) \/ Add(d) \/ Rebuild(d) \/ Rebuilt(d)  BY <2>2, RunningKeeps
  <2>3. CASE Crash  BY <2>3, CrashKeeps
  <2>4. CASE ForceOne  BY <2>4, ForceOneKeeps
  <2>5. CASE ForceDone  BY <2>5, ForceDoneKeeps
  <2>6. CASE Choose  BY <2>6, ChooseKeeps
  <2>7. CASE Start  BY <2>7, StartKeeps
  <2>8. CASE NotStarted  BY <2>8, NotStartedKeeps
  <2>9. CASE \E disks \in SUBSET Disk \ {{}}, f \in BOOLEAN : Load(disks, f)
    BY <2>9, LoadKeeps
  <2>10. CASE UNCHANGED vars
    <3>1. UNCHANGED <<sb, running, events, insync, rebuilding, dirty, pc, given, force, read, best,
                      uptodate, avail, vintage, clean, chosen, refused>>
      BY <2>10 DEF vars, diskVars, kernelVars, mdadmVars
    <3>2. ArrayTypes'  BY <3>1 DEF ArrayTypes
    <3>3. Top' = Top /\ Candidates' = Candidates /\ Actives(given)' = Actives(given)
          /\ Active(read)' = Active(read)
      BY <3>1 DEF Top, Candidates, Actives, Active
    <3>4. /\ (Enough(TRUE, avail)' <=> Enough(TRUE, avail))
          /\ (Enough(clean, avail)' <=> Enough(clean, avail))
          /\ (Enough(FALSE, avail)' <=> Enough(FALSE, avail))
      BY <3>1 DEF Enough
    <3>5. Exhausted(refused)' <=> Exhausted(refused)
      BY <3>1 DEF Exhausted, Actives, Fresh, Enough
    <3>6. (ReadInv /\ CountedOnce /\ ForcedAll => ReadInv' /\ CountedOnce' /\ ForcedAll')
      BY <3>1, <3>3, <3>4 DEF ReadInv, CountedOnce, ForcedAll
    <3>7. (SecondTime /\ ChosenInv => SecondTime' /\ ChosenInv')
      BY <3>1, <3>3, <3>4 DEF SecondTime, ChosenInv
    <3> QED  BY <3>1, <3>2, <3>5, <3>6, <3>7 DEF ForceInv
  <2> QED  BY <2>1, <2>2, <2>3, <2>4, <2>5, <2>6, <2>7, <2>8, <2>9, <2>10 DEF Next, Mdadm
<1>3. ByNumber => []ByNumber
  <2>1. ByNumber => ByNumber'  BY DEF ByNumber
  <2> QED  BY <2>1, PTL
<1> QED  BY <1>1, <1>2, PTL DEF Spec, Inv

\* --force starts the array if enough whole disks are there, at the second attempt if not at
\* the first, although force_array counts by the place on the command line.
THEOREM ForceStartsAlways == ByNumber /\ Spec => []ForceStarts
<1>1. ByNumber /\ ArrayTypes /\ ForceInv => ForceStarts
  <2> SUFFICES ASSUME ByNumber, ArrayTypes, ForceInv, refused # {}, pc = "start", force, given = refused,
                      Enough(TRUE, {d \in given : sb[d].whole})
               PROVE  GoodToGo /\ KernelRuns
    BY DEF ForceStarts
  <2>1. ReadInv /\ CountedOnce /\ ForcedAll /\ SecondTime /\ ChosenInv  BY DEF ForceInv
  <2>2. best = Active(read) /\ given \in SUBSET Disk /\ uptodate \subseteq best
        /\ Active(read) = Actives(given)
    BY <2>1, TopIs DEF CountedOnce, ReadInv
  <2>3. avail = {d \in uptodate : read[d].whole}  BY <2>1 DEF SecondTime
  <2>4. \A d \in given : read[d].whole = sb[d].whole /\ read[d].events = sb[d].events
    BY <2>1 DEF ReadInv
  <2>5. Enough(TRUE, avail)
    <3>1. CASE Candidates = {}
      <4>1. \A d \in given : sb[d].whole => d \in Active(read)
        BY <2>2 DEF ArrayTypes, Actives
      <4>2. \A d \in given : sb[d].whole => d \in avail
        BY <2>2, <2>3, <2>4, <3>1, <4>1 DEF Candidates
      <4>3. \A d \in avail : d \in given /\ sb[d].whole
        BY <2>2, <2>3, <2>4 DEF Actives
      <4>4. avail = {d \in given : sb[d].whole}  BY <4>2, <4>3
      <4> QED  BY <4>4
    <3> QED  BY <2>1, <3>1 DEF SecondTime
  <2>6. GoodToGo  BY <2>1, <2>5 DEF GoodToGo, ChosenInv
  <2>7. avail \subseteq KernelInSync
    <3> SUFFICES ASSUME NEW d \in avail PROVE d \in KernelInSync  OBVIOUS
    <3>1. d \in uptodate /\ d \in best /\ d \in given /\ read[d].whole
      BY <2>2, <2>3 DEF Actives
    <3>2. sb[d].whole /\ sb[d].events = read[d].events  BY <2>4, <3>1
    <3>3. sb[d].events <= Top /\ sb[d].events \in Nat /\ sb[d].events + 1 >= Top /\ Top \in Nat
      BY <2>1, <2>2, <3>1, <3>2, TopIs, Numbers DEF CountedOnce
    <3>4. sb[d].events = Top \/ sb[d].events + 1 = Top  BY <3>3
    <3>5. sb[chosen].events = Top /\ d \in sb[chosen].sees  BY <2>1, <3>1 DEF ChosenInv
    <3> QED  BY <3>1, <3>2, <3>4, <3>5 DEF KernelInSync, Accepts
  <2>8. \A x \in BOOLEAN : Enough(x, avail) => Enough(x, KernelInSync) /\ Enough(TRUE, KernelInSync)
    <3> SUFFICES ASSUME NEW x \in BOOLEAN, Enough(x, avail)
                 PROVE  Enough(x, KernelInSync) /\ Enough(TRUE, KernelInSync)
      OBVIOUS
    <3>1. KernelInSync \in SUBSET Disk  BY <2>2 DEF KernelInSync, Actives
    <3>2. {d \in uptodate : read[d].whole} \subseteq KernelInSync  BY <2>3, <2>7
    <3> QED  BY <2>1, <2>2, <3>1, <3>2, FilledIsFresh
  <2>9. sb[chosen].clean \in BOOLEAN  BY <2>1 DEF ChosenInv, ArrayTypes, Super
  <2>10. KernelRuns
    <3>1. CASE Level \in {0, 1}  BY <2>5, <2>8, <2>9, <3>1, DirtyIsEnough DEF KernelRuns
    <3>2. CASE sb[chosen].clean
      <4>1. sb[chosen].clean = TRUE  BY <2>9, <3>2
      <4> QED  BY <2>5, <2>8, <4>1 DEF KernelRuns
    <3>3. CASE Enough(FALSE, avail)
      <4>1. Enough(FALSE, KernelInSync) /\ Enough(TRUE, KernelInSync)  BY <2>8, <3>3
      <4>2. sb[chosen].clean = TRUE \/ sb[chosen].clean = FALSE  BY <2>9
      <4> QED  BY <4>1, <4>2 DEF KernelRuns
    <3> QED  BY <2>1, <3>1, <3>2, <3>3 DEF ChosenInv
  <2> QED  BY <2>6, <2>10
<1>2. ByNumber => []ByNumber
  <2>1. ByNumber => ByNumber'  BY DEF ByNumber
  <2> QED  BY <2>1, PTL
<1> QED  BY <1>1, <1>2, ForceInvariant, PTL

-----------------------------------------------------------------------------
(* What keeps stale disks out.                                              *)

\* The array goes on without one disk at most, of three or more; the kernel asks the freshest
\* superblock; nothing comes back as it was that a forced assembly did without.
OneMayMiss == Level \in {0, 5} /\ RaidDisks >= 3 /\ KernelAsks /\ "returned" \notin Happens

\* The disks that may be used, and those that hold the data as far as they say.
Known == Disk \ superseded
Whole == {d \in Known : sb[d].whole}
Rest(d) == Disk \ {d}

\* The disks of S are taken into the array if c is the freshest of them.
Behind(e, c) == sb[e].events + 1 = sb[c].events /\ e \in sb[c].sees
Fits(c, S) == c \in S /\ \A e \in S : sb[e].events = sb[c].events \/ Behind(e, c)

\* A disk that missed a write is older than all others, and they take it for failed.
StaleIsKnown ==
    \A d \in Whole : data[d] # acked =>
        \A e \in Known \ {d} : sb[e].events > sb[d].events /\ d \notin sb[e].sees

\* No event count is used twice.
SameRecord ==
    \A d, e \in Whole : sb[d].events = sb[e].events => sb[d].sees = sb[e].sees

\* If all others would do as an array, and one is newer than they are, they count on it.
NewerIsSeen ==
    Whole = Disk => \A f \in Disk : \A c \in Rest(f) :
        Fits(c, Rest(f)) /\ sb[f].events > sb[c].events => f \in sb[c].sees

\* A disk that was being rebuilt when the others went on without it can not join them.
GhostIsApart ==
    \A x \in Known \ Whole : \A c \in Rest(x) :
        /\ x \in sb[x].sees /\ Rest(x) \subseteq Whole /\ \A d \in Rest(x) : sb[d].clean
        /\ Fits(c, Rest(x)) /\ x \notin sb[c].sees
        => sb[x].events # sb[c].events /\ sb[x].events <= sb[c].events + 1

OrderInv == StaleIsKnown /\ SameRecord /\ NewerIsSeen /\ GhostIsApart

\* The types of the rest.
DataTypes ==
    /\ data \in [Disk -> Nat] /\ acked \in Nat \ {0}
    /\ \A d \in Disk : sb[d].whole => data[d] # 0
    /\ superseded \subseteq Disk /\ spares \subseteq Disk /\ pending \subseteq Disk

\* The array while it runs. After a forced assembly all that may be used is in it.
MemberInv ==
    /\ insync \subseteq Whole /\ Cardinality(insync) >= RaidDisks - 2
    /\ rebuilding \subseteq Known \ Whole
    /\ spares \subseteq Known \ (insync \cup rebuilding)
    /\ \A d \in spares : d \notin sb[d].sees
    /\ \A d \in insync \cup rebuilding : sb[d].events <= events
    /\ \A d \in insync : data[d] = acked
    /\ pending # {} => \A d \in Known : d \in insync \cup rebuilding \/ d \notin sb[d].sees

\* A whole disk that is not in the array is behind, and known to be before anything is written.
LeftBehind ==
    \A f \in Whole \ insync :
        /\ sb[f].events < events
        /\ dirty => \A e \in insync : sb[f].events < sb[e].events /\ f \notin sb[e].sees

\* What the superblocks of the array say that would be the freshest without the others.
TopsKnow ==
    /\ dirty /\ insync # Disk => \A g \in insync : ~sb[g].clean
    /\ rebuilding = {} => \E g \in insync : sb[g].events = events
    /\ Whole = Disk => \A g \in insync :
           (\A e \in insync : sb[e].events <= sb[g].events) => insync \subseteq sb[g].sees
    /\ \A x \in rebuilding : \A c \in insync : Fits(c, insync) => x \in sb[c].sees
    /\ \A x \in Known \ (Whole \cup rebuilding) : x \in sb[x].sees /\ insync = Rest(x) =>
           IF dirty THEN sb[x].events <= events
                    ELSE sb[x].events # events /\ sb[x].events <= events + 1

\* While a forced assembly is not recorded, superseded keeps the others out.
StaleInv ==
    /\ pending = {} => OrderInv
    /\ running => MemberInv
    /\ running /\ pending = {} => LeftBehind /\ TopsKnow

\* What an assembly without --force counts.
UnforcedInv ==
    pc # "idle" =>
        /\ given # {} /\ given \cap superseded = {}
        /\ ~force =>
            /\ best = {d \in Active(read) : d = MostRecent(read) \/ MostRecent(read) \in read[d].sees}
            /\ avail = {d \in uptodate : read[d].whole}
            /\ pc = "start" =>
                /\ \A d \in given : read[d] = sb[d]
                /\ chosen \in uptodate /\ sb[chosen].events = Top
                /\ needed = Cardinality(sb[chosen].sees)
                /\ clean => \A d \in uptodate : sb[d].clean

-----------------------------------------------------------------------------
(* Disks and superblocks.                                                   *)

\* Of three disks one is left over.
LEMMA Three ==
  ASSUME OneMayMiss, NEW x, NEW y
  PROVE  \E z \in Disk : z # x /\ z # y
<1>1. RaidDisks \in Nat /\ RaidDisks >= 3  BY RaidDisksAssumption DEF OneMayMiss
<1>2. 0 \in Disk /\ 1 \in Disk /\ 2 \in Disk  BY <1>1 DEF Disk
<1> QED  BY <1>2

\* All disks but one, and all but two.
LEMMA AllButOne ==
  ASSUME OneMayMiss, NEW S \in SUBSET Disk
  PROVE  /\ Cardinality(S) >= RaidDisks - 1 => \A f \in Disk : f \notin S => S = Rest(f)
         /\ Cardinality(S) >= RaidDisks => S = Disk
         /\ Cardinality(S) >= RaidDisks - 2 => S # {}
         /\ Cardinality(S) \in Nat
<1>1. RaidDisks \in Nat /\ RaidDisks >= 3  BY RaidDisksAssumption DEF OneMayMiss
<1>2. IsFiniteSet(Disk) /\ Cardinality(Disk) = RaidDisks
  <2>1. IsFiniteSet(0..RaidDisks-1) /\ Cardinality(0..RaidDisks-1) = RaidDisks
    BY <1>1, FS_Interval
  <2> QED  BY <2>1 DEF Disk
<1>3. IsFiniteSet(S) /\ Cardinality(S) \in Nat  BY DisksAre
<1>4. \A f \in Disk : IsFiniteSet(Rest(f)) /\ Cardinality(Rest(f)) = RaidDisks - 1
  BY <1>1, <1>2, FS_RemoveElement DEF Rest
<1>5. ASSUME Cardinality(S) >= RaidDisks - 1, NEW f \in Disk, f \notin S PROVE S = Rest(f)
  <2>1. S \in SUBSET Rest(f)  BY <1>5 DEF Rest
  <2>2. Cardinality(S) = Cardinality(Rest(f))
    BY <1>1, <1>3, <1>4, <1>5, <2>1, FS_Subset
  <2> QED  BY <1>4, <2>1, <2>2, FS_Subset
<1>6. Cardinality(S) >= RaidDisks => S = Disk
  <2> SUFFICES ASSUME Cardinality(S) >= RaidDisks PROVE S = Disk  OBVIOUS
  <2>1. Cardinality(S) = Cardinality(Disk)  BY <1>1, <1>2, <1>3, FS_Subset
  <2> QED  BY <1>2, <2>1, FS_Subset
<1>7. Cardinality(S) >= RaidDisks - 2 => S # {}  BY <1>1, FS_EmptySet
<1> QED  BY <1>3, <1>5, <1>6, <1>7

\* What is enough.
LEMMA EnoughIs ==
  ASSUME OneMayMiss, NEW S \in SUBSET Disk, NEW x \in BOOLEAN, Enough(x, S)
  PROVE  /\ \A f \in Disk : f \notin S => S = Rest(f) /\ x
         /\ Cardinality(S) >= RaidDisks - 1 /\ S # {}
         /\ \A y : \E z \in S : z # y
<1>1. RaidDisks \in Nat /\ RaidDisks >= 3 /\ Cardinality(S) \in Nat
  BY RaidDisksAssumption, AllButOne DEF OneMayMiss
<1>2. Cardinality(S) >= RaidDisks - 1 /\ (~x => Cardinality(S) >= RaidDisks)
  <2>1. CASE Level = 0  BY <1>1, <2>1 DEF Enough
  <2>2. CASE Level = 5  BY <1>1, <2>2 DEF Enough
  <2> QED  BY <2>1, <2>2 DEF OneMayMiss
<1>3. \A f \in Disk : f \notin S => S = Rest(f) /\ x  BY <1>2, AllButOne
<1>4. \A y : \E z \in S : z # y
  <2> SUFFICES ASSUME NEW y PROVE \E z \in S : z # y  OBVIOUS
  <2>1. CASE S = Disk  BY <2>1, Three
  <2>2. CASE S # Disk
    <3>1. PICK f \in Disk : S = Rest(f)  BY <1>3, <2>2
    <3>2. PICK z \in Disk : z # f /\ z # y  BY Three
    <3> QED  BY <3>1, <3>2 DEF Rest
  <2> QED  BY <2>1, <2>2
<1>5. S # {}  BY <1>4
<1> QED  BY <1>2, <1>3, <1>4, <1>5

\* The fields of a superblock.
LEMMA Fields ==
  ASSUME ArrayTypes, NEW d \in Disk
  PROVE  /\ sb[d].events \in Nat /\ sb[d].events > 0 /\ sb[d].sees \subseteq Disk
         /\ sb[d].clean \in BOOLEAN /\ sb[d].whole \in BOOLEAN
         /\ sb[d].whole => d \in sb[d].sees
BY Numbers DEF ArrayTypes, Super

\* No whole disk has more updates than the array, and one that is left out has fewer.
LEMMA WholeAreOld ==
  ASSUME ArrayTypes, StaleInv, running, NEW f \in Whole
  PROVE  /\ sb[f].events <= events /\ sb[f].events \in Nat /\ events \in Nat
         /\ f \notin insync => pending = {} /\ sb[f].events < events
<1>1. f \in Known /\ f \in Disk /\ sb[f].whole  BY DEF Whole, Known
<1>2. sb[f].events \in Nat /\ events \in Nat /\ f \in sb[f].sees
  BY <1>1, Fields, Numbers DEF ArrayTypes
<1>3. f \in insync => sb[f].events <= events  BY DEF StaleInv, MemberInv
<1>4. f \notin insync => pending = {}
  <2>1. f \notin rebuilding  BY DEF StaleInv, MemberInv
  <2> QED  BY <1>1, <1>2, <2>1 DEF StaleInv, MemberInv
<1>5. f \notin insync => sb[f].events < events  BY <1>4 DEF StaleInv, LeftBehind
<1> QED  BY <1>2, <1>3, <1>4, <1>5

-----------------------------------------------------------------------------
(* The driver writes superblocks.                                           *)

\* What it records.
Update(in, rb, isClean) ==
    \/ in = insync /\ rb = rebuilding /\ (Works \/ dirty) /\ (isClean <=> dirty)
    \/ /\ Works /\ (isClean <=> ~dirty)
       /\ \E d \in Disk :
            \/ d \in insync \cup rebuilding /\ in = insync \ {d} /\ rb = rebuilding \ {d}
            \/ d \in spares /\ in = insync /\ rb = rebuilding \cup {d}
            \/ d \in rebuilding /\ in = insync \cup {d} /\ rb = rebuilding \ {d}

\* An array that works.
LEMMA WorksIs ==
  ASSUME OneMayMiss, ArrayTypes, Works
  PROVE  /\ \A f \in Disk : f \notin insync => insync = Rest(f)
         /\ \A y : \E z \in insync : z # y
         /\ Cardinality(insync) >= RaidDisks - 1
<1>1. insync \in SUBSET Disk  BY DEF ArrayTypes
<1> QED  BY <1>1, EnoughIs DEF Works

\* The disks of an update: who leaves, who joins, and who else is there.
Changed(in, rb, isClean) ==
    /\ in \subseteq Known /\ rb \subseteq Known \ Whole /\ in \cap rb = {}
    /\ in \subseteq insync \cup rebuilding /\ rb \subseteq rebuilding \cup spares
    /\ Cardinality(in) >= RaidDisks - 2 /\ in # {}
    /\ \A f \in in : f \in insync \/ (f \in rebuilding /\ insync = Rest(f))
    /\ \A f, g \in insync \cup rebuilding : f \notin in \cup rb /\ g \notin in \cup rb => f = g
    /\ \A x \in rb : insync = Rest(x) \/ (dirty /\ insync # Disk)
    /\ \A x \in Known \ Whole : in = Rest(x) /\ x \notin rb =>
           x \in rebuilding \/ (insync = Rest(x) /\ (isClean <=> dirty))

LEMMA UpdateIs ==
  ASSUME OneMayMiss, ArrayTypes, DataTypes, MemberInv,
         NEW in, NEW rb, NEW isClean \in BOOLEAN, Update(in, rb, isClean)
  PROVE  Changed(in, rb, isClean)
<1>0. /\ insync \subseteq Whole /\ Cardinality(insync) >= RaidDisks - 2 /\ rebuilding \subseteq Known \ Whole
      /\ Whole \subseteq Known /\ Known \subseteq Disk /\ dirty \in BOOLEAN
      /\ spares \cap (insync \cup rebuilding) = {} /\ spares \subseteq Disk
      /\ insync \in SUBSET Disk /\ rebuilding \in SUBSET Disk
  BY DEF MemberInv, ArrayTypes, DataTypes, Whole, Known
<1>1. RaidDisks \in Nat  BY RaidDisksAssumption
<1>2. \A x \in Known \ Whole : x \notin insync /\ x \in Disk  BY <1>0
<1>3. \A d \in spares : d \in Disk /\ d \notin insync /\ d \notin rebuilding  BY <1>0
<1>4. CASE in = insync /\ rb = rebuilding /\ (Works \/ dirty) /\ (isClean <=> dirty)
  <2>1. in # {}  BY <1>0, <1>4, AllButOne
  <2>2. \A x \in rb : insync = Rest(x) \/ (dirty /\ insync # Disk)
    <3> SUFFICES ASSUME NEW x \in rb PROVE insync = Rest(x) \/ (dirty /\ insync # Disk)  OBVIOUS
    <3>1. x \in Disk /\ x \notin insync  BY <1>0, <1>4
    <3> QED  BY <1>4, <3>1, WorksIs
  <2> QED  BY <1>0, <1>4, <2>1, <2>2 DEF Changed
<1>5. ASSUME Works PROVE \A x \in rebuilding \cup spares : insync = Rest(x)
  BY <1>0, <1>3, <1>5, WorksIs
<1>6. ASSUME Works, NEW d \in insync \cup rebuilding, in = insync \ {d}, rb = rebuilding \ {d}
      PROVE  Changed(in, rb, isClean)
  <2>1. in # {}
    <3>1. PICK z \in insync : z # d  BY <1>6, WorksIs
    <3> QED  BY <1>6, <3>1
  <2>2. Cardinality(in) >= RaidDisks - 2
    <3>1. IsFiniteSet(insync) /\ Cardinality(insync) \in Nat /\ Cardinality(insync) >= RaidDisks - 1
      BY <1>0, <1>6, DisksAre, WorksIs
    <3>2. d \in insync => Cardinality(in) = Cardinality(insync) - 1
      BY <1>6, <3>1, FS_RemoveElement
    <3>3. d \notin insync => in = insync  BY <1>6
    <3> QED  BY <1>1, <3>1, <3>2, <3>3
  <2>3. \A x \in Known \ Whole : in = Rest(x) /\ x \notin rb => x \in rebuilding
    <3> SUFFICES ASSUME NEW x \in Known \ Whole, in = Rest(x), x \notin rebuilding PROVE FALSE
      BY <1>6
    <3>1. x \in Disk /\ x \notin insync  BY <1>2
    <3>2. d # x  BY <1>6, <3>1
    <3>3. d \in Rest(x)  BY <1>0, <1>6, <3>2 DEF Rest
    <3> QED  BY <1>6, <3>3
  <2> QED  BY <1>0, <1>5, <1>6, <2>1, <2>2, <2>3 DEF Changed
<1>7. ASSUME Works, NEW d \in spares, in = insync, rb = rebuilding \cup {d}
      PROVE  Changed(in, rb, isClean)
  <2>1. in # {}  BY <1>0, <1>7, AllButOne
  <2>2. d \in Known /\ d \notin Whole
    <3>1. d \notin sb[d].sees  BY <1>7 DEF MemberInv
    <3>2. ~sb[d].whole  BY <1>3, <3>1 DEF ArrayTypes
    <3>3. d \in Known  BY <1>7 DEF MemberInv
    <3> QED  BY <3>2, <3>3 DEF Whole
  <2>3. \A x \in Known \ Whole : in = Rest(x) /\ x \notin rb => x \in rebuilding
    <3> SUFFICES ASSUME NEW x \in Known \ Whole, insync = Rest(x), x # d PROVE FALSE
      BY <1>7
    <3>1. d \in Rest(x)  BY <1>3 DEF Rest
    <3> QED  BY <1>3, <3>1
  <2> QED  BY <1>0, <1>3, <1>5, <1>7, <2>1, <2>2, <2>3 DEF Changed
<1>8. ASSUME Works, NEW d \in rebuilding, in = insync \cup {d}, rb = rebuilding \ {d}
      PROVE  Changed(in, rb, isClean)
  <2>1. insync = Rest(d)  BY <1>5, <1>8
  <2>2. Cardinality(in) >= RaidDisks - 2
    <3>1. in \in SUBSET Disk /\ insync \in SUBSET in /\ IsFiniteSet(in)  BY <1>0, <1>8, DisksAre
    <3>2. Cardinality(in) >= Cardinality(insync) /\ Cardinality(in) \in Nat /\ Cardinality(insync) \in Nat
      BY <3>1, NoMore
    <3> QED  BY <1>0, <1>1, <3>2
  <2>3. \A x \in Known \ Whole : ~(in = Rest(x) /\ x \notin rb)
    <3> SUFFICES ASSUME NEW x \in Known \ Whole, in = Rest(x) PROVE FALSE  OBVIOUS
    <3>1. x # d /\ x \in insync  BY <1>2, <1>8, <2>1 DEF Rest
    <3> QED  BY <1>2, <3>1
  <2> QED  BY <1>0, <1>5, <1>8, <2>1, <2>2, <2>3 DEF Changed
<1> QED  BY <1>4, <1>6, <1>7, <1>8 DEF Update

\* The disks of W are written, which are all that are to be unless there is a crash.
Writes(in, rb, isClean, W) ==
    sb' = [d \in Disk |-> IF d \in W THEN [events |-> events + 1, sees |-> in \cup rb,
                                           clean |-> isClean, whole |-> d \in in]
                                     ELSE sb[d]]

\* The superblocks after that.
LEMMA Written ==
  ASSUME OneMayMiss, ArrayTypes, StaleInv, running, superseded' = superseded,
         NEW in, NEW rb, NEW isClean \in BOOLEAN, Changed(in, rb, isClean),
         NEW W \in SUBSET (in \cup rb), Writes(in, rb, isClean, W)
  PROVE  /\ Known' = Known /\ Known \subseteq Disk /\ W \subseteq Known
         /\ \A d \in Disk : d \notin W => sb'[d] = sb[d]
         /\ \A d \in W : /\ sb'[d].events = events + 1 /\ sb'[d].sees = in \cup rb
                         /\ (sb'[d].clean <=> isClean) /\ (sb'[d].whole <=> d \in in)
         /\ \A d \in Known : d \in Whole' <=> IF d \in W THEN d \in in ELSE d \in Whole
         /\ Whole' \subseteq Known
         /\ \A d \in Whole' : d \notin W => d \in Whole /\ d \notin rb
         /\ events \in Nat
         /\ \A d \in Whole' : sb'[d].events \in Nat /\ sb'[d].events <= events + 1
<1>1. Known' = Known /\ Known \subseteq Disk /\ W \subseteq Known  BY DEF Known, Changed
<1>2. events \in Nat  BY Numbers DEF ArrayTypes
<1>3. ASSUME NEW d \in Disk
      PROVE  /\ d \notin W => sb'[d] = sb[d]
             /\ d \in W => /\ sb'[d].events = events + 1 /\ sb'[d].sees = in \cup rb
                           /\ (sb'[d].clean <=> isClean) /\ (sb'[d].whole <=> d \in in)
  BY DEF Writes
<1>4. \A d \in Known : d \in Whole' <=> IF d \in W THEN d \in in ELSE d \in Whole
  BY <1>1, <1>3 DEF Whole
<1>5. Whole' \subseteq Known  BY <1>1 DEF Whole
<1>6. \A d \in Whole' : d \notin W => d \in Whole /\ d \notin rb  BY <1>4, <1>5 DEF Changed
<1>7. \A d \in Whole' : sb'[d].events \in Nat /\ sb'[d].events <= events + 1
  <2> SUFFICES ASSUME NEW d \in Whole' PROVE sb'[d].events \in Nat /\ sb'[d].events <= events + 1
    OBVIOUS
  <2>1. d \in Disk  BY <1>1, <1>5
  <2>2. CASE d \in W  BY <1>2, <1>3, <2>1, <2>2
  <2>3. CASE d \notin W
    <3>1. d \in Whole  BY <1>6, <2>3
    <3>2. sb[d].events <= events /\ sb[d].events \in Nat  BY <3>1, WholeAreOld
    <3> QED  BY <1>2, <1>3, <2>1, <2>3, <3>2
  <2> QED  BY <2>2, <2>3
<1> QED  BY <1>1, <1>2, <1>3, <1>4, <1>5, <1>6, <1>7

\* A disk that is not in the array, while all others are, does not overtake it.
LEMMA GhostStays ==
  ASSUME ArrayTypes, StaleInv, running, NEW in, NEW rb, NEW isClean \in BOOLEAN,
         Changed(in, rb, isClean), NEW x \in Known \ Whole, x \notin rb, x \in sb[x].sees, in = Rest(x)
  PROVE  /\ sb[x].events \in Nat /\ events \in Nat
         /\ IF isClean THEN sb[x].events <= events ELSE sb[x].events <= events + 1
<1>1. x \in Disk /\ x \notin insync  BY DEF Known, StaleInv, MemberInv
<1>2. sb[x].events \in Nat /\ events \in Nat  BY <1>1, Fields, Numbers DEF ArrayTypes
<1>3. CASE x \in rebuilding
  <2>1. sb[x].events <= events  BY <1>3 DEF StaleInv, MemberInv
  <2> QED  BY <1>2, <2>1
<1>4. CASE x \notin rebuilding
  <2>1. insync = Rest(x) /\ (isClean <=> dirty)  BY <1>4 DEF Changed
  <2>2. pending = {}  BY <1>1, <1>4 DEF StaleInv, MemberInv
  <2>3. IF dirty THEN sb[x].events <= events ELSE sb[x].events # events /\ sb[x].events <= events + 1
    BY <1>4, <2>1, <2>2 DEF StaleInv, TopsKnow
  <2> QED  BY <1>2, <2>1, <2>3
<1> QED  BY <1>3, <1>4

\* Old disks stay known to be.
LEMMA StaleStaysKnown ==
  ASSUME OneMayMiss, ArrayTypes, DataTypes, StaleInv, running, superseded' = superseded, acked' = acked,
         NEW in, NEW rb, NEW isClean \in BOOLEAN, Changed(in, rb, isClean),
         NEW W \in SUBSET (in \cup rb), Writes(in, rb, isClean, W), pending = {},
         \A d \in Disk : data'[d] = IF d \in in THEN acked ELSE data[d]
  PROVE  StaleIsKnown'
<1> SUFFICES ASSUME NEW d \in Whole', data'[d] # acked, NEW e \in Known, e # d
             PROVE  sb'[e].events > sb'[d].events /\ d \notin sb'[e].sees
  BY Written DEF StaleIsKnown
<1>1. d \in Known /\ d \in Disk /\ e \in Disk  BY Written
<1>2. d \notin in /\ data[d] # acked  BY <1>1
<1>3. d \in Whole /\ d \notin rb /\ d \notin W /\ sb'[d] = sb[d]  BY <1>1, <1>2, Written
<1>4. sb[e].events > sb[d].events /\ d \notin sb[e].sees  BY <1>2, <1>3 DEF StaleInv, OrderInv, StaleIsKnown
<1>5. CASE e \in W
  <2>1. sb'[e].events = events + 1 /\ sb'[e].sees = in \cup rb  BY <1>5, Written
  <2>2. sb[d].events <= events /\ sb[d].events \in Nat /\ events \in Nat  BY <1>3, WholeAreOld
  <2> QED  BY <1>2, <1>3, <2>1, <2>2
<1>6. CASE e \notin W
  <2>1. sb'[e] = sb[e]  BY <1>1, <1>6, Written
  <2> QED  BY <1>3, <1>4, <2>1
<1> QED  BY <1>5, <1>6

\* Nor is an event count used twice.
LEMMA SameRecordStays ==
  ASSUME OneMayMiss, ArrayTypes, DataTypes, StaleInv, running, superseded' = superseded,
         NEW in, NEW rb, NEW isClean \in BOOLEAN, Changed(in, rb, isClean),
         NEW W \in SUBSET (in \cup rb), Writes(in, rb, isClean, W), pending = {}
  PROVE  SameRecord'
<1> SUFFICES ASSUME NEW d \in Whole', NEW e \in Whole', sb'[d].events = sb'[e].events
             PROVE  sb'[d].sees = sb'[e].sees
  BY DEF SameRecord
<1>1. d \in Disk /\ e \in Disk  BY Written
<1>2. ASSUME NEW f \in Whole', f \notin W PROVE sb'[f] = sb[f] /\ f \in Whole /\ sb'[f].events < events + 1
  <2>1. f \in Whole /\ f \in Disk  BY <1>2, Written
  <2>2. sb[f].events <= events /\ sb[f].events \in Nat /\ events \in Nat  BY <2>1, WholeAreOld
  <2>3. sb'[f] = sb[f]  BY <1>2, <2>1, Written
  <2> QED  BY <2>1, <2>2, <2>3
<1>3. ASSUME NEW f \in W PROVE sb'[f].events = events + 1 /\ sb'[f].sees = in \cup rb
  BY Written
<1>4. events + 1 \in Nat /\ \A f \in Whole' : sb'[f].events \in Nat  BY Written
<1>5. CASE d \in W /\ e \in W  BY <1>3, <1>5
<1>6. CASE d \notin W /\ e \notin W
  <2>1. sb[d].sees = sb[e].sees  BY <1>2, <1>6 DEF StaleInv, OrderInv, SameRecord
  <2> QED  BY <1>2, <1>6, <2>1
<1>7. CASE d \in W /\ e \notin W
  <2>1. sb'[d].events = events + 1 /\ sb'[e].events < events + 1  BY <1>2, <1>3, <1>7
  <2> QED  BY <1>4, <2>1
<1>8. CASE d \notin W /\ e \in W
  <2>1. sb'[e].events = events + 1 /\ sb'[d].events < events + 1  BY <1>2, <1>3, <1>8
  <2> QED  BY <1>4, <2>1
<1> QED  BY <1>5, <1>6, <1>7, <1>8

\* A newer disk stays one that the others count on.
LEMMA NewerStaysSeen ==
  ASSUME OneMayMiss, ArrayTypes, DataTypes, StaleInv, running, superseded' = superseded,
         NEW in, NEW rb, NEW isClean \in BOOLEAN, Changed(in, rb, isClean),
         NEW W \in SUBSET (in \cup rb), Writes(in, rb, isClean, W), pending = {}
  PROVE  NewerIsSeen'
<1> SUFFICES ASSUME Whole' = Disk, NEW f \in Disk, NEW c \in Rest(f), Fits(c, Rest(f))',
                    sb'[f].events > sb'[c].events
             PROVE  f \in sb'[c].sees
  BY DEF NewerIsSeen, Rest
<1>1. c \in Disk /\ c # f /\ Rest(f) \subseteq Disk  BY DEF Rest
<1>2. \A e \in Rest(f) : sb'[e].events <= sb'[c].events
  BY <1>1, Written DEF Fits, Behind, Rest
<1>3. \A e \in Rest(f) : e \notin W /\ sb'[e] = sb[e] /\ e \in Whole
  <2> SUFFICES ASSUME NEW e \in Rest(f) PROVE e \notin W /\ sb'[e] = sb[e] /\ e \in Whole  OBVIOUS
  <2>1. sb'[e].events < events + 1
    <3>1. sb'[e].events <= sb'[c].events /\ sb'[f].events <= events + 1 /\ e \in Disk  BY <1>1, <1>2, Written
    <3>2. sb'[e].events \in Nat /\ sb'[c].events \in Nat /\ sb'[f].events \in Nat /\ events \in Nat
      BY <1>1, <3>1, Written
    <3> QED  BY <3>1, <3>2
  <2>2. e \notin W
    <3> SUFFICES ASSUME e \in W PROVE FALSE  OBVIOUS
    <3>1. sb'[e].events = events + 1 /\ events \in Nat  BY Written
    <3> QED  BY <2>1, <3>1
  <2> QED  BY <1>1, <2>2, Written
<1>4. Fits(c, Rest(f))  BY <1>3 DEF Fits, Behind
<1>5. CASE f \notin W
  <2>1. f \in Whole /\ sb'[f] = sb[f]  BY <1>5, Written
  <2>2. Whole = Disk  BY <1>3, <2>1 DEF Rest, Whole, Known
  <2> QED  BY <1>3, <1>4, <2>1, <2>2 DEF StaleInv, OrderInv, NewerIsSeen
<1>6. CASE f \in W
  <2>1. f \in in  BY <1>6, Written
  <2>2. CASE f \in insync
    <3>1. Whole = Disk
      <4>1. f \in Whole  BY <2>2 DEF StaleInv, MemberInv
      <4> QED  BY <1>3, <4>1 DEF Rest, Whole, Known
    <3>2. CASE sb[f].events > sb[c].events
      BY <1>3, <1>4, <3>1, <3>2 DEF StaleInv, OrderInv, NewerIsSeen
    <3>3. CASE ~(sb[f].events > sb[c].events)
      <4>1. rebuilding = {}
        BY <3>1 DEF StaleInv, MemberInv, Known
      <4>2. PICK g \in insync : sb[g].events = events  BY <4>1 DEF StaleInv, TopsKnow
      <4>3. \A e \in Disk : sb[e].events <= sb[c].events /\ sb[e].events \in Nat
        <5> SUFFICES ASSUME NEW e \in Disk PROVE sb[e].events <= sb[c].events /\ sb[e].events \in Nat
          OBVIOUS
        <5>1. sb[e].events \in Nat /\ sb[c].events \in Nat  BY <1>1, Fields
        <5>2. CASE e = f  BY <3>3, <5>1, <5>2
        <5>3. CASE e \in Rest(f)  BY <1>2, <1>3, <5>1, <5>3
        <5> QED  BY <5>1, <5>2, <5>3 DEF Rest
      <4>4. insync \subseteq Disk  BY DEF ArrayTypes
      <4>5. c \in insync
        <5> SUFFICES ASSUME c \notin insync PROVE FALSE  OBVIOUS
        <5>1. sb[c].events < events /\ sb[c].events \in Nat /\ events \in Nat  BY <1>3, WholeAreOld
        <5> QED  BY <4>2, <4>3, <4>4, <5>1
      <4>6. insync \subseteq sb[c].sees  BY <3>1, <4>3, <4>4, <4>5 DEF StaleInv, TopsKnow
      <4> QED  BY <1>3, <2>2, <4>6
    <3> QED  BY <3>2, <3>3
  <2>3. CASE f \notin insync
    <3>1. f \in rebuilding /\ insync = Rest(f)  BY <2>1, <2>3 DEF Changed
    <3>2. f \in sb[c].sees  BY <1>4, <3>1 DEF StaleInv, TopsKnow
    <3> QED  BY <1>3, <3>2
  <2> QED  BY <2>2, <2>3
<1> QED  BY <1>5, <1>6

\* A disk that is not rebuilt stays apart.
LEMMA GhostStaysApart ==
  ASSUME OneMayMiss, ArrayTypes, DataTypes, StaleInv, running, superseded' = superseded,
         NEW in, NEW rb, NEW isClean \in BOOLEAN, Changed(in, rb, isClean),
         NEW W \in SUBSET (in \cup rb), Writes(in, rb, isClean, W), pending = {}
  PROVE  GhostIsApart'
<1> SUFFICES ASSUME NEW x \in Known, x \notin Whole', NEW c \in Rest(x), x \in sb'[x].sees,
                    Rest(x) \subseteq Whole', \A d \in Rest(x) : sb'[d].clean,
                    Fits(c, Rest(x))', x \notin sb'[c].sees
             PROVE  sb'[x].events # sb'[c].events /\ sb'[x].events <= sb'[c].events + 1
  <2>1. Known' = Known  BY Written
  <2> QED  BY <2>1 DEF GhostIsApart, Rest
<1>1. x \in Disk /\ c \in Disk /\ c # x /\ Rest(x) \subseteq Disk /\ c \in Whole'  BY DEF Rest, Known
<1>2. events \in Nat  BY Written
<1>3. \A e \in Whole' : e \notin W => sb'[e] = sb[e] /\ e \in Whole /\ e \notin rb /\ sb'[e].events < events + 1
  <2> SUFFICES ASSUME NEW e \in Whole', e \notin W
               PROVE  sb'[e] = sb[e] /\ e \in Whole /\ e \notin rb /\ sb'[e].events < events + 1
    OBVIOUS
  <2>1. e \in Whole /\ e \in Disk /\ e \notin rb  BY Written
  <2>2. sb[e].events <= events /\ sb[e].events \in Nat  BY <2>1, WholeAreOld
  <2>3. sb'[e] = sb[e]  BY <2>1, Written
  <2> QED  BY <1>2, <2>1, <2>2, <2>3
<1>4. CASE c \in W
  <2>1. /\ sb'[c].events = events + 1 /\ sb'[c].sees = in \cup rb /\ (sb'[c].clean <=> isClean)
        /\ c \in in
    BY <1>1, <1>4, Written
  <2>2. x \notin in /\ x \notin rb /\ x \notin W  BY <2>1
  <2>3. sb'[x] = sb[x] /\ x \notin Whole  BY <1>1, <2>2, Written
  <2>4. Rest(x) \subseteq in
    <3> SUFFICES ASSUME NEW e \in Rest(x) PROVE e \in in  OBVIOUS
    <3>1. CASE e \in W  BY <3>1, Written
    <3>2. CASE e \notin W
      <4>1. sb'[e].events < events + 1 /\ e \notin rb /\ sb'[e].events \in Nat  BY <1>3, <3>2, Written
      <4>2. sb'[e].events # sb'[c].events  BY <1>2, <2>1, <4>1
      <4>3. e \in sb'[c].sees  BY <4>2 DEF Fits, Behind
      <4> QED  BY <2>1, <4>1, <4>3
    <3> QED  BY <3>1, <3>2
  <2>5. in = Rest(x)  BY <2>2, <2>4 DEF Rest, Changed, Known
  <2>6. sb[x].events \in Nat /\ sb[x].events <= events  BY <2>1, <2>2, <2>3, <2>5, GhostStays
  <2> QED  BY <1>2, <2>1, <2>3, <2>6
<1>5. CASE c \notin W
  <2>1. sb'[c].events < events + 1 /\ sb'[c].events \in Nat  BY <1>1, <1>3, <1>5, Written
  <2>2. \A e \in Rest(x) : e \notin W /\ sb'[e].events <= sb'[c].events
    <3> SUFFICES ASSUME NEW e \in Rest(x) PROVE e \notin W /\ sb'[e].events <= sb'[c].events  OBVIOUS
    <3>1. sb'[e].events \in Nat  BY Written
    <3>2. sb'[e].events <= sb'[c].events  BY <2>1, <3>1 DEF Fits, Behind
    <3>3. e \in W => sb'[e].events = events + 1  BY Written
    <3> QED  BY <1>2, <2>1, <3>1, <3>2, <3>3
  <2>3. \A e \in Rest(x) : sb'[e] = sb[e] /\ e \in Whole  BY <1>3, <2>2
  <2>4. Fits(c, Rest(x)) /\ x \notin sb[c].sees /\ \A d \in Rest(x) : sb[d].clean
    BY <2>3 DEF Fits, Behind
  <2>5. CASE x \notin W
    <3>1. sb'[x] = sb[x] /\ x \notin Whole  BY <1>1, <2>5, Written
    <3> QED  BY <2>3, <2>4, <3>1 DEF StaleInv, OrderInv, GhostIsApart
  <2>6. CASE x \in W
    <3>1. x \in rb /\ x \notin Whole /\ sb'[x].events = events + 1
      <4>1. x \notin in /\ sb'[x].events = events + 1  BY <2>6, Written
      <4> QED  BY <2>6, <4>1 DEF Changed
    <3>2. sb'[c] = sb[c] /\ sb[c].events \in Nat  BY <2>1, <2>3
    <3>3. sb[c].events >= events
      <4> SUFFICES ASSUME sb[c].events < events PROVE FALSE  BY <1>2, <3>2
      <4>1. insync \subseteq Rest(x) /\ insync \subseteq Disk
        BY <3>1 DEF StaleInv, MemberInv, ArrayTypes, Rest
      <4>2. \A g \in insync : sb[g].events # events
        <5> SUFFICES ASSUME NEW g \in insync PROVE sb[g].events # events  OBVIOUS
        <5>1. sb[g].events <= sb[c].events /\ sb[g].events \in Nat  BY <2>2, <2>3, <4>1, Fields
        <5> QED  BY <1>2, <3>2, <5>1
      <4>3. rebuilding # {}  BY <4>2 DEF StaleInv, TopsKnow
      <4>4. x \in rebuilding  BY <2>3, <4>3 DEF StaleInv, MemberInv, Rest, Known
      <4>5. CASE insync = Rest(x)  BY <2>4, <4>4, <4>5 DEF StaleInv, TopsKnow
      <4>6. CASE dirty /\ insync # Disk
        <5>1. PICK g \in insync : TRUE  BY <4>1, AllButOne DEF StaleInv, MemberInv
        <5>2. ~sb[g].clean  BY <4>6 DEF StaleInv, TopsKnow
        <5> QED  BY <2>4, <4>1, <5>1, <5>2
      <4> QED  BY <3>1, <4>5, <4>6 DEF Changed
    <3> QED  BY <1>2, <2>1, <3>1, <3>2, <3>3
  <2> QED  BY <2>5, <2>6
<1> QED  BY <1>4, <1>5

\* All of it.
LEMMA OrderStays ==
  ASSUME OneMayMiss, ArrayTypes, DataTypes, StaleInv, running, superseded' = superseded, acked' = acked,
         NEW in, NEW rb, NEW isClean \in BOOLEAN, Changed(in, rb, isClean),
         NEW W \in SUBSET (in \cup rb), Writes(in, rb, isClean, W), pending = {},
         \A d \in Disk : data'[d] = IF d \in in THEN acked ELSE data[d]
  PROVE  OrderInv'
BY StaleStaysKnown, SameRecordStays, NewerStaysSeen, GhostStaysApart DEF OrderInv

\* After a forced assembly all that may be used is in the array, but for the disk that just failed.
LEMMA NewOrder ==
  ASSUME OneMayMiss, ArrayTypes, DataTypes, StaleInv, running, superseded' = superseded, acked' = acked,
         NEW in, NEW rb, NEW isClean \in BOOLEAN, Changed(in, rb, isClean),
         Writes(in, rb, isClean, in \cup rb), pending # {},
         \A d \in Disk : data'[d] = IF d \in in THEN acked ELSE data[d]
  PROVE  OrderInv'
<1>1. in \cup rb \in SUBSET (in \cup rb)  OBVIOUS
<1>2. /\ Known' = Known /\ Known \subseteq Disk /\ in \cup rb \subseteq Known /\ Whole' \subseteq Known
      /\ events \in Nat
      /\ \A d \in Disk : d \notin in \cup rb => sb'[d] = sb[d]
      /\ \A d \in in \cup rb : sb'[d].events = events + 1 /\ sb'[d].sees = in \cup rb
      /\ \A d \in Whole' : d \notin in \cup rb => d \in Whole
      /\ \A d \in Whole' : d \in in \cup rb => d \in in
      /\ \A d \in Whole' : sb'[d].events \in Nat /\ sb'[d].events <= events + 1
  BY <1>1, Written
<1>3. \A d \in Known : d \notin in \cup rb /\ d \in sb'[d].sees =>
          d \in insync \cup rebuilding /\ sb'[d].events \in Nat /\ sb'[d].events <= events
  <2> SUFFICES ASSUME NEW d \in Known, d \notin in \cup rb, d \in sb'[d].sees
               PROVE  d \in insync \cup rebuilding /\ sb'[d].events \in Nat /\ sb'[d].events <= events
    OBVIOUS
  <2>1. sb'[d] = sb[d] /\ d \in Disk  BY <1>2
  <2>2. d \in insync \cup rebuilding  BY <2>1 DEF StaleInv, MemberInv
  <2> QED  BY <2>1, <2>2, Fields DEF StaleInv, MemberInv
<1>4. \A d \in Whole' : d \notin in =>
          /\ d \notin in \cup rb /\ d \in insync /\ data'[d] = acked
          /\ sb'[d].events \in Nat /\ sb'[d].events <= events
  <2> SUFFICES ASSUME NEW d \in Whole', d \notin in
               PROVE  /\ d \notin in \cup rb /\ d \in insync /\ data'[d] = acked
                      /\ sb'[d].events \in Nat /\ sb'[d].events <= events
    OBVIOUS
  <2>1. d \notin in \cup rb /\ d \in Whole /\ d \in Disk /\ d \in Known  BY <1>2
  <2>2. sb'[d] = sb[d]  BY <1>2, <2>1
  <2>3. d \in insync  BY <2>1, WholeAreOld
  <2>4. sb[d].events \in Nat /\ sb[d].events <= events /\ data[d] = acked
    BY <2>1, <2>3, Fields DEF StaleInv, MemberInv
  <2> QED  BY <2>1, <2>2, <2>3, <2>4
<1>5. \A d, e \in insync \cup rebuilding : d \notin in \cup rb /\ e \notin in \cup rb => d = e  BY DEF Changed
<1>6. \A d \in in : sb'[d].events = events + 1  BY <1>2
<1>7. StaleIsKnown'
  <2>1. \A d \in Whole' : data'[d] = acked
    <3> SUFFICES ASSUME NEW d \in Whole' PROVE data'[d] = acked  OBVIOUS
    <3>1. d \in Disk  BY <1>2
    <3> QED  BY <1>4, <3>1
  <2> QED  BY <2>1 DEF StaleIsKnown
<1>8. SameRecord'
  <2> SUFFICES ASSUME NEW d \in Whole', NEW e \in Whole', sb'[d].events = sb'[e].events
               PROVE  sb'[d].sees = sb'[e].sees
    BY DEF SameRecord
  <2>1. CASE d \in in /\ e \in in  BY <1>2, <2>1
  <2>2. CASE d \notin in /\ e \notin in
    <3>1. d = e  BY <1>4, <1>5, <2>2
    <3> QED  BY <3>1
  <2>3. CASE d \in in /\ e \notin in
    <3>1. sb'[d].events = events + 1 /\ sb'[e].events <= events /\ sb'[e].events \in Nat
      BY <1>4, <1>6, <2>3
    <3> QED  BY <1>2, <3>1
  <2>4. CASE d \notin in /\ e \in in
    <3>1. sb'[e].events = events + 1 /\ sb'[d].events <= events /\ sb'[d].events \in Nat
      BY <1>4, <1>6, <2>4
    <3> QED  BY <1>2, <3>1
  <2> QED  BY <2>1, <2>2, <2>3, <2>4
<1>9. ASSUME NEW f \in Disk, NEW c \in Rest(f), Rest(f) \subseteq Whole', Fits(c, Rest(f))'
      PROVE  c \in in
  <2> SUFFICES ASSUME c \notin in PROVE FALSE  OBVIOUS
  <2>1. PICK e \in Disk : e # c /\ e # f  BY Three
  <2>2. e \in Rest(f) /\ e \in Whole' /\ c \in Whole'  BY <1>9, <2>1 DEF Rest
  <2>3. e \in in  BY <1>4, <1>5, <2>1, <2>2
  <2>4. sb'[e].events = events + 1 /\ sb'[c].events <= events /\ sb'[c].events \in Nat
    BY <1>4, <1>6, <2>2, <2>3
  <2>5. sb'[e].events <= sb'[c].events  BY <1>2, <1>9, <2>2, <2>4 DEF Fits, Behind
  <2> QED  BY <1>2, <2>4, <2>5
<1>10. NewerIsSeen'
  <2> SUFFICES ASSUME Whole' = Disk, NEW f \in Disk, NEW c \in Rest(f), Fits(c, Rest(f))',
                      sb'[f].events > sb'[c].events
               PROVE  FALSE
    BY DEF NewerIsSeen, Rest
  <2>1. c \in in  BY <1>9 DEF Rest
  <2>2. sb'[c].events = events + 1 /\ sb'[f].events <= events + 1 /\ sb'[f].events \in Nat
    BY <1>2, <1>6, <2>1
  <2> QED  BY <1>2, <2>2
<1>11. GhostIsApart'
  <2> SUFFICES ASSUME NEW x \in Known, x \notin Whole', NEW c \in Rest(x), x \in sb'[x].sees,
                      Rest(x) \subseteq Whole', Fits(c, Rest(x))', x \notin sb'[c].sees
               PROVE  sb'[x].events # sb'[c].events /\ sb'[x].events <= sb'[c].events + 1
    BY <1>2 DEF GhostIsApart, Rest
  <2>1. c \in in  BY <1>2, <1>9
  <2>2. sb'[c].events = events + 1 /\ x \notin in \cup rb  BY <1>2, <2>1
  <2>3. sb'[x].events \in Nat /\ sb'[x].events <= events  BY <1>3, <2>2
  <2> QED  BY <1>2, <2>2, <2>3
<1> QED  BY <1>7, <1>8, <1>10, <1>11 DEF OrderInv

\* All disks of the array are written.
LEMMA AllWritten ==
  ASSUME OneMayMiss, ArrayTypes, DataTypes, StaleInv, running, superseded' = superseded, acked' = acked,
         NEW in, NEW rb, NEW isClean \in BOOLEAN, Changed(in, rb, isClean),
         Writes(in, rb, isClean, in \cup rb),
         \A d \in Disk : data'[d] = IF d \in in THEN acked ELSE data[d],
         insync' = in, rebuilding' = rb, events' = events + 1, dirty' = ~isClean,
         spares' = spares \ rb, pending' = {}
  PROVE  StaleInv'
<1>1. in \cup rb \in SUBSET (in \cup rb)  OBVIOUS
<1>2. OrderInv'
  <2>1. CASE pending = {}  BY <1>1, <2>1, OrderStays
  <2>2. CASE pending # {}  BY <2>2, NewOrder
  <2> QED  BY <2>1, <2>2
<1>3. /\ Known' = Known /\ Known \subseteq Disk /\ Whole' \subseteq Known /\ events \in Nat
      /\ \A d \in Disk : d \notin in \cup rb => sb'[d] = sb[d]
      /\ \A d \in in \cup rb : /\ sb'[d].events = events + 1 /\ sb'[d].sees = in \cup rb
                               /\ (sb'[d].clean <=> isClean)
      /\ \A d \in Known : d \in Whole' <=> IF d \in in \cup rb THEN d \in in ELSE d \in Whole
  BY <1>1, Written
<1>4. /\ in \subseteq Known /\ rb \subseteq Known \ Whole /\ in \cap rb = {} /\ in # {}
      /\ in \subseteq insync \cup rebuilding
  BY DEF Changed
<1>5. MemberInv'
  <2>1. in \subseteq Whole' /\ rb \subseteq Known' \ Whole'  BY <1>3, <1>4
  <2>2. spares' \subseteq Known' \ (in \cup rb)  BY <1>3, <1>4 DEF StaleInv, MemberInv
  <2>3. \A d \in spares' : d \notin sb'[d].sees
    <3> SUFFICES ASSUME NEW d \in spares' PROVE d \notin sb'[d].sees  OBVIOUS
    <3>1. d \in spares /\ d \in Disk /\ d \notin in \cup rb  BY <1>3, <2>2
    <3>2. sb'[d] = sb[d]  BY <1>3, <3>1
    <3> QED  BY <3>1, <3>2 DEF StaleInv, MemberInv
  <2>4. \A d \in in \cup rb : sb'[d].events <= events'  BY <1>3
  <2>5. \A d \in in : data'[d] = acked'  BY <1>3, <1>4
  <2>6. Cardinality(in) >= RaidDisks - 2  BY DEF Changed
  <2> QED  BY <2>1, <2>2, <2>3, <2>4, <2>5, <2>6 DEF MemberInv
<1>6. ASSUME NEW f \in Whole', f \notin in
      PROVE  sb'[f].events < events + 1 /\ f \notin in \cup rb
  <2>1. f \notin in \cup rb /\ f \in Whole /\ f \in Disk  BY <1>3, <1>4, <1>6
  <2>2. sb[f].events <= events /\ sb[f].events \in Nat  BY <2>1, WholeAreOld
  <2>3. sb'[f] = sb[f]  BY <1>3, <2>1
  <2> QED  BY <1>3, <2>1, <2>2, <2>3
<1>7. LeftBehind'
  <2> SUFFICES ASSUME NEW f \in Whole', f \notin in
               PROVE  /\ sb'[f].events < events + 1
                      /\ \A e \in in : sb'[f].events < sb'[e].events /\ f \notin sb'[e].sees
    BY DEF LeftBehind
  <2> QED  BY <1>3, <1>6
<1>8. TopsKnow'
  <2>1. dirty' => \A g \in in : ~sb'[g].clean  BY <1>3
  <2>2. \E g \in in : sb'[g].events = events'  BY <1>3, <1>4
  <2>3. \A g \in in : in \subseteq sb'[g].sees /\ rb \subseteq sb'[g].sees  BY <1>3
  <2>4. \A x \in Known' \ (Whole' \cup rb) : x \in sb'[x].sees /\ in = Rest(x) =>
            IF dirty' THEN sb'[x].events <= events'
                      ELSE sb'[x].events # events' /\ sb'[x].events <= events' + 1
    <3> SUFFICES ASSUME NEW x \in Known, x \notin Whole', x \notin rb, x \in sb'[x].sees, in = Rest(x)
                 PROVE  IF dirty' THEN sb'[x].events <= events'
                                  ELSE sb'[x].events # events' /\ sb'[x].events <= events' + 1
      BY <1>3
    <3>1. x \in Disk /\ x \notin in  BY <1>3 DEF Rest
    <3>2. sb'[x] = sb[x] /\ x \notin Whole  BY <1>3, <3>1
    <3>3. /\ sb[x].events \in Nat
          /\ IF isClean THEN sb[x].events <= events ELSE sb[x].events <= events + 1
      BY <3>2, GhostStays
    <3>4. CASE isClean
      <4>1. ~dirty' /\ sb[x].events <= events  BY <3>3, <3>4
      <4> QED  BY <1>3, <3>2, <3>3, <4>1
    <3>5. CASE ~isClean
      <4>1. dirty' /\ sb[x].events <= events + 1  BY <3>3, <3>5
      <4> QED  BY <1>3, <3>2, <3>3, <4>1
    <3> QED  BY <3>4, <3>5
  <2> QED  BY <2>1, <2>2, <2>3, <2>4 DEF TopsKnow, Rest
<1> QED  BY <1>2, <1>5, <1>7, <1>8 DEF StaleInv

\* The superblocks are written, all or some.
LEMMA RecordKeepsOut ==
  ASSUME OneMayMiss, ArrayTypes, DataTypes, StaleInv, NEW in, NEW rb, NEW isClean \in BOOLEAN,
         Update(in, rb, isClean), Record(in, rb, isClean), acked' = acked,
         data' \in [Disk -> Nat], \A d \in Disk : data'[d] = IF d \in in THEN acked ELSE data[d]
  PROVE  DataTypes' /\ StaleInv' /\ UnforcedInv'
<1>0. running /\ pc = "idle" /\ pc' = "idle" /\ superseded' = superseded
  BY DEF Record, ArrayTypes, mdadmVars
<1>1. Changed(in, rb, isClean)  BY <1>0, UpdateIs DEF StaleInv
<1>2. UnforcedInv'  BY <1>0 DEF UnforcedInv
<1>3. ASSUME NEW W \in SUBSET (in \cup rb), Writes(in, rb, isClean, W),
             spares' \subseteq Disk, pending' \subseteq Disk
      PROVE  DataTypes'
  <2>1. /\ \A d \in Disk : d \notin W => sb'[d] = sb[d]
        /\ \A d \in W : sb'[d].whole <=> d \in in
    BY <1>0, <1>1, <1>3, Written
  <2>2. acked' \in Nat \ {0} /\ superseded' \subseteq Disk  BY <1>0 DEF DataTypes
  <2>3. ASSUME NEW d \in Disk, sb'[d].whole PROVE data'[d] # 0
    <3>1. CASE d \in in  BY <2>2, <3>1
    <3>2. CASE d \notin in
      <4>1. sb[d].whole  BY <2>1, <2>3, <3>2
      <4> QED  BY <3>2, <4>1 DEF DataTypes
    <3> QED  BY <3>1, <3>2
  <2> QED  BY <1>3, <2>2, <2>3 DEF DataTypes
<1>4. CASE /\ Writes(in, rb, isClean, in \cup rb)
           /\ events' = events + 1 /\ insync' = in /\ rebuilding' = rb /\ dirty' = ~isClean
           /\ spares' = spares \ rb /\ pending' = {}
  <2>1. StaleInv'  BY <1>0, <1>1, <1>4, AllWritten
  <2>2. spares' \subseteq Disk /\ pending' \subseteq Disk  BY <1>4 DEF DataTypes
  <2>3. in \cup rb \in SUBSET (in \cup rb)  OBVIOUS
  <2> QED  BY <1>2, <1>3, <1>4, <2>1, <2>2, <2>3
<1>5. ASSUME NEW W \in SUBSET (in \cup rb), Writes(in, rb, isClean, W), Off, pending' = pending
      PROVE  DataTypes' /\ StaleInv'
  <2>1. pending = {} => OrderInv'  BY <1>0, <1>1, <1>5, OrderStays
  <2>2. StaleInv'  BY <1>5, <2>1 DEF StaleInv, Off
  <2>3. spares' \subseteq Disk /\ pending' \subseteq Disk  BY <1>5 DEF DataTypes, Off
  <2> QED  BY <1>3, <1>5, <2>2, <2>3
<1> QED  BY <1>2, <1>4, <1>5 DEF Record, Writes

\* A record that does not change the data.
LEMMA DataStay ==
  ASSUME DataTypes, StaleInv, running, NEW in, in \subseteq insync, UNCHANGED <<data, acked>>
  PROVE  acked' = acked /\ data' \in [Disk -> Nat]
         /\ \A d \in Disk : data'[d] = IF d \in in THEN acked ELSE data[d]
BY DEF DataTypes, StaleInv, MemberInv

\* Whatever the driver records.
LEMMA DriverKeepsOut ==
  ASSUME OneMayMiss, ArrayTypes, DataTypes, StaleInv,
         \/ MarkDirty \/ MarkClean
         \/ \E d \in Disk : Fail(d) \/ Rebuild(d) \/ Rebuilt(d)
  PROVE  DataTypes' /\ StaleInv' /\ UnforcedInv'
<1>0. running /\ dirty \in BOOLEAN /\ (~dirty) \in BOOLEAN
  BY DEF MarkDirty, MarkClean, Fail, Rebuild, Rebuilt, Record, ArrayTypes
<1>1. CASE MarkDirty
  <2>1. Record(insync, rebuilding, FALSE) /\ UNCHANGED <<data, acked>> /\ Works /\ ~dirty
    BY <1>1 DEF MarkDirty
  <2>2. Update(insync, rebuilding, FALSE)  BY <2>1 DEF Update
  <2>3. acked' = acked /\ data' \in [Disk -> Nat]
        /\ \A d \in Disk : data'[d] = IF d \in insync THEN acked ELSE data[d]
    BY <1>0, <2>1, DataStay
  <2> QED  BY <2>1, <2>2, <2>3, RecordKeepsOut
<1>2. CASE MarkClean
  <2>1. Record(insync, rebuilding, TRUE) /\ UNCHANGED <<data, acked>> /\ dirty
    BY <1>2 DEF MarkClean
  <2>2. Update(insync, rebuilding, TRUE)  BY <2>1 DEF Update
  <2>3. acked' = acked /\ data' \in [Disk -> Nat]
        /\ \A d \in Disk : data'[d] = IF d \in insync THEN acked ELSE data[d]
    BY <1>0, <2>1, DataStay
  <2> QED  BY <2>1, <2>2, <2>3, RecordKeepsOut
<1>3. ASSUME NEW d \in Disk, Fail(d) PROVE DataTypes' /\ StaleInv' /\ UnforcedInv'
  <2>1. /\ Record(insync \ {d}, rebuilding \ {d}, ~dirty) /\ UNCHANGED <<data, acked>> /\ Works
        /\ d \in insync \cup rebuilding
    BY <1>3 DEF Fail
  <2>2. Update(insync \ {d}, rebuilding \ {d}, ~dirty)  BY <2>1 DEF Update
  <2>3. acked' = acked /\ data' \in [Disk -> Nat]
        /\ \A e \in Disk : data'[e] = IF e \in insync \ {d} THEN acked ELSE data[e]
    <3>1. insync \ {d} \subseteq insync  OBVIOUS
    <3> QED  BY <1>0, <2>1, <3>1, DataStay
  <2> QED  BY <1>0, <2>1, <2>2, <2>3, RecordKeepsOut
<1>4. ASSUME NEW d \in Disk, Rebuild(d) PROVE DataTypes' /\ StaleInv' /\ UnforcedInv'
  <2>1. Record(insync, rebuilding \cup {d}, ~dirty) /\ UNCHANGED <<data, acked>> /\ Works /\ d \in spares
    BY <1>4 DEF Rebuild
  <2>2. Update(insync, rebuilding \cup {d}, ~dirty)  BY <2>1 DEF Update
  <2>3. acked' = acked /\ data' \in [Disk -> Nat]
        /\ \A e \in Disk : data'[e] = IF e \in insync THEN acked ELSE data[e]
    BY <1>0, <2>1, DataStay
  <2> QED  BY <1>0, <2>1, <2>2, <2>3, RecordKeepsOut
<1>5. ASSUME NEW d \in Disk, Rebuilt(d) PROVE DataTypes' /\ StaleInv' /\ UnforcedInv'
  <2>1. /\ Record(insync \cup {d}, rebuilding \ {d}, ~dirty) /\ Works /\ d \in rebuilding
        /\ data' = [data EXCEPT ![d] = acked] /\ acked' = acked
    BY <1>5 DEF Rebuilt
  <2>2. Update(insync \cup {d}, rebuilding \ {d}, ~dirty)  BY <2>1 DEF Update
  <2>3. data' \in [Disk -> Nat]
        /\ \A e \in Disk : data'[e] = IF e \in insync \cup {d} THEN acked ELSE data[e]
    BY <1>0, <2>1 DEF DataTypes, StaleInv, MemberInv
  <2> QED  BY <1>0, <2>1, <2>2, <2>3, RecordKeepsOut
<1> QED  BY <1>1, <1>2, <1>3, <1>4, <1>5

-----------------------------------------------------------------------------
(* What else happens to an array that runs.                                 *)

\* A write is missed by the disk that is left out, and by no other.
LEMMA WriteKeepsOut ==
  ASSUME OneMayMiss, ArrayTypes, DataTypes, StaleInv, Write
  PROVE  DataTypes' /\ StaleInv' /\ UnforcedInv'
<1>0. /\ running /\ Works /\ dirty /\ acked' = acked + 1 /\ pc = "idle" /\ pc' = "idle"
      /\ data' = [d \in Disk |-> IF d \in insync THEN acked + 1 ELSE data[d]]
      /\ UNCHANGED <<sb, running, events, insync, rebuilding, spares, dirty, pending, superseded>>
  BY DEF Write, ArrayTypes, kernelVars, mdadmVars
<1>1. acked + 1 \in Nat \ {0}  BY DEF DataTypes
<1>2. DataTypes'
  <2>1. data' \in [Disk -> Nat] /\ \A d \in Disk : sb[d].whole => data'[d] # 0
    BY <1>0, <1>1 DEF DataTypes
  <2> QED  BY <1>0, <1>1, <2>1 DEF DataTypes
<1>3. Known' = Known /\ Whole' = Whole /\ Whole \subseteq Known /\ Known \subseteq Disk
  BY <1>0 DEF Known, Whole
<1>4. \A c, S : Fits(c, S)' <=> Fits(c, S)  BY <1>0 DEF Fits, Behind
<1>5. pending = {} => StaleIsKnown'
  <2> SUFFICES ASSUME pending = {}, NEW d \in Whole, data'[d] # acked', NEW e \in Known, e # d
               PROVE  sb[e].events > sb[d].events /\ d \notin sb[e].sees
    BY <1>0, <1>3 DEF StaleIsKnown
  <2>1. d \in Disk /\ e \in Disk /\ d \notin insync  BY <1>0, <1>3
  <2>2. e \in insync  BY <1>0, <2>1, WorksIs DEF Rest
  <2>3. sb[d].events < sb[e].events /\ d \notin sb[e].sees  BY <1>0, <2>1, <2>2 DEF StaleInv, LeftBehind
  <2> QED  BY <2>1, <2>3, Fields
<1>6. pending = {} => SameRecord' /\ NewerIsSeen' /\ GhostIsApart'
  <2> SUFFICES ASSUME pending = {} PROVE SameRecord' /\ NewerIsSeen' /\ GhostIsApart'  OBVIOUS
  <2>1. SameRecord /\ NewerIsSeen /\ GhostIsApart  BY DEF StaleInv, OrderInv
  <2>2. SameRecord'  BY <1>0, <1>3, <2>1 DEF SameRecord
  <2>3. NewerIsSeen'  BY <1>0, <1>3, <1>4, <2>1 DEF NewerIsSeen
  <2>4. GhostIsApart'  BY <1>0, <1>3, <1>4, <2>1 DEF GhostIsApart
  <2> QED  BY <2>2, <2>3, <2>4
<1>7. MemberInv'
  <2>1. MemberInv /\ insync \subseteq Disk  BY <1>0 DEF StaleInv, ArrayTypes
  <2>2. \A d \in insync : data'[d] = acked'  BY <1>0, <2>1
  <2> QED  BY <1>0, <1>3, <2>1, <2>2 DEF MemberInv
<1>8. pending = {} => LeftBehind' /\ TopsKnow'
  <2> SUFFICES ASSUME pending = {} PROVE LeftBehind' /\ TopsKnow'  OBVIOUS
  <2>1. LeftBehind /\ TopsKnow  BY <1>0 DEF StaleInv
  <2>2. LeftBehind'  BY <1>0, <1>3, <2>1 DEF LeftBehind
  <2>3. TopsKnow'  BY <1>0, <1>3, <1>4, <2>1 DEF TopsKnow
  <2> QED  BY <2>2, <2>3
<1>9. UnforcedInv'  BY <1>0 DEF UnforcedInv
<1> QED  BY <1>0, <1>2, <1>5, <1>6, <1>7, <1>8, <1>9 DEF StaleInv, OrderInv

\* A disk that is added knows nothing, and is known to nobody.
LEMMA AddKeepsOut ==
  ASSUME OneMayMiss, ArrayTypes, DataTypes, StaleInv, NEW d \in Disk, Add(d)
  PROVE  DataTypes' /\ StaleInv' /\ UnforcedInv'
<1> DEFINE New == [events |-> events, sees |-> insync \cup rebuilding, clean |-> ~dirty, whole |-> FALSE]
<1>0. /\ running /\ pc = "idle" /\ pc' = "idle" /\ d \notin insync /\ d \notin rebuilding
      /\ sb' = [sb EXCEPT ![d] = New] /\ data' = [data EXCEPT ![d] = 0]
      /\ superseded' = superseded \ {d} /\ acked' = acked /\ pending' = pending
      /\ \/ spares' = spares \cup {d} /\ UNCHANGED <<running, events, insync, rebuilding, dirty>>
         \/ Off
      /\ MemberInv
  BY DEF Add, ArrayTypes, mdadmVars, StaleInv
<1>1. /\ sb'[d].events = events /\ sb'[d].whole = FALSE /\ d \notin sb'[d].sees
      /\ sb'[d].sees = insync \cup rebuilding /\ data'[d] = 0
      /\ \A e \in Disk : e # d => sb'[e] = sb[e] /\ data'[e] = data[e]
  <2>1. New.events = events /\ New.whole = FALSE /\ New.sees = insync \cup rebuilding  OBVIOUS
  <2> HIDE DEF New
  <2> QED  BY <1>0, <2>1 DEF ArrayTypes, DataTypes
<1>2. UnforcedInv'  BY <1>0 DEF UnforcedInv
<1>3. DataTypes'
  <2>1. data' \in [Disk -> Nat]  BY <1>0 DEF DataTypes
  <2>2. \A e \in Disk : sb'[e].whole => data'[e] # 0
    <3> SUFFICES ASSUME NEW e \in Disk, sb'[e].whole PROVE data'[e] # 0  OBVIOUS
    <3>1. e # d  BY <1>1
    <3> QED  BY <1>1, <3>1 DEF DataTypes
  <2>3. spares' \subseteq Disk  BY <1>0 DEF DataTypes, Off
  <2> QED  BY <1>0, <2>1, <2>2, <2>3 DEF DataTypes
<1>4. /\ Known' = Known \cup {d} /\ Whole' = Whole \ {d} /\ Known \subseteq Disk /\ Whole \subseteq Known
      /\ insync \subseteq Whole' /\ insync \subseteq Disk /\ rebuilding \subseteq Disk /\ Whole' # Disk
  <2>1. Known' = Known \cup {d} /\ Known \subseteq Disk /\ Whole \subseteq Known  BY <1>0 DEF Known, Whole
  <2>2. Whole' = Whole \ {d}
    <3>1. \A e \in Disk : e # d => (sb'[e].whole <=> sb[e].whole)  BY <1>1
    <3> QED  BY <1>1, <2>1, <3>1 DEF Whole
  <2> QED  BY <1>0, <2>1, <2>2 DEF MemberInv, ArrayTypes
<1>5. \A x : d \in Rest(x) \/ x = d  BY DEF Rest
<1>6. pending = {} => StaleIsKnown'
  <2> SUFFICES ASSUME pending = {}, NEW s \in Whole, s # d, data'[s] # acked, NEW e \in Known \cup {d}, e # s
               PROVE  sb'[e].events > sb'[s].events /\ s \notin sb'[e].sees
    BY <1>0, <1>4 DEF StaleIsKnown
  <2>1. sb'[s] = sb[s] /\ data[s] # acked /\ s \in Disk  BY <1>1, <1>4
  <2>2. CASE e = d
    <3>1. s \notin insync /\ s \notin rebuilding  BY <1>0, <2>1 DEF MemberInv
    <3>2. sb[s].events < events /\ sb[s].events \in Nat /\ events \in Nat  BY <1>0, <3>1, WholeAreOld
    <3> QED  BY <1>1, <2>1, <2>2, <3>1, <3>2
  <2>3. CASE e # d
    <3>1. sb'[e] = sb[e] /\ e \in Known  BY <1>1, <1>4, <2>3
    <3> QED  BY <2>1, <3>1 DEF StaleInv, OrderInv, StaleIsKnown
  <2> QED  BY <2>2, <2>3
<1>7. pending = {} => SameRecord'
  <2> SUFFICES ASSUME pending = {} PROVE SameRecord'  OBVIOUS
  <2>1. \A e \in Whole' : e \in Whole /\ sb'[e] = sb[e]  BY <1>1, <1>4
  <2> QED  BY <2>1 DEF SameRecord, StaleInv, OrderInv
<1>8. NewerIsSeen'  BY <1>4 DEF NewerIsSeen
<1>9. GhostIsApart'
  <2> SUFFICES ASSUME NEW x \in Disk, x \in sb'[x].sees, Rest(x) \subseteq Whole' PROVE FALSE
    BY <1>4 DEF GhostIsApart, Rest
  <2>1. x # d  BY <1>1
  <2>2. d \in Rest(x)  BY <1>5, <2>1
  <2> QED  BY <1>4, <2>2
<1>10. CASE Off  BY <1>0, <1>2, <1>3, <1>6, <1>7, <1>8, <1>9, <1>10 DEF StaleInv, OrderInv, Off
<1>11. CASE spares' = spares \cup {d} /\ UNCHANGED <<running, events, insync, rebuilding, dirty>>
  <2>1. \A e \in insync \cup rebuilding : e # d /\ sb'[e] = sb[e] /\ data'[e] = data[e] /\ e \in Disk
    BY <1>0, <1>1, <1>4
  <2>2. MemberInv'
    <3>1. rebuilding \subseteq Known' \ Whole'  BY <1>0, <1>4 DEF MemberInv
    <3>2. spares' \subseteq Known' \ (insync \cup rebuilding)  BY <1>0, <1>4, <1>11 DEF MemberInv
    <3>3. \A e \in spares' : e \notin sb'[e].sees
      <4> SUFFICES ASSUME NEW e \in spares, e # d PROVE e \notin sb'[e].sees  BY <1>1, <1>11
      <4>1. sb'[e] = sb[e]  BY <1>1 DEF DataTypes
      <4> QED  BY <1>0, <4>1 DEF MemberInv
    <3>4. \A e \in insync \cup rebuilding : sb'[e].events <= events  BY <1>0, <2>1 DEF MemberInv
    <3>5. \A e \in insync : data'[e] = acked  BY <1>0, <2>1 DEF MemberInv
    <3>6. pending # {} => \A e \in Known' : e \in insync \cup rebuilding \/ e \notin sb'[e].sees
      <4> SUFFICES ASSUME pending # {}, NEW e \in Known, e # d
                   PROVE  e \in insync \cup rebuilding \/ e \notin sb'[e].sees
        BY <1>1, <1>4
      <4>1. sb'[e] = sb[e]  BY <1>1, <1>4
      <4> QED  BY <1>0, <4>1 DEF MemberInv
    <3>7. Cardinality(insync) >= RaidDisks - 2  BY <1>0 DEF MemberInv
    <3> QED  BY <1>0, <1>4, <1>11, <3>1, <3>2, <3>3, <3>4, <3>5, <3>6, <3>7 DEF MemberInv
  <2>3. pending = {} => LeftBehind'
    <3> SUFFICES ASSUME pending = {}, NEW f \in Whole, f # d, f \notin insync
                 PROVE  /\ sb'[f].events < events
                        /\ dirty => \A e \in insync : sb'[f].events < sb'[e].events /\ f \notin sb'[e].sees
      BY <1>4, <1>11 DEF LeftBehind
    <3>1. sb'[f] = sb[f]  BY <1>1, <1>4
    <3> QED  BY <1>0, <2>1, <3>1 DEF StaleInv, LeftBehind
  <2>4. pending = {} => TopsKnow'
    <3> SUFFICES ASSUME pending = {} PROVE TopsKnow'  OBVIOUS
    <3>1. TopsKnow  BY <1>0 DEF StaleInv
    <3>2. \A c : Fits(c, insync)' <=> Fits(c, insync)  BY <1>11, <2>1 DEF Fits, Behind
    <3>3. dirty' /\ insync' # Disk => \A g \in insync' : ~sb'[g].clean
      BY <1>11, <2>1, <3>1 DEF TopsKnow
    <3>4. rebuilding' = {} => \E g \in insync' : sb'[g].events = events'
      BY <1>11, <2>1, <3>1 DEF TopsKnow
    <3>5. \A x \in rebuilding' : \A c \in insync' : Fits(c, insync)' => x \in sb'[c].sees
      BY <1>11, <2>1, <3>1, <3>2 DEF TopsKnow
    <3>6. \A x \in Known' : ~(x \in sb'[x].sees /\ insync' = Rest(x))
      <4> SUFFICES ASSUME NEW x \in Known', x \in sb'[x].sees, insync = Rest(x) PROVE FALSE  BY <1>11
      <4>1. x # d  BY <1>1
      <4> QED  BY <1>0, <1>5, <4>1
    <3> QED  BY <1>4, <3>3, <3>4, <3>5, <3>6 DEF TopsKnow, Rest
  <2> QED  BY <1>0, <1>2, <1>3, <1>6, <1>7, <1>8, <1>9, <1>11, <2>2, <2>3, <2>4 DEF StaleInv, OrderInv
<1> QED  BY <1>0, <1>10, <1>11

\* Nothing is written, and the array does not run.
LEMMA StillKeepsOut ==
  ASSUME DataTypes, StaleInv, UNCHANGED <<sb, data, acked, superseded>>,
         pending' = pending \/ (pending' # {} /\ pending' \subseteq Disk), ~running', spares' \subseteq Disk
  PROVE  DataTypes' /\ StaleInv'
<1>1. Known' = Known /\ Whole' = Whole  BY DEF Known, Whole
<1>2. \A c, S : Fits(c, S)' <=> Fits(c, S)  BY DEF Fits, Behind
<1>3. OrderInv => OrderInv'
  <2> SUFFICES ASSUME OrderInv PROVE OrderInv'  OBVIOUS
  <2>1. StaleIsKnown'  BY <1>1 DEF OrderInv, StaleIsKnown
  <2>2. SameRecord'  BY <1>1 DEF OrderInv, SameRecord
  <2>3. NewerIsSeen'  BY <1>1, <1>2 DEF OrderInv, NewerIsSeen
  <2>4. GhostIsApart'  BY <1>1, <1>2 DEF OrderInv, GhostIsApart
  <2> QED  BY <2>1, <2>2, <2>3, <2>4 DEF OrderInv
<1>4. StaleInv'  BY <1>3 DEF StaleInv
<1>5. DataTypes'  BY DEF DataTypes
<1> QED  BY <1>4, <1>5

\* The array is stopped, or power is lost.
LEMMA OffKeepsOut ==
  ASSUME ArrayTypes, DataTypes, StaleInv, UnforcedInv, StopArray \/ Crash \/ NotStarted
  PROVE  DataTypes' /\ StaleInv' /\ UnforcedInv'
<1>1. CASE StopArray
  <2>1. UNCHANGED <<sb, data, acked, superseded, pending, pc>> /\ ~running' /\ spares' = {} /\ pc = "idle"
    BY <1>1 DEF StopArray, Off, diskVars, mdadmVars, ArrayTypes
  <2> QED  BY <2>1, StillKeepsOut DEF UnforcedInv
<1>2. CASE Crash
  <2>1. UNCHANGED <<sb, data, acked, superseded, pending>> /\ ~running' /\ spares' = {} /\ pc' = "idle"
    BY <1>2 DEF Crash, Off, Reset, diskVars
  <2> QED  BY <2>1, StillKeepsOut DEF UnforcedInv
<1>3. CASE NotStarted
  <2>1. /\ UNCHANGED <<sb, data, acked, superseded, pending, running, spares>> /\ pc' = "idle"
        /\ pc = "start"
    BY <1>3 DEF NotStarted, Reset, diskVars, kernelVars
  <2>2. ~running' /\ spares' \subseteq Disk  BY <2>1 DEF ArrayTypes, DataTypes
  <2> QED  BY <2>1, <2>2, StillKeepsOut DEF UnforcedInv
<1> QED  BY <1>1, <1>2, <1>3

-----------------------------------------------------------------------------
(* An assembly up to the start.                                             *)

\* load_devices.
LEMMA LoadKeepsOut ==
  ASSUME OneMayMiss, ArrayTypes, DataTypes, StaleInv, NEW disks \in SUBSET Disk, NEW f \in BOOLEAN,
         Load(disks, f)
  PROVE  DataTypes' /\ StaleInv' /\ UnforcedInv'
<1> DEFINE r == [d \in disks |-> sb[d]]
           recent == MostRecent(r)
           accepted == {d \in Active(r) : d = recent \/ f \/ recent \in r[d].sees}
           current == {d \in accepted : r[d].events + 1 >= r[recent].events}
<1>1. /\ UNCHANGED <<sb, data, acked, superseded, pending, running, spares>> /\ ~running
      /\ disks # {} /\ disks \cap superseded = {}
      /\ given' = disks /\ force' = f /\ read' = r
      /\ best' = accepted /\ uptodate' = current /\ avail' = {d \in current : r[d].whole}
      /\ pc' \in {"force", "choose"}
  BY DEF Load, diskVars, kernelVars, OneMayMiss
<1> HIDE DEF r
<1>2. UnforcedInv'
  <2>1. Active(read)' = Active(r) /\ MostRecent(read)' = recent  BY <1>1 DEF Active, MostRecent
  <2>2. ~f => best' = {d \in Active(r) : d = recent \/ recent \in r[d].sees}  BY <1>1
  <2> QED  BY <1>1, <2>1, <2>2 DEF UnforcedInv
<1>3. spares' \subseteq Disk  BY <1>1 DEF DataTypes
<1> QED  BY <1>1, <1>2, <1>3, StillKeepsOut

\* force_array.
LEMMA ForceKeepsOut ==
  ASSUME ArrayTypes, ForceInv, DataTypes, StaleInv, UnforcedInv, ForceOne \/ ForceDone
  PROVE  DataTypes' /\ StaleInv' /\ UnforcedInv'
<1>0. /\ pc = "force" /\ force /\ ~running /\ given \subseteq Disk /\ given # {}
      /\ given \cap superseded = {}
  BY DEF ForceOne, ForceDone, ForceInv, ReadInv, ForcedAll, ArrayTypes, UnforcedInv
<1>1. UNCHANGED <<data, acked, superseded, running, spares, force, given>>
  BY DEF ForceOne, ForceDone, kernelVars, diskVars
<1>2. UnforcedInv'  BY <1>0, <1>1 DEF UnforcedInv
<1>3. CASE ForceOne
  <2> DEFINE d == IF AddAnother # {} THEN Min(AddAnother) ELSE Newest(Candidates)
  <2>1. sb' = Stamped(d) /\ pending' = given  BY <1>3 DEF ForceOne
  <2> HIDE DEF d
  <2>2. \A e \in Disk : sb'[e].whole = sb[e].whole
    <3> SUFFICES ASSUME NEW e \in Disk PROVE sb'[e].whole = sb[e].whole  OBVIOUS
    <3>1. sb \in [Disk -> Super] /\ sb' = [sb EXCEPT ![d].events = Top]  BY <2>1 DEF Stamped, ArrayTypes
    <3>2. CASE e = d
      <4>1. sb'[e] = [sb[e] EXCEPT !.events = Top] /\ sb[e] \in Super  BY <3>1, <3>2
      <4> QED  BY <4>1 DEF Super
    <3>3. CASE e # d  BY <3>1, <3>3
    <3> QED  BY <3>2, <3>3
  <2>3. DataTypes'  BY <1>0, <1>1, <2>1, <2>2 DEF DataTypes
  <2>4. StaleInv'  BY <1>0, <1>1, <2>1 DEF StaleInv
  <2> QED  BY <1>2, <2>3, <2>4
<1>4. CASE ForceDone
  <2>1. UNCHANGED <<sb, pending>>  BY <1>4 DEF ForceDone, diskVars
  <2>2. spares' \subseteq Disk  BY <1>1 DEF DataTypes
  <2> QED  BY <1>0, <1>1, <1>2, <2>1, <2>2, StillKeepsOut
<1> QED  BY <1>3, <1>4

\* The superblock that is stored.
LEMMA ChooseKeepsOut ==
  ASSUME ArrayTypes, ForceInv, DataTypes, StaleInv, UnforcedInv, Choose
  PROVE  DataTypes' /\ StaleInv' /\ UnforcedInv'
<1> DEFINE c == Min({d \in uptodate : read[d].events = Top})
           allClean == clean /\ \A d \in uptodate \cup (given \ Active(read)) : read[d].clean
           forceClean == force /\ ~allClean /\ ~Enough(FALSE, avail)
           stored == [sb[c] EXCEPT !.sees = @ \cup uptodate,
                                   !.clean = @ \/ (forceClean /\ Level \in {4, 5, 6})]
<1>0. /\ ReadInv /\ CountedOnce /\ pc = "choose" /\ ~running /\ given # {} /\ given \cap superseded = {}
      /\ given \subseteq Disk
  BY DEF Choose, ForceInv, ArrayTypes, UnforcedInv, ReadInv
<1>1. /\ UNCHANGED <<data, acked, superseded, running, spares, given, force, read, best, uptodate, avail>>
      /\ pc' = "start" /\ chosen' = c /\ needed' = Cardinality(sb[c].sees)
      /\ clean' = (allClean \/ forceClean)
      /\ sb' = IF force THEN [sb EXCEPT ![c] = stored] ELSE sb
      /\ pending' = IF force /\ stored # sb[c] THEN given ELSE pending
  BY DEF Choose, kernelVars, MayCorrect
<1>2. c \in uptodate /\ read[c].events = Top  BY <1>0, ChosenIs
<1>3. uptodate \subseteq best /\ best \subseteq given /\ c \in Disk
      /\ \A d \in given : read[d] = sb[d]
  BY <1>0, <1>2, TopIs DEF CountedOnce, ReadInv
<1>4. spares' \subseteq Disk  BY <1>1 DEF DataTypes
<1>5. CASE ~force
  <2>1. sb' = sb /\ pending' = pending /\ (clean' => \A d \in uptodate : read[d].clean)
    BY <1>1, <1>5
  <2> HIDE DEF c
  <2>2. DataTypes' /\ StaleInv'  BY <1>0, <1>1, <1>4, <2>1, StillKeepsOut
  <2>3. Top' = Top /\ Active(read)' = Active(read) /\ MostRecent(read)' = MostRecent(read)
    BY <1>1 DEF Top, Active, MostRecent
  <2>4. sb[c].events = Top  BY <1>2, <1>3
  <2>5. /\ best = {d \in Active(read) : d = MostRecent(read) \/ MostRecent(read) \in read[d].sees}
        /\ avail = {d \in uptodate : read[d].whole}
    BY <1>0, <1>5 DEF UnforcedInv
  <2>6. clean' => \A d \in uptodate : sb'[d].clean  BY <1>3, <2>1
  <2> QED  BY <1>0, <1>1, <1>2, <1>3, <1>5, <2>1, <2>2, <2>3, <2>4, <2>5, <2>6 DEF UnforcedInv
<1>6. CASE force
  <2>1. UnforcedInv'  BY <1>0, <1>1, <1>6 DEF UnforcedInv
  <2>2. stored.whole = sb[c].whole
    <3> HIDE DEF c, forceClean
    <3>1. sb[c] \in Super  BY <1>3 DEF ArrayTypes
    <3> QED  BY <3>1 DEF Super
  <2> HIDE DEF c, stored
  <2>3. sb' = [sb EXCEPT ![c] = stored]  BY <1>1, <1>6
  <2>4. CASE stored = sb[c]
    <3>1. sb' = sb /\ pending' = pending  BY <1>1, <2>3, <2>4 DEF ArrayTypes
    <3> QED  BY <1>0, <1>1, <1>4, <2>1, <3>1, StillKeepsOut
  <2>5. CASE stored # sb[c]
    <3>1. pending' = given  BY <1>1, <1>6, <2>5
    <3>2. \A e \in Disk : sb'[e].whole = sb[e].whole  BY <1>3, <2>2, <2>3 DEF ArrayTypes
    <3>3. DataTypes'  BY <1>0, <1>1, <3>1, <3>2 DEF DataTypes
    <3>4. StaleInv'  BY <1>0, <1>1, <3>1 DEF StaleInv
    <3> QED  BY <2>1, <3>3, <3>4
  <2> QED  BY <2>4, <2>5
<1> QED  BY <1>5, <1>6

-----------------------------------------------------------------------------
(* The start.                                                               *)

\* What the kernel is given, and makes of it.
LEMMA StartIs ==
  ASSUME OneMayMiss, ArrayTypes, ForceInv, DataTypes, UnforcedInv, Start
  PROVE  /\ pc = "start" /\ given \subseteq Disk /\ given # {} /\ given \cap superseded = {}
         /\ best \subseteq given /\ uptodate \subseteq best /\ chosen \in Disk
         /\ \A d \in given : d \in Active(read) <=> d \in sb[d].sees
         /\ best \subseteq Active(read)
         /\ \A d \in best : Accepts(d) <=> sb[d].events = sb[chosen].events \/ Behind(d, chosen)
         /\ sb[chosen].clean \in BOOLEAN
         /\ \A f \in Disk : f \notin KernelInSync => KernelInSync = Rest(f) /\ sb[chosen].clean
         /\ \A y : \E z \in KernelInSync : z # y
         /\ Cardinality(KernelInSync) >= RaidDisks - 2
         /\ KernelInSync = {d \in best : Accepts(d) /\ sb[d].whole}
         /\ KernelRebuilds = {d \in best : Accepts(d) /\ ~sb[d].whole}
<1>0. pc = "start" /\ GoodToGo /\ KernelRuns  BY DEF Start
<1>1. /\ ReadInv /\ CountedOnce /\ ChosenInv /\ given # {} /\ given \cap superseded = {}
  BY <1>0 DEF ForceInv, UnforcedInv
<1>2. /\ given \subseteq Disk /\ best \subseteq given /\ best \subseteq Active(read) /\ uptodate \subseteq best
      /\ chosen \in Disk
  BY <1>0, <1>1, TopIs DEF CountedOnce, ChosenInv
<1>3. \A d \in given : d \in Active(read) <=> d \in sb[d].sees  BY <1>1 DEF ReadInv, Actives
<1>4. \A d \in best : Accepts(d) <=> sb[d].events = sb[chosen].events \/ Behind(d, chosen)
  BY DEF Accepts, Behind, OneMayMiss
<1>5. sb[chosen].clean \in BOOLEAN  BY <1>2, Fields
<1>6. KernelInSync \in SUBSET Disk  BY <1>2 DEF KernelInSync
<1>7. /\ \A f \in Disk : f \notin KernelInSync => KernelInSync = Rest(f) /\ sb[chosen].clean
      /\ \A y : \E z \in KernelInSync : z # y
      /\ Cardinality(KernelInSync) >= RaidDisks - 1
  BY <1>0, <1>5, <1>6, EnoughIs DEF KernelRuns
<1>8. Cardinality(KernelInSync) >= RaidDisks - 2
  BY <1>6, <1>7, AllButOne, RaidDisksAssumption
<1> QED  BY <1>0, <1>1, <1>2, <1>3, <1>4, <1>5, <1>7, <1>8 DEF KernelInSync, KernelRebuilds

\* After a forced assembly, what is in the array is what there is.
LEMMA ForcedStartKeepsOut ==
  ASSUME OneMayMiss, ArrayTypes, ForceInv, DataTypes, StaleInv, UnforcedInv, Start, force \/ pending # {}
  PROVE  DataTypes' /\ StaleInv'
<1> DEFINE in == KernelInSync
           rb == KernelRebuilds
           lost == \E d \in in : data[d] # acked
<1>1. /\ sb' = sb /\ running' = TRUE /\ events' = sb[chosen].events /\ insync' = in /\ rebuilding' = rb
      /\ spares' = GivenSpares /\ pending' = given
      /\ superseded' = Disk \ (in \cup rb \cup GivenSpares)
      /\ acked' = IF lost THEN acked + 1 ELSE acked
      /\ data' = [d \in Disk |-> IF lost /\ d \in in /\ data[d] # 0 THEN acked + 1 ELSE data[d]]
  BY DEF Start, Settle
<1>2. /\ given \subseteq Disk /\ given # {} /\ chosen \in Disk
      /\ \A d \in in : d \in Disk /\ d \in given /\ d \in Active(read) /\ Accepts(d) /\ sb[d].whole
      /\ \A d \in rb : d \in Disk /\ d \in given /\ d \in Active(read) /\ Accepts(d) /\ ~sb[d].whole
      /\ Cardinality(in) >= RaidDisks - 2
  BY StartIs
<1>3. /\ GivenSpares \subseteq Disk /\ GivenSpares \cap (in \cup rb) = {}
      /\ \A d \in GivenSpares : d \notin sb[d].sees
  BY <1>2, StartIs DEF GivenSpares
<1>4. acked' \in Nat \ {0} /\ acked + 1 \in Nat \ {0}  BY <1>1 DEF DataTypes
<1>5. \A d \in Disk : data'[d] = IF lost /\ d \in in /\ data[d] # 0 THEN acked + 1 ELSE data[d]  BY <1>1
<1> HIDE DEF in, rb
<1>6. \A d \in in : data'[d] = acked'
  <2> SUFFICES ASSUME NEW d \in in PROVE data'[d] = acked'  OBVIOUS
  <2>1. data[d] # 0 /\ d \in Disk  BY <1>2 DEF DataTypes
  <2> QED  BY <1>1, <1>5, <2>1
<1>7. DataTypes'
  <2>1. data' \in [Disk -> Nat]  BY <1>1, <1>4 DEF DataTypes
  <2>2. \A d \in Disk : sb'[d].whole => data'[d] # 0  BY <1>1, <1>4, <1>5 DEF DataTypes
  <2> QED  BY <1>1, <1>2, <1>3, <1>4, <2>1, <2>2 DEF DataTypes
<1>8. Known' = in \cup rb \cup GivenSpares  BY <1>1, <1>2, <1>3 DEF Known
<1>9. in \subseteq Whole' /\ rb \subseteq Known' \ Whole'  BY <1>1, <1>2, <1>8 DEF Whole
<1>10. \A d \in in \cup rb : sb'[d].events <= events'
  <2> SUFFICES ASSUME NEW d \in in \cup rb PROVE sb[d].events <= sb[chosen].events  BY <1>1
  <2>1. sb[d].events = sb[chosen].events \/ sb[d].events + 1 = sb[chosen].events
    BY <1>2 DEF Accepts
  <2>2. sb[d].events \in Nat /\ sb[chosen].events \in Nat  BY <1>2, Fields
  <2> QED  BY <2>1, <2>2
<1>11. MemberInv'
  BY <1>1, <1>2, <1>3, <1>6, <1>8, <1>9, <1>10 DEF MemberInv
<1> QED  BY <1>1, <1>2, <1>7, <1>11 DEF StaleInv

\* Without --force: what is missing is known to be.
LEMMA UnforcedIs ==
  ASSUME OneMayMiss, ArrayTypes, ForceInv, DataTypes, UnforcedInv, Start, ~force
  PROVE  /\ chosen \in uptodate
         /\ \A d \in given : d \in sb[d].sees => sb[d].events <= sb[chosen].events
         /\ \E m \in Disk : /\ sb[m].events = sb[chosen].events
                            /\ \A d \in best : d = m \/ m \in sb[d].sees
         /\ \A f \in Disk : f \notin uptodate /\ Rest(f) \subseteq sb[chosen].sees => f \notin sb[chosen].sees
         /\ \A x \in Disk : ~sb[x].whole => \A d \in Rest(x) : sb[d].clean
<1>0. pc = "start" /\ GoodToGo  BY DEF Start
<1>1. /\ ReadInv /\ CountedOnce /\ clean \in BOOLEAN
      /\ best = {d \in Active(read) : d = MostRecent(read) \/ MostRecent(read) \in read[d].sees}
      /\ avail = {d \in uptodate : read[d].whole}
      /\ \A d \in given : read[d] = sb[d]
      /\ chosen \in uptodate /\ sb[chosen].events = Top
      /\ needed = Cardinality(sb[chosen].sees)
      /\ clean => \A d \in uptodate : sb[d].clean
  BY <1>0 DEF ForceInv, UnforcedInv, ArrayTypes
<1>2. /\ given \in SUBSET Disk /\ read \in [given -> Super] /\ best \subseteq Active(read)
      /\ Active(read) \subseteq given /\ uptodate \subseteq best
      /\ \A e \in Active(read) : read[e].events <= Top
      /\ \A d \in given : d \in Active(read) <=> d \in sb[d].sees
      /\ chosen \in Disk
  BY <1>1, StartIs, TopIs DEF CountedOnce
<1>3. \A d \in given : d \in sb[d].sees => sb[d].events <= sb[chosen].events  BY <1>1, <1>2
<1>4. \E m \in Disk : sb[m].events = sb[chosen].events /\ \A d \in best : d = m \/ m \in sb[d].sees
  <2>1. MostRecent(read) \in Active(read) /\ read[MostRecent(read)].events = Top
    <3>1. Active(read) # {}  BY <1>1, <1>2
    <3> QED  BY <1>2, <3>1, RecentIs DEF Top
  <2> QED  BY <1>1, <1>2, <2>1
<1>5. /\ Enough(clean, avail) /\ Cardinality(uptodate) >= Cardinality(sb[chosen].sees)
  BY <1>0, <1>1 DEF GoodToGo
<1>6. avail \in SUBSET Disk /\ avail \subseteq uptodate /\ uptodate \subseteq Disk  BY <1>1, <1>2
<1>7. \A f \in Disk : f \notin avail => avail = Rest(f) /\ clean  BY <1>1, <1>5, <1>6, EnoughIs
<1>8. ASSUME NEW f \in Disk, f \notin uptodate, Rest(f) \subseteq sb[chosen].sees, f \in sb[chosen].sees
      PROVE  FALSE
  <2>1. uptodate = Rest(f)  BY <1>6, <1>7, <1>8 DEF Rest
  <2>2. sb[chosen].sees = Disk
    <3>1. sb[chosen].sees \subseteq Disk  BY <1>2, Fields
    <3> QED  BY <1>8, <3>1 DEF Rest
  <2>3. IsFiniteSet(Disk) /\ Rest(f) \in SUBSET Disk /\ Rest(f) # Disk  BY <1>8, DisksAre DEF Rest
  <2>4. Cardinality(Rest(f)) < Cardinality(Disk)
    <3>1. Cardinality(Rest(f)) \in Nat /\ Cardinality(Disk) \in Nat  BY <2>3, DisksAre
    <3> QED  BY <2>3, <3>1, FS_Subset
  <2>5. Cardinality(Rest(f)) \in Nat /\ Cardinality(Disk) \in Nat  BY <2>3, DisksAre
  <2> QED  BY <1>5, <2>1, <2>2, <2>4, <2>5
<1>9. ASSUME NEW x \in Disk, ~sb[x].whole PROVE \A d \in Rest(x) : sb[d].clean
  <2>1. x \notin avail  BY <1>1, <1>2, <1>9
  <2>2. avail = Rest(x) /\ clean  BY <1>7, <1>9, <2>1
  <2> QED  BY <1>1, <1>6, <2>2
<1> QED  BY <1>1, <1>3, <1>4, <1>8, <1>9

\* No disk in the array is stale, and those left out are behind.
LEMMA UnforcedStartKeepsOut ==
  ASSUME OneMayMiss, ArrayTypes, ForceInv, DataTypes, StaleInv, UnforcedInv, Start, ~force, pending = {}
  PROVE  DataTypes' /\ StaleInv'
<1> DEFINE in == KernelInSync
           rb == KernelRebuilds
           c == chosen
<1>1. /\ sb' = sb /\ running' = TRUE /\ events' = sb[c].events /\ insync' = in /\ rebuilding' = rb
      /\ dirty' = ~sb[c].clean
      /\ spares' = GivenSpares /\ pending' = {} /\ superseded' = superseded /\ acked' = acked
      /\ data' = [d \in Disk |-> data[d]]
  BY DEF Start, Settle
<1>2. data' = data  BY <1>1 DEF DataTypes
<1>3. /\ given \subseteq Disk /\ given \cap superseded = {} /\ best \subseteq given /\ uptodate \subseteq best
      /\ c \in Disk /\ c \in uptodate /\ sb[c].clean \in BOOLEAN
      /\ in = {d \in best : Accepts(d) /\ sb[d].whole} /\ rb = {d \in best : Accepts(d) /\ ~sb[d].whole}
      /\ \A d \in best : Accepts(d) <=> sb[d].events = sb[c].events \/ Behind(d, c)
      /\ \A d \in best : d \in sb[d].sees /\ sb[d].events <= sb[c].events
      /\ \A d \in given : d \in sb[d].sees => sb[d].events <= sb[c].events
      /\ \A f \in Disk : f \notin in => in = Rest(f) /\ sb[c].clean
      /\ \A y : \E z \in in : z # y
      /\ Cardinality(in) >= RaidDisks - 2
  BY StartIs, UnforcedIs
<1>4. /\ OrderInv /\ Known' = Known /\ Whole' = Whole /\ given \subseteq Known /\ Known \subseteq Disk
      /\ Whole \subseteq Known
      /\ in \subseteq Whole /\ rb \subseteq Known \ Whole /\ in \subseteq Disk
  BY <1>1, <1>3 DEF StaleInv, Known, Whole
<1>5. \A d \in Disk : sb[d].events \in Nat /\ (sb[d].whole => d \in sb[d].sees)  BY Fields
<1>6. \A e, S : Fits(e, S)' <=> Fits(e, S)  BY <1>1 DEF Fits, Behind
<1>7. \A d \in best : Accepts(d) => d \in in \/ d \in rb  BY <1>3
<1>8. c \in in \/ c \in rb  BY <1>3, <1>7
<1>9. GivenSpares \subseteq Known \ (in \cup rb) /\ \A d \in GivenSpares : d \notin sb[d].sees
  BY <1>3, <1>4, StartIs DEF GivenSpares
<1>10. DataTypes'  BY <1>1, <1>2, <1>3, <1>9, <1>4 DEF DataTypes
<1> HIDE DEF in, rb, c
<1>11. \A d \in in \cup rb : sb[d].events = sb[c].events \/ Behind(d, c)  BY <1>3
<1>12. c \in in => in \subseteq sb[c].sees /\ Fits(c, in)
  <2> SUFFICES ASSUME c \in in PROVE in \subseteq sb[c].sees /\ Fits(c, in)  OBVIOUS
  <2>1. Fits(c, in)  BY <1>11 DEF Fits
  <2>2. \A d \in in : sb[d].events = sb[c].events => d \in sb[c].sees
    BY <1>3, <1>4 DEF OrderInv, SameRecord
  <2> QED  BY <1>11, <2>1, <2>2 DEF Behind
<1>13. OrderInv'
  <2>1. StaleIsKnown'  BY <1>1, <1>2, <1>4 DEF OrderInv, StaleIsKnown
  <2>2. SameRecord'  BY <1>1, <1>4 DEF OrderInv, SameRecord
  <2>3. NewerIsSeen'  BY <1>1, <1>4, <1>6 DEF OrderInv, NewerIsSeen
  <2>4. GhostIsApart'  BY <1>1, <1>4, <1>6 DEF OrderInv, GhostIsApart
  <2> QED  BY <2>1, <2>2, <2>3, <2>4 DEF OrderInv
<1>14. \A x \in in : data[x] = acked
  <2> SUFFICES ASSUME NEW x \in in, data[x] # acked PROVE FALSE  OBVIOUS
  <2>1. x \in Whole /\ \A e \in Known \ {x} : sb[e].events > sb[x].events /\ x \notin sb[e].sees
    BY <1>4 DEF OrderInv, StaleIsKnown
  <2>2. CASE c # x
    <3>1. sb[c].events > sb[x].events /\ x \notin sb[c].sees  BY <1>3, <1>4, <2>1, <2>2
    <3>2. sb[x].events # sb[c].events  BY <1>3, <1>4, <1>5, <3>1
    <3> QED  BY <1>11, <3>1, <3>2 DEF Behind
  <2>3. CASE c = x
    <3>1. PICK z \in in : z # x  BY <1>3
    <3>2. sb[z].events > sb[c].events  BY <1>4, <2>1, <2>3, <3>1
    <3>3. sb[z].events <= sb[c].events  BY <1>3
    <3> QED  BY <1>3, <1>4, <1>5, <3>1, <3>2, <3>3
  <2> QED  BY <2>2, <2>3
<1>15. MemberInv'
  <2>1. \A d \in in \cup rb : sb[d].events <= sb[c].events  BY <1>3
  <2> QED  BY <1>1, <1>2, <1>3, <1>4, <1>9, <1>14, <2>1 DEF MemberInv
<1>16. ASSUME NEW f \in Whole, f \notin in PROVE sb[f].events < sb[c].events /\ sb[c].clean
  <2>1. f \in Disk /\ in = Rest(f) /\ sb[c].clean /\ sb[f].whole  BY <1>3, <1>4, <1>16 DEF Whole
  <2>2. c \in in  BY <1>4, <1>8, <1>16, <2>1 DEF Rest
  <2>3. Fits(c, Rest(f)) /\ Rest(f) \subseteq sb[c].sees  BY <1>12, <2>1, <2>2
  <2>4. f \notin uptodate => f \notin sb[c].sees  BY <2>1, <2>3, UnforcedIs DEF c
  <2>5. Whole = Disk  BY <1>4, <1>16, <2>1 DEF Rest
  <2>6. ~(sb[f].events > sb[c].events)
    <3> SUFFICES ASSUME sb[f].events > sb[c].events PROVE FALSE  OBVIOUS
    <3>1. f \in sb[c].sees  BY <1>4, <2>1, <2>2, <2>3, <2>5 DEF OrderInv, NewerIsSeen
    <3>2. f \in uptodate  BY <2>4, <3>1
    <3>3. sb[f].events <= sb[c].events  BY <1>3, <3>2
    <3> QED  BY <1>3, <1>5, <2>1, <3>3
  <2>7. sb[f].events # sb[c].events
    <3> SUFFICES ASSUME sb[f].events = sb[c].events PROVE FALSE  OBVIOUS
    <3>1. sb[f].sees = sb[c].sees  BY <1>4, <2>2 DEF OrderInv, SameRecord
    <3>2. f \in sb[c].sees  BY <1>5, <2>1, <3>1
    <3>3. f \in uptodate  BY <2>4, <3>2
    <3> QED  BY <1>3, <1>16, <2>1, <3>3
  <2> QED  BY <1>3, <1>5, <2>1, <2>6, <2>7
<1>17. LeftBehind'  BY <1>1, <1>4, <1>16 DEF LeftBehind
<1>18. rb = {} => c \in in  BY <1>8
<1>19. Whole = Disk => \A g \in in : (\A e \in in : sb[e].events <= sb[g].events) => in \subseteq sb[g].sees
  <2> SUFFICES ASSUME Whole = Disk, NEW g \in in, \A e \in in : sb[e].events <= sb[g].events
               PROVE  in \subseteq sb[g].sees
    OBVIOUS
  <2>1. c \in in  BY <1>4, <1>18
  <2>2. sb[g].events = sb[c].events  BY <1>3, <1>4, <1>5, <2>1
  <2>3. sb[g].sees = sb[c].sees  BY <1>4, <2>1, <2>2 DEF OrderInv, SameRecord
  <2> QED  BY <1>12, <2>1, <2>3
<1>20. ASSUME NEW x \in Known \ Whole, x \in sb[x].sees, NEW d \in in, Fits(d, in), x \notin sb[d].sees
       PROVE  /\ in = Rest(x) /\ sb[c].clean
              /\ sb[x].events # sb[d].events /\ sb[x].events <= sb[d].events + 1
  <2>1. x \in Disk /\ ~sb[x].whole /\ x \notin in  BY <1>4 DEF Whole
  <2>2. in = Rest(x) /\ sb[c].clean /\ \A e \in Rest(x) : sb[e].clean  BY <1>3, <2>1, UnforcedIs
  <2>3. Rest(x) \subseteq Whole /\ d \in Rest(x) /\ Fits(d, Rest(x))  BY <1>4, <1>20, <2>2
  <2> QED  BY <1>4, <1>20, <2>2, <2>3 DEF OrderInv, GhostIsApart
<1>21. ASSUME NEW x \in rb, NEW d \in in, Fits(d, in), x \notin sb[d].sees PROVE FALSE
  <2>1. x \in Known \ Whole /\ x \in best /\ x \in sb[x].sees /\ x \in Disk /\ d \in Disk
    BY <1>3, <1>4
  <2>2. in = Rest(x) /\ sb[x].events # sb[d].events /\ sb[x].events <= sb[d].events + 1
    BY <1>20, <1>21, <2>1
  <2>3. \A e \in in : sb[e].events <= sb[d].events
    BY <1>4, <1>5, <1>21, <2>1 DEF Fits, Behind
  <2>4. CASE c # x
    <3>1. c \in in  BY <1>3, <2>2, <2>4 DEF Rest
    <3>2. sb[d].events = sb[c].events  BY <1>3, <1>4, <1>5, <2>1, <2>3, <3>1
    <3>3. sb[d].sees = sb[c].sees  BY <1>4, <3>1, <3>2 DEF OrderInv, SameRecord
    <3> QED  BY <1>11, <1>21, <2>2, <3>2, <3>3 DEF Behind
  <2>5. CASE c = x
    <3>1. PICK m \in Disk : sb[m].events = sb[c].events /\ \A e \in best : e = m \/ m \in sb[e].sees
      BY UnforcedIs DEF c
    <3>2. sb[d].events < sb[c].events  BY <1>3, <1>5, <2>1, <2>2, <2>5
    <3>3. m = x
      <4> SUFFICES ASSUME m # x PROVE FALSE  OBVIOUS
      <4>1. sb[m].events <= sb[d].events  BY <2>2, <2>3 DEF Rest
      <4> QED  BY <1>3, <1>5, <2>1, <3>1, <3>2, <4>1
    <3>4. d # x /\ d \in best  BY <1>3, <1>4, <2>1
    <3> QED  BY <1>21, <3>1, <3>3, <3>4
  <2> QED  BY <2>4, <2>5
<1>22. ASSUME NEW x \in Known, x \notin Whole, x \notin rb, x \in sb[x].sees, in = Rest(x)
       PROVE  sb[c].clean /\ sb[x].events # sb[c].events /\ sb[x].events <= sb[c].events + 1
  <2>1. x \in Disk /\ x \notin in /\ ~sb[x].whole  BY <1>4, <1>22 DEF Whole
  <2>2. c \in in
    <3>1. c # x  BY <1>8, <1>22, <2>1
    <3> QED  BY <1>3, <1>22, <3>1 DEF Rest
  <2>3. Fits(c, in) /\ Rest(x) \subseteq sb[c].sees /\ sb[c].clean  BY <1>3, <1>12, <1>22, <2>1, <2>2
  <2>4. CASE x \in uptodate
    <3>1. x \in best /\ ~Accepts(x)  BY <1>3, <1>22, <2>1, <2>4
    <3> QED  BY <1>3, <1>5, <2>1, <2>3, <3>1
  <2>5. CASE x \notin uptodate
    <3>1. x \notin sb[c].sees  BY <2>1, <2>3, <2>5, UnforcedIs DEF c
    <3> QED  BY <1>20, <1>22, <2>2, <2>3, <3>1
  <2> QED  BY <2>4, <2>5
<1>23. TopsKnow'
  <2>1. dirty' /\ insync' # Disk => \A g \in insync' : ~sb'[g].clean
    BY <1>1, <1>3, <1>4 DEF c, in
  <2>2. rebuilding' = {} => \E g \in insync' : sb'[g].events = events'  BY <1>1, <1>18
  <2>3. \A x \in rebuilding' : \A d \in insync' : Fits(d, insync)' => x \in sb'[d].sees
    <3> SUFFICES ASSUME NEW x \in rb, NEW d \in in, Fits(d, in) PROVE x \in sb[d].sees
      BY <1>1 DEF Fits, Behind
    <3> QED  BY <1>21
  <2>4. \A x \in Known' \ (Whole' \cup rebuilding') : x \in sb'[x].sees /\ insync' = Rest(x) =>
            IF dirty' THEN sb'[x].events <= events'
                      ELSE sb'[x].events # events' /\ sb'[x].events <= events' + 1
    BY <1>1, <1>4, <1>22
  <2> QED  BY <1>1, <1>4, <1>19, <2>1, <2>2, <2>3, <2>4 DEF TopsKnow, Rest
<1> QED  BY <1>1, <1>10, <1>13, <1>15, <1>17, <1>23 DEF StaleInv

-----------------------------------------------------------------------------
(* The theorems about stale disks.                                          *)

\* The inductive invariant of event counts: a disk that missed a write is older than all
\* others and known to them to have failed, whenever the array is recorded; what is left out
\* of an array that runs is behind; after a forced assembly nothing else may be used.
THEOREM StaleInvariant == OneMayMiss /\ Spec => [](DataTypes /\ StaleInv /\ UnforcedInv)
<1> DEFINE Inv == OneMayMiss /\ DataTypes /\ StaleInv /\ UnforcedInv
<1>0. OneMayMiss => ByNumber  BY DEF OneMayMiss, ByNumber
<1>1. OneMayMiss /\ Init => DataTypes /\ StaleInv /\ UnforcedInv
  <2> SUFFICES ASSUME OneMayMiss, Init PROVE DataTypes /\ StaleInv /\ UnforcedInv  OBVIOUS
  <2>1. /\ sb = [d \in Disk |-> [events |-> 1, sees |-> Disk, clean |-> TRUE, whole |-> TRUE]]
        /\ data = [d \in Disk |-> 1] /\ acked = 1 /\ running = FALSE /\ spares = {} /\ pc = "idle"
        /\ pending = {} /\ superseded = {}
    BY DEF Init, Quiet
  <2>2. DataTypes /\ UnforcedInv  BY <2>1 DEF DataTypes, UnforcedInv
  <2>3. Whole = Disk /\ Known = Disk  BY <2>1 DEF Whole, Known
  <2>4. OrderInv
    <3>1. \A d \in Disk : data[d] = acked /\ sb[d].events = 1 /\ sb[d].sees = Disk  BY <2>1
    <3> QED
      BY <2>3, <3>1 DEF OrderInv, StaleIsKnown, SameRecord, NewerIsSeen, GhostIsApart, Rest
  <2> QED  BY <2>1, <2>2, <2>4 DEF StaleInv
<1>2. Inv /\ ArrayTypes /\ ForceInv /\ [Next]_vars => Inv'
  <2> SUFFICES ASSUME Inv, ArrayTypes, ForceInv, [Next]_vars
               PROVE  DataTypes' /\ StaleInv' /\ UnforcedInv'
    BY DEF OneMayMiss
  <2>1. CASE MarkDirty \/ MarkClean  BY <2>1, DriverKeepsOut
  <2>2. CASE Write  BY <2>2, WriteKeepsOut
  <2>3. CASE StopArray \/ Crash \/ NotStarted  BY <2>3, OffKeepsOut
  <2>4. CASE \E d \in Disk : Fail(d) \/ Rebuild(d) \/ Rebuilt(d)  BY <2>4, DriverKeepsOut
  <2>5. CASE \E d \in Disk : Add(d)  BY <2>5, AddKeepsOut
  <2>6. CASE ForceOne \/ ForceDone  BY <2>6, ForceKeepsOut
  <2>7. CASE Choose  BY <2>7, ChooseKeepsOut
  <2>8. CASE Start
    <3>1. force \in BOOLEAN  BY DEF ArrayTypes
    <3>2. DataTypes' /\ StaleInv'
      BY <2>8, <3>1, ForcedStartKeepsOut, UnforcedStartKeepsOut
    <3>3. UnforcedInv'
      <4>1. pc' = "idle"  BY <2>8 DEF Start, Reset
      <4> QED  BY <4>1 DEF UnforcedInv
    <3> QED  BY <3>2, <3>3
  <2>9. CASE \E disks \in SUBSET Disk \ {{}}, f \in BOOLEAN : Load(disks, f)  BY <2>9, LoadKeepsOut
  <2>10. CASE UNCHANGED vars
    <3>1. UNCHANGED <<sb, data, acked, running, events, insync, rebuilding, spares, dirty, pending, superseded,
                      pc, given, force, read, best, uptodate, avail, clean, chosen, needed>>
      BY <2>10 DEF vars, diskVars, kernelVars, mdadmVars
    <3>2. Known' = Known /\ Whole' = Whole  BY <3>1 DEF Known, Whole
    <3>3. \A c, S : Fits(c, S)' <=> Fits(c, S)  BY <3>1 DEF Fits, Behind
    <3>4. DataTypes'  BY <3>1 DEF DataTypes
    <3>5. UnforcedInv'
      <4>1. Active(read)' = Active(read) /\ MostRecent(read)' = MostRecent(read) /\ Top' = Top
        BY <3>1 DEF Active, MostRecent, Top
      <4> QED  BY <3>1, <4>1 DEF UnforcedInv
    <3>6. OrderInv => OrderInv'
      <4> SUFFICES ASSUME OrderInv PROVE OrderInv'  OBVIOUS
      <4>1. StaleIsKnown'  BY <3>1, <3>2 DEF OrderInv, StaleIsKnown
      <4>2. SameRecord'  BY <3>1, <3>2 DEF OrderInv, SameRecord
      <4>3. NewerIsSeen'  BY <3>1, <3>2, <3>3 DEF OrderInv, NewerIsSeen
      <4>4. GhostIsApart'  BY <3>1, <3>2, <3>3 DEF OrderInv, GhostIsApart
      <4> QED  BY <4>1, <4>2, <4>3, <4>4 DEF OrderInv
    <3>7. MemberInv => MemberInv'  BY <3>1, <3>2 DEF MemberInv
    <3>8. LeftBehind /\ TopsKnow => LeftBehind' /\ TopsKnow'
      BY <3>1, <3>2, <3>3 DEF LeftBehind, TopsKnow
    <3> QED  BY <3>1, <3>4, <3>5, <3>6, <3>7, <3>8 DEF StaleInv
  <2> QED  BY <2>1, <2>2, <2>3, <2>4, <2>5, <2>6, <2>7, <2>8, <2>9, <2>10 DEF Next, Mdadm
<1>3. OneMayMiss => []OneMayMiss
  <2>1. OneMayMiss => OneMayMiss'  BY DEF OneMayMiss
  <2> QED  BY <2>1, PTL
<1> QED  BY <1>0, <1>1, <1>2, ForceInvariant, PTL DEF Spec, Inv

\* The array never runs with a disk in sync that missed an acknowledged write or was not
\* rebuilt to its end: RAID0 or RAID5 with any number of disks from three, any failures and
\* additions, forced assemblies and crashes in between.
THEOREM NothingStaleAlways == OneMayMiss /\ Spec => []NothingStale
<1>1. StaleInv => NothingStale  BY DEF StaleInv, MemberInv, NothingStale
<1> QED  BY <1>1, StaleInvariant, PTL
=============================================================================
