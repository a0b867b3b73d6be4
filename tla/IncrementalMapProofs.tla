------------------------ MODULE IncrementalMapProofs ------------------------
(***************************************************************************)
(* The lock of the map file excludes, for any number of processes, arrays  *)
(* and disks, and whoever is killed: each owner unlinks the file that the  *)
(* others wait for. The disks of an array are all of its uuid, and the map *)
(* holds lines and nothing else, whatever is read, written or killed.      *)
(*                                                                         *)
(* By the map the disks of one array find each other, so that there are    *)
(* never two arrays of one uuid; and an array is started on disks none of  *)
(* which takes the newest for failed.                                      *)
(***************************************************************************)
EXTENDS IncrementalMap, FiniteSetTheorems, SequenceTheorems, WellFoundedInduction, TLAPS

\* Functions of the processes, as far as the lock depends on their type.
Places == {"idle", "lock", "flock", "close", "start", "done", "killed"} \cup Inside

LockTypes ==
    /\ lockfile \in Nat /\ inodes \in Nat
    /\ pc \in [Proc -> Places] /\ fd \in [Proc -> Nat] /\ locked \in [Proc -> BOOLEAN]
    /\ DOMAIN target = Proc
    /\ next \in [Proc -> Places \cup {None}]

\* Who waits for the lock does not have it, and has a file to wait for.
WaitsUnlocked ==
    \A p \in Proc : /\ pc[p] \in {"idle", "lock", "flock"} => ~locked[p]
                    /\ pc[p] = "flock" => fd[p] # 0

\* Only a process that is to take an array out of the map, or to put one in,
\* ever locks it.
ReadersPass ==
    \A p \in Proc :
       /\ ~Locks(p) => pc[p] \in {"idle", "read", "write", "rename", "done", "killed"}
       /\ p \in Other /\ pc[p] = "idle" => target[p] = None

\* Where a process goes on after it wrote the map.
GoesOn ==
    \A p \in Proc : pc[p] \in {"write", "rename"} =>
        next[p] \in IF Locks(p) THEN {"find", "count", "delete", "unlink"} ELSE {"done"}

\* The kernel's lock is on an inode.
OnePerInode == \A p, q \in Proc : locked[p] /\ locked[q] /\ fd[p] = fd[q] => p = q

\* The inode that is locked is still the one that the name stands for: nobody
\* but its owner unlinks it.
OwnerLinked == \A p \in Proc : Holds(p) => locked[p] /\ fd[p] = lockfile /\ lockfile # 0

LockInv == LockTypes /\ WaitsUnlocked /\ ReadersPass /\ GoesOn /\ OnePerInode /\ OwnerLinked

\* The invariant says that at most one process holds the map.
LEMMA InvExcludes == LockInv => LockExcludes
  BY DEF LockInv, OnePerInode, OwnerLinked, LockExcludes, Holds

\* No process holds the map at the start.
LEMMA InitLock == Init => LockInv
<1> SUFFICES ASSUME Init PROVE LockInv  OBVIOUS
<1> USE NoneAssumption, ProcAssumption
<1>1. LockTypes  BY DEF Init, LockTypes, Places
<1>2. \A p \in Proc : pc[p] = "idle" /\ ~locked[p]  BY DEF Init
<1>3. \A p \in Proc : target[p] = None  BY DEF Init
<1>4. QED  BY <1>1, <1>2, <1>3 DEF LockInv, WaitsUnlocked, ReadersPass, GoesOn, OnePerInode, OwnerLinked, Holds, Inside

\* What each step of map_lock and map_unlock does to the invariant.
LEMMA LockSteps ==
  ASSUME LockInv, NEW p \in Proc, OpenLock(p) \/ Flock(p) \/ UnlinkLock(p) \/ CloseLock(p)
  PROVE  LockInv'
<1> USE NoneAssumption, ProcAssumption DEF LockInv, Go, Release
<1>1. CASE OpenLock(p)
  <2>1. LockTypes' BY <1>1 DEF OpenLock, LockTypes, Places
  <2>2. (WaitsUnlocked /\ ReadersPass /\ GoesOn)' BY <1>1 DEF OpenLock, LockTypes, WaitsUnlocked, ReadersPass, GoesOn, Locks, Places
  <2>3. OnePerInode' BY <1>1 DEF OpenLock, LockTypes, WaitsUnlocked, OnePerInode
  <2>4. OwnerLinked' BY <1>1 DEF OpenLock, LockTypes, OwnerLinked, Holds, Locks, Inside
  <2> QED BY <2>1, <2>2, <2>3, <2>4
<1>2. CASE Flock(p)
  <2>1. LockTypes'
    <3>1. CASE Linked(p)  BY <1>2, <3>1 DEF Flock, fileVars, LockTypes, Places, Inside
    <3>2. CASE ~Linked(p)  BY <1>2, <3>2 DEF Flock, fileVars, LockTypes, Places, Inside
    <3> QED  BY <3>1, <3>2
  <2>2. (WaitsUnlocked /\ ReadersPass /\ GoesOn)' BY <1>2 DEF Flock, fileVars, LockTypes, WaitsUnlocked, ReadersPass, GoesOn, Locks, Places, Inside
  <2>3. OnePerInode' BY <1>2 DEF Flock, fileVars, LockTypes, WaitsUnlocked, OnePerInode
  <2>4. OwnerLinked' BY <1>2 DEF Flock, Linked, fileVars, LockTypes, WaitsUnlocked, OwnerLinked, Holds, Locks, Inside, Places
  <2> QED BY <2>1, <2>2, <2>3, <2>4
<1>3. CASE UnlinkLock(p)
  BY <1>3 DEF UnlinkLock, LockTypes, WaitsUnlocked, ReadersPass, GoesOn, OnePerInode, OwnerLinked, Holds, Locks, Inside, Places
<1>4. CASE CloseLock(p)
  BY <1>4 DEF CloseLock, fileVars, LockTypes, WaitsUnlocked, ReadersPass, GoesOn, OnePerInode, OwnerLinked, Holds, Locks, Inside, Places
<1> QED BY <1>1, <1>2, <1>3, <1>4

\* What each other step of a process does to it.
LEMMA InsideSteps ==
  ASSUME LockInv, NEW p \in Proc,
         \/ ReadMap(p) \/ WriteNew(p) \/ RenameNew(p)
         \/ p \in Device /\ (MakeArray(p) \/ JoinArray(p) \/ GiveUp(p) \/ Count(p) \/ Start(p))
         \/ p \in Other /\ DeleteEntry(p)
  PROVE  LockInv'
<1> USE NoneAssumption, ProcAssumption, MdAssumption
        DEF LockInv, Go, LockTypes, WaitsUnlocked, ReadersPass, GoesOn, OnePerInode, OwnerLinked, Holds, Locks, Inside, Places, fileVars
<1>1. CASE ReadMap(p)
  <2>1. AfterRead(p) \in IF Locks(p) THEN {"find", "delete"} ELSE {"done"}
    BY DEF AfterRead, Proc
  <2>2. CASE map # None  BY <1>1, <2>1, <2>2 DEF ReadMap
  <2>3. CASE map = None
    <3>1. /\ pc[p] = "read" /\ pc' = [pc EXCEPT ![p] = "write"]
          /\ next' = [next EXCEPT ![p] = AfterRead(p)]
          /\ UNCHANGED <<target, fd, locked, lockfile, inodes>>
      BY <1>1, <2>3 DEF ReadMap
    <3> QED  BY <2>1, <3>1
  <2> QED  BY <2>2, <2>3
<1>2. CASE WriteNew(p)
  BY <1>2 DEF WriteNew
<1>3. CASE RenameNew(p)
  BY <1>3 DEF RenameNew
<1>4. CASE p \in Device /\ MakeArray(p)
  <2>1. \/ \E n \in Md : /\ pc[p] = "find" /\ pc' = [pc EXCEPT ![p] = "write"]
                          /\ target' = [target EXCEPT ![p] = n]
                          /\ next' = [next EXCEPT ![p] = "count"]
                          /\ UNCHANGED <<fd, locked, lockfile, inodes>>
        \/ /\ pc[p] = "find" /\ pc' = [pc EXCEPT ![p] = "unlink"]
           /\ UNCHANGED <<next, target, fd, locked, lockfile, inodes>>
    BY <1>4 DEF MakeArray
  <2> QED  BY <1>4, <2>1
<1>5. CASE p \in Device /\ JoinArray(p)
  <2>1. /\ pc[p] = "find" /\ pc' \in {[pc EXCEPT ![p] = "count"], [pc EXCEPT ![p] = "unlink"]}
        /\ DOMAIN target' = Proc /\ \A q \in Proc \ {p} : target'[q] = target[q]
        /\ UNCHANGED <<next, fd, locked, lockfile, inodes>>
    BY <1>5 DEF JoinArray
  <2> QED  BY <1>5, <2>1
<1>6. CASE GiveUp(p)
  BY <1>6 DEF GiveUp
<1>7. CASE Count(p)
  BY <1>7 DEF Count
<1>8. CASE Start(p)
  BY <1>8 DEF Start
<1>9. CASE DeleteEntry(p)
  BY <1>9 DEF DeleteEntry
<1> QED  BY <1>1, <1>2, <1>3, <1>4, <1>5, <1>6, <1>7, <1>8, <1>9

\* What the world around does to it.
LEMMA OtherSteps ==
  ASSUME LockInv,
         \/ \E p \in Proc : Kill(p)
         \/ \E d \in Device : Appear(d)
         \/ \E s \in Other, n \in Md : StopArray(s, n)
         \/ \E s \in Other : ReadUnlocked(s)
         \/ \E n \in Md : LastResort(n)
         \/ UNCHANGED vars
  PROVE  LockInv'
<1> USE NoneAssumption, ProcAssumption, MdAssumption
        DEF LockInv, Go, LockTypes, WaitsUnlocked, ReadersPass, GoesOn, OnePerInode, OwnerLinked,
            Holds, Locks, Inside, Places, fileVars, Proc
<1>1. ASSUME NEW p \in Proc, Kill(p) PROVE LockInv'  BY <1>1 DEF Kill, Release
<1>2. ASSUME NEW d \in Device, Appear(d) PROVE LockInv'  BY <1>2 DEF Appear
<1>3. ASSUME NEW s \in Other, NEW n \in Md, StopArray(s, n) PROVE LockInv'  BY <1>3 DEF StopArray
<1>4. ASSUME NEW s \in Other, ReadUnlocked(s) PROVE LockInv'  BY <1>4 DEF ReadUnlocked
<1>5. ASSUME NEW n \in Md, LastResort(n) PROVE LockInv'  BY <1>5 DEF LastResort, procVars
<1>6. CASE UNCHANGED vars  BY <1>6 DEF vars, procVars
<1> QED  BY <1>1, <1>2, <1>3, <1>4, <1>5, <1>6

\* The inductive invariant of the lock.
THEOREM LockInvariant == Spec => []LockInv
<1>1. Init => LockInv  BY InitLock
<1>2. LockInv /\ [Next]_vars => LockInv'
  <2> SUFFICES ASSUME LockInv, [Next]_vars PROVE LockInv'  OBVIOUS
  <2>1. ASSUME NEW p \in Proc, Step(p) PROVE LockInv'
    BY <2>1, LockSteps, InsideSteps DEF Step
  <2> QED  BY <2>1, OtherSteps DEF Next
<1> QED  BY <1>1, <1>2, PTL DEF Spec

\* However many processes udev starts, and whoever is killed: two never hold
\* the map (mapfile.c, map_lock).
THEOREM MapLockExcludes == Spec => []LockExcludes
<1>1. LockInv => LockExcludes  BY InvExcludes
<1> QED  BY <1>1, LockInvariant, PTL

-----------------------------------------------------------------------------
(* Finite sets of numbers, and what map_read and map_by_uuid make of them. *)

\* The elements of a finite set of numbers can be counted from the least: each
\* has a rank of its own, and each rank an element.
LEMMA Ranks ==
  ASSUME NEW I \in SUBSET Nat, IsFiniteSet(I)
  PROVE  /\ Cardinality(I) \in Nat
         /\ \A j \in I : Cardinality({k \in I : k <= j}) \in 1..Cardinality(I)
         /\ \A j, l \in I : Cardinality({k \in I : k <= j}) = Cardinality({k \in I : k <= l}) => j = l
         /\ \A i \in 1..Cardinality(I) : \E j \in I : Cardinality({k \in I : k <= j}) = i
<1> DEFINE Upto(j) == {k \in I : k <= j}
           n == Cardinality(I)
           rank == [j \in I |-> Cardinality(Upto(j))]
<1>1. n \in Nat  BY FS_CardinalityType
<1>2. ASSUME NEW j \in I
      PROVE  IsFiniteSet(Upto(j)) /\ Cardinality(Upto(j)) \in 1..n
  <2>1. Upto(j) \in SUBSET I /\ j \in Upto(j)  OBVIOUS
  <2>2. IsFiniteSet(Upto(j)) /\ Cardinality(Upto(j)) <= n  BY <2>1, FS_Subset
  <2>3. Cardinality(Upto(j)) \in Nat /\ Cardinality(Upto(j)) # 0
    BY <2>1, <2>2, FS_CardinalityType, FS_EmptySet
  <2> QED  BY <1>1, <2>2, <2>3
<1>3. ASSUME NEW j \in I, NEW l \in I, j < l
      PROVE  Cardinality(Upto(j)) # Cardinality(Upto(l))
  <2>1. j \in Nat /\ l \in Nat /\ l <= l /\ ~(l <= j) /\ \A k \in Nat : k <= j => k <= l  BY <1>3
  <2>2. Upto(j) \in SUBSET Upto(l)  BY <2>1
  <2>3. l \in Upto(l) /\ l \notin Upto(j)  BY <2>1
  <2> QED  BY <1>2, <2>2, <2>3, FS_Subset
<1>4. rank \in Injection(I, 1..n)
  <2>1. rank \in [I -> 1..n]  BY <1>2
  <2>2. ASSUME NEW j \in I, NEW l \in I, rank[j] = rank[l] PROVE j = l
    <3>1. Cardinality(Upto(j)) = Cardinality(Upto(l))  BY <2>2
    <3> HIDE DEF Upto
    <3>2. j \in Nat /\ l \in Nat  OBVIOUS
    <3>3. ~(j < l) /\ ~(l < j)  BY <1>3, <3>1
    <3> QED  BY <3>2, <3>3
  <2> QED  BY <2>1, <2>2 DEF Injection, IsInjective
<1>5. IsFiniteSet(1..n) /\ Cardinality(1..n) = n  BY <1>1, FS_Interval
<1>6. rank \in Surjection(I, 1..n)  BY <1>4, <1>5, FS_Injection
<1>7. \A i \in 1..n : \E j \in I : rank[j] = i  BY <1>6 DEF Surjection
<1>8. \A j \in I : rank[j] = Cardinality(Upto(j))  OBVIOUS
<1>9. \A j, l \in I : Cardinality(Upto(j)) = Cardinality(Upto(l)) => j = l
  BY <1>4, <1>8 DEF Injection, IsInjective
<1> QED  BY <1>1, <1>2, <1>7, <1>8, <1>9

\* The greatest is the one with the highest rank.
LEMMA Greatest ==
  ASSUME NEW I \in SUBSET Nat, IsFiniteSet(I), I # {}
  PROVE  \E m \in I : \A k \in I : k <= m
<1>1. Cardinality(I) \in Nat /\ Cardinality(I) # 0  BY FS_CardinalityType, FS_EmptySet
<1>2. PICK m \in I : Cardinality({k \in I : k <= m}) = Cardinality(I)  BY <1>1, Ranks
<1>3. {k \in I : k <= m} = I  BY <1>2, FS_Subset
<1> QED  BY <1>3

\* What a list of lines or disks keeps is what it was told to keep.
LEMMA KeepsAll ==
  ASSUME NEW S, NEW s \in Seq(S), NEW I \in SUBSET DOMAIN s
  PROVE  /\ Kept(s, I) \in Seq(S)
         /\ \A i \in DOMAIN Kept(s, I) : \E j \in I : Kept(s, I)[i] = s[j]
         /\ \A j \in I : \E i \in DOMAIN Kept(s, I) : Kept(s, I)[i] = s[j]
<1> DEFINE n == Cardinality(I)
           rank(j) == Cardinality({k \in I : k <= j})
<1>1. /\ DOMAIN s = 1..Len(s) /\ Len(s) \in Nat /\ IsFiniteSet(1..Len(s))
      /\ \A j \in DOMAIN s : s[j] \in S
  BY FS_Interval
<1>2. I \in SUBSET Nat /\ IsFiniteSet(I)  BY <1>1, FS_Subset
<1>3. /\ n \in Nat
      /\ \A j \in I : rank(j) \in 1..n
      /\ \A j, l \in I : rank(j) = rank(l) => j = l
      /\ \A i \in 1..n : \E j \in I : rank(j) = i
  BY <1>2, Ranks
<1> HIDE DEF n
<1>4. Kept(s, I) = [i \in 1..n |-> s[CHOOSE j \in I : rank(j) = i]]  BY DEF Kept, n
<1> HIDE DEF rank
<1>5. \A i \in 1..n : (CHOOSE j \in I : rank(j) = i) \in I /\ rank(CHOOSE j \in I : rank(j) = i) = i
  BY <1>3
<1>6. \A j \in I : Kept(s, I)[rank(j)] = s[j]
  <2> SUFFICES ASSUME NEW j \in I PROVE Kept(s, I)[rank(j)] = s[j]  OBVIOUS
  <2>1. rank(j) \in 1..n  BY <1>3
  <2>2. Kept(s, I)[rank(j)] = s[CHOOSE l \in I : rank(l) = rank(j)]  BY <1>4, <2>1
  <2>3. (CHOOSE l \in I : rank(l) = rank(j)) = j  BY <1>3, <1>5, <2>1
  <2> QED  BY <2>2, <2>3
<1>7. Kept(s, I) \in Seq(S)
  <2>1. \A i \in 1..n : s[CHOOSE j \in I : rank(j) = i] \in S  BY <1>1, <1>5
  <2> QED  BY <1>3, <1>4, <2>1, IsASeq
<1>8. DOMAIN Kept(s, I) = 1..n  BY <1>4
<1>9. \A i \in 1..n : Kept(s, I)[i] = s[CHOOSE j \in I : rank(j) = i]  BY <1>4
<1>10. \A i \in DOMAIN Kept(s, I) : \E j \in I : Kept(s, I)[i] = s[j]  BY <1>5, <1>8, <1>9
<1>11. \A j \in I : \E i \in DOMAIN Kept(s, I) : Kept(s, I)[i] = s[j]  BY <1>3, <1>6, <1>8
<1> QED  BY <1>7, <1>10, <1>11

\* A map that is made from a finite set has a line for each element.
LEMMA ListsAll ==
  ASSUME NEW S, IsFiniteSet(S)
  PROVE  /\ SetToSeq(S) \in Seq(S)
         /\ \A x \in S : \E i \in DOMAIN SetToSeq(S) : SetToSeq(S)[i] = x
<1> DEFINE n == Cardinality(S)
           f == SetToSeq(S)
<1>1. n \in Nat /\ ExistsBijection(1..n, S)  BY FS_CardinalityType
<1>2. IsFiniteSet(1..n) /\ Cardinality(1..n) = n  BY <1>1, FS_Interval
<1>3. \E g \in [1..n -> S] : IsInjective(g)  BY <1>1 DEF ExistsBijection, Bijection, Injection
<1>4. f \in [1..n -> S] /\ IsInjective(f)  BY <1>3 DEF SetToSeq
<1>5. f \in Injection(1..n, S)  BY <1>4 DEF Injection
<1>6. f \in Surjection(1..n, S)  BY <1>2, <1>5, FS_Injection
<1>7. \A x \in S : \E i \in 1..n : f[i] = x  BY <1>6 DEF Surjection
<1>8. f \in Seq(S)  BY <1>1, <1>4, SeqDef
<1> QED  BY <1>4, <1>7, <1>8

-----------------------------------------------------------------------------
(* Arrays and lines.                                                        *)

Line  == [md : Md, uuid : {b[d].uuid : b \in Boots, d \in Device}]
Array == [disks : Seq(Device), active : BOOLEAN]

\* The disks of an array are all of its uuid, and nothing else is in a map file.
MapTypes ==
    /\ sb \in Boots
    /\ md \in [Md -> Array \cup {None}]
    /\ \A n \in Md : Busy(n) => /\ md[n].disks # <<>>
                                /\ \A i \in DOMAIN md[n].disks : sb[md[n].disks[i]].uuid = Uuid(n)
    /\ map = None \/ map \in Seq(Line)
    /\ new = None \/ new \in Seq(Line)
    /\ view \in [Proc -> Seq(Line)]
    /\ target \in [Proc -> Md \cup {None}]
    /\ DOMAIN drop = Proc

\* No array is made, and none changes its uuid.
ArraysStay == \A n \in Md : Busy(n)' => Busy(n) /\ Uuid(n)' = Uuid(n)

\* Of the disks of a list some is the newest.
LEMMA SomeNewest ==
  ASSUME sb \in Boots, NEW disks \in Seq(Device), disks # <<>>
  PROVE  /\ \A i \in DOMAIN disks : disks[i] \in Device /\ sb[disks[i]].events \in Nat
         /\ \E i \in DOMAIN disks : \A j \in DOMAIN disks : sb[disks[j]].events <= sb[disks[i]].events
<1> DEFINE at(i) == sb[disks[i]].events
           S == {at(i) : i \in DOMAIN disks}
<1>1. /\ DOMAIN disks = 1..Len(disks) /\ Len(disks) \in Nat /\ Len(disks) # 0
      /\ \A i \in DOMAIN disks : disks[i] \in Device
  BY EmptySeq
<1>2. \A d \in Device : sb[d].events \in Nat  BY BootsAssumption
<1>3. \A i \in DOMAIN disks : at(i) \in Nat  BY <1>1, <1>2
<1>4. S \in SUBSET Nat /\ S # {}
  <2>1. 1 \in DOMAIN disks  BY <1>1
  <2> QED  BY <1>3, <2>1
<1>5. IsFiniteSet(S)
  <2>1. IsFiniteSet(DOMAIN disks)  BY <1>1, FS_Interval
  <2>2. [i \in DOMAIN disks |-> at(i)] \in Surjection(DOMAIN disks, S)  BY DEF Surjection
  <2> QED  BY <2>1, <2>2, FS_Surjection
<1>6. PICK m \in S : \A k \in S : k <= m  BY <1>4, <1>5, Greatest
<1> QED  BY <1>1, <1>3, <1>6

\* The driver takes some of the disks it is given.
LEMMA FreshIsSome ==
  ASSUME sb \in Boots, NEW disks \in Seq(Device), disks # <<>>
  PROVE  /\ Fresh(disks) \in Seq(Device) /\ Fresh(disks) # <<>>
         /\ \A i \in DOMAIN Fresh(disks) : \E j \in DOMAIN disks :
                /\ Fresh(disks)[i] = disks[j]
                /\ \A e \in ToSet(disks) : sb[disks[j]].events + 1 >= sb[e].events
         /\ \A j \in DOMAIN disks : (\A e \in ToSet(disks) : sb[disks[j]].events + 1 >= sb[e].events)
                => \E i \in DOMAIN Fresh(disks) : Fresh(disks)[i] = disks[j]
<1> DEFINE recent(j) == \A e \in ToSet(disks) : sb[disks[j]].events + 1 >= sb[e].events
           I == {j \in DOMAIN disks : recent(j)}
<1>1. Fresh(disks) = Kept(disks, I)  BY DEF Fresh
<1>2. I \in SUBSET DOMAIN disks  OBVIOUS
<1>3. /\ Fresh(disks) \in Seq(Device)
      /\ \A i \in DOMAIN Fresh(disks) : \E j \in I : Fresh(disks)[i] = disks[j]
      /\ \A j \in I : \E i \in DOMAIN Fresh(disks) : Fresh(disks)[i] = disks[j]
  <2> HIDE DEF I
  <2> QED  BY <1>1, <1>2, KeepsAll
<1>4. PICK k \in DOMAIN disks : \A j \in DOMAIN disks : sb[disks[j]].events <= sb[disks[k]].events
  BY SomeNewest
<1>5. k \in I
  <2> SUFFICES ASSUME NEW j \in DOMAIN disks PROVE sb[disks[k]].events + 1 >= sb[disks[j]].events
    BY DEF ToSet
  <2>1. sb[disks[j]].events \in Nat /\ sb[disks[k]].events \in Nat  BY SomeNewest
  <2> QED  BY <1>4, <2>1
<1>6. Fresh(disks) # <<>>
  <2>1. DOMAIN Fresh(disks) # {}  BY <1>3, <1>5
  <2> QED  BY <2>1, EmptySeq
<1> QED  BY <1>3, <1>6

\* RUN_ARRAY makes no array, and leaves one its uuid.
LEMMA RunTypes ==
  ASSUME MapTypes, sb' = sb, NEW n \in Md, Busy(n), NEW disks \in Seq(Device),
         \A i \in DOMAIN disks : sb[disks[i]].uuid = Uuid(n), Run(n, disks)
  PROVE  /\ md' \in [Md -> Array \cup {None}] /\ ArraysStay
         /\ \A m \in Md : Busy(m)' => /\ md'[m].disks # <<>>
                                      /\ \A i \in DOMAIN md'[m].disks : sb[md'[m].disks[i]].uuid = Uuid(m)'
<1>1. sb \in Boots /\ md \in [Md -> Array \cup {None}]  BY DEF MapTypes
<1>2. \A m \in Md \ {n} : md'[m] = md[m]  BY <1>1 DEF Run
<1>3. md' = [md EXCEPT ![n] = md'[n]]  BY <1>1 DEF Run
<1>4. ASSUME md'[n] # None
      PROVE  /\ md'[n] \in Array /\ md'[n].disks # <<>>
             /\ \A i \in DOMAIN md'[n].disks : sb[md'[n].disks[i]].uuid = Uuid(n)
  <2>1. CASE disks = <<>>
    <3>1. md'[n] = None  BY <1>1, <2>1 DEF Run
    <3> QED  BY <1>4, <3>1
  <2>2. CASE disks # <<>>
    <3>1. Fresh(disks) \in Seq(Device) /\ Fresh(disks) # <<>>
          /\ \A i \in DOMAIN Fresh(disks) : sb[Fresh(disks)[i]].uuid = Uuid(n)
      BY <1>1, <2>2, FreshIsSome
    <3>2. \/ md'[n] = [disks |-> Fresh(disks), active |-> TRUE]
          \/ md'[n] = [disks |-> disks, active |-> FALSE]
      BY <1>1, <2>2 DEF Run
    <3>3. CASE md'[n] = [disks |-> Fresh(disks), active |-> TRUE]
      <4>1. md'[n].disks = Fresh(disks) /\ md'[n] \in Array  BY <3>1, <3>3 DEF Array
      <4> QED  BY <3>1, <4>1
    <3>4. CASE md'[n] = [disks |-> disks, active |-> FALSE]
      <4>1. md'[n].disks = disks /\ md'[n] \in Array  BY <3>4 DEF Array
      <4> QED  BY <2>2, <4>1
    <3> QED  BY <3>2, <3>3, <3>4
  <2> QED  BY <2>1, <2>2
<1>5. ASSUME md'[n] # None PROVE Uuid(n)' = Uuid(n)
  <2>1. 1 \in DOMAIN md'[n].disks
    <3>1. md'[n].disks \in Seq(Device) /\ md'[n].disks # <<>>  BY <1>4, <1>5 DEF Array
    <3> QED  BY <3>1, EmptySeq
  <2> QED  BY <1>4, <1>5, <2>1 DEF Uuid
<1>6. \A m \in Md \ {n} : (Busy(m)' <=> Busy(m)) /\ Uuid(m)' = Uuid(m)  BY <1>2 DEF Busy, Uuid
<1>7. ArraysStay  BY <1>5, <1>6 DEF ArraysStay, Busy
<1>8. md' \in [Md -> Array \cup {None}]  BY <1>1, <1>3, <1>4
<1> QED  BY <1>2, <1>4, <1>5, <1>6, <1>7, <1>8 DEF MapTypes, Busy

\* A step that touches no array.
LEMMA TypesLeft ==
  ASSUME MapTypes, UNCHANGED <<sb, md>>, map' = None \/ map' \in Seq(Line),
         new' = None \/ new' \in Seq(Line), view' \in [Proc -> Seq(Line)],
         target' \in [Proc -> Md \cup {None}], DOMAIN drop' = Proc
  PROVE  MapTypes' /\ ArraysStay
<1>1. \A n \in Md : (Busy(n)' <=> Busy(n)) /\ Uuid(n)' = Uuid(n)  BY DEF Busy, Uuid
<1> QED  BY <1>1 DEF MapTypes, ArraysStay

\* What a process does with the map that it has read, and without it.
LEMMA LocalTypes ==
  ASSUME MapTypes, NEW p \in Proc,
         \/ OpenLock(p) \/ Flock(p) \/ UnlinkLock(p) \/ CloseLock(p) \/ Kill(p)
         \/ Appear(p) \/ GiveUp(p) \/ Count(p) \/ ReadUnlocked(p)
  PROVE  MapTypes' /\ ArraysStay
<1> USE DEF fileVars, Release
<1>0. /\ map = None \/ map \in Seq(Line)
      /\ new = None \/ new \in Seq(Line)
      /\ view \in [Proc -> Seq(Line)] /\ <<>> \in Seq(Line)
      /\ target \in [Proc -> Md \cup {None}] /\ DOMAIN drop = Proc
  BY EmptySeq DEF MapTypes
<1>1. CASE OpenLock(p)  BY <1>0, <1>1, TypesLeft DEF OpenLock
<1>2. CASE Flock(p)  BY <1>0, <1>2, TypesLeft DEF Flock
<1>3. CASE UnlinkLock(p)  BY <1>0, <1>3, TypesLeft DEF UnlinkLock
<1>4. CASE CloseLock(p)
  <2>1. target' \in [Proc -> Md \cup {None}] /\ view' \in [Proc -> Seq(Line)]
    BY <1>0, <1>4 DEF CloseLock
  <2> QED  BY <1>0, <1>4, <2>1, TypesLeft DEF CloseLock
<1>5. CASE Kill(p)
  <2>1. target' \in [Proc -> Md \cup {None}] /\ view' \in [Proc -> Seq(Line)] /\ DOMAIN drop' = Proc
    BY <1>0, <1>5 DEF Kill
  <2> QED  BY <1>0, <1>5, <2>1, TypesLeft DEF Kill
<1>6. CASE Appear(p)  BY <1>0, <1>6, TypesLeft DEF Appear
<1>7. CASE GiveUp(p)  BY <1>0, <1>7, TypesLeft DEF GiveUp
<1>8. CASE Count(p)
  <2>1. DOMAIN drop' = Proc  BY <1>0, <1>8 DEF Count
  <2> QED  BY <1>0, <1>8, <2>1, TypesLeft DEF Count
<1>9. CASE ReadUnlocked(p)  BY <1>0, <1>9, TypesLeft DEF ReadUnlocked
<1> QED  BY <1>1, <1>2, <1>3, <1>4, <1>5, <1>6, <1>7, <1>8, <1>9

\* What a map that is rebuilt is made of.
LEMMA FoundLines ==
  ASSUME MapTypes
  PROVE  /\ SetToSeq(Found) \in Seq(Line)
         /\ \A n \in Md : Busy(n) => \E i \in DOMAIN SetToSeq(Found) :
                SetToSeq(Found)[i] = [md |-> n, uuid |-> Uuid(n)]
<1> DEFINE line(n) == [md |-> n, uuid |-> Uuid(n)]
           B == {m \in Md : Busy(m)}
<1>1. IsFiniteSet(B)  BY MdAssumption, FS_Subset
<1>2. IsFiniteSet(Found)
  <2>1. [n \in B |-> line(n)] \in Surjection(B, Found)  BY DEF Surjection, Found
  <2> QED  BY <1>1, <2>1, FS_Surjection
<1>3. Found \in SUBSET Line
  <2> SUFFICES ASSUME NEW n \in Md, Busy(n) PROVE line(n) \in Line  BY DEF Found
  <2>1. md[n].disks \in Seq(Device) /\ md[n].disks # <<>> /\ sb \in Boots
    BY DEF MapTypes, Array, Busy
  <2>2. md[n].disks[1] \in Device  BY <2>1, EmptySeq
  <2> QED  BY <2>1, <2>2 DEF Line, Uuid
<1>4. /\ SetToSeq(Found) \in Seq(Found)
      /\ \A x \in Found : \E i \in DOMAIN SetToSeq(Found) : SetToSeq(Found)[i] = x
  BY <1>2, ListsAll
<1>5. SetToSeq(Found) \in Seq(Line)  BY <1>3, <1>4, SeqMonotonic
<1>6. \A n \in Md : Busy(n) => line(n) \in Found  BY DEF Found
<1> QED  BY <1>4, <1>5, <1>6

\* What is left of a longer map.new comes after the lines that are written.
LEMMA OverBegins ==
  ASSUME NEW lines \in Seq(Line), NEW old, old = None \/ old \in Seq(Line)
  PROVE  /\ Over(lines, old) \in Seq(Line)
         /\ \A i \in DOMAIN lines : i \in DOMAIN Over(lines, old) /\ Over(lines, old)[i] = lines[i]
<1>1. CASE old = None \/ Len(old) <= Len(lines)  BY <1>1 DEF Over
<1>2. CASE ~(old = None \/ Len(old) <= Len(lines))
  <2> DEFINE tail == SubSeq(old, Len(lines) + 1, Len(old))
  <2>1. Over(lines, old) = lines \o tail /\ old \in Seq(Line)  BY <1>2 DEF Over
  <2>2. Len(lines) \in Nat /\ Len(old) \in Nat /\ Len(old) > Len(lines)  BY <1>2, <2>1
  <2>3. tail \in Seq(Line)  BY <2>1, <2>2, SubSeqProperties
  <2> HIDE DEF tail
  <2>4. /\ lines \o tail \in Seq(Line)
        /\ \A i \in DOMAIN lines : i \in DOMAIN (lines \o tail) /\ (lines \o tail)[i] = lines[i]
    BY <2>2, <2>3, ConcatProperties
  <2> QED  BY <2>1, <2>4
<1> QED  BY <1>1, <1>2

\* map_add and map_update.
LEMMA UpdatedHas ==
  ASSUME NEW lines \in Seq(Line), NEW n \in Md, NEW u, [md |-> n, uuid |-> u] \in Line
  PROVE  /\ Updated(lines, n, u) \in Seq(Line)
         /\ \E i \in DOMAIN Updated(lines, n, u) : Updated(lines, n, u)[i] = [md |-> n, uuid |-> u]
         /\ \A j \in DOMAIN lines : lines[j].md # n =>
                \E i \in DOMAIN Updated(lines, n, u) : Updated(lines, n, u)[i] = lines[j]
<1> DEFINE l == [md |-> n, uuid |-> u]
           r == Updated(lines, n, u)
<1>1. Len(lines) \in Nat /\ DOMAIN lines = 1..Len(lines) /\ \A j \in DOMAIN lines : lines[j] \in Line
  OBVIOUS
<1>2. CASE \E i \in DOMAIN lines : lines[i].md = n
  <2>1. r = [i \in DOMAIN lines |-> IF lines[i].md = n THEN l ELSE lines[i]]  BY <1>2 DEF Updated
  <2> HIDE DEF r, l
  <2>2. DOMAIN r = 1..Len(lines) /\ \A i \in 1..Len(lines) : r[i] = IF lines[i].md = n THEN l ELSE lines[i]
    BY <1>1, <2>1
  <2>3. l \in Line  BY DEF l
  <2>4. r = [i \in 1..Len(lines) |-> r[i]]  BY <1>1, <2>1
  <2>5. r \in Seq(Line)  BY <1>1, <2>2, <2>3, <2>4, IsASeq
  <2>6. \E i \in DOMAIN r : r[i] = l  BY <1>1, <1>2, <2>2
  <2>7. \A j \in DOMAIN lines : lines[j].md # n => \E i \in DOMAIN r : r[i] = lines[j]  BY <1>1, <2>2
  <2> QED  BY <2>5, <2>6, <2>7 DEF r, l
<1>3. CASE ~\E i \in DOMAIN lines : lines[i].md = n
  <2>1. r = <<l>> \o lines  BY <1>3 DEF Updated
  <2> HIDE DEF r, l
  <2>2. <<l>> \in Seq(Line) /\ Len(<<l>>) = 1 /\ <<l>>[1] = l  BY DEF l
  <2>3. /\ r \in Seq(Line) /\ Len(r) = 1 + Len(lines)
        /\ \A i \in 1..Len(r) : r[i] = IF i <= 1 THEN <<l>>[i] ELSE lines[i - 1]
    BY <2>1, <2>2, ConcatProperties
  <2>4. DOMAIN r = 1..Len(r)  BY <2>3
  <2>5. 1 \in DOMAIN r /\ r[1] = l  BY <1>1, <2>2, <2>3, <2>4
  <2>6. ASSUME NEW j \in DOMAIN lines PROVE j + 1 \in DOMAIN r /\ r[j + 1] = lines[j]
    BY <1>1, <2>3, <2>4
  <2> QED  BY <2>3, <2>5, <2>6 DEF r, l
<1> QED  BY <1>2, <1>3

\* The lines of map_read, map_write and map_remove.
LEMMA FileTypes ==
  ASSUME MapTypes, NEW p \in Proc, ReadMap(p) \/ WriteNew(p) \/ RenameNew(p) \/ DeleteEntry(p)
  PROVE  MapTypes' /\ ArraysStay
<1> USE DEF fileVars
<1>0. /\ map = None \/ map \in Seq(Line)
      /\ new = None \/ new \in Seq(Line)
      /\ view \in [Proc -> Seq(Line)] /\ view[p] \in Seq(Line)
      /\ target \in [Proc -> Md \cup {None}] /\ DOMAIN drop = Proc
  BY DEF MapTypes
<1>1. CASE ReadMap(p)
  <2>1. \/ view' = [view EXCEPT ![p] = map] /\ map \in Seq(Line)
        \/ view' = [view EXCEPT ![p] = SetToSeq(Found)]
    BY <1>0, <1>1 DEF ReadMap
  <2>2. view' \in [Proc -> Seq(Line)]  BY <1>0, <2>1, FoundLines
  <2>3. UNCHANGED <<sb, md, map, new, target, drop>>  BY <1>1 DEF ReadMap
  <2> QED  BY <1>0, <2>2, <2>3, TypesLeft
<1>2. CASE WriteNew(p)
  <2>1. new' \in Seq(Line)  BY <1>0, <1>2, OverBegins DEF WriteNew
  <2> QED  BY <1>0, <1>2, <2>1, TypesLeft DEF WriteNew
<1>3. CASE RenameNew(p)
  BY <1>0, <1>3, TypesLeft DEF RenameNew
<1>4. CASE DeleteEntry(p)
  <2>1. Without(view[p], target[p]) \in Seq(Line)
    <3>1. {i \in DOMAIN view[p] : view[p][i].md # target[p]} \in SUBSET DOMAIN view[p]  OBVIOUS
    <3> QED  BY <1>0, <3>1, KeepsAll DEF Without
  <2>2. view' \in [Proc -> Seq(Line)]  BY <1>0, <1>4, <2>1 DEF DeleteEntry
  <2> QED  BY <1>0, <1>4, <2>2, TypesLeft DEF DeleteEntry
<1> QED  BY <1>1, <1>2, <1>3, <1>4

\* A disk goes into one array that does not run yet, or none.
LEMMA JoinIs ==
  ASSUME MapTypes, NEW p \in Device, JoinArray(p)
  PROVE  /\ UNCHANGED <<sb, map, new, view, drop>> /\ pc[p] = "find"
         /\ \/ UNCHANGED <<md, target>> /\ pc' = [pc EXCEPT ![p] = "unlink"]
            \/ /\ pc' = [pc EXCEPT ![p] = "count"]
               /\ \E n \in Md :
                     /\ Busy(n) /\ Uuid(n) = sb[p].uuid /\ ~md[n].active
                     /\ "late" \in Happens \/ ~Starting(n)
                     /\ md' = [md EXCEPT ![n] = [disks |-> <<p>> \o md[n].disks, active |-> FALSE]]
                     /\ target' = [target EXCEPT ![p] = n]
<1>0. p \in Proc /\ view \in [Proc -> Seq(Line)] /\ md \in [Md -> Array \cup {None}]
  BY DEF Proc, MapTypes
<1>1. UNCHANGED <<sb, map, new, view, drop>> /\ pc[p] = "find"
  BY DEF JoinArray, fileVars
<1>2. PICK i \in Hits(p, sb[p].uuid) :
            LET k    == view[p][i].md
                fits == ~md[k].active /\ Uuid(k) = sb[p].uuid
            IN \/ /\ fits /\ ("late" \in Happens \/ ~Starting(k))
                  /\ md' = [md EXCEPT ![k].disks = <<p>> \o @]
                  /\ target' = [target EXCEPT ![p] = k]
                  /\ Go(p, "count")
               \/ ~fits /\ Go(p, "unlink") /\ UNCHANGED <<md, target>>
  BY DEF JoinArray
<1> DEFINE n == view[p][i].md
<1>3. n \in Md /\ Busy(n)
  <2>1. i \in DOMAIN view[p] /\ Busy(n)  BY <1>2 DEF Hits
  <2>2. view[p] \in Seq(Line)  BY <1>0
  <2>3. view[p][i] \in Line  BY <2>1, <2>2, ElementOfSeq
  <2> QED  BY <2>1, <2>3 DEF Line
<1>4. CASE Go(p, "unlink") /\ UNCHANGED <<md, target>>  BY <1>1, <1>4 DEF Go
<1>5. CASE /\ ~md[n].active /\ Uuid(n) = sb[p].uuid /\ ("late" \in Happens \/ ~Starting(n))
           /\ md' = [md EXCEPT ![n].disks = <<p>> \o @]
           /\ target' = [target EXCEPT ![p] = n]
           /\ Go(p, "count")
  <2> HIDE DEF n
  <2>1. md[n] \in Array  BY <1>0, <1>3 DEF Busy
  <2>2. md[n].disks \in Seq(Device) /\ md[n].active = FALSE  BY <1>5, <2>1 DEF Array
  <2>3. <<p>> \o md[n].disks \in Seq(Device)  BY <2>2
  <2>4. md' = [md EXCEPT ![n] = [disks |-> <<p>> \o md[n].disks, active |-> FALSE]]
    <3> DEFINE l == <<p>> \o md[n].disks
    <3>1. l \in Seq(Device)  BY <2>3
    <3>2. md' = [md EXCEPT ![n] = [md[n] EXCEPT !.disks = l]]  BY <1>0, <1>3, <1>5
    <3> HIDE DEF l
    <3>3. [md[n] EXCEPT !.disks = l] = [disks |-> l, active |-> FALSE]
      <4> DEFINE a == [md[n] EXCEPT !.disks = l]
      <4>1. a \in Array /\ a.disks = l /\ a.active = FALSE  BY <2>1, <2>2, <3>1 DEF Array
      <4> HIDE DEF a
      <4>2. a = [disks |-> a.disks, active |-> a.active]  BY <4>1 DEF Array
      <4> QED  BY <4>1, <4>2 DEF a
    <3>4. md' = [md EXCEPT ![n] = [disks |-> l, active |-> FALSE]]  BY <3>2, <3>3
    <3> QED  BY <3>4 DEF l
  <2> QED  BY <1>1, <1>3, <1>5, <2>4 DEF Go
<1> QED  BY <1>2, <1>4, <1>5

\* The disk that joins comes first.
LEMMA JoinTypes ==
  ASSUME MapTypes, NEW p \in Device, JoinArray(p)
  PROVE  MapTypes' /\ ArraysStay
<1>0. p \in Proc /\ target \in [Proc -> Md \cup {None}] /\ view \in [Proc -> Seq(Line)]
      /\ md \in [Md -> Array \cup {None}] /\ sb \in Boots /\ DOMAIN drop = Proc
  BY DEF Proc, MapTypes
<1>1. UNCHANGED <<sb, map, new, view, drop>>  BY JoinIs
<1>2. CASE UNCHANGED <<md, target>>  BY <1>1, <1>2, TypesLeft DEF MapTypes
<1>3. CASE ~UNCHANGED <<md, target>>
  <2>1. PICK n \in Md :
             /\ Busy(n) /\ Uuid(n) = sb[p].uuid
             /\ md' = [md EXCEPT ![n] = [disks |-> <<p>> \o md[n].disks, active |-> FALSE]]
             /\ target' = [target EXCEPT ![p] = n]
    BY <1>3, JoinIs
  <2>2. /\ md[n].disks \in Seq(Device)
        /\ \A i \in DOMAIN md[n].disks : sb[md[n].disks[i]].uuid = Uuid(n)
    BY <1>0, <2>1 DEF MapTypes, Array, Busy
  <2>3. /\ md'[n].disks = <<p>> \o md[n].disks
        /\ \A m \in Md \ {n} : md'[m] = md[m]
        /\ md' \in [Md -> Array \cup {None}]
    <3>1. <<p>> \o md[n].disks \in Seq(Device)  BY <2>2
    <3>2. [disks |-> <<p>> \o md[n].disks, active |-> FALSE] \in Array  BY <3>1 DEF Array
    <3> QED  BY <1>0, <2>1, <3>2
  <2>4. /\ md'[n].disks # <<>> /\ md'[n].disks[1] = p
        /\ \A i \in DOMAIN md'[n].disks : sb[md'[n].disks[i]].uuid = Uuid(n)
    <3>1. <<p>> \in Seq(Device) /\ Len(<<p>>) = 1 /\ <<p>>[1] = p  OBVIOUS
    <3>2. /\ Len(md'[n].disks) = 1 + Len(md[n].disks) /\ md'[n].disks \in Seq(Device)
          /\ \A i \in 1..Len(md'[n].disks) :
                md'[n].disks[i] = IF i <= 1 THEN <<p>>[i] ELSE md[n].disks[i - 1]
      BY <2>2, <2>3, <3>1, ConcatProperties
    <3>3. Len(md[n].disks) \in Nat /\ DOMAIN md[n].disks = 1..Len(md[n].disks)
          /\ DOMAIN md'[n].disks = 1..Len(md'[n].disks)
      BY <2>2, <3>2
    <3>4. md'[n].disks # <<>> /\ md'[n].disks[1] = p  BY <3>1, <3>2, <3>3, EmptySeq
    <3>5. ASSUME NEW i \in DOMAIN md'[n].disks, i > 1
          PROVE  md'[n].disks[i] = md[n].disks[i - 1] /\ i - 1 \in DOMAIN md[n].disks
      BY <3>2, <3>3, <3>5
    <3>6. \A i \in DOMAIN md'[n].disks : i = 1 \/ i > 1  BY <3>3
    <3> QED  BY <2>1, <2>2, <3>4, <3>5, <3>6
  <2>5. Uuid(n)' = Uuid(n)  BY <1>1, <2>1, <2>4 DEF Uuid
  <2>6. \A m \in Md \ {n} : (Busy(m)' <=> Busy(m)) /\ Uuid(m)' = Uuid(m)  BY <1>1, <2>3 DEF Busy, Uuid
  <2>7. ArraysStay  BY <2>1, <2>5, <2>6 DEF ArraysStay
  <2>8. \A m \in Md : Busy(m)' => /\ md'[m].disks # <<>>
                                  /\ \A i \in DOMAIN md'[m].disks : sb'[md'[m].disks[i]].uuid = Uuid(m)'
    <3>1. \A m \in Md : Busy(m) => /\ md[m].disks # <<>>
                                   /\ \A i \in DOMAIN md[m].disks : sb[md[m].disks[i]].uuid = Uuid(m)
      BY DEF MapTypes
    <3> SUFFICES ASSUME NEW m \in Md, Busy(m)'
                 PROVE  /\ md'[m].disks # <<>>
                        /\ \A i \in DOMAIN md'[m].disks : sb'[md'[m].disks[i]].uuid = Uuid(m)'
      OBVIOUS
    <3>2. CASE m = n
      <4>1. \A i \in DOMAIN md'[n].disks : sb'[md'[n].disks[i]].uuid = Uuid(n)'
        BY <1>1, <2>4, <2>5
      <4> QED  BY <2>4, <3>2, <4>1
    <3>3. CASE m # n
      <4>1. m \in Md \ {n}  BY <3>3
      <4>2. md'[m] = md[m] /\ Uuid(m)' = Uuid(m) /\ Busy(m)  BY <2>3, <2>6, <4>1
      <4>3. sb' = sb  BY <1>1
      <4> QED  BY <3>1, <4>2, <4>3
    <3> QED  BY <3>2, <3>3
  <2>9. target' \in [Proc -> Md \cup {None}]  BY <1>0, <2>1
  <2> QED  BY <1>1, <2>3, <2>7, <2>8, <2>9 DEF MapTypes
<1> QED  BY <1>2, <1>3

\* RUN_ARRAY in mdadm --incremental.
LEMMA StartTypes ==
  ASSUME MapTypes, NEW p \in Device, Start(p)
  PROVE  MapTypes' /\ ArraysStay
<1>0. p \in Proc /\ target \in [Proc -> Md \cup {None}] /\ DOMAIN drop = Proc
      /\ md \in [Md -> Array \cup {None}] /\ view \in [Proc -> Seq(Line)]
      /\ (map = None \/ map \in Seq(Line)) /\ (new = None \/ new \in Seq(Line))
  BY DEF Proc, MapTypes
<1>1. /\ UNCHANGED <<sb, map, new, view>>
      /\ target' \in [Proc -> Md \cup {None}] /\ DOMAIN drop' = Proc
  <2>1. /\ UNCHANGED <<sb, map, new, view>>
        /\ target' = [target EXCEPT ![p] = None]
        /\ drop' = [drop EXCEPT ![p] = None]
    BY DEF Start, fileVars
  <2> QED  BY <1>0, <2>1
<1>2. CASE UNCHANGED md  BY <1>0, <1>1, <1>2, TypesLeft
<1>3. CASE target[p] \notin Md
  <2>1. UNCHANGED md  BY <1>0, <1>3 DEF Start, Run
  <2> QED  BY <1>2, <2>1
<1>4. CASE target[p] \in Md /\ md' # md
  <2> DEFINE n == target[p]
             I == {i \in DOMAIN md[n].disks : md[n].disks[i] \notin drop[p]}
  <2>1. Busy(n) /\ Run(n, Kept(md[n].disks, I))  BY <1>4 DEF Start
  <2>2. md[n].disks \in Seq(Device) /\ \A i \in DOMAIN md[n].disks : sb[md[n].disks[i]].uuid = Uuid(n)
    BY <1>0, <1>4, <2>1 DEF MapTypes, Array, Busy
  <2>3. I \in SUBSET DOMAIN md[n].disks  OBVIOUS
  <2> HIDE DEF I, n
  <2>4. /\ Kept(md[n].disks, I) \in Seq(Device)
        /\ \A i \in DOMAIN Kept(md[n].disks, I) : \E j \in I : Kept(md[n].disks, I)[i] = md[n].disks[j]
    BY <2>2, <2>3, KeepsAll
  <2>5. \A i \in DOMAIN Kept(md[n].disks, I) : sb[Kept(md[n].disks, I)[i]].uuid = Uuid(n)
    BY <2>2, <2>3, <2>4
  <2>6. n \in Md  BY <1>4 DEF n
  <2>7. /\ md' \in [Md -> Array \cup {None}] /\ ArraysStay
        /\ \A m \in Md : Busy(m)' => /\ md'[m].disks # <<>>
                                     /\ \A i \in DOMAIN md'[m].disks : sb[md'[m].disks[i]].uuid = Uuid(m)'
    BY <1>1, <2>1, <2>4, <2>5, <2>6, RunTypes
  <2> QED  BY <1>0, <1>1, <2>7 DEF MapTypes
<1> QED  BY <1>2, <1>3, <1>4

\* mdadm --run, by the timer.
LEMMA TimerTypes ==
  ASSUME MapTypes, NEW n \in Md, LastResort(n)
  PROVE  MapTypes' /\ ArraysStay
<1>1. /\ UNCHANGED <<sb, map, new, view, target, drop>>
      /\ Busy(n) /\ Run(n, md[n].disks)
  BY DEF LastResort, fileVars, procVars
<1>2. md[n].disks \in Seq(Device) /\ \A i \in DOMAIN md[n].disks : sb[md[n].disks[i]].uuid = Uuid(n)
  BY <1>1 DEF MapTypes, Array, Busy
<1>3. /\ md' \in [Md -> Array \cup {None}] /\ ArraysStay
      /\ \A m \in Md : Busy(m)' => /\ md'[m].disks # <<>>
                                   /\ \A i \in DOMAIN md'[m].disks : sb[md'[m].disks[i]].uuid = Uuid(m)'
  BY <1>1, <1>2, RunTypes
<1> QED  BY <1>1, <1>3 DEF MapTypes

\* STOP_ARRAY takes the array out.
LEMMA StopTypes ==
  ASSUME MapTypes, NEW s \in Other, NEW n \in Md, StopArray(s, n)
  PROVE  MapTypes' /\ ArraysStay
<1>0. s \in Proc /\ target \in [Proc -> Md \cup {None}] /\ md \in [Md -> Array \cup {None}]
  BY DEF Proc, MapTypes
<1>1. /\ UNCHANGED <<sb, map, new, view, drop>>
      /\ md' = [md EXCEPT ![n] = None]
      /\ target' = [target EXCEPT ![s] = n]
  BY DEF StopArray, fileVars
<1>2. /\ md'[n] = None /\ \A m \in Md \ {n} : md'[m] = md[m]
      /\ md' \in [Md -> Array \cup {None}]
      /\ target' \in [Proc -> Md \cup {None}]
  BY <1>0, <1>1
<1>3. ~Busy(n)' /\ \A m \in Md \ {n} : (Busy(m)' <=> Busy(m)) /\ Uuid(m)' = Uuid(m)
  BY <1>1, <1>2 DEF Busy, Uuid
<1>4. \A m \in Md : Busy(m)' => /\ md'[m].disks # <<>>
                                /\ \A i \in DOMAIN md'[m].disks : sb'[md'[m].disks[i]].uuid = Uuid(m)'
  BY <1>1, <1>2, <1>3 DEF MapTypes
<1> QED  BY <1>1, <1>2, <1>3, <1>4 DEF MapTypes, ArraysStay

\* An array is made of one disk, or there is no number for it.
LEMMA MakeIs ==
  ASSUME MapTypes, NEW p \in Device, MakeArray(p)
  PROVE  /\ UNCHANGED <<sb, map, new, drop>> /\ pc[p] = "find"
         /\ \/ UNCHANGED <<md, view, target>> /\ pc' = [pc EXCEPT ![p] = "unlink"]
            \/ /\ pc' = [pc EXCEPT ![p] = "write"]
               /\ \E n \in Md :
                     /\ Free(n)
                     /\ md' = [md EXCEPT ![n] = [disks |-> <<p>>, active |-> FALSE]]
                     /\ view' = [view EXCEPT ![p] = Updated(Valid(p, sb[p].uuid), n, sb[p].uuid)]
                     /\ target' = [target EXCEPT ![p] = n]
  BY DEF MakeArray, Go, fileVars

\* The map gets a line for it, and loses none of an array that is there.
LEMMA MakeLines ==
  ASSUME MapTypes, NEW p \in Device, NEW n \in Md
  PROVE  /\ Updated(Valid(p, sb[p].uuid), n, sb[p].uuid) \in Seq(Line)
         /\ \E i \in DOMAIN Updated(Valid(p, sb[p].uuid), n, sb[p].uuid) :
                Updated(Valid(p, sb[p].uuid), n, sb[p].uuid)[i] = [md |-> n, uuid |-> sb[p].uuid]
         /\ \A j \in DOMAIN view[p] : Busy(view[p][j].md) /\ view[p][j].md # n =>
                \E i \in DOMAIN Updated(Valid(p, sb[p].uuid), n, sb[p].uuid) :
                    Updated(Valid(p, sb[p].uuid), n, sb[p].uuid)[i] = view[p][j]
<1> DEFINE u     == sb[p].uuid
           lines == view[p]
           I     == {i \in DOMAIN lines : lines[i].uuid # u \/ Busy(lines[i].md)}
<1>1. lines \in Seq(Line) /\ sb \in Boots  BY DEF MapTypes, Proc
<1>2. [md |-> n, uuid |-> u] \in Line  BY <1>1 DEF Line
<1>3. Valid(p, u) = Kept(lines, I) /\ I \in SUBSET DOMAIN lines  BY DEF Valid
<1>4. \A j \in DOMAIN lines : Busy(lines[j].md) => j \in I  OBVIOUS
<1> HIDE DEF I, lines
<1>5. /\ Valid(p, u) \in Seq(Line)
      /\ \A j \in I : \E i \in DOMAIN Valid(p, u) : Valid(p, u)[i] = lines[j]
  BY <1>1, <1>3, KeepsAll
<1> DEFINE r == Updated(Valid(p, u), n, u)
<1> HIDE DEF u
<1>6. /\ r \in Seq(Line) /\ \E i \in DOMAIN r : r[i] = [md |-> n, uuid |-> u]
      /\ \A j \in DOMAIN Valid(p, u) : Valid(p, u)[j].md # n => \E i \in DOMAIN r : r[i] = Valid(p, u)[j]
  BY <1>2, <1>5, UpdatedHas
<1> HIDE DEF r
<1>7. ASSUME NEW j \in DOMAIN lines, Busy(lines[j].md), lines[j].md # n
      PROVE  \E i \in DOMAIN r : r[i] = lines[j]
  <2>1. PICK k \in DOMAIN Valid(p, u) : Valid(p, u)[k] = lines[j]  BY <1>4, <1>5, <1>7
  <2> QED  BY <1>6, <1>7, <2>1
<1> QED  BY <1>6, <1>7 DEF r, u, lines

\* So the array that is made is of the uuid of its disk.
LEMMA MakeTypes ==
  ASSUME MapTypes, NEW p \in Device, MakeArray(p)
  PROVE  MapTypes'
<1>0. p \in Proc /\ target \in [Proc -> Md \cup {None}] /\ view \in [Proc -> Seq(Line)]
      /\ md \in [Md -> Array \cup {None}]
  BY DEF Proc, MapTypes
<1>1. UNCHANGED <<sb, map, new, drop>>  BY MakeIs
<1>2. CASE UNCHANGED <<md, view, target>>  BY <1>1, <1>2, TypesLeft DEF MapTypes
<1>3. CASE ~UNCHANGED <<md, view, target>>
  <2>1. PICK n \in Md :
           /\ md' = [md EXCEPT ![n] = [disks |-> <<p>>, active |-> FALSE]]
           /\ view' = [view EXCEPT ![p] = Updated(Valid(p, sb[p].uuid), n, sb[p].uuid)]
           /\ target' = [target EXCEPT ![p] = n]
    BY <1>3, MakeIs
  <2>2. /\ md'[n].disks = <<p>> /\ \A m \in Md \ {n} : md'[m] = md[m]
        /\ md' \in [Md -> Array \cup {None}]
    <3>1. [disks |-> <<p>>, active |-> FALSE] \in Array  BY DEF Array
    <3> QED  BY <1>0, <2>1, <3>1
  <2>3. /\ Uuid(n)' = sb[p].uuid /\ md'[n].disks # <<>>
        /\ \A i \in DOMAIN md'[n].disks : sb[md'[n].disks[i]].uuid = sb[p].uuid
    <3>1. <<p>>[1] = p /\ DOMAIN <<p>> = {1} /\ <<p>> # <<>>  OBVIOUS
    <3> QED  BY <1>1, <2>2, <3>1 DEF Uuid
  <2>4. \A m \in Md \ {n} : (Busy(m)' <=> Busy(m)) /\ Uuid(m)' = Uuid(m)  BY <1>1, <2>2 DEF Busy, Uuid
  <2>5. \A m \in Md \ {n} : Busy(m) => /\ md[m].disks # <<>>
                                       /\ \A i \in DOMAIN md[m].disks : sb[md[m].disks[i]].uuid = Uuid(m)
    BY DEF MapTypes
  <2>6. \A m \in Md \ {n} : Busy(m)' => /\ md'[m].disks # <<>>
                                        /\ \A i \in DOMAIN md'[m].disks : sb'[md'[m].disks[i]].uuid = Uuid(m)'
    BY <1>1, <2>2, <2>4, <2>5
  <2>7. view' \in [Proc -> Seq(Line)]  BY <1>0, <2>1, MakeLines
  <2>8. target' \in [Proc -> Md \cup {None}]  BY <1>0, <2>1
  <2> QED  BY <1>1, <2>2, <2>3, <2>6, <2>7, <2>8 DEF MapTypes
<1> QED  BY <1>2, <1>3

\* Only MakeArray makes an array.
LEMMA Typing ==
  ASSUME MapTypes, [Next]_vars
  PROVE  MapTypes' /\ (ArraysStay \/ \E d \in Device : MakeArray(d))
<1>1. ASSUME NEW p \in Proc, Step(p) \/ Kill(p)
      PROVE  MapTypes' /\ (ArraysStay \/ \E d \in Device : MakeArray(d))
  BY <1>1, LocalTypes, FileTypes, JoinTypes, StartTypes, MakeTypes DEF Step
<1>2. ASSUME NEW d \in Device, Appear(d) PROVE MapTypes' /\ ArraysStay  BY <1>2, LocalTypes DEF Proc
<1>3. ASSUME NEW s \in Other, ReadUnlocked(s) PROVE MapTypes' /\ ArraysStay  BY <1>3, LocalTypes DEF Proc
<1>4. CASE UNCHANGED vars
  BY <1>4, TypesLeft DEF vars, fileVars, procVars, MapTypes
<1> QED  BY <1>1, <1>2, <1>3, <1>4, StopTypes, TimerTypes DEF Next

\* At first there is no array, and no map.
LEMMA InitMap == Init => MapTypes
<1> SUFFICES ASSUME Init PROVE MapTypes  OBVIOUS
<1>1. \A n \in Md : ~Busy(n)  BY DEF Init, Busy
<1>2. <<>> \in Seq(Line)  BY EmptySeq
<1> QED  BY <1>1, <1>2 DEF Init, MapTypes

\* The disks of an array are those of one uuid, and the map has lines and nothing else.
THEOREM MapTypesHold == Spec => []MapTypes
<1>1. MapTypes /\ [Next]_vars => MapTypes'  BY Typing
<1> QED  BY <1>1, InitMap, PTL DEF Spec

-----------------------------------------------------------------------------
(* The map knows every array.                                               *)

\* Nobody is killed between making an array and recording it, the map is read
\* without the lock only if there is one, and no number is used again too early.
Careful == Happens \cap {"killearly", "unlocked", "reuse"} = {}

\* The lines have one for n; for each array.
Has(lines, n) == \E i \in DOMAIN lines : lines[i].md = n /\ lines[i].uuid = Uuid(n)
Knows(lines)  == \A n \in Md : Busy(n) => Has(lines, n)

\* A process has made n and is about to write the map.
Maker(n) == \E d \in Device : pc[d] \in {"write", "rename"} /\ target[d] = n

\* mdadm --stop takes out of the map what is not there any more.
Stopper(s)  == s \in Other /\ pc[s] \notin {"idle", "done", "killed"} /\ target[s] # None
StoppedGone == \A s \in Proc : Stopper(s) => ~Busy(target[s])

\* Who has no lock finds a map, and writes none.
ReadersRead == \A p \in Proc : ~Locks(p) => /\ pc[p] \notin {"write", "rename"}
                                            /\ pc[p] = "read" => map # None

MapKnows  == \A n \in Md : Busy(n) => map = None \/ Has(map, n) \/ Maker(n)
Knowing   == {"find", "write", "rename", "delete"}
ViewKnows == \A p \in Proc : Holds(p) /\ pc[p] \in Knowing => Knows(view[p])
NewKnows  == \A p \in Proc : Holds(p) /\ pc[p] = "rename" => new # None /\ Knows(new)

KnownInv == /\ StoppedGone /\ ReadersRead
            /\ MapKnows /\ ViewKnows /\ NewKnows /\ OneArray

\* At first there is no array to know.
LEMMA InitKnown == Init => KnownInv
<1> SUFFICES ASSUME Init PROVE KnownInv  OBVIOUS
<1>1. /\ \A n \in Md : ~Busy(n)
      /\ \A p \in Proc : pc[p] = "idle"
  BY DEF Init, Busy
<1> QED  BY <1>1 DEF KnownInv, StoppedGone, Stopper, ReadersRead, MapKnows, ViewKnows, NewKnows,
                           OneArray, Knowing, Knows, Holds

\* A step of p that makes no array, and leaves the map file alone.
LEMMA MapLeft ==
  ASSUME MapTypes, KnownInv, ArraysStay, UNCHANGED <<map, new>>, NEW p \in Proc,
         \A q \in Proc \ {p} : pc'[q] = pc[q] /\ target'[q] = target[q] /\ view'[q] = view[q],
         pc'[p] # "rename",
         pc'[p] \in Knowing => Locks(p)' /\ Knows(view[p])',
         Stopper(p)' => ~Busy(target[p])',
         pc'[p] = "read" /\ ~Locks(p)' => map # None,
         p \in Device /\ pc[p] \in {"write", "rename"} => target[p] = None
  PROVE  KnownInv'
<1> USE DEF KnownInv
<1>1. \A n \in Md : Busy(n)' => Busy(n)  BY DEF ArraysStay
<1>2. \A n \in Md : Busy(n)' /\ Has(map, n) => Has(map, n)'
  BY DEF ArraysStay, Has
<1>3. ASSUME NEW q \in Proc \ {p}, Knows(view[q]) PROVE Knows(view[q])'
  BY <1>3 DEF ArraysStay, Has, Knows
<1>4. Knows(new) => Knows(new)'
  BY DEF ArraysStay, Has, Knows
<1>5. ASSUME NEW q \in Proc \ {p} PROVE (Holds(q)' <=> Holds(q)) /\ (Locks(q)' <=> Locks(q))
  BY <1>5 DEF Holds, Locks
<1>6. StoppedGone'
  <2>1. ASSUME NEW q \in Proc, Stopper(q)' PROVE ~Busy(target[q])'
    <3>1. CASE q = p  BY <2>1, <3>1
    <3>2. CASE q # p
      <4>1. Stopper(q) /\ target'[q] = target[q]  BY <2>1, <3>2 DEF Stopper
      <4>2. target[q] \in Md  BY <4>1 DEF Stopper, MapTypes
      <4>3. ~Busy(target[q])  BY <4>1 DEF StoppedGone
      <4> QED  BY <1>1, <4>1, <4>2, <4>3 DEF Busy
    <3> QED  BY <3>1, <3>2
  <2> QED  BY <2>1 DEF StoppedGone
<1>7. ReadersRead'
  <2>1. ASSUME NEW q \in Proc \ {p}, ~Locks(q)'
        PROVE  pc'[q] \notin {"write", "rename"} /\ (pc'[q] = "read" => map' # None)
    BY <1>5, <2>1 DEF ReadersRead
  <2>2. ASSUME ~Locks(p)' PROVE pc'[p] \notin {"write", "rename"} /\ (pc'[p] = "read" => map' # None)
    BY <2>2 DEF Knowing
  <2> QED  BY <2>1, <2>2 DEF ReadersRead
<1>8. MapKnows'
  <2> SUFFICES ASSUME NEW n \in Md, Busy(n)', map # None, ~Has(map, n)' PROVE Maker(n)'
    BY DEF MapKnows
  <2>1. Maker(n)  BY <1>1, <1>2 DEF MapKnows
  <2>2. PICK d \in Device : pc[d] \in {"write", "rename"} /\ target[d] = n  BY <2>1 DEF Maker
  <2>3. d \in Proc /\ d # p  BY <2>2, NoneAssumption DEF Proc
  <2> QED  BY <2>2, <2>3 DEF Maker
<1>9. ViewKnows'
  BY <1>3, <1>5 DEF ViewKnows
<1>10. NewKnows'
  BY <1>4, <1>5 DEF NewKnows
<1>11. OneArray'
  BY DEF OneArray, ArraysStay
<1> QED  BY <1>6, <1>7, <1>8, <1>9, <1>10, <1>11
\* A step that makes no array, touches no array, and reads or writes no map.
LEMMA ElseStays ==
  ASSUME MapTypes, KnownInv, LockInv, NEW p \in Proc,
         UNCHANGED <<sb, md, map, new>>, DOMAIN drop' = DOMAIN drop,
         pc' = [pc EXCEPT ![p] = pc'[p]],
         view' \in {view, [view EXCEPT ![p] = <<>>]},
         target' \in {target, [target EXCEPT ![p] = None]},
         pc'[p] \notin Knowing,
         p \in Other /\ pc[p] \in {"idle", "done", "killed"} => pc'[p] \in {"idle", "done", "killed"} \/ target[p] = None,
         pc'[p] = "read" /\ ~Locks(p)' => map # None,
         p \in Device /\ pc[p] \in {"write", "rename"} => target[p] = None
  PROVE  KnownInv'
<1> USE NoneAssumption DEF KnownInv
<1>1. ArraysStay  BY DEF ArraysStay, Busy, Uuid
<1>2. Stopper(p)' => ~Busy(target[p])'
  <2> SUFFICES ASSUME Stopper(p)' PROVE ~Busy(target[p])'  OBVIOUS
  <2>1. DOMAIN target = Proc  BY DEF MapTypes
  <2>2. target'[p] = target[p] /\ target[p] # None  BY <2>1 DEF Stopper
  <2>3. Stopper(p)  BY <2>2 DEF Stopper
  <2> QED  BY <2>2, <2>3 DEF StoppedGone, Busy
<1>3. \A q \in Proc \ {p} : pc'[q] = pc[q] /\ target'[q] = target[q] /\ view'[q] = view[q]
  BY DEF MapTypes, LockInv, LockTypes
<1>4. pc'[p] # "rename"  BY DEF Knowing
<1> HIDE DEF KnownInv
<1> QED  BY <1>1, <1>2, <1>3, <1>4, MapLeft

\* map_lock, map_unlock, and what a process does with the map that it has read.
LEMMA LocalSteps ==
  ASSUME MapTypes, KnownInv, LockInv, Careful, NEW p \in Proc,
         \/ OpenLock(p) \/ Flock(p) \/ UnlinkLock(p) \/ CloseLock(p) \/ Kill(p)
         \/ p \in Device /\ (Appear(p) \/ GiveUp(p) \/ Count(p))
         \/ p \in Other /\ ReadUnlocked(p)
  PROVE  KnownInv'
<1> USE DEF Go, Knowing, fileVars, Locks
<1>0. /\ DOMAIN pc = Proc /\ DOMAIN target = Proc /\ DOMAIN view = Proc /\ DOMAIN drop = Proc
      /\ p \in Other /\ pc[p] = "idle" => target[p] = None
      /\ ~Locks(p) => pc[p] \in {"idle", "read", "write", "rename", "done", "killed"}
  BY DEF MapTypes, LockInv, LockTypes, ReadersPass
<1>1. CASE OpenLock(p)  BY <1>0, <1>1, ElseStays DEF OpenLock
<1>2. CASE Flock(p)  BY <1>0, <1>2, ElseStays DEF Flock
<1>3. CASE UnlinkLock(p)  BY <1>0, <1>3, ElseStays DEF UnlinkLock
<1>4. CASE CloseLock(p)
  <2>0. target \in [Proc -> Md \cup {None}]  BY DEF MapTypes
  <2>1. target' \in {target, [target EXCEPT ![p] = None]}  BY <2>0, <1>4 DEF CloseLock
  <2>2. pc'[p] \in {"done", "start"} /\ pc[p] = "close" /\ pc' = [pc EXCEPT ![p] = pc'[p]]  BY <1>0, <1>4 DEF CloseLock
  <2>3. UNCHANGED <<sb, md, map, new, drop>> /\ view' = [view EXCEPT ![p] = <<>>]  BY <1>4 DEF CloseLock, Release
  <2> QED  BY <2>1, <2>2, <2>3, ElseStays
<1>5. CASE Kill(p)
  <2>1. ~Unrecorded(p)  BY <1>5 DEF Kill, Careful
  <2>2. p \in Device /\ pc[p] \in {"write", "rename"} => target[p] = None  BY <2>1 DEF Unrecorded
  <2> QED  BY <1>0, <1>5, <2>2, ElseStays DEF Kill, Release
<1>6. CASE p \in Device /\ Appear(p)  BY <1>0, <1>6, ElseStays DEF Appear
<1>7. CASE GiveUp(p)  BY <1>0, <1>7, ElseStays DEF GiveUp
<1>8. CASE Count(p)
  <2>1. DOMAIN drop' = DOMAIN drop  BY <1>8 DEF Count
  <2> QED  BY <1>0, <1>8, <2>1, ElseStays DEF Count
<1>9. CASE p \in Other /\ ReadUnlocked(p)  BY <1>0, <1>9, ElseStays DEF ReadUnlocked, Careful
<1> QED  BY <1>1, <1>2, <1>3, <1>4, <1>5, <1>6, <1>7, <1>8, <1>9
\* Taking a disk into an array, starting one and stopping one leave the others what they are.
LEMMA ArrayStays ==
  ASSUME MapTypes, KnownInv, LockInv, NEW p \in Device, JoinArray(p) \/ Start(p)
  PROVE  KnownInv'
<1>0. p \in Proc /\ DOMAIN pc = Proc /\ target \in [Proc -> Md \cup {None}] /\ DOMAIN view = Proc
  BY DEF Proc, LockInv, LockTypes, MapTypes
<1>1. ArraysStay  BY JoinTypes, StartTypes
<1>2. /\ UNCHANGED <<map, new>> /\ pc[p] \in {"find", "start"}
      /\ \A q \in Proc \ {p} : pc'[q] = pc[q] /\ target'[q] = target[q] /\ view'[q] = view[q]
      /\ pc'[p] \in {"unlink", "count", "done"}
  <2>1. CASE JoinArray(p)
    <3>1. UNCHANGED <<map, new, view>> /\ pc[p] = "find" /\ pc' = [pc EXCEPT ![p] = pc'[p]]
          /\ pc'[p] \in {"unlink", "count"} /\ target' = [target EXCEPT ![p] = target'[p]]
      BY <1>0, <2>1, JoinIs
    <3> QED  BY <1>0, <3>1
  <2>2. CASE Start(p)  BY <1>0, <2>2 DEF Start, fileVars, Go
  <2> QED  BY <2>1, <2>2
<1>3. ~Stopper(p)'  BY ProcAssumption DEF Stopper
<1> QED  BY <1>0, <1>1, <1>2, <1>3, MapLeft DEF Knowing

\* mdadm --run, by the timer.
LEMMA TimerStays ==
  ASSUME MapTypes, KnownInv, LockInv, NEW n \in Md, LastResort(n)
  PROVE  KnownInv'
<1>1. UNCHANGED <<sb, map, new, pc, view, target, drop>>  BY DEF LastResort, fileVars, procVars
<1>2. ArraysStay  BY TimerTypes
<1>3. \A m \in Md : Busy(m)' => Busy(m)  BY <1>2 DEF ArraysStay
<1>4. /\ \A m \in Md : Busy(m)' /\ Has(map, m) => Has(map, m)'
      /\ \A p \in Proc : Knows(view[p]) => Knows(view[p])'
      /\ Knows(new) => Knows(new)'
  BY <1>1, <1>2 DEF ArraysStay, Has, Knows
<1>5. \A p \in Proc : (Holds(p)' <=> Holds(p)) /\ (Locks(p)' <=> Locks(p)) /\ (Stopper(p)' <=> Stopper(p))
  BY <1>1 DEF Holds, Locks, Stopper
<1>6. \A m \in Md : Maker(m)' <=> Maker(m)  BY <1>1 DEF Maker
<1>7. StoppedGone'
  <2> SUFFICES ASSUME NEW p \in Proc, Stopper(p) PROVE ~Busy(target[p])'
    BY <1>5 DEF StoppedGone
  <2>1. target[p] \in Md /\ ~Busy(target[p])  BY DEF KnownInv, StoppedGone, Stopper, MapTypes
  <2> QED  BY <1>1, <1>3, <2>1 DEF Busy
<1>8. ReadersRead'  BY <1>1, <1>5 DEF KnownInv, ReadersRead
<1>9. MapKnows'  BY <1>1, <1>3, <1>4, <1>6 DEF KnownInv, MapKnows
<1>10. ViewKnows' /\ NewKnows'  BY <1>1, <1>4, <1>5 DEF KnownInv, ViewKnows, NewKnows
<1>11. OneArray'  BY <1>2 DEF KnownInv, OneArray, ArraysStay
<1> QED  BY <1>7, <1>8, <1>9, <1>10, <1>11 DEF KnownInv

\* STOP_ARRAY.
LEMMA StopStays ==
  ASSUME MapTypes, KnownInv, LockInv, NEW s \in Other, NEW n \in Md, StopArray(s, n)
  PROVE  KnownInv'
<1>0. s \in Proc /\ DOMAIN pc = Proc /\ target \in [Proc -> Md \cup {None}]
      /\ md \in [Md -> Array \cup {None}] /\ view \in [Proc -> Seq(Line)]
  BY DEF Proc, LockInv, LockTypes, MapTypes
<1>1. /\ UNCHANGED <<sb, map, new, view, drop>> /\ pc[s] = "idle"
      /\ md' = [md EXCEPT ![n] = None]
      /\ target' = [target EXCEPT ![s] = n]
      /\ pc' = [pc EXCEPT ![s] = "lock"]
  BY DEF StopArray, fileVars, Go
<1>2. /\ md'[n] = None /\ \A m \in Md \ {n} : md'[m] = md[m]
      /\ md' \in [Md -> Array \cup {None}]
  BY <1>0, <1>1
<1>3. ArraysStay  BY StopTypes
<1>4. /\ \A q \in Proc \ {s} : pc'[q] = pc[q] /\ target'[q] = target[q] /\ view'[q] = view[q]
      /\ pc'[s] = "lock" /\ target'[s] = n
  BY <1>0, <1>1
<1>5. ~Busy(target[s])'  BY <1>2, <1>4 DEF Busy
<1> QED  BY <1>0, <1>1, <1>3, <1>4, <1>5, ProcAssumption, MapLeft DEF Knowing
\* Who holds the map is alone with it.
LEMMA Alone == LockInv => \A p, q \in Proc : Holds(p) /\ Holds(q) => p = q
  BY InvExcludes DEF LockExcludes

\* A map that is rebuilt has a line for each array.
LEMMA FoundKnows ==
  ASSUME MapTypes
  PROVE  Knows(SetToSeq(Found))
<1> SUFFICES ASSUME NEW n \in Md, Busy(n) PROVE Has(SetToSeq(Found), n)  BY DEF Knows
<1>1. PICK i \in DOMAIN SetToSeq(Found) : SetToSeq(Found)[i] = [md |-> n, uuid |-> Uuid(n)]
  BY FoundLines
<1> QED  BY <1>1 DEF Has

\* map_read.
LEMMA ReadStays ==
  ASSUME MapTypes, KnownInv, LockInv, NEW p \in Proc, ReadMap(p)
  PROVE  KnownInv'
<1>0. /\ DOMAIN pc = Proc /\ target \in [Proc -> Md \cup {None}] /\ view \in [Proc -> Seq(Line)]
      /\ md \in [Md -> Array \cup {None}] /\ (map = None \/ map \in Seq(Line))
  BY DEF LockInv, LockTypes, MapTypes
<1>1. UNCHANGED <<sb, md, map, new, target, drop>> /\ pc[p] = "read"  BY DEF ReadMap, fileVars
<1>2. ArraysStay /\ \A n \in Md : (Busy(n)' <=> Busy(n)) /\ Uuid(n)' = Uuid(n)
  BY <1>1 DEF ArraysStay, Busy, Uuid
<1>3. /\ AfterRead(p) \in {"find", "delete", "done"}
      /\ AfterRead(p) \in {"find", "delete"} => Locks(p)
  BY DEF AfterRead, Locks
<1>4. Locks(p)' <=> Locks(p)  BY <1>1 DEF Locks
<1>5. Stopper(p)' => ~Busy(target[p])'
  <2> SUFFICES ASSUME Stopper(p)' PROVE ~Busy(target[p])'  OBVIOUS
  <2>1. Stopper(p)  BY <1>1 DEF Stopper
  <2> QED  BY <1>1, <2>1 DEF KnownInv, StoppedGone, Busy
<1>6. CASE map # None
  <2>1. view' = [view EXCEPT ![p] = map] /\ pc' = [pc EXCEPT ![p] = AfterRead(p)]
    BY <1>6 DEF ReadMap, Go
  <2>2. ASSUME Locks(p) PROVE Knows(map)
    <3> SUFFICES ASSUME NEW n \in Md, Busy(n), Maker(n) PROVE FALSE
      BY <1>6 DEF KnownInv, MapKnows, Knows
    <3>1. PICK d \in Device : pc[d] \in {"write", "rename"}  BY DEF Maker
    <3>2. d \in Proc /\ Holds(d)  BY <3>1 DEF Holds, Locks, Inside, Proc
    <3>3. Holds(p)  BY <1>1, <2>2 DEF Holds, Inside
    <3> QED  BY <1>1, <3>1, <3>2, <3>3, Alone
  <2>3. /\ \A q \in Proc \ {p} : pc'[q] = pc[q] /\ target'[q] = target[q] /\ view'[q] = view[q]
        /\ pc'[p] = AfterRead(p) /\ view'[p] = map
    BY <1>0, <1>1, <2>1
  <2>4. Locks(p) => Knows(view[p])'  BY <1>2, <2>2, <2>3 DEF Knows, Has
  <2> QED  BY <1>1, <1>2, <1>3, <1>4, <1>5, <2>3, <2>4, MapLeft DEF Knowing
<1>7. CASE map = None
  <2>1. view' = [view EXCEPT ![p] = SetToSeq(Found)] /\ pc' = [pc EXCEPT ![p] = "write"]
    BY <1>7 DEF ReadMap, Go
  <2>2. Locks(p)  BY <1>1, <1>7 DEF KnownInv, ReadersRead
  <2>3. /\ \A q \in Proc \ {p} : pc'[q] = pc[q] /\ target'[q] = target[q] /\ view'[q] = view[q]
        /\ pc'[p] = "write" /\ view'[p] = SetToSeq(Found)
    BY <1>0, <1>1, <2>1
  <2>4. Knows(view[p])'  BY <1>2, <2>3, FoundKnows DEF Knows, Has
  <2> QED  BY <1>1, <1>2, <1>4, <1>5, <2>2, <2>3, <2>4, MapLeft DEF Knowing
<1> QED  BY <1>6, <1>7

\* map_remove: the array of the line that goes is not there.
LEMMA DeleteStays ==
  ASSUME MapTypes, KnownInv, LockInv, NEW s \in Other, DeleteEntry(s)
  PROVE  KnownInv'
<1>0. /\ s \in Proc /\ DOMAIN pc = Proc /\ target \in [Proc -> Md \cup {None}]
      /\ view \in [Proc -> Seq(Line)]
  BY DEF Proc, LockInv, LockTypes, MapTypes
<1>1. /\ UNCHANGED <<sb, md, map, new, target, drop>> /\ pc[s] = "delete"
      /\ view' = [view EXCEPT ![s] = Without(view[s], target[s])]
      /\ pc' = [pc EXCEPT ![s] = "write"]
  BY <1>0 DEF DeleteEntry, fileVars, Go
<1>2. ArraysStay /\ \A n \in Md : (Busy(n)' <=> Busy(n)) /\ Uuid(n)' = Uuid(n)
  BY <1>1 DEF ArraysStay, Busy, Uuid
<1>3. Locks(s) /\ Holds(s)
  BY <1>0, <1>1 DEF LockInv, ReadersPass, Holds, Inside
<1>4. Stopper(s) /\ Locks(s)'
  BY <1>1, <1>3, ProcAssumption DEF Stopper, Locks
<1>5. ~Busy(target[s])  BY <1>0, <1>4 DEF KnownInv, StoppedGone
<1> DEFINE lines == view[s]
           I == {i \in DOMAIN lines : lines[i].md # target[s]}
<1>6. lines \in Seq(Line) /\ Knows(lines)
  BY <1>0, <1>1, <1>3 DEF KnownInv, ViewKnows, Knowing
<1>7. Without(lines, target[s]) = Kept(lines, I) /\ I \in SUBSET DOMAIN lines  BY DEF Without
<1>8. \A n \in Md : Busy(n) => \E i \in I : lines[i].md = n /\ lines[i].uuid = Uuid(n)
  BY <1>5, <1>6 DEF Knows, Has
<1> HIDE DEF I, lines
<1>9. Knows(Without(lines, target[s]))
  <2>1. /\ Kept(lines, I) \in Seq(Line)
        /\ \A j \in I : \E i \in DOMAIN Kept(lines, I) : Kept(lines, I)[i] = lines[j]
    BY <1>6, <1>7, KeepsAll
  <2>2. ASSUME NEW n \in Md, Busy(n) PROVE Has(Kept(lines, I), n)
    <3>1. PICK j \in I : lines[j].md = n /\ lines[j].uuid = Uuid(n)  BY <1>8, <2>2
    <3>2. PICK i \in DOMAIN Kept(lines, I) : Kept(lines, I)[i] = lines[j]  BY <2>1
    <3> QED  BY <3>1, <3>2 DEF Has
  <2> QED  BY <1>7, <2>1, <2>2 DEF Knows
<1>10. /\ \A q \in Proc \ {s} : pc'[q] = pc[q] /\ target'[q] = target[q] /\ view'[q] = view[q]
       /\ pc'[s] = "write" /\ view'[s] = Without(lines, target[s])
  BY <1>0, <1>1 DEF lines
<1>11. Knows(view[s])'  BY <1>2, <1>9, <1>10 DEF Knows, Has
<1>12. ~Busy(target[s])'  BY <1>1, <1>5 DEF Busy
<1> QED  BY <1>0, <1>1, <1>2, <1>4, <1>10, <1>11, <1>12, ProcAssumption, MapLeft DEF Knowing
\* What is written over a longer file has every line.
LEMMA OverHas ==
  ASSUME NEW lines \in Seq(Line), NEW old, old = None \/ old \in Seq(Line), Knows(lines)
  PROVE  Knows(Over(lines, old))
<1> SUFFICES ASSUME NEW n \in Md, Busy(n) PROVE Has(Over(lines, old), n)  BY DEF Knows
<1>1. PICK i \in DOMAIN lines : lines[i].md = n /\ lines[i].uuid = Uuid(n)  BY DEF Knows, Has
<1> QED  BY <1>1, OverBegins DEF Has

\* map_write, up to the rename.
LEMMA WriteStays ==
  ASSUME MapTypes, KnownInv, LockInv, NEW p \in Proc, WriteNew(p)
  PROVE  KnownInv'
<1>0. DOMAIN pc = Proc /\ view \in [Proc -> Seq(Line)] /\ (new = None \/ new \in Seq(Line))
  BY DEF LockInv, LockTypes, MapTypes
<1>1. /\ UNCHANGED <<sb, md, map, view, target, drop>> /\ pc[p] = "write"
      /\ new' = Over(view[p], new)
      /\ pc' = [pc EXCEPT ![p] = "rename"]
  BY DEF WriteNew, Go
<1>2. Locks(p) /\ Holds(p)  BY <1>1 DEF KnownInv, ReadersRead, Holds, Inside
<1>3. Knows(view[p])  BY <1>1, <1>2 DEF KnownInv, ViewKnows, Knowing
<1>4. new' \in Seq(Line) /\ new' # None /\ Knows(new')
  <2>1. view[p] \in Seq(Line)  BY <1>0
  <2>2. Over(view[p], new) \in Seq(Line) /\ Knows(Over(view[p], new))
    BY <1>0, <1>3, <2>1, OverBegins, OverHas
  <2> QED  BY <1>1, <2>2, NoFileAssumption DEF Line
<1>5. \A n \in Md : (Busy(n)' <=> Busy(n)) /\ Uuid(n)' = Uuid(n)  BY <1>1 DEF Busy, Uuid
<1>6. \A q \in Proc : (Locks(q)' <=> Locks(q)) /\ (Holds(q)' <=> Holds(q)) /\ (Stopper(q)' <=> Stopper(q))
  BY <1>0, <1>1 DEF Locks, Holds, Inside, Stopper
<1>7. StoppedGone'
  BY <1>1, <1>6 DEF KnownInv, StoppedGone, Busy
<1>8. ReadersRead'
  <2>1. \A q \in Proc \ {p} : pc'[q] = pc[q]  BY <1>0, <1>1
  <2> QED  BY <1>1, <1>2, <1>6, <2>1 DEF KnownInv, ReadersRead
<1>9. MapKnows'
  <2> SUFFICES ASSUME NEW n \in Md, Busy(n), map # None, ~Has(map, n) PROVE Maker(n)'
    BY <1>1, <1>5 DEF MapKnows, Has
  <2>1. PICK d \in Device : pc[d] \in {"write", "rename"} /\ target[d] = n
    BY DEF KnownInv, MapKnows, Maker
  <2> QED  BY <1>0, <1>1, <2>1 DEF Maker
<1>10. ViewKnows'
  <2> SUFFICES ASSUME NEW q \in Proc, Holds(q), pc'[q] \in Knowing PROVE Knows(view[q])
    BY <1>1, <1>5, <1>6 DEF ViewKnows, Knows, Has
  <2>1. q # p => pc'[q] = pc[q]  BY <1>0, <1>1
  <2> QED  BY <1>3, <2>1 DEF KnownInv, ViewKnows
<1>11. NewKnows'
  <2> SUFFICES ASSUME NEW q \in Proc, Holds(q)', pc'[q] = "rename" PROVE new' # None /\ Knows(new)'
    BY DEF NewKnows
  <2> QED  BY <1>4, <1>5 DEF Knows, Has
<1>12. OneArray'  BY <1>5 DEF KnownInv, OneArray
<1> QED  BY <1>7, <1>8, <1>9, <1>10, <1>11, <1>12 DEF KnownInv

\* map_write, the rename.
LEMMA RenameStays ==
  ASSUME MapTypes, KnownInv, LockInv, NEW p \in Proc, RenameNew(p)
  PROVE  KnownInv'
<1>0. DOMAIN pc = Proc /\ view \in [Proc -> Seq(Line)]
  BY DEF LockInv, LockTypes, MapTypes
<1>1. /\ UNCHANGED <<sb, md, view, target, drop>> /\ pc[p] = "rename" /\ new' = None
      /\ pc' = [pc EXCEPT ![p] = next[p]]
  BY DEF RenameNew, Go
<1>2. Locks(p) /\ Holds(p)  BY <1>1 DEF KnownInv, ReadersRead, Holds, Inside
<1>3. new # None /\ Knows(new) /\ Knows(view[p])
  BY <1>1, <1>2 DEF KnownInv, NewKnows, ViewKnows, Knowing
<1>4. map' = new  BY <1>3 DEF RenameNew
<1>5. pc'[p] \in {"find", "count", "delete", "unlink"} /\ \A q \in Proc \ {p} : pc'[q] = pc[q]
  BY <1>0, <1>1, <1>2 DEF LockInv, GoesOn
<1>6. \A n \in Md : (Busy(n)' <=> Busy(n)) /\ Uuid(n)' = Uuid(n)  BY <1>1 DEF Busy, Uuid
<1>7. \A q \in Proc : (Locks(q)' <=> Locks(q)) /\ (Holds(q)' => Holds(q)) /\ (Stopper(q)' => Stopper(q))
  BY <1>1, <1>2, <1>5 DEF Locks, Holds, Stopper
<1>8. StoppedGone'
  BY <1>1, <1>7 DEF KnownInv, StoppedGone, Busy
<1>9. ReadersRead'
  BY <1>3, <1>4, <1>5, <1>7 DEF KnownInv, ReadersRead
<1>10. MapKnows'  BY <1>3, <1>4, <1>6 DEF MapKnows, Knows, Has
<1>11. ViewKnows'
  <2> SUFFICES ASSUME NEW q \in Proc, Holds(q)', pc'[q] \in Knowing PROVE Knows(view[q])
    BY <1>1, <1>6 DEF ViewKnows, Knows, Has
  <2> QED  BY <1>3, <1>5, <1>7 DEF KnownInv, ViewKnows
<1>12. NewKnows'
  <2> SUFFICES ASSUME NEW q \in Proc, Holds(q)', pc'[q] = "rename" PROVE FALSE
    BY DEF NewKnows
  <2> QED  BY <1>2, <1>5, <1>7, Alone
<1>13. OneArray'  BY <1>6 DEF KnownInv, OneArray
<1> QED  BY <1>8, <1>9, <1>10, <1>11, <1>12, <1>13 DEF KnownInv
\* No array of that uuid is there, since the map would know it.
LEMMA MakeStays ==
  ASSUME MapTypes, KnownInv, LockInv, Careful, NEW p \in Device, MakeArray(p)
  PROVE  KnownInv'
<1>0. /\ p \in Proc /\ DOMAIN pc = Proc /\ target \in [Proc -> Md \cup {None}]
      /\ view \in [Proc -> Seq(Line)] /\ md \in [Md -> Array \cup {None}]
  BY DEF Proc, LockInv, LockTypes, MapTypes
<1>1. UNCHANGED <<sb, map, new, drop>> /\ pc[p] = "find"  BY MakeIs
<1>2. CASE UNCHANGED <<md, view, target>> /\ pc' = [pc EXCEPT ![p] = "unlink"]
  BY <1>0, <1>1, <1>2, ElseStays DEF Knowing
<1>3. CASE ~(UNCHANGED <<md, view, target>> /\ pc' = [pc EXCEPT ![p] = "unlink"])
  <2> DEFINE u == sb[p].uuid
  <2>1. PICK n \in Md :
           /\ Free(n) /\ pc' = [pc EXCEPT ![p] = "write"]
           /\ md' = [md EXCEPT ![n] = [disks |-> <<p>>, active |-> FALSE]]
           /\ view' = [view EXCEPT ![p] = Updated(Valid(p, u), n, u)]
           /\ target' = [target EXCEPT ![p] = n]
    BY <1>3, MakeIs
  <2> DEFINE r == Updated(Valid(p, u), n, u)
  <2>2. Holds(p) /\ Locks(p) /\ Holds(p)' /\ Locks(p)'
    BY <1>0, <1>1, <2>1 DEF Holds, Locks, Inside
  <2>3. Knows(view[p])  BY <1>0, <1>1, <2>2 DEF KnownInv, ViewKnows, Knowing
  <2>4. \A m \in Md : Busy(m) => Uuid(m) # u
    <3> SUFFICES ASSUME NEW m \in Md, Busy(m), Uuid(m) = u PROVE FALSE  OBVIOUS
    <3>1. PICK j \in DOMAIN view[p] : view[p][j].md = m /\ view[p][j].uuid = u  BY <2>3 DEF Knows, Has
    <3>2. j \in Hits(p, u)  BY <3>1 DEF Hits
    <3> QED  BY <3>2 DEF MakeArray
  <2>5. ~Busy(n) /\ ~Freeing(n)  BY <2>1 DEF Free, Careful
  <2>6. /\ \E i \in DOMAIN r : r[i] = [md |-> n, uuid |-> u]
        /\ \A j \in DOMAIN view[p] : Busy(view[p][j].md) /\ view[p][j].md # n =>
               \E i \in DOMAIN r : r[i] = view[p][j]
    BY MakeLines
  <2>7. md'[n] = [disks |-> <<p>>, active |-> FALSE] /\ \A m \in Md \ {n} : md'[m] = md[m]
    BY <1>0, <2>1
  <2>8. Uuid(n)' = u  BY <1>1, <2>7 DEF Uuid
  <2>9. \A m \in Md \ {n} : (Busy(m)' <=> Busy(m)) /\ Uuid(m)' = Uuid(m)  BY <1>1, <2>7 DEF Busy, Uuid
  <2> HIDE DEF r, u
  <2>10. /\ \A q \in Proc \ {p} : pc'[q] = pc[q] /\ target'[q] = target[q] /\ view'[q] = view[q]
         /\ pc'[p] = "write" /\ target'[p] = n /\ view'[p] = r
    BY <1>0, <2>1 DEF r
  <2>11. \A q \in Proc \ {p} : (Holds(q)' <=> Holds(q)) /\ (Locks(q)' <=> Locks(q)) /\ (Stopper(q)' <=> Stopper(q))
    BY <2>10 DEF Holds, Locks, Stopper
  <2>12. \A q \in Proc \ {p} : ~Holds(q)  BY <1>0, <2>2, Alone
  <2>13. StoppedGone'
    <3> SUFFICES ASSUME NEW q \in Proc, Stopper(q)' PROVE ~Busy(target[q])'  BY DEF StoppedGone
    <3>1. q # p  BY ProcAssumption DEF Stopper
    <3>2. Stopper(q) /\ target'[q] = target[q] /\ target[q] \in Md  BY <1>0, <2>10, <2>11, <3>1 DEF Stopper
    <3>3. ~Busy(target[q])  BY <3>2 DEF KnownInv, StoppedGone
    <3>4. target[q] # n  BY <2>5, <3>2 DEF Freeing, Stopper
    <3>5. md'[target[q]] = md[target[q]]  BY <2>7, <3>2, <3>4
    <3> QED  BY <3>2, <3>3, <3>5 DEF Busy
  <2>14. ReadersRead'
    BY <1>1, <2>2, <2>10, <2>11 DEF KnownInv, ReadersRead
  <2>15. MapKnows'
    <3> SUFFICES ASSUME NEW m \in Md, Busy(m)' PROVE map' = None \/ Has(map, m)' \/ Maker(m)'
      BY DEF MapKnows
    <3>1. CASE m = n  BY <2>10, <3>1 DEF Maker
    <3>2. CASE m # n
      <4>1. map = None \/ Has(map, m) \/ Maker(m)  BY <2>9, <3>2 DEF KnownInv, MapKnows
      <4>2. Has(map, m) => Has(map, m)'  BY <1>1, <2>9, <3>2 DEF Has
      <4>3. ASSUME Maker(m) PROVE Maker(m)'
        <5>1. PICK d \in Device : pc[d] \in {"write", "rename"} /\ target[d] = m  BY <4>3 DEF Maker
        <5>2. d # p /\ d \in Proc  BY <1>1, <5>1 DEF Proc
        <5> QED  BY <2>10, <5>1, <5>2 DEF Maker
      <4> QED  BY <1>1, <4>1, <4>2, <4>3
    <3> QED  BY <3>1, <3>2
  <2>16. ViewKnows'
    <3> SUFFICES ASSUME NEW q \in Proc, Holds(q)', NEW m \in Md, Busy(m)' PROVE Has(view[q], m)'
      BY DEF ViewKnows, Knows
    <3>1. q = p  BY <2>11, <2>12
    <3>2. CASE m = n
      <4>1. PICK i \in DOMAIN r : r[i] = [md |-> n, uuid |-> u]  BY <2>6
      <4> QED  BY <2>8, <2>10, <3>1, <3>2, <4>1 DEF Has
    <3>3. CASE m # n
      <4>1. Busy(m) /\ Uuid(m)' = Uuid(m)  BY <2>9, <3>3
      <4>2. PICK j \in DOMAIN view[p] : view[p][j].md = m /\ view[p][j].uuid = Uuid(m)
        BY <2>3, <4>1 DEF Knows, Has
      <4>3. PICK i \in DOMAIN r : r[i] = view[p][j]  BY <2>6, <3>3, <4>1, <4>2
      <4> QED  BY <2>10, <3>1, <4>1, <4>2, <4>3 DEF Has
    <3> QED  BY <3>2, <3>3
  <2>17. NewKnows'
    BY <2>10, <2>11, <2>12 DEF NewKnows
  <2>18. OneArray'
    <3> SUFFICES ASSUME NEW m \in Md, NEW k \in Md, Busy(m)', Busy(k)', Uuid(m)' = Uuid(k)' PROVE m = k
      BY DEF OneArray
    <3>1. \A j \in Md : j # n /\ Busy(j)' => Busy(j) /\ Uuid(j)' # u  BY <2>4, <2>9
    <3> QED  BY <2>8, <2>9, <3>1 DEF KnownInv, OneArray
  <2> QED  BY <2>13, <2>14, <2>15, <2>16, <2>17, <2>18 DEF KnownInv
<1> QED  BY <1>2, <1>3

\* The map knows every array, whoever is killed after it recorded what it made.
THEOREM MapIsKnown ==
  ASSUME Careful
  PROVE  Spec => []KnownInv
<1>1. MapTypes /\ KnownInv /\ LockInv /\ [Next]_vars => KnownInv'
  <2> SUFFICES ASSUME MapTypes, KnownInv, LockInv, [Next]_vars PROVE KnownInv'  OBVIOUS
  <2>1. ASSUME NEW p \in Proc, Step(p) \/ Kill(p) PROVE KnownInv'
    BY <2>1, LocalSteps, ReadStays, WriteStays, RenameStays, MakeStays, ArrayStays, DeleteStays DEF Step
  <2>2. CASE UNCHANGED vars
    <3>1. \A n \in Md : (Busy(n)' <=> Busy(n)) /\ Uuid(n)' = Uuid(n)
      BY <2>2 DEF vars, Busy, Uuid
    <3>2. \A q \in Proc : (Holds(q)' <=> Holds(q)) /\ (Locks(q)' <=> Locks(q)) /\ (Stopper(q)' <=> Stopper(q))
      BY <2>2 DEF vars, procVars, Holds, Locks, Stopper
    <3>3. StoppedGone' /\ ReadersRead' /\ OneArray'
      BY <2>2, <3>1, <3>2 DEF vars, fileVars, procVars, KnownInv, StoppedGone, ReadersRead, OneArray, Busy
    <3>4. MapKnows' /\ ViewKnows' /\ NewKnows'
      BY <2>2, <3>1, <3>2 DEF vars, fileVars, procVars, KnownInv, MapKnows, ViewKnows, NewKnows, Knows, Has, Maker
    <3> QED  BY <3>3, <3>4 DEF KnownInv
  <2>3. \A d \in Device, s \in Other : d \in Proc /\ s \in Proc  BY DEF Proc
  <2>4. ASSUME NEW d \in Device, Appear(d) PROVE KnownInv'  BY <2>3, <2>4, LocalSteps DEF Proc
  <2>5. ASSUME NEW s \in Other, ReadUnlocked(s) PROVE KnownInv'  BY <2>3, <2>5, LocalSteps DEF Proc
  <2>6. ASSUME NEW s \in Other, NEW n \in Md, StopArray(s, n) PROVE KnownInv'  BY <2>6, StopStays
  <2>7. ASSUME NEW n \in Md, LastResort(n) PROVE KnownInv'  BY <2>7, TimerStays
  <2> QED  BY <2>1, <2>2, <2>4, <2>5, <2>6, <2>7 DEF Next
<1> QED  BY <1>1, MapTypesHold, LockInvariant, InitKnown, PTL DEF Spec

\* The disks of an array all find each other (Incremental.c, map_by_uuid).
THEOREM OneArrayAlways ==
  ASSUME Careful
  PROVE  Spec => []OneArray
<1>1. KnownInv => OneArray  BY DEF KnownInv
<1> QED  BY <1>1, MapIsKnown, PTL

-----------------------------------------------------------------------------
(* Who an array is started with.                                            *)

\* What a disk says is the newest of S, and among these it has the lowest slot.
BestOf(b, S, say) ==
    /\ b \in S
    /\ \A e \in S : /\ say[e].events <= say[b].events
                    /\ say[e].events = say[b].events => say[b].slot <= say[e].slot

\* Without the disks D, none of S that the driver takes contradicts the best;
\* if that is one of D, all of S are.
Settled(S, D, say) ==
    \A b \in S : BestOf(b, S, say) =>
        /\ b \in D => S \subseteq D
        /\ \A e \in S \ D : say[e].events + 1 >= say[b].events => say[b].slot \in say[e].sees

\* None of S takes the newest for failed.
Agree(S, say) ==
    \E d \in S : \A e \in S : say[e].events <= say[d].events /\ say[d].slot \in say[e].sees

\* Superblocks have slots and event counts.
LEMMA Superblocks ==
  ASSUME NEW say \in Boots, NEW d \in Device
  PROVE  /\ say[d].events \in Nat /\ say[d].slot \in Nat /\ say[d].slot \in say[d].sees
  BY BootsAssumption

\* A set of numbers has a least.
LEMMA Least ==
  ASSUME NEW I \in SUBSET Nat, I # {}
  PROVE  \E m \in I : \A k \in I : m <= k
<1> DEFINE R == {ss \in Nat \X Nat : ss[1] < ss[2]}
<1>1. IsWellFoundedOn(R, Nat)  BY NatLessThanWellFounded DEF OpToRel
<1> HIDE DEF R
<1>2. PICK m \in I : \A k \in I : ~(<<k, m>> \in R)  BY <1>1, WFMin
<1>3. \A k \in I : ~(k < m)  BY <1>2 DEF R
<1> QED  BY <1>3

\* Some disk of a list is the best.
LEMMA SomeBest ==
  ASSUME sb \in Boots, NEW disks \in Seq(Device), disks # <<>>
  PROVE  \E b \in ToSet(disks) : BestOf(b, ToSet(disks), sb)
<1> DEFINE S == ToSet(disks)
<1>1. \A d \in S : d \in Device /\ sb[d].events \in Nat /\ sb[d].slot \in Nat
  <2>1. \A i \in DOMAIN disks : disks[i] \in Device  BY SomeNewest
  <2> QED  BY <2>1, Superblocks DEF ToSet
<1>2. PICK d \in S : \A e \in S : sb[e].events <= sb[d].events
  BY SomeNewest DEF ToSet
<1> HIDE DEF S
<1> DEFINE New == {e \in S : sb[e].events = sb[d].events}
           I   == {sb[e].slot : e \in New}
<1>3. I \in SUBSET Nat /\ I # {}  BY <1>1
<1>4. PICK m \in I : \A k \in I : m <= k  BY <1>3, Least
<1>5. PICK b \in New : m = sb[b].slot  OBVIOUS
<1>6. BestOf(b, S, sb)
  <2>1. b \in S /\ sb[b].events = sb[d].events  OBVIOUS
  <2>2. ASSUME NEW e \in S, sb[e].events = sb[b].events PROVE sb[b].slot <= sb[e].slot
    <3>1. sb[e].slot \in I  BY <2>1, <2>2
    <3> QED  BY <1>4, <1>5, <3>1
  <2>3. \A e \in S : sb[e].events <= sb[b].events  BY <1>2, <2>1
  <2> QED  BY <2>1, <2>2, <2>3 DEF BestOf
<1> QED  BY <1>6 DEF New, S

\* One disk does not contradict itself, whatever is taken out.
LEMMA OneIsSettled ==
  ASSUME NEW say \in Boots, NEW d \in Device, NEW D
  PROVE  Settled({d}, D, say)
  BY Superblocks DEF Settled

\* Two that are the best are of one slot.
LEMMA SameSlot ==
  ASSUME NEW say \in Boots, NEW S \in SUBSET Device, NEW a \in S, NEW b \in S,
         BestOf(a, S, say), BestOf(b, S, say)
  PROVE  say[a].slot = say[b].slot /\ say[a].events = say[b].events
<1>1. /\ say[a].events \in Nat /\ say[b].events \in Nat
      /\ say[a].slot \in Nat /\ say[b].slot \in Nat
  BY Superblocks
<1>2. say[a].events = say[b].events  BY <1>1 DEF BestOf
<1> QED  BY <1>1, <1>2 DEF BestOf

\* Taking out what somebody else found to be too old leaves it settled.
LEMMA StaysSettled ==
  ASSUME NEW say \in Boots, NEW S \in SUBSET Device, NEW D, NEW E,
         NEW b \in S, BestOf(b, S, say), Settled(S, D, say), Settled(S, E, say)
  PROVE  Settled(S \ E, D, say)
<1>1. CASE b \in E
  <2>1. S \ E = {}  BY <1>1 DEF Settled
  <2> QED  BY <2>1 DEF Settled
<1>2. CASE b \notin E
  <2> SUFFICES ASSUME NEW c \in S \ E, BestOf(c, S \ E, say)
               PROVE  /\ c \in D => S \ E \subseteq D
                      /\ \A e \in (S \ E) \ D : say[e].events + 1 >= say[c].events => say[c].slot \in say[e].sees
    BY DEF Settled
  <2>1. BestOf(b, S \ E, say)  BY <1>2 DEF BestOf
  <2>2. say[c].slot = say[b].slot /\ say[c].events = say[b].events
    BY <1>2, <2>1, SameSlot
  <2>3. BestOf(c, S, say)  BY <2>2 DEF BestOf
  <2> QED  BY <2>3 DEF Settled
<1> QED  BY <1>1, <1>2

\* An array that is settled is run on disks that agree.
LEMMA SettledAgrees ==
  ASSUME NEW say \in Boots, NEW S \in SUBSET Device, NEW D, NEW b \in S, BestOf(b, S, say),
         Settled(S, D, say), S \ D # {},
         NEW R, R \subseteq S \ D, \A e \in R : \A f \in S \ D : say[e].events + 1 >= say[f].events,
         \A e \in S \ D : (\A f \in S \ D : say[e].events + 1 >= say[f].events) => e \in R
  PROVE  Agree(R, say)
<1>1. b \in S \ D  BY DEF Settled
<1>2. \A f \in S : say[f].events <= say[b].events /\ say[f].events \in Nat /\ say[b].events \in Nat
  BY Superblocks DEF BestOf
<1>3. \A f \in S \ D : say[b].events + 1 >= say[f].events  BY <1>2
<1>4. b \in R  BY <1>1, <1>3
<1>5. \A e \in R : say[b].slot \in say[e].sees  BY <1>1 DEF Settled
<1> QED  BY <1>2, <1>4, <1>5 DEF Agree

\* mdadm-last-resort does not start an array, and none gets a disk while it is started.
NoneLate == Happens \cap {"late", "timer"} = {}

\* A process has counted the disks of n, and is about to start it.
Leaving      == {"unlink", "close", "start"}
Leaves(d, n) == pc[d] \in Leaving /\ target[d] = n /\ drop[d] # None

DropOnlyThen == \A p \in Proc : /\ pc[p] \notin Leaving => drop[p] = None
                                /\ pc[p] = "start" => drop[p] # None
Ready == \A d \in Device, n \in Md :
    Leaves(d, n) /\ Busy(n) /\ ~md[n].active => Settled(Disks(n), drop[d], sb)
RunAgree == \A n \in Md : Busy(n) /\ md[n].active => Agree(Disks(n), sb)

RivalInv == DropOnlyThen /\ Ready /\ RunAgree

\* At first there is nothing to start.
LEMMA InitRival == Init => RivalInv
<1> SUFFICES ASSUME Init PROVE RivalInv  OBVIOUS
<1>1. /\ \A n \in Md : ~Busy(n)
      /\ \A p \in Proc : drop[p] = None /\ pc[p] = "idle"
  BY DEF Init, Busy
<1> QED  BY <1>1 DEF RivalInv, DropOnlyThen, Ready, RunAgree

\* A step that touches no array, and counts nothing.
LEMMA RivalKept ==
  ASSUME RivalInv, NEW p \in Proc, UNCHANGED <<sb, md>>,
         \A q \in Proc \ {p} : pc'[q] = pc[q] /\ target'[q] = target[q] /\ drop'[q] = drop[q],
         pc'[p] \in Leaving \/ drop'[p] = None, pc'[p] = "start" => drop'[p] # None,
         drop'[p] # None => /\ pc[p] \in Leaving
                            /\ target'[p] = target[p] /\ drop'[p] = drop[p]
  PROVE  RivalInv'
<1> USE DEF RivalInv
<1>1. DropOnlyThen'  BY DEF DropOnlyThen
<1>2. Ready'
  <2> SUFFICES ASSUME NEW d \in Device, NEW n \in Md, Leaves(d, n)', Busy(n)', ~md'[n].active
               PROVE  Settled(Disks(n), drop[d], sb)'
    BY DEF Ready
  <2>1. d \in Proc  BY DEF Proc
  <2>2. Leaves(d, n) /\ drop'[d] = drop[d]  BY <2>1 DEF Leaves
  <2>3. Settled(Disks(n), drop[d], sb)  BY <2>2 DEF Ready, Busy
  <2> QED  BY <2>2, <2>3 DEF Settled, BestOf, Disks
<1>3. RunAgree'  BY DEF RunAgree, Agree, Busy, Disks
<1> QED  BY <1>1, <1>2, <1>3

\* The steps that neither touch an array nor count its disks.
LEMMA PassingSteps ==
  ASSUME MapTypes, LockInv, RivalInv, NEW p \in Proc,
         \/ OpenLock(p) \/ Flock(p) \/ UnlinkLock(p) \/ CloseLock(p) \/ Kill(p)
         \/ ReadMap(p) \/ WriteNew(p) \/ RenameNew(p)
         \/ Appear(p) \/ GiveUp(p) \/ DeleteEntry(p) \/ ReadUnlocked(p)
  PROVE  RivalInv'
<1> USE DEF Go, Leaving
<1>0. /\ DOMAIN pc = Proc /\ DOMAIN target = Proc /\ DOMAIN drop = Proc
      /\ pc[p] \notin Leaving => drop[p] = None
      /\ pc[p] = "start" => drop[p] # None
  BY DEF MapTypes, LockInv, LockTypes, RivalInv, DropOnlyThen
<1>1. CASE OpenLock(p)  BY <1>0, <1>1, RivalKept DEF OpenLock
<1>2. CASE Flock(p)  BY <1>0, <1>2, RivalKept DEF Flock
<1>3. CASE UnlinkLock(p)  BY <1>0, <1>3, RivalKept DEF UnlinkLock
<1>4. CASE CloseLock(p)
  <2>1. /\ UNCHANGED <<sb, md, drop>> /\ pc[p] = "close"
        /\ pc'[p] = IF drop[p] = None THEN "done" ELSE "start"
        /\ target'[p] = IF drop[p] = None THEN None ELSE target[p]
        /\ \A q \in Proc \ {p} : pc'[q] = pc[q] /\ target'[q] = target[q]
    BY <1>0, <1>4 DEF CloseLock
  <2> QED  BY <2>1, RivalKept
<1>5. CASE Kill(p)  BY <1>0, <1>5, RivalKept DEF Kill
<1>6. CASE ReadMap(p)  BY <1>0, <1>6, RivalKept DEF ReadMap, AfterRead
<1>7. CASE WriteNew(p)  BY <1>0, <1>7, RivalKept DEF WriteNew
<1>8. CASE RenameNew(p)
  <2>1. next[p] # "start"  BY <1>8 DEF RenameNew, LockInv, GoesOn
  <2> QED  BY <1>0, <1>8, <2>1, RivalKept DEF RenameNew
<1>9. CASE Appear(p)  BY <1>0, <1>9, RivalKept DEF Appear
<1>10. CASE GiveUp(p)  BY <1>0, <1>10, RivalKept DEF GiveUp
<1>11. CASE DeleteEntry(p)  BY <1>0, <1>11, RivalKept DEF DeleteEntry
<1>12. CASE ReadUnlocked(p)  BY <1>0, <1>12, RivalKept DEF ReadUnlocked
<1> QED  BY <1>1, <1>2, <1>3, <1>4, <1>5, <1>6, <1>7, <1>8, <1>9, <1>10, <1>11, <1>12

\* What count_active leaves out settles what it has counted.
LEMMA CountedSettled ==
  ASSUME sb \in Boots, NEW disks \in Seq(Device), disks # <<>>
  PROVE  Settled(ToSet(disks), Reject(disks), sb)
<1> DEFINE S == ToSet(disks)
           best == CHOOSE d \in S :
                      /\ sb[d].events = Newest(disks)
                      /\ \A e \in S : sb[e].events = Newest(disks) => sb[d].slot <= sb[e].slot
<1>1. /\ S \in SUBSET Device /\ \A d \in S : sb[d].events \in Nat
      /\ Events(disks) = {sb[d].events : d \in S}
  BY SomeNewest DEF ToSet, Events
<1>2. Reject(disks) = {d \in S : sb[d].events + 1 >= Newest(disks) /\ sb[best].slot \notin sb[d].sees}
  BY DEF Reject, Present
<1>3. PICK b \in S : BestOf(b, S, sb)  BY SomeBest
<1> HIDE DEF S
<1>4. \A e \in S : sb[e].events <= sb[b].events  BY <1>3 DEF BestOf
<1>5. Newest(disks) = sb[b].events
  <2>1. sb[b].events \in Events(disks) /\ \A f \in Events(disks) : f <= sb[b].events
    BY <1>1, <1>4
  <2>2. Newest(disks) \in Events(disks) /\ \A f \in Events(disks) : f <= Newest(disks)
    BY <2>1 DEF Newest
  <2>3. \A f \in Events(disks) : f \in Nat  BY <1>1
  <2> QED  BY <2>1, <2>2, <2>3
<1>6. BestOf(best, S, sb)
  <2>1. /\ sb[b].events = Newest(disks)
        /\ \A e \in S : sb[e].events = Newest(disks) => sb[b].slot <= sb[e].slot
    BY <1>3, <1>5 DEF BestOf
  <2>2. /\ best \in S /\ sb[best].events = Newest(disks)
        /\ \A e \in S : sb[e].events = Newest(disks) => sb[best].slot <= sb[e].slot
    BY <2>1
  <2> QED  BY <1>4, <1>5, <2>2 DEF BestOf
<1> HIDE DEF best
<1>7. ASSUME NEW c \in S, BestOf(c, S, sb)
      PROVE  /\ c \in Reject(disks) => S \subseteq Reject(disks)
             /\ \A e \in S \ Reject(disks) : sb[e].events + 1 >= sb[c].events => sb[c].slot \in sb[e].sees
  <2>1. sb[c].slot = sb[best].slot /\ sb[c].events = Newest(disks)
    BY <1>1, <1>3, <1>5, <1>6, <1>7, SameSlot DEF BestOf
  <2>2. sb[c].slot \in sb[c].sees  BY <1>1, Superblocks
  <2> QED  BY <1>2, <2>1, <2>2
<1> QED  BY <1>7 DEF Settled, S

\* count_active.
LEMMA CountRival ==
  ASSUME MapTypes, LockInv, RivalInv, NEW p \in Device, Count(p)
  PROVE  RivalInv'
<1>0. p \in Proc /\ DOMAIN pc = Proc /\ DOMAIN drop = Proc /\ md \in [Md -> Array \cup {None}] /\ sb \in Boots
  BY DEF Proc, MapTypes, LockInv, LockTypes
<1>1. /\ UNCHANGED <<sb, md, target>> /\ pc[p] = "count"
      /\ pc' = [pc EXCEPT ![p] = "unlink"] /\ \A q \in Proc \ {p} : drop'[q] = drop[q]
      /\ drop'[p] # None => /\ Busy(target[p])
                            /\ drop'[p] = Reject(md[target[p]].disks)
  <2>1. CASE ~Busy(target[p]) /\ UNCHANGED <<drop, unsafe>>
    <3>1. drop[p] = None  BY <1>0 DEF Count, RivalInv, DropOnlyThen, Leaving
    <3> QED  BY <1>0, <2>1, <3>1 DEF Count, Go
  <2>2. CASE Busy(target[p])
    <3>1. \/ drop' = [drop EXCEPT ![p] = Reject(md[target[p]].disks)]
          \/ drop' = [drop EXCEPT ![p] = None]
      BY <2>2 DEF Count
    <3>2. UNCHANGED <<sb, md, target>> /\ pc[p] = "count" /\ pc' = [pc EXCEPT ![p] = "unlink"]
      BY DEF Count, Go
    <3> QED  BY <1>0, <2>2, <3>1, <3>2
  <2> QED  BY <2>1, <2>2 DEF Count
<1>2. /\ \A q \in Proc \ {p} : pc'[q] = pc[q] /\ drop'[q] = drop[q]
      /\ pc'[p] = "unlink"
  BY <1>0, <1>1
<1>3. DropOnlyThen'  BY <1>2 DEF RivalInv, DropOnlyThen, Leaving
<1>4. Ready'
  <2> SUFFICES ASSUME NEW d \in Device, NEW n \in Md, Leaves(d, n)', Busy(n)', ~md'[n].active
               PROVE  Settled(Disks(n), drop[d], sb)'
    BY DEF Ready
  <2>1. Settled(ToSet(md[n].disks), drop'[d], sb)
    <3>1. CASE d = p
      <4>1. target[p] = n /\ drop'[p] = Reject(md[n].disks) /\ Busy(n)
        BY <1>1, <3>1 DEF Leaves
      <4>2. md[n].disks \in Seq(Device) /\ md[n].disks # <<>>
        BY <1>0, <4>1 DEF MapTypes, Array, Busy
      <4> QED  BY <1>0, <3>1, <4>1, <4>2, CountedSettled
    <3>2. CASE d # p
      <4>1. Leaves(d, n) /\ drop'[d] = drop[d] /\ Busy(n) /\ ~md[n].active
        BY <1>1, <1>2, <3>2 DEF Leaves, Proc, Busy
      <4> QED  BY <4>1 DEF RivalInv, Ready, Disks
    <3> QED  BY <3>1, <3>2
  <2> QED  BY <1>1, <2>1 DEF Settled, BestOf, Disks
<1>5. RunAgree'  BY <1>1 DEF RivalInv, RunAgree, Agree, Busy, Disks
<1> QED  BY <1>3, <1>4, <1>5 DEF RivalInv

\* A step that touches the array n and no other, and counts nothing.
LEMMA RivalElse ==
  ASSUME MapTypes, RivalInv, NEW p \in Proc, NEW n \in Md, sb' = sb,
         \A m \in Md \ {n} : md'[m] = md[m],
         \A q \in Proc \ {p} : pc'[q] = pc[q] /\ target'[q] = target[q] /\ drop'[q] = drop[q],
         drop'[p] = None, pc'[p] # "start",
         Busy(n)' /\ md'[n].active => Agree(ToSet(md'[n].disks), sb),
         Busy(n)' /\ ~md'[n].active => \A d \in Device : Leaves(d, n) => Settled(ToSet(md'[n].disks), drop[d], sb)
  PROVE  RivalInv'
<1> USE DEF RivalInv
<1>1. DropOnlyThen'  BY DEF DropOnlyThen
<1>2. Ready'
  <2> SUFFICES ASSUME NEW d \in Device, NEW m \in Md, Leaves(d, m)', Busy(m)', ~md'[m].active
               PROVE  Settled(Disks(m), drop[d], sb)'
    BY DEF Ready
  <2>1. d # p /\ d \in Proc  BY DEF Leaves, Proc
  <2>2. Leaves(d, m) /\ drop'[d] = drop[d]  BY <2>1 DEF Leaves
  <2>3. Settled(ToSet(md'[m].disks), drop'[d], sb)
    <3>1. CASE m = n  BY <2>2, <3>1
    <3>2. CASE m # n  BY <2>2, <3>2 DEF Ready, Busy, Disks
    <3> QED  BY <3>1, <3>2
  <2> QED  BY <2>3 DEF Settled, BestOf, Disks
<1>3. RunAgree'
  <2> SUFFICES ASSUME NEW m \in Md, Busy(m)', md'[m].active PROVE Agree(Disks(m), sb)'
    BY DEF RunAgree
  <2>1. Agree(ToSet(md'[m].disks), sb)
    <3>1. CASE m = n  BY <3>1
    <3>2. CASE m # n  BY <3>2 DEF RunAgree, Busy, Disks
    <3> QED  BY <3>1, <3>2
  <2> QED  BY <2>1 DEF Agree, Disks
<1> QED  BY <1>1, <1>2, <1>3

\* An array of one disk is settled, whoever still wants to start what was there before.
LEMMA MakeRival ==
  ASSUME MapTypes, LockInv, RivalInv, NEW p \in Device, MakeArray(p)
  PROVE  RivalInv'
<1>0. p \in Proc /\ DOMAIN pc = Proc /\ DOMAIN target = Proc /\ md \in [Md -> Array \cup {None}] /\ sb \in Boots
  BY DEF Proc, MapTypes, LockInv, LockTypes
<1>1. UNCHANGED <<sb, drop>> /\ pc[p] = "find"  BY MakeIs
<1>2. drop[p] = None  BY <1>0, <1>1 DEF RivalInv, DropOnlyThen, Leaving
<1>3. CASE UNCHANGED <<md, target>> /\ pc' = [pc EXCEPT ![p] = "unlink"]
  BY <1>0, <1>1, <1>2, <1>3, RivalKept
<1>4. CASE ~(UNCHANGED <<md, target>> /\ pc' = [pc EXCEPT ![p] = "unlink"])
  <2>1. PICK n \in Md :
           /\ md' = [md EXCEPT ![n] = [disks |-> <<p>>, active |-> FALSE]]
           /\ target' = [target EXCEPT ![p] = n]
           /\ pc' = [pc EXCEPT ![p] = "write"]
    BY <1>4, MakeIs
  <2>2. md'[n] = [disks |-> <<p>>, active |-> FALSE] /\ \A m \in Md \ {n} : md'[m] = md[m]
    BY <1>0, <2>1
  <2>3. ToSet(md'[n].disks) = {p} /\ ~md'[n].active
    <3>1. ToSet(<<p>>) = {p}  BY DEF ToSet
    <3> QED  BY <2>2, <3>1
  <2>4. \A D : Settled({p}, D, sb)  BY <1>0, OneIsSettled
  <2>5. pc'[p] = "write" /\ \A q \in Proc \ {p} : pc'[q] = pc[q] /\ target'[q] = target[q]  BY <1>0, <2>1
  <2>6. \A d \in Device : Settled(ToSet(md'[n].disks), drop[d], sb)  BY <2>3, <2>4
  <2> QED  BY <1>0, <1>1, <1>2, <2>2, <2>3, <2>5, <2>6, RivalElse
<1> QED  BY <1>3, <1>4

\* No disk is added to an array that is about to be started.
LEMMA JoinRival ==
  ASSUME MapTypes, LockInv, RivalInv, NoneLate, NEW p \in Device, JoinArray(p)
  PROVE  RivalInv'
<1>0. p \in Proc /\ DOMAIN pc = Proc /\ DOMAIN target = Proc /\ md \in [Md -> Array \cup {None}] /\ sb \in Boots
  BY DEF Proc, MapTypes, LockInv, LockTypes
<1>1. UNCHANGED <<sb, drop>> /\ pc[p] = "find"  BY JoinIs
<1>2. drop[p] = None  BY <1>0, <1>1 DEF RivalInv, DropOnlyThen, Leaving
<1>3. CASE UNCHANGED <<md, target>> /\ pc' = [pc EXCEPT ![p] = "unlink"]
  BY <1>0, <1>1, <1>2, <1>3, RivalKept
<1>4. CASE ~(UNCHANGED <<md, target>> /\ pc' = [pc EXCEPT ![p] = "unlink"])
  <2>1. PICK n \in Md :
           /\ ~Starting(n)
           /\ md' = [md EXCEPT ![n] = [disks |-> <<p>> \o md[n].disks, active |-> FALSE]]
           /\ target' = [target EXCEPT ![p] = n]
           /\ pc' = [pc EXCEPT ![p] = "count"]
    BY <1>4, JoinIs DEF NoneLate
  <2>2. ~md'[n].active /\ \A m \in Md \ {n} : md'[m] = md[m]  BY <1>0, <2>1
  <2>3. \A d \in Device : ~Leaves(d, n)  BY <2>1 DEF Leaves, Leaving, Starting
  <2>4. pc'[p] = "count" /\ \A q \in Proc \ {p} : pc'[q] = pc[q] /\ target'[q] = target[q]  BY <1>0, <2>1
  <2> QED  BY <1>0, <1>1, <1>2, <2>2, <2>3, <2>4, RivalElse
<1> QED  BY <1>3, <1>4

\* STOP_ARRAY.
LEMMA StopRival ==
  ASSUME MapTypes, LockInv, RivalInv, NEW s \in Other, NEW n \in Md, StopArray(s, n)
  PROVE  RivalInv'
<1>0. s \in Proc /\ DOMAIN pc = Proc /\ DOMAIN target = Proc /\ md \in [Md -> Array \cup {None}]
  BY DEF Proc, MapTypes, LockInv, LockTypes
<1>1. UNCHANGED <<sb, drop>> /\ pc[s] = "idle"  BY DEF StopArray
<1>2. drop[s] = None  BY <1>0, <1>1 DEF RivalInv, DropOnlyThen, Leaving
<1>3. md'[n] = None /\ \A m \in Md \ {n} : md'[m] = md[m]  BY <1>0 DEF StopArray
<1>4. pc'[s] = "lock" /\ \A q \in Proc \ {s} : pc'[q] = pc[q] /\ target'[q] = target[q]
  BY <1>0 DEF StopArray, Go
<1>5. ~Busy(n)'  BY <1>3 DEF Busy
<1> QED  BY <1>0, <1>1, <1>2, <1>3, <1>4, <1>5, RivalElse

\* RUN_ARRAY runs what is left of a settled array on disks that agree, or leaves it settled.
LEMMA StartRival ==
  ASSUME MapTypes, LockInv, RivalInv, NEW p \in Device, Start(p)
  PROVE  RivalInv'
<1>0. p \in Proc /\ DOMAIN pc = Proc /\ DOMAIN target = Proc /\ DOMAIN drop = Proc
      /\ md \in [Md -> Array \cup {None}] /\ sb \in Boots
  BY DEF Proc, MapTypes, LockInv, LockTypes
<1>1. /\ sb' = sb /\ pc[p] = "start" /\ drop'[p] = None /\ pc'[p] = "done"
      /\ \A q \in Proc \ {p} : pc'[q] = pc[q] /\ target'[q] = target[q] /\ drop'[q] = drop[q]
  BY <1>0 DEF Start, Go
<1>2. CASE UNCHANGED md  BY <1>0, <1>1, <1>2, RivalKept
<1>3. CASE ~UNCHANGED md
  <2>1. PICK n \in Md :
           /\ n = target[p] /\ Busy(n) /\ ~md[n].active
           /\ Run(n, Kept(md[n].disks, {i \in DOMAIN md[n].disks : md[n].disks[i] \notin drop[p]}))
    <3>1. target[p] \in Md  BY <1>0, <1>3 DEF Start, Run
    <3> QED  BY <1>3, <3>1 DEF Start
  <2> DEFINE disks == md[n].disks
             I     == {i \in DOMAIN disks : disks[i] \notin drop[p]}
             left  == Kept(disks, I)
             S     == ToSet(disks)
             D     == drop[p]
  <2>2. Run(n, left)  BY <2>1
  <2>3. disks \in Seq(Device) /\ disks # <<>>  BY <1>0, <2>1 DEF MapTypes, Array, Busy
  <2>4. /\ left \in Seq(Device)
        /\ \A i \in DOMAIN left : \E j \in I : left[i] = disks[j]
        /\ \A j \in I : \E i \in DOMAIN left : left[i] = disks[j]
    <3>1. I \in SUBSET DOMAIN disks  OBVIOUS
    <3> HIDE DEF I, disks
    <3> QED  BY <2>3, <3>1, KeepsAll
  <2>5. ToSet(left) = S \ D  
    <3> HIDE DEF left, disks
    <3> QED  BY <2>4 DEF ToSet
  <2>6. S \in SUBSET Device
    <3> HIDE DEF disks
    <3> QED  BY <2>3 DEF ToSet
  <2>7. Settled(S, D, sb) /\ \A d \in Device : Leaves(d, n) => Settled(S, drop[d], sb)
    <3>1. D # None  BY <1>0, <1>1 DEF RivalInv, DropOnlyThen
    <3> QED  BY <1>1, <2>1, <2>2, <3>1 DEF RivalInv, Ready, Leaves, Leaving, Disks
  <2>8. PICK b \in S : BestOf(b, S, sb)
    <3> HIDE DEF disks
    <3> QED  BY <1>0, <2>3, SomeBest
  <2> HIDE DEF disks, left, S, D
  <2>9. \A m \in Md \ {n} : md'[m] = md[m]  BY <1>0, <2>1, <2>2 DEF Run
  <2>10. CASE left = <<>>
    <3>1. md'[n] = None  BY <1>0, <2>1, <2>2, <2>10 DEF Run
    <3>2. ~Busy(n)'  BY <3>1 DEF Busy
    <3> QED  BY <1>0, <1>1, <2>2, <2>9, <3>2, RivalElse
  <2>11. CASE left # <<>> /\ md'[n] = [disks |-> left, active |-> FALSE]
    <3>1. ~md'[n].active /\ ToSet(md'[n].disks) = S \ D  BY <2>5, <2>11
    <3>2. ASSUME NEW d \in Device, Leaves(d, n) PROVE Settled(S \ D, drop[d], sb)
      BY <1>0, <2>6, <2>7, <2>8, <3>2, StaysSettled
    <3> QED  BY <1>0, <1>1, <2>2, <2>9, <3>1, <3>2, RivalElse
  <2>12. CASE left # <<>> /\ md'[n] = [disks |-> Fresh(left), active |-> TRUE]
    <3> DEFINE R == ToSet(Fresh(left))
    <3>1. /\ R \subseteq S \ D /\ \A e \in R : \A f \in S \ D : sb[e].events + 1 >= sb[f].events
          /\ \A e \in S \ D : (\A f \in S \ D : sb[e].events + 1 >= sb[f].events) => e \in R
      <4>1. /\ \A i \in DOMAIN Fresh(left) : \E j \in DOMAIN left :
                   /\ Fresh(left)[i] = left[j]
                   /\ \A f \in S \ D : sb[left[j]].events + 1 >= sb[f].events
            /\ \A j \in DOMAIN left : (\A f \in S \ D : sb[left[j]].events + 1 >= sb[f].events)
                   => \E i \in DOMAIN Fresh(left) : Fresh(left)[i] = left[j]
        BY <1>0, <2>4, <2>5, <2>12, FreshIsSome
      <4>2. /\ \A e \in R : \E i \in DOMAIN Fresh(left) : e = Fresh(left)[i]
            /\ \A i \in DOMAIN Fresh(left) : Fresh(left)[i] \in R
            /\ \A e \in S \ D : \E j \in DOMAIN left : e = left[j]
            /\ \A j \in DOMAIN left : left[j] \in S \ D
        BY <2>5 DEF ToSet
      <4> HIDE DEF R
      <4> QED  BY <4>1, <4>2
    <3>2. S \ D # {}
      <4>1. 1 \in DOMAIN left  BY <2>4, <2>12, EmptySeq
      <4> QED  BY <2>5, <4>1 DEF ToSet
    <3> HIDE DEF R
    <3>3. Agree(R, sb)  BY <1>0, <2>6, <2>7, <2>8, <3>1, <3>2, SettledAgrees
    <3>4. md'[n].active /\ Agree(ToSet(md'[n].disks), sb)  BY <2>12, <3>3 DEF R
    <3> QED  BY <1>0, <1>1, <2>2, <2>9, <3>4, RivalElse
  <2> QED  BY <1>0, <2>1, <2>2, <2>10, <2>11, <2>12 DEF Run
<1> QED  BY <1>2, <1>3

\* An array is run on disks that agree, unless one is added or a timer starts it meanwhile.
THEOREM RivalInvariant ==
  ASSUME NoneLate
  PROVE  Spec => []RivalInv
<1>1. MapTypes /\ LockInv /\ RivalInv /\ [Next]_vars => RivalInv'
  <2> SUFFICES ASSUME MapTypes, LockInv, RivalInv, [Next]_vars PROVE RivalInv'  OBVIOUS
  <2>1. ASSUME NEW p \in Proc, Step(p) \/ Kill(p) PROVE RivalInv'
    BY <2>1, PassingSteps, CountRival, MakeRival, JoinRival, StartRival DEF Step
  <2>2. CASE UNCHANGED vars
    <3>1. DropOnlyThen'  BY <2>2 DEF vars, procVars, RivalInv, DropOnlyThen
    <3>2. Ready'
      BY <2>2 DEF vars, procVars, RivalInv, Ready, Leaves, Busy, Disks, Settled, BestOf
    <3>3. RunAgree'  BY <2>2 DEF vars, RivalInv, RunAgree, Busy, Disks, Agree
    <3> QED  BY <3>1, <3>2, <3>3 DEF RivalInv
  <2>3. ASSUME NEW d \in Device, Appear(d) PROVE RivalInv'  BY <2>3, PassingSteps DEF Proc
  <2>4. ASSUME NEW s \in Other, ReadUnlocked(s) PROVE RivalInv'  BY <2>4, PassingSteps DEF Proc
  <2>5. ASSUME NEW n \in Md, LastResort(n) PROVE FALSE  BY <2>5 DEF LastResort, NoneLate
  <2> QED  BY <2>1, <2>2, <2>3, <2>4, <2>5, StopRival DEF Next
<1> QED  BY <1>1, MapTypesHold, LockInvariant, InitRival, PTL DEF Spec

\* An array is never run on disks that contradict each other (Incremental.c, count_active).
THEOREM NoRivalAlways ==
  ASSUME NoneLate
  PROVE  Spec => []NoRival
<1>1. RivalInv => NoRival  BY DEF RivalInv, RunAgree, Agree, NoRival
<1> QED  BY <1>1, RivalInvariant, PTL
=============================================================================
