--------------------------- MODULE IncrementalMap ---------------------------
(***************************************************************************)
(* udev runs one mdadm --incremental for every disk that appears. The      *)
(* processes find the array a disk belongs to in the map file (mapfile.c), *)
(* take turns by a lock on a file that its owner unlinks when it is done,  *)
(* and start an array when enough of its disks are there (Incremental.c).  *)
(* mdadm --stop takes an array out of the map again, a timer starts what   *)
(* is still incomplete, and any mdadm may read the map without the lock    *)
(* and write a new one if there is none.                                   *)
(***************************************************************************)
EXTENDS Naturals, FiniteSets, Sequences, SequencesExt

CONSTANTS Device,     \* disks, one udev event each
          Other,      \* other mdadm processes: mdadm --stop, and those that only read the map
          Md,         \* numbers of md devices
          Level,      \* Level[a]: the RAID level of array a, 1 or 5
          RaidDisks,  \* RaidDisks[a]: how many slots it has
          Boots,      \* what the disks may say: each a function from Device to superblocks
                      \*   [uuid, slot, events, sees (the slots it takes for working)]
          MaxKills,   \* how many processes are killed
          None,
          Happens     \* "kill": a process is killed, where it leaves no array unrecorded
                      \* "killearly": or between making an array and recording it
                      \* "late": a disk is added to an array that is just being started
                      \* "timer": mdadm-last-resort starts an incomplete array
                      \* "unlocked": the map is read without the lock when there is none
                      \* "reuse": an md number is used again before the map knows it was freed

ASSUME BootsAssumption ==
    \A b \in Boots : \A d \in Device :
        /\ Level[b[d].uuid] \in {1, 5} /\ RaidDisks[b[d].uuid] \in Nat \ {0}
        /\ b[d].events \in Nat \ {0} /\ b[d].slot \in 1..RaidDisks[b[d].uuid]
        /\ \A e \in Device \ {d} : b[e].uuid = b[d].uuid => b[e].slot # b[d].slot
        /\ b[d].slot \in b[d].sees /\ b[d].sees \subseteq 1..RaidDisks[b[d].uuid]
ASSUME MdAssumption == Md \subseteq Nat /\ IsFiniteSet(Md)
ASSUME MaxKillsAssumption == MaxKills \in Nat
ASSUME NoneAssumption == None \notin Device \cup Other \cup Md
ASSUME NoFileAssumption ==
    None \notin Seq([md : Md, uuid : {b[d].uuid : b \in Boots, d \in Device}])
ASSUME ProcAssumption == Device \cap Other = {}
ASSUME HappensAssumption == Happens \subseteq 
    {"kill", "killearly", "late", "timer", "unlocked", "reuse"}

Proc == Device \cup Other

VARIABLES
    sb,          \* the superblocks
    md,          \* md[n]: None, or the array: its disks (the newest first), and whether it runs
    lockfile,    \* the inode the lock file's name stands for, 0 if there is none
    inodes,      \* how many were made
    map, new,    \* the map file and map.new: None, or the lines [md, uuid]
    pc,
    fd, locked,  \* the inode a process has open, and whether it holds the lock on it
    view,        \* the map as the process read it
    next,        \* where it goes on when the map is written
    target,      \* the md device it is about
    drop,        \* disks it found to be too old, or None if it does not start the array
    unsafe       \* md devices that were left incomplete ("not enough to start safely")

fileVars == <<lockfile, inodes, map, new>>
procVars == <<pc, fd, locked, view, next, target, drop>>
vars == <<sb, md, fileVars, procVars, unsafe>>

Busy(n)  == md[n] # None
Uuid(n)  == sb[md[n].disks[1]].uuid
Disks(n) == ToSet(md[n].disks)

TypeOK ==
    /\ sb \in Boots
    /\ \A n \in Md : Busy(n) => /\ md[n].disks \in Seq(Device) /\ md[n].disks # <<>>
                                /\ md[n].active \in BOOLEAN
    /\ lockfile \in 0..inodes /\ inodes \in 0..Cardinality(Proc)
    /\ fd \in [Proc -> 0..inodes] /\ locked \in [Proc -> BOOLEAN]
    /\ target \in [Proc -> Md \cup {None}]
    /\ drop \in [Proc -> SUBSET Device \cup {None}]
    /\ unsafe \subseteq Md

Init ==
    /\ sb \in Boots
    /\ md = [n \in Md |-> None]
    /\ lockfile = 0 /\ inodes = 0 /\ map = None /\ new = None
    /\ pc = [p \in Proc |-> "idle"] /\ fd = [p \in Proc |-> 0]
    /\ locked = [p \in Proc |-> FALSE] /\ view = [p \in Proc |-> <<>>]
    /\ next = [p \in Proc |-> None] /\ target = [p \in Proc |-> None]
    /\ drop = [p \in Proc |-> None]
    /\ unsafe = {}

Go(p, l) == pc' = [pc EXCEPT ![p] = l]

\* The elements of s at the positions in I, in their order.
Kept(s, I) ==
    [i \in 1..Cardinality(I) |-> s[CHOOSE j \in I : Cardinality({k \in I : k <= j}) = i]]

-----------------------------------------------------------------------------
(* map_lock and map_unlock.                                                 *)

OpenLock(p) ==
    /\ pc[p] = "lock"
    /\ IF lockfile = 0
       THEN inodes' = inodes + 1 /\ lockfile' = inodes + 1
       ELSE UNCHANGED <<inodes, lockfile>>
    /\ fd' = [fd EXCEPT ![p] = lockfile']
    /\ Go(p, "flock")
    /\ UNCHANGED <<sb, md, map, new, locked, view, next, target, drop, unsafe>>

\* Mutant: nobody asks whether the file is still the lock file.
LinkedOrNot(p) == TRUE

Linked(p) == lockfile = fd[p]

\* flock, and fstat: only the owner unlinks the file, so nothing changes in
\* between. If an earlier owner unlinked it while p waited, p tries again.
Flock(p) ==
    /\ pc[p] = "flock"
    /\ \A q \in Proc : locked[q] => fd[q] # fd[p]
    /\ IF Linked(p)
       THEN locked' = [locked EXCEPT ![p] = TRUE] /\ Go(p, "read") /\ UNCHANGED fd
       ELSE fd' = [fd EXCEPT ![p] = 0] /\ Go(p, "lock") /\ UNCHANGED locked
    /\ UNCHANGED <<sb, md, fileVars, view, next, target, drop, unsafe>>

UnlinkLock(p) ==
    /\ pc[p] = "unlink"
    /\ lockfile' = 0
    /\ Go(p, "close")
    /\ UNCHANGED <<sb, md, inodes, map, new, fd, locked, view, next, target, drop, unsafe>>

\* Mutant: a way out that forgets map_unlock's close.
ReleaseNot(p) == UNCHANGED <<fd, locked, view, next>>

\* What the process forgets when it closes the file, or dies.
Release(p) ==
    /\ fd' = [fd EXCEPT ![p] = 0] /\ locked' = [locked EXCEPT ![p] = FALSE]
    /\ view' = [view EXCEPT ![p] = <<>>] /\ next' = [next EXCEPT ![p] = None]

CloseLock(p) ==
    /\ pc[p] = "close"
    /\ Release(p)
    /\ Go(p, IF drop[p] = None THEN "done" ELSE "start")
    /\ target' = [target EXCEPT ![p] = IF drop[p] = None THEN None ELSE @]
    /\ UNCHANGED <<sb, md, fileVars, drop, unsafe>>

-----------------------------------------------------------------------------
(* The map file. map_write opens map.new without O_TRUNC: what a longer     *)
(* one had beyond the new lines stays, if a writer was killed before it     *)
(* renamed the file.                                                        *)

Over(lines, old) ==
    IF old = None \/ Len(old) <= Len(lines) THEN lines
    ELSE lines \o SubSeq(old, Len(lines) + 1, Len(old))

\* map_read; RebuildMap reads /proc/mdstat and the superblocks.
Found == {[md |-> n, uuid |-> Uuid(n)] : n \in {m \in Md : Busy(m)}}
AfterRead(p) ==
    IF p \in Device THEN "find" ELSE IF target[p] = None THEN "done" ELSE "delete"

ReadMap(p) ==
    /\ pc[p] = "read"
    /\ \/ /\ map # None
          /\ view' = [view EXCEPT ![p] = map]
          /\ Go(p, AfterRead(p))
          /\ UNCHANGED next
       \/ /\ map = None
          /\ view' = [view EXCEPT ![p] = SetToSeq(Found)]
          /\ next' = [next EXCEPT ![p] = AfterRead(p)]
          /\ Go(p, "write")
    /\ UNCHANGED <<sb, md, fileVars, fd, locked, target, drop, unsafe>>

WriteNew(p) ==
    /\ pc[p] = "write"
    /\ new' = Over(view[p], new)
    /\ Go(p, "rename")
    /\ UNCHANGED <<sb, md, lockfile, inodes, map, fd, locked, view, next, target, drop, unsafe>>

\* The rename fails if another process renamed the file meanwhile.
RenameNew(p) ==
    /\ pc[p] = "rename"
    /\ IF new = None THEN UNCHANGED map ELSE map' = new
    /\ new' = None
    /\ Go(p, next[p])
    /\ UNCHANGED <<sb, md, lockfile, inodes, fd, locked, view, next, target, drop, unsafe>>

\* map_by_uuid passes over, and map_write leaves out, an array that is gone.
Hits(p, u)  == {i \in DOMAIN view[p] : view[p][i].uuid = u /\ Busy(view[p][i].md)}
Valid(p, u) == Kept(view[p], {i \in DOMAIN view[p] : view[p][i].uuid # u \/ Busy(view[p][i].md)})

Without(lines, n) == Kept(lines, {i \in DOMAIN lines : lines[i].md # n})

\* Mutant: the new line is all that is written.
UpdatedAlone(lines, n, u) == <<[md |-> n, uuid |-> u]>>

Updated(lines, n, u) ==
    IF \E i \in DOMAIN lines : lines[i].md = n
    THEN [i \in DOMAIN lines |-> IF lines[i].md = n THEN [md |-> n, uuid |-> u] ELSE lines[i]]
    ELSE <<[md |-> n, uuid |-> u]>> \o lines

-----------------------------------------------------------------------------
(* mdadm --incremental.                                                     *)

Appear(d) ==
    /\ pc[d] = "idle"
    /\ Go(d, "lock")
    /\ UNCHANGED <<sb, md, fileVars, fd, locked, view, next, target, drop, unsafe>>

Taken(d)   == \E n \in Md : Busy(n) /\ d \in Disks(n)
Freeing(n) == \E s \in Other : pc[s] \notin {"idle", "done", "killed"} /\ target[s] = n

\* find_free_devnm takes the highest number.
Free(n) == ~Busy(n) /\ ("reuse" \in Happens \/ ~Freeing(n))

\* No array of that uuid is known: make one of this disk alone.
MakeArray(d) ==
    /\ pc[d] = "find" /\ ~Taken(d) /\ Hits(d, sb[d].uuid) = {}
    /\ \/ \E n \in Md :
             /\ Free(n) /\ \A k \in Md : k > n => ~Free(k)
             /\ md' = [md EXCEPT ![n] = [disks |-> <<d>>, active |-> FALSE]]
             /\ view' = [view EXCEPT ![d] = Updated(Valid(d, sb[d].uuid), n, sb[d].uuid)]
             /\ target' = [target EXCEPT ![d] = n]
             /\ next' = [next EXCEPT ![d] = "count"]
             /\ unsafe' = unsafe \ {n}
             /\ Go(d, "write")
       \/ /\ \A n \in Md : ~Free(n)
          /\ Go(d, "unlink")
          /\ UNCHANGED <<md, view, next, target, unsafe>>
    /\ UNCHANGED <<sb, fileVars, fd, locked, drop>>

Starting(n) == \E q \in Device : pc[q] \in {"unlink", "close", "start"} /\ target[q] = n
                                 /\ drop[q] # None

\* The array must not run yet, and the disk must belong to it.
JoinArray(d) ==
    /\ pc[d] = "find" /\ ~Taken(d)
    /\ \E i \in Hits(d, sb[d].uuid) :
         LET n    == view[d][i].md
             fits == ~md[n].active /\ Uuid(n) = sb[d].uuid
         IN /\ \A j \in Hits(d, sb[d].uuid) : i <= j
            /\ \/ /\ fits /\ ("late" \in Happens \/ ~Starting(n))
                  /\ md' = [md EXCEPT ![n].disks = <<d>> \o @]
                  /\ target' = [target EXCEPT ![d] = n]
                  /\ Go(d, "count")
               \/ ~fits /\ Go(d, "unlink") /\ UNCHANGED <<md, target>>
    /\ UNCHANGED <<sb, fileVars, fd, locked, view, next, drop, unsafe>>

\* "mdadm -A" has taken the disk.
GiveUp(d) ==
    /\ pc[d] = "find" /\ Taken(d)
    /\ Go(d, "unlink")
    /\ UNCHANGED <<sb, md, fileVars, fd, locked, view, next, target, drop, unsafe>>

-----------------------------------------------------------------------------
(* count_active: what the superblocks of the disks say together.            *)

Events(disks) == {sb[disks[i]].events : i \in DOMAIN disks}
Newest(disks) == CHOOSE e \in Events(disks) : \A f \in Events(disks) : f <= e

\* Disks that are late by one update are used. No two are of one slot.
Present(disks) == {d \in ToSet(disks) : sb[d].events + 1 >= Newest(disks)}

\* The first of the newest that is met says how many disks worked.
Working(disks) ==
    LET i == CHOOSE j \in DOMAIN disks :
                /\ sb[disks[j]].events = Newest(disks)
                /\ \A k \in 1..(j - 1) : sb[disks[k]].events # Newest(disks)
    IN Cardinality(sb[disks[i]].sees)

\* Mutant: a disk is used whatever it thinks of the best one.
RejectNone(disks) == {}

\* Those that take the newest, in the lowest slot, for failed are not.
Reject(disks) ==
    LET best == CHOOSE d \in ToSet(disks) :
                    /\ sb[d].events = Newest(disks)
                    /\ \A e \in ToSet(disks) : sb[e].events = Newest(disks) => sb[d].slot <= sb[e].slot
    IN {d \in Present(disks) : sb[best].slot \notin sb[d].sees}

\* enough, for an array that is clean.
Enough(u, n) == IF Level[u] = 1 THEN n >= 1 ELSE n >= RaidDisks[u] - 1

\* Start the array if as many disks are there as worked when it last ran.
Count(d) ==
    /\ pc[d] = "count"
    /\ \/ /\ ~Busy(target[d])                  \* it was stopped meanwhile
          /\ UNCHANGED <<drop, unsafe>>
       \/ /\ Busy(target[d])
          /\ LET n      == target[d]
                 disks  == md[n].disks
                 active == Cardinality(Present(disks) \ Reject(disks))
                 enough == Enough(sb[d].uuid, active) /\ ~md[n].active
                 all    == active >= Working(disks)
             IN /\ drop' = [drop EXCEPT ![d] = IF enough /\ all THEN Reject(disks) ELSE None]
                /\ unsafe' = IF enough /\ ~all THEN unsafe \cup {n} ELSE unsafe
    /\ Go(d, "unlink")
    /\ UNCHANGED <<sb, md, fileVars, fd, locked, view, next, target>>

-----------------------------------------------------------------------------
(* RUN_ARRAY, and array_state "read-auto". The driver leaves out disks      *)
(* whose event count is too low, whatever mdadm made of them.               *)

Fresh(disks) ==
    Kept(disks, {i \in DOMAIN disks : \A e \in ToSet(disks) : sb[disks[i]].events + 1 >= sb[e].events})

Run(n, disks) ==
    IF disks # <<>> /\ Enough(sb[disks[1]].uuid, Len(Fresh(disks)))
    THEN md' = [md EXCEPT ![n] = [disks |-> Fresh(disks), active |-> TRUE]]
    ELSE md' = [md EXCEPT ![n] = IF disks = <<>> THEN None ELSE [disks |-> disks, active |-> FALSE]]

\* Without the lock: what was counted may have changed.
Start(d) ==
    /\ pc[d] = "start"
    /\ LET n == target[d] IN
       IF Busy(n) /\ ~md[n].active
       THEN Run(n, Kept(md[n].disks, {i \in DOMAIN md[n].disks : md[n].disks[i] \notin drop[d]}))
       ELSE UNCHANGED md
    /\ Go(d, "done")
    /\ target' = [target EXCEPT ![d] = None] /\ drop' = [drop EXCEPT ![d] = None]
    /\ UNCHANGED <<sb, fileVars, fd, locked, view, next, unsafe>>

\* mdadm --run: IncrementalScan starts it with the disks it has.
LastResort(n) ==
    /\ "timer" \in Happens
    /\ n \in unsafe /\ Busy(n) /\ ~md[n].active
    /\ \E i \in DOMAIN map : map[i].md = n
    /\ Run(n, md[n].disks)
    /\ unsafe' = unsafe \ {n}
    /\ UNCHANGED <<sb, fileVars, procVars>>

-----------------------------------------------------------------------------
(* Other mdadm processes.                                                   *)

\* STOP_ARRAY first, then the lock, then map_remove by the number.
StopArray(s, n) ==
    /\ pc[s] = "idle" /\ Busy(n)
    /\ md' = [md EXCEPT ![n] = None]
    /\ target' = [target EXCEPT ![s] = n]
    /\ unsafe' = unsafe \ {n}
    /\ Go(s, "lock")
    /\ UNCHANGED <<sb, fileVars, fd, locked, view, next, drop>>

DeleteEntry(s) ==
    /\ pc[s] = "delete"
    /\ view' = [view EXCEPT ![s] = Without(@, target[s])]
    /\ next' = [next EXCEPT ![s] = "unlink"]
    /\ Go(s, "write")
    /\ UNCHANGED <<sb, md, fileVars, fd, locked, target, drop, unsafe>>

ReadUnlocked(s) ==
    /\ pc[s] = "idle" /\ (map # None \/ "unlocked" \in Happens)
    /\ Go(s, "read")
    /\ UNCHANGED <<sb, md, fileVars, fd, locked, view, next, target, drop, unsafe>>

\* The array that p made is in no map file yet.
Unrecorded(p) == pc[p] \in {"write", "rename"} /\ target[p] # None /\ p \in Device

Kill(p) ==
    /\ pc[p] \notin {"idle", "done", "killed"}
    /\ Cardinality({q \in Proc : pc[q] = "killed"}) < MaxKills
    /\ IF Unrecorded(p) THEN "killearly" \in Happens ELSE "kill" \in Happens
    /\ Release(p)
    /\ target' = [target EXCEPT ![p] = None] /\ drop' = [drop EXCEPT ![p] = None]
    /\ Go(p, "killed")
    /\ UNCHANGED <<sb, md, fileVars, unsafe>>

-----------------------------------------------------------------------------
Step(p) ==
    \/ OpenLock(p) \/ Flock(p) \/ UnlinkLock(p) \/ CloseLock(p)
    \/ ReadMap(p) \/ WriteNew(p) \/ RenameNew(p)
    \/ p \in Device /\ (MakeArray(p) \/ JoinArray(p) \/ GiveUp(p) \/ Count(p) \/ Start(p))
    \/ p \in Other /\ DeleteEntry(p)

Next ==
    \/ \E p \in Proc : Step(p) \/ Kill(p)
    \/ \E d \in Device : Appear(d)
    \/ \E s \in Other, n \in Md : StopArray(s, n)
    \/ \E s \in Other : ReadUnlocked(s)
    \/ \E n \in Md : LastResort(n)

Spec == Init /\ [][Next]_vars

\* Every disk is reported, and the processes run. The kernel grants the lock
\* to a process that waits for it.
FairSpec ==
    /\ Spec
    /\ \A p \in Proc : WF_vars(Step(p)) /\ SF_vars(Flock(p))
    /\ \A d \in Device : WF_vars(Appear(d))

-----------------------------------------------------------------------------
\* Where a process holds the map, unless it only reads it.
Inside == {"read", "find", "write", "rename", "count", "delete", "unlink"}
Locks(p) == p \in Device \/ target[p] # None
Holds(p) == Locks(p) /\ pc[p] \in Inside

\* Two processes never both hold the map: the lock works although its file
\* is unlinked by each owner while others wait for it.
LockExcludes == \A p, q \in Proc : Holds(p) /\ Holds(q) => p = q

\* The disks of an array all find each other: there are never two md devices
\* for one uuid, whatever processes are killed or arrays stopped on the way.
OneArray == \A m, n \in Md : Busy(m) /\ Busy(n) /\ Uuid(m) = Uuid(n) => m = n

\* An array is never run on disks that contradict each other: none takes the
\* newest of them for failed ("We need to reject any device that thinks the
\* best device is failed or missing").
NoRival == \A n \in Md : Busy(n) /\ md[n].active =>
    \E d \in Disks(n) : \A e \in Disks(n) :
        sb[e].events <= sb[d].events /\ sb[d].slot \in sb[e].sees

\* When all disks were looked at, an array whose working disks are all there
\* runs, unless a process was killed or an array stopped.
Complete(u) == \E d \in Device : sb[d].uuid = u /\ \A i \in sb[d].sees :
    \E e \in Device : sb[e].uuid = u /\ sb[e].slot = i /\ sb[e].sees = sb[d].sees
Undisturbed == \A p \in Proc : pc[p] # "killed" /\ (p \in Other => pc[p] = "idle")
IsStarted == \A d \in Device : Complete(sb[d].uuid) =>
    <>((\E n \in Md : Busy(n) /\ Uuid(n) = sb[d].uuid /\ md[n].active) \/ ~Undisturbed)
=============================================================================
