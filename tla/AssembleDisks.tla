--------------------------- MODULE AssembleDisks ---------------------------
(***************************************************************************)
(* mdadm --assemble of an array with native metadata, devices listed on    *)
(* the command line (Assemble.c): which disks are taken for up to date by  *)
(* their event counts, which are brought in by --force, and whether the    *)
(* array is started.  Around it the array as the md driver runs it, which  *)
(* records failures in the superblocks of the disks that are left, and     *)
(* crashes anywhere.                                                       *)
(*                                                                         *)
(* A disk keeps its slot, and is known by it.  Its superblock says how     *)
(* often it was updated, which slots work (not its own, if the disk is a   *)
(* spare), whether the array is clean, and whether the disk is whole or was *)
(* still being rebuilt.                                                    *)
(***************************************************************************)
EXTENDS Naturals, FiniteSets, FiniteSetsExt, Sequences, SequencesExt

CONSTANTS RaidDisks, Level,
          Near,        \* of a RAID10: how many copies of a block lie side by side
          Order,       \* the disks, as the command line lists them
          KernelAsks,  \* a kernel that asks the freshest superblock about a disk that is behind
          MaxEvents, MaxWrites, MaxCrashes,
          Happens      \* "cutshort": a forced assembly that recorded nothing yet is followed
                       \* by one with other disks
                       \* "returned": a disk that a forced assembly did without comes back
                       \* as it was

Disk == 0..(RaidDisks - 1)

ASSUME RaidDisksAssumption == RaidDisks \in Nat \ {0}
ASSUME LevelAssumption == Level \in {0, 1, 4, 5, 6, 10}
ASSUME NearAssumption == Near \in 1..RaidDisks
ASSUME OrderAssumption == Order \in [1..RaidDisks -> Disk] /\ IsInjective(Order)
ASSUME KernelAssumption == KernelAsks \in BOOLEAN
ASSUME BoundAssumption == MaxEvents \in Nat /\ MaxWrites \in Nat /\ MaxCrashes \in Nat
ASSUME HappensAssumption == Happens \subseteq {"cutshort", "returned"}

VARIABLES
    sb,       \* the superblocks: [events, sees, clean, whole]
    data,     \* the last acknowledged write a disk holds, 0 if it is half rebuilt
    acked,    \* the last acknowledged write
    running, events, insync, rebuilding, spares, dirty,  \* the md driver's
    pc,       \* of mdadm: "idle", "force", "choose", "start"
    given,    \* the disks it was given
    force,
    read,     \* their superblocks as it read them, events forced since included
    best,     \* those it may use, but for spares
    uptodate,
    avail,    \* the slots it takes for filled
    vintage,  \* the events of the disks it is forcing, 0 at first
    clean,
    chosen, needed,  \* the disk the kernel is to believe, the disks that one takes for working
    pending,  \* the disks of a forced assembly that has not been recorded
    superseded,  \* the disks it did without, until they are added anew
    refused,  \* those of one that did not start the array
    crashes

diskVars == <<sb, data, acked>>
kernelVars == <<running, events, insync, rebuilding, spares, dirty>>
mdadmVars == <<pc, given, force, read, best, uptodate, avail, vintage, clean, chosen, needed>>
vars == <<diskVars, kernelVars, mdadmVars, pending, superseded, refused, crashes>>

\* enough: can the array do with these slots?
Enough(ifClean, slots) ==
    LET n == Cardinality(slots)
        tolerates == CASE Level \in {4, 5} -> 1 [] Level = 6 -> 2 [] OTHER -> 0
    IN CASE Level = 1  -> n >= 1
         [] Level = 10 -> \A first \in {(f * Near) % RaidDisks : f \in Disk} :
                              \E k \in 0..(Near - 1) : (first + k) % RaidDisks \in slots
         [] OTHER -> \/ n >= RaidDisks - IF ifClean THEN tolerates ELSE 0
                     \/ Level = 4 /\ slots = 0..(RaidDisks - 2)

\* No mdadm runs.
Quiet ==
    /\ pc = "idle" /\ given = {} /\ force = FALSE /\ read = <<>> /\ best = {} /\ uptodate = {}
    /\ avail = {} /\ vintage = 0 /\ clean = FALSE /\ chosen = 0 /\ needed = 0

Init ==
    /\ sb = [d \in Disk |-> [events |-> 1, sees |-> Disk, clean |-> TRUE, whole |-> TRUE]]
    /\ data = [d \in Disk |-> 1] /\ acked = 1
    /\ running = FALSE /\ events = 0 /\ insync = {} /\ rebuilding = {}
    /\ spares = {} /\ dirty = FALSE
    /\ Quiet
    /\ pending = {} /\ superseded = {} /\ refused = {} /\ crashes = 0

Off ==
    /\ running' = FALSE /\ events' = 0 /\ insync' = {} /\ rebuilding' = {}
    /\ spares' = {} /\ dirty' = FALSE

-----------------------------------------------------------------------------
(* The array runs: the md driver (external).                                *)

Works == Enough(TRUE, insync)

\* It writes the superblocks of all its disks before it goes on; a crash may
\* come when it has written some of them.
Record(in, rb, isClean) ==
    LET new(d) == [events |-> events + 1, sees |-> in \cup rb, clean |-> isClean, whole |-> d \in in]
        written(disks) == sb' = [d \in Disk |-> IF d \in disks THEN new(d) ELSE sb[d]]
    IN /\ running /\ events < MaxEvents
       /\ \/ /\ written(in \cup rb)
             /\ events' = events + 1 /\ insync' = in /\ rebuilding' = rb /\ dirty' = ~isClean
             /\ spares' = spares \ rb
             /\ pending' = {}
             /\ UNCHANGED <<running, crashes>>
          \/ /\ crashes < MaxCrashes /\ crashes' = crashes + 1
             /\ \E disks \in SUBSET (in \cup rb) : written(disks)
             /\ Off
             /\ UNCHANGED pending
       /\ refused' = {}
       /\ UNCHANGED <<mdadmVars, superseded>>

MarkDirty == Works /\ ~dirty /\ Record(insync, rebuilding, FALSE) /\ UNCHANGED <<data, acked>>
MarkClean == dirty /\ Record(insync, rebuilding, TRUE) /\ UNCHANGED <<data, acked>>

Write ==
    /\ running /\ Works /\ dirty /\ acked < MaxWrites
    /\ acked' = acked + 1
    /\ data' = [d \in Disk |-> IF d \in insync THEN acked + 1 ELSE data[d]]
    /\ UNCHANGED <<sb, kernelVars, mdadmVars, pending, superseded, refused, crashes>>

\* A mirror does not fail its last disk.
Fail(d) ==
    /\ d \in insync \cup rebuilding /\ Works
    /\ Level = 1 => insync # {d}
    /\ Record(insync \ {d}, rebuilding \ {d}, ~dirty)
    /\ UNCHANGED <<data, acked>>

\* mdadm --add of a disk that was left out writes it a new superblock, and
\* hands it to the kernel.
Add(d) ==
    /\ running /\ d \notin insync \cup rebuilding \cup spares
    /\ sb' = [sb EXCEPT ![d] = [events |-> events, sees |-> insync \cup rebuilding,
                                clean |-> ~dirty, whole |-> FALSE]]
    /\ data' = [data EXCEPT ![d] = 0]
    /\ \/ spares' = spares \cup {d} /\ UNCHANGED <<running, events, insync, rebuilding, dirty, crashes>>
       \/ crashes < MaxCrashes /\ crashes' = crashes + 1 /\ Off
    /\ superseded' = superseded \ {d}
    /\ UNCHANGED <<acked, mdadmVars, pending, refused>>

Rebuild(d) ==
    /\ d \in spares /\ Works
    /\ Record(insync, rebuilding \cup {d}, ~dirty)
    /\ UNCHANGED <<data, acked>>

Rebuilt(d) ==
    /\ d \in rebuilding /\ Works
    /\ Record(insync \cup {d}, rebuilding \ {d}, ~dirty)
    /\ data' = [data EXCEPT ![d] = acked]
    /\ UNCHANGED acked

StopArray ==
    /\ running /\ ~dirty
    /\ Off
    /\ UNCHANGED <<diskVars, mdadmVars, pending, superseded, refused, crashes>>

-----------------------------------------------------------------------------
(* load_devices, and the count of what is up to date (Assemble).            *)

\* Where a disk stands among those that were given.
Index(d, disks) == Cardinality({i \in 1..RaidDisks : Order[i] \in disks /\
                                    \E j \in 1..RaidDisks : Order[j] = d /\ i < j})

Active(r) == {d \in DOMAIN r : d \in r[d].sees}

\* The first of those that are no spares with the most events.
MostRecent(r) ==
    LET top == Max({r[d].events : d \in Active(r)}) IN
    CHOOSE d \in Active(r) :
        /\ r[d].events = top
        /\ \A e \in Active(r) : r[e].events = top => Index(d, DOMAIN r) <= Index(e, DOMAIN r)

\* A disk takes part if it does not report the freshest one as failed, and is up to
\* date if it is at most one update behind. With spares alone nothing is started.
Load(disks, f) ==
    /\ pc = "idle" /\ ~running /\ \E d \in disks : d \in sb[d].sees
    /\ pending = {} \/ pending = disks \/ "cutshort" \in Happens
    /\ disks \cap superseded = {} \/ "returned" \in Happens
    /\ LET r == [d \in disks |-> sb[d]]
           recent == MostRecent(r)
           accepted == {d \in Active(r) : d = recent \/ f \/ recent \in r[d].sees}
           current == {d \in accepted : r[d].events + 1 >= r[recent].events}
       IN /\ given' = disks /\ force' = f /\ read' = r
          /\ best' = accepted /\ uptodate' = current
          /\ avail' = {d \in current : r[d].whole}
          /\ clean' = r[recent].clean
    /\ pc' = IF f THEN "force" ELSE "choose"
    /\ UNCHANGED <<diskVars, kernelVars, vintage, chosen, needed, pending, superseded, refused, crashes>>

-----------------------------------------------------------------------------
(* force_array.                                                             *)

Top == read[MostRecent(read)].events
Candidates == {d \in best \ uptodate : read[d].whole}

\* Those of the vintage that is being forced come along.
AddAnother == {d \in Candidates : read[d].events = vintage}

\* Mutant: the comparison the other way.
Oldest(disks) ==
    Min({d \in disks : \A e \in disks : read[e].events >= read[d].events})

\* Of the newest ones the first by slot.
Newest(disks) ==
    Min({d \in disks : \A e \in disks : read[e].events <= read[d].events})

\* Mutant: the superblock is updated in memory only.
StampedInMemory(d) == sb
Stamped(d) == [sb EXCEPT ![d].events = Top]

\* avail is told of the disk's place on the command line, not of its slot.
FilledBy(d) == {i \in {Index(d, given)} : i < RaidDisks}

\* One disk gets the event count of the freshest, on the disk too.
ForceOne ==
    /\ pc = "force" /\ Candidates # {}
    /\ AddAnother # {} \/ ~Enough(TRUE, avail)
    /\ LET d == IF AddAnother # {} THEN Min(AddAnother) ELSE Newest(Candidates)
       IN /\ sb' = Stamped(d)
          /\ read' = [read EXCEPT ![d].events = Top]
          /\ uptodate' = uptodate \cup {d}
          /\ avail' = avail \cup FilledBy(d)
          /\ vintage' = read[d].events
    /\ pending' = given
    /\ UNCHANGED <<data, acked, kernelVars, pc, given, force, best, clean, chosen, needed,
                   superseded, refused, crashes>>

ForceDone ==
    /\ pc = "force" /\ AddAnother = {}
    /\ Candidates = {} \/ Enough(TRUE, avail)
    /\ pc' = "choose"
    /\ UNCHANGED <<diskVars, kernelVars, given, force, read, best, uptodate, avail, vintage, clean,
                   chosen, needed, pending, superseded, refused, crashes>>

-----------------------------------------------------------------------------
(* The superblock the kernel is to believe, and whether to start (Assemble, *)
(* start_array).                                                            *)

\* Mutant: what the disks say is stored without --force too.
MayCorrectAlways == TRUE
MayCorrect == force

\* A spare that is given changes nothing in what is stored: --add gave it a number
\* of its own (Manage.c:877-897), so the entry that "assemble" makes a spare's is
\* not the one of the disk that had the slot before.
Choose ==
    /\ pc = "choose"
    /\ LET c == Min({d \in uptodate : read[d].events = Top})
           allClean == clean /\ \A d \in uptodate \cup (given \ Active(read)) : read[d].clean
           forceClean == force /\ ~allClean /\ ~Enough(FALSE, avail)
           stored == [sb[c] EXCEPT !.sees = @ \cup uptodate,
                                   !.clean = @ \/ (forceClean /\ Level \in {4, 5, 6})]
       IN /\ chosen' = c
          /\ needed' = Cardinality(sb[c].sees)
          /\ clean' = (allClean \/ forceClean)
          /\ sb' = IF MayCorrect THEN [sb EXCEPT ![c] = stored] ELSE sb
          /\ pending' = IF force /\ stored # sb[c] THEN given ELSE pending
    /\ pc' = "start"
    /\ UNCHANGED <<data, acked, kernelVars, given, force, read, best, uptodate, avail, vintage,
                   superseded, refused, crashes>>

\* What the kernel makes of the disks it is given (external): the chosen one is
\* the last and so the freshest; one that is two updates behind is left out.
Accepts(d) ==
    \/ sb[d].events = sb[chosen].events
    \/ sb[d].events + 1 = sb[chosen].events /\ (KernelAsks => d \in sb[chosen].sees)
KernelInSync == {d \in best : Accepts(d) /\ sb[d].whole}
KernelRebuilds == {d \in best : Accepts(d) /\ ~sb[d].whole}
GivenSpares == given \ Active(read)
KernelRuns == Enough(sb[chosen].clean, KernelInSync)

\* Without --force, no fewer than the freshest superblock takes for working.
GoodToGo ==
    /\ Enough(clean, avail)
    /\ Cardinality(uptodate) >= needed \/ force

\* The administrator, who forced it, has what these disks hold for the data.
Settle(in) ==
    LET lost == (force \/ pending # {}) /\ \E d \in in : data[d] # acked IN
    /\ acked' = IF lost THEN acked + 1 ELSE acked
    /\ data' = [d \in Disk |-> IF lost /\ d \in in /\ data[d] # 0 THEN acked + 1 ELSE data[d]]
    /\ pending' = IF force \/ pending # {} THEN given ELSE {}
    /\ superseded' = IF force \/ pending # {} THEN Disk \ (in \cup KernelRebuilds \cup GivenSpares)
                                             ELSE superseded

Reset ==
    /\ pc' = "idle" /\ given' = {} /\ force' = FALSE /\ read' = <<>> /\ best' = {}
    /\ uptodate' = {} /\ avail' = {} /\ vintage' = 0 /\ clean' = FALSE
    /\ chosen' = 0 /\ needed' = 0

Start ==
    /\ pc = "start" /\ GoodToGo /\ KernelRuns
    /\ running' = TRUE /\ events' = sb[chosen].events
    /\ insync' = KernelInSync
    /\ rebuilding' = KernelRebuilds
    /\ spares' = GivenSpares
    /\ dirty' = ~sb[chosen].clean
    /\ Settle(KernelInSync)
    /\ refused' = {}
    /\ Reset
    /\ UNCHANGED <<sb, crashes>>

NotStarted ==
    /\ pc = "start" /\ ~(GoodToGo /\ KernelRuns)
    /\ refused' = IF force THEN given ELSE {}
    /\ Reset
    /\ UNCHANGED <<diskVars, kernelVars, pending, superseded, crashes>>

-----------------------------------------------------------------------------
\* Power is lost, or mdadm is killed.
Crash ==
    /\ running \/ pc # "idle"
    /\ crashes < MaxCrashes /\ crashes' = crashes + 1
    /\ Off /\ Reset /\ refused' = {}
    /\ UNCHANGED <<diskVars, pending, superseded>>

Mdadm == ForceOne \/ ForceDone \/ Choose \/ Start \/ NotStarted

Next ==
    \/ MarkDirty \/ MarkClean \/ Write \/ StopArray \/ Crash \/ Mdadm
    \/ \E d \in Disk : Fail(d) \/ Add(d) \/ Rebuild(d) \/ Rebuilt(d)
    \/ \E disks \in SUBSET Disk \ {{}}, f \in BOOLEAN : Load(disks, f)

Spec == Init /\ [][Next]_vars

-----------------------------------------------------------------------------
\* The array never runs with a disk in sync that missed an acknowledged write
\* or was not rebuilt to its end.
NothingStale == running => \A d \in insync : data[d] = acked

\* --force brings in the newest disks, and no more than it needs: none that is left out
\* holds later data, and one with older data is used only if the later ones do not do.
NewestUsed ==
    [][running' /\ ~running /\ force =>
          /\ \A d \in insync', e \in given \ insync' : sb[e].whole => data[e] <= data[d]
          /\ vintage = 0 \/ \A d \in insync' : ~Enough(TRUE, {e \in insync' : data[e] > data[d]})]_vars

\* --force starts the array if enough whole disks are there, at the second
\* attempt if not at the first.
ForceStarts ==
    refused # {} /\ pc = "start" /\ force /\ given = refused
        /\ Enough(TRUE, {d \in given : sb[d].whole}) => GoodToGo /\ KernelRuns
=============================================================================
