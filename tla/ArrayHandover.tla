--------------------------- MODULE ArrayHandover ---------------------------
(***************************************************************************)
(* The list of active_array structures that the manager and the monitor    *)
(* threads of mdmon share without a lock (managemon.c, monitor.c).         *)
(*                                                                         *)
(* The manager never changes a structure that the monitor may be reading:  *)
(* it puts a new one at the head of container->arrays whose ->replaces     *)
(* names the old one.  The monitor unlinks the old one and passes it back  *)
(* through discard_this, and only the manager frees.  pending_discard      *)
(* keeps the manager from replacing twice before the first is done.        *)
(***************************************************************************)
EXTENDS Naturals, FiniteSets

CONSTANTS MaxAa,    \* structures that may be allocated; none is reused
          Member,   \* the member arrays of the container
          Happens   \* the sets of events, one of which is chosen at the start.
                    \* "stop": arrays are stopped; "restart": they come back;
                    \* "spare": the monitor asks for a spare (check_degraded);
                    \* "reshape": it asks for devices to be added (check_reshape);
                    \* "level": mdadm changes the level of a member; "raid0": to
                    \* one without redundancy

ASSUME MaxAaAssumption == MaxAa \in Nat \ {0}
ASSUME MemberAssumption == IsFiniteSet(Member) /\ 0 \notin Member
ASSUME HappensAssumption ==
    Happens \subseteq SUBSET {"stop", "stopidle", "company", "restart", "spare", "reshape", "level", "raid0"}

Aa   == 1..MaxAa
None == 0           \* NULL
Head == MaxAa + 1   \* the location container->arrays

VARIABLES
    member,          \* the array a structure is for; None before it is allocated
    held,            \* structures with ->container set
    toRemove,        \* ->to_remove
    degraded,        \* ->check_degraded
    reshaped,        \* ->check_reshape
    next, replaces,  \* ->next (and next[Head]), ->replaces
    fds,             \* the set of open files of a structure, named by its opener
    closed,          \* sets of files that were closed
    dead,            \* sets of files opened on an array that was stopped since
    freed,           \* structures that were freed
    discardThis, pendingDiscard,
    running, raid0,  \* the members in /proc/mdstat, and those without redundancy
    mon, ap, cur,    \* the monitor's place, and its pointers
    mgr, back,       \* the manager's place, and where replace_array returns to
    old, new,        \* what it is replacing by what
    happens,         \* what may happen: it never changes
    walk             \* what manage() will look at when manage_member returns

globals == <<discardThis, pendingDiscard>>
fields  == <<member, held, toRemove, degraded, reshaped, next, replaces, fds>>
heap    == <<closed, freed>>
world   == <<running, raid0, dead, happens>>
monVars == <<mon, ap, cur>>
mgrVars == <<mgr, back, old, new, walk>>
vars    == <<fields, heap, world, globals, monVars, mgrVars>>

Pointer == Aa \cup {None}

TypeOK ==
    /\ member \in [Aa -> Member \cup {None}]
    /\ held \subseteq Aa /\ toRemove \subseteq Aa
    /\ degraded \subseteq Aa /\ reshaped \subseteq Aa
    /\ next \in [Aa \cup {Head} -> Pointer]
    /\ replaces \in [Aa -> Pointer] /\ fds \in [Aa -> Pointer]
    /\ closed \subseteq Aa /\ dead \subseteq Aa /\ freed \subseteq Aa
    /\ discardThis \in Pointer /\ pendingDiscard \in Pointer
    /\ running \subseteq Member /\ raid0 \subseteq Member /\ happens \in Happens
    /\ mon \in {"prune", "prune_act", "scan", "replaces", "act"}
    /\ ap \in Aa \cup {Head} /\ cur \in Pointer
    /\ mgr \in {"idle", "leave", "member", "rest", "waiting", "reshape", "after", 
                "replace", "pending", "publish"}
    /\ back \in {"idle", "member", "rest", "reshape", "after"}
    /\ old \in Pointer /\ new \in Pointer /\ walk \in Pointer

\* The structures on the list after location l: the fewest that have the first
\* one among them and, with each, the next.
LeadsInto(l, S) == next[l] \in S \cup {None} /\ \A x \in S : next[x] \in S \cup {None}
ListFrom(l) == CHOOSE S \in SUBSET Aa : /\ LeadsInto(l, S)
                                        /\ \A T \in SUBSET Aa : LeadsInto(l, T) => S \subseteq T
Listed == ListFrom(Head)

Fresh == {x \in Aa : member[x] = None /\ \A y \in 1..(x-1) : member[y] # None}

-----------------------------------------------------------------------------
(* The monitor thread: wait_and_act.  The first loop unlinks what is to be *)
(* discarded, one structure per turn; ap is the address it has reached.    *)

PruneRead ==
    /\ mon = "prune"
    /\ cur' = next[ap]
    /\ mon' = IF cur' = None THEN "scan" ELSE "prune_act"
    /\ UNCHANGED <<fields, heap, world, globals, ap, mgrVars>>

PruneKeep ==
    /\ mon = "prune_act"
    /\ cur \in held \ toRemove \/ discardThis # None
    /\ mon' = "prune" /\ cur' = None
    /\ ap' = next[ap]
    /\ UNCHANGED <<fields, heap, world, globals, mgrVars>>

\* Mutant of PruneUnlink: the structure is not passed back.
PruneUnlinkDropping ==
    /\ mon = "prune_act"
    /\ cur \notin held \ toRemove
    /\ discardThis = None
    /\ next' = [next EXCEPT ![ap] = next[cur], ![cur] = None]
    /\ mon' = "prune" /\ cur' = None
    /\ UNCHANGED <<member, held, toRemove, degraded, reshaped, replaces, fds, heap,
                   world, globals, ap, mgrVars>>

PruneUnlink ==
    /\ mon = "prune_act"
    /\ cur \notin held \ toRemove
    /\ discardThis = None
    /\ next' = [next EXCEPT ![ap] = next[cur], ![cur] = None]
    /\ discardThis' = cur
    /\ mon' = "prune" /\ cur' = None
    /\ UNCHANGED <<member, held, toRemove, degraded, reshaped, replaces, fds, heap,
                   world, pendingDiscard, ap, mgrVars>>

\* pselect returns, and the second loop starts from the head.
Scan ==
    /\ mon = "scan"
    /\ cur' = next[Head]
    /\ ap' = Head
    /\ mon' = IF cur' = None THEN "prune" ELSE "replaces"
    /\ UNCHANGED <<fields, heap, world, globals, mgrVars>>

\* Mutant of TakeReplaced: ->replaces is not cleared.
TakeReplacedAgain ==
    /\ mon = "replaces"
    /\ mon' = "act"
    /\ IF replaces[cur] # None /\ discardThis = None
       THEN /\ discardThis' = replaces[cur]
            /\ next' = [l \in DOMAIN next |->
                           IF l \in {cur} \cup ListFrom(cur) /\ next[l] = replaces[cur]
                           THEN next[replaces[cur]] ELSE next[l]]
       ELSE UNCHANGED <<discardThis, next>>
    /\ UNCHANGED <<member, held, toRemove, degraded, reshaped, replaces, fds, heap,
                   world, pendingDiscard, ap, cur, mgrVars>>

\* The structure that cur replaces is unlinked if it is found further down
\* the list, and is passed back in either case.
TakeReplaced ==
    /\ mon = "replaces"
    /\ mon' = "act"
    /\ IF replaces[cur] # None /\ discardThis = None
       THEN /\ discardThis' = replaces[cur]
            /\ replaces' = [replaces EXCEPT ![cur] = None]
            /\ next' = [l \in DOMAIN next |->
                           IF l \in {cur} \cup ListFrom(cur) /\ next[l] = replaces[cur]
                           THEN next[replaces[cur]] ELSE next[l]]
       ELSE UNCHANGED <<discardThis, replaces, next>>
    /\ UNCHANGED <<member, held, toRemove, degraded, reshaped, fds, heap, world,
                   pendingDiscard, ap, cur, mgrVars>>

\* read_and_act: an array that stopped, or whose files are closed, is let go;
\* otherwise a failure or a reshape may be seen.
Act ==
    /\ mon = "act"
    /\ IF cur \notin held \ toRemove
       THEN UNCHANGED <<held, degraded, reshaped>>
       ELSE IF fds[cur] \in dead \cup closed
       THEN held' = held \ {cur} /\ UNCHANGED <<degraded, reshaped>>
       ELSE /\ degraded' \in {degraded} \cup
                   (IF "spare" \in happens THEN {degraded \cup {cur}} ELSE {})
            /\ reshaped' \in {reshaped} \cup
                   (IF "reshape" \in happens THEN {reshaped \cup {cur}} ELSE {})
            /\ UNCHANGED held
    /\ cur' = next[cur]
    /\ mon' = IF cur' = None THEN "prune" ELSE "replaces"
    /\ UNCHANGED <<member, toRemove, next, replaces, fds, heap, world, globals,
                   ap, mgrVars>>

-----------------------------------------------------------------------------
(* The manager thread.                                                     *)

\* Mutant of RemoveOld: the files are closed whether a clone uses them or not.
RemoveOldClosing ==
    IF discardThis = None THEN UNCHANGED <<next, heap, globals>>
    ELSE /\ next' = [next EXCEPT ![discardThis] = None]
         /\ freed' = freed \cup {discardThis}
         /\ closed' = closed \cup {fds[discardThis]}
         /\ pendingDiscard' = IF pendingDiscard = discardThis THEN None
                              ELSE pendingDiscard
         /\ discardThis' = None

\* Mutant of RemoveOld: pending_discard is left set.
RemoveOldPending ==
    IF discardThis = None THEN UNCHANGED <<next, heap, globals>>
    ELSE /\ next' = [next EXCEPT ![discardThis] = None]
         /\ freed' = freed \cup {discardThis}
         /\ closed' = IF discardThis \in held THEN closed
                      ELSE closed \cup {fds[discardThis]}
         /\ discardThis' = None
         /\ UNCHANGED pendingDiscard

\* free_aa: the files stay open for a clone; ->container is set for a clone.
RemoveOld ==
    IF discardThis = None THEN UNCHANGED <<next, heap, globals>>
    ELSE /\ next' = [next EXCEPT ![discardThis] = None]
         /\ freed' = freed \cup {discardThis}
         /\ closed' = IF discardThis \in held THEN closed
                      ELSE closed \cup {fds[discardThis]}
         /\ pendingDiscard' = IF pendingDiscard = discardThis THEN None
                              ELSE pendingDiscard
         /\ discardThis' = None

\* The end of do_manager's loop.
Tidy ==
    /\ mgr = "idle" /\ discardThis # None
    /\ RemoveOld
    /\ UNCHANGED <<member, held, toRemove, degraded, reshaped, replaces, fds, world,
                   monVars, mgrVars>>

\* The structure manage() finds for m: the first on the list.
Found(m) ==
    LET its == {x \in Listed : member[x] = m}
    IN  IF its = {} THEN None ELSE CHOOSE x \in its : its \ {x} \subseteq ListFrom(x)

\* manage_new.  When a device could not be opened it goes on to manage_member.
OpenNew(m, victim) ==
    \E x \in Fresh :
        /\ new' = x /\ old' = victim /\ walk' = None
        /\ member' = [member EXCEPT ![x] = m]
        /\ held' = held \cup {x}
        /\ fds' = [fds EXCEPT ![x] = x]
        /\ mgr' = "replace"
        /\ \/ back' = "idle" /\ UNCHANGED degraded
           \/ "spare" \in happens /\ back' = "member" /\ degraded' = degraded \cup {x}
        /\ UNCHANGED <<toRemove, reshaped, next, replaces, heap, world, globals, monVars>>

Manage(m) ==
    /\ mgr = "idle" /\ m \in running
    /\ LET a == Found(m) IN
       \/ /\ a # None /\ a \in held \ toRemove
          /\ mgr' = IF m \in raid0 THEN "leave" ELSE "member"
          /\ old' = a /\ walk' = a
          /\ UNCHANGED <<fields, heap, world, globals, monVars, back, new>>
       \/ /\ a # None => a \notin held
          /\ m \notin raid0
          /\ OpenNew(m, a)

\* Mutant of Duplicate: the clone is not marked as monitored.
DuplicateUnheld(to, cleared) ==
    \E x \in Fresh :
        /\ new' = x /\ back' = to
        /\ member' = [member EXCEPT ![x] = member[old]]
        /\ fds' = [fds EXCEPT ![x] = fds[old]]
        /\ degraded' = degraded \ cleared
        /\ reshaped' = reshaped \ cleared
        /\ UNCHANGED <<held, toRemove>>

\* duplicate_aa, with the flags that its caller has just cleared.
Duplicate(to, cleared) ==
    \E x \in Fresh :
        /\ new' = x /\ back' = to
        /\ member' = [member EXCEPT ![x] = member[old]]
        /\ held' = IF old \in held THEN held \cup {x} ELSE held
        /\ toRemove' = IF old \in toRemove THEN toRemove \cup {x} ELSE toRemove
        /\ fds' = [fds EXCEPT ![x] = fds[old]]
        /\ degraded' = (degraded \ cleared) \cup
                           (IF old \in degraded \ cleared THEN {x} ELSE {})
        /\ reshaped' = (reshaped \ cleared) \cup
                           (IF old \in reshaped \ cleared THEN {x} ELSE {})

\* manage_member up to activate_spare.
LeaveToKernel ==
    /\ mgr = "leave"
    /\ toRemove' = IF old \in held THEN toRemove \cup {old} ELSE toRemove
    /\ mgr' = "after"
    /\ UNCHANGED <<member, held, degraded, reshaped, next, replaces, fds, heap,
                   world, globals, monVars, back, old, new, walk>>

\* mdadm changed the level: the manager goes on with the clone.
ChangeLevel ==
    /\ mgr = "member" /\ old \in held /\ "level" \in happens
    /\ mgr' = "replace"
    /\ Duplicate("rest", {})
    /\ UNCHANGED <<next, replaces, heap, world, globals, monVars, old, walk>>

Raced ==
    /\ mgr \in {"member", "rest"} /\ old \notin held
    /\ mgr' = "after"
    /\ UNCHANGED <<fields, heap, world, globals, monVars, back, old, new, walk>>

CheckDegraded ==
    /\ mgr \in {"member", "rest"} /\ old \in held
    /\ \/ /\ old \notin degraded
          /\ mgr' = "reshape"
          /\ UNCHANGED <<member, held, toRemove, degraded, reshaped, fds, back, new>>
       \/ /\ old \in degraded      \* no spare was found
          /\ degraded' = degraded \ {old}
          /\ mgr' = "after"
          /\ UNCHANGED <<member, held, toRemove, reshaped, fds, back, new>>
       \/ /\ old \in degraded      \* duplicate_aa, and wait for the update
          /\ mgr' = "waiting"
          /\ Duplicate("reshape", {old})
    /\ UNCHANGED <<next, replaces, heap, world, globals, monVars, old, walk>>

Waited ==
    /\ mgr = "waiting"
    /\ mgr' = "replace"
    /\ UNCHANGED <<fields, heap, world, globals, monVars, back, old, new, walk>>

CheckReshape ==
    /\ mgr = "reshape"
    /\ \/ /\ reshaped' = reshaped \ {old}   \* not asked for, or nothing new
          /\ mgr' = "after"
          /\ UNCHANGED <<member, held, toRemove, degraded, fds, back, new>>
       \/ /\ old \in reshaped
          /\ mgr' = "replace"
          /\ Duplicate("after", {old})
    /\ UNCHANGED <<next, replaces, heap, world, globals, monVars, old, walk>>

\* Back in manage(): the array it looked at may have been let go meanwhile.
AfterMember ==
    /\ mgr = "after"
    /\ LET gone == walk # None /\ walk \notin held
                           /\ member[walk] \in running \ raid0 IN
       \/ /\ ~gone
          /\ mgr' = "idle" /\ walk' = None
          /\ UNCHANGED <<fields, heap, world, globals, monVars, back, old, new>>
       \/ /\ gone
          /\ OpenNew(member[walk], walk)

\* replace_array.
ReplaceFirst ==
    /\ mgr = "replace"
    /\ RemoveOld
    /\ mgr' = "pending"
    /\ UNCHANGED <<member, held, toRemove, degraded, reshaped, replaces, fds, world,
                   monVars, back, old, new, walk>>

ReplaceWait ==
    /\ mgr = "pending" /\ pendingDiscard # None /\ discardThis # None
    /\ RemoveOld
    /\ UNCHANGED <<member, held, toRemove, degraded, reshaped, replaces, fds, world,
                   monVars, mgrVars>>

ReplaceLink ==
    /\ mgr = "pending" /\ pendingDiscard = None
    /\ pendingDiscard' = old
    /\ replaces' = [replaces EXCEPT ![new] = old]
    /\ next' = [next EXCEPT ![new] = next[Head]]
    /\ mgr' = "publish"
    /\ UNCHANGED <<member, held, toRemove, degraded, reshaped, fds, heap, world,
                   discardThis, monVars, back, old, new, walk>>

Publish ==
    /\ mgr = "publish"
    /\ next' = [next EXCEPT ![Head] = new]
    /\ mgr' = back
    /\ old' = IF back \in {"member", "rest"} THEN new ELSE old
    /\ UNCHANGED <<member, held, toRemove, degraded, reshaped, replaces, fds, heap,
                   world, globals, monVars, back, new, walk>>

-----------------------------------------------------------------------------
(* Arrays stop and start.                                                  *)

Stop(m) ==
    /\ "stop" \in happens \/ ("stopidle" \in happens /\ mgr = "idle" /\ pendingDiscard = None)
    /\ m \in running
    /\ running' = running \ {m}
    /\ dead' = dead \cup {fds[x] : x \in {y \in Aa : member[y] = m}}
    /\ UNCHANGED <<raid0, happens, fields, heap, globals, monVars, mgrVars>>

BecomeRaid0(m) ==
    /\ "raid0" \in happens
    /\ m \in running
    /\ raid0' = raid0 \cup {m}
    /\ UNCHANGED <<running, dead, happens, fields, heap, globals, monVars, mgrVars>>

Start(m) ==
    /\ m \notin running
    /\ "company" \in happens \/ running \cup {member[x] : x \in Aa} \subseteq {m, None}
    /\ "restart" \in happens \/ \A x \in Aa : member[x] # m
    /\ running' = running \cup {m}
    /\ UNCHANGED <<fields, heap, dead, raid0, happens, globals, monVars, mgrVars>>

Init ==
    /\ member = [x \in Aa |-> None]
    /\ held = {} /\ toRemove = {} /\ degraded = {} /\ reshaped = {}
    /\ next = [l \in Aa \cup {Head} |-> None]
    /\ replaces = [x \in Aa |-> None] /\ fds = [x \in Aa |-> None]
    /\ closed = {} /\ dead = {} /\ freed = {}
    /\ discardThis = None /\ pendingDiscard = None
    /\ running = {} /\ raid0 = {} /\ happens \in Happens
    /\ mon = "prune" /\ ap = Head /\ cur = None
    /\ mgr = "idle" /\ back = "idle" /\ old = None /\ new = None
    /\ walk = None

MonitorStep == PruneRead \/ PruneKeep \/ PruneUnlink \/ Scan \/ TakeReplaced \/ Act
ManagerStep == \/ Tidy \/ \E m \in Member : Manage(m)
               \/ LeaveToKernel \/ ChangeLevel \/ Raced \/ CheckDegraded \/ Waited \/ CheckReshape
               \/ AfterMember
               \/ ReplaceFirst \/ ReplaceWait \/ ReplaceLink \/ Publish
World == \E m \in Member : Stop(m) \/ BecomeRaid0(m) \/ Start(m)

Next == MonitorStep \/ ManagerStep \/ World
Spec == Init /\ [][Next]_vars

\* Both threads loop for ever and signal each other when they have work; the
\* manager comes to the end of its loop again and again, whatever it manages.
FairSpec == Spec /\ WF_vars(MonitorStep) /\ WF_vars(ManagerStep) /\ SF_vars(Tidy)

-----------------------------------------------------------------------------

\* "We take it from there and discard it" (replace_array): remove_old never
\* frees a structure that it freed before.
FreedOnce == [][\A x \in Aa : discardThis = x /\ discardThis' = None
                                => x \notin freed]_vars

\* The monitor never holds, reaches or passes back a structure that was freed.
NothingFreedInUse ==
    freed \cap (Listed \cup {cur, discardThis} \cup {replaces[x] : x \in Listed}) = {}

\* manage_member looks at a->container again "after monitor kick", and so does
\* manage() when it returns: the structure it looks at was not freed meanwhile.
ManagerLooksAtLive == mgr = "after" => walk \notin freed

\* free_aa "doesn't close fds if they are being used by a clone": the files of a
\* structure that is monitored stay open as long as its array runs.
FilesStayOpen ==
    \A x \in Listed \cap held : member[x] \in running => fds[x] \notin closed

\* At most one structure on the list is monitored for an array, except while a
\* clone waits for the monitor to unlink its original.
OnePerArray ==
    \A x, y \in Listed \cap held :
        x # y /\ member[x] = member[y] => replaces[x] = y \/ replaces[y] = x

\* When the last structure that uses a set of files is freed, they are closed;
\* those of an array that became RAID0 are not (section 5 of the README).
FilesAreClosed ==
    \A x \in freed : member[x] \notin raid0 /\ (\A y \in Aa : fds[y] = fds[x] => y \in freed) => fds[x] \in closed

\* However its structure is replaced, an array that keeps running stays on the
\* list of monitored arrays.
Watching(m) == \E x \in Listed \cap (held \ toRemove) : member[x] = m
StaysWatched ==
    [][\A m \in (running \cap running') \ raid0' : Watching(m) => Watching(m)']_vars

\* A replacement that was begun is completed.
ReplacementCompletes == (pendingDiscard # None) ~> (pendingDiscard = None)

\* The list implements Custody: who may use a structure is told by where it is.
KeeperOf ==
    LET given == Listed IN
    [x \in Aa |-> IF x = discardThis THEN "slot"
                  ELSE IF x \in given THEN "monitor"
                  ELSE IF x \in freed THEN "freed"
                  ELSE IF member[x] = None THEN "nobody" ELSE "manager"]
C == INSTANCE Custody WITH Structure <- Aa, keeper <- KeeperOf
CustodyKept == C!CustodySpec
=============================================================================
