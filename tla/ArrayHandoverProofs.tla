------------------------ MODULE ArrayHandoverProofs ------------------------
(***************************************************************************)
(* The list that the two threads of mdmon share is handed over safely, for *)
(* any number of structures and of member arrays: nothing is freed while   *)
(* the monitor can reach it, no files are closed under an array that runs, *)
(* an array that runs stays on the list, and every step is a step of       *)
(* Custody.  All of it in the behaviours that are Orderly, which leaves    *)
(* out the orders of events in which the code does lose its way.           *)
(***************************************************************************)
EXTENDS ArrayHandover, WellFoundedInduction, TLAPS

\* An array stops only while the manager has nothing in hand, and does not
\* come back; the list gets shorter only if it has a single array; and the
\* manager is not asked for a spare and for a reshape.
Orderly ==
    /\ "stop" \notin happens
    /\ ~({"spare", "reshape"} \subseteq happens)
    /\ "stopidle" \in happens => "restart" \notin happens
    /\ "company" \in happens => happens \cap {"stopidle", "raid0"} = {}

-----------------------------------------------------------------------------
(* The structures that were allocated, and those that are on the list: all *)
(* but the freed, the one passed back, and one that is not yet published.  *)

Allocated == {x \in Aa : member[x] # None}
Unpublished == IF mgr \in {"waiting", "replace", "pending", "publish"} THEN {new} ELSE {}
Chain == Allocated \ (freed \cup {discardThis} \cup Unpublished)

\* They are linked from the youngest to the oldest.
Above(l, x) == x \in Chain \cup {None} /\ x < l /\ \A y \in Chain : y < l => y <= x
Sorted == \A l \in Chain \cup {Head} : Above(l, next[l])

\* Structures are allocated in turn.
InTurn == \A x \in Allocated, y \in Aa : y < x => y \in Allocated

\* A structure that is not published is the youngest, and one that is about
\* to be is linked.
UnpublishedNew ==
    /\ \A x \in Unpublished : /\ x \in Allocated \ (freed \cup {discardThis})
                              /\ \A y \in Allocated : y <= x
                              /\ member[x] # None /\ (old # None => member[old] = member[x])
    /\ mgr = "publish" => /\ next[new] = next[Head]
                          /\ replaces[new] = old /\ pendingDiscard = old

\* What was passed back, or freed, was allocated, and is not both.
GoneWasThere ==
    /\ freed \subseteq Allocated
    /\ discardThis # None => discardThis \in Allocated \ freed

\* The monitor points into the list, wherever it is.  What it read of the
\* head may be out of date, and is then not to be unlinked.
MonitorPoints ==
    /\ ap \in Chain \cup {Head}
    /\ mon = "prune_act" =>
          /\ cur \in Chain /\ cur < ap
          /\ \/ cur = next[ap]
             \/ ap = Head /\ cur \in held \ toRemove /\ (mgr = "leave" => old # cur)
    /\ mon \in {"replaces", "act"} => cur \in Chain /\ ap = Head
    /\ mon \in {"prune", "scan"} => cur = None

\* What a structure on the list replaces is on the list too, is for the same
\* array, and is the one that pending_discard keeps.
Replacing(y) ==
    replaces[y] # None =>
        /\ replaces[y] \in Chain /\ replaces[y] < y
        /\ member[replaces[y]] = member[y]
        /\ pendingDiscard = replaces[y]
        /\ replaces[y] \in held \ toRemove
        /\ mgr = "leave" => old # replaces[y]
OneReplaced ==
    /\ \A y \in Chain : Replacing(y)
    /\ \A y, z \in Chain : replaces[y] # None /\ replaces[z] # None => y = z

\* The manager's structure is on the list and was not replaced yet.
Current(x) == x \in Chain /\ \A y \in Chain : replaces[y] # x
Working == {"member", "rest", "reshape", "waiting", "replace", "pending", "publish"}
ManagerHolds ==
    /\ mgr = "leave" => old \in Allocated /\ member[old] \in raid0
    /\ mgr \in {"member", "rest"} => Current(old)
    /\ mgr = "reshape" /\ "reshape" \in happens => Current(old)
    /\ mgr \in {"waiting", "replace", "pending", "publish"} => old = None \/ Current(old)
    /\ walk # None => walk \in Allocated
    /\ back = "reshape" => "spare" \in happens
    /\ "spare" \notin happens => degraded = {}
    /\ "reshape" \notin happens => reshaped = {}

\* A working manager finds nothing to be unlinked.
NothingToPrune == mgr \in Working => toRemove = {} /\ Allocated \subseteq held

\* What is let go belongs to an array that stopped or became RAID0.
LetGo ==
    /\ toRemove \subseteq Allocated /\ held \subseteq Allocated
    /\ \A x \in toRemove : member[x] \in raid0
    /\ \A x \in Allocated \ held : member[x] \notin running
    /\ \A x, y \in Allocated : fds[x] = fds[y] => member[x] = member[y]
    /\ \A x \in Allocated : fds[x] \in Allocated /\ member[fds[x]] = member[x]
    /\ \A x \in Allocated : fds[x] \in dead \cup closed => member[x] \notin running
    /\ closed \subseteq Allocated /\ dead \subseteq Allocated

\* Without company there is one array, and what stopped does not start again.
OneArray ==
    /\ "company" \notin happens =>
          /\ \A m, n \in running : m = n
          /\ \A x \in Allocated : \A m \in running : member[x] = m
          /\ \A x, y \in Allocated : member[x] = member[y]
    /\ raid0 # {} => "raid0" \in happens
    /\ (\E x \in Allocated : member[x] \notin running)
          => "stopidle" \in happens /\ mgr = "idle" /\ pendingDiscard = None

HandoverInv ==
    /\ TypeOK /\ InTurn /\ Sorted /\ UnpublishedNew /\ GoneWasThere /\ MonitorPoints
    /\ OneReplaced /\ ManagerHolds /\ NothingToPrune /\ LetGo /\ OneArray

-----------------------------------------------------------------------------
(* Numbers, and what the definitions above depend on.                      *)

\* A set of numbers has a least one: this is what stands for an induction.
LEMMA Least ==
    ASSUME NEW S \in SUBSET Nat, S # {}
    PROVE  \E n \in S : \A m \in S : n <= m
<1> DEFINE R == {ss \in Nat \X Nat : ss[1] < ss[2]}
<1>1. IsWellFoundedOn(R, Nat)
  BY NatLessThanWellFounded DEF OpToRel
<1> HIDE DEF R
<1>2. PICK n \in S : \A m \in S : ~(<<m, n>> \in R)
  BY <1>1, WFMin
<1>3. \A m \in S : ~(m < n)
  BY <1>2 DEF R
<1> QED
  BY <1>3

LEMMA Numbers ==
    /\ Head \in Nat /\ Head \notin Aa /\ Head # None
    /\ \A x \in Aa : x \in Nat /\ x # None /\ x < Head /\ 0 < x
  BY MaxAaAssumption DEF Aa, Head, None

LEMMA ChainInAa == Chain \subseteq Allocated /\ Allocated \subseteq Aa
  BY DEF Chain, Allocated

LEMMA ChainKept ==
    ASSUME UNCHANGED <<member, freed, discardThis>>, Unpublished' = Unpublished
    PROVE  Chain' = Chain /\ Allocated' = Allocated
  BY DEF Chain, Allocated

\* What follows location l on the list are the older structures.
LEMMA FollowIsOlder ==
    ASSUME TypeOK, Sorted, NEW l \in Chain \cup {Head}
    PROVE  ListFrom(l) = {y \in Chain : y < l}
<1> DEFINE Older == {y \in Chain : y < l}
<1>1. Older \in SUBSET Aa
  BY ChainInAa
<1>2. LeadsInto(l, Older)
  <2>1. next[l] \in Older \cup {None}
    BY DEF Sorted, Above
  <2>2. ASSUME NEW x \in Older PROVE next[x] \in Older \cup {None}
    <3>1. Above(x, next[x])
      BY DEF Sorted
    <3>2. x \in Nat /\ l \in Nat /\ x < l /\ next[x] < x
      BY <3>1, Numbers, ChainInAa DEF Above
    <3>3. next[x] \in Chain => next[x] \in Nat
      BY Numbers, ChainInAa
    <3> QED
      BY <3>1, <3>2, <3>3 DEF Above
  <2> QED
    BY <2>1, <2>2 DEF LeadsInto
<1>3. ASSUME NEW T \in SUBSET Aa, LeadsInto(l, T) PROVE Older \subseteq T
  <2> SUFFICES ASSUME Older \ T # {} PROVE FALSE
    OBVIOUS
  <2> DEFINE Depths == {Head - y : y \in Older \ T}
  <2>1. Depths \in SUBSET Nat /\ Depths # {}
    BY Numbers, ChainInAa
  <2>2. PICK d \in Depths : \A e \in Depths : d <= e
    BY <2>1, Least
  <2>3. PICK y \in Older \ T : d = Head - y
    OBVIOUS
  <2>4. \A x \in Older \ T : x <= y
    BY <2>2, <2>3, Numbers, ChainInAa
  <2> HIDE DEF Depths
  <2>5. y \in Chain /\ y < l /\ y \in Nat /\ l \in Nat /\ y # None
    BY Numbers, ChainInAa
  <2> DEFINE Between == {x \in Older \cup {l} : y < x}
  <2>6. Between \in SUBSET Nat /\ Between # {}
    BY <2>5, Numbers, ChainInAa
  <2> HIDE DEF Between
  <2>7. PICK x \in Between : \A z \in Between : x <= z
    BY <2>6, Least
  <2>8. x \in Older \cup {l} /\ y < x
    BY DEF Between
  <2>9. x \in T \cup {l}
    BY <2>4, <2>5, <2>8, Numbers, ChainInAa
  <2>10. next[x] \in T \cup {None}
    BY <1>3, <2>9 DEF LeadsInto
  <2>11. Above(x, next[x])
    BY <2>8 DEF Sorted
  <2>12. y <= next[x]
    BY <2>5, <2>8, <2>11 DEF Above
  <2>13. next[x] \in Chain /\ next[x] < x
    BY <2>5, <2>11, <2>12 DEF Above, None
  <2>14. next[x] \in Older
    <3>1. next[x] \in Nat
      BY <2>13, Numbers, ChainInAa
    <3>2. x = l \/ (x \in Nat /\ x < l)
      BY <2>8, Numbers, ChainInAa
    <3> QED
      BY <2>5, <2>13, <3>1, <3>2
  <2>15. next[x] = y
    <3>1. next[x] \in Nat /\ x \in Nat
      BY <2>8, <2>13, <2>5, Numbers, ChainInAa
    <3>2. y < next[x] => next[x] \in Between
      BY <2>14 DEF Between
    <3>3. ~(y < next[x])
      BY <2>7, <2>13, <3>1, <3>2
    <3> QED
      BY <2>5, <2>12, <3>1, <3>3
  <2> QED
    BY <2>3, <2>5, <2>10, <2>15
<1> HIDE DEF Older
<1>4. Older = ListFrom(l)
  <2> DEFINE Fewest(S) == /\ LeadsInto(l, S)
                         /\ \A T \in SUBSET Aa : LeadsInto(l, T) => S \subseteq T
  <2>1. Fewest(Older)
    BY <1>2, <1>3
  <2>2. \A S \in SUBSET Aa : Fewest(S) => S = Older
    BY <1>1, <1>2, <1>3
  <2> HIDE DEF Fewest
  <2>3. Older = CHOOSE S \in SUBSET Aa : Fewest(S)
    BY <1>1, <2>1, <2>2
  <2> QED
    BY <2>3 DEF Fewest, ListFrom
<1> QED
  BY <1>4 DEF Older

LEMMA ListedIsChain == TypeOK /\ Sorted => Listed = Chain
<1> SUFFICES ASSUME TypeOK, Sorted PROVE Listed = Chain
  OBVIOUS
<1>1. Listed = {y \in Chain : y < Head}
  BY FollowIsOlder DEF Listed
<1> QED
  BY <1>1, Numbers, ChainInAa

-----------------------------------------------------------------------------
(* The monitor's steps.                                                    *)

LEMMA ListKept ==
    ASSUME InTurn, Sorted, GoneWasThere, UNCHANGED <<member, next, freed, discardThis>>,
           Unpublished' = Unpublished
    PROVE  InTurn' /\ Sorted' /\ GoneWasThere' /\ Chain' = Chain /\ Allocated' = Allocated
<1>1. Chain' = Chain /\ Allocated' = Allocated
  BY ChainKept
<1> QED
  BY <1>1 DEF InTurn, Sorted, Above, GoneWasThere

LEMMA MonitorMoves ==
    ASSUME HandoverInv, UNCHANGED <<fields, heap, world, globals, mgrVars>>,
           TypeOK', MonitorPoints'
    PROVE  HandoverInv'
<1> USE DEF fields, heap, world, globals, mgrVars, HandoverInv
<1>1. Unpublished' = Unpublished
  BY DEF Unpublished
<1>2. InTurn' /\ Sorted' /\ GoneWasThere' /\ Chain' = Chain /\ Allocated' = Allocated
  BY <1>1, ListKept
<1>3. UnpublishedNew'
  BY <1>1, <1>2 DEF UnpublishedNew
<1>4. OneReplaced' /\ ManagerHolds'
  BY <1>2 DEF OneReplaced, Replacing, ManagerHolds, Current
<1>5. NothingToPrune' /\ LetGo' /\ OneArray'
  BY <1>2 DEF NothingToPrune, LetGo, OneArray
<1> QED
  BY <1>2, <1>3, <1>4, <1>5

LEMMA PruneReadKeeps == HandoverInv /\ PruneRead => HandoverInv'
<1> SUFFICES ASSUME HandoverInv, PruneRead PROVE HandoverInv'
  OBVIOUS
<1>0. UNCHANGED <<fields, heap, world, globals, mgrVars>> /\ ap' = ap
  BY DEF PruneRead
<1>1. Chain' = Chain
  BY <1>0, ChainKept DEF Unpublished, fields, heap, globals, mgrVars
<1>2. Above(ap, next[ap])
  BY DEF HandoverInv, MonitorPoints, Sorted
<1>3. TypeOK'
  BY <1>0, <1>2, ChainInAa DEF Above, HandoverInv, TypeOK, PruneRead, Pointer, fields,
     heap, world, globals, mgrVars
<1>4. MonitorPoints'
  BY <1>0, <1>1, <1>2 DEF Above, HandoverInv, MonitorPoints, PruneRead, fields, mgrVars
<1> QED
  BY <1>0, <1>3, <1>4, MonitorMoves

LEMMA PruneKeepKeeps == HandoverInv /\ PruneKeep => HandoverInv'
<1> SUFFICES ASSUME HandoverInv, PruneKeep PROVE HandoverInv'
  OBVIOUS
<1>0. UNCHANGED <<fields, heap, world, globals, mgrVars>>
  BY DEF PruneKeep
<1>1. Chain' = Chain
  BY <1>0, ChainKept DEF Unpublished, fields, heap, globals, mgrVars
<1>2. next[ap] \in Chain
  <2>1. cur \in Chain /\ cur < ap /\ Above(ap, next[ap])
    BY DEF HandoverInv, MonitorPoints, Sorted, PruneKeep
  <2> QED
    BY <2>1, Numbers, ChainInAa DEF Above, None
<1>3. TypeOK'
  BY <1>0, <1>2, ChainInAa DEF HandoverInv, TypeOK, PruneKeep, Pointer, fields,
     heap, world, globals, mgrVars
<1>4. MonitorPoints'
  BY <1>0, <1>1, <1>2 DEF HandoverInv, MonitorPoints, PruneKeep, fields, mgrVars
<1> QED
  BY <1>0, <1>3, <1>4, MonitorMoves

LEMMA ScanKeeps == HandoverInv /\ Scan => HandoverInv'
<1> SUFFICES ASSUME HandoverInv, Scan PROVE HandoverInv'
  OBVIOUS
<1>0. UNCHANGED <<fields, heap, world, globals, mgrVars>>
  BY DEF Scan
<1>1. Chain' = Chain
  BY <1>0, ChainKept DEF Unpublished, fields, heap, globals, mgrVars
<1>2. Above(Head, next[Head])
  BY DEF HandoverInv, Sorted
<1>3. TypeOK'
  BY <1>0, <1>2, ChainInAa DEF Above, HandoverInv, TypeOK, Scan, Pointer, fields,
     heap, world, globals, mgrVars
<1>4. MonitorPoints'
  BY <1>0, <1>1, <1>2 DEF Above, HandoverInv, MonitorPoints, Scan, fields, mgrVars
<1> QED
  BY <1>0, <1>3, <1>4, MonitorMoves

\* An array is let go only after it stopped, when the manager has nothing in
\* hand and no structure is being replaced.
LEMMA ActKeeps == HandoverInv /\ Act => HandoverInv'
<1> SUFFICES ASSUME HandoverInv, Act PROVE HandoverInv'
  OBVIOUS
<1> USE DEF HandoverInv
<1>0. /\ UNCHANGED <<member, toRemove, next, replaces, fds, closed, freed>>
      /\ UNCHANGED <<running, raid0, dead, happens, discardThis, pendingDiscard>>
      /\ UNCHANGED <<ap, mgr, back, old, new, walk>>
  BY DEF Act, heap, world, globals, mgrVars
<1>1. InTurn' /\ Sorted' /\ GoneWasThere' /\ Chain' = Chain /\ Allocated' = Allocated
  BY <1>0, ListKept DEF Unpublished
<1>2. cur \in Chain /\ Above(cur, next[cur]) /\ ap = Head
  BY DEF MonitorPoints, Sorted, Act
<1>3. \/ held' = held
      \/ /\ held' = held \ {cur} /\ member[cur] \notin running
         /\ mgr = "idle" /\ pendingDiscard = None
  <2>1. held' = held \/ (held' = held \ {cur} /\ fds[cur] \in dead \cup closed)
    BY DEF Act
  <2> QED
    BY <1>2, <2>1, ChainInAa DEF LetGo, OneArray
<1>4. /\ reshaped' \in SUBSET Aa /\ degraded' \in SUBSET Aa
      /\ "reshape" \notin happens => reshaped' = reshaped
      /\ "spare" \notin happens => degraded' = degraded
  BY <1>2, ChainInAa DEF Act, TypeOK
<1>5. TypeOK'
  BY <1>0, <1>2, <1>3, <1>4, ChainInAa DEF Above, TypeOK, Act, Pointer
<1>6. UnpublishedNew'
  BY <1>0, <1>1 DEF UnpublishedNew, Unpublished
<1>7. MonitorPoints'
  BY <1>0, <1>1, <1>2 DEF Above, MonitorPoints, Act
<1>8. OneReplaced'
  BY <1>0, <1>1, <1>3 DEF OneReplaced, Replacing
<1>9. ManagerHolds'
  BY <1>0, <1>1, <1>4 DEF ManagerHolds, Current
<1>10. NothingToPrune'
  BY <1>0, <1>1, <1>3 DEF NothingToPrune, Working
<1>11. LetGo' /\ OneArray'
  BY <1>0, <1>1, <1>3 DEF LetGo, OneArray
<1> QED
  BY <1>1, <1>5, <1>6, <1>7, <1>8, <1>9, <1>10, <1>11

\* Unlinking: cur is really the next one, since what may be unlinked is not at
\* a head that changed, and nothing on the list replaces it.
LEMMA PruneUnlinkKeeps == HandoverInv /\ PruneUnlink => HandoverInv'
<1> SUFFICES ASSUME HandoverInv, PruneUnlink PROVE HandoverInv'
  OBVIOUS
<1> USE DEF HandoverInv
<1>0. /\ UNCHANGED <<member, held, toRemove, degraded, reshaped, replaces, fds>>
      /\ UNCHANGED <<closed, freed, running, raid0, dead, happens, pendingDiscard>>
      /\ UNCHANGED <<ap, mgr, back, old, new, walk>>
      /\ discardThis = None /\ discardThis' = cur /\ cur \notin held \ toRemove
      /\ mon' = "prune" /\ cur' = None
  BY DEF PruneUnlink, heap, world, mgrVars
<1>1. cur \in Chain /\ cur = next[ap] /\ cur < ap /\ ap \in Chain \cup {Head}
  BY <1>0 DEF MonitorPoints, PruneUnlink
<1>2. cur \in Aa /\ cur \in Nat /\ cur # None /\ cur # Head
  BY <1>1, Numbers, ChainInAa
<1>3. mgr \notin Working
  BY <1>0, <1>1, ChainInAa DEF NothingToPrune
<1>4. Unpublished = {} /\ Unpublished' = {}
  BY <1>0, <1>3 DEF Unpublished, Working
<1>5. Allocated' = Allocated /\ Chain' = Chain \ {cur}
  <2>1. Allocated' = Allocated
    BY <1>0 DEF Allocated
  <2>2. None \notin Allocated
    BY Numbers, ChainInAa
  <2> QED
    BY <1>0, <1>4, <2>1, <2>2 DEF Chain
<1>6. \A l \in (Chain \ {cur}) \cup {Head} : next'[l] = IF l = ap THEN next[cur] ELSE next[l]
  <2>1. ap # cur /\ DOMAIN next = Aa \cup {Head} /\ ap \in Aa \cup {Head}
    BY <1>1, <1>2, Numbers, ChainInAa DEF TypeOK
  <2>2. next' = [next EXCEPT ![ap] = next[cur], ![cur] = None]
    BY DEF PruneUnlink
  <2>3. (Chain \ {cur}) \cup {Head} \subseteq DOMAIN next
    BY <2>1, ChainInAa
  <2> QED
    BY <1>2, <2>1, <2>2, <2>3
<1>7. Sorted'
  <2>1. Above(cur, next[cur]) /\ Above(ap, next[ap])
    BY <1>1 DEF Sorted
  <2>2. next[cur] # cur
    BY <1>2, <2>1, Numbers, ChainInAa DEF Above
  <2>3. ASSUME NEW l \in (Chain \ {cur}) \cup {Head}, l # ap PROVE next[l] # cur
    <3>1. Above(l, next[l])
      BY <2>3 DEF Sorted
    <3>2. l \in Nat /\ ap \in Nat
      BY <1>1, <2>3, Numbers, ChainInAa
    <3>3. CASE l < ap
      <4>1. l \in Chain
        BY <1>1, <2>3, <3>3, Numbers, ChainInAa
      <4>2. l <= cur
        BY <1>1, <2>1, <3>3, <4>1 DEF Above
      <4> QED
        BY <1>2, <3>1, <3>2, <4>2 DEF Above
    <3>4. CASE ap < l
      <4>1. ap \in Chain
        BY <1>1, <2>3, <3>4, Numbers, ChainInAa
      <4>2. ap <= next[l]
        BY <3>1, <3>4, <4>1 DEF Above
      <4> QED
        BY <1>1, <1>2, <3>2, <4>2
    <3> QED
      BY <2>3, <3>2, <3>3, <3>4
  <2>4. ASSUME NEW l \in (Chain \ {cur}) \cup {Head}
        PROVE  /\ next'[l] \in (Chain \ {cur}) \cup {None} /\ next'[l] < l
               /\ \A y \in Chain \ {cur} : y < l => y <= next'[l]
    <3>1. CASE l # ap
      BY <1>6, <2>3, <2>4, <3>1 DEF Sorted, Above
    <3>2. CASE l = ap
      <4>1. next'[l] = next[cur]
        BY <1>6, <2>4, <3>2
      <4>2. next[cur] \in (Chain \ {cur}) \cup {None}
        BY <2>1, <2>2, <1>2 DEF Above
      <4>3. next[cur] < ap
        <5>1. next[cur] \in Nat /\ ap \in Nat /\ next[cur] < cur
          BY <1>1, <2>1, <4>2, Numbers, ChainInAa DEF Above, None
        <5> QED
          BY <1>1, <1>2, <5>1
      <4>4. ASSUME NEW y \in Chain \ {cur}, y < ap PROVE y <= next[cur]
        <5>1. y <= cur /\ y \in Nat
          BY <1>1, <2>1, <4>4, Numbers, ChainInAa DEF Above
        <5>2. y < cur
          BY <1>2, <4>4, <5>1
        <5> QED
          BY <2>1, <4>4, <5>2 DEF Above
      <4> QED
        BY <3>2, <4>1, <4>2, <4>3, <4>4
    <3> QED
      BY <3>1, <3>2
  <2> QED
    BY <1>5, <2>4 DEF Sorted, Above
<1>8. InTurn' /\ GoneWasThere'
  BY <1>0, <1>1, <1>5, ChainInAa DEF InTurn, GoneWasThere, Chain
<1>9. UnpublishedNew'
  BY <1>0, <1>3, <1>4 DEF UnpublishedNew, Working
<1>10. MonitorPoints'
  BY <1>0, <1>1, <1>2, <1>5, Numbers, ChainInAa DEF MonitorPoints
<1>11. OneReplaced'
  BY <1>0, <1>5 DEF OneReplaced, Replacing
<1>12. ManagerHolds'
  BY <1>0, <1>3, <1>5 DEF ManagerHolds, Working
<1>13. NothingToPrune' /\ LetGo' /\ OneArray'
  BY <1>0, <1>5 DEF NothingToPrune, LetGo, OneArray
<1>14. TypeOK'
  <2>1. next[cur] \in Pointer
    BY <1>2 DEF TypeOK
  <2>2. next' \in [Aa \cup {Head} -> Pointer]
    BY <2>1 DEF TypeOK, PruneUnlink, Pointer
  <2> QED
    BY <1>0, <1>2, <2>2 DEF TypeOK, Pointer
<1> QED
  BY <1>5, <1>7, <1>8, <1>9, <1>10, <1>11, <1>12, <1>13, <1>14

\* The original of a clone is unlinked from behind the clone: it is older, so
\* it is found there, and no other structure replaces it.
LEMMA TakeReplacedKeeps == HandoverInv /\ TakeReplaced => HandoverInv'
<1> SUFFICES ASSUME HandoverInv, TakeReplaced PROVE HandoverInv'
  OBVIOUS
<1> USE DEF HandoverInv
<1> DEFINE r == replaces[cur]
<1>0. /\ UNCHANGED <<member, held, toRemove, degraded, reshaped, fds>>
      /\ UNCHANGED <<closed, freed, running, raid0, dead, happens, pendingDiscard>>
      /\ UNCHANGED <<ap, cur, mgr, back, old, new, walk>>
      /\ mon = "replaces" /\ mon' = "act"
  BY DEF TakeReplaced, heap, world, mgrVars
<1>1. cur \in Chain /\ cur \in Aa /\ ap = Head
  BY <1>0, ChainInAa DEF MonitorPoints
<1>2. Unpublished' = Unpublished
  BY <1>0 DEF Unpublished
<1>3. CASE ~(r # None /\ discardThis = None)
  <2>1. UNCHANGED <<discardThis, replaces, next>>
    BY <1>3 DEF TakeReplaced
  <2>2. InTurn' /\ Sorted' /\ GoneWasThere' /\ Chain' = Chain /\ Allocated' = Allocated
    BY <1>0, <1>2, <2>1, ListKept
  <2>3. UnpublishedNew'
    BY <1>0, <1>2, <2>1, <2>2 DEF UnpublishedNew
  <2>4. OneReplaced' /\ ManagerHolds'
    BY <1>0, <2>1, <2>2 DEF OneReplaced, Replacing, ManagerHolds, Current
  <2>5. NothingToPrune' /\ LetGo' /\ OneArray'
    BY <1>0, <2>1, <2>2 DEF NothingToPrune, LetGo, OneArray
  <2>6. MonitorPoints'
    BY <1>0, <1>1, <2>2 DEF MonitorPoints
  <2>7. TypeOK'
    BY <1>0, <2>1 DEF TypeOK
  <2> QED
    BY <2>2, <2>3, <2>4, <2>5, <2>6, <2>7
<1>4. CASE r # None /\ discardThis = None
  <2>0. /\ discardThis' = r /\ replaces' = [replaces EXCEPT ![cur] = None]
        /\ next' = [l \in DOMAIN next |->
                       IF l \in {cur} \cup ListFrom(cur) /\ next[l] = r
                       THEN next[r] ELSE next[l]]
    BY <1>4 DEF TakeReplaced
  <2>1. /\ r \in Chain /\ r < cur /\ pendingDiscard = r
        /\ \A y \in Chain : replaces[y] # None => y = cur
    BY <1>1, <1>4 DEF OneReplaced, Replacing
  <2>2. /\ r \in Aa /\ r \in Nat /\ cur \in Nat /\ r # None /\ r # Head /\ r # cur
        /\ cur # Head
    BY <1>1, <2>1, Numbers, ChainInAa
  <2>3. Allocated' = Allocated /\ Chain' = Chain \ {r}
    <3>1. Allocated' = Allocated
      BY <1>0 DEF Allocated
    <3> QED
      BY <1>0, <1>2, <1>4, <2>0, <2>2, <3>1, Numbers, ChainInAa DEF Chain, None
  <2>4. ListFrom(cur) = {y \in Chain : y < cur}
    BY <1>1, FollowIsOlder
  <2>5. \A l \in Chain \cup {Head} :
            next'[l] = IF l \in Chain /\ l <= cur /\ next[l] = r THEN next[r] ELSE next[l]
    <3>1. \A l \in Chain : l \in Nat /\ l \in Aa
      BY Numbers, ChainInAa
    <3>2. DOMAIN next = Aa \cup {Head}
      BY DEF TypeOK
    <3>3. Head \notin Chain
      BY Numbers, ChainInAa
    <3>4. \A l \in Chain \cup {Head} :
              l \in {cur} \cup ListFrom(cur) <=> l \in Chain /\ l <= cur
      BY <1>1, <2>2, <2>4, <3>1, <3>3
    <3> QED
      BY <2>0, <3>1, <3>2, <3>4
  <2>6. Sorted'
    <3>1. Above(r, next[r])
      BY <2>1 DEF Sorted
    <3>2. ASSUME NEW l \in (Chain \ {r}) \cup {Head}
          PROVE  /\ next'[l] \in (Chain \ {r}) \cup {None} /\ next'[l] < l
                 /\ \A y \in Chain \ {r} : y < l => y <= next'[l]
      <4>1. Above(l, next[l]) /\ l \in Nat
        BY <3>2, Numbers, ChainInAa DEF Sorted
      <4>2. CASE next[l] # r
        BY <2>5, <3>2, <4>1, <4>2 DEF Above
      <4>3. CASE next[l] = r
        <5>1. l \in Chain /\ l <= cur
          <6>1. cur < l => cur <= r
            BY <1>1, <4>1, <4>3 DEF Above
          <6>2. l <= cur
            BY <2>1, <2>2, <4>1, <6>1
          <6> QED
            BY <1>1, <2>2, <3>2, <6>2, Numbers, ChainInAa
        <5>2. next'[l] = next[r]
          BY <2>5, <4>3, <5>1
        <5>3. next[r] \in (Chain \ {r}) \cup {None}
          BY <2>2, <3>1, Numbers, ChainInAa DEF Above, None
        <5>4. next[r] < l
          <6>1. next[r] \in Nat /\ next[r] < r
            BY <3>1, <5>3, Numbers, ChainInAa DEF Above, None
          <6>2. r < l
            BY <4>1, <4>3 DEF Above
          <6> QED
            BY <2>2, <4>1, <6>1, <6>2
        <5>5. ASSUME NEW y \in Chain \ {r}, y < l PROVE y <= next[r]
          <6>1. y <= r /\ y \in Nat
            BY <4>1, <4>3, <5>5, Numbers, ChainInAa DEF Above
          <6>2. y < r
            BY <2>2, <5>5, <6>1
          <6> QED
            BY <3>1, <5>5, <6>2 DEF Above
        <5> QED
          BY <5>2, <5>3, <5>4, <5>5
      <4> QED
        BY <4>2, <4>3
    <3> QED
      BY <2>3, <3>2 DEF Sorted, Above
  <2>7. InTurn' /\ GoneWasThere'
    BY <1>0, <2>0, <2>1, <2>3, ChainInAa DEF InTurn, GoneWasThere, Chain
  <2>8. mgr # "publish" /\ (mgr \in {"waiting", "replace", "pending"} => old # r)
    <3>1. mgr \in {"waiting", "replace", "pending", "publish"} => old # r
      BY <1>1, <1>4 DEF ManagerHolds, Current
    <3> QED
      BY <2>1, <3>1 DEF UnpublishedNew
  <2>9. UnpublishedNew'
    <3>1. \A x \in Unpublished : x # r
      BY <2>1 DEF Chain
    <3>2. Unpublished \subseteq Allocated
      BY DEF UnpublishedNew
    <3> QED
      BY <1>0, <1>2, <2>0, <2>3, <2>8, <3>1, <3>2 DEF UnpublishedNew
  <2>10. MonitorPoints'
    BY <1>0, <1>1, <2>2, <2>3 DEF MonitorPoints
  <2>11. \A y \in Chain \ {r} : replaces'[y] = None
    BY <2>0, <2>1, ChainInAa DEF TypeOK
  <2>12. OneReplaced'
    BY <2>3, <2>11 DEF OneReplaced, Replacing
  <2>13. ManagerHolds'
    <3>1. ASSUME NEW x, Current(x) PROVE Current(x)'
      <4>1. x # r /\ x \in Chain /\ x # None
        BY <1>1, <3>1, Numbers, ChainInAa DEF Current
      <4> QED
        BY <2>3, <2>11, <4>1 DEF Current
    <3>2. Current(old) => Current(old)'
      BY <1>0, <3>1
    <3> QED
      BY <1>0, <2>3, <3>2 DEF ManagerHolds
  <2>14. NothingToPrune' /\ LetGo' /\ OneArray'
    BY <1>0, <2>3 DEF NothingToPrune, LetGo, OneArray
  <2>15. TypeOK'
    <3>1. next' \in [Aa \cup {Head} -> Pointer]
      <4>1. next[r] \in Pointer
        BY <2>2 DEF TypeOK
      <4> QED
        BY <2>0, <4>1 DEF TypeOK
    <3>2. replaces' \in [Aa -> Pointer]
      BY <2>0 DEF TypeOK, Pointer
    <3> QED
      BY <1>0, <2>0, <2>2, <3>1, <3>2 DEF TypeOK, Pointer
  <2> QED
    BY <2>3, <2>6, <2>7, <2>9, <2>10, <2>12, <2>13, <2>14, <2>15
<1> QED
  BY <1>3, <1>4

-----------------------------------------------------------------------------
(* The manager's steps.                                                    *)

\* What is freed is neither on the list nor about to be, and its files are
\* closed only when its array no longer runs.
LEMMA RemoveOldKeeps ==
    ASSUME HandoverInv, RemoveOld,
           UNCHANGED <<member, held, toRemove, degraded, reshaped, replaces, fds>>,
           UNCHANGED <<running, raid0, dead, happens, mon, ap, cur, back, old, new, walk>>,
           \/ mgr \in {"idle", "pending"} /\ mgr' = mgr
           \/ mgr = "replace" /\ mgr' = "pending"
    PROVE  HandoverInv'
<1> USE DEF HandoverInv
<1> DEFINE d == discardThis
<1>1. Unpublished' = Unpublished
  BY DEF Unpublished
<1>2. CASE d = None
  <2>1. UNCHANGED <<next, closed, freed, discardThis, pendingDiscard>>
    BY <1>2 DEF RemoveOld, heap, globals
  <2>2. InTurn' /\ Sorted' /\ GoneWasThere' /\ Chain' = Chain /\ Allocated' = Allocated
    BY <1>1, <2>1, ListKept
  <2>3. UnpublishedNew'
    BY <1>1, <2>1, <2>2 DEF UnpublishedNew
  <2>4. OneReplaced' /\ ManagerHolds'
    BY <2>1, <2>2 DEF OneReplaced, Replacing, ManagerHolds, Current
  <2>5. NothingToPrune' /\ LetGo' /\ OneArray'
    BY <2>1, <2>2 DEF NothingToPrune, Working, LetGo, OneArray
  <2>6. MonitorPoints'
    BY <2>1, <2>2 DEF MonitorPoints
  <2>7. TypeOK'
    BY <2>1 DEF TypeOK
  <2> QED
    BY <2>2, <2>3, <2>4, <2>5, <2>6, <2>7
<1>3. CASE d # None
  <2>0. /\ next' = [next EXCEPT ![d] = None]
        /\ freed' = freed \cup {d} /\ discardThis' = None
        /\ closed' = closed \/ (d \notin held /\ closed' = closed \cup {fds[d]})
        /\ pendingDiscard' = IF pendingDiscard = d THEN None ELSE pendingDiscard
    BY <1>3 DEF RemoveOld
  <2>1. d \in Allocated /\ d \notin freed /\ d \in Aa /\ d # Head
    BY <1>3, Numbers, ChainInAa DEF GoneWasThere
  <2>2. d \notin Chain
    BY DEF Chain
  <2>3. Allocated' = Allocated /\ Chain' = Chain
    <3>1. Allocated' = Allocated
      BY DEF Allocated
    <3>2. None \notin Allocated
      BY Numbers, ChainInAa
    <3> QED
      BY <1>1, <2>0, <3>1, <3>2 DEF Chain
  <2>4. \A l \in Chain \cup {Head} : next'[l] = next[l]
    <3>1. \A l \in Chain \cup {Head} : l # d /\ l \in DOMAIN next
      BY <2>1, <2>2, ChainInAa DEF TypeOK
    <3> QED
      BY <2>0, <3>1
  <2>5. Sorted' /\ InTurn' /\ GoneWasThere'
    <3>1. \A l \in Chain \cup {Head} : Above(l, next[l])
      BY DEF Sorted
    <3>2. Sorted'
      BY <2>3, <2>4, <3>1 DEF Sorted, Above
    <3> QED
      BY <2>0, <2>1, <2>3, <3>2 DEF InTurn, GoneWasThere
  <2>6. UnpublishedNew'
    <3>1. \A x \in Unpublished : x # d /\ x # None
      BY Numbers, ChainInAa DEF UnpublishedNew
    <3> QED
      BY <1>1, <2>0, <2>3, <3>1 DEF UnpublishedNew
  <2>7. MonitorPoints'
    <3>1. next'[ap] = next[ap] /\ mgr' # "leave"
      BY <2>4 DEF MonitorPoints
    <3> QED
      BY <2>3, <3>1 DEF MonitorPoints
  <2>8. OneReplaced'
    <3>1. ASSUME NEW y \in Chain, replaces[y] # None PROVE pendingDiscard' = pendingDiscard
      BY <2>0, <2>2, <3>1 DEF OneReplaced, Replacing
    <3> QED
      BY <2>3, <3>1 DEF OneReplaced, Replacing
  <2>9. ManagerHolds'
    BY <2>3 DEF ManagerHolds, Current
  <2>10. NothingToPrune'
    BY <2>3 DEF NothingToPrune, Working
  <2>11. LetGo'
    <3>1. closed' \subseteq Allocated
      BY <2>0, <2>1 DEF LetGo
    <3>2. ASSUME NEW x \in Allocated, fds[x] \in dead \cup closed' PROVE member[x] \notin running
      <4>1. CASE fds[x] \in dead \cup closed
        BY <3>2, <4>1 DEF LetGo
      <4>2. CASE fds[x] \notin dead \cup closed
        <5>1. d \notin held /\ fds[x] = fds[d]
          BY <2>0, <3>2, <4>2
        <5>2. member[x] = member[d] /\ member[d] \notin running
          BY <2>1, <3>2, <5>1 DEF LetGo
        <5> QED
          BY <5>2
      <4> QED
        BY <4>1, <4>2
    <3> QED
      BY <2>3, <3>1, <3>2 DEF LetGo
  <2>12. OneArray'
    BY <2>0, <2>3 DEF OneArray
  <2>13. TypeOK'
    <3>1. next' \in [Aa \cup {Head} -> Pointer]
      BY <2>0, <2>1 DEF TypeOK, Pointer
    <3>2. closed' \subseteq Aa
      BY <2>0, <2>1, ChainInAa DEF LetGo, TypeOK
    <3> QED
      BY <2>0, <2>1, <3>1, <3>2 DEF TypeOK, Pointer
  <2> QED
    BY <2>5, <2>6, <2>7, <2>8, <2>9, <2>10, <2>11, <2>12, <2>13
<1> QED
  BY <1>2, <1>3

LEMMA RemovingKeeps == HandoverInv /\ (Tidy \/ ReplaceFirst \/ ReplaceWait) => HandoverInv'
<1> USE DEF world, monVars, mgrVars
<1>1. ASSUME HandoverInv, Tidy PROVE HandoverInv'
  BY <1>1, RemoveOldKeeps DEF Tidy
<1>2. ASSUME HandoverInv, ReplaceFirst PROVE HandoverInv'
  BY <1>2, RemoveOldKeeps DEF ReplaceFirst
<1>3. ASSUME HandoverInv, ReplaceWait PROVE HandoverInv'
  BY <1>3, RemoveOldKeeps DEF ReplaceWait
<1> QED
  BY <1>1, <1>2, <1>3

\* The structure that manage() finds is the youngest on the list for its array.
LEMMA FoundIsYoungest ==
    ASSUME TypeOK, Sorted, NEW m \in Member, Found(m) # None
    PROVE  /\ Found(m) \in Chain /\ member[Found(m)] = m
           /\ \A y \in Chain : member[y] = m => y <= Found(m)
<1> DEFINE its == {x \in Listed : member[x] = m}
           First(x) == its \ {x} \subseteq ListFrom(x)
<1>1. its # {} /\ Found(m) = CHOOSE x \in its : First(x)
  BY DEF Found
<1>2. its \subseteq Chain /\ \A x \in its : x \in Nat /\ x < Head
  BY ListedIsChain, Numbers, ChainInAa
<1>3. PICK g \in its : \A x \in its : x <= g
  <2> DEFINE Depths == {Head - x : x \in its}
  <2>1. Depths \in SUBSET Nat /\ Depths # {}
    BY <1>1, <1>2, Numbers
  <2>2. PICK d \in Depths : \A e \in Depths : d <= e
    BY <2>1, Least
  <2> QED
    BY <1>2, <2>2, Numbers
<1>4. \A x \in its : ListFrom(x) = {y \in Chain : y < x}
  BY <1>2, FollowIsOlder
<1>5. First(g)
  BY <1>2, <1>3, <1>4
<1> HIDE DEF First
<1>6. Found(m) \in its /\ First(Found(m))
  BY <1>1, <1>3, <1>5
<1>7. ASSUME NEW y \in Chain, member[y] = m PROVE y <= Found(m)
  <2>1. y \in its
    BY <1>7, ListedIsChain
  <2>2. y # Found(m) => y < Found(m)
    BY <1>4, <1>6, <2>1 DEF First
  <2> QED
    BY <1>2, <1>6, <2>1, <2>2
<1> QED
  BY <1>2, <1>6, <1>7

LEMMA FreshIsYoungest ==
    ASSUME InTurn, NEW x \in Fresh
    PROVE  x \in Aa /\ x \notin Allocated /\ \A y \in Allocated : y < x
<1>1. x \in Aa /\ x \notin Allocated
  BY DEF Fresh, Allocated
<1>2. ASSUME NEW y \in Allocated PROVE y < x
  <2>1. y # x /\ ~(x < y) /\ y \in Aa
    BY <1>1, ChainInAa DEF InTurn
  <2> QED
    BY <1>1, <2>1, Numbers
<1> QED
  BY <1>1, <1>2

\* A new structure, for the first time or as the clone of old.
LEMMA AllocateKeeps ==
    ASSUME HandoverInv, Unpublished = {},
           mgr' \in {"replace", "waiting"}, new' \in Fresh,
           member' \in [Aa -> Member \cup {None}], member'[new'] \in running,
           \A y \in Aa \ {new'} : member'[y] = member[y],
           held' = held \cup {new'}, toRemove' = toRemove,
           toRemove = {}, Allocated \subseteq held,
           fds' \in [Aa -> Pointer], \A y \in Aa \ {new'} : fds'[y] = fds[y],
           \/ fds'[new'] = new'
           \/ \E y \in Allocated : fds'[new'] = fds[y] /\ member[y] = member'[new'],
           UNCHANGED <<next, replaces, heap, world, globals, monVars>>,
           degraded' \subseteq Aa, reshaped' \subseteq Aa,
           "spare" \notin happens => degraded' = {},
           "reshape" \notin happens => reshaped' = {},
           \/ old' = None
           \/ /\ old' \in Chain /\ member[old'] = member'[new']
              /\ \A y \in Chain : replaces[y] # old',
           walk' = None \/ walk' \in Allocated,
           back' \in {"idle", "member", "rest", "reshape", "after"},
           back' = "reshape" => "spare" \in happens,
           \A y \in Allocated : member[y] \in running,
           "company" \notin happens => \A y \in Allocated : member[y] = member'[new']
    PROVE  HandoverInv'
<1> USE DEF HandoverInv, heap, world, globals, monVars
<1> PICK x \in Fresh : new' = x
  OBVIOUS
<1> PICK m \in running : member'[x] = m
  OBVIOUS
<1> PICK f \in Pointer : fds'[x] = f
  BY DEF Fresh
<1>1. x \in Aa /\ x \notin Allocated /\ (\A y \in Allocated : y < x) /\ x \in Nat
  BY FreshIsYoungest, Numbers
<1>2. /\ member'[x] = m /\ (\A y \in Allocated : member'[y] = member[y])
      /\ m # None /\ m \in Member
      /\ fds'[x] = f /\ (\A y \in Allocated : fds'[y] = fds[y])
  BY <1>1, ChainInAa, MemberAssumption DEF TypeOK, None
<1>3. Allocated' = Allocated \cup {x}
  BY <1>1, <1>2 DEF Allocated
<1>4. x \notin freed /\ x # discardThis /\ x # None
  BY <1>1, Numbers DEF GoneWasThere
<1>5. Unpublished' = {x}
  BY DEF Unpublished
<1>6. Chain' = Chain
  BY <1>1, <1>3, <1>5 DEF Chain
<1>7. Chain \subseteq Allocated /\ x \notin Chain /\ Head \notin Allocated
  BY <1>1, Numbers, ChainInAa
<1>8. InTurn' /\ Sorted' /\ GoneWasThere'
  <2>1. InTurn'
    <3>1. ASSUME NEW y \in Aa, y < x PROVE y \in Allocated
      <4>1. member[y] # None
        BY <1>1, <3>1, Numbers DEF Fresh, Aa
      <4> QED
        BY <4>1 DEF Allocated
    <3> QED
      BY <1>3, <3>1 DEF InTurn
  <2>2. Sorted'
    BY <1>6 DEF Sorted, Above
  <2>3. GoneWasThere'
    BY <1>3 DEF GoneWasThere
  <2> QED
    BY <2>1, <2>2, <2>3
<1>9. old' = None \/ (old' \in Chain /\ old' \in Allocated /\ member[old'] = m)
  BY <1>7 DEF Current
<1>10. UnpublishedNew'
  <2>1. \A y \in Allocated' : y <= x
    <3>1. \A y \in Allocated : y \in Nat
      BY Numbers, ChainInAa
    <3> QED
      BY <1>1, <1>3, <3>1
  <2>2. x \in Allocated' \ (freed' \cup {discardThis'})
    BY <1>3, <1>4
  <2>3. member'[x] # None /\ (old' # None => member'[old'] = member'[x])
    BY <1>2, <1>9
  <2> QED
    BY <1>5, <2>1, <2>2, <2>3 DEF UnpublishedNew
<1>11. MonitorPoints'
  <2>1. mon = "prune_act" => cur \in Chain /\ (cur \in held => cur \in held')
    BY DEF MonitorPoints
  <2> QED
    BY <1>6, <2>1 DEF MonitorPoints
<1>12. OneReplaced'
  <2>1. ASSUME NEW y \in Chain PROVE Replacing(y)'
    <3>1. member'[y] = member[y] /\ Replacing(y)
      BY <1>2, <1>7 DEF OneReplaced
    <3>2. replaces[y] \in Chain => member'[replaces[y]] = member[replaces[y]]
      BY <1>2, <1>7
    <3> QED
      BY <1>6, <3>1, <3>2 DEF Replacing
  <2> QED
    BY <1>6, <2>1 DEF OneReplaced
<1>13. ManagerHolds'
  <2>1. old' = None \/ Current(old)'
    BY <1>6 DEF Current
  <2>2. walk' = None \/ walk' \in Allocated'
    BY <1>3
  <2> QED
    BY <2>1, <2>2 DEF ManagerHolds
<1>14. NothingToPrune'
  BY <1>3 DEF NothingToPrune
<1>15. LetGo'
  <2>1. /\ f = x \/ f \in Allocated
        /\ f \in Allocated => member[f] = m /\ \A y \in Allocated : fds[y] = f => member[y] = m
    BY <1>1 DEF LetGo
  <2>2. \A y, z \in Allocated' : fds'[y] = fds'[z] => member'[y] = member'[z]
    BY <1>1, <1>2, <1>3, <2>1 DEF LetGo
  <2>3. \A y \in Allocated' : fds'[y] \in Allocated' /\ member'[fds'[y]] = member'[y]
    BY <1>1, <1>2, <1>3, <2>1 DEF LetGo
  <2>4. f \notin dead \cup closed
    BY <1>1, <2>1 DEF LetGo
  <2>5. \A y \in Allocated' : fds'[y] \in dead \cup closed => member'[y] \notin running
    BY <1>2, <1>3, <2>4 DEF LetGo
  <2>6. held' \subseteq Allocated' /\ Allocated' \subseteq held'
    BY <1>3 DEF LetGo
  <2>7. closed \subseteq Allocated' /\ dead \subseteq Allocated'
    BY <1>3 DEF LetGo
  <2> QED
    BY <2>2, <2>3, <2>5, <2>6, <2>7 DEF LetGo
<1>16. OneArray'
  <2>1. \A y \in Allocated' : member'[y] \in running
    BY <1>2, <1>3
  <2>2. "company" \notin happens => \A y \in Allocated' : member'[y] = m
    BY <1>2, <1>3
  <2>3. "company" \notin happens => \A n \in running : n = m
    BY DEF OneArray
  <2> QED
    BY <2>1, <2>2, <2>3 DEF OneArray
<1>17. TypeOK'
  <2>1. old' \in Pointer /\ walk' \in Pointer /\ new' \in Pointer
    BY <1>1, <1>9, ChainInAa DEF Pointer
  <2> QED
    BY <1>1, <1>2, <2>1 DEF TypeOK
<1> QED
  BY <1>8, <1>10, <1>11, <1>12, <1>13, <1>14, <1>15, <1>16, <1>17

\* While the manager has something in hand, every array with a structure runs,
\* and without company there is one.
LEMMA WorkingRuns ==
    ASSUME HandoverInv, mgr # "idle"
    PROVE  \A y \in Allocated : member[y] \in running /\ member[y] \in Member
  BY ChainInAa DEF HandoverInv, OneArray, TypeOK, Allocated

LEMMA DuplicateKeeps ==
    ASSUME HandoverInv, NEW to, NEW cleared, Duplicate(to, cleared), Current(old),
           mgr \in {"member", "rest", "reshape"}, mgr' \in {"replace", "waiting"},
           to \in {"rest", "reshape", "after"}, to = "reshape" => "spare" \in happens,
           UNCHANGED <<next, replaces, heap, world, globals, monVars, old, walk>>
    PROVE  HandoverInv'
<1> USE DEF HandoverInv
<1>1. PICK x \in Fresh :
        /\ new' = x /\ back' = to
        /\ member' = [member EXCEPT ![x] = member[old]]
        /\ held' = IF old \in held THEN held \cup {x} ELSE held
        /\ toRemove' = IF old \in toRemove THEN toRemove \cup {x} ELSE toRemove
        /\ fds' = [fds EXCEPT ![x] = fds[old]]
        /\ degraded' = (degraded \ cleared) \cup
                           (IF old \in degraded \ cleared THEN {x} ELSE {})
        /\ reshaped' = (reshaped \ cleared) \cup
                           (IF old \in reshaped \ cleared THEN {x} ELSE {})
  BY DEF Duplicate
<1>2. old \in Allocated /\ old \in Chain
  BY ChainInAa DEF Current
<1>3. toRemove = {} /\ Allocated \subseteq held
  BY DEF NothingToPrune, Working
<1>4. held' = held \cup {x} /\ toRemove' = toRemove
  BY <1>1, <1>2, <1>3
<1>5. /\ degraded' \subseteq Aa /\ reshaped' \subseteq Aa
      /\ "spare" \notin happens => degraded' = {}
      /\ "reshape" \notin happens => reshaped' = {}
  <2>1. x \in Aa
    BY DEF Fresh
  <2> QED
    BY <1>1, <2>1 DEF TypeOK, ManagerHolds
<1>6. member[old] \in Member /\ \A y \in Allocated : member[y] \in running
  BY <1>2, WorkingRuns
<1>7. member[old] \in running
  BY <1>2, <1>6
<1>8. "company" \notin happens => \A y \in Allocated : member[y] = member[old]
  BY <1>2 DEF OneArray
<1>9. Unpublished = {}
  BY DEF Unpublished
<1>10. walk' = None \/ walk' \in Allocated
  BY DEF ManagerHolds
<1>11. \E y \in Allocated : fds[old] = fds[y] /\ member[y] = member[old]
  BY <1>2
<1>12. UNCHANGED <<next, replaces, heap, world, globals, monVars>> /\ old' = old
  OBVIOUS
<1>13. old \in Chain /\ \A y \in Chain : replaces[y] # old
  BY DEF Current
<1>14. new' \in Fresh /\ x \in Aa
  BY <1>1 DEF Fresh
<1>15. /\ member' \in [Aa -> Member \cup {None}] /\ member'[x] = member[old]
       /\ \A y \in Aa \ {x} : member'[y] = member[y]
       /\ fds' \in [Aa -> Pointer] /\ fds'[x] = fds[old]
       /\ \A y \in Aa \ {x} : fds'[y] = fds[y]
  <2>1. member[old] \in Member \cup {None} /\ fds[old] \in Pointer
    BY <1>2, ChainInAa DEF TypeOK
  <2> QED
    BY <1>1, <1>14, <2>1 DEF TypeOK
<1> HIDE DEF HandoverInv
<1> QED
  BY <1>1, <1>3, <1>4, <1>5, <1>6, <1>7, <1>8, <1>9, <1>10, <1>11, <1>12, <1>13,
     <1>14, <1>15, AllocateKeeps

LEMMA OpenNewKeeps ==
    ASSUME HandoverInv, Orderly, NEW m \in running \ raid0, OpenNew(m, None), mgr = "idle"
    PROVE  HandoverInv'
<1> USE DEF HandoverInv
<1>1. PICK x \in Fresh :
        /\ new' = x /\ old' = None /\ walk' = None
        /\ member' = [member EXCEPT ![x] = m]
        /\ held' = held \cup {x}
        /\ fds' = [fds EXCEPT ![x] = x]
        /\ mgr' = "replace"
        /\ \/ back' = "idle" /\ UNCHANGED degraded
           \/ "spare" \in happens /\ back' = "member" /\ degraded' = degraded \cup {x}
        /\ UNCHANGED <<toRemove, reshaped, next, replaces, heap, world, globals, monVars>>
  BY DEF OpenNew
<1>2. m \in Member /\ happens \in Happens
  BY DEF TypeOK
<1>3. "company" \notin happens => \A y \in Allocated : member[y] = m
  BY DEF OneArray
<1>4. "company" \in happens => raid0 = {} /\ \A y \in Allocated : member[y] \in running
  BY <1>2 DEF OneArray, Orderly
<1>5. \A y \in Allocated : member[y] \in running /\ member[y] \notin raid0
  BY <1>3, <1>4
<1>6. toRemove = {} /\ Allocated \subseteq held
  BY <1>5 DEF LetGo
<1>7. Unpublished = {}
  BY DEF Unpublished
<1>8. /\ degraded' \subseteq Aa /\ reshaped' \subseteq Aa
      /\ "spare" \notin happens => degraded' = {}
      /\ "reshape" \notin happens => reshaped' = {}
      /\ back' \in {"idle", "member"}
  <2>1. x \in Aa
    BY DEF Fresh
  <2> QED
    BY <1>1, <2>1 DEF TypeOK, ManagerHolds
<1>9. UNCHANGED <<next, replaces, heap, world, globals, monVars>> /\ toRemove' = toRemove
  BY <1>1
<1>10. new' \in Fresh /\ x \in Aa
  BY <1>1 DEF Fresh
<1>11. /\ member' \in [Aa -> Member \cup {None}] /\ member'[x] = m
       /\ \A y \in Aa \ {x} : member'[y] = member[y]
       /\ fds' \in [Aa -> Pointer] /\ fds'[x] = x
       /\ \A y \in Aa \ {x} : fds'[y] = fds[y]
  BY <1>1, <1>2, <1>10 DEF TypeOK, Pointer
<1> HIDE DEF HandoverInv
<1> QED
  BY <1>1, <1>3, <1>5, <1>6, <1>7, <1>8, <1>9, <1>10, <1>11, AllocateKeeps

\* Only the manager's place, and what it has in hand, change.
LEMMA ManagerMoves ==
    ASSUME HandoverInv,
           UNCHANGED <<member, held, next, replaces, fds, heap, world, globals, monVars>>,
           Unpublished' = Unpublished, mgr' # "publish",
           Unpublished # {} => old' = old,
           toRemove' = toRemove \/ (mgr' \notin Working /\ toRemove' = toRemove \cup {old}
                                    /\ old \in Allocated /\ member[old] \in raid0
                                    /\ (mon = "prune_act" /\ cur # next[ap] => old # cur)
                                    /\ \A y \in Chain : replaces[y] # old),
           ManagerHolds', NothingToPrune', TypeOK',
           mgr' = "leave" => /\ \A y \in Chain : replaces[y] # None => old' # replaces[y]
                             /\ mon = "prune_act" /\ cur # next[ap] => old' # cur,
           mgr # "idle" \/ \A y \in Allocated : member[y] \in running
    PROVE  HandoverInv'
<1> USE DEF HandoverInv, heap, world, globals, monVars
<1>1. InTurn' /\ Sorted' /\ GoneWasThere' /\ Chain' = Chain /\ Allocated' = Allocated
  BY ListKept
<1>2. UnpublishedNew'
  BY <1>1 DEF UnpublishedNew
<1>3. MonitorPoints'
  BY <1>1 DEF MonitorPoints
<1>4. OneReplaced'
  BY <1>1 DEF OneReplaced, Replacing
<1>5. LetGo'
  BY <1>1 DEF LetGo
<1>6. OneArray'
  BY <1>1 DEF OneArray
<1> QED
  BY <1>1, <1>2, <1>3, <1>4, <1>5, <1>6

\* What manage() found can still be looked at by the thread that goes on with
\* it: it is the youngest of its array, so no structure replaces it.
LEMMA ManageKeeps ==
    ASSUME HandoverInv, Orderly, NEW m \in Member, Manage(m)
    PROVE  HandoverInv'
<1> USE DEF HandoverInv
<1> DEFINE a == Found(m)
<1>0. mgr = "idle" /\ m \in running
  BY DEF Manage
<1>1. a # None => /\ a \in Chain /\ a \in Allocated /\ a \in Aa /\ member[a] = m /\ a \in Nat
                  /\ \A y \in Chain : member[y] = m => y <= a
  BY FoundIsYoungest, Numbers, ChainInAa
<1>2. CASE a # None /\ a \notin held
  BY <1>0, <1>1, <1>2 DEF LetGo, Manage
<1>3. CASE a = None
  <2>1. m \notin raid0 /\ OpenNew(m, None)
    BY <1>3, Numbers DEF Manage
  <2> QED
    BY <1>0, <2>1, OpenNewKeeps
<1>4. CASE a # None /\ a \in held
  <2>0. /\ mgr' = IF m \in raid0 THEN "leave" ELSE "member"
        /\ old' = a /\ walk' = a
        /\ UNCHANGED <<fields, heap, world, globals, monVars, back, new>>
        /\ a \in held \ toRemove
    BY <1>4 DEF Manage
  <2>1. happens \in Happens
    BY DEF TypeOK
  <2>2. "company" \notin happens => \A y \in Allocated : member[y] = m
    BY <1>1, <1>4 DEF OneArray
  <2>3. \A y \in Allocated : member[y] \in running
    BY <1>0, <2>1, <2>2 DEF OneArray, Orderly
  <2>4. m \notin raid0 => toRemove = {} /\ Allocated \subseteq held
    <3>1. "company" \in happens => raid0 = {}
      BY <2>1 DEF OneArray, Orderly
    <3> QED
      BY <2>2, <2>3, <3>1 DEF LetGo
  <2>5. \A y \in Chain : replaces[y] # a
    <3>1. ASSUME NEW y \in Chain, replaces[y] = a PROVE FALSE
      <4>1. a < y /\ member[y] = m
        BY <1>1, <1>4, <3>1 DEF OneReplaced, Replacing
      <4>2. y <= a /\ y \in Nat
        BY <1>1, <1>4, <4>1, Numbers, ChainInAa
      <4> QED
        BY <1>1, <1>4, <4>1, <4>2
    <3> QED
      BY <3>1
  <2>6. m \in raid0 /\ mon = "prune_act" /\ cur # next[ap] => a # cur
    <3> SUFFICES ASSUME m \in raid0, mon = "prune_act", cur # next[ap], a = cur PROVE FALSE
      OBVIOUS
    <3>1. "company" \notin happens
      BY <2>1 DEF OneArray, Orderly
    <3>2. ap = Head /\ cur \in Chain /\ cur < Head
      BY DEF MonitorPoints
    <3>3. Above(Head, next[Head])
      BY DEF Sorted
    <3>4. cur <= next[Head] /\ next[Head] \in Chain
      BY <3>2, <3>3, Numbers, ChainInAa DEF Above, None
    <3>5. member[next[Head]] = m
      BY <2>2, <3>1, <3>4, ChainInAa
    <3>6. next[Head] <= a /\ next[Head] \in Nat
      BY <1>1, <1>4, <3>4, <3>5, Numbers, ChainInAa
    <3> QED
      BY <1>1, <1>4, <3>2, <3>4, <3>6
  <2>7. UNCHANGED <<member, held, next, replaces, fds, heap, world, globals, monVars>>
        /\ UNCHANGED <<toRemove, degraded, reshaped, back, new>>
    BY <2>0 DEF fields
  <2>8. Unpublished = {} /\ Unpublished' = {}
    BY <1>0, <2>0 DEF Unpublished
  <2>9. Chain' = Chain /\ Allocated' = Allocated
    BY <2>7, <2>8, ChainKept DEF heap, globals
  <2>10. ManagerHolds'
    <3>1. Current(old)'
      BY <1>1, <1>4, <2>0, <2>5, <2>7, <2>9 DEF Current
    <3> QED
      BY <1>1, <1>4, <2>0, <2>7, <2>9, <3>1 DEF ManagerHolds, world
  <2>11. NothingToPrune'
    BY <2>0, <2>4, <2>7, <2>9 DEF NothingToPrune, Working
  <2>12. TypeOK'
    BY <1>1, <1>4, <2>0, <2>7 DEF TypeOK, Pointer, heap, world, globals, monVars
  <2>13. mgr' # "publish"
    BY <2>0
  <2>14. mgr' = "leave" => m \in raid0
    BY <2>0
  <2> HIDE DEF HandoverInv
  <2> QED
    BY <2>0, <2>3, <2>5, <2>6, <2>7, <2>8, <2>10, <2>11, <2>12, <2>13, <2>14, ManagerMoves
<1> QED
  BY <1>2, <1>3, <1>4

LEMMA LeaveToKernelKeeps == HandoverInv /\ LeaveToKernel => HandoverInv'
<1> SUFFICES ASSUME HandoverInv, LeaveToKernel PROVE HandoverInv'
  OBVIOUS
<1> USE DEF HandoverInv
<1>0. /\ mgr = "leave" /\ mgr' = "after"
      /\ toRemove' = IF old \in held THEN toRemove \cup {old} ELSE toRemove
      /\ UNCHANGED <<member, held, next, replaces, fds, heap, world, globals, monVars>>
      /\ UNCHANGED <<degraded, reshaped, back, old, new, walk>>
  BY DEF LeaveToKernel
<1>1. old \in Allocated /\ old \in Aa /\ old # None /\ member[old] \in raid0
  BY <1>0, Numbers, ChainInAa DEF ManagerHolds
<1>2. Unpublished' = Unpublished
  BY <1>0 DEF Unpublished
<1>3. Chain' = Chain /\ Allocated' = Allocated
  BY <1>0, <1>2, ChainKept DEF heap, globals
<1>4. mon = "prune_act" /\ cur # next[ap] => old # cur
  BY <1>0 DEF MonitorPoints
<1>5. \A y \in Chain : replaces[y] # old
  BY <1>0, <1>1 DEF OneReplaced, Replacing
<1>6. ManagerHolds'
  BY <1>0, <1>3 DEF ManagerHolds, world
<1>7. NothingToPrune'
  BY <1>0 DEF NothingToPrune, Working
<1>8. TypeOK'
  BY <1>0, <1>1 DEF TypeOK, heap, world, globals, monVars
<1>9. "after" \notin Working
  BY DEF Working
<1> HIDE DEF HandoverInv
<1> QED
  BY <1>0, <1>1, <1>2, <1>4, <1>5, <1>6, <1>7, <1>8, <1>9, ManagerMoves

LEMMA ChangeLevelKeeps == HandoverInv /\ ChangeLevel => HandoverInv'
<1> SUFFICES ASSUME HandoverInv, ChangeLevel PROVE HandoverInv'
  OBVIOUS
<1>1. Current(old) /\ mgr = "member"
  BY DEF HandoverInv, ManagerHolds, ChangeLevel
<1> QED
  BY <1>1, DuplicateKeeps DEF ChangeLevel

\* Nothing is let go while the manager works.
LEMMA NotRaced == HandoverInv => ~Raced
<1>1. ASSUME HandoverInv, Raced PROVE FALSE
  <2>1. old \in Allocated /\ mgr \in Working
    BY <1>1, ChainInAa DEF HandoverInv, ManagerHolds, Current, Raced, Working
  <2> QED
    BY <1>1, <2>1 DEF HandoverInv, NothingToPrune, Raced
<1> QED
  BY <1>1

LEMMA CheckDegradedKeeps == HandoverInv /\ CheckDegraded => HandoverInv'
<1> SUFFICES ASSUME HandoverInv, CheckDegraded PROVE HandoverInv'
  OBVIOUS
<1>0. /\ mgr \in {"member", "rest"}
      /\ UNCHANGED <<next, replaces, heap, world, globals, monVars, old, walk>>
  BY DEF CheckDegraded
<1>1. Current(old)
  BY <1>0 DEF HandoverInv, ManagerHolds
<1>2. CASE old \in degraded /\ mgr' = "waiting" /\ Duplicate("reshape", {old})
  <2>1. "spare" \in happens
    BY <1>2 DEF HandoverInv, ManagerHolds
  <2> QED
    BY <1>0, <1>1, <1>2, <2>1, DuplicateKeeps
<1>3. CASE /\ mgr' \in {"reshape", "after"} /\ degraded' \in {degraded, degraded \ {old}}
           /\ UNCHANGED <<member, held, toRemove, reshaped, fds, back, new>>
  <2>1. Unpublished = {} /\ Unpublished' = {}
    BY <1>0, <1>3 DEF Unpublished
  <2>2. Chain' = Chain /\ Allocated' = Allocated
    BY <1>0, <1>3, <2>1, ChainKept DEF heap, globals
  <2>3. ManagerHolds'
    BY <1>0, <1>1, <1>3, <2>2 DEF HandoverInv, ManagerHolds, Current, world
  <2>4. NothingToPrune'
    BY <1>0, <1>3, <2>2 DEF HandoverInv, NothingToPrune, Working
  <2>5. TypeOK'
    BY <1>0, <1>3 DEF HandoverInv, TypeOK, heap, world, globals, monVars
  <2>6. mgr # "idle" /\ mgr' # "publish" /\ mgr' # "leave" /\ old' = old /\ toRemove' = toRemove
    BY <1>0, <1>3
  <2>7. UNCHANGED <<member, held, next, replaces, fds, heap, world, globals, monVars>>
    BY <1>0, <1>3
  <2> QED
    BY <2>1, <2>3, <2>4, <2>5, <2>6, <2>7, ManagerMoves
<1> QED
  BY <1>2, <1>3 DEF CheckDegraded

LEMMA WaitedKeeps == HandoverInv /\ Waited => HandoverInv'
<1> SUFFICES ASSUME HandoverInv, Waited PROVE HandoverInv'
  OBVIOUS
<1>0. /\ mgr = "waiting" /\ mgr' = "replace"
      /\ UNCHANGED <<fields, heap, world, globals, monVars, back, old, new, walk>>
  BY DEF Waited
<1>1. Unpublished' = Unpublished
  BY <1>0 DEF Unpublished
<1>2. Chain' = Chain /\ Allocated' = Allocated
  BY <1>0, <1>1, ChainKept DEF heap, globals, fields
<1>3. ManagerHolds'
  BY <1>0, <1>2 DEF HandoverInv, ManagerHolds, Current, world, fields
<1>4. NothingToPrune'
  BY <1>0, <1>2 DEF HandoverInv, NothingToPrune, Working, fields
<1>5. TypeOK'
  BY <1>0 DEF HandoverInv, TypeOK, heap, world, globals, monVars, fields
<1>6. /\ mgr # "idle" /\ mgr' # "publish" /\ mgr' # "leave" /\ old' = old /\ toRemove' = toRemove
      /\ UNCHANGED <<member, held, next, replaces, fds, heap, world, globals, monVars>>
  BY <1>0 DEF fields
<1> QED
  BY <1>1, <1>3, <1>4, <1>5, <1>6, ManagerMoves

LEMMA CheckReshapeKeeps == HandoverInv /\ CheckReshape => HandoverInv'
<1> SUFFICES ASSUME HandoverInv, CheckReshape PROVE HandoverInv'
  OBVIOUS
<1>0. /\ mgr = "reshape"
      /\ UNCHANGED <<next, replaces, heap, world, globals, monVars, old, walk>>
  BY DEF CheckReshape
<1>1. CASE old \in reshaped /\ mgr' = "replace" /\ Duplicate("after", {old})
  <2>1. Current(old)
    BY <1>0, <1>1 DEF HandoverInv, ManagerHolds
  <2> QED
    BY <1>0, <1>1, <2>1, DuplicateKeeps
<1>2. CASE /\ reshaped' = reshaped \ {old} /\ mgr' = "after"
           /\ UNCHANGED <<member, held, toRemove, degraded, fds, back, new>>
  <2>1. Unpublished = {} /\ Unpublished' = {}
    BY <1>0, <1>2 DEF Unpublished
  <2>2. Chain' = Chain /\ Allocated' = Allocated
    BY <1>0, <1>2, <2>1, ChainKept DEF heap, globals
  <2>3. ManagerHolds'
    BY <1>0, <1>2, <2>2 DEF HandoverInv, ManagerHolds, world
  <2>4. NothingToPrune'
    BY <1>2 DEF NothingToPrune, Working
  <2>5. TypeOK'
    BY <1>0, <1>2 DEF HandoverInv, TypeOK, heap, world, globals, monVars
  <2>6. /\ mgr # "idle" /\ mgr' # "publish" /\ mgr' # "leave" /\ old' = old
        /\ toRemove' = toRemove
        /\ UNCHANGED <<member, held, next, replaces, fds, heap, world, globals, monVars>>
    BY <1>0, <1>2
  <2> QED
    BY <2>1, <2>3, <2>4, <2>5, <2>6, ManagerMoves
<1> QED
  BY <1>1, <1>2 DEF CheckReshape

\* An array that runs is never let go, so nothing is opened a second time.
LEMMA AfterMemberKeeps == HandoverInv /\ AfterMember => HandoverInv'
<1> SUFFICES ASSUME HandoverInv, AfterMember PROVE HandoverInv'
  OBVIOUS
<1>0. ~(walk # None /\ walk \notin held /\ member[walk] \in running \ raid0)
  BY DEF HandoverInv, ManagerHolds, LetGo
<1>1. /\ mgr = "after" /\ mgr' = "idle" /\ walk' = None
      /\ UNCHANGED <<fields, heap, world, globals, monVars, back, old, new>>
  BY <1>0 DEF AfterMember
<1>2. Unpublished = {} /\ Unpublished' = {}
  BY <1>1 DEF Unpublished
<1>3. Chain' = Chain /\ Allocated' = Allocated
  BY <1>1, <1>2, ChainKept DEF heap, globals, fields
<1>4. ManagerHolds'
  BY <1>1, <1>3 DEF HandoverInv, ManagerHolds, world, fields
<1>5. NothingToPrune'
  BY <1>1 DEF NothingToPrune, Working
<1>6. TypeOK'
  BY <1>1 DEF HandoverInv, TypeOK, heap, world, globals, monVars, fields, Pointer
<1>7. /\ mgr # "idle" /\ mgr' # "publish" /\ mgr' # "leave" /\ old' = old /\ toRemove' = toRemove
      /\ UNCHANGED <<member, held, next, replaces, fds, heap, world, globals, monVars>>
  BY <1>1 DEF fields
<1> QED
  BY <1>2, <1>4, <1>5, <1>6, <1>7, ManagerMoves

\* The clone is linked before anyone can reach it.  Nothing on the list
\* replaces anything, since pending_discard is empty.
LEMMA ReplaceLinkKeeps == HandoverInv /\ ReplaceLink => HandoverInv'
<1> SUFFICES ASSUME HandoverInv, ReplaceLink PROVE HandoverInv'
  OBVIOUS
<1> USE DEF HandoverInv
<1>0. /\ mgr = "pending" /\ pendingDiscard = None /\ pendingDiscard' = old
      /\ replaces' = [replaces EXCEPT ![new] = old]
      /\ next' = [next EXCEPT ![new] = next[Head]]
      /\ mgr' = "publish"
      /\ UNCHANGED <<member, held, toRemove, degraded, reshaped, fds, closed, freed>>
      /\ UNCHANGED <<running, raid0, dead, happens, discardThis, mon, ap, cur>>
      /\ UNCHANGED <<back, old, new, walk>>
  BY DEF ReplaceLink, heap, world, monVars
<1>1. Unpublished = {new} /\ Unpublished' = {new}
  BY <1>0 DEF Unpublished
<1>2. Chain' = Chain /\ Allocated' = Allocated
  BY <1>0, <1>1, ChainKept
<1>3. new \in Allocated /\ new \notin Chain /\ new \in Aa /\ new # Head
  <2>1. new \in Allocated
    BY <1>1 DEF UnpublishedNew
  <2>2. new \notin Chain
    BY <1>1 DEF Chain
  <2> QED
    BY <2>1, <2>2, Numbers, ChainInAa
<1>4. /\ \A l \in Chain \cup {Head} : next'[l] = next[l]
      /\ \A y \in Chain : replaces'[y] = replaces[y] /\ replaces[y] = None
      /\ next'[new] = next[Head] /\ replaces'[new] = old
  <2>1. \A y \in Chain : replaces[y] = None
    BY <1>0 DEF OneReplaced, Replacing
  <2>2. \A l \in Chain \cup {Head} : l # new /\ l \in Aa \cup {Head}
    BY <1>3, ChainInAa
  <2> QED
    BY <1>0, <1>3, <2>1, <2>2, ChainInAa DEF TypeOK
<1>5. InTurn' /\ Sorted' /\ GoneWasThere'
  <2>1. \A l \in Chain \cup {Head} : Above(l, next[l])
    BY DEF Sorted
  <2>2. Sorted'
    BY <1>2, <1>4, <2>1 DEF Sorted, Above
  <2> QED
    BY <1>0, <1>2, <2>2 DEF InTurn, GoneWasThere
<1>6. UnpublishedNew'
  <2>1. next'[new] = next'[Head] /\ replaces'[new] = old /\ pendingDiscard' = old
    BY <1>0, <1>4
  <2>2. \A x \in Unpublished : /\ x \in Allocated \ (freed \cup {discardThis})
                               /\ \A y \in Allocated : y <= x
                               /\ member[x] # None /\ (old # None => member[old] = member[x])
    BY DEF UnpublishedNew
  <2> QED
    BY <1>0, <1>1, <1>2, <2>1, <2>2 DEF UnpublishedNew
<1>7. MonitorPoints'
  <2>1. next'[ap] = next[ap]
    BY <1>4 DEF MonitorPoints
  <2> QED
    BY <1>0, <1>2, <2>1 DEF MonitorPoints
<1>8. OneReplaced'
  BY <1>2, <1>4 DEF OneReplaced, Replacing
<1>9. ManagerHolds'
  <2>1. old = None \/ Current(old)'
    BY <1>0, <1>2, <1>4 DEF ManagerHolds, Current
  <2> QED
    BY <1>0, <1>2, <2>1 DEF ManagerHolds
<1>10. NothingToPrune' /\ LetGo'
  BY <1>0, <1>2 DEF NothingToPrune, Working, LetGo
<1>11. OneArray'
  BY <1>0, <1>2 DEF OneArray
<1>12. TypeOK'
  <2>1. next[Head] \in Pointer /\ old \in Pointer
    BY DEF TypeOK
  <2>2. next' \in [Aa \cup {Head} -> Pointer] /\ replaces' \in [Aa -> Pointer]
    BY <1>0, <2>1 DEF TypeOK
  <2> QED
    BY <1>0, <2>1, <2>2 DEF TypeOK
<1> QED
  BY <1>5, <1>6, <1>7, <1>8, <1>9, <1>10, <1>11, <1>12

\* The clone becomes the head: the list is still in order, and what the
\* monitor read of the old head is not to be unlinked.
LEMMA PublishKeeps == HandoverInv /\ Orderly /\ Publish => HandoverInv'
<1> SUFFICES ASSUME HandoverInv, Orderly, Publish PROVE HandoverInv'
  OBVIOUS
<1> USE DEF HandoverInv
<1>0. /\ mgr = "publish" /\ mgr' = back
      /\ next' = [next EXCEPT ![Head] = new]
      /\ old' = IF back \in {"member", "rest"} THEN new ELSE old
      /\ UNCHANGED <<member, held, toRemove, degraded, reshaped, fds, closed, freed>>
      /\ UNCHANGED <<running, raid0, dead, happens, discardThis, pendingDiscard>>
      /\ UNCHANGED <<replaces, mon, ap, cur, back, new, walk>>
  BY DEF Publish, heap, world, monVars, globals
<1>1. back \in {"idle", "member", "rest", "reshape", "after"}
  BY DEF TypeOK
<1>2. Unpublished = {new} /\ Unpublished' = {}
  BY <1>0, <1>1 DEF Unpublished
<1>3. /\ new \in Allocated /\ new \notin Chain /\ new \in Aa /\ new # Head
      /\ new \in Nat /\ new < Head /\ new # None
      /\ \A y \in Allocated : y <= new
  <2>1. new \in Allocated /\ \A y \in Allocated : y <= new
    BY <1>2 DEF UnpublishedNew
  <2>2. new \notin Chain
    BY <1>2 DEF Chain
  <2> QED
    BY <2>1, <2>2, Numbers, ChainInAa
<1>4. Allocated' = Allocated /\ Chain' = Chain \cup {new}
  <2>1. Allocated' = Allocated
    BY <1>0 DEF Allocated
  <2>2. new \notin freed \cup {discardThis}
    BY <1>2 DEF UnpublishedNew
  <2> QED
    BY <1>0, <1>2, <1>3, <2>1, <2>2 DEF Chain
<1>5. /\ next'[Head] = new /\ next'[new] = next[Head]
      /\ \A l \in Chain : next'[l] = next[l]
  <2>1. next[new] = next[Head]
    BY <1>0 DEF UnpublishedNew
  <2>2. \A l \in Chain : l \in Aa \cup {Head} /\ l # Head
    BY Numbers, ChainInAa
  <2> QED
    BY <1>0, <1>3, <2>1, <2>2 DEF TypeOK
<1>6. /\ replaces[new] = old /\ pendingDiscard = old
      /\ old = None \/ Current(old)
      /\ old # None => member[old] = member[new]
  BY <1>0, <1>2 DEF UnpublishedNew, ManagerHolds
<1>7. toRemove = {} /\ Allocated \subseteq held
  BY <1>0 DEF NothingToPrune, Working
<1>8. \A y \in Chain : y \in Nat /\ y < new /\ y \in Aa /\ y # None
  BY <1>3, Numbers, ChainInAa
<1>9. old # None => old \in Chain /\ old < new /\ old \in Allocated
  BY <1>6, <1>8, ChainInAa DEF Current
<1>10. \A y \in Chain : replaces[y] = None
  BY <1>6, <1>8 DEF Current, OneReplaced, Replacing
<1>11. Sorted'
  <2>1. ASSUME NEW l \in Chain
        PROVE  /\ next'[l] \in Chain \cup {new, None} /\ next'[l] < l
               /\ \A y \in Chain \cup {new} : y < l => y <= next'[l]
    <3>1. Above(l, next[l]) /\ next'[l] = next[l]
      BY <1>5, <2>1 DEF Sorted
    <3>2. ~(new < l)
      BY <1>3, <1>8, <2>1
    <3> QED
      BY <3>1, <3>2 DEF Above
  <2>2. /\ next'[new] \in Chain \cup {new, None} /\ next'[new] < new
        /\ \A y \in Chain \cup {new} : y < new => y <= next'[new]
    <3>1. Above(Head, next[Head])
      BY DEF Sorted
    <3>2. next[Head] < new
      BY <1>3, <1>8, <3>1, Numbers DEF Above, None
    <3>3. \A y \in Chain : y <= next[Head]
      BY <3>1, Numbers, ChainInAa DEF Above
    <3>4. ~(new < new)
      BY <1>3
    <3> QED
      BY <1>5, <3>1, <3>2, <3>3, <3>4 DEF Above
  <2>3. /\ next'[Head] \in Chain \cup {new, None} /\ next'[Head] < Head
        /\ \A y \in Chain \cup {new} : y < Head => y <= next'[Head]
    BY <1>3, <1>5, <1>8
  <2> QED
    BY <1>4, <2>1, <2>2, <2>3 DEF Sorted, Above
<1>12. InTurn' /\ GoneWasThere'
  BY <1>0, <1>4 DEF InTurn, GoneWasThere
<1>13. UnpublishedNew'
  BY <1>0, <1>1, <1>2 DEF UnpublishedNew
<1>14. MonitorPoints'
  <2>1. ap \in Chain \cup {Head}
    BY DEF MonitorPoints
  <2>2. ASSUME mon = "prune_act"
        PROVE  /\ cur \in Chain /\ cur < ap
               /\ cur = next'[ap] \/ (ap = Head /\ cur \in held \ toRemove)
    <3>1. cur \in Chain /\ cur < ap /\ (cur = next[ap] \/ ap = Head)
      BY <2>2 DEF MonitorPoints
    <3>2. cur \in held \ toRemove
      BY <1>7, <3>1, ChainInAa
    <3> QED
      BY <1>5, <2>1, <3>1, <3>2
  <2>3. mon \in {"replaces", "act"} => cur \in Chain /\ ap = Head
    BY DEF MonitorPoints
  <2>4. mon \in {"prune", "scan"} => cur = None
    BY DEF MonitorPoints
  <2>5. mgr' # "leave"
    BY <1>0, <1>1
  <2> QED
    BY <1>0, <1>4, <2>1, <2>2, <2>3, <2>4, <2>5 DEF MonitorPoints
<1>15. OneReplaced'
  <2>1. Replacing(new)'
    BY <1>0, <1>1, <1>4, <1>6, <1>7, <1>9 DEF Replacing
  <2>2. \A y \in Chain : Replacing(y)'
    BY <1>0, <1>10 DEF Replacing
  <2> QED
    BY <1>0, <1>4, <1>10, <2>1, <2>2 DEF OneReplaced
<1>16. ManagerHolds'
  <2>1. back \in {"member", "rest"} => Current(old)'
    <3>1. replaces[new] # new
      BY <1>3, <1>6, <1>9
    <3> QED
      BY <1>0, <1>3, <1>4, <1>10, <3>1 DEF Current
  <2>2. back = "reshape" => "reshape" \notin happens
    BY DEF ManagerHolds, Orderly, TypeOK
  <2>3. walk # None => walk \in Allocated
    BY DEF ManagerHolds
  <2> QED
    BY <1>0, <1>1, <1>4, <2>1, <2>2, <2>3 DEF ManagerHolds
<1>17. NothingToPrune' /\ LetGo' /\ OneArray'
  BY <1>0, <1>4, <1>7 DEF NothingToPrune, LetGo, OneArray
<1>18. TypeOK'
  <2>1. next' \in [Aa \cup {Head} -> Pointer] /\ old' \in Pointer
    BY <1>0, <1>3 DEF TypeOK, Pointer
  <2>2. mgr' \in {"idle", "leave", "member", "rest", "waiting", "reshape", "after", 
                  "replace", "pending", "publish"}
    BY <1>0, <1>1
  <2> QED
    BY <1>0, <2>1, <2>2 DEF TypeOK
<1> QED
  BY <1>11, <1>12, <1>13, <1>14, <1>15, <1>16, <1>17, <1>18

-----------------------------------------------------------------------------
(* Arrays stop and start.                                                  *)

LEMMA WorldMoves ==
    ASSUME HandoverInv, UNCHANGED <<fields, heap, globals, monVars, mgrVars, happens>>,
           raid0 \subseteq raid0', running' \subseteq Member, raid0' \subseteq Member,
           dead' \subseteq Allocated, OneArray',
           \A x \in Allocated \ held : member[x] \notin running',
           \A x \in Allocated : fds[x] \in dead' \cup closed => member[x] \notin running'
    PROVE  HandoverInv'
<1> USE DEF HandoverInv, fields, heap, globals, monVars, mgrVars
<1>1. Unpublished' = Unpublished
  BY DEF Unpublished
<1>2. InTurn' /\ Sorted' /\ GoneWasThere' /\ Chain' = Chain /\ Allocated' = Allocated
  BY <1>1, ListKept
<1>3. UnpublishedNew'
  BY <1>1, <1>2 DEF UnpublishedNew
<1>4. MonitorPoints'
  BY <1>2 DEF MonitorPoints
<1>5. OneReplaced' /\ ManagerHolds'
  BY <1>2 DEF OneReplaced, Replacing, ManagerHolds, Current
<1>6. NothingToPrune'
  BY <1>2 DEF NothingToPrune
<1>7. LetGo'
  BY <1>2 DEF LetGo
<1>8. TypeOK'
  BY ChainInAa DEF TypeOK
<1> QED
  BY <1>2, <1>3, <1>4, <1>5, <1>6, <1>7, <1>8

LEMMA StopKeeps ==
    ASSUME HandoverInv, Orderly, NEW m \in Member, Stop(m)
    PROVE  HandoverInv'
<1> USE DEF HandoverInv
<1>0. /\ m \in running /\ running' = running \ {m}
      /\ dead' = dead \cup {fds[x] : x \in {y \in Aa : member[y] = m}}
      /\ UNCHANGED <<raid0, happens, fields, heap, globals, monVars, mgrVars>>
  BY DEF Stop
<1>1. "stopidle" \in happens /\ mgr = "idle" /\ pendingDiscard = None
  BY DEF Stop, Orderly, TypeOK
<1>2. \A y \in Aa : member[y] = m => y \in Allocated
  BY MemberAssumption DEF Allocated, None
<1>3. dead' \subseteq Allocated
  BY <1>0, <1>2 DEF LetGo
<1>4. Allocated' = Allocated
  BY <1>0 DEF Allocated, fields
<1>5. OneArray'
  BY <1>0, <1>1, <1>4 DEF OneArray, fields, mgrVars, globals
<1>6. \A x \in Allocated : fds[x] \in dead' \cup closed => member[x] \notin running'
  <2>1. ASSUME NEW x \in Allocated, fds[x] \in dead' \cup closed
        PROVE  member[x] \notin running'
    <3>1. CASE fds[x] \in dead \cup closed
      BY <1>0, <3>1 DEF LetGo
    <3>2. CASE \E y \in Aa : member[y] = m /\ fds[x] = fds[y]
      BY <1>0, <1>2, <3>2 DEF LetGo
    <3> QED
      BY <1>0, <2>1, <3>1, <3>2
  <2> QED
    BY <2>1
<1>7. \A x \in Allocated \ held : member[x] \notin running'
  BY <1>0 DEF LetGo
<1>8. raid0 \subseteq raid0' /\ running' \subseteq Member /\ raid0' \subseteq Member
  BY <1>0 DEF TypeOK
<1>9. UNCHANGED <<fields, heap, globals, monVars, mgrVars, happens>>
  BY <1>0
<1> QED
  BY <1>3, <1>5, <1>6, <1>7, <1>8, <1>9, WorldMoves

LEMMA BecomeRaid0Keeps ==
    ASSUME HandoverInv, NEW m \in Member, BecomeRaid0(m)
    PROVE  HandoverInv'
<1> USE DEF HandoverInv
<1>0. /\ "raid0" \in happens /\ raid0' = raid0 \cup {m}
      /\ UNCHANGED <<running, dead, happens>>
      /\ UNCHANGED <<fields, heap, globals, monVars, mgrVars, happens>>
  BY DEF BecomeRaid0
<1>1. Allocated' = Allocated
  BY <1>0 DEF Allocated, fields
<1>2. OneArray'
  BY <1>0, <1>1 DEF OneArray, fields, mgrVars, globals
<1>3. /\ raid0 \subseteq raid0' /\ running' \subseteq Member /\ raid0' \subseteq Member
      /\ dead' \subseteq Allocated
      /\ \A x \in Allocated \ held : member[x] \notin running'
      /\ \A x \in Allocated : fds[x] \in dead' \cup closed => member[x] \notin running'
  BY <1>0 DEF TypeOK, LetGo
<1> QED
  BY <1>0, <1>2, <1>3, WorldMoves

LEMMA StartKeeps ==
    ASSUME HandoverInv, Orderly, NEW m \in Member, Start(m)
    PROVE  HandoverInv'
<1> USE DEF HandoverInv
<1>0. /\ m \notin running /\ running' = running \cup {m}
      /\ "company" \in happens \/ running \cup {member[x] : x \in Aa} \subseteq {m, None}
      /\ "restart" \in happens \/ \A x \in Aa : member[x] # m
      /\ UNCHANGED <<raid0, dead, happens>>
      /\ UNCHANGED <<fields, heap, globals, monVars, mgrVars, happens>>
  BY DEF Start
<1>1. Allocated' = Allocated
  BY <1>0 DEF Allocated, fields
<1>2. \A x \in Allocated : member[x] # m
  <2>1. "stopidle" \in happens => "restart" \notin happens
    BY DEF Orderly, TypeOK
  <2> QED
    BY <1>0, <2>1, ChainInAa DEF OneArray
<1>3. "company" \notin happens => running = {} /\ Allocated = {}
  <2>1. None \notin Member
    BY MemberAssumption DEF None
  <2>2. "company" \notin happens => running = {}
    BY <1>0, <2>1 DEF TypeOK
  <2>3. "company" \notin happens => \A x \in Aa : member[x] \in {m, None}
    BY <1>0
  <2> QED
    BY <1>2, <2>2, <2>3 DEF Allocated
<1>4. OneArray'
  <2>1. \A x \in Allocated : member[x] \in running' => member[x] \in running
    BY <1>0, <1>2
  <2>2. "company" \notin happens => running' = {m} /\ Allocated = {}
    BY <1>0, <1>3
  <2> QED
    BY <1>0, <1>1, <2>1, <2>2 DEF OneArray, fields, mgrVars, globals
<1>5. /\ raid0 \subseteq raid0' /\ running' \subseteq Member /\ raid0' \subseteq Member
      /\ dead' \subseteq Allocated
      /\ \A x \in Allocated \ held : member[x] \notin running'
      /\ \A x \in Allocated : fds[x] \in dead' \cup closed => member[x] \notin running'
  BY <1>0, <1>2 DEF TypeOK, LetGo
<1> QED
  BY <1>0, <1>4, <1>5, WorldMoves

-----------------------------------------------------------------------------
LEMMA HandoverInit == Init => HandoverInv
<1> SUFFICES ASSUME Init PROVE HandoverInv
  OBVIOUS
<1> USE DEF Init
<1>1. Allocated = {} /\ Chain = {} /\ Unpublished = {}
  BY DEF Allocated, Chain, Unpublished
<1>2. next[Head] = None /\ None < Head
  BY Numbers DEF None
<1>3. Sorted
  BY <1>1, <1>2 DEF Sorted, Above
<1>4. InTurn /\ UnpublishedNew /\ GoneWasThere /\ MonitorPoints /\ OneReplaced
  BY <1>1 DEF InTurn, UnpublishedNew, GoneWasThere, MonitorPoints, OneReplaced
<1>5. ManagerHolds /\ NothingToPrune /\ LetGo /\ OneArray
  BY <1>1 DEF ManagerHolds, NothingToPrune, Working, LetGo, OneArray
<1>6. TypeOK
  BY DEF TypeOK, Pointer
<1> QED
  BY <1>3, <1>4, <1>5, <1>6 DEF HandoverInv

LEMMA HandoverStep == HandoverInv /\ Orderly /\ [Next]_vars => HandoverInv'
<1> SUFFICES ASSUME HandoverInv, Orderly, [Next]_vars PROVE HandoverInv'
  OBVIOUS
<1>1. CASE MonitorStep
  BY <1>1, PruneReadKeeps, PruneKeepKeeps, PruneUnlinkKeeps, ScanKeeps,
     TakeReplacedKeeps, ActKeeps DEF MonitorStep
<1>2. CASE ManagerStep
  BY <1>2, RemovingKeeps, ManageKeeps, LeaveToKernelKeeps, ChangeLevelKeeps, NotRaced,
     CheckDegradedKeeps, WaitedKeeps, CheckReshapeKeeps, AfterMemberKeeps,
     ReplaceLinkKeeps, PublishKeeps DEF ManagerStep
<1>3. CASE World
  BY <1>3, StopKeeps, BecomeRaid0Keeps, StartKeeps DEF World
<1>4. CASE UNCHANGED vars
  <2>1. UNCHANGED <<fields, heap, world, globals, mgrVars>> /\ UNCHANGED <<mon, ap, cur>>
    BY <1>4 DEF vars, monVars
  <2>2. Chain' = Chain
    BY <2>1, ChainKept DEF Unpublished, fields, heap, globals, mgrVars
  <2>3. TypeOK' /\ MonitorPoints'
    BY <2>1, <2>2 DEF HandoverInv, TypeOK, MonitorPoints, fields, heap, world, globals, mgrVars
  <2> QED
    BY <2>1, <2>3, MonitorMoves
<1> QED
  BY <1>1, <1>2, <1>3, <1>4 DEF Next

LEMMA StaysOrderly == Orderly /\ [Next]_vars => Orderly'
<1>1. ASSUME [Next]_vars PROVE happens' = happens
  BY <1>1 DEF Next, vars, MonitorStep, ManagerStep, World, world, PruneRead, PruneKeep,
     PruneUnlink, Scan, TakeReplaced, Act, Tidy, Manage, OpenNew, LeaveToKernel,
     ChangeLevel, Raced, CheckDegraded, Waited, CheckReshape, AfterMember, ReplaceFirst,
     ReplaceWait, ReplaceLink, Publish, Stop, BecomeRaid0, Start
<1> QED
  BY <1>1 DEF Orderly

\* The invariant that the results below are drawn from.
THEOREM HandoverInvariant == Orderly /\ Spec => []HandoverInv
<1>1. Init => HandoverInv
  BY HandoverInit
<1>2. HandoverInv /\ Orderly /\ [Next]_vars => HandoverInv' /\ Orderly'
  BY HandoverStep, StaysOrderly
<1> QED
  BY <1>1, <1>2, PTL DEF Spec

-----------------------------------------------------------------------------
(* What a step does to the list: of the five things below it does at most  *)
(* one, to one structure.                                                  *)

Made == \E x \in Aa \ Allocated :
    Allocated' = Allocated \cup {x} /\ UNCHANGED <<Chain, freed, discardThis>>
Given == \E x \in Allocated \ (Chain \cup freed \cup {discardThis}) :
    Chain' = Chain \cup {x} /\ UNCHANGED <<Allocated, freed, discardThis>>
Returned == \E x \in Chain :
    /\ discardThis = None /\ discardThis' = x
    /\ Chain' = Chain \ {x} /\ UNCHANGED <<Allocated, freed>>
    /\ member[x] \in running \ raid0 => \E y \in Chain \ {x} : member[y] = member[x]
Freed ==
    /\ discardThis # None /\ discardThis' = None
    /\ freed' = freed \cup {discardThis} /\ UNCHANGED <<Chain, Allocated>>
Kept == UNCHANGED <<Chain, Allocated, freed, discardThis>>

LEMMA ReturnedByPrune == HandoverInv /\ PruneUnlink => Returned
<1> SUFFICES ASSUME HandoverInv, PruneUnlink PROVE Returned
  OBVIOUS
<1> USE DEF HandoverInv
<1>0. /\ UNCHANGED <<member, freed, mgr, new>>
      /\ discardThis = None /\ discardThis' = cur /\ cur \notin held \ toRemove
  BY DEF PruneUnlink, heap, mgrVars
<1>1. cur \in Chain /\ cur \in Allocated
  BY ChainInAa DEF MonitorPoints, PruneUnlink
<1>2. Unpublished' = Unpublished
  BY <1>0 DEF Unpublished
<1>3. Allocated' = Allocated /\ Chain' = Chain \ {cur}
  BY <1>0, <1>2, Numbers DEF Chain, Allocated
<1>4. member[cur] \notin running \ raid0
  BY <1>0, <1>1 DEF LetGo
<1> QED
  BY <1>0, <1>1, <1>3, <1>4 DEF Returned

LEMMA ReturnedByClone == HandoverInv /\ TakeReplaced => Returned \/ Kept
<1> SUFFICES ASSUME HandoverInv, TakeReplaced PROVE Returned \/ Kept
  OBVIOUS
<1> USE DEF HandoverInv
<1> DEFINE r == replaces[cur]
<1>0. UNCHANGED <<member, freed, mgr, new>>
  BY DEF TakeReplaced, heap, mgrVars
<1>1. cur \in Chain /\ cur \in Nat
  BY Numbers, ChainInAa DEF MonitorPoints, TakeReplaced
<1>2. Unpublished' = Unpublished
  BY <1>0 DEF Unpublished
<1>3. CASE discardThis' = discardThis
  BY <1>0, <1>2, <1>3, ChainKept DEF Kept
<1>4. CASE r # None /\ discardThis = None /\ discardThis' = r
  <2>1. r \in Chain /\ r < cur /\ member[cur] = member[r]
    BY <1>1, <1>4 DEF OneReplaced, Replacing
  <2>2. r # cur
    BY <1>1, <2>1
  <2>3. Allocated' = Allocated /\ Chain' = Chain \ {r}
    BY <1>0, <1>2, <1>4, Numbers DEF Chain, Allocated
  <2> QED
    BY <1>0, <1>1, <1>4, <2>1, <2>2, <2>3 DEF Returned
<1> QED
  BY <1>3, <1>4 DEF TakeReplaced

LEMMA FreedByRemoveOld ==
    ASSUME HandoverInv, RemoveOld, UNCHANGED <<member, new>>,
           Unpublished' = Unpublished
    PROVE  Freed \/ Kept
<1>1. CASE discardThis = None
  BY <1>1, ChainKept DEF RemoveOld, heap, globals, Kept
<1>2. CASE discardThis # None
  <2>1. discardThis' = None /\ freed' = freed \cup {discardThis}
    BY <1>2 DEF RemoveOld
  <2>2. None \notin Allocated /\ Allocated' = Allocated
    BY Numbers, ChainInAa DEF Allocated
  <2>3. Chain' = Chain
    BY <2>1, <2>2 DEF Chain
  <2> QED
    BY <1>2, <2>1, <2>2, <2>3 DEF Freed
<1> QED
  BY <1>1, <1>2

LEMMA MadeFresh ==
    ASSUME HandoverInv, Unpublished = {}, new' \in Fresh, member'[new'] # None,
           \A y \in Aa \ {new'} : member'[y] = member[y],
           mgr' \in {"waiting", "replace"}, UNCHANGED <<freed, discardThis>>
    PROVE  Made /\ \A y \in Allocated : member'[y] = member[y]
<1> USE DEF HandoverInv
<1> PICK x \in Fresh : new' = x
  OBVIOUS
<1>1. x \in Aa /\ x \notin Allocated
  BY FreshIsYoungest
<1>2. Allocated' = Allocated \cup {x}
  BY <1>1 DEF Allocated
<1>3. Chain' = Chain
  BY <1>1, <1>2 DEF Chain, Unpublished
<1> QED
  BY <1>1, <1>2, <1>3, ChainInAa DEF Made

LEMMA MadeByManage ==
    ASSUME HandoverInv, NEW m \in Member, NEW victim, OpenNew(m, victim), mgr = "idle"
    PROVE  Made /\ \A y \in Allocated : member'[y] = member[y]
<1> USE DEF HandoverInv
<1>1. /\ new' \in Fresh /\ mgr' = "replace" /\ UNCHANGED <<freed, discardThis>>
      /\ member' = [member EXCEPT ![new'] = m]
  BY DEF OpenNew, heap, globals
<1>2. new' \in Aa /\ m # None
  BY <1>1, MemberAssumption DEF Fresh, None
<1>3. member'[new'] # None /\ \A y \in Aa \ {new'} : member'[y] = member[y]
  BY <1>1, <1>2 DEF TypeOK
<1>4. Unpublished = {}
  BY DEF Unpublished
<1> QED
  BY <1>1, <1>3, <1>4, MadeFresh

LEMMA MadeByDuplicate ==
    ASSUME HandoverInv, NEW to, NEW cleared, Duplicate(to, cleared), Current(old),
           mgr \in {"member", "rest", "reshape"}, mgr' \in {"replace", "waiting"},
           UNCHANGED <<heap, globals>>
    PROVE  Made /\ \A y \in Allocated : member'[y] = member[y]
<1> USE DEF HandoverInv
<1>1. new' \in Fresh /\ member' = [member EXCEPT ![new'] = member[old]]
  BY DEF Duplicate
<1>2. new' \in Aa /\ member[old] # None
  BY <1>1, ChainInAa DEF Fresh, Current, Allocated
<1>3. member'[new'] # None /\ \A y \in Aa \ {new'} : member'[y] = member[y]
  BY <1>1, <1>2 DEF TypeOK
<1>4. Unpublished = {}
  BY DEF Unpublished
<1>5. UNCHANGED <<freed, discardThis>>
  BY DEF heap, globals
<1> QED
  BY <1>1, <1>3, <1>4, <1>5, MadeFresh

LEMMA GivenByPublish == HandoverInv /\ Publish => Given
<1> SUFFICES ASSUME HandoverInv, Publish PROVE Given
  OBVIOUS
<1> USE DEF HandoverInv
<1>0. mgr = "publish" /\ mgr' = back /\ UNCHANGED <<member, freed, discardThis>>
  BY DEF Publish, heap, globals
<1>1. back \in {"idle", "member", "rest", "reshape", "after"}
  BY DEF TypeOK
<1>2. Unpublished = {new} /\ Unpublished' = {}
  BY <1>0, <1>1 DEF Unpublished
<1>3. new \in Allocated \ (freed \cup {discardThis}) /\ new \notin Chain
  BY <1>2 DEF UnpublishedNew, Chain
<1>4. Allocated' = Allocated
  BY <1>0 DEF Allocated
<1>5. Chain' = Chain \cup {new}
  BY <1>0, <1>2, <1>3, <1>4 DEF Chain
<1> QED
  BY <1>0, <1>3, <1>4, <1>5 DEF Given

MembersStay == \A y \in Allocated : member'[y] = member[y]

LEMMA StepsAre ==
    HandoverInv /\ [Next]_vars
        => (Made \/ Given \/ Returned \/ Freed \/ Kept) /\ MembersStay
<1> SUFFICES ASSUME HandoverInv, [Next]_vars
             PROVE  (Made \/ Given \/ Returned \/ Freed \/ Kept) /\ MembersStay
  OBVIOUS
<1> USE DEF fields, heap, world, globals, monVars, mgrVars
<1>1. CASE UNCHANGED <<member, freed, discardThis>> /\ Unpublished' = Unpublished
  BY <1>1, ChainKept DEF Kept, MembersStay
<1>2. CASE PruneUnlink \/ TakeReplaced
  BY <1>2, ReturnedByPrune, ReturnedByClone DEF MembersStay, PruneUnlink, TakeReplaced
<1>3. CASE PruneRead \/ PruneKeep \/ Scan \/ Act
  BY <1>1, <1>3 DEF PruneRead, PruneKeep, Scan, Act, Unpublished
<1>4. CASE Tidy \/ ReplaceFirst \/ ReplaceWait
  <2>1. RemoveOld /\ UNCHANGED <<member, new>> /\ Unpublished' = Unpublished
    BY <1>4 DEF Tidy, ReplaceFirst, ReplaceWait, Unpublished
  <2> QED
    BY <2>1, FreedByRemoveOld DEF MembersStay
<1>5. ASSUME NEW m \in Member, Manage(m)
      PROVE  (Made \/ Given \/ Returned \/ Freed \/ Kept) /\ MembersStay
  <2>1. mgr = "idle"
    BY <1>5 DEF Manage
  <2>2. CASE OpenNew(m, Found(m))
    BY <2>1, <2>2, MadeByManage DEF MembersStay
  <2>3. CASE /\ mgr' \in {"leave", "member"}
             /\ UNCHANGED <<fields, heap, world, globals, monVars, back, new>>
    BY <1>1, <2>1, <2>3 DEF Unpublished
  <2> QED
    BY <1>5, <2>2, <2>3 DEF Manage
<1>6. CASE LeaveToKernel \/ Raced \/ Waited \/ ReplaceLink
  BY <1>1, <1>6 DEF LeaveToKernel, Raced, Waited, ReplaceLink, Unpublished
<1>7. CASE ChangeLevel
  <2>1. mgr = "member" /\ mgr' = "replace" /\ Duplicate("rest", {}) /\ UNCHANGED <<heap, globals>>
    BY <1>7 DEF ChangeLevel
  <2>2. Current(old)
    BY <2>1 DEF HandoverInv, ManagerHolds
  <2> QED
    BY <2>1, <2>2, MadeByDuplicate DEF MembersStay
<1>8. CASE CheckDegraded
  <2>1. mgr \in {"member", "rest"} /\ UNCHANGED <<heap, globals>>
    BY <1>8 DEF CheckDegraded
  <2>2. Current(old)
    BY <2>1 DEF HandoverInv, ManagerHolds
  <2>3. CASE mgr' = "waiting" /\ Duplicate("reshape", {old})
    BY <2>1, <2>2, <2>3, MadeByDuplicate DEF MembersStay
  <2>4. CASE mgr' \in {"reshape", "after"} /\ member' = member
    BY <1>1, <2>1, <2>4 DEF Unpublished
  <2> QED
    BY <1>8, <2>3, <2>4 DEF CheckDegraded
<1>9. CASE CheckReshape
  <2>1. mgr = "reshape" /\ UNCHANGED <<heap, globals>>
    BY <1>9 DEF CheckReshape
  <2>2. CASE old \in reshaped /\ mgr' = "replace" /\ Duplicate("after", {old})
    <3>1. Current(old)
      BY <2>1, <2>2 DEF HandoverInv, ManagerHolds
    <3> QED
      BY <2>1, <2>2, <3>1, MadeByDuplicate DEF MembersStay
  <2>3. CASE mgr' = "after" /\ member' = member
    BY <1>1, <2>1, <2>3 DEF Unpublished
  <2> QED
    BY <1>9, <2>2, <2>3 DEF CheckReshape
<1>10. CASE AfterMember
  <2>1. ~(walk # None /\ walk \notin held /\ member[walk] \in running \ raid0)
    BY DEF HandoverInv, ManagerHolds, LetGo
  <2> QED
    BY <1>1, <1>10, <2>1 DEF AfterMember, Unpublished
<1>11. CASE Publish
  BY <1>11, GivenByPublish DEF MembersStay, Publish
<1>12. CASE World
  BY <1>1, <1>12 DEF World, Stop, BecomeRaid0, Start, Unpublished
<1>13. CASE UNCHANGED vars
  BY <1>1, <1>13 DEF vars, Unpublished
<1> QED
  BY <1>2, <1>3, <1>4, <1>5, <1>6, <1>7, <1>8, <1>9, <1>10, <1>11, <1>12, <1>13
     DEF Next, MonitorStep, ManagerStep

-----------------------------------------------------------------------------
\* The monitor never reaches what was freed: what it can reach is on the list
\* or in discard_this (remove_old, managemon.c).
THEOREM FreedOutOfReach == Orderly /\ Spec => []NothingFreedInUse
<1>1. HandoverInv => NothingFreedInUse
  <2> SUFFICES ASSUME HandoverInv PROVE NothingFreedInUse
    OBVIOUS
  <2>1. Listed = Chain
    BY ListedIsChain DEF HandoverInv
  <2>2. cur \in Chain \cup {None} /\ discardThis \notin freed
    BY Numbers, ChainInAa DEF HandoverInv, MonitorPoints, GoneWasThere, TypeOK
  <2>3. \A x \in Chain : replaces[x] \in Chain \cup {None}
    BY DEF HandoverInv, OneReplaced, Replacing
  <2>4. None \notin freed /\ Chain \cap freed = {}
    BY Numbers, ChainInAa DEF HandoverInv, GoneWasThere, Chain
  <2> QED
    BY <2>1, <2>2, <2>3, <2>4 DEF NothingFreedInUse
<1> QED
  BY <1>1, HandoverInvariant, PTL

\* free_aa leaves the files of a structure to its clone: as long as an array
\* runs, those of the structure that is monitored for it are open.
THEOREM OpenWhileRunning == Orderly /\ Spec => []FilesStayOpen
<1>1. HandoverInv => FilesStayOpen
  <2> SUFFICES ASSUME HandoverInv PROVE FilesStayOpen
    OBVIOUS
  <2>1. Listed \subseteq Allocated
    BY ListedIsChain, ChainInAa DEF HandoverInv
  <2> QED
    BY <2>1 DEF HandoverInv, LetGo, FilesStayOpen
<1> QED
  BY <1>1, HandoverInvariant, PTL

\* For an array that runs, and has redundancy, a structure on the list is
\* never marked to be let go.
WatchedIfListed ==
    \A m \in running \ raid0 : Watching(m) <=> \E x \in Chain : member[x] = m

LEMMA ListedIsWatched == HandoverInv => WatchedIfListed
<1> SUFFICES ASSUME HandoverInv, NEW m \in running \ raid0
             PROVE  Watching(m) <=> \E x \in Chain : member[x] = m
  BY DEF WatchedIfListed
<1>1. Listed = Chain
  BY ListedIsChain DEF HandoverInv
<1>2. \A x \in Chain : member[x] = m => x \in held \ toRemove
  BY ChainInAa DEF HandoverInv, LetGo
<1> QED
  BY <1>1, <1>2 DEF Watching

\* A structure is unlinked only when its clone is on the list (wait_and_act):
\* an array that keeps running stays on the list of monitored arrays.
THEOREM WatchedThroughout == Orderly /\ Spec => StaysWatched
<1> DEFINE Stays == \A m \in (running \cap running') \ raid0' : Watching(m) => Watching(m)'
<1>0. HandoverInv' => WatchedIfListed'
  BY ListedIsWatched, PTL
<1>1. ASSUME HandoverInv, HandoverInv', [Next]_vars PROVE Stays
  <2> SUFFICES ASSUME NEW m \in (running \cap running') \ raid0', Watching(m)
               PROVE  Watching(m)'
    BY DEF Stays
  <2>1. raid0 \subseteq raid0'
    BY <1>1 DEF Next, vars, MonitorStep, ManagerStep, World, world, PruneRead, PruneKeep,
       PruneUnlink, Scan, TakeReplaced, Act, Tidy, Manage, OpenNew, LeaveToKernel,
       ChangeLevel, Raced, CheckDegraded, Waited, CheckReshape, AfterMember, ReplaceFirst,
       ReplaceWait, ReplaceLink, Publish, Stop, BecomeRaid0, Start
  <2>2. PICK x \in Chain : member[x] = m
    BY <1>1, <2>1, ListedIsWatched DEF WatchedIfListed
  <2>3. (Made \/ Given \/ Returned \/ Freed \/ Kept) /\ MembersStay
    BY <1>1, StepsAre
  <2>4. \E y \in Chain' : y \in Chain /\ member[y] = m
    <3>1. CASE Returned
      BY <2>1, <2>2, <3>1 DEF Returned
    <3>2. CASE Made \/ Given \/ Freed \/ Kept
      BY <2>2, <3>2 DEF Made, Given, Freed, Kept
    <3> QED
      BY <2>3, <3>1, <3>2
  <2>5. \E y \in Chain' : member'[y] = m
    BY <2>3, <2>4, ChainInAa DEF MembersStay
  <2> QED
    BY <1>0, <1>1, <2>5 DEF WatchedIfListed
<1>2. HandoverInv /\ HandoverInv' /\ [Next]_vars => [Stays]_vars
  BY <1>1
<1> QED
  BY <1>2, HandoverInvariant, PTL DEF Spec, StaysWatched

-----------------------------------------------------------------------------
(* The list implements Custody.                                            *)

Keeper ==
    [x \in Aa |-> IF x = discardThis THEN "slot"
                  ELSE IF x \in Chain THEN "monitor"
                  ELSE IF x \in freed THEN "freed"
                  ELSE IF x \notin Allocated THEN "nobody" ELSE "manager"]
KeeperKnown == KeeperOf = Keeper

LEMMA KeeperIsKnown == HandoverInv => KeeperKnown
<1> SUFFICES ASSUME HandoverInv PROVE KeeperOf = Keeper
  BY DEF KeeperKnown
<1>1. Listed = Chain
  BY ListedIsChain DEF HandoverInv
<1>2. \A x \in Aa : x \notin Allocated <=> member[x] = None
  BY DEF Allocated
<1> QED
  BY <1>1, <1>2 DEF KeeperOf, Keeper

\* Each thing that a step may do to the list moves one structure as Custody
\* allows.
LEMMA KeeperMoves ==
    ASSUME HandoverInv, Made \/ Given \/ Returned \/ Freed \/ Kept,
           KeeperKnown, KeeperKnown'
    PROVE  [C!CustodyNext]_KeeperOf
<1>1. /\ Chain \subseteq Allocated /\ Allocated \subseteq Aa
      /\ freed \subseteq Allocated /\ freed \cap Chain = {} /\ discardThis \notin Chain
      /\ discardThis \notin freed /\ None \notin Aa
      /\ discardThis # None => discardThis \in Allocated
  BY Numbers, ChainInAa DEF HandoverInv, GoneWasThere, Chain
<1>2. ASSUME NEW x \in Aa, NEW from, NEW to, Keeper[x] = from,
             Keeper' = [Keeper EXCEPT ![x] = to]
      PROVE  C!Goes(x, from, to)
  BY <1>2 DEF C!Goes, KeeperKnown
<1>3. CASE Made
  <2>1. PICK x \in Aa \ Allocated :
          Allocated' = Allocated \cup {x} /\ UNCHANGED <<Chain, freed, discardThis>>
    BY <1>3 DEF Made
  <2>2. Keeper[x] = "nobody" /\ Keeper' = [Keeper EXCEPT ![x] = "manager"]
    BY <1>1, <2>1 DEF Keeper
  <2> QED
    BY <1>2, <2>1, <2>2 DEF C!CustodyNext, C!Create
<1>4. CASE Given
  <2>1. PICK x \in Allocated \ (Chain \cup freed \cup {discardThis}) :
          Chain' = Chain \cup {x} /\ UNCHANGED <<Allocated, freed, discardThis>>
    BY <1>4 DEF Given
  <2>2. Keeper[x] = "manager" /\ Keeper' = [Keeper EXCEPT ![x] = "monitor"]
    BY <1>1, <2>1 DEF Keeper
  <2> QED
    BY <1>1, <1>2, <2>1, <2>2 DEF C!CustodyNext, C!Give
<1>5. CASE Returned
  <2>1. PICK x \in Chain : /\ discardThis = None /\ discardThis' = x
                           /\ Chain' = Chain \ {x} /\ UNCHANGED <<Allocated, freed>>
    BY <1>5 DEF Returned
  <2>2. Keeper[x] = "monitor" /\ Keeper' = [Keeper EXCEPT ![x] = "slot"]
    BY <1>1, <2>1 DEF Keeper
  <2>3. \A y \in Aa : KeeperOf[y] # "slot"
    BY <1>1, <2>1 DEF Keeper, KeeperKnown
  <2> QED
    BY <1>1, <1>2, <2>1, <2>2, <2>3 DEF C!CustodyNext, C!Return
<1>6. CASE Freed
  <2>1. /\ discardThis \in Aa /\ discardThis' = None
        /\ freed' = freed \cup {discardThis} /\ UNCHANGED <<Chain, Allocated>>
    BY <1>1, <1>6 DEF Freed
  <2>2. Keeper[discardThis] = "slot" /\ Keeper' = [Keeper EXCEPT ![discardThis] = "freed"]
    BY <1>1, <2>1 DEF Keeper
  <2> QED
    BY <1>2, <2>1, <2>2 DEF C!CustodyNext, C!Free
<1>7. CASE Kept
  BY <1>7 DEF Kept, Keeper, KeeperKnown
<1> QED
  BY <1>3, <1>4, <1>5, <1>6, <1>7

\* At any time one thread may use a structure: the list without a lock
\* implements the giving and returning of Custody.
THEOREM CustodyIsKept == Orderly /\ Spec => CustodyKept
<1>1. Init => C!CustodyInit
  <2> SUFFICES ASSUME Init PROVE C!CustodyInit
    OBVIOUS
  <2>1. KeeperOf = Keeper
    BY HandoverInit, KeeperIsKnown DEF KeeperKnown
  <2>2. Allocated = {} /\ Chain = {} /\ freed = {} /\ discardThis = None
    BY DEF Init, Allocated, Chain
  <2>3. \A x \in Aa : x # None
    BY Numbers
  <2> QED
    BY <2>1, <2>2, <2>3 DEF C!CustodyInit, Keeper
<1>2. HandoverInv' => KeeperKnown'
  BY KeeperIsKnown, PTL
<1>3. HandoverInv /\ HandoverInv' /\ [Next]_vars => [C!CustodyNext]_KeeperOf
  BY <1>2, StepsAre, KeeperIsKnown, KeeperMoves
<1> QED
  BY <1>1, <1>3, HandoverInvariant, PTL DEF Spec, CustodyKept, C!CustodySpec
=============================================================================
