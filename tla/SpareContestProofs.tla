------------------------- MODULE SpareContestProofs -------------------------
(***************************************************************************)
(* Theorems about SpareContest: the types, that a container that was       *)
(* frozen is quiet, that a spare has one owner, and that it is moved only  *)
(* where one is needed.                                                    *)
(***************************************************************************)
EXTENDS SpareContest, FiniteSetTheorems, TLAPS

-----------------------------------------------------------------------------
(* Groups of devices, and types.                                           *)

\* A volume is in one container, and no group is a container and a native array.
LEMMA Groups ==
  /\ \A c \in Container : VolumesOf[c] \subseteq Volume
  /\ \A c \in Container : \A v \in VolumesOf[c] : GroupOf(v) = c /\ v \notin Native
  /\ \A n \in Native : GroupOf(n) = n
  /\ \A c \in Container : c \notin Native
  /\ \A a \in Array : GroupOf(a) \in Group
<1>1. \A c \in Container : VolumesOf[c] \subseteq Volume  BY DEF Volume
<1>2. ASSUME NEW c \in Container, NEW v \in VolumesOf[c]
      PROVE  GroupOf(v) = c /\ v \notin Native
  <2>1. v \notin Native  BY ContainerAssumption, <1>1 DEF Group
  <2>2. \A d \in Container : v \in VolumesOf[d] => d = c  BY ContainerAssumption
  <2> QED  BY <2>1, <2>2 DEF GroupOf
<1>3. \A n \in Native : GroupOf(n) = n  BY DEF GroupOf
<1>4. \A c \in Container : c \notin Native  BY ContainerAssumption
<1>5. \A a \in Array : GroupOf(a) \in Group  BY <1>2, <1>3 DEF Array, Volume, Group
<1> QED  BY <1>1, <1>2, <1>3, <1>4, <1>5

\* Any number of spares can be counted.
LEMMA Counts == \A P \in SUBSET Spare : IsFiniteSet(P) /\ Cardinality(P) \in Nat
  BY ContainerAssumption, FS_Subset, FS_CardinalityType

\* Who is busy with a volume, a spare or a container names one.
Busy ==
    /\ \A c \in Container : mgr[c].at \in {"activating", "updating"} =>
           mgr[c].spare \in Spare /\ mgr[c].vol \in VolumesOf[c]
    /\ grow.at = "none" => left = {} /\ frozen = {}
    /\ grow.at \notin {"none", "over"} =>
           grow.cont \in Container /\ left \cup frozen \subseteq VolumesOf[grow.cont]
    /\ grow.at \in {"block", "verify"} => grow.vol \in VolumesOf[grow.cont]

Types == TypeOK /\ Busy

\* What a ping of mdadm --monitor adds.
LEMMA Pings ==
  ASSUME BaseTypeOK, NEW g, NEW k \in {"monitor", "manager", "again"}
  PROVE  /\ Pinging(g, k) \in [Container -> SUBSET (Mdadm \X {"monitor", "manager", "again"})]
         /\ \A c \in Container : Pinging(g, k)[c] = IF c = g THEN ping[c] \cup {<<"monitor", k>>} ELSE ping[c]
<1>1. <<"monitor", k>> \in Mdadm \X {"monitor", "manager", "again"}  BY DEF Mdadm
<1> QED  BY <1>1 DEF Pinging, BaseTypeOK

\* Every step keeps the types, and who is busy names what it is busy with.
LEMMA Typing == Types /\ [Next]_vars => Types'
<1> SUFFICES ASSUME Types, [Next]_vars PROVE Types'  OBVIOUS
<1> USE DEF Types, Busy, TypeOK, BaseTypeOK, GrowTypeOK, MonTypeOK, baseVars, driver, record, mdmon, growVars, monVars
<1>0. /\ Array \subseteq Volume \cup Native /\ Volume \subseteq Array /\ Native \subseteq Array
      /\ Native \subseteq Group /\ Container \subseteq Group
  BY DEF Array, Group
<1>1. ASSUME DriverStep PROVE Types'
  <2> USE <1>1 DEF DriverStep
  <2>1. ASSUME NEW a \in Array, RecoveryDone(a) PROVE Types'
    <3> USE <2>1 DEF RecoveryDone
    <3>1. synced' \in [Spare -> SUBSET Array]  OBVIOUS
    <3>2. wants' \subseteq Volume /\ awake' \subseteq Container  BY DEF Stirred
    <3>3. action' \in [Array -> {"idle", "frozen", "recover"}]  OBVIOUS
    <3> QED  BY <3>1, <3>2, <3>3
  <2>2. ASSUME NEW n \in Native, NEW s \in Spare, NativeTakes(n, s) PROVE Types'
    <3> USE <2>2 DEF NativeTakes
    <3>1. slots' \in [Spare -> SUBSET Array]  BY <1>0
    <3>2. action' \in [Array -> {"idle", "frozen", "recover"}]  OBVIOUS
    <3> QED  BY <3>1, <3>2
  <2> QED  BY <2>1, <2>2 DEF Driver
<1>2. CASE DiskFails
  BY <1>2, RaidDisksAssumption DEF DiskFails, Fail, Stirred, Group
<1>3. ASSUME NEW c \in Container, MdmonStep(c) PROVE Types'
  <2> USE DEF MdmonStep
  <2>0. VolumesOf[c] \subseteq Volume  BY Groups
  <2>1. CASE Record(c)
    BY <2>1, <1>3 DEF Record, Group, Volume
  <2>2. CASE ApplyUpdate(c)
    <3> USE <1>3, <2>2 DEF ApplyUpdate
    <3>1. listed' \in [Container -> SUBSET Spare]  OBVIOUS
    <3>2. assigned' \in [Container -> SUBSET Spare]  OBVIOUS
    <3>3. wants' \subseteq Volume  BY <2>0
    <3> QED  BY <3>1, <3>2, <3>3
  <2>3. CASE Wake(c)
    <3> USE <1>3, <2>3 DEF Wake
    <3>1. todo' \in [Container -> SUBSET (Container \cup Volume)]  BY <2>0
    <3>2. [mgr[c] EXCEPT !.at = "pass"] \in MgrState /\ [mgr[c] EXCEPT !.at = "pass"].at = "pass"
      BY DEF MgrState
    <3>3. mgr' \in [Container -> MgrState] /\ mgr'[c].at = "pass"  BY <3>2
    <3>4. Busy'  BY <3>3
    <3> QED  BY <3>1, <3>3, <3>4
  <2>4. CASE ManageContainer(c)
    BY <2>4, <1>3 DEF ManageContainer, DevicesOf
  <2>5. CASE Activate(c)
    <3> USE <1>3, <2>5 DEF Activate
    <3>1. mgr[c].vol \in Array  BY <1>0, <2>0
    <3>2. action' \in [Array -> {"idle", "frozen", "recover"}]  BY <3>1
    <3>3. slots' \in [Spare -> SUBSET Array]  BY <3>1
    <3>4. /\ mgr' \in [Container -> MgrState]
          /\ mgr'[c].spare = mgr[c].spare /\ mgr'[c].vol = mgr[c].vol
      BY DEF MgrState
    <3>5. Busy'  BY <3>4
    <3> QED  BY <3>2, <3>3, <3>4, <3>5
  <2>6. CASE StartRecovery(c)
    <3> USE <1>3, <2>6 DEF StartRecovery
    <3>1. [Asleep EXCEPT !.at = "pass"] \in MgrState /\ [Asleep EXCEPT !.at = "pass"].at = "pass"
      BY DEF MgrState, Asleep
    <3>2. mgr' \in [Container -> MgrState] /\ mgr'[c].at = "pass"  BY <3>1
    <3>3. Busy'  BY <3>2
    <3>4. action' \in [Array -> {"idle", "frozen", "recover"}]  OBVIOUS
    <3> QED  BY <3>2, <3>3, <3>4
  <2>7. CASE GoToSleep(c)
    <3> USE <1>3, <2>7 DEF GoToSleep
    <3>1. mgr' \in [Container -> MgrState] /\ mgr'[c].at = "asleep"  BY DEF MgrState, Asleep
    <3>2. Busy'  BY <3>1
    <3> QED  BY <3>1, <3>2
  <2>8. ASSUME NEW v \in VolumesOf[c], LookAt(c, v) PROVE Types'
    <3> USE <1>3, <2>8 DEF LookAt
    <3>1. wants' \subseteq Volume /\ todo' \in [Container -> SUBSET (Container \cup Volume)]
      OBVIOUS
    <3>2. Choice(c, v) \subseteq Spare  BY DEF Choice, Usable
    <3>3. ASSUME NEW s \in Choice(c, v),
                 mgr' = [mgr EXCEPT ![c] = [at |-> "activating", vol |-> v, spare |-> s]]
          PROVE  mgr' \in [Container -> MgrState] /\ Busy'
      <4>1. [at |-> "activating", vol |-> v, spare |-> s] \in MgrState
        BY <2>0, <3>2 DEF MgrState
      <4> QED  BY <3>2, <3>3, <4>1
    <3>4. mgr' \in [Container -> MgrState] /\ Busy'
      <4>1. CASE UNCHANGED mgr  BY <4>1
      <4> QED  BY <3>3, <4>1
    <3> QED  BY <3>1, <3>3, <3>4
  <2>9. ASSUME NEW p \in ping[c], Answer(c, p) PROVE Types'
    <3> USE <1>3, <2>9 DEF Answer
    <3>1. p[1] \in Mdadm  OBVIOUS
    <3>2. <<p[1], "again">> \in Mdadm \X {"monitor", "manager", "again"}  BY <3>1
    <3>3. ping' \in [Container -> SUBSET (Mdadm \X {"monitor", "manager", "again"})]  BY <3>2
    <3>4. mgr' \in [Container -> MgrState] /\ (mgr'[c].at = "asleep" \/ mgr' = mgr)
      <4>1. Asleep \in MgrState /\ Asleep.at = "asleep"  BY DEF MgrState, Asleep
      <4>2. mgr' = mgr \/ mgr' = [mgr EXCEPT ![c] = Asleep]  OBVIOUS
      <4> QED  BY <4>1, <4>2
    <3>5. todo' \in [Container -> SUBSET (Container \cup Volume)]
      <4>1. {c} \cup VolumesOf[c] \subseteq Container \cup Volume  BY <2>0
      <4>2. todo' = [todo EXCEPT ![c] = {c} \cup VolumesOf[c]] \/ todo' = todo  OBVIOUS
      <4> QED  BY <4>1, <4>2
    <3>6. Busy'  BY <3>4
    <3> QED  BY <3>3, <3>4, <3>5, <3>6
  <2> QED
    BY <1>3, <2>1, <2>2, <2>3, <2>4, <2>5, <2>6, <2>7, <2>8, <2>9
    DEF Mdmon, MonitorThread, Manager
<1>4. CASE GrowStarts
  <2>1. PICK c \in Container : OpenContainer(c) /\ UNCHANGED monVars  BY <1>4 DEF GrowStarts
  <2> USE <2>1 DEF OpenContainer
  <2>2. grow' \in GrowState /\ grow'.cont = c /\ grow'.at = "opened"
    BY DEF GrowState, GrowPlace
  <2>3. holder' \in [Container -> Mdadm \cup {Nowhere}]  BY DEF Mdadm
  <2>4. left' = {} /\ frozen' = {}  OBVIOUS
  <2> QED  BY <2>2, <2>3, <2>4
<1>5. CASE GrowGoesOn
  <2> USE DEF GrowGoesOn, GrowPlace, GrowTo
  <2>0. \A c \in Container : Members(c) \subseteq VolumesOf[c] /\ VolumesOf[c] \subseteq Volume
    BY Groups DEF Members
  <2>1. CASE CheckIdle
    <3> USE <2>1, <1>5 DEF CheckIdle, Leave
    <3>1. CASE grow' = [grow EXCEPT !.at = "freeze", !.vol = NoVolume] /\ left' = Members(grow.cont)
                  /\ UNCHANGED <<frozen, holder>>
      <4>1. grow' \in GrowState /\ grow'.at = "freeze" /\ grow'.cont = grow.cont
        BY <3>1 DEF GrowState
      <4> QED  BY <2>0, <3>1, <4>1
    <3>2. CASE /\ grow' = [at |-> "over", cont |-> Nowhere, vol |-> NoVolume]
               /\ holder' = [holder EXCEPT ![grow.cont] = Nowhere]
               /\ left' = {} /\ frozen' = {}
      <4>1. grow' \in GrowState /\ grow'.at = "over"  BY <3>2 DEF GrowState
      <4> QED  BY <3>2, <4>1
    <3> QED  BY <3>1, <3>2
  <2>2. CASE Block
    <3> USE <2>2, <1>5 DEF Block
    <3>1. <<"grow", "monitor">> \in Mdadm \X {"monitor", "manager", "again"}  BY DEF Mdadm
    <3>2. ping' \in [Container -> SUBSET (Mdadm \X {"monitor", "manager", "again"})]  BY <3>1
    <3>3. /\ grow' \in GrowState /\ grow'.cont = grow.cont /\ grow'.at = "verify"
          /\ grow'.vol = grow.vol
      BY DEF GrowState
    <3> QED  BY <3>2, <3>3
  <2>3. CASE Verify
    <3> USE <2>3, <1>5 DEF Verify, GiveUp
    <3>0. Idle(grow.vol) \in {"idle", "recover"} /\ grow.vol \in Volume  BY <2>0 DEF Idle
    <3>1. grow' \in GrowState /\ grow'.cont = grow.cont /\ grow'.at \in {"freeze", "thaw"}
      <4>1. \/ grow' = [grow EXCEPT !.at = "freeze", !.vol = NoVolume]
            \/ grow' = [grow EXCEPT !.at = "thaw", !.vol = NoVolume]
        OBVIOUS
      <4> QED  BY <4>1 DEF GrowState
    <3>2. action' = action \/ action' = [action EXCEPT ![grow.vol] = Idle(grow.vol)]  OBVIOUS
    <3>3. action' \in [Array -> {"idle", "frozen", "recover"}]  BY <3>0, <3>2
    <3>4. version' \in [Volume -> {"own", "blocked", "none"}]
      <4>1. \/ version' = version \/ version' = [version EXCEPT ![grow.vol] = "own"]
            \/ version' = [version EXCEPT ![grow.vol] = "none"]
        OBVIOUS
      <4> QED  BY <4>1
    <3>5. left' \in {left, frozen} /\ frozen' \in {{}, frozen \cup {grow.vol}}
      <4>1. CASE action[grow.vol] # "frozen"  BY <4>1
      <4>2. CASE action[grow.vol] = "frozen" /\ Rebuilding(grow.vol) # {}  BY <4>2
      <4>3. CASE action[grow.vol] = "frozen" /\ Rebuilding(grow.vol) = {}  BY <4>3
      <4> QED  BY <4>1, <4>2, <4>3
    <3>6. left' \cup frozen' \subseteq VolumesOf[grow.cont] /\ left' \cup frozen' \subseteq Volume
      BY <2>0, <3>5
    <3> QED  BY <3>1, <3>3, <3>4, <3>6
  <2>4. CASE Frozen
    <3>1. grow' \in GrowState /\ grow'.cont = grow.cont /\ grow'.at = "held"
      BY <2>4, <1>5 DEF Frozen, GrowState
    <3> QED  BY <2>4, <1>5, <3>1 DEF Frozen
  <2>5. CASE Unfreeze
    <3>1. grow' \in GrowState /\ grow'.cont = grow.cont /\ grow'.at = "thaw"
      BY <2>5, <1>5 DEF Unfreeze, GrowState
    <3> QED  BY <2>0, <2>5, <1>5, <3>1 DEF Unfreeze
  <2>6. CASE PingThawed
    <3> USE <2>6, <1>5 DEF PingThawed
    <3>1. <<"grow", "monitor">> \in Mdadm \X {"monitor", "manager", "again"}  BY DEF Mdadm
    <3>2. ping' \in [Container -> SUBSET (Mdadm \X {"monitor", "manager", "again"})]  BY <3>1
    <3>3. grow' \in GrowState /\ grow'.cont = grow.cont /\ grow'.at = "thawed"  BY DEF GrowState
    <3> QED  BY <3>2, <3>3
  <2>7. CASE Thawed
    <3> USE <2>7, <1>5 DEF Thawed, Leave
    <3>1. grow' \in GrowState /\ grow'.at = "over"  BY DEF GrowState
    <3>2. holder' \in [Container -> Mdadm \cup {Nowhere}]  OBVIOUS
    <3> QED  BY <3>1, <3>2
  <2>8. ASSUME NEW v \in Volume, FreezeArray(v) PROVE Types'
    <3> USE <2>8, <1>5 DEF FreezeArray, GiveUp
    <3>1. CASE action[v] = "frozen"
      <4>1. grow' \in GrowState /\ grow'.cont = grow.cont /\ grow'.at = "thaw"
        BY <3>1 DEF GrowState
      <4> QED  BY <3>1, <4>1
    <3>2. CASE action[v] # "frozen"
      <4>0. grow' = [grow EXCEPT !.at = "block", !.vol = v]  BY <3>2
      <4>1. grow' \in GrowState /\ grow'.cont = grow.cont /\ grow'.at = "block" /\ grow'.vol = v
        BY <4>0 DEF GrowState
      <4>2. action' \in [Array -> {"idle", "frozen", "recover"}]  BY <3>2
      <4> QED  BY <3>2, <4>1, <4>2
    <3> QED  BY <3>1, <3>2
  <2>9. ASSUME NEW v \in Volume, Unblock(v) PROVE Types'
    BY <2>9, <1>5 DEF Unblock, Idle, Array
  <2> QED  BY <1>5, <2>1, <2>2, <2>3, <2>4, <2>5, <2>6, <2>7, <2>8, <2>9 DEF GrowStep
<1>6. CASE MonGoesOn
  <2> USE DEF MonGoesOn, MonPlace
  <2>1. CASE NextTurn \/ JobOver
    BY <2>1, <1>6, RaidDisksAssumption DEF NextTurn, JobOver, Unseen, NoJob, JobState
  <2>2. ASSUME NEW a \in Array, CheckArray(a) PROVE Types'
    <3>1. GroupOf(a) \in Group  BY Groups
    <3>2. InSync(a) \in Nat
      <4>1. work[GroupOf(a)] \in Nat  BY <3>1, RaidDisksAssumption
      <4>2. Cardinality({s \in Spare : a \in synced[s]}) \in Nat  BY Counts
      <4> QED  BY <4>1, <4>2 DEF InSync
    <3> QED  BY <2>2, <1>6, <3>2 DEF CheckArray, Rebuilding, DevicesOf
  <2>3. ASSUME NEW a \in Array, LookAfter(a) PROVE Types'
    <3>1. GroupOf(a) \in Group  BY Groups
    <3> USE <2>3, <1>6 DEF LookAfter
    <3>2. \/ job' = job /\ mon' = mon
          \/ job' = [NoJob EXCEPT !.array = a, !.to = GroupOf(a), !.donors = Group] /\ mon' = "donor"
      OBVIOUS
    <3>3. job' \in JobState /\ mon' \in MonPlace  BY <3>1, <3>2 DEF NoJob, JobState
    <3> QED  BY <3>3
  <2>4. ASSUME NEW from \in Group, TryDonor(from) PROVE Types'
    <3>1. ToChoose(from) \subseteq Spare
      <4>1. CASE from \in Native  BY <4>1, <1>0 DEF ToChoose
      <4>2. CASE from \in Container  BY <4>2, Groups DEF ToChoose, Spares
      <4> QED  BY <4>1, <4>2 DEF Group
    <3> USE <2>4, <1>6 DEF TryDonor
    <3>2. ASSUME NEW s \in ToChoose(from),
                 job' = [job EXCEPT !.donors = @ \ {from}, !.from = from, !.spare = s]
          PROVE  job' \in JobState
      BY <3>1, <3>2 DEF JobState
    <3>3. CASE job' = [job EXCEPT !.donors = @ \ {from}]  BY <3>3 DEF JobState
    <3>4. ASSUME NEW s \in ToChoose(from)
          PROVE  [[job EXCEPT !.donors = @ \ {from}] EXCEPT !.from = from, !.spare = s]
                 = [job EXCEPT !.donors = @ \ {from}, !.from = from, !.spare = s]
      BY DEF JobState
    <3>5. job' \in JobState  BY <3>2, <3>3, <3>4
    <3> QED  BY <3>5
  <2>5. CASE OpenDonor
    <3> USE <1>6, <2>5 DEF OpenDonor, NextDonor
    <3>1. holder' \in [Container -> Mdadm \cup {Nowhere}]  BY DEF Mdadm
    <3>2. [job EXCEPT !.from = Nowhere, !.spare = NoSpare] \in JobState  BY DEF JobState
    <3> QED  BY <3>1, <3>2
  <2>6. CASE CheckHolder
    <3> USE <1>6, <2>6 DEF CheckHolder, NextDonor
    <3>1. holder' \in [Container -> Mdadm \cup {Nowhere}]  OBVIOUS
    <3>0. [job EXCEPT !.from = Nowhere, !.spare = NoSpare] \in JobState  BY DEF JobState
    <3>2. job' \in JobState /\ mon' \in MonPlace
      <4>1. CASE place[job.spare] = job.from /\ slots[job.spare] = {}  BY <4>1
      <4>2. CASE ~(place[job.spare] = job.from /\ slots[job.spare] = {})  BY <4>2, <3>0
      <4> QED  BY <4>1, <4>2
    <3> QED  BY <3>1, <3>2
  <2>7. CASE HotRemove
    <3> USE <1>6, <2>7 DEF HotRemove, NextDonor
    <3>1. Pinging(job.from, "manager") \in [Container -> SUBSET (Mdadm \X {"monitor", "manager", "again"})]
      BY Pings
    <3>2. ping' \in [Container -> SUBSET (Mdadm \X {"monitor", "manager", "again"})]  BY <3>1
    <3>3. holder' \in [Container -> Mdadm \cup {Nowhere}]  OBVIOUS
    <3>4. awake' \subseteq Container /\ place' \in [Spare -> Group \cup {Nowhere}]
      BY DEF Stirred
    <3>50. [job EXCEPT !.from = Nowhere, !.spare = NoSpare] \in JobState  BY DEF JobState
    <3>5. job' \in JobState /\ mon' \in MonPlace  BY <3>50
    <3>6. UNCHANGED <<world, work, slots, synced, action, version, record, known, wants, queued,
                      mgr, todo, unread, seen, short, growVars>>
      OBVIOUS
    <3> QED  BY <3>2, <3>3, <3>4, <3>5, <3>6
  <2>8. CASE Removed
    BY <2>8, <1>6 DEF Removed
  <2>9. CASE Add
    <3> USE <1>6, <2>9 DEF Add, Target
    <3>1. Pinging(Target, "monitor") \in [Container -> SUBSET (Mdadm \X {"monitor", "manager", "again"})]
      BY Pings
    <3>2. ping' \in [Container -> SUBSET (Mdadm \X {"monitor", "manager", "again"})]  BY <3>1
    <3>3. holder' \in [Container -> Mdadm \cup {Nowhere}]  BY DEF Mdadm
    <3>4. awake' \subseteq Container /\ place' \in [Spare -> Group \cup {Nowhere}]
      <4>1. job.to \in Group \cup {Nowhere} /\ job.from \in Group \cup {Nowhere}
        BY DEF JobState
      <4> QED  BY <4>1 DEF Stirred
    <3>5. UNCHANGED <<world, work, slots, synced, action, version, record, known, wants, queued,
                      mgr, todo, unread, seen, short, job, growVars>> /\ mon' \in MonPlace
      OBVIOUS
    <3> QED  BY <3>2, <3>3, <3>4, <3>5
  <2>10. CASE CannotAdd
    <3>1. [job EXCEPT !.from = Nowhere, !.spare = NoSpare] \in JobState  BY DEF JobState
    <3> QED  BY <2>10, <1>6, <3>1 DEF CannotAdd, NextDonor
  <2>11. CASE Added
    <3> USE <1>6, <2>11 DEF Added, NextDonor
    <3>1. Pinging(job.to, "manager") \in [Container -> SUBSET (Mdadm \X {"monitor", "manager", "again"})]
      BY Pings
    <3>2. ping' \in [Container -> SUBSET (Mdadm \X {"monitor", "manager", "again"})]  BY <3>1
    <3>3. holder' \in [Container -> Mdadm \cup {Nowhere}]
      <4>1. CASE mon = "adding"  BY <4>1
      <4>2. CASE mon = "backing"  BY <4>2
      <4> QED  BY <4>1, <4>2
    <3>40. [job EXCEPT !.from = Nowhere, !.spare = NoSpare] \in JobState  BY DEF JobState
    <3>4. job' \in JobState /\ mon' \in MonPlace
      <4>1. CASE mon = "adding"  BY <4>1
      <4>2. CASE mon = "backing"  BY <4>2, <3>40
      <4> QED  BY <4>1, <4>2
    <3>5. UNCHANGED <<driver, record, mdmon, unread, seen, short, growVars>>  OBVIOUS
    <3> QED  BY <3>2, <3>3, <3>4, <3>5
  <2>12. CASE Told
    <3> USE <1>6, <2>12 DEF Told
    <3>1. ping' \in [Container -> SUBSET (Mdadm \X {"monitor", "manager", "again"})]  BY Pings
    <3> QED  BY <3>1
  <2>13. CASE Moved
    BY <2>13, <1>6 DEF Moved, NoJob, JobState
  <2> QED
    BY <1>6, <2>1, <2>2, <2>3, <2>4, <2>5, <2>6, <2>7, <2>8, <2>9, <2>10, <2>11, <2>12,
        <2>13 DEF MonStep
<1>7. CASE UNCHANGED vars  BY <1>7 DEF vars
<1> QED  BY <1>1, <1>2, <1>3, <1>4, <1>5, <1>6, <1>7 DEF Next

\* The initial states.
LEMMA InitTypes == Init => Types
<1> USE DEF Init, BaseInit, GrowInit, MonInit
<1>1. ASSUME Init PROVE BaseTypeOK
  <2>1. world.home \in [Spare -> Group]  BY <1>1, ScenarioAssumption
  <2>2. mgr \in [Container -> MgrState]  BY <1>1 DEF Asleep, MgrState
  <2> QED  BY <1>1, <2>1, <2>2, RaidDisksAssumption DEF BaseTypeOK
<1>2. ASSUME Init PROVE GrowTypeOK  BY <1>2 DEF GrowTypeOK, GrowState, GrowPlace
<1>3. ASSUME Init PROVE MonTypeOK
  <2>1. NoJob \in JobState  BY DEF NoJob, JobState
  <2> QED  BY <1>3, <2>1, RaidDisksAssumption DEF MonTypeOK, Unseen, MonPlace
<1>4. ASSUME Init PROVE Busy  BY <1>4 DEF Busy, Asleep
<1> QED  BY <1>1, <1>2, <1>3, <1>4 DEF Types, TypeOK

\* The types of SpareContest.
THEOREM TypeCorrect == Spec => []TypeOK
<1>1. Types => TypeOK  BY DEF Types
<1> QED  BY <1>1, InitTypes, Typing, PTL DEF Spec

-----------------------------------------------------------------------------
(* A container that was frozen.                                            *)

\* The manager of c has chosen a spare for v.
Activating(c, v) == mgr[c].at \in {"activating", "updating"} /\ mgr[c].vol = v

\* Nobody starts a recovery of v.
Secure(v) == /\ version[v] = "blocked" /\ action[v] = "frozen" /\ Rebuilding(v) = {}
             /\ ~Activating(grow.cont, v)

\* mdmon has not answered the ping of block_monitor.
Awaited(c) == <<"grow", "monitor">> \in ping[c]

\* FrozenIsQuiet, through block_monitor: the volumes of the container are those it has done,
\* which are secure, those it has not, and the one it is at; of that one the manager, which
\* had read the metadata_version before, is through when it has answered.
FreezeInv ==
    /\ grow.at \in {"none", "opened"} => frozen = {} /\ \A v \in Volume : version[v] = "own"
    /\ grow.at \in {"freeze", "block", "verify"} =>
           /\ VolumesOf[grow.cont] \subseteq
                  left \cup frozen \cup (IF grow.at = "freeze" THEN {} ELSE {grow.vol})
           /\ \A v \in frozen : Secure(v)
    /\ grow.at = "verify" => /\ version[grow.vol] = "blocked"
                             /\ Awaited(grow.cont) \/ ~Activating(grow.cont, grow.vol)
    /\ grow.at = "held" => \A v \in VolumesOf[grow.cont] : Secure(v)

\* A volume that block_monitor has done stays as it left it: mdmon looks at metadata_version
\* before it chooses a spare, and has answered a ping since the '-' was written.
LEMMA FreezeKept == Types /\ FreezeInv /\ [Next]_vars => FreezeInv'
<1> SUFFICES ASSUME Types, FreezeInv, [Next]_vars PROVE FreezeInv'  OBVIOUS
<1>0. /\ grow \in GrowState
      /\ grow.at \notin {"none", "over"} =>
             grow.cont \in Container /\ left \cup frozen \subseteq VolumesOf[grow.cont]
      /\ grow.at \in {"block", "verify"} => grow.vol \in VolumesOf[grow.cont]
      /\ \A c \in Container : VolumesOf[c] \subseteq Volume
      /\ version \in [Volume -> {"own", "blocked", "none"}]
      /\ action \in [Array -> {"idle", "frozen", "recover"}] /\ Volume \subseteq Array
  BY Groups DEF Types, TypeOK, BaseTypeOK, GrowTypeOK, Busy, Array
\* A step that mdadm --grow does not take.
<1>1. ASSUME UNCHANGED <<growVars, version>>,
             \A c \in Container : \A v \in VolumesOf[c] :
                 /\ version[v] = "blocked" /\ ~Activating(c, v) => ~Activating(c, v)'
                 /\ Secure(v) /\ c = grow.cont => action'[v] = "frozen" /\ Rebuilding(v)' = {},
             \A c \in Container : Awaited(c) => Awaited(c)' \/ mgr'[c].at = "asleep"
      PROVE  FreezeInv'
  <2>0. UNCHANGED <<grow, left, frozen>>  BY <1>1 DEF growVars
  <2>1. ASSUME grow.at \notin {"none", "over"}, NEW v \in VolumesOf[grow.cont], Secure(v)
        PROVE  Secure(v)'
    BY <1>0, <1>1, <2>0, <2>1 DEF Secure
  <2>2. grow.at = "verify" => Awaited(grow.cont)' \/ ~Activating(grow.cont, grow.vol)'
    <3> SUFFICES ASSUME grow.at = "verify" PROVE Awaited(grow.cont)' \/ ~Activating(grow.cont, grow.vol)'
      OBVIOUS
    <3>1. CASE Awaited(grow.cont)  BY <1>0, <1>1, <2>0, <3>1 DEF Activating
    <3>2. CASE ~Activating(grow.cont, grow.vol)  BY <1>0, <1>1, <2>0, <3>2 DEF FreezeInv
    <3> QED  BY <3>1, <3>2 DEF FreezeInv
  <2> QED  BY <1>0, <1>1, <2>0, <2>1, <2>2 DEF FreezeInv
<1>2. ASSUME UNCHANGED <<growVars, version, action, slots, synced, mgr>>,
             \A c \in Container : Awaited(c) => Awaited(c)'
      PROVE  FreezeInv'
  BY <1>1, <1>2 DEF Secure, Activating, Rebuilding
<1>3. ASSUME DriverStep PROVE FreezeInv'
  <2>1. ASSUME NEW a \in Array, RecoveryDone(a) PROVE FreezeInv'
    <3>1. ASSUME NEW v \in Volume, Secure(v) PROVE action'[v] = "frozen" /\ Rebuilding(v)' = {}
      <4>1. v # a /\ action'[v] = "frozen"  BY <1>0, <2>1, <3>1 DEF Secure, RecoveryDone
      <4>2. \A s \in Spare : v \in synced'[s] <=> v \in synced[s]
        BY <2>1, <4>1 DEF RecoveryDone
      <4> QED  BY <2>1, <3>1, <4>1, <4>2 DEF Secure, RecoveryDone, Rebuilding
    <3> QED  BY <1>0, <1>1, <1>3, <2>1, <3>1 DEF DriverStep, RecoveryDone, Activating, Awaited
  <2>2. ASSUME NEW n \in Native, NEW s \in Spare, NativeTakes(n, s) PROVE FreezeInv'
    <3>1. ASSUME NEW c \in Container, NEW v \in VolumesOf[c], Secure(v)
          PROVE  action'[v] = "frozen" /\ Rebuilding(v)' = {}
      <4>1. v # n  BY Groups
      <4>2. action'[v] = "frozen"  BY <1>0, <2>2, <3>1, <4>1 DEF Secure, NativeTakes
      <4>3. \A t \in Spare : v \in slots'[t] => v \in slots[t]
        BY <2>2, <4>1 DEF NativeTakes, Types, TypeOK, BaseTypeOK
      <4> QED  BY <2>2, <3>1, <4>2, <4>3 DEF Secure, NativeTakes, Rebuilding
    <3> QED
      BY <1>0, <1>1, <1>3, <2>2, <3>1 DEF DriverStep, NativeTakes, mdmon, Activating, Awaited
  <2> QED  BY <1>3, <2>1, <2>2 DEF DriverStep, Driver
<1>4. CASE DiskFails
  BY <1>2, <1>4 DEF DiskFails, Fail, Awaited
<1>5. ASSUME NEW c \in Container, MdmonStep(c) PROVE FreezeInv'
  <2> USE <1>5 DEF MdmonStep
  <2>0. mgr \in [Container -> MgrState] /\ ping \in [Container -> SUBSET (Mdadm \X {"monitor", "manager", "again"})]
        /\ \A d \in Container : mgr[d].at \in {"activating", "updating"} =>
             mgr[d].spare \in Spare /\ mgr[d].vol \in VolumesOf[d]
    BY DEF Types, TypeOK, BaseTypeOK, Busy
  <2>1. CASE Record(c) \/ ApplyUpdate(c) \/ ManageContainer(c)
    BY <1>2, <2>1 DEF Record, ApplyUpdate, ManageContainer, driver, Awaited
  \* The manager has nothing in hand afterwards, and no array was touched.
  <2>2. ASSUME UNCHANGED <<version, action, slots, synced>>, 
               \A d \in Container \ {c} : mgr'[d] = mgr[d],
               mgr'[c].at \in {"asleep", "pass"},
               \A d \in Container : Awaited(d) => Awaited(d)' \/ mgr'[d].at = "asleep"
        PROVE FreezeInv'
    BY <1>1, <2>2 DEF Secure, Activating, Rebuilding
  <2>3. CASE Wake(c)
    <3>1. mgr'[c].at = "pass" /\ \A d \in Container \ {c} : mgr'[d] = mgr[d]
      BY <2>0, <2>3 DEF Wake, MgrState
    <3> QED  BY <2>2, <2>3, <3>1 DEF Wake, driver, Awaited
  <2>4. CASE GoToSleep(c)
    <3>1. mgr'[c].at = "asleep" /\ \A d \in Container \ {c} : mgr'[d] = mgr[d]
      BY <2>0, <2>4 DEF GoToSleep, Asleep
    <3> QED  BY <2>2, <2>4, <3>1 DEF GoToSleep, driver, Awaited
  <2>5. ASSUME NEW p \in ping[c], Answer(c, p) PROVE FreezeInv'
    <3>1. CASE p[2] = "manager"
      <4>1. p # <<"grow", "monitor">> /\ UNCHANGED mgr /\ mgr[c].at = "pass"
        BY <2>5, <3>1 DEF Answer
      <4>2. \A d \in Container : Awaited(d) => Awaited(d)'
        BY <2>0, <2>5, <3>1, <4>1 DEF Answer, Awaited
      <4> QED  BY <1>2, <2>5, <4>1, <4>2 DEF Answer, driver
    <3>2. CASE p[2] # "manager"
      <4>1. mgr'[c].at = "asleep" /\ \A d \in Container \ {c} : mgr'[d] = mgr[d]
        BY <2>0, <2>5, <3>2 DEF Answer, Asleep
      <4>2. \A d \in Container \ {c} : ping'[d] = ping[d]  BY <2>0, <2>5, <3>2 DEF Answer
      <4> QED  BY <2>2, <2>5, <4>1, <4>2 DEF Answer, driver, Awaited
    <3> QED  BY <3>1, <3>2
  <2>6. ASSUME NEW w \in VolumesOf[c], LookAt(c, w) PROVE FreezeInv'
    <3> USE <2>6 DEF LookAt
    <3>1. UNCHANGED <<version, action, slots, synced, ping>>  BY DEF driver
    <3>2. \/ UNCHANGED mgr
          \/ /\ version[w] # "blocked"
             /\ mgr'[c].vol = w /\ \A d \in Container \ {c} : mgr'[d] = mgr[d]
      BY <2>0
    <3>3. ASSUME NEW d \in Container, NEW v \in VolumesOf[d], version[v] = "blocked", ~Activating(d, v)
          PROVE  ~Activating(d, v)'
      <4>1. CASE UNCHANGED mgr  BY <3>3, <4>1 DEF Activating
      <4> QED  BY <3>2, <3>3, <4>1 DEF Activating
    <3> QED  BY <1>1, <3>1, <3>3 DEF Secure, Rebuilding, Awaited
  \* The volume that the manager is busy with is none that is secure.
  <2>7. ASSUME NEW d \in Container, NEW v \in VolumesOf[d], Secure(v), d = grow.cont,
               mgr[c].at \in {"activating", "updating"}
        PROVE  v # mgr[c].vol
    <3>1. CASE c = d  BY <2>7, <3>1 DEF Secure, Activating
    <3>2. CASE c # d  BY <2>0, <2>7, <3>2, ContainerAssumption
    <3> QED  BY <3>1, <3>2
  <2>8. CASE Activate(c)
    <3> USE <2>8 DEF Activate
    <3>1. ASSUME NEW d \in Container, NEW v \in VolumesOf[d], Secure(v), d = grow.cont
          PROVE  action'[v] = "frozen" /\ Rebuilding(v)' = {}
      <4>1. v # mgr[c].vol  BY <2>7, <3>1
      <4>2. \A s \in Spare : v \in slots'[s] => v \in slots[s]
        BY <4>1 DEF Types, TypeOK, BaseTypeOK
      <4> QED  BY <1>0, <3>1, <4>1, <4>2 DEF Secure, Rebuilding
    <3>2. \A d \in Container : \A v \in VolumesOf[d] : ~Activating(d, v) => ~Activating(d, v)'
      BY <2>0 DEF Activating, MgrState
    <3> QED  BY <1>1, <3>1, <3>2 DEF Awaited
  <2>9. CASE StartRecovery(c)
    <3> USE <2>9 DEF StartRecovery
    <3>1. ASSUME NEW d \in Container, NEW v \in VolumesOf[d], Secure(v), d = grow.cont
          PROVE  action'[v] = "frozen" /\ Rebuilding(v)' = {}
      <4>1. v # mgr[c].vol  BY <2>7, <3>1
      <4> QED  BY <1>0, <3>1, <4>1 DEF Secure, Rebuilding
    <3>2. mgr'[c].at = "pass" /\ \A d \in Container \ {c} : mgr'[d] = mgr[d]
      BY <2>0 DEF MgrState, Asleep
    <3> QED  BY <1>1, <3>1, <3>2 DEF Awaited, Activating
  <2> QED  BY <2>1, <2>3, <2>4, <2>5, <2>6, <2>8, <2>9 DEF Mdmon, MonitorThread, Manager
<1>6. CASE GrowStarts
  <2>1. PICK c \in Container : OpenContainer(c)  BY <1>6 DEF GrowStarts
  <2> QED  BY <2>1 DEF OpenContainer, driver, FreezeInv
<1>7. CASE GrowGoesOn
  <2> USE DEF GrowTo
  <2>0. UNCHANGED <<slots, synced, mgr>>
    BY <1>7
    DEF GrowGoesOn, GrowStep, CheckIdle, Block, Verify, Frozen, Unfreeze, PingThawed, Thawed,
                FreezeArray, Unblock, driver, mdmon
  <2>1. ASSUME grow'.at \in {"thaw", "thawed", "over"} PROVE FreezeInv'
    BY <2>1 DEF FreezeInv
  <2>2. ASSUME NEW v \in VolumesOf[grow.cont], grow.at \notin {"none", "over"}, grow'.cont = grow.cont,
               Secure(v), action'[v] = "frozen", version'[v] = "blocked"
        PROVE  Secure(v)'
    BY <2>0, <2>2 DEF Secure, Activating, Rebuilding
  <2>3. CASE CheckIdle
    <3>1. CASE Leave  BY <2>1, <3>1 DEF Leave
    <3>2. CASE /\ grow' = [grow EXCEPT !.at = "freeze", !.vol = NoVolume]
               /\ left' = Members(grow.cont) /\ UNCHANGED frozen
      <4>1. grow'.at = "freeze" /\ grow'.cont = grow.cont  BY <1>0, <3>2 DEF GrowState
      <4>2. Members(grow.cont) = VolumesOf[grow.cont] /\ frozen = {}
        BY <1>0, <2>3 DEF CheckIdle, FreezeInv, Members
      <4> QED  BY <3>2, <4>1, <4>2 DEF FreezeInv
    <3> QED  BY <2>3, <3>1, <3>2 DEF CheckIdle
  <2>4. ASSUME NEW v \in Volume, FreezeArray(v) PROVE FreezeInv'
    <3> USE <2>4 DEF FreezeArray
    <3>1. CASE action[v] = "frozen"
      BY <1>0, <2>1, <3>1 DEF GiveUp, GrowState
    <3>2. CASE action[v] # "frozen"
      <4>1. grow' = [grow EXCEPT !.at = "block", !.vol = v]  BY <3>2
      <4>2. grow'.at = "block" /\ grow'.cont = grow.cont /\ grow'.vol = v
        BY <1>0, <4>1 DEF GrowState
      <4>3. \A u \in frozen : action'[u] = "frozen" /\ version'[u] = "blocked"
        BY <1>0, <3>2 DEF FreezeInv, Secure
      <4>4. \A u \in frozen : Secure(u)'  BY <1>0, <2>2, <4>2, <4>3 DEF FreezeInv
      <4> QED  BY <3>2, <4>2, <4>4 DEF FreezeInv
    <3> QED  BY <3>1, <3>2
  <2>5. CASE Block
    <3> USE <2>5 DEF Block
    <3>1. grow'.at = "verify" /\ grow'.cont = grow.cont /\ grow'.vol = grow.vol
      BY <1>0 DEF GrowState
    <3>2. version'[grow.vol] = "blocked" /\ \A u \in frozen : action'[u] = "frozen" /\ version'[u] = "blocked"
      BY <1>0 DEF FreezeInv, Secure
    <3>3. \A u \in frozen : Secure(u)'  BY <1>0, <2>2, <3>1, <3>2 DEF FreezeInv
    <3>4. Awaited(grow.cont)'
      BY <1>0 DEF Awaited, Types, TypeOK, BaseTypeOK
    <3> QED  BY <3>1, <3>2, <3>3, <3>4 DEF FreezeInv
  <2>6. CASE Verify
    <3> USE <2>6 DEF Verify
    <3>1. CASE grow' = [grow EXCEPT !.at = "thaw", !.vol = NoVolume]
      BY <1>0, <2>1, <3>1 DEF GrowState
    <3>2. CASE /\ action[grow.vol] = "frozen" /\ Rebuilding(grow.vol) = {}
               /\ frozen' = frozen \cup {grow.vol} /\ UNCHANGED <<version, action, left>>
               /\ grow' = [grow EXCEPT !.at = "freeze", !.vol = NoVolume]
      <4>1. grow'.at = "freeze" /\ grow'.cont = grow.cont  BY <1>0, <3>2 DEF GrowState
      <4>2. ~Awaited(grow.cont)
        <5>1. <<"grow", "monitor">> \in {"grow"} \X {"monitor"}  OBVIOUS
        <5> QED  BY <5>1 DEF Awaited
      <4>3. Secure(grow.vol)  BY <3>2, <4>2 DEF FreezeInv, Secure
      <4>4. \A u \in frozen' : Secure(u)'
        BY <1>0, <2>2, <3>2, <4>1, <4>3 DEF FreezeInv, Secure
      <4> QED  BY <3>2, <4>1, <4>4 DEF FreezeInv
    <3> QED  BY <3>1, <3>2 DEF GiveUp
  <2>7. CASE Frozen
    <3>1. grow'.at = "held" /\ grow'.cont = grow.cont  BY <1>0, <2>7 DEF Frozen, GrowState
    <3>2. \A v \in VolumesOf[grow.cont] : Secure(v)  BY <2>7 DEF Frozen, FreezeInv
    <3>3. \A v \in VolumesOf[grow.cont] : Secure(v)'
      BY <2>2, <2>7, <3>1, <3>2 DEF Frozen, driver, Secure
    <3> QED  BY <3>1, <3>3 DEF FreezeInv
  <2>8. CASE Unfreeze \/ PingThawed
    BY <1>0, <2>1, <2>8 DEF Unfreeze, PingThawed, GrowState
  <2>10. CASE Thawed
    BY <2>1, <2>10 DEF Thawed, Leave
  <2>9. ASSUME NEW v \in Volume, Unblock(v) PROVE FreezeInv'
    BY <2>1, <2>9 DEF Unblock
  <2> QED  BY <1>7, <2>3, <2>4, <2>5, <2>6, <2>7, <2>8, <2>9, <2>10 DEF GrowGoesOn, GrowStep
<1>8. CASE MonGoesOn
  <2>1. UNCHANGED <<growVars, version, action, slots, synced, mgr>>
    BY <1>8 DEF MonGoesOn, MonStep, NextTurn, JobOver, CheckArray, LookAfter, TryDonor,
        OpenDonor, CheckHolder,
                HotRemove, Removed, Add, CannotAdd, Added, Told, Moved, driver, mdmon
  <2>2. ASSUME NEW g, NEW k \in {"monitor", "manager"}, ping' = Pinging(g, k)
        PROVE  \A c \in Container : Awaited(c) => Awaited(c)'
    <3>1. BaseTypeOK /\ k \in {"monitor", "manager", "again"}  BY DEF Types, TypeOK
    <3>2. \A c \in Container : Pinging(g, k)[c] = IF c = g THEN ping[c] \cup {<<"monitor", k>>} ELSE ping[c]
      BY <3>1, Pings
    <3> QED  BY <2>2, <3>2 DEF Awaited
  <2>3. \A c \in Container : Awaited(c) => Awaited(c)'
    <3>1. CASE UNCHANGED ping  BY <3>1 DEF Awaited
    <3>2. CASE HotRemove  BY <2>2, <3>1, <3>2 DEF HotRemove
    <3>3. CASE Add  BY <2>2, <3>3 DEF Add
    <3>4. CASE Added  BY <2>2, <3>1, <3>4 DEF Added
    <3>5. CASE Told  BY <2>2, <3>5 DEF Told
    <3> QED
      BY <1>8, <3>1, <3>2, <3>3, <3>4, <3>5
      DEF MonGoesOn, MonStep, NextTurn, JobOver, CheckArray, LookAfter, TryDonor, OpenDonor,
          CheckHolder,
          Removed, CannotAdd, Moved
  <2> QED  BY <1>2, <2>1, <2>3
<1>9. CASE UNCHANGED vars
  BY <1>2, <1>9 DEF vars, baseVars, driver, mdmon, Awaited
<1> QED  BY <1>3, <1>4, <1>5, <1>6, <1>7, <1>8, <1>9 DEF Next

\* No volume of a container that mdadm --grow has frozen is being rebuilt, whatever mdmon,
\* mdadm --monitor and the disks do.
THEOREM FrozenStaysQuiet == Spec => []FrozenIsQuiet
<1>1. Init => Types /\ FreezeInv
  <2>1. Init => FreezeInv
    BY DEF Init, BaseInit, GrowInit, FreezeInv
  <2> QED  BY <2>1, InitTypes
<1>2. Types /\ FreezeInv => FrozenIsQuiet  BY DEF FreezeInv, FrozenIsQuiet, Secure
<1> QED  BY <1>1, <1>2, Typing, FreezeKept, PTL DEF Spec

-----------------------------------------------------------------------------
(* The owner of a spare.                                                   *)

\* mdadm --monitor is at one of places with a spare of c, or with one for c.
From(c, places) == mon \in places /\ job.from = c
To(c, places)   == mon \in places /\ job.to = c

\* Manage_subdevs has c open.
Held(c) == From(c, {"check", "remove", "removed", "backing"}) \/ To(c, {"adding"})

\* holder says what the two mdadm processes have open.
Holding ==
    /\ grow.at \notin {"none", "over"} => holder[grow.cont] = "grow"
    /\ grow.at \in {"none", "over"} => grow.cont = Nowhere
    /\ \A c \in Container : holder[c] = "grow" => grow.cont = c
    /\ \A c \in Container : holder[c] = "monitor" <=> Held(c)

\* The O_EXCL open of a container: open_dev_excl lets one in, and each lets go of what it
\* took, on every way out of Grow_reshape and of move_spare.
LEMMA HoldingKept == Types /\ Holding /\ [Next]_vars => Holding'
<1> SUFFICES ASSUME Types, Holding, [Next]_vars PROVE Holding'  OBVIOUS
<1>0. /\ grow \in GrowState /\ holder \in [Container -> Mdadm \cup {Nowhere}] /\ job \in JobState
      /\ Nowhere \notin Group \cup Mdadm /\ Container \subseteq Group
      /\ grow.at \notin {"none", "over"} => grow.cont \in Container
      /\ job.to \in Group \cup {Nowhere} /\ job.from \in Group \cup {Nowhere}
  BY ScenarioAssumption
  DEF Types, TypeOK, BaseTypeOK, GrowTypeOK, MonTypeOK, Busy, Group, JobState
<1>1. ASSUME UNCHANGED <<holder, grow, mon, job>> PROVE Holding'
  BY <1>1 DEF Holding, Held, From, To
<1>2. CASE DriverStep
  BY <1>1, <1>2 DEF DriverStep, Driver, RecoveryDone, NativeTakes, growVars, monVars
<1>3. CASE DiskFails
  BY <1>1, <1>3 DEF DiskFails, Fail, growVars, monVars
<1>4. ASSUME NEW c \in Container, MdmonStep(c) PROVE Holding'
  <2>1. UNCHANGED holder
    BY <1>4
    DEF MdmonStep, Mdmon, MonitorThread, Manager, Record, ApplyUpdate, Wake, ManageContainer,
                Activate, StartRecovery, GoToSleep, LookAt, Answer
  <2> QED  BY <1>1, <1>4, <2>1 DEF MdmonStep, growVars, monVars
<1>5. CASE GrowStarts
  <2>1. PICK c \in Container : OpenContainer(c) /\ UNCHANGED monVars  BY <1>5 DEF GrowStarts
  <2> QED  BY <1>0, <2>1 DEF OpenContainer, monVars, Holding, Held, From, To, Mdadm
<1>6. CASE GrowGoesOn
  <2> USE <1>6 DEF GrowGoesOn
  <2>1. ASSUME UNCHANGED holder, grow'.cont = grow.cont, grow'.at \in GrowPlace \ {"none", "over"},
               grow.at \notin {"none", "over"}
        PROVE  Holding'
    BY <2>1 DEF monVars, Holding, Held, From, To
  <2>2. CASE Leave /\ grow.at \notin {"none", "over"}
    BY <1>0, <2>2 DEF Leave, monVars, Holding, Held, From, To, Mdadm
  <2>3. CASE CheckIdle
    <3>1. CASE GrowTo("freeze") /\ UNCHANGED holder
      BY <1>0, <2>1, <2>3, <3>1 DEF CheckIdle, GrowTo, GrowState, GrowPlace
    <3> QED  BY <2>2, <2>3, <3>1 DEF CheckIdle
  <2>4. CASE Thawed
    BY <2>2, <2>4 DEF Thawed
  <2>5. CASE Block
    BY <1>0, <2>1, <2>5 DEF Block, GrowState, GrowPlace
  <2>6. CASE Verify
    <3>1. GrowTo("thaw") \/ GrowTo("freeze")  BY <2>6 DEF Verify, GiveUp
    <3>2. UNCHANGED holder /\ grow.at = "verify"  BY <2>6 DEF Verify
    <3> QED  BY <1>0, <2>1, <3>1, <3>2 DEF GrowTo, GrowState, GrowPlace
  <2>7. CASE Frozen \/ Unfreeze \/ PingThawed
    BY <1>0, <2>1, <2>7 DEF Frozen, Unfreeze, PingThawed, GrowTo, GrowState, GrowPlace
  <2>8. ASSUME NEW v \in Volume, FreezeArray(v) PROVE Holding'
    BY <1>0, <2>1, <2>8 DEF FreezeArray, GiveUp, GrowTo, GrowState, GrowPlace
  <2>9. ASSUME NEW v \in Volume, Unblock(v) PROVE Holding'
    BY <1>0, <2>1, <2>9 DEF Unblock, GrowPlace
  <2> QED  BY <2>3, <2>4, <2>5, <2>6, <2>7, <2>8, <2>9 DEF GrowStep
<1>7. CASE MonGoesOn
  <2> USE <1>7 DEF MonGoesOn
  <2>1. ASSUME UNCHANGED holder, \A c \in Container : Held(c)' = Held(c)
        PROVE  Holding'
    BY <2>1 DEF growVars, Holding
  <2>2. CASE NextTurn \/ JobOver \/ Told \/ Moved
    BY <2>1, <2>2 DEF NextTurn, JobOver, Told, Moved, Held, From, To
  <2>3. ASSUME NEW a \in Array, CheckArray(a) \/ LookAfter(a) PROVE Holding'
    BY <2>1, <2>3 DEF CheckArray, LookAfter, Held, From, To
  <2>4. ASSUME NEW from \in Group, TryDonor(from) PROVE Holding'
    BY <2>1, <2>4 DEF TryDonor, Held, From, To
  <2>5. ASSUME NEW S \in SUBSET Container, \A c \in S : holder[c] # "grow",
               \A c \in Container : Held(c)' <=> c \in S,
               \A c \in Container : holder'[c] = IF c \in S THEN "monitor"
                                                 ELSE IF Held(c) THEN Nowhere ELSE holder[c]
        PROVE  Holding'
    <3>1. UNCHANGED grow  BY DEF growVars
    <3>2. Nowhere # "grow" /\ Nowhere # "monitor"  BY <1>0 DEF Mdadm
    <3>3. \A c \in Container : holder'[c] = "grow" <=> holder[c] = "grow"
      BY <2>5, <3>2 DEF Holding
    <3>4. \A c \in Container : holder'[c] = "monitor" <=> c \in S
      BY <2>5, <3>2 DEF Holding
    <3> QED  BY <1>0, <2>5, <3>1, <3>3, <3>4 DEF Holding
  <2>6. CASE OpenDonor
    <3> USE <2>6 DEF OpenDonor, Held, From, To
    <3>0. \A c \in Container : ~Held(c)  OBVIOUS
    <3>1. CASE job.from \in Native
      <4>1. \A c \in Container : c # job.from  BY <3>1, Groups
      <4> QED  BY <2>1, <3>0, <3>1, <4>1
    <3>2. CASE job.from \notin Native /\ holder[job.from] = Nowhere
      <4>1. \A c \in Container : holder'[c] = IF c = job.from THEN "monitor" ELSE holder[c]
        BY <1>0, <3>2
      <4>2. \A c \in Container : Held(c)' <=> c \in {job.from} \cap Container  BY <3>2
      <4>3. \A c \in {job.from} \cap Container : holder[c] # "grow"  BY <1>0, <3>2 DEF Mdadm
      <4>4. {job.from} \cap Container \in SUBSET Container  OBVIOUS
      <4>5. \A c \in Container : holder'[c] = IF c \in {job.from} \cap Container THEN "monitor"
                                              ELSE IF Held(c) THEN Nowhere ELSE holder[c]
        BY <3>0, <4>1
      <4> QED  BY <2>5, <4>2, <4>3, <4>4, <4>5
    <3>3. CASE job.from \notin Native /\ holder[job.from] # Nowhere
      BY <2>1, <3>0, <3>3 DEF NextDonor
    <3> QED  BY <3>1, <3>2, <3>3
  <2>50. ASSUME \A c \in Container : ~Held(c)',
                \A c \in Container : holder'[c] = IF Held(c) THEN Nowhere ELSE holder[c]
         PROVE  Holding'
    <3> DEFINE S == {}
    <3>1. S \in SUBSET Container /\ \A c \in S : holder[c] # "grow"  OBVIOUS
    <3>2. \A c \in Container : Held(c)' <=> c \in S  BY <2>50
    <3>3. \A c \in Container : holder'[c] = IF c \in S THEN "monitor"
                                            ELSE IF Held(c) THEN Nowhere ELSE holder[c]
      BY <2>50
    <3> HIDE DEF S
    <3> QED  BY <2>5, <3>1, <3>2, <3>3
  <2>7. CASE CheckHolder
    <3> USE <2>7 DEF CheckHolder, Held, From, To
    <3>1. CASE mon' = "remove" /\ UNCHANGED <<holder, job>>  BY <2>1, <3>1
    <3>2. CASE NextDonor /\ holder' = [holder EXCEPT ![job.from] = Nowhere]
      <4>1. \A c \in Container : holder'[c] = IF c = job.from THEN Nowhere ELSE holder[c]
        BY <1>0, <3>2
      <4> QED  BY <2>50, <3>2, <4>1 DEF NextDonor
    <3> QED  BY <3>1, <3>2
  <2>8. CASE HotRemove
    <3> USE <2>8 DEF HotRemove, Held, From, To
    <3>1. CASE mon' = "removed" /\ UNCHANGED <<holder, job>>  BY <2>1, <3>1
    <3>2. CASE NextDonor /\ holder' = [c \in Container |-> IF c = job.from THEN Nowhere ELSE holder[c]]
      BY <2>50, <3>2 DEF NextDonor
    <3> QED  BY <3>1, <3>2
  <2>9. CASE Removed
    BY <2>9, <2>50 DEF Removed, Held, From, To
  <2>10. CASE Add
    <3> DEFINE S == {Target} \cap Container
    <3> USE <2>10 DEF Add, CanAdd
    <3>1. \A c \in Container : Held(c)' <=> c \in S
      <4>1. CASE mon = "add"  BY <4>1 DEF Target, Held, From, To
      <4>2. CASE mon = "back"  BY <4>2 DEF Target, Held, From, To
      <4> QED  BY <4>1, <4>2
    <3>2. \A c \in Container : ~Held(c)  BY DEF Held, From, To
    <3>3. \A c \in S : holder[c] # "grow"  BY <1>0 DEF Mdadm
    <3>4. \A c \in Container : holder'[c] = IF c \in S THEN "monitor" ELSE holder[c]  OBVIOUS
    <3> HIDE <2>10 DEF S
    <3>5. S \in SUBSET Container  BY DEF S
    <3> QED  BY <2>5, <3>1, <3>2, <3>3, <3>4, <3>5
  <2>11. CASE CannotAdd
    BY <2>1, <2>11 DEF CannotAdd, NextDonor, Held, From, To
  <2>12. CASE Added
    <3> USE <2>12 DEF Added, Held, From, To
    <3>1. CASE mon = "adding"  BY <2>50, <3>1
    <3>2. CASE mon = "backing"  BY <2>50, <3>2 DEF NextDonor
    <3> QED  BY <3>1, <3>2
  <2> QED  BY <2>2, <2>3, <2>4, <2>6, <2>7, <2>8, <2>9, <2>10, <2>11, <2>12 DEF MonStep
<1>8. CASE UNCHANGED vars  BY <1>1, <1>8 DEF vars, baseVars, growVars, monVars
<1> QED  BY <1>2, <1>3, <1>4, <1>5, <1>6, <1>7, <1>8 DEF Next

-----------------------------------------------------------------------------
\* No mdmon begins to use a spare that is being taken away.
Calm == "contest" \notin Happens

\* The spare is in no group; it leaves c; c has still an answer to give.
InHand     == mon \in {"removed", "add", "back"}
Leaving(c) == mon \in {"remove", "removed"} /\ job.from = c
Asked(c, k) == <<"monitor", k>> \in ping[c]

\* mdadm --monitor knows what it moves.
JobInv ==
    /\ mon \notin {"read", "link", "donor"} =>
           job.from \in Group /\ job.to \in Group /\ job.from # job.to /\ job.spare \in Spare
    /\ mon = "donor" => job.to \in Group
    /\ mon = "check" => job.from \in Container
    /\ mon = "back" => grow.at # "none" /\ (job.from \in Container => holder[job.from] = Nowhere)

\* It waits only where it says so.
WaitInv ==
    \A c \in Container :
        /\ (\E k \in {"monitor", "manager", "again"} : Asked(c, k)) =>
               From(c, {"removed", "backing", "moved"}) \/ To(c, {"adding", "told"})
        /\ From(c, {"removed"}) => ~Asked(c, "monitor")

\* What mdmon of c knows of its spares: what it does not it will see, on its way through
\* /proc/mdstat or on the next, and what its metadata has given a slot is in use.
Noticed(c) ==
    /\ todo[c] # {} => mgr[c].at # "asleep"
    /\ known[c] = DevicesOf(c) \/ c \in awake \/ c \in todo[c]
    /\ known[c] \subseteq DevicesOf(c) \cup (IF From(c, {"removed"}) THEN {job.spare} ELSE {})
    /\ c \notin queued => known[c] \subseteq listed[c] /\ listed[c] \subseteq known[c] \cup assigned[c]
    /\ \A s \in assigned[c] : place[s] = c /\ slots[s] # {}
    /\ \A s \in listed[c] : place[s] = c \/ (From(c, {"removed"}) /\ job.spare = s)
    /\ mgr[c].at \in {"activating", "updating"} => place[mgr[c].spare] = c
    /\ mgr[c].at = "updating" => slots[mgr[c].spare] # {}

\* While a spare leaves c, its mdmon needs none.
Calmed(c) ==
    Leaving(c) =>
        /\ DevicesOf(c) \subseteq known[c] /\ known[c] \subseteq listed[c]
        /\ mgr[c].at \in {"asleep", "pass"} /\ recorded[c] = work[c]
        /\ wants \cap VolumesOf[c] = {}
        /\ \A v \in VolumesOf[c] :
               action[v] = "recover" => InSync(v) + Cardinality(Rebuilding(v)) >= RaidDisks

\* When ping_manager is answered mdmon has seen that the spare is gone, and has taken it
\* out of the metadata.
LetGo(c) ==
    From(c, {"removed"}) =>
        \/ Asked(c, "manager")
        \/ Asked(c, "again") /\ c \in todo[c]
        \/ known[c] = DevicesOf(c) /\ (Asked(c, "again") \/ job.spare \notin listed[c])

\* Where the spares are, and what is in use is in its group.
SpareInv ==
    /\ \A s \in Spare : \A a \in slots[s] : place[s] = GroupOf(a)
    /\ \A s \in Spare : place[s] = Nowhere => job.spare = s /\ InHand
    /\ InHand => place[job.spare] = Nowhere /\ slots[job.spare] = {}
    /\ mon = "remove" /\ job.from \in Container =>
           place[job.spare] = job.from /\ slots[job.spare] = {}

OwnerInv == /\ JobInv /\ WaitInv /\ SpareInv
            /\ \A c \in Container : Noticed(c) /\ Calmed(c) /\ LetGo(c)

\* What a ping waits for.
Kind == {"monitor", "manager", "again"}

\* What sysfs says of an array that a step does not touch.
LEMMA NumbersKept ==
  ASSUME NEW v, work'[GroupOf(v)] = work[GroupOf(v)],
         \A s \in Spare : (v \in synced'[s] <=> v \in synced[s]) /\ (v \in slots'[s] <=> v \in slots[s])
  PROVE  InSync(v)' = InSync(v) /\ Rebuilding(v)' = Rebuilding(v)
<1>1. {s \in Spare : v \in synced'[s]} = {s \in Spare : v \in synced[s]}  OBVIOUS
<1>2. {s \in Spare : v \in (slots'[s] \ synced'[s])} = {s \in Spare : v \in (slots[s] \ synced[s])}  OBVIOUS
<1> QED  BY <1>1, <1>2 DEF InSync, Rebuilding

\* A step that leaves the mdmon of c alone.
LEMMA NoticedKept ==
  ASSUME NEW c \in Container, Types, Noticed(c), LetGo(c), UNCHANGED <<mon, job, place>>,
         known'[c] = known[c], listed'[c] = listed[c], assigned'[c] = assigned[c],
         mgr'[c] = mgr[c], todo'[c] = todo[c], c \in queued' <=> c \in queued,
         c \in awake => c \in awake', \A k \in Kind : Asked(c, k)' <=> Asked(c, k),
         \A s \in Spare : slots[s] # {} => slots'[s] # {}
  PROVE  Noticed(c)' /\ LetGo(c)'
<1>1. DevicesOf(c)' = DevicesOf(c)  BY DEF DevicesOf
<1>2. assigned[c] \subseteq Spare /\ (mgr[c].at = "updating" => mgr[c].spare \in Spare)
  BY DEF Types, TypeOK, BaseTypeOK, Busy
<1>3. Noticed(c)'  BY <1>1, <1>2 DEF Noticed, From
<1>4. LetGo(c)'  BY <1>1 DEF LetGo, From, Kind
<1> QED  BY <1>3, <1>4

\* A step that gives the mdmon of c nothing to do.
LEMMA CalmedKept ==
  ASSUME NEW c \in Container, Calmed(c), UNCHANGED <<mon, job, place>>,
         known'[c] = known[c], listed'[c] = listed[c], mgr'[c] = mgr[c],
         Leaving(c) => /\ recorded'[c] = recorded[c] /\ work'[c] = work[c]
                       /\ wants' \cap VolumesOf[c] \subseteq wants,
         Leaving(c) => \A v \in VolumesOf[c] : action'[v] = "recover" =>
             /\ action[v] = "recover" /\ work'[c] = work[c]
             /\ \A s \in Spare : (v \in synced'[s] <=> v \in synced[s]) /\ (v \in slots'[s] <=> v \in slots[s])
  PROVE  Calmed(c)'
<1> SUFFICES ASSUME Leaving(c) PROVE Calmed(c)'  BY DEF Calmed, Leaving
<1>1. DevicesOf(c)' = DevicesOf(c)  BY DEF DevicesOf
<1>2. ASSUME NEW v \in VolumesOf[c], action'[v] = "recover"
      PROVE  InSync(v)' + Cardinality(Rebuilding(v)') >= RaidDisks
  <2>1. GroupOf(v) = c  BY Groups
  <2>2. InSync(v)' = InSync(v) /\ Rebuilding(v)' = Rebuilding(v)  BY <1>2, <2>1, NumbersKept
  <2> QED  BY <1>2, <2>2 DEF Calmed
<1>3. InSync(c) = InSync(c)  OBVIOUS
<1> QED  BY <1>1, <1>2 DEF Calmed

\* A step that only gives slots to spares, and not to the one that is moved.
LEMMA SpareKept ==
  ASSUME SpareInv, UNCHANGED <<mon, job, place>>,
         \A s \in Spare : slots'[s] # slots[s] =>
             /\ ~InHand \/ s # job.spare
             /\ mon # "remove" \/ job.from \notin Container \/ s # job.spare
             /\ \A a \in slots'[s] : place[s] = GroupOf(a),
         InHand \/ (mon = "remove" /\ job.from \in Container) => job.spare \in Spare
  PROVE  SpareInv'
<1>1. \A s \in Spare : \A a \in slots'[s] : place[s] = GroupOf(a)  BY DEF SpareInv
<1>2. InHand' = InHand  BY DEF InHand
<1>3. InHand => slots'[job.spare] = {}  BY DEF SpareInv
<1>4. mon = "remove" /\ job.from \in Container => slots'[job.spare] = {}  BY DEF SpareInv
<1> QED  BY <1>1, <1>2, <1>3, <1>4 DEF SpareInv

\* A step that asks no answer for mdadm --monitor, and gives it none.
LEMMA WaitKept ==
  ASSUME WaitInv, UNCHANGED <<mon, job>>,
         \A c \in Container : (\A k \in Kind : Asked(c, k)' <=> Asked(c, k))
  PROVE  WaitInv'
BY DEF WaitInv, From, To, Kind

\* The driver.
LEMMA OwnerByDriver == Types /\ OwnerInv /\ DriverStep => OwnerInv'
<1> SUFFICES ASSUME Types, OwnerInv, DriverStep PROVE OwnerInv'  OBVIOUS
<1>0. UNCHANGED <<mon, job, grow>>  BY DEF DriverStep, growVars, monVars
<1>1. ASSUME UNCHANGED <<holder, ping, place, listed, known, assigned, queued, mgr, todo, recorded, work>>,
             awake \subseteq awake',
             \A s \in Spare : slots'[s] # slots[s] =>
                 slots[s] = {} /\ place[s] \in Native /\ \A a \in slots'[s] : place[s] = GroupOf(a),
             \A c \in Container : Leaving(c) =>
                 wants' \cap VolumesOf[c] \subseteq wants
                 /\ \A v \in VolumesOf[c] : action'[v] = "recover" =>
                        action[v] = "recover"
                        /\ \A s \in Spare : (v \in synced'[s] <=> v \in synced[s])
                                            /\ (v \in slots'[s] <=> v \in slots[s])
      PROVE  OwnerInv'
  <2>1. JobInv'  BY <1>0, <1>1 DEF OwnerInv, JobInv
  <2>2. WaitInv'  BY <1>0, <1>1, WaitKept DEF OwnerInv, Asked
  <2>3. SpareInv'
    <3>1. InHand \/ (mon = "remove" /\ job.from \in Container) => job.spare \in Spare /\ place[job.spare] \notin Native
      <4>1. Nowhere \notin Native  BY ScenarioAssumption DEF Group
      <4>2. \A c \in Container : c \notin Native  BY Groups
      <4> QED  BY <4>1, <4>2 DEF OwnerInv, JobInv, SpareInv, InHand
    <3>2. SpareInv  BY DEF OwnerInv
    <3>3. \A s \in Spare : slots'[s] # slots[s] =>
             /\ ~InHand \/ s # job.spare
             /\ mon # "remove" \/ job.from \notin Container \/ s # job.spare
             /\ \A a \in slots'[s] : place[s] = GroupOf(a)
      BY <1>1, <3>1
    <3> QED  BY <1>0, <1>1, <3>1, <3>2, <3>3, SpareKept
  <2>4. ASSUME NEW c \in Container PROVE Noticed(c)' /\ LetGo(c)'
    BY <1>0, <1>1, NoticedKept DEF OwnerInv, Asked
  <2>5. ASSUME NEW c \in Container PROVE Calmed(c)'
    BY <1>0, <1>1, CalmedKept DEF OwnerInv
  <2> QED  BY <2>1, <2>2, <2>3, <2>4, <2>5 DEF OwnerInv
<1>2. ASSUME NEW a \in Array, RecoveryDone(a) PROVE OwnerInv'
  <2> USE <1>2 DEF RecoveryDone
  <2>1. awake \subseteq awake'  BY DEF Stirred
  <2>2. ASSUME NEW c \in Container, Leaving(c), a \in VolumesOf[c]
        PROVE  ~(InSync(a) + Cardinality(Rebuilding(a)) < RaidDisks)
    <3>1. InSync(a) + Cardinality(Rebuilding(a)) >= RaidDisks  BY <2>2 DEF OwnerInv, Calmed
    <3>2. GroupOf(a) = c /\ c \in Group  BY <2>2, Groups DEF Group
    <3>3. InSync(a) \in Nat /\ Cardinality(Rebuilding(a)) \in Nat
      <4>1. work[c] \in Nat  BY <3>2, RaidDisksAssumption DEF Types, TypeOK, BaseTypeOK
      <4>2. Cardinality({s \in Spare : a \in synced[s]}) \in Nat  BY Counts
      <4>3. Cardinality(Rebuilding(a)) \in Nat  BY Counts DEF Rebuilding
      <4> QED  BY <3>2, <4>1, <4>2, <4>3 DEF InSync
    <3> QED  BY <3>1, <3>3, RaidDisksAssumption
  <2>3. ASSUME NEW c \in Container, Leaving(c) PROVE wants' \cap VolumesOf[c] \subseteq wants
    BY <2>2, <2>3
  <2>4. \A v : action'[v] = "recover" /\ v \in Array => v # a /\ action[v] = "recover"
    BY DEF Types, TypeOK, BaseTypeOK
  <2>5. \A c \in Container : VolumesOf[c] \subseteq Array  BY Groups DEF Array
  <2>6. \A v : v # a => \A s \in Spare : v \in synced'[s] <=> v \in synced[s]  OBVIOUS
  <2>7. UNCHANGED <<holder, ping, place, listed, known, assigned, queued, mgr, todo, recorded, work, slots>>
    BY DEF record
  <2> HIDE <1>2 DEF RecoveryDone
  <2> QED  BY <1>1, <2>1, <2>3, <2>4, <2>5, <2>6, <2>7
<1>3. ASSUME NEW n \in Native, NEW s \in Spare, NativeTakes(n, s) PROVE OwnerInv'
  <2> USE <1>3 DEF NativeTakes
  <2>1. \A t \in Spare : slots'[t] # slots[t] => slots[t] = {} /\ t = s /\ slots'[t] = {n}
    BY DEF Types, TypeOK, BaseTypeOK
  <2>2. GroupOf(n) = n  BY Groups
  <2>3. \A c \in Container : \A v \in VolumesOf[c] : v # n /\ v \in Array  BY Groups DEF Array
  <2>4. \A v : v # n => \A t \in Spare : v \in slots'[t] <=> v \in slots[t]  BY <2>1
  <2>5. \A v \in Array : v # n => action'[v] = action[v]  BY DEF Types, TypeOK, BaseTypeOK
  <2>6. UNCHANGED <<holder, ping, place, listed, known, assigned, queued, mgr, todo, recorded, work, synced, wants, awake>>
    BY DEF record, mdmon
  <2>7. place[s] = n  OBVIOUS
  <2> HIDE <1>3 DEF NativeTakes
  <2> QED  BY <1>1, <2>1, <2>2, <2>3, <2>4, <2>5, <2>6, <2>7
<1> QED  BY <1>2, <1>3 DEF DriverStep, Driver

\* A disk of another group than the one that the spare leaves.
LEMMA OwnerByFailure == Types /\ Calm /\ OwnerInv /\ DiskFails => OwnerInv'
<1> SUFFICES ASSUME Types, Calm, OwnerInv, DiskFails PROVE OwnerInv'  OBVIOUS
<1>1. PICK g \in Group : Fail(g) /\ ~Removing(g)  BY DEF DiskFails, Calm
<1>2. UNCHANGED <<mon, job, grow, holder, ping, place, listed, known, assigned, queued, mgr, todo,
                  recorded, wants, slots, synced, action>> /\ awake \subseteq awake'
  BY <1>1 DEF DiskFails, Fail, growVars, monVars, record, Stirred
<1>3. JobInv' /\ WaitInv'  BY <1>2, WaitKept DEF OwnerInv, Asked, JobInv
<1>4. SpareInv'  BY <1>2 DEF OwnerInv, SpareInv, InHand
<1>5. ASSUME NEW c \in Container PROVE Noticed(c)' /\ LetGo(c)'
  BY <1>2, NoticedKept DEF OwnerInv, Asked
<1>6. ASSUME NEW c \in Container PROVE Calmed(c)'
  <2>1. Leaving(c) => work'[c] = work[c]
    BY <1>1 DEF Fail, Removing, Leaving, Types, TypeOK, BaseTypeOK, Group
  <2> QED  BY <1>2, <2>1, CalmedKept DEF OwnerInv
<1> QED  BY <1>3, <1>4, <1>5, <1>6 DEF OwnerInv

\* mdadm --grow, which has another container open than the one that the spare leaves.
LEMMA OwnerByGrow == Types /\ Holding /\ OwnerInv /\ (GrowStarts \/ GrowGoesOn) => OwnerInv'
<1> SUFFICES ASSUME Types, Holding, OwnerInv, GrowStarts \/ GrowGoesOn PROVE OwnerInv'  OBVIOUS
<1> USE DEF GrowTo, GiveUp, Leave
<1>1. UNCHANGED <<mon, job, place, listed, known, assigned, queued, mgr, todo,
                  recorded, work, wants, slots, synced, awake>>
  <2>1. CASE GrowStarts
    BY <2>1 DEF GrowStarts, OpenContainer, monVars, driver, record, mdmon
  <2>2. CASE GrowGoesOn
    <3>1. UNCHANGED <<mon, job>>  BY <2>2 DEF GrowGoesOn, monVars
    <3>2. UNCHANGED <<place, work, slots, synced>>
      BY <2>2
      DEF GrowGoesOn, GrowStep, CheckIdle, Block, Verify, Frozen, Unfreeze, PingThawed, Thawed,
                FreezeArray, Unblock, driver
    <3>3. UNCHANGED <<record, mdmon>>
      BY <2>2
      DEF GrowGoesOn, GrowStep, CheckIdle, Block, Verify, Frozen, Unfreeze, PingThawed, Thawed,
                FreezeArray, Unblock
    <3> QED  BY <3>1, <3>2, <3>3 DEF record, mdmon
  <2> QED  BY <2>1, <2>2
\* What it writes to sync_action is of a volume of its own container.
<1>2. ASSUME NEW c \in Container, NEW v \in VolumesOf[c], action'[v] = "recover", action[v] # "recover"
      PROVE  holder[c] = "grow"
  <2>0. /\ v \in Volume /\ action \in [Array -> {"idle", "frozen", "recover"}] /\ Volume \subseteq Array
        /\ version \in [Volume -> {"own", "blocked", "none"}]
    BY Groups DEF Array, Types, TypeOK, BaseTypeOK
  <2>1. grow.at \notin {"none", "over"} /\ v \in VolumesOf[grow.cont]
    <3>1. CASE GrowStarts
      BY <1>2, <3>1 DEF GrowStarts, OpenContainer, driver
    <3>2. CASE CheckIdle \/ Block \/ Frozen \/ Unfreeze \/ PingThawed \/ Thawed
      BY <1>2, <3>2 DEF CheckIdle, Block, Frozen, Unfreeze, PingThawed, Thawed, driver
    <3>3. CASE Verify
      <4>1. v = grow.vol  BY <1>2, <2>0, <3>3 DEF Verify
      <4> QED  BY <3>3, <4>1 DEF Verify, Types, Busy
    <3>4. ASSUME NEW u \in Volume, FreezeArray(u) PROVE v \in VolumesOf[grow.cont] /\ FALSE
      BY <1>2, <2>0, <3>4 DEF FreezeArray
    <3>5. ASSUME NEW u \in Volume, Unblock(u)
          PROVE  grow.at \notin {"none", "over"} /\ v \in VolumesOf[grow.cont]
      <4>1. v = u  BY <1>2, <2>0, <3>5 DEF Unblock
      <4> QED  BY <3>5, <4>1 DEF Unblock, Types, Busy
    <3> QED  BY <3>1, <3>2, <3>3, <3>4, <3>5 DEF GrowGoesOn, GrowStep
  <2>2. c = grow.cont
    BY <2>1, ContainerAssumption DEF Types, Busy
  <2> QED  BY <2>1, <2>2 DEF Holding
<1>3. \A c \in Container : \A k \in Kind : Asked(c, k)' <=> Asked(c, k)
  <2>1. CASE UNCHANGED ping  BY <2>1 DEF Asked
  <2>2. CASE ping' = [ping EXCEPT ![grow.cont] = @ \cup {<<"grow", "monitor">>}]
    <3>1. \A k : <<"monitor", k>> # <<"grow", "monitor">>  OBVIOUS
    <3> QED  BY <2>2, <3>1 DEF Asked, Types, TypeOK, BaseTypeOK
  <2> QED
    BY <2>1, <2>2 DEF GrowStarts, OpenContainer, GrowGoesOn, GrowStep, CheckIdle, Block,
        Verify, Frozen, Unfreeze, PingThawed, Thawed,
                FreezeArray, Unblock
<1>4. WaitInv'  BY <1>1, <1>3, WaitKept DEF OwnerInv
<1>5. SpareInv'  BY <1>1 DEF OwnerInv, SpareInv, InHand
<1>6. ASSUME NEW c \in Container PROVE Noticed(c)' /\ LetGo(c)'
  BY <1>1, <1>3, NoticedKept DEF OwnerInv
<1>7. ASSUME NEW c \in Container PROVE Calmed(c)'
  <2>1. Leaving(c) => holder[c] # "grow"
    BY DEF Holding, Leaving, Held, From
  <2> QED  BY <1>1, <1>2, <2>1, CalmedKept DEF OwnerInv
<1>8. JobInv'
  <2>1. mon = "back" => grow'.at # "none" /\ (job.from \in Container => holder'[job.from] = Nowhere)
    <3> SUFFICES ASSUME mon = "back" PROVE grow'.at # "none" /\ (job.from \in Container => holder'[job.from] = Nowhere)
      OBVIOUS
    <3>0. grow.at # "none" /\ (job.from \in Container => holder[job.from] = Nowhere) /\ grow \in GrowState
          /\ holder \in [Container -> Mdadm \cup {Nowhere}]
      BY DEF OwnerInv, JobInv, Types, TypeOK, GrowTypeOK, BaseTypeOK
    <3>1. GrowGoesOn  BY <3>0 DEF GrowStarts, OpenContainer
    <3>2. UNCHANGED holder \/ holder' = [holder EXCEPT ![grow.cont] = Nowhere]
      BY <3>1
      DEF GrowGoesOn, GrowStep, CheckIdle, Block, Verify, Frozen, Unfreeze, PingThawed, Thawed,
                FreezeArray, Unblock
    <3>3. grow'.at # "none"
      <4>1. ASSUME NEW p \in GrowPlace \ {"none"}, grow' = [grow EXCEPT !.at = p,
                   !.vol = NoVolume]
            PROVE  grow'.at # "none"
        BY <3>0, <4>1 DEF GrowState
      <4>2. CASE CheckIdle
        <5>1. CASE grow' = [at |-> "over", cont |-> Nowhere, vol |-> NoVolume]  BY <5>1
        <5>2. CASE grow' = [grow EXCEPT !.at = "freeze", !.vol = NoVolume]
          BY <4>1, <5>2 DEF GrowPlace
        <5> QED  BY <4>2, <5>1, <5>2 DEF CheckIdle
      <4>6. CASE Verify
        <5>1. CASE grow' = [grow EXCEPT !.at = "thaw", !.vol = NoVolume]
          BY <4>1, <5>1 DEF GrowPlace
        <5>2. CASE grow' = [grow EXCEPT !.at = "freeze", !.vol = NoVolume]
          BY <4>1, <5>2 DEF GrowPlace
        <5> QED  BY <4>6, <5>1, <5>2 DEF Verify
      <4>7. CASE Frozen \/ Unfreeze \/ PingThawed
        BY <4>1, <4>7 DEF Frozen, Unfreeze, PingThawed, GrowPlace
      <4>8. CASE Thawed
        BY <4>8 DEF Thawed
      <4>3. CASE Block  BY <3>0, <4>3 DEF Block, GrowState
      <4>4. ASSUME NEW v \in Volume, FreezeArray(v) PROVE grow'.at # "none"
        BY <3>0, <4>1, <4>4 DEF FreezeArray, GrowState, GrowPlace
      <4>5. ASSUME NEW v \in Volume, Unblock(v) PROVE grow'.at # "none"
        BY <3>0, <4>5 DEF Unblock
      <4> QED  BY <3>1, <4>2, <4>3, <4>4, <4>5, <4>6, <4>7, <4>8 DEF GrowGoesOn, GrowStep
    <3> QED  BY <3>0, <3>2, <3>3
  <2> QED  BY <1>1, <2>1 DEF OwnerInv, JobInv
<1> QED  BY <1>4, <1>5, <1>6, <1>7, <1>8 DEF OwnerInv

\* mdmon.  Of a container that a spare leaves it has nothing to do with spares, and it comes
\* to know that the spare left before it answers ping_manager.
LEMMA OwnerByMdmon ==
  ASSUME Types, OwnerInv, NEW c \in Container, MdmonStep(c)
  PROVE  OwnerInv'
<1> USE DEF MdmonStep
<1>0. UNCHANGED <<mon, job, grow, place, holder, work, synced>>
  <2>1. UNCHANGED <<mon, job, grow>>  BY DEF growVars, monVars
  <2>2. UNCHANGED <<place, holder, work, synced>>
    BY DEF Mdmon, MonitorThread, Manager, Record, ApplyUpdate, Wake, ManageContainer, Activate,
        StartRecovery,
           GoToSleep, LookAt, Answer, driver
  <2> QED  BY <2>1, <2>2
<1>t. /\ mgr \in [Container -> MgrState] /\ todo \in [Container -> SUBSET (Container \cup Volume)]
      /\ ping \in [Container -> SUBSET (Mdadm \X Kind)]
      /\ known \in [Container -> SUBSET Spare] /\ listed \in [Container -> SUBSET Spare]
      /\ assigned \in [Container -> SUBSET Spare] /\ slots \in [Spare -> SUBSET Array]
      /\ place \in [Spare -> Group \cup {Nowhere}] /\ action \in [Array -> {"idle", "frozen", "recover"}]
      /\ recorded \in [Container -> 0..RaidDisks]
      /\ \A d \in Container : mgr[d].at \in {"activating", "updating"} =>
             mgr[d].spare \in Spare /\ mgr[d].vol \in VolumesOf[d]
      /\ \A d \in Container : VolumesOf[d] \subseteq Array
      /\ \A d \in Container : d \notin Volume /\ VolumesOf[d] \subseteq Volume
      /\ \A d \in Container : VolumesOf[d] \cap VolumesOf[c] # {} => d = c
  BY ContainerAssumption, Groups DEF Types, TypeOK, BaseTypeOK, Busy, Kind, Array, Group
<1>i. /\ JobInv /\ WaitInv /\ SpareInv
      /\ \A d \in Container : Noticed(d) /\ Calmed(d) /\ LetGo(d)
  BY DEF OwnerInv
<1>j. Leaving(c) \/ InHand => job.spare \in Spare
  BY <1>i DEF JobInv, Leaving, InHand
\* What the step may not touch.
<1>1. ASSUME Noticed(c)', LetGo(c)', Calmed(c)',
             \A d \in Container \ {c} :
                 /\ known'[d] = known[d] /\ listed'[d] = listed[d] /\ assigned'[d] = assigned[d]
                 /\ mgr'[d] = mgr[d] /\ todo'[d] = todo[d] /\ recorded'[d] = recorded[d]
                 /\ ping'[d] = ping[d]
                 /\ (d \in queued' <=> d \in queued) /\ (d \in awake => d \in awake'),
             (\E k \in Kind : Asked(c, k)') => \E k \in Kind : Asked(c, k),
             Asked(c, "monitor")' => Asked(c, "monitor"),
             wants' \subseteq wants \cup VolumesOf[c],
             \A v \in Array : v \notin VolumesOf[c] => action'[v] = action[v],
             \A s \in Spare : slots'[s] # slots[s] =>
                 /\ place[s] = c /\ ~Leaving(c)
                 /\ \E v \in VolumesOf[c] : slots'[s] = slots[s] \cup {v}
      PROVE  OwnerInv'
  <2>1. JobInv'  BY <1>0, <1>i DEF JobInv
  <2>2. ASSUME NEW d \in Container
        PROVE  /\ (\E k \in Kind : Asked(d, k)') =>
                     From(d, {"removed", "backing", "moved"})' \/ To(d, {"adding", "told"})'
               /\ From(d, {"removed"})' => ~Asked(d, "monitor")'
    <3>1. /\ (\E k \in Kind : Asked(d, k)') => \E k \in Kind : Asked(d, k)
          /\ Asked(d, "monitor")' => Asked(d, "monitor")
      <4>1. CASE d = c  BY <1>1, <4>1
      <4>2. CASE d # c  BY <1>1, <4>2 DEF Asked
      <4> QED  BY <4>1, <4>2
    <3> QED  BY <1>0, <1>i, <3>1 DEF WaitInv, From, To, Kind
  <2>3. WaitInv'  BY <2>2 DEF WaitInv, Kind
  <2>4. SpareInv'
    <3>1. Nowhere # c  BY ScenarioAssumption DEF Group
    <3>2. ASSUME NEW s \in Spare, slots'[s] # slots[s] PROVE
             /\ ~InHand \/ s # job.spare
             /\ mon # "remove" \/ job.from \notin Container \/ s # job.spare
             /\ \A a \in slots'[s] : place[s] = GroupOf(a)
      <4>1. place[s] = c /\ ~Leaving(c)  BY <1>1, <3>2
      <4>2. \A v \in VolumesOf[c] : GroupOf(v) = c  BY Groups
      <4>3. \A a \in slots'[s] : place[s] = GroupOf(a)
        BY <1>1, <1>i, <3>2, <4>1, <4>2 DEF SpareInv
      <4> QED  BY <1>i, <3>1, <4>1, <4>3 DEF SpareInv, Leaving
    <3>3. InHand \/ (mon = "remove" /\ job.from \in Container) => job.spare \in Spare
      BY <1>i DEF JobInv, InHand
    <3> QED  BY <1>0, <1>i, <3>2, <3>3, SpareKept
  <2>5. \A s \in Spare : slots[s] # {} => slots'[s] # {}  BY <1>1
  <2>6. ASSUME NEW d \in Container, d # c PROVE Noticed(d)' /\ LetGo(d)'
    BY <1>0, <1>1, <1>i, <2>5, <2>6, NoticedKept DEF Asked
  <2>7. ASSUME NEW d \in Container, d # c PROVE Calmed(d)'
    <3>1. \A v \in VolumesOf[d] : v \notin VolumesOf[c] /\ v \in Array  BY <1>t, <2>7
    <3>2. \A v \in VolumesOf[d] : action'[v] = action[v] /\ \A s \in Spare : v \in slots'[s] <=> v \in slots[s]
      BY <1>1, <3>1
    <3>3. wants' \cap VolumesOf[d] \subseteq wants  BY <1>1, <3>1
    <3> QED  BY <1>0, <1>1, <1>i, <2>7, <3>2, <3>3, CalmedKept
  <2>8. \A d \in Container : Noticed(d)' /\ LetGo(d)' /\ Calmed(d)'
    <3> SUFFICES ASSUME NEW d \in Container PROVE Noticed(d)' /\ LetGo(d)' /\ Calmed(d)'  OBVIOUS
    <3>1. CASE d = c  BY <1>1, <3>1
    <3>2. CASE d # c  BY <2>6, <2>7, <3>2
    <3> QED  BY <3>1, <3>2
  <2> QED  BY <2>1, <2>3, <2>4, <2>8 DEF OwnerInv
<1>2. CASE Record(c)
  <2> USE <1>2 DEF Record
  <2>0. UNCHANGED <<place, slots, synced, action, listed, assigned, known, queued, mgr, todo, ping>>
        /\ awake \subseteq awake'
    BY DEF driver
  <2>1. ~Leaving(c)  BY <1>i DEF Calmed
  <2>2. Calmed(c)'  BY <1>0, <2>1 DEF Calmed, Leaving
  <2>3. Noticed(c)' /\ LetGo(c)'  BY <1>0, <1>i, <2>0, NoticedKept DEF Asked
  <2>4. \A d \in Container \ {c} : recorded'[d] = recorded[d]  BY <1>t
  <2> QED  BY <1>1, <2>0, <2>2, <2>3, <2>4 DEF Asked
<1>3. CASE ApplyUpdate(c)
  <2> USE <1>3 DEF ApplyUpdate
  <2>0. UNCHANGED <<place, slots, synced, action, known, recorded, mgr, todo, ping>> /\ awake \subseteq awake'
    BY DEF driver
  <2>1. /\ listed'[c] = known[c] \cup (listed[c] \cap assigned[c])
        /\ assigned'[c] = assigned[c] \cup (IF mgr[c].at = "updating" THEN {mgr[c].spare} ELSE {})
        /\ \A d \in Container \ {c} : listed'[d] = listed[d] /\ assigned'[d] = assigned[d]
    BY <1>t
  <2>2. DevicesOf(c)' = DevicesOf(c)  BY <2>0 DEF DevicesOf
  <2>3. \A s \in assigned'[c] : place[s] = c /\ slots[s] # {}
    BY <1>i, <2>1 DEF Noticed
  <2>4. \A s \in known[c] : place[s] = c \/ (From(c, {"removed"}) /\ job.spare = s)
    BY <1>i DEF Noticed, DevicesOf
  <2>5. Noticed(c)'
    BY <1>0, <1>i, <2>0, <2>1, <2>2, <2>3, <2>4 DEF Noticed, From
  <2>6. LetGo(c)'
    <3> SUFFICES ASSUME From(c, {"removed"}), known[c] = DevicesOf(c) PROVE job.spare \notin listed'[c]
      BY <1>0, <1>i, <2>0, <2>2 DEF LetGo, From, Asked
    <3>1. place[job.spare] = Nowhere /\ Nowhere # c
      BY <1>i, ScenarioAssumption DEF SpareInv, InHand, From, Group
    <3> QED  BY <1>i, <2>1, <3>1 DEF Noticed, DevicesOf
  <2>7. Calmed(c)'
    <3>1. Leaving(c) => UNCHANGED wants /\ known[c] \subseteq listed[c]  BY <1>i DEF Calmed
    <3> SUFFICES ASSUME Leaving(c) PROVE Calmed(c)'  BY <1>0 DEF Calmed, Leaving
    <3>2. \A v \in VolumesOf[c] : action'[v] = "recover" => InSync(v)' + Cardinality(Rebuilding(v)') >= RaidDisks
      BY <1>0, <1>i, <2>0 DEF Calmed, InSync, Rebuilding
    <3> QED  BY <1>0, <1>i, <2>0, <2>1, <2>2, <3>1, <3>2 DEF Calmed
  <2> QED  BY <1>1, <2>0, <2>1, <2>5, <2>6, <2>7 DEF Asked
\* Of the manager: what it does not touch.
<1>4. ASSUME UNCHANGED <<listed, assigned, recorded, slots, action>>, wants' \subseteq wants,
             queued \subseteq queued', queued' \subseteq queued \cup {c},
             \A d \in Container \ {c} :
                 /\ known'[d] = known[d] /\ mgr'[d] = mgr[d] /\ todo'[d] = todo[d]
                 /\ ping'[d] = ping[d] /\ (d \in awake => d \in awake'),
             (\E k \in Kind : Asked(c, k)') => \E k \in Kind : Asked(c, k),
             Asked(c, "monitor")' => Asked(c, "monitor"),
             todo'[c] # {} => mgr'[c].at # "asleep",
             known'[c] = DevicesOf(c) \/ (known'[c] = known[c] /\ (c \in awake' \/ c \in todo'[c])),
             c \in queued' \/ known'[c] = known[c],
             LetGo(c)',
             mgr'[c].at \in {"activating", "updating"} =>
                 ~Leaving(c) /\ mgr'[c].at = "activating" /\ place[mgr'[c].spare] = c,
             mgr'[c].at \in {"activating", "updating", "asleep", "pass"}
      PROVE  OwnerInv'
  <2>0. DevicesOf(c)' = DevicesOf(c)  BY <1>0 DEF DevicesOf
  <2>1. Noticed(c)'
    BY <1>0, <1>i, <1>4, <2>0 DEF Noticed, From
  <2>2. Calmed(c)'
    <3> SUFFICES ASSUME Leaving(c) PROVE Calmed(c)'  BY <1>0 DEF Calmed, Leaving
    <3>1. \A v \in VolumesOf[c] : action'[v] = "recover" => InSync(v)' + Cardinality(Rebuilding(v)') >= RaidDisks
      BY <1>0, <1>i, <1>4 DEF Calmed, InSync, Rebuilding
    <3>2. DevicesOf(c) \subseteq known'[c] /\ known'[c] \subseteq listed[c]
      BY <1>i, <1>4 DEF Calmed
    <3> QED  BY <1>0, <1>i, <1>4, <2>0, <3>1, <3>2 DEF Calmed
  <2> QED  BY <1>1, <1>4, <2>1, <2>2
<1>5. CASE Wake(c)
  <2> USE <1>5 DEF Wake
  <2>0. UNCHANGED <<listed, assigned, recorded, slots, action, known, wants, queued, ping, place>>
    BY DEF driver, record
  <2>1. /\ mgr'[c].at = "pass" /\ \A d \in Container \ {c} : mgr'[d] = mgr[d] /\ todo'[d] = todo[d]
        /\ c \in todo'[c] /\ \A d \in Container \ {c} : (d \in awake => d \in awake')
    BY <1>t DEF MgrState
  <2>2. LetGo(c)'  BY <1>0, <1>i, <2>0, <2>1 DEF LetGo, From, Asked, DevicesOf
  <2> HIDE <1>5
  <2> QED  BY <1>4, <2>0, <2>1, <2>2 DEF Asked
<1>6. CASE ManageContainer(c)
  <2> USE <1>6 DEF ManageContainer
  <2>0. UNCHANGED <<listed, assigned, recorded, slots, action, wants, mgr, ping, place, awake>>
    BY DEF driver, record
  <2>1. \A d \in Container \ {c} : known'[d] = known[d] /\ todo'[d] = todo[d]
    BY <1>t
  <2>2. known'[c] = DevicesOf(c) /\ (c \in queued' \/ known'[c] = known[c])
        /\ queued \subseteq queued' /\ queued' \subseteq queued \cup {c}
    <3>1. CASE Cardinality(DevicesOf(c)) # Cardinality(known[c])  BY <1>t, <3>1
    <3>2. CASE Cardinality(DevicesOf(c)) = Cardinality(known[c])
      <4>1. known[c] \subseteq DevicesOf(c) \/ DevicesOf(c) \subseteq known[c]
        <5>1. CASE Leaving(c)  BY <1>i, <5>1 DEF Calmed
        <5>2. CASE ~Leaving(c)  BY <1>i, <5>2 DEF Noticed, Leaving, From
        <5> QED  BY <5>1, <5>2
      <4>2. DevicesOf(c) \in SUBSET Spare /\ known[c] \in SUBSET Spare  BY <1>t DEF DevicesOf
      <4>3. IsFiniteSet(DevicesOf(c)) /\ IsFiniteSet(known[c])  BY <4>2, Counts
      <4>4. known[c] = DevicesOf(c)
        BY <3>2, <4>1, <4>3, FS_Subset
      <4> QED  BY <3>2, <4>4
    <3> QED  BY <3>1, <3>2
  <2>3. mgr[c].at = "pass"  OBVIOUS
  <2>4. LetGo(c)'
    <3>1. DevicesOf(c)' = DevicesOf(c)  BY <1>0 DEF DevicesOf
    <3> QED  BY <1>0, <1>i, <2>0, <2>2, <3>1 DEF LetGo, From, Asked
  <2> HIDE <1>6
  <2> QED  BY <1>4, <2>0, <2>1, <2>2, <2>3, <2>4 DEF Asked
<1>7. ASSUME NEW v \in VolumesOf[c], LookAt(c, v) PROVE OwnerInv'
  <2> USE <1>7 DEF LookAt
  <2>0. UNCHANGED <<listed, assigned, recorded, slots, action, known, queued, ping, place, awake>>
    BY DEF driver, record
  <2>1. /\ \A d \in Container \ {c} : todo'[d] = todo[d] /\ mgr'[d] = mgr[d]
        /\ todo'[c] = todo[c] \ {v} /\ v # c /\ mgr[c].at = "pass"
    BY <1>t
  <2>2. mgr' = mgr \/ (mgr'[c].at = "activating" /\ v \in wants /\ mgr'[c].spare \in Choice(c, v))
    BY <1>t
  <2>3. ASSUME v \in wants, NEW s \in Choice(c, v) PROVE ~Leaving(c) /\ place[s] = c
    <3>1. ~Leaving(c)  BY <1>i, <2>3 DEF Calmed
    <3>2. s \in listed[c]  BY <2>3 DEF Choice, Usable
    <3> QED  BY <1>i, <3>1, <3>2 DEF Noticed, Leaving, From
  <2>4. LetGo(c)'  BY <1>0, <1>i, <2>0, <2>1 DEF LetGo, From, Asked, DevicesOf
  <2>5. wants' \subseteq wants  OBVIOUS
  <2>6. known[c] = DevicesOf(c) \/ c \in awake \/ c \in todo'[c]  BY <1>i, <2>1 DEF Noticed
  <2> HIDE <1>7
  <2>7. mgr'[c].at \in {"activating", "updating"} =>
                 ~Leaving(c) /\ mgr'[c].at = "activating" /\ place[mgr'[c].spare] = c
    BY <2>1, <2>2, <2>3
  <2>8. mgr'[c].at \in {"activating", "pass"}  BY <2>1, <2>2
  <2> QED  BY <1>4, <2>0, <2>1, <2>4, <2>5, <2>6, <2>7, <2>8 DEF Asked
<1>8. CASE Activate(c)
  <2> USE <1>8 DEF Activate
  <2>0. UNCHANGED <<listed, assigned, recorded, known, wants, todo, ping, place, awake>>
    BY DEF record
  <2>1. /\ mgr'[c] = [mgr[c] EXCEPT !.at = "updating"] /\ \A d \in Container \ {c} : mgr'[d] = mgr[d]
        /\ mgr'[c].at = "updating" /\ mgr'[c].spare = mgr[c].spare
    BY <1>t DEF MgrState
  <2>2. ~Leaving(c)  BY <1>i DEF Calmed
  <2>3. place[mgr[c].spare] = c /\ c \notin Native  BY <1>i, Groups DEF Noticed
  <2>4. \A s \in Spare : slots'[s] = IF s = mgr[c].spare THEN slots[s] \cup {mgr[c].vol} ELSE slots[s]
    BY <1>t, <2>3
  <2>5. Calmed(c)'  BY <1>0, <2>2 DEF Calmed, Leaving
  <2>6. Noticed(c)'
    <3>1. slots'[mgr[c].spare] # {} /\ \A s \in assigned[c] : slots'[s] # {}
      <4>1. \A s \in Spare : slots[s] # {} => slots'[s] # {}  BY <2>4
      <4>2. mgr[c].vol \in slots'[mgr[c].spare]
        <5>1. mgr[c].spare \in Spare  BY <1>t
        <5> QED  BY <2>4, <5>1
      <4>3. \A s \in assigned[c] : slots[s] # {} /\ s \in Spare  BY <1>t, <1>i DEF Noticed
      <4> QED  BY <4>1, <4>2, <4>3
    <3>2. DevicesOf(c)' = DevicesOf(c)  BY <1>0 DEF DevicesOf
    <3> QED  BY <1>0, <1>i, <2>0, <2>1, <2>3, <3>1, <3>2 DEF Noticed, From
  <2>7. LetGo(c)'  BY <1>0, <2>2 DEF LetGo, Leaving, From
  <2>8. \A v \in Array : v \notin VolumesOf[c] => action'[v] = action[v]  BY <1>t
  <2>9. \A s \in Spare : slots'[s] # slots[s] =>
                 /\ place[s] = c /\ ~Leaving(c)
                 /\ \E v \in VolumesOf[c] : slots'[s] = slots[s] \cup {v}
    BY <1>t, <2>2, <2>3, <2>4
  <2>10. \A d \in Container \ {c} : d \in queued' <=> d \in queued  OBVIOUS
  <2> HIDE <1>8
  <2> QED  BY <1>1, <2>0, <2>1, <2>5, <2>6, <2>7, <2>8, <2>9, <2>10 DEF Asked
<1>9. CASE StartRecovery(c)
  <2> USE <1>9 DEF StartRecovery
  <2>0. UNCHANGED <<listed, assigned, recorded, slots, known, wants, queued, todo, ping, place>>
        /\ awake \subseteq awake'
    BY DEF record
  <2>1. mgr'[c].at = "pass" /\ \A d \in Container \ {c} : mgr'[d] = mgr[d]
    BY <1>t DEF MgrState, Asleep
  <2>2. ~Leaving(c)  BY <1>i DEF Calmed
  <2>3. Calmed(c)'  BY <1>0, <2>2 DEF Calmed, Leaving
  <2>4. Noticed(c)'
    <3>1. DevicesOf(c)' = DevicesOf(c)  BY <1>0 DEF DevicesOf
    <3> QED  BY <1>0, <1>i, <2>0, <2>1, <3>1 DEF Noticed, From
  <2>5. LetGo(c)'  BY <1>0, <2>2 DEF LetGo, Leaving, From
  <2>6. \A v \in Array : v \notin VolumesOf[c] => action'[v] = action[v]  BY <1>t
  <2> HIDE <1>9
  <2> QED  BY <1>1, <2>0, <2>1, <2>3, <2>4, <2>5, <2>6 DEF Asked
<1>10. ASSUME NEW p \in ping[c], Answer(c, p) PROVE OwnerInv'
  <2> USE <1>10 DEF Answer
  <2>0. UNCHANGED <<listed, assigned, recorded, slots, action, known, wants, queued, awake, place>>
    BY DEF driver, record
  <2>1. /\ \A d \in Container \ {c} : ping'[d] = ping[d] /\ mgr'[d] = mgr[d] /\ todo'[d] = todo[d]
        /\ mgr'[c].at \in {"pass", "asleep"}
    BY <1>t DEF Asleep
  <2>2. CASE p[2] = "manager"
    <3>1. /\ mgr' = mgr /\ mgr[c].at = "pass" /\ c \in todo'[c]
          /\ ping'[c] = (ping[c] \ {p}) \cup {<<p[1], "again">>}
      BY <1>t, <2>2
    <3>2. p = <<p[1], "manager">> /\ p[1] \in Mdadm  BY <1>t, <2>2
    <3>3. \A k \in Kind : Asked(c, k)' => Asked(c, k) \/ (k = "again" /\ Asked(c, "manager"))
      BY <3>1, <3>2 DEF Asked
    <3>4. Asked(c, "manager") => Asked(c, "manager")' \/ Asked(c, "again")'
      BY <3>1, <3>2 DEF Asked
    <3>5. Asked(c, "again") => Asked(c, "again")'  BY <3>1, <3>2 DEF Asked
    <3>6. LetGo(c)'  BY <1>0, <1>i, <2>0, <3>1, <3>4, <3>5 DEF LetGo, From, DevicesOf
    <3> HIDE <1>10
    <3> QED  BY <1>4, <2>0, <2>1, <3>1, <3>3, <3>6 DEF Kind
  <2>3. CASE p[2] # "manager"
    <3>1. /\ todo'[c] = {} /\ todo[c] = {} /\ c \notin queued /\ ping'[c] = ping[c] \ {p} /\ mgr'[c].at = "asleep"
      BY <1>t, <2>3 DEF Asleep
    <3>2. \A k \in Kind : Asked(c, k)' => Asked(c, k)  BY <3>1 DEF Asked
    <3>3. Asked(c, "manager") => Asked(c, "manager")'  BY <2>3, <3>1 DEF Asked
    <3>4. ASSUME From(c, {"removed"}), known[c] = DevicesOf(c) PROVE job.spare \notin listed[c]
      <4>1. place[job.spare] = Nowhere /\ Nowhere # c
        BY <1>i, <3>4, ScenarioAssumption DEF SpareInv, InHand, From, Group
      <4> QED  BY <1>i, <3>1, <3>4, <4>1 DEF Noticed, DevicesOf
    <3>5. LetGo(c)'  BY <1>0, <1>i, <2>0, <3>1, <3>3, <3>4 DEF LetGo, From, DevicesOf
    <3>6. known[c] = DevicesOf(c) \/ c \in awake  BY <1>i, <3>1 DEF Noticed
    <3> HIDE <1>10
    <3> QED  BY <1>4, <2>0, <2>1, <3>1, <3>2, <3>5, <3>6 DEF Kind
  <2> QED  BY <2>2, <2>3
<1>11. CASE GoToSleep(c)
  <2> USE <1>11 DEF GoToSleep
  <2>0. UNCHANGED <<listed, assigned, recorded, slots, action, known, wants, queued, awake, place, todo, ping>>
    BY DEF driver, record
  <2>1. mgr'[c].at = "asleep" /\ todo[c] = {} /\ \A d \in Container \ {c} : mgr'[d] = mgr[d]
    BY <1>t DEF Asleep
  <2>2. LetGo(c)'  BY <1>0, <1>i, <2>0 DEF LetGo, From, DevicesOf, Asked
  <2>3. known[c] = DevicesOf(c) \/ c \in awake  BY <1>i, <2>1 DEF Noticed
  <2> HIDE <1>11
  <2> QED  BY <1>4, <2>0, <2>1, <2>2, <2>3 DEF Asked
<1> QED
  BY <1>2, <1>3, <1>5, <1>6, <1>7, <1>8, <1>9, <1>10, <1>11 DEF Mdmon, MonitorThread, Manager

\* mdadm --monitor.  Manage_remove takes a disk that mdmon does not use and waits until it
\* knows; the disk can be put back where it came from, as nobody can have opened that.
LEMMA OwnerByMonitor == Types /\ Holding /\ Calm /\ OwnerInv /\ MonGoesOn => OwnerInv'
<1> SUFFICES ASSUME Types, Holding, Calm, OwnerInv, MonGoesOn PROVE OwnerInv'  OBVIOUS
<1>0. UNCHANGED <<grow, work, slots, synced, action, recorded, listed, assigned, known, wants, queued, mgr, todo>>
  <2>1. UNCHANGED grow  BY DEF MonGoesOn, growVars
  <2>2. UNCHANGED <<work, slots, synced, action, record, known, wants, queued, mgr, todo>>
    BY DEF MonGoesOn, MonStep, NextTurn, JobOver, CheckArray, LookAfter, TryDonor, OpenDonor,
        CheckHolder,
           HotRemove, Removed, Add, CannotAdd, Added, Told, Moved, driver, mdmon
  <2> QED  BY <2>1, <2>2 DEF record
<1>t. /\ mgr \in [Container -> MgrState] /\ job \in JobState
      /\ ping \in [Container -> SUBSET (Mdadm \X Kind)]
      /\ holder \in [Container -> Mdadm \cup {Nowhere}]
      /\ known \in [Container -> SUBSET Spare] /\ listed \in [Container -> SUBSET Spare]
      /\ assigned \in [Container -> SUBSET Spare] /\ slots \in [Spare -> SUBSET Array]
      /\ place \in [Spare -> Group \cup {Nowhere}]
      /\ \A d \in Container : mgr[d].at \in {"activating", "updating"} => mgr[d].spare \in Spare
      /\ Nowhere \notin Group \cup Mdadm /\ Container \subseteq Group /\ Native \subseteq Group
      /\ \A d \in Container : d \notin Native /\ \A g \in Group : g \in Native \/ g \in Container
  BY ScenarioAssumption, Groups DEF Types, TypeOK, BaseTypeOK, MonTypeOK, Busy, Kind, Group
<1>j. /\ job.to \in Group \cup {Nowhere} /\ job.from \in Group \cup {Nowhere}
      /\ [job EXCEPT !.from = Nowhere, !.spare = NoSpare].to = job.to
  BY <1>t DEF JobState
<1>i. /\ JobInv /\ WaitInv /\ SpareInv
      /\ \A d \in Container : Noticed(d) /\ Calmed(d) /\ LetGo(d)
  BY DEF OwnerInv
\* A step of mdadm --monitor that does not move the spare, and is not about its leaving.
<1>1. ASSUME UNCHANGED place, awake \subseteq awake',
             \A c \in Container : ~Leaving(c)' /\ ~From(c, {"removed"})
      PROVE  \A c \in Container : Noticed(c)' /\ Calmed(c)' /\ LetGo(c)'
  <2> SUFFICES ASSUME NEW c \in Container PROVE Noticed(c)' /\ Calmed(c)' /\ LetGo(c)'  OBVIOUS
  <2>1. DevicesOf(c)' = DevicesOf(c)  BY <1>1 DEF DevicesOf
  <2>2. ~From(c, {"removed"})'  BY <1>1 DEF Leaving, From
  <2>3. Noticed(c)'  BY <1>0, <1>1, <1>i, <2>1, <2>2 DEF Noticed
  <2> QED  BY <1>1, <2>2, <2>3 DEF Calmed, LetGo
<1>2. ASSUME mon \in {"read", "link", "donor", "moved"}, mon' \in {"read", "link", "donor"}, UNCHANGED <<place, awake, ping>>,
             mon = "moved" => ~Waiting(job.from),
             mon' = "donor" => job'.to \in Group
      PROVE  OwnerInv'
  <2>1. JobInv'  BY <1>2 DEF JobInv
  <2>2. WaitInv'
    BY <1>2, <1>i DEF WaitInv, From, To, Asked, Waiting, Kind, Mdadm
  <2>3. SpareInv'  BY <1>0, <1>2, <1>i DEF SpareInv, InHand
  <2>4. \A c \in Container : ~Leaving(c)' /\ ~From(c, {"removed"})  BY <1>2 DEF Leaving, From
  <2> QED  BY <1>1, <1>2, <2>1, <2>2, <2>3, <2>4 DEF OwnerInv
<1>3. CASE NextTurn \/ JobOver \/ Moved
  <2>1. UNCHANGED <<place, awake, ping>>  BY <1>3 DEF NextTurn, JobOver, Moved, driver, mdmon
  <2> QED  BY <1>2, <1>3, <2>1 DEF NextTurn, JobOver, Moved
<1>4. ASSUME NEW a \in Array, CheckArray(a) PROVE OwnerInv'
  <2>1. UNCHANGED <<place, awake, ping>>  BY <1>4 DEF CheckArray, driver, mdmon
  <2>2. mon = "read" /\ mon' \in {"read", "link"}  BY <1>4 DEF CheckArray
  <2> QED  BY <1>2, <2>1, <2>2
<1>5. ASSUME NEW a \in Array, LookAfter(a) PROVE OwnerInv'
  <2> USE <1>5 DEF LookAfter
  <2>0. UNCHANGED <<place, awake, ping>> /\ mon = "link"  BY DEF driver, mdmon
  <2>1. CASE UNCHANGED <<mon, job>>  BY <1>2, <2>0, <2>1
  <2>2. CASE mon' = "donor" /\ job' = [NoJob EXCEPT !.array = a, !.to = GroupOf(a), !.donors = Group]
    <3>1. job'.to \in Group  BY <2>2, Groups DEF NoJob
    <3> QED  BY <1>2, <2>0, <2>2, <3>1
  <2> QED  BY <2>1, <2>2
\* Nobody waits for mdmon while mdadm --monitor looks for a spare.
<1>6. ASSUME mon \in {"donor", "open", "check", "add"}
      PROVE  \A c \in Container : \A k \in Kind : ~Asked(c, k)
  BY <1>6, <1>i DEF WaitInv, From, To, Kind
<1>7. ASSUME mon \in {"donor", "open", "check", "add"}, UNCHANGED ping PROVE WaitInv'
  BY <1>6, <1>7 DEF WaitInv, Asked, Kind
<1>8. ASSUME mon \in {"donor", "open", "check", "add"}, UNCHANGED <<place, awake, ping>>,
             mon' \in {"donor", "open", "check", "back"} \/ (mon' = "remove" /\ job'.from \in Native),
             mon' = "back" <=> mon = "add", mon = "add" => job' = job,
             JobInv'
      PROVE  OwnerInv'
  <2>1. SpareInv'
    BY <1>0, <1>8, <1>i, <1>t DEF SpareInv, InHand
  <2>2. \A c \in Container : ~Leaving(c)' /\ ~From(c, {"removed"})
    BY <1>8, <1>t DEF Leaving, From
  <2> QED  BY <1>1, <1>7, <1>8, <2>1, <2>2 DEF OwnerInv
<1>9. ASSUME NEW from \in Group, TryDonor(from) PROVE OwnerInv'
  <2> USE <1>9 DEF TryDonor
  <2>0. UNCHANGED <<place, awake, ping>> /\ mon = "donor"  BY DEF driver, mdmon
  <2>1. CASE UNCHANGED mon /\ job' = [job EXCEPT !.donors = @ \ {from}]
    <3>1. job'.to = job.to  BY <1>t, <2>1 DEF JobState
    <3>2. JobInv'  BY <1>i, <2>0, <2>1, <3>1 DEF JobInv
    <3> QED  BY <1>8, <2>0, <2>1, <3>2
  <2>2. ASSUME CheckDonor(from, job.to), NEW s \in ToChoose(from), mon' = "open",
               job' = [[job EXCEPT !.donors = @ \ {from}] EXCEPT !.from = from, !.spare = s]
        PROVE  OwnerInv'
    <3>1. job'.to = job.to /\ job'.from = from /\ job'.spare = s  BY <1>t, <2>2 DEF JobState
    <3>2. s \in Spare
      <4>1. CASE from \in Native
        BY <2>2, <4>1 DEF ToChoose, Types, TypeOK, MonTypeOK, Array
      <4>2. CASE from \in Container
        BY <1>t, <2>2, <4>2 DEF ToChoose, Spares
      <4> QED  BY <1>t, <4>1, <4>2 DEF Group
    <3>3. JobInv'  BY <1>i, <2>0, <2>2, <3>1, <3>2 DEF JobInv, CheckDonor
    <3> QED  BY <1>8, <2>0, <2>2, <3>3
  <2> QED  BY <2>1, <2>2
<1>10. CASE OpenDonor
  <2> USE <1>10 DEF OpenDonor
  <2>0. UNCHANGED <<place, awake, ping>> /\ mon = "open"  BY DEF driver, mdmon
  <2>1. JobInv' /\ (mon' \in {"donor", "check"} \/ (mon' = "remove" /\ job'.from \in Native))
    <3>1. CASE mon' = "remove" /\ job' = job /\ job.from \in Native
      BY <1>i, <2>0, <3>1 DEF JobInv
    <3>2. CASE mon' = "check" /\ job' = job /\ job.from \notin Native
      BY <1>i, <2>0, <3>2 DEF JobInv, Group
    <3>3. CASE NextDonor
      BY <1>i, <1>j, <2>0, <3>3 DEF JobInv, NextDonor
    <3> QED  BY <3>1, <3>2, <3>3
  <2> QED  BY <1>8, <2>0, <2>1
<1>11. CASE CheckHolder
  <2> USE <1>11 DEF CheckHolder
  <2>0. UNCHANGED <<place, awake, ping>> /\ mon = "check" /\ Quiet(job.from) /\ job.from \in Container
    BY <1>i DEF driver, mdmon, Calm, JobInv
  <2>1. CASE place[job.spare] = job.from /\ slots[job.spare] = {}
    <3>0. mon' = "remove" /\ UNCHANGED job  BY <2>1
    <3>1. JobInv'  BY <1>i, <2>0, <3>0 DEF JobInv
    <3>2. WaitInv'  BY <1>7, <2>0
    <3>3. SpareInv'  BY <1>0, <1>i, <2>0, <2>1, <3>0 DEF SpareInv, InHand
    <3>4. ASSUME NEW c \in Container PROVE Noticed(c)' /\ LetGo(c)' /\ Calmed(c)'
      <4>1. DevicesOf(c)' = DevicesOf(c)  BY <2>0 DEF DevicesOf
      <4>2. Noticed(c)'  BY <1>0, <1>i, <2>0, <3>0, <4>1 DEF Noticed, From
      <4>3. LetGo(c)'  BY <3>0 DEF LetGo, From
      <4>4. CASE c = job.from
        <5>1. \A v \in VolumesOf[c] : action'[v] = "recover" => InSync(v)' + Cardinality(Rebuilding(v)') >= RaidDisks
          BY <1>0, <2>0, <4>4 DEF Quiet, InSync, Rebuilding
        <5>2. Calmed(c)'  BY <1>0, <1>i, <2>0, <4>1, <4>4, <5>1 DEF Calmed, Noticed, Quiet
        <5> QED  BY <4>2, <4>3, <5>2
      <4>5. CASE c # job.from
        BY <3>0, <4>2, <4>3, <4>5 DEF Calmed, Leaving
      <4> QED  BY <4>4, <4>5
    <3> QED  BY <3>1, <3>2, <3>3, <3>4 DEF OwnerInv
  <2>2. CASE NextDonor
    <3>1. JobInv'  BY <1>i, <1>j, <2>0, <2>2 DEF JobInv, NextDonor
    <3> QED  BY <1>8, <2>0, <2>2, <3>1 DEF NextDonor
  <2> QED  BY <2>1, <2>2
<1>12. CASE HotRemove
  <2> DEFINE s == job.spare  g == job.from
  <2> USE <1>12 DEF HotRemove
  <2>0. mon = "remove" /\ s \in Spare /\ g \in Group /\ job.to \in Group  BY <1>i DEF JobInv
  <2>6. \A c \in Container : \A k \in Kind : ~Asked(c, k)
    BY <1>i, <2>0 DEF WaitInv, From, To, Kind
  <2>1. CASE place[s] = g /\ (g \in Native => slots[s] = {})
    <3>0. /\ mon' = "removed" /\ UNCHANGED job /\ awake \subseteq awake'
          /\ (g \in Container => g \in awake')
          /\ slots[s] = {} /\ \A t \in Spare : place'[t] = IF t = s THEN Nowhere ELSE place[t]
      <4>0. g \in Native \/ g \in Container  BY <2>0 DEF Group
      <4>1. slots[s] = {}  BY <1>i, <2>0, <2>1, <4>0 DEF SpareInv
      <4> QED  BY <1>t, <2>1, <4>1 DEF Stirred
    <3>1. JobInv'  BY <1>i, <2>0, <3>0 DEF JobInv
    <3>2. \A c \in Container : \A k \in Kind : Asked(c, k)' <=> (c = g /\ k = "manager")
      <4>1. \A c \in Container : ping'[c] = IF c = g THEN ping[c] \cup {<<"monitor", "manager">>} ELSE ping[c]
        <5>1. BaseTypeOK /\ ping' = Pinging(g, "manager")  BY <2>1 DEF Types, TypeOK
        <5>2. \A c \in Container : Pinging(g, "manager")[c] = IF c = g THEN ping[c] \cup {<<"monitor", "manager">>} ELSE ping[c]
          BY <5>1, Pings
        <5> QED  BY <5>1, <5>2
      <4>2. \A k \in Kind : <<"monitor", k>> = <<"monitor", "manager">> <=> k = "manager"  OBVIOUS
      <4> HIDE <1>12 DEF g
      <4> QED  BY <2>6, <4>1, <4>2 DEF Asked
    <3>3. WaitInv'  BY <3>0, <3>2 DEF WaitInv, From, To, Kind
    <3>4. SpareInv'
      <4>1. \A t \in Spare : place[t] # Nowhere  BY <1>i, <2>0 DEF SpareInv, InHand
      <4> QED  BY <1>0, <1>i, <2>0, <3>0, <4>1 DEF SpareInv, InHand
    <3>5. ASSUME NEW c \in Container PROVE Noticed(c)' /\ LetGo(c)' /\ Calmed(c)'
      <4>1. CASE c = g
        <5>1. DevicesOf(c)' = DevicesOf(c) \ {s}  BY <1>t, <3>0, <4>1 DEF DevicesOf
        <5>2. Calmed(c) /\ Leaving(c)  BY <1>i, <2>0, <4>1 DEF Leaving
        <5>3. \A v \in VolumesOf[c] : action'[v] = "recover" => InSync(v)' + Cardinality(Rebuilding(v)') >= RaidDisks
          BY <1>0, <5>2 DEF Calmed, InSync, Rebuilding
        <5>4. Calmed(c)'  BY <1>0, <5>1, <5>2, <5>3 DEF Calmed
        <5>5. From(c, {"removed"})'  BY <3>0, <4>1 DEF From
        <5>6. LetGo(c)'  BY <3>2, <4>1 DEF LetGo, Kind
        <5>7. known[c] \subseteq DevicesOf(c)' \cup {s}  BY <1>i, <2>0, <5>1 DEF Noticed, From
        <5>8. \A t \in assigned[c] : place'[t] = c /\ slots[t] # {}
          BY <1>i, <1>t, <3>0 DEF Noticed
        <5>9. \A t \in listed[c] : place'[t] = c \/ t = s
          BY <1>i, <1>t, <2>0, <3>0 DEF Noticed, From
        <5>10. mgr[c].at \notin {"activating", "updating"}  BY <5>2 DEF Calmed
        <5>11. Noticed(c)'
          BY <1>0, <1>i, <3>0, <4>1, <5>5, <5>7, <5>8, <5>9, <5>10 DEF Noticed
        <5> QED  BY <5>4, <5>6, <5>11
      <4>2. CASE c # g
        <5>1. DevicesOf(c)' = DevicesOf(c)  BY <1>t, <2>1, <3>0, <4>2 DEF DevicesOf
        <5>2. ~From(c, {"removed"}) /\ ~From(c, {"removed"})' /\ ~Leaving(c)'
          BY <2>0, <3>0, <4>2 DEF From, Leaving
        <5>3. \A t \in Spare : place[t] = c => place'[t] = c  BY <2>1, <3>0, <4>2
        <5>4. assigned[c] \subseteq Spare /\ listed[c] \subseteq Spare  BY <1>t
        <5>5. Noticed(c)'  BY <1>0, <1>i, <1>t, <3>0, <5>1, <5>2, <5>3, <5>4 DEF Noticed
        <5> QED  BY <5>2, <5>5 DEF Calmed, LetGo
      <4> QED  BY <4>1, <4>2
    <3> QED  BY <3>1, <3>3, <3>4, <3>5 DEF OwnerInv
  <2>2. CASE NextDonor /\ UNCHANGED <<place, awake, ping>>
    <3>1. JobInv'  BY <1>i, <1>j, <2>0, <2>2 DEF JobInv, NextDonor
    <3>2. WaitInv'  BY <2>2, <2>6 DEF WaitInv, Asked, Kind
    <3>3. SpareInv'  BY <1>0, <1>i, <2>0, <2>2 DEF SpareInv, InHand, NextDonor
    <3>4. \A c \in Container : ~Leaving(c)' /\ ~From(c, {"removed"})
      BY <2>0, <2>2 DEF Leaving, From, NextDonor
    <3> QED  BY <1>1, <2>2, <3>1, <3>2, <3>3, <3>4 DEF OwnerInv
  <2> QED  BY <2>1, <2>2
<1>13. CASE Removed
  <2> USE <1>13 DEF Removed
  <2>0. mon = "removed" /\ mon' = "add" /\ UNCHANGED <<place, awake, ping, job>>
    BY DEF driver, mdmon
  <2>1. \A c \in Container : \A k \in Kind : ~Asked(c, k)
    <3>1. ASSUME NEW c \in Container, NEW k \in Kind, Asked(c, k) PROVE FALSE
      <4>1. c = job.from  BY <1>i, <2>0, <3>1 DEF WaitInv, From, To, Kind
      <4>2. <<"monitor", k>> \in {"monitor"} \X {"monitor", "manager", "again"}  BY DEF Kind
      <4> QED  BY <3>1, <4>1, <4>2 DEF Waiting, Asked
    <3> QED  BY <3>1
  <2>2. JobInv'  BY <1>i, <2>0 DEF JobInv
  <2>3. WaitInv'  BY <2>0, <2>1 DEF WaitInv, Asked, Kind
  <2>4. SpareInv'  BY <1>0, <1>i, <2>0 DEF SpareInv, InHand
  <2>5. ASSUME NEW c \in Container PROVE Noticed(c)' /\ LetGo(c)' /\ Calmed(c)'
    <3>1. DevicesOf(c)' = DevicesOf(c)  BY <2>0 DEF DevicesOf
    <3>2. ~From(c, {"removed"})' /\ ~Leaving(c)'  BY <2>0 DEF From, Leaving
    <3>3. From(c, {"removed"}) => known[c] = DevicesOf(c) /\ job.spare \notin listed[c]
      BY <1>i, <2>1 DEF LetGo, Kind
    <3>4. Noticed(c)'  BY <1>0, <1>i, <2>0, <3>1, <3>2, <3>3 DEF Noticed
    <3> QED  BY <3>2, <3>4 DEF Calmed, LetGo
  <2> QED  BY <2>2, <2>3, <2>4, <2>5 DEF OwnerInv
<1>14. CASE Add
  <2> DEFINE s == job.spare  g == Target
  <2> USE <1>14 DEF Add, CanAdd
  <2>0. /\ mon \in {"add", "back"} /\ s \in Spare /\ g \in Group /\ UNCHANGED job
        /\ place[s] = Nowhere /\ slots[s] = {} /\ mon' = IF mon = "add" THEN "adding" ELSE "backing"
        /\ g = IF mon = "back" THEN job.from ELSE job.to
        /\ awake \subseteq awake' /\ (g \in Container => g \in awake')
        /\ \A t \in Spare : place'[t] = IF t = s THEN g ELSE place[t]
    BY <1>i, <1>t DEF JobInv, Target, Stirred
  <2>1. \A c \in Container : \A k \in Kind : ~Asked(c, k)
    BY <1>i, <2>0 DEF WaitInv, From, To, Kind
  <2>2. \A c \in Container : \A k \in Kind : Asked(c, k)' => c = g
    <3>1. BaseTypeOK /\ ping' = Pinging(g, "monitor")  BY DEF Types, TypeOK
    <3>2. \A c \in Container : Pinging(g, "monitor")[c] = IF c = g THEN ping[c] \cup {<<"monitor", "monitor">>} ELSE ping[c]
      BY <3>1, Pings
    <3> QED  BY <2>1, <3>1, <3>2 DEF Asked
  <2> HIDE <1>14 DEF s, g
  <2>3. JobInv'  BY <1>i, <2>0 DEF JobInv
  <2>4. WaitInv'  BY <2>0, <2>2 DEF WaitInv, From, To, Kind
  <2>5. SpareInv'
    BY <1>0, <1>i, <1>t, <2>0 DEF SpareInv, InHand, s
  <2>6. ASSUME NEW c \in Container PROVE Noticed(c)' /\ LetGo(c)' /\ Calmed(c)'
    <3>1. ~From(c, {"removed"}) /\ ~From(c, {"removed"})' /\ ~Leaving(c)'
      BY <2>0 DEF From, Leaving
    <3>2. DevicesOf(c) \subseteq DevicesOf(c)' /\ (c # g => DevicesOf(c)' = DevicesOf(c))
      BY <1>t, <2>0 DEF DevicesOf
    <3>3. \A t \in Spare : place[t] = c => place'[t] = c  BY <1>t, <2>0
    <3>4. assigned[c] \subseteq Spare /\ listed[c] \subseteq Spare  BY <1>t
    <3>5. Noticed(c)'  BY <1>0, <1>i, <1>t, <2>0, <3>1, <3>2, <3>3, <3>4 DEF Noticed
    <3> QED  BY <3>1, <3>5 DEF Calmed, LetGo
  <2> QED  BY <2>3, <2>4, <2>5, <2>6 DEF OwnerInv
<1>15. CASE CannotAdd
  <2> USE <1>15 DEF CannotAdd
  <2>0. UNCHANGED <<place, awake, ping, holder>> /\ mon \in {"add", "back"}
    BY DEF driver, mdmon
  <2>1. place[job.spare] = Nowhere /\ slots[job.spare] = {} /\ Target \in Container /\ holder[Target] # Nowhere
    BY <1>i, <2>0 DEF SpareInv, InHand, CanAdd
  <2>2. mon = "add" /\ Target = job.to
    <3>1. mon # "back"  BY <1>i, <2>1 DEF JobInv, Target
    <3> QED  BY <2>0, <3>1 DEF Target
  <2>3. \A c \in Container : holder[c] # "monitor"  BY <2>2 DEF Holding, Held, From, To
  <2>4. holder[job.to] = "grow"  BY <1>t, <2>1, <2>2, <2>3 DEF Mdadm
  <2>5. grow.cont = job.to /\ grow.at # "none"  BY <1>t, <2>1, <2>2, <2>4 DEF Holding
  <2>6. job.from \in Container => holder[job.from] = Nowhere
    BY <1>i, <1>t, <2>2, <2>3, <2>5 DEF Holding, JobInv, Mdadm
  <2>7. mon' = "back" /\ job' = job  BY <2>2
  <2>8. JobInv'  BY <1>0, <1>i, <2>0, <2>2, <2>5, <2>6, <2>7 DEF JobInv
  <2> QED  BY <1>8, <2>0, <2>2, <2>7, <2>8
\* It asks for an answer of a container, having had the last one.
<1>16. ASSUME UNCHANGED <<place, awake>>, mon \in {"adding", "backing", "told"}, 
              mon' \in {"told", "moved", "donor"}, JobInv', WaitInv'
       PROVE  OwnerInv'
  <2>1. SpareInv'  BY <1>0, <1>16, <1>i DEF SpareInv, InHand
  <2>2. \A c \in Container : ~Leaving(c)' /\ ~From(c, {"removed"})  BY <1>16 DEF Leaving, From
  <2> QED  BY <1>1, <1>16, <2>1, <2>2 DEF OwnerInv
<1>17. ASSUME NEW g, ~Waiting(g), \A c \in Container : From(c, {"removed", "backing", "moved"}) \/ To(c, {"adding", "told"}) => c = g
       PROVE  \A c \in Container : \A k \in Kind : ~Asked(c, k)
  <2>1. \A k \in Kind : <<"monitor", k>> \in {"monitor"} \X {"monitor", "manager", "again"}
    BY DEF Kind
  <2> QED  BY <1>17, <1>i, <2>1 DEF WaitInv, Waiting, Asked, Kind
<1>18. ASSUME NEW g, ping' = Pinging(g, "manager"), \A c \in Container : \A k \in Kind : ~Asked(c, k)
       PROVE  \A c \in Container : \A k \in Kind : Asked(c, k)' => c = g
  <2>1. BaseTypeOK  BY DEF Types, TypeOK
  <2>2. \A c \in Container : Pinging(g, "manager")[c] = IF c = g THEN ping[c] \cup {<<"monitor", "manager">>} ELSE ping[c]
    BY <2>1, Pings
  <2> QED  BY <1>18, <2>2 DEF Asked
<1>19. CASE Added
  <2> USE <1>19 DEF Added
  <2>0. UNCHANGED <<place, awake>>  BY DEF driver, mdmon
  <2>1. CASE mon = "adding"
    <3>1. \A c \in Container : \A k \in Kind : ~Asked(c, k)  BY <1>17, <2>1 DEF From, To
    <3>2. \A c \in Container : \A k \in Kind : Asked(c, k)' => c = job.to  BY <1>18, <2>1, <3>1
    <3>3. WaitInv'  BY <2>1, <3>2 DEF WaitInv, From, To, Kind
    <3>4. JobInv'  BY <1>i, <2>1 DEF JobInv
    <3> QED  BY <1>16, <2>0, <2>1, <3>3, <3>4
  <2>2. CASE mon = "backing"
    <3>1. \A c \in Container : \A k \in Kind : ~Asked(c, k)  BY <1>17, <2>2 DEF From, To
    <3>2. UNCHANGED ping /\ NextDonor  BY <2>2
    <3>3. WaitInv'  BY <3>1, <3>2 DEF WaitInv, Asked, Kind
    <3>4. JobInv'  BY <1>i, <1>j, <2>2, <3>2 DEF JobInv, NextDonor
    <3> QED  BY <1>16, <2>0, <2>2, <3>2, <3>3, <3>4 DEF NextDonor
  <2> QED  BY <2>1, <2>2
<1>20. CASE Told
  <2> USE <1>20 DEF Told
  <2>0. UNCHANGED <<place, awake>>  BY DEF driver, mdmon
  <2>1. \A c \in Container : \A k \in Kind : ~Asked(c, k)  BY <1>17 DEF From, To
  <2>2. \A c \in Container : \A k \in Kind : Asked(c, k)' => c = job.from  BY <1>18, <2>1
  <2>3. WaitInv'  BY <2>2 DEF WaitInv, From, To, Kind
  <2>4. JobInv'  BY <1>i DEF JobInv
  <2> QED  BY <1>16, <2>0, <2>3, <2>4
<1> QED
  BY <1>3, <1>4, <1>5, <1>9, <1>10, <1>11, <1>12, <1>13, <1>14, <1>15, <1>19, <1>20
  DEF MonGoesOn, MonStep

\* No step.
LEMMA Stuttering == OwnerInv /\ UNCHANGED vars => OwnerInv'
<1> SUFFICES ASSUME OwnerInv, UNCHANGED vars PROVE OwnerInv'  OBVIOUS
<1>1. UNCHANGED <<driver, record, mdmon, ping, holder, growVars, monVars>>
  BY DEF vars, baseVars
<1>2. JobInv' /\ WaitInv' /\ SpareInv'
  BY <1>1
  DEF OwnerInv, JobInv, WaitInv, SpareInv, InHand, From, To, Asked, driver, growVars, monVars
<1>3. ASSUME NEW c \in Container PROVE Noticed(c)' /\ LetGo(c)' /\ Calmed(c)'
  <2> USE <1>1 DEF driver, record, mdmon, monVars
  <2>1. Noticed(c)'  BY DEF OwnerInv, Noticed, DevicesOf, From
  <2>2. LetGo(c)'  BY DEF OwnerInv, LetGo, DevicesOf, From, Asked
  <2>3. Calmed(c)'  BY DEF OwnerInv, Calmed, Leaving, DevicesOf, InSync, Rebuilding
  <2> QED  BY <2>1, <2>2, <2>3
<1> QED  BY <1>2, <1>3 DEF OwnerInv

\* The initial states.
LEMMA OwnerStart == Calm /\ Init => Types /\ Holding /\ OwnerInv
<1> SUFFICES ASSUME Calm, Init PROVE Types /\ Holding /\ OwnerInv  OBVIOUS
<1> USE DEF Init, BaseInit, GrowInit, MonInit
<1>1. Nowhere \notin Group \cup Mdadm /\ world.home \in [Spare -> Group]
  BY ScenarioAssumption
<1>2. Holding  BY <1>1 DEF Holding, Held, From, To, Mdadm
<1>3. JobInv /\ SpareInv  BY <1>1 DEF JobInv, SpareInv, InHand
<1>4. WaitInv  BY DEF WaitInv, Asked, From, To
<1>5. \A c \in Container : Noticed(c) /\ Calmed(c) /\ LetGo(c)
  BY DEF Noticed, Calmed, LetGo, From, Leaving, DevicesOf, Asleep
<1> QED  BY <1>2, <1>3, <1>4, <1>5, InitTypes DEF OwnerInv

\* Every step.
LEMMA OwnerKept ==
  Types /\ Holding /\ Calm /\ OwnerInv /\ [Next]_vars => Types' /\ Holding' /\ Calm' /\ OwnerInv'
<1> SUFFICES ASSUME Types, Holding, Calm, OwnerInv, [Next]_vars PROVE OwnerInv'
  BY Typing, HoldingKept DEF Calm
<1>1. CASE UNCHANGED vars  BY <1>1, Stuttering
<1>2. CASE Next
  BY <1>2, OwnerByDriver, OwnerByFailure, OwnerByGrow, OwnerByMdmon, OwnerByMonitor DEF Next
<1> QED  BY <1>1, <1>2

\* A spare has one owner, if no mdmon begins to use it between the check of its holders and
\* the answer to ping_manager.
THEOREM OneOwnerAlways == Calm /\ Spec => []OneOwner
<1>1. OwnerInv => OneOwner  BY DEF OwnerInv, SpareInv, OneOwner, InHand
<1>2. Calm => Calm'  BY DEF Calm
<1> QED  BY <1>1, OwnerStart, OwnerKept, PTL DEF Spec

-----------------------------------------------------------------------------
(* A spare is moved where one is needed.                                   *)

\* The group lacks a device, those that are still to be used counted.
Lacking(g) == work[g] + Cardinality(DevicesOf(g)) < RaidDisks

\* No spare is put back into a container: that is not followed by ping_manager.
NotPutBack == ~(mon = "backing" /\ job.from \in Container)

\* What check_array found stays true of a native array until mdadm --monitor looks after
\* it, and of the group it looks after until the spare is there.
LackInv ==
    /\ short \cap unread = {}
    /\ \A a \in short : seen[a].active < RaidDisks /\ (a \in Native => Lacking(a))
    /\ mon \notin {"read", "link"} => job.to \notin short
    /\ mon \notin {"read", "link", "donor"} /\ job.from \in Native =>
           seen[job.from].active >= RaidDisks
    /\ mon \in {"donor", "open", "check", "remove", "removed", "add", "back", "backing"} =>
           Lacking(job.to)

\* The group of a spare, the one that it was taken from while it is in none.
At(s)      == IF InHand /\ s = job.spare THEN job.from ELSE place[s]
Counted(g) == {s \in Spare : At(s) = g}

\* NotForNothing, with the spare in hand counted where it would go back to.
PlaceInv ==
    \A s \in Spare : At(s) # world.home[s] =>
        work[At(s)] + Cardinality(Counted(At(s))) <= RaidDisks

\* The metadata of c has all its spares, but for the one that is just being added; of that
\* one the manager has seen to it when it has answered ping_manager.
Entering(c) == To(c, {"adding", "told"}) \/ From(c, {"backing"})
Informed(c) ==
    /\ work[c] <= recorded[c]
    /\ \A s \in DevicesOf(c) : s \in known[c] \cap listed[c] \/ (s = job.spare /\ Entering(c))
    /\ To(c, {"adding", "told"}) => place[job.spare] = c
    /\ To(c, {"told"}) =>
        \/ Asked(c, "manager")
        \/ Asked(c, "again") /\ c \in todo[c]
        \/ job.spare \in known[c] /\ (Asked(c, "again") \/ job.spare \in listed[c])

NeedInv == LackInv /\ PlaceInv /\ \A c \in Container : Informed(c)

\* The devices of a group can be counted.
LEMMA Loads ==
  ASSUME Types, NEW g \in Group
  PROVE  /\ work[g] \in 0..RaidDisks /\ work[g] \in Nat
         /\ DevicesOf(g) \subseteq Spare /\ IsFiniteSet(DevicesOf(g)) /\ Cardinality(DevicesOf(g)) \in Nat
<1>1. work[g] \in 0..RaidDisks  BY DEF Types, TypeOK, BaseTypeOK
<1>2. DevicesOf(g) \subseteq Spare  BY DEF DevicesOf
<1> QED  BY <1>1, <1>2, Counts, RaidDisksAssumption

\* Another device is one more, at the most.
LEMMA OneMore ==
  ASSUME NEW S, NEW x, IsFiniteSet(S)
  PROVE  IsFiniteSet(S \cup {x}) /\ Cardinality(S \cup {x}) <= Cardinality(S) + 1
<1>1. Cardinality(S) \in Nat  BY FS_CardinalityType
<1>2. Cardinality(S \cup {x}) = Cardinality(S) \/ Cardinality(S \cup {x}) = Cardinality(S) + 1
  BY FS_AddElement
<1>3. IsFiniteSet(S \cup {x})  BY FS_AddElement
<1> QED  BY <1>1, <1>2, <1>3

\* A step of which mdadm --monitor sees nothing.
LEMMA LackKept ==
  ASSUME LackInv, PlaceInv, UNCHANGED <<monVars, place, world, work>>
  PROVE  LackInv' /\ PlaceInv'
<1>1. UNCHANGED <<mon, job, unread, seen, short>>  BY DEF monVars
<1>2. \A g : Lacking(g)' = Lacking(g)  BY DEF Lacking, DevicesOf
<1>3. LackInv'  BY <1>1, <1>2 DEF LackInv
<1>4. PlaceInv'  BY <1>1 DEF PlaceInv, At, Counted, InHand
<1> QED  BY <1>3, <1>4

\* A step that leaves the mdmon of c alone.
LEMMA InformedKept ==
  ASSUME NEW c \in Container, Informed(c), UNCHANGED <<mon, job, place>>,
         work'[c] = work[c], recorded'[c] = recorded[c], known'[c] = known[c], listed'[c] = listed[c],
         c \in todo[c] => c \in todo'[c],
         Asked(c, "manager") => Asked(c, "manager")', Asked(c, "again") => Asked(c, "again")'
  PROVE  Informed(c)'
<1>1. DevicesOf(c)' = DevicesOf(c)  BY DEF DevicesOf
<1> QED  BY <1>1 DEF Informed, Entering, To, From

\* The driver, and mdadm --grow.
LEMMA NeedByOthers == Types /\ NeedInv /\ (DriverStep \/ GrowStarts \/ GrowGoesOn) => NeedInv'
<1> SUFFICES ASSUME Types, NeedInv, DriverStep \/ GrowStarts \/ GrowGoesOn PROVE NeedInv'  OBVIOUS
<1>1. UNCHANGED <<monVars, place, world, work, recorded, known, listed, todo>>
      /\ \A c \in Container : \A k \in Kind : Asked(c, k) => Asked(c, k)'
  <2>1. CASE DriverStep
    BY <2>1 DEF DriverStep, Driver, RecoveryDone, NativeTakes, record, mdmon, Asked
  <2>2. CASE GrowStarts
    BY <2>2 DEF GrowStarts, OpenContainer, driver, record, mdmon, Asked
  <2>3. CASE GrowGoesOn
    <3>1. CASE Block \/ PingThawed
      <4>1. \A c \in Container : ping[c] \subseteq ping'[c]
        BY <3>1 DEF Block, PingThawed, Types, TypeOK, BaseTypeOK
      <4> QED  BY <2>3, <3>1, <4>1 DEF GrowGoesOn, Block, PingThawed, driver, record, mdmon, Asked
    <3>2. CASE CheckIdle \/ Verify \/ Frozen \/ Unfreeze \/ Thawed
      BY <2>3, <3>2 DEF GrowGoesOn, CheckIdle, Verify, Frozen, Unfreeze, Thawed, driver, record, mdmon, Asked
    <3>3. ASSUME NEW v \in Volume, FreezeArray(v) \/ Unblock(v)
          PROVE  UNCHANGED <<monVars, place, world, work, recorded, known, listed, todo, ping>>
      BY <2>3, <3>3 DEF GrowGoesOn, FreezeArray, Unblock, record, mdmon
    <3> QED  BY <2>3, <3>1, <3>2, <3>3 DEF GrowGoesOn, GrowStep, Asked
  <2> QED  BY <2>1, <2>2, <2>3
<1>2. UNCHANGED <<mon, job>>  BY <1>1 DEF monVars
<1>3. LackInv' /\ PlaceInv'  BY <1>1, LackKept DEF NeedInv
<1>4. ASSUME NEW c \in Container PROVE Informed(c)'
  BY <1>1, <1>2, InformedKept DEF NeedInv, Kind
<1> QED  BY <1>3, <1>4 DEF NeedInv

\* A disk fails: the group lacks more than it did.
LEMMA NeedByFailure == Types /\ OwnerInv /\ NeedInv /\ DiskFails => NeedInv'
<1> SUFFICES ASSUME Types, OwnerInv, NeedInv, DiskFails PROVE NeedInv'  OBVIOUS
<1>1. PICK g \in Group : Fail(g) /\ UNCHANGED <<growVars, monVars>>  BY DEF DiskFails
<1>2. UNCHANGED <<mon, job, unread, seen, short, place, world, recorded, known, listed, todo, ping>>
  BY <1>1 DEF Fail, monVars, record
<1>3. \A h \in Group : work'[h] <= work[h] /\ work'[h] \in Nat /\ work[h] \in Nat
  <2>1. work \in [Group -> 0..RaidDisks]  BY DEF Types, TypeOK, BaseTypeOK
  <2> QED  BY <1>1, <2>1, RaidDisksAssumption DEF Fail
<1>4. \A h \in Group : Lacking(h) => Lacking(h)'
  <2> SUFFICES ASSUME NEW h \in Group, Lacking(h) PROVE Lacking(h)'  OBVIOUS
  <2>1. DevicesOf(h)' = DevicesOf(h) /\ Cardinality(DevicesOf(h)) \in Nat  BY <1>2, Loads DEF DevicesOf
  <2> QED  BY <1>3, <2>1, RaidDisksAssumption DEF Lacking
<1>5. LackInv'
  <2>1. short \subseteq Array /\ Native \subseteq Group  BY DEF Types, TypeOK, MonTypeOK, Group
  <2>2. mon \in {"donor", "open", "check", "remove", "removed", "add", "back", "backing"} => job.to \in Group
    BY DEF OwnerInv, JobInv
  <2> QED  BY <1>2, <1>4, <2>1, <2>2 DEF NeedInv, LackInv
<1>6. PlaceInv'
  <2>1. \A s : At(s)' = At(s)  BY <1>2 DEF At, InHand
  <2>2. \A h : Counted(h)' = Counted(h)  BY <2>1 DEF Counted
  <2>3. \A h : Cardinality(Counted(h)) \in Nat  BY Counts DEF Counted
  <2>4. ASSUME NEW s \in Spare PROVE At(s) \in Group
    BY DEF OwnerInv, JobInv, SpareInv, InHand, At, Types, TypeOK, BaseTypeOK
  <2> QED  BY <1>2, <1>3, <2>1, <2>2, <2>3, <2>4, RaidDisksAssumption DEF NeedInv, PlaceInv
<1>7. ASSUME NEW c \in Container PROVE Informed(c)'
  <2>1. DevicesOf(c)' = DevicesOf(c) /\ recorded[c] \in Nat
    BY <1>2, RaidDisksAssumption DEF DevicesOf, Types, TypeOK, BaseTypeOK
  <2>2. work'[c] <= recorded[c]  BY <1>3, <2>1 DEF NeedInv, Informed, Group
  <2> QED  BY <1>2, <2>1, <2>2 DEF NeedInv, Informed, Entering, To, From, Asked
<1> QED  BY <1>5, <1>6, <1>7 DEF NeedInv

\* mdmon: the manager looks at the devices, and the monitor lists what it found.
LEMMA NeedByMdmon ==
  ASSUME Types, OwnerInv, NeedInv, NEW c \in Container, MdmonStep(c)
  PROVE  NeedInv'
<1> USE DEF MdmonStep
<1>0. UNCHANGED <<monVars, mon, job, place, world, work>>
  BY DEF Mdmon, MonitorThread, Manager, Record, ApplyUpdate, Wake, ManageContainer, Activate,
     StartRecovery, GoToSleep, LookAt, Answer, driver, monVars
<1>1. LackInv' /\ PlaceInv'  BY <1>0, LackKept DEF NeedInv
<1>t. /\ todo \in [Container -> SUBSET (Container \cup Volume)]
      /\ ping \in [Container -> SUBSET (Mdadm \X Kind)]
      /\ known \in [Container -> SUBSET Spare] /\ listed \in [Container -> SUBSET Spare]
      /\ recorded \in [Container -> 0..RaidDisks] /\ work \in [Group -> 0..RaidDisks]
      /\ c \in Group /\ c \notin VolumesOf[c]
  BY ContainerAssumption, Groups DEF Types, TypeOK, BaseTypeOK, Kind, Group
<1>i. Informed(c) /\ Noticed(c)  BY DEF NeedInv, OwnerInv
<1>2. ASSUME Informed(c)',
             \A d \in Container \ {c} :
                 /\ recorded'[d] = recorded[d] /\ known'[d] = known[d] /\ listed'[d] = listed[d]
                 /\ todo'[d] = todo[d] /\ ping'[d] = ping[d]
      PROVE  NeedInv'
  <2>1. ASSUME NEW d \in Container, d # c PROVE Informed(d)'
    BY <1>0, <1>2, <2>1, InformedKept DEF NeedInv, Asked
  <2> QED  BY <1>1, <1>2, <2>1 DEF NeedInv
<1>3. ASSUME UNCHANGED <<recorded, known, listed, ping>>, c \in todo[c] => c \in todo'[c],
             \A d \in Container \ {c} : todo'[d] = todo[d]
      PROVE  NeedInv'
  BY <1>0, <1>2, <1>3, <1>i, InformedKept DEF Asked
<1>d. DevicesOf(c)' = DevicesOf(c)  BY <1>0 DEF DevicesOf
<1>4. CASE Record(c)
  <2>1. work'[c] <= recorded'[c]  BY <1>0, <1>t, <1>4 DEF Record
  <2>2. UNCHANGED <<known, listed, todo, ping>>  BY <1>4 DEF Record
  <2>3. Informed(c)'  BY <1>0, <1>d, <1>i, <2>1, <2>2 DEF Informed, Entering, To, From, Asked
  <2> QED  BY <1>2, <1>4, <2>2, <2>3 DEF Record
<1>5. CASE ApplyUpdate(c)
  <2>1. UNCHANGED <<recorded, known, todo, ping>> /\ known[c] \subseteq listed'[c]
    BY <1>t, <1>5 DEF ApplyUpdate
  <2>2. \A d \in Container \ {c} : listed'[d] = listed[d]  BY <1>5 DEF ApplyUpdate
  <2>3. Informed(c)'  BY <1>0, <1>d, <1>i, <2>1 DEF Informed, Entering, To, From, Asked
  <2> QED  BY <1>2, <2>1, <2>2, <2>3
<1>6. CASE Wake(c)
  BY <1>3, <1>t, <1>6 DEF Wake, record
<1>7. CASE ManageContainer(c)
  <2> USE <1>7 DEF ManageContainer
  <2>1. UNCHANGED <<recorded, listed, ping>> /\ \A d \in Container \ {c} : known'[d] = known[d] /\ todo'[d] = todo[d]
    BY DEF record
  <2>2. \A s \in DevicesOf(c) : s \in known[c] => s \in known'[c]  BY <1>t
  <2>3. To(c, {"told"}) => DevicesOf(c) \subseteq known'[c]
    <3> SUFFICES ASSUME To(c, {"told"}) PROVE DevicesOf(c) \subseteq known'[c]  OBVIOUS
    <3>1. known[c] \subseteq DevicesOf(c)  BY <1>i DEF Noticed, From, To
    <3>2. CASE Cardinality(DevicesOf(c)) = Cardinality(known[c])
      <4>1. IsFiniteSet(DevicesOf(c))  BY <1>t, Loads
      <4> QED  BY <3>1, <3>2, <4>1, FS_Subset
    <3>3. CASE Cardinality(DevicesOf(c)) # Cardinality(known[c])
      BY <1>t, <3>3
    <3> QED  BY <3>2, <3>3
  <2>4. To(c, {"told"}) => job.spare \in DevicesOf(c)
    BY <1>i DEF Informed, DevicesOf, To, OwnerInv, JobInv
  <2>5. Informed(c)'
    BY <1>0, <1>d, <1>i, <2>1, <2>2, <2>3, <2>4 DEF Informed, Entering, To, From, Asked
  <2> QED  BY <1>2, <2>1, <2>5
<1>8. CASE Activate(c) \/ StartRecovery(c) \/ GoToSleep(c)
  BY <1>3, <1>8 DEF Activate, StartRecovery, GoToSleep, record
<1>9. ASSUME NEW v \in VolumesOf[c], LookAt(c, v) PROVE NeedInv'
  <2>1. UNCHANGED <<recorded, known, listed, ping>>  BY <1>9 DEF LookAt, record
  <2>2. todo' = [todo EXCEPT ![c] = @ \ {v}]  BY <1>9 DEF LookAt
  <2> QED  BY <1>3, <1>t, <2>1, <2>2
<1>10. ASSUME NEW p \in ping[c], Answer(c, p) PROVE NeedInv'
  <2> USE <1>10 DEF Answer
  <2>1. UNCHANGED <<recorded, known, listed>> /\ \A d \in Container \ {c} : todo'[d] = todo[d] /\ ping'[d] = ping[d]
    BY <1>t DEF record
  <2>2. c \notin queued /\ c \notin todo[c] /\ known[c] \subseteq listed[c]  BY <1>i DEF Noticed
  <2>3. Informed(c)'
    <3>1. CASE p[2] = "manager"
      <4>1. c \in todo'[c] /\ ping'[c] = (ping[c] \ {p}) \cup {<<p[1], "again">>}  BY <1>t, <3>1
      <4>2. <<"monitor", "manager">>[2] = "manager" /\ <<"monitor", "again">>[2] = "again"
            /\ <<"monitor", "manager">>[1] = "monitor"
        OBVIOUS
      <4>3. Asked(c, "again") => Asked(c, "again")'  BY <3>1, <4>1, <4>2 DEF Asked
      <4>4. Asked(c, "manager") => Asked(c, "manager")' \/ Asked(c, "again")'
        BY <4>1, <4>2 DEF Asked
      <4> QED  BY <1>0, <1>d, <1>i, <2>1, <4>1, <4>3, <4>4 DEF Informed, Entering, To, From
    <3>2. CASE p[2] # "manager"
      <4>1. todo' = todo /\ ping'[c] = ping[c] \ {p}  BY <1>t, <3>2
      <4>2. Asked(c, "manager") => Asked(c, "manager")'  BY <3>2, <4>1 DEF Asked
      <4>3. To(c, {"told"}) /\ ~Asked(c, "manager") => job.spare \in listed[c] /\ job.spare \in known[c]
        BY <1>i, <2>2 DEF Informed
      <4> QED  BY <1>0, <1>d, <1>i, <2>1, <4>1, <4>2, <4>3 DEF Informed, Entering, To, From
    <3> QED  BY <3>1, <3>2
  <2> QED  BY <1>2, <2>1, <2>3
<1> QED
  BY <1>4, <1>5, <1>6, <1>7, <1>8, <1>9, <1>10 DEF Mdmon, MonitorThread, Manager

\* mdadm --monitor itself.
LEMMA NeedByMonitor ==
  Types /\ Holding /\ OwnerInv /\ NotPutBack /\ NeedInv /\ MonGoesOn => NeedInv'
<1> SUFFICES ASSUME Types, Holding, OwnerInv, NotPutBack, NeedInv, MonGoesOn PROVE NeedInv'  OBVIOUS
<1>i. /\ JobInv /\ WaitInv /\ SpareInv /\ LackInv /\ PlaceInv
      /\ \A c \in Container : Noticed(c) /\ Informed(c)
  BY DEF OwnerInv, NeedInv
<1>t. /\ place \in [Spare -> Group \cup {Nowhere}] /\ seen \in [Array -> [active : Nat, spares : SUBSET Spare]]
      /\ short \subseteq Array /\ unread \subseteq Array /\ Native \subseteq Array
      /\ Nowhere \notin Group /\ Native \subseteq Group /\ Container \subseteq Group
      /\ \A c \in Container : c \notin Native
  BY ScenarioAssumption, Groups DEF Types, TypeOK, BaseTypeOK, MonTypeOK, Array, Group
<1>j. /\ job \in JobState
      /\ \A d : NextDonor /\ d = job' => d.to = job.to /\ d.from = Nowhere /\ mon' = "donor"
  BY DEF NextDonor, JobState, Types, TypeOK, MonTypeOK
<1>0. UNCHANGED <<world, work, slots, recorded, known, listed, todo, assigned>>
  BY DEF MonGoesOn, MonStep, NextTurn, JobOver, CheckArray, LookAfter, TryDonor, OpenDonor,
     CheckHolder, HotRemove, Removed, Add, CannotAdd, Added, Told, Moved, driver, record, mdmon
<1>q. UNCHANGED growVars  BY DEF MonGoesOn
\* A step after which no group has more devices than before.
<1>1. ASSUME mon \notin {"adding", "told", "backing"}, mon' \notin {"adding", "told"},
             \A s \in Spare : place'[s] \in {place[s], Nowhere}
      PROVE  \A c \in Container : Informed(c)' /\ DevicesOf(c)' \subseteq DevicesOf(c)
  <2>1. \A c \in Container : DevicesOf(c)' \subseteq DevicesOf(c)
    BY <1>1, <1>t DEF DevicesOf
  <2> QED  BY <1>0, <1>1, <1>i, <2>1 DEF Informed, Entering, To, From
<1>2. ASSUME UNCHANGED place, InHand' <=> InHand, InHand => job' = job
      PROVE  PlaceInv' /\ \A g : Lacking(g)' = Lacking(g)
  <2>1. \A s : At(s)' = At(s)  BY <1>2 DEF At, InHand
  <2>2. \A g : Counted(g)' = Counted(g)  BY <2>1 DEF Counted
  <2> QED  BY <1>0, <1>2, <1>i, <2>1, <2>2 DEF PlaceInv, Lacking, DevicesOf
\* A step of move_spare that moves nothing.
<1>3. ASSUME UNCHANGED <<place, unread, seen, short>>,
             mon \in {"open", "check", "remove", "removed", "add", "backing"},
             \/ mon' \in {"check", "remove", "add", "back"} /\ job' = job
             \/ NextDonor,
             InHand' <=> InHand
      PROVE  LackInv' /\ PlaceInv'
  <2>1. InHand => job' = job  BY <1>3 DEF InHand, NextDonor
  <2>2. PlaceInv' /\ \A g : Lacking(g)' = Lacking(g)  BY <1>2, <1>3, <2>1
  <2>3. CASE mon' \in {"check", "remove", "add", "back"} /\ job' = job
    BY <1>3, <1>i, <2>2, <2>3 DEF LackInv
  <2>4. CASE NextDonor
    BY <1>3, <1>i, <1>j, <2>2, <2>4 DEF LackInv
  <2> QED  BY <1>3, <2>2, <2>3, <2>4
<1>4. CASE NextTurn
  <2> USE <1>4 DEF NextTurn
  <2>1. UNCHANGED place  BY DEF driver
  <2>2. PlaceInv'  BY <1>2, <2>1 DEF InHand
  <2>3. LackInv'  BY DEF LackInv
  <2> QED  BY <1>1, <2>1, <2>2, <2>3 DEF NeedInv
<1>5. ASSUME NEW a \in Array, CheckArray(a) PROVE NeedInv'
  <2> USE <1>5 DEF CheckArray
  <2>1. UNCHANGED <<place, synced>> /\ mon = "read" /\ mon' \in {"read", "link"} /\ a \in unread /\ unread' = unread \ {a}
    BY DEF driver, Last
  <2>2. PlaceInv' /\ \A g : Lacking(g)' = Lacking(g)  BY <1>2, <2>1 DEF InHand
  <2>3. seen'[a].active = InSync(a) /\ \A b \in Array \ {a} : seen'[b] = seen[b]  BY <1>t
  <2>4. short' = short \/ (short' = short \cup {a} /\ InSync(a) < RaidDisks /\ (a \in Native => DevicesOf(a) \subseteq {s \in Spare : a \in synced[s]}))
    BY DEF DevicesOf
  <2>5. a \in Native /\ InSync(a) < RaidDisks /\ DevicesOf(a) \subseteq {s \in Spare : a \in synced[s]} => Lacking(a)
    <3> SUFFICES ASSUME a \in Native, InSync(a) < RaidDisks, DevicesOf(a) \subseteq {s \in Spare : a \in synced[s]}
                 PROVE  Lacking(a)
      OBVIOUS
    <3> DEFINE S == {s \in Spare : a \in synced[s]}
    <3>1. GroupOf(a) = a /\ work[a] \in Nat /\ Cardinality(DevicesOf(a)) \in Nat  BY <1>t, Groups, Loads
    <3>2. IsFiniteSet(S) /\ Cardinality(S) \in Nat  BY Counts
    <3>3. Cardinality(DevicesOf(a)) <= Cardinality(S)  BY <3>2, FS_Subset
    <3> QED  BY <3>1, <3>2, <3>3, RaidDisksAssumption DEF InSync, Lacking
  <2>6. LackInv'
    <3>1. short' \cap unread' = {}  BY <1>i, <2>1, <2>4 DEF LackInv
    <3>2. \A b \in short' : seen'[b].active < RaidDisks /\ (b \in Native => Lacking(b))
      BY <1>i, <1>t, <2>1, <2>3, <2>4, <2>5 DEF LackInv
    <3> QED  BY <2>1, <2>2, <3>1, <3>2 DEF LackInv
  <2> QED  BY <1>1, <2>1, <2>2, <2>6 DEF NeedInv
<1>6. ASSUME NEW a \in Array, LookAfter(a) PROVE NeedInv'
  <2> USE <1>6 DEF LookAfter
  <2>1. UNCHANGED <<place, seen, unread>> /\ mon = "link" /\ a \in short /\ short' = short \ {a}
    BY DEF driver, Last
  <2>2. mon' \in {"link", "donor"}  OBVIOUS
  <2>3. PlaceInv' /\ \A g : Lacking(g)' = Lacking(g)  BY <1>2, <2>1, <2>2 DEF InHand
  <2>4. CASE HasSpare(a)
    <3>1. mon' = "link"  BY <2>1, <2>4
    <3>2. LackInv'  BY <1>i, <2>1, <2>3, <3>1 DEF LackInv
    <3> QED  BY <1>1, <2>1, <2>2, <2>3, <3>2 DEF NeedInv
  <2>5. CASE ~HasSpare(a)
    <3>1. mon' = "donor" /\ job'.to = GroupOf(a)  BY <2>5 DEF NoJob
    <3>2. CASE a \in Native
      <4>1. GroupOf(a) = a /\ Lacking(a)  BY <1>i, <2>1, <3>2, Groups DEF LackInv
      <4> QED  BY <1>1, <1>i, <2>1, <2>2, <2>3, <3>1, <4>1 DEF NeedInv, LackInv
    <3>3. CASE a \in Volume
      <4>1. PICK c \in Container : a \in VolumesOf[c]  BY <3>3 DEF Volume
      <4>2. GroupOf(a) = c /\ c \notin Array  BY <4>1, Groups, <1>t, ContainerAssumption DEF Array
      <4>3. listed[c] \subseteq assigned[c] /\ ~(seen[a].active < recorded[c] + Cardinality(assigned[c]))
        BY <2>5, <3>3, <4>2 DEF HasSpare, Spares, NowActive
      <4>4. DevicesOf(c) \subseteq assigned[c]
        BY <1>i, <2>1, <4>3 DEF Informed, Entering, To, From
      <4>5. assigned[c] \subseteq Spare /\ recorded[c] \in Nat /\ work[c] \in Nat /\ Cardinality(DevicesOf(c)) \in Nat
        BY <1>t, Loads, RaidDisksAssumption DEF Types, TypeOK, BaseTypeOK
      <4>6. IsFiniteSet(assigned[c]) /\ Cardinality(assigned[c]) \in Nat  BY <4>5, Counts
      <4>7. Cardinality(DevicesOf(c)) <= Cardinality(assigned[c])  BY <4>4, <4>6, FS_Subset
      <4>8. seen[a].active < RaidDisks /\ seen[a].active \in Nat  BY <1>i, <1>t, <2>1 DEF LackInv
      <4>9. work[c] <= recorded[c]  BY <1>i DEF Informed
      <4>10. Lacking(c)
        BY <4>3, <4>5, <4>6, <4>7, <4>8, <4>9, RaidDisksAssumption DEF Lacking
      <4>11. job'.to \notin short'  BY <1>t, <2>1, <3>1, <4>2
      <4> QED  BY <1>1, <1>i, <2>1, <2>2, <2>3, <3>1, <4>2, <4>10, <4>11 DEF NeedInv, LackInv
    <3> QED  BY <3>2, <3>3 DEF Array
  <2> QED  BY <2>4, <2>5
<1>7. ASSUME NEW from \in Group, TryDonor(from) PROVE NeedInv'
  <2> USE <1>7 DEF TryDonor
  <2>1. UNCHANGED <<place, seen, unread, short>> /\ mon = "donor" /\ mon' \in {"open", "donor"}
    BY DEF driver
  <2>2. job'.to = job.to /\ (mon' = "open" => job'.from = from /\ CheckDonor(from, job.to))
    BY <1>j DEF JobState
  <2>3. PlaceInv' /\ \A g : Lacking(g)' = Lacking(g)  BY <1>2, <2>1 DEF InHand
  <2>4. mon' = "open" /\ from \in Native => seen[from].active >= RaidDisks
    BY <2>2 DEF CheckDonor, Arrays
  <2>5. LackInv'  BY <1>i, <2>1, <2>2, <2>3, <2>4 DEF LackInv
  <2> QED  BY <1>1, <2>1, <2>3, <2>5 DEF NeedInv
<1>8. CASE JobOver
  <2>1. UNCHANGED <<place, seen, unread, short>> /\ mon = "donor" /\ mon' = "link"
    BY <1>8 DEF JobOver, driver
  <2>2. PlaceInv' /\ \A g : Lacking(g)' = Lacking(g)  BY <1>2, <2>1 DEF InHand
  <2>3. LackInv'  BY <1>i, <2>1, <2>2 DEF LackInv
  <2> QED  BY <1>1, <2>1, <2>2, <2>3 DEF NeedInv
<1>9. CASE OpenDonor
  <2> USE <1>9 DEF OpenDonor
  <2>1. UNCHANGED <<place, seen, unread, short>> /\ mon = "open"  BY DEF driver
  <2>2. (mon' \in {"check", "remove"} /\ job' = job) \/ NextDonor  OBVIOUS
  <2>3. LackInv' /\ PlaceInv'  BY <1>3, <2>1, <2>2 DEF InHand, NextDonor
  <2> QED  BY <1>1, <2>1, <2>2, <2>3 DEF NeedInv, NextDonor
<1>10. CASE CheckHolder
  <2> USE <1>10 DEF CheckHolder
  <2>1. UNCHANGED <<place, seen, unread, short>> /\ mon = "check"  BY DEF driver
  <2>2. (mon' = "remove" /\ job' = job) \/ NextDonor  OBVIOUS
  <2>3. LackInv' /\ PlaceInv'  BY <1>3, <2>1, <2>2 DEF InHand, NextDonor
  <2> QED  BY <1>1, <2>1, <2>2, <2>3 DEF NeedInv, NextDonor
<1>11. CASE HotRemove
  <2> USE <1>11 DEF HotRemove
  <2>0. mon = "remove" /\ job.spare \in Spare /\ job.from \in Group /\ job.to \in Group
        /\ UNCHANGED <<seen, unread, short>>
    BY <1>i DEF JobInv
  <2>1. CASE place[job.spare] = job.from /\ mon' = "removed" /\ place' = [place EXCEPT ![job.spare] = Nowhere]
             /\ UNCHANGED job
    <3>1. \A s \in Spare : At(s)' = At(s)  BY <1>t, <2>0, <2>1 DEF At, InHand
    <3>2. \A g : Counted(g)' = Counted(g)  BY <3>1 DEF Counted
    <3>3. PlaceInv'  BY <1>0, <1>i, <3>1, <3>2 DEF PlaceInv
    <3>4. ASSUME NEW g \in Group, Lacking(g) PROVE Lacking(g)'
      <4>1. DevicesOf(g)' \subseteq DevicesOf(g)  BY <1>t, <2>1 DEF DevicesOf
      <4>2. /\ IsFiniteSet(DevicesOf(g)) /\ Cardinality(DevicesOf(g)) \in Nat /\ work[g] \in Nat
        BY Loads
      <4>3. Cardinality(DevicesOf(g)') <= Cardinality(DevicesOf(g)) /\ Cardinality(DevicesOf(g)') \in Nat
        BY <4>1, <4>2, FS_Subset, FS_CardinalityType
      <4> QED  BY <1>0, <3>4, <4>2, <4>3, RaidDisksAssumption DEF Lacking
    <3>5. LackInv'  BY <1>i, <1>t, <2>0, <2>1, <3>4 DEF LackInv
    <3>6. \A s \in Spare : place'[s] \in {place[s], Nowhere}  BY <1>t, <2>1
    <3> QED  BY <1>1, <2>0, <2>1, <3>3, <3>5, <3>6 DEF NeedInv
  <2>2. CASE NextDonor /\ UNCHANGED place
    <3>1. LackInv' /\ PlaceInv'  BY <1>3, <2>0, <2>2 DEF InHand, NextDonor
    <3> QED  BY <1>1, <2>0, <2>2, <3>1 DEF NeedInv, NextDonor
  <2> QED  BY <2>1, <2>2
<1>12. CASE Removed
  <2> USE <1>12 DEF Removed
  <2>1. UNCHANGED <<place, seen, unread, short, job>> /\ mon = "removed" /\ mon' = "add"  BY DEF driver
  <2>3. LackInv' /\ PlaceInv'  BY <1>3, <2>1 DEF InHand
  <2> QED  BY <1>1, <2>1, <2>3 DEF NeedInv
<1>13. CASE CannotAdd
  <2> USE <1>13 DEF CannotAdd
  <2>0. UNCHANGED <<place, seen, unread, short>> /\ mon \in {"add", "back"}  BY DEF driver
  <2>1. place[job.spare] = Nowhere /\ slots[job.spare] = {} /\ Target \in Container /\ holder[Target] # Nowhere
    BY <1>i, <2>0 DEF SpareInv, InHand, CanAdd
  <2>2. mon = "add"
    <3>1. mon # "back"  BY <1>i, <2>1 DEF JobInv, Target
    <3> QED  BY <2>0, <3>1
  <2>3. mon' = "back" /\ job' = job  BY <2>2
  <2>4. LackInv' /\ PlaceInv'  BY <1>3, <2>0, <2>2, <2>3 DEF InHand
  <2> QED  BY <1>1, <2>0, <2>2, <2>3, <2>4 DEF NeedInv
<1>14. CASE Add
  <2> USE <1>14 DEF Add, CanAdd
  <2>0. PICK s \in Spare, g \in Group :
        /\ mon \in {"add", "back"} /\ s = job.spare /\ UNCHANGED <<job, seen, unread, short>>
        /\ place[s] = Nowhere /\ mon' = IF mon = "add" THEN "adding" ELSE "backing"
        /\ g = IF mon = "back" THEN job.from ELSE job.to
        /\ job.from \in Group /\ job.to \in Group /\ job.from # job.to
        /\ \A t \in Spare : place'[t] = IF t = s THEN g ELSE place[t]
    BY <1>i, <1>t DEF JobInv, Target
  <2> HIDE <1>14
  <2>2. \A h \in Group : h # g => DevicesOf(h)' = DevicesOf(h)
    BY <1>t, <2>0 DEF DevicesOf
  <2>3. DevicesOf(g)' = DevicesOf(g) \cup {s}  BY <2>0 DEF DevicesOf
  <2>4. \A h \in Group : h # g => Lacking(h)' = Lacking(h)  BY <1>0, <2>2 DEF Lacking
  <2>5. ASSUME NEW a \in short, a \in Native PROVE a # g
    <3>1. CASE mon = "add"  BY <1>i, <2>0, <2>5, <3>1 DEF LackInv
    <3>2. CASE mon = "back"
      <4>1. seen[a].active < RaidDisks /\ seen[a].active \in Nat  BY <1>i, <1>t, <2>5 DEF LackInv
      <4>2. a = job.from => seen[a].active >= RaidDisks  BY <1>i, <2>5, <3>2 DEF LackInv
      <4> QED  BY <2>0, <3>2, <4>1, <4>2, RaidDisksAssumption
    <3> QED  BY <2>0, <3>1, <3>2
  <2>6. LackInv'
    <3>1. \A a \in short' : seen'[a].active < RaidDisks /\ (a \in Native => Lacking(a)')
      BY <1>i, <1>t, <2>0, <2>4, <2>5 DEF LackInv
    <3>2. mon' = "backing" => Lacking(job.to)'
      <4>1. \A h \in Group : h = job.to /\ mon' = "backing" => Lacking(h)'
        BY <1>i, <2>0, <2>4 DEF LackInv
      <4> QED  BY <2>0, <4>1
    <3> QED  BY <1>i, <2>0, <3>1, <3>2 DEF LackInv
  <2>7. PlaceInv'
    <3>1. \A t \in Spare : At(t)' = place'[t]  BY <2>0 DEF At, InHand
    <3>2. \A t \in Spare \ {s} : At(t) = place[t]  BY <2>0 DEF At
    <3>3. At(s) = job.from  BY <2>0 DEF At, InHand
    <3>4. CASE mon = "back"
      <4>1. \A t \in Spare : At(t)' = At(t)  BY <2>0, <3>1, <3>2, <3>3, <3>4
      <4>2. \A h : Counted(h)' = Counted(h)  BY <4>1 DEF Counted
      <4> QED  BY <1>0, <1>i, <4>1, <4>2 DEF PlaceInv
    <3>5. CASE mon = "add"
      <4>1. g = job.to /\ Lacking(g)  BY <1>i, <2>0, <3>5 DEF LackInv
      <4>2. Counted(g)' = DevicesOf(g) \cup {s}  BY <2>0, <3>1 DEF Counted, DevicesOf
      <4>3. IsFiniteSet(DevicesOf(g)) /\ Cardinality(DevicesOf(g)) \in Nat /\ work[g] \in Nat  BY Loads
      <4>4. Cardinality(Counted(g)') <= Cardinality(DevicesOf(g)) + 1 /\ Cardinality(Counted(g)') \in Nat
        <5>1. /\ IsFiniteSet(DevicesOf(g) \cup {s})
              /\ Cardinality(DevicesOf(g) \cup {s}) <= Cardinality(DevicesOf(g)) + 1
          BY <4>3, OneMore
        <5> QED  BY <4>2, <5>1, FS_CardinalityType
      <4>5. work'[g] + Cardinality(Counted(g)') <= RaidDisks
        BY <1>0, <4>1, <4>3, <4>4, RaidDisksAssumption DEF Lacking
      <4>6. ASSUME NEW t \in Spare, NEW h, h = place[t], h # world.home[t], t # s, h # g
            PROVE  work'[h] + Cardinality(Counted(h)') <= RaidDisks
        <5>1. At(t) = h /\ h \in Group
          BY <1>i, <1>t, <2>0, <3>2, <4>6 DEF SpareInv
        <5>2. Counted(h)' \subseteq Counted(h)
          BY <2>0, <3>1, <3>2, <3>3, <4>6 DEF Counted
        <5>3. IsFiniteSet(Counted(h)) /\ Cardinality(Counted(h)) \in Nat  BY Counts DEF Counted
        <5>4. Cardinality(Counted(h)') <= Cardinality(Counted(h)) /\ Cardinality(Counted(h)') \in Nat
          BY <5>2, <5>3, FS_Subset, FS_CardinalityType
        <5>5. work[h] + Cardinality(Counted(h)) <= RaidDisks /\ work[h] \in Nat
          BY <1>i, <4>6, <5>1, Loads DEF PlaceInv
        <5> QED  BY <1>0, <5>3, <5>4, <5>5, RaidDisksAssumption
      <4>7. ASSUME NEW t \in Spare, NEW h, h = place'[t], h # world.home[t]
            PROVE  work'[h] + Cardinality(Counted(h)') <= RaidDisks
        <5>1. CASE h = g  BY <4>5, <5>1
        <5>2. CASE h # g  BY <2>0, <4>6, <4>7, <5>2
        <5> QED  BY <5>1, <5>2
      <4> QED  BY <1>0, <3>1, <4>7 DEF PlaceInv
    <3> QED  BY <2>0, <3>4, <3>5
  <2>8. ASSUME NEW c \in Container PROVE Informed(c)'
    <3>1. ~To(c, {"told"})' /\ (To(c, {"adding", "told"})' => place'[job'.spare] = c)
      BY <2>0 DEF To
    <3>2. \A t \in DevicesOf(c) : t \in known[c] \cap listed[c]
      BY <1>i, <2>0 DEF Informed, Entering, To, From
    <3>3. c = g => Entering(c)'  BY <2>0 DEF Entering, To, From
    <3>4. \A t \in DevicesOf(c)' : t \in DevicesOf(c) \/ (t = job'.spare /\ c = g)
      BY <1>t, <2>0, <2>2, <2>3
    <3> QED  BY <1>0, <1>i, <3>1, <3>2, <3>3, <3>4 DEF Informed
  <2> QED  BY <2>6, <2>7, <2>8 DEF NeedInv
<1>15. CASE Added
  <2> USE <1>15 DEF Added
  <2>0. UNCHANGED <<place, seen, unread, short>>  BY DEF driver
  <2>1. CASE mon = "adding"
    <3>1. mon' = "told" /\ ping' = Pinging(job.to, "manager") /\ UNCHANGED job  BY <2>1
    <3>2. PlaceInv' /\ \A g : Lacking(g)' = Lacking(g)  BY <1>2, <2>0, <2>1, <3>1 DEF InHand
    <3>3. LackInv'  BY <1>i, <2>0, <2>1, <3>1, <3>2 DEF LackInv
    <3>4. ASSUME NEW c \in Container PROVE Informed(c)'
      <4>1. c = job.to => Asked(c, "manager")'
        <5>1. BaseTypeOK  BY DEF Types, TypeOK
        <5>2. Pinging(job.to, "manager")[c] = IF c = job.to THEN ping[c] \cup {<<"monitor", "manager">>} ELSE ping[c]
          BY <5>1, Pings
        <5> QED  BY <3>1, <5>2 DEF Asked
      <4>2. Entering(c) => Entering(c)'  BY <2>1, <3>1 DEF Entering, To, From
      <4>3. To(c, {"adding", "told"})' \/ To(c, {"told"})' => c = job.to  BY <3>1 DEF To
      <4>4. DevicesOf(c)' = DevicesOf(c)  BY <2>0 DEF DevicesOf
      <4>5. c = job.to => place[job.spare] = c
        BY <1>i, <2>1 DEF Informed, To
      <4> QED  BY <1>0, <1>i, <2>0, <3>1, <4>1, <4>2, <4>3, <4>4, <4>5 DEF Informed
    <3> QED  BY <3>2, <3>3, <3>4 DEF NeedInv
  <2>2. CASE mon = "backing"
    <3>1. NextDonor /\ job.from \notin Container  BY <2>2 DEF NotPutBack
    <3>2. LackInv' /\ PlaceInv'  BY <1>3, <2>0, <2>2, <3>1 DEF InHand, NextDonor
    <3>3. ASSUME NEW c \in Container PROVE Informed(c)'
      <4>1. ~Entering(c) /\ ~To(c, {"told"})' /\ ~To(c, {"adding", "told"})'  BY <2>2, <3>1 DEF Entering, To, From, NextDonor
      <4>2. DevicesOf(c)' = DevicesOf(c)  BY <2>0 DEF DevicesOf
      <4> QED  BY <1>0, <1>i, <4>1, <4>2 DEF Informed
    <3> QED  BY <3>2, <3>3 DEF NeedInv
  <2> QED  BY <2>1, <2>2
<1>16. CASE Told
  <2> USE <1>16 DEF Told
  <2>0. UNCHANGED <<place, seen, unread, short, job>> /\ mon = "told" /\ mon' = "moved"  BY DEF driver
  <2>1. PlaceInv' /\ \A g : Lacking(g)' = Lacking(g)  BY <1>2, <2>0 DEF InHand
  <2>2. LackInv'  BY <1>i, <2>0, <2>1 DEF LackInv
  <2>3. ASSUME NEW c \in Container PROVE Informed(c)'
    <3>1. c = job.to => ~Asked(c, "manager") /\ ~Asked(c, "again")
      <4>1. \A k \in Kind : <<"monitor", k>> \in {"monitor"} \X {"monitor", "manager", "again"}  BY DEF Kind
      <4> QED  BY <4>1 DEF Waiting, Asked, Kind
    <3>2. Entering(c) => job.spare \in known[c] \cap listed[c]
      BY <1>i, <2>0, <3>1 DEF Informed, Entering, To, From
    <3>3. DevicesOf(c)' = DevicesOf(c) /\ ~To(c, {"told"})' /\ ~To(c, {"adding", "told"})'
      BY <2>0 DEF DevicesOf, To
    <3> QED  BY <1>0, <1>i, <2>0, <3>2, <3>3 DEF Informed
  <2> QED  BY <2>1, <2>2, <2>3 DEF NeedInv
<1>17. CASE Moved
  <2>1. UNCHANGED <<place, seen, unread, short>> /\ mon = "moved" /\ mon' = "link"
    BY <1>17 DEF Moved, driver
  <2>2. PlaceInv' /\ \A g : Lacking(g)' = Lacking(g)  BY <1>2, <2>1 DEF InHand
  <2>3. LackInv'  BY <1>i, <2>1, <2>2 DEF LackInv
  <2> QED  BY <1>1, <2>1, <2>2, <2>3 DEF NeedInv
<1> QED
  BY <1>4, <1>5, <1>6, <1>7, <1>8, <1>9, <1>10, <1>11, <1>12, <1>13, <1>14, <1>15, <1>16, <1>17
  DEF MonGoesOn, MonStep

\* A group gets a spare of another only if it lacks one, as long as none is put back into a
\* container: move_spare does not ask the manager of that one to look at its devices, and
\* what mdadm --monitor reads of the metadata next may lack the spare.
THEOREM MovedForNeed == Calm /\ Spec /\ []NotPutBack => []NotForNothing
<1> DEFINE Inv == Types /\ Holding /\ Calm /\ OwnerInv /\ NeedInv
<1>1. Calm /\ Init => Inv
  <2> SUFFICES ASSUME Calm, Init PROVE Inv  OBVIOUS
  <2>1. Types /\ Holding /\ OwnerInv  BY OwnerStart
  <2> USE DEF Init, BaseInit, GrowInit, MonInit
  <2>2. LackInv  BY DEF LackInv
  <2>3. PlaceInv  BY DEF PlaceInv, At, InHand
  <2>4. ASSUME NEW c \in Container PROVE Informed(c)
    BY RaidDisksAssumption DEF Informed, DevicesOf, To, Group
  <2> QED  BY <2>1, <2>2, <2>3, <2>4 DEF NeedInv
<1>2. Inv /\ NotPutBack /\ [Next]_vars => Inv'
  <2> SUFFICES ASSUME Inv, NotPutBack, [Next]_vars PROVE Inv'  OBVIOUS
  <2>1. Types' /\ Holding' /\ Calm' /\ OwnerInv'  BY OwnerKept
  <2>2. NeedInv'
    <3>1. CASE UNCHANGED vars
      <4>1. UNCHANGED <<monVars, mon, job, place, world, work, recorded, known, listed, todo, ping>>
        BY <3>1 DEF vars, baseVars, driver, record, mdmon, monVars
      <4>2. LackInv' /\ PlaceInv'  BY <4>1, LackKept DEF NeedInv
      <4> QED  BY <4>1, <4>2, InformedKept DEF NeedInv, Asked
    <3>2. CASE Next
      BY <3>2, NeedByOthers, NeedByFailure, NeedByMdmon, NeedByMonitor DEF Next
    <3> QED  BY <3>1, <3>2
  <2> QED  BY <2>1, <2>2
<1>3. Inv => NotForNothing
  <2> SUFFICES ASSUME Inv, NEW s \in Spare, place[s] \notin {world.home[s], Nowhere}
               PROVE  work[place[s]] + Cardinality(DevicesOf(place[s])) <= RaidDisks
    BY DEF NotForNothing
  <2>1. At(s) = place[s]  BY DEF At, OwnerInv, SpareInv
  <2>2. place[s] \in Group  BY DEF Types, TypeOK, BaseTypeOK
  <2>3. DevicesOf(place[s]) \subseteq Counted(place[s])
    BY <2>2, ScenarioAssumption DEF DevicesOf, Counted, At, OwnerInv, SpareInv
  <2>4. IsFiniteSet(Counted(place[s])) /\ Cardinality(Counted(place[s])) \in Nat  BY Counts DEF Counted
  <2>5. Cardinality(DevicesOf(place[s])) <= Cardinality(Counted(place[s]))  BY <2>3, <2>4, FS_Subset
  <2>6. work[place[s]] \in Nat /\ Cardinality(DevicesOf(place[s])) \in Nat  BY <2>2, Loads
  <2>7. work[place[s]] + Cardinality(Counted(place[s])) <= RaidDisks  BY <2>1 DEF NeedInv, PlaceInv
  <2> QED  BY <2>4, <2>5, <2>6, <2>7, RaidDisksAssumption
<1> QED  BY <1>1, <1>2, <1>3, PTL DEF Spec
=============================================================================
