--------------------------- MODULE MdmonLifeProofs ---------------------------
(***************************************************************************)
(* One mdmon looks after the array at a time, for any number of processes  *)
(* that take over from one another, and whoever of those that run is       *)
(* killed.                                                                 *)
(***************************************************************************)
EXTENDS MdmonLife, TLAPS

\* What the theorem leaves out: MdmonLife names each, and each breaks it.
Careful == Happens \cap {"killearly", "race", "slow", "crossed"} = {}

LifeTypes ==
    /\ pidfile \in ProcOrNone /\ sockfile \in ProcOrNone
    /\ pc \in [Mdmon -> {"none", "victim", "wait", "managing", "exited", "killed"} \cup Starting]
    /\ victim \in [Mdmon -> ProcOrNone] /\ victimSock \in [Mdmon -> ProcOrNone]
    /\ signal \in [Mdmon -> {"none", "sent", "seen"}] /\ acts \in [Mdmon -> BOOLEAN]

\* A parent returns when its mdmon has started, and mdmon are started in turn.
Solo == \A p, q \in Mdmon : pc[p] \in Starting /\ pc[q] \in Starting => p = q

OnlyManagers == \A p \in Mdmon : acts[p] \/ signal[p] = "seen" => pc[p] = "managing"

OwnFile == \A p \in Mdmon : /\ pc[p] = "pidfile" => pidfile = NoProc
                            /\ pc[p] = "socket" => pidfile = p

\* p has started, and looks after the array or may yet do so.
CouldAct(p) == Listening(p) /\ (signal[p] = "seen" => acts[p])

\* Those form a line: each waits for the one before it, and the files name the
\* last, which is the one that the next will ask to leave.
Everyone(n, s) ==
    /\ \A i, j \in 1..n : s[i] = s[j] => i = j
    /\ \A p \in Mdmon : CouldAct(p) <=> \E i \in 1..n : p = s[i]
Waiting(n, s) ==
    \A i \in 2..n : /\ pc[s[i]] \in {"victim", "wait"}
                    /\ victim[s[i]] = s[i - 1] /\ victimSock[s[i]] # NoProc
LastNamed(n, s) ==
    n > 0 /\ (\A q \in Mdmon : pc[q] \notin {"pidfile", "socket"})
        => pidfile = s[n] /\ sockfile = s[n]
LastAsked(n, s) ==
    \A q \in Mdmon : n > 0 /\ pc[q] \in {"stale", "pidfile", "socket"}
        => victim[q] = s[n] /\ victimSock[q] # NoProc
Line(n, s) == Everyone(n, s) /\ Waiting(n, s) /\ LastNamed(n, s) /\ LastAsked(n, s)

InLine == \E n \in Nat : \E s \in [1..n -> Mdmon] : Line(n, s)

LifeInv == LifeTypes /\ Solo /\ OnlyManagers /\ OwnFile /\ InLine

\* Only the first of the line can be looking after the array.
LEMMA InvOneActs == LifeInv => OneActs
<1> SUFFICES ASSUME LifeInv, NEW p \in Mdmon, NEW q \in Mdmon, acts[p], acts[q]
             PROVE  p = q
  BY DEF OneActs
<1>1. PICK n \in Nat : \E s \in [1..n -> Mdmon] : Line(n, s)  BY DEF LifeInv, InLine
<1>2. PICK s \in [1..n -> Mdmon] : Line(n, s)  BY <1>1
<1>3. /\ pc[p] = "managing" /\ CouldAct(p)
      /\ pc[q] = "managing" /\ CouldAct(q)
  BY NoProcAssumption DEF LifeInv, OnlyManagers, CouldAct, Listening
<1>4. /\ \E i \in 1..n : p = s[i]
      /\ \E i \in 1..n : q = s[i]
  BY <1>2, <1>3 DEF Line, Everyone
<1>5. PICK i \in 1..n : p = s[i]  BY <1>4
<1>6. PICK j \in 1..n : q = s[j]  BY <1>4
<1>7. i = 1 /\ j = 1  BY <1>2, <1>3, <1>5, <1>6 DEF Line, Waiting
<1> QED  BY <1>5, <1>6, <1>7

\* The one that looks after the array is the first of the line. If it is the last too the
\* files name it, or the one that is making them is to take over from it; else the second is.
LEMMA InvReachable == LifeInv => Reachable
<1> SUFFICES ASSUME LifeInv, NEW p \in Mdmon, acts[p]
             PROVE  (pidfile = p /\ sockfile = p) \/ \E q \in Mdmon : TakingOver(q, p)
  BY DEF Reachable
<1>1. PICK n \in Nat : \E s \in [1..n -> Mdmon] : Line(n, s)  BY DEF LifeInv, InLine
<1>2. PICK s \in [1..n -> Mdmon] : Line(n, s)  BY <1>1
<1>3. pc[p] = "managing" /\ CouldAct(p)
  BY NoProcAssumption DEF LifeInv, OnlyManagers, CouldAct, Listening
<1>4. PICK i \in 1..n : p = s[i]  BY <1>2, <1>3 DEF Line, Everyone
<1>5. i = 1 /\ n > 0  BY <1>2, <1>3, <1>4 DEF Line, Waiting
<1>6. CASE n = 1
  <2>1. CASE \E q \in Mdmon : pc[q] \in {"stale", "pidfile", "socket"}
    <3>1. PICK q \in Mdmon : pc[q] \in {"stale", "pidfile", "socket"}  BY <2>1
    <3>2. TakingOver(q, p)
      BY <1>2, <1>4, <1>5, <1>6, <3>1 DEF Line, LastAsked, TakingOver, Starting
    <3> QED  BY <3>2
  <2>2. CASE \A q \in Mdmon : pc[q] \notin {"stale", "pidfile", "socket"}
    BY <1>2, <1>4, <1>5, <1>6, <2>2 DEF Line, LastNamed
  <2> QED  BY <2>1, <2>2
<1>7. CASE n # 1
  <2>1. 2 \in 2..n /\ 2 - 1 = 1 /\ s[2] \in Mdmon  BY <1>5, <1>7
  <2>2. TakingOver(s[2], p)
    BY <1>2, <1>4, <1>5, <2>1 DEF Line, Waiting, TakingOver
  <2> QED  BY <2>1, <2>2
<1> QED  BY <1>6, <1>7

\* No process has started yet.
LEMMA InitLife == Init => LifeInv
<1> SUFFICES ASSUME Init PROVE LifeInv  OBVIOUS
<1>1. LifeTypes /\ Solo /\ OnlyManagers /\ OwnFile
  BY DEF Init, LifeTypes, Solo, OnlyManagers, OwnFile, ProcOrNone, Starting
<1>2. [i \in 1..0 |-> NoProc] \in [1..0 -> Mdmon]  OBVIOUS
<1>3. Line(0, [i \in 1..0 |-> NoProc])
  BY DEF Init, Line, Everyone, Waiting, LastNamed, LastAsked, CouldAct, Listening
<1> QED  BY <1>1, <1>2, <1>3 DEF LifeInv, InLine

\* A process that could act no longer does not wait: it was the first of the
\* line, which is one shorter.
LEMMA FirstLeaves ==
  ASSUME LifeTypes, OnlyManagers, NEW n \in Nat, NEW s \in [1..n -> Mdmon], Line(n, s),
         NEW p \in Mdmon, CouldAct(p), pc[p] = "managing", ~CouldAct(p)',
         \A q \in Mdmon \ {p} : /\ CouldAct(q)' = CouldAct(q) /\ pc'[q] = pc[q]
                                /\ victim'[q] = victim[q] /\ victimSock'[q] = victimSock[q],
         pc'[p] \notin {"stale", "pidfile", "socket"},
         UNCHANGED fileVars \/ \A q \in Mdmon : ~TakingOver(q, p)
  PROVE  InLine'
<1>1. n > 0 /\ p = s[1]
  BY DEF Line, Everyone, Waiting
<1> DEFINE t == [i \in 1..(n - 1) |-> s[i + 1]]
<1>2. n - 1 \in Nat /\ t \in [1..(n - 1) -> Mdmon]  BY <1>1
<1>3. Everyone(n - 1, t)'
  <2>1. \A i, j \in 1..(n - 1) : t[i] = t[j] => i = j  BY <1>1 DEF Line, Everyone
  <2>2. ASSUME NEW q \in Mdmon PROVE CouldAct(q)' <=> \E i \in 1..(n - 1) : q = t[i]
    <3>1. CASE q = p
      BY <1>1, <3>1 DEF Line, Everyone
    <3>2. CASE q # p
      <4>1. CouldAct(q)' <=> \E i \in 1..n : q = s[i]  BY <3>2 DEF Line, Everyone
      <4>2. ASSUME NEW i \in 1..n, q = s[i] PROVE i - 1 \in 1..(n - 1) /\ q = t[i - 1]
        BY <1>1, <3>2, <4>2
      <4>3. ASSUME NEW i \in 1..(n - 1), q = t[i] PROVE i + 1 \in 1..n /\ q = s[i + 1]
        BY <4>3
      <4> QED  BY <4>1, <4>2, <4>3
    <3> QED  BY <3>1, <3>2
  <2> QED  BY <2>1, <2>2 DEF Everyone
<1>4. Waiting(n - 1, t)'
  <2> SUFFICES ASSUME NEW i \in 2..(n - 1)
               PROVE /\ pc'[t[i]] \in {"victim", "wait"}
                     /\ victim'[t[i]] = t[i - 1] /\ victimSock'[t[i]] # NoProc
    BY DEF Waiting
  <2>1. i + 1 \in 2..n /\ t[i] = s[i + 1] /\ t[i - 1] = s[i] /\ s[i + 1] # p
    BY <1>1 DEF Line, Everyone
  <2> QED  BY <2>1 DEF Line, Waiting
<1>5. LastNamed(n - 1, t)'
  <2> SUFFICES ASSUME n - 1 > 0, \A q \in Mdmon : pc'[q] \notin {"pidfile", "socket"}
               PROVE  pidfile' = t[n - 1] /\ sockfile' = t[n - 1]
    BY DEF LastNamed
  <2>1. t[n - 1] = s[n]  OBVIOUS
  <2>2. TakingOver(s[2], p)
    BY <1>1 DEF Line, Waiting, TakingOver
  <2>3. UNCHANGED fileVars  BY <2>2
  <2>4. \A q \in Mdmon : pc[q] \notin {"pidfile", "socket"}  OBVIOUS
  <2> QED  BY <1>1, <2>1, <2>3, <2>4 DEF Line, LastNamed, fileVars
<1>6. LastAsked(n - 1, t)'
  BY <1>1 DEF Line, LastAsked
<1> QED  BY <1>2, <1>3, <1>4, <1>5, <1>6 DEF InLine, Line

\* The line stays if all that could act still can, and those that wait for
\* another in it still wait.
LEMMA LineStays ==
  ASSUME NEW n \in Nat, NEW s \in [1..n -> Mdmon], Line(n, s),
         \A q \in Mdmon : CouldAct(q)' = CouldAct(q),
         \A q \in Mdmon : /\ CouldAct(q) /\ CouldAct(victim[q])
                         /\ victimSock[q] # NoProc /\ pc[q] \in {"victim", "wait"} =>
             /\ pc'[q] \in {"victim", "wait"}
             /\ victim'[q] = victim[q] /\ victimSock'[q] = victimSock[q],
         LastNamed(n, s)', LastAsked(n, s)'
  PROVE  InLine'
<1>1. Everyone(n, s)'  BY DEF Line, Everyone
<1>2. Waiting(n, s)'
  <2> SUFFICES ASSUME NEW i \in 2..n
               PROVE /\ pc'[s[i]] \in {"victim", "wait"}
                     /\ victim'[s[i]] = s[i - 1] /\ victimSock'[s[i]] # NoProc
    BY DEF Waiting
  <2>1. CouldAct(s[i]) /\ CouldAct(s[i - 1])  BY DEF Line, Everyone
  <2>2. victimSock[s[i]] # NoProc /\ s[i] \in Mdmon  BY DEF Line, Waiting
  <2> QED  BY <2>1, <2>2 DEF Line, Waiting
<1> QED  BY <1>1, <1>2 DEF InLine, Line

\* A process that has started joins the line at its end.
LEMMA LastJoins ==
  ASSUME NEW n \in Nat, NEW s \in [1..n -> Mdmon], Line(n, s), LifeTypes,
         NEW p \in Mdmon, pc[p] = "socket", CouldAct(p)',
         pc'[p] = IF victim[p] = NoProc THEN "managing" ELSE "victim",
         \A q \in Mdmon \ {p} : CouldAct(q)' = CouldAct(q) /\ pc'[q] = pc[q]
                                /\ pc[q] \notin {"stale", "pidfile", "socket"},
         UNCHANGED <<victim, victimSock>>, pidfile' = p, sockfile' = p
  PROVE  InLine'
<1>1. ~CouldAct(p) /\ \A i \in 1..n : s[i] # p
  BY DEF CouldAct, Listening, Line, Everyone
<1> DEFINE t == [i \in 1..(n + 1) |-> IF i = n + 1 THEN p ELSE s[i]]
<1>2. n + 1 \in Nat /\ t \in [1..(n + 1) -> Mdmon]  OBVIOUS
<1>3. Everyone(n + 1, t)'
  <2>1. \A i, j \in 1..(n + 1) : t[i] = t[j] => i = j  BY <1>1 DEF Line, Everyone
  <2>2. ASSUME NEW q \in Mdmon PROVE CouldAct(q)' <=> \E i \in 1..(n + 1) : q = t[i]
    <3>1. CASE q = p
      <4>1. n + 1 \in 1..(n + 1) /\ q = t[n + 1]  BY <3>1
      <4> QED  BY <4>1, <3>1
    <3>2. CASE q # p
      <4>1. CouldAct(q)' <=> \E i \in 1..n : q = s[i]  BY <3>2 DEF Line, Everyone
      <4>2. ASSUME NEW i \in 1..n, q = s[i] PROVE i \in 1..(n + 1) /\ q = t[i]
        BY <4>2
      <4>3. ASSUME NEW i \in 1..(n + 1), q = t[i] PROVE i \in 1..n /\ q = s[i]
        BY <3>2, <4>3
      <4> QED  BY <4>1, <4>2, <4>3
    <3> QED  BY <3>1, <3>2
  <2> QED  BY <2>1, <2>2 DEF Everyone
<1>4. Waiting(n + 1, t)'
  <2> SUFFICES ASSUME NEW i \in 2..(n + 1)
               PROVE /\ pc'[t[i]] \in {"victim", "wait"}
                     /\ victim'[t[i]] = t[i - 1] /\ victimSock'[t[i]] # NoProc
    BY DEF Waiting
  <2>1. CASE i = n + 1
    <3>1. n > 0 /\ t[i - 1] = s[n] /\ s[n] \in Mdmon /\ t[i] = p  BY <2>1
    <3> QED  BY <3>1, NoProcAssumption DEF Line, LastAsked
  <2>2. CASE i # n + 1
    <3>1. i \in 2..n /\ t[i] = s[i] /\ t[i - 1] = s[i - 1] /\ s[i] # p  BY <1>1, <2>2
    <3> QED  BY <3>1 DEF Line, Waiting
  <2> QED  BY <2>1, <2>2
<1>5. LastNamed(n + 1, t)'  BY DEF LastNamed
<1>6. LastAsked(n + 1, t)'  BY DEF LastAsked
<1> QED  BY <1>2, <1>3, <1>4, <1>5, <1>6 DEF InLine, Line

\* The parts of the invariant that look at one process at a time.
SimpleInv == LifeTypes /\ Solo /\ OnlyManagers /\ OwnFile

\* What is left as it is by the steps that only look, or only mdadm takes.
lifeVars == <<pidfile, sockfile, pc, victim, victimSock, signal, acts>>

\* Nobody is about to make the files that one who is not being taken over would
\* remove.
LEMMA LeavesAlone ==
  ASSUME InLine, NEW p \in Mdmon, CouldAct(p), \A q \in Mdmon : ~TakingOver(q, p)
  PROVE  \A q \in Mdmon : pc[q] \notin {"stale", "pidfile", "socket"}
<1>1. PICK n \in Nat : \E s \in [1..n -> Mdmon] : Line(n, s)  BY DEF InLine
<1>2. PICK s \in [1..n -> Mdmon] : Line(n, s)  BY <1>1
<1>3. PICK i \in 1..n : p = s[i]  BY <1>2 DEF Line, Everyone
<1>4. i = n
  <2> SUFFICES ASSUME i # n PROVE FALSE  OBVIOUS
  <2>1. i + 1 \in 2..n /\ (i + 1) - 1 = i /\ s[i + 1] \in Mdmon  OBVIOUS
  <2>2. TakingOver(s[i + 1], p)
    BY <1>2, <1>3, <2>1 DEF Line, Waiting, TakingOver
  <2> QED  BY <2>1, <2>2
<1>5. ASSUME NEW q \in Mdmon, pc[q] \in {"stale", "pidfile", "socket"} PROVE FALSE
  <2>1. victim[q] = p  BY <1>2, <1>3, <1>4, <1>5 DEF Line, LastAsked
  <2> QED  BY <1>5, <2>1 DEF TakingOver, Starting
<1> QED  BY <1>5

\* Every step of a process keeps them.
LEMMA SimpleSteps ==
  ASSUME LifeInv, Careful, NEW p \in Mdmon, NEW u \in BOOLEAN,
         \/ Launch(p, u) \/ Look(p) \/ RemoveStale(p) \/ MakePidfile(p) \/ MakeControlSock(p)
         \/ TryKillMonitor(p) \/ VictimGone(p) \/ ManagerTurn(p)
         \/ MarkClean(p) \/ LetGo(p) \/ Exit(p) \/ Kill(p)
  PROVE  SimpleInv'
<1> USE NoProcAssumption
        DEF LifeInv, SimpleInv, LifeTypes, Solo, OnlyManagers, OwnFile, Starting, ProcOrNone,
            fileVars, toolVars
<1>1. CASE Launch(p, u)
  <2>1. \A q \in Mdmon : pc[q] \notin Starting  BY <1>1 DEF Launch, Careful
  <2>2. /\ pc[p] = "none" /\ pc' = [pc EXCEPT ![p] = "look"]
        /\ UNCHANGED <<pidfile, sockfile, victim, victimSock, signal, acts>>
    BY <1>1 DEF Launch
  <2> HIDE DEF LifeInv
  <2>3. LifeTypes'  BY <2>2 DEF LifeInv
  <2>4. Solo'  BY <2>1, <2>2 DEF LifeInv
  <2>5. OnlyManagers' /\ OwnFile'  BY <2>2 DEF LifeInv
  <2> QED  BY <2>3, <2>4, <2>5
<1>2. CASE Look(p)
  <2>1. Reached \in ProcOrNone /\ pidfile \in ProcOrNone  BY DEF Reached, Listening
  <2>2. CASE Gone(p, "exited")  BY <1>2, <2>2 DEF Look, Gone
  <2>3. CASE ~Gone(p, "exited")  BY <1>2, <2>1, <2>3 DEF Look
  <2> QED  BY <2>2, <2>3
<1>3. CASE RemoveStale(p)  BY <1>3 DEF RemoveStale
<1>4. CASE MakePidfile(p)  BY <1>4 DEF MakePidfile, Gone
<1>5. CASE MakeControlSock(p)  BY <1>5 DEF MakeControlSock
<1>6. CASE TryKillMonitor(p)  BY <1>6 DEF TryKillMonitor, Alive
<1>7. CASE VictimGone(p)  BY <1>7 DEF VictimGone
<1>8. CASE ManagerTurn(p)  BY <1>8 DEF ManagerTurn
<1>9. CASE MarkClean(p)  BY <1>9 DEF MarkClean
<1>10. CASE LetGo(p)  BY <1>10 DEF LetGo
<1>11. CASE Exit(p)
  <2>1. CASE signal[p] = "seen"
    BY <1>11, <2>1 DEF Exit, Idle, LeaveFiles, Gone
  <2>2. CASE signal[p] # "seen"
    <3>1. pc[p] = "managing" /\ CouldAct(p) /\ \A q \in Mdmon : ~TakingOver(q, p)
      BY <1>11, <2>2 DEF Exit, Idle, Careful, CouldAct, Listening
    <3>2. \A q \in Mdmon : pc[q] \notin {"stale", "pidfile", "socket"}
      BY <3>1, LeavesAlone
    <3> QED  BY <1>11, <3>1, <3>2 DEF Exit, LeaveFiles, Gone
  <2> QED  BY <2>1, <2>2
<1>12. CASE Kill(p)  BY <1>12 DEF Kill, Gone
<1> QED  BY <1>1, <1>2, <1>3, <1>4, <1>5, <1>6, <1>7, <1>8, <1>9, <1>10, <1>11, <1>12

\* A process that starts asks the last of the line, or changes nothing in it.
LEMMA StartSteps ==
  ASSUME LifeInv, Careful, NEW p \in Mdmon, NEW u \in BOOLEAN,
         \/ Launch(p, u) \/ Look(p) \/ RemoveStale(p) \/ MakePidfile(p) \/ MakeControlSock(p)
  PROVE  InLine'
<1> USE NoProcAssumption
<1>1. PICK n \in Nat : \E s \in [1..n -> Mdmon] : Line(n, s)  BY DEF LifeInv, InLine
<1>2. PICK s \in [1..n -> Mdmon] : Line(n, s)  BY <1>1
<1>3. CASE Launch(p, u)
  <2>1. \A q \in Mdmon : CouldAct(q)' = CouldAct(q)
    BY <1>3 DEF Launch, CouldAct, Listening, LifeInv, LifeTypes
  <2>2. \A q \in Mdmon : pc[q] \in {"victim", "wait"} => pc'[q] = pc[q]
    BY <1>3 DEF Launch, LifeInv, LifeTypes
  <2>3. LastNamed(n, s)' /\ LastAsked(n, s)'
    BY <1>2, <1>3 DEF Launch, Line, LastNamed, LastAsked, LifeInv, LifeTypes, fileVars
  <2>4. UNCHANGED <<victim, victimSock>>  BY <1>3 DEF Launch
  <2> QED  BY <1>2, <2>1, <2>2, <2>3, <2>4, LineStays
<1>4. CASE Look(p)
  <2>1. \A q \in Mdmon : CouldAct(q)' = CouldAct(q)
    BY <1>4 DEF Look, Gone, CouldAct, Listening, LifeInv, LifeTypes
  <2>2. \A q \in Mdmon : pc[q] \in {"victim", "wait"} =>
            pc'[q] = pc[q] /\ victim'[q] = victim[q] /\ victimSock'[q] = victimSock[q]
    BY <1>4 DEF Look, Gone, LifeInv, LifeTypes
  <2>3. \A q \in Mdmon : pc[q] \notin {"stale", "pidfile", "socket"}
    BY <1>4 DEF Look, LifeInv, Solo, Starting
  <2>4. n > 0 => pidfile = s[n] /\ sockfile = s[n] /\ Reached = s[n] /\ s[n] \in Mdmon
    BY <1>2, <2>3 DEF Line, LastNamed, Everyone, CouldAct, Reached
  <2>5. LastNamed(n, s)'  BY <1>4, <2>4 DEF Look, LastNamed, fileVars
  <2>6. LastAsked(n, s)'
    <3> SUFFICES ASSUME NEW q \in Mdmon, n > 0, pc'[q] \in {"stale", "pidfile", "socket"}
                 PROVE  victim'[q] = s[n] /\ victimSock'[q] # NoProc
      BY DEF LastAsked
    <3>1. q = p
      BY <1>4, <2>3 DEF Look, Gone, LifeInv, LifeTypes
    <3> QED  BY <1>4, <2>4, <3>1 DEF Look, Gone, LifeInv, LifeTypes, Careful
  <2> QED  BY <1>2, <2>1, <2>2, <2>5, <2>6, LineStays
<1>5. CASE RemoveStale(p)
  <2>1. \A q \in Mdmon : CouldAct(q)' = CouldAct(q)
    BY <1>5 DEF RemoveStale, CouldAct, Listening, LifeInv, LifeTypes
  <2>2. \A q \in Mdmon : pc[q] \in {"victim", "wait"} => pc'[q] = pc[q]
    BY <1>5 DEF RemoveStale, LifeInv, LifeTypes
  <2>3. LastNamed(n, s)'
    BY <1>5 DEF RemoveStale, LastNamed, LifeInv, LifeTypes
  <2>4. LastAsked(n, s)'
    BY <1>2, <1>5 DEF RemoveStale, Line, LastAsked, LifeInv, LifeTypes
  <2>5. UNCHANGED <<victim, victimSock>>  BY <1>5 DEF RemoveStale
  <2> QED  BY <1>2, <2>1, <2>2, <2>3, <2>4, <2>5, LineStays
<1>6. CASE MakePidfile(p)
  <2>1. pidfile = NoProc /\ pc' = [pc EXCEPT ![p] = "socket"]
        /\ UNCHANGED <<victim, victimSock, signal, acts>>
    BY <1>6 DEF MakePidfile, LifeInv, OwnFile
  <2>2. \A q \in Mdmon : CouldAct(q)' = CouldAct(q)
    BY <1>6, <2>1 DEF MakePidfile, CouldAct, Listening, LifeInv, LifeTypes
  <2>3. \A q \in Mdmon : pc[q] \in {"victim", "wait"} => pc'[q] = pc[q]
    BY <1>6, <2>1 DEF MakePidfile, LifeInv, LifeTypes
  <2>4. LastNamed(n, s)'
    BY <2>1 DEF LastNamed, LifeInv, LifeTypes
  <2>5. LastAsked(n, s)'
    BY <1>2, <1>6, <2>1 DEF MakePidfile, Line, LastAsked, LifeInv, LifeTypes
  <2> QED  BY <1>2, <2>1, <2>2, <2>3, <2>4, <2>5, LineStays
<1>7. CASE MakeControlSock(p)
  <2>1. pidfile' = p /\ sockfile' = p
    BY <1>7 DEF MakeControlSock, LifeInv, OwnFile
  <2>2. CouldAct(p)'
    BY <1>7 DEF MakeControlSock, CouldAct, Listening, LifeInv, LifeTypes, OnlyManagers
  <2>3. \A q \in Mdmon \ {p} : CouldAct(q)' = CouldAct(q) /\ pc'[q] = pc[q]
                               /\ pc[q] \notin {"stale", "pidfile", "socket"}
    BY <1>7 DEF MakeControlSock, CouldAct, Listening, LifeInv, LifeTypes, Solo, Starting
  <2>4. pc[p] = "socket" /\ UNCHANGED <<victim, victimSock>>
        /\ pc'[p] = IF victim[p] = NoProc THEN "managing" ELSE "victim"
    BY <1>7 DEF MakeControlSock, LifeInv, LifeTypes
  <2>5. LifeTypes  BY DEF LifeInv
  <2> QED  BY <1>2, <2>1, <2>2, <2>3, <2>4, <2>5, LastJoins
<1> QED  BY <1>3, <1>4, <1>5, <1>6, <1>7

\* One that waits becomes the first of the line when the one before it is gone
\* or has let the array go; one that leaves or is killed was the first.
LEMMA LineSteps ==
  ASSUME LifeInv, Careful, NEW p \in Mdmon,
         \/ TryKillMonitor(p) \/ VictimGone(p) \/ ManagerTurn(p)
         \/ MarkClean(p) \/ LetGo(p) \/ Exit(p) \/ Kill(p)
  PROVE  InLine'
<1> USE NoProcAssumption
<1>1. PICK n \in Nat : \E s \in [1..n -> Mdmon] : Line(n, s)  BY DEF LifeInv, InLine
<1>2. PICK s \in [1..n -> Mdmon] : Line(n, s)  BY <1>1
<1>3. LifeTypes /\ OnlyManagers  BY DEF LifeInv
\* The files, and what those that start have found, stay as they are.
<1> DEFINE Quiet == /\ UNCHANGED fileVars
                    /\ \A q \in Mdmon : pc[q] \in Starting \/ pc'[q] \in Starting =>
                           /\ pc'[q] = pc[q]
                           /\ victim'[q] = victim[q] /\ victimSock'[q] = victimSock[q]
<1>4. ASSUME Quiet PROVE LastNamed(n, s)' /\ LastAsked(n, s)'
  <2>1. LastNamed(n, s)'  BY <1>2, <1>4 DEF Line, LastNamed, fileVars, Starting
  <2>2. LastAsked(n, s)'  BY <1>2, <1>4 DEF Line, LastAsked, Starting
  <2> QED  BY <2>1, <2>2
<1>5. CASE TryKillMonitor(p)
  <2>1. /\ UNCHANGED <<fileVars, victim, victimSock, acts>> /\ pc[p] = "victim"
        /\ pc' = [pc EXCEPT ![p] = IF Alive(victim[p]) /\ victimSock[p] # NoProc
                                   THEN "wait" ELSE "managing"]
        /\ \A q \in Mdmon : signal'[q] = "seen" <=> signal[q] = "seen"
    BY <1>3, <1>5 DEF TryKillMonitor, LifeTypes, Alive, ProcOrNone
  <2>2. \A q \in Mdmon : CouldAct(q)' = CouldAct(q)
    BY <1>3, <2>1 DEF LifeTypes, CouldAct, Listening
  <2>3. Quiet  BY <1>3, <2>1 DEF LifeTypes, Starting
  <2>4. ASSUME NEW q \in Mdmon, CouldAct(victim[q]), victimSock[q] # NoProc,
               pc[q] \in {"victim", "wait"}
        PROVE  pc'[q] \in {"victim", "wait"}
    BY <1>3, <2>1, <2>4 DEF LifeTypes, CouldAct, Listening, Alive
  <2> QED  BY <1>2, <1>4, <2>1, <2>2, <2>3, <2>4, LineStays DEF fileVars
<1>6. CASE VictimGone(p)
  <2>1. /\ pc[p] = "wait" /\ pc' = [pc EXCEPT ![p] = "managing"]
        /\ victim' = [victim EXCEPT ![p] = NoProc]
        /\ victimSock' = [victimSock EXCEPT ![p] = NoProc]
        /\ UNCHANGED <<fileVars, signal, acts>>
    BY <1>6 DEF VictimGone
  <2>2. ~CouldAct(victim[p])
    BY <1>6 DEF VictimGone, MayTakeTheArray, Careful, CouldAct, Listening, Alive
  <2>3. \A q \in Mdmon : CouldAct(q)' = CouldAct(q)
    BY <1>3, <2>1 DEF LifeTypes, CouldAct, Listening
  <2>4. Quiet  BY <1>3, <2>1 DEF LifeTypes, Starting
  <2>5. ASSUME NEW q \in Mdmon, q # p
        PROVE  pc'[q] = pc[q] /\ victim'[q] = victim[q] /\ victimSock'[q] = victimSock[q]
    BY <1>3, <2>1, <2>5 DEF LifeTypes
  <2> QED  BY <1>2, <1>4, <2>2, <2>3, <2>4, <2>5, LineStays
\* The rest is about an mdmon that has started and changes nothing of another.
<1>7. ASSUME Alive(p), pc'[p] \in {pc[p], "exited", "killed"},
             \A q \in Mdmon \ {p} : CouldAct(q)' = CouldAct(q) /\ pc'[q] = pc[q]
                                    /\ victim'[q] = victim[q] /\ victimSock'[q] = victimSock[q],
             pc[p] = "managing", CouldAct(p)' => CouldAct(p),
             \/ UNCHANGED fileVars
             \/ CouldAct(p) /\ ~CouldAct(p)' /\ \A q \in Mdmon : ~TakingOver(q, p)
      PROVE  InLine'
  <2>1. CASE CouldAct(p) /\ ~CouldAct(p)'
    <3>1. pc'[p] \notin {"stale", "pidfile", "socket"}  BY <1>7
    <3> QED  BY <1>2, <1>3, <1>7, <2>1, <3>1, FirstLeaves
  <2>2. CASE CouldAct(p)' = CouldAct(p)
    <3>1. Quiet  BY <1>7, <2>2 DEF Starting
    <3> QED  BY <1>2, <1>4, <1>7, <2>2, <3>1, LineStays
  <2>3. CouldAct(p) \in BOOLEAN /\ CouldAct(p)' \in BOOLEAN
    BY DEF CouldAct, Listening
  <2> QED  BY <1>7, <2>1, <2>2, <2>3
<1>8. CASE ManagerTurn(p)
  <2>1. /\ pc[p] = "managing" /\ UNCHANGED <<fileVars, pc, victim, victimSock>>
        /\ \A q \in Mdmon \ {p} : acts'[q] = acts[q] /\ signal'[q] = signal[q]
        /\ signal[p] = "seen" => signal'[p] = "seen" /\ acts'[p] = acts[p]
    BY <1>3, <1>8 DEF ManagerTurn, LifeTypes
  <2> QED  BY <1>3, <1>7, <2>1 DEF Alive, CouldAct, Listening
<1>9. CASE MarkClean(p)
  <2>1. /\ pc[p] = "managing" /\ UNCHANGED <<fileVars, pc, victim, victimSock, signal>>
        /\ acts[p] /\ acts' = [acts EXCEPT ![p] = signal[p] # "seen"]
    BY <1>3, <1>9 DEF MarkClean, OnlyManagers
  <2>2. \A q \in Mdmon \ {p} : acts'[q] = acts[q]  BY <1>3, <2>1 DEF LifeTypes
  <2> QED  BY <1>3, <1>7, <2>1, <2>2 DEF Alive, CouldAct, Listening
<1>10. CASE LetGo(p)
  <2>1. /\ pc[p] = "managing" /\ UNCHANGED <<fileVars, pc, victim, victimSock, signal>>
        /\ acts[p] /\ acts' = [acts EXCEPT ![p] = FALSE]
    BY <1>3, <1>10 DEF LetGo, OnlyManagers
  <2>2. \A q \in Mdmon \ {p} : acts'[q] = acts[q]  BY <1>3, <2>1 DEF LifeTypes
  <2> QED  BY <1>3, <1>7, <2>1, <2>2 DEF Alive, CouldAct, Listening
<1>11. ASSUME NEW how \in {"exited", "killed"}, Gone(p, how)
       PROVE  /\ pc'[p] = how
              /\ \A q \in Mdmon \ {p} : CouldAct(q)' = CouldAct(q) /\ pc'[q] = pc[q]
                                    /\ victim'[q] = victim[q] /\ victimSock'[q] = victimSock[q]
  BY <1>3, <1>11 DEF Gone, LifeTypes, CouldAct, Listening
<1>12. CASE Exit(p)
  <2>1. pc[p] = "managing" /\ ~acts[p] /\ Gone(p, "exited") /\ LeaveFiles(p)
        /\ (signal[p] = "seen" \/ \A q \in Mdmon : ~TakingOver(q, p))
    BY <1>12 DEF Exit, Idle, Careful
  <2>2. pc'[p] = "exited"  BY <1>11, <2>1
  <2>3. ~CouldAct(p)' /\ (CouldAct(p) <=> signal[p] # "seen")
    BY <2>1, <2>2 DEF CouldAct, Listening
  <2>4. \/ UNCHANGED fileVars
        \/ CouldAct(p) /\ \A q \in Mdmon : ~TakingOver(q, p)
    BY <2>1, <2>3 DEF LeaveFiles
  <2>5. Alive(p)  BY <2>1 DEF Alive
  <2> QED  BY <1>7, <1>11, <2>1, <2>2, <2>3, <2>4, <2>5
<1>13. CASE Kill(p)
  <2>1. pc[p] = "managing" /\ Gone(p, "killed") /\ UNCHANGED fileVars /\ Alive(p)
    BY <1>13 DEF Kill, Careful
  <2>2. pc'[p] = "killed"  BY <1>11, <2>1
  <2>3. ~CouldAct(p)'  BY <2>2 DEF CouldAct, Listening
  <2> QED  BY <1>7, <1>11, <2>1, <2>2, <2>3
<1> QED  BY <1>5, <1>6, <1>8, <1>9, <1>10, <1>12, <1>13

\* The invariant says nothing of what the other steps change.
LEMMA QuietSteps ==
  ASSUME LifeInv, UNCHANGED lifeVars
  PROVE  LifeInv'
<1>1. SimpleInv'
  BY DEF LifeInv, SimpleInv, LifeTypes, Solo, OnlyManagers, OwnFile, lifeVars
<1>2. InLine'
  <2>1. PICK n \in Nat : \E s \in [1..n -> Mdmon] : Line(n, s)  BY DEF LifeInv, InLine
  <2>2. PICK s \in [1..n -> Mdmon] : Line(n, s)  BY <2>1
  <2>3. \A q \in Mdmon : CouldAct(q)' = CouldAct(q)  BY DEF CouldAct, Listening, lifeVars
  <2>4. LastNamed(n, s)' /\ LastAsked(n, s)'
    BY <2>2 DEF Line, LastNamed, LastAsked, lifeVars
  <2> QED  BY <2>2, <2>3, <2>4, LineStays DEF lifeVars
<1> QED  BY <1>1, <1>2 DEF LifeInv, SimpleInv

\* The invariant of the take-over, for any number of mdmon processes.
THEOREM LifeInvariant ==
  ASSUME Careful
  PROVE  Spec => []LifeInv
<1>1. Init => LifeInv  BY InitLife
<1>2. LifeInv /\ [Next]_vars => LifeInv'
  <2> SUFFICES ASSUME LifeInv, [Next]_vars PROVE LifeInv'  OBVIOUS
  <2>1. CASE \E p \in Mdmon, u \in BOOLEAN :
               \/ Launch(p, u) \/ Look(p) \/ RemoveStale(p) \/ MakePidfile(p)
               \/ MakeControlSock(p)
    BY <2>1, SimpleSteps, StartSteps DEF LifeInv, SimpleInv
  <2>2. CASE \E p \in Mdmon : \/ TryKillMonitor(p) \/ VictimGone(p) \/ ManagerTurn(p)
                              \/ MarkClean(p) \/ LetGo(p) \/ Exit(p) \/ Kill(p)
    <3>1. PICK p \in Mdmon : \/ TryKillMonitor(p) \/ VictimGone(p) \/ ManagerTurn(p)
                             \/ MarkClean(p) \/ LetGo(p) \/ Exit(p) \/ Kill(p)
      BY <2>2
    <3>2. SimpleInv'
      <4>1. TRUE \in BOOLEAN  OBVIOUS
      <4> QED  BY <3>1, <4>1, SimpleSteps
    <3>3. InLine'  BY <3>1, LineSteps
    <3> QED  BY <3>2, <3>3 DEF LifeInv, SimpleInv
  <2>3. CASE \/ CheckMdmon \/ MdmonStarted \/ PingMonitor \/ PingLost
             \/ CreateArray \/ AssembleArray \/ StopArray \/ UNCHANGED vars
             \/ \E p \in Mdmon : ReadMdstat(p) \/ MarkDirty(p)
    <3>1. UNCHANGED lifeVars
      BY <2>3 DEF CheckMdmon, MdmonStarted, PingMonitor, PingLost, CreateArray, AssembleArray,
                  StopArray, ReadMdstat, MarkDirty, vars, fileVars, procVars, lifeVars
    <3> QED  BY <3>1, QuietSteps
  <2> QED  BY <2>1, <2>2, <2>3 DEF Next, Tool, Own, StartMdmon, TakeOver
<1> QED  BY <1>1, <1>2, PTL DEF Spec

\* Whatever mdadm and the manager do in between, and whoever that runs is
\* killed, at most one mdmon looks after the array: try_kill_monitor and
\* wait_for_monitor hand it over from one to the next.
THEOREM OneActsCarefully ==
  ASSUME Careful
  PROVE  Spec => []OneActs
BY LifeInvariant, InvOneActs, PTL

\* mdadm finds the mdmon that looks after the array, unless another is about to take over
\* from it: the files are made and removed by those of the line alone (remove_pidfile).
THEOREM ReachableCarefully ==
  ASSUME Careful
  PROVE  Spec => []Reachable
BY LifeInvariant, InvReachable, PTL
=============================================================================
