----------------------------- MODULE MdmonLife -----------------------------
(***************************************************************************)
(* How an mdmon process comes to watch the array of a container and how it *)
(* leaves (mdmon.c): the pid file and the control socket, the take-over    *)
(* from a running mdmon, SIGTERM, and the exit when there is nothing left  *)
(* to watch (monitor.c).  Beside them mdadm, which starts mdmon when it    *)
(* finds none, after it assembled an array or while it creates one.        *)
(*                                                                         *)
(* A process is known by its pid, and a pid is not used again.  The files  *)
(* under /run/mdadm name the process that made them.                       *)
(***************************************************************************)
EXTENDS Naturals, FiniteSets

CONSTANTS Mdmon,     \* the mdmon processes that may be started
          NoProc,
          Happens    \* what may happen beside take-over:
                     \*   "kill":      a running mdmon is killed
                     \*   "killearly": one that is starting is killed
                     \*   "stop":      the array is stopped
                     \*   "race":      an mdmon is started while another is starting
                     \*   "slow":      the array is not clean before the wait for the old
                     \*                mdmon ends, or a ping is not answered in time
                     \*   "overtaken": mdmon answers with an older /proc/mdstat in hand
                     \*   "crossed":   one leaves by itself while it is being taken over
                     \*   "unheld":    one leaves between mdadm's check and its ping

ASSUME NoProcAssumption == NoProc \notin Mdmon
ASSUME HappensAssumption ==
    Happens \subseteq {"kill", "killearly", "stop", "race", "slow", "overtaken",
                       "crossed", "unheld"}

VARIABLES
    pidfile, sockfile,  \* the process each of the two files names
    pc,
    takeover,           \* started with --takeover
    victim, victimSock, \* the process found in the pid file, the one connected to
    signal,             \* SIGTERM: "none", "sent" or, once the manager unblocks it, "seen"
    seen,               \* the array was in /proc/mdstat when the manager read it
    ready,              \* manager_ready
    acts,               \* the array is in the list and is looked after
    array,              \* "none", "fresh" (started, not yet watched), "clean" or "dirty"
    excl,               \* mdadm holds the container open exclusively
    tool,               \* what mdadm is doing
    peer                \* the mdmon mdadm started or pings

fileVars == <<pidfile, sockfile>>
procVars == <<pc, takeover, victim, victimSock, signal, seen, ready, acts>>
toolVars == <<excl, tool, peer>>
vars == <<fileVars, procVars, array, toolVars>>

ProcOrNone == Mdmon \cup {NoProc}
Starting == {"look", "stale", "pidfile", "socket"}
Alive(p)  == p # NoProc /\ pc[p] \notin {"none", "exited", "killed"}
Listening(p) == p # NoProc /\ pc[p] \in {"victim", "wait", "managing"}

TypeOK ==
    /\ pidfile \in ProcOrNone /\ sockfile \in ProcOrNone
    /\ pc \in [Mdmon -> {"none", "victim", "wait", "managing", "exited", "killed"} \cup Starting]
    /\ takeover \in [Mdmon -> BOOLEAN]
    /\ victim \in [Mdmon -> ProcOrNone] /\ victimSock \in [Mdmon -> ProcOrNone]
    /\ signal \in [Mdmon -> {"none", "sent", "seen"}]
    /\ seen \in [Mdmon -> BOOLEAN] /\ ready \in [Mdmon -> BOOLEAN] /\ acts \in [Mdmon -> BOOLEAN]
    /\ array \in {"none", "fresh", "clean", "dirty"}
    /\ excl \in BOOLEAN /\ tool \in {"idle", "check", "start", "starting", "connect", "ping"}
    /\ peer \in ProcOrNone

\* p leaves nothing behind but the files.
Gone(p, how) ==
    /\ pc' = [pc EXCEPT ![p] = how]
    /\ takeover' = [takeover EXCEPT ![p] = FALSE]
    /\ victim' = [victim EXCEPT ![p] = NoProc] /\ victimSock' = [victimSock EXCEPT ![p] = NoProc]
    /\ signal' = [signal EXCEPT ![p] = "none"]
    /\ seen' = [seen EXCEPT ![p] = FALSE] /\ ready' = [ready EXCEPT ![p] = FALSE]
    /\ acts' = [acts EXCEPT ![p] = FALSE]

Init ==
    /\ pidfile = NoProc /\ sockfile = NoProc
    /\ pc = [p \in Mdmon |-> "none"] /\ takeover = [p \in Mdmon |-> FALSE]
    /\ victim = [p \in Mdmon |-> NoProc] /\ victimSock = [p \in Mdmon |-> NoProc]
    /\ signal = [p \in Mdmon |-> "none"]
    /\ seen = [p \in Mdmon |-> FALSE] /\ ready = [p \in Mdmon |-> FALSE]
    /\ acts = [p \in Mdmon |-> FALSE]
    /\ array = "none" /\ excl = FALSE /\ tool = "idle" /\ peer = NoProc

-----------------------------------------------------------------------------
(* Starting an mdmon. Its parent returns when it has made the socket.       *)

Launch(p, t) ==
    /\ pc[p] = "none"
    /\ "race" \in Happens \/ \A q \in Mdmon : pc[q] \notin Starting
    /\ pc' = [pc EXCEPT ![p] = "look"]
    /\ takeover' = [takeover EXCEPT ![p] = t]
    /\ UNCHANGED <<fileVars, victim, victimSock, signal, seen, ready, acts, array>>

\* An administrator, the initramfs or systemd starts mdmon --takeover.
TakeOver(p) == Launch(p, TRUE) /\ UNCHANGED toolVars

\* The pid file may be stale. Without a take-over a victim that answers a ping is left
\* alone, and one that does not is not waited for later.
Reached == IF Listening(sockfile) THEN sockfile ELSE NoProc

Look(p) ==
    /\ pc[p] = "look"
    /\ LET sock == IF pidfile = NoProc THEN NoProc ELSE Reached
           pings == ~takeover[p] /\ sock # NoProc
       IN \/ pings /\ Gone(p, "exited")
          \/ /\ pings => "slow" \in Happens
             /\ victim' = [victim EXCEPT ![p] = pidfile]
             /\ victimSock' = [victimSock EXCEPT ![p] = IF pings THEN NoProc ELSE sock]
             /\ pc' = [pc EXCEPT ![p] = IF pidfile # NoProc THEN "stale" ELSE "pidfile"]
             /\ UNCHANGED <<takeover, signal, seen, ready, acts>>
    /\ UNCHANGED <<fileVars, array, toolVars>>

\* remove_pidfile unlinks by name, whoever made the files.
RemoveStale(p) ==
    /\ pc[p] = "stale"
    /\ pidfile' = NoProc /\ sockfile' = NoProc
    /\ pc' = [pc EXCEPT ![p] = "pidfile"]
    /\ UNCHANGED <<takeover, victim, victimSock, signal, seen, ready, acts, array, toolVars>>

\* O_EXCL: the second of two that saw no pid file gives up.
MakePidfile(p) ==
    /\ pc[p] = "pidfile"
    /\ \/ /\ pidfile = NoProc
          /\ pidfile' = p /\ pc' = [pc EXCEPT ![p] = "socket"]
          /\ UNCHANGED <<takeover, victim, victimSock, signal, seen, ready, acts>>
       \/ pidfile # NoProc /\ Gone(p, "exited") /\ UNCHANGED pidfile
    /\ UNCHANGED <<sockfile, array, toolVars>>

\* The parent is told, and the monitor thread is cloned.
MakeControlSock(p) ==
    /\ pc[p] = "socket"
    /\ sockfile' = p
    /\ pc' = [pc EXCEPT ![p] = IF victim[p] = NoProc THEN "managing" ELSE "victim"]
    /\ UNCHANGED <<pidfile, takeover, victim, victimSock, signal, seen, ready, acts, array,
                   toolVars>>

\* There is nothing to wait for if the victim is gone, or was never reached.
TryKillMonitor(p) ==
    /\ pc[p] = "victim"
    /\ signal' = IF Alive(victim[p]) /\ signal[victim[p]] = "none"
                 THEN [signal EXCEPT ![victim[p]] = "sent"] ELSE signal
    /\ pc' = [pc EXCEPT ![p] = IF Alive(victim[p]) /\ victimSock[p] # NoProc
                               THEN "wait" ELSE "managing"]
    /\ UNCHANGED <<fileVars, takeover, victim, victimSock, seen, ready, acts, array, toolVars>>

\* Mutant: the new mdmon does not wait at all.
MayTakeTheArrayAtOnce(p) == TRUE

\* The wait ends after five seconds, too. A victim that let its array go by
\* then may still be there: it cannot leave while mdadm holds the container.
MayTakeTheArray(p) ==
    \/ ~Alive(victim[p])
    \/ signal[victim[p]] = "seen" /\ ~acts[victim[p]]
    \/ "slow" \in Happens

VictimGone(p) ==
    /\ pc[p] = "wait" /\ MayTakeTheArray(p)
    /\ pc' = [pc EXCEPT ![p] = "managing"]
    /\ victim' = [victim EXCEPT ![p] = NoProc] /\ victimSock' = [victimSock EXCEPT ![p] = NoProc]
    /\ UNCHANGED <<fileVars, takeover, signal, seen, ready, acts, array, toolVars>>

-----------------------------------------------------------------------------
(* The manager. SIGTERM is blocked outside its pselect, so the first turn   *)
(* of one that was told to terminate takes the array all the same.          *)

ReadMdstat(p) ==
    /\ pc[p] = "managing"
    /\ seen[p] # (array # "none")
    /\ seen' = [seen EXCEPT ![p] = (array # "none")]
    /\ UNCHANGED <<fileVars, pc, takeover, victim, victimSock, signal, ready, acts, array,
                   toolVars>>

\* manage, then read_sock answers a ping, then the monitor may leave.
ManagerTurn(p) ==
    /\ pc[p] = "managing"
    /\ "overtaken" \in Happens \/ seen[p] = (array # "none")
    /\ LET takes == seen[p] /\ array # "none" /\ ~acts[p] /\ signal[p] # "seen"
       IN /\ acts' = [acts EXCEPT ![p] = acts[p] \/ takes]
          /\ array' = IF takes /\ array = "fresh" THEN "clean" ELSE array
    /\ ready' = [ready EXCEPT ![p] = TRUE]
    /\ signal' = IF signal[p] = "sent" THEN [signal EXCEPT ![p] = "seen"] ELSE signal
    /\ IF tool = "ping" /\ peer = p
       THEN tool' = "idle" /\ peer' = NoProc /\ excl' = FALSE
       ELSE UNCHANGED toolVars
    /\ UNCHANGED <<fileVars, pc, takeover, victim, victimSock, seen>>

-----------------------------------------------------------------------------
(* The monitor: the first write, the idle array, the array that was         *)
(* stopped, and the exit. Told to terminate it lets a clean array go.       *)

MarkDirty(p) ==
    /\ acts[p] /\ array = "clean"
    /\ array' = "dirty"
    /\ UNCHANGED <<fileVars, procVars, toolVars>>

MarkClean(p) ==
    /\ acts[p] /\ array = "dirty"
    /\ array' = "clean"
    /\ acts' = [acts EXCEPT ![p] = signal[p] # "seen"]
    /\ UNCHANGED <<fileVars, pc, takeover, victim, victimSock, signal, seen, ready, toolVars>>

LetGo(p) ==
    /\ acts[p]
    /\ array = "none" \/ (signal[p] = "seen" /\ array # "dirty")
    /\ acts' = [acts EXCEPT ![p] = FALSE]
    /\ UNCHANGED <<fileVars, pc, takeover, victim, victimSock, signal, seen, ready, array,
                   toolVars>>

TakingOver(q, p) == victim[q] = p /\ pc[q] \in Starting \cup {"victim", "wait"}

\* Mutant: SIGTERM or not.
LeaveNoFiles(p) == pidfile' = NoProc /\ sockfile' = NoProc

\* Without SIGTERM the files are removed, whoever made them.
LeaveFiles(p) ==
    IF signal[p] = "seen" THEN UNCHANGED fileVars
    ELSE pidfile' = NoProc /\ sockfile' = NoProc

\* Mutant: the container is not asked for.
IdleUnasked(p)  == pc[p] = "managing" /\ ready[p] /\ ~acts[p]

\* Nothing to look after, and the container is not held open exclusively.
Idle(p) == pc[p] = "managing" /\ ready[p] /\ ~acts[p] /\ ~excl

Exit(p) ==
    /\ Idle(p)
    /\ signal[p] = "seen" \/ "crossed" \in Happens \/ \A q \in Mdmon : ~TakingOver(q, p)
    /\ signal[p] = "seen" \/ "unheld" \in Happens \/ excl \/ tool \notin {"connect", "ping"}
    /\ LeaveFiles(p)
    /\ Gone(p, "exited")
    /\ UNCHANGED <<array, toolVars>>

-----------------------------------------------------------------------------
(* mdadm.                                                                   *)

MdmonRunning == Alive(pidfile)

\* Create: the container is held from before the check until after the ping.
CreateArray ==
    /\ tool = "idle" /\ array = "none"
    /\ excl' = TRUE
    /\ tool' = IF MdmonRunning THEN "connect" ELSE "start"
    /\ array' = "fresh"
    /\ UNCHANGED <<fileVars, procVars, peer>>

\* assemble_container_content holds nothing, and checks after it started the array.
AssembleArray ==
    /\ tool = "idle" /\ array = "none"
    /\ array' = "fresh" /\ tool' = "check"
    /\ UNCHANGED <<fileVars, procVars, excl, peer>>

CheckMdmon ==
    /\ tool = "check"
    /\ tool' = IF MdmonRunning THEN "connect" ELSE "start"
    /\ UNCHANGED <<fileVars, procVars, array, excl, peer>>

\* systemd starts it with --takeover, mdadm itself without.
StartMdmon(p, t) ==
    /\ tool = "start"
    /\ Launch(p, t)
    /\ tool' = "starting" /\ peer' = p
    /\ UNCHANGED excl

MdmonStarted ==
    /\ tool = "starting" /\ pc[peer] \notin Starting
    /\ tool' = "connect" /\ peer' = NoProc
    /\ UNCHANGED <<fileVars, procVars, array, excl>>

PingMonitor ==
    /\ tool = "connect"
    /\ IF Reached # NoProc
       THEN tool' = "ping" /\ peer' = Reached /\ UNCHANGED excl
       ELSE tool' = "idle" /\ excl' = FALSE /\ UNCHANGED peer
    /\ UNCHANGED <<fileVars, procVars, array>>

PingLost ==
    /\ tool = "ping" /\ (~Alive(peer) \/ "slow" \in Happens)
    /\ tool' = "idle" /\ peer' = NoProc /\ excl' = FALSE
    /\ UNCHANGED <<fileVars, procVars, array>>

-----------------------------------------------------------------------------
(* The world around.                                                        *)

StopArray ==
    /\ "stop" \in Happens /\ tool = "idle" /\ array \in {"fresh", "clean"}
    /\ array' = "none"
    /\ UNCHANGED <<fileVars, procVars, toolVars>>

Kill(p) ==
    /\ Alive(p)
    /\ IF pc[p] = "managing" THEN "kill" \in Happens ELSE "killearly" \in Happens
    /\ Gone(p, "killed")
    /\ UNCHANGED <<fileVars, array, toolVars>>

-----------------------------------------------------------------------------
Own(p) ==
    \/ Look(p) \/ RemoveStale(p) \/ MakePidfile(p) \/ MakeControlSock(p)
    \/ TryKillMonitor(p) \/ VictimGone(p) \/ ReadMdstat(p) \/ ManagerTurn(p)

Tool ==
    \/ CheckMdmon \/ MdmonStarted \/ PingMonitor \/ PingLost
    \/ \E p \in Mdmon, t \in BOOLEAN : StartMdmon(p, t)

Next ==
    \/ Tool \/ CreateArray \/ AssembleArray \/ StopArray
    \/ \E p \in Mdmon :
          \/ Own(p) \/ TakeOver(p) \/ MarkDirty(p) \/ MarkClean(p) \/ LetGo(p) \/ Exit(p)
          \/ Kill(p)

Spec == Init /\ [][Next]_vars

\* Nothing here waits for a user but MarkDirty: an array that stays idle for
\* the safe-mode delay is marked clean, and the monitor polls for the container.
FairSpec ==
    /\ Spec
    /\ WF_vars(Tool)
    /\ \A p \in Mdmon : WF_vars(Own(p)) /\ WF_vars(MarkClean(p)) /\ WF_vars(LetGo(p))
                        /\ WF_vars(Exit(p))

-----------------------------------------------------------------------------
\* Two monitors never look after the same array: each would write metadata
\* the other does not know of (mdmon.c, try_kill_monitor: "Wait for monitor
\* to exit fully to avoid races").
OneActs == \A p, q \in Mdmon : acts[p] /\ acts[q] => p = q

\* The mdmon that looks after the array is the one mdadm finds: unless another
\* takes over or it was told to terminate both files name it, so that mdadm neither starts a second
\* nor sends its updates to one that is leaving.
Reachable == \A p \in Mdmon :
    acts[p] /\ signal[p] = "none" =>
        (pidfile = p /\ sockfile = p) \/ \E q \in Mdmon : TakingOver(q, p)

\* An array that was started gets its mdmon, or is stopped, if no mdmon is
\* killed (and one is left to be started): a take-over, or an mdmon that leaves because
\* it had nothing to do, never leaves the array without one.
Interfered ==
    \/ \E p \in Mdmon : pc[p] = "killed"
    \/ tool = "start" /\ \A q \in Mdmon : pc[q] # "none"
Watched == (array # "none") ~> (array = "none" \/ Interfered \/ \E p \in Mdmon : acts[p])
=============================================================================
