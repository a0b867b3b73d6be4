--------------------------- MODULE UpdateChannel ---------------------------
(***************************************************************************)
(* The way of a metadata update from mdadm to the disks: flush_metadata_-  *)
(* updates in util.c, the socket protocol of msg.c, the manager that       *)
(* queues it (read_sock, handle_message, check_update_queue in             *)
(* managemon.c) and the monitor that applies it (wait_and_act in           *)
(* monitor.c).  The threads share update_queue, update_queue_pending,      *)
(* update_queue_handled and monitor_loop_cnt without a lock, and wake each *)
(* other with SIGUSR1, which is blocked except while they wait.            *)
(***************************************************************************)
EXTENDS Naturals, Sequences, SequencesExt, FiniteSets

CONSTANTS Client,    \* mdadm processes, each flushing once
          PerFlush,  \* updates in one flush
          Happens    \* "slow": a client may be slower than 3 seconds;
                     \* "sigterm": mdmon is told to terminate; "kill": it is killed

ASSUME ClientAssumption == IsFiniteSet(Client) /\ "manager" \notin Client
ASSUME PerFlushAssumption == PerFlush \in Nat \ {0}
ASSUME HappensAssumption == Happens \subseteq {"slow", "sigterm", "kill"}

\* An update is named by who sent it and its number.
Update  == Client \X (1..PerFlush) \cup {<<"manager", 1>>}
Ping    == 0
NoClient == "nobody"

VARIABLES
    pending, queue, handled,  \* the three lists
    applied,                  \* the updates processed, in order
    disk,                     \* the updates on the disks
    mon,                      \* the monitor's place; in "select" the count is odd
    sigMon, sigMgr,           \* SIGUSR1 is pending for the thread
    mgr,                      \* the manager's place
    emptied,                  \* check_update_queue has freed update_queue_handled
    serving,                  \* the client whose connection is served
    togo,                     \* monitor_loop_cnt still to go before a ping is answered
    sigterm,
    client,                   \* where each client is
    sent,                     \* the number of updates a client has sent
    inbox,                    \* message on its way to mdmon: number, Ping, or none
    acked                     \* the updates acknowledged

lists   == <<pending, queue, handled>>
store   == <<applied, disk>>
monVars == <<mon, sigMon>>
mgrVars == <<mgr, emptied, sigMgr, serving, togo>>
cliVars == <<client, sent, inbox, acked>>
vars    == <<lists, store, monVars, mgrVars, sigterm, cliVars>>

NoMessage == PerFlush + 1

TypeOK ==
    /\ pending \in Seq(Update) /\ queue \in Seq(Update) /\ handled \in Seq(Update)
    /\ applied \in Seq(Update) /\ disk \subseteq Update
    /\ mon \in {"select", "check", "apply", "pass_back", "clear", "sync", "act", "dead"}
    /\ sigMon \in BOOLEAN /\ sigMgr \in BOOLEAN /\ sigterm \in BOOLEAN
    /\ mgr \in {"top", "manage", "update_wait", "accept", "serve", "ping_queue",
                "ping_count", "ping_wait", "push", "choose_wait", "wait_all",
                "wait_signal", "dead"}
    /\ emptied \in BOOLEAN
    /\ serving \in Client \cup {NoClient}
    /\ togo \in 0..3
    /\ client \in [Client -> {"start", "ready", "waiting", "pinging", "done", "failed"}]
    /\ sent \in [Client -> 0..PerFlush]
    /\ inbox \in [Client -> 0..NoMessage]
    /\ acked \subseteq Update

-----------------------------------------------------------------------------
(* The monitor thread.                                                     *)

\* monitor_loop_cnt is counted up before and after pselect.
Counted == togo' = IF togo > 0 THEN togo - 1 ELSE 0
MonitorGoes(from, to) == mon = from /\ mon' = to

Select ==
    /\ MonitorGoes("act", "select")
    /\ Counted
    /\ UNCHANGED <<lists, store, sigMon, mgr, emptied, sigMgr, serving, sigterm, cliVars>>

\* pselect lets the signal in.
Signalled ==
    /\ MonitorGoes("select", "check")
    /\ sigMon /\ sigMon' = FALSE
    /\ Counted
    /\ UNCHANGED <<lists, store, mgr, emptied, sigMgr, serving, sigterm, cliVars>>

\* An attribute of an array changes, or the timeout passes.
Notified ==
    /\ MonitorGoes("select", "check")
    /\ Counted
    /\ UNCHANGED <<lists, store, sigMon, mgr, emptied, sigMgr, serving, sigterm, cliVars>>

CheckQueue ==
    /\ MonitorGoes("check", IF queue = <<>> THEN "act" ELSE "apply")
    /\ UNCHANGED <<lists, store, sigMon, mgrVars, sigterm, cliVars>>

Apply ==
    /\ MonitorGoes("apply", "pass_back")
    /\ applied' = applied \o queue
    /\ UNCHANGED <<lists, disk, sigMon, mgrVars, sigterm, cliVars>>

PassBack ==
    /\ MonitorGoes("pass_back", "clear")
    /\ handled' = queue
    /\ UNCHANGED <<pending, queue, store, sigMon, mgrVars, sigterm, cliVars>>

Clear ==
    /\ MonitorGoes("clear", "sync")
    /\ queue' = <<>>
    /\ sigMgr' = TRUE
    /\ UNCHANGED <<pending, handled, store, sigMon, mgr, emptied, serving,
                   togo, sigterm, cliVars>>

SyncMetadata ==
    /\ MonitorGoes("sync", "act")
    /\ disk' = ToSet(applied)
    /\ UNCHANGED <<lists, applied, sigMon, mgrVars, sigterm, cliVars>>

-----------------------------------------------------------------------------
(* The manager thread.                                                     *)

ManagerGoes(from, to) == mgr = from /\ mgr' = to

ListsEmpty == pending = <<>> /\ queue = <<>>

\* check_update_queue: first it frees what was handled, then it looks whether
\* the monitor has taken the last batch.
FreeHandled ==
    /\ ~emptied
    /\ mgr = "push" \/ (mgr \in {"update_wait", "ping_queue"} /\ ~ListsEmpty)
    /\ emptied' = TRUE
    /\ handled' = <<>>
    /\ UNCHANGED <<pending, queue, store, monVars, mgr, sigMgr, serving, togo,
                   sigterm, cliVars>>

BatchReady == queue = <<>> /\ pending # <<>>

\* Mutant of MoveBatch: the monitor is not woken.
MoveBatchSilently(terminating) ==
    /\ IF BatchReady THEN queue' = pending /\ pending' = <<>>
                     ELSE UNCHANGED <<queue, pending>>
    /\ sigMon' = (sigMon \/ terminating)

MoveBatch(terminating) ==
    /\ IF BatchReady THEN queue' = pending /\ pending' = <<>>
                     ELSE UNCHANGED <<queue, pending>>
    /\ sigMon' = (sigMon \/ BatchReady \/ terminating)

\* One turn of a loop "while (update_queue_pending || update_queue)".
WaitTurn ==
    /\ mgr \in {"update_wait", "ping_queue"} /\ emptied
    /\ emptied' = FALSE
    /\ MoveBatch(FALSE)
    /\ UNCHANGED <<handled, store, mon, mgr, sigMgr, serving, togo, sigterm,
                   cliVars>>

WaitEnds ==
    /\ ~emptied /\ ListsEmpty
    /\ \/ ManagerGoes("update_wait", "accept")
       \/ ManagerGoes("ping_queue", "ping_count")
    /\ UNCHANGED <<lists, store, monVars, emptied, sigMgr, serving, togo, sigterm, cliVars>>

\* Mutant of Top: update_queue is not looked at.
TopUnchecked ==
    /\ ManagerGoes("top", "manage")
    /\ UNCHANGED <<lists, store, monVars, emptied, sigMgr, serving, togo, sigterm, cliVars>>

\* "Can only 'manage' things if 'monitor' is not making structural changes".
Top ==
    /\ ManagerGoes("top", IF queue = <<>> THEN "manage" ELSE "push")
    /\ UNCHANGED <<lists, store, monVars, emptied, sigMgr, serving, togo, sigterm, cliVars>>

\* Mutant of Queued: the update is put at the head.
QueuedFirst(list, u) == <<u>> \o list
\* Mutant of Queued: the rest of the list is lost.
QueuedAlone(list, u) == <<u>>
\* queue_metadata_update: at the end of the list.
Queued(list, u) == Append(list, u)

OwnUpdate == <<"manager", 1>>
HasOwnUpdate == OwnUpdate \notin ToSet(pending \o queue \o applied)

\* manage: nothing to do, a disk was added to the container, or a spare is
\* activated, which waits for its update when none is under way.
Manage ==
    /\ mgr = "manage"
    /\ \/ mgr' = "accept" /\ UNCHANGED pending
       \/ HasOwnUpdate /\ mgr' = "accept" /\ pending' = Queued(pending, OwnUpdate)
       \/ /\ HasOwnUpdate /\ queue = <<>> /\ pending = <<>>
          /\ mgr' = "update_wait" /\ pending' = <<OwnUpdate>>
    /\ UNCHANGED <<queue, handled, store, monVars, emptied, sigMgr, serving,
                   togo, sigterm, cliVars>>

Connected(c) == client[c] \in {"ready", "waiting", "pinging"}

Accept ==
    /\ mgr = "accept"
    /\ \/ \E c \in Client : Connected(c) /\ serving' = c /\ mgr' = "serve"
       \/ (\A c \in Client : ~Connected(c)) /\ mgr' = "push" /\ UNCHANGED serving
    /\ UNCHANGED <<lists, store, monVars, emptied, sigMgr, togo, sigterm, cliVars>>

Reply(c, state) == client' = [client EXCEPT ![c] = state]

\* handle_message with an update: it is queued, and acknowledged.  After
\* SIGTERM it is acknowledged all the same.
HandleUpdate ==
    /\ mgr = "serve" /\ serving # NoClient
    /\ inbox[serving] \in 1..PerFlush
    /\ LET u == <<serving, inbox[serving]>> IN
          /\ pending' = IF sigterm THEN pending ELSE Queued(pending, u)
          /\ acked' = acked \cup {u}
    /\ inbox' = [inbox EXCEPT ![serving] = NoMessage]
    /\ Reply(serving, "ready")
    /\ UNCHANGED <<queue, handled, store, monVars, mgrVars, sigterm, sent>>

\* Mutant of HandlePing: the lists are not waited for.
HandlePingAtOnce ==
    /\ ManagerGoes("serve", "ping_count")
    /\ serving # NoClient /\ inbox[serving] = Ping
    /\ UNCHANGED <<lists, store, monVars, emptied, sigMgr, serving, togo, sigterm, cliVars>>

\* handle_message with a ping: wait until the lists are empty, then for the
\* monitor to reach pselect once or, if it is not waiting there now, twice.
HandlePing ==
    /\ ManagerGoes("serve", "ping_queue")
    /\ serving # NoClient /\ inbox[serving] = Ping
    /\ UNCHANGED <<lists, store, monVars, emptied, sigMgr, serving, togo, sigterm, cliVars>>

CountLoops ==
    /\ ManagerGoes("ping_count", "ping_wait")
    /\ togo' = IF mon = "select" THEN 2 ELSE 3
    /\ sigMon' = TRUE
    /\ UNCHANGED <<lists, store, mon, emptied, sigMgr, serving, sigterm, cliVars>>

AnswerPing ==
    /\ ManagerGoes("ping_wait", "serve")
    /\ togo = 0
    /\ inbox' = [inbox EXCEPT ![serving] = NoMessage]
    /\ Reply(serving, "done")
    /\ UNCHANGED <<lists, store, monVars, emptied, sigMgr, serving, togo, sigterm, sent,
                   acked>>

\* The connection is closed when the client closes it, or when it has sent
\* nothing for 3 seconds: then its next message is a write to a closed socket
\* and SIGPIPE ends it.
Close ==
    /\ ManagerGoes("serve", "push")
    /\ serving # NoClient /\ serving' = NoClient
    /\ \/ client[serving] = "done" /\ UNCHANGED client
       \/ /\ "slow" \in Happens
          /\ client[serving] = "ready"
          /\ Reply(serving, "failed")
    /\ UNCHANGED <<lists, store, monVars, emptied, sigMgr, togo, sigterm, sent, inbox, acked>>

\* The end of do_manager's loop; a terminating manager wakes the monitor.
Push ==
    /\ ManagerGoes("push", "choose_wait")
    /\ emptied /\ emptied' = FALSE
    /\ MoveBatch(sigterm)
    /\ UNCHANGED <<handled, store, mon, sigMgr, serving, togo, sigterm, cliVars>>

\* "If an update is happening, just wait for signal".
ChooseWait ==
    /\ ManagerGoes("choose_wait", IF queue = <<>> THEN "wait_all" ELSE "wait_signal")
    /\ UNCHANGED <<lists, store, monVars, emptied, sigMgr, serving, togo, sigterm, cliVars>>

Woken ==
    /\ \/ mgr \in {"wait_all", "wait_signal"} /\ sigMgr
       \/ mgr = "wait_all" /\ \E c \in Client : Connected(c)
       \/ mgr = "wait_all" /\ HasOwnUpdate       \* /proc/mdstat changed
    /\ mgr' = "top"
    /\ sigMgr' = FALSE
    /\ UNCHANGED <<lists, store, monVars, emptied, serving, togo, sigterm, cliVars>>

-----------------------------------------------------------------------------
(* mdadm: flush_metadata_updates.                                          *)

Connect(c) ==
    /\ client[c] = "start"
    /\ client' = [client EXCEPT ![c] = IF mgr = "dead" THEN "failed" ELSE "ready"]
    /\ UNCHANGED <<lists, store, monVars, mgrVars, sigterm, sent, inbox, acked>>

SendUpdate(c) ==
    /\ client[c] = "ready" /\ sent[c] < PerFlush
    /\ client' = [client EXCEPT ![c] = "waiting"]
    /\ sent' = [sent EXCEPT ![c] = @ + 1]
    /\ inbox' = [inbox EXCEPT ![c] = sent'[c]]
    /\ UNCHANGED <<lists, store, monVars, mgrVars, sigterm, acked>>

SendPing(c) ==
    /\ client[c] = "ready" /\ sent[c] = PerFlush
    /\ client' = [client EXCEPT ![c] = "pinging"]
    /\ inbox' = [inbox EXCEPT ![c] = Ping]
    /\ UNCHANGED <<lists, store, monVars, mgrVars, sigterm, sent, acked>>

-----------------------------------------------------------------------------

SigTerm ==
    /\ "sigterm" \in Happens /\ ~sigterm /\ mgr # "dead"
    /\ sigterm' = TRUE
    /\ UNCHANGED <<lists, store, monVars, mgrVars, cliVars>>

\* mdmon is gone.  A client that waits for the answer to its ping returns as if
\* it had come; another that was connected has a message left to send.
Gone ==
    /\ mon' = "dead" /\ mgr' = "dead" /\ serving' = NoClient
    /\ pending' = <<>> /\ queue' = <<>> /\ handled' = <<>>
    /\ togo' = 0 /\ sigMon' = FALSE /\ sigMgr' = FALSE /\ emptied' = FALSE
    /\ client' = [c \in Client |-> CASE client[c] = "pinging" -> "done"
                                   [] client[c] \in {"ready", "waiting"} -> "failed"
                                   [] OTHER -> client[c]]
    /\ UNCHANGED <<store, sigterm, sent, inbox, acked>>

Killed == "kill" \in Happens /\ mgr # "dead" /\ Gone
\* The monitor leaves before it waits again, whatever is still queued.
Exit == sigterm /\ mon = "act" /\ Gone

Init ==
    /\ pending = <<>> /\ queue = <<>> /\ handled = <<>>
    /\ applied = <<>> /\ disk = {}
    /\ mon = "check" /\ sigMon = FALSE /\ sigMgr = FALSE
    /\ mgr = "top" /\ emptied = FALSE /\ serving = NoClient /\ togo = 0
    /\ sigterm = FALSE
    /\ client = [c \in Client |-> "start"]
    /\ sent = [c \in Client |-> 0]
    /\ inbox = [c \in Client |-> NoMessage]
    /\ acked = {}

MonitorStep == \/ Select \/ Signalled \/ CheckQueue \/ Apply \/ PassBack \/ Clear
               \/ SyncMetadata
ManagerStep == \/ Top \/ Manage \/ Accept \/ HandleUpdate \/ HandlePing \/ CountLoops
               \/ AnswerPing \/ FreeHandled \/ WaitTurn \/ WaitEnds \/ Close \/ Push
               \/ ChooseWait \/ Woken
ClientStep(c) == Connect(c) \/ SendUpdate(c) \/ SendPing(c)

Next == \/ MonitorStep \/ Notified \/ ManagerStep
        \/ \E c \in Client : ClientStep(c)
        \/ SigTerm \/ Killed \/ Exit

Spec == Init /\ [][Next]_vars

\* No thread stops; the monitor need not be notified of anything but a signal.
FairSpec == /\ Spec /\ WF_vars(MonitorStep) /\ WF_vars(ManagerStep)
            /\ \A c \in Client : WF_vars(ClientStep(c))

-----------------------------------------------------------------------------

\* "When the monitor thread has completed the update and written it to the
\* devices, an acknowledgement message is sent back" (mdmon-design.txt).
AckedIsWritten == acked \subseteq disk

Serving == mon # "dead" /\ ~sigterm

\* While mdmon serves, a flush_metadata_updates that returned 0 has its updates
\* on the disks: the ping waits for the lists to empty and for the monitor to
\* come by.  (A client whose connection is lost after its last update, or whose
\* update comes after SIGTERM, is told the same: that is outside this promise.)
FlushedIsWritten ==
    Serving => \A c \in Client :
        client[c] = "done" => \A n \in 1..PerFlush : <<c, n>> \in disk

\* While mdmon serves, an update that was acknowledged is on its way or applied,
\* although the two lists change hands without a lock; and none is ever applied
\* twice.
AckedIsKept ==
    /\ Serving => acked \subseteq ToSet(pending \o queue \o applied)
    /\ \A i, j \in DOMAIN applied : applied[i] = applied[j] => i = j

\* Updates of one client are applied in the order in which it sent them.
AppliedInOrder ==
    \A i, j \in DOMAIN applied :
        applied[i][1] = applied[j][1] /\ applied[i][2] < applied[j][2] => i < j

\* "Can only 'manage' things if 'monitor' is not making structural changes to
\* metadata": while the manager looks at the metadata no update is applied.
ManagerAlone == mgr \in {"manage", "accept", "serve"} => mon \notin {"apply", "pass_back"}

\* Every flush returns, and every ping is answered: no wake-up is lost.
FlushReturns == \A c \in Client : Connected(c) ~> ~Connected(c)
=============================================================================
